---------------------------- MODULE RepliesProofs ----------------------------
(***************************************************************************)
(* That a request's answers say the same thing, however its text is split  *)
(* into outputs, for every alphabet, every tag, every set of calls and of  *)
(* stop sequences:                                                         *)
(*                                                                         *)
(*   - OnlyTheCutIsShown: the filter releases the text up to the start of  *)
(*     the first stop sequence (invariant Filtered);                       *)
(*   - StreamIsTheBody: the frames of the OpenAI stream assemble to the    *)
(*     answer without streaming (invariant Assembled: a push of two pieces *)
(*     is two pushes, since a round of the parser and text that comes      *)
(*     later commute);                                                     *)
(*   - BlocksAreTheBody, BlocksAreNested: so do the blocks of the          *)
(*     Anthropic stream, which nest (invariant Streamed);                  *)
(*   - NothingLost: the answer is the text without its calls.              *)
(*                                                                         *)
(* No induction over data is needed.  A recursive function is a choice of  *)
(* a table, so a property of its values follows once such a table exists;  *)
(* induction over numbers is the statement that a set of counterexamples   *)
(* without a least member is empty; and what the rounds of the parser lead *)
(* to is what lies in every set that they do not leave.                    *)
(***************************************************************************)
EXTENDS Replies, TLAPS, WellFoundedInduction, SequenceTheorems

-----------------------------------------------------------------------------

-----------------------------------------------------------------------------
(* Numbers. *)

LEMMA LeastNumber ==
  ASSUME NEW S, S \subseteq Nat, S # {}
  PROVE  \E x \in S : \A y \in S : x <= y
<1>1. PICK x \in S : \A y \in S : ~ (<<y, x>> \in OpToRel(<, Nat))
  BY NatLessThanWellFounded, WFMin
<1>2. ASSUME NEW y \in S, y < x PROVE FALSE
  <2>1. <<y, x>> \in Nat \X Nat /\ <<y, x>>[1] < <<y, x>>[2]
    BY <1>2
  <2>2. <<y, x>> \in OpToRel(<, Nat)
    BY <2>1, Zenon DEF OpToRel
  <2> QED
    BY <1>1, <2>2
<1> QED
  BY <1>2

LEMMA GreatestNumber ==
  ASSUME NEW n \in Nat, NEW S, S \subseteq 0 .. n, S # {}
  PROVE  \E x \in S : \A y \in S : x >= y
<1> DEFINE T == {n - y : y \in S}
<1>0. \A y \in S : y \in Int /\ n - y \in Nat
  OBVIOUS
<1>1. T \subseteq Nat /\ T # {}
  BY <1>0, Zenon
<1>2. PICK m \in T : \A t \in T : m <= t
  BY <1>1, LeastNumber
<1>3. PICK x \in S : m = n - x
  BY <1>2
<1>4. ASSUME NEW y \in S PROVE x >= y
  <2>1. n - y \in T
    OBVIOUS
  <2> HIDE DEF T
  <2>2. n - x <= n - y
    BY <1>2, <1>3, <2>1
  <2> QED
    BY <1>0, <2>2
<1> QED
  BY <1>4

\* Both Min and Max are the members that they are meant to be.
LEMMA MinIs ==
  ASSUME NEW S, S \subseteq Nat, NEW x \in S, \A y \in S : x <= y
  PROVE  Min(S) = x /\ F!Min(S) = x
<1>1. \E z \in S : \A y \in S : z <= y
  OBVIOUS
<1>2. Min(S) \in S /\ \A y \in S : Min(S) <= y
  BY <1>1 DEF Min
<1>3. F!Min(S) \in S /\ \A y \in S : F!Min(S) <= y
  BY <1>1 DEF F!Min
<1>4. \A z \in S : (\A y \in S : z <= y) => z = x
  OBVIOUS
<1> QED
  BY <1>2, <1>3, <1>4, Zenon

LEMMA MaxIs ==
  ASSUME NEW S, S \subseteq Nat, NEW x \in S, \A y \in S : x >= y
  PROVE  Max(S) = x /\ F!Max(S) = x
<1>1. \E z \in S : \A y \in S : z >= y
  OBVIOUS
<1>2. Max(S) \in S /\ \A y \in S : Max(S) >= y
  BY <1>1 DEF Max
<1>3. F!Max(S) \in S /\ \A y \in S : F!Max(S) >= y
  BY <1>1 DEF F!Max
<1>4. \A z \in S : (\A y \in S : z >= y) => z = x
  OBVIOUS
<1> QED
  BY <1>2, <1>3, <1>4, Zenon

\* Induction over the numbers, as a statement about the set of counterexamples.
LEMMA NoCounterexample ==
  ASSUME NEW B, B \subseteq Nat, 0 \notin B,
         \A n \in Nat : n \notin B => n + 1 \notin B
  PROVE  B = {}
<1> SUFFICES ASSUME B # {} PROVE FALSE
  OBVIOUS
<1>1. PICK n \in B : \A y \in B : n <= y
  BY LeastNumber
<1>2. n # 0 /\ n - 1 \in Nat
  BY <1>1
<1>3. n - 1 \notin B
  BY <1>1, <1>2
<1>4. (n - 1) + 1 \notin B
  BY <1>2, <1>3
<1> QED
  BY <1>1, <1>4

-----------------------------------------------------------------------------
(* Pieces of sequences. *)

\* The first n elements of t, and those behind them.
Upto(t, n) == SubSeq(t, 1, n)
From(t, n) == F!Drop(t, n)

LEMMA UptoProperties ==
  ASSUME NEW S, NEW t \in Seq(S), NEW n \in 0 .. Len(t)
  PROVE  /\ Upto(t, n) \in Seq(S)
         /\ Len(Upto(t, n)) = n
         /\ \A i \in 1 .. n : Upto(t, n)[i] = t[i]
         /\ n \in Nat /\ Len(t) \in Nat
<1>1. Len(t) \in Nat /\ n \in Nat /\ \A i \in 1 .. n : t[i] \in S
  BY LenProperties, ElementOfSeq
<1>2. /\ SubSeq(t, 1, n) \in Seq(S)
      /\ Len(SubSeq(t, 1, n)) = IF 1 <= n THEN n - 1 + 1 ELSE 0
      /\ \A i \in 1 .. n - 1 + 1 : SubSeq(t, 1, n)[i] = t[1 + i - 1]
  BY <1>1, SubSeqProperties
<1>3. n - 1 + 1 = n /\ \A i \in 1 .. n : 1 + i - 1 = i
  BY <1>1
<1> DEFINE b == SubSeq(t, 1, n)
<1> HIDE DEF b
<1>4. b \in Seq(S) /\ Len(b) = n /\ \A i \in 1 .. n : b[i] = t[i]
  BY <1>1, <1>2, <1>3 DEF b
<1> QED
  BY <1>1, <1>4 DEF b, Upto

LEMMA FromProperties ==
  ASSUME NEW S, NEW t \in Seq(S), NEW n \in 0 .. Len(t)
  PROVE  /\ From(t, n) \in Seq(S)
         /\ Len(From(t, n)) = Len(t) - n
         /\ \A i \in 1 .. Len(t) - n : From(t, n)[i] = t[n + i]
         /\ n \in Nat /\ Len(t) \in Nat /\ Len(t) - n \in Nat
<1>1. Len(t) \in Nat /\ n \in Nat /\ Len(t) - n \in Nat
  BY LenProperties
<1> DEFINE m == Len(t)
<1>2. m \in Nat /\ n \in 0 .. m
  BY <1>1
<1>3. \A i \in n + 1 .. m : t[i] \in S
  <2> SUFFICES ASSUME NEW i \in n + 1 .. m PROVE t[i] \in S
    OBVIOUS
  <2>1. i \in 1 .. Len(t)
    BY <1>2
  <2> QED
    BY <2>1, ElementOfSeq
<1>4. /\ SubSeq(t, n + 1, m) \in Seq(S)
      /\ Len(SubSeq(t, n + 1, m)) = IF n + 1 <= m THEN m - (n + 1) + 1 ELSE 0
      /\ \A i \in 1 .. m - (n + 1) + 1 : SubSeq(t, n + 1, m)[i] = t[(n + 1) + i - 1]
  <2> HIDE DEF m
  <2>1. n + 1 \in Int /\ m \in Int
    BY <1>2
  <2> QED
    BY <1>3, <2>1, SubSeqProperties
<1> DEFINE b == SubSeq(t, n + 1, m)
<1> HIDE DEF b, m
<1>5. m - (n + 1) + 1 = m - n /\ \A i \in 1 .. m - n : (n + 1) + i - 1 = n + i
  BY <1>2
<1>6. b \in Seq(S) /\ Len(b) = m - n /\ \A i \in 1 .. m - n : b[i] = t[n + i]
  BY <1>2, <1>4, <1>5 DEF b
<1> QED
  BY <1>1, <1>6 DEF b, m, From, F!Drop

\* A concatenation by its halves.
LEMMA Halves ==
  ASSUME NEW S, NEW a \in Seq(S), NEW b \in Seq(S)
  PROVE  /\ a \o b \in Seq(S)
         /\ Len(a \o b) = Len(a) + Len(b)
         /\ \A i \in 1 .. Len(a) : (a \o b)[i] = a[i]
         /\ \A i \in 1 .. Len(b) : (a \o b)[Len(a) + i] = b[i]
         /\ Len(a) \in Nat /\ Len(b) \in Nat
<1>1. Len(a) \in Nat /\ Len(b) \in Nat
  BY LenProperties
<1>2. /\ a \o b \in Seq(S) /\ Len(a \o b) = Len(a) + Len(b)
      /\ \A i \in 1 .. Len(a) + Len(b) :
           (a \o b)[i] = IF i <= Len(a) THEN a[i] ELSE b[i - Len(a)]
  BY ConcatProperties
<1>3. \A i \in 1 .. Len(a) : (a \o b)[i] = a[i]
  BY <1>1, <1>2
<1>4. ASSUME NEW i \in 1 .. Len(b) PROVE (a \o b)[Len(a) + i] = b[i]
  <2>1. /\ Len(a) + i \in 1 .. Len(a) + Len(b) /\ ~ (Len(a) + i <= Len(a))
        /\ (Len(a) + i) - Len(a) = i
    BY <1>1
  <2> QED
    BY <1>2, <2>1
<1> QED
  BY <1>1, <1>2, <1>3, <1>4

\* A sequence is a concatenation if its halves are those.
LEMMA IsConcatenation ==
  ASSUME NEW S, NEW a \in Seq(S), NEW b \in Seq(S), NEW t \in Seq(S),
         Len(t) = Len(a) + Len(b),
         \A i \in 1 .. Len(a) : t[i] = a[i],
         \A i \in 1 .. Len(b) : t[Len(a) + i] = b[i]
  PROVE  t = a \o b
<1> DEFINE c == a \o b
<1>1. /\ c \in Seq(S) /\ Len(c) = Len(a) + Len(b)
      /\ \A i \in 1 .. Len(a) : c[i] = a[i]
      /\ \A i \in 1 .. Len(b) : c[Len(a) + i] = b[i]
      /\ Len(a) \in Nat /\ Len(b) \in Nat
  BY Halves
<1> HIDE DEF c
<1>2. ASSUME NEW i \in 1 .. Len(t) PROVE t[i] = c[i]
  <2>1. CASE i <= Len(a)
    BY <1>1, <2>1
  <2>2. CASE i > Len(a)
    <3>1. i - Len(a) \in 1 .. Len(b) /\ Len(a) + (i - Len(a)) = i
      BY <1>1, <2>2
    <3> QED
      BY <1>1, <3>1
  <2> QED
    BY <1>1, <2>1, <2>2
<1>3. t = c
  BY <1>1, <1>2, SeqEqual
<1> QED
  BY <1>3 DEF c

\* Both pieces make up the whole.
LEMMA Rejoined ==
  ASSUME NEW S, NEW t \in Seq(S), NEW n \in 0 .. Len(t)
  PROVE  Upto(t, n) \o From(t, n) = t
<1> DEFINE a == Upto(t, n)
           b == From(t, n)
<1>1. a \in Seq(S) /\ Len(a) = n /\ \A i \in 1 .. n : t[i] = a[i]
  BY UptoProperties
<1>2. /\ b \in Seq(S) /\ Len(b) = Len(t) - n /\ n \in Nat /\ Len(t) \in Nat
      /\ \A i \in 1 .. Len(t) - n : t[n + i] = b[i]
  BY FromProperties
<1> HIDE DEF a, b
<1>3. /\ Len(t) = Len(a) + Len(b)
      /\ \A i \in 1 .. Len(a) : t[i] = a[i]
      /\ \A i \in 1 .. Len(b) : t[Len(a) + i] = b[i]
  BY <1>1, <1>2
<1>4. t = a \o b
  BY <1>1, <1>2, <1>3, IsConcatenation
<1> QED
  BY <1>4 DEF a, b

\* The pieces of a concatenation.
LEMMA PiecesOfConcatenation ==
  ASSUME NEW S, NEW a \in Seq(S), NEW b \in Seq(S)
  PROVE  Upto(a \o b, Len(a)) = a /\ From(a \o b, Len(a)) = b
<1> DEFINE c == a \o b
           n == Len(a)
<1>1. /\ c \in Seq(S) /\ Len(c) = Len(a) + Len(b)
      /\ \A i \in 1 .. Len(a) : c[i] = a[i]
      /\ \A i \in 1 .. Len(b) : c[Len(a) + i] = b[i]
      /\ Len(a) \in Nat /\ Len(b) \in Nat
  BY Halves
<1> HIDE DEF c
<1>2. Len(a) \in 0 .. Len(c)
  BY <1>1
<1> DEFINE x == Upto(c, n)
           y == From(c, n)
<1>3. x \in Seq(S) /\ Len(x) = n /\ \A i \in 1 .. n : x[i] = c[i]
  BY <1>1, <1>2, UptoProperties
<1>4. /\ y \in Seq(S) /\ Len(y) = Len(c) - n
      /\ \A i \in 1 .. Len(c) - n : y[i] = c[n + i]
  BY <1>1, <1>2, FromProperties
<1> HIDE DEF x, y
<1>5. x = a
  BY <1>1, <1>3, SeqEqual
<1>6. Len(y) = Len(b) /\ \A i \in 1 .. Len(y) : y[i] = b[i]
  BY <1>1, <1>4
<1>7. y = b
  BY <1>4, <1>6, SeqEqual
<1> QED
  BY <1>5, <1>7 DEF x, y, c

LEMMA Associative ==
  ASSUME NEW S, NEW a \in Seq(S), NEW b \in Seq(S), NEW c \in Seq(S)
  PROVE  (a \o b) \o c = a \o (b \o c)
BY ConcatAssociative

-----------------------------------------------------------------------------
(* Where a sequence of characters is, or may yet turn out to be, in a text. *)

\* Nothing in t speaks against part beginning behind the first i characters.
Fits(part, t, i) == \A k \in 1 .. Len(part) : i + k <= Len(t) => t[i + k] = part[k]

\* It is all there.
At(part, t, i) == i + Len(part) <= Len(t) /\ Fits(part, t, i)

\* No member of parts fits before c.
Clear(parts, t, c) == \A i \in Nat : i < c => \A s \in parts : ~Fits(s, t, i)

\* No member of parts is there at all.
Free(parts, t) == \A s \in parts : \A i \in Nat : ~At(s, t, i)

\* More text speaks against more, and moves nothing that is there.
LEMMA LongerTexts ==
  ASSUME NEW S, NEW s \in Seq(S), NEW a \in Seq(S), NEW b \in Seq(S), NEW i \in Nat
  PROVE  /\ Fits(s, a \o b, i) => Fits(s, a, i)
         /\ At(s, a, i) => At(s, a \o b, i)
         /\ i + Len(s) <= Len(a) => (Fits(s, a \o b, i) <=> Fits(s, a, i))
<1> DEFINE c == a \o b
<1>1. /\ Len(c) = Len(a) + Len(b)
      /\ \A j \in 1 .. Len(a) : c[j] = a[j]
      /\ Len(a) \in Nat /\ Len(b) \in Nat /\ Len(s) \in Nat
  BY Halves, LenProperties
<1> HIDE DEF c
<1>2. ASSUME Fits(s, c, i) PROVE Fits(s, a, i)
  <2> SUFFICES ASSUME NEW k \in 1 .. Len(s), i + k <= Len(a) PROVE a[i + k] = s[k]
    BY DEF Fits
  <2>1. i + k \in 1 .. Len(a) /\ i + k <= Len(c)
    BY <1>1
  <2> QED
    BY <1>1, <1>2, <2>1 DEF Fits
<1>3. ASSUME Fits(s, a, i), i + Len(s) <= Len(a) PROVE Fits(s, c, i)
  <2> SUFFICES ASSUME NEW k \in 1 .. Len(s), i + k <= Len(c) PROVE c[i + k] = s[k]
    BY DEF Fits
  <2>1. i + k \in 1 .. Len(a) /\ i + k <= Len(a)
    BY <1>1, <1>3
  <2> QED
    BY <1>1, <1>3, <2>1 DEF Fits
<1>4. ASSUME At(s, a, i) PROVE At(s, c, i)
  <2>1. i + Len(s) <= Len(a) /\ Fits(s, a, i)
    BY <1>4 DEF At
  <2>2. Fits(s, c, i)
    BY <1>3, <2>1
  <2>3. i + Len(s) <= Len(c)
    BY <1>1, <2>1
  <2> QED
    BY <2>2, <2>3 DEF At
<1> QED
  BY <1>2, <1>3, <1>4 DEF c

\* Text in front moves everything.
LEMMA Shifted ==
  ASSUME NEW S, NEW s \in Seq(S), NEW a \in Seq(S), NEW b \in Seq(S), NEW i \in Nat
  PROVE  /\ Fits(s, a \o b, Len(a) + i) <=> Fits(s, b, i)
         /\ At(s, a \o b, Len(a) + i) <=> At(s, b, i)
<1> DEFINE c == a \o b
<1>1. /\ Len(c) = Len(a) + Len(b)
      /\ \A j \in 1 .. Len(b) : c[Len(a) + j] = b[j]
      /\ Len(a) \in Nat /\ Len(b) \in Nat /\ Len(s) \in Nat
  BY Halves, LenProperties
<1> HIDE DEF c
<1>2. ASSUME NEW k \in 1 .. Len(s)
      PROVE  /\ (Len(a) + i) + k <= Len(c) <=> i + k <= Len(b)
             /\ i + k <= Len(b) => c[(Len(a) + i) + k] = b[i + k]
  <2>1. (Len(a) + i) + k <= Len(c) <=> i + k <= Len(b)
    BY <1>1
  <2>2. ASSUME i + k <= Len(b) PROVE c[(Len(a) + i) + k] = b[i + k]
    <3>1. i + k \in 1 .. Len(b) /\ (Len(a) + i) + k = Len(a) + (i + k)
      BY <1>1, <2>2
    <3> QED
      BY <1>1, <3>1
  <2> QED
    BY <2>1, <2>2
<1>3. Fits(s, c, Len(a) + i) <=> Fits(s, b, i)
  BY <1>2 DEF Fits
<1>4. (Len(a) + i) + Len(s) <= Len(c) <=> i + Len(s) <= Len(b)
  BY <1>1
<1> QED
  BY <1>3, <1>4 DEF At, c

\* What does not fit before c does not when more follows.
LEMMA ClearStays ==
  ASSUME NEW S, NEW parts \in SUBSET Seq(S), NEW a \in Seq(S), NEW b \in Seq(S),
         NEW c, Clear(parts, a, c)
  PROVE  Clear(parts, a \o b, c)
BY LongerTexts DEF Clear

\* Clear up to the end of a, and from there.
LEMMA ClearBoth ==
  ASSUME NEW S, NEW parts \in SUBSET Seq(S), NEW a \in Seq(S), NEW b \in Seq(S),
         Clear(parts, a \o b, Len(a)), NEW c \in Nat, Clear(parts, b, c)
  PROVE  Clear(parts, a \o b, Len(a) + c)
<1> SUFFICES ASSUME NEW i \in Nat, i < Len(a) + c, NEW s \in parts, Fits(s, a \o b, i)
             PROVE  FALSE
  BY DEF Clear
<1>1. Len(a) \in Nat
  BY LenProperties
<1>2. CASE i < Len(a)
  BY <1>2 DEF Clear
<1>3. CASE i >= Len(a)
  <2>1. i - Len(a) \in Nat /\ Len(a) + (i - Len(a)) = i /\ i - Len(a) < c
    BY <1>1, <1>3
  <2>2. Fits(s, b, i - Len(a))
    BY <2>1, Shifted
  <2> QED
    BY <2>1, <2>2 DEF Clear
<1> QED
  BY <1>1, <1>2, <1>3

\* Free of parts behind what is clear.
LEMMA FreeBoth ==
  ASSUME NEW S, NEW parts \in SUBSET Seq(S), NEW a \in Seq(S), NEW b \in Seq(S),
         Clear(parts, a \o b, Len(a)), Free(parts, b)
  PROVE  Free(parts, a \o b)
<1> SUFFICES ASSUME NEW i \in Nat, NEW s \in parts, At(s, a \o b, i)
             PROVE  FALSE
  BY DEF Free
<1>1. Len(a) \in Nat
  BY LenProperties
<1>2. CASE i < Len(a)
  BY <1>2 DEF Clear, At
<1>3. CASE i >= Len(a)
  <2>1. i - Len(a) \in Nat /\ Len(a) + (i - Len(a)) = i
    BY <1>1, <1>3
  <2>2. At(s, b, i - Len(a))
    BY <2>1, Shifted
  <2> QED
    BY <2>1, <2>2 DEF Free
<1> QED
  BY <1>1, <1>2, <1>3

-----------------------------------------------------------------------------
(* The operators of StopFilter in these terms. *)

LEMMA OffsetsAre ==
  ASSUME NEW S, NEW s \in Seq(S), NEW t \in Seq(S)
  PROVE  /\ F!Offsets(s, t) \subseteq Nat
         /\ \A i \in Nat : i \in F!Offsets(s, t) <=> At(s, t, i)
<1>1. Len(s) \in Nat /\ Len(t) \in Nat
  BY LenProperties
<1>2. F!Offsets(s, t) \subseteq Nat
  BY <1>1 DEF F!Offsets
<1>3. ASSUME NEW i \in 0 .. Len(t) - Len(s)
      PROVE  SubSeq(t, i + 1, i + Len(s)) = s <=> At(s, t, i)
  <2> DEFINE n == i + Len(s)
             u == SubSeq(t, i + 1, n)
  <2>1. i \in Nat /\ n \in Nat /\ n <= Len(t)
    BY <1>1, <1>3
  <2>2. \A j \in i + 1 .. n : t[j] \in S
    <3> SUFFICES ASSUME NEW j \in i + 1 .. n PROVE t[j] \in S
      OBVIOUS
    <3>1. j \in 1 .. Len(t)
      BY <1>1, <2>1
    <3> QED
      BY <3>1, ElementOfSeq
  <2>3. /\ u \in Seq(S)
        /\ Len(u) = IF i + 1 <= n THEN n - (i + 1) + 1 ELSE 0
        /\ \A k \in 1 .. n - (i + 1) + 1 : u[k] = t[(i + 1) + k - 1]
    <3> HIDE DEF n
    <3>1. i + 1 \in Int /\ n \in Int
      BY <2>1
    <3> QED
      BY <2>2, <3>1, SubSeqProperties
  <2> HIDE DEF u
  <2>4. /\ n - (i + 1) + 1 = Len(s)
        /\ \A k \in 1 .. Len(s) : (i + 1) + k - 1 = i + k
        /\ (i + 1 > n => Len(s) = 0)
    BY <1>1, <2>1
  <2>5. u \in Seq(S) /\ Len(u) = Len(s) /\ \A k \in 1 .. Len(s) : u[k] = t[i + k]
    BY <1>1, <2>1, <2>3, <2>4
  <2>6. u = s <=> \A k \in 1 .. Len(s) : t[i + k] = s[k]
    BY <2>5, SeqEqual
  <2>7. At(s, t, i) <=> \A k \in 1 .. Len(s) : t[i + k] = s[k]
    <3>1. \A k \in 1 .. Len(s) : i + k <= Len(t)
      BY <1>1, <2>1
    <3> QED
      BY <2>1, <3>1 DEF At, Fits
  <2> QED
    BY <2>6, <2>7 DEF u
<1>4. ASSUME NEW i \in Nat, At(s, t, i) PROVE i \in 0 .. Len(t) - Len(s)
  BY <1>1, <1>4 DEF At
<1>5. ASSUME NEW i \in Nat PROVE i \in F!Offsets(s, t) <=> At(s, t, i)
  BY <1>3, <1>4, Zenon DEF F!Offsets
<1> QED
  BY <1>2, <1>5

LEMMA OccursIs ==
  ASSUME NEW S, NEW s \in Seq(S), NEW t \in Seq(S)
  PROVE  F!Occurs(s, t) <=> \E i \in Nat : At(s, t, i)
BY OffsetsAre DEF F!Occurs

LEMMA FirstOffsetIs ==
  ASSUME NEW S, NEW s \in Seq(S), NEW t \in Seq(S), F!Occurs(s, t)
  PROVE  /\ F!FirstOffset(s, t) \in Nat
         /\ At(s, t, F!FirstOffset(s, t))
         /\ \A i \in Nat : At(s, t, i) => F!FirstOffset(s, t) <= i
<1> DEFINE O == F!Offsets(s, t)
<1>1. O \subseteq Nat /\ O # {} /\ \A i \in Nat : i \in O <=> At(s, t, i)
  BY OffsetsAre DEF F!Occurs
<1> HIDE DEF O
<1>2. PICK x \in O : \A y \in O : x <= y
  BY <1>1, LeastNumber
<1>3. F!Min(O) = x
  BY <1>1, <1>2, MinIs
<1>4. F!FirstOffset(s, t) = x
  BY <1>3 DEF O, F!FirstOffset
<1> QED
  BY <1>1, <1>2, <1>4

\* Such an offset is the one.
LEMMA FirstOffsetFits ==
  ASSUME NEW S, NEW s \in Seq(S), NEW t \in Seq(S), NEW x \in Nat, At(s, t, x),
         \A i \in Nat : At(s, t, i) => x <= i
  PROVE  F!Occurs(s, t) /\ F!FirstOffset(s, t) = x
<1>1. F!Occurs(s, t)
  BY OccursIs
<1>2. F!FirstOffset(s, t) \in Nat /\ F!FirstOffset(s, t) <= x /\ x <= F!FirstOffset(s, t)
  BY <1>1, FirstOffsetIs
<1> QED
  BY <1>1, <1>2

\* A function on the numbers up to n is a sequence of n elements.
LEMMA IsSequence ==
  ASSUME NEW S, NEW n \in Nat, NEW f \in [1 .. n -> S]
  PROVE  f \in Seq(S) /\ Len(f) = n
<1>1. f \in UNION {[1 .. m -> S] : m \in Nat}
  OBVIOUS
<1>2. f \in Seq(S)
  BY <1>1, SeqDef
<1>3. Len(f) \in Nat /\ DOMAIN f = 1 .. Len(f)
  BY <1>2, LenProperties
<1>4. 1 .. Len(f) = 1 .. n
  BY <1>3
<1> DEFINE k == Len(f)
<1> HIDE DEF k
<1>5. k \in Nat /\ \A i \in Nat : i \in 1 .. k <=> i \in 1 .. n
  BY <1>3, <1>4 DEF k
<1>6. k = n
  <2>1. CASE k < n
    BY <1>5, <2>1
  <2>2. CASE k > n
    BY <1>5, <2>2
  <2> QED
    BY <1>5, <2>1, <2>2
<1> QED
  BY <1>2, <1>6 DEF k

LEMMA SuffixIs ==
  ASSUME NEW S, NEW s \in Seq(S), NEW t \in Seq(S)
  PROVE  /\ F!IsSuffix(s, t) <=> Len(s) <= Len(t) /\ At(s, t, Len(t) - Len(s))
         /\ IsSuffix(s, t) <=> Len(s) <= Len(t) /\ At(s, t, Len(t) - Len(s))
<1> DEFINE m == Len(s)
           n == Len(t)
           r == Reverse(s)
           q == Reverse(t)
<1>1. m \in Nat /\ n \in Nat
  BY LenProperties
<1>2. /\ r = [i \in 1 .. m |-> s[(m - i) + 1]]
      /\ q = [i \in 1 .. n |-> t[(n - i) + 1]]
  BY DEF Reverse
<1>3. F!Reverse(s) = r /\ F!Reverse(t) = q
  BY DEF Reverse, F!Reverse
<1>4. r \in Seq(S) /\ q \in Seq(S) /\ Len(r) = m /\ Len(q) = n
  <2>1. \A i \in 1 .. m : (m - i) + 1 \in 1 .. m
    BY <1>1
  <2>2. \A i \in 1 .. n : (n - i) + 1 \in 1 .. n
    BY <1>1
  <2>3. r \in [1 .. m -> S] /\ q \in [1 .. n -> S]
    BY <1>2, <2>1, <2>2, ElementOfSeq
  <2> HIDE DEF r, q, m, n
  <2>4. r \in Seq(S) /\ Len(r) = m
    BY <1>1, <2>3, IsSequence
  <2>5. q \in Seq(S) /\ Len(q) = n
    BY <1>1, <2>3, IsSequence
  <2> QED
    BY <2>4, <2>5
<1>5. ASSUME m <= n
      PROVE  SubSeq(r, 1, m) = SubSeq(q, 1, m) <=> At(s, t, n - m)
  <2>1. \A i \in 1 .. m : /\ r[i] = s[(m - i) + 1] /\ q[i] = t[(n - i) + 1]
    BY <1>1, <1>2, <1>5
  <2> HIDE DEF r, q, m, n
  <2>2. m \in 0 .. Len(r) /\ m \in 0 .. Len(q)
    BY <1>1, <1>4, <1>5
  <2> DEFINE x == Upto(r, m)
             y == Upto(q, m)
  <2>3. /\ x \in Seq(S) /\ Len(x) = m /\ \A i \in 1 .. m : x[i] = r[i]
        /\ y \in Seq(S) /\ Len(y) = m /\ \A i \in 1 .. m : y[i] = q[i]
    BY <1>4, <2>2, UptoProperties
  <2> HIDE DEF x, y
  <2>4. x = y <=> \A i \in 1 .. m : s[(m - i) + 1] = t[(n - i) + 1]
    <3>1. x = y <=> \A i \in 1 .. m : x[i] = y[i]
      BY <2>3, SeqEqual
    <3>2. \A i \in 1 .. m : x[i] = s[(m - i) + 1] /\ y[i] = t[(n - i) + 1]
      BY <2>1, <2>3, Zenon
    <3>3. \A i \in 1 .. m : x[i] = y[i] <=> s[(m - i) + 1] = t[(n - i) + 1]
      BY <3>2, Zenon
    <3> QED
      BY <3>1, <3>3, Zenon
  <2>5. ASSUME \A i \in 1 .. m : s[(m - i) + 1] = t[(n - i) + 1], NEW k \in 1 .. m
        PROVE  t[(n - m) + k] = s[k]
    <3>1. (m - k) + 1 \in 1 .. m /\ (m - ((m - k) + 1)) + 1 = k
          /\ (n - ((m - k) + 1)) + 1 = (n - m) + k
      BY <1>1
    <3> QED
      BY <2>5, <3>1
  <2>6. ASSUME \A k \in 1 .. m : t[(n - m) + k] = s[k], NEW i \in 1 .. m
        PROVE  s[(m - i) + 1] = t[(n - i) + 1]
    <3>1. (m - i) + 1 \in 1 .. m /\ (n - m) + ((m - i) + 1) = (n - i) + 1
      BY <1>1
    <3> QED
      BY <2>6, <3>1
  <2>7. At(s, t, n - m) <=> \A k \in 1 .. m : t[(n - m) + k] = s[k]
    <3>1. (n - m) + m <= n /\ \A k \in 1 .. m : (n - m) + k <= n
      BY <1>1
    <3> QED
      BY <3>1 DEF At, Fits, m, n
  <2> QED
    BY <2>4, <2>5, <2>6, <2>7 DEF x, y, Upto
<1>6. IsPrefix(r, q) <=> m <= n /\ At(s, t, n - m)
  <2> HIDE DEF r, q, m, n
  <2> QED
    BY <1>4, <1>5 DEF IsPrefix
<1>7. F!IsPrefix(r, q) <=> m <= n /\ At(s, t, n - m)
  <2> HIDE DEF r, q, m, n
  <2> QED
    BY <1>4, <1>5 DEF F!IsPrefix
<1>8. (IsSuffix(s, t) <=> IsPrefix(r, q)) /\ (F!IsSuffix(s, t) <=> F!IsPrefix(r, q))
  BY <1>3 DEF IsSuffix, F!IsSuffix
<1> QED
  BY <1>6, <1>7, <1>8

LEMMA PrefixIs ==
  ASSUME NEW S, NEW s \in Seq(S), NEW t \in Seq(S)
  PROVE  /\ IsPrefix(s, t) <=> At(s, t, 0)
         /\ IsPrefix(s, t) <=> \E u \in Seq(S) : t = s \o u
<1> DEFINE m == Len(s)
           x == Upto(s, m)
           y == Upto(t, m)
<1>1. m \in Nat /\ Len(t) \in Nat
  BY LenProperties
<1>2. x = s
  BY SubSeqFull DEF Upto
<1>3. IsPrefix(s, t) <=> m <= Len(t) /\ s = y
  BY <1>2 DEF IsPrefix, Upto
<1>4. ASSUME m <= Len(t) PROVE y \in Seq(S) /\ Len(y) = m /\ \A i \in 1 .. m : y[i] = t[i]
  BY <1>1, <1>4, UptoProperties
<1> HIDE DEF x, y
<1>5. ASSUME m <= Len(t) PROVE s = y <=> \A k \in 1 .. m : t[k] = s[k]
  BY <1>4, <1>5, SeqEqual
<1>6. At(s, t, 0) <=> m <= Len(t) /\ \A k \in 1 .. m : t[k] = s[k]
  <2>1. 0 + m = m /\ \A k \in 1 .. m : 0 + k = k
    BY <1>1
  <2>2. m <= Len(t) => \A k \in 1 .. m : k <= Len(t)
    BY <1>1
  <2> QED
    BY <2>1, <2>2 DEF At, Fits
<1>7. ASSUME IsPrefix(s, t) PROVE \E u \in Seq(S) : t = s \o u
  <2>1. m \in 0 .. Len(t) /\ s = y
    BY <1>1, <1>3, <1>7
  <2>2. t = y \o From(t, m) /\ From(t, m) \in Seq(S)
    BY <2>1, Rejoined, FromProperties DEF y
  <2> QED
    BY <2>1, <2>2
<1>8. ASSUME NEW u \in Seq(S), t = s \o u PROVE IsPrefix(s, t)
  <2>1. y = s
    BY <1>8, PiecesOfConcatenation DEF y
  <2>2. m <= Len(t)
    BY <1>1, <1>8, Halves
  <2> QED
    BY <1>3, <2>1, <2>2
<1> QED
  BY <1>3, <1>5, <1>6, <1>7, <1>8

\* The longest end of a text that may become a stop sequence is the least
\* offset, if no stop sequence is in it, at which one fits.
LEMMA PartialSuffix ==
  ASSUME NEW S, NEW s \in Seq(S), NEW b \in Seq(S), NEW k \in 1 .. Len(b), k < Len(s)
  PROVE  F!IsSuffix(SubSeq(s, 1, k), b) <=> Fits(s, b, Len(b) - k)
<1> DEFINE u == Upto(s, k)
           n == Len(b)
<1>1. n \in Nat /\ Len(s) \in Nat /\ k \in Nat /\ k <= n /\ k \in 0 .. Len(s)
  BY LenProperties
<1>2. u \in Seq(S) /\ Len(u) = k /\ \A i \in 1 .. k : u[i] = s[i]
  BY <1>1, UptoProperties
<1> HIDE DEF u
<1>3. F!IsSuffix(u, b) <=> At(u, b, n - k)
  BY <1>1, <1>2, SuffixIs
<1>4. At(u, b, n - k) <=> \A i \in 1 .. k : b[(n - k) + i] = s[i]
  <2>1. (n - k) + k <= n /\ \A i \in 1 .. k : (n - k) + i <= n
    BY <1>1
  <2> QED
    BY <1>2, <2>1 DEF At, Fits
<1>5. Fits(s, b, n - k) <=> \A i \in 1 .. k : b[(n - k) + i] = s[i]
  <2>1. \A i \in 1 .. Len(s) : (n - k) + i <= n <=> i \in 1 .. k
    BY <1>1
  <2>2. \A i \in 1 .. k : i \in 1 .. Len(s)
    BY <1>1
  <2> HIDE DEF n
  <2> QED
    BY <2>1, <2>2 DEF Fits, n
<1> QED
  BY <1>3, <1>4, <1>5 DEF u, Upto

LEMMA PartialStopLenIs ==
  ASSUME NEW S, NEW stops \in SUBSET Seq(S), NEW b \in Seq(S)
  PROVE  LET h == F!PartialStopLen(b, stops)
         IN  /\ h \in 0 .. Len(b) /\ Len(b) - h \in 0 .. Len(b)
             /\ h = 0 \/ \E s \in stops : h < Len(s) /\ Fits(s, b, Len(b) - h)
             /\ Free(stops, b) => Clear(stops, b, Len(b) - h)
<1> DEFINE n == Len(b)
           K == {0} \cup {k \in 1 .. n : \E s \in stops : k < Len(s) /\ F!IsSuffix(SubSeq(s, 1, k), b)}
           h == F!PartialStopLen(b, stops)
<1>1. n \in Nat /\ K \subseteq 0 .. n /\ K # {} /\ K \subseteq Nat
  BY LenProperties
<1>2. \A k \in 1 .. n : k \in K <=> \E s \in stops : k < Len(s) /\ F!IsSuffix(SubSeq(s, 1, k), b)
  OBVIOUS
<1>3. \A k \in 1 .. n : k \in K <=> \E s \in stops : k < Len(s) /\ Fits(s, b, n - k)
  <2> SUFFICES ASSUME NEW k \in 1 .. n
               PROVE  k \in K <=> \E s \in stops : k < Len(s) /\ Fits(s, b, n - k)
    OBVIOUS
  <2>1. \A s \in stops : k < Len(s) => (F!IsSuffix(SubSeq(s, 1, k), b) <=> Fits(s, b, n - k))
    BY PartialSuffix
  <2> HIDE DEF K
  <2> QED
    BY <1>2, <2>1
<1>4. h = F!Max(K)
  BY DEF F!PartialStopLen
<1> HIDE DEF K
<1>5. PICK m \in K : \A k \in K : m >= k
  BY <1>1, GreatestNumber
<1>6. F!Max(K) = m
  BY <1>1, <1>5, MaxIs
<1> HIDE DEF h
<1>7. h \in 0 .. n /\ n - h \in 0 .. n /\ h \in K
  BY <1>1, <1>4, <1>5, <1>6
<1>8. h = 0 \/ \E s \in stops : h < Len(s) /\ Fits(s, b, n - h)
  BY <1>1, <1>3, <1>7
<1>9. ASSUME Free(stops, b), NEW i \in Nat, i < n - h, NEW s \in stops, Fits(s, b, i)
      PROVE  FALSE
  <2>1. Len(s) \in Nat
    BY LenProperties
  <2>2. ~ (i + Len(s) <= n)
    BY <1>9 DEF Free, At
  <2>3. n - i \in 1 .. n /\ n - i < Len(s) /\ n - (n - i) = i
    BY <1>1, <1>7, <1>9, <2>1, <2>2
  <2>4. n - i \in K
    BY <1>3, <1>9, <2>3
  <2> QED
    BY <1>1, <1>4, <1>5, <1>6, <1>7, <1>9, <2>3, <2>4
<1>10. Free(stops, b) => Clear(stops, b, n - h)
  BY <1>9 DEF Clear
<1> QED
  BY <1>7, <1>8, <1>10 DEF h

\* Of the sequences in t, s is completed first, and is the longest of those.
CompletedFirst(s, stops, t, x) ==
  /\ s \in stops /\ x \in Nat /\ At(s, t, x)
  /\ \A u \in stops : \A i \in Nat : At(u, t, i) =>
       x + Len(s) < i + Len(u) \/ (x + Len(s) = i + Len(u) /\ Len(s) >= Len(u))

LEMMA FirstStopMatchIs ==
  ASSUME NEW S, NEW stops \in SUBSET Seq(S), NEW t \in Seq(S),
         \E s \in stops : F!Occurs(s, t)
  PROVE  LET s == F!FirstStopMatch(t, stops)
         IN  CompletedFirst(s, stops, t, F!FirstOffset(s, t))
<1> DEFINE end(s) == F!FirstOffset(s, t) + Len(s)
           found == {s \in stops : F!Occurs(s, t)}
           Best(s) == \A u \in found : end(s) < end(u) \/ (end(s) = end(u) /\ Len(s) >= Len(u))
           E == {end(s) : s \in found}
<1>1. \A s \in found : F!FirstOffset(s, t) \in Nat /\ Len(s) \in Nat /\ end(s) \in Nat /\ Len(s) \in 0 .. end(s)
  <2> SUFFICES ASSUME NEW s \in found PROVE F!FirstOffset(s, t) \in Nat /\ Len(s) \in Nat
    BY SMT
  <2> QED
    BY FirstOffsetIs, LenProperties
<1>2. E \subseteq Nat /\ E # {}
  BY <1>1
<1>3. PICK e \in E : \A y \in E : e <= y
  BY <1>2, LeastNumber
<1> DEFINE L == {Len(s) : s \in {s \in found : end(s) = e}}
<1>4. e \in Nat /\ L \subseteq 0 .. e /\ L # {}
  BY <1>1, <1>2, <1>3
<1>5. PICK l \in L : \A y \in L : l >= y
  BY <1>4, GreatestNumber
<1>6. PICK s \in found : end(s) = e /\ Len(s) = l
  BY <1>5
<1>7. Best(s)
  <2> SUFFICES ASSUME NEW u \in found
               PROVE  end(s) < end(u) \/ (end(s) = end(u) /\ Len(s) >= Len(u))
    OBVIOUS
  <2>1. e <= end(u) /\ end(u) \in Nat /\ e \in Nat
    BY <1>1, <1>3, <1>4
  <2>2. CASE end(u) = e
    <3>1. Len(u) \in L
      BY <2>2
    <3> QED
      BY <1>5, <1>6, <2>2, <3>1
  <2>3. CASE end(u) # e
    BY <1>6, <2>1, <2>3
  <2> QED
    BY <2>2, <2>3
<1> DEFINE m == F!FirstStopMatch(t, stops)
<1>8. m = CHOOSE z \in found : Best(z)
  BY DEF F!FirstStopMatch
<1> HIDE DEF m
<1>9. m \in found /\ Best(m)
  BY <1>6, <1>7, <1>8
<1>10. F!Occurs(m, t) /\ m \in stops
  BY <1>9
<1>11. F!FirstOffset(m, t) \in Nat /\ At(m, t, F!FirstOffset(m, t)) /\ Len(m) \in Nat
  BY <1>10, FirstOffsetIs, LenProperties
<1>12. ASSUME NEW u \in stops, NEW i \in Nat, At(u, t, i)
       PROVE  end(m) < i + Len(u) \/ (end(m) = i + Len(u) /\ Len(m) >= Len(u))
  <2>1. F!Occurs(u, t)
    BY <1>12, OccursIs
  <2>2. F!FirstOffset(u, t) \in Nat /\ F!FirstOffset(u, t) <= i /\ Len(u) \in Nat
    BY <1>12, <2>1, FirstOffsetIs, LenProperties
  <2>3. end(m) < end(u) \/ (end(m) = end(u) /\ Len(m) >= Len(u))
    BY <1>9, <2>1
  <2>4. end(m) \in Nat /\ end(u) \in Nat /\ end(u) <= i + Len(u)
    BY <1>11, <2>2
  <2> HIDE DEF end
  <2> QED
    BY <1>11, <2>2, <2>3, <2>4
<1>13. CompletedFirst(m, stops, t, F!FirstOffset(m, t))
  BY <1>10, <1>11, <1>12 DEF CompletedFirst
<1> QED
  BY <1>13 DEF m

\* Text in front in which none fits moves the sequence that is completed first.
LEMMA CompletedFirstShifted ==
  ASSUME NEW S, NEW stops \in SUBSET Seq(S), NEW a \in Seq(S), NEW b \in Seq(S),
         Clear(stops, a \o b, Len(a)),
         NEW s, NEW x, CompletedFirst(s, stops, b, x)
  PROVE  CompletedFirst(s, stops, a \o b, Len(a) + x)
<1>1. s \in stops /\ x \in Nat /\ At(s, b, x) /\ Len(a) \in Nat /\ Len(s) \in Nat
  BY LenProperties DEF CompletedFirst
<1>2. Len(a) + x \in Nat /\ At(s, a \o b, Len(a) + x)
  BY <1>1, Shifted
<1>3. ASSUME NEW u \in stops, NEW i \in Nat, At(u, a \o b, i)
      PROVE  \/ (Len(a) + x) + Len(s) < i + Len(u)
             \/ (Len(a) + x) + Len(s) = i + Len(u) /\ Len(s) >= Len(u)
  <2>1. i >= Len(a)
    <3> DEFINE w == a \o b
               n == Len(a)
    <3>1. Fits(u, w, i)
      BY <1>3 DEF At
    <3>2. Clear(stops, w, n) /\ n \in Nat
      BY <1>1
    <3> HIDE DEF w, n
    <3>3. i >= n
      BY <3>1, <3>2 DEF Clear
    <3> QED
      BY <3>3 DEF n
  <2>2. i - Len(a) \in Nat /\ Len(a) + (i - Len(a)) = i /\ Len(u) \in Nat
    BY <1>1, <2>1, LenProperties
  <2>3. At(u, b, i - Len(a))
    BY <1>3, <2>2, Shifted
  <2>4. \/ x + Len(s) < (i - Len(a)) + Len(u)
        \/ x + Len(s) = (i - Len(a)) + Len(u) /\ Len(s) >= Len(u)
    BY <2>2, <2>3 DEF CompletedFirst
  <2> QED
    BY <1>1, <2>2, <2>4
<1> QED
  BY <1>1, <1>2, <1>3 DEF CompletedFirst

Texts == Seq(Characters)

LEMMA JoinedTexts ==
  ASSUME NEW a \in Texts, NEW b \in Texts
  PROVE  /\ a \o b \in Texts /\ Len(a \o b) = Len(a) + Len(b)
         /\ Len(a) \in Nat /\ Len(b) \in Nat
         /\ Upto(a \o b, Len(a)) = a /\ From(a \o b, Len(a)) = b
<1>1. a \in Seq(Characters) /\ b \in Seq(Characters)
  BY DEF Texts
<1>2. /\ a \o b \in Seq(Characters) /\ Len(a \o b) = Len(a) + Len(b)
      /\ Len(a) \in Nat /\ Len(b) \in Nat
  BY <1>1, Halves
<1>3. Upto(a \o b, Len(a)) = a /\ From(a \o b, Len(a)) = b
  BY <1>1, PiecesOfConcatenation
<1> QED
  BY <1>2, <1>3 DEF Texts

LEMMA TextsAssociate ==
  ASSUME NEW a \in Texts, NEW b \in Texts, NEW c \in Texts
  PROVE  (a \o b) \o c = a \o (b \o c)
<1>1. a \in Seq(Characters) /\ b \in Seq(Characters) /\ c \in Seq(Characters)
  BY DEF Texts
<1> QED
  BY <1>1, Associative

\* The same for texts that the provers should not take apart.
JoinsAlike(a, b, c) == (a \o b) \o c = a \o (b \o c)

LEMMA TextsJoinAlike ==
  ASSUME NEW a \in Texts, NEW b \in Texts, NEW c \in Texts
  PROVE  JoinsAlike(a, b, c)
BY TextsAssociate DEF JoinsAlike

LEMMA CallsJoinAlike ==
  ASSUME NEW a \in Seq(Texts), NEW b \in Seq(Texts), NEW c \in Seq(Texts)
  PROVE  JoinsAlike(a, b, c)
BY Associative DEF JoinsAlike

LEMMA EmptyText ==
  /\ << >> \in Texts /\ Len(<< >>) = 0
  /\ \A t \in Texts : /\ t \o << >> = t /\ << >> \o t = t
                      /\ Len(t) \in Nat /\ (Len(t) = 0 <=> t = << >>)
<1>1. << >> \in Texts /\ Len(<< >>) = 0
  BY EmptySeq DEF Texts
<1>2. ASSUME NEW t \in Texts
      PROVE  t \o << >> = t /\ << >> \o t = t /\ Len(t) \in Nat /\ (Len(t) = 0 <=> t = << >>)
  <2>1. t \in Seq(Characters)
    BY DEF Texts
  <2> QED
    BY <2>1, EmptySeq, ConcatEmptySeq, LenProperties
<1> QED
  BY <1>1, <1>2

LEMMA DividedText ==
  ASSUME NEW t \in Texts, NEW n \in 0 .. Len(t)
  PROVE  /\ Upto(t, n) \in Texts /\ Len(Upto(t, n)) = n
         /\ From(t, n) \in Texts /\ Len(From(t, n)) = Len(t) - n
         /\ t = Upto(t, n) \o From(t, n)
         /\ Len(t) \in Nat /\ n \in Nat /\ Len(t) - n \in Nat
<1>1. t \in Seq(Characters)
  BY DEF Texts
<1>2. Upto(t, n) \in Seq(Characters) /\ Len(Upto(t, n)) = n /\ Len(t) \in Nat /\ n \in Nat
  BY <1>1, UptoProperties
<1>3. From(t, n) \in Seq(Characters) /\ Len(From(t, n)) = Len(t) - n /\ Len(t) - n \in Nat
  BY <1>1, FromProperties
<1>4. t = Upto(t, n) \o From(t, n)
  BY <1>1, Rejoined
<1> QED
  BY <1>2, <1>3, <1>4 DEF Texts

LEMMA CompletedAt ==
  ASSUME NEW S, NEW s \in Seq(S), NEW t \in Seq(S), NEW n \in 0 .. Len(t)
  PROVE  IsSuffix(s, SubSeq(t, 1, n)) <=> Len(s) <= n /\ At(s, t, n - Len(s))
<1> DEFINE u == Upto(t, n)
           v == From(t, n)
<1>1. u \in Seq(S) /\ Len(u) = n /\ n \in Nat /\ Len(t) \in Nat /\ Len(s) \in Nat
  BY UptoProperties, LenProperties
<1>2. v \in Seq(S) /\ t = u \o v
  BY FromProperties, Rejoined
<1> HIDE DEF u, v
<1>3. IsSuffix(s, u) <=> Len(s) <= n /\ At(s, u, n - Len(s))
  BY <1>1, SuffixIs
<1>4. ASSUME Len(s) <= n PROVE At(s, u, n - Len(s)) <=> At(s, t, n - Len(s))
  <2> DEFINE i == n - Len(s)
  <2>1. i \in Nat /\ i + Len(s) <= Len(u) /\ i + Len(s) <= Len(t)
    BY <1>1, <1>4
  <2> HIDE DEF i
  <2>2. Fits(s, t, i) <=> Fits(s, u, i)
    BY <1>1, <1>2, <2>1, LongerTexts
  <2> QED
    BY <2>1, <2>2 DEF At, i
<1> QED
  BY <1>3, <1>4 DEF u, Upto

\* The cut of a text without a stop sequence, and of one with.
LEMMA UncutText ==
  ASSUME NEW stops \in SUBSET Texts, NEW t \in Texts, Free(stops, t)
  PROVE  Cut(stops, t) = t
<1>1. ASSUME NEW n \in 1 .. Len(t), NEW s \in stops, IsSuffix(s, SubSeq(t, 1, n)) PROVE FALSE
  <2>1. n \in 0 .. Len(t) /\ Len(t) \in Nat /\ Len(s) \in Nat
    BY LenProperties DEF Texts
  <2>2. Len(s) <= n /\ At(s, t, n - Len(s))
    BY <1>1, <2>1, CompletedAt DEF Texts
  <2>3. n - Len(s) \in Nat
    BY <2>1, <2>2
  <2> QED
    BY <2>2, <2>3 DEF Free
<1>2. Completions(stops, t) = {}
  BY <1>1, Zenon DEF Completions
<1> QED
  BY <1>2 DEF Cut

LEMMA CutText ==
  ASSUME NEW stops \in SUBSET (Texts \ {<< >>}), NEW t \in Texts,
         NEW s, NEW x, CompletedFirst(s, stops, t, x)
  PROVE  Cut(stops, t) = Upto(t, x)
<1> DEFINE n == x + Len(s)
           C == Completions(stops, t)
           L == {Len(u) : u \in {u \in stops : IsSuffix(u, SubSeq(t, 1, n))}}
<1>1. s \in stops /\ s \in Texts /\ s # << >> /\ x \in Nat /\ At(s, t, x)
  BY DEF CompletedFirst
<1>2. Len(s) \in Nat /\ Len(s) # 0 /\ Len(t) \in Nat
  BY <1>1, EmptySeq, LenProperties DEF Texts
<1>3. n \in 1 .. Len(t) /\ n \in 0 .. Len(t) /\ n - Len(s) = x /\ Len(s) <= n /\ n \in Nat
  BY <1>1, <1>2 DEF At
<1> HIDE DEF n
<1>4. IsSuffix(s, SubSeq(t, 1, n))
  BY <1>1, <1>3, CompletedAt DEF Texts
<1>5. n \in C
  BY <1>1, <1>3, <1>4 DEF Completions
<1>6. ASSUME NEW m \in 1 .. Len(t), NEW u \in stops, IsSuffix(u, SubSeq(t, 1, m))
      PROVE  n < m \/ (n = m /\ Len(u) <= Len(s))
  <2>1. m \in 0 .. Len(t) /\ Len(u) \in Nat /\ u \in Texts
    BY <1>2, LenProperties DEF Texts
  <2>2. Len(u) <= m /\ At(u, t, m - Len(u))
    BY <1>6, <2>1, CompletedAt DEF Texts
  <2>3. m - Len(u) \in Nat /\ (m - Len(u)) + Len(u) = m
    BY <2>1, <2>2
  <2>4. n < (m - Len(u)) + Len(u) \/ (n = (m - Len(u)) + Len(u) /\ Len(s) >= Len(u))
    BY <2>2, <2>3 DEF CompletedFirst, n
  <2> QED
    BY <1>2, <2>1, <2>3, <2>4
<1>7. C \subseteq Nat /\ \A m \in C : n <= m
  <2>1. C \subseteq Nat
    BY DEF Completions
  <2>2. ASSUME NEW m \in C PROVE n <= m
    <3>1. m \in 1 .. Len(t) /\ \E u \in stops : IsSuffix(u, SubSeq(t, 1, m))
      BY DEF Completions
    <3> QED
      BY <1>3, <1>6, <3>1
  <2> QED
    BY <2>1, <2>2
<1> HIDE DEF C
<1>8. Min(C) = n
  BY <1>5, <1>7, MinIs
<1>9. L \subseteq Nat /\ Len(s) \in L /\ \A l \in L : Len(s) >= l
  <2>1. ASSUME NEW u \in stops, IsSuffix(u, SubSeq(t, 1, n))
        PROVE  Len(u) \in Nat /\ Len(u) <= Len(s)
    <3>1. Len(u) \in Nat
      BY LenProperties DEF Texts
    <3>2. n < n \/ (n = n /\ Len(u) <= Len(s))
      BY <1>3, <1>6, <2>1
    <3> QED
      BY <1>3, <3>1, <3>2
  <2>2. Len(s) \in L
    BY <1>1, <1>4
  <2> QED
    BY <1>2, <2>1, <2>2
<1> HIDE DEF L
<1>10. Max(L) = Len(s)
  BY <1>9, MaxIs
<1>11. C # {}
  BY <1>5
<1>12. Cut(stops, t) = SubSeq(t, 1, n - Len(s))
  BY <1>8, <1>10, <1>11 DEF Cut, C, L
<1> QED
  BY <1>3, <1>12 DEF Upto

-----------------------------------------------------------------------------
(* The stop filter.                                                         *)

\* The filter has released raw of said and withholds buffer, of which a stop
\* sequence may still come: none is in said, or could begin in raw.
Withholds(stops, said_, raw_, buffer) ==
  /\ raw_ \in Texts /\ buffer \in Texts
  /\ said_ = raw_ \o buffer
  /\ Free(stops, said_)
  /\ Clear(stops, said_, Len(raw_))
  /\ \/ buffer = << >>
     \/ \E s \in stops : Len(buffer) < Len(s) /\ Fits(s, buffer, 0)

\* What a push of piece gives: either that goes on, or a sequence is completed,
\* and raw ends where it starts.
Released(stops, said_, raw_, piece, out) ==
  /\ out.text \in Texts /\ out.filter.buffer \in Texts /\ out.hit \in BOOLEAN
  /\ ~out.hit => /\ out.filter = [buffer |-> out.filter.buffer, matched |-> F!NoStop]
                 /\ Withholds(stops, said_ \o piece, raw_ \o out.text, out.filter.buffer)
  /\ out.hit => /\ out.filter.matched \in stops
                /\ raw_ \o out.text \in Texts
                /\ CompletedFirst(out.filter.matched, stops, said_ \o piece, Len(raw_ \o out.text))
                /\ raw_ \o out.text = Upto(said_ \o piece, Len(raw_ \o out.text))

LEMMA FilterPushes ==
  ASSUME NEW stops \in SUBSET (Texts \ {<< >>}), NEW t, NEW r, NEW b,
         Withholds(stops, t, r, b), NEW piece \in Texts,
         NEW filter, filter = [buffer |-> b, matched |-> F!NoStop]
  PROVE  Released(stops, t, r, piece, F!Push(stops, filter, piece))
<1> DEFINE out == F!Push(stops, filter, piece)
           c == b \o piece
           w == t \o piece
<1>1. /\ r \in Texts /\ b \in Texts /\ t = r \o b /\ t \in Texts
      /\ c \in Texts /\ w \in Texts /\ w = r \o c
  <2>1. r \in Texts /\ b \in Texts /\ t = r \o b
    BY DEF Withholds
  <2>2. t \in Texts /\ c \in Texts
    BY <2>1, JoinedTexts
  <2>3. w \in Texts
    BY <2>2, JoinedTexts
  <2>4. w = r \o c
    BY <2>1, TextsAssociate
  <2> QED
    BY <2>1, <2>2, <2>3, <2>4
<1>2. stops \in SUBSET Seq(Characters)
  BY DEF Texts
<1>3. Clear(stops, w, Len(r))
  BY <1>1, <1>2, ClearStays DEF Withholds, Texts
<1>4. Clear(stops, r \o c, Len(r))
  BY <1>1, <1>3
<1>5. filter.buffer = b /\ filter.matched = F!NoStop
  OBVIOUS
<1>6. CASE stops = {}
  <2>1. b = << >>
    BY <1>6 DEF Withholds
  <2>2. out = [filter |-> filter, text |-> piece, hit |-> FALSE]
    BY <1>6 DEF F!Push
  <2>3. r \o piece = w /\ w \o << >> = w
    <3>1. << >> \o piece = piece /\ w \o << >> = w
      BY <1>1, EmptyText
    <3> QED
      BY <1>1, <2>1, <3>1
  <2>4. Free(stops, w) /\ Clear(stops, w, Len(r \o piece))
    BY <1>6 DEF Free, Clear
  <2> HIDE DEF w, c, out
  <2>5. Withholds(stops, w, r \o piece, b)
    BY <1>1, <2>1, <2>3, <2>4, EmptyText DEF Withholds
  <2>6. Withholds(stops, t \o piece, r \o piece, b)
    BY <2>5 DEF w
  <2>7. Released(stops, t, r, piece, [filter |-> filter, text |-> piece, hit |-> FALSE])
    BY <1>1, <1>5, <2>6 DEF Released
  <2> QED
    BY <2>2, <2>7 DEF out
<1>7. CASE stops # {} /\ \E s \in stops : F!Occurs(s, c)
  <2> DEFINE s == F!FirstStopMatch(c, stops)
             x == F!FirstOffset(s, c)
             u == Upto(c, x)
             v == From(c, x)
  <2>1. out = [filter |-> [buffer |-> << >>, matched |-> s], text |-> u, hit |-> TRUE]
    BY <1>5, <1>7 DEF F!Push, Upto
  <2>2. CompletedFirst(s, stops, c, x)
    BY <1>1, <1>2, <1>7, FirstStopMatchIs DEF Texts
  <2> HIDE DEF s, x
  <2>3. s \in stops /\ x \in Nat /\ At(s, c, x)
    BY <2>2 DEF CompletedFirst
  <2>4. x \in 0 .. Len(c)
    <3>1. Len(s) \in Nat /\ Len(c) \in Nat
      BY <1>1, <1>2, <2>3, EmptyText DEF Texts
    <3> QED
      BY <2>3, <3>1 DEF At
  <2> HIDE DEF w, c, out
  <2>5. u \in Texts /\ Len(u) = x /\ v \in Texts /\ c = u \o v
    BY <1>1, <2>4, DividedText
  <2> HIDE DEF u, v
  <2>6. r \o u \in Texts /\ Len(r \o u) = Len(r) + x
    BY <1>1, <2>5, JoinedTexts
  <2>7. w = (r \o u) \o v
    <3>0. r \in Texts /\ u \in Texts /\ v \in Texts
      BY <1>1, <2>5
    <3>1. (r \o u) \o v = r \o (u \o v)
      BY <3>0, TextsAssociate
    <3> QED
      BY <1>1, <2>5, <3>1
  <2>8. Upto(w, Len(r \o u)) = r \o u
    BY <2>5, <2>6, <2>7, JoinedTexts
  <2>9. CompletedFirst(s, stops, r \o c, Len(r) + x)
    BY <1>1, <1>2, <1>4, <2>2, CompletedFirstShifted DEF Texts
  <2>10. CompletedFirst(s, stops, w, Len(r \o u))
    BY <1>1, <2>6, <2>9
  <2>11. Released(stops, t, r, piece, [filter |-> [buffer |-> << >>, matched |-> s], text |-> u, hit |-> TRUE])
    BY <2>3, <2>5, <2>6, <2>8, <2>10, EmptyText DEF Released, w
  <2> QED
    BY <2>1, <2>11 DEF out
<1>8. CASE stops # {} /\ ~ \E s \in stops : F!Occurs(s, c)
  <2> DEFINE h == F!PartialStopLen(c, stops)
             k == Len(c) - h
             u == Upto(c, k)
             v == From(c, k)
  <2>1. out = [filter |-> [buffer |-> v, matched |-> F!NoStop], text |-> u, hit |-> FALSE]
    <3>1. out = [filter |-> [filter EXCEPT !.buffer = F!Drop(c, k)], text |-> SubSeq(c, 1, k), hit |-> FALSE]
      BY <1>5, <1>8, Zenon DEF F!Push
    <3> HIDE DEF k, out
    <3> QED
      BY <3>1 DEF Upto, From
  <2>2. Free(stops, c)
    BY <1>1, <1>2, <1>8, OccursIs DEF Free, Texts
  <2>3. /\ h \in 0 .. Len(c) /\ k \in 0 .. Len(c)
        /\ h = 0 \/ \E s \in stops : h < Len(s) /\ Fits(s, c, k)
        /\ Clear(stops, c, k)
    BY <1>1, <1>2, <2>2, PartialStopLenIs DEF Texts
  <2>4. Len(c) - k = h
    <3>1. Len(c) \in Nat
      BY <1>1, EmptyText
    <3> QED
      BY <2>3, <3>1
  <2> HIDE DEF h, k, c, w, out
  <2>5. /\ u \in Texts /\ Len(u) = k /\ v \in Texts /\ Len(v) = h
        /\ c = u \o v /\ k \in Nat
    BY <1>1, <2>3, <2>4, DividedText
  <2> HIDE DEF u, v
  <2>6. r \o u \in Texts /\ Len(r \o u) = Len(r) + k
    BY <1>1, <2>5, JoinedTexts
  <2>7. w = (r \o u) \o v
    <3>1. (r \o u) \o v = r \o (u \o v)
      <4>1. r \in Texts /\ u \in Texts /\ v \in Texts
        BY <1>1, <2>5
      <4> QED
        BY <4>1, TextsAssociate
    <3> QED
      BY <1>1, <2>5, <3>1
  <2>8. Free(stops, w)
    BY <1>1, <1>2, <1>4, <2>2, FreeBoth DEF Texts
  <2>9. Clear(stops, w, Len(r \o u))
    <3>1. Clear(stops, r \o c, Len(r) + k)
      BY <1>1, <1>2, <1>4, <2>3, <2>5, ClearBoth DEF Texts
    <3> QED
      BY <1>1, <2>6, <3>1
  <2>10. v = << >> \/ \E s \in stops : Len(v) < Len(s) /\ Fits(s, v, 0)
    <3>1. CASE h = 0
      BY <2>5, <3>1, EmptyText
    <3>2. ASSUME NEW s \in stops, h < Len(s), Fits(s, c, k)
          PROVE  Len(v) < Len(s) /\ Fits(s, v, 0)
      <4>1. Fits(s, u \o v, Len(u) + 0)
        BY <2>5, <3>2
      <4>2. u \in Seq(Characters) /\ v \in Seq(Characters) /\ s \in Seq(Characters)
        BY <1>2, <2>5 DEF Texts
      <4> QED
        BY <2>5, <3>2, <4>1, <4>2, Shifted
    <3> QED
      BY <2>3, <3>1, <3>2
  <2>11. Withholds(stops, w, r \o u, v)
    BY <2>5, <2>6, <2>7, <2>8, <2>9, <2>10 DEF Withholds
  <2>12. Released(stops, t, r, piece, [filter |-> [buffer |-> v, matched |-> F!NoStop], text |-> u, hit |-> FALSE])
    BY <2>5, <2>11 DEF Released, w
  <2> QED
    BY <2>1, <2>12 DEF out
<1> QED
  BY <1>6, <1>7, <1>8

-----------------------------------------------------------------------------
(* Whitespace at the end.                                                   *)

Spaces == {t \in Texts : \A i \in 1 .. Len(t) : t[i] = Space}

\* A text that is empty or ends in a letter.
Tight(t) == t = << >> \/ t[Len(t)] # Space

LEMMA JoinedSpaces ==
  /\ << >> \in Spaces
  /\ \A a, b \in Spaces : a \o b \in Spaces
<1>1. << >> \in Spaces
  BY EmptyText DEF Spaces
<1>2. ASSUME NEW a \in Spaces, NEW b \in Spaces PROVE a \o b \in Spaces
  <2> DEFINE c == a \o b
  <2>1. /\ a \in Texts /\ b \in Texts /\ c \in Texts
        /\ Len(c) = Len(a) + Len(b) /\ Len(a) \in Nat /\ Len(b) \in Nat
    BY JoinedTexts DEF Spaces
  <2>2. /\ \A i \in 1 .. Len(a) : c[i] = a[i]
        /\ \A i \in 1 .. Len(b) : c[Len(a) + i] = b[i]
    BY <2>1, Halves DEF Texts
  <2> HIDE DEF c
  <2>3. ASSUME NEW i \in 1 .. Len(c) PROVE c[i] = Space
    <3>1. CASE i <= Len(a)
      BY <2>1, <2>2, <3>1 DEF Spaces
    <3>2. CASE i > Len(a)
      <4>1. i - Len(a) \in 1 .. Len(b) /\ Len(a) + (i - Len(a)) = i
        BY <2>1, <3>2
      <4> QED
        BY <2>2, <4>1 DEF Spaces
    <3> QED
      BY <2>1, <3>1, <3>2
  <2> QED
    BY <2>1, <2>3 DEF Spaces, c
<1> QED
  BY <1>1, <1>2

LEMMA RightStrippedIs ==
  ASSUME NEW t \in Texts
  PROVE  LET c == RightStripped(t)
         IN  /\ c \in Texts /\ Tight(c)
             /\ From(t, Len(c)) \in Spaces
             /\ t = c \o From(t, Len(c))
<1> DEFINE I == {0} \cup {i \in DOMAIN t : t[i] # Space}
<1>1. Len(t) \in Nat /\ DOMAIN t = 1 .. Len(t)
  BY LenProperties DEF Texts
<1>2. I \subseteq 0 .. Len(t) /\ I # {} /\ I \subseteq Nat
  BY <1>1
<1>3. PICK m \in I : \A i \in I : m >= i
  BY <1>1, <1>2, GreatestNumber
<1>4. Max(I) = m
  BY <1>2, <1>3, MaxIs
<1>5. RightStripped(t) = Upto(t, m)
  BY <1>4 DEF RightStripped, Upto
<1>6. m \in 0 .. Len(t)
  BY <1>2, <1>3
<1> DEFINE c == Upto(t, m)
           g == From(t, m)
<1>7. /\ c \in Texts /\ Len(c) = m /\ g \in Texts /\ Len(g) = Len(t) - m
      /\ t = c \o g /\ m \in Nat
  BY <1>6, DividedText
<1>8. \A i \in 1 .. m : c[i] = t[i]
  BY <1>6, UptoProperties DEF Texts
<1>9. \A i \in 1 .. Len(t) - m : g[i] = t[m + i]
  BY <1>6, FromProperties DEF Texts
<1>10. g \in Spaces
  <2>1. ASSUME NEW i \in 1 .. Len(t) - m, t[m + i] # Space PROVE FALSE
    <3>1. m + i \in I
      BY <1>1, <1>7, <2>1
    <3> HIDE DEF I
    <3> QED
      BY <1>3, <1>7, <3>1
  <2> HIDE DEF g
  <2>2. \A i \in 1 .. Len(g) : g[i] = Space
    BY <1>7, <1>9, <2>1
  <2> QED
    BY <1>7, <2>2 DEF Spaces
<1>11. Tight(c)
  <2>1. CASE m = 0
    BY <1>7, <2>1, EmptyText DEF Tight
  <2>2. CASE m # 0
    <3>1. m \in 1 .. m /\ t[m] # Space
      BY <1>3, <1>7, <2>2
    <3> QED
      BY <1>7, <1>8, <3>1 DEF Tight
  <2> QED
    BY <2>1, <2>2
<1> QED
  BY <1>5, <1>7, <1>10, <1>11

LEMMA RightStrippedOf ==
  ASSUME NEW c \in Texts, Tight(c), NEW g \in Spaces
  PROVE  RightStripped(c \o g) = c
<1> DEFINE t == c \o g
           I == {0} \cup {i \in DOMAIN t : t[i] # Space}
           m == Len(c)
<1>1. /\ t \in Texts /\ Len(t) = m + Len(g) /\ m \in Nat /\ Len(g) \in Nat
      /\ Upto(t, m) = c
  BY JoinedTexts DEF Spaces
<1>2. /\ \A i \in 1 .. m : t[i] = c[i]
      /\ \A i \in 1 .. Len(g) : t[m + i] = g[i]
  BY Halves DEF Texts, Spaces
<1>3. DOMAIN t = 1 .. Len(t)
  BY <1>1, LenProperties DEF Texts
<1> HIDE DEF t
<1>4. I \subseteq Nat
  BY <1>1, <1>3
<1>5. m \in I
  <2>1. CASE m = 0
    BY <2>1
  <2>2. CASE m # 0
    <3>1. m \in 1 .. m /\ m \in 1 .. Len(t) /\ c # << >>
      BY <1>1, <2>2, EmptyText
    <3>2. t[m] # Space
      BY <1>2, <3>1 DEF Tight
    <3> QED
      BY <1>3, <3>1, <3>2
  <2> QED
    BY <2>1, <2>2
<1>6. ASSUME NEW i \in I PROVE m >= i
  <2> SUFFICES ASSUME i > m PROVE FALSE
    BY <1>1, <1>4
  <2>1. i \in 1 .. Len(t) /\ t[i] # Space
    BY <1>1, <1>3
  <2>2. i - m \in 1 .. Len(g) /\ m + (i - m) = i
    BY <1>1, <2>1
  <2> QED
    BY <1>2, <2>1, <2>2 DEF Spaces
<1> HIDE DEF I
<1>7. Max(I) = m
  BY <1>4, <1>5, <1>6, MaxIs
<1>8. RightStripped(t) = Upto(t, m)
  BY <1>7 DEF RightStripped, Upto, I
<1> QED
  BY <1>1, <1>8 DEF t

\* What was stripped.
Gap(t) == From(t, Len(RightStripped(t)))

LEMMA Stripping ==
  ASSUME NEW t \in Texts
  PROVE  /\ RightStripped(t) \in Texts /\ Tight(RightStripped(t))
         /\ Gap(t) \in Spaces /\ Gap(t) \in Texts
         /\ t = RightStripped(t) \o Gap(t)
BY RightStrippedIs DEF Gap, Spaces

LEMMA StrippingOf ==
  ASSUME NEW c \in Texts, Tight(c), NEW g \in Spaces
  PROVE  RightStripped(c \o g) = c /\ Gap(c \o g) = g
<1>1. RightStripped(c \o g) = c
  BY RightStrippedOf
<1>2. From(c \o g, Len(c)) = g
  BY JoinedTexts DEF Spaces
<1> QED
  BY <1>1, <1>2 DEF Gap

LEMMA StrippingNothing ==
  RightStripped(<< >>) = << >> /\ Gap(<< >>) = << >>
<1>1. << >> \o << >> = << >>
  BY EmptyText
<1>2. /\ RightStripped(<< >> \o << >>) = << >>
      /\ Gap(<< >> \o << >>) = << >>
  BY EmptyText, JoinedSpaces, StrippingOf DEF Tight
<1> QED
  BY <1>1, <1>2

\* A text behind another one: its letters make all before it stay.
LEMMA StrippingBoth ==
  ASSUME NEW a \in Texts, NEW b \in Texts
  PROVE  /\ RightStripped(b) = << >> =>
              /\ RightStripped(a \o b) = RightStripped(a)
              /\ Gap(a \o b) = Gap(a) \o b
              /\ Gap(b) = b
         /\ RightStripped(b) # << >> =>
              /\ RightStripped(a \o b) = a \o RightStripped(b)
              /\ RightStripped(a \o b) # << >>
              /\ Gap(a \o b) = Gap(b)
<1> DEFINE c == RightStripped(a)
           g == Gap(a)
           d == RightStripped(b)
           h == Gap(b)
<1>1. /\ c \in Texts /\ Tight(c) /\ g \in Spaces /\ g \in Texts /\ a = c \o g
      /\ d \in Texts /\ Tight(d) /\ h \in Spaces /\ h \in Texts /\ b = d \o h
  BY Stripping
<1> HIDE DEF c, g, d, h
<1>2. CASE d = << >>
  <2>1. b = h
    BY <1>1, <1>2, EmptyText
  <2>2. g \o h \in Spaces
    BY <1>1, JoinedSpaces
  <2>3. (c \o g) \o h = c \o (g \o h)
    <3>1. c \in Texts /\ g \in Texts /\ h \in Texts
      BY <1>1
    <3> QED
      <4>1. JoinsAlike(c, g, h)
        BY <3>1, TextsJoinAlike
      <4> QED
        BY <4>1 DEF JoinsAlike
  <2>4. a \o b = c \o (g \o h)
    BY <1>1, <2>1, <2>3
  <2>5. RightStripped(c \o (g \o h)) = c /\ Gap(c \o (g \o h)) = g \o h
    BY <1>1, <2>2, StrippingOf
  <2>6. RightStripped(a \o b) = c /\ Gap(a \o b) = g \o h
    BY <2>4, <2>5
  <2> QED
    BY <1>2, <2>1, <2>6 DEF c, g, d, h
<1>3. CASE d # << >>
  <2>1. a \o b = (a \o d) \o h
    <3>1. JoinsAlike(a, d, h)
      BY <1>1, TextsJoinAlike
    <3> QED
      BY <1>1, <3>1 DEF JoinsAlike
  <2>2. a \o d \in Texts /\ Len(a \o d) = Len(a) + Len(d) /\ Len(a) \in Nat /\ Len(d) \in Nat
    BY <1>1, JoinedTexts
  <2>3. Len(d) # 0
    BY <1>1, <1>3, EmptyText
  <2>4. (a \o d)[Len(a) + Len(d)] = d[Len(d)]
    <3>1. Len(d) \in 1 .. Len(d)
      BY <2>2, <2>3
    <3> QED
      BY <1>1, <3>1, Halves DEF Texts
  <2>5. Tight(a \o d)
    BY <1>1, <1>3, <2>2, <2>4 DEF Tight
  <2>6. RightStripped(a \o b) = a \o d /\ Gap(a \o b) = h
    <3> DEFINE y == a \o d
    <3>1. y \in Texts /\ Tight(y) /\ h \in Spaces
      BY <1>1, <2>2, <2>5
    <3> HIDE DEF y
    <3>2. RightStripped(y \o h) = y /\ Gap(y \o h) = h
      BY <3>1, StrippingOf
    <3> QED
      BY <2>1, <3>2 DEF y
  <2>7. a \o d # << >>
    BY <2>2, <2>3, EmptyText
  <2> QED
    BY <1>3, <2>6, <2>7 DEF c, g, d, h
<1> QED
  BY <1>2, <1>3 DEF d

-----------------------------------------------------------------------------
(* One round of the parser.                                                 *)

\* What the parser works on: its own state, and the text and calls of a push.
State(b, s, i, n, x, c) ==
  [parser |-> [buffer |-> b, space |-> s, inCall |-> i, nCalls |-> n], text |-> x, calls |-> c]

Parsers == [buffer : Texts, space : Spaces, inCall : BOOLEAN, nCalls : Nat]
States == [parser : Parsers, text : Texts, calls : Seq(Texts)]

LEMMA StatesAre ==
  /\ \A b \in Texts, s \in Spaces, i \in BOOLEAN, n \in Nat, x \in Texts, c \in Seq(Texts) :
       State(b, s, i, n, x, c) \in States
  /\ \A a \in States :
       /\ a.parser.buffer \in Texts /\ a.parser.space \in Spaces /\ a.parser.inCall \in BOOLEAN
       /\ a.parser.nCalls \in Nat /\ a.text \in Texts /\ a.calls \in Seq(Texts)
       /\ a = State(a.parser.buffer, a.parser.space, a.parser.inCall, a.parser.nCalls,
                    a.text, a.calls)
BY DEF State, States, Parsers

\* The gap held back, and the text, when t is emitted after text x with gap s.
GapAfter(s, t) == IF RightStripped(t) = << >> THEN s \o Gap(t) ELSE Gap(t)
TextAfter(x, s, t) ==
  IF RightStripped(t) = << >> THEN x ELSE (x \o s) \o RightStripped(t)

LEMMA EmittedIs ==
  ASSUME NEW b, NEW s, NEW i, NEW n, NEW x, NEW c, NEW t
  PROVE  Emitted(State(b, s, i, n, x, c), t)
           = State(b, GapAfter(s, t), i, n, TextAfter(x, s, t), c)
BY DEF Emitted, State, GapAfter, TextAfter, Gap, From

LEMMA AfterTypes ==
  ASSUME NEW s \in Spaces, NEW x \in Texts, NEW t \in Texts
  PROVE  GapAfter(s, t) \in Spaces /\ TextAfter(x, s, t) \in Texts
<1> DEFINE c == RightStripped(t)
           g == Gap(t)
<1>1. c \in Texts /\ g \in Spaces /\ s \in Texts
  BY Stripping DEF Spaces
<1> HIDE DEF c, g
<1>2. s \o g \in Spaces
  BY <1>1, JoinedSpaces
<1>3. x \o s \in Texts
  BY <1>1, JoinedTexts
<1>4. (x \o s) \o c \in Texts
  BY <1>1, <1>3, JoinedTexts
<1> QED
  BY <1>1, <1>2, <1>4 DEF GapAfter, TextAfter, c, g

LEMMA AfterNothing ==
  ASSUME NEW s \in Spaces, NEW x
  PROVE  GapAfter(s, << >>) = s /\ TextAfter(x, s, << >>) = x
<1>1. s \in Texts /\ s \o << >> = s
  BY EmptyText DEF Spaces
<1> QED
  BY <1>1, StrippingNothing DEF GapAfter, TextAfter

\* What is emitted and what is held back is what was there before, then t.
LEMMA AfterKeepsText ==
  ASSUME NEW s \in Spaces, NEW x \in Texts, NEW t \in Texts
  PROVE  TextAfter(x, s, t) \o GapAfter(s, t) = (x \o s) \o t
<1> DEFINE c == RightStripped(t)
           g == Gap(t)
           y == x \o s
<1>1. c \in Texts /\ g \in Texts /\ s \in Texts
  BY Stripping DEF Spaces
<1>2. t = c \o g
  BY Stripping
<1>3. y \in Texts
  BY <1>1, JoinedTexts
<1> HIDE DEF c, g
<1>4. (y \o c) \o g = y \o (c \o g)
  <2> HIDE DEF y
  <2> QED
    BY <1>1, <1>3, TextsAssociate
<1>5. CASE c = << >>
  <2>1. t = g
    BY <1>1, <1>2, <1>5, EmptyText
  <2>2. x \o (s \o g) = (x \o s) \o g
    BY <1>1, TextsAssociate
  <2> QED
    BY <1>5, <2>1, <2>2 DEF GapAfter, TextAfter, c, g
<1>6. CASE c # << >>
  BY <1>2, <1>4, <1>6 DEF GapAfter, TextAfter, c, g
<1> QED
  BY <1>5, <1>6

\* Two texts emitted are one.
LEMMA AfterBoth ==
  ASSUME NEW s \in Spaces, NEW x \in Texts, NEW t \in Texts, NEW u \in Texts
  PROVE  /\ GapAfter(GapAfter(s, t), u) = GapAfter(s, t \o u)
         /\ TextAfter(TextAfter(x, s, t), GapAfter(s, t), u) = TextAfter(x, s, t \o u)
<1> DEFINE c == RightStripped(t)
           g == Gap(t)
           d == RightStripped(u)
           h == Gap(u)
           w == t \o u
           e == RightStripped(w)
           k == Gap(w)
<1>1. /\ c \in Texts /\ g \in Texts /\ d \in Texts /\ h \in Texts /\ s \in Texts
      /\ t = c \o g
  BY Stripping DEF Spaces
<1>2. d = << >> => e = c /\ k = g \o u /\ h = u
  BY StrippingBoth
<1>3. d # << >> => e = t \o d /\ e # << >> /\ k = h
  BY StrippingBoth
<1>4. x \o s \in Texts
  BY <1>1, JoinedTexts
<1> HIDE DEF c, g, d, h, w, e, k
<1>5. CASE d = << >>
  <2>1. GapAfter(GapAfter(s, t), u) = GapAfter(s, t) \o u
    BY <1>2, <1>5 DEF GapAfter, d, h
  <2>2. TextAfter(TextAfter(x, s, t), GapAfter(s, t), u) = TextAfter(x, s, t)
    BY <1>5 DEF TextAfter, d
  <2>3. TextAfter(x, s, w) = TextAfter(x, s, t)
    BY <1>2, <1>5 DEF TextAfter, c, e
  <2>4. GapAfter(s, w) = IF c = << >> THEN s \o (g \o u) ELSE g \o u
    BY <1>2, <1>5 DEF GapAfter, e, k
  <2>5. GapAfter(s, t) = IF c = << >> THEN s \o g ELSE g
    BY DEF GapAfter, c, g
  <2>6. (s \o g) \o u = s \o (g \o u)
    <3>1. s \in Texts /\ g \in Texts
      BY <1>1
    <3>2. JoinsAlike(s, g, u)
      BY <3>1, TextsJoinAlike
    <3> QED
      BY <3>2 DEF JoinsAlike
  <2> QED
    BY <2>1, <2>2, <2>3, <2>4, <2>5, <2>6 DEF w
<1>6. CASE d # << >>
  <2>1. GapAfter(GapAfter(s, t), u) = h /\ GapAfter(s, w) = k
    BY <1>3, <1>6 DEF GapAfter, d, h, e, k
  <2>2. TextAfter(TextAfter(x, s, t), GapAfter(s, t), u)
          = (TextAfter(x, s, t) \o GapAfter(s, t)) \o d
    BY <1>6 DEF TextAfter, d
  <2>3. TextAfter(x, s, w) = (x \o s) \o e
    BY <1>3, <1>6 DEF TextAfter, e
  <2>4. TextAfter(x, s, t) \o GapAfter(s, t) = (x \o s) \o t
    BY AfterKeepsText
  <2>5. ((x \o s) \o t) \o d = (x \o s) \o (t \o d)
    <3>1. x \o s \in Texts /\ d \in Texts
      BY <1>1, <1>4
    <3> DEFINE y == x \o s
    <3> HIDE DEF y
    <3>2. (y \o t) \o d = y \o (t \o d)
      <4>1. JoinsAlike(y, t, d)
        BY <3>1, TextsJoinAlike DEF y
      <4> QED
        BY <4>1 DEF JoinsAlike
    <3> QED
      BY <3>2 DEF y
  <2> QED
    BY <1>3, <1>6, <2>1, <2>2, <2>3, <2>4, <2>5 DEF w
<1> QED
  BY <1>5, <1>6

\* Text in front stays in front.
StaysBehind(y, x, s, t) == TextAfter(y \o x, s, t) = y \o TextAfter(x, s, t)

LEMMA AfterBehind ==
  ASSUME NEW y \in Texts, NEW s \in Spaces, NEW x \in Texts, NEW t \in Texts
  PROVE  StaysBehind(y, x, s, t)
<1> DEFINE c == RightStripped(t)
           z == x \o s
<1>1. c \in Texts /\ s \in Texts /\ z \in Texts
  BY Stripping, JoinedTexts DEF Spaces
<1>2. (y \o x) \o s = y \o (x \o s)
  <2>1. JoinsAlike(y, x, s)
    BY <1>1, TextsJoinAlike
  <2> QED
    BY <2>1 DEF JoinsAlike
<1> HIDE DEF c, z
<1>3. (y \o z) \o c = y \o (z \o c)
  <2>1. JoinsAlike(y, z, c)
    BY <1>1, TextsJoinAlike
  <2> QED
    BY <2>1 DEF JoinsAlike
<1> QED
  BY <1>2, <1>3 DEF StaysBehind, TextAfter, c, z

LEMMA Tags ==
  /\ Open \in Texts /\ Close \in Texts
  /\ Len(Open) \in Nat /\ Len(Open) > 0 /\ Len(Close) \in Nat /\ Len(Close) > 0
  /\ Open \in Seq(Characters) /\ Close \in Seq(Characters) /\ {Open} \in SUBSET Seq(Characters)
<1>1. Open \in Seq(Characters) /\ Close \in Seq(Characters)
  BY RepliesAssumption
<1>2. Open # << >> /\ Close # << >>
  BY TagsAssumption
<1>3. Len(Open) \in Nat /\ Len(Close) \in Nat /\ Len(Open) # 0 /\ Len(Close) # 0
  BY <1>1, <1>2, EmptySeq, LenProperties
<1> QED
  BY <1>1, <1>3 DEF Texts

\* b up to the first opening tag, and behind it; or b without one, up to what
\* may begin one; or b up to the first closing tag, and behind it.
Opens(b, u, v) ==
  /\ u \in Texts /\ v \in Texts /\ b = u \o (Open \o v)
  /\ Clear({Open}, b, Len(u))
Waits(b, u, v) ==
  /\ u \in Texts /\ v \in Texts /\ b = u \o v
  /\ Free({Open}, b) /\ Clear({Open}, b, Len(u))
  /\ v = << >> \/ Fits(Open, v, 0)
Closes(b, u, v) ==
  /\ u \in Texts /\ v \in Texts /\ b = u \o (Close \o v)
  /\ \A i \in Nat : i < Len(u) => ~At(Close, b, i)

\* What is found at an offset divides the text there.
DividesAt(s, b, x) == \E u, v \in Texts : b = u \o (s \o v) /\ Len(u) = x

LEMMA DividedAt ==
  ASSUME NEW s \in Texts, NEW b \in Texts, NEW x \in Nat, At(s, b, x)
  PROVE  DividesAt(s, b, x)
<1>1. Len(s) \in Nat /\ Len(b) \in Nat
  BY EmptyText
<1>2. x \in 0 .. Len(b)
  BY <1>1 DEF At
<1> DEFINE u == Upto(b, x)
           w == From(b, x)
<1>3. u \in Texts /\ Len(u) = x /\ w \in Texts /\ b = u \o w
  BY <1>2, DividedText
<1> HIDE DEF u, w
<1>4. At(s, u \o w, Len(u) + 0)
  BY <1>3
<1>5. At(s, w, 0)
  <2>1. s \in Seq(Characters) /\ u \in Seq(Characters) /\ w \in Seq(Characters)
    BY <1>3 DEF Texts
  <2> QED
    BY <1>4, <2>1, Shifted
<1>6. PICK v \in Texts : w = s \o v
  BY <1>3, <1>5, PrefixIs DEF Texts
<1> QED
  BY <1>3, <1>6 DEF DividesAt

\* Where such a division has it.
LEMMA FoundAt ==
  ASSUME NEW s \in Texts, NEW u \in Texts, NEW v \in Texts
  PROVE  /\ At(s, u \o (s \o v), Len(u)) /\ Len(u) \in Nat
         /\ u \o (s \o v) \in Texts /\ s \o v \in Texts
<1> DEFINE w == s \o v
<1>1. w \in Texts /\ s \in Seq(Characters) /\ u \in Seq(Characters) /\ v \in Seq(Characters)
  BY JoinedTexts DEF Texts
<1>2. At(s, w, 0)
  BY <1>1, PrefixIs DEF Texts
<1>3. Len(u) \in Nat /\ Len(u) + 0 = Len(u) /\ u \o w \in Texts
  BY <1>1, JoinedTexts
<1> HIDE DEF w
<1>4. At(s, u \o w, Len(u) + 0)
  BY <1>1, <1>2, Shifted DEF Texts
<1> QED
  BY <1>1, <1>3, <1>4 DEF w

LEMMA TextCases ==
  ASSUME NEW b \in Texts
  PROVE  \E u, v \in Texts : Opens(b, u, v) \/ Waits(b, u, v)
<1>0. b \in Seq(Characters) /\ Len(b) \in Nat
  BY EmptyText DEF Texts
<1>1. CASE F!Occurs(Open, b)
  <2> DEFINE x == F!FirstOffset(Open, b)
  <2>1. x \in Nat /\ At(Open, b, x) /\ \A i \in Nat : At(Open, b, i) => x <= i
    BY <1>0, <1>1, Tags, FirstOffsetIs
  <2> HIDE DEF x
  <2>2. PICK u, v \in Texts : b = u \o (Open \o v) /\ Len(u) = x
    <3>1. Open \in Texts /\ x \in Nat /\ At(Open, b, x)
      BY <2>1, Tags
    <3>2. DividesAt(Open, b, x)
      BY <3>1, DividedAt
    <3> QED
      BY <3>2, Zenon DEF DividesAt
  <2>3. Clear({Open}, b, x)
    <3> SUFFICES ASSUME NEW i \in Nat, i < x, Fits(Open, b, i) PROVE FALSE
      BY DEF Clear
    <3>1. i + Len(Open) <= Len(b)
      BY <1>0, <2>1, Tags DEF At
    <3> QED
      BY <2>1, <3>1 DEF At
  <2> QED
    BY <2>2, <2>3 DEF Opens
<1>2. CASE ~F!Occurs(Open, b)
  <2> DEFINE h == F!PartialStopLen(b, {Open})
             k == Len(b) - h
             u == Upto(b, k)
             v == From(b, k)
  <2>1. Free({Open}, b)
    BY <1>0, <1>2, Tags, OccursIs DEF Free
  <2>2. /\ h \in 0 .. Len(b) /\ k \in 0 .. Len(b) /\ Clear({Open}, b, k)
        /\ h = 0 \/ Fits(Open, b, k)
    BY <1>0, <2>1, Tags, PartialStopLenIs
  <2> HIDE DEF h, k
  <2>3. u \in Texts /\ Len(u) = k /\ v \in Texts /\ Len(v) = Len(b) - k /\ b = u \o v
    BY <2>2, DividedText
  <2>4. Len(v) = h
    BY <1>0, <2>2, <2>3 DEF k
  <2> HIDE DEF u, v
  <2>5. v = << >> \/ Fits(Open, v, 0)
    <3>1. CASE h = 0
      BY <2>3, <2>4, <3>1, EmptyText
    <3>2. CASE Fits(Open, b, k)
      <4>1. Fits(Open, u \o v, Len(u) + 0)
        BY <2>2, <2>3, <3>2
      <4>2. u \in Seq(Characters) /\ v \in Seq(Characters)
        BY <2>3 DEF Texts
      <4> QED
        BY <4>1, <4>2, Tags, Shifted
    <3> QED
      BY <2>2, <3>1, <3>2
  <2>6. Waits(b, u, v)
    BY <2>1, <2>2, <2>3, <2>5 DEF Waits
  <2> QED
    BY <2>3, <2>6
<1> QED
  BY <1>1, <1>2

LEMMA CallCases ==
  ASSUME NEW b \in Texts
  PROVE  ~F!Occurs(Close, b) \/ \E u, v \in Texts : Closes(b, u, v)
<1> SUFFICES ASSUME F!Occurs(Close, b) PROVE \E u, v \in Texts : Closes(b, u, v)
  OBVIOUS
<1>0. b \in Seq(Characters) /\ Len(b) \in Nat
  BY EmptyText DEF Texts
<1> DEFINE x == F!FirstOffset(Close, b)
<1>1. x \in Nat /\ At(Close, b, x) /\ \A i \in Nat : At(Close, b, i) => x <= i
  BY <1>0, Tags, FirstOffsetIs
<1> HIDE DEF x
<1>2. PICK u, v \in Texts : b = u \o (Close \o v) /\ Len(u) = x
  <2>1. Close \in Texts /\ x \in Nat /\ At(Close, b, x)
    BY <1>1, Tags
  <2>2. DividesAt(Close, b, x)
    BY <2>1, DividedAt
  <2> QED
    BY <2>2, Zenon DEF DividesAt
<1>3. \A i \in Nat : i < x => ~At(Close, b, i)
  BY <1>1
<1> QED
  BY <1>2, <1>3 DEF Closes

\* What the operators make of each of them.
LEMMA OpensIs ==
  ASSUME NEW b, NEW u, NEW v, Opens(b, u, v)
  PROVE  /\ F!Occurs(Open, b) /\ F!FirstOffset(Open, b) = Len(u)
         /\ b \in Texts /\ Open \o v \in Texts /\ Len(u) \in Nat
         /\ F!Drop(b, Len(u)) = Open \o v /\ SubSeq(b, 1, Len(u)) = u
         /\ IsPrefix(Open, Open \o v) /\ F!Drop(Open \o v, Len(Open)) = v
         /\ Len(b) = Len(u) + Len(Open) + Len(v) /\ Len(v) \in Nat
<1> DEFINE w == Open \o v
<1>1. u \in Texts /\ v \in Texts /\ b = u \o w /\ Clear({Open}, b, Len(u))
  BY DEF Opens
<1>2. /\ w \in Texts /\ Len(w) = Len(Open) + Len(v) /\ Len(v) \in Nat
      /\ From(w, Len(Open)) = v
  BY <1>1, Tags, JoinedTexts
<1>3. At(Open, b, Len(u)) /\ b \in Texts
  BY <1>1, Tags, FoundAt
<1>4. IsPrefix(Open, w)
  <2>1. w \in Seq(Characters) /\ v \in Seq(Characters)
    BY <1>1, <1>2 DEF Texts
  <2> QED
    BY <2>1, Tags, PrefixIs
<1> HIDE DEF w
<1>5. /\ Upto(u \o w, Len(u)) = u /\ From(u \o w, Len(u)) = w
      /\ Len(u \o w) = Len(u) + Len(w) /\ Len(u) \in Nat
  BY <1>1, <1>2, JoinedTexts
<1>6. F!Occurs(Open, b) /\ F!FirstOffset(Open, b) = Len(u)
  <2>1. ASSUME NEW i \in Nat, At(Open, b, i) PROVE Len(u) <= i
    BY <1>1, <1>5, <2>1 DEF Clear, At
  <2>2. b \in Seq(Characters)
    BY <1>3 DEF Texts
  <2> QED
    BY <1>3, <1>5, <2>1, <2>2, Tags, FirstOffsetFits
<1>7. Len(b) = Len(u) + Len(Open) + Len(v)
  BY <1>1, <1>2, <1>5, Tags
<1> QED
  BY <1>1, <1>2, <1>3, <1>4, <1>5, <1>6, <1>7 DEF Upto, From, w

LEMMA WaitsIs ==
  ASSUME NEW b, NEW u, NEW v, Waits(b, u, v)
  PROVE  /\ ~F!Occurs(Open, b) /\ Len(b) - F!PartialStopLen(b, {Open}) = Len(u)
         /\ b \in Texts /\ Len(u) \in Nat
         /\ F!Drop(b, Len(u)) = v /\ SubSeq(b, 1, Len(u)) = u
         /\ ~IsPrefix(Open, v)
         /\ Len(b) = Len(u) + Len(v) /\ Len(v) \in Nat
<1>1. /\ u \in Texts /\ v \in Texts /\ b = u \o v
      /\ Free({Open}, b) /\ Clear({Open}, b, Len(u))
      /\ v = << >> \/ Fits(Open, v, 0)
  BY DEF Waits
<1>2. /\ b \in Texts /\ Len(b) = Len(u) + Len(v) /\ Len(u) \in Nat /\ Len(v) \in Nat
      /\ Upto(b, Len(u)) = u /\ From(b, Len(u)) = v
  BY <1>1, JoinedTexts
<1>3. u \in Seq(Characters) /\ v \in Seq(Characters) /\ b \in Seq(Characters)
  BY <1>1, <1>2 DEF Texts
<1>4. ~F!Occurs(Open, b)
  BY <1>1, <1>3, Tags, OccursIs DEF Free
<1> DEFINE h == F!PartialStopLen(b, {Open})
           k == Len(b) - h
<1>5. /\ h \in 0 .. Len(b) /\ k \in 0 .. Len(b) /\ Clear({Open}, b, k)
      /\ h = 0 \/ Fits(Open, b, k)
  BY <1>1, <1>3, Tags, PartialStopLenIs
<1>6. /\ Fits(Open, b, Len(u)) <=> Fits(Open, v, 0)
      /\ At(Open, b, Len(u)) <=> At(Open, v, 0)
  <2>1. /\ Fits(Open, u \o v, Len(u) + 0) <=> Fits(Open, v, 0)
        /\ At(Open, u \o v, Len(u) + 0) <=> At(Open, v, 0)
    BY <1>3, Tags, Shifted
  <2>2. Len(u) + 0 = Len(u)
    BY <1>2
  <2> QED
    BY <1>1, <2>1, <2>2
<1>7. k = Len(u)
  <2>1. CASE k < Len(u)
    <3>1. h # 0
      BY <1>2, <2>1
    <3>2. Fits(Open, b, k) /\ k \in Nat
      BY <1>2, <1>5, <3>1
    <3> HIDE DEF k, h
    <3> QED
      BY <1>1, <2>1, <3>2 DEF Clear
  <2>2. CASE k > Len(u)
    <3>1. v # << >>
      BY <1>2, <1>5, <2>2, EmptyText
    <3>2. Fits(Open, b, Len(u))
      BY <1>1, <1>6, <3>1
    <3> HIDE DEF k, h
    <3> QED
      BY <1>2, <1>5, <2>2, <3>2 DEF Clear
  <2> HIDE DEF h
  <2> QED
    BY <1>2, <1>5, <2>1, <2>2
<1>8. ~IsPrefix(Open, v)
  BY <1>1, <1>2, <1>3, <1>6, Tags, PrefixIs DEF Free
<1> QED
  BY <1>1, <1>2, <1>4, <1>7, <1>8 DEF Upto, From

LEMMA ClosesIs ==
  ASSUME NEW b, NEW u, NEW v, Closes(b, u, v)
  PROVE  /\ F!Occurs(Close, b) /\ F!FirstOffset(Close, b) = Len(u)
         /\ b \in Texts /\ Len(u) \in Nat
         /\ SubSeq(b, 1, Len(u)) = u /\ F!Drop(b, Len(u) + Len(Close)) = v
         /\ Len(b) = Len(u) + Len(Close) + Len(v) /\ Len(v) \in Nat
<1> DEFINE w == Close \o v
           y == u \o Close
<1>1. u \in Texts /\ v \in Texts /\ b = u \o w /\ \A i \in Nat : i < Len(u) => ~At(Close, b, i)
  BY DEF Closes
<1>2. w \in Texts /\ Len(w) = Len(Close) + Len(v) /\ Len(v) \in Nat
  BY <1>1, Tags, JoinedTexts
<1>3. At(Close, b, Len(u)) /\ b \in Texts
  BY <1>1, Tags, FoundAt
<1>4. y \in Texts /\ Len(y) = Len(u) + Len(Close)
  BY <1>1, Tags, JoinedTexts
<1>5. y \o v = u \o w
  BY <1>1, Tags, TextsAssociate
<1> HIDE DEF w, y
<1>6. From(y \o v, Len(y)) = v
  BY <1>1, <1>4, JoinedTexts
<1>7. Upto(u \o w, Len(u)) = u /\ Len(u \o w) = Len(u) + Len(w) /\ Len(u) \in Nat
  BY <1>1, <1>2, JoinedTexts
<1>8. F!Occurs(Close, b) /\ F!FirstOffset(Close, b) = Len(u)
  <2>1. ASSUME NEW i \in Nat, At(Close, b, i) PROVE Len(u) <= i
    BY <1>1, <1>7, <2>1
  <2>2. b \in Seq(Characters)
    BY <1>3 DEF Texts
  <2> QED
    BY <1>3, <1>7, <2>1, <2>2, Tags, FirstOffsetFits
<1>9. Len(b) = Len(u) + Len(Close) + Len(v)
  BY <1>1, <1>2, <1>7, Tags
<1>10. From(b, Len(u) + Len(Close)) = v
  BY <1>1, <1>4, <1>5, <1>6
<1> QED
  BY <1>1, <1>2, <1>3, <1>7, <1>8, <1>9, <1>10 DEF Upto, From

\* A block that is no call, as the text that it is handed back as.
Block(u) == Open \o u \o Close

LEMMA BlockIs ==
  ASSUME NEW u \in Texts
  PROVE  Block(u) \in Texts
<1> DEFINE y == Open \o u
<1>1. y \in Texts
  BY Tags, JoinedTexts
<1> HIDE DEF y
<1>2. y \o Close \in Texts
  BY <1>1, Tags, JoinedTexts
<1> QED
  BY <1>2 DEF y, Block

\* Whether the buffer is behind an opening tag.
Inside == TRUE
Outside == FALSE

LEMMA Sides ==
  /\ Inside \in BOOLEAN /\ Outside \in BOOLEAN /\ Inside # Outside
  /\ \A i \in BOOLEAN : i = Inside \/ i = Outside
BY DEF Inside, Outside

\* States with other fields.
LEMMA OtherBuffer ==
  ASSUME NEW b, NEW s, NEW i, NEW n, NEW x, NEW c, NEW v
  PROVE  [State(b, s, i, n, x, c) EXCEPT !.parser.buffer = v] = State(v, s, i, n, x, c)
BY DEF State

LEMMA OtherSpace ==
  ASSUME NEW b, NEW s, NEW i, NEW n, NEW x, NEW c, NEW v
  PROVE  [State(b, s, i, n, x, c) EXCEPT !.parser.space = v] = State(b, v, i, n, x, c)
BY DEF State

LEMMA OtherInCall ==
  ASSUME NEW b, NEW s, NEW i, NEW n, NEW x, NEW c, NEW v
  PROVE  [State(b, s, i, n, x, c) EXCEPT !.parser.inCall = v] = State(b, s, v, n, x, c)
BY DEF State

LEMMA OtherCount ==
  ASSUME NEW b, NEW s, NEW i, NEW n, NEW x, NEW c, NEW v
  PROVE  [State(b, s, i, n, x, c) EXCEPT !.parser.nCalls = v] = State(b, s, i, v, x, c)
BY DEF State

LEMMA OtherCalls ==
  ASSUME NEW b, NEW s, NEW i, NEW n, NEW x, NEW c, NEW v
  PROVE  [State(b, s, i, n, x, c) EXCEPT !.calls = v] = State(b, s, i, n, x, v)
BY DEF State

LEMMA ScanOpens ==
  ASSUME NEW b, NEW u, NEW v, Opens(b, u, v), NEW s, NEW n, NEW x, NEW c
  PROVE  Scan(State(b, s, Outside, n, x, c))
           = State(v, GapAfter(s, u), Inside, n, TextAfter(x, s, u), c)
<1>1. /\ F!Occurs(Open, b) /\ F!FirstOffset(Open, b) = Len(u)
      /\ F!Drop(b, Len(u)) = Open \o v /\ SubSeq(b, 1, Len(u)) = u
      /\ IsPrefix(Open, Open \o v) /\ F!Drop(Open \o v, Len(Open)) = v
  BY OpensIs
<1> DEFINE a == State(b, s, Outside, n, x, c)
<1>2. Scan(a) = Emitted([a EXCEPT !.parser.buffer = v, !.parser.inCall = Inside], u)
  <2>1. a.parser.buffer = b /\ a.parser.inCall = Outside
    BY DEF State
  <2> HIDE DEF a
  <2>2. Scan(a) = ScanText(a)
    BY <2>1, Zenon DEF Scan, Outside
  <2>3. IsPrefix(Open, Open \o v) = Inside
    BY <1>1 DEF Inside, IsPrefix
  <2>4. ScanText(a) = Emitted([a EXCEPT !.parser.buffer = v, !.parser.inCall = Inside], u)
    BY <1>1, <2>1, <2>3, Zenon DEF ScanText
  <2> QED
    BY <2>2, <2>4
<1>3. [a EXCEPT !.parser.buffer = v, !.parser.inCall = Inside] = State(v, s, Inside, n, x, c)
  <2>1. [State(b, s, Outside, n, x, c) EXCEPT !.parser.buffer = v] = State(v, s, Outside, n, x, c)
    BY OtherBuffer
  <2>2. [State(v, s, Outside, n, x, c) EXCEPT !.parser.inCall = Inside] = State(v, s, Inside, n, x, c)
    BY OtherInCall
  <2> QED
    BY <2>1, <2>2, Zenon
<1>4. Emitted(State(v, s, Inside, n, x, c), u)
        = State(v, GapAfter(s, u), Inside, n, TextAfter(x, s, u), c)
  BY EmittedIs
<1> QED
  BY <1>2, <1>3, <1>4, Zenon

LEMMA ScanWaits ==
  ASSUME NEW b, NEW u, NEW v, Waits(b, u, v), NEW s, NEW n, NEW x, NEW c
  PROVE  Scan(State(b, s, Outside, n, x, c))
           = State(v, GapAfter(s, u), Outside, n, TextAfter(x, s, u), c)
<1>1. /\ ~F!Occurs(Open, b) /\ Len(b) - F!PartialStopLen(b, {Open}) = Len(u)
      /\ F!Drop(b, Len(u)) = v /\ SubSeq(b, 1, Len(u)) = u
      /\ ~IsPrefix(Open, v)
  BY WaitsIs
<1> DEFINE a == State(b, s, Outside, n, x, c)
<1>2. Scan(a) = Emitted([a EXCEPT !.parser.buffer = v, !.parser.inCall = Outside], u)
  <2>1. a.parser.buffer = b /\ a.parser.inCall = Outside
    BY DEF State
  <2> HIDE DEF a
  <2>2. Scan(a) = ScanText(a)
    BY <2>1, Zenon DEF Scan, Outside
  <2>3. IsPrefix(Open, v) = Outside
    BY <1>1 DEF Outside, IsPrefix
  <2>4. ScanText(a) = Emitted([a EXCEPT !.parser.buffer = v, !.parser.inCall = Outside], u)
    BY <1>1, <2>1, <2>3, Zenon DEF ScanText
  <2> QED
    BY <2>2, <2>4
<1>3. [a EXCEPT !.parser.buffer = v, !.parser.inCall = Outside] = State(v, s, Outside, n, x, c)
  <2>1. [State(b, s, Outside, n, x, c) EXCEPT !.parser.buffer = v] = State(v, s, Outside, n, x, c)
    BY OtherBuffer
  <2>2. [State(v, s, Outside, n, x, c) EXCEPT !.parser.inCall = Outside] = State(v, s, Outside, n, x, c)
    BY OtherInCall
  <2> QED
    BY <2>1, <2>2, Zenon
<1>4. Emitted(State(v, s, Outside, n, x, c), u)
        = State(v, GapAfter(s, u), Outside, n, TextAfter(x, s, u), c)
  BY EmittedIs
<1> QED
  BY <1>2, <1>3, <1>4, Zenon

LEMMA ScanUnclosed ==
  ASSUME NEW b, ~F!Occurs(Close, b), NEW s, NEW n, NEW x, NEW c
  PROVE  Scan(State(b, s, Inside, n, x, c)) = State(b, s, Inside, n, x, c)
<1> DEFINE a == State(b, s, Inside, n, x, c)
<1>1. a.parser.buffer = b /\ a.parser.inCall = Inside
  BY DEF State
<1> HIDE DEF a
<1>2. Scan(a) = a
  BY <1>1, Zenon DEF Scan, ScanCall, Inside
<1> QED
  BY <1>2 DEF a

LEMMA ScanCloses ==
  ASSUME NEW b, NEW u, NEW v, Closes(b, u, v), NEW s, NEW n, NEW x, NEW c
  PROVE  Scan(State(b, s, Inside, n, x, c))
           = IF Stripped(u) \in Calls
             THEN State(v, << >>, Outside, n + 1, x, Append(c, Stripped(u)))
             ELSE State(v, GapAfter(s, Block(u)), Outside, n, TextAfter(x, s, Block(u)), c)
<1>1. /\ F!Occurs(Close, b) /\ SubSeq(b, 1, F!FirstOffset(Close, b)) = u
      /\ F!Drop(b, Len(u) + Len(Close)) = v
  BY ClosesIs
<1> DEFINE a == State(b, s, Inside, n, x, c)
           y == State(b, s, Outside, n, x, c)
           z == State(v, s, Outside, n, x, c)
<1>2. BlockRead(a, u) = z
  <2>1. [a EXCEPT !.parser.inCall = Outside] = y
    BY OtherInCall
  <2>2. [y EXCEPT !.parser.buffer = v] = z
    BY OtherBuffer
  <2>3. a.parser.buffer = b
    BY DEF State
  <2> HIDE DEF a, y, z
  <2>4. BlockRead(a, u) = [a EXCEPT !.parser.inCall = Outside, !.parser.buffer = v]
    BY <1>1, <2>3, Zenon DEF BlockRead, Outside
  <2> QED
    BY <2>1, <2>2, <2>4, Zenon
<1>3. a.parser.buffer = b /\ a.parser.inCall = Inside
  BY DEF State
<1>4. Scan(a) = IF Stripped(u) \in Calls THEN CallFound(z, Stripped(u)) ELSE Degraded(z, u)
  <2> HIDE DEF a, z
  <2>1. Scan(a) = ScanCall(a)
    BY <1>3, Zenon DEF Scan, Inside
  <2>2. CASE Stripped(u) \in Calls
    BY <1>1, <1>2, <1>3, <2>1, <2>2, Zenon DEF ScanCall
  <2>3. CASE Stripped(u) \notin Calls
    BY <1>1, <1>2, <1>3, <2>1, <2>3, Zenon DEF ScanCall
  <2> QED
    BY <2>2, <2>3
<1>5. CallFound(z, Stripped(u)) = State(v, << >>, Outside, n + 1, x, Append(c, Stripped(u)))
  <2> DEFINE d == Append(c, Stripped(u))
  <2>1. z.calls = c /\ z.parser.nCalls = n
    BY DEF State
  <2> HIDE DEF d
  <2>2. [State(v, s, Outside, n, x, c) EXCEPT !.calls = d] = State(v, s, Outside, n, x, d)
    BY OtherCalls
  <2>3. [State(v, s, Outside, n, x, d) EXCEPT !.parser.space = << >>]
          = State(v, << >>, Outside, n, x, d)
    BY OtherSpace
  <2>4. [State(v, << >>, Outside, n, x, d) EXCEPT !.parser.nCalls = n + 1]
          = State(v, << >>, Outside, n + 1, x, d)
    BY OtherCount
  <2> HIDE DEF z
  <2>5. CallFound(z, Stripped(u))
          = [z EXCEPT !.calls = d, !.parser.space = << >>, !.parser.nCalls = n + 1]
    BY <2>1, Zenon DEF CallFound, d
  <2> QED
    BY <2>2, <2>3, <2>4, <2>5, Zenon DEF d, z
<1>6. Degraded(z, u) = State(v, GapAfter(s, Block(u)), Outside, n, TextAfter(x, s, Block(u)), c)
  <2>1. Emitted(State(v, s, Outside, n, x, c), Block(u))
          = State(v, GapAfter(s, Block(u)), Outside, n, TextAfter(x, s, Block(u)), c)
    BY EmittedIs
  <2> QED
    BY <2>1, Zenon DEF Degraded, Block
<1> HIDE DEF a, z
<1> QED
  BY <1>4, <1>5, <1>6 DEF a

\* str.strip.
LEMMA StrippedTypes ==
  ASSUME NEW t \in Texts
  PROVE  Stripped(t) \in Texts
<1> DEFINE l == RightStripped(t)
           I == {i \in DOMAIN l : l[i] # Space} \cup {Len(l) + 1}
<1>1. l \in Texts
  BY Stripping
<1> HIDE DEF l
<1>2. Len(l) \in Nat /\ DOMAIN l = 1 .. Len(l)
  BY <1>1, LenProperties DEF Texts
<1>3. I \subseteq 1 .. Len(l) + 1 /\ I # {} /\ I \subseteq Nat
  BY <1>2
<1>4. PICK m \in I : \A i \in I : m <= i
  BY <1>3, LeastNumber
<1>5. Min(I) = m
  BY <1>3, <1>4, MinIs
<1>6. m - 1 \in 0 .. Len(l)
  BY <1>2, <1>3, <1>4
<1>7. Stripped(t) = From(l, m - 1)
  BY <1>5 DEF Stripped, From, l, I
<1> QED
  BY <1>1, <1>6, <1>7, DividedText

-----------------------------------------------------------------------------
(* Rounds.                                                                  *)

\* The kinds of rounds.
Round(a, z) ==
  \E b \in Texts, s \in Spaces, n \in Nat, x \in Texts, c \in Seq(Texts) :
    \/ \E u, v \in Texts :
         /\ Opens(b, u, v) /\ a = State(b, s, Outside, n, x, c)
         /\ z = State(v, GapAfter(s, u), Inside, n, TextAfter(x, s, u), c)
    \/ \E u, v \in Texts :
         /\ Waits(b, u, v) /\ a = State(b, s, Outside, n, x, c)
         /\ z = State(v, GapAfter(s, u), Outside, n, TextAfter(x, s, u), c)
    \/ ~F!Occurs(Close, b) /\ a = State(b, s, Inside, n, x, c) /\ z = a
    \/ \E u, v \in Texts :
         /\ Closes(b, u, v) /\ Stripped(u) \in Calls /\ a = State(b, s, Inside, n, x, c)
         /\ z = State(v, << >>, Outside, n + 1, x, Append(c, Stripped(u)))
    \/ \E u, v \in Texts :
         /\ Closes(b, u, v) /\ Stripped(u) \notin Calls /\ a = State(b, s, Inside, n, x, c)
         /\ z = State(v, GapAfter(s, Block(u)), Outside, n, TextAfter(x, s, Block(u)), c)

LEMMA EveryRound ==
  ASSUME NEW a \in States
  PROVE  Round(a, Scan(a))
<1>1. PICK b \in Texts, s \in Spaces, i \in BOOLEAN, n \in Nat, x \in Texts, c \in Seq(Texts) :
        a = State(b, s, i, n, x, c)
  BY StatesAre
<1>2. CASE i = Outside
  <2>1. PICK u, v \in Texts : Opens(b, u, v) \/ Waits(b, u, v)
    BY TextCases
  <2>2. CASE Opens(b, u, v)
    <3>1. Scan(a) = State(v, GapAfter(s, u), Inside, n, TextAfter(x, s, u), c)
      BY <1>1, <1>2, <2>2, ScanOpens
    <3> QED
      BY <1>1, <1>2, <2>2, <3>1 DEF Round
  <2>3. CASE Waits(b, u, v)
    <3>1. Scan(a) = State(v, GapAfter(s, u), Outside, n, TextAfter(x, s, u), c)
      BY <1>1, <1>2, <2>3, ScanWaits
    <3> QED
      BY <1>1, <1>2, <2>3, <3>1 DEF Round
  <2> QED
    BY <2>1, <2>2, <2>3
<1>3. CASE i = Inside
  <2>1. CASE ~F!Occurs(Close, b)
    <3>1. Scan(a) = a
      BY <1>1, <1>3, <2>1, ScanUnclosed
    <3> QED
      BY <1>1, <1>3, <2>1, <3>1 DEF Round
  <2>2. CASE \E u, v \in Texts : Closes(b, u, v)
    <3>1. PICK u, v \in Texts : Closes(b, u, v)
      BY <2>2
    <3>2. Scan(a) = IF Stripped(u) \in Calls
                    THEN State(v, << >>, Outside, n + 1, x, Append(c, Stripped(u)))
                    ELSE State(v, GapAfter(s, Block(u)), Outside, n, TextAfter(x, s, Block(u)), c)
      BY <1>1, <1>3, <3>1, ScanCloses
    <3> QED
      BY <1>1, <1>3, <3>1, <3>2 DEF Round
  <2> QED
    BY <2>1, <2>2, CallCases
<1> QED
  BY <1>2, <1>3, Sides

\* A round leads to a state, shortens the buffer or changes nothing, and
\* counts the calls that it finds.
LEMMA RoundsAre ==
  ASSUME NEW a \in States
  PROVE  /\ Scan(a) \in States
         /\ Scan(a) = a \/ Len(Scan(a).parser.buffer) < Len(a.parser.buffer)
         /\ Len(a.parser.buffer) \in Nat
         /\ Scan(a).parser.nCalls - Len(Scan(a).calls) = a.parser.nCalls - Len(a.calls)
<1> DEFINE z == Scan(a)
<1>1. PICK b \in Texts, s \in Spaces, n \in Nat, x \in Texts, c \in Seq(Texts) :
    \/ \E u, v \in Texts :
         /\ Opens(b, u, v) /\ a = State(b, s, Outside, n, x, c)
         /\ z = State(v, GapAfter(s, u), Inside, n, TextAfter(x, s, u), c)
    \/ \E u, v \in Texts :
         /\ Waits(b, u, v) /\ a = State(b, s, Outside, n, x, c)
         /\ z = State(v, GapAfter(s, u), Outside, n, TextAfter(x, s, u), c)
    \/ ~F!Occurs(Close, b) /\ a = State(b, s, Inside, n, x, c) /\ z = a
    \/ \E u, v \in Texts :
         /\ Closes(b, u, v) /\ Stripped(u) \in Calls /\ a = State(b, s, Inside, n, x, c)
         /\ z = State(v, << >>, Outside, n + 1, x, Append(c, Stripped(u)))
    \/ \E u, v \in Texts :
         /\ Closes(b, u, v) /\ Stripped(u) \notin Calls /\ a = State(b, s, Inside, n, x, c)
         /\ z = State(v, GapAfter(s, Block(u)), Outside, n, TextAfter(x, s, Block(u)), c)
  BY EveryRound DEF Round
<1> HIDE DEF z
<1> DEFINE Goal == /\ z \in States
                   /\ z = a \/ Len(z.parser.buffer) < Len(b)
                   /\ z.parser.nCalls - Len(z.calls) = a.parser.nCalls - Len(a.calls)
                   /\ a.parser.buffer = b
<1>2. ASSUME NEW u \in Texts, NEW v \in Texts, Opens(b, u, v), a = State(b, s, Outside, n, x, c),
             z = State(v, GapAfter(s, u), Inside, n, TextAfter(x, s, u), c)
      PROVE  Goal
  <2>1. z \in States
    BY <1>2, AfterTypes, StatesAre, Sides
  <2>2. Len(v) < Len(b)
    <3>1. Len(b) = Len(u) + Len(Open) + Len(v) /\ Len(u) \in Nat /\ Len(v) \in Nat
      BY <1>2, OpensIs
    <3> QED
      BY <3>1, Tags
  <2> QED
    BY <1>2, <2>1, <2>2 DEF State
<1>3. ASSUME NEW u \in Texts, NEW v \in Texts, Waits(b, u, v), a = State(b, s, Outside, n, x, c),
             z = State(v, GapAfter(s, u), Outside, n, TextAfter(x, s, u), c)
      PROVE  Goal
  <2>1. z \in States
    BY <1>3, AfterTypes, StatesAre, Sides
  <2>2. Len(b) = Len(u) + Len(v) /\ Len(u) \in Nat /\ Len(v) \in Nat
    BY <1>3, WaitsIs
  <2>3. CASE u = << >>
    <3>1. v = b
      BY <1>3, <2>3, EmptyText DEF Waits
    <3>2. z = a
      BY <1>3, <2>3, <3>1, AfterNothing
    <3> QED
      BY <1>3, <2>1, <3>2 DEF State
  <2>4. CASE u # << >>
    <3>1. Len(v) < Len(b)
      BY <2>2, <2>4, EmptyText
    <3> QED
      BY <1>3, <2>1, <3>1 DEF State
  <2> QED
    BY <2>3, <2>4
<1>4. ASSUME a = State(b, s, Inside, n, x, c), z = a
      PROVE  Goal
  BY <1>4 DEF State
<1>5. ASSUME NEW u \in Texts, NEW v \in Texts, Closes(b, u, v) PROVE Len(v) < Len(b)
  <2>1. Len(b) = Len(u) + Len(Close) + Len(v) /\ Len(u) \in Nat /\ Len(v) \in Nat
    BY <1>5, ClosesIs
  <2> QED
    BY <2>1, Tags
<1>6. ASSUME NEW u \in Texts, NEW v \in Texts, Closes(b, u, v), Stripped(u) \in Calls,
             a = State(b, s, Inside, n, x, c),
             z = State(v, << >>, Outside, n + 1, x, Append(c, Stripped(u)))
      PROVE  Goal
  <2> DEFINE e == Stripped(u)
             d == Append(c, e)
  <2>1. e \in Texts
    BY StrippedTypes
  <2>2. d \in Seq(Texts) /\ Len(d) = Len(c) + 1 /\ Len(c) \in Nat
    <3> HIDE DEF e
    <3> QED
      BY <2>1, AppendProperties, LenProperties
  <2> HIDE DEF e, d
  <2>3. z = State(v, << >>, Outside, n + 1, x, d)
    BY <1>6 DEF d, e
  <2>4. z \in States
    <3>1. << >> \in Spaces /\ n + 1 \in Nat
      BY JoinedSpaces
    <3>2. State(v, << >>, Outside, n + 1, x, d) \in States
      BY <2>2, <3>1, StatesAre, Sides, Zenon
    <3> QED
      BY <2>3, <3>2
  <2>5. z.parser.buffer = v /\ z.parser.nCalls = n + 1 /\ z.calls = d
    BY <2>3 DEF State
  <2>6. a.parser.buffer = b /\ a.parser.nCalls = n /\ a.calls = c
    BY <1>6 DEF State
  <2> QED
    BY <1>5, <1>6, <2>2, <2>4, <2>5, <2>6
<1>7. ASSUME NEW u \in Texts, NEW v \in Texts, Closes(b, u, v), a = State(b, s, Inside, n, x, c),
             z = State(v, GapAfter(s, Block(u)), Outside, n, TextAfter(x, s, Block(u)), c)
      PROVE  Goal
  <2>1. z \in States
    <3>1. Block(u) \in Texts
      BY BlockIs
    <3> DEFINE t == Block(u)
    <3> HIDE DEF t
    <3>2. t \in Texts
      BY <3>1 DEF t
    <3>3. GapAfter(s, t) \in Spaces /\ TextAfter(x, s, t) \in Texts
      BY <3>2, AfterTypes
    <3>4. State(v, GapAfter(s, t), Outside, n, TextAfter(x, s, t), c) \in States
      BY <3>3, StatesAre, Sides
    <3> QED
      BY <1>7, <3>4 DEF t
  <2> QED
    BY <1>5, <1>7, <2>1 DEF State
<1>8. Goal
  <2> HIDE DEF Goal
  <2> QED
    BY <1>1, <1>2, <1>3, <1>4, <1>6, <1>7
<1> QED
  BY <1>8, EmptyText DEF z

-----------------------------------------------------------------------------
(* What a client gets of the text.                                          *)

LEMMA StopsAre ==
  ASSUME request \in Requests
  PROVE  Stops \in SUBSET (Texts \ {<< >>}) /\ request.parsing \in BOOLEAN
<1>1. request.stops \in Seq(Texts) /\ request.parsing \in BOOLEAN
  BY RepliesAssumption DEF Texts
<1>2. \A i \in DOMAIN request.stops : request.stops[i] \in Texts
  BY <1>1, ElementOfSeq, LenProperties
<1> QED
  BY <1>1, <1>2 DEF Stops, F!Normalized

\* What is released behind the last output.
Rest(out) == IF out.hit THEN << >> ELSE F!Flush(out.filter)

\* Such an ending leaves the cut of the text, in front of the sequence, if there
\* is one, that stopped it.
EndsAtCut(stops, t, all, matched) ==
  /\ all \in Texts /\ all = Cut(stops, t)
  /\ matched # F!NoStop => IsPrefix(all \o matched, t)

\* The piece behind which an answer ends: all that is released until then is
\* the cut of the text, in front of the sequence that stopped it.
LEMMA LastRelease ==
  ASSUME NEW stops \in SUBSET (Texts \ {<< >>}), NEW t \in Texts, NEW r \in Texts,
         NEW piece \in Texts, NEW out, Released(stops, t, r, piece, out)
  PROVE  /\ EndsAtCut(stops, t \o piece, (r \o out.text) \o Rest(out), out.filter.matched)
         /\ ~out.hit => out.filter.matched = F!NoStop
<1> DEFINE w == t \o piece
           e == r \o out.text
           b == out.filter.buffer
           m == out.filter.matched
<1>1. w \in Texts /\ out.text \in Texts /\ out.hit \in BOOLEAN /\ b \in Texts
  BY JoinedTexts DEF Released
<1>2. e \in Texts
  BY <1>1, JoinedTexts
<1>3. CASE out.hit
  <2>1. m \in stops /\ CompletedFirst(m, stops, w, Len(e)) /\ e = Upto(w, Len(e))
    BY <1>3 DEF Released
  <2> HIDE DEF w, e, m
  <2>2. Cut(stops, w) = e /\ e \o << >> = e
    BY <1>1, <1>2, <2>1, CutText, EmptyText
  <2>3. At(m, w, Len(e)) /\ Len(e) \in Nat /\ m \in Texts /\ Len(m) \in Nat /\ Len(w) \in Nat
    BY <1>1, <1>2, <2>1, EmptyText DEF CompletedFirst
  <2>4. Len(e) \in 0 .. Len(w)
    BY <2>3 DEF At
  <2> DEFINE v == From(w, Len(e))
  <2>5. w = e \o v /\ v \in Texts
    BY <1>1, <2>1, <2>4, DividedText
  <2> HIDE DEF v
  <2>6. At(m, e \o v, Len(e) + 0)
    BY <2>3, <2>5
  <2>7. m \in Seq(Characters) /\ e \in Seq(Characters) /\ v \in Seq(Characters)
    BY <1>2, <2>3, <2>5 DEF Texts
  <2>8. At(m, v, 0)
    BY <2>6, <2>7, Shifted
  <2>9. PICK x \in Texts : v = m \o x
    BY <2>7, <2>8, PrefixIs DEF Texts
  <2>10. (e \o m) \o x = e \o (m \o x)
    <3>1. JoinsAlike(e, m, x)
      BY <1>2, <2>3, TextsJoinAlike
    <3> QED
      BY <3>1 DEF JoinsAlike
  <2>11. e \o m \in Texts
    BY <1>2, <2>3, JoinedTexts
  <2>12. IsPrefix(e \o m, w)
    <3> DEFINE y == e \o m
    <3>1. y \in Seq(Characters) /\ w \in Seq(Characters) /\ x \in Seq(Characters)
      BY <1>1, <2>11 DEF Texts
    <3>2. w = y \o x
      BY <2>5, <2>9, <2>10
    <3> HIDE DEF y
    <3>3. IsPrefix(y, w)
      BY <3>1, <3>2, PrefixIs
    <3> QED
      BY <3>3 DEF y
  <2> QED
    BY <1>2, <1>3, <2>2, <2>12 DEF w, e, m, Rest, EndsAtCut
<1>4. CASE ~out.hit
  <2>1. /\ Withholds(stops, w, e, b) /\ m = F!NoStop
    BY <1>4 DEF Released
  <2>2. F!Flush(out.filter) = b
    BY <2>1 DEF F!Flush
  <2>3. w = e \o b /\ Free(stops, w)
    BY <2>1 DEF Withholds
  <2> HIDE DEF w, e, b, m
  <2>4. Cut(stops, w) = w
    BY <1>1, <2>3, UncutText
  <2> QED
    BY <1>1, <1>4, <2>1, <2>2, <2>3, <2>4 DEF w, e, m, b, Rest, EndsAtCut
<1> QED
  BY <1>1, <1>3, <1>4

\* While outputs are read, the filter withholds what may become a stop
\* sequence; behind the last one the text is released up to its cut.
Filtered ==
  /\ request \in Requests
  /\ phase \in {"reading", "finished", "closed", "gone"}
  /\ said \in Texts /\ raw \in Texts
  /\ ~Ended => /\ stopper = [buffer |-> stopper.buffer, matched |-> F!NoStop]
               /\ Withholds(Stops, said, raw, stopper.buffer)
  /\ Ended => raw = Cut(Stops, said)

LEMMA PiecesAreTexts ==
  ASSUME NEW piece \in Pieces
  PROVE  piece \in Texts
<1>1. PICK m \in 0 .. MaxPiece : piece \in [1 .. m -> Characters]
  BY DEF Pieces, BoundedSeq, SeqOf
<1> QED
  BY <1>1, IsSequence, RepliesAssumption DEF Texts

LEMMA FilteredInit ==
  Init => Filtered
<1> SUFFICES ASSUME Init PROVE Filtered
  OBVIOUS
<1>1. request \in Requests /\ phase = "reading" /\ said = << >> /\ raw = << >>
  BY DEF Init
<1>2. stopper = [buffer |-> << >>, matched |-> F!NoStop] /\ stopper.buffer = << >>
  BY DEF Init, F!NewFilter
<1>3. Stops \in SUBSET (Texts \ {<< >>})
  BY <1>1, StopsAre
<1>4. Free(Stops, << >>)
  <2>1. ASSUME NEW s \in Stops, NEW i \in Nat PROVE ~At(s, << >>, i)
    BY <1>3, EmptyText DEF At
  <2> QED
    BY <2>1 DEF Free
<1>5. Clear(Stops, << >>, 0)
  BY DEF Clear
<1>6. Withholds(Stops, << >>, << >>, << >>)
  BY <1>4, <1>5, EmptyText DEF Withholds
<1> QED
  BY <1>1, <1>2, <1>6, EmptyText DEF Filtered, Ended

\* What a push of an output gives.
LEMMA FilterStep ==
  ASSUME Filtered, phase = "reading", NEW piece \in Texts
  PROVE  /\ Released(Stops, said, raw, piece, F!Push(Stops, stopper, piece))
         /\ Stops \in SUBSET (Texts \ {<< >>})
<1>1. Stops \in SUBSET (Texts \ {<< >>})
  BY StopsAre DEF Filtered
<1>2. /\ stopper = [buffer |-> stopper.buffer, matched |-> F!NoStop]
      /\ Withholds(Stops, said, raw, stopper.buffer)
  BY DEF Filtered, Ended
<1> QED
  BY <1>1, <1>2, FilterPushes

LEMMA FilteredNext ==
  Filtered /\ [Next]_vars => Filtered'
<1> SUFFICES ASSUME Filtered, [Next]_vars PROVE Filtered'
  OBVIOUS
<1>1. ASSUME NEW piece \in Texts, ReadMore(piece) PROVE Filtered'
  <2> DEFINE out == F!Push(Stops, stopper, piece)
  <2>1. /\ phase = "reading" /\ phase' = phase /\ request' = request
        /\ said' = said \o piece /\ ~out.hit
        /\ stopper' = out.filter /\ raw' = raw \o out.text
    BY <1>1 DEF ReadMore, Reading
  <2>2. Released(Stops, said, raw, piece, out) /\ Stops' = Stops
    BY <2>1, FilterStep DEF Stops
  <2> HIDE DEF out
  <2>3. /\ out.filter = [buffer |-> out.filter.buffer, matched |-> F!NoStop]
        /\ Withholds(Stops, said', raw', out.filter.buffer)
        /\ said' \in Texts /\ out.text \in Texts
    BY <2>1, <2>2, JoinedTexts DEF Released, Filtered
  <2>4. raw' \in Texts
    BY <2>3 DEF Withholds
  <2> QED
    BY <2>1, <2>2, <2>3, <2>4 DEF Filtered, Ended
<1>2. ASSUME NEW piece \in Texts, NEW retired, ReadLast(piece, retired) PROVE Filtered'
  <2> DEFINE out == F!Push(Stops, stopper, piece)
  <2>1. /\ phase = "reading" /\ phase' = "finished" /\ request' = request
        /\ said' = said \o piece
        /\ raw' = raw \o out.text \o (IF out.hit THEN << >> ELSE F!Flush(out.filter))
    BY <1>2 DEF ReadLast, Reading
  <2>2. /\ Released(Stops, said, raw, piece, out) /\ Stops' = Stops
        /\ Stops \in SUBSET (Texts \ {<< >>})
    BY <2>1, FilterStep DEF Stops
  <2> HIDE DEF out
  <2>3. said \in Texts /\ raw \in Texts /\ said' \in Texts
    BY <2>1, JoinedTexts DEF Filtered
  <2>4. raw' \in Texts /\ raw' = Cut(Stops, said')
    <3>1. EndsAtCut(Stops, said \o piece, (raw \o out.text) \o Rest(out), out.filter.matched)
      BY <2>2, <2>3, LastRelease
    <3> QED
      BY <2>1, <3>1 DEF EndsAtCut, Rest
  <2> QED
    BY <2>1, <2>2, <2>3, <2>4 DEF Filtered, Ended
<1>3. CASE StreamCloses
  <2>1. /\ phase = "reading" /\ phase' = "closed" /\ request' = request /\ said' = said
        /\ raw' = raw \o F!Flush(stopper)
    BY <1>3 DEF StreamCloses
  <2>2. /\ stopper.matched = F!NoStop /\ Withholds(Stops, said, raw, stopper.buffer)
        /\ Stops' = Stops /\ Stops \in SUBSET (Texts \ {<< >>})
    BY <2>1, StopsAre DEF Filtered, Ended, Stops
  <2>3. raw' = said' /\ said \in Texts /\ Free(Stops, said)
    BY <2>1, <2>2 DEF Withholds, F!Flush, Filtered
  <2>4. raw' = Cut(Stops, said')
    BY <2>1, <2>2, <2>3, UncutText
  <2> QED
    BY <2>1, <2>2, <2>3, <2>4 DEF Filtered, Ended
<1>4. CASE Abandoned
  BY <1>4 DEF Abandoned, Filtered, Ended, Stops
<1>5. CASE UNCHANGED vars
  BY <1>5 DEF vars, Filtered, Ended, Stops
<1> QED
  BY <1>1, <1>2, <1>3, <1>4, <1>5, PiecesAreTexts, EmptyText DEF Next

\* Throughout a request, what is released of the text and what is withheld.
THEOREM TextIsFiltered == Spec => []Filtered
<1>1. Init => Filtered
  BY FilteredInit
<1>2. Filtered /\ [Next]_vars => Filtered'
  BY FilteredNext
<1> QED
  BY <1>1, <1>2, PTL DEF Spec

LEMMA FilteredShows ==
  Filtered => StopsCutTheText
<1> SUFFICES ASSUME Filtered PROVE StopsCutTheText
  OBVIOUS
<1>1. /\ said \in Texts /\ raw \in Texts /\ raw \in Seq(Characters)
      /\ Stops \in SUBSET (Texts \ {<< >>})
  BY StopsAre DEF Filtered, Texts
<1>2. CASE Ended
  <2>1. raw = Cut(Stops, said) /\ phase # "reading"
    BY <1>2 DEF Filtered, Ended
  <2>2. IsPrefix(raw, raw)
    <3>1. raw = raw \o << >> /\ << >> \in Seq(Characters)
      BY <1>1, EmptyText DEF Texts
    <3> QED
      BY <1>1, <3>1, PrefixIs
  <2> QED
    BY <2>1, <2>2 DEF StopsCutTheText
<1>3. CASE ~Ended
  <2> DEFINE b == stopper.buffer
  <2>1. Withholds(Stops, said, raw, b)
    BY <1>3 DEF Filtered
  <2> HIDE DEF b
  <2>2. /\ said = raw \o b /\ b \in Texts /\ b \in Seq(Characters) /\ Free(Stops, said)
        /\ b = << >> \/ \E s \in Stops : Len(b) < Len(s) /\ Fits(s, b, 0)
    BY <2>1 DEF Withholds, Texts
  <2>3. Cut(Stops, said) = said
    BY <1>1, <2>2, UncutText
  <2>4. IsPrefix(raw, raw \o b)
    <3> DEFINE t == raw \o b
    <3>1. t \in Seq(Characters)
      BY <1>1, <2>2 DEF Texts
    <3>2. \E u \in Seq(Characters) : t = raw \o u
      BY <2>2
    <3> HIDE DEF t
    <3>3. IsPrefix(raw, t)
      BY <1>1, <3>1, <3>2, PrefixIs
    <3> QED
      BY <3>3 DEF t
  <2>5. F!Drop(said, Len(raw)) = b
    BY <1>1, <2>2, JoinedTexts DEF From
  <2>6. raw = said \/ \E s \in Stops : IsStrictPrefix(F!Drop(said, Len(raw)), s)
    <3>1. CASE b = << >>
      BY <1>1, <2>2, <3>1, EmptyText
    <3>2. ASSUME NEW s \in Stops, Len(b) < Len(s), Fits(s, b, 0) PROVE IsStrictPrefix(b, s)
      <4>1. s \in Seq(Characters) /\ Len(s) \in Nat /\ Len(b) \in Nat
        BY <1>1, <2>2, EmptyText DEF Texts
      <4>2. At(b, s, 0)
        BY <3>2, <4>1 DEF At, Fits
      <4>3. IsPrefix(b, s)
        BY <2>2, <4>1, <4>2, PrefixIs
      <4>4. b # s
        BY <3>2, <4>1
      <4> QED
        BY <4>3, <4>4 DEF IsStrictPrefix
    <3> QED
      BY <2>2, <2>5, <3>1, <3>2
  <2> QED
    BY <1>3, <2>2, <2>3, <2>4, <2>6 DEF StopsCutTheText
<1> QED
  BY <1>2, <1>3

\* However the text is split into outputs, a client gets it up to the start of
\* the first stop sequence that it completes and no character more, and no more
\* is withheld from it than may become a stop sequence.
THEOREM OnlyTheCutIsShown == Spec => []StopsCutTheText
<1>1. Filtered => StopsCutTheText
  BY FilteredShows
<1> QED
  BY <1>1, TextIsFiltered, PTL

-----------------------------------------------------------------------------
(* More text behind what the parser holds.                                  *)

LEMMA OpensLonger ==
  ASSUME NEW b \in Texts, NEW u, NEW v, Opens(b, u, v), NEW p \in Texts
  PROVE  Opens(b \o p, u, v \o p) /\ v \o p \in Texts
<1> DEFINE w == Open \o v
<1>1. u \in Texts /\ v \in Texts /\ w \in Texts /\ b = u \o w /\ Clear({Open}, b, Len(u))
  BY Tags, JoinedTexts DEF Opens
<1>2. v \o p \in Texts
  BY <1>1, JoinedTexts
<1>3. (Open \o v) \o p = Open \o (v \o p)
  <2>1. Open \in Texts /\ v \in Texts
    BY <1>1, Tags
  <2> QED
    BY <2>1, TextsAssociate
<1> HIDE DEF w
<1>4. (u \o w) \o p = u \o (w \o p)
  BY <1>1, TextsAssociate
<1>5. Clear({Open}, b \o p, Len(u))
  BY <1>1, Tags, ClearStays DEF Texts
<1> QED
  BY <1>1, <1>2, <1>3, <1>4, <1>5 DEF Opens, w

LEMMA ClosesLonger ==
  ASSUME NEW b \in Texts, NEW u, NEW v, Closes(b, u, v), NEW p \in Texts
  PROVE  Closes(b \o p, u, v \o p) /\ v \o p \in Texts
<1> DEFINE w == Close \o v
<1>1. /\ u \in Texts /\ v \in Texts /\ w \in Texts /\ b = u \o w
      /\ \A i \in Nat : i < Len(u) => ~At(Close, b, i)
  BY Tags, JoinedTexts DEF Closes
<1>2. v \o p \in Texts
  BY <1>1, JoinedTexts
<1>3. (Close \o v) \o p = Close \o (v \o p)
  <2>1. Close \in Texts /\ v \in Texts
    BY <1>1, Tags
  <2> QED
    BY <2>1, TextsAssociate
<1>4. Len(b) = Len(u) + Len(Close) + Len(v) /\ Len(u) \in Nat /\ Len(v) \in Nat
  BY ClosesIs
<1> HIDE DEF w
<1>5. (u \o w) \o p = u \o (w \o p)
  BY <1>1, TextsAssociate
<1>6. ASSUME NEW i \in Nat, i < Len(u), At(Close, b \o p, i) PROVE FALSE
  <2>1. i + Len(Close) <= Len(b)
    BY <1>4, <1>6, Tags
  <2>2. Fits(Close, b, i)
    BY <1>6, <2>1, Tags, LongerTexts DEF At, Texts
  <2> QED
    BY <1>1, <1>6, <2>1, <2>2 DEF At
<1> QED
  BY <1>1, <1>2, <1>3, <1>5, <1>6 DEF Closes, w

\* No tag fits in u, whatever of q it takes.
ClearUpTo(u, q) == q \in Texts /\ Clear({Open}, u \o q, Len(u))

LEMMA WaitsLonger ==
  ASSUME NEW b \in Texts, NEW u, NEW v, Waits(b, u, v), NEW p \in Texts
  PROVE  ClearUpTo(u, v \o p)
<1>1. u \in Texts /\ v \in Texts /\ b = u \o v /\ Clear({Open}, b, Len(u))
  BY DEF Waits
<1>2. v \o p \in Texts
  BY <1>1, JoinedTexts
<1>3. (u \o v) \o p = u \o (v \o p)
  BY <1>1, TextsAssociate
<1>4. Clear({Open}, b \o p, Len(u))
  BY <1>1, Tags, ClearStays DEF Texts
<1> QED
  BY <1>1, <1>2, <1>3, <1>4 DEF ClearUpTo

\* What is behind clear text is found there.
LEMMA BehindClearText ==
  ASSUME NEW u \in Texts, NEW q \in Texts, Clear({Open}, u \o q, Len(u)),
         NEW v, NEW z
  PROVE  /\ Opens(q, v, z) => Opens(u \o q, u \o v, z)
         /\ Waits(q, v, z) => Waits(u \o q, u \o v, z)
<1>1. /\ {Open} \in SUBSET Seq(Characters)
      /\ u \in Seq(Characters) /\ q \in Seq(Characters) /\ Len(u) \in Nat
  BY Tags, EmptyText DEF Texts
<1>2. ASSUME v \in Texts, Clear({Open}, q, Len(v))
      PROVE  /\ u \o v \in Texts /\ Clear({Open}, u \o q, Len(u \o v))
  <2>1. u \o v \in Texts /\ Len(u \o v) = Len(u) + Len(v) /\ Len(v) \in Nat
    BY <1>2, JoinedTexts
  <2>2. Clear({Open}, u \o q, Len(u) + Len(v))
    BY <1>1, <1>2, <2>1, ClearBoth
  <2> QED
    BY <2>1, <2>2
<1>3. ASSUME Opens(q, v, z) PROVE Opens(u \o q, u \o v, z)
  <2> DEFINE w == Open \o z
  <2>1. v \in Texts /\ z \in Texts /\ w \in Texts /\ q = v \o w /\ Clear({Open}, q, Len(v))
    BY <1>3, Tags, JoinedTexts DEF Opens
  <2>2. (u \o v) \o w = u \o (v \o w)
    <3> HIDE DEF w
    <3> QED
      BY <2>1, TextsAssociate
  <2> QED
    BY <1>2, <2>1, <2>2 DEF Opens
<1>4. ASSUME Waits(q, v, z) PROVE Waits(u \o q, u \o v, z)
  <2>1. /\ v \in Texts /\ z \in Texts /\ q = v \o z /\ Clear({Open}, q, Len(v))
        /\ Free({Open}, q) /\ (z = << >> \/ Fits(Open, z, 0))
    BY <1>4 DEF Waits
  <2>2. (u \o v) \o z = u \o (v \o z)
    BY <2>1, TextsAssociate
  <2>3. Free({Open}, u \o q)
    BY <1>1, <2>1, FreeBoth
  <2> QED
    BY <1>2, <2>1, <2>2, <2>3 DEF Waits
<1> QED
  BY <1>3, <1>4

\* A state with p behind its buffer.
Add(a, p) == [a EXCEPT !.parser.buffer = @ \o p]

LEMMA AddIs ==
  ASSUME NEW b, NEW s, NEW i, NEW n, NEW x, NEW c, NEW p
  PROVE  Add(State(b, s, i, n, x, c), p) = State(b \o p, s, i, n, x, c)
<1> DEFINE a == State(b, s, i, n, x, c)
           q == b \o p
<1>1. a.parser.buffer = b
  BY DEF State
<1> HIDE DEF q
<1>2. [a EXCEPT !.parser.buffer = q] = State(q, s, i, n, x, c)
  BY OtherBuffer
<1> HIDE DEF a
<1>3. Add(a, p) = [a EXCEPT !.parser.buffer = q]
  BY <1>1, Zenon DEF Add, q
<1> QED
  BY <1>2, <1>3 DEF a, q

LEMMA AddTypes ==
  ASSUME NEW a \in States, NEW p \in Texts
  PROVE  Add(a, p) \in States
<1>1. PICK b \in Texts, s \in Spaces, i \in BOOLEAN, n \in Nat, x \in Texts, c \in Seq(Texts) :
        a = State(b, s, i, n, x, c)
  BY StatesAre
<1>2. b \o p \in Texts
  BY JoinedTexts
<1>3. State(b \o p, s, i, n, x, c) \in States
  BY <1>2, StatesAre
<1> QED
  BY <1>1, <1>3, AddIs

\* It makes no difference whether p comes before a round or behind it, but that
\* the round before may have one more to do.
LEMMA RoundsCommute ==
  ASSUME NEW a \in States, NEW p \in Texts
  PROVE  \/ Scan(Add(a, p)) = Add(Scan(a), p)
         \/ Scan(Add(a, p)) = Scan(Add(Scan(a), p))
<1> DEFINE z == Scan(a)
<1>1. PICK b \in Texts, s \in Spaces, n \in Nat, x \in Texts, c \in Seq(Texts) :
    \/ \E u, v \in Texts :
         /\ Opens(b, u, v) /\ a = State(b, s, Outside, n, x, c)
         /\ z = State(v, GapAfter(s, u), Inside, n, TextAfter(x, s, u), c)
    \/ \E u, v \in Texts :
         /\ Waits(b, u, v) /\ a = State(b, s, Outside, n, x, c)
         /\ z = State(v, GapAfter(s, u), Outside, n, TextAfter(x, s, u), c)
    \/ ~F!Occurs(Close, b) /\ a = State(b, s, Inside, n, x, c) /\ z = a
    \/ \E u, v \in Texts :
         /\ Closes(b, u, v) /\ Stripped(u) \in Calls /\ a = State(b, s, Inside, n, x, c)
         /\ z = State(v, << >>, Outside, n + 1, x, Append(c, Stripped(u)))
    \/ \E u, v \in Texts :
         /\ Closes(b, u, v) /\ Stripped(u) \notin Calls /\ a = State(b, s, Inside, n, x, c)
         /\ z = State(v, GapAfter(s, Block(u)), Outside, n, TextAfter(x, s, Block(u)), c)
  BY EveryRound DEF Round
<1> DEFINE Goal == Scan(Add(a, p)) = Add(z, p) \/ Scan(Add(a, p)) = Scan(Add(z, p))
<1> HIDE DEF z
<1>2. ASSUME NEW u \in Texts, NEW v \in Texts, Opens(b, u, v), a = State(b, s, Outside, n, x, c),
             z = State(v, GapAfter(s, u), Inside, n, TextAfter(x, s, u), c)
      PROVE  Goal
  <2>1. Opens(b \o p, u, v \o p)
    BY <1>2, OpensLonger
  <2>2. Scan(State(b \o p, s, Outside, n, x, c))
          = State(v \o p, GapAfter(s, u), Inside, n, TextAfter(x, s, u), c)
    BY <2>1, ScanOpens
  <2>3. Add(a, p) = State(b \o p, s, Outside, n, x, c)
    BY <1>2, AddIs
  <2>4. Add(z, p) = State(v \o p, GapAfter(s, u), Inside, n, TextAfter(x, s, u), c)
    BY <1>2, AddIs
  <2> QED
    BY <2>2, <2>3, <2>4
<1>3. ASSUME NEW u \in Texts, NEW v \in Texts, Waits(b, u, v), a = State(b, s, Outside, n, x, c),
             z = State(v, GapAfter(s, u), Outside, n, TextAfter(x, s, u), c)
      PROVE  Goal
  <2> DEFINE q == v \o p
             g == GapAfter(s, u)
             y == TextAfter(x, s, u)
  <2>1. q \in Texts /\ b \o p = u \o q /\ Clear({Open}, u \o q, Len(u))
    <3>1. (u \o v) \o p = u \o (v \o p)
      BY TextsAssociate
    <3>2. b = u \o v
      BY <1>3 DEF Waits
    <3>3. ClearUpTo(u, v \o p)
      BY <1>3, WaitsLonger
    <3> QED
      BY <3>1, <3>2, <3>3 DEF ClearUpTo
  <2>2. Add(a, p) = State(u \o q, s, Outside, n, x, c)
    <3>1. Add(a, p) = State(b \o p, s, Outside, n, x, c)
      BY <1>3, AddIs
    <3> QED
      BY <2>1, <3>1
  <2>3. Add(z, p) = State(q, g, Outside, n, y, c)
    BY <1>3, AddIs
  <2> HIDE DEF q, g, y
  <2>4. PICK u2, v2 \in Texts : Opens(q, u2, v2) \/ Waits(q, u2, v2)
    BY <2>1, TextCases
  <2>5. GapAfter(g, u2) = GapAfter(s, u \o u2) /\ TextAfter(y, g, u2) = TextAfter(x, s, u \o u2)
    BY AfterBoth DEF g, y
  <2>6. CASE Opens(q, u2, v2)
    <3>1. Opens(u \o q, u \o u2, v2)
      BY <2>1, <2>6, BehindClearText
    <3>2. Scan(State(u \o q, s, Outside, n, x, c))
            = State(v2, GapAfter(s, u \o u2), Inside, n, TextAfter(x, s, u \o u2), c)
      BY <3>1, ScanOpens
    <3>3. Scan(State(q, g, Outside, n, y, c))
            = State(v2, GapAfter(g, u2), Inside, n, TextAfter(y, g, u2), c)
      BY <2>6, ScanOpens
    <3> QED
      BY <2>2, <2>3, <2>5, <3>2, <3>3
  <2>7. CASE Waits(q, u2, v2)
    <3>1. Waits(u \o q, u \o u2, v2)
      BY <2>1, <2>7, BehindClearText
    <3>2. Scan(State(u \o q, s, Outside, n, x, c))
            = State(v2, GapAfter(s, u \o u2), Outside, n, TextAfter(x, s, u \o u2), c)
      BY <3>1, ScanWaits
    <3>3. Scan(State(q, g, Outside, n, y, c))
            = State(v2, GapAfter(g, u2), Outside, n, TextAfter(y, g, u2), c)
      BY <2>7, ScanWaits
    <3> QED
      BY <2>2, <2>3, <2>5, <3>2, <3>3
  <2> QED
    BY <2>4, <2>6, <2>7
<1>4. ASSUME z = a PROVE Goal
  BY <1>4
<1>5. ASSUME NEW u \in Texts, NEW v \in Texts, Closes(b, u, v), Stripped(u) \in Calls,
             a = State(b, s, Inside, n, x, c),
             z = State(v, << >>, Outside, n + 1, x, Append(c, Stripped(u)))
      PROVE  Goal
  <2> DEFINE d == Append(c, Stripped(u))
  <2>1. Closes(b \o p, u, v \o p)
    BY <1>5, ClosesLonger
  <2>2. Scan(State(b \o p, s, Inside, n, x, c)) = State(v \o p, << >>, Outside, n + 1, x, d)
    BY <1>5, <2>1, ScanCloses
  <2>3. Add(a, p) = State(b \o p, s, Inside, n, x, c)
    BY <1>5, AddIs
  <2> HIDE DEF d
  <2>4. Add(State(v, << >>, Outside, n + 1, x, d), p) = State(v \o p, << >>, Outside, n + 1, x, d)
    BY AddIs
  <2> QED
    BY <1>5, <2>2, <2>3, <2>4 DEF d
<1>6. ASSUME NEW u \in Texts, NEW v \in Texts, Closes(b, u, v), Stripped(u) \notin Calls,
             a = State(b, s, Inside, n, x, c),
             z = State(v, GapAfter(s, Block(u)), Outside, n, TextAfter(x, s, Block(u)), c)
      PROVE  Goal
  <2> DEFINE g == GapAfter(s, Block(u))
             y == TextAfter(x, s, Block(u))
  <2>1. Closes(b \o p, u, v \o p)
    BY <1>6, ClosesLonger
  <2>2. Scan(State(b \o p, s, Inside, n, x, c)) = State(v \o p, g, Outside, n, y, c)
    BY <1>6, <2>1, ScanCloses
  <2>3. Add(a, p) = State(b \o p, s, Inside, n, x, c)
    BY <1>6, AddIs
  <2> HIDE DEF g, y
  <2>4. Add(State(v, g, Outside, n, y, c), p) = State(v \o p, g, Outside, n, y, c)
    BY AddIs
  <2> QED
    BY <1>6, <2>2, <2>3, <2>4 DEF g, y
<1>7. Goal
  <2> HIDE DEF Goal
  <2> QED
    BY <1>1, <1>2, <1>3, <1>4, <1>5, <1>6
<1> QED
  BY <1>7 DEF z

-----------------------------------------------------------------------------
(* The rounds of a push.                                                    *)

\* What the rounds from a lead to, and stay at: it is in every set that holds
\* a and what a round makes of its members.
Closed(R) == R \in SUBSET States /\ \A x \in R : Scan(x) \in R
Ends(a, b) ==
  /\ a \in States /\ b \in States /\ Scan(b) = b
  /\ \A R \in SUBSET States : Closed(R) /\ a \in R => b \in R

LEMMA EndsStep ==
  ASSUME NEW a \in States, NEW b
  PROVE  Ends(a, b) <=> Ends(Scan(a), b)
<1>1. Scan(a) \in States
  BY RoundsAre
<1>2. ASSUME Ends(a, b) PROVE Ends(Scan(a), b)
  <2>1. b \in States /\ Scan(b) = b
    BY <1>2 DEF Ends
  <2>2. ASSUME NEW R \in SUBSET States, Closed(R), Scan(a) \in R PROVE b \in R
    <3> DEFINE Q == R \cup {a}
    <3>1. Closed(Q) /\ a \in Q /\ Q \in SUBSET States
      BY <2>2 DEF Closed
    <3>2. b \in Q
      BY <1>2, <3>1 DEF Ends
    <3> QED
      BY <2>1, <2>2, <3>2
  <2> QED
    BY <1>1, <2>1, <2>2 DEF Ends
<1>3. ASSUME Ends(Scan(a), b) PROVE Ends(a, b)
  <2>1. b \in States /\ Scan(b) = b
    BY <1>3 DEF Ends
  <2>2. ASSUME NEW R \in SUBSET States, Closed(R), a \in R PROVE b \in R
    BY <1>3, <2>2 DEF Ends, Closed
  <2> QED
    BY <2>1, <2>2 DEF Ends
<1> QED
  BY <1>2, <1>3

\* There is one end.
LEMMA OneEnd ==
  ASSUME NEW a, NEW b, NEW c, Ends(a, b), Ends(a, c)
  PROVE  b = c
<1> DEFINE R == {x \in States : Ends(x, b)}
<1>1. Closed(R) /\ R \in SUBSET States
  BY EndsStep, RoundsAre DEF Closed
<1>2. a \in R
  BY DEF Ends
<1>3. c \in R
  <2> HIDE DEF R
  <2> QED
    BY <1>1, <1>2 DEF Ends
<1>4. Ends(c, b) /\ c \in States /\ Scan(c) = c
  BY <1>3 DEF Ends
<1>5. {c} \in SUBSET States /\ Closed({c})
  BY <1>4 DEF Closed
<1>6. c \in {c}
  OBVIOUS
<1>7. b \in {c}
  BY <1>4, <1>5, <1>6 DEF Ends
<1> QED
  BY <1>7

\* Text that comes behind the rounds might have come before them.
LEMMA EndsAdd ==
  ASSUME NEW a, NEW b, Ends(a, b), NEW p \in Texts, NEW d
  PROVE  Ends(Add(a, p), d) <=> Ends(Add(b, p), d)
<1> DEFINE R == {x \in States : Ends(Add(x, p), d) <=> Ends(Add(a, p), d)}
<1>1. ASSUME NEW x \in States PROVE Ends(Add(Scan(x), p), d) <=> Ends(Add(x, p), d)
  <2>1. Add(x, p) \in States /\ Scan(x) \in States
    BY AddTypes, RoundsAre
  <2>2. Add(Scan(x), p) \in States
    BY <2>1, AddTypes
  <2>3. Ends(Add(x, p), d) <=> Ends(Scan(Add(x, p)), d)
    BY <2>1, EndsStep
  <2>4. Ends(Add(Scan(x), p), d) <=> Ends(Scan(Add(Scan(x), p)), d)
    BY <2>2, EndsStep
  <2>5. \/ Scan(Add(x, p)) = Add(Scan(x), p)
        \/ Scan(Add(x, p)) = Scan(Add(Scan(x), p))
    BY RoundsCommute
  <2> QED
    BY <2>3, <2>4, <2>5
<1>2. Closed(R) /\ R \in SUBSET States
  <2>1. ASSUME NEW x \in R PROVE Scan(x) \in R
    <3>1. Scan(x) \in States
      BY RoundsAre
    <3> QED
      BY <1>1, <3>1
  <2> QED
    BY <2>1 DEF Closed
<1>3. a \in R
  BY DEF Ends
<1>4. b \in R
  <2> HIDE DEF R
  <2> QED
    BY <1>2, <1>3 DEF Ends
<1> QED
  BY <1>4

\* A state with text and calls in front of its own.
InFront(y, z, a) == [a EXCEPT !.text = y \o @, !.calls = z \o @]

LEMMA FieldsOf ==
  ASSUME NEW a \in States
  PROVE  \E b \in Texts, s \in Spaces, i \in BOOLEAN, n \in Nat, x \in Texts, c \in Seq(Texts) :
           a = State(b, s, i, n, x, c)
BY StatesAre

LEMMA OtherText ==
  ASSUME NEW b, NEW s, NEW i, NEW n, NEW x, NEW c, NEW v
  PROVE  [State(b, s, i, n, x, c) EXCEPT !.text = v] = State(b, s, i, n, v, c)
BY DEF State

LEMMA FrontIs ==
  ASSUME NEW b, NEW s, NEW i, NEW n, NEW x, NEW c, NEW y, NEW z
  PROVE  InFront(y, z, State(b, s, i, n, x, c)) = State(b, s, i, n, y \o x, z \o c)
<1> DEFINE v == y \o x
           w == z \o c
           a == State(b, s, i, n, x, c)
<1>1. a.text = x /\ a.calls = c
  BY DEF State
<1> HIDE DEF v, w
<1>2. [a EXCEPT !.text = v, !.calls = w] = State(b, s, i, n, v, w)
  <2>1. [State(b, s, i, n, x, c) EXCEPT !.text = v] = State(b, s, i, n, v, c)
    BY OtherText
  <2>2. [State(b, s, i, n, v, c) EXCEPT !.calls = w] = State(b, s, i, n, v, w)
    BY OtherCalls
  <2> QED
    BY <2>1, <2>2, Zenon
<1> HIDE DEF a
<1>3. InFront(y, z, a) = [a EXCEPT !.text = v, !.calls = w]
  BY <1>1, Zenon DEF InFront, v, w
<1> QED
  BY <1>2, <1>3 DEF a, v, w

LEMMA JoinedCalls ==
  ASSUME NEW a \in Seq(Texts), NEW b \in Seq(Texts)
  PROVE  /\ a \o b \in Seq(Texts) /\ Len(a \o b) = Len(a) + Len(b)
         /\ Len(a) \in Nat /\ Len(b) \in Nat
         /\ << >> \in Seq(Texts) /\ a \o << >> = a /\ << >> \o a = a
         /\ (Len(a) = 0 <=> a = << >>)
BY ConcatProperties, LenProperties, EmptySeq, ConcatEmptySeq

LEMMA CallAppended ==
  ASSUME NEW a \in Seq(Texts), NEW e \in Texts
  PROVE  /\ Append(a, e) = a \o <<e>> /\ <<e>> \in Seq(Texts) /\ Append(a, e) \in Seq(Texts)
BY AppendIsConcat, AppendProperties

LEMMA FrontTypes ==
  ASSUME NEW a \in States, NEW y \in Texts, NEW z \in Seq(Texts)
  PROVE  InFront(y, z, a) \in States
<1>1. PICK b \in Texts, s \in Spaces, i \in BOOLEAN, n \in Nat, x \in Texts, c \in Seq(Texts) :
        a = State(b, s, i, n, x, c)
  BY FieldsOf
<1>2. y \o x \in Texts /\ z \o c \in Seq(Texts)
  BY JoinedTexts, JoinedCalls
<1>3. State(b, s, i, n, y \o x, z \o c) \in States
  BY <1>2, StatesAre
<1> QED
  BY <1>1, <1>3, FrontIs

LEMMA AppendBehind ==
  ASSUME NEW z \in Seq(Texts), NEW c \in Seq(Texts), NEW e \in Texts
  PROVE  Append(z \o c, e) = z \o Append(c, e)
<1>1. Append(c, e) = c \o <<e>> /\ <<e>> \in Seq(Texts)
  BY CallAppended
<1> DEFINE w == z \o c
<1>2. w \in Seq(Texts)
  BY JoinedCalls
<1> HIDE DEF w
<1>3. Append(w, e) = w \o <<e>>
  BY <1>2, CallAppended
<1> DEFINE d == <<e>>
<1>4. d \in Seq(Texts)
  BY <1>1
<1> HIDE DEF d
<1>5. (z \o c) \o d = z \o (c \o d)
  BY <1>4, Associative
<1> QED
  BY <1>1, <1>3, <1>5 DEF d, w

\* A round does not look at the text and calls in front.
LEMMA ScanFront ==
  ASSUME NEW a \in States, NEW y \in Texts, NEW y2 \in Seq(Texts)
  PROVE  Scan(InFront(y, y2, a)) = InFront(y, y2, Scan(a))
<1> DEFINE z == Scan(a)
<1>1. PICK b \in Texts, s \in Spaces, n \in Nat, x \in Texts, c \in Seq(Texts) :
    \/ \E u, v \in Texts :
         /\ Opens(b, u, v) /\ a = State(b, s, Outside, n, x, c)
         /\ z = State(v, GapAfter(s, u), Inside, n, TextAfter(x, s, u), c)
    \/ \E u, v \in Texts :
         /\ Waits(b, u, v) /\ a = State(b, s, Outside, n, x, c)
         /\ z = State(v, GapAfter(s, u), Outside, n, TextAfter(x, s, u), c)
    \/ ~F!Occurs(Close, b) /\ a = State(b, s, Inside, n, x, c) /\ z = a
    \/ \E u, v \in Texts :
         /\ Closes(b, u, v) /\ Stripped(u) \in Calls /\ a = State(b, s, Inside, n, x, c)
         /\ z = State(v, << >>, Outside, n + 1, x, Append(c, Stripped(u)))
    \/ \E u, v \in Texts :
         /\ Closes(b, u, v) /\ Stripped(u) \notin Calls /\ a = State(b, s, Inside, n, x, c)
         /\ z = State(v, GapAfter(s, Block(u)), Outside, n, TextAfter(x, s, Block(u)), c)
  BY EveryRound DEF Round
<1> DEFINE Goal == Scan(InFront(y, y2, a)) = InFront(y, y2, z)
           c2 == y2 \o c
           x2 == y \o x
<1> HIDE DEF z
<1>2. ASSUME NEW u \in Texts, NEW v \in Texts, Opens(b, u, v), a = State(b, s, Outside, n, x, c),
             z = State(v, GapAfter(s, u), Inside, n, TextAfter(x, s, u), c)
      PROVE  Goal
  <2>1. Scan(State(b, s, Outside, n, x2, c2))
          = State(v, GapAfter(s, u), Inside, n, TextAfter(x2, s, u), c2)
    BY <1>2, ScanOpens
  <2>2. InFront(y, y2, a) = State(b, s, Outside, n, x2, c2)
    BY <1>2, FrontIs
  <2>3. InFront(y, y2, z) = State(v, GapAfter(s, u), Inside, n, y \o TextAfter(x, s, u), c2)
    BY <1>2, FrontIs
  <2>4. TextAfter(x2, s, u) = y \o TextAfter(x, s, u)
    <3>1. StaysBehind(y, x, s, u)
      BY AfterBehind
    <3> QED
      BY <3>1 DEF StaysBehind
  <2> QED
    BY <2>1, <2>2, <2>3, <2>4
<1>3. ASSUME NEW u \in Texts, NEW v \in Texts, Waits(b, u, v), a = State(b, s, Outside, n, x, c),
             z = State(v, GapAfter(s, u), Outside, n, TextAfter(x, s, u), c)
      PROVE  Goal
  <2>1. Scan(State(b, s, Outside, n, x2, c2))
          = State(v, GapAfter(s, u), Outside, n, TextAfter(x2, s, u), c2)
    BY <1>3, ScanWaits
  <2>2. InFront(y, y2, a) = State(b, s, Outside, n, x2, c2)
    BY <1>3, FrontIs
  <2>3. InFront(y, y2, z) = State(v, GapAfter(s, u), Outside, n, y \o TextAfter(x, s, u), c2)
    BY <1>3, FrontIs
  <2>4. TextAfter(x2, s, u) = y \o TextAfter(x, s, u)
    <3>1. StaysBehind(y, x, s, u)
      BY AfterBehind
    <3> QED
      BY <3>1 DEF StaysBehind
  <2> QED
    BY <2>1, <2>2, <2>3, <2>4
<1>4. ASSUME ~F!Occurs(Close, b), a = State(b, s, Inside, n, x, c), z = a
      PROVE  Goal
  <2>1. Scan(State(b, s, Inside, n, x2, c2)) = State(b, s, Inside, n, x2, c2)
    BY <1>4, ScanUnclosed
  <2>2. InFront(y, y2, a) = State(b, s, Inside, n, x2, c2)
    BY <1>4, FrontIs
  <2> QED
    BY <1>4, <2>1, <2>2
<1>5. ASSUME NEW u \in Texts, NEW v \in Texts, Closes(b, u, v), Stripped(u) \in Calls,
             a = State(b, s, Inside, n, x, c),
             z = State(v, << >>, Outside, n + 1, x, Append(c, Stripped(u)))
      PROVE  Goal
  <2> DEFINE e == Stripped(u)
  <2>1. Scan(State(b, s, Inside, n, x2, c2)) = State(v, << >>, Outside, n + 1, x2, Append(c2, e))
    BY <1>5, ScanCloses
  <2>2. InFront(y, y2, a) = State(b, s, Inside, n, x2, c2)
    BY <1>5, FrontIs
  <2>3. InFront(y, y2, z) = State(v, << >>, Outside, n + 1, x2, y2 \o Append(c, e))
    BY <1>5, FrontIs
  <2>4. e \in Texts
    BY StrippedTypes
  <2> HIDE DEF e
  <2>5. Append(c2, e) = y2 \o Append(c, e)
    BY <2>4, AppendBehind
  <2> QED
    BY <2>1, <2>2, <2>3, <2>5
<1>6. ASSUME NEW u \in Texts, NEW v \in Texts, Closes(b, u, v), Stripped(u) \notin Calls,
             a = State(b, s, Inside, n, x, c),
             z = State(v, GapAfter(s, Block(u)), Outside, n, TextAfter(x, s, Block(u)), c)
      PROVE  Goal
  <2> DEFINE t == Block(u)
  <2>1. Scan(State(b, s, Inside, n, x2, c2))
          = State(v, GapAfter(s, t), Outside, n, TextAfter(x2, s, t), c2)
    BY <1>6, ScanCloses
  <2>2. InFront(y, y2, a) = State(b, s, Inside, n, x2, c2)
    BY <1>6, FrontIs
  <2>3. InFront(y, y2, z) = State(v, GapAfter(s, t), Outside, n, y \o TextAfter(x, s, t), c2)
    BY <1>6, FrontIs
  <2>4. t \in Texts
    BY BlockIs
  <2> HIDE DEF t
  <2>5. TextAfter(x2, s, t) = y \o TextAfter(x, s, t)
    <3>1. StaysBehind(y, x, s, t)
      BY <2>4, AfterBehind
    <3> QED
      BY <3>1 DEF StaysBehind
  <2> QED
    BY <2>1, <2>2, <2>3, <2>5
<1>7. Goal
  <2> HIDE DEF Goal
  <2> QED
    BY <1>1, <1>2, <1>3, <1>4, <1>5, <1>6
<1> QED
  BY <1>7 DEF z

LEMMA EndsFront ==
  ASSUME NEW a, NEW b, Ends(a, b), NEW y \in Texts, NEW z \in Seq(Texts)
  PROVE  Ends(InFront(y, z, a), InFront(y, z, b))
<1>1. a \in States /\ b \in States /\ Scan(b) = b
  BY DEF Ends
<1>2. InFront(y, z, a) \in States /\ InFront(y, z, b) \in States
  BY <1>1, FrontTypes
<1>3. Scan(InFront(y, z, b)) = InFront(y, z, b)
  BY <1>1, ScanFront
<1>4. ASSUME NEW R \in SUBSET States, Closed(R), InFront(y, z, a) \in R
      PROVE  InFront(y, z, b) \in R
  <2> DEFINE Q == {x \in States : InFront(y, z, x) \in R}
  <2>1. ASSUME NEW x \in Q PROVE Scan(x) \in Q
    <3>1. Scan(x) \in States /\ Scan(InFront(y, z, x)) = InFront(y, z, Scan(x))
      BY RoundsAre, ScanFront
    <3>2. Scan(InFront(y, z, x)) \in R
      BY <1>4 DEF Closed
    <3> QED
      BY <3>1, <3>2
  <2>2. Q \in SUBSET States /\ Closed(Q) /\ a \in Q
    BY <1>1, <1>4, <2>1 DEF Closed
  <2>3. b \in Q
    <3> HIDE DEF Q
    <3> QED
      BY <2>2 DEF Ends
  <2> QED
    BY <2>3
<1> QED
  BY <1>2, <1>3, <1>4 DEF Ends

\* The rounds count the calls that they find.
LEMMA EndsCount ==
  ASSUME NEW a, NEW b, Ends(a, b)
  PROVE  b.parser.nCalls - Len(b.calls) = a.parser.nCalls - Len(a.calls)
<1> DEFINE R == {x \in States : x.parser.nCalls - Len(x.calls) = a.parser.nCalls - Len(a.calls)}
<1>1. Closed(R) /\ R \in SUBSET States
  BY RoundsAre DEF Closed
<1>2. a \in R
  BY DEF Ends
<1>3. b \in R
  <2> HIDE DEF R
  <2> QED
    BY <1>1, <1>2 DEF Ends
<1> QED
  BY <1>3

-----------------------------------------------------------------------------
(* A push is such a number of rounds that there is an end.                  *)

\* The table of the rounds up to the nth.
Rounds(f, n, start) == f = [i \in 0 .. n |-> IF i = 0 THEN start ELSE Scan(f[i - 1])]

LEMMA RoundsExist ==
  ASSUME NEW start, NEW n \in Nat
  PROVE  \E f : Rounds(f, n, start)
<1> DEFINE B == {m \in Nat : ~ \E f : Rounds(f, m, start)}
<1>1. 0 \notin B
  <2> DEFINE f == [i \in 0 .. 0 |-> start]
  <2>1. \A i \in 0 .. 0 : f[i] = IF i = 0 THEN start ELSE Scan(f[i - 1])
    OBVIOUS
  <2>2. f = [i \in 0 .. 0 |-> IF i = 0 THEN start ELSE Scan(f[i - 1])]
    BY <2>1
  <2> HIDE DEF f
  <2> QED
    BY <2>2 DEF Rounds
<1>2. ASSUME NEW m \in Nat, m \notin B PROVE m + 1 \notin B
  <2>1. PICK f : Rounds(f, m, start)
    BY <1>2
  <2>2. f = [i \in 0 .. m |-> IF i = 0 THEN start ELSE Scan(f[i - 1])]
    BY <2>1 DEF Rounds
  <2> DEFINE g == [i \in 0 .. m + 1 |-> IF i = m + 1 THEN Scan(f[m]) ELSE f[i]]
  <2>3. ASSUME NEW i \in 0 .. m + 1 PROVE g[i] = IF i = 0 THEN start ELSE Scan(g[i - 1])
    <3>1. CASE i = m + 1
      BY <3>1
    <3>2. CASE i \in 0 .. m
      <4>1. f[i] = IF i = 0 THEN start ELSE Scan(f[i - 1])
        BY <2>2, <3>2
      <4>2. i # 0 => i - 1 \in 0 .. m + 1 /\ i - 1 # m + 1
        BY <3>2
      <4> QED
        BY <3>2, <4>1, <4>2
    <3> QED
      BY <3>1, <3>2
  <2>4. g = [i \in 0 .. m + 1 |-> IF i = 0 THEN start ELSE Scan(g[i - 1])]
    <3>1. g = [i \in 0 .. m + 1 |-> g[i]]
      OBVIOUS
    <3> HIDE DEF g
    <3> QED
      BY <2>3, <3>1
  <2> HIDE DEF g
  <2> QED
    BY <2>4 DEF Rounds
<1> HIDE DEF B
<1>3. B \subseteq Nat
  BY DEF B
<1>4. B = {}
  BY <1>1, <1>2, <1>3, NoCounterexample
<1> QED
  BY <1>4 DEF B

LEMMA RoundsEnd ==
  ASSUME NEW start \in States, NEW n, n = Len(start.parser.buffer) + 1, NEW f, Rounds(f, n, start)
  PROVE  Ends(start, f[n])
<1> DEFINE L == Len(start.parser.buffer)
<1>1. L \in Nat /\ n \in Nat /\ n = L + 1
  BY RoundsAre
<1>2. /\ f[0] = start
      /\ \A i \in Nat : i < n => f[i + 1] = Scan(f[i])
  <2>1. \A i \in 0 .. n : f[i] = IF i = 0 THEN start ELSE Scan(f[i - 1])
    BY DEF Rounds
  <2>2. ASSUME NEW i \in Nat, i < n PROVE f[i + 1] = Scan(f[i])
    <3>1. i + 1 \in 0 .. n /\ i + 1 # 0 /\ (i + 1) - 1 = i
      BY <1>1, <2>2
    <3> QED
      BY <2>1, <3>1
  <2> QED
    BY <1>1, <2>1, <2>2
<1> HIDE DEF L
<1>3. ASSUME NEW R \in SUBSET States, Closed(R), start \in R, NEW i \in 0 .. n
      PROVE  f[i] \in R
  <2> DEFINE B == {m \in Nat : m <= n /\ f[m] \notin R}
  <2>1. 0 \notin B
    BY <1>2, <1>3
  <2>2. ASSUME NEW m \in Nat, m \notin B PROVE m + 1 \notin B
    BY <1>1, <1>2, <1>3, <2>2 DEF Closed
  <2> HIDE DEF B
  <2>3. B \subseteq Nat
    BY DEF B
  <2>4. B = {}
    BY <2>1, <2>2, <2>3, NoCounterexample
  <2> QED
    BY <1>1, <2>4 DEF B
<1>4. \A i \in 0 .. n : f[i] \in States
  <2>1. Closed(States)
    BY RoundsAre DEF Closed
  <2>2. States \in SUBSET States
    OBVIOUS
  <2> QED
    BY <1>3, <2>1, <2>2
<1> DEFINE Done(i) == Scan(f[i]) = f[i] \/ Len(f[i].parser.buffer) + i <= L
<1>5. Done(n)
  <2> DEFINE B == {m \in Nat : m <= n /\ ~Done(m)}
  <2>1. 0 \notin B
    BY <1>1, <1>2 DEF L
  <2>2. ASSUME NEW m \in Nat, m \notin B PROVE m + 1 \notin B
    <3>1. CASE m < n
      <4> DEFINE a == f[m]
      <4>1. f[m + 1] = Scan(a) /\ a \in States /\ (Scan(a) = a \/ Len(a.parser.buffer) + m <= L)
        BY <1>1, <1>2, <1>4, <2>2, <3>1
      <4> HIDE DEF a
      <4>2. CASE Scan(a) = a
        BY <4>1, <4>2
      <4>3. CASE Scan(a) # a /\ Len(a.parser.buffer) + m <= L
        <5>1. /\ Len(Scan(a).parser.buffer) < Len(a.parser.buffer) /\ Len(a.parser.buffer) \in Nat
              /\ Scan(a) \in States
          BY <4>1, <4>3, RoundsAre
        <5>2. Len(Scan(a).parser.buffer) \in Nat
          BY <5>1, RoundsAre
        <5> DEFINE k == Len(Scan(a).parser.buffer)
                   j == Len(a.parser.buffer)
        <5> HIDE DEF k, j, L
        <5>3. k < j /\ k \in Nat /\ j \in Nat /\ j + m <= L /\ L \in Nat
          BY <1>1, <4>3, <5>1, <5>2 DEF k, j
        <5>4. k + (m + 1) <= L
          BY <5>3
        <5> QED
          BY <4>1, <5>4 DEF k
      <4> QED
        BY <4>1, <4>2, <4>3
    <3>2. CASE ~(m < n)
      BY <1>1, <3>2
    <3> QED
      BY <3>1, <3>2
  <2> HIDE DEF B
  <2>3. B \subseteq Nat
    BY DEF B
  <2>4. B = {}
    BY <2>1, <2>2, <2>3, NoCounterexample
  <2>5. n \notin B /\ n <= n
    BY <1>1, <2>4
  <2> HIDE DEF Done
  <2> QED
    BY <1>1, <2>5 DEF B
<1>6. f[n] \in States /\ Len(f[n].parser.buffer) \in Nat
  <2>1. n \in 0 .. n
    BY <1>1
  <2>2. f[n] \in States
    BY <1>4, <2>1
  <2> QED
    BY <2>2, RoundsAre
<1>7. Scan(f[n]) = f[n]
  <2> DEFINE a == f[n]
  <2>1. /\ Scan(a) = a \/ Len(a.parser.buffer) + n <= L
        /\ Len(a.parser.buffer) \in Nat
    BY <1>5, <1>6
  <2> HIDE DEF a
  <2>2. Scan(a) = a
    <3> DEFINE k == Len(a.parser.buffer)
    <3>1. k \in Nat /\ (Scan(a) = a \/ k + n <= L)
      BY <2>1
    <3> HIDE DEF k
    <3>2. ~(k + n <= L)
      BY <1>1, <3>1
    <3> QED
      BY <3>1, <3>2
  <2> QED
    BY <2>2 DEF a
<1>8. ASSUME NEW R \in SUBSET States, Closed(R), start \in R PROVE f[n] \in R
  <2>1. n \in 0 .. n
    BY <1>1
  <2> QED
    BY <1>3, <1>8, <2>1
<1> QED
  BY <1>6, <1>7, <1>8 DEF Ends

\* What a push starts with.
Start(p, t) == [parser |-> [p EXCEPT !.buffer = @ \o t], text |-> << >>, calls |-> << >>]

LEMMA StartIs ==
  ASSUME NEW p \in Parsers, NEW t \in Texts
  PROVE  /\ Start(p, t) = State(p.buffer \o t, p.space, p.inCall, p.nCalls, << >>, << >>)
         /\ Start(p, t) \in States
<1>1. p.buffer \in Texts /\ p.space \in Spaces /\ p.inCall \in BOOLEAN /\ p.nCalls \in Nat
  BY DEF Parsers
<1> DEFINE q == p.buffer \o t
<1>2. q \in Texts
  BY <1>1, JoinedTexts
<1> HIDE DEF q
<1>3. [p EXCEPT !.buffer = q] = [buffer |-> q, space |-> p.space, inCall |-> p.inCall, nCalls |-> p.nCalls]
  BY DEF Parsers
<1>4. [p EXCEPT !.buffer = @ \o t] = [p EXCEPT !.buffer = q]
  BY Zenon DEF q
<1>5. Start(p, t) = State(q, p.space, p.inCall, p.nCalls, << >>, << >>)
  BY <1>3, <1>4 DEF Start, State
<1>6. << >> \in Texts /\ << >> \in Seq(Texts)
  BY EmptyText, EmptySeq
<1>7. State(q, p.space, p.inCall, p.nCalls, << >>, << >>) \in States
  BY <1>1, <1>2, <1>6, StatesAre
<1> QED
  BY <1>5, <1>7 DEF q

LEMMA PushEnds ==
  ASSUME NEW p \in Parsers, NEW t \in Texts
  PROVE  Ends(Start(p, t), Push(p, t))
<1> DEFINE start == Start(p, t)
           n == Len(start.parser.buffer) + 1
           g == CHOOSE f : f = [i \in 0 .. n |-> IF i = 0 THEN start ELSE Scan(f[i - 1])]
<1>1. start \in States /\ n \in Nat
  BY StartIs, RoundsAre
<1>2. Push(p, t) = g[n]
  BY Zenon DEF Push, Start
<1> HIDE DEF start
<1>3. \E f : f = [i \in 0 .. n |-> IF i = 0 THEN start ELSE Scan(f[i - 1])]
  <2> HIDE DEF n
  <2> QED
    BY <1>1, RoundsExist DEF Rounds
<1>4. g = [i \in 0 .. n |-> IF i = 0 THEN start ELSE Scan(g[i - 1])]
  <2> HIDE DEF n
  <2> QED
    BY <1>3, Zenon
<1>5. Rounds(g, n, start)
  <2> HIDE DEF n, g
  <2> QED
    BY <1>4 DEF Rounds
<1> HIDE DEF g
<1>6. Ends(start, g[n])
  BY <1>1, <1>5, RoundsEnd
<1> QED
  BY <1>2, <1>6 DEF start

LEMMA PushIs ==
  ASSUME NEW p \in Parsers, NEW t \in Texts
  PROVE  LET a == Push(p, t)
         IN  /\ a \in States /\ a.parser \in Parsers /\ a.text \in Texts /\ a.calls \in Seq(Texts)
             /\ a.parser.nCalls = p.nCalls + Len(a.calls)
<1> DEFINE a == Push(p, t)
<1>1. Ends(Start(p, t), a)
  BY PushEnds
<1> HIDE DEF a
<1>2. a \in States
  BY <1>1 DEF Ends
<1>3. a.parser \in Parsers /\ a.text \in Texts /\ a.calls \in Seq(Texts)
  BY <1>2 DEF States
<1>4. Start(p, t).parser.nCalls = p.nCalls /\ Start(p, t).calls = << >>
  BY StartIs DEF State
<1>5. a.parser.nCalls - Len(a.calls) = p.nCalls - Len(<< >>)
  BY <1>1, <1>4, EndsCount
<1>6. a.parser.nCalls \in Nat /\ p.nCalls \in Nat /\ Len(a.calls) \in Nat /\ Len(<< >>) = 0
  BY <1>3, JoinedCalls, EmptyText DEF Parsers
<1>7. a.parser.nCalls = p.nCalls + Len(a.calls)
  BY <1>5, <1>6
<1> QED
  BY <1>2, <1>3, <1>7 DEF a

\* Two pushes are one of both pieces.
LEMMA PushPush ==
  ASSUME NEW p \in Parsers, NEW u \in Texts, NEW v \in Texts
  PROVE  LET a == Push(p, u)
         IN  Push(p, u \o v) = InFront(a.text, a.calls, Push(a.parser, v))
<1> DEFINE a == Push(p, u)
           q == a.parser
           b == Push(q, v)
           w == u \o v
<1>1. Ends(Start(p, u), a)
  BY PushEnds
<1>2. a \in States /\ q \in Parsers /\ a.text \in Texts /\ a.calls \in Seq(Texts)
  BY PushIs
<1> HIDE DEF a
<1>3. Ends(Start(q, v), b)
  BY <1>2, PushEnds
<1>4. w \in Texts
  BY JoinedTexts
<1> HIDE DEF b, w
<1>5. Ends(Start(p, w), Push(p, w))
  BY <1>4, PushEnds
<1>6. Add(Start(p, u), v) = Start(p, w)
  <2>1. p.buffer \in Texts
    BY DEF Parsers
  <2>2. (p.buffer \o u) \o v = p.buffer \o w
    BY <2>1, TextsAssociate DEF w
  <2>3. Start(p, u) = State(p.buffer \o u, p.space, p.inCall, p.nCalls, << >>, << >>)
    BY StartIs
  <2>4. Start(p, w) = State(p.buffer \o w, p.space, p.inCall, p.nCalls, << >>, << >>)
    BY <1>4, StartIs
  <2>5. Add(Start(p, u), v)
          = State((p.buffer \o u) \o v, p.space, p.inCall, p.nCalls, << >>, << >>)
    BY <2>3, AddIs
  <2> QED
    BY <2>2, <2>4, <2>5
<1>7. Add(a, v) = InFront(a.text, a.calls, Start(q, v))
  <2>1. a = State(q.buffer, q.space, q.inCall, q.nCalls, a.text, a.calls)
    BY <1>2, StatesAre
  <2>2. Add(a, v) = State(q.buffer \o v, q.space, q.inCall, q.nCalls, a.text, a.calls)
    BY <2>1, AddIs
  <2>3. Start(q, v) = State(q.buffer \o v, q.space, q.inCall, q.nCalls, << >>, << >>)
    BY <1>2, StartIs
  <2>4. InFront(a.text, a.calls, Start(q, v))
          = State(q.buffer \o v, q.space, q.inCall, q.nCalls, a.text \o << >>, a.calls \o << >>)
    <3> DEFINE b1 == q.buffer \o v
               b2 == q.space
               b3 == q.inCall
               b4 == q.nCalls
               y == a.text
               z == a.calls
               e == << >>
    <3> HIDE DEF b1, b2, b3, b4, y, z, e
    <3>1. InFront(y, z, State(b1, b2, b3, b4, e, e)) = State(b1, b2, b3, b4, y \o e, z \o e)
      BY FrontIs
    <3> QED
      BY <2>3, <3>1 DEF b1, b2, b3, b4, y, z, e
  <2>5. a.text \o << >> = a.text /\ a.calls \o << >> = a.calls
    BY <1>2, EmptyText, JoinedCalls
  <2> QED
    BY <2>2, <2>4, <2>5
<1>8. Ends(Add(a, v), InFront(a.text, a.calls, b))
  BY <1>2, <1>3, <1>7, EndsFront
<1>9. Ends(Add(Start(p, u), v), InFront(a.text, a.calls, b))
  BY <1>1, <1>8, EndsAdd
<1>10. Push(p, w) = InFront(a.text, a.calls, b)
  BY <1>5, <1>6, <1>9, OneEnd
<1> QED
  BY <1>10 DEF a, b, w

-----------------------------------------------------------------------------
(* The parser in front of a client.                                         *)

Feed(parsing, p, piece) ==
  IF parsing THEN Push(p, piece) ELSE [parser |-> p, text |-> piece, calls |-> << >>]
Drain(parsing, p) == IF parsing THEN Flush(p) ELSE << >>

\* What it makes of a whole text.
Whole(parsing, t) == Feed(parsing, NewParser, t)

LEMMA NewParserIs ==
  NewParser \in Parsers /\ NewParser.nCalls = 0
BY JoinedSpaces, EmptyText DEF NewParser, Parsers

LEMMA FeedIs ==
  ASSUME NEW parsing \in BOOLEAN, NEW p \in Parsers, NEW t \in Texts
  PROVE  LET a == Feed(parsing, p, t)
         IN  /\ a \in States /\ a.parser \in Parsers /\ a.text \in Texts /\ a.calls \in Seq(Texts)
             /\ a.parser.nCalls = p.nCalls + Len(a.calls)
<1>1. CASE parsing
  BY <1>1, PushIs DEF Feed
<1>2. CASE ~parsing
  <2> DEFINE a == Feed(parsing, p, t)
  <2>1. a = [parser |-> p, text |-> t, calls |-> << >>]
    BY <1>2 DEF Feed
  <2>2. << >> \in Seq(Texts) /\ Len(<< >>) = 0 /\ p.nCalls \in Nat
    BY EmptySeq DEF Parsers
  <2> HIDE DEF a
  <2> QED
    BY <2>1, <2>2 DEF a, States
<1> QED
  BY <1>1, <1>2

\* One behind the other.
Chained(a, b) == [parser |-> b.parser, text |-> a.text \o b.text, calls |-> a.calls \o b.calls]

LEMMA FeedFeed ==
  ASSUME NEW parsing \in BOOLEAN, NEW p \in Parsers, NEW u \in Texts, NEW v \in Texts
  PROVE  LET a == Feed(parsing, p, u)
         IN  Feed(parsing, p, u \o v) = Chained(a, Feed(parsing, a.parser, v))
<1> DEFINE a == Feed(parsing, p, u)
           b == Feed(parsing, a.parser, v)
<1>1. CASE parsing
  <2>1. a = Push(p, u) /\ b = Push(a.parser, v) /\ Feed(parsing, p, u \o v) = Push(p, u \o v)
    BY <1>1 DEF Feed
  <2>2. a.parser \in Parsers /\ a.text \in Texts /\ a.calls \in Seq(Texts)
    BY FeedIs
  <2>3. b \in States
    BY <2>2, FeedIs
  <2>4. Push(p, u \o v) = InFront(a.text, a.calls, Push(Push(p, u).parser, v))
    BY <2>1, PushPush
  <2> HIDE DEF a, b
  <2>5. Push(p, u \o v) = InFront(a.text, a.calls, b)
    BY <2>1, <2>4
  <2>6. InFront(a.text, a.calls, b) = Chained(a, b)
    <3> DEFINE y == a.text
               z == a.calls
               x == b.text
               c == b.calls
               v2 == y \o x
               w2 == z \o c
    <3>1. InFront(y, z, b) = [b EXCEPT !.text = v2, !.calls = w2]
      BY Zenon DEF InFront
    <3>2. b = [parser |-> b.parser, text |-> x, calls |-> c]
      BY <2>3 DEF States
    <3>3. Chained(a, b) = [parser |-> b.parser, text |-> v2, calls |-> w2]
      BY DEF Chained
    <3> HIDE DEF v2, w2
    <3> DEFINE d == [b EXCEPT !.text = v2]
    <3>4. [b EXCEPT !.text = v2, !.calls = w2] = [d EXCEPT !.calls = w2]
      OBVIOUS
    <3>5. d = [parser |-> b.parser, text |-> v2, calls |-> c]
      BY <3>2
    <3> HIDE DEF d
    <3>6. [d EXCEPT !.calls = w2] = [parser |-> b.parser, text |-> v2, calls |-> w2]
      BY <3>5
    <3> QED
      BY <3>1, <3>3, <3>4, <3>6
  <2> QED
    BY <2>1, <2>5, <2>6 DEF a, b
<1>2. CASE ~parsing
  <2>1. /\ a = [parser |-> p, text |-> u, calls |-> << >>]
        /\ Feed(parsing, p, u \o v) = [parser |-> p, text |-> u \o v, calls |-> << >>]
    BY <1>2 DEF Feed
  <2>2. b = [parser |-> p, text |-> v, calls |-> << >>]
    BY <1>2, <2>1 DEF Feed
  <2>3. << >> \o << >> = << >>
    BY JoinedCalls, EmptySeq
  <2> HIDE DEF a, b
  <2>4. Chained(a, b) = [parser |-> p, text |-> u \o v, calls |-> << >>]
    BY <2>1, <2>2, <2>3 DEF Chained
  <2> QED
    BY <2>1, <2>4 DEF a, b
<1> QED
  BY <1>1, <1>2

LEMMA EmittedTypes ==
  ASSUME NEW p \in Parsers, NEW t \in Texts
  PROVE  /\ Emitted([parser |-> p, text |-> << >>], t).text = TextAfter(<< >>, p.space, t)
         /\ Emitted([parser |-> p, text |-> << >>], t).parser.space = GapAfter(p.space, t)
         /\ TextAfter(<< >>, p.space, t) \in Texts /\ GapAfter(p.space, t) \in Spaces
<1>1. p.space \in Spaces /\ << >> \in Texts
  BY EmptyText DEF Parsers
<1>2. TextAfter(<< >>, p.space, t) \in Texts /\ GapAfter(p.space, t) \in Spaces
  BY <1>1, AfterTypes
<1> QED
  BY <1>2 DEF Emitted, TextAfter, GapAfter, Gap, From, Parsers

LEMMA FlushIs ==
  ASSUME NEW p \in Parsers
  PROVE  Flush(p) \in Texts
<1> DEFINE t == (IF p.inCall THEN Open ELSE << >>) \o p.buffer
           last == Emitted([parser |-> p, text |-> << >>], t)
<1>1. p.buffer \in Texts /\ p.inCall \in BOOLEAN
  BY DEF Parsers
<1>2. t \in Texts
  BY <1>1, Tags, EmptyText, JoinedTexts
<1> HIDE DEF t
<1>3. last.text \in Texts /\ last.parser.space \in Texts
  BY <1>2, EmittedTypes DEF Spaces
<1>4. Flush(p) = last.text \o (IF p.nCalls = 0 THEN last.parser.space ELSE << >>)
  BY Zenon DEF Flush, t
<1> HIDE DEF last
<1>5. (IF p.nCalls = 0 THEN last.parser.space ELSE << >>) \in Texts
  BY <1>3, EmptyText
<1> QED
  BY <1>3, <1>4, <1>5, JoinedTexts

-----------------------------------------------------------------------------
(* The OpenAI stream.                                                       *)

LEMMA WholeIs ==
  ASSUME NEW parsing \in BOOLEAN, NEW t \in Texts
  PROVE  LET w == Whole(parsing, t)
         IN  /\ w.parser \in Parsers /\ w.text \in Texts /\ w.calls \in Seq(Texts)
             /\ w.parser.nCalls = Len(w.calls)
<1> DEFINE w == Whole(parsing, t)
<1>1. /\ w.parser \in Parsers /\ w.text \in Texts /\ w.calls \in Seq(Texts)
      /\ w.parser.nCalls = NewParser.nCalls + Len(w.calls)
  BY NewParserIs, FeedIs DEF Whole
<1> HIDE DEF w
<1>2. Len(w.calls) \in Nat
  BY <1>1, JoinedCalls
<1> QED
  BY <1>1, <1>2, NewParserIs DEF w

LEMMA WholeOfNothing ==
  ASSUME NEW parsing \in BOOLEAN
  PROVE  Whole(parsing, << >>) = [parser |-> NewParser, text |-> << >>, calls |-> << >>]
<1>1. CASE ~parsing
  BY <1>1 DEF Whole, Feed
<1>2. CASE parsing
  <2> DEFINE e == << >>
             a == Start(NewParser, e)
             z == [parser |-> NewParser, text |-> e, calls |-> e]
  <2>1. e \in Texts /\ e \in Spaces /\ e \in Seq(Texts) /\ e \o e = e /\ Len(e) = 0
    BY EmptyText, EmptySeq, JoinedSpaces
  <2>2. a = State(e, e, Outside, 0, e, e) /\ a \in States
    <3>1. /\ NewParser.buffer = e /\ NewParser.space = e /\ NewParser.inCall = Outside
          /\ NewParser.nCalls = 0
      BY DEF NewParser, Outside
    <3> HIDE DEF a
    <3>2. /\ a = State(NewParser.buffer \o e, NewParser.space, NewParser.inCall,
                       NewParser.nCalls, << >>, << >>)
          /\ a \in States
      BY <2>1, NewParserIs, StartIs DEF a
    <3> HIDE DEF e
    <3> QED
      BY <2>1, <3>1, <3>2 DEF e
  <2>3. Waits(e, e, e)
    <3> HIDE DEF e
    <3>1. Free({Open}, e)
      BY <2>1, Tags DEF Free, At
    <3>2. Clear({Open}, e, Len(e))
      BY <2>1 DEF Clear
    <3> QED
      BY <2>1, <3>1, <3>2 DEF Waits, e
  <2>4. Scan(a) = a
    <3>1. GapAfter(e, e) = e /\ TextAfter(e, e, e) = e
      BY <2>1, AfterNothing
    <3> HIDE DEF e, a
    <3>2. Scan(State(e, e, Outside, 0, e, e))
            = State(e, GapAfter(e, e), Outside, 0, TextAfter(e, e, e), e)
      BY <2>3, ScanWaits
    <3> QED
      BY <2>2, <3>1, <3>2
  <2>5. Ends(a, a)
    <3> HIDE DEF a
    <3> QED
      BY <2>2, <2>4 DEF Ends
  <2>6. Ends(a, Push(NewParser, e))
    BY <2>1, NewParserIs, PushEnds
  <2>7. Push(NewParser, e) = a
    <3> HIDE DEF a, e
    <3> QED
      BY <2>5, <2>6, OneEnd
  <2>8. a = z
    BY <2>2 DEF State, NewParser, Outside
  <2> QED
    BY <1>2, <2>7, <2>8 DEF Whole, Feed
<1> QED
  BY <1>1, <1>2

\* The whole of a text is that of its first part, with what is fed behind it.
LEMMA WholeOfBoth ==
  ASSUME NEW parsing \in BOOLEAN, NEW u \in Texts, NEW v \in Texts
  PROVE  LET w == Whole(parsing, u)
         IN  Whole(parsing, u \o v) = Chained(w, Feed(parsing, w.parser, v))
BY NewParserIs, FeedFeed DEF Whole

\* The answer without streaming, of a text t.
Body(parsing, t) == IF parsing THEN Parsed(t) ELSE [content |-> t, calls |-> << >>]

LEMMA BodyIs ==
  ASSUME NEW parsing \in BOOLEAN, NEW t \in Texts
  PROVE  LET w == Whole(parsing, t)
         IN  Body(parsing, t) = [content |-> w.text \o Drain(parsing, w.parser), calls |-> w.calls]
<1>1. CASE parsing
  BY <1>1 DEF Body, Parsed, Whole, Feed, Drain
<1>2. CASE ~parsing
  <2>1. Whole(parsing, t) = [parser |-> NewParser, text |-> t, calls |-> << >>]
    BY <1>2 DEF Whole, Feed
  <2>2. Drain(parsing, NewParser) = << >> /\ t \o << >> = t
    BY <1>2, EmptyText DEF Drain
  <2>3. Body(parsing, t) = [content |-> t, calls |-> << >>]
    BY <1>2 DEF Body
  <2> QED
    BY <2>1, <2>2, <2>3
<1> QED
  BY <1>1, <1>2

LEMMA DrainIs ==
  ASSUME NEW parsing \in BOOLEAN, NEW p \in Parsers
  PROVE  Drain(parsing, p) \in Texts
BY FlushIs, EmptyText DEF Drain

\* The parser and the frames are those of the text t.
Holds(parsing, t, p, c) ==
  LET w == Whole(parsing, t) IN p = w.parser /\ c.content = w.text /\ c.calls = w.calls

\* Up to the last output the frames hold what the parser makes of the text that
\* is released, and behind it all of the answer, or all of the one to a text that
\* is the start of it.
Assembled ==
  /\ chat = [content |-> chat.content, calls |-> chat.calls, reason |-> chat.reason]
  /\ ~Ended => Holds(request.parsing, raw, parser, chat)
  /\ phase = "closed" => \E u, v \in Texts : raw = u \o v /\ Holds(request.parsing, u, parser, chat)
  /\ phase = "finished" =>
       /\ chat.content = Body(request.parsing, raw).content
       /\ chat.calls = Body(request.parsing, raw).calls
       /\ chat.reason = "tool_calls" <=> chat.calls # << >>

LEMMA AssembledInit ==
  Init => Assembled
<1> SUFFICES ASSUME Init PROVE Assembled
  OBVIOUS
<1>1. /\ request \in Requests /\ raw = << >> /\ parser = NewParser /\ phase = "reading"
      /\ chat = [content |-> << >>, calls |-> << >>, reason |-> "none"]
  BY DEF Init
<1>2. request.parsing \in BOOLEAN
  BY <1>1, StopsAre
<1> QED
  BY <1>1, <1>2, WholeOfNothing DEF Assembled, Holds, Ended

\* The whole of t is c and behind it what a push has given, a.
GoesOn(parsing, t, c, a) ==
  /\ a.parser \in Parsers /\ a.text \in Texts /\ a.calls \in Seq(Texts)
  /\ c.content \in Texts /\ c.calls \in Seq(Texts)
  /\ Whole(parsing, t)
       = [parser |-> a.parser, text |-> c.content \o a.text, calls |-> c.calls \o a.calls]

LEMMA HoldsMore ==
  ASSUME NEW parsing \in BOOLEAN, NEW t \in Texts, NEW p, NEW c, Holds(parsing, t, p, c),
         NEW v \in Texts
  PROVE  GoesOn(parsing, t \o v, c, Feed(parsing, p, v)) /\ p \in Parsers
<1> DEFINE w == Whole(parsing, t)
           a == Feed(parsing, p, v)
<1>1. p = w.parser /\ c.content = w.text /\ c.calls = w.calls
  BY DEF Holds
<1>2. w.parser \in Parsers /\ w.text \in Texts /\ w.calls \in Seq(Texts)
  BY WholeIs
<1>3. Whole(parsing, t \o v) = Chained(w, Feed(parsing, w.parser, v))
  BY WholeOfBoth
<1> HIDE DEF w
<1>4. p \in Parsers
  BY <1>1, <1>2
<1>5. a.parser \in Parsers /\ a.text \in Texts /\ a.calls \in Seq(Texts)
  BY <1>4, FeedIs
<1>6. Whole(parsing, t \o v) = Chained(w, a)
  BY <1>1, <1>3
<1> HIDE DEF a
<1>7. Chained(w, a)
        = [parser |-> a.parser, text |-> c.content \o a.text, calls |-> c.calls \o a.calls]
  BY <1>1 DEF Chained
<1> QED
  BY <1>1, <1>2, <1>4, <1>5, <1>6, <1>7 DEF GoesOn, a

LEMMA AssembledNext ==
  Filtered /\ Assembled /\ [Next]_vars => Assembled'
<1> SUFFICES ASSUME Filtered, Assembled, [Next]_vars PROVE Assembled'
  OBVIOUS
<1> DEFINE parsing == request.parsing
<1>1. parsing \in BOOLEAN /\ raw \in Texts
  BY StopsAre DEF Filtered
<1>2. ASSUME NEW piece \in Texts, ReadMore(piece) PROVE Assembled'
  <2> DEFINE out == F!Push(Stops, stopper, piece)
             t == out.text
             a == Feed(parsing, parser, t)
  <2>1. phase = "reading" /\ phase' = phase /\ request' = request /\ raw' = raw \o t
    BY <1>2 DEF ReadMore, Reading
  <2>2. ParserPush(parser, t) = a
    BY DEF ParserPush, Feed
  <2>3. /\ parser' = a.parser
        /\ chat' = [chat EXCEPT !.content = @ \o a.text, !.calls = @ \o a.calls]
    BY <1>2, <2>2, Zenon DEF ReadMore
  <2>4. t \in Texts
    BY <2>1, FilterStep DEF Released
  <2>5. Holds(parsing, raw, parser, chat)
    BY <2>1 DEF Assembled, Ended
  <2> HIDE DEF t, parsing
  <2>6. GoesOn(parsing, raw \o t, chat, a)
    BY <1>1, <2>4, <2>5, HoldsMore
  <2> HIDE DEF a
  <2> DEFINE y == chat.content \o a.text
             z == chat.calls \o a.calls
  <2>7. chat' = [content |-> y, calls |-> z, reason |-> chat.reason]
    <3>1. chat = [content |-> chat.content, calls |-> chat.calls, reason |-> chat.reason]
      BY DEF Assembled
    <3> DEFINE d == [chat EXCEPT !.content = y]
    <3>2. chat' = [d EXCEPT !.calls = z]
      BY <2>3, Zenon
    <3> HIDE DEF y, z
    <3>3. d = [content |-> y, calls |-> chat.calls, reason |-> chat.reason]
      BY <3>1
    <3> HIDE DEF d
    <3> QED
      BY <3>2, <3>3
  <2> DEFINE w == Whole(parsing, raw')
  <2>8. w = [parser |-> a.parser, text |-> y, calls |-> z]
    BY <2>1, <2>6 DEF GoesOn
  <2> HIDE DEF y, z, w
  <2>9. parser' = w.parser /\ chat'.content = w.text /\ chat'.calls = w.calls
    <3>1. parser' = a.parser
      BY <2>3
    <3> QED
      BY <2>7, <2>8, <3>1
  <2>10. Holds(parsing, raw', parser', chat')
    BY <2>9 DEF Holds, w
  <2>11. chat' = [content |-> chat'.content, calls |-> chat'.calls, reason |-> chat'.reason]
    BY <2>7
  <2> QED
    BY <2>1, <2>10, <2>11 DEF Assembled, Ended, parsing
<1>3. ASSUME NEW piece \in Texts, NEW retired \in {"none", "length", "eog"}, ReadLast(piece, retired)
      PROVE  Assembled'
  <2> DEFINE out == F!Push(Stops, stopper, piece)
             t == LastText(out)
             a == Feed(parsing, parser, t)
             reason == IF out.hit THEN "stop_sequence" ELSE retired
  <2>1. /\ phase = "reading" /\ phase' = "finished" /\ request' = request
        /\ raw' = (raw \o out.text) \o Rest(out)
    BY <1>3 DEF ReadLast, Reading, Rest
  <2>2. /\ chat' = [content |-> chat.content \o a.text \o Drain(parsing, a.parser),
                    calls |-> chat.calls \o a.calls,
                    reason |-> IF a.parser.nCalls > 0 THEN "tool_calls" ELSE OpenAIReason(reason)]
    <3>1. ParserPush(parser, t) = a
      BY DEF ParserPush, Feed
    <3>2. ParserFlush(a.parser) = Drain(parsing, a.parser)
      BY DEF ParserFlush, Drain
    <3>3. ChatEnded(t, reason)
      BY <1>3 DEF ReadLast
    <3> HIDE DEF t, a, reason
    <3> QED
      BY <3>1, <3>2, <3>3, Zenon DEF ChatEnded
  <2>3. out.text \in Texts /\ Rest(out) \in Texts
    BY <2>1, FilterStep, EmptyText DEF Released, Rest, F!Flush
  <2>4. t \in Texts /\ raw' = raw \o t
    <3> HIDE DEF out
    <3>1. t = out.text \o Rest(out)
      BY DEF LastText, Rest
    <3>2. (raw \o out.text) \o Rest(out) = raw \o (out.text \o Rest(out))
      BY <1>1, <2>3, TextsAssociate
    <3> QED
      BY <2>1, <2>3, <3>1, <3>2, JoinedTexts
  <2>5. Holds(parsing, raw, parser, chat)
    BY <2>1 DEF Assembled, Ended
  <2>6. reason # "tool_calls" /\ OpenAIReason(reason) # "tool_calls"
    BY DEF OpenAIReason
  <2> HIDE DEF t, parsing, reason
  <2>7. GoesOn(parsing, raw \o t, chat, a)
    BY <1>1, <2>4, <2>5, HoldsMore
  <2>8. raw' \in Texts
    BY <1>1, <2>4, JoinedTexts
  <2> HIDE DEF a
  <2> DEFINE w == Whole(parsing, raw')
             y == chat.content \o a.text
             z == chat.calls \o a.calls
  <2>9. w.parser = a.parser /\ w.text = y /\ w.calls = z
    <3>1. w = [parser |-> a.parser, text |-> y, calls |-> z]
      BY <2>4, <2>7 DEF GoesOn
    <3> HIDE DEF w, y, z
    <3> QED
      BY <3>1
  <2>10. Body(parsing, raw') = [content |-> w.text \o Drain(parsing, w.parser), calls |-> w.calls]
    BY <1>1, <2>8, BodyIs
  <2>11. w.parser.nCalls = Len(w.calls) /\ w.calls \in Seq(Texts)
    BY <1>1, <2>8, WholeIs
  <2> HIDE DEF w, y, z
  <2>12. w.parser.nCalls > 0 <=> w.calls # << >>
    BY <2>11, JoinedCalls
  <2>13. /\ chat'.content = w.text \o Drain(parsing, w.parser) /\ chat'.calls = w.calls
         /\ chat'.reason = "tool_calls" <=> w.calls # << >>
    BY <2>2, <2>6, <2>9, <2>12 DEF y, z
  <2>14. chat' = [content |-> chat'.content, calls |-> chat'.calls, reason |-> chat'.reason]
    BY <2>2
  <2>15. /\ chat'.content = Body(parsing, raw').content
         /\ chat'.calls = Body(parsing, raw').calls
         /\ chat'.reason = "tool_calls" <=> chat'.calls # << >>
    <3> DEFINE b == Body(parsing, raw')
               d == w.text \o Drain(parsing, w.parser)
    <3>1. b = [content |-> d, calls |-> w.calls]
      BY <2>10
    <3> HIDE DEF b, d
    <3>2. b.content = d /\ b.calls = w.calls
      BY <3>1
    <3> QED
      BY <2>13, <3>2 DEF b, d
  <2> QED
    BY <2>1, <2>14, <2>15 DEF Assembled, Ended, parsing
<1>4. CASE StreamCloses
  <2>1. /\ phase = "reading" /\ phase' = "closed" /\ request' = request /\ parser' = parser
        /\ chat' = chat /\ raw' = raw \o F!Flush(stopper)
    BY <1>4 DEF StreamCloses
  <2>2. Holds(parsing, raw, parser, chat)
    BY <2>1 DEF Assembled, Ended
  <2>3. F!Flush(stopper) \in Texts
    BY <2>1, EmptyText DEF Filtered, Ended, Withholds, F!Flush
  <2>4. \E u, v \in Texts : raw' = u \o v /\ Holds(request'.parsing, u, parser', chat')
    BY <1>1, <2>1, <2>2, <2>3
  <2>5. chat' = [content |-> chat'.content, calls |-> chat'.calls, reason |-> chat'.reason]
    BY <2>1 DEF Assembled
  <2>6. phase' # "finished" /\ Ended'
    BY <2>1 DEF Ended
  <2> QED
    BY <2>4, <2>5, <2>6 DEF Assembled
<1>5. CASE Abandoned
  BY <1>5 DEF Abandoned, Assembled, Ended
<1>6. CASE UNCHANGED vars
  BY <1>6 DEF vars, Assembled, Ended
<1> QED
  BY <1>2, <1>3, <1>4, <1>5, <1>6, PiecesAreTexts, EmptyText DEF Next

\* What is put in front is a prefix.
LEMMA PrefixOf ==
  ASSUME NEW S, NEW s \in Seq(S), NEW u \in Seq(S)
  PROVE  IsPrefix(s, s \o u) /\ IsPrefix(s, s)
<1> DEFINE t == s \o u
<1>1. t \in Seq(S)
  BY ConcatProperties
<1>2. \E v \in Seq(S) : t = s \o v
  OBVIOUS
<1> HIDE DEF t
<1>3. IsPrefix(s, t)
  BY <1>1, <1>2, PrefixIs
<1>4. << >> \in Seq(S) /\ s = s \o << >>
  BY EmptySeq, ConcatEmptySeq
<1>5. IsPrefix(s, s)
  BY <1>4, PrefixIs
<1> QED
  BY <1>3, <1>5 DEF t

\* What the frames of the start of a text hold is the start of its answer.
LEMMA StartOfTheBody ==
  ASSUME NEW parsing \in BOOLEAN, NEW u \in Texts, NEW v \in Texts,
         NEW p, NEW c, Holds(parsing, u, p, c)
  PROVE  /\ IsPrefix(c.content, Body(parsing, u \o v).content)
         /\ IsPrefix(c.calls, Body(parsing, u \o v).calls)
<1> DEFINE a == Feed(parsing, p, v)
           t == u \o v
           w == Whole(parsing, t)
<1>1. GoesOn(parsing, t, c, a)
  BY HoldsMore
<1>2. t \in Texts
  BY JoinedTexts
<1> HIDE DEF a, t
<1>3. Body(parsing, t) = [content |-> w.text \o Drain(parsing, w.parser), calls |-> w.calls]
  BY <1>2, BodyIs
<1>4. /\ a.parser \in Parsers /\ a.text \in Texts /\ a.calls \in Seq(Texts)
      /\ c.content \in Texts /\ c.calls \in Seq(Texts)
      /\ w = [parser |-> a.parser, text |-> c.content \o a.text, calls |-> c.calls \o a.calls]
  BY <1>1 DEF GoesOn
<1> DEFINE x == c.content
           y == a.text
           z == Drain(parsing, a.parser)
<1>5. z \in Texts
  BY <1>4, DrainIs
<1> HIDE DEF w, z
<1>6. w.text = x \o y /\ w.parser = a.parser /\ w.calls = c.calls \o a.calls
  BY <1>4
<1>7. (x \o y) \o z = x \o (y \o z)
  <2>1. JoinsAlike(x, y, z)
    BY <1>4, <1>5, TextsJoinAlike
  <2> QED
    BY <2>1 DEF JoinsAlike
<1>8. IsPrefix(x, x \o (y \o z))
  <2>1. y \o z \in Texts
    BY <1>4, <1>5, JoinedTexts
  <2> DEFINE q == y \o z
  <2> HIDE DEF q
  <2>2. q \in Texts
    BY <2>1 DEF q
  <2>3. IsPrefix(x, x \o q)
    BY <1>4, <2>2, PrefixOf DEF Texts
  <2> QED
    BY <2>3 DEF q
<1>9. IsPrefix(c.calls, c.calls \o a.calls)
  BY <1>4, PrefixOf
<1>10. Body(parsing, t).content = x \o (y \o z) /\ Body(parsing, t).calls = c.calls \o a.calls
  <2>1. Drain(parsing, w.parser) = z
    BY <1>6 DEF z
  <2> DEFINE q == w.text \o Drain(parsing, w.parser)
  <2>2. q = x \o (y \o z)
    BY <1>6, <1>7, <2>1
  <2>3. Body(parsing, t) = [content |-> q, calls |-> w.calls]
    BY <1>3
  <2> DEFINE b == Body(parsing, t)
  <2> HIDE DEF q, b
  <2>4. b.content = q /\ b.calls = w.calls
    BY <2>3 DEF b
  <2> QED
    BY <1>6, <2>2, <2>4 DEF b
<1> QED
  BY <1>8, <1>9, <1>10 DEF t

LEMMA AssembledShows ==
  Filtered /\ Assembled => ChatIsTheBody
<1> SUFFICES ASSUME Filtered, Assembled PROVE ChatIsTheBody
  OBVIOUS
<1> DEFINE parsing == request.parsing
           body == Body(parsing, raw)
<1>1. parsing \in BOOLEAN /\ raw \in Texts
  BY StopsAre DEF Filtered
<1>2. WholeBody = body
  BY DEF WholeBody, Body
<1>3. CASE phase # "finished"
  <2>1. PICK u, v \in Texts : raw = u \o v /\ Holds(parsing, u, parser, chat)
    <3>1. CASE Ended
      BY <1>3, <3>1 DEF Assembled, Ended
    <3>2. CASE ~Ended
      <4>1. Holds(parsing, raw, parser, chat)
        BY <3>2 DEF Assembled
      <4>2. raw = raw \o << >> /\ << >> \in Texts
        BY <1>1, EmptyText
      <4> QED
        BY <1>1, <4>1, <4>2
    <3> QED
      BY <3>1, <3>2
  <2>2. /\ IsPrefix(chat.content, Body(parsing, u \o v).content)
        /\ IsPrefix(chat.calls, Body(parsing, u \o v).calls)
    BY <1>1, <2>1, StartOfTheBody
  <2> QED
    BY <1>2, <1>3, <2>1, <2>2 DEF ChatIsTheBody
<1>4. CASE phase = "finished"
  <2> DEFINE w == Whole(parsing, raw)
             x == w.text
             y == Drain(parsing, w.parser)
  <2>1. w.parser \in Parsers /\ x \in Texts /\ w.calls \in Seq(Texts)
    BY <1>1, WholeIs
  <2>2. y \in Texts
    BY <1>1, <2>1, DrainIs
  <2>3. body = [content |-> x \o y, calls |-> w.calls]
    BY <1>1, BodyIs
  <2> HIDE DEF w, x, y, body
  <2>4. x \o y \in Texts
    BY <2>1, <2>2, JoinedTexts
  <2> DEFINE z == x \o y
  <2>5. z \in Seq(Characters) /\ body.content = z /\ body.calls = w.calls
    BY <2>3, <2>4 DEF Texts
  <2> HIDE DEF z
  <2>6. IsPrefix(body.content, body.content) /\ IsPrefix(body.calls, body.calls)
    BY <2>1, <2>5, PrefixOf
  <2>7. /\ chat.content = body.content /\ chat.calls = body.calls
        /\ chat.reason = "tool_calls" <=> chat.calls # << >>
    BY <1>4 DEF Assembled, body
  <2> QED
    BY <1>2, <2>6, <2>7 DEF ChatIsTheBody
<1> QED
  BY <1>3, <1>4

\* Throughout a request, what the frames of the OpenAI stream hold.
THEOREM FramesAreAssembled == Spec => []Assembled
<1>1. Init => Assembled
  BY AssembledInit
<1>2. Filtered /\ Assembled /\ [Next]_vars => Assembled'
  BY AssembledNext
<1> QED
  BY <1>1, <1>2, TextIsFiltered, PTL DEF Spec

\* The frames of the OpenAI stream assemble to the answer without streaming,
\* however the text is split into outputs.
THEOREM StreamIsTheBody == Spec => []ChatIsTheBody
<1>1. Filtered /\ Assembled => ChatIsTheBody
  BY AssembledShows
<1> QED
  BY <1>1, TextIsFiltered, FramesAreAssembled, PTL

-----------------------------------------------------------------------------
(* Folds over sequences.  A fold goes by a table of its values for all sets  *)
(* of indices; k names the operator that is folded.                          *)

Apply(k, v, e) ==
  CASE k = "call" -> CallSent(v, e)
    [] k = "text" -> WithText(v, e)
    [] k = "body" -> WithCall(v, e)
    [] OTHER -> WithLetter(v, e)

FoldStep(k, base, seq, g, s) ==
  IF s = {} THEN base ELSE Apply(k, g[s \ {Max(s)}], seq[Max(s)])

IsFold(k, base, seq, g) ==
  \A s \in SUBSET DOMAIN seq : g[s] = FoldStep(k, base, seq, g, s)

LEMMA LastIndex ==
  ASSUME NEW n \in Nat, NEW s \in SUBSET (1 .. n), s # {}
  PROVE  Max(s) \in s /\ \A y \in s : y <= Max(s)
<1>0. s \subseteq 0 .. n /\ s \subseteq Nat
  OBVIOUS
<1>1. PICK x \in s : \A y \in s : x >= y
  BY <1>0, GreatestNumber
<1>2. Max(s) = x
  BY <1>0, <1>1, MaxIs
<1> QED
  BY <1>0, <1>1, <1>2

LEMMA FoldsExist ==
  ASSUME NEW k, NEW base, NEW n \in Nat, NEW seq, DOMAIN seq = 1 .. n
  PROVE  \E g : g = [s \in SUBSET DOMAIN seq |-> FoldStep(k, base, seq, g, s)]
<1> DEFINE P(m) == \E g : \A s \in SUBSET (1 .. n) : s \subseteq 1 .. m => g[s] = FoldStep(k, base, seq, g, s)
           B == {m \in Nat : ~P(m)}
<1>1. P(0)
  <2> DEFINE g == [s \in SUBSET (1 .. n) |-> base]
  <2>1. \A s \in SUBSET (1 .. n) : s \subseteq 1 .. 0 => g[s] = FoldStep(k, base, seq, g, s)
    BY DEF FoldStep
  <2> QED
    BY <2>1
<1>2. ASSUME NEW m \in Nat, P(m) PROVE P(m + 1)
  <2>1. PICK g : \A s \in SUBSET (1 .. n) : s \subseteq 1 .. m => g[s] = FoldStep(k, base, seq, g, s)
    BY <1>2
  <2> DEFINE h == [s \in SUBSET (1 .. n) |-> FoldStep(k, base, seq, g, s)]
  <2>2. ASSUME NEW s \in SUBSET (1 .. n), s \subseteq 1 .. m + 1
        PROVE  h[s] = FoldStep(k, base, seq, h, s)
    <3>0. h[s] = FoldStep(k, base, seq, g, s)
      OBVIOUS
    <3>1. CASE s = {}
      BY <3>0, <3>1 DEF FoldStep
    <3>2. CASE s # {}
      <4> DEFINE x == Max(s)
      <4>1. x \in s /\ \A y \in s : y <= x
        BY <3>2, LastIndex
      <4> HIDE DEF x
      <4>2. s \ {x} \in SUBSET (1 .. n) /\ s \ {x} \subseteq 1 .. m
        BY <2>2, <4>1
      <4>3. h[s \ {x}] = g[s \ {x}]
        BY <2>1, <4>2
      <4> HIDE DEF h
      <4> QED
        BY <3>0, <3>2, <4>3 DEF FoldStep, x
    <3> QED
      BY <3>1, <3>2
  <2> HIDE DEF h
  <2> QED
    BY <2>2
<1> HIDE DEF P
<1>3. B = {}
  <2>1. B \subseteq Nat /\ 0 \notin B
    BY <1>1
  <2>2. \A m \in Nat : m \notin B => m + 1 \notin B
    BY <1>2
  <2> HIDE DEF B
  <2> QED
    BY <2>1, <2>2, NoCounterexample
<1>4. P(n)
  BY <1>3
<1>5. PICK g : \A s \in SUBSET (1 .. n) : g[s] = FoldStep(k, base, seq, g, s)
  BY <1>4 DEF P
<1> DEFINE h == [s \in SUBSET (1 .. n) |-> g[s]]
<1>6. \A s \in SUBSET (1 .. n) : h[s] = FoldStep(k, base, seq, h, s)
  <2> SUFFICES ASSUME NEW s \in SUBSET (1 .. n) PROVE h[s] = FoldStep(k, base, seq, h, s)
    OBVIOUS
  <2>1. h[s] = FoldStep(k, base, seq, g, s)
    BY <1>5
  <2> DEFINE x == Max(s)
  <2> HIDE DEF x
  <2>2. h[s \ {x}] = g[s \ {x}]
    OBVIOUS
  <2> HIDE DEF h
  <2> QED
    BY <2>1, <2>2 DEF FoldStep, x
<1>7. h = [s \in SUBSET (1 .. n) |-> FoldStep(k, base, seq, h, s)]
  BY <1>6
<1> HIDE DEF h
<1> QED
  BY <1>7

LEMMA FoldOfNothing ==
  ASSUME NEW k, NEW base, NEW g, IsFold(k, base, << >>, g)
  PROVE  g[DOMAIN << >>] = base
<1>1. DOMAIN << >> = {}
  OBVIOUS
<1>2. {} \in SUBSET DOMAIN << >>
  OBVIOUS
<1>3. g[{}] = FoldStep(k, base, << >>, g, {})
  BY <1>2, Zenon DEF IsFold
<1> QED
  BY <1>1, <1>3 DEF FoldStep

\* A fold over one element more is one step more.
LEMMA FoldOfMore ==
  ASSUME NEW S, NEW seq \in Seq(S), NEW e \in S, NEW k, NEW base, NEW g, NEW h,
         IsFold(k, base, seq, g), IsFold(k, base, Append(seq, e), h)
  PROVE  h[DOMAIN Append(seq, e)] = Apply(k, g[DOMAIN seq], e)
<1> DEFINE n == Len(seq)
           t == Append(seq, e)
<1>1. /\ n \in Nat /\ DOMAIN seq = 1 .. n /\ DOMAIN t = 1 .. n + 1
      /\ \A i \in 1 .. n : t[i] = seq[i]
      /\ t[n + 1] = e
  OBVIOUS
<1> HIDE DEF n, t
<1>2. \A m \in Nat : m + 1 <= n + 1 => Max(1 .. m + 1) = m + 1 /\ (1 .. m + 1) \ {m + 1} = 1 .. m
  <2> SUFFICES ASSUME NEW m \in Nat
               PROVE  Max(1 .. m + 1) = m + 1 /\ (1 .. m + 1) \ {m + 1} = 1 .. m
    OBVIOUS
  <2>1. 1 .. m + 1 \subseteq Nat /\ m + 1 \in 1 .. m + 1 /\ \A y \in 1 .. m + 1 : m + 1 >= y
    OBVIOUS
  <2>2. Max(1 .. m + 1) = m + 1
    BY <2>1, MaxIs
  <2> QED
    BY <2>2
<1>3. ASSUME NEW m \in Nat, m + 1 <= n
      PROVE  g[1 .. m + 1] = Apply(k, g[1 .. m], seq[m + 1])
  <2>1. 1 .. m + 1 \in SUBSET DOMAIN seq /\ 1 .. m + 1 # {}
    <3>1. m + 1 \in 1 .. m + 1 /\ 1 .. m + 1 \subseteq 1 .. n
      BY <1>1, <1>3
    <3> QED
      BY <1>1, <3>1
  <2>2. g[1 .. m + 1] = FoldStep(k, base, seq, g, 1 .. m + 1)
    BY <2>1 DEF IsFold
  <2>3. Max(1 .. m + 1) = m + 1 /\ (1 .. m + 1) \ {m + 1} = 1 .. m
    BY <1>1, <1>2, <1>3
  <2> QED
    BY <2>1, <2>2, <2>3 DEF FoldStep
<1>4. ASSUME NEW m \in Nat, m + 1 <= n + 1
      PROVE  h[1 .. m + 1] = Apply(k, h[1 .. m], t[m + 1])
  <2>1. 1 .. m + 1 \in SUBSET DOMAIN t /\ 1 .. m + 1 # {}
    <3>1. m + 1 \in 1 .. m + 1 /\ 1 .. m + 1 \subseteq 1 .. n + 1
      BY <1>1, <1>4
    <3> QED
      BY <1>1, <3>1
  <2>2. h[1 .. m + 1] = FoldStep(k, base, t, h, 1 .. m + 1)
    BY <2>1 DEF IsFold, t
  <2>3. Max(1 .. m + 1) = m + 1 /\ (1 .. m + 1) \ {m + 1} = 1 .. m
    BY <1>1, <1>2, <1>4
  <2> QED
    BY <2>1, <2>2, <2>3 DEF FoldStep
<1>5. g[{}] = base /\ h[{}] = base
  <2>1. {} \in SUBSET DOMAIN seq /\ {} \in SUBSET DOMAIN t
    OBVIOUS
  <2> QED
    BY <2>1 DEF IsFold, FoldStep, t
<1> DEFINE B == {m \in Nat : m <= n /\ g[1 .. m] # h[1 .. m]}
<1>6. B = {}
  <2>1. 0 \notin B
    <3>1. 1 .. 0 = {}
      OBVIOUS
    <3> QED
      BY <1>5, <3>1
  <2>2. ASSUME NEW m \in Nat, m \notin B PROVE m + 1 \notin B
    <3> SUFFICES ASSUME m + 1 <= n PROVE g[1 .. m + 1] = h[1 .. m + 1]
      OBVIOUS
    <3>1. g[1 .. m] = h[1 .. m]
      BY <1>1, <2>2
    <3>2. t[m + 1] = seq[m + 1]
      BY <1>1
    <3>3. m + 1 <= n + 1
      BY <1>1
    <3> QED
      BY <1>3, <1>4, <3>1, <3>2, <3>3
  <2>3. B \subseteq Nat
    OBVIOUS
  <2> HIDE DEF B
  <2> QED
    BY <2>1, <2>2, <2>3, NoCounterexample
<1>7. g[1 .. n] = h[1 .. n]
  BY <1>1, <1>6
<1>8. h[1 .. n + 1] = Apply(k, h[1 .. n], t[n + 1])
  BY <1>1, <1>4
<1> QED
  BY <1>1, <1>7, <1>8 DEF t

LEMMA FoldOfCalls ==
  ASSUME NEW s, NEW n \in Nat, NEW seq, DOMAIN seq = 1 .. n
  PROVE  \E g : FoldLeft(CallSent, s, seq) = g[DOMAIN seq] /\ IsFold("call", s, seq, g)
<1> DEFINE it == CHOOSE g : g = [x \in SUBSET DOMAIN seq |->
                   IF x = {} THEN s ELSE CallSent(g[x \ {Max(x)}], seq[Max(x)])]
<1>1. PICK g : g = [x \in SUBSET DOMAIN seq |-> FoldStep("call", s, seq, g, x)]
  BY FoldsExist
<1>2. g = [x \in SUBSET DOMAIN seq |->
             IF x = {} THEN s ELSE CallSent(g[x \ {Max(x)}], seq[Max(x)])]
  BY <1>1 DEF FoldStep, Apply
<1>3. it = [x \in SUBSET DOMAIN seq |->
              IF x = {} THEN s ELSE CallSent(it[x \ {Max(x)}], seq[Max(x)])]
  BY <1>2
<1>4. FoldLeft(CallSent, s, seq) = it[DOMAIN seq]
  BY DEF FoldLeft, MapThenFoldSet
<1> HIDE DEF it
<1>5. IsFold("call", s, seq, it)
  <2> SUFFICES ASSUME NEW x \in SUBSET DOMAIN seq
               PROVE  it[x] = FoldStep("call", s, seq, it, x)
    BY DEF IsFold
  <2>1. it[x] = IF x = {} THEN s ELSE CallSent(it[x \ {Max(x)}], seq[Max(x)])
    BY <1>3
  <2> QED
    BY <2>1 DEF FoldStep, Apply
<1> QED
  BY <1>4, <1>5

\* A fold over nothing, and over one element more.
CallsFold(s, c, e) ==
  /\ FoldLeft(CallSent, s, << >>) = s
  /\ FoldLeft(CallSent, s, Append(c, e)) = CallSent(FoldLeft(CallSent, s, c), e)

LEMMA CallsOneByOne ==
  ASSUME NEW S, NEW c \in Seq(S), NEW e \in S, NEW s
  PROVE  CallsFold(s, c, e)
<1> DEFINE z == << >>
           d == Append(c, e)
<1>1. DOMAIN z = 1 .. 0 /\ 0 \in Nat
  OBVIOUS
<1>2. DOMAIN c = 1 .. Len(c) /\ Len(c) \in Nat
  OBVIOUS
<1>3. DOMAIN d = 1 .. Len(c) + 1 /\ Len(c) + 1 \in Nat
  OBVIOUS
<1> HIDE DEF z, d
<1>4. PICK f : FoldLeft(CallSent, s, z) = f[DOMAIN z] /\ IsFold("call", s, z, f)
  BY <1>1, FoldOfCalls
<1>5. PICK g : FoldLeft(CallSent, s, c) = g[DOMAIN c] /\ IsFold("call", s, c, g)
  BY <1>2, FoldOfCalls
<1>6. PICK h : FoldLeft(CallSent, s, d) = h[DOMAIN d] /\ IsFold("call", s, d, h)
  BY <1>3, FoldOfCalls
<1>7. f[DOMAIN z] = s
  BY <1>4, FoldOfNothing DEF z
<1>8. h[DOMAIN d] = Apply("call", g[DOMAIN c], e)
  BY <1>5, <1>6, FoldOfMore DEF d
<1> QED
  BY <1>4, <1>5, <1>6, <1>7, <1>8 DEF CallsFold, z, d, Apply

LEMMA FoldOfTexts ==
  ASSUME NEW s, NEW n \in Nat, NEW seq, DOMAIN seq = 1 .. n
  PROVE  \E g : FoldLeft(WithText, s, seq) = g[DOMAIN seq] /\ IsFold("text", s, seq, g)
<1> DEFINE it == CHOOSE g : g = [x \in SUBSET DOMAIN seq |->
                   IF x = {} THEN s ELSE WithText(g[x \ {Max(x)}], seq[Max(x)])]
<1>1. PICK g : g = [x \in SUBSET DOMAIN seq |-> FoldStep("text", s, seq, g, x)]
  BY FoldsExist
<1>2. g = [x \in SUBSET DOMAIN seq |->
             IF x = {} THEN s ELSE WithText(g[x \ {Max(x)}], seq[Max(x)])]
  BY <1>1 DEF FoldStep, Apply
<1>3. it = [x \in SUBSET DOMAIN seq |->
              IF x = {} THEN s ELSE WithText(it[x \ {Max(x)}], seq[Max(x)])]
  BY <1>2
<1>4. FoldLeft(WithText, s, seq) = it[DOMAIN seq]
  BY DEF FoldLeft, MapThenFoldSet
<1> HIDE DEF it
<1>5. IsFold("text", s, seq, it)
  <2> SUFFICES ASSUME NEW x \in SUBSET DOMAIN seq
               PROVE  it[x] = FoldStep("text", s, seq, it, x)
    BY DEF IsFold
  <2>1. it[x] = IF x = {} THEN s ELSE WithText(it[x \ {Max(x)}], seq[Max(x)])
    BY <1>3
  <2> QED
    BY <2>1 DEF FoldStep, Apply
<1> QED
  BY <1>4, <1>5

TextsFold(s, c, e) ==
  /\ FoldLeft(WithText, s, << >>) = s
  /\ FoldLeft(WithText, s, Append(c, e)) = WithText(FoldLeft(WithText, s, c), e)

LEMMA TextsOneByOne ==
  ASSUME NEW S, NEW c \in Seq(S), NEW e \in S, NEW s
  PROVE  TextsFold(s, c, e)
<1> DEFINE z == << >>
           d == Append(c, e)
<1>1. DOMAIN z = 1 .. 0 /\ 0 \in Nat
  OBVIOUS
<1>2. DOMAIN c = 1 .. Len(c) /\ Len(c) \in Nat
  OBVIOUS
<1>3. DOMAIN d = 1 .. Len(c) + 1 /\ Len(c) + 1 \in Nat
  OBVIOUS
<1> HIDE DEF z, d
<1>4. PICK f : FoldLeft(WithText, s, z) = f[DOMAIN z] /\ IsFold("text", s, z, f)
  BY <1>1, FoldOfTexts
<1>5. PICK g : FoldLeft(WithText, s, c) = g[DOMAIN c] /\ IsFold("text", s, c, g)
  BY <1>2, FoldOfTexts
<1>6. PICK h : FoldLeft(WithText, s, d) = h[DOMAIN d] /\ IsFold("text", s, d, h)
  BY <1>3, FoldOfTexts
<1>7. f[DOMAIN z] = s
  BY <1>4, FoldOfNothing DEF z
<1>8. h[DOMAIN d] = Apply("text", g[DOMAIN c], e)
  BY <1>5, <1>6, FoldOfMore DEF d
<1> QED
  BY <1>4, <1>5, <1>6, <1>7, <1>8 DEF TextsFold, z, d, Apply

LEMMA FoldOfBodies ==
  ASSUME NEW s, NEW n \in Nat, NEW seq, DOMAIN seq = 1 .. n
  PROVE  \E g : FoldLeft(WithCall, s, seq) = g[DOMAIN seq] /\ IsFold("body", s, seq, g)
<1> DEFINE it == CHOOSE g : g = [x \in SUBSET DOMAIN seq |->
                   IF x = {} THEN s ELSE WithCall(g[x \ {Max(x)}], seq[Max(x)])]
<1>1. PICK g : g = [x \in SUBSET DOMAIN seq |-> FoldStep("body", s, seq, g, x)]
  BY FoldsExist
<1>2. g = [x \in SUBSET DOMAIN seq |->
             IF x = {} THEN s ELSE WithCall(g[x \ {Max(x)}], seq[Max(x)])]
  BY <1>1 DEF FoldStep, Apply
<1>3. it = [x \in SUBSET DOMAIN seq |->
              IF x = {} THEN s ELSE WithCall(it[x \ {Max(x)}], seq[Max(x)])]
  BY <1>2
<1>4. FoldLeft(WithCall, s, seq) = it[DOMAIN seq]
  BY DEF FoldLeft, MapThenFoldSet
<1> HIDE DEF it
<1>5. IsFold("body", s, seq, it)
  <2> SUFFICES ASSUME NEW x \in SUBSET DOMAIN seq
               PROVE  it[x] = FoldStep("body", s, seq, it, x)
    BY DEF IsFold
  <2>1. it[x] = IF x = {} THEN s ELSE WithCall(it[x \ {Max(x)}], seq[Max(x)])
    BY <1>3
  <2> QED
    BY <2>1 DEF FoldStep, Apply
<1> QED
  BY <1>4, <1>5

BodiesFold(s, c, e) ==
  /\ FoldLeft(WithCall, s, << >>) = s
  /\ FoldLeft(WithCall, s, Append(c, e)) = WithCall(FoldLeft(WithCall, s, c), e)

LEMMA BodiesOneByOne ==
  ASSUME NEW S, NEW c \in Seq(S), NEW e \in S, NEW s
  PROVE  BodiesFold(s, c, e)
<1> DEFINE z == << >>
           d == Append(c, e)
<1>1. DOMAIN z = 1 .. 0 /\ 0 \in Nat
  OBVIOUS
<1>2. DOMAIN c = 1 .. Len(c) /\ Len(c) \in Nat
  OBVIOUS
<1>3. DOMAIN d = 1 .. Len(c) + 1 /\ Len(c) + 1 \in Nat
  OBVIOUS
<1> HIDE DEF z, d
<1>4. PICK f : FoldLeft(WithCall, s, z) = f[DOMAIN z] /\ IsFold("body", s, z, f)
  BY <1>1, FoldOfBodies
<1>5. PICK g : FoldLeft(WithCall, s, c) = g[DOMAIN c] /\ IsFold("body", s, c, g)
  BY <1>2, FoldOfBodies
<1>6. PICK h : FoldLeft(WithCall, s, d) = h[DOMAIN d] /\ IsFold("body", s, d, h)
  BY <1>3, FoldOfBodies
<1>7. f[DOMAIN z] = s
  BY <1>4, FoldOfNothing DEF z
<1>8. h[DOMAIN d] = Apply("body", g[DOMAIN c], e)
  BY <1>5, <1>6, FoldOfMore DEF d
<1> QED
  BY <1>4, <1>5, <1>6, <1>7, <1>8 DEF BodiesFold, z, d, Apply

-----------------------------------------------------------------------------
(* The Anthropic stream: what a client has assembled from its events.        *)

Blocks == [kind : {"text", "tool_use"}, text : Texts]
BlockOf(k, x) == [kind |-> k, text |-> x]

\* Truth values in fields: names, for the provers take TRUE for a formula.
Yes == TRUE
No == FALSE

\* A message in good order with the blocks B, of which those at O are open.
Wire(B, O, k) == [blocks |-> B, open |-> O, ok |-> k, reason |-> "none", stop |-> F!NoStop]
Message(B, O) == Wire(B, O, Yes)

\* The handler between two blocks, and in a text block that holds x.
Handler(w, i, o) == [wire |-> w, index |-> i, textOpen |-> o]
Shut(B) == Handler(Message(B, {}), Len(B), No)
Opened(B, x) == Handler(Message(Append(B, BlockOf("text", x)), {Len(B)}), Len(B), Yes)

LEMMA BlocksAre ==
  ASSUME NEW B \in Seq(Blocks), NEW b \in Blocks
  PROVE  /\ Append(B, b) \in Seq(Blocks) /\ Len(B) \in Nat /\ Len(Append(B, b)) = Len(B) + 1
         /\ Append(B, b)[Len(B) + 1] = b /\ Len(B) + 1 \in DOMAIN Append(B, b)
         /\ Append(B, b) # << >>
         /\ \A c \in Blocks : [Append(B, b) EXCEPT ![Len(B) + 1] = c] = Append(B, c)
<1>1. /\ Append(B, b) \in Seq(Blocks) /\ Len(B) \in Nat /\ Len(Append(B, b)) = Len(B) + 1
      /\ Append(B, b)[Len(B) + 1] = b
  OBVIOUS
<1>2. Len(B) + 1 \in DOMAIN Append(B, b)
  BY <1>1
<1>3. ASSUME NEW c \in Blocks
      PROVE  [Append(B, b) EXCEPT ![Len(B) + 1] = c] = Append(B, c)
  <2> DEFINE u == [Append(B, b) EXCEPT ![Len(B) + 1] = c]
             v == Append(B, c)
             a == Append(B, b)
             n == Len(B)
  <2>1. /\ a \in Seq(Blocks) /\ Len(a) = n + 1 /\ n \in Nat
        /\ \A i \in 1 .. n : a[i] = B[i]
    BY AppendProperties
  <2>2. /\ v \in Seq(Blocks) /\ Len(v) = n + 1
        /\ \A i \in 1 .. n : v[i] = B[i]
        /\ v[n + 1] = c
    BY AppendProperties
  <2> HIDE DEF v, a, n
  <2>3. u = [a EXCEPT ![n + 1] = c]
    BY DEF a, n
  <2> HIDE DEF u
  <2>4. u \in Seq(Blocks) /\ Len(u) = n + 1
    BY <2>1, <2>3
  <2>5. \A i \in 1 .. Len(u) : u[i] = v[i]
    BY <2>1, <2>2, <2>3, <2>4
  <2>6. u = v
    BY <2>2, <2>4, <2>5, SeqEqual
  <2> QED
    BY <2>6 DEF u, v
<1>4. Append(B, b) # << >>
  BY <1>1
<1> QED
  BY <1>1, <1>2, <1>3, <1>4

LEMMA OtherWires ==
  ASSUME NEW B, NEW O, NEW k, NEW v
  PROVE  /\ [Wire(B, O, k) EXCEPT !.blocks = v] = Wire(v, O, k)
         /\ [Wire(B, O, k) EXCEPT !.open = v] = Wire(B, v, k)
         /\ [Wire(B, O, k) EXCEPT !.ok = v] = Wire(B, O, v)
         /\ Wire(B, O, k).blocks = B /\ Wire(B, O, k).open = O /\ Wire(B, O, k).ok = k
BY DEF Wire

LEMMA OtherHandlers ==
  ASSUME NEW w, NEW i, NEW o, NEW v
  PROVE  /\ [Handler(w, i, o) EXCEPT !.wire = v] = Handler(v, i, o)
         /\ [Handler(w, i, o) EXCEPT !.index = v] = Handler(w, v, o)
         /\ [Handler(w, i, o) EXCEPT !.textOpen = v] = Handler(w, i, v)
         /\ Handler(w, i, o).wire = w /\ Handler(w, i, o).index = i
         /\ Handler(w, i, o).textOpen = o
BY DEF Handler

LEMMA BlockStartIs ==
  ASSUME NEW B \in Seq(Blocks), NEW b \in Blocks
  PROVE  BlockStart(Message(B, {}), Len(B), b) = Message(Append(B, b), {Len(B)})
<1> DEFINE w == Message(B, {})
           n == Len(B)
           d == Append(B, b)
           o == {n}
           k == w.ok /\ n = Len(w.blocks) /\ w.open = {}
<1>1. w.blocks = B /\ w.open = {} /\ w.ok = Yes
  BY OtherWires DEF Message
<1>2. k = Yes /\ {} \cup {n} = o
  BY <1>1 DEF Yes
<1>3. BlockStart(w, n, b) = [w EXCEPT !.ok = k, !.blocks = d, !.open = o]
  <2> HIDE DEF w, n
  <2> QED
    BY <1>1, <1>2 DEF BlockStart
<1> HIDE DEF d, n, k, o
<1>4. [w EXCEPT !.ok = k] = w
  BY <1>2, OtherWires DEF Message
<1>5. [w EXCEPT !.blocks = d] = Wire(d, {}, Yes)
  BY OtherWires DEF Message
<1>6. [Wire(d, {}, Yes) EXCEPT !.open = o] = Wire(d, o, Yes)
  BY OtherWires
<1> HIDE DEF w
<1> QED
  BY <1>3, <1>4, <1>5, <1>6, Zenon DEF Message, n, d, w, o

LEMMA BlockStopIs ==
  ASSUME NEW B \in Seq(Blocks), NEW n \in Nat
  PROVE  BlockStop(Message(B, {n}), n) = Message(B, {})
<1> DEFINE o == {n}
           w == Message(B, o)
           k == w.ok /\ n \in w.open
<1>1. w.open = o /\ w.ok = Yes
  <2> HIDE DEF o
  <2> QED
    BY OtherWires DEF Message
<1>2. k = Yes /\ o \ {n} = {}
  BY <1>1 DEF Yes
<1>3. BlockStop(w, n) = [w EXCEPT !.ok = k, !.open = {}]
  <2> HIDE DEF w
  <2> QED
    BY <1>1, <1>2 DEF BlockStop
<1> HIDE DEF k, o
<1>4. [w EXCEPT !.ok = k] = w
  BY <1>2, OtherWires DEF Message
<1>5. [w EXCEPT !.open = {}] = Wire(B, {}, Yes)
  BY OtherWires DEF Message
<1> HIDE DEF w
<1> QED
  BY <1>3, <1>4, <1>5, Zenon DEF Message, w, o

LEMMA BlockDeltaIs ==
  ASSUME NEW B \in Seq(Blocks), NEW q \in {"text", "tool_use"}, NEW x \in Texts, NEW t \in Texts
  PROVE  BlockDelta(Message(Append(B, BlockOf(q, x)), {Len(B)}), Len(B), t)
           = Message(Append(B, BlockOf(q, x \o t)), {Len(B)})
<1> DEFINE n == Len(B)
           b == BlockOf(q, x)
           c == BlockOf(q, x \o t)
           A == Append(B, b)
           d == Append(B, c)
           o == {n}
           w == Message(A, o)
           k == w.ok /\ n \in w.open
<1>1. b \in Blocks /\ c \in Blocks
  BY JoinedTexts DEF BlockOf, Blocks
<1>2. /\ A[n + 1] = b /\ n + 1 \in DOMAIN A
      /\ [A EXCEPT ![n + 1] = c] = d
  <2> HIDE DEF b, c
  <2> QED
    BY <1>1, BlocksAre
<1>3. w.open = o /\ w.ok = Yes /\ w.blocks = A
  <2> HIDE DEF o, A
  <2> QED
    BY OtherWires DEF Message
<1>4. k = Yes
  BY <1>3 DEF Yes
<1>5. Lengthened(A, n + 1, t) = d
  <2> DEFINE y == x \o t
  <2>1. b.text \o t = y
    BY DEF BlockOf
  <2>2. [b EXCEPT !.text = y] = c
    <3> HIDE DEF y
    <3>1. [b EXCEPT !.text = y] = BlockOf(q, y)
      BY DEF BlockOf
    <3> QED
      BY <3>1 DEF y
  <2> DEFINE e == [A[n + 1] EXCEPT !.text = A[n + 1].text \o t]
  <2>3. Lengthened(A, n + 1, t) = [A EXCEPT ![n + 1] = e]
    <3> HIDE DEF A, n
    <3> QED
      BY DEF Lengthened
  <2> HIDE DEF A, b, c, d, n, y
  <2>4. e = c
    BY <1>2, <2>1, <2>2
  <2> HIDE DEF e
  <2> QED
    BY <1>2, <2>3, <2>4
<1>6. BlockDelta(w, n, t) = [w EXCEPT !.ok = k, !.blocks = d]
  <2> HIDE DEF w, n, A, d
  <2> QED
    BY <1>2, <1>3, <1>5 DEF BlockDelta
<1> HIDE DEF k, d, A, n, o
<1>7. [w EXCEPT !.ok = k] = w
  BY <1>4, OtherWires DEF Message
<1>8. [w EXCEPT !.blocks = d] = Wire(d, o, Yes)
  BY OtherWires DEF Message
<1> HIDE DEF w
<1> QED
  BY <1>6, <1>7, <1>8, Zenon DEF Message, w, n, A, d, o

LEMMA ToldIs ==
  ASSUME NEW B \in Seq(Blocks), NEW x \in Texts
  PROVE  /\ TextOf(<< >>) = << >> /\ CallsOf(<< >>) = << >>
         /\ TextOf(Append(B, BlockOf("text", x))) = TextOf(B) \o x
         /\ CallsOf(Append(B, BlockOf("text", x))) = CallsOf(B)
         /\ TextOf(Append(B, BlockOf("tool_use", x))) = TextOf(B)
         /\ CallsOf(Append(B, BlockOf("tool_use", x))) = Append(CallsOf(B), x)
<1> DEFINE b == BlockOf("text", x)
           c == BlockOf("tool_use", x)
           e == << >>
<1>1. /\ b \in Blocks /\ b.kind = "text" /\ b.text = x
      /\ c \in Blocks /\ c.kind = "tool_use" /\ c.text = x
  BY DEF BlockOf, Blocks
<1> HIDE DEF b, c
<1>2. /\ FoldLeft(WithText, e, e) = e
      /\ FoldLeft(WithText, e, Append(B, b)) = WithText(FoldLeft(WithText, e, B), b)
      /\ FoldLeft(WithText, e, Append(B, c)) = WithText(FoldLeft(WithText, e, B), c)
  <2>1. TextsFold(e, B, b) /\ TextsFold(e, B, c)
    BY <1>1, TextsOneByOne
  <2> QED
    BY <2>1 DEF TextsFold
<1>3. /\ FoldLeft(WithCall, e, e) = e
      /\ FoldLeft(WithCall, e, Append(B, b)) = WithCall(FoldLeft(WithCall, e, B), b)
      /\ FoldLeft(WithCall, e, Append(B, c)) = WithCall(FoldLeft(WithCall, e, B), c)
  <2>1. BodiesFold(e, B, b) /\ BodiesFold(e, B, c)
    BY <1>1, BodiesOneByOne
  <2> QED
    BY <2>1 DEF BodiesFold
<1>4. /\ TextOf(e) = e /\ CallsOf(e) = e
      /\ TextOf(Append(B, b)) = WithText(TextOf(B), b)
      /\ TextOf(Append(B, c)) = WithText(TextOf(B), c)
      /\ CallsOf(Append(B, b)) = WithCall(CallsOf(B), b)
      /\ CallsOf(Append(B, c)) = WithCall(CallsOf(B), c)
  BY <1>2, <1>3, Zenon DEF TextOf, CallsOf
<1> QED
  BY <1>1, <1>4 DEF WithText, WithCall, b, c

\* Handlers between two blocks, and in a text block, that have sent the text T
\* and the calls C.
ShutAt(h, T, C) == \E B \in Seq(Blocks) : h = Shut(B) /\ T = TextOf(B) /\ C = CallsOf(B)
OpenAt(h, T, C) ==
  \E B \in Seq(Blocks), x, y \in Texts :
    h = Opened(B, x) /\ y = TextOf(B) /\ T = y \o x /\ C = CallsOf(B)

Sent(h, T, C) == /\ T \in Texts /\ C \in Seq(Texts)
                 /\ ShutAt(h, T, C) \/ OpenAt(h, T, C)

LEMMA HandlersAre ==
  ASSUME NEW B, NEW x
  PROVE  /\ Shut(B).wire = Message(B, {}) /\ Shut(B).index = Len(B) /\ Shut(B).textOpen = FALSE
         /\ Opened(B, x).wire = Message(Append(B, BlockOf("text", x)), {Len(B)})
         /\ Opened(B, x).index = Len(B) /\ Opened(B, x).textOpen = TRUE
BY DEF Shut, Opened, Handler, Yes, No

LEMMA TextIsSent ==
  ASSUME NEW h, NEW T, NEW C, Sent(h, T, C), NEW t \in Texts
  PROVE  Sent(TextSent(h, t), T \o t, C)
<1>1. T \in Texts /\ C \in Seq(Texts) /\ T \o t \in Texts
  BY JoinedTexts DEF Sent
<1>2. CASE t = << >>
  BY <1>1, <1>2, EmptyText DEF TextSent
<1>3. CASE t # << >> /\ ShutAt(h, T, C)
  <2>1. PICK B \in Seq(Blocks) : h = Shut(B) /\ T = TextOf(B) /\ C = CallsOf(B)
    BY <1>3 DEF ShutAt
  <2> DEFINE e == << >>
             w == BlockStart(Message(B, {}), Len(B), BlockOf("text", e))
  <2>2. e \in Texts /\ e \o t = t
    BY EmptyText
  <2>3. w = Message(Append(B, BlockOf("text", e)), {Len(B)})
    <3>1. BlockOf("text", e) \in Blocks
      BY <2>2 DEF BlockOf, Blocks
    <3> QED
      BY <3>1, BlockStartIs
  <2>4. TextSent(h, t) = [h EXCEPT !.wire = BlockDelta(w, h.index, t), !.textOpen = Yes]
    <3>1. /\ h.wire = Message(B, {}) /\ h.index = Len(B) /\ h.textOpen = FALSE
      BY <2>1, HandlersAre
    <3>2. EmptyBlock("text") = BlockOf("text", e)
      BY DEF EmptyBlock, BlockOf
    <3> QED
      BY <1>3, <3>1, <3>2 DEF TextSent, Yes
  <2>5. BlockDelta(w, h.index, t) = Message(Append(B, BlockOf("text", t)), {Len(B)})
    <3>1. h.index = Len(B)
      BY <2>1, HandlersAre
    <3> HIDE DEF w, e
    <3>2. BlockDelta(Message(Append(B, BlockOf("text", e)), {Len(B)}), Len(B), t)
            = Message(Append(B, BlockOf("text", e \o t)), {Len(B)})
      BY <2>2, BlockDeltaIs
    <3> QED
      BY <2>2, <2>3, <3>1, <3>2
  <2>6. TextSent(h, t) = Opened(B, t)
    <3> DEFINE d == BlockDelta(w, h.index, t)
               m == Message(Append(B, BlockOf("text", t)), {Len(B)})
    <3> HIDE DEF d, m
    <3>1. TextSent(h, t) = [h EXCEPT !.wire = m, !.textOpen = Yes]
      BY <2>4, <2>5 DEF d, m
    <3> DEFINE n == Len(B)
               v == Message(B, {})
    <3> HIDE DEF n, v
    <3>2. h = Handler(v, n, No)
      BY <2>1 DEF Shut, n, v
    <3>3. /\ [Handler(v, n, No) EXCEPT !.wire = m] = Handler(m, n, No)
          /\ [Handler(m, n, No) EXCEPT !.textOpen = Yes] = Handler(m, n, Yes)
      BY OtherHandlers
    <3>4. TextSent(h, t) = Handler(m, n, Yes)
      BY <3>1, <3>2, <3>3, Zenon
    <3> QED
      BY <3>4 DEF m, n, Opened
  <2>7. OpenAt(TextSent(h, t), T \o t, C)
    BY <1>1, <2>1, <2>6 DEF OpenAt
  <2> QED
    BY <1>1, <2>7 DEF Sent
<1>4. CASE t # << >> /\ OpenAt(h, T, C)
  <2>1. PICK B \in Seq(Blocks), x, y \in Texts :
             h = Opened(B, x) /\ y = TextOf(B) /\ T = y \o x /\ C = CallsOf(B)
    BY <1>4 DEF OpenAt
  <2> DEFINE m == Message(Append(B, BlockOf("text", x \o t)), {Len(B)})
  <2>2. x \o t \in Texts /\ T \o t = y \o (x \o t)
    BY <2>1, JoinedTexts, TextsAssociate
  <2>3. /\ h.wire = Message(Append(B, BlockOf("text", x)), {Len(B)})
        /\ h.index = Len(B) /\ h.textOpen = TRUE
    BY <2>1, HandlersAre
  <2>4. BlockDelta(h.wire, h.index, t) = m
    <3>1. BlockDelta(Message(Append(B, BlockOf("text", x)), {Len(B)}), Len(B), t) = m
      BY BlockDeltaIs
    <3> QED
      BY <2>3, <3>1
  <2>5. TextSent(h, t) = [h EXCEPT !.wire = BlockDelta(h.wire, h.index, t), !.textOpen = Yes]
    BY <1>4, <2>3 DEF TextSent, Yes
  <2>6. TextSent(h, t) = Opened(B, x \o t)
    <3> HIDE DEF m
    <3>1. TextSent(h, t) = [h EXCEPT !.wire = m, !.textOpen = Yes]
      BY <2>4, <2>5
    <3> DEFINE n == Len(B)
               v == Message(Append(B, BlockOf("text", x)), {Len(B)})
    <3> HIDE DEF n, v
    <3>2. h = Handler(v, n, Yes)
      BY <2>1 DEF Opened, n, v
    <3>3. /\ [Handler(v, n, Yes) EXCEPT !.wire = m] = Handler(m, n, Yes)
          /\ [Handler(m, n, Yes) EXCEPT !.textOpen = Yes] = Handler(m, n, Yes)
      BY OtherHandlers
    <3>4. TextSent(h, t) = Handler(m, n, Yes)
      BY <3>1, <3>2, <3>3, Zenon
    <3> QED
      BY <3>4 DEF m, n, Opened
  <2>7. OpenAt(TextSent(h, t), T \o t, C)
    BY <2>1, <2>2, <2>6 DEF OpenAt
  <2> QED
    BY <1>1, <2>7 DEF Sent
<1> QED
  BY <1>2, <1>3, <1>4 DEF Sent

LEMMA TextIsClosed ==
  ASSUME NEW h, NEW T, NEW C, Sent(h, T, C)
  PROVE  ShutAt(TextClosed(h), T, C) /\ T \in Texts /\ C \in Seq(Texts)
<1>1. CASE ShutAt(h, T, C)
  <2>1. h.textOpen = FALSE
    BY <1>1, HandlersAre DEF ShutAt
  <2> QED
    BY <1>1, <2>1 DEF TextClosed, Sent
<1>2. CASE OpenAt(h, T, C)
  <2>1. PICK B \in Seq(Blocks), x, y \in Texts :
             h = Opened(B, x) /\ y = TextOf(B) /\ T = y \o x /\ C = CallsOf(B)
    BY <1>2 DEF OpenAt
  <2> DEFINE A == Append(B, BlockOf("text", x))
  <2>2. A \in Seq(Blocks) /\ Len(A) = Len(B) + 1 /\ Len(B) \in Nat
    <3>1. BlockOf("text", x) \in Blocks
      BY DEF BlockOf, Blocks
    <3> QED
      BY <3>1, BlocksAre
  <2>3. /\ h.wire = Message(A, {Len(B)}) /\ h.index = Len(B) /\ h.textOpen = TRUE
    BY <2>1, HandlersAre
  <2>4. TextOf(A) = T /\ CallsOf(A) = C
    BY <2>1, ToldIs
  <2> HIDE DEF A
  <2>5. BlockStop(h.wire, h.index) = Message(A, {})
    <3>1. BlockStop(Message(A, {Len(B)}), Len(B)) = Message(A, {})
      BY <2>2, BlockStopIs
    <3> QED
      BY <2>3, <3>1
  <2>6. TextClosed(h) = Shut(A)
    BY <2>2, <2>3, <2>5 DEF TextClosed, Shut, Handler, No
  <2> QED
    BY <2>2, <2>4, <2>6 DEF ShutAt, Sent
<1> QED
  BY <1>1, <1>2 DEF Sent

LEMMA CallIsSent ==
  ASSUME NEW h, NEW T, NEW C, Sent(h, T, C), NEW x \in Texts
  PROVE  ShutAt(CallSent(h, x), T, Append(C, x)) /\ Sent(CallSent(h, x), T, Append(C, x))
<1>1. ShutAt(TextClosed(h), T, C) /\ T \in Texts /\ C \in Seq(Texts) /\ Append(C, x) \in Seq(Texts)
  BY TextIsClosed, CallAppended
<1> DEFINE s == TextClosed(h)
<1>2. PICK B \in Seq(Blocks) : s = Shut(B) /\ T = TextOf(B) /\ C = CallsOf(B)
  BY <1>1 DEF ShutAt
<1> DEFINE e == << >>
           A == Append(B, BlockOf("tool_use", x))
           w == BlockStart(s.wire, s.index, EmptyBlock("tool_use"))
           m == BlockStop(BlockDelta(w, s.index, x), s.index)
<1>3. A \in Seq(Blocks) /\ Len(A) = Len(B) + 1 /\ Len(B) \in Nat
  <2>1. BlockOf("tool_use", x) \in Blocks
    BY DEF BlockOf, Blocks
  <2> QED
    BY <2>1, BlocksAre
<1>4. TextOf(A) = T /\ CallsOf(A) = Append(C, x)
  BY <1>2, ToldIs
<1>5. s.wire = Message(B, {}) /\ s.index = Len(B) /\ s.textOpen = FALSE
  BY <1>2, HandlersAre
<1>6. CallSent(h, x) = [s EXCEPT !.wire = m, !.index = @ + 1]
  BY Zenon DEF CallSent
<1>7. m = Message(A, {})
  <2>1. EmptyBlock("tool_use") = BlockOf("tool_use", e) /\ e \in Texts /\ e \o x = x
    BY EmptyText DEF EmptyBlock, BlockOf
  <2>2. BlockOf("tool_use", e) \in Blocks
    BY <2>1 DEF BlockOf, Blocks
  <2> HIDE DEF e, s
  <2>3. w = Message(Append(B, BlockOf("tool_use", e)), {Len(B)})
    BY <1>5, <2>1, <2>2, BlockStartIs
  <2> HIDE DEF w
  <2>4. BlockDelta(Message(Append(B, BlockOf("tool_use", e)), {Len(B)}), Len(B), x)
          = Message(Append(B, BlockOf("tool_use", e \o x)), {Len(B)})
    BY <2>1, BlockDeltaIs
  <2>5. BlockDelta(w, s.index, x) = Message(A, {Len(B)})
    BY <1>5, <2>1, <2>3, <2>4
  <2> HIDE DEF A
  <2>6. BlockStop(Message(A, {Len(B)}), Len(B)) = Message(A, {})
    BY <1>3, BlockStopIs
  <2> QED
    BY <1>5, <2>5, <2>6
<1>8. CallSent(h, x) = Shut(A)
  <2> DEFINE n == Len(B)
             k == n + 1
             v == Message(B, {})
             q == Message(A, {})
  <2> HIDE DEF m, A, n, v, k, q
  <2>1. s = Handler(v, n, No) /\ s.index + 1 = k /\ m = q
    BY <1>2, <1>5, <1>7 DEF Shut, n, v, k, q
  <2> HIDE DEF s
  <2>2. CallSent(h, x) = [s EXCEPT !.wire = q, !.index = k]
    BY <1>6, <2>1
  <2>3. /\ [Handler(v, n, No) EXCEPT !.wire = q] = Handler(q, n, No)
        /\ [Handler(q, n, No) EXCEPT !.index = k] = Handler(q, k, No)
    BY OtherHandlers
  <2>4. CallSent(h, x) = Handler(q, k, No)
    BY <2>1, <2>2, <2>3, Zenon
  <2> QED
    BY <1>3, <2>4 DEF Shut, n, k, q
<1> HIDE DEF A
<1>9. ShutAt(CallSent(h, x), T, Append(C, x))
  BY <1>3, <1>4, <1>8 DEF ShutAt
<1> QED
  BY <1>1, <1>9 DEF Sent

\* A sequence grows to its next element.
LEMMA UptoNext ==
  ASSUME NEW S, NEW c \in Seq(S), NEW m \in Nat, m + 1 <= Len(c)
  PROVE  /\ Upto(c, m) \in Seq(S) /\ c[m + 1] \in S
         /\ Upto(c, m + 1) = Append(Upto(c, m), c[m + 1])
<1>1. Len(c) \in Nat /\ m \in 0 .. Len(c) /\ m + 1 \in 0 .. Len(c) /\ m + 1 \in 1 .. Len(c)
  OBVIOUS
<1> DEFINE u == Upto(c, m)
           v == Upto(c, m + 1)
           w == Append(u, c[m + 1])
<1>2. /\ u \in Seq(S) /\ Len(u) = m /\ \A i \in 1 .. m : u[i] = c[i]
      /\ v \in Seq(S) /\ Len(v) = m + 1 /\ \A i \in 1 .. m + 1 : v[i] = c[i]
  BY <1>1, UptoProperties
<1>3. c[m + 1] \in S
  BY <1>1
<1> HIDE DEF u, v
<1>4. w \in Seq(S) /\ Len(w) = m + 1 /\ (\A i \in 1 .. m : w[i] = c[i]) /\ w[m + 1] = c[m + 1]
  BY <1>2, <1>3
<1> HIDE DEF w
<1>5. \A i \in 1 .. Len(v) : v[i] = w[i]
  BY <1>2, <1>4
<1>6. v = w
  BY <1>2, <1>4, <1>5, SeqEqual
<1> QED
  BY <1>2, <1>3, <1>6 DEF u, v, w

LEMMA UptoEnds ==
  ASSUME NEW S, NEW c \in Seq(S)
  PROVE  Upto(c, 0) = << >> /\ Upto(c, Len(c)) = c
<1>1. Len(c) \in Nat /\ 0 \in 0 .. Len(c) /\ Len(c) \in 0 .. Len(c)
  OBVIOUS
<1> DEFINE u == Upto(c, 0)
           v == Upto(c, Len(c))
<1>2. /\ u \in Seq(S) /\ Len(u) = 0
      /\ v \in Seq(S) /\ Len(v) = Len(c) /\ \A i \in 1 .. Len(c) : v[i] = c[i]
  BY <1>1, UptoProperties
<1> HIDE DEF u, v
<1>3. u = << >>
  BY <1>2
<1>4. v = c
  BY <1>2, SeqEqual
<1> QED
  BY <1>3, <1>4 DEF u, v

\* Handlers after the calls c; one between blocks stays there.
SentAfter(h, T, C, c) ==
  /\ Sent(CallsSent(h, c), T, C \o c)
  /\ ShutAt(h, T, C) => ShutAt(CallsSent(h, c), T, C \o c)

LEMMA CallsAreSent ==
  ASSUME NEW h, NEW T, NEW C, Sent(h, T, C), NEW c \in Seq(Texts)
  PROVE  SentAfter(h, T, C, c)
<1> DEFINE B == {m \in Nat : m <= Len(c) /\ ~SentAfter(h, T, C, Upto(c, m))}
<1>1. C \in Seq(Texts) /\ Len(c) \in Nat
  BY DEF Sent
<1>2. SentAfter(h, T, C, << >>)
  <2>1. C \o << >> = C
    BY <1>1, JoinedCalls
  <2> DEFINE e == << >>
  <2>2. e \in Seq(Texts) /\ e \in Texts
    BY EmptyText
  <2>3. CallsSent(h, << >>) = h
    <3>1. CallsFold(h, e, e)
      BY <2>2, CallsOneByOne
    <3> QED
      BY <3>1, Zenon DEF CallsFold, CallsSent
  <2> QED
    BY <2>1, <2>3 DEF SentAfter
<1>3. ASSUME NEW m \in Nat, m + 1 <= Len(c), SentAfter(h, T, C, Upto(c, m))
      PROVE  SentAfter(h, T, C, Upto(c, m + 1))
  <2> DEFINE u == Upto(c, m)
             e == c[m + 1]
             w == Append(u, e)
  <2>1. u \in Seq(Texts) /\ e \in Texts /\ Upto(c, m + 1) = w
    BY <1>3, UptoNext
  <2>2. SentAfter(h, T, C, u)
    BY <1>3
  <2> HIDE DEF u, e
  <2>3. CallsSent(h, w) = CallSent(CallsSent(h, u), e)
    <3>1. FoldLeft(CallSent, h, w) = CallSent(FoldLeft(CallSent, h, u), e)
      <4>1. CallsFold(h, u, e)
        BY <2>1, CallsOneByOne
      <4> QED
        BY <4>1 DEF CallsFold, w
    <3> QED
      BY <3>1, Zenon DEF CallsSent
  <2>4. C \o w = Append(C \o u, e)
    <3> DEFINE f == <<e>>
    <3>1. w = u \o f /\ f \in Seq(Texts)
      BY <2>1, CallAppended
    <3>2. C \o u \in Seq(Texts)
      BY <1>1, <2>1, JoinedCalls
    <3>3. Append(C \o u, e) = (C \o u) \o f
      BY <2>1, <3>2, CallAppended
    <3> HIDE DEF f, w
    <3>5. JoinsAlike(C, u, f)
      BY <1>1, <2>1, <3>1, CallsJoinAlike
    <3>4. (C \o u) \o f = C \o (u \o f)
      BY <3>5 DEF JoinsAlike
    <3> QED
      BY <3>1, <3>3, <3>4
  <2>5. Sent(CallsSent(h, u), T, C \o u)
    BY <2>2 DEF SentAfter
  <2> DEFINE s == CallsSent(h, u)
             D == C \o u
  <2> HIDE DEF s, D
  <2>6. Sent(s, T, D)
    BY <2>5 DEF s, D
  <2>7. ShutAt(CallSent(s, e), T, Append(D, e)) /\ Sent(CallSent(s, e), T, Append(D, e))
    BY <2>1, <2>6, CallIsSent
  <2> HIDE DEF w
  <2>8. SentAfter(h, T, C, w)
    BY <2>3, <2>4, <2>7 DEF SentAfter, s, D
  <2> QED
    BY <2>1, <2>8
<1>4. Upto(c, 0) = << >> /\ Upto(c, Len(c)) = c
  BY UptoEnds
<1>5. B = {}
  <2>1. B \subseteq Nat /\ 0 \notin B
    BY <1>2, <1>4
  <2>2. \A m \in Nat : m \notin B => m + 1 \notin B
    BY <1>1, <1>3
  <2> HIDE DEF B
  <2> QED
    BY <2>1, <2>2, NoCounterexample
<1> QED
  BY <1>1, <1>4, <1>5

\* The last events: a message with at least one block, and none open, that holds
\* the text T and the calls C.
Complete(w, T, C) ==
  \E B \in Seq(Blocks) : w = Message(B, {}) /\ B # << >> /\ T = TextOf(B) /\ C = CallsOf(B)

LEMMA OneBlockIsSent ==
  ASSUME NEW h, NEW T, NEW C \in Seq(Texts), ShutAt(h, T, C), NEW n, n = Len(C)
  PROVE  LET s == AtLeastOneBlock(h, n)
         IN  Complete(s.wire, T, C) /\ s.index \in Nat /\ s.textOpen = No
<1> DEFINE s == AtLeastOneBlock(h, n)
           e == << >>
<1>1. PICK B \in Seq(Blocks) : h = Shut(B) /\ T = TextOf(B) /\ C = CallsOf(B)
  BY DEF ShutAt
<1>2. /\ h.wire = Message(B, {}) /\ h.index = Len(B) /\ h.textOpen = No
      /\ Len(B) \in Nat
  BY <1>1, OtherHandlers DEF Shut
<1>3. CASE Len(B) # 0
  <2>1. s = h
    BY <1>2, <1>3 DEF AtLeastOneBlock
  <2>2. B # << >>
    BY <1>3
  <2> HIDE DEF s
  <2> QED
    BY <1>1, <1>2, <2>1, <2>2 DEF Complete, s
<1>4. CASE Len(B) = 0
  <2>1. B = e /\ e \in Texts /\ e \o e = e /\ Len(e) = 0
    BY <1>4, EmptyText
  <2> DEFINE b == BlockOf("text", e)
             A == Append(B, b)
  <2>2. TextOf(e) = e /\ CallsOf(e) = e /\ TextOf(A) = TextOf(B) \o e /\ CallsOf(A) = CallsOf(B)
    BY <2>1, ToldIs
  <2>3. T = e /\ C = e /\ n = 0 /\ TextOf(A) = T /\ CallsOf(A) = C
    BY <1>1, <2>1, <2>2
  <2>4. EmptyBlock("text") = b /\ b \in Blocks
    BY <2>1 DEF EmptyBlock, BlockOf, Blocks
  <2> HIDE DEF b, e
  <2>5. A \in Seq(Blocks) /\ A # << >>
    BY <2>4, BlocksAre
  <2> DEFINE v == BlockStop(BlockStart(h.wire, 0, b), 0)
  <2>6. v = Message(A, {})
    <3>1. BlockStart(Message(B, {}), Len(B), b) = Message(A, {Len(B)})
      BY <2>4, BlockStartIs
    <3> HIDE DEF A
    <3>2. BlockStop(Message(A, {0}), 0) = Message(A, {})
      BY <2>5, BlockStopIs
    <3> QED
      BY <1>2, <1>4, <3>1, <3>2
  <2> HIDE DEF A
  <2>7. s = [h EXCEPT !.wire = v]
    BY <1>2, <1>4, <2>3, <2>4 DEF AtLeastOneBlock
  <2> DEFINE m == Message(B, {})
             k == Len(B)
  <2> HIDE DEF s, v, m, k
  <2>8. [Handler(m, k, No) EXCEPT !.wire = v] = Handler(v, k, No)
    BY OtherHandlers
  <2>9. s = Handler(v, k, No)
    BY <1>1, <2>7, <2>8 DEF Shut, m, k
  <2>10. s.wire = v /\ s.index = k /\ s.textOpen = No
    BY <2>9, OtherHandlers
  <2> QED
    BY <1>2, <2>3, <2>5, <2>6, <2>10 DEF Complete, s, k
<1> QED
  BY <1>2, <1>3, <1>4

LEMMA HandlerOf ==
  ASSUME NEW h, NEW T, NEW C, Sent(h, T, C)
  PROVE  /\ h = Handler(h.wire, h.index, h.textOpen)
         /\ h.index \in Nat /\ h.textOpen \in BOOLEAN
         /\ T \in Texts /\ C \in Seq(Texts)
<1>1. \E w : \E n \in Nat, o \in BOOLEAN : h = Handler(w, n, o)
  <2>1. CASE ShutAt(h, T, C)
    <3>1. PICK B \in Seq(Blocks) : h = Shut(B)
      BY <2>1 DEF ShutAt
    <3>2. h = Handler(Message(B, {}), Len(B), No) /\ Len(B) \in Nat /\ No \in BOOLEAN
      BY <3>1 DEF Shut, No
    <3> QED
      BY <3>2, Zenon
  <2>2. CASE OpenAt(h, T, C)
    <3>1. PICK B \in Seq(Blocks), x \in Texts : h = Opened(B, x)
      BY <2>2 DEF OpenAt
    <3>2. /\ h = Handler(Message(Append(B, BlockOf("text", x)), {Len(B)}), Len(B), Yes)
          /\ Len(B) \in Nat /\ Yes \in BOOLEAN
      BY <3>1 DEF Opened, Yes
    <3> QED
      BY <3>2, Zenon
  <2> QED
    BY <2>1, <2>2 DEF Sent
<1>2. PICK w : \E n \in Nat, o \in BOOLEAN : h = Handler(w, n, o)
  BY <1>1
<1>3. PICK n \in Nat, o \in BOOLEAN : h = Handler(w, n, o)
  BY <1>2
<1>4. h.wire = w /\ h.index = n /\ h.textOpen = o
  BY <1>3, OtherHandlers
<1> QED
  BY <1>3, <1>4 DEF Sent

\* Behind the last output: the end of the text and the last calls, then the end
\* of the message.
TailEnds(tail, T, C) ==
  /\ Complete(tail.s.wire, T, C) /\ tail.nCalls = Len(C)
  /\ tail.s.index \in Nat /\ tail.s.textOpen = No

LEMMA TailIs ==
  ASSUME request.parsing \in BOOLEAN, NEW s, NEW T, NEW C, Sent(s, T, C),
         NEW p \in Parsers, p.nCalls = Len(C), NEW filter, F!Flush(filter) \in Texts
  PROVE  LET a == Feed(request.parsing, p, F!Flush(filter))
         IN  TailEnds(TailSent(s, p, filter),
                      T \o (a.text \o Drain(request.parsing, a.parser)), C \o a.calls)
<1> DEFINE a == Feed(request.parsing, p, F!Flush(filter))
           x == a.text \o Drain(request.parsing, a.parser)
           t == CallsSent(TextClosed(TextSent(s, x)), a.calls)
           n == a.parser.nCalls
           r == AtLeastOneBlock(t, n)
           D == C \o a.calls
           X == T \o x
<1>1. /\ a.parser \in Parsers /\ a.text \in Texts /\ a.calls \in Seq(Texts)
      /\ n = p.nCalls + Len(a.calls)
  BY FeedIs
<1>2. TailSent(s, p, filter) = [s |-> r, nCalls |-> n]
  <2>1. ParserPush(p, F!Flush(filter)) = a
    BY DEF ParserPush, Feed
  <2>2. ParserFlush(a.parser) = Drain(request.parsing, a.parser)
    BY DEF ParserFlush, Drain
  <2> HIDE DEF a
  <2> QED
    BY <2>1, <2>2, Zenon DEF TailSent
<1> HIDE DEF a
<1>3. Drain(request.parsing, a.parser) \in Texts
  BY <1>1, DrainIs
<1>4. x \in Texts
  BY <1>1, <1>3, JoinedTexts
<1>5. C \in Seq(Texts) /\ D \in Seq(Texts) /\ n = Len(D)
  <2>1. C \in Seq(Texts)
    BY DEF Sent
  <2> QED
    BY <1>1, <2>1, JoinedCalls
<1> HIDE DEF x, n
<1>6. Sent(TextSent(s, x), X, C)
  BY <1>4, TextIsSent
<1> HIDE DEF X
<1>7. ShutAt(TextClosed(TextSent(s, x)), X, C) /\ X \in Texts
  <2> DEFINE h == TextSent(s, x)
  <2> HIDE DEF h
  <2>1. Sent(h, X, C)
    BY <1>6 DEF h
  <2> QED
    BY <2>1, TextIsClosed DEF h
<1>8. ShutAt(t, X, D)
  <2> DEFINE h == TextClosed(TextSent(s, x))
             c == a.calls
  <2> HIDE DEF h, c
  <2>1. Sent(h, X, C) /\ c \in Seq(Texts)
    BY <1>1, <1>5, <1>7 DEF Sent, h, c
  <2>2. SentAfter(h, X, C, c)
    BY <2>1, CallsAreSent
  <2> QED
    BY <1>7, <2>2 DEF SentAfter, h, c
<1> HIDE DEF t, D
<1>9. Complete(r.wire, X, D) /\ r.index \in Nat /\ r.textOpen = No
  BY <1>5, <1>8, OneBlockIsSent
<1> HIDE DEF r
<1>10. TailEnds([s |-> r, nCalls |-> n], X, D)
  BY <1>5, <1>9 DEF TailEnds
<1> QED
  BY <1>2, <1>10 DEF x, X, D, a

\* The message that ends holds the text T and the calls C, and tells of calls and
\* of a stop sequence that comes behind t in all.
Concludes(m, T, C, t, all) ==
  \E w, why, stop :
    /\ Complete(w, T, C)
    /\ m = [w EXCEPT !.reason = why, !.stop = stop]
    /\ why = "tool_use" <=> C # << >>
    /\ stop # F!NoStop => why = "stop_sequence" /\ IsPrefix(t \o stop, all)

LEMMA EndIsSent ==
  ASSUME NEW tail, NEW T, NEW C \in Seq(Texts), TailEnds(tail, T, C), NEW reason, NEW filter,
         NEW t, NEW all, filter.matched # F!NoStop => IsPrefix(t \o filter.matched, all)
  PROVE  Concludes(MessageEnded(tail, reason, filter), T, C, t, all)
<1> DEFINE why == IF tail.nCalls > 0 THEN "tool_use" ELSE AnthropicReason(reason)
           stop == IF why = "stop_sequence" THEN filter.matched ELSE F!NoStop
           w == tail.s.wire
<1>1. MessageEnded(tail, reason, filter) = [w EXCEPT !.reason = why, !.stop = stop]
  BY Zenon DEF MessageEnded
<1>2. Complete(w, T, C) /\ tail.nCalls = Len(C)
  BY DEF TailEnds
<1>3. tail.nCalls > 0 <=> C # << >>
  BY <1>2, JoinedCalls
<1>4. AnthropicReason(reason) # "tool_use"
  BY DEF AnthropicReason
<1>5. why = "tool_use" <=> C # << >>
  BY <1>3, <1>4
<1>6. stop # F!NoStop => why = "stop_sequence" /\ IsPrefix(t \o stop, all)
  OBVIOUS
<1> HIDE DEF why, stop, w
<1> QED
  BY <1>1, <1>2, <1>5, <1>6, Zenon DEF Concludes

\* While outputs are read, the blocks hold what the frames of the other stream
\* do, and behind the last one all of the answer.
Streamed ==
  /\ Len(said) <= MaxText
  /\ index \in Nat /\ textOpen \in BOOLEAN
  /\ ~Ended => Sent(Current, chat.content, chat.calls)
  /\ Ended => /\ textOpen = No
              /\ LET body == Body(request.parsing, raw)
                 IN  Concludes(wire, body.content, body.calls, raw, said)

LEMMA StreamedInit ==
  Init => Streamed
<1> SUFFICES ASSUME Init PROVE Streamed
  OBVIOUS
<1> DEFINE e == << >>
<1>1. /\ said = e /\ chat = [content |-> e, calls |-> e, reason |-> "none"]
      /\ wire = [blocks |-> e, open |-> {}, ok |-> TRUE, reason |-> "none", stop |-> F!NoStop]
      /\ index = 0 /\ textOpen = FALSE /\ phase = "reading"
  BY DEF Init
<1>2. Current = Shut(e)
  <2>1. Len(e) = 0
    OBVIOUS
  <2>2. wire = Message(e, {}) /\ textOpen = No
    BY <1>1 DEF Message, Wire, Yes, No
  <2> QED
    BY <1>1, <2>1, <2>2 DEF Current, Shut, Handler
<1>3. /\ e \in Seq(Blocks) /\ e \in Texts /\ e \in Seq(Texts)
      /\ e = TextOf(e) /\ e = CallsOf(e)
  <2>1. e \in Seq(Blocks) /\ e \in Texts /\ e \in Seq(Texts)
    BY EmptyText, EmptySeq
  <2> QED
    BY <2>1, ToldIs
<1>4. Sent(Current, e, e)
  <2>1. ShutAt(Current, e, e)
    BY <1>2, <1>3 DEF ShutAt
  <2> QED
    BY <1>3, <2>1 DEF Sent
<1>5. chat.content = e /\ chat.calls = e /\ Len(said) = 0 /\ ~Ended
  BY <1>1 DEF Ended
<1>6. MaxText \in Nat
  BY RepliesAssumption
<1>7. index \in Nat /\ textOpen \in BOOLEAN
  BY <1>1
<1> HIDE DEF e
<1> QED
  BY <1>4, <1>5, <1>6, <1>7 DEF Streamed

\* One output, sent to both clients.
LEMMA OutputIsSent ==
  ASSUME Filtered, Assembled, Streamed, phase = "reading", NEW t \in Texts
  PROVE  LET a == Feed(request.parsing, parser, t)
         IN  /\ GoesOn(request.parsing, raw \o t, chat, a)
             /\ Sent(CallsSent(TextSent(Current, a.text), a.calls),
                     chat.content \o a.text, chat.calls \o a.calls)
<1> DEFINE parsing == request.parsing
           a == Feed(parsing, parser, t)
           x == chat.content
           c == chat.calls
<1>1. parsing \in BOOLEAN /\ raw \in Texts
  BY StopsAre DEF Filtered
<1>2. Holds(parsing, raw, parser, chat) /\ Sent(Current, x, c)
  BY DEF Assembled, Streamed, Ended
<1> HIDE DEF parsing
<1>3. GoesOn(parsing, raw \o t, chat, a)
  BY <1>1, <1>2, HoldsMore
<1> HIDE DEF a
<1> DEFINE u == a.text
           d == a.calls
           s == TextSent(Current, u)
           y == x \o u
<1>4. u \in Texts /\ d \in Seq(Texts)
  BY <1>3 DEF GoesOn
<1> HIDE DEF u, d, x, c
<1>5. Sent(s, y, c)
  BY <1>2, <1>4, TextIsSent
<1> HIDE DEF s, y
<1>6. SentAfter(s, y, c, d)
  BY <1>4, <1>5, CallsAreSent
<1> QED
  BY <1>3, <1>6 DEF SentAfter, a, parsing, u, d, s, y, x, c

\* If until then all was sent of the text t, the tail makes it the whole answer.
LEMMA TailIsTheRest ==
  ASSUME request.parsing \in BOOLEAN, NEW t \in Texts, NEW filter, F!Flush(filter) \in Texts,
         NEW s, NEW p, NEW T, NEW C, Sent(s, T, C),
         Holds(request.parsing, t, p, [content |-> T, calls |-> C])
  PROVE  LET body == Body(request.parsing, t \o F!Flush(filter))
         IN  TailEnds(TailSent(s, p, filter), body.content, body.calls) /\ body.calls \in Seq(Texts)
<1> DEFINE parsing == request.parsing
           v == F!Flush(filter)
           c == [content |-> T, calls |-> C]
           a == Feed(parsing, p, v)
           z == Drain(parsing, a.parser)
           body == Body(parsing, t \o v)
           w == Whole(parsing, t \o v)
<1>1. c.content = T /\ c.calls = C /\ T \in Texts /\ C \in Seq(Texts)
  BY DEF Sent
<1>2. p \in Parsers /\ p.nCalls = Len(C)
  <2> DEFINE b == Whole(parsing, t)
  <2>1. b.parser \in Parsers /\ b.parser.nCalls = Len(b.calls)
    BY WholeIs
  <2>2. p = b.parser /\ C = b.calls
    BY <1>1 DEF Holds
  <2> HIDE DEF b
  <2> QED
    BY <2>1, <2>2
<1> HIDE DEF c, v
<1>3. v \in Texts /\ t \o v \in Texts
  BY JoinedTexts DEF v
<1>4. GoesOn(parsing, t \o v, c, a)
  BY <1>3, HoldsMore DEF c
<1>5. TailEnds(TailSent(s, p, filter), T \o (a.text \o z), C \o a.calls)
  BY <1>2, TailIs DEF v
<1>6. body = [content |-> w.text \o Drain(parsing, w.parser), calls |-> w.calls]
  BY <1>3, BodyIs
<1> HIDE DEF a, w, body
<1>7. /\ a.parser \in Parsers /\ a.text \in Texts /\ a.calls \in Seq(Texts)
      /\ w = [parser |-> a.parser, text |-> T \o a.text, calls |-> C \o a.calls]
  BY <1>1, <1>4 DEF GoesOn, w
<1>8. z \in Texts
  BY <1>7, DrainIs
<1> HIDE DEF parsing
<1>9. w.parser = a.parser /\ w.text = T \o a.text /\ w.calls = C \o a.calls
  <2> DEFINE x == T \o a.text
             d == C \o a.calls
  <2> HIDE DEF x, d
  <2>1. w = [parser |-> a.parser, text |-> x, calls |-> d]
    BY <1>7 DEF x, d
  <2> QED
    BY <2>1 DEF x, d
<1>10. (T \o a.text) \o z = T \o (a.text \o z)
  <2>1. JoinsAlike(T, a.text, z)
    BY <1>1, <1>7, <1>8, TextsJoinAlike
  <2> QED
    BY <2>1 DEF JoinsAlike
<1>11. body.content = T \o (a.text \o z) /\ body.calls = C \o a.calls
  <2> DEFINE x == w.text \o Drain(parsing, w.parser)
  <2>1. x = T \o (a.text \o z)
    BY <1>9, <1>10
  <2> HIDE DEF x
  <2>2. body = [content |-> x, calls |-> w.calls]
    BY <1>6 DEF x
  <2>3. body.content = x /\ body.calls = w.calls
    BY <2>2
  <2> QED
    BY <1>9, <2>1, <2>3
<1>12. C \o a.calls \in Seq(Texts)
  BY <1>1, <1>7, JoinedCalls
<1> QED
  BY <1>5, <1>11, <1>12 DEF body, parsing, v

LEMMA StreamedNext ==
  Filtered /\ Assembled /\ Streamed /\ [Next]_vars => Streamed'
<1> SUFFICES ASSUME Filtered, Assembled, Streamed, [Next]_vars PROVE Streamed'
  OBVIOUS
<1> DEFINE parsing == request.parsing
<1>1. parsing \in BOOLEAN /\ raw \in Texts /\ said \in Texts /\ Stops \in SUBSET (Texts \ {<< >>})
  BY StopsAre DEF Filtered
<1>2. ASSUME NEW piece \in Texts, Reading(piece)
      PROVE  Len(said') <= MaxText /\ said' = said \o piece /\ request' = request /\ phase = "reading"
  <2>1. Len(said \o piece) = Len(said) + Len(piece)
    BY <1>1, JoinedTexts
  <2> QED
    BY <1>2, <2>1 DEF Reading
<1>3. ASSUME NEW piece \in Texts, ReadMore(piece) PROVE Streamed'
  <2> DEFINE out == F!Push(Stops, stopper, piece)
             t == out.text
             a == Feed(parsing, parser, t)
             s == CallsSent(TextSent(Current, a.text), a.calls)
             y == chat.content \o a.text
             z == chat.calls \o a.calls
  <2>1. /\ Len(said') <= MaxText /\ phase = "reading" /\ phase' = "reading"
    <3>1. Reading(piece) /\ phase' = phase
      BY <1>3 DEF ReadMore
    <3> QED
      BY <1>2, <3>1
  <2>2. ParserPush(parser, t) = a
    BY DEF ParserPush, Feed
  <2>3. /\ wire' = s.wire /\ index' = s.index /\ textOpen' = s.textOpen
        /\ chat' = [chat EXCEPT !.content = @ \o a.text, !.calls = @ \o a.calls]
    BY <1>3, <2>2, Zenon DEF ReadMore
  <2>4. t \in Texts
    BY <2>1, FilterStep DEF Released
  <2> HIDE DEF t, parsing
  <2>5. Sent(s, y, z)
    BY <2>1, <2>4, OutputIsSent DEF parsing
  <2>6. chat'.content = y /\ chat'.calls = z
    <3>1. chat = [content |-> chat.content, calls |-> chat.calls, reason |-> chat.reason]
      BY DEF Assembled
    <3> DEFINE d == [chat EXCEPT !.content = y]
    <3>2. chat' = [d EXCEPT !.calls = z]
      BY <2>3, Zenon
    <3> HIDE DEF y, z
    <3>3. d = [content |-> y, calls |-> chat.calls, reason |-> chat.reason]
      BY <3>1
    <3> HIDE DEF d
    <3> QED
      BY <3>2, <3>3
  <2> HIDE DEF s, y, z
  <2>7. s = Handler(s.wire, s.index, s.textOpen) /\ s.index \in Nat /\ s.textOpen \in BOOLEAN
    BY <2>5, HandlerOf
  <2>8. Current' = s
    BY <2>3, <2>7 DEF Current, Handler
  <2>9. index' \in Nat /\ textOpen' \in BOOLEAN
    BY <2>3, <2>7
  <2>10. ~Ended'
    BY <2>1 DEF Ended
  <2> QED
    BY <2>1, <2>5, <2>6, <2>8, <2>9, <2>10 DEF Streamed
<1>4. ASSUME NEW piece \in Texts, NEW retired, ReadLast(piece, retired) PROVE Streamed'
  <2> DEFINE out == F!Push(Stops, stopper, piece)
             t == out.text
             a == Feed(parsing, parser, t)
             s == CallsSent(TextSent(Current, a.text), a.calls)
             y == chat.content \o a.text
             z == chat.calls \o a.calls
             r == raw \o t
             tail == TailSent(s, a.parser, out.filter)
             body == Body(parsing, raw')
             v == F!Flush(out.filter)
  <2>1. PICK reason : /\ Reading(piece) /\ phase' = "finished" /\ raw' = r \o Rest(out)
                      /\ wire' = MessageEnded(tail, reason, out.filter)
                      /\ index' = tail.s.index /\ textOpen' = tail.s.textOpen
    <3>1. ParserPush(parser, t) = a
      BY DEF ParserPush, Feed
    <3> DEFINE reason == IF out.hit THEN "stop_sequence" ELSE retired
    <3>2. /\ Reading(piece) /\ phase' = "finished" /\ raw' = r \o Rest(out)
      BY <1>4 DEF ReadLast, Rest
    <3>3. /\ wire' = MessageEnded(tail, reason, out.filter)
          /\ index' = tail.s.index /\ textOpen' = tail.s.textOpen
      BY <1>4, <3>1, Zenon DEF ReadLast
    <3> QED
      BY <3>2, <3>3
  <2>2. /\ Len(said') <= MaxText /\ said' = said \o piece /\ request' = request
        /\ phase = "reading"
    BY <1>2, <2>1
  <2>3. Released(Stops, said, raw, piece, out)
    BY <2>2, FilterStep
  <2>4. t \in Texts /\ r \in Texts
    <3>1. t \in Texts
      BY <2>3 DEF Released
    <3> QED
      BY <1>1, <3>1, JoinedTexts
  <2>5. Rest(out) = v /\ v \in Texts
    <3> HIDE DEF out
    <3>1. CASE out.hit
      <4>1. out.filter.matched # F!NoStop
        BY <1>1, <2>3, <3>1 DEF Released, F!NoStop
      <4> QED
        BY <3>1, <4>1, EmptyText DEF Rest, F!Flush
    <3>2. CASE ~out.hit
      BY <2>3, <3>2, EmptyText DEF Rest, Released, F!Flush
    <3> QED
      BY <3>1, <3>2
  <2>6. EndsAtCut(Stops, said', raw', out.filter.matched)
    <3> HIDE DEF out
    <3>1. EndsAtCut(Stops, said \o piece, (raw \o out.text) \o Rest(out), out.filter.matched)
      BY <1>1, <2>3, LastRelease
    <3> QED
      BY <2>1, <2>2, <3>1
  <2> HIDE DEF t, parsing, v, out
  <2>7. GoesOn(parsing, r, chat, a) /\ Sent(s, y, z)
    BY <2>2, <2>4, OutputIsSent DEF parsing
  <2> HIDE DEF a
  <2>8. Holds(parsing, r, a.parser, [content |-> y, calls |-> z])
    <3> DEFINE w == Whole(parsing, r)
               c == [content |-> y, calls |-> z]
    <3>1. w = [parser |-> a.parser, text |-> y, calls |-> z]
      BY <2>7 DEF GoesOn
    <3> HIDE DEF w, y, z
    <3>2. w.parser = a.parser /\ w.text = y /\ w.calls = z
      BY <3>1
    <3>3. c.content = y /\ c.calls = z
      OBVIOUS
    <3> HIDE DEF c
    <3>4. Holds(parsing, r, a.parser, c)
      BY <3>2, <3>3 DEF Holds, w
    <3> QED
      BY <3>4 DEF c
  <2> HIDE DEF s, y, z, r
  <2>9. TailEnds(tail, body.content, body.calls) /\ body.calls \in Seq(Texts)
    <3> DEFINE p == a.parser
               f == out.filter
    <3> HIDE DEF p, f
    <3>1. F!Flush(f) \in Texts /\ Holds(parsing, r, p, [content |-> y, calls |-> z])
      BY <2>5, <2>8 DEF p, f, v
    <3>2. LET b == Body(parsing, r \o F!Flush(f))
          IN  TailEnds(TailSent(s, p, f), b.content, b.calls) /\ b.calls \in Seq(Texts)
      BY <1>1, <2>4, <2>7, <3>1, TailIsTheRest DEF parsing
    <3>3. raw' = r \o F!Flush(f)
      BY <2>1, <2>5 DEF v, f
    <3> QED
      BY <3>2, <3>3 DEF p, f
  <2> HIDE DEF tail, body
  <2>10. Concludes(wire', body.content, body.calls, raw', said')
    <3> DEFINE T == body.content
               C == body.calls
               f == out.filter
               u == raw'
               all == said'
               m == MessageEnded(tail, reason, f)
    <3> HIDE DEF T, C, f, u, all
    <3>1. f.matched # F!NoStop => IsPrefix(u \o f.matched, all)
      BY <2>6 DEF EndsAtCut, f, u, all
    <3>2. TailEnds(tail, T, C) /\ C \in Seq(Texts)
      BY <2>9 DEF T, C
    <3>3. Concludes(m, T, C, u, all)
      BY <3>1, <3>2, EndIsSent
    <3>4. wire' = m
      BY <2>1 DEF f
    <3> HIDE DEF m
    <3> QED
      BY <3>3, <3>4 DEF T, C, u, all
  <2>11. index' \in Nat /\ textOpen' = No /\ textOpen' \in BOOLEAN
    BY <2>1, <2>9 DEF TailEnds, No
  <2>12. Ended' /\ Len(said') <= MaxText
    BY <2>1, <2>2 DEF Ended
  <2>13. body = Body(request'.parsing, raw')
    BY <2>2 DEF body, parsing
  <2> HIDE DEF body
  <2> QED
    BY <2>10, <2>11, <2>12, <2>13 DEF Streamed
<1>5. CASE StreamCloses
  <2> DEFINE tail == TailSent(Current, parser, stopper)
             body == Body(parsing, raw')
             v == F!Flush(stopper)
             y == chat.content
             z == chat.calls
  <2>1. /\ phase = "reading" /\ phase' = "closed" /\ raw' = raw \o v
        /\ wire' = MessageEnded(tail, "eog", stopper)
        /\ index' = tail.s.index /\ textOpen' = tail.s.textOpen
        /\ request' = request /\ said' = said
    BY <1>5 DEF StreamCloses
  <2>2. stopper.matched = F!NoStop /\ v \in Texts
    <3>1. /\ stopper = [buffer |-> stopper.buffer, matched |-> F!NoStop]
          /\ stopper.buffer \in Texts
      BY <2>1 DEF Filtered, Ended, Withholds
    <3> QED
      BY <3>1 DEF F!Flush
  <2>3. Holds(parsing, raw, parser, chat) /\ Sent(Current, y, z) /\ Len(said) <= MaxText
    BY <2>1 DEF Assembled, Streamed, Ended
  <2> HIDE DEF y, z, parsing, v
  <2>4. Holds(parsing, raw, parser, [content |-> y, calls |-> z])
    BY <2>3 DEF Holds, y, z
  <2>5. TailEnds(tail, body.content, body.calls) /\ body.calls \in Seq(Texts)
    <3>1. LET b == Body(parsing, raw \o F!Flush(stopper))
          IN  TailEnds(tail, b.content, b.calls) /\ b.calls \in Seq(Texts)
      BY <1>1, <2>2, <2>3, <2>4, TailIsTheRest DEF parsing, v
    <3> QED
      BY <2>1, <3>1 DEF v
  <2> HIDE DEF tail, body
  <2>6. Concludes(wire', body.content, body.calls, raw', said')
    <3> DEFINE T == body.content
               C == body.calls
               u == raw'
               all == said'
               m == MessageEnded(tail, "eog", stopper)
    <3> HIDE DEF T, C, u, all
    <3>1. stopper.matched # F!NoStop => IsPrefix(u \o stopper.matched, all)
      BY <2>2
    <3>2. TailEnds(tail, T, C) /\ C \in Seq(Texts)
      BY <2>5 DEF T, C
    <3>3. Concludes(m, T, C, u, all)
      BY <3>1, <3>2, EndIsSent
    <3> HIDE DEF m
    <3> QED
      BY <2>1, <3>3 DEF T, C, u, all, m
  <2>7. index' \in Nat /\ textOpen' = No /\ textOpen' \in BOOLEAN
    BY <2>1, <2>5 DEF TailEnds, No
  <2>8. Ended' /\ Len(said') <= MaxText
    BY <2>1, <2>3 DEF Ended
  <2>9. body = Body(request'.parsing, raw')
    BY <2>1 DEF body, parsing
  <2> HIDE DEF body
  <2> QED
    BY <2>6, <2>7, <2>8, <2>9 DEF Streamed
<1>6. CASE Abandoned
  <2>1. /\ ~Ended /\ ~Ended' /\ Current' = Current /\ chat' = chat /\ said' = said
        /\ index' = index /\ textOpen' = textOpen
    BY <1>6 DEF Abandoned, Ended, Current
  <2> QED
    BY <2>1 DEF Streamed
<1>7. CASE UNCHANGED vars
  <2>1. /\ Ended' = Ended /\ Current' = Current /\ chat' = chat /\ said' = said /\ wire' = wire
        /\ index' = index /\ textOpen' = textOpen /\ request' = request /\ raw' = raw
    BY <1>7 DEF vars, Ended, Current
  <2> QED
    BY <2>1 DEF Streamed
<1> QED
  BY <1>3, <1>4, <1>5, <1>6, <1>7, PiecesAreTexts, EmptyText DEF Next

\* Throughout a request, what the blocks of the Anthropic stream hold.
THEOREM EventsAreStreamed == Spec => []Streamed
<1>1. Init => Streamed
  BY StreamedInit
<1>2. Filtered /\ Assembled /\ Streamed /\ [Next]_vars => Streamed'
  BY StreamedNext
<1> QED
  BY <1>1, <1>2, TextIsFiltered, FramesAreAssembled, PTL DEF Spec

EndedWith(m, B, O, why, stop) == m = [Message(B, O) EXCEPT !.reason = why, !.stop = stop]

LEMMA EndedMessage ==
  ASSUME NEW B, NEW O, NEW why, NEW stop, NEW m, EndedWith(m, B, O, why, stop)
  PROVE  /\ m.blocks = B /\ m.open = O /\ m.ok = Yes
         /\ m.reason = why /\ m.stop = stop
<1> DEFINE d == [Message(B, O) EXCEPT !.reason = why]
<1>1. m = [d EXCEPT !.stop = stop]
  BY Zenon DEF EndedWith
<1>2. d = [blocks |-> B, open |-> O, ok |-> Yes, reason |-> why, stop |-> F!NoStop]
  BY DEF Message, Wire
<1> HIDE DEF d
<1> DEFINE r == [blocks |-> B, open |-> O, ok |-> Yes, reason |-> why, stop |-> stop]
<1>3. m = r
  BY <1>1, <1>2
<1>4. r.blocks = B /\ r.open = O /\ r.ok = Yes /\ r.reason = why /\ r.stop = stop
  OBVIOUS
<1> HIDE DEF r
<1> QED
  BY <1>3, <1>4

LEMMA StreamedTypes ==
  Filtered /\ Assembled /\ Streamed => TypeOK
<1> SUFFICES ASSUME Filtered, Assembled, Streamed PROVE TypeOK
  OBVIOUS
<1>1. request.parsing \in BOOLEAN
  BY StopsAre DEF Filtered
<1>2. parser.nCalls = Len(chat.calls) \/ phase = "finished"
  <2> SUFFICES ASSUME phase # "finished" PROVE parser.nCalls = Len(chat.calls)
    OBVIOUS
  <2>1. PICK u \in Texts : Holds(request.parsing, u, parser, chat)
    BY DEF Filtered, Assembled, Ended
  <2> DEFINE w == Whole(request.parsing, u)
  <2>2. w.parser.nCalls = Len(w.calls)
    BY <1>1, WholeIs
  <2> QED
    BY <2>1, <2>2 DEF Holds
<1> QED
  BY <1>2 DEF TypeOK, Filtered, Streamed, Texts

LEMMA StreamedBody ==
  Filtered /\ Assembled /\ Streamed => WireIsTheBody
<1> SUFFICES ASSUME Filtered, Assembled, Streamed, Ended PROVE WireIsTheBody
  BY DEF WireIsTheBody
<1> DEFINE body == Body(request.parsing, raw)
<1>1. WholeBody = body
  BY DEF WholeBody, Body
<1> HIDE DEF body
<1>2. Concludes(wire, body.content, body.calls, raw, said)
  BY DEF Streamed, body
<1>3. PICK w, why, stop :
        /\ Complete(w, body.content, body.calls)
        /\ wire = [w EXCEPT !.reason = why, !.stop = stop]
        /\ why = "tool_use" <=> body.calls # << >>
        /\ stop # F!NoStop => why = "stop_sequence" /\ IsPrefix(raw \o stop, said)
  BY <1>2, Zenon DEF Concludes
<1>4. PICK B \in Seq(Blocks) :
        w = Message(B, {}) /\ B # << >> /\ body.content = TextOf(B) /\ body.calls = CallsOf(B)
  BY <1>3 DEF Complete
<1>5. EndedWith(wire, B, {}, why, stop)
  BY <1>3, <1>4 DEF EndedWith
<1>6. wire.blocks = B /\ wire.reason = why /\ wire.stop = stop
  <2> DEFINE o == {}
  <2> HIDE DEF o
  <2>1. EndedWith(wire, B, o, why, stop)
    BY <1>5 DEF o
  <2> QED
    BY <2>1, EndedMessage
<1> QED
  BY <1>1, <1>3, <1>4, <1>6 DEF WireIsTheBody

LEMMA StreamedBlocks ==
  Streamed => BlocksNest
<1> SUFFICES ASSUME Streamed PROVE BlocksNest
  OBVIOUS
<1>1. CASE ~Ended
  <2>1. Sent(Current, chat.content, chat.calls)
    BY <1>1 DEF Streamed
  <2>2. Current.wire = wire /\ Current.index = index /\ Current.textOpen = textOpen
    BY DEF Current
  <2>3. CASE ShutAt(Current, chat.content, chat.calls)
    <3>1. PICK B \in Seq(Blocks) : Current = Shut(B)
      BY <2>3 DEF ShutAt
    <3>2. wire = Message(B, {}) /\ textOpen = FALSE
      BY <2>2, <3>1, HandlersAre
    <3>3. wire.ok = Yes /\ wire.open = {}
      BY <3>2, OtherWires DEF Message
    <3> QED
      BY <1>1, <3>2, <3>3 DEF BlocksNest, Yes
  <2>4. CASE OpenAt(Current, chat.content, chat.calls)
    <3>1. PICK B \in Seq(Blocks), x \in Texts : Current = Opened(B, x)
      BY <2>4 DEF OpenAt
    <3> DEFINE A == Append(B, BlockOf("text", x))
               o == {Len(B)}
    <3>2. wire = Message(A, o) /\ index = Len(B) /\ textOpen = TRUE
      BY <2>2, <3>1, HandlersAre
    <3> HIDE DEF A, o
    <3>3. wire.ok = Yes /\ wire.open = o
      BY <3>2, OtherWires DEF Message
    <3> QED
      BY <1>1, <3>2, <3>3 DEF BlocksNest, Yes, o
  <2> QED
    BY <2>1, <2>3, <2>4 DEF Sent
<1>2. CASE Ended
  <2> DEFINE body == Body(request.parsing, raw)
  <2> HIDE DEF body
  <2>1. Concludes(wire, body.content, body.calls, raw, said) /\ textOpen = No
    BY <1>2 DEF Streamed, body
  <2>2. PICK w, why, stop : /\ Complete(w, body.content, body.calls)
                            /\ wire = [w EXCEPT !.reason = why, !.stop = stop]
    BY <2>1, Zenon DEF Concludes
  <2>3. PICK B \in Seq(Blocks) : w = Message(B, {}) /\ B # << >>
    BY <2>2 DEF Complete
  <2>4. EndedWith(wire, B, {}, why, stop)
    BY <2>2, <2>3 DEF EndedWith
  <2>5. wire.blocks = B /\ wire.open = {} /\ wire.ok = Yes
    <3> DEFINE o == {}
    <3> HIDE DEF o
    <3>1. EndedWith(wire, B, o, why, stop)
      BY <2>4 DEF o
    <3>2. wire.blocks = B /\ wire.open = o /\ wire.ok = Yes
      BY <3>1, EndedMessage
    <3> QED
      BY <3>2 DEF o
  <2> QED
    BY <2>1, <2>3, <2>5 DEF BlocksNest, Yes, No
<1> QED
  BY <1>1, <1>2

\* The state of a request keeps its shape, and as many calls are counted as sent.
THEOREM TypeCorrect == Spec => []TypeOK
<1>1. Filtered /\ Assembled /\ Streamed => TypeOK
  BY StreamedTypes
<1> QED
  BY <1>1, TextIsFiltered, FramesAreAssembled, EventsAreStreamed, PTL

\* The blocks of the Anthropic stream assemble to the answer without streaming.
THEOREM BlocksAreTheBody == Spec => []WireIsTheBody
<1>1. Filtered /\ Assembled /\ Streamed => WireIsTheBody
  BY StreamedBody
<1> QED
  BY <1>1, TextIsFiltered, FramesAreAssembled, EventsAreStreamed, PTL

\* Blocks are numbered without a gap and closed once, one open at a time.
THEOREM BlocksAreNested == Spec => []BlocksNest
<1>1. Streamed => BlocksNest
  BY StreamedBlocks
<1> QED
  BY <1>1, EventsAreStreamed, PTL

-----------------------------------------------------------------------------
(* No generated character is lost: the letters of a text. *)

LEMMA FoldOfLetters ==
  ASSUME NEW s, NEW n \in Nat, NEW seq, DOMAIN seq = 1 .. n
  PROVE  \E g : FoldLeft(WithLetter, s, seq) = g[DOMAIN seq] /\ IsFold("letter", s, seq, g)
<1> DEFINE it == CHOOSE g : g = [x \in SUBSET DOMAIN seq |->
                   IF x = {} THEN s ELSE WithLetter(g[x \ {Max(x)}], seq[Max(x)])]
<1>1. PICK g : g = [x \in SUBSET DOMAIN seq |-> FoldStep("letter", s, seq, g, x)]
  BY FoldsExist
<1>2. g = [x \in SUBSET DOMAIN seq |->
             IF x = {} THEN s ELSE WithLetter(g[x \ {Max(x)}], seq[Max(x)])]
  BY <1>1 DEF FoldStep, Apply
<1>3. it = [x \in SUBSET DOMAIN seq |->
              IF x = {} THEN s ELSE WithLetter(it[x \ {Max(x)}], seq[Max(x)])]
  BY <1>2
<1>4. FoldLeft(WithLetter, s, seq) = it[DOMAIN seq]
  BY DEF FoldLeft, MapThenFoldSet
<1> HIDE DEF it
<1>5. IsFold("letter", s, seq, it)
  <2> SUFFICES ASSUME NEW x \in SUBSET DOMAIN seq
               PROVE  it[x] = FoldStep("letter", s, seq, it, x)
    BY DEF IsFold
  <2>1. it[x] = IF x = {} THEN s ELSE WithLetter(it[x \ {Max(x)}], seq[Max(x)])
    BY <1>3
  <2> QED
    BY <2>1 DEF FoldStep, Apply
<1> QED
  BY <1>4, <1>5

LettersFold(s, c, e) ==
  /\ FoldLeft(WithLetter, s, << >>) = s
  /\ FoldLeft(WithLetter, s, Append(c, e)) = WithLetter(FoldLeft(WithLetter, s, c), e)

LEMMA LettersOneByOne ==
  ASSUME NEW S, NEW c \in Seq(S), NEW e \in S, NEW s
  PROVE  LettersFold(s, c, e)
<1> DEFINE z == << >>
           d == Append(c, e)
<1>1. DOMAIN z = 1 .. 0 /\ 0 \in Nat
  OBVIOUS
<1>2. DOMAIN c = 1 .. Len(c) /\ Len(c) \in Nat
  OBVIOUS
<1>3. DOMAIN d = 1 .. Len(c) + 1 /\ Len(c) + 1 \in Nat
  OBVIOUS
<1> HIDE DEF z, d
<1>4. PICK f : FoldLeft(WithLetter, s, z) = f[DOMAIN z] /\ IsFold("letter", s, z, f)
  BY <1>1, FoldOfLetters
<1>5. PICK g : FoldLeft(WithLetter, s, c) = g[DOMAIN c] /\ IsFold("letter", s, c, g)
  BY <1>2, FoldOfLetters
<1>6. PICK h : FoldLeft(WithLetter, s, d) = h[DOMAIN d] /\ IsFold("letter", s, d, h)
  BY <1>3, FoldOfLetters
<1>7. f[DOMAIN z] = s
  BY <1>4, FoldOfNothing DEF z
<1>8. h[DOMAIN d] = Apply("letter", g[DOMAIN c], e)
  BY <1>5, <1>6, FoldOfMore DEF d
<1> QED
  BY <1>4, <1>5, <1>6, <1>7, <1>8 DEF LettersFold, z, d, Apply

LEMMA LetterIs ==
  ASSUME NEW t \in Texts, NEW c \in Characters
  PROVE  /\ Unspaced(<< >>) = << >>
         /\ Unspaced(Append(t, c)) = IF c = Space THEN Unspaced(t) ELSE Append(Unspaced(t), c)
<1> DEFINE e == << >>
<1>1. /\ FoldLeft(WithLetter, e, e) = e
      /\ FoldLeft(WithLetter, e, Append(t, c)) = WithLetter(FoldLeft(WithLetter, e, t), c)
  <2>1. t \in Seq(Characters)
    BY DEF Texts
  <2> HIDE DEF e
  <2>2. LettersFold(e, t, c)
    BY <2>1, LettersOneByOne
  <2> QED
    BY <2>2 DEF LettersFold, e
<1> QED
  BY <1>1, Zenon DEF Unspaced, WithLetter

LEMMA LettersAre ==
  ASSUME NEW t \in Texts
  PROVE  Unspaced(t) \in Texts /\ (t \in Spaces => Unspaced(t) = << >>)
<1> DEFINE P(m) == LET y == Unspaced(Upto(t, m)) IN y \in Texts /\ (t \in Spaces => y = << >>)
           B == {m \in Nat : m <= Len(t) /\ ~P(m)}
<1>1. Upto(t, 0) = << >> /\ Upto(t, Len(t)) = t /\ Len(t) \in Nat
  BY UptoEnds, EmptyText DEF Texts
<1>2. P(0)
  <2>1. Unspaced(<< >>) = << >>
    <3> DEFINE e == << >>
               S == {Space}
    <3>1. e \in Seq(S) /\ Space \in S
      OBVIOUS
    <3> HIDE DEF S
    <3>2. LettersFold(e, e, Space)
      BY <3>1, LettersOneByOne
    <3>3. FoldLeft(WithLetter, e, e) = e
      BY <3>2 DEF LettersFold
    <3> QED
      BY <3>3, Zenon DEF Unspaced
  <2> QED
    BY <1>1, <2>1, EmptyText
<1>3. ASSUME NEW m \in Nat, m + 1 <= Len(t), P(m) PROVE P(m + 1)
  <2> DEFINE u == Upto(t, m)
             c == t[m + 1]
  <2>1. u \in Texts /\ c \in Characters /\ Upto(t, m + 1) = Append(u, c)
    BY <1>3, UptoNext DEF Texts
  <2>2. t \in Spaces => c = Space
    BY <1>1, <1>3 DEF Spaces
  <2>3. Unspaced(u) \in Texts /\ (t \in Spaces => Unspaced(u) = << >>)
    BY <1>3
  <2> HIDE DEF u, c
  <2>4. Unspaced(Append(u, c)) = IF c = Space THEN Unspaced(u) ELSE Append(Unspaced(u), c)
    BY <2>1, LetterIs
  <2>5. Append(Unspaced(u), c) \in Texts
    BY <2>1, <2>3 DEF Texts
  <2> QED
    BY <2>1, <2>2, <2>3, <2>4, <2>5
<1> HIDE DEF P
<1>4. B = {}
  <2>1. B \subseteq Nat /\ 0 \notin B
    BY <1>2
  <2>2. \A m \in Nat : m \notin B => m + 1 \notin B
    BY <1>1, <1>3
  <2> HIDE DEF B
  <2> QED
    BY <2>1, <2>2, NoCounterexample
<1>5. P(Len(t))
  BY <1>1, <1>4
<1> QED
  BY <1>1, <1>5 DEF P

LEMMA LettersOfBoth ==
  ASSUME NEW a \in Texts, NEW b \in Texts
  PROVE  Unspaced(a \o b) = Unspaced(a) \o Unspaced(b)
<1> DEFINE P(m) == Unspaced(a \o Upto(b, m)) = Unspaced(a) \o Unspaced(Upto(b, m))
           B == {m \in Nat : m <= Len(b) /\ ~P(m)}
<1>1. Upto(b, 0) = << >> /\ Upto(b, Len(b)) = b /\ Len(b) \in Nat /\ Unspaced(a) \in Texts
  BY UptoEnds, EmptyText, LettersAre DEF Texts
<1>2. P(0)
  <2>1. Unspaced(<< >>) = << >>
    BY EmptyText, JoinedSpaces, LettersAre
  <2> QED
    BY <1>1, <2>1, EmptyText
<1>3. ASSUME NEW m \in Nat, m + 1 <= Len(b), P(m) PROVE P(m + 1)
  <2> DEFINE u == Upto(b, m)
             c == b[m + 1]
             f == <<c>>
             x == a \o u
             A == Unspaced(a)
             U == Unspaced(u)
  <2>1. u \in Texts /\ c \in Characters /\ Upto(b, m + 1) = Append(u, c)
    BY <1>3, UptoNext DEF Texts
  <2>2. Unspaced(x) = A \o U
    BY <1>3
  <2> HIDE DEF u, c
  <2>3. A \in Texts /\ U \in Texts /\ x \in Texts
    BY <2>1, LettersAre, JoinedTexts
  <2>4. f \in Texts /\ \A t \in Texts : Append(t, c) = t \o f
    BY <2>1 DEF Texts
  <2> HIDE DEF f
  <2>5. a \o Append(u, c) = Append(x, c)
    <3>1. (a \o u) \o f = a \o (u \o f)
      BY <2>1, <2>4, TextsAssociate
    <3>2. Append(u, c) = u \o f
      BY <2>1, <2>4
    <3> HIDE DEF x
    <3>3. Append(x, c) = x \o f
      BY <2>3, <2>4
    <3> QED
      BY <3>1, <3>2, <3>3 DEF x
  <2> HIDE DEF x, A, U
  <2>6. Unspaced(Append(x, c)) = IF c = Space THEN Unspaced(x) ELSE Append(Unspaced(x), c)
    BY <2>1, <2>3, LetterIs
  <2>7. Unspaced(Append(u, c)) = IF c = Space THEN U ELSE Append(U, c)
    BY <2>1, LetterIs DEF U
  <2>8. Append(A \o U, c) = A \o Append(U, c)
    <3> DEFINE z == A \o U
    <3>1. z \in Texts
      BY <2>3, JoinedTexts
    <3>2. (A \o U) \o f = A \o (U \o f)
      <4>1. JoinsAlike(A, U, f)
        BY <2>3, <2>4, TextsJoinAlike
      <4> QED
        BY <4>1 DEF JoinsAlike
    <3>3. Append(U, c) = U \o f
      BY <2>3, <2>4
    <3> HIDE DEF z
    <3>4. Append(z, c) = z \o f
      BY <2>4, <3>1
    <3> QED
      BY <3>2, <3>3, <3>4 DEF z
  <2>9. Unspaced(Append(x, c)) = A \o Unspaced(Append(u, c))
    BY <2>2, <2>6, <2>7, <2>8
  <2> QED
    BY <2>1, <2>5, <2>9 DEF A
<1> HIDE DEF P
<1>4. B = {}
  <2>1. B \subseteq Nat /\ 0 \notin B
    BY <1>2
  <2>2. \A m \in Nat : m \notin B => m + 1 \notin B
    BY <1>1, <1>3
  <2> HIDE DEF B
  <2> QED
    BY <2>1, <2>2, NoCounterexample
<1>5. P(Len(b))
  BY <1>1, <1>4
<1> QED
  BY <1>1, <1>5 DEF P

-----------------------------------------------------------------------------
(* What is outside and inside of the tags, of a text as a whole.            *)

Bounded == BoundedSeq(Characters, MaxText)

\* One step of Split, by a table g.
SplitStep(g, text) ==
  LET i == F!FirstOffset(Open, text)
      inner == F!Drop(text, i + Len(Open))
      j == F!FirstOffset(Close, inner)
      rest == g[F!Drop(inner, j + Len(Close))]
      block == SubSeq(inner, 1, j)
  IN  IF ~F!Occurs(Open, text) \/ ~F!Occurs(Close, inner)
      THEN [outside |-> text, calls |-> << >>]
      ELSE IF Stripped(block) \in Calls
      THEN [outside |-> SubSeq(text, 1, i) \o rest.outside,
            calls |-> <<Stripped(block)>> \o rest.calls]
      ELSE [rest EXCEPT !.outside = SubSeq(text, 1, i + Len(Open) + j + Len(Close)) \o @]

LEMMA BoundedIs ==
  ASSUME NEW t
  PROVE  t \in Bounded <=> t \in Texts /\ Len(t) <= MaxText
<1>0. MaxText \in Nat
  BY RepliesAssumption
<1>1. ASSUME t \in Bounded PROVE t \in Texts /\ Len(t) <= MaxText
  <2>1. PICK m \in 0 .. MaxText : t \in [1 .. m -> Characters]
    BY <1>1 DEF Bounded, BoundedSeq, SeqOf
  <2>2. t \in Seq(Characters) /\ Len(t) = m
    BY <1>0, <2>1, IsSequence
  <2> QED
    BY <1>0, <2>1, <2>2 DEF Texts
<1>2. ASSUME t \in Texts, Len(t) <= MaxText PROVE t \in Bounded
  <2>1. Len(t) \in 0 .. MaxText /\ t \in [1 .. Len(t) -> Characters]
    BY <1>0, <1>2 DEF Texts
  <2> QED
    BY <2>1 DEF Bounded, BoundedSeq, SeqOf
<1> QED
  BY <1>1, <1>2

\* Texts without a whole block, and with one, x, between u and v.
Plain(b) == ~F!Occurs(Open, b) \/ \E u, w \in Texts : Opens(b, u, w) /\ ~F!Occurs(Close, w)
BlockAt(b, u, x, v) == \E w \in Texts : Opens(b, u, w) /\ Closes(w, x, v)

LEMMA BlockOrPlain ==
  ASSUME NEW b \in Texts
  PROVE  Plain(b) \/ \E u, x, v \in Texts : BlockAt(b, u, x, v)
<1>1. PICK u, w \in Texts : Opens(b, u, w) \/ Waits(b, u, w)
  BY TextCases
<1>2. CASE Waits(b, u, w)
  BY <1>2, WaitsIs DEF Plain
<1>3. CASE Opens(b, u, w)
  <2>1. CASE ~F!Occurs(Close, w)
    BY <1>3, <2>1 DEF Plain
  <2>2. CASE F!Occurs(Close, w)
    <3>1. PICK x, v \in Texts : Closes(w, x, v)
      BY <2>2, CallCases
    <3> QED
      BY <1>3, <3>1 DEF BlockAt
  <2> QED
    BY <2>1, <2>2
<1> QED
  BY <1>1, <1>2, <1>3

\* The text behind the first opening tag.
LEMMA BehindTheTag ==
  ASSUME NEW b, NEW u, NEW w, Opens(b, u, w)
  PROVE  F!Drop(b, Len(u) + Len(Open)) = w
<1>1. u \in Texts /\ w \in Texts /\ b = u \o (Open \o w)
  BY DEF Opens
<1> DEFINE y == u \o Open
<1>2. y \in Texts /\ Len(y) = Len(u) + Len(Open) /\ b = y \o w
  <2>1. y \in Texts /\ Len(y) = Len(u) + Len(Open)
    BY <1>1, Tags, JoinedTexts
  <2>2. Open \in Texts
    BY Tags
  <2>3. JoinsAlike(u, Open, w)
    BY <1>1, <2>2, TextsJoinAlike
  <2> QED
    BY <1>1, <2>1, <2>3 DEF JoinsAlike
<1> HIDE DEF y
<1>3. From(y \o w, Len(y)) = w
  BY <1>1, <1>2, JoinedTexts
<1> QED
  BY <1>2, <1>3 DEF From

LEMMA StepOfPlain ==
  ASSUME NEW b \in Texts, Plain(b), NEW g
  PROVE  SplitStep(g, b) = [outside |-> b, calls |-> << >>]
<1>1. CASE ~F!Occurs(Open, b)
  BY <1>1 DEF SplitStep
<1>2. CASE \E u, w \in Texts : Opens(b, u, w) /\ ~F!Occurs(Close, w)
  <2>1. PICK u, w \in Texts : Opens(b, u, w) /\ ~F!Occurs(Close, w)
    BY <1>2
  <2>2. F!FirstOffset(Open, b) = Len(u)
    BY <2>1, OpensIs
  <2>3. F!Drop(b, Len(u) + Len(Open)) = w
    BY <2>1, BehindTheTag
  <2> QED
    BY <2>1, <2>2, <2>3 DEF SplitStep
<1> QED
  BY <1>1, <1>2 DEF Plain

\* Lengths, and the text up to the end of the block.
BlockEndsAt(b, u, x) ==
  SubSeq(b, 1, Len(u) + Len(Open) + Len(x) + Len(Close)) = u \o Block(x)

LEMMA BlockAtIs ==
  ASSUME NEW b, NEW u, NEW x, NEW v, BlockAt(b, u, x, v)
  PROVE  /\ b \in Texts /\ u \in Texts /\ x \in Texts /\ v \in Texts /\ Len(v) < Len(b)
         /\ Len(v) \in Nat /\ Len(b) \in Nat
         /\ BlockEndsAt(b, u, x)
         /\ b = (u \o Block(x)) \o v
<1>1. PICK w \in Texts : Opens(b, u, w) /\ Closes(w, x, v)
  BY DEF BlockAt
<1>2. /\ u \in Texts /\ b = u \o (Open \o w)
      /\ x \in Texts /\ v \in Texts /\ w = x \o (Close \o v)
  BY <1>1 DEF Opens, Closes
<1> DEFINE y == Open \o x
           z == Block(x)
           q == u \o z
<1>3. Len(u) \in Nat /\ Len(x) \in Nat /\ Len(v) \in Nat /\ Len(w) = Len(x) + Len(Close) + Len(v)
      /\ Len(b) = Len(u) + Len(Open) + Len(w) /\ b \in Texts
  BY <1>1, OpensIs, ClosesIs, <1>2, EmptyText
<1>4. y \in Texts /\ Len(y) = Len(Open) + Len(x)
  BY <1>2, Tags, JoinedTexts
<1>5. z = y \o Close
  BY <1>2, Tags, TextsAssociate DEF Block
<1>6. Open \o w = z \o v /\ z \in Texts /\ Len(z) = Len(y) + Len(Close)
  <2> DEFINE k == Close \o v
  <2>1. k \in Texts
    BY <1>2, Tags, JoinedTexts
  <2> HIDE DEF k
  <2>2. Open \o (x \o k) = y \o k
    <3>1. Open \in Texts /\ x \in Texts /\ k \in Texts
      BY <1>2, <2>1, Tags
    <3> QED
      BY <3>1, TextsAssociate
  <2> HIDE DEF y
  <2>3. (y \o Close) \o v = y \o (Close \o v)
    <3>1. JoinsAlike(y, Close, v)
      BY <1>2, <1>4, Tags, TextsJoinAlike
    <3> QED
      BY <3>1 DEF JoinsAlike
  <2> QED
    BY <1>2, <1>4, <1>5, <2>2, <2>3, Tags, JoinedTexts DEF k
<1> HIDE DEF z, y
<1>7. b = q \o v /\ q \in Texts /\ Len(q) = Len(u) + Len(z)
  <2>1. u \in Texts /\ z \in Texts /\ v \in Texts
    BY <1>2, <1>6
  <2>2. q \o v = u \o (z \o v)
    BY <2>1, TextsAssociate
  <2>3. q \in Texts /\ Len(q) = Len(u) + Len(z)
    BY <2>1, JoinedTexts
  <2> QED
    BY <1>2, <1>6, <2>2, <2>3
<1> HIDE DEF q
<1>8. SubSeq(b, 1, Len(q)) = q
  <2>1. Upto(q \o v, Len(q)) = q
    BY <1>2, <1>7, JoinedTexts
  <2> QED
    BY <1>7, <2>1 DEF Upto
<1>9. Len(q) = Len(u) + Len(Open) + Len(x) + Len(Close)
  BY <1>3, <1>4, <1>6, <1>7, Tags
<1>10. Len(v) < Len(b)
  BY <1>3, Tags
<1>11. SubSeq(b, 1, Len(u) + Len(Open) + Len(x) + Len(Close)) = q
  BY <1>8, <1>9
<1>12. b \in Texts /\ u \in Texts /\ x \in Texts /\ v \in Texts
  BY <1>2, <1>3
<1>13. Len(v) < Len(b) /\ Len(v) \in Nat /\ Len(b) \in Nat
  BY <1>3, <1>10, <1>12, EmptyText
<1>14. q = u \o Block(x)
  BY DEF q, z
<1>15. SubSeq(b, 1, Len(u) + Len(Open) + Len(x) + Len(Close)) = u \o Block(x)
  BY <1>11, <1>14
<1>16. b = (u \o Block(x)) \o v
  BY <1>7, <1>14
<1> QED
  BY <1>12, <1>13, <1>15, <1>16 DEF BlockEndsAt

StepFrom(g, b, u, x, rest) ==
  SplitStep(g, b) = IF Stripped(x) \in Calls
                    THEN [outside |-> u \o rest.outside, calls |-> <<Stripped(x)>> \o rest.calls]
                    ELSE [rest EXCEPT !.outside = (u \o Block(x)) \o @]

LEMMA StepOfBlock ==
  ASSUME NEW b, NEW u, NEW x, NEW v, BlockAt(b, u, x, v), NEW g
  PROVE  StepFrom(g, b, u, x, g[v])
<1>1. PICK w \in Texts : Opens(b, u, w) /\ Closes(w, x, v)
  BY DEF BlockAt
<1>2. /\ F!Occurs(Open, b) /\ F!FirstOffset(Open, b) = Len(u) /\ SubSeq(b, 1, Len(u)) = u
  BY <1>1, OpensIs
<1>3. F!Drop(b, Len(u) + Len(Open)) = w
  BY <1>1, BehindTheTag
<1>4. /\ F!Occurs(Close, w) /\ F!FirstOffset(Close, w) = Len(x)
      /\ SubSeq(w, 1, Len(x)) = x /\ F!Drop(w, Len(x) + Len(Close)) = v
  BY <1>1, ClosesIs
<1>5. SubSeq(b, 1, Len(u) + Len(Open) + Len(x) + Len(Close)) = u \o Block(x)
  <2>1. BlockEndsAt(b, u, x)
    BY BlockAtIs
  <2> QED
    BY <2>1 DEF BlockEndsAt
<1> QED
  BY <1>2, <1>3, <1>4, <1>5 DEF SplitStep, StepFrom

\* A step looks at shorter texts only.
LEMMA StepBehind ==
  ASSUME NEW b \in Bounded, NEW g, NEW h,
         \A v \in Bounded : Len(v) < Len(b) => g[v] = h[v]
  PROVE  SplitStep(g, b) = SplitStep(h, b)
<1>0. b \in Texts /\ Len(b) <= MaxText /\ MaxText \in Nat
  BY BoundedIs, RepliesAssumption
<1>1. CASE Plain(b)
  BY <1>0, <1>1, StepOfPlain
<1>2. CASE \E u, x, v \in Texts : BlockAt(b, u, x, v)
  <2>1. PICK u, x, v \in Texts : BlockAt(b, u, x, v)
    BY <1>2
  <2>2. g[v] = h[v]
    <3>1. v \in Texts /\ Len(v) < Len(b) /\ Len(v) \in Nat /\ Len(b) \in Nat
      BY <2>1, BlockAtIs
    <3>2. v \in Bounded
      BY <1>0, <3>1, BoundedIs
    <3> QED
      BY <3>1, <3>2
  <2>3. StepFrom(g, b, u, x, g[v]) /\ StepFrom(h, b, u, x, h[v])
    BY <2>1, StepOfBlock
  <2> QED
    BY <2>2, <2>3 DEF StepFrom
<1> QED
  BY <1>0, <1>1, <1>2, BlockOrPlain

LEMMA SplitExists ==
  \E g : g = [t \in Bounded |-> SplitStep(g, t)]
<1> DEFINE P(n) == \E g : \A t \in Bounded : Len(t) < n => g[t] = SplitStep(g, t)
           B == {n \in Nat : ~P(n)}
<1>0. /\ MaxText \in Nat
      /\ \A t \in Bounded : t \in Texts /\ Len(t) \in Nat /\ Len(t) <= MaxText
  BY BoundedIs, RepliesAssumption, EmptyText
<1>1. P(0)
  BY <1>0
<1>2. ASSUME NEW n \in Nat, P(n) PROVE P(n + 1)
  <2>1. PICK g : \A t \in Bounded : Len(t) < n => g[t] = SplitStep(g, t)
    BY <1>2
  <2> DEFINE h == [t \in Bounded |-> SplitStep(g, t)]
  <2>2. ASSUME NEW t \in Bounded, Len(t) < n + 1
        PROVE  h[t] = SplitStep(h, t)
    <3>1. \A v \in Bounded : Len(v) < Len(t) => g[v] = h[v]
      BY <1>0, <2>1, <2>2
    <3>2. h[t] = SplitStep(g, t)
      OBVIOUS
    <3> HIDE DEF h
    <3>3. SplitStep(g, t) = SplitStep(h, t)
      BY <3>1, StepBehind
    <3> QED
      BY <3>2, <3>3
  <2> HIDE DEF h
  <2> QED
    BY <2>2
<1> HIDE DEF P
<1>3. B = {}
  <2>1. B \subseteq Nat /\ 0 \notin B
    BY <1>1
  <2>2. \A n \in Nat : n \notin B => n + 1 \notin B
    BY <1>2
  <2> HIDE DEF B
  <2> QED
    BY <2>1, <2>2, NoCounterexample
<1>4. P(MaxText + 1)
  BY <1>0, <1>3
<1>5. PICK g : \A t \in Bounded : g[t] = SplitStep(g, t)
  BY <1>0, <1>4 DEF P
<1> DEFINE h == [t \in Bounded |-> g[t]]
<1>6. ASSUME NEW t \in Bounded PROVE h[t] = SplitStep(h, t)
  <2>1. \A v \in Bounded : Len(v) < Len(t) => g[v] = h[v]
    OBVIOUS
  <2>2. h[t] = SplitStep(g, t)
    BY <1>5
  <2> HIDE DEF h
  <2>3. SplitStep(g, t) = SplitStep(h, t)
    BY <2>1, StepBehind
  <2> QED
    BY <2>2, <2>3
<1>7. h = [t \in Bounded |-> SplitStep(h, t)]
  BY <1>6
<1> HIDE DEF h
<1> QED
  BY <1>7

LEMMA SplitIs ==
  ASSUME NEW t \in Bounded
  PROVE  Split[t] = SplitStep(Split, t)
<1> DEFINE it == CHOOSE g : g = [x \in Bounded |-> SplitStep(g, x)]
<1>1. it = [x \in Bounded |-> SplitStep(it, x)]
  BY SplitExists
<1>2. Split = it
  BY DEF Split, SplitStep, Bounded
<1> HIDE DEF it
<1>3. it[t] = SplitStep(it, t)
  BY <1>1
<1> QED
  BY <1>2, <1>3

Parts == [outside : Texts, calls : Seq(Texts)]

\* A text's parts s: u, the block x, as a call or in the text, and then rest.
BlockParts(s, u, x, rest) ==
  /\ s \in Parts
  /\ s.outside = (IF Stripped(x) \in Calls THEN u ELSE u \o Block(x)) \o rest.outside
  /\ s.calls = (IF Stripped(x) \in Calls THEN <<Stripped(x)>> ELSE << >>) \o rest.calls

LEMMA PartsOfBlock ==
  ASSUME NEW b, NEW u, NEW x, NEW v, BlockAt(b, u, x, v),
         NEW g, NEW rest \in Parts, StepFrom(g, b, u, x, rest)
  PROVE  BlockParts(SplitStep(g, b), u, x, rest)
<1> DEFINE s == SplitStep(g, b)
           o == rest.outside
           c == rest.calls
           d == Stripped(x)
           w == u \o Block(x)
<1>1. u \in Texts /\ x \in Texts /\ o \in Texts /\ c \in Seq(Texts)
  BY BlockAtIs DEF Parts
<1>2. d \in Texts /\ w \in Texts
  BY <1>1, StrippedTypes, BlockIs, JoinedTexts
<1>3. s = IF d \in Calls THEN [outside |-> u \o o, calls |-> <<d>> \o c]
          ELSE [rest EXCEPT !.outside = w \o @]
  BY DEF StepFrom
<1> HIDE DEF w, d, s
<1>4. CASE d \in Calls
  <2> DEFINE y == u \o o
             z == <<d>> \o c
  <2>1. <<d>> \in Seq(Texts)
    BY <1>2
  <2>2. y \in Texts /\ z \in Seq(Texts)
    BY <1>1, <2>1, JoinedTexts, JoinedCalls
  <2> HIDE DEF y, z
  <2>3. s = [outside |-> y, calls |-> z]
    BY <1>3, <1>4 DEF y, z
  <2>4. s \in Parts /\ s.outside = y /\ s.calls = z
    BY <2>2, <2>3 DEF Parts
  <2> QED
    BY <1>4, <2>4 DEF BlockParts, y, z, s, d
<1>5. CASE d \notin Calls
  <2> DEFINE y == w \o o
             e == << >>
  <2>1. y \in Texts /\ e \o c = c
    BY <1>1, <1>2, JoinedTexts, JoinedCalls
  <2> HIDE DEF y, e
  <2>2. s = [rest EXCEPT !.outside = y]
    BY <1>3, <1>5 DEF y
  <2>3. s \in Parts /\ s.outside = y /\ s.calls = c
    BY <1>1, <2>1, <2>2 DEF Parts
  <2> QED
    BY <1>5, <2>1, <2>3 DEF BlockParts, y, s, d, w, e
<1> QED
  BY <1>4, <1>5

LEMMA PartsAre ==
  ASSUME NEW t \in Bounded
  PROVE  Split[t] \in Parts
<1> DEFINE B == {n \in Nat : \E b \in Bounded : Len(b) = n /\ Split[b] \notin Parts}
<1>0. \A b \in Bounded : b \in Texts /\ Len(b) \in Nat /\ Len(b) <= MaxText
  BY BoundedIs, EmptyText
<1>1. ASSUME B # {} PROVE FALSE
  <2>1. PICK n \in B : \A y \in B : n <= y
    BY <1>1, LeastNumber
  <2>2. PICK b \in Bounded : Len(b) = n /\ Split[b] \notin Parts
    BY <2>1
  <2>3. \A v \in Bounded : Len(v) < Len(b) => Split[v] \in Parts
    BY <1>0, <2>1, <2>2
  <2> HIDE DEF B
  <2>4. b \in Texts /\ Len(b) <= MaxText /\ MaxText \in Nat
    BY <1>0, RepliesAssumption
  <2>5. Split[b] = SplitStep(Split, b)
    BY SplitIs
  <2>6. CASE Plain(b)
    <3> DEFINE e == << >>
    <3>1. SplitStep(Split, b) = [outside |-> b, calls |-> e]
      BY <2>4, <2>6, StepOfPlain
    <3>2. e \in Seq(Texts)
      OBVIOUS
    <3> HIDE DEF e
    <3> QED
      BY <2>2, <2>4, <2>5, <3>1, <3>2 DEF Parts
  <2>7. CASE \E u, x, v \in Texts : BlockAt(b, u, x, v)
    <3>1. PICK u, x, v \in Texts : BlockAt(b, u, x, v)
      BY <2>7
    <3>2. Len(v) < Len(b) /\ Len(v) \in Nat /\ Len(b) \in Nat
      BY <3>1, BlockAtIs
    <3>3. v \in Bounded
      BY <2>4, <3>2, BoundedIs
    <3>4. Split[v] \in Parts /\ StepFrom(Split, b, u, x, Split[v])
      BY <2>3, <3>1, <3>2, <3>3, StepOfBlock
    <3>5. BlockParts(SplitStep(Split, b), u, x, Split[v])
      BY <3>1, <3>4, PartsOfBlock
    <3>6. SplitStep(Split, b) \in Parts
      BY <3>5 DEF BlockParts
    <3> QED
      BY <2>2, <2>5, <3>6
  <2> QED
    BY <2>4, <2>6, <2>7, BlockOrPlain
<1>2. Len(t) \notin B /\ Len(t) \in Nat
  BY <1>0, <1>1
<1> QED
  BY <1>2

\* Text that is taken off the front of q, and what is then left of it.
Shed(q, u, p) ==
  /\ q \in Bounded /\ p \in Bounded /\ u \in Texts /\ q = u \o p
  /\ Split[q].outside = u \o Split[p].outside
  /\ Split[q].calls = Split[p].calls

LEMMA SplitOfPlain ==
  ASSUME NEW b \in Bounded, Plain(b)
  PROVE  Split[b].outside = b /\ Split[b].calls = << >>
<1> DEFINE e == << >>
<1>1. b \in Texts
  BY BoundedIs
<1>2. Split[b] = SplitStep(Split, b)
  BY SplitIs
<1>3. SplitStep(Split, b) = [outside |-> b, calls |-> e]
  BY <1>1, StepOfPlain
<1> HIDE DEF e
<1>4. Split[b].outside = b /\ Split[b].calls = e
  BY <1>2, <1>3
<1> QED
  BY <1>4 DEF e

LEMMA SplitOfBlock ==
  ASSUME NEW b \in Bounded, NEW u, NEW x, NEW v, BlockAt(b, u, x, v)
  PROVE  v \in Bounded /\ Split[v] \in Parts /\ BlockParts(Split[b], u, x, Split[v])
<1>1. v \in Texts /\ Len(v) < Len(b) /\ Len(v) \in Nat /\ Len(b) \in Nat
  BY BlockAtIs
<1>0. Len(b) <= MaxText /\ MaxText \in Nat
  BY BoundedIs, RepliesAssumption
<1>2. v \in Bounded
  <2>1. Len(v) <= MaxText
    BY <1>0, <1>1
  <2> QED
    BY <1>1, <2>1, BoundedIs
<1>3. Split[v] \in Parts
  BY <1>2, PartsAre
<1>4. StepFrom(Split, b, u, x, Split[v])
  BY StepOfBlock
<1>5. Split[b] = SplitStep(Split, b)
  BY SplitIs
<1>6. BlockParts(SplitStep(Split, b), u, x, Split[v])
  BY <1>3, <1>4, PartsOfBlock
<1> QED
  BY <1>2, <1>3, <1>5, <1>6

\* No longer than a text that is bounded.
LEMMA ShorterIsBounded ==
  ASSUME NEW b \in Bounded, NEW t \in Texts, Len(t) <= Len(b)
  PROVE  t \in Bounded
<1>1. Len(b) <= MaxText /\ MaxText \in Nat /\ b \in Texts
  BY BoundedIs, RepliesAssumption
<1>2. Len(b) \in Nat /\ Len(t) \in Nat
  BY <1>1, EmptyText
<1>3. Len(t) <= MaxText
  BY <1>1, <1>2
<1> QED
  BY <1>3, BoundedIs

\* The text of Opens, without what is in front of the tag.
LEMMA TagInFront ==
  ASSUME NEW v \in Texts
  PROVE  Opens(Open \o v, << >>, v) /\ Open \o v \in Texts
<1> DEFINE q == Open \o v
           e == << >>
<1>1. q \in Texts /\ e \in Texts /\ e \o q = q /\ Len(e) = 0
  BY Tags, JoinedTexts, EmptyText
<1> HIDE DEF e
<1>2. Clear({Open}, q, Len(e))
  BY <1>1 DEF Clear
<1> QED
  BY <1>1, <1>2 DEF Opens, e

LEMMA ShedInFront ==
  ASSUME NEW b \in Bounded, NEW u, NEW v, Opens(b, u, v)
  PROVE  Shed(b, u, Open \o v)
<1> DEFINE q == Open \o v
           e == << >>
<1>1. u \in Texts /\ v \in Texts /\ b = u \o q
  BY DEF Opens
<1>2. Opens(q, e, v) /\ q \in Texts /\ e \in Texts
  BY <1>1, TagInFront, EmptyText
<1>3. q \in Bounded
  <2>1. Len(b) = Len(u) + Len(q) /\ Len(u) \in Nat /\ Len(q) \in Nat
    BY <1>1, <1>2, JoinedTexts
  <2> HIDE DEF q
  <2>2. Len(q) <= Len(b)
    BY <2>1
  <2> QED
    BY <1>2, <2>2, ShorterIsBounded
<1>4. CASE ~F!Occurs(Close, v)
  <2>1. Plain(b) /\ Plain(q)
    BY <1>1, <1>2, <1>4 DEF Plain
  <2> HIDE DEF q
  <2> QED
    BY <1>1, <1>3, <2>1, SplitOfPlain DEF Shed, q
<1>5. CASE F!Occurs(Close, v)
  <2>1. PICK x, z \in Texts : Closes(v, x, z)
    BY <1>1, <1>5, CallCases
  <2>2. BlockAt(b, u, x, z) /\ BlockAt(q, e, x, z)
    BY <1>1, <1>2, <2>1 DEF BlockAt
  <2> DEFINE o == Split[z].outside
             k == Block(x)
  <2> HIDE DEF q, e
  <2>9. Split[z] \in Parts /\ BlockParts(Split[b], u, x, Split[z])
    BY <2>2, SplitOfBlock
  <2>10. BlockParts(Split[q], e, x, Split[z])
    BY <1>3, <2>2, SplitOfBlock
  <2>3. /\ Split[z] \in Parts
        /\ Split[b].outside = (IF Stripped(x) \in Calls THEN u ELSE u \o k) \o o
        /\ Split[b].calls = (IF Stripped(x) \in Calls THEN <<Stripped(x)>> ELSE << >>) \o Split[z].calls
    BY <2>9 DEF BlockParts, o, k
  <2>4. /\ Split[q].outside = (IF Stripped(x) \in Calls THEN e ELSE e \o k) \o o
        /\ Split[q].calls = (IF Stripped(x) \in Calls THEN <<Stripped(x)>> ELSE << >>) \o Split[z].calls
    BY <2>10 DEF BlockParts, o, k
  <2>5. o \in Texts /\ k \in Texts
    BY <2>3, BlockIs DEF Parts
  <2> HIDE DEF o, k
  <2>6. e \o o = o /\ e \o k = k
    BY <2>5, EmptyText DEF e
  <2>7. (u \o k) \o o = u \o (k \o o)
    <3>1. JoinsAlike(u, k, o)
      BY <1>1, <2>5, TextsJoinAlike
    <3> QED
      BY <3>1 DEF JoinsAlike
  <2>8. Split[b].outside = u \o Split[q].outside
    BY <2>3, <2>4, <2>6, <2>7
  <2> QED
    BY <1>1, <1>3, <2>3, <2>4, <2>8 DEF Shed, q
<1> QED
  BY <1>4, <1>5

LEMMA ShedWaiting ==
  ASSUME NEW b \in Bounded, NEW u, NEW v, Waits(b, u, v)
  PROVE  Shed(b, u, v)
<1>1. u \in Texts /\ v \in Texts /\ b = u \o v /\ Free({Open}, b)
  BY DEF Waits
<1>2. Len(b) = Len(u) + Len(v) /\ Len(u) \in Nat /\ Len(v) \in Nat
  BY <1>1, JoinedTexts
<1>3. v \in Bounded
  <2>1. Len(v) <= Len(b)
    BY <1>2
  <2> QED
    BY <1>1, <2>1, ShorterIsBounded
<1>4. ~F!Occurs(Open, b) /\ ~F!Occurs(Open, v)
  <2>1. ~F!Occurs(Open, b)
    BY WaitsIs
  <2>2. ASSUME NEW i \in Nat, At(Open, v, i) PROVE FALSE
    <3>1. At(Open, u \o v, Len(u) + i)
      BY <1>1, <2>2, Shifted, Tags DEF Texts
    <3> QED
      BY <1>1, <1>2, <3>1 DEF Free
  <2> QED
    BY <1>1, <2>1, <2>2, OccursIs, Tags DEF Texts
<1>5. Plain(b) /\ Plain(v)
  BY <1>4 DEF Plain
<1> QED
  BY <1>1, <1>3, <1>5, SplitOfPlain DEF Shed

\* Behind an opening tag: the block that is closed, and what follows it.
LEMMA ShedBlock ==
  ASSUME NEW b \in Texts, Open \o b \in Bounded, NEW x, NEW v, Closes(b, x, v)
  PROVE  /\ Stripped(x) \notin Calls => Shed(Open \o b, Block(x), v)
         /\ Stripped(x) \in Calls =>
              /\ v \in Bounded
              /\ Split[Open \o b].outside = Split[v].outside
              /\ Split[Open \o b].calls = <<Stripped(x)>> \o Split[v].calls
<1> DEFINE q == Open \o b
           e == << >>
           k == Block(x)
           o == Split[v].outside
<1>1. Opens(q, e, b) /\ q \in Texts
  BY TagInFront
<1>2. BlockAt(q, e, x, v)
  BY <1>1 DEF BlockAt
<1>3. x \in Texts /\ v \in Texts
  BY DEF Closes
<1>4. k \in Texts /\ e \in Texts /\ e \o k = k
  BY <1>3, BlockIs, EmptyText
<1> HIDE DEF q, e, k
<1>5. q = (e \o k) \o v
  BY <1>2, BlockAtIs DEF k
<1>6. q \in Bounded
  BY DEF q
<1>11. v \in Bounded /\ Split[v] \in Parts /\ BlockParts(Split[q], e, x, Split[v])
  BY <1>2, <1>6, SplitOfBlock
<1>7. /\ v \in Bounded /\ Split[v] \in Parts
      /\ Split[q].outside = (IF Stripped(x) \in Calls THEN e ELSE e \o k) \o o
      /\ Split[q].calls = (IF Stripped(x) \in Calls THEN <<Stripped(x)>> ELSE << >>) \o Split[v].calls
  BY <1>11 DEF BlockParts, k
<1>8. o \in Texts /\ Split[v].calls \in Seq(Texts)
  BY <1>7 DEF Parts
<1> HIDE DEF o
<1>9. e \o o = o
  BY <1>8, EmptyText DEF e
<1>10. << >> \o Split[v].calls = Split[v].calls
  BY <1>8, JoinedCalls
<1> QED
  BY <1>4, <1>5, <1>6, <1>7, <1>9, <1>10 DEF Shed, q, k, o

\* Behind an opening tag, the tag is text that is still to come.
Owed(i, b) == (IF i THEN Open ELSE << >>) \o b

\* What state a of the parser has made of a text t, of which q is still to come.
KeptAs(t, q, s, n, x, c) ==
  /\ q \in Bounded
  /\ Split[t].calls = c \o Split[q].calls
  /\ Unspaced(Split[t].outside) = Unspaced(x) \o Unspaced(Split[q].outside)
  /\ c = << >> => (x \o s) \o q = t
  /\ n = Len(c)

Kept(t, a) ==
  KeptAs(t, Owed(a.parser.inCall, a.parser.buffer), a.parser.space, a.parser.nCalls, a.text, a.calls)

LEMMA KeptIs ==
  ASSUME NEW t, NEW b, NEW s, NEW i, NEW n, NEW x, NEW c
  PROVE  Kept(t, State(b, s, i, n, x, c)) <=> KeptAs(t, Owed(i, b), s, n, x, c)
<1> DEFINE a == State(b, s, i, n, x, c)
<1>1. /\ a.parser.inCall = i /\ a.parser.buffer = b /\ a.parser.space = s
      /\ a.parser.nCalls = n /\ a.text = x /\ a.calls = c
  BY DEF State
<1> HIDE DEF a
<1> QED
  BY <1>1 DEF Kept, a

LEMMA OwedIs ==
  ASSUME NEW b \in Texts
  PROVE  Owed(Inside, b) = Open \o b /\ Owed(Outside, b) = b
<1>1. Owed(Inside, b) = Open \o b
  BY DEF Owed, Inside
<1> DEFINE e == << >>
<1>2. Owed(Outside, b) = e \o b
  BY DEF Owed, Outside
<1> HIDE DEF e
<1>3. e \o b = b
  BY EmptyText DEF e
<1> QED
  BY <1>1, <1>2, <1>3

LEMMA SpacesAreTexts ==
  ASSUME NEW s \in Spaces
  PROVE  s \in Texts /\ Unspaced(s) = << >>
<1>1. s \in Texts
  BY DEF Spaces
<1> QED
  BY <1>1, LettersAre

\* What is emitted has the letters of what was emitted before, then those of t.
LEMMA LettersAfter ==
  ASSUME NEW s \in Spaces, NEW x \in Texts, NEW u \in Texts
  PROVE  Unspaced(TextAfter(x, s, u)) = Unspaced(x) \o Unspaced(u)
<1> DEFINE y == TextAfter(x, s, u)
           g == GapAfter(s, u)
           z == x \o s
           e == << >>
<1>1. y \in Texts /\ g \in Spaces /\ y \o g = z \o u
  BY AfterTypes, AfterKeepsText
<1>2. s \in Texts /\ g \in Texts /\ Unspaced(s) = e /\ Unspaced(g) = e
  BY <1>1, SpacesAreTexts
<1>3. z \in Texts
  BY <1>2, JoinedTexts
<1> HIDE DEF y, g
<1>4. Unspaced(y \o g) = Unspaced(y) \o Unspaced(g)
  BY <1>1, <1>2, LettersOfBoth
<1>5. Unspaced(z) = Unspaced(x) \o Unspaced(s)
  BY <1>2, LettersOfBoth
<1> HIDE DEF z, e
<1>6. Unspaced(z \o u) = Unspaced(z) \o Unspaced(u)
  BY <1>3, LettersOfBoth
<1>7. \A k \in Texts : Unspaced(k) \in Texts /\ Unspaced(k) \o e = Unspaced(k)
  BY LettersAre, EmptyText DEF e
<1>8. Unspaced(y) \o e = Unspaced(y) /\ Unspaced(x) \o e = Unspaced(x)
  BY <1>1, <1>7
<1> QED
  BY <1>1, <1>2, <1>4, <1>5, <1>6, <1>8 DEF y

LEMMA KeptWhenShed ==
  ASSUME NEW t, NEW q, NEW p, NEW u, Shed(q, u, p),
         NEW s \in Spaces, NEW n, NEW x \in Texts, NEW c, KeptAs(t, q, s, n, x, c)
  PROVE  KeptAs(t, p, GapAfter(s, u), n, TextAfter(x, s, u), c)
<1> DEFINE y == TextAfter(x, s, u)
           g == GapAfter(s, u)
           o == Split[p].outside
           L == Unspaced(x)
           M == Unspaced(u)
           N == Unspaced(o)
<1>1. /\ p \in Bounded /\ p \in Texts /\ u \in Texts /\ q = u \o p
      /\ Split[q].outside = u \o o /\ Split[q].calls = Split[p].calls
  BY BoundedIs DEF Shed
<1>2. o \in Texts
  BY <1>1, PartsAre DEF Parts
<1>3. Split[t].calls = c \o Split[p].calls
  BY <1>1 DEF KeptAs
<1>4. Unspaced(Split[t].outside) = Unspaced(y) \o N
  <2>1. Unspaced(y) = L \o M
    BY <1>1, LettersAfter
  <2> HIDE DEF o
  <2>2. Unspaced(u \o o) = M \o N
    BY <1>1, <1>2, LettersOfBoth
  <2>3. Unspaced(Split[t].outside) = L \o (M \o N)
    BY <1>1, <2>2 DEF KeptAs
  <2>4. L \in Texts /\ M \in Texts /\ N \in Texts
    BY <1>1, <1>2, LettersAre
  <2> HIDE DEF L, M, N
  <2>5. (L \o M) \o N = L \o (M \o N)
    BY <2>4, TextsAssociate
  <2> QED
    BY <2>1, <2>3, <2>5
<1>5. ASSUME c = << >> PROVE (y \o g) \o p = t
  <2> DEFINE z == x \o s
  <2>1. y \o g = z \o u
    BY <1>1, AfterKeepsText
  <2>2. z \in Texts
    BY SpacesAreTexts, JoinedTexts
  <2>3. z \o q = t
    BY <1>5 DEF KeptAs
  <2> HIDE DEF z, y, g
  <2>4. (z \o u) \o p = z \o (u \o p)
    BY <1>1, <2>2, TextsAssociate
  <2> QED
    BY <1>1, <2>1, <2>3, <2>4
<1>6. n = Len(c)
  BY DEF KeptAs
<1> HIDE DEF y, g
<1> QED
  BY <1>1, <1>3, <1>4, <1>5, <1>6 DEF KeptAs, y, g

LEMMA KeptWhenCalled ==
  ASSUME NEW b \in Texts, Open \o b \in Bounded, NEW d, NEW v, Closes(b, d, v),
         Stripped(d) \in Calls,
         NEW t, NEW s, NEW n, NEW x \in Texts, NEW c \in Seq(Texts),
         KeptAs(t, Open \o b, s, n, x, c)
  PROVE  KeptAs(t, v, << >>, n + 1, x, Append(c, Stripped(d)))
<1> DEFINE q == Open \o b
           k == Stripped(d)
           f == <<k>>
           r == Split[v].calls
           a == Append(c, k)
<1>1. /\ v \in Bounded /\ Split[q].outside = Split[v].outside
      /\ Split[q].calls = f \o r
  BY ShedBlock
<1>2. r \in Seq(Texts)
  BY <1>1, PartsAre DEF Parts
<1>3. k \in Texts
  BY StrippedTypes DEF Closes
<1>4. /\ Split[t].calls = c \o Split[q].calls
      /\ Unspaced(Split[t].outside) = Unspaced(x) \o Unspaced(Split[q].outside)
      /\ n = Len(c)
  BY DEF KeptAs
<1> HIDE DEF q, k, r
<1>5. a = c \o f /\ f \in Seq(Texts) /\ Len(a) = Len(c) + 1
  BY <1>3, CallAppended
<1> HIDE DEF f
<1>6. (c \o f) \o r = c \o (f \o r)
  BY <1>2, <1>5, Associative
<1> DEFINE e == << >>
<1> HIDE DEF a
<1>7. a # e
  <2>1. Len(e) = 0 /\ Len(c) \in Nat
    OBVIOUS
  <2> HIDE DEF e
  <2> QED
    BY <1>5, <2>1
<1>8. Split[t].calls = a \o r
  BY <1>1, <1>4, <1>5, <1>6
<1>9. n + 1 = Len(a)
  BY <1>4, <1>5
<1> HIDE DEF e
<1>10. KeptAs(t, v, e, n + 1, x, a)
  BY <1>1, <1>4, <1>7, <1>8, <1>9 DEF KeptAs, r, e
<1> QED
  BY <1>10 DEF e, a, k

\* No round loses anything.
LEMMA KeptByScan ==
  ASSUME NEW t, NEW a \in States, Kept(t, a)
  PROVE  Kept(t, Scan(a))
<1> DEFINE z == Scan(a)
<1>1. Round(a, z)
  BY EveryRound
<1> HIDE DEF z
<1>2. PICK b \in Texts, s \in Spaces, n \in Nat, x \in Texts, c \in Seq(Texts) :
    \/ \E u, v \in Texts :
         /\ Opens(b, u, v) /\ a = State(b, s, Outside, n, x, c)
         /\ z = State(v, GapAfter(s, u), Inside, n, TextAfter(x, s, u), c)
    \/ \E u, v \in Texts :
         /\ Waits(b, u, v) /\ a = State(b, s, Outside, n, x, c)
         /\ z = State(v, GapAfter(s, u), Outside, n, TextAfter(x, s, u), c)
    \/ ~F!Occurs(Close, b) /\ a = State(b, s, Inside, n, x, c) /\ z = a
    \/ \E u, v \in Texts :
         /\ Closes(b, u, v) /\ Stripped(u) \in Calls /\ a = State(b, s, Inside, n, x, c)
         /\ z = State(v, << >>, Outside, n + 1, x, Append(c, Stripped(u)))
    \/ \E u, v \in Texts :
         /\ Closes(b, u, v) /\ Stripped(u) \notin Calls /\ a = State(b, s, Inside, n, x, c)
         /\ z = State(v, GapAfter(s, Block(u)), Outside, n, TextAfter(x, s, Block(u)), c)
  BY <1>1 DEF Round
<1>3. ASSUME NEW u \in Texts, NEW v \in Texts,
             Opens(b, u, v), a = State(b, s, Outside, n, x, c),
             z = State(v, GapAfter(s, u), Inside, n, TextAfter(x, s, u), c)
      PROVE  Kept(t, z)
  <2>1. KeptAs(t, Owed(Outside, b), s, n, x, c)
    BY <1>3, KeptIs
  <2>2. KeptAs(t, b, s, n, x, c)
    BY <2>1, OwedIs
  <2>3. b \in Bounded
    BY <2>2 DEF KeptAs
  <2>4. Shed(b, u, Open \o v)
    BY <1>3, <2>3, ShedInFront
  <2>5. KeptAs(t, Open \o v, GapAfter(s, u), n, TextAfter(x, s, u), c)
    BY <2>2, <2>4, KeptWhenShed
  <2>6. KeptAs(t, Owed(Inside, v), GapAfter(s, u), n, TextAfter(x, s, u), c)
    BY <2>5, OwedIs
  <2> QED
    BY <1>3, <2>6, KeptIs
<1>4. ASSUME NEW u \in Texts, NEW v \in Texts,
             Waits(b, u, v), a = State(b, s, Outside, n, x, c),
             z = State(v, GapAfter(s, u), Outside, n, TextAfter(x, s, u), c)
      PROVE  Kept(t, z)
  <2>1. KeptAs(t, Owed(Outside, b), s, n, x, c)
    BY <1>4, KeptIs
  <2>2. KeptAs(t, b, s, n, x, c)
    BY <2>1, OwedIs
  <2>3. b \in Bounded
    BY <2>2 DEF KeptAs
  <2>4. Shed(b, u, v)
    BY <1>4, <2>3, ShedWaiting
  <2>5. KeptAs(t, v, GapAfter(s, u), n, TextAfter(x, s, u), c)
    BY <2>2, <2>4, KeptWhenShed
  <2>6. KeptAs(t, Owed(Outside, v), GapAfter(s, u), n, TextAfter(x, s, u), c)
    BY <2>5, OwedIs
  <2> QED
    BY <1>4, <2>6, KeptIs
<1>5. ASSUME NEW u \in Texts, NEW v \in Texts,
             Closes(b, u, v), Stripped(u) \in Calls, a = State(b, s, Inside, n, x, c),
             z = State(v, << >>, Outside, n + 1, x, Append(c, Stripped(u)))
      PROVE  Kept(t, z)
  <2> DEFINE e == << >>
             d == Append(c, Stripped(u))
             m == n + 1
             q == Open \o b
  <2>1. KeptAs(t, Owed(Inside, b), s, n, x, c)
    BY <1>5, KeptIs
  <2>2. KeptAs(t, q, s, n, x, c)
    BY <2>1, OwedIs
  <2>3. q \in Bounded
    BY <2>2 DEF KeptAs
  <2>4. KeptAs(t, v, e, m, x, d)
    BY <1>5, <2>2, <2>3, KeptWhenCalled
  <2>5. z = State(v, e, Outside, m, x, d)
    BY <1>5
  <2> HIDE DEF e, d, m
  <2>6. KeptAs(t, Owed(Outside, v), e, m, x, d)
    BY <2>4, OwedIs
  <2> QED
    BY <2>5, <2>6, KeptIs
<1>6. ASSUME NEW u \in Texts, NEW v \in Texts,
             Closes(b, u, v), Stripped(u) \notin Calls, a = State(b, s, Inside, n, x, c),
             z = State(v, GapAfter(s, Block(u)), Outside, n, TextAfter(x, s, Block(u)), c)
      PROVE  Kept(t, z)
  <2> DEFINE k == Block(u)
             q == Open \o b
  <2>1. KeptAs(t, Owed(Inside, b), s, n, x, c)
    BY <1>6, KeptIs
  <2>2. KeptAs(t, q, s, n, x, c)
    BY <2>1, OwedIs
  <2>3. q \in Bounded
    BY <2>2 DEF KeptAs
  <2>4. Shed(q, k, v)
    BY <1>6, <2>3, ShedBlock
  <2> HIDE DEF k, q
  <2>5. KeptAs(t, v, GapAfter(s, k), n, TextAfter(x, s, k), c)
    BY <2>2, <2>4, KeptWhenShed
  <2>6. KeptAs(t, Owed(Outside, v), GapAfter(s, k), n, TextAfter(x, s, k), c)
    BY <2>5, OwedIs
  <2> QED
    BY <1>6, <2>6, KeptIs DEF k
<1>7. Kept(t, z)
  BY <1>2, <1>3, <1>4, <1>5, <1>6
<1> QED
  BY <1>7 DEF z

LEMMA KeptToTheEnd ==
  ASSUME NEW t, NEW a, NEW b, Ends(a, b), Kept(t, a)
  PROVE  Kept(t, b)
<1> DEFINE R == {x \in States : Kept(t, x)}
<1>1. a \in States /\ R \subseteq States
  BY DEF Ends
<1>2. \A x \in R : Scan(x) \in R
  BY KeptByScan, RoundsAre
<1>3. a \in R
  BY <1>1
<1> HIDE DEF R
<1>4. b \in R
  BY <1>1, <1>2, <1>3 DEF Ends, Closed
<1> QED
  BY <1>4 DEF R

\* The parser that has read a bounded text.
LEMMA PushKeeps ==
  ASSUME NEW t \in Bounded
  PROVE  Kept(t, Push(NewParser, t)) /\ Ends(Start(NewParser, t), Push(NewParser, t))
<1> DEFINE e == << >>
           c == << >>
           zero == 0
<1>1. t \in Texts
  BY BoundedIs
<1>2. NewParser \in Parsers
  BY NewParserIs
<1>3. /\ NewParser.buffer = e /\ NewParser.space = e /\ NewParser.inCall = Outside
      /\ NewParser.nCalls = zero
  BY DEF NewParser, Outside
<1>4. Start(NewParser, t)
        = State(NewParser.buffer \o t, NewParser.space, NewParser.inCall, NewParser.nCalls, e, c)
  BY <1>1, <1>2, StartIs
<1>5. e \in Texts /\ e \in Spaces /\ \A k \in Texts : e \o k = k /\ k \o e = k
  BY EmptyText, JoinedSpaces
<1>6. Unspaced(e) = e
  BY <1>5, LettersAre
<1>7. \A k \in Seq(Texts) : c \o k = k
  BY JoinedCalls
<1>8. zero = Len(c)
  OBVIOUS
<1> HIDE DEF e, c, zero
<1>9. e \o t = t
  BY <1>1, <1>5
<1>10. Start(NewParser, t) = State(t, e, Outside, zero, e, c)
  BY <1>3, <1>4, <1>9
<1>11. Split[t] \in Parts
  BY PartsAre
<1>12. Split[t].calls \in Seq(Texts) /\ Unspaced(Split[t].outside) \in Texts
  BY <1>11, LettersAre DEF Parts
<1>13. KeptAs(t, t, e, zero, e, c)
  <2>1. Split[t].calls = c \o Split[t].calls
    BY <1>7, <1>12
  <2>2. Unspaced(Split[t].outside) = Unspaced(e) \o Unspaced(Split[t].outside)
    BY <1>5, <1>6, <1>12
  <2>3. (e \o e) \o t = t
    BY <1>5, <1>9
  <2>4. c = << >> => (e \o e) \o t = t
    BY <2>3
  <2> QED
    BY <1>8, <2>1, <2>2, <2>4 DEF KeptAs
<1>14. KeptAs(t, Owed(Outside, t), e, zero, e, c)
  BY <1>1, <1>13, OwedIs
<1>15. Kept(t, Start(NewParser, t))
  BY <1>10, <1>14, KeptIs
<1>16. Ends(Start(NewParser, t), Push(NewParser, t))
  BY <1>1, <1>2, PushEnds
<1> QED
  BY <1>15, <1>16, KeptToTheEnd

\* Behind the rounds no whole block is left.
LEMMA EndIsPlain ==
  ASSUME NEW a \in States, Scan(a) = a
  PROVE  Plain(Owed(a.parser.inCall, a.parser.buffer))
<1>1. PICK b \in Texts, s \in Spaces, i \in BOOLEAN, n \in Nat, x \in Texts, c \in Seq(Texts) :
        a = State(b, s, i, n, x, c)
  BY FieldsOf
<1>2. a.parser.inCall = i /\ a.parser.buffer = b
  BY <1>1 DEF State
<1>3. CASE i = Outside
  <2>1. PICK u, v \in Texts : Opens(b, u, v) \/ Waits(b, u, v)
    BY TextCases
  <2>2. ASSUME Opens(b, u, v) PROVE FALSE
    <3> DEFINE g == GapAfter(s, u)
               y == TextAfter(x, s, u)
    <3>1. a = State(v, g, Inside, n, y, c)
      BY <1>1, <1>3, <2>2, ScanOpens
    <3> HIDE DEF g, y
    <3>2. a.parser.inCall = Inside
      BY <3>1 DEF State
    <3> QED
      BY <1>2, <1>3, <3>2, Sides
  <2>3. ~F!Occurs(Open, b)
    BY <2>1, <2>2, WaitsIs
  <2>4. Plain(b)
    BY <2>3 DEF Plain
  <2> QED
    BY <1>2, <1>3, <2>4, OwedIs
<1>4. CASE i = Inside
  <2>1. ASSUME NEW u \in Texts, NEW v \in Texts, Closes(b, u, v) PROVE FALSE
    <3> DEFINE k == Stripped(u)
               g == GapAfter(s, Block(u))
               y == TextAfter(x, s, Block(u))
               e == << >>
               m == n + 1
               d == Append(c, k)
    <3>1. a = IF k \in Calls THEN State(v, e, Outside, m, x, d) ELSE State(v, g, Outside, n, y, c)
      BY <1>1, <1>4, <2>1, ScanCloses
    <3> HIDE DEF k, g, y, e, m, d
    <3>2. a = State(v, e, Outside, m, x, d) \/ a = State(v, g, Outside, n, y, c)
      BY <3>1
    <3>3. a.parser.inCall = Outside
      BY <3>2 DEF State
    <3> QED
      BY <1>2, <1>4, <3>3, Sides
  <2>2. ~F!Occurs(Close, b)
    BY <2>1, CallCases
  <2> DEFINE q == Open \o b
             e == << >>
  <2>3. Opens(q, e, b) /\ e \in Texts
    BY TagInFront, EmptyText
  <2> HIDE DEF q, e
  <2>4. Plain(q)
    BY <2>2, <2>3 DEF Plain
  <2>5. Owed(i, b) = q
    BY <1>4, OwedIs DEF q
  <2> QED
    BY <1>2, <2>4, <2>5
<1> QED
  BY <1>3, <1>4, Sides

\* What a parser hands back at the end.
LEMMA FlushOf ==
  ASSUME NEW p \in Parsers, NEW q \in Texts, q = Owed(p.inCall, p.buffer)
  PROVE  Flush(p) = TextAfter(<< >>, p.space, q)
                      \o (IF p.nCalls = 0 THEN GapAfter(p.space, q) ELSE << >>)
<1> DEFINE last == Emitted([parser |-> p, text |-> << >>], q)
<1>1. /\ last.text = TextAfter(<< >>, p.space, q)
      /\ last.parser.space = GapAfter(p.space, q)
  BY EmittedTypes
<1>2. (IF p.inCall THEN Open ELSE << >>) \o p.buffer = q
  BY DEF Owed
<1>3. Flush(p) = last.text \o (IF p.nCalls = 0 THEN last.parser.space ELSE << >>)
  BY <1>2, Zenon DEF Flush
<1> HIDE DEF last
<1> QED
  BY <1>1, <1>3

\* A body k of a text t that loses nothing of it.
Lossless(k, t) ==
  /\ k.calls = Split[t].calls
  /\ Unspaced(k.content) = Unspaced(Split[t].outside)
  /\ k.calls = << >> => k.content = t

LEMMA BodyIsLossless ==
  ASSUME NEW t \in Bounded
  PROVE  Lossless(Body(TRUE, t), t)
<1> DEFINE a == Push(NewParser, t)
           p == a.parser
           q == Owed(p.inCall, p.buffer)
           s == p.space
           x == a.text
           c == a.calls
           k == Body(TRUE, t)
           f == Flush(p)
           e == << >>
           E == << >>
           y == TextAfter(e, s, q)
           g == GapAfter(s, q)
<1>1. k = [content |-> x \o f, calls |-> c]
  BY DEF Body, Parsed
<1>2. Kept(t, a) /\ Ends(Start(NewParser, t), a)
  BY PushKeeps
<1> HIDE DEF k, a
<1>3. a \in States /\ Scan(a) = a
  BY <1>2 DEF Ends
<1>4. /\ p \in Parsers /\ p.buffer \in Texts /\ s \in Spaces /\ x \in Texts /\ c \in Seq(Texts)
      /\ p.nCalls \in Nat
  BY <1>3 DEF States, Parsers
<1>5. Plain(q)
  BY <1>3, EndIsPlain
<1>6. KeptAs(t, q, s, p.nCalls, x, c)
  BY <1>2 DEF Kept
<1> HIDE DEF x, c, s
<1>7. f = y \o (IF p.nCalls = 0 THEN g ELSE e)
  <2>1. q \in Texts
    BY <1>6, BoundedIs DEF KeptAs
  <2>2. Flush(p) = TextAfter(<< >>, p.space, q)
                     \o (IF p.nCalls = 0 THEN GapAfter(p.space, q) ELSE << >>)
    BY <1>4, <2>1, FlushOf
  <2> QED
    BY <2>2 DEF s
<1> HIDE DEF p, q, f
<1>8. q \in Bounded /\ q \in Texts /\ Split[q].outside = q /\ Split[q].calls = E
  BY <1>5, <1>6, BoundedIs, SplitOfPlain DEF KeptAs
<1>9. /\ Split[t].calls = c \o E
      /\ Unspaced(Split[t].outside) = Unspaced(x) \o Unspaced(q)
      /\ c = E => (x \o s) \o q = t
      /\ p.nCalls = Len(c)
  BY <1>6, <1>8 DEF KeptAs
<1>10. c \o E = c /\ (Len(c) = 0 <=> c = E)
  BY <1>4, JoinedCalls
<1>11. e \in Texts /\ \A w \in Texts : e \o w = w /\ w \o e = w
  BY EmptyText
<1>12. Unspaced(e) = e
  BY JoinedSpaces, LettersAre, EmptyText
<1>13. s \in Texts
  BY <1>4, SpacesAreTexts
<1> HIDE DEF e, E
<1>14. /\ y \in Texts /\ g \in Spaces /\ g \in Texts /\ y \o g = (e \o s) \o q
       /\ Unspaced(y) = Unspaced(e) \o Unspaced(q) /\ Unspaced(g) = e
  <2>1. y \in Texts /\ g \in Spaces
    BY <1>4, <1>8, <1>11, AfterTypes
  <2>2. y \o g = (e \o s) \o q
    BY <1>4, <1>8, <1>11, AfterKeepsText
  <2>3. Unspaced(y) = Unspaced(e) \o Unspaced(q)
    BY <1>4, <1>8, <1>11, LettersAfter
  <2> HIDE DEF y, g
  <2>4. g \in Texts /\ Unspaced(g) = e
    BY <2>1, SpacesAreTexts DEF e
  <2> QED
    BY <2>1, <2>2, <2>3, <2>4
<1>15. Unspaced(q) \in Texts /\ Unspaced(y) = Unspaced(q) /\ y \o g = s \o q
  BY <1>8, <1>11, <1>12, <1>13, <1>14, LettersAre
<1> HIDE DEF y, g
<1>16. k.calls = c /\ k.content = x \o f
  BY <1>1
<1>17. Unspaced(x \o f) = Unspaced(x) \o Unspaced(q)
  <2>1. f = y \o g \/ f = y \o e
    BY <1>7
  <2>2. ASSUME NEW w \in Texts, Unspaced(w) = e PROVE Unspaced(y \o w) = Unspaced(q)
    <3>1. Unspaced(y \o w) = Unspaced(y) \o Unspaced(w)
      BY <1>14, LettersOfBoth
    <3> QED
      BY <1>11, <1>15, <2>2, <3>1
  <2>3. f \in Texts /\ Unspaced(f) = Unspaced(q)
    BY <1>11, <1>12, <1>14, <2>1, <2>2, JoinedTexts
  <2>4. Unspaced(x \o f) = Unspaced(x) \o Unspaced(f)
    BY <1>4, <2>3, LettersOfBoth
  <2> QED
    BY <2>3, <2>4
<1>18. ASSUME c = E PROVE x \o f = t
  <2>1. f = s \o q
    BY <1>7, <1>9, <1>10, <1>15, <1>18
  <2>2. (x \o s) \o q = x \o (s \o q)
    BY <1>4, <1>8, <1>13, TextsAssociate
  <2> QED
    BY <1>9, <1>18, <2>1, <2>2
<1> QED
  BY <1>9, <1>10, <1>16, <1>17, <1>18 DEF Lossless, k, E

\* The filter releases no more than the text.
LEMMA CutIsBounded ==
  ASSUME NEW stops \in SUBSET (Texts \ {<< >>}), NEW t \in Bounded
  PROVE  Cut(stops, t) \in Bounded
<1>1. t \in Texts
  BY BoundedIs
<1>2. CASE Free(stops, t)
  BY <1>1, <1>2, UncutText
<1>3. CASE ~Free(stops, t)
  <2>1. PICK s \in stops : \E i \in Nat : At(s, t, i)
    BY <1>3 DEF Free
  <2>2. F!Occurs(s, t)
    BY <1>1, <2>1, OccursIs DEF Texts
  <2> DEFINE m == F!FirstStopMatch(t, stops)
             x == F!FirstOffset(m, t)
  <2>3. CompletedFirst(m, stops, t, x)
    BY <1>1, <2>2, FirstStopMatchIs DEF Texts
  <2> HIDE DEF m, x
  <2>4. Cut(stops, t) = Upto(t, x)
    BY <1>1, <2>3, CutText
  <2>5. x \in Nat /\ x + Len(m) <= Len(t) /\ m \in Texts
    BY <2>3 DEF CompletedFirst, At
  <2>6. x \in 0 .. Len(t) /\ Len(t) \in Nat
    BY <1>1, <2>5, EmptyText
  <2>7. Upto(t, x) \in Texts /\ Len(Upto(t, x)) = x
    BY <1>1, <2>6, DividedText
  <2> QED
    BY <2>4, <2>6, <2>7, ShorterIsBounded
<1> QED
  BY <1>2, <1>3

LEMMA AssembledLosesNothing ==
  Filtered /\ Assembled /\ Streamed => NothingIsLost
<1> SUFFICES ASSUME Filtered, Assembled, Streamed, request.parsing, phase = "finished"
             PROVE  NothingIsLost
  BY DEF NothingIsLost
<1>1. raw = Cut(Stops, said) /\ Stops \in SUBSET (Texts \ {<< >>})
  BY StopsAre DEF Filtered, Ended
<1>2. said \in Bounded
  BY BoundedIs DEF Filtered, Streamed
<1>3. raw \in Bounded
  BY <1>1, <1>2, CutIsBounded
<1>4. request.parsing = TRUE
  BY StopsAre DEF Filtered
<1>5. Lossless(Body(request.parsing, raw), raw)
  BY <1>3, <1>4, BodyIsLossless
<1>6. /\ chat.content = Body(request.parsing, raw).content
      /\ chat.calls = Body(request.parsing, raw).calls
  BY DEF Assembled
<1> QED
  BY <1>5, <1>6 DEF Lossless, NothingIsLost

\* No generated character is lost or sent twice: what is assembled from the
\* frames is the text without its calls, but for the gaps around these, and the
\* text itself if it holds none.
THEOREM NothingLost == Spec => []NothingIsLost
<1>1. Filtered /\ Assembled /\ Streamed => NothingIsLost
  BY AssembledLosesNothing
<1> QED
  BY <1>1, TextIsFiltered, FramesAreAssembled, EventsAreStreamed, PTL
==============================================================================
