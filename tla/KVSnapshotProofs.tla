--------------------------- MODULE KVSnapshotProofs ---------------------------
(***************************************************************************)
(* Proofs about KVSnapshot, for every number of slots, cells, saves and    *)
(* restarts, with rows that raise and files that fail: slots are conserved, *)
(* what is saved is the text of its request, and what is restored goes on  *)
(* from its own text.                                                      *)
(***************************************************************************)
EXTENDS KVSnapshot, TLAPS, WellFoundedInduction, SequenceTheorems

-----------------------------------------------------------------------------
(* Numbers and sequences. *)

LEMMA SmallestOf ==
  ASSUME NEW S, S \subseteq Nat, S # {}
  PROVE  Min(S) \in S /\ \A y \in S : Min(S) <= y
<1>1. PICK x \in S : \A y \in S : ~ (<<y, x>> \in OpToRel(<, Nat))
  BY NatLessThanWellFounded, WFMin
<1>2. ASSUME NEW y \in S, y < x PROVE FALSE
  <2>1. <<y, x>> \in Nat \X Nat /\ <<y, x>>[1] < <<y, x>>[2]
    BY <1>2
  <2>2. <<y, x>> \in OpToRel(<, Nat)
    BY <2>1, Zenon DEF OpToRel
  <2> QED
    BY <1>1, <2>2
<1>3. \A y \in S : x <= y
  BY <1>2
<1> QED
  BY <1>3 DEF Min

\* The first n tokens of s.
Begin(s, n) == SubSeq(s, 1, n)

\* Prompt p with output o after it.
Text(p, o) == p \o o

LEMMA BeginIs ==
  ASSUME NEW S, NEW s \in Seq(S), NEW n \in 0 .. Len(s)
  PROVE  /\ Begin(s, n) \in Seq(S)
         /\ Len(Begin(s, n)) = n
         /\ \A i \in 1 .. n : Begin(s, n)[i] = s[i]
<1>1. Len(s) \in Nat /\ n \in Nat /\ \A i \in 1 .. n : s[i] \in S
  BY LenProperties, ElementOfSeq
<1>2. /\ SubSeq(s, 1, n) \in Seq(S)
      /\ Len(SubSeq(s, 1, n)) = IF 1 <= n THEN n - 1 + 1 ELSE 0
      /\ \A i \in 1 .. n - 1 + 1 : SubSeq(s, 1, n)[i] = s[1 + i - 1]
  BY <1>1, SubSeqProperties
<1>3. n - 1 + 1 = n /\ (IF 1 <= n THEN n - 1 + 1 ELSE 0) = n
  BY <1>1
<1>4. \A i \in 1 .. n : 1 + i - 1 = i
  OBVIOUS
<1> QED
  BY <1>2, <1>3, <1>4 DEF Begin

LEMMA ChunkIs ==
  ASSUME NEW S, NEW q \in Seq(S), NEW a \in Nat, NEW c \in Nat, a + c <= Len(q)
  PROVE  /\ SubSeq(q, a + 1, a + c) \in Seq(S)
         /\ Len(SubSeq(q, a + 1, a + c)) = c
         /\ \A i \in 1 .. c : SubSeq(q, a + 1, a + c)[i] = q[a + i]
<1> DEFINE m == a + 1
           n == a + c
<1>1. m \in Int /\ n \in Int /\ n - m + 1 = c /\ (m <= n <=> c # 0)
  OBVIOUS
<1>2. \A i \in 1 .. c : m + i - 1 = a + i
  OBVIOUS
<1>3. \A i \in m .. n : q[i] \in S
  BY LenProperties, ElementOfSeq
<1> HIDE DEF m, n
<1>4. /\ SubSeq(q, m, n) \in Seq(S)
      /\ Len(SubSeq(q, m, n)) = IF m <= n THEN n - m + 1 ELSE 0
      /\ \A i \in 1 .. n - m + 1 : SubSeq(q, m, n)[i] = q[m + i - 1]
  BY <1>1, <1>3, SubSeqProperties
<1>5. Len(SubSeq(q, m, n)) = c
  BY <1>1, <1>4
<1>6. \A i \in 1 .. c : SubSeq(q, m, n)[i] = q[a + i]
  BY <1>1, <1>2, <1>4
<1> QED
  BY <1>4, <1>5, <1>6 DEF m, n

LEMMA JoinedIs ==
  ASSUME NEW S, NEW s \in Seq(S), NEW t \in Seq(S)
  PROVE  /\ s \o t \in Seq(S)
         /\ Len(s \o t) = Len(s) + Len(t)
         /\ \A i \in 1 .. Len(s) : (s \o t)[i] = s[i]
         /\ \A i \in 1 .. Len(t) : (s \o t)[Len(s) + i] = t[i]
<1>1. Len(s) \in Nat /\ Len(t) \in Nat
  BY LenProperties
<1>2. PICK x : x = s \o t
  OBVIOUS
<1>3. /\ x \in Seq(S) /\ Len(x) = Len(s) + Len(t)
      /\ \A i \in 1 .. Len(s) + Len(t) : x[i] = IF i <= Len(s) THEN s[i] ELSE t[i - Len(s)]
  BY <1>2, ConcatProperties
<1>4. \A i \in 1 .. Len(s) : x[i] = s[i]
  BY <1>1, <1>3
<1>5. ASSUME NEW i \in 1 .. Len(t) PROVE x[Len(s) + i] = t[i]
  <2>1. /\ Len(s) + i \in 1 .. Len(s) + Len(t) /\ ~ (Len(s) + i <= Len(s))
        /\ Len(s) + i - Len(s) = i
    BY <1>1
  <2> QED
    BY <1>3, <2>1
<1> QED
  BY <1>2, <1>3, <1>4, <1>5

LEMMA RangeOfAppend ==
  ASSUME NEW S, NEW f \in Seq(S), NEW s \in S
  PROVE  /\ Range(Append(f, s)) = Range(f) \cup {s}
         /\ IsInjective(f) /\ s \notin Range(f) => IsInjective(Append(f, s))
<1>1. /\ DOMAIN f = 1 .. Len(f) /\ Len(f) \in Nat
      /\ DOMAIN Append(f, s) = 1 .. Len(f) + 1
      /\ \A i \in 1 .. Len(f) : Append(f, s)[i] = f[i]
      /\ Append(f, s)[Len(f) + 1] = s
  BY LenProperties, AppendProperties
<1>2. ASSUME NEW x \in Range(Append(f, s)) PROVE x \in Range(f) \cup {s}
  BY <1>1 DEF Range
<1>3. ASSUME NEW x \in Range(f) \cup {s} PROVE x \in Range(Append(f, s))
  BY <1>1 DEF Range
<1>4. ASSUME IsInjective(f), s \notin Range(f) PROVE IsInjective(Append(f, s))
  BY <1>1, <1>4 DEF IsInjective, Range
<1> QED
  BY <1>2, <1>3, <1>4

LEMMA RangeOfTail ==
  ASSUME NEW S, NEW f \in Seq(S), f # << >>, IsInjective(f)
  PROVE  /\ Head(f) \in Range(f)
         /\ Range(Tail(f)) = Range(f) \ {Head(f)}
         /\ IsInjective(Tail(f))
<1>1. /\ DOMAIN f = 1 .. Len(f) /\ Len(f) \in Nat \ {0}
      /\ DOMAIN Tail(f) = 1 .. Len(f) - 1
      /\ \A i \in 1 .. Len(f) - 1 : Tail(f)[i] = f[i + 1]
      /\ Head(f) = f[1]
  BY LenProperties, HeadTailProperties, EmptySeq
<1>2. ASSUME NEW x \in Range(Tail(f)) PROVE x \in Range(f) \ {Head(f)}
  <2>1. PICK i \in 1 .. Len(f) - 1 : x = f[i + 1]
    BY <1>1 DEF Range
  <2>2. i + 1 \in DOMAIN f /\ 1 \in DOMAIN f /\ i + 1 # 1
    BY <1>1
  <2> QED
    BY <1>1, <2>1, <2>2 DEF Range, IsInjective
<1>3. ASSUME NEW x \in Range(f) \ {Head(f)} PROVE x \in Range(Tail(f))
  <2>1. PICK i \in 1 .. Len(f) : x = f[i]
    BY <1>1 DEF Range
  <2>2. i # 1
    BY <1>1, <2>1
  <2>3. i - 1 \in DOMAIN Tail(f) /\ Tail(f)[i - 1] = f[(i - 1) + 1]
    BY <1>1, <2>2
  <2>4. (i - 1) + 1 = i
    OBVIOUS
  <2> QED
    BY <2>1, <2>3, <2>4, Zenon DEF Range
<1>4. IsInjective(Tail(f))
  BY <1>1 DEF IsInjective
<1>5. Head(f) \in Range(f)
  BY <1>1 DEF Range
<1> QED
  BY <1>2, <1>3, <1>4, <1>5

\* RemoveAt(s, i): what is where in the shorter sequence.
LEMMA RemovedAt ==
  ASSUME NEW S, NEW s \in Seq(S), NEW i \in 1 .. Len(s)
  PROVE  /\ RemoveAt(s, i) \in Seq(S)
         /\ Len(RemoveAt(s, i)) = Len(s) - 1
         /\ \A j \in 1 .. Len(s) - 1 :
              RemoveAt(s, i)[j] = IF j < i THEN s[j] ELSE s[j + 1]
<1> DEFINE a == SubSeq(s, 1, i - 1)
           b == SubSeq(s, i + 1, Len(s))
<1>0. Len(s) \in Nat /\ \A j \in 1 .. Len(s) : s[j] \in S
  BY LenProperties, ElementOfSeq
<1>1. a \in Seq(S) /\ Len(a) = i - 1 /\ \A j \in 1 .. i - 1 : a[j] = s[j]
  BY <1>0, SubSeqProperties
<1>2. /\ b \in Seq(S) /\ Len(b) = Len(s) - i
      /\ \A j \in 1 .. Len(s) - i : b[j] = s[i + j]
  BY <1>0, SubSeqProperties
<1>3. RemoveAt(s, i) = a \o b
  BY DEF RemoveAt
<1> HIDE DEF a, b
<1>4. /\ a \o b \in Seq(S)
      /\ Len(a \o b) = Len(s) - 1
      /\ \A j \in 1 .. Len(s) - 1 :
           (a \o b)[j] = IF j < i THEN a[j] ELSE b[j - (i - 1)]
  <2>1. /\ a \o b \in Seq(S)
        /\ Len(a \o b) = Len(a) + Len(b)
        /\ \A j \in 1 .. Len(a) + Len(b) :
             (a \o b)[j] = IF j <= Len(a) THEN a[j] ELSE b[j - Len(a)]
    BY <1>1, <1>2, ConcatProperties
  <2> QED
    BY <1>0, <1>1, <1>2, <2>1
<1>5. ASSUME NEW j \in 1 .. Len(s) - 1
      PROVE  (a \o b)[j] = IF j < i THEN s[j] ELSE s[j + 1]
  BY <1>0, <1>1, <1>2, <1>4
<1> QED
  BY <1>3, <1>4, <1>5

LEMMA TokensJoined ==
  \A s \in Seq(Token), t \in Seq(Token) : \A x : x = s \o t =>
    /\ x \in Seq(Token) /\ Len(x) = Len(s) + Len(t)
    /\ \A i \in 1 .. Len(s) : x[i] = s[i]
    /\ \A i \in 1 .. Len(t) : x[Len(s) + i] = t[i]
BY JoinedIs

LEMMA TextIs ==
  ASSUME NEW p \in Seq(Token), NEW o \in Seq(Token)
  PROVE  /\ Text(p, o) \in Seq(Token)
         /\ Len(Text(p, o)) = Len(p) + Len(o)
         /\ \A i \in 1 .. Len(p) : Text(p, o)[i] = p[i]
         /\ \A i \in 1 .. Len(o) : Text(p, o)[Len(p) + i] = o[i]
         /\ Len(p) \in Nat /\ Len(o) \in Nat
BY JoinedIs, LenProperties DEF Text

\* Sequences that begin alike have the same beginning.
LEMMA SameBegin ==
  ASSUME NEW s \in Seq(Token), NEW t \in Seq(Token), NEW n \in 0 .. Len(s), n <= Len(t),
         \A i \in 1 .. n : s[i] = t[i]
  PROVE  Begin(s, n) = Begin(t, n)
<1>1. n \in 0 .. Len(t) /\ n \in Nat
  BY LenProperties
<1>2. PICK b : b = Begin(s, n)
  OBVIOUS
<1>3. b \in Seq(Token) /\ Len(b) = n /\ \A i \in 1 .. n : b[i] = s[i]
  BY <1>2, BeginIs
<1>4. PICK c : c = Begin(t, n)
  OBVIOUS
<1>5. c \in Seq(Token) /\ Len(c) = n /\ \A i \in 1 .. n : c[i] = t[i]
  BY <1>1, <1>4, BeginIs
<1>6. \A i \in 1 .. n : b[i] = c[i]
  BY <1>3, <1>5
<1>7. b = c
  BY <1>3, <1>5, <1>6, SeqEqual
<1> QED
  BY <1>2, <1>4, <1>7

LEMMA WholeBegin ==
  ASSUME NEW s \in Seq(Token)
  PROVE  Begin(s, Len(s)) = s
<1>1. Len(s) \in Nat /\ Len(s) \in 0 .. Len(s)
  BY LenProperties
<1>2. PICK b : b = Begin(s, Len(s))
  OBVIOUS
<1>3. b \in Seq(Token) /\ Len(b) = Len(s) /\ \A i \in 1 .. Len(s) : b[i] = s[i]
  BY <1>1, <1>2, BeginIs
<1>4. b = s
  BY <1>3, SeqEqual
<1> QED
  BY <1>2, <1>4

\* The first n tokens of t with those after them are a longer beginning of t.
LEMMA BeginGrows ==
  \A t, more \in Seq(Token), n, c \in Nat :
    /\ n + c <= Len(t) /\ Len(more) = c
    /\ \A i \in 1 .. c : more[i] = t[n + i]
    => Begin(t, n) \o more = Begin(t, n + c)
<1>0. SUFFICES ASSUME NEW t \in Seq(Token), NEW more \in Seq(Token), NEW n \in Nat, NEW c \in Nat,
                    n + c <= Len(t), Len(more) = c, \A i \in 1 .. c : more[i] = t[n + i]
             PROVE  Begin(t, n) \o more = Begin(t, n + c)
  OBVIOUS
<1>1. Len(t) \in Nat /\ n \in 0 .. Len(t) /\ n + c \in 0 .. Len(t) /\ n + c \in Nat
  BY <1>0, LenProperties
<1>2. Begin(t, n) \in Seq(Token)
  BY <1>1, BeginIs
<1>3. PICK b \in Seq(Token) : b = Begin(t, n)
  BY <1>2
<1>4. Len(b) = n /\ \A i \in 1 .. n : b[i] = t[i]
  BY <1>1, <1>3, BeginIs
<1>5. PICK e : e = b \o more
  OBVIOUS
<1>6. /\ e \in Seq(Token) /\ Len(e) = n + c
      /\ \A i \in 1 .. n : e[i] = b[i]
      /\ \A i \in 1 .. c : e[n + i] = more[i]
  <2>1. /\ e \in Seq(Token) /\ Len(e) = Len(b) + Len(more)
        /\ \A i \in 1 .. Len(b) : e[i] = b[i]
        /\ \A i \in 1 .. Len(more) : e[Len(b) + i] = more[i]
    BY <1>5, TokensJoined, SMTT(60)
  <2> QED
    BY <1>0, <1>4, <2>1
<1>7. PICK f : f = Begin(t, n + c)
  OBVIOUS
<1>8. f \in Seq(Token) /\ Len(f) = n + c /\ \A i \in 1 .. n + c : f[i] = t[i]
  BY <1>1, <1>7, BeginIs
<1>9. ASSUME NEW i \in 1 .. n + c PROVE e[i] = f[i]
  <2>1. CASE i <= n
    BY <1>4, <1>6, <1>8, <2>1
  <2>2. CASE ~ (i <= n)
    <3>1. PICK j \in 1 .. c : i = n + j
      <4>1. i - n \in 1 .. c /\ i = n + (i - n)
        BY <2>2
      <4> QED
        BY <4>1
    <3>2. f[n + j] = t[n + j] /\ e[n + j] = more[j] /\ more[j] = t[n + j]
      BY <1>0, <1>6, <1>8, <3>1
    <3> QED
      BY <3>1, <3>2
  <2> QED
    BY <2>1, <2>2
<1>10. e = f
  BY <1>6, <1>8, <1>9, SeqEqual
<1> QED
  BY <1>3, <1>5, <1>7, <1>10

\* Prompt p in the cells up to a, and the chunk of c tokens after that.
LEMMA ChunkCells ==
  ASSUME NEW p \in Seq(Token), NEW a \in Nat, NEW c \in Nat, a + c <= Len(p)
  PROVE  Begin(Text(p, << >>), a) \o SubSeq(p, a + 1, a + c)
           = Begin(Text(p, << >>), a + c)
<1>0. PICK e : e = << >>
  OBVIOUS
<1>1. PICK t : t = Text(p, e)
  OBVIOUS
<1>2. /\ t \in Seq(Token) /\ Len(t) = Len(p) /\ Len(p) \in Nat
      /\ \A i \in 1 .. Len(p) : t[i] = p[i]
  <2>1. e \in Seq(Token) /\ Len(e) = 0
    BY <1>0, EmptySeq
  <2>2. /\ t \in Seq(Token) /\ Len(t) = Len(p) + Len(e) /\ Len(p) \in Nat
        /\ \A i \in 1 .. Len(p) : t[i] = p[i]
    BY <1>1, <2>1, TextIs
  <2> QED
    BY <2>1, <2>2
<1>3. PICK more : more = SubSeq(p, a + 1, a + c)
  OBVIOUS
<1>4. /\ more \in Seq(Token) /\ Len(more) = c
      /\ \A i \in 1 .. c : more[i] = p[a + i]
  BY <1>3, ChunkIs
<1>5. ASSUME NEW i \in 1 .. c PROVE more[i] = t[a + i]
  <2>1. a + i \in 1 .. Len(p)
    BY <1>2
  <2> QED
    BY <1>2, <1>4, <2>1
<1>6. Begin(t, a) \o more = Begin(t, a + c)
  <2>1. t \in Seq(Token) /\ more \in Seq(Token) /\ a + c <= Len(t)
    BY <1>2, <1>4
  <2>2. /\ a + c <= Len(t) /\ Len(more) = c /\ \A i \in 1 .. c : more[i] = t[a + i]
        => Begin(t, a) \o more = Begin(t, a + c)
    BY <2>1, BeginGrows, Zenon
  <2> QED
    BY <1>4, <1>5, <2>1, <2>2, Zenon
<1> QED
  BY <1>0, <1>1, <1>3, <1>6

\* All of a text but its last token, and that token.
LEMMA PendingCells ==
  ASSUME NEW p \in Seq(Token), NEW o \in Seq(Token), o # << >>,
         NEW n \in Nat, n + 1 = Len(p) + Len(o)
  PROVE  Begin(Text(p, o), n) \o <<Last(o)>> = Begin(Text(p, o), n + 1)
<1>1. PICK t : t = Text(p, o)
  OBVIOUS
<1>2. /\ t \in Seq(Token) /\ Len(t) = Len(p) + Len(o)
      /\ \A i \in 1 .. Len(o) : t[Len(p) + i] = o[i]
      /\ Len(p) \in Nat /\ Len(o) \in Nat
  BY <1>1, TextIs
<1>3. Len(o) >= 1
  BY <1>2, EmptySeq
<1>4. Last(o) \in Token /\ Last(o) = t[n + 1]
  <2>1. Last(o) = o[Len(o)] /\ Len(o) \in 1 .. Len(o)
    BY <1>2, <1>3 DEF Last
  <2>2. o[Len(o)] \in Token
    BY <2>1, ElementOfSeq
  <2>3. t[Len(p) + Len(o)] = o[Len(o)]
    BY <1>2, <2>1
  <2> QED
    BY <2>1, <2>2, <2>3
<1>5. PICK more : more = <<Last(o)>>
  OBVIOUS
<1>6. more \in Seq(Token) /\ Len(more) = 1 /\ more[1] = Last(o)
  BY <1>4, <1>5
<1>7. \A i \in 1 .. 1 : more[i] = t[n + i]
  BY <1>4, <1>6
<1>8. n + 1 <= Len(t)
  BY <1>2
<1>9. Begin(t, n) \o more = Begin(t, n + 1)
  <2>1. t \in Seq(Token) /\ more \in Seq(Token) /\ 1 \in Nat
    BY <1>2, <1>6
  <2>2. /\ n + 1 <= Len(t) /\ Len(more) = 1 /\ \A i \in 1 .. 1 : more[i] = t[n + i]
        => Begin(t, n) \o more = Begin(t, n + 1)
    BY <2>1, BeginGrows, Zenon
  <2> QED
    BY <1>6, <1>7, <1>8, <2>2, Zenon
<1> QED
  BY <1>1, <1>5, <1>9

\* The text before its newest token.
LEMMA TextBefore ==
  ASSUME NEW p \in Seq(Token), NEW o \in Seq(Token), NEW x \in Token,
         NEW n \in 0 .. Len(p) + Len(o)
  PROVE  Begin(Text(p, Append(o, x)), n) = Begin(Text(p, o), n)
<1>1. PICK w : w = Append(o, x)
  OBVIOUS
<1>2. w \in Seq(Token) /\ Len(w) = Len(o) + 1 /\ \A i \in 1 .. Len(o) : w[i] = o[i]
  BY <1>1, AppendProperties
<1>3. PICK s : s = Text(p, o)
  OBVIOUS
<1>4. /\ s \in Seq(Token) /\ Len(s) = Len(p) + Len(o)
      /\ \A i \in 1 .. Len(p) : s[i] = p[i]
      /\ \A i \in 1 .. Len(o) : s[Len(p) + i] = o[i]
      /\ Len(p) \in Nat /\ Len(o) \in Nat
  BY <1>3, TextIs
<1>5. PICK t : t = Text(p, w)
  OBVIOUS
<1>6. /\ t \in Seq(Token) /\ Len(t) = Len(p) + Len(w)
      /\ \A i \in 1 .. Len(p) : t[i] = p[i]
      /\ \A i \in 1 .. Len(w) : t[Len(p) + i] = w[i]
  BY <1>2, <1>5, TextIs
<1>7. ASSUME NEW i \in 1 .. n PROVE t[i] = s[i]
  <2>1. CASE i <= Len(p)
    BY <1>4, <1>6, <2>1
  <2>2. CASE ~ (i <= Len(p))
    <3>1. PICK j \in 1 .. Len(o) : i = Len(p) + j
      <4>1. i - Len(p) \in 1 .. Len(o) /\ i = Len(p) + (i - Len(p))
        BY <1>4, <2>2
      <4> QED
        BY <4>1
    <3>2. j \in 1 .. Len(w)
      BY <1>2, <1>4, <3>1
    <3>3. t[Len(p) + j] = w[j] /\ w[j] = o[j] /\ s[Len(p) + j] = o[j]
      BY <1>2, <1>4, <1>6, <3>1, <3>2
    <3> QED
      BY <3>1, <3>3
  <2> QED
    BY <2>1, <2>2
<1>8. n \in 0 .. Len(t) /\ n <= Len(s)
  BY <1>2, <1>4, <1>6
<1>9. Begin(t, n) = Begin(s, n)
  BY <1>4, <1>6, <1>7, <1>8, SameBegin
<1> QED
  BY <1>1, <1>3, <1>5, <1>9

\* Each token of o was drawn after p and the tokens before it.
LEMMA FollowsTheText ==
  ASSUME NEW p, NEW o
  PROVE  Engine!Follows(p, o) <=>
           \A i \in 1 .. Len(o) : o[i] \in Support[Begin(Text(p, o), Len(p) + i - 1)]
BY DEF Engine!Follows, Begin, Text

LEMMA FollowsNothing ==
  ASSUME NEW p
  PROVE  Engine!Follows(p, << >>)
BY EmptySeq DEF Engine!Follows

\* So was one more token, drawn after the whole text.
LEMMA FollowsOn ==
  ASSUME NEW p \in Seq(Token), NEW o \in Seq(Token), NEW x \in Token,
         Engine!Follows(p, o), x \in Support[Text(p, o)]
  PROVE  Engine!Follows(p, Append(o, x))
<1>1. PICK w : w = Append(o, x)
  OBVIOUS
<1>2. /\ w \in Seq(Token) /\ Len(w) = Len(o) + 1 /\ w[Len(o) + 1] = x
      /\ \A i \in 1 .. Len(o) : w[i] = o[i]
  BY <1>1, AppendProperties
<1>3. /\ Text(p, o) \in Seq(Token) /\ Len(Text(p, o)) = Len(p) + Len(o)
      /\ Len(p) \in Nat /\ Len(o) \in Nat
  BY TextIs
<1>4. \A n \in 0 .. Len(p) + Len(o) : Begin(Text(p, w), n) = Begin(Text(p, o), n)
  BY <1>1, TextBefore
<1>5. ASSUME NEW i \in 1 .. Len(w)
      PROVE  w[i] \in Support[Begin(Text(p, w), Len(p) + i - 1)]
  <2>0. Len(p) + i - 1 \in 0 .. Len(p) + Len(o)
    BY <1>2, <1>3
  <2>1. PICK n \in 0 .. Len(p) + Len(o) : n = Len(p) + i - 1
    BY <2>0
  <2>2. Begin(Text(p, w), n) = Begin(Text(p, o), n)
    BY <1>4
  <2>3. CASE i \in 1 .. Len(o)
    <3>1. o[i] \in Support[Begin(Text(p, o), Len(p) + i - 1)]
      BY <2>3, FollowsTheText
    <3> QED
      BY <1>2, <2>1, <2>2, <2>3, <3>1
  <2>4. CASE i \notin 1 .. Len(o)
    <3>1. i = Len(o) + 1 /\ n = Len(p) + Len(o)
      BY <1>2, <1>3, <2>1, <2>4
    <3>2. Begin(Text(p, o), Len(Text(p, o))) = Text(p, o)
      BY <1>3, WholeBegin
    <3> QED
      BY <1>2, <1>3, <2>1, <2>2, <3>1, <3>2
  <2> QED
    BY <2>3, <2>4
<1>6. Engine!Follows(p, w)
  BY <1>5, FollowsTheText
<1> QED
  BY <1>1, <1>6

-----------------------------------------------------------------------------
(* The inductive invariant. *)

\* A request or a snapshot between steps: part of its prompt is prefilled, or all
\* of it and all of its output but the pending token; there is a cell for that.
AtRest(q) ==
  /\ q.nPrefilled <= Len(q.prompt)
  /\ q.nPrefilled < Len(q.prompt) => q.nPos = q.nPrefilled /\ q.out = << >>
  /\ q.nPrefilled = Len(q.prompt) =>
       q.out # << >> /\ q.nPos + 1 = Len(q.prompt) + Len(q.out)
  /\ q.out # << >> => q.next = Last(q.out)
  /\ q.nPos < NCtxSeq
  /\ Engine!Follows(q.prompt, q.out)

\* A request whose row has been decoded and not yet looked at.
InStep(q) ==
  /\ q.nPrefilled = Len(q.prompt)
  /\ q.nPos = Len(q.prompt) + Len(q.out)
  /\ q.nPos <= NCtxSeq
  /\ q.out # << >> => q.next = Last(q.out)
  /\ Engine!Follows(q.prompt, q.out)

\* The cells of a request are its text.
Held(q, cells, row) ==
  /\ cells = Cells(q)
  /\ row => InStep(q)
  /\ ~row => AtRest(q)

\* The slots of the free list f, of requests, of failed restores and of the store.
Dealt(f, B, L) ==
  /\ IsInjective(f)
  /\ Range(f) \cap B = {} /\ Range(f) \cap L = {} /\ B \cap L = {}
  /\ SnapshotSeq \notin Range(f) \cup B \cup L
  /\ Range(f) \cup B \cup L \cup {SnapshotSeq} = Engine!Slots

\* Requests that a fault has spoiled.
Blurred == stranded \cup inexact

\* A row of the step has been decoded.
RowsMade ==
  \A r \in DOMAIN todo :
    /\ todo[r] = << >>
    /\ states[r].nPos = Len(kv[states[r].slot]) /\ states[r].nPos >= 1

OneSlotEach == \A q, r \in DOMAIN states : states[q].slot = states[r].slot => q = r

RequestsHold ==
  \A r \in DOMAIN states \ Blurred :
    Held(states[r], kv[states[r].slot], r \in DOMAIN todo)

RetiredFollow ==
  \A i \in DOMAIN retired :
    retired[i].id \notin Blurred => Engine!Follows(retired[i].prompt, retired[i].out)

EInv ==
  /\ Engine!TypeOK
  /\ pins = << >>
  /\ RowsMade
  /\ Dealt(free, Engine!BusySlots, leaked)
  /\ OneSlotEach
  /\ RequestsHold
  /\ RetiredFollow
  /\ Blurred = {} => ~refused

Taken == {snaps[n] : n \in DOMAIN snaps} \cup {json[n] : n \in DOMAIN json}

\* Snapshot s is a request between steps, and b, the files, have its text.
Sound(s, b) ==
  /\ AtRest(s)
  /\ \A n \in DOMAIN b : b[n].save = s.save => b[n].kv = Cells(s)

StoreTyped ==
  /\ DOMAIN snaps \subseteq Names /\ snaps \in [DOMAIN snaps -> Snapshots]
  /\ DOMAIN json \subseteq Names /\ json \in [DOMAIN json -> Snapshots]
  /\ DOMAIN bin \subseteq Names
  /\ \A n \in DOMAIN bin : bin[n].kv \in Seq(Token) /\ bin[n].save \in 1 .. saves
  /\ saves \in 0 .. MaxSaves
  /\ tainted \subseteq 1 .. saves

SnapsSound == \A s \in Taken : s.save \notin tainted => Sound(s, bin)

SlotSaved ==
  \A n \in DOMAIN snaps :
    snaps[n].live /\ snaps[n].save = saves /\ saves \notin tainted
      => kv[SnapshotSeq] = Cells(snaps[n])

SInv ==
  /\ EInv
  /\ StoreTyped /\ SnapsSound /\ SlotSaved
  /\ leaked \subseteq Engine!Slots
  /\ inexact \subseteq 0 .. nextId - 1

-----------------------------------------------------------------------------
(* The slots. *)

LEMMA DealtTaken ==
  ASSUME NEW f \in Seq(Engine!Slots), f # << >>, NEW B, NEW L, Dealt(f, B, L)
  PROVE  /\ Head(f) \in Engine!Slots /\ Head(f) \notin B /\ Head(f) # SnapshotSeq
         /\ Tail(f) \in Seq(Engine!Slots)
         /\ Dealt(Tail(f), B \cup {Head(f)}, L)
         /\ Dealt(Tail(f), B, L \cup {Head(f)})
<1>1. /\ Head(f) \in Engine!Slots /\ Tail(f) \in Seq(Engine!Slots)
      /\ Head(f) \in Range(f) /\ Range(Tail(f)) = Range(f) \ {Head(f)}
      /\ IsInjective(Tail(f))
  BY HeadTailProperties, RangeOfTail DEF Dealt
<1> QED
  BY <1>1 DEF Dealt

LEMMA DealtReturned ==
  ASSUME NEW f \in Seq(Engine!Slots), NEW s \in Engine!Slots, NEW B, s \notin B, NEW L,
         Dealt(f, B \cup {s}, L)
  PROVE  /\ s \notin Range(f)
         /\ Append(f, s) \in Seq(Engine!Slots)
         /\ Dealt(Append(f, s), B, L)
<1>1. s \notin Range(f)
  BY DEF Dealt
<1>2. /\ Append(f, s) \in Seq(Engine!Slots)
      /\ Range(Append(f, s)) = Range(f) \cup {s} /\ IsInjective(Append(f, s))
  BY <1>1, AppendProperties, RangeOfAppend DEF Dealt
<1> QED
  BY <1>1, <1>2 DEF Dealt

\* A new engine's free list is every slot but the reserved one.
LEMMA UnreservedDealt ==
  /\ Unreserved \in Seq(Engine!Slots)
  /\ Dealt(Unreserved, {}, {})
<1> DEFINE all == [i \in 1 .. NSeqMax |-> i - 1]
           at == SnapshotSeq + 1
<1>1. NSeqMax \in Nat \ {0} /\ SnapshotSeq \in 0 .. NSeqMax - 1
  BY StoreAssumption
<1>2. /\ all \in Seq(Engine!Slots) /\ Len(all) = NSeqMax
      /\ \A i \in 1 .. NSeqMax : all[i] = i - 1
      /\ at \in 1 .. NSeqMax /\ all[at] = SnapshotSeq
  BY <1>1 DEF Engine!Slots
<1>3. Unreserved = RemoveAt(all, at)
  <2>1. \E i \in 1 .. Len(all) : all[i] = SnapshotSeq
    BY <1>2
  <2>2. {i \in 1 .. Len(all) : all[i] = SnapshotSeq} = {at}
    <3> HIDE DEF all
    <3> QED
      BY <1>1, <1>2
  <2>3. Min({at}) = at
    <3>1. {at} \subseteq Nat /\ {at} # {}
      BY <1>1
    <3> QED
      BY <3>1, SmallestOf
  <2> HIDE DEF all, at
  <2>4. SelectInSeq(all, LAMBDA v : v = SnapshotSeq) = at
    BY <2>2, <2>3 DEF SelectInSeq
  <2> QED
    BY <2>1, <2>4 DEF Unreserved, RemoveFirst, all
<1> HIDE DEF all, at
<1> DEFINE u == RemoveAt(all, at)
<1>4. /\ u \in Seq(Engine!Slots) /\ Len(u) = NSeqMax - 1
      /\ \A i \in 1 .. NSeqMax - 1 : u[i] = IF i < at THEN i - 1 ELSE i
  <2>1. /\ u \in Seq(Engine!Slots) /\ Len(u) = NSeqMax - 1
        /\ \A i \in 1 .. NSeqMax - 1 : u[i] = IF i < at THEN all[i] ELSE all[i + 1]
    BY <1>2, RemovedAt
  <2>2. \A i \in 1 .. NSeqMax - 1 : all[i] = i - 1 /\ all[i + 1] = i
    BY <1>1, <1>2
  <2> QED
    BY <2>1, <2>2
<1> HIDE DEF u
<1>5. DOMAIN u = 1 .. NSeqMax - 1
  BY <1>1, <1>4, LenProperties
<1>6. IsInjective(u)
  BY <1>1, <1>2, <1>4, <1>5 DEF IsInjective
<1>7. ASSUME NEW x \in Range(u) PROVE x \in Engine!Slots \ {SnapshotSeq}
  <2>1. PICK i \in 1 .. NSeqMax - 1 : x = u[i]
    BY <1>5, <1>7 DEF Range
  <2> QED
    BY <1>1, <1>4, <2>1 DEF Engine!Slots, at
<1>8. ASSUME NEW x \in Engine!Slots \ {SnapshotSeq} PROVE x \in Range(u)
  <2>1. x \in 0 .. NSeqMax - 1 /\ x # SnapshotSeq
    BY DEF Engine!Slots
  <2>2. CASE x < SnapshotSeq
    <3>1. x + 1 \in 1 .. NSeqMax - 1 /\ u[x + 1] = x
      BY <1>1, <1>4, <2>1, <2>2 DEF at
    <3> QED
      BY <1>5, <3>1 DEF Range
  <2>3. CASE ~ (x < SnapshotSeq)
    <3>1. x \in 1 .. NSeqMax - 1 /\ u[x] = x
      BY <1>1, <1>4, <2>1, <2>3 DEF at
    <3> QED
      BY <1>5, <3>1 DEF Range
  <2> QED
    BY <2>2, <2>3
<1>9. SnapshotSeq \in Engine!Slots
  BY <1>1 DEF Engine!Slots
<1>10. Dealt(u, {}, {})
  BY <1>6, <1>7, <1>8, <1>9 DEF Dealt
<1> QED
  BY <1>3, <1>4, <1>10 DEF u

-----------------------------------------------------------------------------
(* What the types say. *)

LEMMA RequestTyped ==
  ASSUME Engine!TypeOK, NEW r \in DOMAIN states
  PROVE  /\ states[r] \in Engine!RequestState
         /\ r \in 0 .. nextId - 1 /\ r \in Nat
         /\ states[r].slot \in Engine!Slots /\ states[r].slot \in Engine!BusySlots
         /\ kv[states[r].slot] \in Seq(Token)
<1>1. /\ states \in [DOMAIN states -> Engine!RequestState] /\ nextId \in Nat
      /\ kv \in [Engine!Slots -> Seq(Token)] /\ DOMAIN states \subseteq 0 .. nextId - 1
  BY DEF Engine!TypeOK
<1>2. states[r] \in Engine!RequestState /\ r \in 0 .. nextId - 1
  BY <1>1
<1>3. states[r].slot \in Engine!Slots
  BY <1>2 DEF Engine!RequestState
<1> QED
  BY <1>1, <1>2, <1>3 DEF Engine!BusySlots

LEMMA FieldsTyped ==
  ASSUME NEW q \in Engine!RequestState
  PROVE  /\ q.slot \in Engine!Slots
         /\ q.prompt \in Prompts /\ q.params \in Params
         /\ q.prompt \in Seq(Token) /\ Len(q.prompt) \in Nat
         /\ Len(q.prompt) >= 1 /\ Len(q.prompt) < NCtxSeq
         /\ q.out \in Seq(Token) /\ Len(q.out) \in Nat
         /\ q.nPos \in Nat /\ q.nPrefilled \in Nat
         /\ q.next \in Token \cup {NoToken}
<1>1. /\ q.prompt \in Prompts /\ q.params \in Params /\ q.slot \in Engine!Slots
      /\ q.out \in Seq(Token) /\ q.nPos \in Nat /\ q.nPrefilled \in Nat
      /\ q.next \in Token \cup {NoToken}
  BY DEF Engine!RequestState
<1>2. q.prompt \in Seq(Token) /\ Len(q.prompt) \in 1 .. NCtxSeq - 1 /\ NCtxSeq \in Nat
  BY <1>1, StoreAssumption
<1>3. Len(q.out) \in Nat /\ Len(q.prompt) \in Nat
  BY <1>1, <1>2, LenProperties
<1> QED
  BY <1>1, <1>2, <1>3

\* _archive keeps the read window typed and bounded, and adds one entry to it.
LEMMA ArchivedIs ==
  ASSUME Engine!TypeOK, NEW e \in Engine!Finished
  PROVE  /\ Engine!Archived(e) \in Seq(Engine!Finished)
         /\ Len(Engine!Archived(e)) <= Engine!RetiredLimit
         /\ \A i \in DOMAIN Engine!Archived(e) :
              \/ Engine!Archived(e)[i] = e
              \/ \E j \in DOMAIN retired : Engine!Archived(e)[i] = retired[j]
<1>1. Engine!RetiredLimit \in Nat /\ Engine!RetiredLimit >= 1
  BY StoreAssumption DEF Engine!RetiredLimit, Engine!Most
<1>2. /\ retired \in Seq(Engine!Finished) /\ Len(retired) \in Nat
      /\ Len(retired) <= Engine!RetiredLimit /\ DOMAIN retired = 1 .. Len(retired)
  BY LenProperties DEF Engine!TypeOK
<1>3. PICK longer : longer = Append(retired, e)
  OBVIOUS
<1>4. /\ longer \in Seq(Engine!Finished) /\ longer # << >> /\ Len(longer) = Len(retired) + 1
      /\ longer[Len(retired) + 1] = e /\ \A i \in 1 .. Len(retired) : longer[i] = retired[i]
  BY <1>2, <1>3, AppendProperties
<1>5. Engine!Archived(e) = IF Len(longer) > Engine!RetiredLimit THEN Tail(longer) ELSE longer
  BY <1>3 DEF Engine!Archived
<1>6. /\ Tail(longer) \in Seq(Engine!Finished) /\ Len(Tail(longer)) = Len(longer) - 1
      /\ \A i \in 1 .. Len(longer) - 1 : Tail(longer)[i] = longer[i + 1]
  BY <1>4, HeadTailProperties
<1>7. /\ DOMAIN longer = 1 .. Len(retired) + 1
      /\ DOMAIN Tail(longer) = 1 .. Len(retired)
  BY <1>2, <1>4, <1>6, LenProperties
<1>8. ASSUME NEW i \in 1 .. Len(retired) + 1
      PROVE  longer[i] = e \/ \E j \in DOMAIN retired : longer[i] = retired[j]
  BY <1>2, <1>4
<1>9. ASSUME NEW i \in 1 .. Len(retired)
      PROVE  Tail(longer)[i] = e \/ \E j \in DOMAIN retired : Tail(longer)[i] = retired[j]
  <2>1. i + 1 \in 1 .. Len(retired) + 1 /\ Tail(longer)[i] = longer[i + 1]
    BY <1>2, <1>4, <1>6
  <2> QED
    BY <1>8, <2>1
<1>10. CASE Len(longer) > Engine!RetiredLimit
  <2>1. Engine!Archived(e) = Tail(longer)
    BY <1>5, <1>10
  <2> QED
    BY <1>2, <1>4, <1>6, <1>7, <1>9, <2>1
<1>11. CASE ~ (Len(longer) > Engine!RetiredLimit)
  <2>1. Engine!Archived(e) = longer
    BY <1>5, <1>11
  <2> QED
    BY <1>1, <1>2, <1>4, <1>7, <1>8, <1>11, <2>1
<1> QED
  BY <1>10, <1>11

-----------------------------------------------------------------------------
(* Steps that change no request: every kind of add_request that admits nobody, *)
(* and what the store does by itself.                                          *)

LEMMA NobodyMoves ==
  ASSUME EInv, UNCHANGED <<states, pins, todo, stranded, refused, inexact>>,
         nextId' \in Nat, nextId' >= nextId,
         kv' \in [Engine!Slots -> Seq(Token)],
         \A s \in Engine!BusySlots : kv'[s] = kv[s],
         free' \in Seq(Engine!Slots), Dealt(free', Engine!BusySlots, leaked'),
         retired' \in Seq(Engine!Finished), Len(retired') <= Engine!RetiredLimit,
         \A i \in DOMAIN retired' :
           \/ retired'[i].out = << >>
           \/ \E j \in DOMAIN retired : retired'[i] = retired[j]
  PROVE  EInv'
<1>1. Engine!TypeOK
  BY DEF EInv
<1>2. Engine!TypeOK'
  <2>1. DOMAIN states \subseteq 0 .. nextId' - 1 /\ stranded \subseteq 0 .. nextId' - 1
    BY <1>1 DEF Engine!TypeOK
  <2> QED
    BY <1>1, <2>1 DEF Engine!TypeOK, Engine!RetiredLimit
<1>3. \A r \in DOMAIN states : kv'[states[r].slot] = kv[states[r].slot]
  BY DEF Engine!BusySlots
<1>4. RowsMade'
  <2>1. DOMAIN todo \subseteq DOMAIN states
    BY <1>1 DEF Engine!TypeOK
  <2> QED
    BY <1>3, <2>1 DEF EInv, RowsMade
<1>5. RequestsHold'
  BY <1>3 DEF EInv, RequestsHold, Blurred
<1>6. RetiredFollow'
  <2>1. ASSUME NEW i \in DOMAIN retired', retired'[i].id \notin Blurred
        PROVE  Engine!Follows(retired'[i].prompt, retired'[i].out)
    BY <2>1, FollowsNothing DEF EInv, RetiredFollow
  <2> QED
    BY <2>1 DEF RetiredFollow, Blurred
<1>7. OneSlotEach' /\ Engine!BusySlots' = Engine!BusySlots
  BY DEF EInv, OneSlotEach, Engine!BusySlots
<1>8. pins' = << >> /\ (Blurred' = {} => ~refused')
  BY DEF EInv, Blurred
<1> QED
  BY <1>2, <1>4, <1>5, <1>6, <1>7, <1>8 DEF EInv

-----------------------------------------------------------------------------
(* Admission of a request, by add_request or by load. *)

\* Request req joins with h, its slot, holding cells.
Joins(req, h, cells) ==
  /\ nextId' = nextId + 1
  /\ states' = With(states, nextId, req)
  /\ kv' = [kv EXCEPT ![h] = cells]
  /\ UNCHANGED <<retired, pins, todo, stranded, refused>>

LEMMA Joined ==
  ASSUME EInv, NEW h \in Engine!Slots, h \notin Engine!BusySlots,
         NEW cells \in Seq(Token),
         NEW req \in Engine!RequestState, req.slot = h, Joins(req, h, cells),
         free' \in Seq(Engine!Slots),
         Dealt(free', Engine!BusySlots \cup {h}, leaked'),
         inexact \subseteq inexact', nextId \notin inexact' => Held(req, cells, FALSE)
  PROVE  EInv'
<1>1. Engine!TypeOK /\ nextId \in Nat
  BY DEF EInv, Engine!TypeOK
<1>2. /\ DOMAIN states \subseteq 0 .. nextId - 1 /\ nextId \notin DOMAIN states
      /\ DOMAIN todo \subseteq DOMAIN states
  BY <1>1 DEF Engine!TypeOK
<1>3. /\ DOMAIN states' = DOMAIN states \cup {nextId}
      /\ states'[nextId] = req
      /\ \A q \in DOMAIN states : states'[q] = states[q]
  <2> DEFINE w == With(states, nextId, req)
  <2>1. states' = w
    BY DEF Joins
  <2>2. /\ DOMAIN w = DOMAIN states \cup {nextId} /\ w[nextId] = req
        /\ \A q \in DOMAIN states \ {nextId} : w[q] = states[q]
    BY DEF With
  <2> HIDE DEF w
  <2> QED
    BY <1>2, <2>1, <2>2
<1>4. /\ kv' \in [Engine!Slots -> Seq(Token)] /\ kv'[h] = cells
      /\ \A q \in DOMAIN states : kv'[states[q].slot] = kv[states[q].slot]
  <2>1. kv \in [Engine!Slots -> Seq(Token)] /\ kv' = [kv EXCEPT ![h] = cells]
    BY <1>1 DEF Engine!TypeOK, Joins
  <2>2. ASSUME NEW q \in DOMAIN states
        PROVE  states[q].slot \in Engine!Slots /\ states[q].slot # h
    <3>1. states[q].slot \in Engine!Slots /\ states[q].slot \in Engine!BusySlots
      BY <1>1, RequestTyped
    <3> QED
      BY <3>1
  <2> QED
    BY <2>1, <2>2
<1>5. Engine!TypeOK'
  <2>1. states' \in [DOMAIN states' -> Engine!RequestState]
    <3>1. \A q \in DOMAIN states' : states'[q] \in Engine!RequestState
      BY <1>1, <1>3, RequestTyped
    <3>2. states' = [q \in DOMAIN states' |-> states'[q]]
      BY <1>3 DEF Joins, With
    <3> QED
      BY <3>1, <3>2
  <2>2. DOMAIN states' \subseteq 0 .. nextId' - 1 /\ nextId' \in Nat
    BY <1>1, <1>2, <1>3 DEF Joins
  <2>3. stranded' \subseteq 0 .. nextId' - 1
    BY <1>1 DEF Engine!TypeOK, Joins
  <2>4. DOMAIN todo' \subseteq DOMAIN states'
    BY <1>2, <1>3 DEF Joins
  <2> QED
    BY <1>1, <1>4, <2>1, <2>2, <2>3, <2>4 DEF Engine!TypeOK, Engine!RetiredLimit, Joins
<1>6. Engine!BusySlots' = Engine!BusySlots \cup {h}
  <2>1. ASSUME NEW x \in Engine!BusySlots' PROVE x \in Engine!BusySlots \cup {h}
    BY <1>3 DEF Engine!BusySlots
  <2>2. ASSUME NEW x \in Engine!BusySlots \cup {h} PROVE x \in Engine!BusySlots'
    BY <1>3 DEF Engine!BusySlots
  <2> QED
    BY <2>1, <2>2
<1>7. OneSlotEach'
  <2>1. \A q \in DOMAIN states : states[q].slot # h
    BY DEF Engine!BusySlots
  <2> QED
    BY <1>3, <2>1 DEF EInv, OneSlotEach
<1>8. RowsMade'
  BY <1>2, <1>3, <1>4 DEF EInv, RowsMade, Joins
<1>9. RequestsHold'
  <2>1. ASSUME NEW q \in DOMAIN states', q \notin Blurred'
        PROVE  Held(states'[q], kv'[states'[q].slot], q \in DOMAIN todo')
    <3>1. q \notin Blurred /\ DOMAIN todo' = DOMAIN todo
      BY <2>1 DEF Blurred, Joins
    <3>2. CASE q = nextId
      <4>1. nextId \notin inexact' /\ (nextId \in DOMAIN todo') = FALSE
        BY <1>2, <2>1, <3>1, <3>2 DEF Blurred
      <4> QED
        BY <1>3, <1>4, <3>2, <4>1
    <3>3. CASE q # nextId
      <4>1. q \in DOMAIN states /\ Held(states[q], kv[states[q].slot], q \in DOMAIN todo)
        BY <1>3, <2>1, <3>1, <3>3 DEF EInv, RequestsHold
      <4> QED
        BY <1>3, <1>4, <3>1, <4>1
    <3> QED
      BY <3>2, <3>3
  <2> QED
    BY <2>1 DEF RequestsHold
<1>10. RetiredFollow'
  BY DEF EInv, RetiredFollow, Blurred, Joins
<1>11. pins' = << >> /\ (Blurred' = {} => ~refused')
  BY DEF EInv, Blurred, Joins
<1> QED
  BY <1>5, <1>6, <1>7, <1>8, <1>9, <1>10, <1>11 DEF EInv

\* A request of which nothing is prefilled.
LEMMA FreshIs ==
  ASSUME NEW h \in Engine!Slots, NEW p \in Prompts, NEW q \in Params
  PROVE  LET req == Engine!Registered(h, p, q, 0)
         IN  /\ req \in Engine!RequestState /\ req.slot = h
             /\ Held(req, << >>, FALSE)
<1> DEFINE req == Engine!Registered(h, p, q, 0)
<1>1. /\ req.slot = h /\ req.prompt = p /\ req.nPrefilled = 0
      /\ req.nPos = 0 /\ req.out = << >>
      /\ req \in Engine!RequestState
  BY EmptySeq DEF Engine!Registered, Engine!RequestState
<1> HIDE DEF req
<1>2. p \in Seq(Token) /\ Len(p) \in Nat /\ Len(p) >= 1 /\ Len(p) < NCtxSeq
  BY <1>1, FieldsTyped
<1>3. << >> = Cells(req)
  <2>1. Text(p, << >>) \in Seq(Token) /\ Len(Text(p, << >>)) \in Nat
    BY <1>2, EmptySeq, TextIs, LenProperties
  <2>2. 0 \in 0 .. Len(Text(p, << >>))
    BY <2>1
  <2>3. Begin(Text(p, << >>), 0) \in Seq(Token) /\ Len(Begin(Text(p, << >>), 0)) = 0
    BY <2>1, <2>2, BeginIs
  <2>4. Begin(Text(p, << >>), 0) = << >>
    BY <2>3, EmptySeq
  <2> QED
    BY <1>1, <2>4 DEF Cells, Begin, Text
<1>4. AtRest(req)
  <2>1. 0 <= Len(p) /\ 0 # Len(p) /\ 0 < NCtxSeq
    BY <1>2, StoreAssumption
  <2> QED
    BY <1>1, <2>1, FollowsNothing DEF AtRest
<1> QED
  BY <1>1, <1>3, <1>4 DEF Held, req

\* With no pins there is no fork and nothing to evict.
LEMMA NoPins ==
  ASSUME pins = << >>, NEW p
  PROVE  /\ Engine!FindPin(p) = 0 /\ Engine!Victim(0) = 0
         /\ Engine!PinsAfter(0) = << >> /\ Engine!FreeAfter(0) = free
         /\ Engine!KvAfter(0) = kv
<1>1. DOMAIN pins = {}
  OBVIOUS
<1>2. Engine!Candidates(p) = {}
  BY <1>1 DEF Engine!Candidates
<1> QED
  BY <1>2 DEF Engine!FindPin, Engine!Victim, Engine!PinsAfter, Engine!FreeAfter, Engine!KvAfter

\* The slot at the head of the free list, cleared or filled.
LEMMA HeadTaken ==
  ASSUME EInv, free # << >>, NEW cells \in Seq(Token),
         kv' = [kv EXCEPT ![Head(free)] = cells]
  PROVE  /\ Head(free) \in Engine!Slots /\ Head(free) \notin Engine!BusySlots
         /\ Tail(free) \in Seq(Engine!Slots)
         /\ Dealt(Tail(free), Engine!BusySlots \cup {Head(free)}, leaked)
         /\ Dealt(Tail(free), Engine!BusySlots, leaked \cup {Head(free)})
         /\ Append(Tail(free), Head(free)) \in Seq(Engine!Slots)
         /\ Dealt(Append(Tail(free), Head(free)), Engine!BusySlots, leaked)
         /\ kv' \in [Engine!Slots -> Seq(Token)]
         /\ \A s \in Engine!BusySlots : kv'[s] = kv[s]
         /\ kv'[SnapshotSeq] = kv[SnapshotSeq]
<1>1. /\ free \in Seq(Engine!Slots) /\ kv \in [Engine!Slots -> Seq(Token)]
      /\ Dealt(free, Engine!BusySlots, leaked)
  BY DEF EInv, Engine!TypeOK
<1>2. /\ Head(free) \in Engine!Slots /\ Head(free) \notin Engine!BusySlots
      /\ Head(free) # SnapshotSeq /\ Tail(free) \in Seq(Engine!Slots)
      /\ Dealt(Tail(free), Engine!BusySlots \cup {Head(free)}, leaked)
      /\ Dealt(Tail(free), Engine!BusySlots, leaked \cup {Head(free)})
  BY <1>1, DealtTaken
<1>3. /\ Append(Tail(free), Head(free)) \in Seq(Engine!Slots)
      /\ Dealt(Append(Tail(free), Head(free)), Engine!BusySlots, leaked)
  BY <1>2, DealtReturned
<1>4. Engine!BusySlots \subseteq Engine!Slots /\ SnapshotSeq \in Engine!Slots
  BY <1>1 DEF Dealt
<1> QED
  BY <1>1, <1>2, <1>3, <1>4

LEMMA AddRequestKeeps ==
  ASSUME EInv, NEW p \in Prompts, NEW q \in Params, Engine!AddRequest(p, q),
         UNCHANGED <<leaked, inexact>>
  PROVE  /\ EInv'
         /\ nextId' \in Nat /\ nextId' >= nextId /\ kv'[SnapshotSeq] = kv[SnapshotSeq]
<1> DEFINE h == Head(free)
<1>1. pins = << >> /\ nextId \in Nat /\ Engine!TypeOK
  BY DEF EInv, Engine!TypeOK
<1>2. /\ Engine!FindPin(p) = 0 /\ Engine!Victim(0) = 0
      /\ Engine!PinsAfter(0) = << >> /\ Engine!FreeAfter(0) = free
      /\ Engine!KvAfter(0) = kv
  BY <1>1, NoPins
<1>3. /\ free # << >> /\ nextId' = nextId + 1 /\ UNCHANGED <<todo, stranded, refused>>
      /\ \/ Engine!AdmissionRolledBack(0)
         \/ Engine!AdmittedPlain(0, p, q)
         \/ Engine!AdmissionCancelled(0, 0, p, q)
  BY <1>1, <1>2 DEF Engine!AddRequest, Engine!AdmittedForked
<1>4. nextId' \in Nat /\ nextId' >= nextId
  BY <1>1, <1>3
<1>5. kv' = [kv EXCEPT ![h] = << >>] /\ pins' = pins
  BY <1>1, <1>2, <1>3 DEF Engine!AdmissionRolledBack, Engine!AdmittedPlain, Engine!AdmissionCancelled
<1>6. << >> \in Seq(Token)
  BY EmptySeq
<1>7. /\ h \in Engine!Slots /\ h \notin Engine!BusySlots
      /\ Tail(free) \in Seq(Engine!Slots)
      /\ Dealt(Tail(free), Engine!BusySlots \cup {h}, leaked)
      /\ Append(Tail(free), h) \in Seq(Engine!Slots)
      /\ Dealt(Append(Tail(free), h), Engine!BusySlots, leaked)
      /\ kv' \in [Engine!Slots -> Seq(Token)]
      /\ \A s \in Engine!BusySlots : kv'[s] = kv[s]
      /\ kv'[SnapshotSeq] = kv[SnapshotSeq]
  BY <1>3, <1>5, <1>6, HeadTaken
<1> HIDE DEF h
<1>8. CASE Engine!AdmissionRolledBack(0)
  <2>1. free' = free /\ UNCHANGED <<states, retired>>
    BY <1>2, <1>8 DEF Engine!AdmissionRolledBack
  <2>2. /\ free' \in Seq(Engine!Slots) /\ Dealt(free', Engine!BusySlots, leaked')
        /\ retired' \in Seq(Engine!Finished) /\ Len(retired') <= Engine!RetiredLimit
    BY <1>1, <2>1 DEF EInv, Engine!TypeOK
  <2>3. EInv'
    BY <1>3, <1>4, <1>5, <1>7, <2>1, <2>2, NobodyMoves
  <2> QED
    BY <1>4, <1>7, <2>3
<1>9. CASE Engine!AdmittedPlain(0, p, q)
  <2> DEFINE req == Engine!Registered(h, p, q, 0)
  <2>1. free' = Tail(free) /\ states' = With(states, nextId, req) /\ retired' = retired
    BY <1>2, <1>9 DEF Engine!AdmittedPlain, With, h
  <2>2. req \in Engine!RequestState /\ req.slot = h /\ Held(req, << >>, FALSE)
    BY <1>7, FreshIs
  <2> HIDE DEF req
  <2>3. Joins(req, h, << >>)
    BY <1>3, <1>5, <2>1 DEF Joins
  <2>4. free' \in Seq(Engine!Slots) /\ Dealt(free', Engine!BusySlots \cup {h}, leaked')
    BY <1>7, <2>1
  <2>5. EInv'
    BY <1>6, <1>7, <2>2, <2>3, <2>4, Joined
  <2> QED
    BY <1>4, <1>7, <2>5
<1>10. CASE Engine!AdmissionCancelled(0, 0, p, q)
  <2> DEFINE e == [id |-> nextId, prompt |-> p, params |-> q, out |-> << >>,
                   reason |-> "cancelled"]
  <2>1. /\ free' = Append(Tail(free), h) /\ states' = states
        /\ retired' = Engine!Archived(e)
    BY <1>2, <1>10 DEF Engine!AdmissionCancelled, h
  <2>2. e \in Engine!Finished /\ e.out = << >>
    BY <1>1, <1>6 DEF Engine!Finished
  <2> HIDE DEF e
  <2>3. /\ retired' \in Seq(Engine!Finished) /\ Len(retired') <= Engine!RetiredLimit
        /\ \A i \in DOMAIN retired' :
             \/ retired'[i].out = << >>
             \/ \E j \in DOMAIN retired : retired'[i] = retired[j]
    BY <1>1, <2>1, <2>2, ArchivedIs
  <2>4. free' \in Seq(Engine!Slots) /\ Dealt(free', Engine!BusySlots, leaked')
    BY <1>7, <2>1
  <2>5. EInv'
    BY <1>3, <1>4, <1>5, <1>7, <2>1, <2>3, <2>4, NobodyMoves
  <2> QED
    BY <1>4, <1>7, <2>5
<1> QED
  BY <1>3, <1>8, <1>9, <1>10

-----------------------------------------------------------------------------
(* Retirement. *)

Reasons == {"eog", "stop_sequence", "length", "context", "cancelled", "error"}

\* The step is done with row r, or with all rows: those left over are stranded.
RowsLeft(r) ==
  /\ todo' \in [DOMAIN todo' -> Seq(Token)]
  /\ DOMAIN todo' \subseteq DOMAIN todo \ {r}
  /\ \A q \in DOMAIN todo' : todo'[q] = todo[q]
  /\ \A q \in DOMAIN todo \ {r} : q \in DOMAIN todo' \/ q \in stranded'
  /\ stranded \subseteq stranded' /\ stranded' \subseteq 0 .. nextId - 1

\* _retire with the prefix cache off: the slot is cleared and goes back.
LEMMA RetireIs ==
  ASSUME EInv, NEW r \in DOMAIN states, NEW reason, NEW out, NEW memory,
         Engine!Retire(r, reason, out, memory)
  PROVE  /\ pins' = << >>
         /\ free' = Append(free, states[r].slot)
         /\ kv' = [memory EXCEPT ![states[r].slot] = << >>]
         /\ states' = Restrict(states, DOMAIN states \ {r})
         /\ retired' = Engine!Archived([id |-> r, prompt |-> states[r].prompt,
                                        params |-> states[r].params,
                                        out |-> out, reason |-> reason])
<1>1. Engine!TypeOK /\ pins = << >>
  BY DEF EInv
<1>2. states[r].slot \in Engine!BusySlots
  BY <1>1, RequestTyped
<1>3. states[r].slot \notin Range(free)
  BY <1>2 DEF EInv, Dealt
<1>4. ~Engine!Worthwhile(states[r].prompt, states[r].nPrefilled)
  BY DEF Engine!Worthwhile
<1>5. Engine!Release(states[r].slot, memory) /\ pins' = pins
  BY <1>4 DEF Engine!Retire, Engine!PinOrRelease
<1>6. pins' = << >>
  BY <1>1, <1>5
<1>7. free' = Append(free, states[r].slot)
  BY <1>3, <1>5 DEF Engine!Release, Engine!Range, Range
<1>8. kv' = [memory EXCEPT ![states[r].slot] = << >>]
  BY <1>5 DEF Engine!Release
<1>9. states' = Restrict(states, DOMAIN states \ {r})
  BY DEF Engine!Retire, Engine!Minus, Engine!Restrict, Restrict
<1>10. retired' = Engine!Archived([id |-> r, prompt |-> states[r].prompt,
                                  params |-> states[r].params,
                                  out |-> out, reason |-> reason])
  BY DEF Engine!Retire
<1> QED
  BY <1>6, <1>7, <1>8, <1>9, <1>10

LEMMA Retired ==
  ASSUME EInv, NEW r \in DOMAIN states, NEW reason \in Reasons,
         NEW out \in Seq(Token), NEW memory \in [Engine!Slots -> Seq(Token)],
         \A s \in Engine!Slots \ {states[r].slot} : memory[s] = kv[s],
         r \notin Blurred => Engine!Follows(states[r].prompt, out),
         Engine!Retire(r, reason, out, memory), RowsLeft(r),
         UNCHANGED <<nextId, refused, leaked, inexact>>
  PROVE  EInv' /\ kv'[SnapshotSeq] = kv[SnapshotSeq]
<1> DEFINE s == states[r].slot
           e == [id |-> r, prompt |-> states[r].prompt, params |-> states[r].params,
                 out |-> out, reason |-> reason]
<1>1. /\ Engine!TypeOK /\ nextId \in Nat
      /\ free \in Seq(Engine!Slots) /\ Dealt(free, Engine!BusySlots, leaked)
  BY DEF EInv, Engine!TypeOK
<1>2. /\ states[r] \in Engine!RequestState /\ r \in Nat
      /\ s \in Engine!Slots /\ s \in Engine!BusySlots
  BY <1>1, RequestTyped
<1>3. /\ pins' = << >> /\ free' = Append(free, s) /\ kv' = [memory EXCEPT ![s] = << >>]
      /\ states' = Restrict(states, DOMAIN states \ {r}) /\ retired' = Engine!Archived(e)
  BY RetireIs
<1>4. e \in Engine!Finished /\ e.id = r /\ e.prompt = states[r].prompt /\ e.out = out
  <2>1. states[r].prompt \in Prompts /\ states[r].params \in Params
    BY <1>2, FieldsTyped
  <2> QED
    BY <1>2, <2>1 DEF Engine!Finished, Reasons
<1> HIDE DEF s, e
<1>5. /\ retired' \in Seq(Engine!Finished) /\ Len(retired') <= Engine!RetiredLimit
      /\ \A i \in DOMAIN retired' :
           retired'[i] = e \/ \E j \in DOMAIN retired : retired'[i] = retired[j]
  BY <1>1, <1>3, <1>4, ArchivedIs
<1>6. /\ DOMAIN states' = DOMAIN states \ {r}
      /\ \A q \in DOMAIN states' : states'[q] = states[q]
      /\ states' = [q \in DOMAIN states' |-> states'[q]]
  BY <1>3 DEF Restrict
<1>7. \A q \in DOMAIN states' : states[q].slot \in Engine!Slots /\ states[q].slot # s
  BY <1>1, <1>6, RequestTyped DEF EInv, OneSlotEach, s
<1>8. /\ kv' \in [Engine!Slots -> Seq(Token)]
      /\ \A q \in DOMAIN states' : kv'[states'[q].slot] = kv[states[q].slot]
  <2>1. << >> \in Seq(Token)
    BY EmptySeq
  <2>2. /\ kv' \in [Engine!Slots -> Seq(Token)]
        /\ \A t \in Engine!Slots \ {s} : kv'[t] = memory[t]
    BY <1>2, <1>3, <2>1
  <2>3. \A t \in Engine!Slots \ {s} : memory[t] = kv[t]
    BY DEF s
  <2> QED
    BY <1>6, <1>7, <2>2, <2>3
<1>9. Engine!BusySlots = Engine!BusySlots' \cup {s} /\ s \notin Engine!BusySlots'
  <2>1. s \notin Engine!BusySlots'
    BY <1>6, <1>7 DEF Engine!BusySlots
  <2>2. ASSUME NEW x \in Engine!BusySlots PROVE x \in Engine!BusySlots' \cup {s}
    BY <1>6 DEF Engine!BusySlots, s
  <2>3. ASSUME NEW x \in Engine!BusySlots' PROVE x \in Engine!BusySlots
    BY <1>6 DEF Engine!BusySlots
  <2> QED
    BY <1>2, <2>1, <2>2, <2>3
<1>10. free' \in Seq(Engine!Slots) /\ Dealt(free', Engine!BusySlots', leaked')
  BY <1>1, <1>2, <1>3, <1>9, DealtReturned
<1>11. DOMAIN todo \subseteq DOMAIN states
  BY <1>1 DEF Engine!TypeOK
<1>12. Engine!TypeOK'
  <2>1. \A q \in DOMAIN states' : states'[q] \in Engine!RequestState
    BY <1>1, <1>6, RequestTyped
  <2>2. states' \in [DOMAIN states' -> Engine!RequestState]
    BY <1>6, <2>1
  <2>3. DOMAIN states' \subseteq 0 .. nextId' - 1 /\ DOMAIN todo' \subseteq DOMAIN states'
    BY <1>1, <1>6, <1>11 DEF Engine!TypeOK, RowsLeft
  <2>4. pins' \in Seq([key : Prompts, slot : Engine!Slots])
    BY <1>3, EmptySeq
  <2> QED
    BY <1>1, <1>5, <1>8, <1>10, <2>2, <2>3, <2>4
    DEF Engine!TypeOK, Engine!RetiredLimit, RowsLeft
<1>13. RowsMade'
  <2>1. \A q \in DOMAIN todo' : q \in DOMAIN todo /\ q \in DOMAIN states' /\ todo'[q] = todo[q]
    BY <1>6, <1>11 DEF RowsLeft
  <2> QED
    BY <1>6, <1>8, <2>1 DEF EInv, RowsMade
<1>14. OneSlotEach'
  BY <1>6 DEF EInv, OneSlotEach
<1>15. Blurred \subseteq Blurred'
  BY DEF Blurred, RowsLeft
<1>16. RequestsHold'
  <2>1. ASSUME NEW q \in DOMAIN states', q \notin Blurred'
        PROVE  Held(states'[q], kv'[states'[q].slot], q \in DOMAIN todo')
    <3>1. q \in DOMAIN states /\ q # r /\ q \notin Blurred /\ q \notin stranded'
      BY <1>6, <1>15, <2>1 DEF Blurred
    <3>2. Held(states[q], kv[states[q].slot], q \in DOMAIN todo)
      BY <3>1 DEF EInv, RequestsHold
    <3>3. (q \in DOMAIN todo') = (q \in DOMAIN todo)
      BY <3>1 DEF RowsLeft
    <3> QED
      BY <1>6, <1>8, <3>2, <3>3
  <2> QED
    BY <2>1 DEF RequestsHold
<1>17. RetiredFollow'
  <2>1. ASSUME NEW i \in DOMAIN retired', retired'[i].id \notin Blurred'
        PROVE  Engine!Follows(retired'[i].prompt, retired'[i].out)
    <3>1. CASE retired'[i] = e
      BY <1>4, <1>15, <2>1, <3>1
    <3>2. CASE \E j \in DOMAIN retired : retired'[i] = retired[j]
      BY <1>15, <2>1, <3>2 DEF EInv, RetiredFollow
    <3> QED
      BY <1>5, <3>1, <3>2
  <2> QED
    BY <2>1 DEF RetiredFollow
<1>18. Blurred' = {} => ~refused'
  BY <1>15 DEF EInv
<1>19. kv'[SnapshotSeq] = kv[SnapshotSeq]
  <2>1. SnapshotSeq \in Engine!Slots /\ SnapshotSeq # s
    BY <1>1, <1>2 DEF Dealt
  <2> QED
    BY <1>3, <2>1 DEF s
<1> QED
  BY <1>3, <1>10, <1>12, <1>13, <1>14, <1>16, <1>17, <1>18, <1>19 DEF EInv

LEMMA CancelKeeps ==
  ASSUME EInv, NEW r \in DOMAIN states, Engine!Cancel(r), UNCHANGED <<leaked, inexact>>
  PROVE  EInv' /\ kv'[SnapshotSeq] = kv[SnapshotSeq]
<1>1. /\ Engine!TypeOK /\ DOMAIN todo = {} /\ nextId \in Nat
      /\ Engine!Retire(r, "cancelled", states[r].out, kv)
      /\ UNCHANGED <<nextId, todo, stranded, refused>>
  BY DEF EInv, Engine!TypeOK, Engine!Cancel, Engine!Idle
<1>2. states[r].out \in Seq(Token) /\ kv \in [Engine!Slots -> Seq(Token)]
  <2>1. states[r] \in Engine!RequestState
    BY <1>1, RequestTyped
  <2> QED
    BY <1>1, <2>1, FieldsTyped DEF Engine!TypeOK
<1>3. r \notin Blurred => Engine!Follows(states[r].prompt, states[r].out)
  <2>1. ASSUME r \notin Blurred PROVE Engine!Follows(states[r].prompt, states[r].out)
    BY <2>1 DEF EInv, RequestsHold, Held, AtRest, InStep
  <2> QED
    BY <2>1
<1>4. RowsLeft(r)
  BY <1>1 DEF RowsLeft, Engine!TypeOK
<1>5. "cancelled" \in Reasons
  BY DEF Reasons
<1> QED
  BY <1>1, <1>2, <1>3, <1>4, <1>5, Retired

-----------------------------------------------------------------------------
(* The rows of a step, which have no drafts. *)

LEMMA NextRowIs ==
  ASSUME EInv, ~Engine!Idle
  PROVE  Engine!NextRow \in DOMAIN todo /\ Engine!NextRow \in DOMAIN states
<1>1. /\ DOMAIN todo # {} /\ DOMAIN todo \subseteq DOMAIN states
      /\ DOMAIN states \subseteq Nat
  <2>1. DOMAIN todo # {}
    BY DEF Engine!Idle
  <2>2. /\ DOMAIN todo \subseteq DOMAIN states
        /\ DOMAIN states \subseteq 0 .. nextId - 1 /\ nextId \in Nat
    BY DEF EInv, Engine!TypeOK
  <2>3. 0 .. nextId - 1 \subseteq Nat
    BY <2>2
  <2> QED
    BY <2>1, <2>2, <2>3
<1>2. \A S : Engine!Min(S) = Min(S)
  BY DEF Engine!Min, Min
<1> DEFINE completed == {r \in DOMAIN todo : states[r].next = NoToken}
<1>3. completed # {} => Min(completed) \in DOMAIN todo
  BY <1>1, SmallestOf
<1>4. Min(DOMAIN todo) \in DOMAIN todo
  BY <1>1, SmallestOf
<1>5. Engine!NextRow \in DOMAIN todo
  BY <1>2, <1>3, <1>4 DEF Engine!NextRow
<1> QED
  BY <1>1, <1>5

\* What is sampled for row r, and what the prover needs to know of the row.
LEMMA RowSampled ==
  ASSUME EInv, NEW r \in DOMAIN todo, r \in DOMAIN states,
         NEW m \in 0 .. Len(todo[r]), NEW token \in Token, Engine!Samples(r, m, token)
  PROVE  /\ m = 0 /\ todo[r] = << >>
         /\ states[r].nPos \in Nat /\ states[r].nPos >= 1
         /\ token \in Support[kv[states[r].slot]]
         /\ Engine!Confirmed(r, m, token) = <<token>>
         /\ states[r].nPos - Len(todo[r]) - 1 + 1 = states[r].nPos
         /\ Engine!Rewound(states[r].slot, states[r].nPos) = kv
<1> DEFINE s == states[r].slot
           n == states[r].nPos
<1>1. /\ Engine!TypeOK /\ todo[r] = << >> /\ n = Len(kv[s]) /\ n >= 1
  BY DEF EInv, RowsMade
<1>2. s \in Engine!Slots /\ kv[s] \in Seq(Token) /\ kv \in [Engine!Slots -> Seq(Token)]
  BY <1>1, RequestTyped DEF Engine!TypeOK
<1>3. n \in Nat
  BY <1>1, <1>2, LenProperties
<1>4. m = 0 /\ Len(todo[r]) = 0
  BY <1>1
<1>5. n - Len(todo[r]) - 1 + 1 = n /\ (n - Len(todo[r]) - 1) + m + 1 = n
  BY <1>3, <1>4
<1>6. SubSeq(kv[s], 1, n) = kv[s]
  BY <1>1, <1>2, WholeBegin DEF Begin
<1>7. token \in Support[SubSeq(kv[s], 1, (n - Len(todo[r]) - 1) + m + 1)]
  BY DEF Engine!Samples
<1>8. Engine!Confirmed(r, m, token) = <<token>>
  <2>1. Engine!Confirmed(r, m, token) = Append(SubSeq(todo[r], 1, m), token)
    BY DEF Engine!Confirmed
  <2>2. SubSeq(todo[r], 1, m) = << >>
    BY <1>1, <1>4
  <2>3. << >> \in Seq(Token) /\ <<token>> \in Seq(Token)
    BY EmptySeq
  <2>4. Append(<< >>, token) = << >> \o <<token>>
    BY <2>3, AppendIsConcat
  <2>5. << >> \o <<token>> = <<token>>
    BY <2>3, ConcatEmptySeq
  <2> HIDE DEF s, n
  <2> QED
    BY <2>1, <2>2, <2>4, <2>5
<1>9. Engine!Rewound(s, n) = kv
  <2>1. Engine!Rewound(s, n) = [kv EXCEPT ![s] = SubSeq(kv[s], 1, n)]
    BY DEF Engine!Rewound
  <2> HIDE DEF s, n
  <2> QED
    BY <1>2, <1>6, <2>1
<1> HIDE DEF s, n
<1>10. token \in Support[kv[s]]
  BY <1>5, <1>6, <1>7
<1> QED
  BY <1>1, <1>3, <1>4, <1>5, <1>8, <1>9, <1>10 DEF s, n

\* The first n, none or one, of the tokens accepted for row r.
Kept(r, token, n) == states[r].out \o SubSeq(<<token>>, 1, n)

\* What row r adds to its request follows from the request's text.
LEMMA KeptFollows ==
  ASSUME EInv, NEW r \in DOMAIN todo, r \in DOMAIN states,
         NEW token \in Token, token \in Support[kv[states[r].slot]], NEW n \in 0 .. 1
  PROVE  /\ Kept(r, token, n) \in Seq(Token)
         /\ n = 0 => Kept(r, token, n) = states[r].out
         /\ n = 1 => Kept(r, token, n) = Append(states[r].out, token)
         /\ r \notin Blurred =>
              /\ InStep(states[r]) /\ kv[states[r].slot] = Text(states[r].prompt, states[r].out)
              /\ Engine!Follows(states[r].prompt, Kept(r, token, n))
<1> DEFINE p == states[r].prompt
           o == states[r].out
<1>1. /\ states[r] \in Engine!RequestState
      /\ p \in Seq(Token) /\ o \in Seq(Token)
  BY RequestTyped, FieldsTyped DEF EInv
<1>2. n = 0 => Kept(r, token, n) = o
  <2>1. SubSeq(<<token>>, 1, 0) = << >>
    OBVIOUS
  <2> HIDE DEF o
  <2> QED
    BY <1>1, <2>1, ConcatEmptySeq DEF Kept, o
<1>3. n = 1 => Kept(r, token, n) = Append(o, token)
  <2>1. SubSeq(<<token>>, 1, 1) = <<token>>
    <3>1. <<token>> \in Seq(Token) /\ Len(<<token>>) = 1
      OBVIOUS
    <3> QED
      BY <3>1, SubSeqFull
  <2>2. Append(o, token) = o \o <<token>>
    BY <1>1, AppendIsConcat
  <2> QED
    BY <2>1, <2>2 DEF Kept
<1>4. Append(o, token) \in Seq(Token)
  BY <1>1, AppendProperties
<1>5. n = 0 \/ n = 1
  OBVIOUS
<1>6. ASSUME r \notin Blurred
      PROVE  /\ InStep(states[r]) /\ kv[states[r].slot] = Text(p, o)
             /\ Engine!Follows(p, Kept(r, token, n))
  <2>1. InStep(states[r]) /\ kv[states[r].slot] = Cells(states[r])
    BY <1>6 DEF EInv, RequestsHold, Held
  <2>2. states[r].nPos = Len(p) + Len(o) /\ Engine!Follows(p, o)
    BY <2>1 DEF InStep
  <2>3. Cells(states[r]) = Begin(Text(p, o), Len(p) + Len(o))
    BY <2>2 DEF Cells, Begin, Text
  <2> HIDE DEF p, o
  <2>4. Text(p, o) \in Seq(Token) /\ Len(Text(p, o)) = Len(p) + Len(o)
    BY <1>1, TextIs
  <2>5. kv[states[r].slot] = Text(p, o)
    BY <2>1, <2>3, <2>4, WholeBegin
  <2>6. Engine!Follows(p, Append(o, token))
    BY <1>1, <2>2, <2>5, FollowsOn
  <2> QED
    BY <1>2, <1>3, <1>5, <2>1, <2>2, <2>5, <2>6
<1> HIDE DEF p, o
<1>7. Kept(r, token, n) \in Seq(Token)
  BY <1>1, <1>2, <1>3, <1>4, <1>5
<1> QED
  BY <1>2, <1>3, <1>6, <1>7 DEF p, o

\* Row r adds token to its request, which goes on.
GoesOn(r, token) ==
  /\ states' = [states EXCEPT ![r].out = Kept(r, token, 1), ![r].next = token]
  /\ states[r].nPos < NCtxSeq
  /\ UNCHANGED <<kv, free, retired, pins>>

LEMMA AcceptIs ==
  ASSUME EInv, NEW r \in DOMAIN todo, r \in DOMAIN states,
         NEW m \in 0 .. Len(todo[r]), NEW token \in Token, NEW h,
         Engine!Accept(r, m, token, h)
  PROVE  /\ todo[r] = << >> /\ token \in Support[kv[states[r].slot]]
         /\ \/ GoesOn(r, token)
            \/ \E reason \in Reasons, n \in 0 .. 1 :
                 Engine!Retire(r, reason, Kept(r, token, n), kv)
<1> DEFINE req == states[r]
           base == req.nPos - Len(todo[r]) - 1
           accepted == Engine!Confirmed(r, m, token)
           final == base + Len(accepted)
           memory == Engine!Rewound(req.slot, final)
           reason(i) == Engine!Reason(r, accepted[i], h = i, Len(req.out) + i,
                                      Engine!CheckedPos(todo[r], base, i))
           ends == {i \in 1 .. m + 1 : reason(i) # "none"}
<1>1. Engine!Samples(r, m, token)
  BY DEF Engine!Accept
<1>2. /\ m = 0 /\ todo[r] = << >>
      /\ req.nPos \in Nat
      /\ token \in Support[kv[req.slot]]
      /\ accepted = <<token>> /\ base + 1 = req.nPos
      /\ Engine!Rewound(req.slot, req.nPos) = kv
  BY <1>1, RowSampled
<1>3. Len(accepted) = 1 /\ accepted[1] = token /\ final = req.nPos /\ memory = kv
  <2>1. Len(<<token>>) = 1 /\ <<token>>[1] = token
    OBVIOUS
  <2> HIDE DEF accepted, base, req
  <2> QED
    BY <1>2, <2>1
<1>4. \/ /\ ends = {}
         /\ states' = [states EXCEPT ![r].out = @ \o accepted,
                                     ![r].next = token, ![r].nPos = final]
         /\ kv' = memory
         /\ UNCHANGED <<free, retired, pins>>
      \/ /\ ends # {}
         /\ LET k == Engine!Min(ends)
                kept == IF accepted[k] = Eog THEN k - 1 ELSE k
            IN  Engine!Retire(r, reason(k), req.out \o SubSeq(accepted, 1, kept), memory)
  BY DEF Engine!Accept
<1>5. CASE ends = {}
  <2>1. reason(1) = "none"
    BY <1>2, <1>5
  <2>2. req.nPos < NCtxSeq
    <3>1. Engine!CheckedPos(todo[r], base, 1) = req.nPos
      BY <1>2 DEF Engine!CheckedPos
    <3>2. ~ (Engine!CheckedPos(todo[r], base, 1) >= NCtxSeq)
      BY <2>1 DEF Engine!Reason
    <3> QED
      BY <1>2, <3>1, <3>2, StoreAssumption
  <2>3. /\ states' = [states EXCEPT ![r].out = @ \o accepted,
                                    ![r].next = token, ![r].nPos = final]
        /\ kv' = memory /\ UNCHANGED <<free, retired, pins>>
    BY <1>4, <1>5
  <2>4. states' = [states EXCEPT ![r].out = Kept(r, token, 1), ![r].next = token]
    <3>1. req.out \o accepted = Kept(r, token, 1)
      <4>1. SubSeq(<<token>>, 1, 1) = <<token>>
        <5>1. <<token>> \in Seq(Token) /\ Len(<<token>>) = 1
          OBVIOUS
        <5> QED
          BY <5>1, SubSeqFull
      <4> QED
        BY <1>2, <4>1 DEF Kept
    <3>2. states \in [DOMAIN states -> Engine!RequestState]
      BY DEF EInv, Engine!TypeOK
    <3>3. req \in Engine!RequestState
      BY <3>2
    <3>4. states' = [states EXCEPT ![r] = [[[req EXCEPT !.out = req.out \o accepted]
                                            EXCEPT !.next = token] EXCEPT !.nPos = final]]
      BY <2>3, <3>2
    <3>5. [[[req EXCEPT !.out = req.out \o accepted]
              EXCEPT !.next = token] EXCEPT !.nPos = final]
            = [[req EXCEPT !.out = Kept(r, token, 1)] EXCEPT !.next = token]
      <4>1. final = req.nPos
        BY <1>3
      <4> HIDE DEF req, final, accepted
      <4> QED
        BY <3>1, <3>3, <4>1 DEF Engine!RequestState
    <3> QED
      BY <3>2, <3>4, <3>5
  <2> QED
    BY <1>2, <1>3, <2>2, <2>3, <2>4 DEF GoesOn
<1>6. CASE ends # {}
  <2>1. Engine!Min(ends) = 1
    <3>1. ends = {1}
      BY <1>2, <1>6
    <3>2. Min({1}) \in {1}
      <4>1. {1} \subseteq Nat /\ {1} # {}
        OBVIOUS
      <4> HIDE DEF ends
      <4> QED
        BY <4>1, SmallestOf
    <3> HIDE DEF ends
    <3> QED
      BY <3>1, <3>2 DEF Engine!Min, Min
  <2>2. reason(1) \in Reasons
    <3>1. reason(1) # "none"
      <4>1. 1 \in ends
        BY <1>2, <1>6
      <4> QED
        BY <4>1
    <3> QED
      BY <3>1 DEF Engine!Reason, Reasons
  <2>3. PICK n \in 0 .. 1 : n = IF accepted[1] = Eog THEN 1 - 1 ELSE 1
    OBVIOUS
  <2>4. Engine!Retire(r, reason(1), req.out \o SubSeq(accepted, 1, n), memory)
    <3> HIDE DEF ends, reason, accepted, memory, req
    <3> QED
      BY <1>4, <1>6, <2>1, <2>3
  <2>5. Engine!Retire(r, reason(1), Kept(r, token, n), kv)
    <3> HIDE DEF reason, memory
    <3> QED
      BY <1>2, <1>3, <2>4 DEF Kept
  <2> HIDE DEF reason
  <2> QED
    BY <1>2, <2>2, <2>5
<1> QED
  BY <1>5, <1>6

\* A request to which row r added token is between steps again.
LEMMA GoesOnKeeps ==
  ASSUME EInv, NEW r \in DOMAIN todo, r \in DOMAIN states,
         NEW token \in Token, token \in Support[kv[states[r].slot]], GoesOn(r, token),
         RowsLeft(r), UNCHANGED <<nextId, refused, leaked, inexact>>
  PROVE  EInv' /\ kv'[SnapshotSeq] = kv[SnapshotSeq]
<1> DEFINE o == Kept(r, token, 1)
           new == states'[r]
<1>1. /\ Engine!TypeOK /\ DOMAIN todo \subseteq DOMAIN states
      /\ states \in [DOMAIN states -> Engine!RequestState]
      /\ states[r] \in Engine!RequestState
  BY RequestTyped DEF EInv, Engine!TypeOK
<1>2. /\ o \in Seq(Token) /\ o = Append(states[r].out, token)
      /\ r \notin Blurred =>
           /\ InStep(states[r]) /\ kv[states[r].slot] = Text(states[r].prompt, states[r].out)
           /\ Engine!Follows(states[r].prompt, o)
  BY KeptFollows
<1> HIDE DEF o
<1>3. states' = [states EXCEPT ![r] = [[states[r] EXCEPT !.out = o] EXCEPT !.next = token]]
  <2>1. states' = [states EXCEPT ![r].out = o, ![r].next = token]
    BY DEF GoesOn, o
  <2> QED
    BY <1>1, <2>1
<1>4. /\ DOMAIN states' = DOMAIN states
      /\ \A q \in DOMAIN states : q # r => states'[q] = states[q]
      /\ new = [[states[r] EXCEPT !.out = o] EXCEPT !.next = token]
  BY <1>1, <1>3
<1> HIDE DEF new
<1>5. /\ new.slot = states[r].slot /\ new.prompt = states[r].prompt
      /\ new.nPrefilled = states[r].nPrefilled /\ new.nPos = states[r].nPos
      /\ new.out = o /\ new.next = token
      /\ new \in Engine!RequestState
  BY <1>1, <1>2, <1>4 DEF Engine!RequestState
<1>6. \A q \in DOMAIN states : states'[q].slot = states[q].slot
  BY <1>4, <1>5 DEF new
<1>7. Engine!TypeOK'
  <2>1. \A q \in DOMAIN states' : states'[q] \in Engine!RequestState
    BY <1>1, <1>4, <1>5, RequestTyped DEF new
  <2>2. states' = [q \in DOMAIN states' |-> states'[q]]
    BY <1>3
  <2>3. states' \in [DOMAIN states' -> Engine!RequestState]
    BY <2>1, <2>2
  <2>4. DOMAIN todo' \subseteq DOMAIN states'
    BY <1>1, <1>4 DEF RowsLeft
  <2> QED
    BY <1>1, <1>4, <2>3, <2>4 DEF Engine!TypeOK, Engine!RetiredLimit, RowsLeft, GoesOn
<1>8. RowsMade'
  <2>1. ASSUME NEW q \in DOMAIN todo'
        PROVE  /\ todo'[q] = << >> /\ states'[q].nPos >= 1
               /\ states'[q].nPos = Len(kv'[states'[q].slot])
    <3>1. q \in DOMAIN todo /\ q # r /\ todo'[q] = todo[q]
      BY DEF RowsLeft
    <3>2. states'[q] = states[q] /\ kv' = kv
      BY <1>1, <1>4, <3>1 DEF GoesOn
    <3> QED
      BY <3>1, <3>2 DEF EInv, RowsMade
  <2> QED
    BY <2>1 DEF RowsMade
<1>9. Engine!BusySlots' = Engine!BusySlots
  BY <1>4, <1>6 DEF Engine!BusySlots
<1>10. OneSlotEach'
  BY <1>4, <1>6 DEF EInv, OneSlotEach
<1>11. Blurred \subseteq Blurred'
  BY DEF Blurred, RowsLeft
<1>12. RequestsHold'
  <2>1. ASSUME NEW q \in DOMAIN states', q \notin Blurred', q # r
        PROVE  Held(states'[q], kv'[states'[q].slot], q \in DOMAIN todo')
    <3>1. q \in DOMAIN states /\ q \notin Blurred /\ q \notin stranded'
      BY <1>4, <1>11, <2>1 DEF Blurred
    <3>2. Held(states[q], kv[states[q].slot], q \in DOMAIN todo)
      BY <3>1 DEF EInv, RequestsHold
    <3>3. (q \in DOMAIN todo') = (q \in DOMAIN todo)
      BY <2>1, <3>1 DEF RowsLeft
    <3> QED
      BY <1>4, <2>1, <3>1, <3>2, <3>3 DEF GoesOn
  <2>2. ASSUME r \notin Blurred'
        PROVE  Held(new, kv'[new.slot], r \in DOMAIN todo')
    <3> DEFINE p == states[r].prompt
               old == states[r].out
               n == states[r].nPos
    <3>1. r \notin Blurred
      BY <1>11, <2>2
    <3>2. (r \in DOMAIN todo') = FALSE
      BY DEF RowsLeft
    <3>3. /\ p \in Seq(Token) /\ old \in Seq(Token) /\ n \in Nat /\ Len(p) \in Nat
          /\ Len(old) \in Nat
      BY <1>1, FieldsTyped
    <3>4. /\ kv[states[r].slot] = Text(p, old) /\ Engine!Follows(p, o)
          /\ states[r].nPrefilled = Len(p) /\ n = Len(p) + Len(old) /\ n < NCtxSeq
      BY <1>2, <3>1 DEF InStep, GoesOn
    <3> HIDE DEF p, old, n
    <3>5. Len(o) = Len(old) + 1 /\ o # << >> /\ Last(o) = token
      <4>1. o = Append(old, token)
        BY <1>2 DEF old
      <4>2. Len(o) = Len(old) + 1 /\ o[Len(old) + 1] = token /\ o # << >>
        BY <3>3, <4>1, AppendProperties
      <4> QED
        BY <4>2 DEF Last
    <3>6. Cells(new) = Text(p, old)
      <4>1. Begin(Text(p, o), n) = Begin(Text(p, old), n)
        <5>1. n \in 0 .. Len(p) + Len(old)
          BY <3>3, <3>4
        <5>2. o = Append(old, token)
          BY <1>2 DEF old
        <5> QED
          BY <3>3, <5>1, <5>2, TextBefore
      <4>2. Text(p, old) \in Seq(Token) /\ Len(Text(p, old)) = n
        BY <3>3, <3>4, TextIs
      <4>3. Begin(Text(p, old), n) = Text(p, old)
        BY <4>2, WholeBegin
      <4>4. Cells(new) = Begin(Text(p, o), n)
        BY <1>5 DEF Cells, Begin, Text, p, n
      <4> QED
        BY <4>1, <4>3, <4>4
    <3>7. AtRest(new)
      <4>1. new.prompt = p /\ new.out = o /\ new.nPos = n /\ new.nPrefilled = Len(p)
        BY <1>5, <3>4 DEF p, n
      <4>2. n + 1 = Len(p) + Len(o)
        BY <3>3, <3>4, <3>5
      <4> QED
        BY <1>5, <3>3, <3>4, <3>5, <4>1, <4>2 DEF AtRest
    <3>8. kv'[new.slot] = Text(p, old)
      BY <1>5, <3>4 DEF GoesOn
    <3> QED
      BY <3>2, <3>6, <3>7, <3>8 DEF Held
  <2> QED
    BY <2>1, <2>2 DEF RequestsHold, new
<1>13. RetiredFollow'
  BY <1>11 DEF EInv, RetiredFollow, GoesOn
<1>14. Blurred' = {} => ~refused'
  BY <1>11 DEF EInv
<1>15. free' = free /\ leaked' = leaked /\ pins' = << >> /\ kv' = kv
  BY DEF EInv, GoesOn
<1>16. Dealt(free', Engine!BusySlots', leaked')
  BY <1>9, <1>15 DEF EInv
<1> QED
  BY <1>7, <1>8, <1>10, <1>12, <1>13, <1>14, <1>15, <1>16 DEF EInv

LEMMA RowsAfterAdvance ==
  ASSUME EInv, NEW r, todo' = Engine!Minus(todo, r), UNCHANGED stranded
  PROVE  RowsLeft(r)
<1>1. /\ todo \in [DOMAIN todo -> Seq(Token)] /\ stranded \subseteq 0 .. nextId - 1
  BY DEF EInv, Engine!TypeOK
<1>2. todo' = [q \in DOMAIN todo \ {r} |-> todo[q]]
  BY DEF Engine!Minus, Engine!Restrict
<1> QED
  BY <1>1, <1>2 DEF RowsLeft

LEMMA RowsAfterAbort ==
  ASSUME EInv, NEW r, Engine!StepAborted(r)
  PROVE  RowsLeft(r) /\ UNCHANGED <<nextId, refused>>
<1>1. /\ todo' = << >> /\ stranded' = stranded \cup (DOMAIN todo \ {r})
      /\ UNCHANGED <<nextId, refused>>
  BY DEF Engine!StepAborted
<1>2. /\ stranded \subseteq 0 .. nextId - 1 /\ DOMAIN todo \subseteq 0 .. nextId - 1
  BY DEF EInv, Engine!TypeOK
<1>3. DOMAIN todo' = {} /\ todo' \in [DOMAIN todo' -> Seq(Token)]
  BY <1>1
<1> QED
  BY <1>1, <1>2, <1>3 DEF RowsLeft

LEMMA AcceptKeeps ==
  ASSUME EInv, NEW r \in DOMAIN todo, r \in DOMAIN states,
         NEW m \in 0 .. Len(todo[r]), NEW token \in Token, NEW h,
         Engine!Accept(r, m, token, h), RowsLeft(r),
         UNCHANGED <<nextId, refused, leaked, inexact>>
  PROVE  EInv' /\ kv'[SnapshotSeq] = kv[SnapshotSeq]
<1>1. /\ token \in Support[kv[states[r].slot]]
      /\ \/ GoesOn(r, token)
         \/ \E reason \in Reasons, n \in 0 .. 1 :
              Engine!Retire(r, reason, Kept(r, token, n), kv)
  BY AcceptIs
<1>2. CASE GoesOn(r, token)
  BY <1>1, <1>2, GoesOnKeeps
<1>3. ASSUME NEW reason \in Reasons, NEW n \in 0 .. 1,
             Engine!Retire(r, reason, Kept(r, token, n), kv)
      PROVE  EInv' /\ kv'[SnapshotSeq] = kv[SnapshotSeq]
  <2>1. /\ Kept(r, token, n) \in Seq(Token)
        /\ r \notin Blurred => Engine!Follows(states[r].prompt, Kept(r, token, n))
    BY <1>1, KeptFollows
  <2>2. kv \in [Engine!Slots -> Seq(Token)]
    BY DEF EInv, Engine!TypeOK
  <2> QED
    BY <1>3, <2>1, <2>2, Retired
<1> QED
  BY <1>1, <1>2, <1>3

LEMMA AdvanceKeeps ==
  ASSUME EInv, Engine!Advance, UNCHANGED <<leaked, inexact>>
  PROVE  EInv' /\ nextId' = nextId /\ kv'[SnapshotSeq] = kv[SnapshotSeq]
<1> DEFINE r == Engine!NextRow
<1>1. ~Engine!Idle /\ UNCHANGED <<nextId, stranded, refused>> /\ todo' = Engine!Minus(todo, r)
  BY DEF Engine!Advance
<1>2. r \in DOMAIN todo /\ r \in DOMAIN states
  BY <1>1, NextRowIs
<1>3. PICK m \in 0 .. Len(todo[r]), token \in Token, h \in 0 .. Len(todo[r]) + 1 :
        Engine!Accept(r, m, token, h)
  BY DEF Engine!Advance
<1> HIDE DEF r
<1>4. RowsLeft(r)
  BY <1>1, RowsAfterAdvance
<1>5. EInv' /\ kv'[SnapshotSeq] = kv[SnapshotSeq]
  BY <1>1, <1>2, <1>3, <1>4, AcceptKeeps
<1> QED
  BY <1>1, <1>5

LEMMA RowFailsKeeps ==
  ASSUME EInv, NEW r \in DOMAIN todo, r \in DOMAIN states,
         NEW m \in 0 .. Len(todo[r]), NEW token \in Token, NEW n \in 0 .. m + 1,
         Engine!RowFails(r, m, token, n), RowsLeft(r),
         UNCHANGED <<nextId, refused, leaked, inexact>>
  PROVE  EInv' /\ kv'[SnapshotSeq] = kv[SnapshotSeq]
<1>1. Engine!Samples(r, m, token)
  BY DEF Engine!RowFails
<1>2. /\ m = 0 /\ todo[r] = << >> /\ states[r].nPos \in Nat
      /\ token \in Support[kv[states[r].slot]]
      /\ Engine!Confirmed(r, m, token) = <<token>>
      /\ states[r].nPos - Len(todo[r]) - 1 + 1 = states[r].nPos
      /\ Engine!Rewound(states[r].slot, states[r].nPos) = kv
  BY <1>1, RowSampled
<1>3. Engine!Retire(r, "error", Kept(r, token, n), kv)
  <2> DEFINE base == states[r].nPos - Len(todo[r]) - 1
             accepted == Engine!Confirmed(r, m, token)
  <2>1. \E memory \in {Engine!Rewound(states[r].slot, base + Len(accepted))}
                         \cup (IF n = 0 THEN {kv} ELSE {}) :
          Engine!Retire(r, "error", states[r].out \o SubSeq(accepted, 1, n), memory)
    BY DEF Engine!RowFails
  <2>2. base + Len(accepted) = states[r].nPos
    <3>1. Len(<<token>>) = 1
      OBVIOUS
    <3>2. accepted = <<token>> /\ base + 1 = states[r].nPos
      BY <1>2
    <3> HIDE DEF base, accepted
    <3> QED
      BY <3>1, <3>2
  <2>3. \A memory \in {Engine!Rewound(states[r].slot, base + Len(accepted))}
                        \cup (IF n = 0 THEN {kv} ELSE {}) : memory = kv
    <3> HIDE DEF base, accepted
    <3> QED
      BY <1>2, <2>2
  <2>4. states[r].out \o SubSeq(accepted, 1, n) = Kept(r, token, n)
    BY <1>2 DEF Kept
  <2> HIDE DEF base, accepted
  <2> QED
    BY <2>1, <2>3, <2>4
<1>4. n \in 0 .. 1
  BY <1>2
<1>5. /\ Kept(r, token, n) \in Seq(Token)
      /\ r \notin Blurred => Engine!Follows(states[r].prompt, Kept(r, token, n))
  BY <1>2, <1>4, KeptFollows
<1>6. kv \in [Engine!Slots -> Seq(Token)]
  BY DEF EInv, Engine!TypeOK
<1>7. PICK reason \in Reasons : reason = "error"
  BY DEF Reasons
<1>8. Engine!Retire(r, reason, Kept(r, token, n), kv)
  BY <1>3, <1>7
<1> QED
  BY <1>5, <1>6, <1>8, Retired

LEMMA AdvanceFailsKeeps ==
  ASSUME EInv, Engine!AdvanceFails, UNCHANGED <<leaked, inexact>>
  PROVE  EInv' /\ nextId' = nextId /\ kv'[SnapshotSeq] = kv[SnapshotSeq]
<1> DEFINE r == Engine!NextRow
<1>1. ~Engine!Idle /\ Engine!StepAborted(r)
  BY DEF Engine!AdvanceFails
<1>2. r \in DOMAIN todo /\ r \in DOMAIN states
  BY <1>1, NextRowIs
<1>3. PICK m \in 0 .. Len(todo[r]), token \in Token :
        \E n \in 0 .. m + 1 : Engine!RowFails(r, m, token, n)
  BY DEF Engine!AdvanceFails
<1>4. PICK n \in 0 .. m + 1 : Engine!RowFails(r, m, token, n)
  BY <1>3
<1> HIDE DEF r
<1>5. RowsLeft(r) /\ UNCHANGED <<nextId, refused>>
  BY <1>1, RowsAfterAbort
<1>6. EInv' /\ kv'[SnapshotSeq] = kv[SnapshotSeq]
  BY <1>2, <1>4, <1>5, RowFailsKeeps
<1> QED
  BY <1>5, <1>6

\* Without drafts there is nothing to sync.
LEMMA NoSync ==
  ASSUME EInv
  PROVE  ~Engine!SyncFails
<1> SUFFICES ASSUME Engine!SyncFails PROVE FALSE
  OBVIOUS
<1>1. ~Engine!Idle /\ todo[Engine!NextRow] # << >>
  BY DEF Engine!SyncFails
<1>2. Engine!NextRow \in DOMAIN todo
  BY <1>1, NextRowIs
<1> QED
  BY <1>1, <1>2 DEF EInv, RowsMade

-----------------------------------------------------------------------------
(* One decode. *)

LEMMA NoDraft ==
  ASSUME NEW d \in Engine!DraftSeqs
  PROVE  d = << >>
<1>1. PICK n \in 0 .. 0 : d \in [1 .. n -> Token]
  BY DEF Engine!DraftSeqs, Engine!BoundedSeq, Engine!SeqOf
<1>2. n = 0 /\ DOMAIN d = {}
  BY <1>1
<1>3. d \in Seq(Token) /\ Len(d) = 0
  BY <1>1, <1>2
<1> QED
  BY <1>3, EmptySeq

\* A request between steps that no fault has spoiled.
LEMMA RestFacts ==
  ASSUME EInv, Engine!Idle, NEW r \in DOMAIN states, r \notin Blurred
  PROVE  LET q == states[r]
         IN  /\ AtRest(q)
             /\ q.nPos < NCtxSeq /\ q.nPrefilled <= Len(q.prompt)
             /\ kv[q.slot] = Begin(Text(q.prompt, q.out), q.nPos)
             /\ Len(kv[q.slot]) = q.nPos
             /\ Engine!Prefilling(r) => q.nPos = q.nPrefilled /\ q.out = << >>
             /\ ~Engine!Prefilling(r) =>
                  /\ q.nPrefilled = Len(q.prompt) /\ q.out # << >>
                  /\ q.nPos + 1 = Len(q.prompt) + Len(q.out)
                  /\ q.next = Last(q.out)
             /\ Engine!Follows(q.prompt, q.out)
<1> DEFINE q == states[r]
           p == q.prompt
           o == q.out
           n == q.nPos
           f == q.nPrefilled
<1>1. /\ p \in Seq(Token) /\ o \in Seq(Token) /\ n \in Nat /\ f \in Nat
      /\ Len(p) \in Nat /\ Len(o) \in Nat
  BY RequestTyped, FieldsTyped DEF EInv
<1>2. AtRest(q) /\ kv[q.slot] = Cells(q)
  <2>1. Held(q, kv[q.slot], r \in DOMAIN todo)
    BY DEF EInv, RequestsHold
  <2>2. (r \in DOMAIN todo) = FALSE
    BY DEF Engine!Idle
  <2> QED
    BY <2>1, <2>2 DEF Held
<1>3. Engine!Prefilling(r) <=> f < Len(p)
  BY DEF Engine!Prefilling
<1>4. Cells(q) = Begin(Text(p, o), n)
  BY DEF Cells, Begin, Text
<1> HIDE DEF q, p, o, n, f
<1>5. /\ n < NCtxSeq /\ f <= Len(p)
      /\ f < Len(p) => n = f /\ o = << >>
      /\ ~ (f < Len(p)) =>
           f = Len(p) /\ o # << >> /\ n + 1 = Len(p) + Len(o) /\ q.next = Last(o)
      /\ Engine!Follows(p, o)
  <2>1. /\ f <= Len(p)
        /\ f < Len(p) => n = f /\ o = << >>
        /\ f = Len(p) => o # << >> /\ n + 1 = Len(p) + Len(o)
        /\ o # << >> => q.next = Last(o)
        /\ n < NCtxSeq
        /\ Engine!Follows(p, o)
    BY <1>2 DEF AtRest, p, o, n, f
  <2>2. ~ (f < Len(p)) => f = Len(p)
    BY <1>1, <2>1
  <2> QED
    BY <2>1, <2>2
<1>6. n <= Len(p) + Len(o)
  BY <1>1, <1>5
<1>7. Text(p, o) \in Seq(Token) /\ n \in 0 .. Len(Text(p, o))
  <2>1. Text(p, o) \in Seq(Token) /\ Len(Text(p, o)) = Len(p) + Len(o)
    BY <1>1, TextIs
  <2> QED
    BY <1>1, <1>6, <2>1
<1>8. Len(Begin(Text(p, o), n)) = n
  BY <1>7, BeginIs
<1> QED
  BY <1>2, <1>3, <1>4, <1>5, <1>8 DEF q, p, o, n, f

\* A chunk never runs past the end of its prompt or of its slot.
LEMMA ChunkBounded ==
  ASSUME EInv, NEW chunk \in [{q \in DOMAIN states : Engine!Prefilling(q)} -> 0 .. NBatch],
         Engine!IsPrefillPlan(chunk), NEW r \in DOMAIN chunk
  PROVE  /\ chunk[r] \in Nat
         /\ states[r].nPrefilled + chunk[r] <= Len(states[r].prompt)
         /\ states[r].nPos < NCtxSeq => states[r].nPos + chunk[r] <= NCtxSeq
<1> DEFINE left == Len(states[r].prompt) - states[r].nPrefilled
           room == Engine!Most(0, NCtxSeq - states[r].nPos)
           both == Engine!Least(left, room)
           spare == NBatch - Engine!SumFunctionOnSet(chunk, {q \in DOMAIN chunk : q < r})
           c == chunk[r]
<1>1. c = Engine!Least(both, spare)
  BY DEF Engine!IsPrefillPlan
<1>2. r \in DOMAIN states /\ c \in 0 .. NBatch
  OBVIOUS
<1>3. c \in Nat /\ NCtxSeq \in Nat
  BY <1>2, StoreAssumption
<1>4. /\ states[r].nPos \in Nat /\ states[r].nPrefilled \in Nat /\ Len(states[r].prompt) \in Nat
  BY <1>2, RequestTyped, FieldsTyped DEF EInv
<1>5. /\ left \in Int /\ room \in Int
      /\ states[r].nPos < NCtxSeq => room = NCtxSeq - states[r].nPos
  BY <1>3, <1>4 DEF Engine!Most
<1> HIDE DEF spare, left, room, c
<1>6. both \in Int /\ both <= left /\ both <= room
  BY <1>5 DEF Engine!Least
<1> HIDE DEF both
<1>7. c <= both
  <2>1. CASE both <= spare
    BY <1>1, <1>6, <2>1 DEF Engine!Least
  <2>2. CASE ~ (both <= spare)
    <3>1. c = spare /\ spare \in Int
      BY <1>1, <1>3, <2>2 DEF Engine!Least
    <3> QED
      BY <1>6, <2>2, <3>1
  <2> QED
    BY <2>1, <2>2
<1>8. c <= left /\ c <= room
  BY <1>3, <1>5, <1>6, <1>7
<1>9. states[r].nPrefilled + c <= Len(states[r].prompt)
  BY <1>3, <1>4, <1>8 DEF left
<1>10. states[r].nPos < NCtxSeq => states[r].nPos + c <= NCtxSeq
  BY <1>3, <1>4, <1>5, <1>8
<1> QED
  BY <1>3, <1>9, <1>10 DEF c

\* Request r has in the batch the next chunk of its prompt, its pending token, or
\* nothing.
InBatch(r, chunk, rows, x) ==
  /\ r \in DOMAIN chunk =>
       /\ Engine!Prefilling(r) /\ r \notin rows
       /\ chunk[r] \in Nat
       /\ states[r].nPrefilled + chunk[r] <= Len(states[r].prompt)
       /\ states[r].nPos < NCtxSeq => states[r].nPos + chunk[r] <= NCtxSeq
       /\ x = SubSeq(states[r].prompt, states[r].nPrefilled + 1,
                     states[r].nPrefilled + chunk[r])
       /\ x \in Seq(Token) /\ Len(x) = chunk[r]
  /\ r \in rows =>
       /\ ~Engine!Prefilling(r) /\ r \notin DOMAIN chunk
       /\ x = <<states[r].next>> /\ x \in Seq(Token) /\ Len(x) = 1
  /\ r \notin DOMAIN chunk /\ r \notin rows => x = << >>
  /\ x \in Seq(Token) /\ Len(x) \in Nat

LEMMA PackedIs ==
  ASSUME EInv, NEW chunk \in [{q \in DOMAIN states : Engine!Prefilling(q)} -> 0 .. NBatch],
         Engine!IsPrefillPlan(chunk),
         NEW rows \in SUBSET {q \in DOMAIN states : Engine!Generating(q)},
         NEW drafts \in [rows -> Engine!DraftSeqs], NEW r \in DOMAIN states
  PROVE  InBatch(r, chunk, rows, Engine!Packed(r, chunk, drafts))
<1> DEFINE x == Engine!Packed(r, chunk, drafts)
           q == states[r]
<1>1. /\ DOMAIN chunk = {k \in DOMAIN states : Engine!Prefilling(k)}
      /\ DOMAIN drafts = rows
  OBVIOUS
<1>2. /\ q.prompt \in Seq(Token) /\ q.nPrefilled \in Nat
      /\ q.next \in Token \cup {NoToken}
  BY RequestTyped, FieldsTyped DEF EInv
<1>3. CASE r \in DOMAIN chunk
  <2> DEFINE c == chunk[r]
  <2>1. Engine!Prefilling(r) /\ r \notin rows
    BY <1>1, <1>3 DEF Engine!Generating
  <2>2. /\ c \in Nat /\ q.nPrefilled + c <= Len(q.prompt)
        /\ q.nPos < NCtxSeq => q.nPos + c <= NCtxSeq
    BY <1>3, ChunkBounded
  <2>3. x = SubSeq(q.prompt, q.nPrefilled + 1, q.nPrefilled + c)
    BY <1>3 DEF Engine!Packed
  <2> HIDE DEF x, q, c
  <2>4. x \in Seq(Token) /\ Len(x) = c
    <3> DEFINE p == q.prompt
               f == q.nPrefilled
    <3>1. p \in Seq(Token) /\ f \in Nat /\ c \in Nat /\ f + c <= Len(p)
      BY <1>2, <2>2
    <3> HIDE DEF p, f
    <3>2. SubSeq(p, f + 1, f + c) \in Seq(Token) /\ Len(SubSeq(p, f + 1, f + c)) = c
      BY <3>1, ChunkIs
    <3> QED
      BY <2>3, <3>2 DEF p, f
  <2> QED
    BY <1>3, <2>1, <2>2, <2>3, <2>4 DEF InBatch, x, q, c
<1>4. CASE r \in rows
  <2>1. ~Engine!Prefilling(r) /\ r \notin DOMAIN chunk /\ q.next # NoToken
    BY <1>1, <1>4 DEF Engine!Generating
  <2>2. drafts[r] = << >>
    BY <1>1, <1>4, NoDraft
  <2>3. <<q.next>> \in Seq(Token) /\ Len(<<q.next>>) = 1
    BY <1>2, <2>1
  <2>4. x = <<q.next>> \o drafts[r]
    BY <1>1, <1>4, <2>1 DEF Engine!Packed
  <2> HIDE DEF x, q
  <2>5. x = <<q.next>>
    BY <2>2, <2>3, <2>4, ConcatEmptySeq
  <2> QED
    BY <1>4, <2>1, <2>3, <2>5 DEF InBatch, x, q
<1>5. CASE r \notin DOMAIN chunk /\ r \notin rows
  <2>1. x = << >>
    BY <1>1, <1>5 DEF Engine!Packed
  <2> HIDE DEF x
  <2> QED
    BY <1>5, <2>1, EmptySeq DEF InBatch, x
<1> QED
  BY <1>3, <1>4, <1>5

\* llama_decode accepts every row of a request that no fault has spoiled.
LEMMA RowAccepted ==
  ASSUME EInv, Engine!Idle, NEW r \in DOMAIN states, r \notin Blurred,
         NEW chunk, NEW rows, NEW x, InBatch(r, chunk, rows, x)
  PROVE  states[r].nPos = Len(kv[states[r].slot]) /\ states[r].nPos + Len(x) <= NCtxSeq
<1> DEFINE n == states[r].nPos
<1>1. n \in Nat /\ Len(kv[states[r].slot]) = n /\ n < NCtxSeq /\ NCtxSeq \in Nat
  BY RequestTyped, FieldsTyped, RestFacts, StoreAssumption DEF EInv
<1>2. Len(x) = 0 \/ Len(x) = 1 \/ n + Len(x) <= NCtxSeq
  <2>1. CASE r \in DOMAIN chunk
    BY <1>1, <2>1 DEF InBatch
  <2>2. CASE r \in rows
    BY <2>2 DEF InBatch
  <2>3. CASE r \notin DOMAIN chunk /\ r \notin rows
    <3>1. x = << >>
      BY <2>3 DEF InBatch
    <3> QED
      BY <3>1, EmptySeq
  <2> QED
    BY <2>1, <2>2, <2>3
<1>3. PICK l : l = Len(x)
  OBVIOUS
<1> HIDE DEF n
<1>4. n + l <= NCtxSeq
  BY <1>1, <1>2, <1>3
<1> QED
  BY <1>1, <1>3, <1>4 DEF n

\* The commit moves request r past its tokens x of the batch.
Moved(r, x, chunk) ==
  LET old == states[r]
      new == states'[r]
  IN  /\ new \in Engine!RequestState
      /\ new.slot = old.slot /\ new.prompt = old.prompt /\ new.out = old.out
      /\ new.next = old.next
      /\ new.nPos = old.nPos + Len(x)
      /\ new.nPrefilled = IF r \in DOMAIN chunk THEN old.nPrefilled + chunk[r]
                          ELSE old.nPrefilled
      /\ kv'[old.slot] = kv[old.slot] \o x

LEMMA CommittedMoves ==
  ASSUME EInv, NEW chunk, NEW rows, NEW drafts, Engine!Committed(chunk, drafts),
         NEW r \in DOMAIN states, InBatch(r, chunk, rows, Engine!Packed(r, chunk, drafts))
  PROVE  Moved(r, Engine!Packed(r, chunk, drafts), chunk)
<1> DEFINE old == states[r]
           x == Engine!Packed(r, chunk, drafts)
           n == old.nPos + Len(x)
           f == IF r \in DOMAIN chunk THEN old.nPrefilled + chunk[r] ELSE old.nPrefilled
           s == old.slot
           new == states'[r]
<1>1. old \in Engine!RequestState /\ s \in Engine!Slots /\ s \in Engine!BusySlots
  BY RequestTyped DEF EInv
<1>2. old.nPos \in Nat /\ old.nPrefilled \in Nat /\ Len(x) \in Nat
  BY <1>1, FieldsTyped DEF InBatch
<1>3. n \in Nat /\ f \in Nat
  BY <1>2 DEF InBatch
<1>4. new = [old EXCEPT !.nPos = n, !.nPrefilled = f]
  BY DEF Engine!Committed
<1>5. kv'[s] = kv[s] \o x
  <2> DEFINE owner == CHOOSE q \in DOMAIN states : states[q].slot = s
  <2>1. owner = r
    BY DEF EInv, OneSlotEach
  <2>2. kv'[s] = kv[s] \o Engine!Packed(owner, chunk, drafts)
    BY <1>1, Zenon DEF Engine!Committed
  <2> QED
    BY <2>1, <2>2
<1> HIDE DEF n, f, new, x
<1>6. /\ new.slot = old.slot /\ new.prompt = old.prompt
      /\ new.next = old.next /\ new.out = old.out
      /\ new.nPos = n /\ new.nPrefilled = f
      /\ new \in Engine!RequestState
  <2> HIDE DEF old
  <2> QED
    BY <1>1, <1>3, <1>4 DEF Engine!RequestState
<1> QED
  BY <1>5, <1>6 DEF n, f, new, x, Moved

\* A request that no fault has spoiled holds its text after the decode as well.
LEMMA RowHeld ==
  ASSUME EInv, Engine!Idle, NEW r \in DOMAIN states, r \notin Blurred,
         NEW chunk, NEW rows, NEW x, InBatch(r, chunk, rows, x), Moved(r, x, chunk),
         DOMAIN todo' = Engine!Completed(chunk) \cup rows
  PROVE  Held(states'[r], kv'[states'[r].slot], r \in DOMAIN todo')
<1> DEFINE q == states[r]
           p == q.prompt
           o == q.out
           n == q.nPos
           f == q.nPrefilled
           new == states'[r]
           now == kv'[new.slot]
           old == kv[q.slot]
<1>0. NCtxSeq \in Nat
  BY StoreAssumption
<1>1. /\ p \in Seq(Token) /\ o \in Seq(Token) /\ n \in Nat /\ f \in Nat
      /\ Len(p) \in Nat /\ Len(o) \in Nat /\ Len(p) < NCtxSeq
  BY RequestTyped, FieldsTyped DEF EInv
<1>2. /\ new.prompt = p /\ new.out = o /\ new.next = q.next
      /\ new.nPos = n + Len(x) /\ now = old \o x
      /\ new.nPrefilled = IF r \in DOMAIN chunk THEN f + chunk[r] ELSE f
  BY DEF Moved
<1>3. /\ AtRest(q) /\ n < NCtxSeq /\ f <= Len(p)
      /\ old = Begin(Text(p, o), n)
      /\ Engine!Prefilling(r) => n = f /\ o = << >>
      /\ ~Engine!Prefilling(r) =>
           f = Len(p) /\ o # << >> /\ n + 1 = Len(p) + Len(o) /\ q.next = Last(o)
      /\ Engine!Follows(p, o)
  BY RestFacts
<1>4. Engine!Prefilling(r) <=> f < Len(p)
  BY DEF Engine!Prefilling
<1>5. Cells(new) = Begin(Text(new.prompt, new.out), new.nPos)
  BY DEF Cells, Begin, Text
<1>6. CASE r \in DOMAIN chunk
  <2> DEFINE c == chunk[r]
  <2>1. /\ Engine!Prefilling(r) /\ r \notin rows /\ c \in Nat /\ f + c <= Len(p)
        /\ x = SubSeq(p, f + 1, f + c) /\ Len(x) = c
    BY <1>6 DEF InBatch
  <2>2. (r \in DOMAIN todo') = (c > 0 /\ f + c >= Len(p))
    BY <1>6, <2>1 DEF Engine!Completed
  <2> HIDE DEF c, q, p, o, n, f, new, now, old
  <2>3. n = f /\ o = << >> /\ f < Len(p) /\ Len(o) = 0
    BY <1>3, <1>4, <2>1, EmptySeq
  <2>4. now = Begin(Text(p, o), f + c)
    <3>1. Begin(Text(p, << >>), f) \o SubSeq(p, f + 1, f + c) = Begin(Text(p, << >>), f + c)
      BY <1>1, <2>1, ChunkCells
    <3> QED
      BY <1>2, <1>3, <2>1, <2>3, <3>1
  <2>5. new.nPos = f + c /\ new.nPrefilled = f + c
    BY <1>2, <1>6, <2>1, <2>3 DEF c
  <2>6. now = Cells(new)
    BY <1>2, <1>5, <2>4, <2>5
  <2>7. CASE f + c = Len(p)
    <3>1. c > 0
      BY <1>1, <2>1, <2>3, <2>7
    <3>2. r \in DOMAIN todo'
      BY <1>1, <2>1, <2>2, <2>7, <3>1
    <3>3. Len(p) = Len(p) + Len(o) /\ Len(p) <= NCtxSeq
      BY <1>0, <1>1, <2>3
    <3>4. InStep(new)
      BY <1>2, <1>3, <2>3, <2>5, <2>7, <3>3 DEF InStep
    <3> QED
      BY <2>6, <3>2, <3>4 DEF Held, now, new
  <2>8. CASE f + c # Len(p)
    <3>1. f + c < Len(p) /\ f + c < NCtxSeq
      <4>1. f \in Nat /\ c \in Nat /\ Len(p) \in Nat /\ f + c <= Len(p)
        BY <1>1, <2>1
      <4>2. f + c < Len(p)
        BY <2>8, <4>1
      <4> QED
        BY <1>0, <1>1, <4>1, <4>2
    <3>2. (r \in DOMAIN todo') = FALSE
      BY <1>1, <2>1, <2>2, <3>1
    <3>3. AtRest(new)
      BY <1>1, <1>2, <1>3, <2>1, <2>3, <2>5, <3>1 DEF AtRest
    <3> QED
      BY <2>6, <3>2, <3>3 DEF Held, now, new
  <2> QED
    BY <2>7, <2>8
<1>7. CASE r \in rows
  <2>1. /\ ~Engine!Prefilling(r) /\ r \notin DOMAIN chunk
        /\ x = <<q.next>> /\ Len(x) = 1
    BY <1>7 DEF InBatch
  <2>2. r \in DOMAIN todo'
    BY <1>7
  <2> HIDE DEF q, p, o, n, f, new, now, old
  <2>3. f = Len(p) /\ o # << >> /\ n + 1 = Len(p) + Len(o) /\ q.next = Last(o)
    BY <1>3, <2>1
  <2>4. now = Begin(Text(p, o), n + 1)
    <3>1. Begin(Text(p, o), n) \o <<Last(o)>> = Begin(Text(p, o), n + 1)
      BY <1>1, <2>3, PendingCells
    <3> QED
      BY <1>2, <1>3, <2>1, <2>3, <3>1
  <2>5. new.nPos = n + 1 /\ new.nPrefilled = f
    BY <1>2, <2>1
  <2>6. now = Cells(new)
    BY <1>2, <1>5, <2>4, <2>5
  <2>7. n + 1 <= NCtxSeq
    BY <1>0, <1>1, <1>3
  <2>8. InStep(new)
    BY <1>2, <1>3, <2>3, <2>5, <2>7 DEF InStep
  <2> QED
    BY <2>2, <2>6, <2>8 DEF Held, now, new
<1>8. CASE r \notin DOMAIN chunk /\ r \notin rows
  <2>1. x = << >> /\ (r \in DOMAIN todo') = FALSE
    BY <1>8 DEF InBatch, Engine!Completed
  <2>2. old \in Seq(Token)
    BY RequestTyped DEF EInv
  <2> HIDE DEF q, p, o, n, f, new, now, old
  <2>3. now = old
    BY <1>2, <2>1, <2>2, ConcatEmptySeq
  <2>4. Len(x) = 0
    BY <2>1, EmptySeq
  <2>5. new.nPos = n /\ new.nPrefilled = f
    BY <1>1, <1>2, <1>8, <2>4
  <2>6. now = Cells(new)
    BY <1>2, <1>3, <1>5, <2>3, <2>5
  <2>7. AtRest(new)
    BY <1>2, <1>3, <2>5 DEF AtRest, p, o, n, f
  <2> QED
    BY <2>1, <2>6, <2>7 DEF Held, now, new
<1> QED
  BY <1>6, <1>7, <1>8

LEMMA DecodeKeeps ==
  ASSUME EInv, Engine!Decode, UNCHANGED <<leaked, inexact>>
  PROVE  EInv' /\ nextId' = nextId /\ kv'[SnapshotSeq] = kv[SnapshotSeq]
<1>1. /\ Engine!Idle /\ UNCHANGED <<nextId, free, retired, pins, stranded>>
      /\ \E chunk \in [{r \in DOMAIN states : Engine!Prefilling(r)} -> 0 .. NBatch] :
           LET left == NBatch - Engine!SumFunction(chunk)
               rows == Engine!DecodeRows(left)
           IN  /\ Engine!IsPrefillPlan(chunk)
               /\ \E drafts \in [rows -> Engine!DraftSeqs] :
                    IF Engine!Accepted(chunk, drafts)
                    THEN Engine!Committed(chunk, drafts) ELSE Engine!Refused
  BY DEF Engine!Decode
<1>2. PICK chunk \in [{r \in DOMAIN states : Engine!Prefilling(r)} -> 0 .. NBatch] :
        LET left == NBatch - Engine!SumFunction(chunk)
            rows == Engine!DecodeRows(left)
        IN  /\ Engine!IsPrefillPlan(chunk)
            /\ \E drafts \in [rows -> Engine!DraftSeqs] :
                 IF Engine!Accepted(chunk, drafts)
                 THEN Engine!Committed(chunk, drafts) ELSE Engine!Refused
  BY <1>1
<1>3. PICK rows : rows = Engine!DecodeRows(NBatch - Engine!SumFunction(chunk))
  OBVIOUS
<1>4. /\ Engine!IsPrefillPlan(chunk)
      /\ \E drafts \in [rows -> Engine!DraftSeqs] :
           IF Engine!Accepted(chunk, drafts)
           THEN Engine!Committed(chunk, drafts) ELSE Engine!Refused
  BY <1>2, <1>3
<1>5. PICK drafts \in [rows -> Engine!DraftSeqs] :
        IF Engine!Accepted(chunk, drafts)
        THEN Engine!Committed(chunk, drafts) ELSE Engine!Refused
  BY <1>4
<1>6. rows \in SUBSET {r \in DOMAIN states : Engine!Generating(r)}
  BY <1>3 DEF Engine!DecodeRows
<1>7. \A r \in DOMAIN states : InBatch(r, chunk, rows, Engine!Packed(r, chunk, drafts))
  BY <1>4, <1>6, PackedIs
<1>8. /\ Engine!TypeOK /\ pins = << >> /\ nextId \in Nat
      /\ DOMAIN todo = {} /\ DOMAIN drafts = rows
      /\ DOMAIN chunk = {r \in DOMAIN states : Engine!Prefilling(r)}
  BY <1>1 DEF EInv, Engine!TypeOK, Engine!Idle
<1>9. CASE ~Engine!Accepted(chunk, drafts)
  <2>1. refused' = TRUE /\ UNCHANGED <<states, kv, todo>>
    BY <1>5, <1>9 DEF Engine!Refused
  <2>2. Blurred # {}
    <3>1. PICK r \in DOMAIN states :
            ~ (/\ states[r].nPos = Len(kv[states[r].slot])
               /\ states[r].nPos + Len(Engine!Packed(r, chunk, drafts)) <= NCtxSeq)
      BY <1>9 DEF Engine!Accepted
    <3>2. r \notin Blurred => FALSE
      BY <1>1, <1>7, <3>1, RowAccepted
    <3> QED
      BY <3>2
  <2>3. Engine!TypeOK'
    BY <1>1, <1>8, <2>1 DEF Engine!TypeOK, Engine!RetiredLimit
  <2>4. /\ RowsMade' /\ OneSlotEach' /\ RequestsHold' /\ RetiredFollow'
        /\ Engine!BusySlots' = Engine!BusySlots /\ Blurred' # {}
    BY <1>1, <2>1, <2>2
    DEF EInv, RowsMade, OneSlotEach, RequestsHold, RetiredFollow, Engine!BusySlots, Blurred
  <2>5. free' = free /\ leaked' = leaked /\ pins' = << >> /\ nextId' = nextId
    BY <1>1, <1>8
  <2>6. Dealt(free', Engine!BusySlots', leaked')
    BY <2>4, <2>5 DEF EInv
  <2> QED
    BY <2>1, <2>3, <2>4, <2>5, <2>6 DEF EInv
<1>10. CASE Engine!Accepted(chunk, drafts)
  <2>1. Engine!Committed(chunk, drafts) /\ refused' = refused
    BY <1>5, <1>10 DEF Engine!Committed
  <2>2. ASSUME NEW r \in DOMAIN states
        PROVE  Moved(r, Engine!Packed(r, chunk, drafts), chunk)
    BY <1>7, <2>1, CommittedMoves
  <2>3. /\ states' = [r \in DOMAIN states |-> states'[r]] /\ DOMAIN states' = DOMAIN states
        /\ DOMAIN todo' = Engine!Completed(chunk) \cup rows
        /\ DOMAIN kv' = Engine!Slots
    BY <1>8, <2>1 DEF Engine!Committed
  <2>4. ASSUME NEW r \in DOMAIN todo' PROVE r \in DOMAIN states /\ todo'[r] = << >>
    <3>1. r \in DOMAIN states
      BY <1>6, <1>8, <2>3 DEF Engine!Completed
    <3>2. todo'[r] = IF r \in DOMAIN drafts THEN drafts[r] ELSE << >>
      BY <2>1, <2>3, <1>8 DEF Engine!Committed
    <3>3. r \in rows => drafts[r] = << >>
      BY NoDraft
    <3> QED
      BY <1>8, <3>1, <3>2, <3>3
  <2>5. \A r \in DOMAIN states : states'[r].slot = states[r].slot
    BY <2>2 DEF Moved
  <2>6. Engine!BusySlots' = Engine!BusySlots
    BY <2>3, <2>5 DEF Engine!BusySlots
  <2>7. ASSUME NEW r \in DOMAIN states PROVE kv'[states[r].slot] \in Seq(Token)
    <3>1. PICK x : x = Engine!Packed(r, chunk, drafts)
      OBVIOUS
    <3>2. x \in Seq(Token)
      BY <1>7, <3>1 DEF InBatch
    <3>3. kv'[states[r].slot] = kv[states[r].slot] \o x
      BY <2>2, <3>1 DEF Moved
    <3>4. kv[states[r].slot] \in Seq(Token)
      BY <1>8, RequestTyped
    <3> QED
      BY <3>2, <3>3, <3>4, ConcatProperties
  <2>8. \A s \in Engine!Slots \ Engine!BusySlots : kv'[s] = kv[s]
    BY <2>1 DEF Engine!Committed
  <2>9. kv' \in [Engine!Slots -> Seq(Token)]
    <3>1. ASSUME NEW s \in Engine!Slots PROVE kv'[s] \in Seq(Token)
      <4>1. CASE s \in Engine!BusySlots
        BY <2>7, <4>1 DEF Engine!BusySlots
      <4>2. CASE s \notin Engine!BusySlots
        BY <1>8, <2>8, <4>2 DEF Engine!TypeOK
      <4> QED
        BY <4>1, <4>2
    <3>2. kv' = [s \in Engine!Slots |-> kv'[s]]
      <4> DEFINE cells(s) ==
                   IF s \in Engine!BusySlots
                   THEN LET r == CHOOSE r \in DOMAIN states : states[r].slot = s
                        IN  kv[s] \o Engine!Packed(r, chunk, drafts)
                   ELSE kv[s]
      <4>1. kv' = [s \in Engine!Slots |-> cells(s)]
        BY <2>1 DEF Engine!Committed
      <4> HIDE DEF cells
      <4> QED
        BY <4>1
    <3> QED
      BY <3>1, <3>2
  <2>10. Engine!TypeOK'
    <3>1. \A r \in DOMAIN states' : states'[r] \in Engine!RequestState
      BY <2>2, <2>3 DEF Moved
    <3>2. states' \in [DOMAIN states' -> Engine!RequestState]
      BY <2>3, <3>1
    <3>3. todo' \in [DOMAIN todo' -> Seq(Token)] /\ DOMAIN todo' \subseteq DOMAIN states'
      <4>1. todo' = [r \in DOMAIN todo' |-> todo'[r]]
        BY <2>1 DEF Engine!Committed
      <4>2. \A r \in DOMAIN todo' : todo'[r] \in Seq(Token) /\ r \in DOMAIN states'
        BY <2>3, <2>4, EmptySeq
      <4> QED
        BY <4>1, <4>2
    <3> QED
      BY <1>1, <1>8, <2>1, <2>3, <2>9, <3>2, <3>3
      DEF Engine!TypeOK, Engine!RetiredLimit
  <2>11. RowsMade'
    <3>1. ASSUME NEW r \in DOMAIN todo'
          PROVE  states'[r].nPos = Len(kv'[states'[r].slot]) /\ states'[r].nPos >= 1
      <4> DEFINE old == kv[states[r].slot]
                 now == kv'[states'[r].slot]
                 n == states[r].nPos
      <4>1. PICK x : x = Engine!Packed(r, chunk, drafts)
        OBVIOUS
      <4>2. r \in DOMAIN states /\ InBatch(r, chunk, rows, x) /\ Moved(r, x, chunk)
        BY <1>7, <2>2, <2>4, <4>1
      <4>3. Len(x) \in Nat /\ Len(x) >= 1 /\ x \in Seq(Token)
        <5>1. CASE r \in rows
          <6>1. Len(x) = 1 /\ x \in Seq(Token)
            BY <4>2, <5>1 DEF InBatch
          <6> QED
            BY <6>1
        <5>2. CASE r \in Engine!Completed(chunk)
          <6>1. r \in DOMAIN chunk /\ chunk[r] > 0
            BY <5>2 DEF Engine!Completed
          <6>2. Len(x) = chunk[r] /\ chunk[r] \in Nat /\ x \in Seq(Token)
            BY <4>2, <6>1 DEF InBatch
          <6> QED
            BY <6>1, <6>2
        <5> QED
          BY <2>3, <5>1, <5>2
      <4>4. x # << >>
        BY <4>3, EmptySeq
      <4>5. n = Len(old)
        BY <1>10, <4>1, <4>2, <4>4 DEF Engine!Accepted
      <4>6. old \in Seq(Token)
        BY <1>8, <4>2, RequestTyped
      <4>7. now = old \o x /\ states'[r].nPos = n + Len(x)
        BY <4>2 DEF Moved
      <4> HIDE DEF old, now, n
      <4>8. Len(old \o x) = Len(old) + Len(x) /\ Len(old) \in Nat
        BY <4>3, <4>6, ConcatProperties, LenProperties
      <4>9. states'[r].nPos = Len(now) /\ states'[r].nPos >= 1
        BY <4>3, <4>5, <4>7, <4>8
      <4> QED
        BY <4>9 DEF now
    <3> QED
      BY <2>4, <3>1 DEF RowsMade
  <2>12. OneSlotEach'
    BY <2>3, <2>5 DEF EInv, OneSlotEach
  <2>13. Blurred' = Blurred
    BY <1>1 DEF Blurred
  <2>14. RequestsHold'
    <3>1. ASSUME NEW r \in DOMAIN states, r \notin Blurred
          PROVE  Held(states'[r], kv'[states'[r].slot], r \in DOMAIN todo')
      <4>1. PICK x : x = Engine!Packed(r, chunk, drafts)
        OBVIOUS
      <4>2. InBatch(r, chunk, rows, x) /\ Moved(r, x, chunk)
        BY <1>7, <2>2, <4>1
      <4> QED
        BY <1>1, <2>3, <3>1, <4>2, RowHeld
    <3> QED
      BY <2>3, <2>13, <3>1 DEF RequestsHold
  <2>15. RetiredFollow'
    BY <1>1, <2>13 DEF EInv, RetiredFollow
  <2>16. kv'[SnapshotSeq] = kv[SnapshotSeq]
    <3>1. SnapshotSeq \in Engine!Slots \ Engine!BusySlots
      BY DEF EInv, Dealt
    <3> QED
      BY <2>8, <3>1
  <2>17. free' = free /\ leaked' = leaked /\ pins' = << >> /\ nextId' = nextId
    BY <1>1, <1>8
  <2>18. Dealt(free', Engine!BusySlots', leaked') /\ (Blurred' = {} => ~refused')
    BY <2>1, <2>6, <2>13, <2>17 DEF EInv
  <2> QED
    BY <2>10, <2>11, <2>12, <2>14, <2>15, <2>16, <2>17, <2>18 DEF EInv
<1> QED
  BY <1>9, <1>10

-----------------------------------------------------------------------------
(* The store around the engine. *)

LEMMA TakenTyped ==
  ASSUME StoreTyped, NEW s \in Taken
  PROVE  /\ s \in Snapshots
         /\ s.prompt \in Prompts /\ s.params \in Params /\ s.out \in Seq(Token)
         /\ s.nPos \in Nat /\ s.nPrefilled \in Nat /\ s.next \in Token \cup {NoToken}
         /\ s.live \in BOOLEAN /\ s.save \in 1 .. saves
<1>1. s \in Snapshots
  BY DEF StoreTyped, Taken
<1> QED
  BY <1>1 DEF Snapshots

LEMMA EngineNextKeeps ==
  ASSUME EInv, Engine!Next, UNCHANGED <<leaked, inexact>>
  PROVE  /\ EInv'
         /\ nextId' \in Nat /\ nextId' >= nextId /\ kv'[SnapshotSeq] = kv[SnapshotSeq]
<1>1. nextId \in Nat
  BY DEF EInv, Engine!TypeOK
<1>2. ASSUME NEW p \in Prompts, NEW q \in Params, Engine!AddRequest(p, q)
      PROVE  /\ EInv'
             /\ nextId' \in Nat /\ nextId' >= nextId /\ kv'[SnapshotSeq] = kv[SnapshotSeq]
  BY <1>2, AddRequestKeeps
<1>3. ASSUME NEW r \in DOMAIN states, Engine!Cancel(r)
      PROVE  EInv' /\ nextId' = nextId /\ kv'[SnapshotSeq] = kv[SnapshotSeq]
  <2>1. nextId' = nextId
    BY <1>3 DEF Engine!Cancel
  <2> QED
    BY <1>3, <2>1, CancelKeeps
<1>4. CASE Engine!Decode
  BY <1>1, <1>4, DecodeKeeps
<1>5. CASE Engine!Advance
  BY <1>1, <1>5, AdvanceKeeps
<1>6. CASE Engine!AdvanceFails
  BY <1>1, <1>6, AdvanceFailsKeeps
<1>7. ~Engine!SyncFails
  BY NoSync
<1> QED
  BY <1>1, <1>2, <1>3, <1>4, <1>5, <1>6, <1>7 DEF Engine!Next

LEMMA MoreIds ==
  ASSUME NEW a \in Nat, NEW b \in Nat, a <= b, NEW S, S \subseteq 0 .. a - 1
  PROVE  S \subseteq 0 .. b - 1
OBVIOUS

LEMMA EngineStepKeeps ==
  ASSUME SInv, EngineStep
  PROVE  SInv'
<1>1. Engine!Next /\ UNCHANGED <<snaps, files, saves, leaked, inexact, tainted>>
  BY DEF EngineStep
<1>2. /\ EInv'
      /\ nextId' \in Nat /\ nextId' >= nextId /\ kv'[SnapshotSeq] = kv[SnapshotSeq]
  BY <1>1, EngineNextKeeps DEF SInv
<1>3. inexact' \subseteq 0 .. nextId' - 1
  <2>1. inexact \subseteq 0 .. nextId - 1 /\ nextId \in Nat
    BY DEF SInv, EInv, Engine!TypeOK
  <2> QED
    BY <1>1, <1>2, <2>1, MoreIds
<1>4. leaked' \subseteq Engine!Slots
  BY <1>1 DEF SInv
<1>5. StoreTyped'
  BY <1>1 DEF SInv, StoreTyped, Snapshots, files
<1>6. SnapsSound'
  BY <1>1 DEF SInv, SnapsSound, Taken, files
<1>7. SlotSaved'
  BY <1>1, <1>2 DEF SInv, SlotSaved
<1> QED
  BY <1>2, <1>3, <1>4, <1>5, <1>6, <1>7 DEF SInv

\* A new engine, with nothing in it.
LEMMA NewEngine ==
  ASSUME nextId' = 0, free' = Unreserved,
         states' = << >>, retired' = << >>, pins' = << >>,
         kv' = [s \in Engine!Slots |-> << >>],
         todo' = << >>, stranded' = {}, refused' = FALSE,
         leaked' = {}, inexact' = {}
  PROVE  EInv' /\ leaked' \subseteq Engine!Slots /\ inexact' \subseteq 0 .. nextId' - 1
<1>1. Unreserved \in Seq(Engine!Slots) /\ Dealt(Unreserved, {}, {})
  BY UnreservedDealt
<1>2. << >> \in Seq(Token) /\ << >> \in Seq(Engine!Finished) /\ Len(<< >>) = 0
      /\ DOMAIN << >> = {}
  BY EmptySeq
<1>3. Engine!RetiredLimit \in Nat
  BY StoreAssumption DEF Engine!RetiredLimit, Engine!Most
<1>4. Engine!TypeOK'
  <2>1. DOMAIN states' = {} /\ DOMAIN todo' = {}
    BY <1>2
  <2>2. states' \in [DOMAIN states' -> Engine!RequestState]
    BY <2>1
  <2>3. todo' \in [DOMAIN todo' -> Seq(Token)]
    BY <2>1
  <2>4. pins' \in Seq([key : Prompts, slot : Engine!Slots])
    BY EmptySeq
  <2>5. retired' \in Seq(Engine!Finished) /\ Len(retired') <= Engine!RetiredLimit'
    BY <1>2, <1>3 DEF Engine!RetiredLimit
  <2> QED
    BY <1>1, <1>2, <2>1, <2>2, <2>3, <2>4, <2>5 DEF Engine!TypeOK
<1>5. Engine!BusySlots' = {}
  BY <1>2 DEF Engine!BusySlots
<1>6. RowsMade' /\ OneSlotEach' /\ RequestsHold' /\ RetiredFollow'
  BY <1>2 DEF RowsMade, OneSlotEach, RequestsHold, RetiredFollow
<1>7. Dealt(free', Engine!BusySlots', leaked')
  BY <1>1, <1>5
<1> QED
  BY <1>4, <1>6, <1>7 DEF EInv

\* What writing name leaves: each file is an earlier one or the content.
LEMMA WrittenIs ==
  ASSUME NEW f, NEW name, NEW content, NEW g \in Written(f, name, content)
  PROVE  /\ DOMAIN g \subseteq DOMAIN f \cup {name}
         /\ \A n \in DOMAIN g : \/ n = name /\ g[n] = content
                                \/ n \in DOMAIN f /\ g[n] = f[n]
         /\ f = [n \in DOMAIN f |-> f[n]] => g = [n \in DOMAIN g |-> g[n]]
<1>1. \/ g = With(f, name, content)
      \/ g = f
      \/ g = Without(f, {name})
  BY DEF Written
<1>2. CASE g = With(f, name, content)
  BY <1>2 DEF With
<1>3. CASE g = f
  BY <1>3
<1>4. CASE g = Without(f, {name})
  BY <1>4 DEF Without, Restrict
<1> QED
  BY <1>1, <1>2, <1>3, <1>4

\* What unlinking names leaves: some of the files.
LEMMA UnlinkedIs ==
  ASSUME NEW f, NEW names, NEW g \in Unlinked(f, names)
  PROVE  /\ DOMAIN g \subseteq DOMAIN f
         /\ \A n \in DOMAIN g : g[n] = f[n]
         /\ g = [n \in DOMAIN g |-> g[n]]
<1>1. \E gone : g = Without(f, gone)
  BY DEF Unlinked
<1> QED
  BY <1>1 DEF Without, Restrict

\* A snapshot that the files back: it is the text of a request.
Backed(s) == s \in Snapshots /\ (s.save \notin tainted => Sound(s, bin))

LEMMA TakenBacked ==
  ASSUME StoreTyped, SnapsSound, NEW s \in Taken
  PROVE  Backed(s)
BY TakenTyped DEF Backed, SnapsSound

\* With no save the store keeps what it promises.
LEMMA StoreKeeps ==
  ASSUME StoreTyped, SnapsSound, SlotSaved, UNCHANGED <<saves, tainted>>,
         DOMAIN snaps' \subseteq Names, snaps' = [n \in DOMAIN snaps' |-> snaps'[n]],
         \A n \in DOMAIN snaps' : Backed(snaps'[n]),
         \A n \in DOMAIN snaps' : snaps'[n].live =>
           /\ n \in DOMAIN snaps /\ snaps'[n] = snaps[n]
           /\ kv'[SnapshotSeq] = kv[SnapshotSeq],
         DOMAIN json' \subseteq Names, json' = [n \in DOMAIN json' |-> json'[n]],
         \A n \in DOMAIN json' : Backed(json'[n]),
         DOMAIN bin' \subseteq DOMAIN bin, \A n \in DOMAIN bin' : bin'[n] = bin[n]
  PROVE  StoreTyped' /\ SnapsSound' /\ SlotSaved'
<1>1. Snapshots' = Snapshots
  BY DEF Snapshots
<1>2. StoreTyped'
  <2>1. snaps' \in [DOMAIN snaps' -> Snapshots'] /\ json' \in [DOMAIN json' -> Snapshots']
    BY <1>1 DEF Backed
  <2> QED
    BY <2>1 DEF StoreTyped
<1>3. SnapsSound'
  <2>1. ASSUME NEW s \in Taken', s.save \notin tainted' PROVE Sound(s, bin')
    <3>1. Sound(s, bin)
      BY <2>1 DEF Taken, Backed
    <3> QED
      BY <3>1 DEF Sound
  <2> QED
    BY <2>1 DEF SnapsSound
<1>4. SlotSaved'
  BY DEF SlotSaved
<1> QED
  BY <1>2, <1>3, <1>4

LEMMA ForgetKeeps ==
  ASSUME SInv, NEW names, Forget(names)
  PROVE  SInv'
<1>1. /\ snaps' = Without(snaps, names) /\ json' \in Unlinked(json, names)
      /\ bin' \in Unlinked(bin, names)
      /\ UNCHANGED <<engine, saves, leaked, inexact, tainted>>
  BY DEF Forget
<1>2. EInv' /\ leaked' \subseteq Engine!Slots /\ inexact' \subseteq 0 .. nextId' - 1
  <2>1. /\ UNCHANGED <<nextId, free, states, retired, pins, kv, todo, stranded, refused>>
        /\ UNCHANGED <<leaked, inexact>>
    BY <1>1 DEF engine
  <2>2. EInv /\ leaked \subseteq Engine!Slots /\ inexact \subseteq 0 .. nextId - 1
    BY DEF SInv
  <2>3. nextId \in Nat /\ free \in Seq(Engine!Slots) /\ kv \in [Engine!Slots -> Seq(Token)]
        /\ retired \in Seq(Engine!Finished) /\ Len(retired) <= Engine!RetiredLimit
        /\ Dealt(free, Engine!BusySlots, leaked)
    BY <2>2 DEF EInv, Engine!TypeOK
  <2>4. EInv'
    BY <2>1, <2>2, <2>3, NobodyMoves
  <2> QED
    BY <2>1, <2>2, <2>4
<1>3. StoreTyped /\ SnapsSound /\ SlotSaved
  BY DEF SInv
<1>4. /\ DOMAIN snaps' \subseteq DOMAIN snaps /\ snaps' = [n \in DOMAIN snaps' |-> snaps'[n]]
      /\ \A n \in DOMAIN snaps' : snaps'[n] = snaps[n]
  BY <1>1 DEF Without, Restrict
<1>5. /\ DOMAIN json' \subseteq DOMAIN json /\ json' = [n \in DOMAIN json' |-> json'[n]]
      /\ \A n \in DOMAIN json' : json'[n] = json[n]
  BY <1>1, UnlinkedIs
<1>6. DOMAIN bin' \subseteq DOMAIN bin /\ \A n \in DOMAIN bin' : bin'[n] = bin[n]
  BY <1>1, UnlinkedIs
<1>7. /\ \A n \in DOMAIN snaps' : Backed(snaps'[n]) /\ n \in DOMAIN snaps
      /\ \A n \in DOMAIN json' : Backed(json'[n])
  <2>1. \A s \in Taken : Backed(s)
    BY <1>3, TakenBacked
  <2> QED
    BY <1>4, <1>5, <2>1 DEF Taken
<1>8. DOMAIN snaps' \subseteq Names /\ DOMAIN json' \subseteq Names
  BY <1>3, <1>4, <1>5 DEF StoreTyped
<1>9. kv' = kv /\ UNCHANGED <<saves, tainted>>
  BY <1>1 DEF engine
<1>10. StoreTyped' /\ SnapsSound' /\ SlotSaved'
  BY <1>3, <1>4, <1>5, <1>6, <1>7, <1>8, <1>9, StoreKeeps
<1> QED
  BY <1>2, <1>10 DEF SInv

LEMMA SaveKeeps ==
  ASSUME SInv, NEW name \in Names, NEW r \in DOMAIN states, Save(name, r)
  PROVE  SInv'
<1> DEFINE new == Snapshot(r, saves')
           old == kv[states[r].slot]
<1>1. /\ Engine!Idle /\ saves < MaxSaves /\ saves' = saves + 1
      /\ kv' = [kv EXCEPT ![SnapshotSeq] = old]
      /\ snaps' = With(snaps, name, new)
      /\ json' \in Written(json, name, new)
      /\ bin' \in Written(bin, name, [kv |-> old, save |-> saves'])
      /\ tainted' = IF r \in Blurred THEN tainted \cup {saves'} ELSE tainted
      /\ UNCHANGED <<nextId, free, states, retired, pins, todo, stranded, refused, leaked, inexact>>
  BY DEF Save, Copied, Blurred
<1>2. /\ EInv /\ StoreTyped /\ SnapsSound /\ SlotSaved
      /\ leaked \subseteq Engine!Slots /\ inexact \subseteq 0 .. nextId - 1
      /\ Engine!TypeOK
  BY DEF SInv, EInv
<1>3. saves \in Nat /\ saves' \in Nat /\ saves' \in 1 .. saves' /\ saves' \in 0 .. MaxSaves
  BY <1>1, <1>2, StoreAssumption DEF StoreTyped
<1>4. states[r] \in Engine!RequestState /\ old \in Seq(Token)
  BY <1>2, RequestTyped
<1>5. /\ new.prompt = states[r].prompt /\ new.params = states[r].params
      /\ new.out = states[r].out /\ new.nPos = states[r].nPos
      /\ new.nPrefilled = states[r].nPrefilled /\ new.next = states[r].next
      /\ new.live = TRUE /\ new.save = saves'
      /\ new = [prompt |-> states[r].prompt, params |-> states[r].params,
                out |-> states[r].out, nPos |-> states[r].nPos,
                nPrefilled |-> states[r].nPrefilled, next |-> states[r].next,
                live |-> TRUE, save |-> saves']
  BY DEF Snapshot
<1>6. new \in Snapshots'
  <2>1. /\ states[r].prompt \in Prompts /\ states[r].params \in Params
        /\ states[r].out \in Seq(Token) /\ states[r].nPos \in Nat
        /\ states[r].nPrefilled \in Nat /\ states[r].next \in Token \cup {NoToken}
    BY <1>4, FieldsTyped
  <2>2. TRUE \in BOOLEAN
    OBVIOUS
  <2> QED
    BY <1>3, <1>5, <2>1, <2>2 DEF Snapshots
<1>7. r \notin Blurred => AtRest(new) /\ old = Cells(new)
  <2>1. ASSUME r \notin Blurred PROVE AtRest(new) /\ old = Cells(new)
    <3>1. Held(states[r], old, r \in DOMAIN todo)
      BY <1>2, <2>1 DEF EInv, RequestsHold
    <3>2. (r \in DOMAIN todo) = FALSE
      BY <1>1 DEF Engine!Idle
    <3>3. AtRest(states[r]) /\ old = Cells(states[r])
      BY <3>1, <3>2 DEF Held
    <3> HIDE DEF new, old
    <3> QED
      BY <1>5, <3>3 DEF AtRest, Cells
  <2> QED
    BY <2>1
<1> HIDE DEF new, old
<1>8. EInv'
  <2>1. SnapshotSeq \notin Engine!BusySlots /\ Dealt(free, Engine!BusySlots, leaked)
    BY <1>2 DEF EInv, Dealt
  <2>2. /\ nextId \in Nat /\ free \in Seq(Engine!Slots) /\ kv \in [Engine!Slots -> Seq(Token)]
        /\ retired \in Seq(Engine!Finished) /\ Len(retired) <= Engine!RetiredLimit
    BY <1>2 DEF Engine!TypeOK
  <2>3. /\ kv' \in [Engine!Slots -> Seq(Token)]
        /\ \A s \in Engine!BusySlots : kv'[s] = kv[s]
    <3>1. Engine!BusySlots \subseteq Engine!Slots
      BY <2>1 DEF Dealt
    <3> QED
      BY <1>1, <1>4, <2>1, <2>2, <3>1
  <2>4. nextId' \in Nat /\ nextId' >= nextId
    BY <1>1, <2>2
  <2> QED
    BY <1>1, <1>2, <2>1, <2>2, <2>3, <2>4, NobodyMoves
<1>9. kv'[SnapshotSeq] = old
  <2>1. SnapshotSeq \in Engine!Slots /\ kv \in [Engine!Slots -> Seq(Token)]
    BY <1>2 DEF EInv, Dealt, Engine!TypeOK
  <2> QED
    BY <1>1, <2>1
<1>10. /\ DOMAIN snaps' = DOMAIN snaps \cup {name}
       /\ snaps' = [n \in DOMAIN snaps' |-> snaps'[n]]
       /\ \A n \in DOMAIN snaps' : \/ n = name /\ snaps'[n] = new
                                   \/ n \in DOMAIN snaps /\ snaps'[n] = snaps[n]
  BY <1>1 DEF With
<1>11. /\ DOMAIN json' \subseteq DOMAIN json \cup {name}
       /\ json' = [n \in DOMAIN json' |-> json'[n]]
       /\ \A n \in DOMAIN json' : \/ n = name /\ json'[n] = new
                                  \/ n \in DOMAIN json /\ json'[n] = json[n]
  <2>1. json = [n \in DOMAIN json |-> json[n]]
    BY <1>2 DEF StoreTyped
  <2> QED
    BY <1>1, <2>1, WrittenIs
<1>12. /\ DOMAIN bin' \subseteq DOMAIN bin \cup {name}
       /\ \A n \in DOMAIN bin' : \/ n = name /\ bin'[n].kv = old /\ bin'[n].save = saves'
                                 \/ n \in DOMAIN bin /\ bin'[n] = bin[n]
  <2> DEFINE file == [kv |-> old, save |-> saves']
  <2>1. file.kv = old /\ file.save = saves'
    OBVIOUS
  <2>2. bin' \in Written(bin, name, file)
    BY <1>1
  <2> HIDE DEF file
  <2>3. /\ DOMAIN bin' \subseteq DOMAIN bin \cup {name}
        /\ \A n \in DOMAIN bin' : \/ n = name /\ bin'[n] = file
                                  \/ n \in DOMAIN bin /\ bin'[n] = bin[n]
    BY <2>2, WrittenIs
  <2> QED
    BY <2>1, <2>3
<1>13. Taken' \subseteq Taken \cup {new}
  BY <1>10, <1>11 DEF Taken
<1>14. Snapshots \subseteq Snapshots'
  <2>1. 1 .. saves \subseteq 1 .. saves'
    BY <1>1, <1>3
  <2> QED
    BY <2>1 DEF Snapshots
<1>15. \A s \in Taken : s \in Snapshots /\ s.save \in 1 .. saves
  BY <1>2, TakenTyped
<1>16. StoreTyped'
  <2>1. \A s \in Taken' : s \in Snapshots'
    BY <1>6, <1>13, <1>14, <1>15
  <2>2. snaps' \in [DOMAIN snaps' -> Snapshots'] /\ json' \in [DOMAIN json' -> Snapshots']
    BY <1>10, <1>11, <2>1 DEF Taken
  <2>3. \A n \in DOMAIN bin' : bin'[n].kv \in Seq(Token) /\ bin'[n].save \in 1 .. saves'
    BY <1>1, <1>2, <1>3, <1>4, <1>12 DEF StoreTyped
  <2>4. tainted' \subseteq 1 .. saves'
    BY <1>1, <1>2, <1>3 DEF StoreTyped
  <2>5. DOMAIN snaps' \subseteq Names /\ DOMAIN json' \subseteq Names /\ DOMAIN bin' \subseteq Names
    BY <1>2, <1>10, <1>11, <1>12 DEF StoreTyped
  <2> QED
    BY <1>3, <2>2, <2>3, <2>4, <2>5 DEF StoreTyped
<1>17. saves' \notin 1 .. saves
  BY <1>1, <1>3
<1>18. saves' \notin tainted' => r \notin Blurred
  BY <1>1
<1>19. SnapsSound'
  <2>1. ASSUME NEW s \in Taken', s.save \notin tainted' PROVE Sound(s, bin')
    <3>1. CASE s = new
      <4>1. AtRest(s) /\ old = Cells(s)
        BY <1>5, <1>7, <1>18, <2>1, <3>1
      <4>2. ASSUME NEW n \in DOMAIN bin', bin'[n].save = s.save PROVE bin'[n].kv = Cells(s)
        <5>1. bin'[n].save = saves'
          BY <1>5, <3>1, <4>2
        <5>2. ~ (n \in DOMAIN bin /\ bin'[n] = bin[n])
          BY <1>2, <1>17, <5>1 DEF StoreTyped
        <5> QED
          BY <1>12, <4>1, <5>2
      <4> QED
        BY <4>1, <4>2 DEF Sound
    <3>2. CASE s # new
      <4>1. s \in Taken /\ s.save \in 1 .. saves
        BY <1>13, <1>15, <3>2
      <4>2. s.save \notin tainted
        BY <1>1, <2>1
      <4>3. Sound(s, bin)
        BY <1>2, <4>1, <4>2 DEF SnapsSound
      <4>4. ASSUME NEW n \in DOMAIN bin', bin'[n].save = s.save PROVE bin'[n].kv = Cells(s)
        <5>1. bin'[n].save # saves'
          BY <1>17, <4>1, <4>4
        <5>2. n \in DOMAIN bin /\ bin'[n] = bin[n]
          BY <1>12, <5>1
        <5> QED
          BY <4>3, <4>4, <5>2 DEF Sound
      <4> QED
        BY <4>3, <4>4 DEF Sound
    <3> QED
      BY <3>1, <3>2
  <2> QED
    BY <2>1 DEF SnapsSound
<1>20. SlotSaved'
  <2>1. ASSUME NEW n \in DOMAIN snaps', snaps'[n].save = saves', saves' \notin tainted'
        PROVE  kv'[SnapshotSeq] = Cells(snaps'[n])
    <3>1. ~ (n \in DOMAIN snaps /\ snaps'[n] = snaps[n])
      <4>1. n \in DOMAIN snaps => snaps[n] \in Taken
        BY DEF Taken
      <4> QED
        BY <1>15, <1>17, <2>1, <4>1
    <3>2. snaps'[n] = new
      BY <1>10, <3>1
    <3> QED
      BY <1>7, <1>9, <1>18, <2>1, <3>2
  <2> QED
    BY <2>1 DEF SlotSaved
<1> QED
  BY <1>1, <1>2, <1>8, <1>16, <1>19, <1>20 DEF SInv

-----------------------------------------------------------------------------
(* load. *)

\* A snapshot read from its file is not live, and backed as the file is.
LEMMA FromDiskIs ==
  ASSUME StoreTyped, SnapsSound, NEW name \in DOMAIN json
  PROVE  Backed(FromDisk(json[name])) /\ ~FromDisk(json[name]).live
<1> DEFINE t == json[name]
           s == FromDisk(t)
<1>1. t \in Taken
  BY DEF Taken
<1> HIDE DEF t
<1>2. Backed(t)
  BY <1>1, TakenBacked
<1>3. t \in [prompt : Prompts, params : Params, out : Seq(Token), nPos : Nat,
             nPrefilled : Nat, next : Token \cup {NoToken}, live : BOOLEAN,
             save : 1 .. saves]
  BY <1>2 DEF Backed, Snapshots
<1>4. /\ s.prompt = t.prompt /\ s.params = t.params /\ s.out = t.out /\ s.nPos = t.nPos
      /\ s.nPrefilled = t.nPrefilled /\ s.next = t.next /\ s.live = FALSE
      /\ s.save = t.save /\ s \in Snapshots
  BY <1>3 DEF FromDisk, Snapshots
<1> HIDE DEF s
<1>5. s.save \notin tainted => Sound(s, bin)
  BY <1>2, <1>4 DEF Backed, Sound, AtRest, Cells
<1> QED
  BY <1>4, <1>5 DEF Backed, s, t

LEMMA FoundIs ==
  ASSUME StoreTyped, SnapsSound, SlotSaved, NEW name, Known(name)
  PROVE  /\ Backed(Found(name))
         /\ Found(name).live =>
              /\ name \in DOMAIN snaps /\ Found(name) = snaps[name]
              /\ Found(name).save = saves /\ saves \notin tainted
                   => kv[SnapshotSeq] = Cells(Found(name))
<1>1. CASE name \in DOMAIN snaps
  <2>1. Found(name) = snaps[name] /\ snaps[name] \in Taken
    BY <1>1 DEF Found, Taken
  <2>2. Backed(Found(name))
    BY <2>1, TakenBacked
  <2> QED
    BY <1>1, <2>1, <2>2 DEF SlotSaved
<1>2. CASE name \notin DOMAIN snaps
  <2>1. Found(name) = FromDisk(json[name]) /\ name \in DOMAIN json
    BY <1>2 DEF Found, Known
  <2> QED
    BY <2>1, FromDiskIs
<1> QED
  BY <1>1, <1>2

\* The request of a snapshot.
LEMMA RestoredIs ==
  ASSUME NEW s \in Snapshots, NEW h \in Engine!Slots
  PROVE  /\ Restored(h, s) \in Engine!RequestState /\ Restored(h, s).slot = h
         /\ AtRest(s) => Held(Restored(h, s), Cells(s), FALSE)
<1> DEFINE q == Restored(h, s)
<1>1. /\ s.prompt \in Prompts /\ s.params \in Params /\ s.out \in Seq(Token)
      /\ s.nPos \in Nat /\ s.nPrefilled \in Nat /\ s.next \in Token \cup {NoToken}
  BY DEF Snapshots
<1>2. /\ q.slot = h /\ q.prompt = s.prompt /\ q.params = s.params /\ q.out = s.out
      /\ q.nPos = s.nPos /\ q.nPrefilled = s.nPrefilled /\ q.next = s.next
      /\ q \in Engine!RequestState
  BY <1>1 DEF Restored, Engine!RequestState
<1> HIDE DEF q
<1>3. AtRest(s) => Held(q, Cells(s), FALSE)
  BY <1>2 DEF Held, AtRest, Cells
<1> QED
  BY <1>2, <1>3 DEF q

\* A request takes the head of the free list f.
LEMMA RegisteredKeeps ==
  ASSUME EInv, inexact \subseteq 0 .. nextId - 1,
         NEW f \in Seq(Engine!Slots), f # << >>, Dealt(f, Engine!BusySlots, leaked'),
         NEW cells \in Seq(Token),
         NEW req \in Engine!RequestState, req.slot = Head(f), Registered(f, req, cells),
         UNCHANGED <<retired, pins, todo, stranded, refused>>,
         inexact \subseteq inexact', inexact' \subseteq inexact \cup {nextId},
         nextId \notin inexact' => Held(req, cells, FALSE)
  PROVE  EInv' /\ kv'[SnapshotSeq] = kv[SnapshotSeq] /\ inexact' \subseteq 0 .. nextId' - 1
<1> DEFINE h == Head(f)
<1>1. /\ h \in Engine!Slots /\ h \notin Engine!BusySlots /\ h # SnapshotSeq
      /\ Tail(f) \in Seq(Engine!Slots) /\ Dealt(Tail(f), Engine!BusySlots \cup {h}, leaked')
  BY DealtTaken
<1>2. /\ nextId' = nextId + 1 /\ free' = Tail(f) /\ states' = With(states, nextId, req)
      /\ kv' = [kv EXCEPT ![h] = cells]
  BY DEF Registered
<1> HIDE DEF h
<1>3. Joins(req, h, cells)
  BY <1>2 DEF Joins
<1>4. EInv'
  <2>1. req.slot = h
    BY DEF h
  <2> QED
    BY <1>1, <1>2, <1>3, <2>1, Joined
<1>5. kv'[SnapshotSeq] = kv[SnapshotSeq]
  <2>1. kv \in [Engine!Slots -> Seq(Token)] /\ SnapshotSeq \in Engine!Slots
    BY DEF EInv, Engine!TypeOK, Dealt
  <2> QED
    BY <1>1, <1>2, <2>1
<1>6. inexact' \subseteq 0 .. nextId' - 1
  <2>1. nextId \in Nat
    BY DEF EInv, Engine!TypeOK
  <2> QED
    BY <1>2, <2>1
<1> QED
  BY <1>4, <1>5, <1>6

\* load of the snapshot snap, in the engine.
LEMMA LoadMakes ==
  ASSUME SInv, free # << >>, NEW name, NEW snap, Backed(snap),
         snap.live /\ snap.save = saves /\ saves \notin tainted
           => kv[SnapshotSeq] = Cells(snap),
         UNCHANGED <<retired, pins, todo, stranded, refused>>,
         \/ LoadLive(snap) \/ LoadBinary(name, snap)
         \/ LoadPrompt(name, snap) \/ LoadLeaks(name, snap)
  PROVE  /\ EInv' /\ kv'[SnapshotSeq] = kv[SnapshotSeq]
         /\ leaked' \subseteq Engine!Slots /\ inexact' \subseteq 0 .. nextId' - 1
<1> DEFINE h == Head(free)
           req == Restored(h, snap)
<1>1. /\ EInv /\ StoreTyped /\ leaked \subseteq Engine!Slots
      /\ inexact \subseteq 0 .. nextId - 1
      /\ free \in Seq(Engine!Slots) /\ Dealt(free, Engine!BusySlots, leaked)
      /\ kv \in [Engine!Slots -> Seq(Token)]
  BY DEF SInv, EInv, Engine!TypeOK
<1>2. /\ h \in Engine!Slots /\ Tail(free) \in Seq(Engine!Slots)
      /\ Dealt(Tail(free), Engine!BusySlots, leaked \cup {h})
  BY <1>1, DealtTaken
<1>3. /\ snap \in Snapshots /\ snap.prompt \in Prompts /\ snap.params \in Params
      /\ snap.save \notin tainted => Sound(snap, bin)
  BY DEF Backed, Snapshots
<1>4. /\ req \in Engine!RequestState /\ req.slot = h
      /\ AtRest(snap) => Held(req, Cells(snap), FALSE)
  BY <1>2, <1>3, RestoredIs
<1>5. << >> \in Seq(Token)
  BY EmptySeq
<1> HIDE DEF req
<1>6. ASSUME NEW cells \in Seq(Token), NEW y,
             Registered(free, req, cells), inexact' = Blamed(snap.save, y), UNCHANGED leaked,
             snap.save = y /\ snap.save \notin tainted => cells = Cells(snap)
      PROVE  EInv' /\ kv'[SnapshotSeq] = kv[SnapshotSeq] /\ inexact' \subseteq 0 .. nextId' - 1
  <2>1. inexact \subseteq inexact' /\ inexact' \subseteq inexact \cup {nextId}
    BY <1>6 DEF Blamed
  <2>2. ASSUME nextId \notin inexact' PROVE Held(req, cells, FALSE)
    <3>1. snap.save = y /\ snap.save \notin tainted
      BY <1>6, <2>2 DEF Blamed
    <3> QED
      BY <1>3, <1>4, <1>6, <3>1 DEF Sound
  <2>3. Dealt(free, Engine!BusySlots, leaked') /\ req.slot = Head(free)
    BY <1>1, <1>4, <1>6
  <2> QED
    BY <1>1, <1>4, <1>6, <2>1, <2>2, <2>3, RegisteredKeeps
<1>7. ASSUME NEW f \in Seq(Engine!Slots), f # << >>, Dealt(f, Engine!BusySlots, leaked'),
             Prefilled(snap, f), UNCHANGED inexact
      PROVE  EInv' /\ kv'[SnapshotSeq] = kv[SnapshotSeq] /\ inexact' \subseteq 0 .. nextId' - 1
  <2> DEFINE new == Engine!Registered(Head(f), snap.prompt, snap.params, 0)
  <2>1. Head(f) \in Engine!Slots
    BY <1>7, HeadTailProperties
  <2>2. new \in Engine!RequestState /\ new.slot = Head(f) /\ Held(new, << >>, FALSE)
    BY <1>3, <2>1, FreshIs
  <2>3. Registered(f, new, << >>)
    BY <1>7 DEF Prefilled
  <2> HIDE DEF new
  <2>4. inexact \subseteq inexact' /\ inexact' \subseteq inexact \cup {nextId}
    BY <1>7
  <2> QED
    BY <1>1, <1>5, <1>7, <2>2, <2>3, <2>4, RegisteredKeeps
<1>8. CASE LoadLive(snap)
  <2>1. /\ snap.live /\ Registered(free, req, kv[SnapshotSeq])
        /\ inexact' = Blamed(snap.save, saves) /\ UNCHANGED leaked
    BY <1>8 DEF LoadLive, req
  <2>2. kv[SnapshotSeq] \in Seq(Token)
    BY <1>1 DEF Dealt
  <2>3. snap.save = saves /\ snap.save \notin tainted => kv[SnapshotSeq] = Cells(snap)
    BY <2>1
  <2> QED
    BY <1>1, <1>6, <2>1, <2>2, <2>3
<1>9. CASE LoadBinary(name, snap)
  <2>1. /\ name \in DOMAIN bin /\ Registered(free, req, bin[name].kv)
        /\ inexact' = Blamed(snap.save, bin[name].save) /\ UNCHANGED leaked
    BY <1>9 DEF LoadBinary, req
  <2>2. bin[name].kv \in Seq(Token)
    BY <1>1, <2>1 DEF StoreTyped
  <2>3. snap.save = bin[name].save /\ snap.save \notin tainted => bin[name].kv = Cells(snap)
    BY <1>3, <2>1 DEF Sound
  <2> QED
    BY <1>1, <1>6, <2>1, <2>2, <2>3
<1>10. CASE LoadPrompt(name, snap)
  <2>1. Prefilled(snap, free) /\ UNCHANGED <<leaked, inexact>>
    BY <1>10 DEF LoadPrompt
  <2> QED
    BY <1>1, <1>7, <2>1
<1>11. CASE LoadLeaks(name, snap)
  <2>1. /\ leaked' = leaked \cup {h} /\ UNCHANGED inexact
        /\ \/ Tail(free) # << >> /\ Prefilled(snap, Tail(free))
           \/ Tail(free) = << >> /\ free' = << >> /\ UNCHANGED <<nextId, states, kv>>
    BY <1>11 DEF LoadLeaks
  <2>2. leaked' \subseteq Engine!Slots /\ Dealt(Tail(free), Engine!BusySlots, leaked')
    BY <1>1, <1>2, <2>1
  <2> HIDE DEF h
  <2>3. CASE Tail(free) # << >> /\ Prefilled(snap, Tail(free))
    BY <1>2, <1>7, <2>1, <2>2, <2>3
  <2>4. CASE Tail(free) = << >> /\ free' = << >> /\ UNCHANGED <<nextId, states, kv>>
    <3>1. /\ nextId \in Nat
          /\ retired \in Seq(Engine!Finished) /\ Len(retired) <= Engine!RetiredLimit
      BY <1>1 DEF EInv, Engine!TypeOK
    <3>2. free' \in Seq(Engine!Slots) /\ Dealt(free', Engine!BusySlots, leaked')
      BY <1>2, <2>2, <2>4
    <3>3. EInv'
      BY <1>1, <2>1, <2>4, <3>1, <3>2, NobodyMoves
    <3> QED
      BY <1>1, <2>1, <2>2, <2>4, <3>3
  <2> QED
    BY <2>1, <2>3, <2>4
<1> QED
  BY <1>8, <1>9, <1>10, <1>11

LEMMA LoadKeeps ==
  ASSUME SInv, NEW name \in Names, Load(name)
  PROVE  SInv'
<1> DEFINE snap == Found(name)
<1>1. /\ Known(name) /\ free # << >>
      /\ snaps' = With(snaps, name, snap)
      /\ \/ LoadLive(snap) \/ LoadBinary(name, snap)
         \/ LoadPrompt(name, snap) \/ LoadLeaks(name, snap)
      /\ UNCHANGED <<retired, pins, todo, stranded, refused, files, saves, tainted>>
  BY DEF Load
<1>2. StoreTyped /\ SnapsSound /\ SlotSaved
  BY DEF SInv
<1>3. /\ Backed(snap)
      /\ snap.live => name \in DOMAIN snaps /\ snap = snaps[name]
      /\ snap.live /\ snap.save = saves /\ saves \notin tainted
           => kv[SnapshotSeq] = Cells(snap)
  BY <1>1, <1>2, FoundIs
<1> HIDE DEF snap
<1>4. /\ EInv' /\ kv'[SnapshotSeq] = kv[SnapshotSeq]
      /\ leaked' \subseteq Engine!Slots /\ inexact' \subseteq 0 .. nextId' - 1
  BY <1>1, <1>3, LoadMakes
<1>5. /\ DOMAIN snaps' = DOMAIN snaps \cup {name}
      /\ snaps' = [n \in DOMAIN snaps' |-> snaps'[n]]
      /\ \A n \in DOMAIN snaps' : \/ n = name /\ snaps'[n] = snap
                                  \/ n \in DOMAIN snaps /\ snaps'[n] = snaps[n]
  BY <1>1 DEF With
<1>6. /\ \A n \in DOMAIN snaps : Backed(snaps[n])
      /\ \A n \in DOMAIN json : Backed(json[n])
  <2>1. \A s \in Taken : Backed(s)
    BY <1>2, TakenBacked
  <2> QED
    BY <2>1 DEF Taken
<1>7. /\ \A n \in DOMAIN snaps' : Backed(snaps'[n])
      /\ \A n \in DOMAIN snaps' : snaps'[n].live =>
           /\ n \in DOMAIN snaps /\ snaps'[n] = snaps[n]
           /\ kv'[SnapshotSeq] = kv[SnapshotSeq]
  BY <1>3, <1>4, <1>5, <1>6
<1>8. /\ DOMAIN snaps' \subseteq Names /\ DOMAIN json \subseteq Names
      /\ json = [n \in DOMAIN json |-> json[n]]
  BY <1>2, <1>5 DEF StoreTyped
<1>9. UNCHANGED <<json, bin, saves, tainted>>
  BY <1>1 DEF files
<1>10. StoreTyped' /\ SnapsSound' /\ SlotSaved'
  BY <1>2, <1>5, <1>6, <1>7, <1>8, <1>9, StoreKeeps
<1> QED
  BY <1>4, <1>10 DEF SInv

-----------------------------------------------------------------------------
(* The invariant. *)

LEMMA RestartKeeps ==
  ASSUME SInv, Restart
  PROVE  SInv'
<1>1. /\ snaps' = [name \in DOMAIN json |-> FromDisk(json[name])]
      /\ UNCHANGED <<json, bin, saves, tainted>>
  BY DEF Restart, files
<1>2. EInv' /\ leaked' \subseteq Engine!Slots /\ inexact' \subseteq 0 .. nextId' - 1
  BY NewEngine DEF Restart
<1>3. StoreTyped /\ SnapsSound /\ SlotSaved
  BY DEF SInv
<1>4. /\ \A n \in DOMAIN json : Backed(FromDisk(json[n])) /\ ~FromDisk(json[n]).live
      /\ \A n \in DOMAIN json : Backed(json[n])
  <2>1. \A s \in Taken : Backed(s)
    BY <1>3, TakenBacked
  <2> QED
    BY <1>3, <2>1, FromDiskIs DEF Taken
<1>5. /\ DOMAIN snaps' = DOMAIN json /\ snaps' = [n \in DOMAIN snaps' |-> snaps'[n]]
      /\ \A n \in DOMAIN snaps' : Backed(snaps'[n]) /\ ~snaps'[n].live
  BY <1>1, <1>4
<1>6. DOMAIN json \subseteq Names /\ json = [n \in DOMAIN json |-> json[n]]
  BY <1>3 DEF StoreTyped
<1>7. StoreTyped' /\ SnapsSound' /\ SlotSaved'
  BY <1>1, <1>3, <1>4, <1>5, <1>6, StoreKeeps
<1> QED
  BY <1>2, <1>7 DEF SInv

LEMMA InitSInv ==
  ASSUME Init
  PROVE  SInv
<1>1. DOMAIN snaps = {} /\ DOMAIN json = {} /\ DOMAIN bin = {}
  BY DEF Init
<1>2. StoreTyped
  <2>1. saves \in 0 .. MaxSaves /\ tainted \subseteq 1 .. saves
    BY StoreAssumption DEF Init
  <2>2. snaps \in [DOMAIN snaps -> Snapshots] /\ json \in [DOMAIN json -> Snapshots]
    BY <1>1 DEF Init
  <2> QED
    BY <1>1, <2>1, <2>2 DEF StoreTyped
<1>3. SnapsSound /\ SlotSaved
  BY <1>1 DEF SnapsSound, Taken, SlotSaved
<1>4. EInv /\ leaked \subseteq Engine!Slots /\ inexact \subseteq 0 .. nextId - 1
  <2>1. Unreserved \in Seq(Engine!Slots) /\ Dealt(Unreserved, {}, {})
    BY UnreservedDealt
  <2>2. /\ << >> \in Seq(Token) /\ << >> \in Seq(Engine!Finished) /\ Len(<< >>) = 0
        /\ << >> \in Seq([key : Prompts, slot : Engine!Slots]) /\ DOMAIN << >> = {}
    BY EmptySeq
  <2>3. Engine!RetiredLimit \in Nat
    BY StoreAssumption DEF Engine!RetiredLimit, Engine!Most
  <2>4. DOMAIN states = {} /\ DOMAIN todo = {} /\ DOMAIN retired = {}
    BY DEF Init
  <2>5. Engine!TypeOK
    <3>1. states \in [DOMAIN states -> Engine!RequestState] /\ todo \in [DOMAIN todo -> Seq(Token)]
      BY <2>4 DEF Init
    <3>2. kv \in [Engine!Slots -> Seq(Token)]
      BY <2>2 DEF Init
    <3>3. /\ nextId = 0 /\ free = Unreserved /\ retired = << >> /\ pins = << >>
          /\ stranded = {} /\ refused = FALSE
      BY DEF Init
    <3>4. /\ retired \in Seq(Engine!Finished) /\ Len(retired) <= Engine!RetiredLimit
          /\ free \in Seq(Engine!Slots) /\ pins \in Seq([key : Prompts, slot : Engine!Slots])
      BY <2>1, <2>2, <2>3, <3>3
    <3>5. nextId \in Nat /\ refused \in BOOLEAN /\ stranded \subseteq 0 .. nextId - 1
      BY <3>3
    <3> QED
      BY <2>4, <3>1, <3>2, <3>4, <3>5 DEF Engine!TypeOK
  <2>6. Engine!BusySlots = {}
    BY <2>4 DEF Engine!BusySlots
  <2>7. RowsMade /\ OneSlotEach /\ RequestsHold /\ RetiredFollow
    BY <2>4 DEF RowsMade, OneSlotEach, RequestsHold, RetiredFollow
  <2> QED
    BY <2>1, <2>5, <2>6, <2>7 DEF EInv, Init
<1> QED
  BY <1>2, <1>3, <1>4 DEF SInv

LEMMA StutterKeeps ==
  ASSUME SInv, UNCHANGED vars
  PROVE  SInv'
<1>1. /\ UNCHANGED <<nextId, free, states, retired, pins, kv, todo, stranded, refused>>
      /\ UNCHANGED <<snaps, json, bin, saves, leaked, inexact, tainted>>
  BY DEF vars, engine, files
<1>2. /\ EInv /\ nextId \in Nat /\ free \in Seq(Engine!Slots)
      /\ kv \in [Engine!Slots -> Seq(Token)]
      /\ retired \in Seq(Engine!Finished) /\ Len(retired) <= Engine!RetiredLimit
      /\ Dealt(free, Engine!BusySlots, leaked)
      /\ leaked \subseteq Engine!Slots /\ inexact \subseteq 0 .. nextId - 1
  BY DEF SInv, EInv, Engine!TypeOK
<1>3. EInv'
  BY <1>1, <1>2, NobodyMoves
<1>4. StoreTyped'
  BY <1>1 DEF SInv, StoreTyped, Snapshots
<1>5. SnapsSound'
  BY <1>1 DEF SInv, SnapsSound, Taken
<1>6. SlotSaved'
  BY <1>1 DEF SInv, SlotSaved
<1> QED
  BY <1>1, <1>2, <1>3, <1>4, <1>5, <1>6 DEF SInv

LEMMA NextSInv ==
  ASSUME SInv, [Next]_vars
  PROVE  SInv'
<1>1. CASE EngineStep
  BY <1>1, EngineStepKeeps
<1>2. ASSUME NEW name \in Names, NEW r \in DOMAIN states, Save(name, r)
      PROVE  SInv'
  BY <1>2, SaveKeeps
<1>3. ASSUME NEW names, Forget(names)
      PROVE  SInv'
  BY <1>3, ForgetKeeps
<1>4. ASSUME NEW name \in Names, Load(name)
      PROVE  SInv'
  BY <1>4, LoadKeeps
<1>5. CASE Restart
  BY <1>5, RestartKeeps
<1>6. CASE UNCHANGED vars
  BY <1>6, StutterKeeps
<1> QED
  BY <1>1, <1>2, <1>3, <1>4, <1>5, <1>6 DEF Next

THEOREM Invariance == Spec => []SInv
<1>1. Init => SInv
  BY InitSInv
<1>2. SInv /\ [Next]_vars => SInv'
  BY NextSInv
<1> QED
  BY <1>1, <1>2, PTL DEF Spec

-----------------------------------------------------------------------------
(* What follows. *)

\* Types: what the store keeps, in memory and in files, are snapshots.
THEOREM StoreTypes == Spec => []TypeOK
<1>1. SInv => TypeOK
  BY DEF SInv, EInv, StoreTyped, TypeOK
<1> QED
  BY <1>1, Invariance, PTL

\* Every slot is free, a request's, the store's, or lost by a restore whose read
\* raised, and only one of them (kv_snapshot.py:62).
THEOREM SlotsAreConserved == Spec => []SlotsConserved
<1>1. SInv => SlotsConserved
  <2> SUFFICES ASSUME SInv PROVE SlotsConserved
    OBVIOUS
  <2> DEFINE F == Engine!FreeSlots
             B == Engine!BusySlots
             L == leaked
             R == {SnapshotSeq}
             places == <<F, B, L, R>>
  <2>1. Dealt(free, B, L) /\ OneSlotEach
    BY DEF SInv, EInv
  <2>2. F = Range(free)
    BY DEF Engine!FreeSlots, Engine!Range, Range
  <2>3. /\ F \cap B = {} /\ F \cap L = {} /\ F \cap R = {} /\ B \cap L = {}
        /\ B \cap R = {} /\ L \cap R = {}
        /\ F \cup B \cup L \cup R = Engine!Slots
    BY <2>1, <2>2 DEF Dealt
  <2> HIDE DEF F, B, L, R
  <2>4. /\ DOMAIN places = 1 .. 4 /\ places[1] = F /\ places[2] = B /\ places[3] = L
        /\ places[4] = R
    OBVIOUS
  <2> HIDE DEF places
  <2>5. \A i, j \in DOMAIN places : i # j => places[i] \cap places[j] = {}
    BY <2>3, <2>4
  <2>6. UNION Range(places) = Engine!Slots
    <3>1. Range(places) = {F, B, L, R}
      BY <2>4 DEF Range
    <3> QED
      BY <2>3, <3>1
  <2> QED
    BY <2>1, <2>5, <2>6 DEF SlotsConserved, Dealt, OneSlotEach, places, F, B, L, R
<1> QED
  BY <1>1, Invariance, PTL

\* The reserved slot and the files hold the KV of the text they were saved with,
\* over any number of saves, deletions and restarts (kv_snapshot.py:100).
THEOREM SavedKvIsItsText == Spec => []SnapshotsHoldTheirText
<1>1. SInv => SnapshotsHoldTheirText
  <2> SUFFICES ASSUME SInv PROVE SnapshotsHoldTheirText
    OBVIOUS
  <2>1. ASSUME NEW n \in DOMAIN json \cap DOMAIN bin,
               json[n].save = bin[n].save, json[n].save \notin tainted
        PROVE  bin[n].kv = Cells(json[n])
    <3>1. Sound(json[n], bin)
      BY <2>1 DEF SInv, SnapsSound, Taken
    <3> QED
      BY <2>1, <3>1 DEF Sound
  <2> QED
    BY <2>1 DEF SnapshotsHoldTheirText, SInv, SlotSaved
<1> QED
  BY <1>1, Invariance, PTL

\* The cells of a request that no fault has spoiled, in the engine's terms.
LEMMA HeldIsText ==
  ASSUME EInv, NEW r \in DOMAIN states, r \notin Blurred
  PROVE  LET req == states[r]
             drafts == IF r \in DOMAIN todo THEN todo[r] ELSE << >>
             text == req.prompt \o req.out \o drafts
         IN  /\ kv[req.slot] = SubSeq(text, 1, req.nPos)
             /\ req.nPrefilled < Len(req.prompt) => req.nPos = req.nPrefilled /\ req.out = << >>
             /\ ~ (req.nPrefilled < Len(req.prompt)) =>
                  req.nPos = IF r \in DOMAIN todo THEN Len(text) ELSE Len(text) - 1
             /\ req.out # << >> => req.next = Last(req.out)
<1> DEFINE req == states[r]
           drafts == IF r \in DOMAIN todo THEN todo[r] ELSE << >>
           text == req.prompt \o req.out \o drafts
           a == req.nPrefilled
           b == Len(req.prompt)
           c == req.nPos
           d == Len(text)
<1>1. Held(req, kv[req.slot], r \in DOMAIN todo)
  BY DEF EInv, RequestsHold
<1>2. drafts = << >>
  BY DEF EInv, RowsMade
<1>3. /\ req.prompt \in Seq(Token) /\ req.out \in Seq(Token)
      /\ c \in Nat /\ a \in Nat /\ b \in Nat /\ Len(req.out) \in Nat
  BY RequestTyped, FieldsTyped DEF EInv
<1>4. text = req.prompt \o req.out /\ d = b + Len(req.out)
  <2>1. PICK t \in Seq(Token) : t = req.prompt \o req.out
    BY <1>3, ConcatProperties
  <2>2. t \o << >> = t
    BY ConcatEmptySeq
  <2>3. Len(t) = b + Len(req.out)
    BY <1>3, <2>1, ConcatProperties
  <2> QED
    BY <1>2, <2>1, <2>2, <2>3
<1>5. kv[req.slot] = SubSeq(text, 1, c)
  BY <1>1, <1>4 DEF Held, Cells
<1>6. CASE r \in DOMAIN todo
  <2>1. a = b /\ c = b + Len(req.out) /\ (req.out # << >> => req.next = Last(req.out))
    BY <1>1, <1>6 DEF Held, InStep
  <2> HIDE DEF a, b, c, d, text
  <2>2. ~ (a < b) /\ c = d
    BY <1>3, <1>4, <2>1
  <2> QED
    BY <1>5, <1>6, <2>1, <2>2 DEF a, b, c, d, text
<1>7. CASE r \notin DOMAIN todo
  <2>1. AtRest(req)
    BY <1>1, <1>7 DEF Held
  <2>2. /\ a <= b /\ (a < b => c = a /\ req.out = << >>)
        /\ a = b => c + 1 = b + Len(req.out)
        /\ req.out # << >> => req.next = Last(req.out)
    BY <2>1 DEF AtRest
  <2> HIDE DEF a, b, c, d, text
  <2>3. ~ (a < b) => c = d - 1
    BY <1>3, <1>4, <2>2
  <2> QED
    BY <1>5, <1>7, <2>2, <2>3 DEF a, b, c, d, text
<1> QED
  BY <1>6, <1>7

\* A restored request's KV is its prompt and output but for the pending token
\* (kv_snapshot.py:280).
THEOREM RestoredFromItsText == Spec => []RestoredKvIsItsText
<1>1. SInv => RestoredKvIsItsText
  <2> SUFFICES ASSUME SInv PROVE RestoredKvIsItsText
    OBVIOUS
  <2>1. \A r \in DOMAIN states : Exact!Prefilling(r) <=> states[r].nPrefilled < Len(states[r].prompt)
    BY DEF Exact!Prefilling
  <2> DEFINE drafts(r) == IF r \in DOMAIN todo THEN todo[r] ELSE << >>
             text(r) == states[r].prompt \o states[r].out \o drafts(r)
             shape(r) ==
               /\ kv[states[r].slot] = SubSeq(text(r), 1, states[r].nPos)
               /\ Exact!Prefilling(r) =>
                    states[r].nPos = states[r].nPrefilled /\ states[r].out = << >>
               /\ ~Exact!Prefilling(r) =>
                    states[r].nPos =
                      IF r \in DOMAIN todo THEN Len(text(r)) ELSE Len(text(r)) - 1
               /\ states[r].out # << >> => states[r].next = Last(states[r].out)
  <2>2. RestoredKvIsItsText <=> \A r \in DOMAIN states \ Blurred : shape(r)
    BY DEF RestoredKvIsItsText, Exact!KvMatchesRequest, Exact!Last, Last, Blurred
  <2>3. ASSUME NEW r \in DOMAIN states, r \notin Blurred PROVE shape(r)
    <3>1. EInv
      BY DEF SInv
    <3>2. /\ kv[states[r].slot] = SubSeq(text(r), 1, states[r].nPos)
          /\ states[r].nPrefilled < Len(states[r].prompt) =>
               states[r].nPos = states[r].nPrefilled /\ states[r].out = << >>
          /\ ~ (states[r].nPrefilled < Len(states[r].prompt)) =>
               states[r].nPos = IF r \in DOMAIN todo THEN Len(text(r)) ELSE Len(text(r)) - 1
          /\ states[r].out # << >> => states[r].next = Last(states[r].out)
      BY <2>3, <3>1, HeldIsText
    <3> QED
      BY <2>1, <3>2, Zenon
  <2> QED
    BY <2>2, <2>3
<1> QED
  BY <1>1, Invariance, PTL

\* What a restored request says follows from its prompt and all its output, said
\* before the save or after the restore.
THEOREM RestoredFollows == Spec => []RestoredOutputFollows
<1>1. SInv => RestoredOutputFollows
  <2> SUFFICES ASSUME SInv PROVE RestoredOutputFollows
    OBVIOUS
  <2>1. ASSUME NEW p, NEW o, Engine!Follows(p, o) PROVE Exact!Follows(p, o)
    BY <2>1 DEF Engine!Follows, Exact!Follows
  <2>2. \A r \in DOMAIN states \ Blurred : Engine!Follows(states[r].prompt, states[r].out)
    BY DEF SInv, EInv, RequestsHold, Held, AtRest, InStep
  <2>3. \A i \in DOMAIN retired :
          retired[i].id \notin Blurred => Engine!Follows(retired[i].prompt, retired[i].out)
    BY DEF SInv, EInv, RetiredFollow
  <2> QED
    BY <2>1, <2>2, <2>3 DEF RestoredOutputFollows, Exact!OutputFollowsContext, Blurred
<1> QED
  BY <1>1, Invariance, PTL

\* A refused batch had rows of a request that a fault has spoiled and whose rows do
\* not fit; nothing but a decode is refused.
LEMMA RefusedDecode ==
  ASSUME EInv, Engine!Decode, refused', ~refused
  PROVE  \E r \in DOMAIN states \cap Blurred :
           (Engine!Prefilling(r) \/ Engine!Generating(r)) /\ ~Decodable(r)
<1>1. PICK chunk \in [{r \in DOMAIN states : Engine!Prefilling(r)} -> 0 .. NBatch] :
        LET left == NBatch - Engine!SumFunction(chunk)
            rows == Engine!DecodeRows(left)
        IN  /\ Engine!IsPrefillPlan(chunk)
            /\ \E drafts \in [rows -> Engine!DraftSeqs] :
                 IF Engine!Accepted(chunk, drafts)
                 THEN Engine!Committed(chunk, drafts) ELSE Engine!Refused
  BY DEF Engine!Decode
<1>2. PICK rows : rows = Engine!DecodeRows(NBatch - Engine!SumFunction(chunk))
  OBVIOUS
<1>3. /\ Engine!IsPrefillPlan(chunk)
      /\ \E drafts \in [rows -> Engine!DraftSeqs] :
           IF Engine!Accepted(chunk, drafts)
           THEN Engine!Committed(chunk, drafts) ELSE Engine!Refused
  BY <1>1, <1>2
<1>4. PICK drafts \in [rows -> Engine!DraftSeqs] :
        IF Engine!Accepted(chunk, drafts)
        THEN Engine!Committed(chunk, drafts) ELSE Engine!Refused
  BY <1>3
<1>5. Engine!Idle /\ rows \in SUBSET {r \in DOMAIN states : Engine!Generating(r)}
  BY <1>2 DEF Engine!Decode, Engine!DecodeRows
<1>6. ~Engine!Accepted(chunk, drafts)
  BY <1>4 DEF Engine!Committed
<1>7. PICK r \in DOMAIN states :
        LET x == Engine!Packed(r, chunk, drafts)
        IN  /\ x # << >>
            /\ ~ (/\ states[r].nPos = Len(kv[states[r].slot])
                  /\ states[r].nPos + Len(x) <= NCtxSeq)
  BY <1>6 DEF Engine!Accepted
<1>8. PICK x : x = Engine!Packed(r, chunk, drafts)
  OBVIOUS
<1>9. InBatch(r, chunk, rows, x)
  BY <1>3, <1>5, <1>8, PackedIs
<1>10. r \in Blurred
  BY <1>5, <1>7, <1>8, <1>9, RowAccepted
<1>11. states[r].nPos \in Nat /\ NCtxSeq \in Nat
  BY RequestTyped, FieldsTyped, StoreAssumption DEF EInv
<1>12. CASE r \in DOMAIN chunk
  <2>1. Engine!Prefilling(r) /\ Len(x) = chunk[r]
        /\ (states[r].nPos < NCtxSeq => states[r].nPos + chunk[r] <= NCtxSeq)
    BY <1>9, <1>12 DEF InBatch
  <2>2. ~Decodable(r)
    BY <1>7, <1>8, <2>1 DEF Decodable
  <2> QED
    BY <1>10, <2>1, <2>2
<1>13. CASE r \in rows
  <2>1. Engine!Generating(r) /\ Len(x) = 1
    BY <1>5, <1>9, <1>13 DEF InBatch
  <2>2. states[r].nPos < NCtxSeq => states[r].nPos + Len(x) <= NCtxSeq
    BY <1>11, <2>1
  <2>3. ~Decodable(r)
    BY <1>7, <1>8, <2>2 DEF Decodable
  <2> QED
    BY <1>10, <2>1, <2>3
<1> QED
  BY <1>7, <1>8, <1>9, <1>12, <1>13 DEF InBatch

\* A restore from one save is never why llama_decode refuses a batch: every request is
\* decodable between steps, also beside requests restored from KV and tokens of two
\* saves, and the first batch that is refused has rows of one of these, or of a
\* stranded request (kv_snapshot.py:280, metal_engine.py:453).
THEOREM RestoresDecode == Spec => RestoresAreDecodable
<1>1. SInv => (Engine!Idle => \A r \in DOMAIN states \ (stranded \cup inexact) : Decodable(r))
  <2> SUFFICES ASSUME SInv, Engine!Idle,
                      NEW r \in DOMAIN states \ (stranded \cup inexact)
               PROVE  Decodable(r)
    OBVIOUS
  <2>1. EInv /\ r \notin Blurred /\ r \in DOMAIN states
    BY DEF SInv, Blurred
  <2> QED
    BY <2>1, RestFacts DEF Decodable
<1>2. SInv /\ [Next]_vars =>
        [refused' /\ ~refused =>
           \E r \in DOMAIN states \cap (stranded \cup inexact) :
             (Engine!Prefilling(r) \/ Engine!Generating(r)) /\ ~Decodable(r)]_vars
  <2> SUFFICES ASSUME SInv, Next, refused', ~refused
               PROVE  \E r \in DOMAIN states \cap (stranded \cup inexact) :
                        (Engine!Prefilling(r) \/ Engine!Generating(r)) /\ ~Decodable(r)
    OBVIOUS
  <2>1. Engine!Decode
    <3>1. Engine!Next
      BY DEF Next, EngineStep, Save, Forget, Load, Restart, engine
    <3> QED
      BY <3>1 DEF Engine!Next, Engine!AddRequest, Engine!Cancel, Engine!Advance,
                  Engine!AdvanceFails, Engine!SyncFails, Engine!StepAborted
  <2> QED
    BY <2>1, RefusedDecode DEF SInv, Blurred
<1> QED
  BY <1>1, <1>2, Invariance, PTL DEF Spec, RestoresAreDecodable
=============================================================================
