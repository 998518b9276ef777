-------------------------- MODULE DraftMirrorProofs --------------------------
(***************************************************************************)
(* Proofs about DraftMirror, for every size of the contexts and batches,   *)
(* every vocabulary, every pair of models, and any number of requests:     *)
(* draft streams and requests match, and a sync puts a draft in step with  *)
(* the target.                                                             *)
(***************************************************************************)
EXTENDS DraftMirror, TLAPS, WellFoundedInduction, SequenceTheorems

-----------------------------------------------------------------------------
(* Numbers, functions and sequences. *)

LEMMA SmallestOf ==
  ASSUME NEW S, S \subseteq Nat, S # {}
  PROVE  Min(S) \in S
<1>1. PICK x \in S : \A y \in S : ~ (<<y, x>> \in OpToRel(<, Nat))
  BY NatLessThanWellFounded, WFMin
<1>2. ASSUME NEW y \in S, y < x PROVE FALSE
  <2>1. <<y, x>> \in Nat \X Nat /\ <<y, x>>[1] < <<y, x>>[2]
    BY <1>2
  <2>2. <<y, x>> \in OpToRel(<, Nat)
    BY <2>1, Zenon DEF OpToRel
  <2> QED
    BY <1>1, <2>2
<1>3. \A y \in S : x <= y
  BY <1>2
<1> QED
  BY <1>3 DEF Min

LEMMA LargestOf ==
  ASSUME NEW n \in Nat, NEW S, S \subseteq 0 .. n, S # {}
  PROVE  Max(S) \in S
<1> DEFINE T == {n - y : y \in S}
<1>0. \A y \in S : y \in Int /\ n - y \in Nat
  OBVIOUS
<1>1. T \subseteq Nat /\ T # {}
  BY <1>0, Zenon
<1>2. PICK t \in T : \A u \in T : ~ (<<u, t>> \in OpToRel(<, Nat))
  BY <1>1, NatLessThanWellFounded, WFMin
<1>3. PICK x \in S : t = n - x
  BY <1>2
<1>4. ASSUME NEW y \in S, ~ (x >= y) PROVE FALSE
  <2>1. n - y \in T /\ n - y < n - x /\ n - y \in Nat /\ n - x \in Nat
    BY <1>0, <1>4
  <2>2. <<n - y, n - x>> \in Nat \X Nat /\ <<n - y, n - x>>[1] < <<n - y, n - x>>[2]
    BY <2>1
  <2>3. <<n - y, n - x>> \in OpToRel(<, Nat)
    BY <2>2, Zenon DEF OpToRel
  <2> QED
    BY <1>2, <1>3, <2>1, <2>3
<1> QED
  BY <1>4 DEF Max

LEMMA BoundedIs ==
  ASSUME NEW S, NEW n \in Nat, NEW s
  PROVE  s \in BoundedSeq(S, n) <=> s \in Seq(S) /\ Len(s) <= n
<1>1. ASSUME s \in BoundedSeq(S, n) PROVE s \in Seq(S) /\ Len(s) <= n
  <2>1. PICK m \in 0 .. n : s \in [1 .. m -> S]
    BY <1>1 DEF BoundedSeq, SeqOf
  <2>2. m \in Nat
    OBVIOUS
  <2>3. s \in Seq(S)
    BY <2>1, <2>2
  <2>4. Len(s) = m
    BY <2>1, <2>2, <2>3, LenProperties
  <2> QED
    BY <2>3, <2>4
<1>2. ASSUME s \in Seq(S), Len(s) <= n PROVE s \in BoundedSeq(S, n)
  <2>1. Len(s) \in 0 .. n /\ s \in [1 .. Len(s) -> S]
    BY <1>2, LenProperties
  <2> QED
    BY <2>1 DEF BoundedSeq, SeqOf
<1> QED
  BY <1>1, <1>2

LEMMA EmptyIsBounded ==
  ASSUME NEW S, NEW n \in Nat
  PROVE  << >> \in BoundedSeq(S, n)
<1>1. << >> \in Seq(S) /\ Len(<< >>) <= n
  BY EmptySeq
<1> QED
  BY <1>1, BoundedIs, Zenon

\* The first n tokens of s.
Begin(s, n) == SubSeq(s, 1, n)

LEMMA BeginIs ==
  ASSUME NEW S, NEW s \in Seq(S), NEW n \in 0 .. Len(s)
  PROVE  /\ Begin(s, n) \in Seq(S)
         /\ Len(Begin(s, n)) = n
         /\ \A i \in 1 .. n : Begin(s, n)[i] = s[i]
<1>1. Len(s) \in Nat /\ n \in Nat /\ \A i \in 1 .. n : s[i] \in S
  BY LenProperties, ElementOfSeq
<1>2. /\ SubSeq(s, 1, n) \in Seq(S)
      /\ Len(SubSeq(s, 1, n)) = IF 1 <= n THEN n - 1 + 1 ELSE 0
      /\ \A i \in 1 .. n - 1 + 1 : SubSeq(s, 1, n)[i] = s[1 + i - 1]
  BY <1>1, SubSeqProperties
<1>3. n - 1 + 1 = n /\ (IF 1 <= n THEN n - 1 + 1 ELSE 0) = n
  BY <1>1
<1>4. \A i \in 1 .. n : 1 + i - 1 = i
  OBVIOUS
<1> QED
  BY <1>2, <1>3, <1>4 DEF Begin



LEMMA PlusTyped ==
  ASSUME NEW f, NEW r, NEW x, NEW S, f \in [DOMAIN f -> S], x \in S
  PROVE  Plus(f, r, x) \in [DOMAIN Plus(f, r, x) -> S]
BY DEF Plus

\* A new key.
LEMMA PlusFresh ==
  ASSUME NEW f, NEW r, NEW x, NEW g, g = Plus(f, r, x), r \notin DOMAIN f
  PROVE  /\ DOMAIN g = DOMAIN f \cup {r} /\ g[r] = x
         /\ \A q \in DOMAIN f : g[q] = f[q]
BY DEF Plus

LEMMA PlusFreshTyped ==
  ASSUME NEW f, NEW r, NEW x, NEW g, g = Plus(f, r, x),
         NEW S, f \in [DOMAIN f -> S], x \in S
  PROVE  g \in [DOMAIN g -> S]
BY DEF Plus

LEMMA MinusIs ==
  ASSUME NEW f, NEW r
  PROVE  /\ DOMAIN Minus(f, r) = DOMAIN f \ {r}
         /\ \A q \in DOMAIN f \ {r} : Minus(f, r)[q] = f[q]
BY DEF Minus, Restrict

LEMMA MinusTyped ==
  ASSUME NEW f, NEW r, NEW S, f \in [DOMAIN f -> S]
  PROVE  Minus(f, r) \in [DOMAIN Minus(f, r) -> S]
BY DEF Minus, Restrict

LEMMA NoRows ==
  /\ DOMAIN << >> = {}
  /\ \A S : << >> \in [DOMAIN << >> -> S]
OBVIOUS

-----------------------------------------------------------------------------
(* One draft against its target: a draft whose KV is own and whose stream is *)
(* at pos, its last drafts d unverified, and a target with prompt p and text  *)
(* t.  Cells of the output at or before from may be of rejected drafts.       *)

Confirmed(own, base, p, t, from) ==
  \A i \in 1 .. base : i <= Len(p) \/ i > from => own[i] = t[i]

Mirror(pos, own, d, p, t, from) ==
  /\ pos = Len(own)
  /\ Len(own) - Len(d) \in Len(p) .. Len(t)
  /\ \A i \in 1 .. Len(d) : own[Len(own) - Len(d) + i] = d[i]
  /\ Confirmed(own, Len(own) - Len(d), p, t, from)

LEMMA MirrorPrepared ==
  ASSUME NEW S, NEW p \in Seq(S), NEW from
  PROVE  Mirror(Len(p), p, << >>, p, p \o << >>, from)
<1>1. p \o << >> = p /\ Len(p) \in Nat /\ Len(<< >>) = 0
  BY ConcatEmptySeq, LenProperties, EmptySeq
<1> QED
  BY <1>1, SMT DEF Mirror, Confirmed

\* Drafts are proposed behind what the draft holds.
LEMMA MirrorProposed ==
  ASSUME NEW S, NEW own \in Seq(S), NEW d \in Seq(S), NEW p \in Seq(S),
         NEW t \in Seq(S), NEW from, NEW pos, Mirror(pos, own, << >>, p, t, from)
  PROVE  Mirror(pos + Len(d), own \o d, d, p, t, from)
<1>1. /\ Len(own) \in Nat /\ Len(d) \in Nat /\ Len(p) \in Nat /\ Len(t) \in Nat
      /\ Len(<< >>) = 0
  BY LenProperties, EmptySeq
<1>2. PICK new : new = own \o d
  OBVIOUS
<1>3. /\ Len(new) = Len(own) + Len(d)
      /\ \A i \in 1 .. Len(own) : new[i] = own[i]
      /\ \A i \in 1 .. Len(d) : new[Len(own) + i] = d[i]
  <2>1. /\ Len(new) = Len(own) + Len(d)
        /\ \A i \in 1 .. Len(own) + Len(d) :
             new[i] = IF i <= Len(own) THEN own[i] ELSE d[i - Len(own)]
    BY <1>2, ConcatProperties
  <2>2. ASSUME NEW i \in 1 .. Len(d) PROVE new[Len(own) + i] = d[i]
    <3>1. /\ Len(own) + i \in 1 .. Len(own) + Len(d) /\ ~ (Len(own) + i <= Len(own))
          /\ Len(own) + i - Len(own) = i
      BY <1>1
    <3> QED
      BY <2>1, <3>1
  <2>3. \A i \in 1 .. Len(own) : new[i] = own[i]
    BY <1>1, <2>1
  <2> QED
    BY <2>1, <2>2, <2>3
<1>4. Len(new) - Len(d) = Len(own) /\ Len(own) - Len(<< >>) = Len(own)
  BY <1>1, <1>3
<1>5. pos = Len(own) /\ Len(own) \in Len(p) .. Len(t) /\ Confirmed(own, Len(own), p, t, from)
  BY <1>4 DEF Mirror
<1>6. Confirmed(new, Len(own), p, t, from)
  BY <1>3, <1>5 DEF Confirmed
<1> QED
  BY <1>2, <1>3, <1>4, <1>5, <1>6 DEF Mirror

\* Tokens of the plain path bypass the draft.
LEMMA MirrorBypassed ==
  ASSUME NEW S, NEW own \in Seq(S), NEW p \in Seq(S), NEW t \in Seq(S), NEW a \in Seq(S),
         NEW from, NEW pos, Mirror(pos, own, << >>, p, t, from)
  PROVE  Mirror(pos, own, << >>, p, t \o a, from)
<1>1. /\ Len(own) \in Nat /\ Len(a) \in Nat /\ Len(p) \in Nat /\ Len(t) \in Nat
      /\ Len(<< >>) = 0
  BY LenProperties, EmptySeq
<1>2. PICK new : new = t \o a
  OBVIOUS
<1>3. Len(new) = Len(t) + Len(a) /\ \A i \in 1 .. Len(t) : new[i] = t[i]
  <2>1. /\ Len(new) = Len(t) + Len(a)
        /\ \A i \in 1 .. Len(t) + Len(a) :
             new[i] = IF i <= Len(t) THEN t[i] ELSE a[i - Len(t)]
    BY <1>2, ConcatProperties
  <2> QED
    BY <1>1, <2>1
<1>4. Len(own) - Len(<< >>) = Len(own)
  BY <1>1
<1>5. pos = Len(own) /\ Len(own) \in Len(p) .. Len(t) /\ Confirmed(own, Len(own), p, t, from)
  BY <1>4 DEF Mirror
<1>6. Confirmed(own, Len(own), p, new, from)
  BY <1>1, <1>3, <1>5 DEF Confirmed
<1>7. Len(own) \in Len(p) .. Len(new)
  BY <1>1, <1>3, <1>5
<1>8. \A i \in 1 .. Len(<< >>) : own[Len(own) - Len(<< >>) + i] = << >>[i]
  BY <1>1
<1> QED
  BY <1>2, <1>4, <1>5, <1>6, <1>7, <1>8, Zenon DEF Mirror

\* A sync keeps the m drafts that were accepted and adds the token x after them.
\* If the drafts were proposed from behind, the cells up to it are not trusted.
LEMMA MirrorSynced ==
  ASSUME NEW S, NEW own \in Seq(S), NEW d \in Seq(S), NEW p \in Seq(S), NEW t \in Seq(S),
         NEW from, NEW pos, Mirror(pos, own, d, p, t, from),
         NEW m \in 0 .. Len(d), NEW x \in S, Len(t) + m <= Len(own),
         NEW since1, since1 = IF Len(own) - Len(d) # Len(t) THEN Len(t) + m ELSE from
  PROVE  Mirror(Len(t) + m + 1, Append(Begin(own, Len(t) + m), x), << >>,
                p, t \o Append(Begin(d, m), x), since1)
<1>1. /\ Len(own) \in Nat /\ Len(d) \in Nat /\ Len(p) \in Nat /\ Len(t) \in Nat
      /\ m \in Nat /\ Len(<< >>) = 0 /\ Len(t) + m \in 0 .. Len(own)
  BY LenProperties, EmptySeq
<1>2. PICK kept : kept = Begin(own, Len(t) + m)
  OBVIOUS
<1>3. /\ kept \in Seq(S) /\ Len(kept) = Len(t) + m
      /\ \A i \in 1 .. Len(t) + m : kept[i] = own[i]
  BY <1>1, <1>2, BeginIs
<1>4. PICK new : new = Append(kept, x)
  OBVIOUS
<1>5. /\ Len(new) = Len(t) + m + 1
      /\ \A i \in 1 .. Len(t) + m : new[i] = own[i]
      /\ new[Len(t) + m + 1] = x
  <2>1. /\ Len(new) = Len(kept) + 1
        /\ \A i \in 1 .. Len(kept) : new[i] = kept[i]
        /\ new[Len(kept) + 1] = x
    BY <1>3, <1>4, AppendProperties
  <2> QED
    BY <1>3, <2>1
<1>6. PICK a : a = Append(Begin(d, m), x)
  OBVIOUS
<1>7. /\ a \in Seq(S) /\ Len(a) = m + 1 /\ a[m + 1] = x
      /\ \A i \in 1 .. m : a[i] = d[i]
  <2>1. PICK b : b = Begin(d, m)
    OBVIOUS
  <2>2. b \in Seq(S) /\ Len(b) = m /\ \A i \in 1 .. m : b[i] = d[i]
    BY <2>1, BeginIs
  <2>3. /\ Append(b, x) \in Seq(S) /\ Len(Append(b, x)) = Len(b) + 1
        /\ \A i \in 1 .. Len(b) : Append(b, x)[i] = b[i]
        /\ Append(b, x)[Len(b) + 1] = x
    BY <2>2, AppendProperties
  <2> QED
    BY <1>6, <2>1, <2>2, <2>3
<1>8. PICK text : text = t \o a
  OBVIOUS
<1>9. /\ Len(text) = Len(t) + m + 1
      /\ \A i \in 1 .. Len(t) : text[i] = t[i]
      /\ \A i \in 1 .. m : text[Len(t) + i] = d[i]
      /\ text[Len(t) + m + 1] = x
  <2>1. /\ Len(text) = Len(t) + Len(a)
        /\ \A i \in 1 .. Len(t) + Len(a) :
             text[i] = IF i <= Len(t) THEN t[i] ELSE a[i - Len(t)]
    BY <1>7, <1>8, ConcatProperties
  <2>2. ASSUME NEW i \in 1 .. m + 1 PROVE text[Len(t) + i] = a[i]
    <3>1. /\ Len(t) + i \in 1 .. Len(t) + Len(a) /\ ~ (Len(t) + i <= Len(t))
          /\ Len(t) + i - Len(t) = i
      BY <1>1, <1>7
    <3> QED
      BY <2>1, <3>1
  <2>3. \A i \in 1 .. Len(t) : text[i] = t[i]
    BY <1>1, <1>7, <2>1
  <2>4. Len(text) = Len(t) + m + 1
    BY <1>1, <1>7, <2>1
  <2>5. text[Len(t) + (m + 1)] = x /\ Len(t) + (m + 1) = Len(t) + m + 1
    BY <1>1, <1>7, <2>2
  <2> QED
    BY <1>1, <1>7, <2>2, <2>3, <2>4, <2>5
<1>10. PICK base : base = Len(own) - Len(d)
  OBVIOUS
<1>11. /\ base \in Len(p) .. Len(t)
       /\ \A i \in 1 .. Len(d) : own[base + i] = d[i]
       /\ \A i \in 1 .. base : i <= Len(p) \/ i > from => own[i] = t[i]
  BY <1>10 DEF Mirror, Confirmed
<1>12. Len(new) - Len(<< >>) = Len(t) + m + 1
  BY <1>1, <1>5
<1>13. ASSUME NEW i \in 1 .. Len(t) + m + 1, i <= Len(p) \/ i > since1
       PROVE  new[i] = text[i]
  <2>1. CASE i = Len(t) + m + 1
    BY <1>5, <1>9, <2>1
  <2>2. CASE i <= Len(p)
    <3>1. i \in 1 .. base /\ i \in 1 .. Len(t) /\ i \in 1 .. Len(t) + m
      BY <1>1, <1>11, <2>2
    <3> QED
      BY <1>5, <1>9, <1>11, <2>2, <3>1
  <2>3. CASE i # Len(t) + m + 1 /\ ~ (i <= Len(p))
    <3>1. base = Len(t) /\ since1 = from /\ i > from /\ i \in 1 .. Len(t) + m
      BY <1>1, <1>10, <1>13, <2>3
    <3>2. CASE i <= Len(t)
      BY <1>5, <1>9, <1>11, <3>1, <3>2
    <3>3. CASE ~ (i <= Len(t))
      <4>1. PICK j \in 1 .. m : i = Len(t) + j
        <5>1. i - Len(t) \in 1 .. m /\ i = Len(t) + (i - Len(t))
          BY <1>1, <3>1, <3>3
        <5> QED
          BY <5>1
      <4>2. j \in 1 .. Len(d)
        BY <1>1, <4>1
      <4>3. own[base + j] = d[j] /\ text[Len(t) + j] = d[j]
        BY <1>9, <1>11, <4>1, <4>2
      <4> QED
        BY <1>5, <3>1, <4>1, <4>3
    <3> QED
      BY <3>2, <3>3
  <2> QED
    BY <2>1, <2>2, <2>3
<1>14. Confirmed(new, Len(t) + m + 1, p, text, since1)
  BY <1>13 DEF Confirmed
<1>15. Len(t) + m + 1 \in Len(p) .. Len(text)
  BY <1>1, <1>9, <1>11
<1>16. \A i \in 1 .. Len(<< >>) : new[Len(new) - Len(<< >>) + i] = << >>[i]
  BY <1>1
<1>17. Mirror(Len(t) + m + 1, new, << >>, p, text, since1)
  BY <1>5, <1>12, <1>14, <1>15, <1>16, Zenon DEF Mirror
<1> QED
  BY <1>2, <1>4, <1>6, <1>8, <1>17

-----------------------------------------------------------------------------
(* The inductive invariant. *)

\* The drafts of r that are not verified yet.
Drafts(r) == IF r \in DOMAIN rows THEN rows[r] ELSE << >>

OneSlotEach == \A q, r \in DOMAIN req : req[q].slot = req[r].slot => q = r

\* What is planned is ready and not yet a row.  The target holds unverified rows
\* of requests that raised only; of any other, text and drafts fit the slot.
StepFits ==
  /\ plan \subseteq InStage("ready")
  /\ plan \cap DOMAIN rows = {}
  /\ \A r \in DOMAIN req \ unsynced : ahead[r] = 0
  /\ \A r \in DOMAIN req : ahead[r] = 0 => Len(Text(r)) + Len(Drafts(r)) <= NCtxSeq

Mirrored(r) ==
  Mirror(stream[r].pos, cells[req[r].slot], Drafts(r), req[r].prompt, Text(r), since[r])

LiveMirrored == \A r \in DOMAIN req \ unsynced : Mirrored(r)

MInv == TypeOK /\ StreamsMatchRequests /\ OneSlotEach /\ StepFits /\ LiveMirrored

\* A sequence of S with at most n elements.
Short(S, n, s) == s \in Seq(S) /\ Len(s) <= n

LEMMA CtxIsNat == NCtxSeq \in Nat /\ NBatch \in Nat /\ MaxDrafts \in Nat /\ 1 \in 1 .. NBatch
BY MirrorAssumption

LEMMA RequestTyped ==
  ASSUME TypeOK, NEW r \in DOMAIN req
  PROVE  /\ r \in Nat /\ r \in Ids /\ req[r].slot \in Slots
         /\ req[r].prompt \in Prompts /\ req[r].prompt \in Seq(Token)
         /\ Len(req[r].prompt) \in Nat /\ Len(req[r].prompt) >= 1
         /\ req[r].out \in Seq(Token)
         /\ req[r] \in [slot : Slots, prompt : Prompts, out : Seq(Token),
                        stage : {"prefill", "ready", "stranded"}]
<1>1. r \in Ids /\ nextId \in 0 .. MaxRequests
      /\ req[r] \in [slot : Slots, prompt : Prompts, out : Seq(Token),
                     stage : {"prefill", "ready", "stranded"}]
  BY DEF TypeOK
<1>2. r \in Nat
  BY <1>1, MirrorAssumption DEF Ids
<1>3. req[r].slot \in Slots /\ req[r].prompt \in Prompts /\ req[r].out \in Seq(Token)
  BY <1>1
<1>4. /\ req[r].prompt \in Seq(Token) /\ Len(req[r].prompt) \in Nat
      /\ Len(req[r].prompt) >= 1
  BY <1>3, MirrorAssumption
<1> QED
  BY <1>1, <1>2, <1>3, <1>4

LEMMA TextTyped ==
  ASSUME TypeOK, NEW r \in DOMAIN req
  PROVE  /\ Text(r) \in Seq(Token)
         /\ Len(Text(r)) = Len(req[r].prompt) + Len(req[r].out)
         /\ Len(Text(r)) \in Nat /\ Len(Text(r)) >= 1
         /\ NPos(r) = Len(Text(r)) - 1 + ahead[r] /\ ahead[r] \in 0 .. NCtxSeq
<1>1. /\ req[r].prompt \in Seq(Token) /\ req[r].out \in Seq(Token)
      /\ Len(req[r].prompt) >= 1 /\ Len(req[r].prompt) \in Nat
  BY RequestTyped
<1>2. Text(r) \in Seq(Token) /\ Len(Text(r)) = Len(req[r].prompt) + Len(req[r].out)
  <2>1. \A a, b \in Seq(Token) : a \o b \in Seq(Token) /\ Len(a \o b) = Len(a) + Len(b)
    BY ConcatProperties
  <2> QED
    BY <1>1, <2>1 DEF Text
<1>3. Len(req[r].out) \in Nat
  BY <1>1, LenProperties
<1>4. Len(Text(r)) \in Nat /\ Len(Text(r)) >= 1
  <2>1. \A a, b \in Nat : a >= 1 => a + b \in Nat /\ a + b >= 1
    OBVIOUS
  <2> QED
    BY <1>1, <1>2, <1>3, <2>1, Zenon
<1>5. NPos(r) = Len(Text(r)) - 1 + ahead[r]
  BY DEF NPos
<1>6. ahead[r] \in 0 .. NCtxSeq
  BY RequestTyped DEF TypeOK
<1> QED
  BY <1>2, <1>4, <1>5, <1>6, Zenon

LEMMA CellsTyped ==
  ASSUME TypeOK, NEW s \in Slots
  PROVE  cells[s] \in Seq(Token) /\ Len(cells[s]) <= NCtxSeq /\ Len(cells[s]) \in Nat
<1>1. cells[s] \in BoundedSeq(Token, NCtxSeq)
  BY DEF TypeOK
<1> QED
  BY <1>1, BoundedIs, CtxIsNat, LenProperties

LEMMA RowTyped ==
  ASSUME TypeOK, NEW r \in DOMAIN req
  PROVE  /\ Drafts(r) \in Seq(Token) /\ Len(Drafts(r)) <= MaxDrafts
         /\ Len(Drafts(r)) \in Nat
<1>1. CASE r \in DOMAIN rows
  <2>1. rows[r] \in BoundedSeq(Token, MaxDrafts)
    BY <1>1 DEF TypeOK
  <2> QED
    BY <1>1, <2>1, BoundedIs, CtxIsNat, LenProperties DEF Drafts
<1>2. CASE r \notin DOMAIN rows
  BY <1>2, EmptySeq, CtxIsNat DEF Drafts
<1> QED
  BY <1>1, <1>2

LEMMA StreamTyped ==
  ASSUME TypeOK, StreamsMatchRequests, NEW r \in DOMAIN req
  PROVE  /\ r \in DOMAIN stream /\ stream[r].slot = req[r].slot
         /\ stream[r] \in [slot : Slots, pos : 0 .. NCtxSeq, row : 1 .. NBatch]
         /\ stream[r].pos \in Nat
<1>1. r \in DOMAIN stream /\ stream[r].slot = req[r].slot
  BY DEF StreamsMatchRequests
<1>2. stream[r] \in [slot : Slots, pos : 0 .. NCtxSeq, row : 1 .. NBatch]
  BY <1>1 DEF TypeOK
<1> QED
  BY <1>1, <1>2, CtxIsNat

\* Nothing of q has changed.
LEMMA PeerMirrored ==
  ASSUME NEW q, Mirrored(q), req'[q].slot = req[q].slot,
         req'[q].prompt = req[q].prompt, req'[q].out = req[q].out,
         stream'[q] = stream[q], cells'[req[q].slot] = cells[req[q].slot],
         since'[q] = since[q], Drafts(q)' = Drafts(q)
  PROVE  Mirrored(q)'
BY DEF Mirrored, Text

-----------------------------------------------------------------------------
(* Requests come and go. *)

LEMMA InitMInv == Init => MInv
<1> SUFFICES ASSUME Init PROVE MInv
  OBVIOUS
<1>1. << >> \in BoundedSeq(Token, NCtxSeq)
  BY EmptyIsBounded, CtxIsNat
<1>2. cells \in [Slots -> BoundedSeq(Token, NCtxSeq)]
  BY <1>1 DEF Init
<1>3. logits \in Seq(BoundedSeq(Token, NCtxSeq))
  BY EmptySeq DEF Init
<1>4. TypeOK
  BY <1>2, <1>3, NoRows, MirrorAssumption DEF Init, TypeOK, Ids
<1>5. StreamsMatchRequests
  BY NoRows DEF Init, StreamsMatchRequests
<1>6. OneSlotEach /\ StepFits /\ LiveMirrored
  BY NoRows DEF Init, OneSlotEach, StepFits, LiveMirrored
<1> QED
  BY <1>4, <1>5, <1>6 DEF MInv

\* Request r and its stream are gone, and so is its row.
LEMMA Gone ==
  ASSUME MInv, NEW r \in DOMAIN req, r \notin plan, req' = Minus(req, r), Release(r),
         DOMAIN rows' = DOMAIN rows \ {r},
         \A q \in DOMAIN rows' : rows'[q] = rows[q],
         rows' \in [DOMAIN rows' -> BoundedSeq(Token, MaxDrafts)],
         UNCHANGED <<nextId, logits, plan, ahead, unsynced, since>>
  PROVE  MInv'
<1>1. /\ DOMAIN req' = DOMAIN req \ {r} /\ \A q \in DOMAIN req' : req'[q] = req[q]
      /\ DOMAIN stream' = DOMAIN stream \ {r}
      /\ \A q \in DOMAIN stream' : stream'[q] = stream[q]
  <2>1. stream' = Minus(stream, r)
    BY DEF Release
  <2>2. DOMAIN req' = DOMAIN req \ {r} /\ \A q \in DOMAIN req \ {r} : req'[q] = req[q]
    BY MinusIs
  <2>3. /\ DOMAIN stream' = DOMAIN stream \ {r}
        /\ \A q \in DOMAIN stream \ {r} : stream'[q] = stream[q]
    BY <2>1, MinusIs
  <2> QED
    BY <2>2, <2>3
<1>2. stream[r].slot = req[r].slot /\ req[r].slot \in Slots
  BY StreamTyped, RequestTyped DEF MInv
<1>3. /\ cells'[req[r].slot] = << >>
      /\ \A s \in Slots \ {req[r].slot} : cells'[s] = cells[s]
  BY <1>2 DEF Release, MInv, TypeOK
<1>4. TypeOK'
  <2>1. req' \in [DOMAIN req' -> [slot : Slots, prompt : Prompts, out : Seq(Token),
                                  stage : {"prefill", "ready", "stranded"}]]
    BY MinusTyped DEF MInv, TypeOK
  <2>2. stream' \in [DOMAIN stream' -> [slot : Slots, pos : 0 .. NCtxSeq, row : 1 .. NBatch]]
    BY MinusTyped DEF MInv, TypeOK, Release
  <2>3. << >> \in BoundedSeq(Token, NCtxSeq)
    BY EmptyIsBounded, CtxIsNat
  <2>4. cells' \in [Slots -> BoundedSeq(Token, NCtxSeq)]
    BY <2>3 DEF MInv, TypeOK, Release
  <2> QED
    BY <1>1, <2>1, <2>2, <2>4 DEF MInv, TypeOK, Ids
<1>5. StreamsMatchRequests'
  BY <1>1, <1>2, <1>3 DEF MInv, StreamsMatchRequests
<1>6. OneSlotEach'
  BY <1>1 DEF MInv, OneSlotEach
<1>7. \A q \in DOMAIN req' : Drafts(q)' = Drafts(q) /\ Text(q)' = Text(q)
  BY <1>1 DEF Drafts, Text
<1>8. StepFits'
  BY <1>1, <1>7 DEF MInv, StepFits, InStage
<1>9. LiveMirrored'
  <2> SUFFICES ASSUME NEW q \in DOMAIN req', q \notin unsynced PROVE Mirrored(q)'
    BY DEF LiveMirrored
  <2>1. q \in DOMAIN req /\ q # r /\ Mirrored(q) /\ q \in DOMAIN stream'
    BY <1>1 DEF MInv, LiveMirrored, StreamsMatchRequests
  <2>2. req[q].slot \in Slots /\ req[q].slot # req[r].slot
    BY <2>1, RequestTyped DEF MInv, OneSlotEach
  <2> QED
    BY <1>1, <1>3, <1>7, <2>1, <2>2, PeerMirrored
<1> QED
  BY <1>4, <1>5, <1>6, <1>8, <1>9 DEF MInv

LEMMA CancelStep ==
  ASSUME MInv, NEW r \in DOMAIN req, Cancel(r)
  PROVE  MInv'
<1>1. r \notin plan /\ DOMAIN rows = {} /\ rows' = rows
  BY DEF Cancel, Idle
<1>2. rows' \in [DOMAIN rows' -> BoundedSeq(Token, MaxDrafts)]
  BY <1>1 DEF MInv, TypeOK
<1> QED
  BY <1>1, <1>2, Gone DEF Cancel

\* The first decode flags the last row of the prompt's last chunk.
LEMMA LastChunkTyped ==
  ASSUME NEW p \in Prompts
  PROVE  /\ LastChunk(p) \in Seq(BoundedSeq(Token, NCtxSeq))
         /\ Len(LastChunk(p)) \in 1 .. NBatch
<1>1. /\ p \in Seq(Token) /\ Len(p) \in Nat /\ Len(p) >= 1 /\ Len(p) <= NCtxSeq
  BY MirrorAssumption
<1>2. p \in BoundedSeq(Token, NCtxSeq) /\ << >> \in BoundedSeq(Token, NCtxSeq)
  BY <1>1, BoundedIs, EmptyIsBounded, CtxIsNat, Zenon
<1>3. PICK k \in Nat : k = Len(p) - 1
  BY <1>1
<1>4. k % NBatch \in 0 .. NBatch - 1
  BY <1>3, MirrorAssumption
<1>5. PICK n \in 1 .. NBatch : n = ((Len(p) - 1) % NBatch) + 1
  BY <1>3, <1>4, CtxIsNat
<1>6. LastChunk(p) = [i \in 1 .. n |-> IF i = n THEN p ELSE << >>] /\ n \in Nat
  BY <1>5 DEF LastChunk
<1>7. LastChunk(p) \in [1 .. n -> BoundedSeq(Token, NCtxSeq)]
  BY <1>2, <1>6
<1>8. LastChunk(p) \in Seq(BoundedSeq(Token, NCtxSeq))
  BY <1>6, <1>7
<1>9. Len(LastChunk(p)) = n
  BY <1>6, <1>7, <1>8, LenProperties
<1> QED
  BY <1>5, <1>8, <1>9

\* What a prepare that raises has decoded fits the slot.
LEMMA FirstChunkTyped ==
  ASSUME NEW p \in Prompts, NEW part \in FirstChunks(p)
  PROVE  part \in BoundedSeq(Token, NCtxSeq)
<1>1. p \in Seq(Token) /\ Len(p) \in Nat /\ Len(p) <= NCtxSeq
  BY MirrorAssumption
<1>2. PICK n \in 0 .. Len(p) - 1 : part = SubSeq(p, 1, n)
  BY DEF FirstChunks
<1>3. n \in 0 .. Len(p)
  BY <1>1, <1>2
<1>4. part \in Seq(Token) /\ Len(part) = n
  BY <1>1, <1>2, <1>3, BeginIs DEF Begin
<1>5. Len(part) <= NCtxSeq
  BY <1>1, <1>2, <1>4, CtxIsNat
<1> QED
  BY <1>4, <1>5, BoundedIs, CtxIsNat, Zenon

\* A number kept for every id is kept for the new one too.
LEMMA IdAdded ==
  ASSUME TypeOK, nextId < MaxRequests, nextId' = nextId + 1,
         NEW f \in [Ids -> 0 .. NCtxSeq], NEW x \in 0 .. NCtxSeq,
         NEW g, g = Plus(f, nextId, x)
  PROVE  /\ nextId \in Nat /\ nextId \notin Ids /\ nextId' \in 0 .. MaxRequests
         /\ Ids' = Ids \cup {nextId} /\ Ids \subseteq Ids'
         /\ g \in [Ids' -> 0 .. NCtxSeq] /\ g[nextId] = x
         /\ \A q \in Ids : g[q] = f[q]
<1>1. nextId \in Nat /\ MaxRequests \in Nat /\ nextId' \in 0 .. MaxRequests
  BY MirrorAssumption DEF TypeOK
<1>2. Ids' = Ids \cup {nextId} /\ Ids \subseteq Ids' /\ nextId \notin Ids
  BY <1>1 DEF Ids
<1>3. DOMAIN f = Ids /\ f \in [DOMAIN f -> 0 .. NCtxSeq] /\ nextId \notin DOMAIN f
  BY <1>2
<1>4. /\ DOMAIN g = DOMAIN f \cup {nextId} /\ g[nextId] = x
      /\ \A q \in DOMAIN f : g[q] = f[q]
  BY <1>3 DEF Plus
<1>5. g \in [DOMAIN g -> 0 .. NCtxSeq]
  BY <1>3, PlusFreshTyped
<1> QED
  BY <1>1, <1>2, <1>3, <1>4, <1>5

LEMMA AdmitFailsStep ==
  ASSUME MInv, NEW prompt \in Prompts, AdmitFails(prompt)
  PROVE  MInv'
<1>1. PICK s \in Slots \ {req[r].slot : r \in DOMAIN req}, part \in FirstChunks(prompt) :
        /\ cells' = [cells EXCEPT ![s] = part]
        /\ logits' = << >> \/ (part = << >> /\ UNCHANGED logits)
  BY DEF AdmitFails
<1>2. /\ nextId < MaxRequests /\ nextId' = nextId + 1
      /\ ahead' = Plus(ahead, nextId, 0) /\ since' = Plus(since, nextId, 0)
      /\ req' = req /\ stream' = stream /\ plan' = plan /\ rows' = rows
      /\ unsynced' = unsynced
  BY DEF AdmitFails
<1>3. /\ 0 \in 0 .. NCtxSeq /\ since \in [Ids -> 0 .. NCtxSeq]
      /\ ahead \in [Ids -> 0 .. NCtxSeq] /\ DOMAIN req \subseteq Ids /\ TypeOK
  BY CtxIsNat DEF MInv, TypeOK
<1>4. /\ nextId' \in 0 .. MaxRequests /\ Ids \subseteq Ids'
      /\ since' \in [Ids' -> 0 .. NCtxSeq] /\ ahead' \in [Ids' -> 0 .. NCtxSeq]
      /\ \A q \in Ids : since'[q] = since[q] /\ ahead'[q] = ahead[q]
  BY <1>2, <1>3, IdAdded
<1>5. /\ cells' \in [Slots -> BoundedSeq(Token, NCtxSeq)] /\ cells'[s] = part
      /\ \A u \in Slots \ {s} : cells'[u] = cells[u]
      /\ logits' \in Seq(BoundedSeq(Token, NCtxSeq))
  BY <1>1, FirstChunkTyped, EmptySeq DEF MInv, TypeOK
<1>6. TypeOK'
  BY <1>2, <1>3, <1>4, <1>5 DEF TypeOK
<1>7. StreamsMatchRequests'
  BY <1>1, <1>2, <1>5 DEF MInv, StreamsMatchRequests
<1>8. OneSlotEach'
  BY <1>2 DEF MInv, OneSlotEach
<1>9. \A q \in DOMAIN req : Drafts(q)' = Drafts(q) /\ Text(q)' = Text(q)
  BY <1>2 DEF Drafts, Text
<1>10. StepFits'
  BY <1>2, <1>3, <1>4, <1>9 DEF MInv, StepFits, InStage
<1>11. LiveMirrored'
  <2> SUFFICES ASSUME NEW q \in DOMAIN req, q \notin unsynced PROVE Mirrored(q)'
    BY <1>2 DEF LiveMirrored
  <2>1. Mirrored(q) /\ q \in Ids
    BY <1>3 DEF MInv, LiveMirrored
  <2>2. cells'[req[q].slot] = cells[req[q].slot]
    BY <1>1, <1>5, RequestTyped DEF MInv
  <2>3. Drafts(q)' = Drafts(q)
    BY <1>9
  <2> QED
    BY <1>2, <1>4, <2>1, <2>2, <2>3, PeerMirrored
<1> QED
  BY <1>6, <1>7, <1>8, <1>10, <1>11 DEF MInv

LEMMA AdmitStep ==
  ASSUME MInv, NEW prompt \in Prompts, Admit(prompt)
  PROVE  MInv'
<1>1. PICK s \in Slots \ {req[r].slot : r \in DOMAIN req} :
        /\ req' = Plus(req, nextId, [slot |-> s, prompt |-> prompt,
                                     out |-> << >>, stage |-> "prefill"])
        /\ stream' = Plus(stream, nextId, [slot |-> s, pos |-> Len(prompt),
                                           row |-> Len(LastChunk(prompt))])
        /\ cells' = [cells EXCEPT ![s] = prompt]
  BY DEF Admit
<1>2. /\ plan = {} /\ DOMAIN rows = {} /\ nextId < MaxRequests
      /\ logits' = LastChunk(prompt) /\ nextId' = nextId + 1
      /\ since' = Plus(since, nextId, Len(prompt)) /\ ahead' = Plus(ahead, nextId, 0)
      /\ plan' = plan /\ rows' = rows /\ unsynced' = unsynced
  BY DEF Admit, Idle
<1>3. /\ prompt \in Seq(Token) /\ Len(prompt) \in Nat /\ Len(prompt) >= 1
      /\ Len(prompt) <= NCtxSeq
  BY MirrorAssumption
<1>4. nextId \in Nat /\ nextId \notin DOMAIN req /\ MaxRequests \in Nat
  <2>1. nextId \in Nat /\ DOMAIN req \subseteq Ids /\ MaxRequests \in Nat
    BY MirrorAssumption DEF MInv, TypeOK
  <2> QED
    BY <2>1 DEF Ids
<1>5. /\ DOMAIN req' = DOMAIN req \cup {nextId}
      /\ req'[nextId] = [slot |-> s, prompt |-> prompt, out |-> << >>, stage |-> "prefill"]
      /\ \A q \in DOMAIN req : req'[q] = req[q]
  <2>1. PICK x : x = [slot |-> s, prompt |-> prompt, out |-> << >>, stage |-> "prefill"]
    OBVIOUS
  <2>2. req' = Plus(req, nextId, x)
    BY <1>1, <2>1
  <2>3. nextId \notin DOMAIN req
    BY <1>4
  <2>4. /\ DOMAIN Plus(req, nextId, x) = DOMAIN req \cup {nextId}
        /\ Plus(req, nextId, x)[nextId] = x
        /\ \A q \in DOMAIN req : Plus(req, nextId, x)[q] = req[q]
    BY <2>3 DEF Plus
  <2> QED
    BY <2>1, <2>2, <2>4
<1>6. /\ DOMAIN stream' = DOMAIN stream \cup {nextId}
      /\ stream'[nextId] = [slot |-> s, pos |-> Len(prompt), row |-> Len(LastChunk(prompt))]
      /\ \A q \in DOMAIN req : stream'[q] = stream[q]
  <2>1. DOMAIN stream = DOMAIN req
    BY DEF MInv, StreamsMatchRequests
  <2>2. PICK x : x = [slot |-> s, pos |-> Len(prompt), row |-> Len(LastChunk(prompt))]
    OBVIOUS
  <2>3. stream' = Plus(stream, nextId, x) /\ nextId \notin DOMAIN stream
    BY <1>1, <1>4, <2>1, <2>2
  <2>4. /\ DOMAIN stream' = DOMAIN stream \cup {nextId} /\ stream'[nextId] = x
        /\ \A q \in DOMAIN stream : stream'[q] = stream[q]
    BY <2>3 DEF Plus
  <2> QED
    BY <2>1, <2>2, <2>4
<1>7. /\ nextId' \in 0 .. MaxRequests /\ Ids' = Ids \cup {nextId} /\ Ids \subseteq Ids'
      /\ since' \in [Ids' -> 0 .. NCtxSeq] /\ since'[nextId] = Len(prompt)
      /\ ahead' \in [Ids' -> 0 .. NCtxSeq] /\ ahead'[nextId] = 0
      /\ \A q \in DOMAIN req : since'[q] = since[q] /\ ahead'[q] = ahead[q]
  <2>1. /\ since \in [Ids -> 0 .. NCtxSeq] /\ ahead \in [Ids -> 0 .. NCtxSeq]
        /\ DOMAIN req \subseteq Ids /\ TypeOK
    BY DEF MInv, TypeOK
  <2>2. Len(prompt) \in 0 .. NCtxSeq /\ 0 \in 0 .. NCtxSeq
    BY <1>3, CtxIsNat
  <2> QED
    BY <1>2, <2>1, <2>2, IdAdded
<1>8. cells'[s] = prompt /\ \A t \in Slots \ {s} : cells'[t] = cells[t]
  BY <1>1 DEF MInv, TypeOK
<1>9. \A q \in DOMAIN req : req[q].slot \in Slots \ {s}
  BY RequestTyped DEF MInv
<1>10. TypeOK'
  <2>1. req' \in [DOMAIN req' -> [slot : Slots, prompt : Prompts, out : Seq(Token),
                                  stage : {"prefill", "ready", "stranded"}]]
    <3>1. << >> \in Seq(Token)
      BY EmptySeq
    <3>2. req'[nextId] \in [slot : Slots, prompt : Prompts, out : Seq(Token),
                            stage : {"prefill", "ready", "stranded"}]
      BY <1>5, <3>1
    <3> QED
      BY <1>1, <1>5, <3>2, PlusTyped DEF MInv, TypeOK
  <2>2. stream' \in [DOMAIN stream' -> [slot : Slots, pos : 0 .. NCtxSeq, row : 1 .. NBatch]]
    <3>1. stream'[nextId] \in [slot : Slots, pos : 0 .. NCtxSeq, row : 1 .. NBatch]
      BY <1>3, <1>6, LastChunkTyped, CtxIsNat
    <3> QED
      BY <1>1, <1>6, <3>1, PlusTyped DEF MInv, TypeOK
  <2>3. prompt \in BoundedSeq(Token, NCtxSeq)
    BY <1>3, BoundedIs, CtxIsNat, Zenon
  <2>4. cells' \in [Slots -> BoundedSeq(Token, NCtxSeq)]
    BY <1>1, <2>3 DEF MInv, TypeOK
  <2>8. logits' \in Seq(BoundedSeq(Token, NCtxSeq))
    BY <1>2, LastChunkTyped
  <2> QED
    BY <1>2, <1>5, <1>7, <2>1, <2>2, <2>4, <2>8 DEF MInv, TypeOK
<1>11. StreamsMatchRequests'
  <2>1. DOMAIN stream' = DOMAIN req'
    BY <1>5, <1>6 DEF MInv, StreamsMatchRequests
  <2>2. \A q \in DOMAIN req' : stream'[q].slot = req'[q].slot
    BY <1>5, <1>6 DEF MInv, StreamsMatchRequests
  <2>3. ASSUME NEW t \in Slots
        PROVE  \/ \E q \in DOMAIN req' : req'[q].slot = t
               \/ cells'[t] = << >>
               \/ \E p \in Prompts : cells'[t] \in FirstChunks(p)
    BY <1>5, <1>8, <2>3 DEF MInv, StreamsMatchRequests
  <2> QED
    BY <2>1, <2>2, <2>3 DEF StreamsMatchRequests
<1>12. OneSlotEach'
  BY <1>5, <1>9 DEF MInv, OneSlotEach
<1>13. /\ \A q : Drafts(q)' = << >> /\ Drafts(q) = << >>
       /\ \A q \in DOMAIN req : Text(q)' = Text(q)
       /\ \A q : q = nextId => Text(q)' = prompt \o << >>
  <2>1. \A q : Drafts(q)' = << >> /\ Drafts(q) = << >>
    BY <1>2 DEF Drafts
  <2>2. \A q \in DOMAIN req : Text(q)' = Text(q)
    BY <1>5 DEF Text
  <2>3. ASSUME NEW q, q = nextId PROVE Text(q)' = prompt \o << >>
    <3>1. req'[q].prompt = prompt /\ req'[q].out = << >>
      BY <1>5, <2>3
    <3> QED
      BY <3>1, Zenon DEF Text
  <2> QED
    BY <2>1, <2>2, <2>3
<1>14. StepFits'
  <2>1. Len(<< >>) = 0 /\ prompt \o << >> = prompt
    BY <1>3, EmptySeq, ConcatEmptySeq
  <2>2. ASSUME NEW q \in DOMAIN req', ahead'[q] = 0
        PROVE  Len(Text(q)') + Len(Drafts(q)') <= NCtxSeq
    <3>1. Drafts(q)' = << >> /\ Drafts(q) = << >>
      BY <1>13
    <3>2. CASE q = nextId
      <4>1. Text(q)' = prompt
        BY <1>13, <2>1, <3>2, Zenon
      <4> QED
        BY <1>3, <2>1, <3>1, <4>1
    <3>3. CASE q \in DOMAIN req
      <4>1. Text(q)' = Text(q) /\ Len(Text(q)) + Len(Drafts(q)) <= NCtxSeq
        BY <1>7, <1>13, <2>2, <3>3 DEF MInv, StepFits
      <4> QED
        BY <3>1, <4>1
    <3> QED
      BY <1>5, <3>2, <3>3
  <2>3. \A q \in DOMAIN req' \ unsynced' : ahead'[q] = 0
    BY <1>2, <1>5, <1>7 DEF MInv, StepFits
  <2>4. plan' \subseteq InStage("ready")' /\ plan' \cap DOMAIN rows' = {}
    BY <1>2
  <2> QED
    BY <2>2, <2>3, <2>4 DEF StepFits
<1>15. LiveMirrored'
  <2> SUFFICES ASSUME NEW q \in DOMAIN req', q \notin unsynced PROVE Mirrored(q)'
    BY <1>2 DEF LiveMirrored
  <2>1. CASE q = nextId
    <3>1. Mirror(Len(prompt), prompt, << >>, prompt, prompt \o << >>, since'[nextId])
      BY <1>3, MirrorPrepared
    <3>2. /\ stream'[q].pos = Len(prompt) /\ req'[q].slot = s /\ req'[q].prompt = prompt
          /\ cells'[s] = prompt
      BY <1>5, <1>6, <1>8, <2>1
    <3>3. Drafts(q)' = << >> /\ Text(q)' = prompt \o << >>
      BY <1>13, <2>1
    <3> QED
      BY <2>1, <3>1, <3>2, <3>3, Zenon DEF Mirrored
  <2>2. CASE q \in DOMAIN req
    <3>1. Mirrored(q)
      BY <2>2 DEF MInv, LiveMirrored
    <3>2. req'[q] = req[q] /\ stream'[q] = stream[q] /\ since'[q] = since[q]
      BY <1>5, <1>6, <1>7, <2>2
    <3>3. cells'[req[q].slot] = cells[req[q].slot]
      BY <1>8, <1>9, <2>2
    <3>4. Drafts(q)' = Drafts(q)
      BY <1>13
    <3> QED
      BY <3>1, <3>2, <3>3, <3>4, PeerMirrored
  <2> QED
    BY <1>5, <2>1, <2>2
<1> QED
  BY <1>10, <1>11, <1>12, <1>14, <1>15 DEF MInv

-----------------------------------------------------------------------------
(* Planning. *)

LEMMA BeginStepStep ==
  ASSUME MInv, BeginStep
  PROVE  MInv'
<1>1. PICK chosen \in SUBSET InStage("ready"), done \in SUBSET InStage("prefill") :
        plan' = chosen /\ rows' = [r \in done |-> << >>]
  BY DEF BeginStep
<1>2. /\ DOMAIN rows = {} /\ nextId' = nextId /\ req' = req /\ stream' = stream
      /\ cells' = cells /\ logits' = logits /\ unsynced' = unsynced /\ since' = since
      /\ ahead' = ahead
  BY DEF BeginStep, Idle
<1>3. /\ \A q \in DOMAIN req : Drafts(q) = << >> /\ Drafts(q)' = << >> /\ Text(q)' = Text(q)
      /\ \A stage : InStage(stage)' = InStage(stage)
  BY <1>1, <1>2 DEF Drafts, Text, InStage
<1>4. DOMAIN rows' = done /\ plan' = chosen /\ done \subseteq DOMAIN req
      /\ chosen \subseteq DOMAIN req
  BY <1>1 DEF InStage
<1>5. TypeOK'
  <2>1. << >> \in BoundedSeq(Token, MaxDrafts)
    BY EmptyIsBounded, CtxIsNat
  <2>2. rows' \in [DOMAIN rows' -> BoundedSeq(Token, MaxDrafts)]
    BY <1>1, <2>1
  <2> QED
    BY <1>2, <1>4, <2>2 DEF MInv, TypeOK, Ids
<1>6. StreamsMatchRequests' /\ OneSlotEach'
  BY <1>2 DEF MInv, StreamsMatchRequests, OneSlotEach
<1>7. StepFits'
  <2>1. chosen \subseteq InStage("ready")'
    BY <1>3
  <2>2. chosen \cap done = {}
    BY DEF InStage
  <2> QED
    BY <1>2, <1>3, <1>4, <2>1, <2>2 DEF MInv, StepFits
<1>8. LiveMirrored'
  BY <1>2, <1>3 DEF MInv, LiveMirrored, Mirrored
<1> QED
  BY <1>5, <1>6, <1>7, <1>8 DEF MInv

\* A row goes on into the step with drafts d, which the draft has or has not seen.
LEMMA RowPlanned ==
  ASSUME MInv, NEW r \in plan, NEW d \in Seq(Token), Len(d) <= MaxDrafts,
         ahead[r] = 0 => Len(Text(r)) + Len(d) <= NCtxSeq,
         plan' = plan \ {r}, rows' = Plus(rows, r, d),
         UNCHANGED <<nextId, req, since, ahead, unsynced>>
  PROVE  /\ StepFits' /\ OneSlotEach'
         /\ rows' \in [DOMAIN rows' -> BoundedSeq(Token, MaxDrafts)]
         /\ DOMAIN rows' \subseteq DOMAIN req'
         /\ Drafts(r) = << >> /\ Drafts(r)' = d
         /\ \A q \in DOMAIN req \ {r} : Drafts(q)' = Drafts(q)
<1>1. r \in DOMAIN req /\ r \notin DOMAIN rows
  BY DEF MInv, StepFits, InStage
<1>2. /\ DOMAIN rows' = DOMAIN rows \cup {r} /\ rows'[r] = d
      /\ \A q \in DOMAIN rows : rows'[q] = rows[q]
  BY <1>1 DEF Plus
<1>3. rows' \in [DOMAIN rows' -> BoundedSeq(Token, MaxDrafts)]
  <2>1. d \in BoundedSeq(Token, MaxDrafts)
    BY BoundedIs, CtxIsNat, Zenon
  <2>2. rows \in [DOMAIN rows -> BoundedSeq(Token, MaxDrafts)]
    BY DEF MInv, TypeOK
  <2> QED
    BY <2>1, <2>2, PlusFreshTyped
<1>4. /\ Drafts(r) = << >> /\ Drafts(r)' = d
      /\ \A q \in DOMAIN req \ {r} : Drafts(q)' = Drafts(q)
  BY <1>1, <1>2 DEF Drafts
<1>5. \A q \in DOMAIN req : Text(q)' = Text(q)
  BY DEF Text
<1>6. StepFits'
  <2>1. \A q \in DOMAIN req' : ahead'[q] = 0 => Len(Text(q)') + Len(Drafts(q)') <= NCtxSeq
    BY <1>4, <1>5 DEF MInv, StepFits
  <2>2. plan' \subseteq InStage("ready")' /\ plan' \cap DOMAIN rows' = {}
    BY <1>2 DEF MInv, StepFits, InStage
  <2>3. \A q \in DOMAIN req' \ unsynced' : ahead'[q] = 0
    BY DEF MInv, StepFits
  <2> QED
    BY <2>1, <2>2, <2>3 DEF StepFits
<1>7. OneSlotEach'
  BY DEF MInv, OneSlotEach
<1>8. DOMAIN rows' \subseteq DOMAIN req'
  BY <1>1, <1>2 DEF MInv, TypeOK
<1> QED
  BY <1>3, <1>4, <1>6, <1>7, <1>8

LEMMA PlanPlainStep ==
  ASSUME MInv, NEW r \in plan, PlanPlain(r), UNCHANGED <<nextId, req, ahead, since>>
  PROVE  MInv'
<1>1. << >> \in Seq(Token) /\ Len(<< >>) = 0 /\ r \in DOMAIN req
  BY EmptySeq DEF MInv, StepFits, InStage
<1>2. Drafts(r) = << >> /\ (ahead[r] = 0 => Len(Text(r)) + Len(Drafts(r)) <= NCtxSeq)
  BY <1>1 DEF MInv, StepFits, Drafts
<1>3. Len(<< >>) <= MaxDrafts /\ (ahead[r] = 0 => Len(Text(r)) + Len(<< >>) <= NCtxSeq)
  BY <1>1, <1>2, CtxIsNat
<1>4. /\ plan' = plan \ {r} /\ rows' = Plus(rows, r, << >>) /\ unsynced' = unsynced
      /\ nextId' = nextId /\ req' = req /\ since' = since /\ ahead' = ahead
      /\ stream' = stream /\ cells' = cells /\ logits' = logits
  BY DEF PlanPlain
<1>5. /\ StepFits' /\ OneSlotEach'
      /\ rows' \in [DOMAIN rows' -> BoundedSeq(Token, MaxDrafts)]
      /\ DOMAIN rows' \subseteq DOMAIN req'
      /\ Drafts(r) = << >> /\ Drafts(r)' = << >>
      /\ \A q \in DOMAIN req \ {r} : Drafts(q)' = Drafts(q)
  BY <1>1, <1>3, <1>4, RowPlanned
<1>6. TypeOK'
  BY <1>4, <1>5 DEF MInv, TypeOK, Ids
<1>7. StreamsMatchRequests'
  BY <1>4 DEF MInv, StreamsMatchRequests
<1>8. LiveMirrored'
  <2> SUFFICES ASSUME NEW q \in DOMAIN req, q \notin unsynced PROVE Mirrored(q)'
    BY <1>4 DEF LiveMirrored
  <2>1. Mirrored(q) /\ Drafts(q)' = Drafts(q)
    BY <1>5 DEF MInv, LiveMirrored
  <2> QED
    BY <1>4, <2>1, PeerMirrored
<1> QED
  BY <1>5, <1>6, <1>7, <1>8 DEF MInv

LEMMA ProposeDraftsStep ==
  ASSUME MInv, NEW r \in plan, NEW d \in Seq(Token), Len(d) <= MaxDrafts,
         Len(Text(r)) + Len(d) <= NCtxSeq,
         ProposeDrafts(r, d), UNCHANGED <<nextId, req, ahead, since>>
  PROVE  MInv'
<1> DEFINE s == req[r].slot
<1>1. /\ r \in DOMAIN req /\ s \in Slots /\ stream[r].slot = s /\ r \in DOMAIN stream
      /\ stream[r].pos \in Nat
  BY RequestTyped, StreamTyped DEF MInv, StepFits, InStage
<1>2. cells[s] \in Seq(Token) /\ Len(cells[s]) \in Nat /\ Len(d) \in Nat
  BY <1>1, CellsTyped, LenProperties DEF MInv
<1>3. PICK new : new = cells[s] \o d
  OBVIOUS
<1>4. new \in Seq(Token) /\ Len(new) = Len(cells[s]) + Len(d)
  BY <1>2, <1>3, ConcatProperties
<1>5. /\ stream[r].pos = Len(cells[s]) /\ stream[r].pos + Len(d) <= NCtxSeq
      /\ cells' = [cells EXCEPT ![s] = new]
      /\ stream' = [stream EXCEPT ![r].pos = @ + Len(d), ![r].row = 1]
      /\ logits' = <<new>>
      /\ plan' = plan \ {r} /\ rows' = Plus(rows, r, d) /\ unsynced' = unsynced
      /\ nextId' = nextId /\ req' = req /\ since' = since /\ ahead' = ahead
  <2>1. [cells EXCEPT ![s] = @ \o d] = [cells EXCEPT ![s] = new]
    BY <1>3
  <2> QED
    BY <1>1, <1>3, <2>1 DEF ProposeDrafts
<1>6. /\ StepFits' /\ OneSlotEach'
      /\ rows' \in [DOMAIN rows' -> BoundedSeq(Token, MaxDrafts)]
      /\ DOMAIN rows' \subseteq DOMAIN req'
      /\ Drafts(r) = << >> /\ Drafts(r)' = d
      /\ \A q \in DOMAIN req \ {r} : Drafts(q)' = Drafts(q)
  BY <1>5, RowPlanned
<1>7. new \in BoundedSeq(Token, NCtxSeq)
  <2>1. Len(new) <= NCtxSeq
    BY <1>4, <1>5
  <2> QED
    BY <1>4, <2>1, BoundedIs, CtxIsNat, Zenon
<1>8. cells' \in [Slots -> BoundedSeq(Token, NCtxSeq)] /\ cells'[s] = new
      /\ \A t \in Slots \ {s} : cells'[t] = cells[t]
  BY <1>1, <1>5, <1>7 DEF MInv, TypeOK
<1>9. /\ DOMAIN stream' = DOMAIN stream
      /\ stream'[r].slot = s /\ stream'[r].pos = stream[r].pos + Len(d)
      /\ stream'[r] \in [slot : Slots, pos : 0 .. NCtxSeq, row : 1 .. NBatch]
      /\ \A q \in DOMAIN stream \ {r} : stream'[q] = stream[q]
  <2>1. stream[r] \in [slot : Slots, pos : 0 .. NCtxSeq, row : 1 .. NBatch]
    BY <1>1, StreamTyped DEF MInv
  <2>2. stream[r].pos + Len(d) \in 0 .. NCtxSeq
    BY <1>1, <1>2, <1>5, CtxIsNat
  <2>3. stream' = [stream EXCEPT ![r] = [stream[r] EXCEPT !.pos = stream[r].pos + Len(d), !.row = 1]]
    BY <1>1, <1>5
  <2> QED
    BY <1>1, <2>1, <2>2, <2>3, CtxIsNat
<1>10. TypeOK'
  <2>1. stream' \in [DOMAIN stream' -> [slot : Slots, pos : 0 .. NCtxSeq, row : 1 .. NBatch]]
    BY <1>5, <1>9 DEF MInv, TypeOK
  <2>2. logits' \in Seq(BoundedSeq(Token, NCtxSeq))
    BY <1>5, <1>7
  <2> QED
    BY <1>5, <1>6, <1>8, <2>1, <2>2 DEF MInv, TypeOK, Ids
<1>11. StreamsMatchRequests'
  BY <1>1, <1>5, <1>8, <1>9 DEF MInv, StreamsMatchRequests
<1>12. LiveMirrored'
  <2> SUFFICES ASSUME NEW q \in DOMAIN req, q \notin unsynced PROVE Mirrored(q)'
    BY <1>5 DEF LiveMirrored
  <2>1. Mirrored(q) /\ q \in DOMAIN stream
    BY DEF MInv, LiveMirrored, StreamsMatchRequests
  <2>2. Text(q)' = Text(q) /\ req'[q] = req[q] /\ since'[q] = since[q]
    BY <1>5 DEF Text
  <2>3. CASE q = r
    <3>1. PICK own, p, t, pos, from :
            /\ own = cells[s] /\ p = req[r].prompt /\ t = Text(r)
            /\ pos = stream[r].pos /\ from = since[r]
      OBVIOUS
    <3>2. p \in Seq(Token) /\ t \in Seq(Token) /\ own \in Seq(Token)
      BY <1>1, <1>2, <3>1, RequestTyped, TextTyped DEF MInv
    <3>3. Mirror(pos, own, << >>, p, t, from)
      BY <1>6, <2>1, <2>3, <3>1, Zenon DEF Mirrored
    <3>4. Mirror(pos + Len(d), own \o d, d, p, t, from)
      BY <3>2, <3>3, MirrorProposed
    <3>5. /\ stream'[q].pos = pos + Len(d) /\ cells'[req'[q].slot] = own \o d
          /\ Drafts(q)' = d /\ req'[q].prompt = p /\ Text(q)' = t /\ since'[q] = from
      BY <1>3, <1>5, <1>6, <1>8, <1>9, <2>2, <2>3, <3>1
    <3> QED
      BY <3>4, <3>5, Zenon DEF Mirrored
  <2>4. CASE q # r
    <3>1. req[q].slot \in Slots \ {s}
      BY <1>1, <2>4, RequestTyped DEF MInv, OneSlotEach
    <3> QED
      BY <1>6, <1>8, <1>9, <2>1, <2>2, <2>4, <3>1, PeerMirrored
  <2> QED
    BY <2>3, <2>4
<1> QED
  BY <1>6, <1>10, <1>11, <1>12 DEF MInv

\* Nothing of the step is left; the slot of r alone may have changed.
LEMMA Aborted ==
  ASSUME MInv, NEW r \in DOMAIN req, NEW proposed \in SUBSET {r}, PlanAborted(proposed),
         UNCHANGED <<nextId, req, ahead, since, stream>>,
         cells' \in [Slots -> BoundedSeq(Token, NCtxSeq)],
         \A s \in Slots : s # req[r].slot => cells'[s] = cells[s],
         r \in proposed \/ cells' = cells,
         logits' \in Seq(BoundedSeq(Token, NCtxSeq))
  PROVE  MInv'
<1>1. r \in DOMAIN req /\ req[r].slot \in Slots
  BY RequestTyped DEF MInv, StepFits, InStage
<1>2. /\ plan' = {} /\ rows' = << >>
      /\ unsynced' = unsynced \cup proposed \cup {q \in DOMAIN rows : rows[q] # << >>}
      /\ nextId' = nextId /\ req' = req /\ since' = since /\ stream' = stream
      /\ ahead' = ahead
  BY DEF PlanAborted
<1>3. \A q : Drafts(q)' = << >>
  BY <1>2, NoRows DEF Drafts
<1>4. \A q \in DOMAIN req : Text(q)' = Text(q)
  BY <1>2 DEF Text
<1>5. TypeOK'
  <2>1. unsynced' \subseteq Ids
    BY <1>1, <1>2 DEF MInv, TypeOK
  <2>2. /\ rows' \in [DOMAIN rows' -> BoundedSeq(Token, MaxDrafts)]
        /\ DOMAIN rows' \subseteq DOMAIN req'
    BY <1>2, NoRows
  <2> QED
    BY <1>2, <2>1, <2>2 DEF MInv, TypeOK, Ids
<1>6. StreamsMatchRequests'
  BY <1>1, <1>2 DEF MInv, StreamsMatchRequests
<1>7. OneSlotEach'
  BY <1>2 DEF MInv, OneSlotEach
<1>8. StepFits'
  <2>1. ASSUME NEW q \in DOMAIN req, ahead[q] = 0
        PROVE  Len(Text(q)') + Len(Drafts(q)') <= NCtxSeq
    <3>1. Len(<< >>) = 0 /\ Len(Text(q)) \in Nat /\ Len(Drafts(q)) \in Nat
      BY EmptySeq, TextTyped, RowTyped DEF MInv
    <3>2. Len(Text(q)) + Len(Drafts(q)) <= NCtxSeq
      BY <2>1 DEF MInv, StepFits
    <3> QED
      BY <1>3, <1>4, <3>1, <3>2, CtxIsNat
  <2>2. \A q \in DOMAIN req' \ unsynced' : ahead'[q] = 0
    BY <1>2 DEF MInv, StepFits
  <2> QED
    BY <1>2, <2>1, <2>2, NoRows DEF StepFits
<1>9. LiveMirrored'
  <2> SUFFICES ASSUME NEW q \in DOMAIN req, q \notin unsynced' PROVE Mirrored(q)'
    BY <1>2 DEF LiveMirrored
  <2>1. Mirrored(q) /\ q \notin proposed
    BY <1>2 DEF MInv, LiveMirrored
  <2>2. Drafts(q) = << >>
    BY <1>2 DEF Drafts
  <2>3. cells'[req[q].slot] = cells[req[q].slot]
    BY <1>1, <2>1, RequestTyped DEF MInv, OneSlotEach
  <2> QED
    BY <1>2, <1>3, <2>1, <2>2, <2>3, PeerMirrored
<1> QED
  BY <1>5, <1>6, <1>7, <1>8, <1>9 DEF MInv

LEMMA ProposeRefusedStep ==
  ASSUME MInv, NEW r \in plan, NEW d \in Seq(Token),
         ProposeRefused(r, d), UNCHANGED <<nextId, req, ahead, since>>
  PROVE  MInv'
<1> DEFINE s == req[r].slot
<1>1. /\ r \in DOMAIN req /\ s \in Slots /\ stream[r].slot = s /\ stream[r].pos \in Nat
  BY RequestTyped, StreamTyped DEF MInv, StepFits, InStage
<1>2. /\ cells[s] \in Seq(Token) /\ Len(cells[s]) \in Nat /\ Len(d) \in Nat
      /\ Len(cells[s]) <= NCtxSeq
  BY <1>1, CellsTyped, LenProperties DEF MInv
<1>3. PICK new : new = cells[s] \o d
  OBVIOUS
<1>4. new \in Seq(Token) /\ Len(new) = Len(cells[s]) + Len(d)
  BY <1>2, <1>3, ConcatProperties
<1>5. /\ IF stream[r].pos = Len(cells[s]) THEN stream[r].pos + Len(d) = NCtxSeq
                                          ELSE d = << >>
      /\ cells' = [cells EXCEPT ![s] = new]
      /\ logits' = << >> /\ stream' = stream /\ PlanAborted({r})
  <2>1. [cells EXCEPT ![s] = @ \o d] = [cells EXCEPT ![s] = new]
    BY <1>3
  <2> QED
    BY <1>1, <1>3, <2>1 DEF ProposeRefused
<1>6. new \in BoundedSeq(Token, NCtxSeq)
  <2>1. CASE stream[r].pos = Len(cells[s])
    <3>1. Len(new) <= NCtxSeq
      BY <1>1, <1>4, <1>5, <2>1, CtxIsNat
    <3> QED
      BY <1>4, <3>1, BoundedIs, CtxIsNat, Zenon
  <2>2. CASE stream[r].pos # Len(cells[s])
    <3>1. Len(d) = 0
      BY <1>5, <2>2, EmptySeq
    <3>2. Len(new) <= NCtxSeq
      BY <1>2, <1>4, <3>1, CtxIsNat
    <3> QED
      BY <1>4, <3>2, BoundedIs, CtxIsNat, Zenon
  <2> QED
    BY <2>1, <2>2
<1>7. /\ cells' \in [Slots -> BoundedSeq(Token, NCtxSeq)]
      /\ \A t \in Slots : t # s => cells'[t] = cells[t]
  BY <1>1, <1>5, <1>6 DEF MInv, TypeOK
<1>8. logits' \in Seq(BoundedSeq(Token, NCtxSeq))
  BY <1>5, EmptySeq
<1> QED
  BY <1>1, <1>5, <1>7, <1>8, Aborted

LEMMA ProposeUnsampledStep ==
  ASSUME MInv, NEW r \in plan, ProposeUnsampled(r), UNCHANGED <<nextId, req, ahead, since>>
  PROVE  MInv'
<1>1. /\ stream' = stream /\ cells' = cells /\ logits' = logits /\ PlanAborted({})
  BY DEF ProposeUnsampled
<1>2. /\ cells' \in [Slots -> BoundedSeq(Token, NCtxSeq)]
      /\ logits' \in Seq(BoundedSeq(Token, NCtxSeq))
      /\ {} \in SUBSET {r} /\ r \in DOMAIN req
  BY <1>1 DEF MInv, TypeOK
<1> QED
  BY <1>1, <1>2, Aborted

LEMMA ProposeStep ==
  ASSUME MInv, Propose
  PROVE  MInv'
<1>1. plan \subseteq DOMAIN req /\ plan # {} /\ plan \subseteq Nat
  BY RequestTyped DEF MInv, StepFits, InStage, Propose
<1>2. Min(plan) \in plan
  BY <1>1, SmallestOf
<1>3. PICK r \in plan : r = Min(plan)
  BY <1>2
<1>4. PICK allow : allow = Least(MaxDrafts, NCtxSeq - NPos(r) - 1)
  OBVIOUS
<1>5. /\ \/ PlanPlain(r)
         \/ /\ allow > 0
            /\ \/ \E n \in 1 .. allow : \E d \in [1 .. n -> Token] : ProposeDrafts(r, d)
               \/ ProposeUnsampled(r)
               \/ \E d \in BoundedSeq(Token, allow - 1) : ProposeRefused(r, d)
      /\ UNCHANGED <<nextId, req, ahead, since>>
  BY <1>3, <1>4 DEF Propose
<1>6. allow \in Int /\ allow <= MaxDrafts /\ Len(Text(r)) \in Nat /\ Len(Text(r)) + allow <= NCtxSeq
  <2>1. r \in DOMAIN req
    BY <1>1
  <2>2. /\ Len(Text(r)) \in Nat /\ NPos(r) = Len(Text(r)) - 1 + ahead[r]
        /\ ahead[r] \in 0 .. NCtxSeq
    BY <2>1, TextTyped DEF MInv
  <2> QED
    BY <1>4, <2>2, CtxIsNat DEF Least
<1>7. ASSUME NEW n \in 1 .. allow, NEW d \in [1 .. n -> Token], ProposeDrafts(r, d)
      PROVE  MInv'
  <2>1. n \in Nat /\ n <= allow
    BY <1>6
  <2>2. d \in Seq(Token)
    BY <2>1
  <2>3. Len(d) = n
    BY <2>1, <2>2, LenProperties
  <2>4. Len(d) <= MaxDrafts /\ Len(Text(r)) + Len(d) <= NCtxSeq
    BY <1>6, <2>1, <2>3, CtxIsNat
  <2> QED
    BY <1>5, <1>7, <2>2, <2>4, ProposeDraftsStep
<1>8. ASSUME NEW d \in BoundedSeq(Token, allow - 1), allow > 0, ProposeRefused(r, d)
      PROVE  MInv'
  <2>1. allow - 1 \in Nat
    BY <1>6, <1>8
  <2>2. d \in Seq(Token)
    BY <2>1, BoundedIs, Zenon
  <2> QED
    BY <1>5, <1>8, <2>2, ProposeRefusedStep
<1> QED
  BY <1>5, <1>7, <1>8, PlanPlainStep, ProposeUnsampledStep

LEMMA TargetRefusesStep ==
  ASSUME MInv, TargetRefuses
  PROVE  MInv'
<1>1. PICK r \in DOMAIN rows : ~ RowsFit(r)
  BY DEF TargetRefuses
<1>2. /\ r \in DOMAIN req /\ {} \in SUBSET {r} /\ PlanAborted({}) /\ cells' = cells
      /\ cells' \in [Slots -> BoundedSeq(Token, NCtxSeq)]
      /\ logits' \in Seq(BoundedSeq(Token, NCtxSeq))
      /\ UNCHANGED <<nextId, req, ahead, since, stream>>
  BY DEF TargetRefuses, MInv, TypeOK
<1> QED
  BY <1>2, Aborted

-----------------------------------------------------------------------------
(* Verification. *)

LEMMA NextRowIs ==
  ASSUME MInv, DOMAIN rows # {}
  PROVE  NextRow \in DOMAIN rows /\ NextRow \in DOMAIN req
<1>1. DOMAIN rows \subseteq DOMAIN req /\ DOMAIN rows \subseteq Nat
  BY RequestTyped DEF MInv, TypeOK
<1>2. CASE DOMAIN rows \cap InStage("prefill") # {}
  <2>1. Min(DOMAIN rows \cap InStage("prefill")) \in DOMAIN rows \cap InStage("prefill")
    BY <1>1, <1>2, SmallestOf
  <2> QED
    BY <1>1, <1>2, <2>1 DEF NextRow
<1>3. CASE DOMAIN rows \cap InStage("prefill") = {}
  <2>1. Min(DOMAIN rows) \in DOMAIN rows
    BY <1>1, SmallestOf
  <2> QED
    BY <1>1, <1>3, <2>1 DEF NextRow
<1> QED
  BY <1>2, <1>3

\* What is accepted is some of the drafts and the target's token after them.
LEMMA AcceptedTokensAre ==
  ASSUME MInv, NEW r \in DOMAIN rows, ahead[r] = 0
  PROVE  \E m \in 0 .. Len(rows[r]) : \E x \in Token :
           AcceptedTokens(r) = Append(Begin(rows[r], m), x)
<1>1. r \in DOMAIN req /\ Drafts(r) = rows[r]
  BY DEF MInv, TypeOK, Drafts
<1>2. PICK d : d = rows[r]
  OBVIOUS
<1>3. d \in Seq(Token) /\ Len(d) \in Nat /\ Len(Text(r)) + Len(d) <= NCtxSeq
  BY <1>1, <1>2, RowTyped DEF MInv, StepFits
<1>4. PICK t : t = Text(r)
  OBVIOUS
<1>5. t \in Seq(Token) /\ Len(t) \in Nat /\ Len(t) >= 1
  BY <1>1, <1>4, TextTyped DEF MInv
<1> DEFINE after(i) == Target[t \o SubSeq(d, 1, i)]
           S == {n \in 0 .. Len(d) : \A i \in 1 .. n : d[i] = after(i - 1)}
<1>6. AcceptedTokens(r) = Append(SubSeq(d, 1, Max(S)), after(Max(S)))
  BY <1>2, <1>4 DEF AcceptedTokens
<1>7. ASSUME NEW i \in 0 .. Len(d) PROVE after(i) \in Token
  <2>1. Begin(d, i) \in Seq(Token) /\ Len(Begin(d, i)) = i
    BY <1>3, BeginIs
  <2>2. PICK c : c = t \o Begin(d, i)
    OBVIOUS
  <2>3. c \in Seq(Token) /\ Len(c) = Len(t) + i
    <3>1. \A a, b \in Seq(Token) : a \o b \in Seq(Token) /\ Len(a \o b) = Len(a) + Len(b)
      BY ConcatProperties
    <3> QED
      BY <1>5, <2>1, <2>2, <3>1, Zenon
  <2>4. Len(c) \in 1 .. NCtxSeq /\ c \in [1 .. Len(c) -> Token]
    <3>1. Len(c) \in 1 .. NCtxSeq
      BY <1>3, <1>4, <1>5, <2>3, CtxIsNat
    <3> QED
      BY <2>3, <3>1, LenProperties
  <2>5. c \in Contexts
    BY <2>4 DEF Contexts
  <2>6. Target[c] \in Token
    BY <2>5, MirrorAssumption
  <2> QED
    BY <2>2, <2>6 DEF Begin
<1> HIDE DEF after
<1>8. 0 \in S
  BY <1>3
<1>9. Max(S) \in S
  <2>1. S \subseteq 0 .. Len(d)
    OBVIOUS
  <2> HIDE DEF S
  <2> QED
    BY <1>3, <1>8, <2>1, LargestOf
<1>10. PICK m \in 0 .. Len(d) : m = Max(S)
  BY <1>9
<1> HIDE DEF S
<1>11. after(m) \in Token
  BY <1>7
<1> QED
  BY <1>2, <1>6, <1>10, <1>11, Zenon DEF Begin

LEMMA AcceptedIs ==
  ASSUME MInv, NEW r \in DOMAIN rows, NEW a \in Accepted(r)
  PROVE  /\ \E m \in 0 .. Len(rows[r]) : \E x \in Token : a = Append(Begin(rows[r], m), x)
         /\ r \in DOMAIN req /\ rows[r] \in Seq(Token) /\ Len(rows[r]) \in Nat
<1>1. r \in DOMAIN req /\ rows[r] \in Seq(Token) /\ Len(rows[r]) \in Nat
  <2>1. r \in DOMAIN req
    BY DEF MInv, TypeOK
  <2> QED
    BY <2>1, RowTyped DEF MInv, Drafts
<1>2. CASE ahead[r] = 0
  <2>1. a = AcceptedTokens(r)
    BY <1>2 DEF Accepted
  <2> QED
    BY <1>1, <1>2, <2>1, AcceptedTokensAre
<1>3. CASE ahead[r] # 0
  <2>1. a \in {Append(SubSeq(rows[r], 1, m), t) : m \in 0 .. Len(rows[r]), t \in Token}
    BY <1>3 DEF Accepted
  <2> QED
    BY <1>1, <2>1 DEF Begin
<1> QED
  BY <1>2, <1>3

LEMMA TextGrows ==
  ASSUME TypeOK, NEW r \in DOMAIN req, NEW a \in Seq(Token),
         req'[r].prompt = req[r].prompt, req'[r].out = req[r].out \o a
  PROVE  Text(r)' = Text(r) \o a /\ Len(Text(r) \o a) = Len(Text(r)) + Len(a)
<1>1. req[r].prompt \in Seq(Token) /\ req[r].out \in Seq(Token) /\ Text(r) \in Seq(Token)
  BY RequestTyped, TextTyped
<1>2. \A x, y, z \in Seq(Token) : (x \o y) \o z = x \o (y \o z) /\ Len(x \o y) = Len(x) + Len(y)
  BY ConcatAssociative, ConcatProperties
<1>3. Text(r)' = req[r].prompt \o (req[r].out \o a)
  BY Zenon DEF Text
<1>4. Text(r) \o a = (req[r].prompt \o req[r].out) \o a
  BY Zenon DEF Text
<1> QED
  BY <1>1, <1>2, <1>3, <1>4, Zenon

\* Row r has been verified and its request goes on with the tokens a.  The rows
\* behind it stay in the step, or are given up with it.
LEMMA Continues ==
  ASSUME MInv, plan = {}, NEW r \in DOMAIN rows, NEW a \in Seq(Token),
         req' \in [DOMAIN req -> [slot : Slots, prompt : Prompts, out : Seq(Token),
                                  stage : {"prefill", "ready", "stranded"}]],
         req'[r].slot = req[r].slot, req'[r].prompt = req[r].prompt,
         req'[r].out = req[r].out \o a,
         ahead[r] = 0 => Len(Text(r)) + Len(a) <= NCtxSeq,
         \A q \in DOMAIN req \ {r} :
           /\ req'[q].slot = req[q].slot /\ req'[q].prompt = req[q].prompt
           /\ req'[q].out = req[q].out,
         \/ rows' = Minus(rows, r)
         \/ rows' = << >> /\ DOMAIN rows \subseteq unsynced',
         ahead' \in [Ids -> 0 .. NCtxSeq], ahead'[r] = ahead[r],
         \A q \in DOMAIN req \ {r} :
           ahead'[q] = ahead[q] \/ (q \in unsynced' /\ ahead'[q] > 0),
         unsynced \subseteq unsynced', unsynced' \subseteq Ids,
         cells' \in [Slots -> BoundedSeq(Token, NCtxSeq)],
         \A s \in Slots : s # req[r].slot => cells'[s] = cells[s],
         stream' \in [DOMAIN stream -> [slot : Slots, pos : 0 .. NCtxSeq, row : 1 .. NBatch]],
         stream'[r].slot = stream[r].slot,
         \A q \in DOMAIN stream \ {r} : stream'[q] = stream[q],
         logits' \in Seq(BoundedSeq(Token, NCtxSeq)),
         since' \in [Ids -> 0 .. NCtxSeq], \A q \in DOMAIN req \ {r} : since'[q] = since[q],
         UNCHANGED <<nextId, plan>>,
         r \notin unsynced' =>
           Mirror(stream'[r].pos, cells'[req[r].slot], << >>, req[r].prompt,
                  Text(r) \o a, since'[r])
  PROVE  MInv'
<1>1. r \in DOMAIN req /\ req[r].slot \in Slots /\ DOMAIN stream = DOMAIN req
  BY RequestTyped DEF MInv, TypeOK, StreamsMatchRequests
<1>2. DOMAIN req' = DOMAIN req /\ DOMAIN stream' = DOMAIN stream
  OBVIOUS
<1>3. /\ DOMAIN rows' \subseteq DOMAIN rows \ {r}
      /\ \A q \in DOMAIN rows' : rows'[q] = rows[q]
      /\ rows' \in [DOMAIN rows' -> BoundedSeq(Token, MaxDrafts)]
  <2>1. rows \in [DOMAIN rows -> BoundedSeq(Token, MaxDrafts)]
    BY DEF MInv, TypeOK
  <2>2. CASE rows' = Minus(rows, r)
    BY <2>1, <2>2 DEF Minus, Restrict
  <2>3. CASE rows' = << >>
    BY <2>3, NoRows
  <2> QED
    BY <2>2, <2>3
<1>4. Drafts(r)' = << >>
  BY <1>3 DEF Drafts
<1>5. ASSUME NEW q \in DOMAIN req \ {r}
      PROVE  /\ Text(q)' = Text(q)
             /\ Drafts(q)' = << >> \/ Drafts(q)' = Drafts(q)
             /\ q \notin unsynced' => Drafts(q)' = Drafts(q)
  <2>1. Text(q)' = Text(q)
    BY DEF Text
  <2>2. CASE rows' = Minus(rows, r)
    BY <2>1, <2>2 DEF Drafts, Minus, Restrict
  <2>3. CASE rows' = << >> /\ DOMAIN rows \subseteq unsynced'
    BY <2>1, <2>3, NoRows DEF Drafts
  <2> QED
    BY <2>2, <2>3
<1>6. TypeOK'
  <2>1. DOMAIN rows' \subseteq DOMAIN req'
    BY <1>2, <1>3 DEF MInv, TypeOK
  <2>2. plan' \subseteq DOMAIN req'
    OBVIOUS
  <2>3. Ids' = Ids
    BY DEF Ids
  <2> QED
    BY <1>2, <1>3, <2>1, <2>2, <2>3 DEF MInv, TypeOK
<1>7. StreamsMatchRequests'
  <2>1. \A q \in DOMAIN req : stream[q].slot = req[q].slot
    BY DEF MInv, StreamsMatchRequests
  <2>2. \A q \in DOMAIN req' : stream'[q].slot = req'[q].slot
    BY <1>1, <1>2, <2>1
  <2>3. ASSUME NEW s \in Slots
        PROVE  \/ \E q \in DOMAIN req' : req'[q].slot = s
               \/ cells'[s] = << >>
               \/ \E p \in Prompts : cells'[s] \in FirstChunks(p)
    <3>1. CASE s = req[r].slot
      BY <1>1, <1>2, <3>1
    <3>2. CASE s # req[r].slot
      <4>1. cells'[s] = cells[s] /\ \A q \in DOMAIN req : req'[q].slot = req[q].slot
        BY <3>2
      <4>2. \/ \E q \in DOMAIN req : req[q].slot = s
            \/ cells[s] = << >>
            \/ \E p \in Prompts : cells[s] \in FirstChunks(p)
        BY DEF MInv, StreamsMatchRequests
      <4>3. CASE \E q \in DOMAIN req : req[q].slot = s
        BY <1>2, <4>1, <4>3
      <4>4. CASE cells[s] = << >> \/ \E p \in Prompts : cells[s] \in FirstChunks(p)
        BY <4>1, <4>4, Zenon
      <4> QED
        BY <4>2, <4>3, <4>4
    <3> QED
      BY <3>1, <3>2
  <2> QED
    BY <1>1, <1>2, <2>2, <2>3 DEF StreamsMatchRequests
<1>8. OneSlotEach'
  <2>1. \A q \in DOMAIN req : req'[q].slot = req[q].slot
    OBVIOUS
  <2> QED
    BY <1>2, <2>1 DEF MInv, OneSlotEach
<1>9. StepFits'
  <2>1. ASSUME NEW q \in DOMAIN req, ahead'[q] = 0
        PROVE  Len(Text(q)') + Len(Drafts(q)') <= NCtxSeq
    <3>0. ahead[q] = 0
      <4>1. CASE q = r
        BY <2>1, <4>1
      <4>2. CASE q # r
        <5>1. ahead'[q] = ahead[q] \/ ahead'[q] > 0
          BY <4>2
        <5>2. ~ (0 > 0)
          OBVIOUS
        <5> QED
          BY <2>1, <5>1, <5>2, Zenon
      <4> QED
        BY <4>1, <4>2
    <3>1. /\ Len(<< >>) = 0 /\ Len(Text(q)) \in Nat /\ Len(Drafts(q)) \in Nat
          /\ Len(a) \in Nat /\ Len(Text(r)) \in Nat
          /\ Len(Text(q)) + Len(Drafts(q)) <= NCtxSeq
      BY <1>1, <3>0, EmptySeq, LenProperties, TextTyped, RowTyped DEF MInv, StepFits
    <3>2. CASE q = r
      <4>1. Len(Text(r)') = Len(Text(r)) + Len(a)
        BY <1>1, TextGrows DEF MInv
      <4> QED
        BY <1>4, <3>0, <3>1, <3>2, <4>1, CtxIsNat
    <3>3. CASE q # r
      <4>1. Text(q)' = Text(q) /\ (Drafts(q)' = << >> \/ Drafts(q)' = Drafts(q))
        BY <1>5, <3>3
      <4>2. Len(Drafts(q)') = 0 \/ Len(Drafts(q)') = Len(Drafts(q))
        BY <3>1, <4>1, Zenon
      <4> QED
        BY <3>1, <4>1, <4>2, CtxIsNat
    <3> QED
      BY <3>2, <3>3
  <2>2. \A q \in DOMAIN req \ unsynced' : ahead'[q] = 0
    BY DEF MInv, StepFits
  <2> QED
    BY <1>2, <2>1, <2>2 DEF StepFits
<1>10. LiveMirrored'
  <2> SUFFICES ASSUME NEW q \in DOMAIN req, q \notin unsynced' PROVE Mirrored(q)'
    BY <1>2 DEF LiveMirrored
  <2>1. CASE q = r
    <3>1. Text(r)' = Text(r) \o a
      BY <1>1, TextGrows DEF MInv
    <3> QED
      BY <1>4, <2>1, <3>1, Zenon DEF Mirrored
  <2>2. CASE q # r
    <3>1. Mirrored(q)
      BY DEF MInv, LiveMirrored
    <3>2. cells'[req[q].slot] = cells[req[q].slot]
      BY <1>1, <2>2, RequestTyped DEF MInv, OneSlotEach
    <3>3. stream'[q] = stream[q] /\ since'[q] = since[q] /\ Drafts(q)' = Drafts(q)
      BY <1>1, <1>5, <2>2
    <3>4. /\ req'[q].slot = req[q].slot /\ req'[q].prompt = req[q].prompt
          /\ req'[q].out = req[q].out
      BY <2>2
    <3> QED
      BY <3>1, <3>2, <3>3, <3>4, PeerMirrored
  <2> QED
    BY <2>1, <2>2
<1> QED
  BY <1>6, <1>7, <1>8, <1>9, <1>10 DEF MInv

LEMMA AdvancePlainStep ==
  ASSUME MInv, plan = {}, NEW r \in DOMAIN rows, NEW a \in Accepted(r), AdvancePlain(r, a),
         UNCHANGED <<nextId, plan>>
  PROVE  MInv'
<1>2. /\ rows[r] = << >> /\ rows' = Minus(rows, r) /\ r \in DOMAIN req /\ r \notin plan
      /\ logits' = logits /\ ahead' = ahead /\ unsynced' = unsynced /\ since' = since
  BY DEF AdvancePlain, MInv, TypeOK
<1>3. a \in Seq(Token) /\ Len(a) = 1
  <2>1. PICK m \in 0 .. Len(rows[r]), x \in Token : a = Append(Begin(rows[r], m), x)
    BY AcceptedIs
  <2>2. rows[r] \in Seq(Token) /\ m = 0
    BY <1>2, AcceptedIs, EmptySeq
  <2>3. Begin(rows[r], m) \in Seq(Token) /\ Len(Begin(rows[r], m)) = 0
    BY <2>2, BeginIs
  <2> QED
    BY <2>1, <2>3, AppendProperties
<1>4. PICK out : out = req[r].out \o a
  OBVIOUS
<1>5. CASE /\ NPos(r) + 1 < NCtxSeq
           /\ req' = Going(r, out) /\ stream' = stream /\ cells' = cells
  <2>1. out \in Seq(Token)
    BY <1>2, <1>3, <1>4, RequestTyped, ConcatProperties DEF MInv
  <2>2. req[r] \in [slot : Slots, prompt : Prompts, out : Seq(Token),
                    stage : {"prefill", "ready", "stranded"}]
    BY <1>2, RequestTyped DEF MInv
  <2>3. req' = [req EXCEPT ![r] = [req[r] EXCEPT !.out = out, !.stage = "ready"]]
    BY <1>5 DEF Going
  <2>4. PICK new : new = [req[r] EXCEPT !.out = out, !.stage = "ready"]
    OBVIOUS
  <2>5. /\ new \in [slot : Slots, prompt : Prompts, out : Seq(Token),
                    stage : {"prefill", "ready", "stranded"}]
        /\ new.slot = req[r].slot /\ new.prompt = req[r].prompt /\ new.out = out
    BY <2>1, <2>2, <2>4
  <2>6. /\ req' \in [DOMAIN req -> [slot : Slots, prompt : Prompts, out : Seq(Token),
                                    stage : {"prefill", "ready", "stranded"}]]
        /\ req'[r] = new /\ \A q \in DOMAIN req \ {r} : req'[q] = req[q]
    BY <1>2, <2>3, <2>4, <2>5 DEF MInv, TypeOK
  <2>7. ahead[r] = 0 => Len(Text(r)) + Len(a) <= NCtxSeq
    <3>1. Len(Text(r)) \in Nat /\ NPos(r) = Len(Text(r)) - 1 + ahead[r]
      BY <1>2, TextTyped DEF MInv
    <3> QED
      BY <1>3, <1>5, <3>1, CtxIsNat
  <2>8. r \notin unsynced' =>
           Mirror(stream'[r].pos, cells'[req[r].slot], << >>, req[r].prompt,
                  Text(r) \o a, since'[r])
    <3>1. HAVE r \notin unsynced'
    <3>2. Drafts(r) = << >> /\ Mirrored(r)
      BY <1>2, <3>1 DEF MInv, LiveMirrored, Drafts
    <3>3. /\ cells[req[r].slot] \in Seq(Token) /\ req[r].prompt \in Seq(Token)
          /\ Text(r) \in Seq(Token)
      BY <1>2, CellsTyped, RequestTyped, TextTyped DEF MInv
    <3>4. Mirror(stream[r].pos, cells[req[r].slot], << >>, req[r].prompt, Text(r), since[r])
      BY <3>2, Zenon DEF Mirrored
    <3>5. Mirror(stream[r].pos, cells[req[r].slot], << >>, req[r].prompt, Text(r) \o a, since[r])
      BY <1>3, <3>3, <3>4, MirrorBypassed
    <3> QED
      BY <1>2, <1>5, <3>5
  <2>9. /\ cells' \in [Slots -> BoundedSeq(Token, NCtxSeq)]
        /\ logits' \in Seq(BoundedSeq(Token, NCtxSeq))
        /\ since' \in [Ids -> 0 .. NCtxSeq] /\ unsynced' \subseteq Ids
        /\ stream' \in [DOMAIN stream -> [slot : Slots, pos : 0 .. NCtxSeq, row : 1 .. NBatch]]
    BY <1>2, <1>5 DEF MInv, TypeOK
  <2>10. /\ req'[r].slot = req[r].slot /\ req'[r].prompt = req[r].prompt
         /\ req'[r].out = req[r].out \o a
         /\ \A q \in DOMAIN req \ {r} :
              /\ req'[q].slot = req[q].slot /\ req'[q].prompt = req[q].prompt
              /\ req'[q].out = req[q].out
    BY <1>4, <2>5, <2>6
  <2>11. /\ \A s \in Slots : s # req[r].slot => cells'[s] = cells[s]
         /\ stream'[r].slot = stream[r].slot
         /\ \A q \in DOMAIN stream \ {r} : stream'[q] = stream[q]
         /\ \A q \in DOMAIN req \ {r} : since'[q] = since[q]
         /\ unsynced \subseteq unsynced'
         /\ ahead' \in [Ids -> 0 .. NCtxSeq] /\ ahead'[r] = ahead[r]
         /\ \A q \in DOMAIN req \ {r} : ahead'[q] = ahead[q]
    BY <1>2, <1>5 DEF MInv, TypeOK
  <2> QED
    BY <1>2, <1>3, <2>6, <2>7, <2>8, <2>9, <2>10, <2>11, Continues
<1>6. CASE req' = Minus(req, r) /\ Release(r)
  <2>1. rows' \in [DOMAIN rows' -> BoundedSeq(Token, MaxDrafts)]
    BY <1>2, MinusTyped DEF MInv, TypeOK
  <2>2. DOMAIN rows' = DOMAIN rows \ {r} /\ \A q \in DOMAIN rows' : rows'[q] = rows[q]
    BY <1>2, MinusIs
  <2> QED
    BY <1>2, <1>6, <2>1, <2>2, Gone
<1> QED
  BY <1>4, <1>5, <1>6 DEF AdvancePlain

LEMMA VerifyEndsStep ==
  ASSUME MInv, plan = {}, NEW r \in DOMAIN rows, VerifyEnds(r), UNCHANGED <<nextId, plan>>
  PROVE  MInv'
<1>1. /\ rows' = Minus(rows, r) /\ r \in DOMAIN req /\ r \notin plan
      /\ req' = Minus(req, r) /\ Release(r)
      /\ logits' = logits /\ ahead' = ahead /\ unsynced' = unsynced /\ since' = since
  BY DEF VerifyEnds, MInv, TypeOK
<1>2. rows' \in [DOMAIN rows' -> BoundedSeq(Token, MaxDrafts)]
  BY <1>1, MinusTyped DEF MInv, TypeOK
<1>3. DOMAIN rows' = DOMAIN rows \ {r} /\ \A q \in DOMAIN rows' : rows'[q] = rows[q]
  BY <1>1, MinusIs
<1> QED
  BY <1>1, <1>2, <1>3, Gone

\* The rows that are skipped lie ahead of the texts of their requests.
LEMMA SkippedAhead ==
  ASSUME MInv, NEW skipped \in SUBSET DOMAIN rows, Skips(skipped),
         \A q \in DOMAIN rows : RowsFit(q)
  PROVE  /\ ahead' \in [Ids -> 0 .. NCtxSeq] /\ rows' = << >>
         /\ \A q \in Ids \ skipped : ahead'[q] = ahead[q]
         /\ \A q \in DOMAIN req : ahead'[q] = ahead[q] \/ (q \in unsynced' /\ ahead'[q] > 0)
         /\ unsynced' = unsynced \cup DOMAIN rows /\ unsynced' \subseteq Ids
<1>1. /\ rows' = << >> /\ unsynced' = unsynced \cup DOMAIN rows
      /\ DOMAIN ahead = Ids /\ ahead \in [Ids -> 0 .. NCtxSeq]
      /\ DOMAIN rows \subseteq DOMAIN req /\ DOMAIN req \subseteq Ids /\ unsynced \subseteq Ids
  BY DEF Skips, MInv, TypeOK
<1>2. ahead' = [q \in Ids |->
                  IF q \in skipped \cap InStage("ready") THEN ahead[q] + 1 + Len(rows[q])
                  ELSE ahead[q]]
  BY <1>1 DEF Skips
<1>3. ASSUME NEW q \in skipped
      PROVE  ahead[q] + 1 + Len(rows[q]) \in 1 .. NCtxSeq
  <2>1. q \in DOMAIN rows /\ q \in DOMAIN req /\ Drafts(q) = rows[q]
    BY <1>1 DEF Drafts
  <2>2. /\ Len(rows[q]) \in Nat /\ Len(Text(q)) \in Nat /\ Len(Text(q)) >= 1
        /\ NPos(q) = Len(Text(q)) - 1 + ahead[q] /\ ahead[q] \in 0 .. NCtxSeq
    BY <2>1, TextTyped, RowTyped DEF MInv
  <2>3. NPos(q) + Len(rows[q]) < NCtxSeq
    BY <2>1 DEF RowsFit
  <2> QED
    BY <2>2, <2>3, CtxIsNat
<1>4. ahead' \in [Ids -> 0 .. NCtxSeq]
  BY <1>1, <1>2, <1>3
<1>5. \A q \in Ids : ahead'[q] = ahead[q] \/ (q \in skipped /\ ahead'[q] > 0)
  BY <1>2, <1>3
<1>6. \A q \in Ids \ skipped : ahead'[q] = ahead[q]
  BY <1>5
<1> QED
  BY <1>1, <1>4, <1>5, <1>6

LEMMA RowRaisesStep ==
  ASSUME MInv, plan = {}, NEW r \in DOMAIN rows, RowRaises(r),
         \A q \in DOMAIN rows : RowsFit(q), UNCHANGED <<nextId, plan>>
  PROVE  MInv'
<1> DEFINE others == DOMAIN rows \ {r}
<1>1. /\ Skips(others) /\ req' = Minus(Stranded(others), r) /\ Release(r)
      /\ logits' = logits /\ since' = since /\ r \in DOMAIN req
  BY DEF RowRaises, MInv, TypeOK
<1>2. /\ ahead' \in [Ids -> 0 .. NCtxSeq] /\ rows' = << >>
      /\ \A q \in DOMAIN req : ahead'[q] = ahead[q] \/ (q \in unsynced' /\ ahead'[q] > 0)
      /\ unsynced' = unsynced \cup DOMAIN rows /\ unsynced' \subseteq Ids
  BY <1>1, SkippedAhead
<1>3. PICK marked : marked = Stranded(others)
  OBVIOUS
<1>4. /\ DOMAIN marked = DOMAIN req
      /\ \A q \in DOMAIN req :
           /\ marked[q] \in [slot : Slots, prompt : Prompts, out : Seq(Token),
                             stage : {"prefill", "ready", "stranded"}]
           /\ marked[q].slot = req[q].slot /\ marked[q].prompt = req[q].prompt
           /\ marked[q].out = req[q].out
  <2>1. DOMAIN marked = DOMAIN req
    BY <1>3 DEF Stranded
  <2>2. ASSUME NEW q \in DOMAIN req
        PROVE  /\ marked[q] \in [slot : Slots, prompt : Prompts, out : Seq(Token),
                                 stage : {"prefill", "ready", "stranded"}]
               /\ marked[q].slot = req[q].slot /\ marked[q].prompt = req[q].prompt
               /\ marked[q].out = req[q].out
    <3>1. req[q] \in [slot : Slots, prompt : Prompts, out : Seq(Token),
                      stage : {"prefill", "ready", "stranded"}]
      BY RequestTyped DEF MInv
    <3>2. marked[q] = req[q] \/ marked[q] = [req[q] EXCEPT !.stage = "stranded"]
      BY <1>3 DEF Stranded
    <3> QED
      BY <3>1, <3>2
  <2> QED
    BY <2>1, <2>2
<1>5. marked \in [DOMAIN marked -> [slot : Slots, prompt : Prompts, out : Seq(Token),
                                    stage : {"prefill", "ready", "stranded"}]]
  <2>1. marked = [q \in DOMAIN req |-> marked[q]]
    BY <1>3 DEF Stranded
  <2> QED
    BY <1>4, <2>1
<1>6. /\ DOMAIN req' = DOMAIN req \ {r}
      /\ \A q \in DOMAIN req' : req'[q] = marked[q]
      /\ req' \in [DOMAIN req' -> [slot : Slots, prompt : Prompts, out : Seq(Token),
                                   stage : {"prefill", "ready", "stranded"}]]
  <2>1. req' = Minus(marked, r)
    BY <1>1, <1>3
  <2>2. DOMAIN Minus(marked, r) = DOMAIN marked \ {r}
        /\ \A q \in DOMAIN marked \ {r} : Minus(marked, r)[q] = marked[q]
    BY MinusIs
  <2>3. Minus(marked, r) \in [DOMAIN Minus(marked, r) ->
                               [slot : Slots, prompt : Prompts, out : Seq(Token),
                                stage : {"prefill", "ready", "stranded"}]]
    BY <1>5, MinusTyped
  <2> QED
    BY <1>4, <2>1, <2>2, <2>3
<1>7. /\ DOMAIN stream' = DOMAIN stream \ {r}
      /\ \A q \in DOMAIN stream' : stream'[q] = stream[q]
      /\ stream' \in [DOMAIN stream' -> [slot : Slots, pos : 0 .. NCtxSeq, row : 1 .. NBatch]]
  <2>1. stream' = Minus(stream, r)
    BY <1>1 DEF Release
  <2>2. DOMAIN stream' = DOMAIN stream \ {r} /\ \A q \in DOMAIN stream \ {r} : stream'[q] = stream[q]
    BY <2>1, MinusIs
  <2>3. stream' \in [DOMAIN stream' -> [slot : Slots, pos : 0 .. NCtxSeq, row : 1 .. NBatch]]
    BY <2>1, MinusTyped DEF MInv, TypeOK
  <2> QED
    BY <2>2, <2>3
<1>8. stream[r].slot = req[r].slot /\ req[r].slot \in Slots
  BY <1>1, StreamTyped, RequestTyped DEF MInv
<1>9. /\ cells' \in [Slots -> BoundedSeq(Token, NCtxSeq)] /\ cells'[req[r].slot] = << >>
      /\ \A s \in Slots \ {req[r].slot} : cells'[s] = cells[s]
  <2>1. << >> \in BoundedSeq(Token, NCtxSeq)
    BY EmptyIsBounded, CtxIsNat
  <2> QED
    BY <1>1, <1>8, <2>1 DEF Release, MInv, TypeOK
<1>10. TypeOK'
  <2>1. Ids' = Ids
    BY DEF Ids
  <2> QED
    BY <1>1, <1>2, <1>6, <1>7, <1>9, <2>1, NoRows DEF MInv, TypeOK
<1>11. StreamsMatchRequests'
  <2>1. /\ DOMAIN stream' = DOMAIN req'
        /\ \A q \in DOMAIN req' : stream'[q].slot = req'[q].slot
    BY <1>4, <1>6, <1>7 DEF MInv, StreamsMatchRequests
  <2>2. ASSUME NEW s \in Slots
        PROVE  \/ \E q \in DOMAIN req' : req'[q].slot = s
               \/ cells'[s] = << >>
               \/ \E p \in Prompts : cells'[s] \in FirstChunks(p)
    <3>1. CASE s = req[r].slot
      BY <1>9, <3>1
    <3>2. CASE s # req[r].slot
      <4>1. cells'[s] = cells[s]
        BY <1>9, <3>2
      <4>2. \/ \E q \in DOMAIN req : req[q].slot = s
            \/ cells[s] = << >>
            \/ \E p \in Prompts : cells[s] \in FirstChunks(p)
        BY DEF MInv, StreamsMatchRequests
      <4>3. CASE \E q \in DOMAIN req : req[q].slot = s
        BY <1>4, <1>6, <3>2, <4>3
      <4>4. CASE cells[s] = << >> \/ \E p \in Prompts : cells[s] \in FirstChunks(p)
        BY <4>1, <4>4, Zenon
      <4> QED
        BY <4>2, <4>3, <4>4
    <3> QED
      BY <3>1, <3>2
  <2> QED
    BY <2>1, <2>2 DEF StreamsMatchRequests
<1>12. OneSlotEach'
  BY <1>4, <1>6 DEF MInv, OneSlotEach
<1>13. \A q \in DOMAIN req' : Drafts(q)' = << >> /\ Text(q)' = Text(q)
  BY <1>2, <1>4, <1>6, NoRows DEF Drafts, Text
<1>14. StepFits'
  <2>1. ASSUME NEW q \in DOMAIN req', ahead'[q] = 0
        PROVE  Len(Text(q)') + Len(Drafts(q)') <= NCtxSeq
    <3>1. q \in DOMAIN req /\ ahead[q] = 0
      BY <1>2, <1>6, <2>1
    <3>2. Len(<< >>) = 0 /\ Len(Text(q)) \in Nat /\ Len(Drafts(q)) \in Nat
      BY <3>1, EmptySeq, TextTyped, RowTyped DEF MInv
    <3>3. Len(Text(q)) + Len(Drafts(q)) <= NCtxSeq
      BY <3>1 DEF MInv, StepFits
    <3> QED
      BY <1>13, <3>2, <3>3, CtxIsNat
  <2>2. \A q \in DOMAIN req' \ unsynced' : ahead'[q] = 0
    BY <1>2, <1>6 DEF MInv, StepFits
  <2> QED
    BY <1>2, <2>1, <2>2, NoRows DEF StepFits
<1>15. LiveMirrored'
  <2> SUFFICES ASSUME NEW q \in DOMAIN req', q \notin unsynced' PROVE Mirrored(q)'
    BY DEF LiveMirrored
  <2>1. /\ q \in DOMAIN req /\ q # r /\ q \notin DOMAIN rows /\ q \notin unsynced
        /\ q \in DOMAIN stream'
    BY <1>2, <1>6, <1>7 DEF MInv, StreamsMatchRequests
  <2>2. Mirrored(q) /\ Drafts(q) = << >>
    BY <2>1 DEF MInv, LiveMirrored, Drafts
  <2>3. req[q].slot \in Slots /\ req[q].slot # req[r].slot
    BY <1>1, <2>1, RequestTyped DEF MInv, OneSlotEach
  <2>4. /\ req'[q].slot = req[q].slot /\ req'[q].prompt = req[q].prompt
        /\ req'[q].out = req[q].out
    BY <1>4, <1>6, <2>1
  <2> QED
    BY <1>1, <1>7, <1>9, <1>13, <2>1, <2>2, <2>3, <2>4, PeerMirrored
<1> QED
  BY <1>10, <1>11, <1>12, <1>14, <1>15 DEF MInv

\* VerifySyncs, with or without the decode of sync.
LEMMA VerifySyncsStep ==
  ASSUME MInv, plan = {}, NEW r \in DOMAIN rows, NEW a \in Accepted(r), VerifySyncs(r, a),
         \A q \in DOMAIN rows : RowsFit(q), UNCHANGED <<nextId, plan>>
  PROVE  MInv'
<1> DEFINE s == req[r].slot
<1>1. PICK d : d = rows[r]
  OBVIOUS
<1>2. PICK m \in 0 .. Len(d), x \in Token : a = Append(Begin(d, m), x)
  BY <1>1, AcceptedIs
<1>4. PICK at : at = NPos(r) + Len(a)
  OBVIOUS
<1>5. PICK out : out = req[r].out \o a
  OBVIOUS
<1>6. /\ r \in DOMAIN req /\ s \in Slots /\ Drafts(r) = d /\ d \in Seq(Token)
      /\ stream[r].slot = s /\ r \in DOMAIN stream /\ DOMAIN stream = DOMAIN req
      /\ cells[s] \in Seq(Token) /\ Len(cells[s]) \in Nat /\ Len(cells[s]) <= NCtxSeq
      /\ Len(d) \in Nat /\ m \in Nat
  <2>1. r \in DOMAIN req
    BY DEF MInv, TypeOK
  <2>2. Drafts(r) = d /\ d \in Seq(Token) /\ Len(d) \in Nat
    BY <1>1, <2>1, RowTyped DEF MInv, Drafts
  <2>3. s \in Slots /\ stream[r].slot = s /\ r \in DOMAIN stream
    BY <2>1, RequestTyped, StreamTyped DEF MInv
  <2>4. cells[s] \in Seq(Token) /\ Len(cells[s]) \in Nat /\ Len(cells[s]) <= NCtxSeq
    BY <2>3, CellsTyped DEF MInv
  <2> QED
    BY <2>1, <2>2, <2>3, <2>4 DEF MInv, StreamsMatchRequests
<1>7. a \in Seq(Token) /\ Len(a) = m + 1 /\ Last(a) = x
  <2>1. Begin(d, m) \in Seq(Token) /\ Len(Begin(d, m)) = m
    BY <1>6, BeginIs
  <2>2. PICK b : b = Begin(d, m)
    OBVIOUS
  <2>3. a \in Seq(Token) /\ Len(a) = Len(b) + 1 /\ a[Len(b) + 1] = x
    BY <1>2, <2>1, <2>2, AppendProperties
  <2> QED
    BY <2>1, <2>2, <2>3 DEF Last
<1>8. PICK t : t = Text(r)
  OBVIOUS
<1>9. /\ t \in Seq(Token) /\ Len(t) \in Nat /\ at \in Nat
      /\ ahead[r] \in 0 .. NCtxSeq /\ NPos(r) = Len(t) - 1 + ahead[r]
      /\ at = Len(t) + ahead[r] + m
  <2>1. /\ t \in Seq(Token) /\ Len(t) \in Nat /\ Len(t) >= 1
        /\ NPos(r) = Len(t) - 1 + ahead[r] /\ ahead[r] \in 0 .. NCtxSeq
    BY <1>6, <1>8, TextTyped DEF MInv
  <2> QED
    BY <1>4, <1>6, <1>7, <2>1, CtxIsNat
<1>10. /\ at + 1 < NCtxSeq
       /\ req' = Going(r, out)
       /\ \/ /\ Synced(r, at, Last(a))
             /\ rows' = Minus(rows, r)
             /\ since' = [since EXCEPT ![r] = IF Behind(r) THEN at ELSE @]
             /\ UNCHANGED <<ahead, unsynced>>
          \/ /\ SyncRefused(r, at)
             /\ Skips(DOMAIN rows \ {r})
             /\ UNCHANGED since
  BY <1>4, <1>5 DEF VerifySyncs
<1>11. out \in Seq(Token)
  BY <1>5, <1>6, <1>7, RequestTyped, ConcatProperties DEF MInv
<1>12. ahead[r] = 0 => Len(t) + Len(a) <= NCtxSeq
  BY <1>6, <1>7, <1>9, <1>10, CtxIsNat
<1>13. PICK new : new = [req[r] EXCEPT !.out = out, !.stage = "ready"]
  OBVIOUS
<1>16. /\ req' \in [DOMAIN req -> [slot : Slots, prompt : Prompts, out : Seq(Token),
                                   stage : {"prefill", "ready", "stranded"}]]
       /\ req'[r].slot = req[r].slot /\ req'[r].prompt = req[r].prompt
       /\ req'[r].out = req[r].out \o a
       /\ \A q \in DOMAIN req \ {r} :
            /\ req'[q].slot = req[q].slot /\ req'[q].prompt = req[q].prompt
            /\ req'[q].out = req[q].out
  <2>1. req[r] \in [slot : Slots, prompt : Prompts, out : Seq(Token),
                    stage : {"prefill", "ready", "stranded"}]
    BY <1>6, RequestTyped DEF MInv
  <2>2. /\ new \in [slot : Slots, prompt : Prompts, out : Seq(Token),
                    stage : {"prefill", "ready", "stranded"}]
        /\ new.slot = req[r].slot /\ new.prompt = req[r].prompt /\ new.out = out
    BY <1>11, <1>13, <2>1
  <2>3. req' = [req EXCEPT ![r] = new]
    BY <1>10, <1>13 DEF Going
  <2>4. /\ req' \in [DOMAIN req -> [slot : Slots, prompt : Prompts, out : Seq(Token),
                                    stage : {"prefill", "ready", "stranded"}]]
        /\ req'[r] = new /\ \A q \in DOMAIN req \ {r} : req'[q] = req[q]
    BY <1>6, <2>2, <2>3 DEF MInv, TypeOK
  <2> QED
    BY <1>5, <2>2, <2>4
<1>14. CASE /\ Synced(r, at, Last(a))
            /\ rows' = Minus(rows, r)
            /\ since' = [since EXCEPT ![r] = IF Behind(r) THEN at ELSE @]
            /\ ahead' = ahead /\ unsynced' = unsynced
  <2>5. PICK kept : kept = SubSeq(cells[s], 1, Least(at, Len(cells[s])))
    OBVIOUS
  <2>6. /\ Len(kept) = at
        /\ cells' = [cells EXCEPT ![s] = Append(kept, x)]
        /\ stream' = [stream EXCEPT ![r].pos = at + 1, ![r].row = 1]
        /\ logits' = <<Append(kept, x)>>
    BY <1>6, <1>7, <1>14, <2>5 DEF Synced
  <2>7. at <= Len(cells[s]) /\ kept = Begin(cells[s], at)
    <3>1. CASE at <= Len(cells[s])
      BY <2>5, <3>1 DEF Begin, Least
    <3>2. CASE ~ (at <= Len(cells[s]))
      <4>1. kept = cells[s]
        BY <1>6, <2>5, <3>2, SubSeqFull DEF Least
      <4> QED
        BY <1>6, <1>9, <2>6, <3>2, <4>1
    <3> QED
      BY <3>1, <3>2
  <2>8. kept \in Seq(Token)
    BY <1>6, <1>9, <2>7, BeginIs
  <2>9. PICK own : own = Append(kept, x)
    OBVIOUS
  <2>10. own \in BoundedSeq(Token, NCtxSeq)
    <3>1. own \in Seq(Token) /\ Len(own) = Len(kept) + 1
      BY <2>8, <2>9, AppendProperties
    <3>2. Len(own) <= NCtxSeq
      BY <1>9, <1>10, <2>6, <3>1, CtxIsNat
    <3> QED
      BY <3>1, <3>2, BoundedIs, CtxIsNat, Zenon
  <2>11. /\ cells' \in [Slots -> BoundedSeq(Token, NCtxSeq)] /\ cells'[s] = own
         /\ \A u \in Slots : u # s => cells'[u] = cells[u]
         /\ logits' \in Seq(BoundedSeq(Token, NCtxSeq))
    BY <1>6, <2>6, <2>9, <2>10 DEF MInv, TypeOK
  <2>12. /\ stream' \in [DOMAIN stream -> [slot : Slots, pos : 0 .. NCtxSeq, row : 1 .. NBatch]]
         /\ stream'[r].slot = stream[r].slot /\ stream'[r].pos = at + 1
         /\ \A q \in DOMAIN stream \ {r} : stream'[q] = stream[q]
    <3>1. stream[r] \in [slot : Slots, pos : 0 .. NCtxSeq, row : 1 .. NBatch]
      BY <1>6, StreamTyped DEF MInv
    <3>2. at + 1 \in 0 .. NCtxSeq
      BY <1>9, <1>10, CtxIsNat
    <3>3. PICK st : st = [stream[r] EXCEPT !.pos = at + 1, !.row = 1]
      OBVIOUS
    <3>4. /\ st \in [slot : Slots, pos : 0 .. NCtxSeq, row : 1 .. NBatch]
          /\ st.slot = stream[r].slot /\ st.pos = at + 1
      BY <3>1, <3>2, <3>3, CtxIsNat
    <3>5. stream' = [stream EXCEPT ![r] = st]
      BY <1>6, <2>6, <3>3
    <3> QED
      BY <1>6, <3>4, <3>5 DEF MInv, TypeOK
  <2>13. /\ since' \in [Ids -> 0 .. NCtxSeq]
         /\ since'[r] = IF Behind(r) THEN at ELSE since[r]
         /\ \A q \in DOMAIN req \ {r} : since'[q] = since[q]
    <3>1. r \in Ids /\ DOMAIN req \subseteq Ids /\ since \in [Ids -> 0 .. NCtxSeq]
      BY <1>6 DEF MInv, TypeOK
    <3>2. at \in 0 .. NCtxSeq
      BY <1>9, <1>10, CtxIsNat
    <3> QED
      BY <1>14, <3>1, <3>2
  <2>14. r \notin unsynced' =>
           Mirror(stream'[r].pos, cells'[s], << >>, req[r].prompt, t \o a, since'[r])
    <3>1. HAVE r \notin unsynced'
    <3>0. ahead[r] = 0 /\ at = Len(t) + m
      BY <1>6, <1>9, <1>14, <3>1 DEF MInv, StepFits
    <3>2. PICK before, p, pos, from :
            before = cells[s] /\ p = req[r].prompt /\ pos = stream[r].pos /\ from = since[r]
      OBVIOUS
    <3>3. Mirror(pos, before, d, p, t, from)
      BY <1>6, <1>8, <1>14, <3>1, <3>2, Zenon DEF MInv, LiveMirrored, Mirrored
    <3>4. Behind(r) <=> Len(before) - Len(d) # Len(t)
      <4>1. NPos(r) = Len(t) - 1
        BY <1>9, <3>0
      <4>2. Behind(r) <=> Len(before) - Len(d) # NPos(r) + 1
        BY <1>1, <1>6, <3>2 DEF Behind
      <4> QED
        BY <1>9, <4>1, <4>2
    <3>5. since'[r] = IF Len(before) - Len(d) # Len(t) THEN Len(t) + m ELSE from
      BY <2>13, <3>0, <3>2, <3>4
    <3>6. /\ before \in Seq(Token) /\ p \in Seq(Token) /\ Len(t) + m <= Len(before)
      BY <1>6, <2>7, <3>0, <3>2, RequestTyped DEF MInv
    <3>7. PICK since1 : since1 = since'[r]
      OBVIOUS
    <3>8. Mirror(Len(t) + m + 1, Append(Begin(before, Len(t) + m), x), << >>,
                 p, t \o Append(Begin(d, m), x), since1)
      BY <1>6, <1>9, <3>3, <3>5, <3>6, <3>7, MirrorSynced
    <3>9. Append(Begin(before, Len(t) + m), x) = own
      BY <2>7, <2>9, <3>0, <3>2
    <3> QED
      BY <1>2, <2>11, <2>12, <3>0, <3>2, <3>7, <3>8, <3>9
  <2>15. unsynced' \subseteq Ids /\ unsynced \subseteq unsynced'
    BY <1>14 DEF MInv, TypeOK
  <2>16. /\ ahead' \in [Ids -> 0 .. NCtxSeq] /\ ahead'[r] = ahead[r]
         /\ \A q \in DOMAIN req \ {r} : ahead'[q] = ahead[q]
    BY <1>14 DEF MInv, TypeOK
  <2> QED
    BY <1>7, <1>8, <1>12, <1>14, <1>16, <2>11, <2>12, <2>13, <2>14, <2>15, <2>16, Continues
<1>15. CASE /\ SyncRefused(r, at)
            /\ Skips(DOMAIN rows \ {r})
            /\ since' = since
  <2>1. stream' = stream /\ cells' = cells /\ logits' = << >>
    BY <1>15 DEF SyncRefused
  <2>2. /\ ahead' \in [Ids -> 0 .. NCtxSeq] /\ rows' = << >>
        /\ \A q \in Ids \ (DOMAIN rows \ {r}) : ahead'[q] = ahead[q]
        /\ \A q \in DOMAIN req : ahead'[q] = ahead[q] \/ (q \in unsynced' /\ ahead'[q] > 0)
        /\ unsynced' = unsynced \cup DOMAIN rows /\ unsynced' \subseteq Ids
    BY <1>15, SkippedAhead
  <2>3. ahead'[r] = ahead[r]
    BY <1>6, <2>2 DEF MInv, TypeOK
  <2>4. /\ cells' \in [Slots -> BoundedSeq(Token, NCtxSeq)]
        /\ stream' \in [DOMAIN stream -> [slot : Slots, pos : 0 .. NCtxSeq, row : 1 .. NBatch]]
        /\ since' \in [Ids -> 0 .. NCtxSeq]
    BY <1>15, <2>1 DEF MInv, TypeOK
  <2>5. logits' \in Seq(BoundedSeq(Token, NCtxSeq))
    BY <2>1, EmptySeq
  <2>6. r \in unsynced' /\ unsynced \subseteq unsynced' /\ DOMAIN rows \subseteq unsynced'
    BY <2>2
  <2>7. /\ \A u \in Slots : u # req[r].slot => cells'[u] = cells[u]
        /\ stream'[r].slot = stream[r].slot
        /\ \A q \in DOMAIN stream \ {r} : stream'[q] = stream[q]
        /\ \A q \in DOMAIN req \ {r} : since'[q] = since[q]
    BY <1>15, <2>1
  <2> QED
    BY <1>7, <1>8, <1>12, <1>16, <2>2, <2>3, <2>4, <2>5, <2>6, <2>7, Continues
<1> QED
  BY <1>10, <1>14, <1>15

-----------------------------------------------------------------------------
(* All steps. *)

LEMMA VerifyStep ==
  ASSUME MInv, Verify
  PROVE  MInv'
<1>1. PICK r \in DOMAIN rows : r = NextRow
  BY NextRowIs DEF Verify
<1>2. /\ plan = {} /\ UNCHANGED <<nextId, plan>> /\ \A q \in DOMAIN rows : RowsFit(q)
      /\ \/ \E a \in Accepted(r) : AdvancePlain(r, a) \/ VerifySyncs(r, a)
         \/ VerifyEnds(r)
         \/ RowRaises(r)
  BY <1>1 DEF Verify
<1> QED
  BY <1>2, AdvancePlainStep, VerifyEndsStep, VerifySyncsStep, RowRaisesStep

LEMMA StutterMInv ==
  ASSUME MInv, UNCHANGED vars
  PROVE  MInv'
<1>1. /\ nextId' = nextId /\ req' = req /\ stream' = stream /\ cells' = cells
      /\ logits' = logits /\ plan' = plan /\ rows' = rows /\ unsynced' = unsynced
      /\ since' = since /\ ahead' = ahead
  BY DEF vars
<1>2. TypeOK'
  BY <1>1 DEF MInv, TypeOK, Ids
<1>3. StreamsMatchRequests' /\ OneSlotEach'
  BY <1>1 DEF MInv, StreamsMatchRequests, OneSlotEach
<1>4. StepFits'
  BY <1>1 DEF MInv, StepFits, InStage, Text, Drafts
<1>5. LiveMirrored'
  BY <1>1 DEF MInv, LiveMirrored, Mirrored, Text, Drafts
<1> QED
  BY <1>2, <1>3, <1>4, <1>5 DEF MInv

LEMMA NextMInv == MInv /\ [Next]_vars => MInv'
<1> SUFFICES ASSUME MInv, [Next]_vars PROVE MInv'
  OBVIOUS
<1>1. CASE UNCHANGED vars
  BY <1>1, StutterMInv
<1>2. ASSUME NEW p \in Prompts, Admit(p) \/ AdmitFails(p) PROVE MInv'
  BY <1>2, AdmitStep, AdmitFailsStep
<1>3. ASSUME NEW r \in DOMAIN req, Cancel(r) PROVE MInv'
  BY <1>3, CancelStep
<1>4. CASE BeginStep
  BY <1>4, BeginStepStep
<1>5. CASE Propose
  BY <1>5, ProposeStep
<1>6. CASE Verify
  BY <1>6, VerifyStep
<1>7. CASE TargetRefuses
  BY <1>7, TargetRefusesStep
<1> QED
  BY <1>1, <1>2, <1>3, <1>4, <1>5, <1>6, <1>7 DEF Next

\* The inductive invariant holds of every behaviour.
THEOREM MirrorInvariance == Spec => []MInv
<1> QED
  BY InitMInv, NextMInv, PTL DEF Spec

\* Positions, rows and drafts of the draft engine stay within the contexts and
\* the batch, whatever the two models draw (draft.py).
THEOREM MirrorTypes == Spec => []TypeOK
<1>1. MInv => TypeOK
  BY DEF MInv
<1> QED
  BY <1>1, MirrorInvariance, PTL

\* The draft engine has a stream for each request in flight, on its slot, and
\* its memory holds nothing of a request that has ended, but for the chunks of a
\* prompt whose preparation raised (draft.py:139).
THEOREM StreamsFollowRequests == Spec => []StreamsMatchRequests
<1>1. MInv => StreamsMatchRequests
  BY DEF MInv
<1> QED
  BY <1>1, MirrorInvariance, PTL

\* Between steps, of a request none of whose calls raised, the draft holds the
\* prompt and, behind its last proposal from behind, the target's own tokens at
\* the target's positions (draft.py:113); the cells between are left open.
THEOREM SyncedDraftsAreInStep == Spec => []SyncsStayInStep
<1>1. MInv => SyncsStayInStep
  <2> SUFFICES ASSUME MInv, Idle, NEW r \in DOMAIN req \ unsynced
               PROVE  LET own == cells[req[r].slot]
                      IN  /\ Len(own) <= Len(Text(r))
                          /\ stream[r].pos = Len(own)
                          /\ \A i \in 1 .. Len(own) :
                               i <= Len(req[r].prompt) \/ i > since[r] => own[i] = Text(r)[i]
    BY DEF SyncsStayInStep
  <2>1. PICK own : own = cells[req[r].slot]
    OBVIOUS
  <2>2. Len(own) \in Nat /\ Len(<< >>) = 0 /\ Len(own) - Len(<< >>) = Len(own)
    BY <2>1, CellsTyped, RequestTyped, EmptySeq DEF MInv
  <2>3. Mirrored(r) /\ Drafts(r) = << >>
    BY DEF MInv, LiveMirrored, Idle, Drafts
  <2>4. /\ stream[r].pos = Len(own)
        /\ Len(own) \in Len(req[r].prompt) .. Len(Text(r))
        /\ Confirmed(own, Len(own), req[r].prompt, Text(r), since[r])
    BY <2>1, <2>2, <2>3 DEF Mirrored, Mirror
  <2>5. Len(own) <= Len(Text(r))
    BY <2>4
  <2> QED
    BY <2>1, <2>4, <2>5 DEF Confirmed
<1> QED
  BY <1>1, MirrorInvariance, PTL
==============================================================================
