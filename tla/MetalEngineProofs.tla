-------------------------- MODULE MetalEngineProofs --------------------------
(***************************************************************************)
(* Proofs about MetalEngine, for every size of the context and the batch,  *)
(* every vocabulary and sampler, and any number of requests.               *)
(***************************************************************************)
EXTENDS MetalEngine, TLAPS, WellFoundedInduction, SequenceTheorems

-----------------------------------------------------------------------------
(* Facts about sequences and sets of numbers. *)

LEMMA LeastNumber ==
  ASSUME NEW S, S \subseteq Nat, S # {}
  PROVE  Min(S) \in S /\ \A y \in S : Min(S) <= y
<1>1. PICK x \in S : \A y \in S : ~ (<<y, x>> \in OpToRel(<, Nat))
  BY NatLessThanWellFounded, WFMin
<1>2. ASSUME NEW y \in S, y < x PROVE FALSE
  <2>1. <<y, x>> \in Nat \X Nat /\ <<y, x>>[1] < <<y, x>>[2]
    BY <1>2
  <2>2. <<y, x>> \in OpToRel(<, Nat)
    BY <2>1, Zenon DEF OpToRel
  <2> QED
    BY <1>1, <2>2
<1>3. \A y \in S : x <= y
  BY <1>2
<1> QED
  BY <1>3 DEF Min

LEMMA GreatestNumber ==
  ASSUME NEW n \in Nat, NEW S, S \subseteq 0 .. n, S # {}
  PROVE  Max(S) \in S /\ \A y \in S : Max(S) >= y
<1> DEFINE T == {n - y : y \in S}
<1>0. \A y \in S : y \in Int /\ n - y \in Nat
  OBVIOUS
<1>1. T \subseteq Nat /\ T # {}
  BY <1>0, Zenon
<1>2. Min(T) \in T /\ \A t \in T : Min(T) <= t
  BY <1>1, LeastNumber
<1> HIDE DEF T
<1>3. PICK x \in S : Min(T) = n - x
  BY <1>2 DEF T
<1>4. ASSUME NEW y \in S PROVE x >= y
  <2>1. n - y \in T
    BY DEF T
  <2> QED
    BY <1>0, <1>2, <1>3, <2>1
<1> QED
  BY <1>4 DEF Max

\* RemoveAt(s, i): what is where in the shorter sequence.
LEMMA RemoveAtProperties ==
  ASSUME NEW S, NEW s \in Seq(S), NEW i \in 1 .. Len(s)
  PROVE  /\ RemoveAt(s, i) \in Seq(S)
         /\ Len(RemoveAt(s, i)) = Len(s) - 1
         /\ \A j \in 1 .. Len(s) - 1 :
              RemoveAt(s, i)[j] = IF j < i THEN s[j] ELSE s[j + 1]
<1> DEFINE a == SubSeq(s, 1, i - 1)
           b == SubSeq(s, i + 1, Len(s))
<1>0. Len(s) \in Nat /\ \A j \in 1 .. Len(s) : s[j] \in S
  BY LenProperties, ElementOfSeq
<1>1. a \in Seq(S) /\ Len(a) = i - 1 /\ \A j \in 1 .. i - 1 : a[j] = s[j]
  BY <1>0, SubSeqProperties
<1>2. /\ b \in Seq(S) /\ Len(b) = Len(s) - i
      /\ \A j \in 1 .. Len(s) - i : b[j] = s[i + j]
  BY <1>0, SubSeqProperties
<1>3. RemoveAt(s, i) = a \o b
  BY DEF RemoveAt
<1> HIDE DEF a, b
<1>4. /\ a \o b \in Seq(S)
      /\ Len(a \o b) = Len(s) - 1
      /\ \A j \in 1 .. Len(s) - 1 :
           (a \o b)[j] = IF j < i THEN a[j] ELSE b[j - (i - 1)]
  <2>1. /\ a \o b \in Seq(S)
        /\ Len(a \o b) = Len(a) + Len(b)
        /\ \A j \in 1 .. Len(a) + Len(b) :
             (a \o b)[j] = IF j <= Len(a) THEN a[j] ELSE b[j - Len(a)]
    BY <1>1, <1>2, ConcatProperties
  <2> QED
    BY <1>0, <1>1, <1>2, <2>1
<1>5. ASSUME NEW j \in 1 .. Len(s) - 1
      PROVE  (a \o b)[j] = IF j < i THEN s[j] ELSE s[j + 1]
  BY <1>0, <1>1, <1>2, <1>4
<1> QED
  BY <1>3, <1>4, <1>5

\* Refreshed permutes a pin list.
LEMMA RefreshedProperties ==
  ASSUME NEW S, NEW p \in Seq(S), NEW i \in 1 .. Len(p)
  PROVE  /\ Refreshed(p, i) \in Seq(S)
         /\ Len(Refreshed(p, i)) = Len(p)
         /\ \A j \in 1 .. Len(p) :
              Refreshed(p, i)[j] =
                IF j < i THEN p[j] ELSE IF j < Len(p) THEN p[j + 1] ELSE p[i]
<1>0. Len(p) \in Nat /\ p[i] \in S
  BY LenProperties, ElementOfSeq
<1>1. /\ RemoveAt(p, i) \in Seq(S)
      /\ Len(RemoveAt(p, i)) = Len(p) - 1
      /\ \A j \in 1 .. Len(p) - 1 :
           RemoveAt(p, i)[j] = IF j < i THEN p[j] ELSE p[j + 1]
  BY RemoveAtProperties
<1> QED
  BY <1>0, <1>1, AppendProperties DEF Refreshed

-----------------------------------------------------------------------------
(* The inductive invariant.  SlotsPartitioned and PinsHoldTheirKeys are      *)
(* stated for any free list, pin list and memory, so that each lemma below   *)
(* is about one operation on them.                                           *)

Pin == [key : Prompts, slot : Slots]

SlotsOf(p) == {p[i].slot : i \in DOMAIN p}

\* Free list f, pins p and the busy slots B share no slot and cover them all.
Apart(f, p, B) ==
  /\ IsInjective(f)
  /\ \A i, j \in DOMAIN p : p[i].slot = p[j].slot => i = j
  /\ Range(f) \cap SlotsOf(p) = {}
  /\ Range(f) \cap B = {}
  /\ SlotsOf(p) \cap B = {}
  /\ Range(f) \cup SlotsOf(p) \cup B = Slots

\* Memory m begins, in the slot of each pin of p, with the pin's key.
Keyed(p, m) ==
  /\ Len(p) <= PinCap
  /\ \A i, j \in DOMAIN p : p[i].key = p[j].key => i = j
  /\ \A i \in DOMAIN p : IsPrefix(p[i].key, m[p[i].slot])

\* A request's prefilled tokens are at the head of its slot, and until all of
\* them are, its position is their number.
Backed(req, m) ==
  /\ req.nPrefilled <= Len(req.prompt)
  /\ req.nPrefilled <= req.nPos
  /\ req.nPrefilled < Len(req.prompt) => req.nPos = req.nPrefilled
  /\ req.nPrefilled <= Len(m[req.slot])
  /\ \A i \in 1 .. req.nPrefilled : m[req.slot][i] = req.prompt[i]

\* A row with logits is prefilled and its position is the end of its KV, which
\* holds the prompt and the row's drafts.
RowReady(req, drafts, m) ==
  /\ req.nPrefilled = Len(req.prompt)
  /\ req.nPos = Len(m[req.slot])
  /\ Len(req.prompt) + Len(drafts) <= req.nPos

RowsBacked ==
  /\ \A r \in DOMAIN states : Backed(states[r], kv)
  /\ \A r \in DOMAIN todo : RowReady(states[r], todo[r], kv)

OneSlotEach ==
  \A q, r \in DOMAIN states : states[q].slot = states[r].slot => q = r

IInv ==
  /\ TypeOK
  /\ Apart(free, pins, BusySlots)
  /\ OneSlotEach
  /\ Keyed(pins, kv)
  /\ RowsBacked

-----------------------------------------------------------------------------
(* Slots that move between the free list, the pins and the requests. *)

LEMMA RangeOfAppend ==
  ASSUME NEW S, NEW f \in Seq(S), NEW s \in S
  PROVE  /\ Range(Append(f, s)) = Range(f) \cup {s}
         /\ IsInjective(f) /\ s \notin Range(f) => IsInjective(Append(f, s))
<1>1. /\ DOMAIN f = 1 .. Len(f) /\ Len(f) \in Nat
      /\ DOMAIN Append(f, s) = 1 .. Len(f) + 1
      /\ \A i \in 1 .. Len(f) : Append(f, s)[i] = f[i]
      /\ Append(f, s)[Len(f) + 1] = s
  BY LenProperties, AppendProperties
<1>2. ASSUME NEW x \in Range(Append(f, s)) PROVE x \in Range(f) \cup {s}
  BY <1>1 DEF Range
<1>3. ASSUME NEW x \in Range(f) \cup {s} PROVE x \in Range(Append(f, s))
  BY <1>1 DEF Range
<1>4. ASSUME IsInjective(f), s \notin Range(f) PROVE IsInjective(Append(f, s))
  BY <1>1, <1>4 DEF IsInjective, Range
<1> QED
  BY <1>2, <1>3, <1>4

LEMMA RangeOfTail ==
  ASSUME NEW S, NEW f \in Seq(S), f # << >>, IsInjective(f)
  PROVE  /\ Head(f) \in Range(f)
         /\ Range(Tail(f)) = Range(f) \ {Head(f)}
         /\ IsInjective(Tail(f))
<1>1. /\ DOMAIN f = 1 .. Len(f) /\ Len(f) \in Nat \ {0}
      /\ DOMAIN Tail(f) = 1 .. Len(f) - 1
      /\ \A i \in 1 .. Len(f) - 1 : Tail(f)[i] = f[i + 1]
      /\ Head(f) = f[1]
  BY LenProperties, HeadTailProperties, EmptySeq
<1>2. ASSUME NEW x \in Range(Tail(f)) PROVE x \in Range(f) \ {Head(f)}
  <2>1. PICK i \in 1 .. Len(f) - 1 : x = f[i + 1]
    BY <1>1 DEF Range
  <2>2. i + 1 \in DOMAIN f /\ 1 \in DOMAIN f /\ i + 1 # 1
    BY <1>1
  <2> QED
    BY <1>1, <2>1, <2>2 DEF Range, IsInjective
<1>3. ASSUME NEW x \in Range(f) \ {Head(f)} PROVE x \in Range(Tail(f))
  <2>1. PICK i \in 1 .. Len(f) : x = f[i]
    BY <1>1 DEF Range
  <2>2. i # 1
    BY <1>1, <2>1
  <2>3. i - 1 \in DOMAIN Tail(f) /\ Tail(f)[i - 1] = f[(i - 1) + 1]
    BY <1>1, <2>2
  <2>4. (i - 1) + 1 = i
    OBVIOUS
  <2> QED
    BY <2>1, <2>3, <2>4, Zenon DEF Range
<1>4. IsInjective(Tail(f))
  BY <1>1 DEF IsInjective
<1>5. Head(f) \in Range(f)
  BY <1>1 DEF Range
<1> QED
  BY <1>2, <1>3, <1>4, <1>5

LEMMA SlotsOfAppend ==
  ASSUME NEW p \in Seq(Pin), NEW e \in Pin
  PROVE  SlotsOf(Append(p, e)) = SlotsOf(p) \cup {e.slot}
<1>1. /\ DOMAIN p = 1 .. Len(p) /\ Len(p) \in Nat
      /\ DOMAIN Append(p, e) = 1 .. Len(p) + 1
      /\ \A i \in 1 .. Len(p) : Append(p, e)[i] = p[i]
      /\ Append(p, e)[Len(p) + 1] = e
  BY LenProperties, AppendProperties
<1>2. ASSUME NEW x \in SlotsOf(Append(p, e)) PROVE x \in SlotsOf(p) \cup {e.slot}
  BY <1>1 DEF SlotsOf
<1>3. ASSUME NEW x \in SlotsOf(p) \cup {e.slot} PROVE x \in SlotsOf(Append(p, e))
  BY <1>1 DEF SlotsOf
<1> QED
  BY <1>2, <1>3

\* Removing a pin from the list.
LEMMA SlotsOfRemoveAt ==
  ASSUME NEW p \in Seq(Pin), NEW i \in 1 .. Len(p),
         \A j, k \in DOMAIN p : p[j].slot = p[k].slot => j = k
  PROVE  LET q == RemoveAt(p, i)
         IN  /\ SlotsOf(q) = SlotsOf(p) \ {p[i].slot}
             /\ \A j, k \in DOMAIN q : q[j].slot = q[k].slot => j = k
<1> DEFINE q == RemoveAt(p, i)
<1>1. /\ DOMAIN p = 1 .. Len(p) /\ Len(p) \in Nat
      /\ DOMAIN q = 1 .. Len(p) - 1
      /\ \A j \in 1 .. Len(p) - 1 : q[j] = IF j < i THEN p[j] ELSE p[j + 1]
  BY LenProperties, RemoveAtProperties
<1> HIDE DEF q
<1>2. ASSUME NEW x \in SlotsOf(q) PROVE x \in SlotsOf(p) \ {p[i].slot}
  <2>1. PICK j \in 1 .. Len(p) - 1 : x = q[j].slot
    BY <1>1 DEF SlotsOf
  <2>2. \E k \in 1 .. Len(p) : k # i /\ x = p[k].slot
    <3>1. CASE j < i
      <4>1. j \in 1 .. Len(p) /\ j # i /\ q[j] = p[j]
        BY <1>1, <3>1
      <4> QED
        BY <2>1, <4>1
    <3>2. CASE ~(j < i)
      <4>1. j + 1 \in 1 .. Len(p) /\ j + 1 # i /\ q[j] = p[j + 1]
        BY <1>1, <3>2
      <4> QED
        BY <2>1, <4>1
    <3> QED
      BY <3>1, <3>2
  <2>3. PICK k \in 1 .. Len(p) : k # i /\ x = p[k].slot
    BY <2>2
  <2> QED
    BY <1>1, <2>3 DEF SlotsOf
<1>3. ASSUME NEW x \in SlotsOf(p) \ {p[i].slot} PROVE x \in SlotsOf(q)
  <2>1. PICK k \in 1 .. Len(p) : x = p[k].slot /\ k # i
    BY <1>1 DEF SlotsOf
  <2>2. CASE k < i
    <3>1. k \in DOMAIN q /\ q[k] = p[k]
      BY <1>1, <2>2
    <3> QED
      BY <2>1, <3>1 DEF SlotsOf
  <2>3. CASE k > i
    <3>1. k - 1 \in DOMAIN q /\ q[k - 1] = p[(k - 1) + 1] /\ (k - 1) + 1 = k
      BY <1>1, <2>3
    <3> QED
      BY <2>1, <3>1 DEF SlotsOf
  <2> QED
    BY <2>1, <2>2, <2>3
<1>4. ASSUME NEW j \in DOMAIN q, NEW k \in DOMAIN q, q[j].slot = q[k].slot
      PROVE  j = k
  BY <1>1, <1>4
<1>5. SlotsOf(q) = SlotsOf(p) \ {p[i].slot}
  BY <1>2, <1>3
<1> QED
  BY <1>4, <1>5 DEF q

\* Making a pin the most recent one.
LEMMA SlotsOfRefreshed ==
  ASSUME NEW p \in Seq(Pin), NEW i \in 1 .. Len(p)
  PROVE  LET q == Refreshed(p, i)
         IN  /\ SlotsOf(q) = SlotsOf(p)
             /\ (\A j, k \in DOMAIN p : p[j].slot = p[k].slot => j = k)
                => \A j, k \in DOMAIN q : q[j].slot = q[k].slot => j = k
<1> DEFINE q == Refreshed(p, i)
<1>1. /\ DOMAIN p = 1 .. Len(p) /\ Len(p) \in Nat
      /\ DOMAIN q = 1 .. Len(p)
      /\ \A j \in 1 .. Len(p) :
           q[j] = IF j < i THEN p[j] ELSE IF j < Len(p) THEN p[j + 1] ELSE p[i]
  BY LenProperties, RefreshedProperties
<1> HIDE DEF q
<1>2. ASSUME NEW x \in SlotsOf(q) PROVE x \in SlotsOf(p)
  BY <1>1 DEF SlotsOf
<1>3. ASSUME NEW x \in SlotsOf(p) PROVE x \in SlotsOf(q)
  <2>1. PICK k \in 1 .. Len(p) : x = p[k].slot
    BY <1>1 DEF SlotsOf
  <2>2. CASE k < i
    BY <1>1, <2>1, <2>2 DEF SlotsOf
  <2>3. CASE k = i
    <3>1. Len(p) \in DOMAIN q /\ q[Len(p)] = p[i]
      BY <1>1
    <3> QED
      BY <2>1, <2>3, <3>1 DEF SlotsOf
  <2>4. CASE k > i
    <3>1. k - 1 \in DOMAIN q /\ q[k - 1] = p[(k - 1) + 1] /\ (k - 1) + 1 = k
      BY <1>1, <2>4
    <3> QED
      BY <2>1, <3>1 DEF SlotsOf
  <2> QED
    BY <2>1, <2>2, <2>3, <2>4
<1>4. ASSUME \A j, k \in DOMAIN p : p[j].slot = p[k].slot => j = k,
             NEW j \in DOMAIN q, NEW k \in DOMAIN q, q[j].slot = q[k].slot
      PROVE  j = k
  <2>1. PICK a \in DOMAIN p :
          q[j] = p[a] /\ a = IF j < i THEN j ELSE IF j < Len(p) THEN j + 1 ELSE i
    BY <1>1
  <2>2. PICK b \in DOMAIN p :
          q[k] = p[b] /\ b = IF k < i THEN k ELSE IF k < Len(p) THEN k + 1 ELSE i
    BY <1>1
  <2>4. a = b
    BY <1>4, <2>1, <2>2, Zenon
  <2>3. j \in 1 .. Len(p) /\ k \in 1 .. Len(p) /\ Len(p) \in Nat
    BY <1>1
  <2> QED
    BY <2>1, <2>2, <2>3, <2>4
<1>5. SlotsOf(q) = SlotsOf(p)
  BY <1>2, <1>3
<1> QED
  BY <1>4, <1>5 DEF q

\* A pin is evicted and its slot freed.
LEMMA ApartEvicted ==
  ASSUME NEW f \in Seq(Slots), NEW p \in Seq(Pin), NEW B, Apart(f, p, B),
         NEW i \in 1 .. Len(p)
  PROVE  Apart(Append(f, p[i].slot), RemoveAt(p, i), B)
<1>0. p[i] \in Pin /\ i \in DOMAIN p
  BY LenProperties, ElementOfSeq
<1>1. p[i].slot \in Slots /\ p[i].slot \in SlotsOf(p)
  BY <1>0 DEF Pin, SlotsOf
<1>2. /\ Range(Append(f, p[i].slot)) = Range(f) \cup {p[i].slot}
      /\ IsInjective(Append(f, p[i].slot))
  BY <1>1, RangeOfAppend DEF Apart
<1>3. /\ SlotsOf(RemoveAt(p, i)) = SlotsOf(p) \ {p[i].slot}
      /\ \A j, k \in DOMAIN RemoveAt(p, i) :
           RemoveAt(p, i)[j].slot = RemoveAt(p, i)[k].slot => j = k
  BY SlotsOfRemoveAt DEF Apart
<1> QED
  BY <1>1, <1>2, <1>3 DEF Apart

\* A free slot is given to a request.
LEMMA ApartTaken ==
  ASSUME NEW f \in Seq(Slots), NEW p \in Seq(Pin), NEW B, Apart(f, p, B),
         f # << >>
  PROVE  /\ Head(f) \in Slots
         /\ Head(f) \notin B
         /\ Head(f) \notin SlotsOf(p)
         /\ Apart(Tail(f), p, B \cup {Head(f)})
<1>1. /\ Head(f) \in Range(f)
      /\ Range(Tail(f)) = Range(f) \ {Head(f)}
      /\ IsInjective(Tail(f))
  BY RangeOfTail DEF Apart
<1> QED
  BY <1>1, HeadTailProperties DEF Apart

\* A request's slot goes back to the free list.
LEMMA ApartReturned ==
  ASSUME NEW f \in Seq(Slots), NEW p \in Seq(Pin), NEW B,
         NEW s \in Slots, s \notin B, Apart(f, p, B \cup {s})
  PROVE  s \notin Range(f) /\ Apart(Append(f, s), p, B)
BY RangeOfAppend DEF Apart

LEMMA ApartRefreshed ==
  ASSUME NEW f \in Seq(Slots), NEW p \in Seq(Pin), NEW B, Apart(f, p, B),
         NEW i \in 1 .. Len(p)
  PROVE  Apart(f, Refreshed(p, i), B)
BY SlotsOfRefreshed DEF Apart

\* A request's slot becomes a pin.
LEMMA ApartPinned ==
  ASSUME NEW f \in Seq(Slots), NEW p \in Seq(Pin), NEW B, NEW e \in Pin,
         e.slot \notin B, Apart(f, p, B \cup {e.slot})
  PROVE  Apart(f, Append(p, e), B)
<1>1. SlotsOf(Append(p, e)) = SlotsOf(p) \cup {e.slot}
  BY SlotsOfAppend
<1>2. /\ DOMAIN p = 1 .. Len(p) /\ Len(p) \in Nat
      /\ DOMAIN Append(p, e) = 1 .. Len(p) + 1
      /\ \A i \in 1 .. Len(p) : Append(p, e)[i] = p[i]
      /\ Append(p, e)[Len(p) + 1] = e
  BY LenProperties, AppendProperties
<1>3. \A i \in 1 .. Len(p) : p[i].slot # e.slot
  BY <1>2 DEF Apart, SlotsOf
<1>4. ASSUME NEW i \in 1 .. Len(p) + 1, NEW j \in 1 .. Len(p) + 1,
             Append(p, e)[i].slot = Append(p, e)[j].slot
      PROVE  i = j
  BY <1>2, <1>3, <1>4 DEF Apart
<1> QED
  BY <1>1, <1>2, <1>4 DEF Apart

-----------------------------------------------------------------------------
(* Keys that stay in the memory of their pins. *)

LEMMA PrefixByElements ==
  ASSUME NEW S, NEW a \in Seq(S), NEW b \in Seq(S)
  PROVE  IsPrefix(a, b) <=> /\ Len(a) <= Len(b)
                            /\ \A i \in 1 .. Len(a) : b[i] = a[i]
<1> DEFINE n == Len(a)
<1>1. n \in Nat /\ Len(b) \in Nat
      /\ (\A i \in 1 .. n : a[i] \in S) /\ (\A i \in 1 .. Len(b) : b[i] \in S)
  BY LenProperties, ElementOfSeq
<1>2. CASE n <= Len(b)
  <2>1. \A i \in 1 .. n : b[i] \in S
    BY <1>1, <1>2
  <2>2. /\ SubSeq(b, 1, n) \in Seq(S) /\ Len(SubSeq(b, 1, n)) = n
        /\ \A i \in 1 .. n : SubSeq(b, 1, n)[i] = b[i]
    BY <1>1, <2>1, SubSeqProperties
  <2>3. SubSeq(a, 1, n) = a
    BY SubSeqFull
  <2>4. SubSeq(b, 1, n) = a <=> \A i \in 1 .. n : b[i] = a[i]
    BY <2>2, SeqEqual
  <2> QED
    BY <1>2, <2>3, <2>4 DEF IsPrefix
<1>3. CASE ~ (n <= Len(b))
  BY <1>3 DEF IsPrefix
<1> QED
  BY <1>2, <1>3

LEMMA KeyedEvicted ==
  ASSUME NEW p \in Seq(Pin), NEW m, Keyed(p, m), NEW i \in 1 .. Len(p)
  PROVE  Keyed(RemoveAt(p, i), m)
<1> DEFINE q == RemoveAt(p, i)
<1>1. /\ DOMAIN p = 1 .. Len(p) /\ Len(p) \in Nat
      /\ DOMAIN q = 1 .. Len(p) - 1 /\ Len(q) = Len(p) - 1
      /\ \A j \in 1 .. Len(p) - 1 : q[j] = IF j < i THEN p[j] ELSE p[j + 1]
  BY LenProperties, RemoveAtProperties
<1> HIDE DEF q
<1>2. \A j \in DOMAIN q : \E a \in DOMAIN p :
         q[j] = p[a] /\ a = IF j < i THEN j ELSE j + 1
  BY <1>1
<1>3. ASSUME NEW j \in DOMAIN q, NEW k \in DOMAIN q, q[j].key = q[k].key
      PROVE  j = k
  <2>1. PICK a \in DOMAIN p : q[j] = p[a] /\ a = IF j < i THEN j ELSE j + 1
    BY <1>2
  <2>2. PICK b \in DOMAIN p : q[k] = p[b] /\ b = IF k < i THEN k ELSE k + 1
    BY <1>2
  <2>3. a = b
    BY <1>3, <2>1, <2>2, Zenon DEF Keyed
  <2>4. j \in Nat /\ k \in Nat
    BY <1>1
  <2> QED
    BY <2>1, <2>2, <2>3, <2>4
<1>4. ASSUME NEW j \in DOMAIN q PROVE IsPrefix(q[j].key, m[q[j].slot])
  BY <1>2 DEF Keyed
<1>5. Len(q) <= PinCap
  BY <1>1, GeometryAssumption DEF Keyed
<1> QED
  BY <1>3, <1>4, <1>5 DEF Keyed, q

LEMMA KeyedRefreshed ==
  ASSUME NEW p \in Seq(Pin), NEW m, Keyed(p, m), NEW i \in 1 .. Len(p)
  PROVE  Keyed(Refreshed(p, i), m)
<1> DEFINE q == Refreshed(p, i)
<1>1. /\ DOMAIN p = 1 .. Len(p) /\ Len(p) \in Nat
      /\ DOMAIN q = 1 .. Len(p) /\ Len(q) = Len(p)
      /\ \A j \in 1 .. Len(p) :
           q[j] = IF j < i THEN p[j] ELSE IF j < Len(p) THEN p[j + 1] ELSE p[i]
  BY LenProperties, RefreshedProperties
<1> HIDE DEF q
<1>2. \A j \in DOMAIN q : \E a \in DOMAIN p :
         /\ q[j] = p[a]
         /\ a = IF j < i THEN j ELSE IF j < Len(p) THEN j + 1 ELSE i
  BY <1>1
<1>3. ASSUME NEW j \in DOMAIN q, NEW k \in DOMAIN q, q[j].key = q[k].key
      PROVE  j = k
  <2>1. PICK a \in DOMAIN p :
          q[j] = p[a] /\ a = IF j < i THEN j ELSE IF j < Len(p) THEN j + 1 ELSE i
    BY <1>2
  <2>2. PICK b \in DOMAIN p :
          q[k] = p[b] /\ b = IF k < i THEN k ELSE IF k < Len(p) THEN k + 1 ELSE i
    BY <1>2
  <2>3. a = b
    BY <1>3, <2>1, <2>2, Zenon DEF Keyed
  <2>4. j \in 1 .. Len(p) /\ k \in 1 .. Len(p) /\ Len(p) \in Nat
    BY <1>1
  <2> QED
    BY <2>1, <2>2, <2>3, <2>4
<1>4. ASSUME NEW j \in DOMAIN q PROVE IsPrefix(q[j].key, m[q[j].slot])
  BY <1>2 DEF Keyed
<1>5. Len(q) <= PinCap
  BY <1>1 DEF Keyed
<1> QED
  BY <1>3, <1>4, <1>5 DEF Keyed, q

LEMMA KeyedPinned ==
  ASSUME NEW p \in Seq(Pin), NEW m, Keyed(p, m), NEW e \in Pin,
         Len(p) < PinCap, \A i \in DOMAIN p : p[i].key # e.key,
         IsPrefix(e.key, m[e.slot])
  PROVE  Keyed(Append(p, e), m)
<1> DEFINE q == Append(p, e)
<1>1. /\ DOMAIN p = 1 .. Len(p) /\ Len(p) \in Nat
      /\ DOMAIN q = 1 .. Len(p) + 1 /\ Len(q) = Len(p) + 1
      /\ \A j \in 1 .. Len(p) : q[j] = p[j]
      /\ q[Len(p) + 1] = e
  BY LenProperties, AppendProperties
<1> HIDE DEF q
<1>2. \A j \in DOMAIN q : \/ j \in DOMAIN p /\ q[j] = p[j]
                          \/ j = Len(p) + 1 /\ q[j] = e
  BY <1>1
<1>3. ASSUME NEW j \in DOMAIN q, NEW k \in DOMAIN q, q[j].key = q[k].key
      PROVE  j = k
  BY <1>2, <1>3 DEF Keyed
<1>4. ASSUME NEW j \in DOMAIN q PROVE IsPrefix(q[j].key, m[q[j].slot])
  BY <1>2 DEF Keyed
<1>5. Len(q) <= PinCap
  BY <1>1, GeometryAssumption
<1> QED
  BY <1>3, <1>4, <1>5 DEF Keyed, q

\* Only the memory of the pins' own slots matters.
LEMMA KeyedElsewhere ==
  ASSUME NEW p, NEW m, NEW n, Keyed(p, m), \A s \in SlotsOf(p) : n[s] = m[s]
  PROVE  Keyed(p, n)
<1>1. \A i \in DOMAIN p : n[p[i].slot] = m[p[i].slot]
  BY DEF SlotsOf
<1> QED
  BY <1>1 DEF Keyed

\* What TypeOK says of the pin list.
LEMMA PinsTyped ==
  ASSUME TypeOK
  PROVE  /\ pins \in Seq(Pin)
         /\ Len(pins) \in Nat
         /\ DOMAIN pins = 1 .. Len(pins)
         /\ \A i \in DOMAIN pins : pins[i] \in Pin
         /\ pins # << >> => 1 \in DOMAIN pins
<1>1. pins \in Seq(Pin)
  BY DEF TypeOK, Pin
<1> QED
  BY <1>1, LenProperties, ElementOfSeq, EmptySeq

LEMMA PinTypes ==
  /\ \A e \in Pin : e.key \in Prompts /\ e.key \in Seq(Token) /\ e.slot \in Slots
  /\ \A k \in Prompts, s \in Slots : [key |-> k, slot |-> s] \in Pin
BY RequestAssumption DEF Pin

-----------------------------------------------------------------------------
(* Admission. *)

LEMMA SharedProperties ==
  ASSUME NEW key \in Seq(Token), NEW prompt \in Seq(Token)
  PROVE  /\ Shared(key, prompt) \in 0 .. Len(key)
         /\ Shared(key, prompt) <= Len(prompt)
         /\ \A i \in 1 .. Shared(key, prompt) : key[i] = prompt[i]
<1> DEFINE bound == Least(Len(key), Len(prompt))
           S == {n \in 0 .. bound : \A i \in 1 .. n : key[i] = prompt[i]}
<1>1. /\ Len(key) \in Nat /\ Len(prompt) \in Nat /\ bound \in Nat
      /\ bound <= Len(key) /\ bound <= Len(prompt)
  BY LenProperties DEF Least
<1>2. 0 \in S /\ S \subseteq 0 .. bound
  BY <1>1
<1>3. Max(S) \in S
  BY <1>1, <1>2, GreatestNumber
<1>4. Shared(key, prompt) = Max(S)
  BY DEF Shared
<1> QED
  BY <1>1, <1>3, <1>4

LEMMA FindPinProperties ==
  ASSUME TypeOK, NEW prompt \in Prompts
  PROVE  FindPin(prompt) = 0 \/ FindPin(prompt) \in Candidates(prompt)
<1> DEFINE C == Candidates(prompt)
           run(i) == Shared(pins[i].key, prompt)
<1>1. prompt \in Seq(Token) /\ Len(prompt) \in Nat
  BY RequestAssumption, LenProperties
<1>2. C \subseteq DOMAIN pins /\ DOMAIN pins \subseteq Nat
  BY PinsTyped DEF Candidates
<1>3. \A i \in DOMAIN pins : pins[i].key \in Seq(Token)
  BY PinTypes, PinsTyped
<1>4. \A i \in C : run(i) \in 0 .. Len(prompt)
  BY <1>1, <1>2, <1>3, SharedProperties
<1>5. CASE C # {}
  <2> DEFINE R == {run(i) : i \in C}
             I == {i \in C : run(i) = Max(R)}
  <2>1. Max(R) \in R /\ \A a \in R : Max(R) >= a
    <3>1. R \subseteq 0 .. Len(prompt) /\ R # {}
      BY <1>4, <1>5
    <3> QED
      BY <1>1, <3>1, GreatestNumber
  <2>2. I \subseteq Nat /\ I # {}
    BY <1>2, <2>1
  <2>3. Min(I) \in I /\ \A j \in I : Min(I) <= j
    BY <2>2, LeastNumber
  <2>4. ASSUME NEW j \in C
        PROVE  run(Min(I)) > run(j) \/ (run(Min(I)) = run(j) /\ Min(I) <= j)
    <3>1. Max(R) >= run(j) /\ run(j) \in Nat /\ Max(R) \in Nat
      BY <1>4, <2>1, <2>3
    <3>2. run(Min(I)) = Max(R)
      BY <2>3
    <3>3. run(j) = Max(R) => Min(I) <= j
      BY <2>3
    <3> HIDE DEF run, R, I
    <3> QED
      BY <3>1, <3>2, <3>3
  <2> QED
    BY <1>5, <2>3, <2>4, Zenon DEF FindPin
<1> QED
  BY <1>5 DEF FindPin

LEMMA VictimProperties ==
  ASSUME TypeOK, NEW m, free # << >> \/ pins # << >>
  PROVE  \/ Victim(m) = 0 /\ free # << >>
         \/ Victim(m) \in 1 .. Len(pins) /\ free = << >>
<1>1. DOMAIN pins = 1 .. Len(pins) /\ DOMAIN pins \subseteq Nat
  BY PinsTyped
<1>2. CASE free # << >> \/ pins = << >>
  BY <1>2 DEF Victim
<1>3. CASE free = << >> /\ pins # << >> /\ DOMAIN pins = {m}
  BY <1>1, <1>3 DEF Victim
<1>4. CASE free = << >> /\ pins # << >> /\ DOMAIN pins # {m}
  <2>1. DOMAIN pins # {}
    BY <1>4, PinsTyped
  <2>2. DOMAIN pins \ {m} # {}
    BY <1>4, <2>1
  <2>3. Min(DOMAIN pins \ {m}) \in DOMAIN pins \ {m}
    BY <1>1, <2>2, LeastNumber
  <2> QED
    BY <1>1, <1>4, <2>3 DEF Victim
<1> QED
  BY <1>2, <1>3, <1>4

\* The free list, the pins and the memory once add_request has evicted pin v,
\* or none.
LEMMA AfterEviction ==
  ASSUME IInv, NEW v,
         \/ v = 0 /\ free # << >>
         \/ v \in 1 .. Len(pins) /\ free = << >>
  PROVE  /\ FreeAfter(v) \in Seq(Slots) /\ FreeAfter(v) # << >>
         /\ PinsAfter(v) \in Seq(Pin)
         /\ KvAfter(v) \in [Slots -> Seq(Token)]
         /\ Apart(FreeAfter(v), PinsAfter(v), BusySlots)
         /\ Keyed(PinsAfter(v), KvAfter(v))
         /\ \A t \in BusySlots : KvAfter(v)[t] = kv[t]
<1>0. pins \in Seq(Pin) /\ free \in Seq(Slots) /\ kv \in [Slots -> Seq(Token)]
  BY PinsTyped DEF IInv, TypeOK
<1>1. CASE v = 0 /\ free # << >>
  BY <1>0, <1>1 DEF IInv, FreeAfter, PinsAfter, KvAfter
<1>2. CASE v \in 1 .. Len(pins) /\ free = << >>
  <2> DEFINE s == pins[v].slot
  <2>0. v # 0 /\ v \in 1 .. Len(pins) /\ s \in Slots /\ s \in SlotsOf(pins)
    BY <1>2, PinsTyped, PinTypes DEF IInv, SlotsOf
  <2>1. FreeAfter(v) = Append(free, s) /\ PinsAfter(v) = RemoveAt(pins, v)
    BY <1>2, <2>0 DEF FreeAfter, PinsAfter
  <2>2. KvAfter(v) = [kv EXCEPT ![s] = << >>]
    BY <2>0 DEF KvAfter
  <2> HIDE DEF s
  <2>3. FreeAfter(v) \in Seq(Slots) /\ FreeAfter(v) # << >>
    BY <1>0, <2>0, <2>1, AppendProperties
  <2>4. PinsAfter(v) \in Seq(Pin)
    BY <1>0, <2>0, <2>1, RemoveAtProperties
  <2>5. Apart(FreeAfter(v), PinsAfter(v), BusySlots)
    BY <1>0, <2>0, <2>1, ApartEvicted DEF IInv, s
  <2>6. /\ KvAfter(v) \in [Slots -> Seq(Token)]
        /\ \A t \in Slots \ {s} : KvAfter(v)[t] = kv[t]
    BY <1>0, <2>0, <2>2, EmptySeq
  <2>7. s \notin BusySlots /\ BusySlots \subseteq Slots
    BY <2>0 DEF IInv, Apart
  <2>8. Keyed(PinsAfter(v), KvAfter(v))
    <3>1. Keyed(PinsAfter(v), kv)
      BY <1>0, <2>0, <2>1, KeyedEvicted DEF IInv
    <3>2. SlotsOf(PinsAfter(v)) = SlotsOf(pins) \ {s} /\ SlotsOf(pins) \subseteq Slots
      BY <1>0, <2>0, <2>1, SlotsOfRemoveAt DEF IInv, Apart, s
    <3>3. \A t \in SlotsOf(PinsAfter(v)) : KvAfter(v)[t] = kv[t]
      BY <2>6, <3>2
    <3> QED
      BY <3>1, <3>3, KeyedElsewhere
  <2> QED
    BY <2>3, <2>4, <2>5, <2>6, <2>7, <2>8
<1> QED
  BY <1>1, <1>2

\* What TypeOK says of a request in flight.
LEMMA RequestTyped ==
  ASSUME TypeOK, NEW r \in DOMAIN states
  PROVE  /\ states[r] \in RequestState
         /\ states[r].slot \in Slots /\ states[r].slot \in BusySlots
         /\ states[r].prompt \in Prompts /\ states[r].prompt \in Seq(Token)
         /\ Len(states[r].prompt) \in Nat
         /\ states[r].params \in Params
         /\ states[r].nPrefilled \in Nat /\ states[r].nPos \in Nat
         /\ states[r].next \in Token \cup {NoToken}
         /\ states[r].out \in Seq(Token)
         /\ kv[states[r].slot] \in Seq(Token)
         /\ Len(kv[states[r].slot]) \in Nat
         /\ r \in 0 .. nextId - 1
<1>1. states[r] \in RequestState /\ kv \in [Slots -> Seq(Token)]
      /\ r \in 0 .. nextId - 1
  BY DEF TypeOK
<1>2. /\ states[r].slot \in Slots /\ states[r].prompt \in Prompts
      /\ states[r].params \in Params
      /\ states[r].nPrefilled \in Nat /\ states[r].nPos \in Nat
      /\ states[r].next \in Token \cup {NoToken}
      /\ states[r].out \in Seq(Token)
  BY <1>1 DEF RequestState
<1>3. states[r].prompt \in Seq(Token) /\ Len(states[r].prompt) \in Nat
  BY <1>2, RequestAssumption, LenProperties
<1>4. kv[states[r].slot] \in Seq(Token) /\ Len(kv[states[r].slot]) \in Nat
  BY <1>1, <1>2, LenProperties
<1>5. states[r].slot \in BusySlots
  BY DEF BusySlots
<1> QED
  BY <1>1, <1>2, <1>3, <1>4, <1>5

\* A new request's slot and prefilled prefix.
LEMMA Joined ==
  ASSUME IInv, NEW s \in Slots, s \notin BusySlots,
         NEW prompt \in Prompts, NEW params \in Params, NEW n \in Nat,
         n <= Len(prompt),
         nextId' = nextId + 1,
         states' = [q \in DOMAIN states \cup {nextId} |->
                      IF q = nextId THEN Registered(s, prompt, params, n)
                      ELSE states[q]],
         kv' \in [Slots -> Seq(Token)],
         \A t \in BusySlots : kv'[t] = kv[t],
         n <= Len(kv'[s]), \A i \in 1 .. n : kv'[s][i] = prompt[i],
         UNCHANGED todo
  PROVE  /\ DOMAIN states' \subseteq 0 .. nextId' - 1
         /\ states' \in [DOMAIN states' -> RequestState]
         /\ BusySlots' = BusySlots \cup {s}
         /\ OneSlotEach'
         /\ RowsBacked'
<1> DEFINE new == Registered(s, prompt, params, n)
<1>1. /\ nextId \in Nat /\ nextId \notin DOMAIN states
      /\ DOMAIN states \subseteq 0 .. nextId - 1
  BY DEF IInv, TypeOK
<1>2. new \in RequestState /\ new.slot = s
  BY EmptySeq DEF Registered, RequestState
<1>3. Backed(new, kv')
  BY GeometryAssumption DEF Registered, Backed
<1>4. DOMAIN states' = DOMAIN states \cup {nextId} /\ states'[nextId] = new
      /\ \A q \in DOMAIN states : states'[q] = states[q]
  BY <1>1
<1> HIDE DEF new
<1>5. \A q \in DOMAIN states : states[q] \in RequestState /\ states[q].slot \in BusySlots
  BY RequestTyped DEF IInv
<1>6. DOMAIN states' \subseteq 0 .. nextId' - 1
  BY <1>1, <1>4
<1>7. states' \in [DOMAIN states' -> RequestState]
  <2>1. \A q \in DOMAIN states' : states'[q] \in RequestState
    BY <1>2, <1>4, <1>5
  <2>2. states' = [q \in DOMAIN states' |-> states'[q]]
    BY <1>4
  <2> QED
    BY <2>1, <2>2
<1>8. BusySlots' = BusySlots \cup {s}
  <2>1. ASSUME NEW x \in BusySlots' PROVE x \in BusySlots \cup {s}
    BY <1>2, <1>4 DEF BusySlots
  <2>2. ASSUME NEW x \in BusySlots \cup {s} PROVE x \in BusySlots'
    BY <1>2, <1>4 DEF BusySlots
  <2> QED
    BY <2>1, <2>2
<1>9. OneSlotEach'
  BY <1>2, <1>4, <1>5 DEF IInv, OneSlotEach
<1>10. RowsBacked'
  <2>1. ASSUME NEW q \in DOMAIN states PROVE Backed(states'[q], kv')
    BY <1>4, <1>5 DEF IInv, RowsBacked, Backed
  <2>2. ASSUME NEW q \in DOMAIN todo PROVE RowReady(states'[q], todo'[q], kv')
    <3>1. q \in DOMAIN states
      BY DEF IInv, TypeOK
    <3> QED
      BY <1>4, <1>5, <3>1 DEF IInv, RowsBacked, RowReady
  <2> QED
    BY <1>3, <1>4, <2>1, <2>2 DEF RowsBacked
<1> QED
  BY <1>6, <1>7, <1>8, <1>9, <1>10

\* The slot of a request that leaves _states.
LEMMA Left ==
  ASSUME IInv, NEW r \in DOMAIN states, states' = Minus(states, r)
  PROVE  /\ DOMAIN states' = DOMAIN states \ {r}
         /\ \A q \in DOMAIN states' : states'[q] = states[q]
         /\ states' \in [DOMAIN states' -> RequestState]
         /\ states[r].slot \notin BusySlots'
         /\ BusySlots = BusySlots' \cup {states[r].slot}
         /\ OneSlotEach'
<1>1. DOMAIN states' = DOMAIN states \ {r}
      /\ \A q \in DOMAIN states' : states'[q] = states[q]
  BY DEF Minus, Restrict
<1>2. states' \in [DOMAIN states' -> RequestState]
  <2>1. states' = [q \in DOMAIN states' |-> states'[q]]
    BY <1>1 DEF Minus, Restrict
  <2>2. \A q \in DOMAIN states' : states'[q] \in RequestState
    BY <1>1, RequestTyped DEF IInv
  <2> QED
    BY <2>1, <2>2
<1>3. states[r].slot \notin BusySlots'
  BY <1>1 DEF BusySlots, IInv, OneSlotEach
<1>4. ASSUME NEW x \in BusySlots PROVE x \in BusySlots' \cup {states[r].slot}
  BY <1>1 DEF BusySlots
<1>5. ASSUME NEW x \in BusySlots' \cup {states[r].slot} PROVE x \in BusySlots
  BY <1>1 DEF BusySlots
<1>6. OneSlotEach'
  BY <1>1 DEF IInv, OneSlotEach
<1> QED
  BY <1>1, <1>2, <1>3, <1>4, <1>5, <1>6

\* _archive keeps the read window typed and bounded.
LEMMA ArchivedTyped ==
  ASSUME IInv, NEW e \in Finished
  PROVE  Archived(e) \in Seq(Finished) /\ Len(Archived(e)) <= RetiredLimit
<1>1. RetiredLimit \in Nat /\ RetiredLimit >= 1
  BY GeometryAssumption DEF RetiredLimit, Most
<1>2. retired \in Seq(Finished) /\ Len(retired) \in Nat /\ Len(retired) <= RetiredLimit
  BY LenProperties DEF IInv, TypeOK
<1> DEFINE longer == Append(retired, e)
<1>3. longer \in Seq(Finished) /\ longer # << >> /\ Len(longer) = Len(retired) + 1
  BY <1>2, AppendProperties
<1>4. Archived(e) = IF Len(longer) > RetiredLimit THEN Tail(longer) ELSE longer
  BY DEF Archived
<1> HIDE DEF longer
<1>5. Tail(longer) \in Seq(Finished) /\ Len(Tail(longer)) = Len(longer) - 1
  BY <1>3, HeadTailProperties
<1> QED
  BY <1>1, <1>2, <1>3, <1>4, <1>5

\* Slot s, at the head of the free list, cleared or filled for a request.
LEMMA SlotTaken ==
  ASSUME IInv, NEW v,
         \/ v = 0 /\ free # << >>
         \/ v \in 1 .. Len(pins) /\ free = << >>,
         NEW text \in Seq(Token),
         kv' = [KvAfter(v) EXCEPT ![Head(FreeAfter(v))] = text]
  PROVE  LET s == Head(FreeAfter(v))
         IN  /\ s \in Slots /\ s \notin BusySlots
             /\ s \notin SlotsOf(PinsAfter(v))
             /\ Apart(Tail(FreeAfter(v)), PinsAfter(v), BusySlots \cup {s})
             /\ Tail(FreeAfter(v)) \in Seq(Slots)
             /\ kv' \in [Slots -> Seq(Token)]
             /\ kv'[s] = text
             /\ \A t \in BusySlots : kv'[t] = kv[t]
             /\ Keyed(PinsAfter(v), kv')
<1> DEFINE s == Head(FreeAfter(v))
<1>1. /\ FreeAfter(v) \in Seq(Slots) /\ FreeAfter(v) # << >>
      /\ PinsAfter(v) \in Seq(Pin)
      /\ KvAfter(v) \in [Slots -> Seq(Token)]
      /\ Apart(FreeAfter(v), PinsAfter(v), BusySlots)
      /\ Keyed(PinsAfter(v), KvAfter(v))
      /\ \A t \in BusySlots : KvAfter(v)[t] = kv[t]
  BY AfterEviction
<1>2. /\ s \in Slots /\ s \notin BusySlots /\ s \notin SlotsOf(PinsAfter(v))
      /\ Apart(Tail(FreeAfter(v)), PinsAfter(v), BusySlots \cup {s})
  BY <1>1, ApartTaken
<1>3. Tail(FreeAfter(v)) \in Seq(Slots)
  BY <1>1, HeadTailProperties
<1> HIDE DEF s
<1>4. kv' = [KvAfter(v) EXCEPT ![s] = text]
  BY DEF s
<1>5. /\ kv' \in [Slots -> Seq(Token)] /\ kv'[s] = text
      /\ \A t \in Slots \ {s} : kv'[t] = KvAfter(v)[t]
  BY <1>1, <1>2, <1>4
<1>6. BusySlots \subseteq Slots /\ SlotsOf(PinsAfter(v)) \subseteq Slots
  BY <1>1 DEF Apart
<1>7. Keyed(PinsAfter(v), kv')
  <2> DEFINE p == PinsAfter(v)
             m == KvAfter(v)
             n == kv'
  <2>1. Keyed(p, m)
    BY <1>1
  <2>2. \A t \in SlotsOf(p) : n[t] = m[t]
    BY <1>2, <1>5, <1>6
  <2> HIDE DEF p, m, n
  <2>3. Keyed(p, n)
    BY <2>1, <2>2, KeyedElsewhere
  <2> QED
    BY <2>3 DEF p, n
<1> QED
  BY <1>1, <1>2, <1>3, <1>5, <1>6, <1>7 DEF s

\* PinsAfter(v) with the fork source m, still among them, made the newest.
LEMMA ForkSourceRefreshed ==
  ASSUME IInv, NEW v \in 0 .. Len(pins), NEW m \in 1 .. Len(pins), m # v
  PROVE  \E i \in 1 .. Len(PinsAfter(v)) :
           RefreshedAfter(v, m) = Refreshed(PinsAfter(v), i)
<1>1. pins \in Seq(Pin) /\ Len(pins) \in Nat
  BY PinsTyped DEF IInv
<1>2. CASE v = 0
  BY <1>1, <1>2 DEF RefreshedAfter, PinsAfter
<1>3. CASE v # 0
  <2>1. Len(PinsAfter(v)) = Len(pins) - 1
    BY <1>1, <1>3, RemoveAtProperties DEF PinsAfter
  <2> QED
    BY <1>1, <1>3, <2>1 DEF RefreshedAfter
<1> QED
  BY <1>2, <1>3

\* IInv is what TypeOK, Apart, OneSlotEach, Keyed and RowsBacked say of the
\* variables that an admission changes.
LEMMA AdmissionFrame ==
  ASSUME IInv, nextId' = nextId + 1, UNCHANGED <<todo, stranded, refused>>,
         DOMAIN states \subseteq DOMAIN states',
         DOMAIN states' \subseteq 0 .. nextId' - 1,
         states' \in [DOMAIN states' -> RequestState],
         free' \in Seq(Slots), pins' \in Seq(Pin),
         kv' \in [Slots -> Seq(Token)],
         retired' \in Seq(Finished), Len(retired') <= RetiredLimit,
         Apart(free', pins', BusySlots'), OneSlotEach', Keyed(pins', kv'),
         RowsBacked'
  PROVE  IInv'
<1>1. nextId' \in Nat /\ 0 .. nextId - 1 \subseteq 0 .. nextId' - 1
  BY DEF IInv, TypeOK
<1>2. RetiredLimit' = RetiredLimit
  BY DEF RetiredLimit
<1> QED
  BY <1>1, <1>2 DEF IInv, TypeOK, Pin

LEMMA AddRequestStep ==
  ASSUME IInv, NEW prompt \in Prompts, NEW params \in Params,
         AddRequest(prompt, params)
  PROVE  IInv'
<1> DEFINE m == FindPin(prompt)
           v == Victim(m)
           s == Head(FreeAfter(v))
<1>1. /\ Idle
      /\ nextId' = nextId + 1
      /\ free # << >> \/ pins # << >>
      /\ UNCHANGED <<todo, stranded, refused>>
      /\ \/ AdmissionRolledBack(v)
         \/ AdmittedPlain(v, prompt, params)
         \/ AdmittedForked(v, m, prompt, params)
         \/ AdmissionCancelled(v, m, prompt, params)
  BY DEF AddRequest
<1>2. /\ prompt \in Seq(Token) /\ Len(prompt) \in Nat
      /\ pins \in Seq(Pin) /\ Len(pins) \in Nat /\ DOMAIN pins = 1 .. Len(pins)
      /\ << >> \in Seq(Token) /\ Len(<< >>) = 0
      /\ nextId \in Nat
      /\ retired \in Seq(Finished) /\ Len(retired) <= RetiredLimit
      /\ DOMAIN states \subseteq 0 .. nextId - 1
      /\ states \in [DOMAIN states -> RequestState]
  BY RequestAssumption, LenProperties, PinsTyped, EmptySeq DEF IInv, TypeOK
<1>3. m = 0 \/ m \in Candidates(prompt)
  BY FindPinProperties DEF IInv
<1>4. \/ v = 0 /\ free # << >>
      \/ v \in 1 .. Len(pins) /\ free = << >>
  BY <1>1, VictimProperties DEF IInv
<1>5. m # 0 => m \in 1 .. Len(pins)
  BY <1>2, <1>3 DEF Candidates
<1>6. v \in 0 .. Len(pins)
  BY <1>2, <1>4
<1>7. /\ FreeAfter(v) \in Seq(Slots) /\ PinsAfter(v) \in Seq(Pin)
      /\ Apart(FreeAfter(v), PinsAfter(v), BusySlots)
  BY <1>4, AfterEviction
<1>8. ASSUME NEW text \in Seq(Token), kv' = [KvAfter(v) EXCEPT ![s] = text]
      PROVE  /\ s \in Slots /\ s \notin BusySlots
             /\ s \notin SlotsOf(PinsAfter(v))
             /\ Apart(Tail(FreeAfter(v)), PinsAfter(v), BusySlots \cup {s})
             /\ Tail(FreeAfter(v)) \in Seq(Slots)
             /\ kv' \in [Slots -> Seq(Token)]
             /\ kv'[s] = text
             /\ \A t \in BusySlots : kv'[t] = kv[t]
             /\ Keyed(PinsAfter(v), kv')
  BY <1>4, <1>8, SlotTaken
<1>9. ASSUME m # 0, m # v
      PROVE  \E i \in 1 .. Len(PinsAfter(v)) :
               RefreshedAfter(v, m) = Refreshed(PinsAfter(v), i)
  BY <1>5, <1>6, <1>9, ForkSourceRefreshed
<1> HIDE DEF m, v, s
<1>10. CASE AdmissionRolledBack(v)
  <2>1. /\ pins' = PinsAfter(v) /\ free' = FreeAfter(v)
        /\ kv' = [KvAfter(v) EXCEPT ![s] = << >>]
        /\ UNCHANGED <<states, retired>>
    BY <1>10 DEF AdmissionRolledBack, s
  <2>2. /\ kv' \in [Slots -> Seq(Token)]
        /\ \A t \in BusySlots : kv'[t] = kv[t]
        /\ Keyed(pins', kv')
    BY <1>2, <1>8, <2>1
  <2>3. BusySlots' = BusySlots /\ OneSlotEach'
    BY <2>1 DEF BusySlots, IInv, OneSlotEach
  <2>4. RowsBacked'
    <3>1. \A q \in DOMAIN states : kv'[states[q].slot] = kv[states[q].slot]
      BY <2>2 DEF BusySlots
    <3>2. DOMAIN todo \subseteq DOMAIN states
      BY DEF IInv, TypeOK
    <3> QED
      BY <1>1, <2>1, <3>1, <3>2 DEF IInv, RowsBacked, Backed, RowReady
  <2>5. DOMAIN states' \subseteq 0 .. nextId' - 1
    BY <1>1, <1>2, <2>1
  <2> QED
    BY <1>1, <1>2, <1>7, <2>1, <2>2, <2>3, <2>4, <2>5, AdmissionFrame
<1>11. CASE AdmittedPlain(v, prompt, params)
  <2>1. /\ pins' = PinsAfter(v) /\ free' = Tail(FreeAfter(v))
        /\ kv' = [KvAfter(v) EXCEPT ![s] = << >>]
        /\ states' = [q \in DOMAIN states \cup {nextId} |->
                        IF q = nextId THEN Registered(s, prompt, params, 0)
                        ELSE states[q]]
        /\ UNCHANGED retired
    BY <1>11 DEF AdmittedPlain, s
  <2>2. /\ s \in Slots /\ s \notin BusySlots
        /\ Apart(free', pins', BusySlots \cup {s}) /\ free' \in Seq(Slots)
        /\ kv' \in [Slots -> Seq(Token)] /\ kv'[s] = << >>
        /\ \A t \in BusySlots : kv'[t] = kv[t]
        /\ Keyed(pins', kv')
    BY <1>2, <1>8, <2>1
  <2>3. /\ 0 \in Nat /\ 0 <= Len(prompt)
        /\ 0 <= Len(kv'[s]) /\ \A i \in 1 .. 0 : kv'[s][i] = prompt[i]
    BY <1>2, <2>2
  <2>4. /\ DOMAIN states' \subseteq 0 .. nextId' - 1
        /\ states' \in [DOMAIN states' -> RequestState]
        /\ BusySlots' = BusySlots \cup {s}
        /\ OneSlotEach'
        /\ RowsBacked'
    BY <1>1, <2>1, <2>2, <2>3, Joined
  <2> QED
    BY <1>1, <1>2, <1>7, <2>1, <2>2, <2>4, AdmissionFrame
<1>12. CASE AdmittedForked(v, m, prompt, params)
  <2> DEFINE n == Shared(pins[m].key, prompt) - 1
  <2>0. m # 0 /\ m # v /\ m \in 1 .. Len(pins) /\ m \in Candidates(prompt)
    BY <1>3, <1>5, <1>12 DEF AdmittedForked
  <2>1. /\ pins' = RefreshedAfter(v, m) /\ free' = Tail(FreeAfter(v))
        /\ kv' = [KvAfter(v) EXCEPT ![s] = ForkedKv(m, n)]
        /\ states' = [q \in DOMAIN states \cup {nextId} |->
                        IF q = nextId THEN Registered(s, prompt, params, n)
                        ELSE states[q]]
        /\ UNCHANGED retired
    BY <1>12 DEF AdmittedForked, s
  <2>2. n \in Nat /\ n <= Len(prompt)
        /\ ForkedKv(m, n) \in Seq(Token) /\ Len(ForkedKv(m, n)) = n
        /\ \A i \in 1 .. n : ForkedKv(m, n)[i] = prompt[i]
    <3> DEFINE key == pins[m].key
               held == kv[pins[m].slot]
    <3>1. key \in Seq(Token) /\ Len(key) \in Nat
          /\ held \in Seq(Token) /\ Len(held) \in Nat
      BY <1>2, <2>0, PinsTyped, PinTypes, LenProperties DEF IInv, TypeOK
    <3>2. Len(key) <= Len(held) /\ \A i \in 1 .. Len(key) : held[i] = key[i]
      BY <1>2, <2>0, <3>1, PrefixByElements DEF IInv, Keyed
    <3>3. /\ n \in Int /\ n + 1 <= Len(key) /\ n + 1 <= Len(prompt)
          /\ \A i \in 1 .. n + 1 : key[i] = prompt[i]
      <4> DEFINE run == Shared(key, prompt)
      <4>1. /\ run \in 0 .. Len(key) /\ run <= Len(prompt)
            /\ \A i \in 1 .. run : key[i] = prompt[i]
        BY <1>2, <3>1, SharedProperties
      <4>2. n = run - 1
        OBVIOUS
      <4> HIDE DEF run, n
      <4>3. n \in Int /\ n + 1 = run
        BY <4>1, <4>2
      <4> QED
        BY <3>1, <4>1, <4>3
    <3>4. n >= PinMin
      BY <2>0 DEF Candidates
    <3> HIDE DEF n, key, held
    <3>5. n \in Nat /\ n <= Len(prompt) /\ n <= Len(held)
      BY <3>1, <3>2, <3>3, <3>4, <1>2, GeometryAssumption
    <3>6. \A i \in 1 .. n : held[i] \in Token /\ held[i] = prompt[i]
      BY <3>1, <3>2, <3>3, <3>5, ElementOfSeq
    <3>7. ForkedKv(m, n) = SubSeq(held, 1, n)
      BY DEF ForkedKv, held
    <3> QED
      BY <3>5, <3>6, <3>7, SubSeqProperties
  <2> HIDE DEF n
  <2>3. /\ s \in Slots /\ s \notin BusySlots
        /\ Apart(free', PinsAfter(v), BusySlots \cup {s}) /\ free' \in Seq(Slots)
        /\ kv' \in [Slots -> Seq(Token)] /\ kv'[s] = ForkedKv(m, n)
        /\ \A t \in BusySlots : kv'[t] = kv[t]
        /\ Keyed(PinsAfter(v), kv')
    BY <1>8, <2>1, <2>2
  <2>4. n <= Len(kv'[s]) /\ \A i \in 1 .. n : kv'[s][i] = prompt[i]
    BY <2>2, <2>3
  <2>5. /\ DOMAIN states' \subseteq 0 .. nextId' - 1
        /\ states' \in [DOMAIN states' -> RequestState]
        /\ BusySlots' = BusySlots \cup {s}
        /\ OneSlotEach'
        /\ RowsBacked'
    BY <1>1, <2>1, <2>2, <2>3, <2>4, Joined
  <2>6. PICK i \in 1 .. Len(PinsAfter(v)) : pins' = Refreshed(PinsAfter(v), i)
    BY <1>9, <2>0, <2>1
  <2>7. /\ pins' \in Seq(Pin)
        /\ Apart(free', pins', BusySlots')
        /\ Keyed(pins', kv')
    BY <1>7, <2>3, <2>5, <2>6, RefreshedProperties, ApartRefreshed, KeyedRefreshed
  <2>8. DOMAIN states \subseteq DOMAIN states'
    BY <2>1
  <2> QED
    BY <1>1, <1>2, <2>1, <2>3, <2>5, <2>7, <2>8, AdmissionFrame
<1>13. CASE AdmissionCancelled(v, m, prompt, params)
  <2> DEFINE e == [id |-> nextId, prompt |-> prompt, params |-> params,
                   out |-> << >>, reason |-> "cancelled"]
  <2>1. /\ \/ pins' = PinsAfter(v)
           \/ m # 0 /\ m # v /\ pins' = RefreshedAfter(v, m)
        /\ free' = Append(Tail(FreeAfter(v)), s)
        /\ kv' = [KvAfter(v) EXCEPT ![s] = << >>]
        /\ retired' = Archived(e)
        /\ UNCHANGED states
    BY <1>13 DEF AdmissionCancelled, s
  <2>2. /\ s \in Slots /\ s \notin BusySlots
        /\ Apart(Tail(FreeAfter(v)), PinsAfter(v), BusySlots \cup {s})
        /\ Tail(FreeAfter(v)) \in Seq(Slots)
        /\ kv' \in [Slots -> Seq(Token)]
        /\ \A t \in BusySlots : kv'[t] = kv[t]
        /\ Keyed(PinsAfter(v), kv')
    BY <1>2, <1>8, <2>1
  <2>3. free' \in Seq(Slots) /\ Apart(free', PinsAfter(v), BusySlots)
    BY <1>7, <2>1, <2>2, AppendProperties, ApartReturned
  <2>4. /\ pins' \in Seq(Pin)
        /\ Apart(free', pins', BusySlots)
        /\ Keyed(pins', kv')
    <3>1. CASE pins' = PinsAfter(v)
      BY <1>7, <2>2, <2>3, <3>1
    <3>2. CASE m # 0 /\ m # v /\ pins' = RefreshedAfter(v, m)
      <4>1. PICK i \in 1 .. Len(PinsAfter(v)) : pins' = Refreshed(PinsAfter(v), i)
        BY <1>9, <3>2
      <4> QED
        BY <1>7, <2>2, <2>3, <4>1, RefreshedProperties, ApartRefreshed,
           KeyedRefreshed
    <3> QED
      BY <2>1, <3>1, <3>2
  <2>5. retired' \in Seq(Finished) /\ Len(retired') <= RetiredLimit
    <3>1. e \in Finished
      BY <1>2 DEF Finished
    <3> QED
      BY <2>1, <3>1, ArchivedTyped
  <2>6. BusySlots' = BusySlots /\ OneSlotEach'
    BY <2>1 DEF BusySlots, IInv, OneSlotEach
  <2>7. RowsBacked'
    <3>1. \A q \in DOMAIN states : kv'[states[q].slot] = kv[states[q].slot]
      BY <2>2 DEF BusySlots
    <3>2. DOMAIN todo \subseteq DOMAIN states
      BY DEF IInv, TypeOK
    <3> QED
      BY <1>1, <2>1, <3>1, <3>2 DEF IInv, RowsBacked, Backed, RowReady
  <2>8. DOMAIN states' \subseteq 0 .. nextId' - 1
    BY <1>1, <1>2, <2>1
  <2> QED
    BY <1>1, <1>2, <2>1, <2>2, <2>3, <2>4, <2>5, <2>6, <2>7, <2>8, AdmissionFrame
<1> QED
  BY <1>1, <1>10, <1>11, <1>12, <1>13

-----------------------------------------------------------------------------
(* Retirement. *)

\* One slot is cleared and goes back to the free list.
LEMMA Released ==
  ASSUME free \in Seq(Slots), NEW p \in Seq(Pin), NEW B,
         NEW s \in Slots, s \notin B, Apart(free, p, B \cup {s}),
         NEW memory \in [Slots -> Seq(Token)], Keyed(p, memory),
         free' = IF s \in Range(free) THEN free ELSE Append(free, s),
         kv' = [memory EXCEPT ![s] = << >>]
  PROVE  /\ free' \in Seq(Slots) /\ kv' \in [Slots -> Seq(Token)]
         /\ Apart(free', p, B)
         /\ Keyed(p, kv')
         /\ \A t \in Slots \ {s} : kv'[t] = memory[t]
<1>1. s \notin Range(free) /\ Apart(Append(free, s), p, B)
  BY ApartReturned
<1>2. free' = Append(free, s) /\ kv' = [memory EXCEPT ![s] = << >>]
  BY <1>1
<1>3. free' \in Seq(Slots)
  BY <1>2, AppendProperties
<1>4. /\ kv' \in [Slots -> Seq(Token)]
      /\ \A t \in Slots \ {s} : kv'[t] = memory[t]
  BY <1>2, EmptySeq
<1>5. s \notin SlotsOf(p) /\ SlotsOf(p) \subseteq Slots
  BY DEF Apart
<1>6. Keyed(p, kv')
  <2> DEFINE n == kv'
  <2>1. \A t \in SlotsOf(p) : n[t] = memory[t]
    BY <1>4, <1>5
  <2> HIDE DEF n
  <2>2. Keyed(p, n)
    BY <2>1, KeyedElsewhere
  <2> QED
    BY <2>2 DEF n
<1> QED
  BY <1>1, <1>2, <1>3, <1>4, <1>6

\* PinOrRelease takes slot s from the busy slots; only s, or the slot of a pin
\* that it evicts, changes its memory.
LEMMA PinnedOrReleased ==
  ASSUME IInv, NEW B, NEW s \in Slots, s \notin B, BusySlots = B \cup {s},
         NEW prompt \in Prompts, NEW n \in Nat,
         NEW memory \in [Slots -> Seq(Token)],
         \A t \in Slots \ {s} : memory[t] = kv[t],
         n >= Len(prompt) => IsPrefix(prompt, memory[s]),
         PinOrRelease(s, prompt, n, memory)
  PROVE  /\ free' \in Seq(Slots) /\ pins' \in Seq(Pin)
         /\ kv' \in [Slots -> Seq(Token)]
         /\ Apart(free', pins', B)
         /\ Keyed(pins', kv')
         /\ \A t \in B : kv'[t] = kv[t]
<1> DEFINE known == {i \in DOMAIN pins : pins[i].key = prompt}
           entry == [key |-> prompt, slot |-> s]
<1>1. /\ pins \in Seq(Pin) /\ free \in Seq(Slots)
      /\ Len(pins) \in Nat /\ DOMAIN pins = 1 .. Len(pins)
      /\ pins # << >> => 1 \in DOMAIN pins
  BY PinsTyped DEF IInv, TypeOK
<1>2. Apart(free, pins, B \cup {s})
  BY DEF IInv
<1>3. Keyed(pins, memory)
  <2>1. \A t \in SlotsOf(pins) : memory[t] = kv[t]
    BY <1>2 DEF Apart
  <2> QED
    BY <2>1, KeyedElsewhere DEF IInv
<1>4. B \subseteq Slots
  BY <1>2 DEF Apart
<1>5. entry \in Pin /\ entry.key = prompt /\ entry.slot = s
  BY PinTypes
<1>6. CASE Release(s, memory) /\ UNCHANGED pins
  BY <1>1, <1>2, <1>3, <1>4, <1>6, Released DEF Release
<1>7. CASE Release(s, memory) /\ \E i \in known : pins' = Refreshed(pins, i)
  <2>1. /\ free' \in Seq(Slots) /\ kv' \in [Slots -> Seq(Token)]
        /\ Apart(free', pins, B) /\ Keyed(pins, kv')
        /\ \A t \in Slots \ {s} : kv'[t] = memory[t]
    BY <1>1, <1>2, <1>3, <1>7, Released DEF Release
  <2>2. PICK i \in 1 .. Len(pins) : pins' = Refreshed(pins, i)
    BY <1>1, <1>7
  <2>3. pins' \in Seq(Pin) /\ Apart(free', pins', B)
    BY <1>1, <2>1, <2>2, RefreshedProperties, ApartRefreshed
  <2>4. Keyed(pins', kv')
    BY <1>1, <2>1, <2>2, KeyedRefreshed
  <2> QED
    BY <1>4, <2>1, <2>3, <2>4
<1>8. CASE /\ n >= Len(prompt) /\ known = {} /\ Len(pins) < PinCap
           /\ pins' = Append(pins, entry) /\ kv' = memory /\ UNCHANGED free
  <2>1. pins' \in Seq(Pin)
    BY <1>1, <1>5, <1>8, AppendProperties
  <2>2. Apart(free', pins', B)
    BY <1>1, <1>2, <1>5, <1>8, ApartPinned
  <2>3. Keyed(pins', kv')
    <3>1. \A i \in DOMAIN pins : pins[i].key # entry.key
      BY <1>5, <1>8
    <3>2. IsPrefix(entry.key, memory[entry.slot])
      BY <1>5, <1>8
    <3> HIDE DEF entry
    <3> QED
      BY <1>1, <1>3, <1>5, <1>8, <3>1, <3>2, KeyedPinned
  <2> QED
    BY <1>1, <1>4, <1>8, <2>1, <2>2, <2>3
<1>9. CASE /\ n >= Len(prompt) /\ known = {} /\ Len(pins) >= PinCap /\ PinCap > 0
           /\ pins' = Append(RemoveAt(pins, 1), entry)
           /\ Release(Head(pins).slot, memory)
  <2> DEFINE p == RemoveAt(pins, 1)
             t == pins[1].slot
  <2>1. 1 \in 1 .. Len(pins) /\ Head(pins) = pins[1] /\ t \in Slots
        /\ t \in SlotsOf(pins)
    <3>1. 1 \in 1 .. Len(pins)
      BY <1>1, <1>9, GeometryAssumption
    <3>2. Head(pins) = pins[1] /\ pins[1] \in Pin
      BY <1>1, <3>1, PinsTyped DEF IInv
    <3> QED
      BY <1>1, <3>1, <3>2, PinTypes DEF SlotsOf
  <2>2. /\ p \in Seq(Pin) /\ Len(p) = Len(pins) - 1
        /\ \A j \in DOMAIN p : \E a \in DOMAIN pins : p[j] = pins[a]
    <3>1. /\ p \in Seq(Pin) /\ Len(p) = Len(pins) - 1
          /\ \A j \in 1 .. Len(pins) - 1 :
               p[j] = IF j < 1 THEN pins[j] ELSE pins[j + 1]
      BY <1>1, <2>1, RemoveAtProperties
    <3>2. DOMAIN p = 1 .. Len(pins) - 1
      BY <3>1, LenProperties
    <3> HIDE DEF p
    <3>3. \A j \in DOMAIN p : j + 1 \in DOMAIN pins /\ p[j] = pins[j + 1]
      BY <1>1, <3>1, <3>2
    <3> QED
      BY <3>1, <3>3
  <2>3. SlotsOf(p) = SlotsOf(pins) \ {t}
    BY <1>1, <1>2, <2>1, SlotsOfRemoveAt DEF Apart
  <2>4. Keyed(p, memory)
    BY <1>1, <1>3, <2>1, KeyedEvicted
  <2>5. /\ t # s /\ t \notin B /\ s \notin SlotsOf(pins)
    BY <1>2, <2>1 DEF Apart
  <2>6. t \notin Range(free) /\ Apart(free, p, (B \cup {s}) \cup {t})
    <3>1. /\ IsInjective(free)
          /\ \A j, k \in DOMAIN p : p[j].slot = p[k].slot => j = k
      BY <1>1, <1>2, <2>1, SlotsOfRemoveAt DEF Apart
    <3> QED
      BY <1>2, <2>1, <2>3, <3>1 DEF Apart
  <2> HIDE DEF p, t, entry, known
  <2>7. Release(t, memory)
    BY <1>9, <2>1 DEF t
  <2>8. /\ free' \in Seq(Slots) /\ kv' \in [Slots -> Seq(Token)]
        /\ Apart(free', p, B \cup {s})
        /\ Keyed(p, kv')
        /\ \A u \in Slots \ {t} : kv'[u] = memory[u]
    BY <1>1, <2>1, <2>2, <2>4, <2>5, <2>6, <2>7, Released DEF Release
  <2>9. pins' = Append(p, entry) /\ pins' \in Seq(Pin)
    BY <1>5, <1>9, <2>2, AppendProperties DEF p
  <2>10. Apart(free', pins', B)
    BY <1>5, <2>2, <2>8, <2>9, ApartPinned
  <2>11. Keyed(pins', kv')
    <3>1. \A j \in DOMAIN p : p[j].key # entry.key
      BY <1>5, <1>9, <2>2 DEF known
    <3>2. IsPrefix(entry.key, kv'[entry.slot])
      BY <1>5, <1>9, <2>5, <2>8
    <3>3. Len(p) < PinCap
      BY <1>1, <2>2, GeometryAssumption DEF IInv, Keyed
    <3> QED
      BY <1>5, <2>2, <2>8, <2>9, <3>1, <3>2, <3>3, KeyedPinned
  <2> QED
    BY <1>4, <2>5, <2>8, <2>9, <2>10, <2>11
<1> QED
  BY <1>6, <1>7, <1>8, <1>9 DEF PinOrRelease, Worthwhile

\* Request r is retired; the rows of the step that are left are not r's.
LEMMA RetireStep ==
  ASSUME IInv, NEW r \in DOMAIN states,
         NEW reason \in {"eog", "stop_sequence", "length", "context",
                         "cancelled", "error"},
         NEW out \in Seq(Token), NEW memory \in [Slots -> Seq(Token)],
         \A t \in Slots \ {states[r].slot} : memory[t] = kv[t],
         states[r].nPrefilled >= Len(states[r].prompt)
           => IsPrefix(states[r].prompt, memory[states[r].slot]),
         Retire(r, reason, out, memory),
         DOMAIN todo' \subseteq DOMAIN todo \ {r},
         todo' = [q \in DOMAIN todo' |-> todo[q]],
         stranded' \subseteq 0 .. nextId - 1,
         UNCHANGED <<nextId, refused>>
  PROVE  IInv'
<1> DEFINE s == states[r].slot
           e == [id |-> r, prompt |-> states[r].prompt,
                 params |-> states[r].params, out |-> out, reason |-> reason]
<1>1. /\ s \in Slots /\ states[r].prompt \in Prompts
      /\ states[r].params \in Params /\ states[r].nPrefilled \in Nat
      /\ r \in Nat
  BY RequestTyped DEF IInv, TypeOK
<1>2. /\ states' = Minus(states, r)
      /\ retired' = Archived(e)
      /\ PinOrRelease(s, states[r].prompt, states[r].nPrefilled, memory)
  BY DEF Retire
<1>3. e \in Finished
  BY <1>1 DEF Finished
<1>4. /\ DOMAIN states' = DOMAIN states \ {r}
      /\ \A q \in DOMAIN states' : states'[q] = states[q]
      /\ states' \in [DOMAIN states' -> RequestState]
      /\ s \notin BusySlots'
      /\ BusySlots = BusySlots' \cup {s}
      /\ OneSlotEach'
  BY <1>2, Left
<1> HIDE DEF s, e
<1>5. retired' \in Seq(Finished) /\ Len(retired') <= RetiredLimit
  BY <1>2, <1>3, ArchivedTyped
<1>6. /\ free' \in Seq(Slots) /\ pins' \in Seq(Pin)
      /\ kv' \in [Slots -> Seq(Token)]
      /\ Apart(free', pins', BusySlots')
      /\ Keyed(pins', kv')
      /\ \A t \in BusySlots' : kv'[t] = kv[t]
  <2> DEFINE B == BusySlots'
  <2>1. s \notin B /\ BusySlots = B \cup {s}
    BY <1>4
  <2> HIDE DEF B
  <2>2. /\ free' \in Seq(Slots) /\ pins' \in Seq(Pin)
        /\ kv' \in [Slots -> Seq(Token)]
        /\ Apart(free', pins', B)
        /\ Keyed(pins', kv')
        /\ \A t \in B : kv'[t] = kv[t]
    BY <1>1, <1>2, <2>1, PinnedOrReleased DEF s
  <2> QED
    BY <2>2 DEF B
<1>7. RowsBacked'
  <2>1. \A q \in DOMAIN states' : kv'[states[q].slot] = kv[states[q].slot]
    BY <1>4, <1>6 DEF BusySlots
  <2>2. DOMAIN todo \subseteq DOMAIN states
    BY DEF IInv, TypeOK
  <2>3. ASSUME NEW q \in DOMAIN states' PROVE Backed(states'[q], kv')
    BY <1>4, <2>1 DEF IInv, RowsBacked, Backed
  <2>4. ASSUME NEW q \in DOMAIN todo'
        PROVE  RowReady(states'[q], todo'[q], kv')
    <3>1. q \in DOMAIN todo /\ q \in DOMAIN states' /\ todo'[q] = todo[q]
      BY <1>4, <2>2
    <3>2. states'[q] = states[q] /\ kv'[states[q].slot] = kv[states[q].slot]
      BY <1>4, <2>1, <3>1
    <3> QED
      BY <3>1, <3>2 DEF IInv, RowsBacked, RowReady
  <2> QED
    BY <2>3, <2>4 DEF RowsBacked
<1>8. /\ DOMAIN todo' \subseteq DOMAIN states'
      /\ todo' \in [DOMAIN todo' -> Seq(Token)]
  <2>1. DOMAIN todo \subseteq DOMAIN states /\ todo \in [DOMAIN todo -> Seq(Token)]
    BY DEF IInv, TypeOK
  <2>2. \A q \in DOMAIN todo' : todo[q] \in Seq(Token)
    BY <2>1
  <2> QED
    BY <1>4, <2>1, <2>2
<1>9. RetiredLimit' = RetiredLimit
  BY DEF RetiredLimit
<1>10. TypeOK'
  BY <1>4, <1>5, <1>6, <1>8, <1>9 DEF IInv, TypeOK, Pin
<1> QED
  BY <1>4, <1>6, <1>7, <1>10 DEF IInv

\* A prefilled request's prompt is at the head of its slot.
LEMMA PromptHeld ==
  ASSUME IInv, NEW r \in DOMAIN states, NEW held \in Seq(Token),
         Len(held) >= states[r].nPrefilled,
         \A i \in 1 .. states[r].nPrefilled : held[i] = kv[states[r].slot][i],
         states[r].nPrefilled >= Len(states[r].prompt)
  PROVE  IsPrefix(states[r].prompt, held)
<1>1. /\ states[r].prompt \in Seq(Token) /\ Len(states[r].prompt) \in Nat
      /\ states[r].nPrefilled \in Nat
  BY RequestTyped DEF IInv
<1>2. /\ states[r].nPrefilled = Len(states[r].prompt)
      /\ \A i \in 1 .. states[r].nPrefilled :
           kv[states[r].slot][i] = states[r].prompt[i]
  BY <1>1 DEF IInv, RowsBacked, Backed
<1> QED
  BY <1>1, <1>2, PrefixByElements

LEMMA CancelStep ==
  ASSUME IInv, NEW r \in DOMAIN states, Cancel(r)
  PROVE  IInv'
<1>1. /\ Idle /\ Retire(r, "cancelled", states[r].out, kv)
      /\ UNCHANGED <<nextId, todo, stranded, refused>>
  BY DEF Cancel
<1>2. /\ states[r].out \in Seq(Token) /\ kv \in [Slots -> Seq(Token)]
      /\ kv[states[r].slot] \in Seq(Token)
      /\ stranded \subseteq 0 .. nextId - 1
      /\ todo \in [DOMAIN todo -> Seq(Token)]
  BY RequestTyped DEF IInv, TypeOK
<1>3. DOMAIN todo' \subseteq DOMAIN todo \ {r} /\ todo' = [q \in DOMAIN todo' |-> todo[q]]
  BY <1>1, <1>2 DEF Idle
<1>4. states[r].nPrefilled <= Len(kv[states[r].slot])
  BY DEF IInv, RowsBacked, Backed
<1>5. states[r].nPrefilled >= Len(states[r].prompt)
        => IsPrefix(states[r].prompt, kv[states[r].slot])
  BY <1>2, <1>4, PromptHeld, RequestTyped DEF IInv
<1> QED
  BY <1>1, <1>2, <1>3, <1>5, RetireStep

-----------------------------------------------------------------------------
(* One decode. *)

LEMMA DraftsAreSequences ==
  ASSUME NEW d \in DraftSeqs
  PROVE  d \in Seq(Token) /\ Len(d) \in Nat
<1>1. PICK n \in 0 .. MaxDrafts : d \in [1 .. n -> Token]
  BY DEF DraftSeqs, BoundedSeq, SeqOf
<1>2. n \in Nat
  BY GeometryAssumption
<1>3. d \in Seq(Token)
  BY <1>1, <1>2
<1> QED
  BY <1>3, LenProperties

\* A chunk never runs past the end of its prompt.
LEMMA ChunkWithinPrompt ==
  ASSUME IInv, NEW chunk, NEW r \in DOMAIN chunk, r \in DOMAIN states,
         chunk[r] \in 0 .. NBatch, IsPrefillPlan(chunk)
  PROVE  chunk[r] \in Nat
         /\ states[r].nPrefilled + chunk[r] <= Len(states[r].prompt)
<1> DEFINE left == Len(states[r].prompt) - states[r].nPrefilled
           room == Most(0, NCtxSeq - states[r].nPos)
           spare == NBatch - SumFunctionOnSet(chunk, {q \in DOMAIN chunk : q < r})
<1>1. chunk[r] = Least(Least(left, room), spare)
  BY DEF IsPrefillPlan
<1>2. chunk[r] \in Nat /\ NCtxSeq \in Int
  BY GeometryAssumption
<1>3. left \in Int /\ room \in Int
  BY <1>2, RequestTyped DEF IInv, Most
<1> HIDE DEF spare
<1>4. Least(left, room) \in Int /\ Least(left, room) <= left
  BY <1>3 DEF Least
<1>5. chunk[r] <= left
  <2>1. CASE Least(left, room) <= spare
    BY <1>1, <1>4, <2>1 DEF Least
  <2>2. CASE ~ (Least(left, room) <= spare)
    <3>1. chunk[r] = spare /\ spare \in Int
      BY <1>1, <1>2, <2>2 DEF Least
    <3> HIDE DEF left, room
    <3> QED
      BY <1>3, <1>4, <2>2, <3>1
  <2> QED
    BY <2>1, <2>2
<1> QED
  BY <1>2, <1>5, RequestTyped DEF IInv

\* A chunk of prompt q that starts after its first a tokens.
LEMMA ChunkProperties ==
  ASSUME NEW S, NEW q \in Seq(S), NEW a \in Nat, NEW c \in Nat, a + c <= Len(q)
  PROVE  /\ SubSeq(q, a + 1, a + c) \in Seq(S)
         /\ Len(SubSeq(q, a + 1, a + c)) = c
         /\ \A i \in 1 .. c : SubSeq(q, a + 1, a + c)[i] = q[a + i]
<1> DEFINE m == a + 1
           n == a + c
<1>1. m \in Int /\ n \in Int /\ n - m + 1 = c /\ (m <= n <=> c # 0)
  OBVIOUS
<1>2. \A i \in 1 .. c : m + i - 1 = a + i
  OBVIOUS
<1>3. \A i \in m .. n : q[i] \in S
  BY LenProperties, ElementOfSeq
<1> HIDE DEF m, n
<1>4. /\ SubSeq(q, m, n) \in Seq(S)
      /\ Len(SubSeq(q, m, n)) = IF m <= n THEN n - m + 1 ELSE 0
      /\ \A i \in 1 .. n - m + 1 : SubSeq(q, m, n)[i] = q[m + i - 1]
  BY <1>1, <1>3, SubSeqProperties
<1>5. Len(SubSeq(q, m, n)) = c
  BY <1>1, <1>4
<1>6. \A i \in 1 .. c : SubSeq(q, m, n)[i] = q[a + i]
  BY <1>1, <1>2, <1>4
<1> QED
  BY <1>4, <1>5, <1>6 DEF m, n

\* A prefix of prompt q with the next chunk of q after it.
LEMMA PrefixGrows ==
  ASSUME NEW S, NEW q \in Seq(S), NEW held \in Seq(S), NEW more \in Seq(S),
         \A i \in 1 .. Len(held) : held[i] = q[i],
         \A i \in 1 .. Len(more) : more[i] = q[Len(held) + i]
  PROVE  \A i \in 1 .. Len(held) + Len(more) : (held \o more)[i] = q[i]
<1>1. Len(held) \in Nat /\ Len(more) \in Nat
  BY LenProperties
<1>2. \A i \in 1 .. Len(held) + Len(more) :
         (held \o more)[i] = IF i <= Len(held) THEN held[i] ELSE more[i - Len(held)]
  BY ConcatProperties
<1>3. ASSUME NEW i \in 1 .. Len(held) + Len(more), ~ (i <= Len(held))
      PROVE  more[i - Len(held)] = q[i]
  <2>1. /\ i - Len(held) \in 1 .. Len(more)
        /\ Len(held) + (i - Len(held)) = i
    BY <1>1, <1>3
  <2> QED
    BY <2>1
<1> QED
  BY <1>1, <1>2, <1>3

\* What a decode does to one request and its slot.
LEMMA CommittedRow ==
  ASSUME IInv, Idle,
         NEW chunk \in [{q \in DOMAIN states : Prefilling(q)} -> 0 .. NBatch],
         IsPrefillPlan(chunk),
         NEW rows \in SUBSET {q \in DOMAIN states : Generating(q)},
         NEW drafts \in [rows -> DraftSeqs],
         Accepted(chunk, drafts), Committed(chunk, drafts),
         NEW r \in DOMAIN states
  PROVE  /\ states'[r] \in RequestState
         /\ states'[r].slot = states[r].slot
         /\ kv'[states[r].slot] \in Seq(Token)
         /\ Backed(states'[r], kv')
         /\ r \in DOMAIN todo' => /\ todo'[r] \in Seq(Token)
                                  /\ RowReady(states'[r], todo'[r], kv')
<1> DEFINE req == states[r]
           new == states'[r]
           s == req.slot
           old == kv[s]
           now == kv'[s]
           added == Packed(r, chunk, drafts)
           reached == IF r \in DOMAIN chunk THEN req.nPrefilled + chunk[r]
                      ELSE req.nPrefilled
<1>1. /\ req \in RequestState /\ s \in Slots /\ s \in BusySlots
      /\ req.prompt \in Seq(Token) /\ Len(req.prompt) \in Nat
      /\ req.nPrefilled \in Nat /\ req.nPos \in Nat
      /\ req.next \in Token \cup {NoToken}
      /\ old \in Seq(Token) /\ Len(old) \in Nat
  BY RequestTyped DEF IInv
<1>2. /\ req.nPrefilled <= Len(req.prompt)
      /\ req.nPrefilled <= req.nPos
      /\ Prefilling(r) => req.nPos = req.nPrefilled
      /\ req.nPrefilled <= Len(old)
      /\ \A i \in 1 .. req.nPrefilled : old[i] = req.prompt[i]
  BY DEF IInv, RowsBacked, Backed, Prefilling
<1>3. DOMAIN chunk = {q \in DOMAIN states : Prefilling(q)} /\ DOMAIN drafts = rows
  OBVIOUS
<1>4. new = [req EXCEPT !.nPos = req.nPos + Len(added), !.nPrefilled = reached]
  BY DEF Committed
<1>5. now = old \o added
  <2> DEFINE owner == CHOOSE q \in DOMAIN states : states[q].slot = s
  <2>1. owner = r
    BY DEF IInv, OneSlotEach
  <2>2. now = kv[s] \o Packed(owner, chunk, drafts)
    BY <1>1, Zenon DEF Committed
  <2> QED
    BY <2>1, <2>2
<1>6. /\ DOMAIN todo' = Completed(chunk) \cup DOMAIN drafts
      /\ r \in DOMAIN todo' =>
           todo'[r] = IF r \in DOMAIN drafts THEN drafts[r] ELSE << >>
  BY DEF Committed
<1>7. added # << >> => req.nPos = Len(old)
  BY DEF Accepted
<1>8. << >> \in Seq(Token) /\ Len(<< >>) = 0
  BY EmptySeq
<1> HIDE DEF added, reached
<1>9. ASSUME added \in Seq(Token), Len(added) \in Nat, reached \in Nat
       PROVE  /\ new \in RequestState
              /\ new.slot = s
              /\ new.prompt = req.prompt
              /\ new.nPos = req.nPos + Len(added)
              /\ new.nPrefilled = reached
              /\ now \in Seq(Token)
              /\ Len(now) = Len(old) + Len(added)
              /\ \A i \in 1 .. Len(old) : now[i] = old[i]
  <2>1. req.nPos + Len(added) \in Nat
    BY <1>1, <1>9
  <2>2. /\ old \o added \in Seq(Token)
        /\ Len(old \o added) = Len(old) + Len(added)
        /\ \A i \in 1 .. Len(old) + Len(added) :
             (old \o added)[i] = IF i <= Len(old) THEN old[i]
                                 ELSE added[i - Len(old)]
    BY <1>1, <1>9, ConcatProperties
  <2>3. /\ now \in Seq(Token)
        /\ Len(now) = Len(old) + Len(added)
        /\ \A i \in 1 .. Len(old) + Len(added) :
             now[i] = IF i <= Len(old) THEN old[i] ELSE added[i - Len(old)]
    BY <1>5, <2>2
  <2> HIDE DEF now, old
  <2>4. \A i \in 1 .. Len(old) : now[i] = old[i]
    BY <1>1, <1>9, <2>3
  <2>5. /\ new \in RequestState /\ new.slot = s /\ new.prompt = req.prompt
        /\ new.nPos = req.nPos + Len(added) /\ new.nPrefilled = reached
    <3> DEFINE n == req.nPos + Len(added)
    <3>1. n \in Nat /\ new = [req EXCEPT !.nPos = n, !.nPrefilled = reached]
      BY <1>4, <2>1
    <3> HIDE DEF n, req, new
    <3>2. /\ new \in RequestState /\ new.slot = s /\ new.prompt = req.prompt
          /\ new.nPos = n /\ new.nPrefilled = reached
      BY <1>1, <1>9, <3>1 DEF RequestState
    <3> QED
      BY <3>2 DEF n
  <2> QED
    BY <2>3, <2>4, <2>5
<1>10. ASSUME new.slot = s, new.nPrefilled <= Len(new.prompt),
              new.nPrefilled <= new.nPos,
              new.nPrefilled < Len(new.prompt) => new.nPos = new.nPrefilled,
              new.nPrefilled <= Len(now),
              \A i \in 1 .. new.nPrefilled : now[i] = new.prompt[i]
       PROVE  Backed(new, kv')
  BY <1>10, Zenon DEF Backed
<1>11. ASSUME new.slot = s, NEW d, new.nPrefilled = Len(new.prompt),
              new.nPos = Len(now), Len(new.prompt) + Len(d) <= new.nPos
       PROVE  RowReady(new, d, kv')
  BY <1>11, Zenon DEF RowReady
<1>12. CASE r \in DOMAIN chunk
  <2> DEFINE c == chunk[r]
  <2>1. /\ c \in Nat /\ req.nPrefilled + c <= Len(req.prompt)
        /\ reached = req.nPrefilled + c
    BY <1>12, ChunkWithinPrompt DEF reached
  <2>2. added = SubSeq(req.prompt, req.nPrefilled + 1, req.nPrefilled + c)
    BY <1>12 DEF added, Packed
  <2>3. req.nPos = req.nPrefilled
    BY <1>2, <1>3, <1>12
  <2>4. r \notin DOMAIN drafts
    BY <1>3, <1>12 DEF Generating
  <2> HIDE DEF c
  <2>5. /\ added \in Seq(Token) /\ Len(added) = c
        /\ \A i \in 1 .. c : added[i] = req.prompt[req.nPrefilled + i]
    <3> DEFINE q == req.prompt
               a == req.nPrefilled
    <3>1. q \in Seq(Token) /\ a \in Nat /\ a + c <= Len(q)
      BY <1>1, <2>1
    <3>2. added = SubSeq(q, a + 1, a + c)
      BY <2>2
    <3> HIDE DEF q, a
    <3>3. /\ added \in Seq(Token) /\ Len(added) = c
          /\ \A i \in 1 .. c : added[i] = q[a + i]
      BY <2>1, <3>1, <3>2, ChunkProperties
    <3> QED
      BY <3>3 DEF q, a
  <2>6. /\ new \in RequestState /\ new.slot = s /\ new.prompt = req.prompt
        /\ new.nPos = req.nPos + c /\ new.nPrefilled = req.nPrefilled + c
        /\ now \in Seq(Token) /\ Len(now) = Len(old) + c
        /\ \A i \in 1 .. Len(old) : now[i] = old[i]
    <3>1. reached \in Nat /\ reached = req.nPrefilled + c /\ c \in Nat
      BY <1>1, <2>1
    <3> HIDE DEF req, new, now, old
    <3> QED
      BY <1>9, <2>5, <3>1
  <2>7. c > 0 => Len(old) = req.nPrefilled
    <3>1. c > 0 => added # << >>
      BY <1>8, <2>5
    <3> QED
      BY <1>7, <2>3, <3>1
  <2>8. \A i \in 1 .. req.nPrefilled + c : now[i] = req.prompt[i]
    <3>1. CASE c = 0
      BY <1>1, <1>2, <2>6, <3>1
    <3>2. CASE c > 0
      <4>1. /\ \A i \in 1 .. Len(old) : old[i] = req.prompt[i]
            /\ \A i \in 1 .. Len(added) : added[i] = req.prompt[Len(old) + i]
        BY <1>2, <2>5, <2>7, <3>2
      <4>2. \A i \in 1 .. Len(old) + Len(added) : (old \o added)[i] = req.prompt[i]
        BY <1>1, <2>5, <4>1, PrefixGrows
      <4> QED
        BY <1>5, <2>5, <2>7, <3>2, <4>2
    <3> QED
      BY <2>1, <3>1, <3>2
  <2>9. req.nPrefilled + c <= Len(now)
    BY <1>1, <1>2, <2>1, <2>6
  <2>10. Backed(new, kv')
    <3> HIDE DEF req, new, now
    <3>1. /\ new.nPrefilled <= Len(new.prompt) /\ new.nPrefilled <= new.nPos
          /\ new.nPos = new.nPrefilled /\ new.nPrefilled <= Len(now)
      BY <1>1, <2>1, <2>3, <2>6, <2>9
    <3>2. \A i \in 1 .. new.nPrefilled : now[i] = new.prompt[i]
      BY <2>6, <2>8
    <3> QED
      BY <1>10, <2>6, <3>1, <3>2
  <2>11. ASSUME r \in DOMAIN todo'
         PROVE  todo'[r] \in Seq(Token) /\ RowReady(new, todo'[r], kv')
    <3>1. /\ c > 0 /\ req.nPrefilled + c >= Len(req.prompt)
          /\ todo'[r] = << >>
      BY <1>6, <2>4, <2>11 DEF Completed, c
    <3> HIDE DEF req, new, now, old
    <3>2. req.nPrefilled + c = Len(req.prompt)
      <4>1. /\ req.nPrefilled \in Nat /\ Len(req.prompt) \in Nat /\ c \in Nat
            /\ req.nPrefilled + c <= Len(req.prompt)
        BY <1>1, <2>1
      <4> QED
        BY <3>1, <4>1
    <3>3. /\ new.nPos = req.nPrefilled + c
          /\ Len(now) = req.nPrefilled + c
      BY <2>3, <2>6, <2>7, <3>1
    <3>4. /\ new.nPrefilled = Len(new.prompt) /\ Len(new.prompt) \in Nat
          /\ Len(new.prompt) = req.nPrefilled + c
      BY <1>1, <2>6, <3>2
    <3>5. /\ new.nPrefilled = Len(new.prompt) /\ new.nPos = Len(now)
          /\ Len(new.prompt) + Len(<< >>) <= new.nPos
      BY <1>8, <3>3, <3>4
    <3> QED
      BY <1>8, <1>11, <2>6, <3>1, <3>5
  <2> QED
    BY <2>6, <2>10, <2>11
<1>13. CASE r \in DOMAIN drafts /\ r \notin DOMAIN chunk
  <2> DEFINE d == drafts[r]
  <2>1. d \in Seq(Token) /\ Len(d) \in Nat
    BY <1>3, <1>13, DraftsAreSequences
  <2>2. reached = req.nPrefilled /\ added = <<req.next>> \o d
    BY <1>13 DEF reached, added, Packed
  <2>3. req.next \in Token /\ req.nPrefilled = Len(req.prompt)
    BY <1>1, <1>2, <1>3, <1>13 DEF Generating, Prefilling
  <2>4. r \in DOMAIN todo' /\ todo'[r] = d
    BY <1>6, <1>13
  <2> HIDE DEF d
  <2>5. added \in Seq(Token) /\ Len(added) = 1 + Len(d)
    <3>1. <<req.next>> \in Seq(Token) /\ Len(<<req.next>>) = 1
      BY <2>3
    <3> QED
      BY <2>1, <2>2, <3>1, ConcatProperties
  <2>6. req.nPos = Len(old)
    <3>1. added # << >>
      BY <1>8, <2>1, <2>5
    <3> QED
      BY <1>7, <3>1
  <2>7. /\ new \in RequestState /\ new.slot = s /\ new.prompt = req.prompt
        /\ new.nPos = req.nPos + Len(added) /\ new.nPrefilled = req.nPrefilled
        /\ now \in Seq(Token) /\ Len(now) = Len(old) + Len(added)
        /\ \A i \in 1 .. Len(old) : now[i] = old[i]
    <3>1. Len(added) \in Nat /\ reached \in Nat
      BY <1>1, <2>1, <2>2, <2>5
    <3>2. reached = req.nPrefilled /\ added \in Seq(Token)
      BY <2>2, <2>5
    <3> HIDE DEF req, new, now, old
    <3> QED
      BY <1>9, <3>1, <3>2
  <2> HIDE DEF req, new, now, old
  <2>8. Backed(new, kv')
    <3>1. \A i \in 1 .. new.nPrefilled : now[i] = new.prompt[i]
      BY <1>1, <1>2, <2>7
    <3>2. /\ new.nPrefilled = Len(new.prompt)
          /\ new.nPrefilled <= new.nPos /\ new.nPrefilled <= Len(now)
      BY <1>1, <1>2, <2>1, <2>3, <2>5, <2>7
    <3> QED
      <4>1. Len(new.prompt) \in Nat
        BY <1>1, <2>7
      <4>2. ~ (new.nPrefilled < Len(new.prompt)) /\ new.nPrefilled <= Len(new.prompt)
        BY <3>2, <4>1
      <4> QED
        BY <1>10, <2>7, <3>1, <3>2, <4>2
  <2>9. RowReady(new, todo'[r], kv')
    <3>1. /\ new.nPrefilled = Len(new.prompt) /\ new.nPos = Len(now)
          /\ Len(new.prompt) + Len(d) <= new.nPos
      BY <1>1, <1>2, <2>1, <2>3, <2>5, <2>6, <2>7
    <3> QED
      BY <1>11, <2>4, <2>7, <3>1
  <2> QED
    BY <2>1, <2>4, <2>7, <2>8, <2>9 DEF req, new, now
<1>14. CASE r \notin DOMAIN drafts /\ r \notin DOMAIN chunk
  <2>1. reached = req.nPrefilled /\ added = << >>
    BY <1>14 DEF reached, added, Packed
  <2>2. r \notin DOMAIN todo'
    BY <1>6, <1>14 DEF Completed
  <2>3. added \in Seq(Token) /\ Len(added) = 0
    BY <1>8, <2>1
  <2>4. /\ new \in RequestState /\ new.slot = s /\ new.prompt = req.prompt
        /\ new.nPos = req.nPos + 0 /\ new.nPrefilled = req.nPrefilled
        /\ now \in Seq(Token) /\ Len(now) = Len(old) + 0
        /\ \A i \in 1 .. Len(old) : now[i] = old[i]
    <3>1. reached \in Nat /\ reached = req.nPrefilled
      BY <1>1, <2>1
    <3> HIDE DEF req, new, now, old
    <3> QED
      BY <1>9, <2>3, <3>1
  <2>5. Prefilling(r) <=> req.nPrefilled < Len(req.prompt)
    BY DEF Prefilling
  <2> HIDE DEF req, new, now, old
  <2>6. Backed(new, kv')
    <3>1. /\ new.nPrefilled <= Len(new.prompt) /\ new.nPrefilled <= new.nPos
          /\ new.nPrefilled < Len(new.prompt) => new.nPos = new.nPrefilled
          /\ new.nPrefilled <= Len(now)
      BY <1>1, <1>2, <2>4, <2>5
    <3>2. \A i \in 1 .. new.nPrefilled : now[i] = new.prompt[i]
      BY <1>1, <1>2, <2>4
    <3> QED
      BY <1>10, <2>4, <3>1, <3>2
  <2> QED
    BY <2>2, <2>4, <2>6 DEF req, new, now
<1> QED
  BY <1>12, <1>13, <1>14

LEMMA DecodeStep ==
  ASSUME IInv, Decode
  PROVE  IInv'
<1>1. Idle /\ UNCHANGED <<nextId, free, retired, pins, stranded>>
  BY DEF Decode
<1>2. PICK chunk \in [{r \in DOMAIN states : Prefilling(r)} -> 0 .. NBatch] :
        LET left == NBatch - SumFunction(chunk)
            rows == DecodeRows(left)
        IN  /\ IsPrefillPlan(chunk)
            /\ \E drafts \in [rows -> DraftSeqs] :
                 IF Accepted(chunk, drafts)
                 THEN Committed(chunk, drafts)
                 ELSE Refused
  BY DEF Decode
<1> DEFINE rows == DecodeRows(NBatch - SumFunction(chunk))
<1>3. PICK drafts \in [rows -> DraftSeqs] :
        IF Accepted(chunk, drafts) THEN Committed(chunk, drafts) ELSE Refused
  BY <1>2
<1>4. rows \in SUBSET {r \in DOMAIN states : Generating(r)}
  BY DEF DecodeRows
<1> HIDE DEF rows
<1>5. CASE Accepted(chunk, drafts) /\ Committed(chunk, drafts)
  <2>1. ASSUME NEW r \in DOMAIN states
        PROVE  /\ states'[r] \in RequestState
               /\ states'[r].slot = states[r].slot
               /\ kv'[states[r].slot] \in Seq(Token)
               /\ Backed(states'[r], kv')
               /\ r \in DOMAIN todo' => /\ todo'[r] \in Seq(Token)
                                        /\ RowReady(states'[r], todo'[r], kv')
    BY <1>1, <1>2, <1>4, <1>5, CommittedRow
  <2>2. /\ DOMAIN states' = DOMAIN states
        /\ states' = [r \in DOMAIN states |-> states'[r]]
        /\ DOMAIN todo' = Completed(chunk) \cup DOMAIN drafts
        /\ todo' = [r \in DOMAIN todo' |-> todo'[r]]
        /\ UNCHANGED refused
    BY <1>5 DEF Committed
  <2>3. DOMAIN todo' \subseteq DOMAIN states
    BY <1>4, <2>2 DEF Completed
  <2>4. BusySlots' = BusySlots /\ OneSlotEach'
    BY <2>1, <2>2 DEF BusySlots, IInv, OneSlotEach
  <2>5. /\ kv' = [t \in Slots |-> kv'[t]]
        /\ \A t \in Slots \ BusySlots : kv'[t] = kv[t]
    <3> DEFINE now(t) ==
                 IF t \in BusySlots
                 THEN LET r == CHOOSE r \in DOMAIN states : states[r].slot = t
                      IN  kv[t] \o Packed(r, chunk, drafts)
                 ELSE kv[t]
    <3>1. kv' = [t \in Slots |-> now(t)]
      BY <1>5, Zenon DEF Committed
    <3>2. \A t \in Slots \ BusySlots : now(t) = kv[t]
      OBVIOUS
    <3> HIDE DEF now
    <3> QED
      BY <3>1, <3>2
  <2>6. kv' \in [Slots -> Seq(Token)]
    <3>1. \A t \in BusySlots : kv'[t] \in Seq(Token)
      BY <2>1 DEF BusySlots
    <3>2. \A t \in Slots : kv[t] \in Seq(Token)
      BY DEF IInv, TypeOK
    <3>3. \A t \in Slots : kv'[t] \in Seq(Token)
      BY <2>5, <3>1, <3>2
    <3> QED
      BY <2>5, <3>3
  <2>7. Keyed(pins, kv')
    <3> DEFINE p == pins
               n == kv'
    <3>1. \A t \in SlotsOf(p) : n[t] = kv[t]
      BY <2>5 DEF IInv, Apart
    <3>2. Keyed(p, kv)
      BY DEF IInv
    <3> HIDE DEF p, n
    <3>3. Keyed(p, n)
      BY <3>1, <3>2, KeyedElsewhere
    <3> QED
      BY <3>3 DEF p, n
  <2>8. RowsBacked'
    BY <2>1, <2>2, <2>3 DEF RowsBacked
  <2>9. /\ states' \in [DOMAIN states' -> RequestState]
        /\ todo' \in [DOMAIN todo' -> Seq(Token)]
    BY <2>1, <2>2, <2>3
  <2>10. RetiredLimit' = RetiredLimit
    BY DEF RetiredLimit
  <2>11. TypeOK'
    BY <1>1, <2>2, <2>3, <2>6, <2>9, <2>10 DEF IInv, TypeOK
  <2> QED
    BY <1>1, <2>4, <2>7, <2>8, <2>11 DEF IInv
<1>6. CASE Refused
  BY <1>1, <1>6 DEF Refused, IInv, TypeOK, RowsBacked, OneSlotEach, BusySlots,
     RetiredLimit
<1> QED
  BY <1>3, <1>5, <1>6

-----------------------------------------------------------------------------
(* The rows of a step. *)

LEMMA NextRowProperties ==
  ASSUME IInv, ~Idle
  PROVE  NextRow \in DOMAIN todo /\ NextRow \in DOMAIN states
<1>1. DOMAIN todo # {} /\ DOMAIN todo \subseteq DOMAIN states
      /\ DOMAIN states \subseteq Nat
  <2>1. DOMAIN todo # {}
    BY DEF Idle
  <2>2. /\ DOMAIN todo \subseteq DOMAIN states
        /\ DOMAIN states \subseteq 0 .. nextId - 1 /\ nextId \in Nat
    BY DEF IInv, TypeOK
  <2>3. 0 .. nextId - 1 \subseteq Nat
    BY <2>2
  <2> QED
    BY <2>1, <2>2, <2>3
<1> DEFINE completed == {r \in DOMAIN todo : states[r].next = NoToken}
<1>2. completed # {} => Min(completed) \in DOMAIN todo
  BY <1>1, LeastNumber
<1>3. Min(DOMAIN todo) \in DOMAIN todo
  BY <1>1, LeastNumber
<1>4. NextRow \in DOMAIN todo
  BY <1>2, <1>3 DEF NextRow
<1> QED
  BY <1>1, <1>4

\* Row r is cut back to the accepted tokens, of which m are drafts.
LEMMA RewoundRow ==
  ASSUME IInv, NEW r \in DOMAIN todo, r \in DOMAIN states,
         NEW m \in 0 .. Len(todo[r]), NEW final,
         final = states[r].nPos - Len(todo[r]) + m,
         NEW memory, memory = Rewound(states[r].slot, final)
  PROVE  /\ final \in Nat /\ final >= Len(states[r].prompt)
         /\ memory \in [Slots -> Seq(Token)]
         /\ \A t \in Slots \ {states[r].slot} : memory[t] = kv[t]
         /\ Len(memory[states[r].slot]) = final
         /\ \A i \in 1 .. final :
              memory[states[r].slot][i] = kv[states[r].slot][i]
<1> DEFINE s == states[r].slot
           held == kv[s]
           cut == SubSeq(held, 1, final)
<1>1. /\ s \in Slots /\ held \in Seq(Token) /\ Len(held) \in Nat
      /\ states[r].nPos \in Nat /\ Len(states[r].prompt) \in Nat
      /\ todo[r] \in Seq(Token) /\ Len(todo[r]) \in Nat
      /\ kv \in [Slots -> Seq(Token)]
  BY RequestTyped, LenProperties DEF IInv, TypeOK
<1>2. /\ states[r].nPos = Len(held)
      /\ Len(states[r].prompt) + Len(todo[r]) <= states[r].nPos
  BY DEF IInv, RowsBacked, RowReady
<1>3. /\ final \in Nat /\ final >= Len(states[r].prompt)
      /\ final <= Len(held)
  BY <1>1, <1>2
<1>4. memory = [kv EXCEPT ![s] = cut]
  BY <1>1 DEF Rewound
<1> HIDE DEF s, held
<1>5. /\ cut \in Seq(Token) /\ Len(cut) = final
      /\ \A i \in 1 .. final : cut[i] = held[i]
  <2>1. \A i \in 1 .. final : held[i] \in Token
    BY <1>1, <1>3, ElementOfSeq
  <2>2. /\ cut \in Seq(Token)
        /\ Len(cut) = IF 1 <= final THEN final - 1 + 1 ELSE 0
        /\ \A i \in 1 .. final - 1 + 1 : cut[i] = held[1 + i - 1]
    BY <1>3, <2>1, SubSeqProperties
  <2>3. final - 1 + 1 = final /\ \A i \in 1 .. final : 1 + i - 1 = i
    BY <1>3
  <2> HIDE DEF cut
  <2> QED
    BY <1>3, <2>2, <2>3
<1> HIDE DEF cut
<1>6. /\ memory \in [Slots -> Seq(Token)] /\ memory[s] = cut
      /\ \A t \in Slots \ {s} : memory[t] = kv[t]
  BY <1>1, <1>4, <1>5
<1> QED
  BY <1>3, <1>5, <1>6 DEF s, held

\* Row r goes on: only its own request and slot change.
LEMMA RowGoesOn ==
  ASSUME IInv, NEW r \in DOMAIN todo, r \in DOMAIN states,
         NEW m \in 0 .. Len(todo[r]), NEW final,
         final = states[r].nPos - Len(todo[r]) + m,
         NEW token \in Token, NEW accepted \in Seq(Token),
         states' = [states EXCEPT ![r].out = @ \o accepted,
                                  ![r].next = token,
                                  ![r].nPos = final],
         kv' = Rewound(states[r].slot, final),
         DOMAIN todo' \subseteq DOMAIN todo \ {r},
         todo' = [q \in DOMAIN todo' |-> todo[q]],
         stranded' \subseteq 0 .. nextId - 1,
         UNCHANGED <<nextId, free, retired, pins, refused>>
  PROVE  IInv'
<1> DEFINE req == states[r]
           s == req.slot
           new == states'[r]
           memory == Rewound(s, final)
<1>1. /\ req \in RequestState /\ s \in Slots /\ s \in BusySlots
      /\ req.prompt \in Seq(Token) /\ Len(req.prompt) \in Nat
      /\ req.nPrefilled \in Nat /\ req.out \in Seq(Token)
      /\ kv[s] \in Seq(Token)
  BY RequestTyped DEF IInv
<1>2. /\ final \in Nat /\ final >= Len(req.prompt)
      /\ memory \in [Slots -> Seq(Token)]
      /\ \A t \in Slots \ {s} : memory[t] = kv[t]
      /\ Len(memory[s]) = final
      /\ \A i \in 1 .. final : memory[s][i] = kv[s][i]
  BY RewoundRow
<1> HIDE DEF memory
<1>3. kv' = memory
  BY DEF memory
<1>4. req.nPrefilled = Len(req.prompt)
      /\ \A i \in 1 .. req.nPrefilled : kv[s][i] = req.prompt[i]
  BY DEF IInv, RowsBacked, RowReady, Backed
<1>5. req.out \o accepted \in Seq(Token)
  BY <1>1, ConcatProperties
<1>6. /\ DOMAIN states' = DOMAIN states
      /\ \A q \in DOMAIN states : q # r => states'[q] = states[q]
      /\ new = [req EXCEPT !.out = req.out \o accepted, !.next = token,
                           !.nPos = final]
      /\ states' = [q \in DOMAIN states |-> states'[q]]
  OBVIOUS
<1>7. /\ new \in RequestState /\ new.slot = s /\ new.prompt = req.prompt
      /\ new.nPrefilled = req.nPrefilled /\ new.nPos = final
  <2> DEFINE longer == req.out \o accepted
  <2>1. /\ longer \in Seq(Token)
        /\ new = [req EXCEPT !.out = longer, !.next = token, !.nPos = final]
    BY <1>5, <1>6
  <2> HIDE DEF new, req, longer
  <2> QED
    BY <1>1, <1>2, <2>1 DEF RequestState
<1>8. /\ \A q \in DOMAIN todo' : todo'[q] = todo[q] /\ q \in DOMAIN todo /\ q # r
      /\ todo' = [q \in DOMAIN todo' |-> todo'[q]]
  OBVIOUS
<1>9. ASSUME NEW q \in DOMAIN states, q # r
      PROVE  kv'[states[q].slot] = kv[states[q].slot]
  <2>1. states[q].slot \in Slots /\ states[q].slot # s
    BY <1>9, RequestTyped DEF IInv, OneSlotEach
  <2> QED
    BY <1>2, <1>3, <2>1
<1>10. Backed(new, kv')
  <2>1. /\ new.nPrefilled = Len(new.prompt) /\ new.nPrefilled <= new.nPos
        /\ new.nPrefilled <= Len(memory[s])
        /\ \A i \in 1 .. new.nPrefilled : memory[s][i] = new.prompt[i]
    <3> HIDE DEF new, req, s
    <3> QED
      BY <1>1, <1>2, <1>4, <1>7
  <2>2. Len(new.prompt) \in Nat
    BY <1>1, <1>7
  <2> HIDE DEF new
  <2> QED
    BY <1>3, <1>7, <2>1, <2>2 DEF Backed
<1>11. RowsBacked'
  <2>1. ASSUME NEW q \in DOMAIN states, q # r PROVE Backed(states'[q], kv')
    BY <1>6, <1>9, <2>1 DEF IInv, RowsBacked, Backed
  <2>2. ASSUME NEW q \in DOMAIN todo'
        PROVE  RowReady(states'[q], todo'[q], kv')
    <3>1. q \in DOMAIN todo /\ q \in DOMAIN states /\ q # r /\ todo'[q] = todo[q]
      BY <1>8 DEF IInv, TypeOK
    <3>2. states'[q] = states[q] /\ kv'[states[q].slot] = kv[states[q].slot]
      BY <1>6, <1>9, <3>1
    <3> QED
      BY <3>1, <3>2 DEF IInv, RowsBacked, RowReady
  <2> QED
    BY <1>6, <1>10, <2>1, <2>2 DEF RowsBacked
<1>12. BusySlots' = BusySlots /\ OneSlotEach'
  <2>1. \A q \in DOMAIN states : states'[q].slot = states[q].slot
    BY <1>6, <1>7
  <2> QED
    BY <1>6, <2>1 DEF BusySlots, IInv, OneSlotEach
<1>13. Keyed(pins, kv')
  <2> DEFINE p == pins
  <2>1. \A t \in SlotsOf(p) : memory[t] = kv[t]
    BY <1>1, <1>2 DEF IInv, Apart
  <2>2. Keyed(p, kv)
    BY DEF IInv
  <2> HIDE DEF p
  <2>3. Keyed(p, memory)
    BY <2>1, <2>2, KeyedElsewhere
  <2> QED
    BY <1>3, <2>3 DEF p
<1>14. /\ states' \in [DOMAIN states' -> RequestState]
       /\ DOMAIN todo' \subseteq DOMAIN states'
       /\ todo' \in [DOMAIN todo' -> Seq(Token)]
  <2>1. \A q \in DOMAIN states : states'[q] \in RequestState
    BY <1>6, <1>7, RequestTyped DEF IInv
  <2>2. /\ DOMAIN todo \subseteq DOMAIN states
        /\ \A q \in DOMAIN todo : todo[q] \in Seq(Token)
    BY DEF IInv, TypeOK
  <2> QED
    BY <1>6, <1>8, <2>1, <2>2
<1>15. RetiredLimit' = RetiredLimit
  BY DEF RetiredLimit
<1>16. TypeOK'
  BY <1>2, <1>3, <1>6, <1>14, <1>15 DEF IInv, TypeOK
<1> QED
  BY <1>11, <1>12, <1>13, <1>16 DEF IInv

\* A retiring row leaves the rest of the step's rows.
LEMMA RowRetires ==
  ASSUME IInv, NEW r \in DOMAIN todo, r \in DOMAIN states,
         NEW m \in 0 .. Len(todo[r]), NEW final,
         final = states[r].nPos - Len(todo[r]) + m,
         NEW reason \in {"eog", "stop_sequence", "length", "context",
                         "cancelled", "error"},
         NEW out \in Seq(Token),
         Retire(r, reason, out, Rewound(states[r].slot, final)),
         DOMAIN todo' \subseteq DOMAIN todo \ {r},
         todo' = [q \in DOMAIN todo' |-> todo[q]],
         stranded' \subseteq 0 .. nextId - 1,
         UNCHANGED <<nextId, refused>>
  PROVE  IInv'
<1> DEFINE memory == Rewound(states[r].slot, final)
           s == states[r].slot
<1>1. /\ final \in Nat /\ final >= Len(states[r].prompt)
      /\ memory \in [Slots -> Seq(Token)]
      /\ \A t \in Slots \ {s} : memory[t] = kv[t]
      /\ Len(memory[s]) = final
      /\ \A i \in 1 .. final : memory[s][i] = kv[s][i]
  <2>1. memory = Rewound(states[r].slot, final)
    OBVIOUS
  <2> HIDE DEF memory
  <2> QED
    BY <2>1, RewoundRow
<1>2. Retire(r, reason, out, memory)
  OBVIOUS
<1> HIDE DEF memory
<1>3. /\ s \in Slots /\ states[r].nPrefilled = Len(states[r].prompt)
      /\ Len(states[r].prompt) \in Nat
  BY RequestTyped DEF IInv, RowsBacked, RowReady
<1>4. states[r].nPrefilled >= Len(states[r].prompt)
        => IsPrefix(states[r].prompt, memory[s])
  <2> DEFINE held == memory[s]
  <2>1. /\ held \in Seq(Token)
        /\ Len(held) >= states[r].nPrefilled
        /\ \A i \in 1 .. states[r].nPrefilled : held[i] = kv[s][i]
    BY <1>1, <1>3
  <2> HIDE DEF held
  <2>2. IsPrefix(states[r].prompt, held)
    BY <1>3, <2>1, PromptHeld
  <2> QED
    BY <2>2 DEF held
<1> QED
  BY <1>1, <1>2, <1>4, RetireStep

\* What verification accepts is m + 1 tokens, and rewinding to them leaves the
\* slot where RewoundRow wants it.
LEMMA ConfirmedTyped ==
  ASSUME IInv, NEW r \in DOMAIN todo, r \in DOMAIN states,
         NEW m \in 0 .. Len(todo[r]), NEW token \in Token
  PROVE  /\ Confirmed(r, m, token) \in Seq(Token)
         /\ Len(Confirmed(r, m, token)) = m + 1
         /\ states[r].nPos - Len(todo[r]) - 1 + Len(Confirmed(r, m, token))
              = states[r].nPos - Len(todo[r]) + m
<1> DEFINE drafts == todo[r]
           n == Len(drafts)
           pos == states[r].nPos
           accepted == Append(SubSeq(drafts, 1, m), token)
<1>1. drafts \in Seq(Token) /\ n \in Nat /\ pos \in Nat /\ m \in 0 .. n
  BY RequestTyped, LenProperties DEF IInv, TypeOK
<1> HIDE DEF n
<1>2. accepted \in Seq(Token) /\ Len(accepted) = m + 1
  <2>1. \A i \in 1 .. m : drafts[i] \in Token
    BY <1>1, ElementOfSeq DEF n
  <2>2. /\ SubSeq(drafts, 1, m) \in Seq(Token)
        /\ Len(SubSeq(drafts, 1, m)) = IF 1 <= m THEN m - 1 + 1 ELSE 0
    BY <1>1, <2>1, SubSeqProperties
  <2> QED
    BY <1>1, <2>2, AppendProperties
<1>3. Confirmed(r, m, token) = accepted
  BY DEF Confirmed
<1> HIDE DEF pos, accepted
<1>4. pos - n - 1 + Len(accepted) = pos - n + m
  BY <1>1, <1>2
<1> QED
  BY <1>2, <1>3, <1>4 DEF n, pos

\* A verified row, whether its request goes on or retires.
LEMMA AcceptStep ==
  ASSUME IInv, NEW r \in DOMAIN todo, r \in DOMAIN states,
         NEW m \in 0 .. Len(todo[r]), NEW token \in Token, NEW h,
         Accept(r, m, token, h),
         DOMAIN todo' \subseteq DOMAIN todo \ {r},
         todo' = [q \in DOMAIN todo' |-> todo[q]],
         stranded' \subseteq 0 .. nextId - 1,
         UNCHANGED <<nextId, refused>>
  PROVE  IInv'
<1> DEFINE drafts == todo[r]
           base == states[r].nPos - Len(drafts) - 1
<1>1. m \in 0 .. Len(drafts)
  OBVIOUS
<1> DEFINE accepted == Confirmed(r, m, token)
           final == base + Len(accepted)
           reason(i) == Reason(r, accepted[i], h = i, Len(states[r].out) + i,
                               CheckedPos(drafts, base, i))
           ends == {i \in 1 .. m + 1 : reason(i) # "none"}
<1>2. /\ drafts \in Seq(Token) /\ Len(drafts) \in Nat
      /\ states[r].nPos \in Nat /\ states[r].out \in Seq(Token)
  BY RequestTyped, LenProperties DEF IInv, TypeOK
<1>3. accepted \in Seq(Token) /\ Len(accepted) = m + 1
  BY ConfirmedTyped
<1>4. final = states[r].nPos - Len(drafts) + m
  BY ConfirmedTyped
<1>5. IF ends = {}
      THEN /\ states' = [states EXCEPT
                           ![r].out = @ \o accepted,
                           ![r].next = token,
                           ![r].nPos = final]
           /\ kv' = Rewound(states[r].slot, final)
           /\ UNCHANGED <<free, retired, pins>>
      ELSE LET k == Min(ends)
               kept == IF accepted[k] = Eog THEN k - 1 ELSE k
           IN  Retire(r, reason(k), states[r].out \o SubSeq(accepted, 1, kept),
                      Rewound(states[r].slot, final))
  BY Zenon DEF Accept
<1> HIDE DEF accepted, final
<1>6. CASE ends = {}
  <2>1. /\ states' = [states EXCEPT ![r].out = @ \o accepted,
                                    ![r].next = token,
                                    ![r].nPos = final]
        /\ kv' = Rewound(states[r].slot, final)
        /\ UNCHANGED <<nextId, free, retired, pins, refused>>
    BY <1>5, <1>6
  <2> QED
    BY <1>3, <1>4, <2>1, RowGoesOn
<1>7. CASE ends # {}
  <2> DEFINE k == Min(ends)
             kept == IF accepted[k] = Eog THEN k - 1 ELSE k
             out == states[r].out \o SubSeq(accepted, 1, kept)
             why == reason(k)
  <2>1. k \in 1 .. m + 1 /\ why # "none"
    <3>1. ends \subseteq Nat /\ ends # {}
      BY <1>1, <1>7
    <3>2. Min(ends) \in ends
      BY <3>1, LeastNumber
    <3> QED
      BY <3>2
  <2>2. why \in {"eog", "stop_sequence", "length", "context"}
    BY <2>1, Zenon DEF Reason
  <2>3. Retire(r, why, out, Rewound(states[r].slot, final))
    BY <1>5, <1>7
  <2> HIDE DEF ends, k
  <2>4. kept \in 0 .. m + 1
    BY <1>1, <2>1
  <2> HIDE DEF kept
  <2>5. out \in Seq(Token)
    <3>1. \A i \in 1 .. kept : accepted[i] \in Token
      BY <1>1, <1>3, <2>4, ElementOfSeq
    <3>2. SubSeq(accepted, 1, kept) \in Seq(Token)
      BY <1>1, <2>4, <3>1, SubSeqProperties
    <3> QED
      BY <1>2, <3>2, ConcatProperties
  <2> HIDE DEF why, out
  <2> QED
    BY <1>4, <2>2, <2>3, <2>5, RowRetires
<1> QED
  BY <1>6, <1>7

LEMMA AdvanceStep ==
  ASSUME IInv, Advance
  PROVE  IInv'
<1> DEFINE r == NextRow
<1>1. /\ ~Idle /\ todo' = Minus(todo, r)
      /\ UNCHANGED <<nextId, stranded, refused>>
  BY DEF Advance
<1>2. r \in DOMAIN todo /\ r \in DOMAIN states
  BY <1>1, NextRowProperties
<1>3. PICK m \in 0 .. Len(todo[r]), token \in Token, h \in 0 .. Len(todo[r]) + 1 :
        Accept(r, m, token, h)
  BY DEF Advance
<1> HIDE DEF r
<1>4. /\ DOMAIN todo' \subseteq DOMAIN todo \ {r}
      /\ todo' = [q \in DOMAIN todo' |-> todo[q]]
  BY <1>1 DEF Minus, Restrict
<1>5. stranded' \subseteq 0 .. nextId - 1
  BY <1>1 DEF IInv, TypeOK
<1> QED
  BY <1>1, <1>2, <1>3, <1>4, <1>5, AcceptStep

\* The rows that an exception leaves behind.
LEMMA Aborted ==
  ASSUME IInv, NEW r \in DOMAIN todo, StepAborted(r)
  PROVE  /\ DOMAIN todo' \subseteq DOMAIN todo \ {r}
         /\ todo' = [q \in DOMAIN todo' |-> todo[q]]
         /\ stranded' \subseteq 0 .. nextId - 1
         /\ UNCHANGED <<nextId, refused>>
<1>1. DOMAIN todo' = {} /\ todo' = [q \in DOMAIN todo' |-> todo[q]]
  BY DEF StepAborted
<1>2. stranded' \subseteq 0 .. nextId - 1
  BY DEF StepAborted, IInv, TypeOK
<1> QED
  BY <1>1, <1>2 DEF StepAborted

LEMMA AdvanceFailsStep ==
  ASSUME IInv, AdvanceFails
  PROVE  IInv'
<1> DEFINE r == NextRow
           drafts == todo[r]
           base == states[r].nPos - Len(drafts) - 1
<1>1. ~Idle /\ StepAborted(r)
  BY DEF AdvanceFails
<1>2. PICK m \in 0 .. Len(drafts), token \in Token :
        \E n \in 0 .. m + 1 : RowFails(r, m, token, n)
  BY DEF AdvanceFails
<1>3. PICK n \in 0 .. m + 1 : RowFails(r, m, token, n)
  BY <1>2
<1>4. r \in DOMAIN todo /\ r \in DOMAIN states
  BY <1>1, NextRowProperties
<1> HIDE DEF r
<1> DEFINE accepted == Confirmed(r, m, token)
           final == base + Len(accepted)
           out == states[r].out \o SubSeq(accepted, 1, n)
<1>5. \/ Retire(r, "error", out, Rewound(states[r].slot, final))
      \/ Retire(r, "error", out, kv)
  BY <1>3 DEF RowFails
<1>6. /\ accepted \in Seq(Token) /\ Len(accepted) = m + 1
      /\ final = states[r].nPos - Len(drafts) + m
  BY <1>2, <1>4, ConfirmedTyped
<1> HIDE DEF accepted, final
<1>7. out \in Seq(Token)
  <2>1. m \in Nat /\ states[r].out \in Seq(Token)
    BY <1>2, <1>4, RequestTyped, LenProperties DEF IInv, TypeOK
  <2>2. \A i \in 1 .. n : accepted[i] \in Token
    BY <1>3, <1>6, <2>1, ElementOfSeq
  <2>3. SubSeq(accepted, 1, n) \in Seq(Token)
    BY <1>3, <2>1, <2>2, SubSeqProperties
  <2> QED
    BY <2>1, <2>3, ConcatProperties
<1> HIDE DEF out
<1>8. CASE Retire(r, "error", out, Rewound(states[r].slot, final))
  BY <1>1, <1>2, <1>4, <1>6, <1>7, <1>8, Aborted, RowRetires
<1>9. CASE Retire(r, "error", out, kv)
  <2>1. /\ kv \in [Slots -> Seq(Token)]
        /\ kv[states[r].slot] \in Seq(Token)
        /\ states[r].nPrefilled <= Len(kv[states[r].slot])
    BY <1>4, RequestTyped DEF IInv, TypeOK, RowsBacked, Backed
  <2>2. states[r].nPrefilled >= Len(states[r].prompt)
          => IsPrefix(states[r].prompt, kv[states[r].slot])
    BY <1>4, <2>1, PromptHeld, RequestTyped DEF IInv
  <2> QED
    BY <1>1, <1>4, <1>7, <1>9, <2>1, <2>2, Aborted, RetireStep
<1> QED
  BY <1>5, <1>8, <1>9

LEMMA SyncFailsStep ==
  ASSUME IInv, SyncFails
  PROVE  IInv'
<1> DEFINE r == NextRow
<1>1. ~Idle /\ StepAborted(r)
  BY DEF SyncFails
<1>2. r \in DOMAIN todo /\ r \in DOMAIN states
  BY <1>1, NextRowProperties
<1>3. PICK m \in 0 .. Len(todo[r]), token \in Token : Accept(r, m, token, 0)
  BY DEF SyncFails
<1> HIDE DEF r
<1> QED
  BY <1>1, <1>2, <1>3, Aborted, AcceptStep

-----------------------------------------------------------------------------
(* The theorems. *)

LEMMA InitIInv == Init => IInv
<1> SUFFICES ASSUME Init PROVE IInv
  OBVIOUS
<1>1. /\ states = << >> /\ todo = << >> /\ pins = << >> /\ retired = << >>
      /\ stranded = {} /\ refused = FALSE /\ nextId = 0
      /\ kv = [s \in Slots |-> << >>]
      /\ free = [i \in 1 .. NSeqMax |-> i - 1]
  BY DEF Init
<1>2. DOMAIN states = {} /\ DOMAIN todo = {} /\ DOMAIN pins = {} /\ Len(pins) = 0
  BY <1>1
<1>3. NSeqMax \in Nat \ {0} /\ PinCap \in Nat /\ 0 <= RetiredLimit
  BY GeometryAssumption DEF RetiredLimit, Most
<1>4. free \in Seq(Slots) /\ DOMAIN free = 1 .. NSeqMax
  BY <1>1, <1>3 DEF Slots
<1>5. TypeOK
  <2>1. /\ retired \in Seq(Finished) /\ Len(retired) = 0
        /\ pins \in Seq([key : Prompts, slot : Slots])
        /\ kv \in [Slots -> Seq(Token)]
    BY <1>1, EmptySeq
  <2>2. states \in [DOMAIN states -> RequestState] /\ todo \in [DOMAIN todo -> Seq(Token)]
    BY <1>1, <1>2
  <2> QED
    BY <1>1, <1>2, <1>3, <1>4, <2>1, <2>2 DEF TypeOK
<1>6. Apart(free, pins, BusySlots)
  <2>1. SlotsOf(pins) = {} /\ BusySlots = {}
    BY <1>2 DEF SlotsOf, BusySlots
  <2>2. IsInjective(free)
    BY <1>1, <1>3, <1>4 DEF IsInjective
  <2>3. Range(free) = Slots
    <3>1. \A t \in Slots : t + 1 \in DOMAIN free /\ free[t + 1] = t
      BY <1>1, <1>3, <1>4 DEF Slots
    <3>2. \A i \in DOMAIN free : free[i] \in Slots
      BY <1>1, <1>3, <1>4 DEF Slots
    <3> QED
      BY <3>1, <3>2 DEF Range
  <2> QED
    BY <1>2, <2>1, <2>2, <2>3 DEF Apart
<1>7. Keyed(pins, kv)
  BY <1>2, <1>3 DEF Keyed
<1> QED
  BY <1>2, <1>5, <1>6, <1>7 DEF IInv, OneSlotEach, RowsBacked

LEMMA NextIInv == IInv /\ [Next]_vars => IInv'
<1> SUFFICES ASSUME IInv, [Next]_vars PROVE IInv'
  OBVIOUS
<1>1. CASE \E p \in Prompts, q \in Params : AddRequest(p, q)
  BY <1>1, AddRequestStep
<1>2. CASE \E r \in DOMAIN states : Cancel(r)
  BY <1>2, CancelStep
<1>3. CASE Decode
  BY <1>3, DecodeStep
<1>4. CASE Advance
  BY <1>4, AdvanceStep
<1>5. CASE AdvanceFails
  BY <1>5, AdvanceFailsStep
<1>6. CASE SyncFails
  BY <1>6, SyncFailsStep
<1>7. CASE UNCHANGED vars
  BY <1>7 DEF vars, IInv, TypeOK, RowsBacked, OneSlotEach, BusySlots, RetiredLimit
<1> QED
  BY <1>1, <1>2, <1>3, <1>4, <1>5, <1>6, <1>7 DEF Next

\* The inductive invariant holds of every behaviour: drafts, failing rows and
\* failing admissions included.
THEOREM Invariance == Spec => []IInv
<1>1. Init => IInv
  BY InitIInv
<1>2. IInv /\ [Next]_vars => IInv'
  BY NextIInv
<1> QED
  BY <1>1, <1>2, PTL DEF Spec

\* Every variable keeps its shape, whatever the engine does: in particular no
\* token index leaves its sequence, so each SubSeq of the model, a slice of the
\* code, is within bounds.
THEOREM TypeCorrect == Spec => []TypeOK
<1>1. IInv => TypeOK
  BY DEF IInv
<1> QED
  BY <1>1, Invariance, PTL

\* Every sequence slot is free, pinned or held by one request in flight, never
\* two of them and never none (metal_engine.py:280).
THEOREM SlotConservation == Spec => []SlotsPartitioned
<1>1. IInv => SlotsPartitioned
  BY DEF IInv, Apart, OneSlotEach, SlotsPartitioned, FreeSlots, PinSlots, SlotsOf
<1> QED
  BY <1>1, Invariance, PTL

\* A pin's slot holds its key's tokens for as long as it is pinned, so any
\* shared run of it may be forked (metal_engine.py:845-903).
THEOREM PinsKeepTheirKeys == Spec => []PinsHoldTheirKeys
<1>1. IInv => PinsHoldTheirKeys
  BY DEF IInv, Keyed, PinsHoldTheirKeys
<1> QED
  BY <1>1, Invariance, PTL

=============================================================================
