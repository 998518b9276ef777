--------------------------- MODULE MetalTextProofs ---------------------------
(***************************************************************************)
(* Proofs about the text that MetalEngine produces: what a slot's KV holds *)
(* is its request's prompt and output, so every token is drawn after       *)
(* exactly that text, no batch is refused, and no request disturbs         *)
(* another's; that prompts are served in the order of their admission; and *)
(* that, as long as nothing raises, the engine implements Generation.      *)
(* They rest on the invariant of MetalEngineProofs.                        *)
(***************************************************************************)
EXTENDS MetalEngineProofs, FiniteSetTheorems

-----------------------------------------------------------------------------
(* Texts.  The three operators keep the built-in ones out of the provers'   *)
(* sight where only these facts about them matter.                          *)

\* The first n tokens of s.
Begin(s, n) == SubSeq(s, 1, n)

\* Prompt p with output o after it, and with a row's drafts d after both.
Text(p, o) == p \o o
Row(p, o, d) == p \o o \o d

LEMMA BeginProperties ==
  ASSUME NEW S, NEW a \in Seq(S), NEW k \in 0 .. Len(a)
  PROVE  /\ Begin(a, k) \in Seq(S)
         /\ Len(Begin(a, k)) = k
         /\ \A i \in 1 .. k : Begin(a, k)[i] = a[i]
<1>1. Len(a) \in Nat /\ k \in Nat /\ \A i \in 1 .. k : a[i] \in S
  BY LenProperties, ElementOfSeq
<1>2. /\ SubSeq(a, 1, k) \in Seq(S)
      /\ Len(SubSeq(a, 1, k)) = IF 1 <= k THEN k - 1 + 1 ELSE 0
      /\ \A i \in 1 .. k - 1 + 1 : SubSeq(a, 1, k)[i] = a[1 + i - 1]
  BY <1>1, SubSeqProperties
<1>3. k - 1 + 1 = k /\ \A i \in 1 .. k : 1 + i - 1 = i
  BY <1>1
<1> DEFINE b == SubSeq(a, 1, k)
<1> HIDE DEF b
<1>4. b \in Seq(S) /\ Len(b) = k /\ \A i \in 1 .. k : b[i] = a[i]
  BY <1>1, <1>2, <1>3 DEF b
<1> QED
  BY <1>4 DEF b, Begin

LEMMA SameBeginning ==
  ASSUME NEW S, NEW a \in Seq(S), NEW b \in Seq(S),
         NEW k \in 0 .. Len(a), k <= Len(b),
         \A i \in 1 .. k : a[i] = b[i]
  PROVE  Begin(a, k) = Begin(b, k)
<1>1. k \in 0 .. Len(b) /\ k \in Nat
  BY LenProperties
<1> DEFINE c == Begin(a, k)
           d == Begin(b, k)
<1>2. /\ c \in Seq(S) /\ Len(c) = k /\ \A i \in 1 .. k : c[i] = a[i]
      /\ d \in Seq(S) /\ Len(d) = k /\ \A i \in 1 .. k : d[i] = b[i]
  BY <1>1, BeginProperties
<1> HIDE DEF c, d
<1>3. c = d
  BY <1>2, SeqEqual
<1> QED
  BY <1>3 DEF c, d

\* A beginning of a beginning, and all of a sequence.
LEMMA BeginningOfBeginning ==
  ASSUME NEW S, NEW a \in Seq(S), NEW n \in 0 .. Len(a), NEW k \in 0 .. n
  PROVE  Begin(Begin(a, n), k) = Begin(a, k)
<1> DEFINE b == Begin(a, n)
<1>1. n \in Nat /\ k \in Nat /\ Len(a) \in Nat /\ k <= Len(a)
  BY LenProperties
<1>2. b \in Seq(S) /\ Len(b) = n /\ \A i \in 1 .. n : b[i] = a[i]
  BY BeginProperties
<1> HIDE DEF b
<1>3. k \in 0 .. Len(b) /\ \A i \in 1 .. k : b[i] = a[i]
  BY <1>1, <1>2
<1>4. Begin(b, k) = Begin(a, k)
  BY <1>1, <1>2, <1>3, SameBeginning
<1> QED
  BY <1>4 DEF b

\* A concatenation by its halves.
LEMMA Halves ==
  ASSUME NEW S, NEW a \in Seq(S), NEW b \in Seq(S)
  PROVE  /\ a \o b \in Seq(S)
         /\ Len(a \o b) = Len(a) + Len(b)
         /\ \A i \in 1 .. Len(a) : (a \o b)[i] = a[i]
         /\ \A i \in 1 .. Len(b) : (a \o b)[Len(a) + i] = b[i]
         /\ Len(a) \in Nat /\ Len(b) \in Nat
<1>1. Len(a) \in Nat /\ Len(b) \in Nat
  BY LenProperties
<1>2. /\ a \o b \in Seq(S) /\ Len(a \o b) = Len(a) + Len(b)
      /\ \A i \in 1 .. Len(a) + Len(b) :
           (a \o b)[i] = IF i <= Len(a) THEN a[i] ELSE b[i - Len(a)]
  BY ConcatProperties
<1>3. \A i \in 1 .. Len(a) : (a \o b)[i] = a[i]
  BY <1>1, <1>2
<1>4. ASSUME NEW i \in 1 .. Len(b) PROVE (a \o b)[Len(a) + i] = b[i]
  <2>1. /\ Len(a) + i \in 1 .. Len(a) + Len(b) /\ ~ (Len(a) + i <= Len(a))
        /\ (Len(a) + i) - Len(a) = i
    BY <1>1
  <2> QED
    BY <1>2, <2>1
<1> QED
  BY <1>1, <1>2, <1>3, <1>4

LEMMA TextProperties ==
  ASSUME NEW S, NEW p \in Seq(S), NEW o \in Seq(S)
  PROVE  /\ Text(p, o) \in Seq(S)
         /\ Len(Text(p, o)) = Len(p) + Len(o)
         /\ \A i \in 1 .. Len(p) : Text(p, o)[i] = p[i]
         /\ \A i \in 1 .. Len(o) : Text(p, o)[Len(p) + i] = o[i]
         /\ Len(p) \in Nat /\ Len(o) \in Nat
BY Halves DEF Text

LEMMA RowProperties ==
  ASSUME NEW S, NEW p \in Seq(S), NEW o \in Seq(S), NEW d \in Seq(S)
  PROVE  /\ Row(p, o, d) \in Seq(S)
         /\ Len(Row(p, o, d)) = Len(p) + Len(o) + Len(d)
         /\ \A i \in 1 .. Len(p) + Len(o) : Row(p, o, d)[i] = Text(p, o)[i]
         /\ \A i \in 1 .. Len(d) : Row(p, o, d)[Len(p) + Len(o) + i] = d[i]
         /\ Len(d) \in Nat
<1> DEFINE t == Text(p, o)
<1>1. t \in Seq(S)
  BY TextProperties
<1>2. Len(t) = Len(p) + Len(o)
  BY TextProperties
<1>3. Row(p, o, d) = t \o d
  BY DEF Row, Text
<1> HIDE DEF t
<1>4. /\ t \o d \in Seq(S) /\ Len(t \o d) = Len(t) + Len(d)
      /\ \A i \in 1 .. Len(t) : (t \o d)[i] = t[i]
      /\ \A i \in 1 .. Len(d) : (t \o d)[Len(t) + i] = d[i]
      /\ Len(d) \in Nat
  BY <1>1, Halves
<1> QED
  BY <1>2, <1>3, <1>4, Zenon DEF t

LEMMA RowWithoutDrafts ==
  ASSUME NEW S, NEW p \in Seq(S), NEW o \in Seq(S)
  PROVE  Row(p, o, << >>) = Text(p, o)
<1>1. Text(p, o) \in Seq(S)
  BY TextProperties
<1> DEFINE t == Text(p, o)
<1> HIDE DEF t
<1>2. t \o << >> = t
  BY <1>1, ConcatEmptySeq DEF t
<1> QED
  BY <1>2 DEF t, Row, Text

\* Output x after output o, or as the drafts after it.
LEMMA LongerText ==
  ASSUME NEW S, NEW p \in Seq(S), NEW o \in Seq(S), NEW x \in Seq(S)
  PROVE  Text(p, o \o x) = Row(p, o, x)
BY ConcatAssociative DEF Text, Row

\* The drafts do not reach into the prompt and the output.
LEMMA TextBefore ==
  ASSUME NEW S, NEW p \in Seq(S), NEW o \in Seq(S), NEW d \in Seq(S),
         NEW k \in 0 .. Len(p) + Len(o)
  PROVE  Begin(Row(p, o, d), k) = Begin(Text(p, o), k)
<1> DEFINE a == Row(p, o, d)
           b == Text(p, o)
<1>1. /\ a \in Seq(S) /\ Len(a) = Len(p) + Len(o) + Len(d)
      /\ \A i \in 1 .. Len(p) + Len(o) : a[i] = b[i]
      /\ Len(d) \in Nat
  BY RowProperties
<1>2. b \in Seq(S) /\ Len(b) = Len(p) + Len(o) /\ Len(p) \in Nat /\ Len(o) \in Nat
  BY TextProperties
<1> HIDE DEF a, b
<1>3. k \in 0 .. Len(a) /\ k <= Len(b) /\ \A i \in 1 .. k : a[i] = b[i]
  BY <1>1, <1>2
<1>4. Begin(a, k) = Begin(b, k)
  BY <1>1, <1>2, <1>3, SameBeginning
<1> QED
  BY <1>4 DEF a, b

\* Drafts d and tokens x begin with the same n tokens.
Agree(d, x, n) ==
  n <= Len(d) /\ n <= Len(x) /\ \A i \in 1 .. n : d[i] = x[i]

LEMMA SameText ==
  ASSUME NEW S, NEW p \in Seq(S), NEW o \in Seq(S), NEW d \in Seq(S),
         NEW x \in Seq(S), NEW n \in Nat, Agree(d, x, n)
  PROVE  Begin(Row(p, o, d), Len(p) + Len(o) + n)
           = Begin(Row(p, o, x), Len(p) + Len(o) + n)
<1> DEFINE a == Row(p, o, d)
           b == Row(p, o, x)
           t == Text(p, o)
<1>1. /\ a \in Seq(S) /\ Len(a) = Len(p) + Len(o) + Len(d)
      /\ \A i \in 1 .. Len(p) + Len(o) : a[i] = t[i]
      /\ \A i \in 1 .. Len(d) : a[Len(p) + Len(o) + i] = d[i]
  <2>1. a \in Seq(S) /\ Len(a) = Len(p) + Len(o) + Len(d)
    BY RowProperties
  <2>2. \A i \in 1 .. Len(p) + Len(o) : a[i] = t[i]
    BY RowProperties
  <2>3. \A i \in 1 .. Len(d) : a[Len(p) + Len(o) + i] = d[i]
    BY RowProperties
  <2> QED
    BY <2>1, <2>2, <2>3
<1>2. /\ b \in Seq(S) /\ Len(b) = Len(p) + Len(o) + Len(x)
      /\ \A i \in 1 .. Len(p) + Len(o) : b[i] = t[i]
      /\ \A i \in 1 .. Len(x) : b[Len(p) + Len(o) + i] = x[i]
  <2>1. b \in Seq(S) /\ Len(b) = Len(p) + Len(o) + Len(x)
    BY RowProperties
  <2>2. \A i \in 1 .. Len(p) + Len(o) : b[i] = t[i]
    BY RowProperties
  <2>3. \A i \in 1 .. Len(x) : b[Len(p) + Len(o) + i] = x[i]
    BY RowProperties
  <2> QED
    BY <2>1, <2>2, <2>3
<1>3. Len(p) \in Nat /\ Len(o) \in Nat /\ Len(d) \in Nat /\ Len(x) \in Nat
  BY LenProperties
<1> HIDE DEF a, b, t
<1> DEFINE m == Len(p) + Len(o)
           k == m + n
<1>4. m \in Nat /\ k \in Nat /\ k = m + n /\ k \in 0 .. Len(a) /\ k <= Len(b)
  BY <1>1, <1>2, <1>3 DEF Agree
<1>5. \A i \in 1 .. m : a[i] = b[i]
  BY <1>1, <1>2
<1>6. \A i \in 1 .. n : a[m + i] = b[m + i]
  <2>1. \A i \in 1 .. n : i \in 1 .. Len(d) /\ i \in 1 .. Len(x) /\ d[i] = x[i]
    BY <1>3 DEF Agree
  <2> QED
    BY <1>1, <1>2, <2>1
<1> HIDE DEF m, k
<1>7. ASSUME NEW i \in 1 .. k PROVE a[i] = b[i]
  <2>1. CASE i <= m
    BY <1>4, <1>5, <2>1
  <2>2. CASE i > m
    <3>1. i - m \in 1 .. n /\ m + (i - m) = i
      BY <1>4, <2>2
    <3> QED
      BY <1>6, <3>1
  <2> QED
    BY <1>4, <2>1, <2>2
<1>8. Begin(a, k) = Begin(b, k)
  BY <1>1, <1>2, <1>4, <1>7, SameBeginning
<1> QED
  BY <1>8 DEF a, b, k, m

\* Each token of the output o was drawn after the text before it.
LEMMA FollowsTheText ==
  ASSUME NEW p, NEW o
  PROVE  Follows(p, o) <=>
           \A i \in 1 .. Len(o) : o[i] \in Support[Begin(Text(p, o), Len(p) + i - 1)]
BY DEF Follows, Begin, Text

\* So was each token of x, which is the drafts d up to its last token.
LEMMA FollowsGrows ==
  ASSUME NEW p \in Seq(Token), NEW o \in Seq(Token), NEW d \in Seq(Token),
         NEW x \in Seq(Token), Follows(p, o),
         Len(x) > 0 => Agree(d, x, Len(x) - 1),
         \A i \in 1 .. Len(x) :
           x[i] \in Support[Begin(Row(p, o, d), Len(p) + Len(o) + i - 1)]
  PROVE  Follows(p, o \o x)
<1> DEFINE y == o \o x
<1>1. /\ y \in Seq(Token)
      /\ Len(y) = Len(o) + Len(x)
      /\ \A i \in 1 .. Len(o) : y[i] = o[i]
      /\ \A i \in 1 .. Len(x) : y[Len(o) + i] = x[i]
  BY Halves
<1>2. Len(p) \in Nat /\ Len(o) \in Nat /\ Len(d) \in Nat /\ Len(x) \in Nat
  BY LenProperties
<1>3. Text(p, y) = Row(p, o, x)
  BY LongerText
<1> HIDE DEF y
<1>4. ASSUME NEW j \in 1 .. Len(o)
      PROVE  y[j] \in Support[Begin(Text(p, y), Len(p) + j - 1)]
  <2> DEFINE k == Len(p) + j - 1
  <2>1. y[j] = o[j] /\ o[j] \in Support[Begin(Text(p, o), k)]
    BY <1>1, FollowsTheText
  <2>2. k \in 0 .. Len(p) + Len(o)
    BY <1>2
  <2> HIDE DEF k
  <2>3. Begin(Row(p, o, x), k) = Begin(Text(p, o), k)
    BY <2>2, TextBefore
  <2> QED
    BY <1>3, <2>1, <2>3 DEF k
<1>5. ASSUME NEW i \in 1 .. Len(x)
      PROVE  x[i] \in Support[Begin(Text(p, y), Len(p) + Len(o) + i - 1)]
  <2> DEFINE n == i - 1
  <2>1. /\ n \in Nat /\ Agree(d, x, n)
        /\ Len(p) + Len(o) + n = Len(p) + Len(o) + i - 1
    BY <1>2 DEF Agree
  <2>2. x[i] \in Support[Begin(Row(p, o, d), Len(p) + Len(o) + i - 1)]
    OBVIOUS
  <2> HIDE DEF n
  <2>3. Begin(Row(p, o, d), Len(p) + Len(o) + n)
          = Begin(Row(p, o, x), Len(p) + Len(o) + n)
    BY <2>1, SameText
  <2> QED
    BY <1>3, <2>1, <2>2, <2>3
<1>6. ASSUME NEW j \in 1 .. Len(y), j > Len(o)
      PROVE  y[j] \in Support[Begin(Text(p, y), Len(p) + j - 1)]
  <2> DEFINE i == j - Len(o)
  <2>1. i \in 1 .. Len(x) /\ Len(o) + i = j
        /\ Len(p) + Len(o) + i - 1 = Len(p) + j - 1
    BY <1>1, <1>2, <1>6
  <2> HIDE DEF i
  <2>2. x[i] \in Support[Begin(Text(p, y), Len(p) + Len(o) + i - 1)]
    BY <1>5, <2>1
  <2>3. y[j] = x[i]
    BY <1>1, <2>1
  <2> QED
    BY <2>1, <2>2, <2>3
<1>7. ASSUME NEW j \in 1 .. Len(y)
      PROVE  y[j] \in Support[Begin(Text(p, y), Len(p) + j - 1)]
  <2>1. CASE j <= Len(o)
    <3>1. j \in 1 .. Len(o)
      BY <1>2, <2>1
    <3> QED
      BY <1>4, <3>1
  <2>2. CASE j > Len(o)
    BY <1>6, <2>2
  <2> QED
    BY <1>2, <2>1, <2>2
<1>8. Follows(p, y)
  BY <1>7, FollowsTheText
<1> QED
  BY <1>8 DEF y

\* An output of no tokens.
LEMMA FollowsNothing ==
  ASSUME NEW p
  PROVE  Follows(p, << >>)
BY EmptySeq DEF Follows

-----------------------------------------------------------------------------
(* The inductive invariant.                                                 *)

\* What the request has pending is its last token, and what it has said was
\* drawn after its own text.
Voiced(req) ==
  /\ req.next = IF req.out = << >> THEN NoToken ELSE req.out[Len(req.out)]
  /\ Follows(req.prompt, req.out)

\* A request that no row of the step is left of: memory m holds all of its text
\* but the pending token, and has a cell for that.
Settled(req, m) ==
  /\ Voiced(req)
  /\ m[req.slot] = Begin(Text(req.prompt, req.out), req.nPos)
  /\ IF req.nPrefilled < Len(req.prompt)
     THEN req.out = << >>
     ELSE /\ req.nPos = Len(req.prompt) + Len(req.out) - 1
          /\ req.nPos < NCtxSeq

\* A request whose row has been decoded but not looked at: memory m holds all
\* of its text and the drafts of the row.
InStep(req, drafts, m) ==
  /\ Voiced(req)
  /\ m[req.slot] = Row(req.prompt, req.out, drafts)
  /\ req.nPos = Len(req.prompt) + Len(req.out) + Len(drafts)

Texted(r) ==
  IF r \in DOMAIN todo THEN InStep(states[r], todo[r], kv)
  ELSE Settled(states[r], kv)

LiveTexted == \A r \in DOMAIN states \ stranded : Texted(r)

RetiredTexted ==
  \A i \in DOMAIN retired :
    retired[i].id \notin stranded => Follows(retired[i].prompt, retired[i].out)

KInv ==
  /\ IInv
  /\ LiveTexted
  /\ RetiredTexted
  /\ NoBatchRefused

-----------------------------------------------------------------------------
(* What is left as it was.                                                  *)

\* The rows and the history of stranded requests as one row r leaves the step,
\* alone or with all the rows after it.
RowsLeft(r) ==
  /\ r \notin DOMAIN todo'
  /\ stranded \subseteq stranded'
  /\ \A q \in DOMAIN todo' : todo'[q] = todo[q]
  /\ \A q \in DOMAIN states \ {r} :
       q \notin stranded' => (q \in DOMAIN todo' <=> q \in DOMAIN todo)

LEMMA PeerTexted ==
  ASSUME LiveTexted, stranded \subseteq stranded',
         NEW q \in DOMAIN states, q \notin stranded',
         states'[q] = states[q], kv'[states[q].slot] = kv[states[q].slot],
         q \in DOMAIN todo' <=> q \in DOMAIN todo,
         q \in DOMAIN todo => todo'[q] = todo[q]
  PROVE  Texted(q)'
<1>1. Texted(q)
  BY DEF LiveTexted
<1>2. CASE q \in DOMAIN todo
  <2>1. InStep(states[q], todo[q], kv)
    BY <1>1, <1>2 DEF Texted
  <2>2. InStep(states'[q], todo'[q], kv')
    BY <1>2, <2>1 DEF InStep
  <2> QED
    BY <1>2, <2>2 DEF Texted
<1>3. CASE q \notin DOMAIN todo
  <2>1. Settled(states[q], kv)
    BY <1>1, <1>3 DEF Texted
  <2>2. Settled(states'[q], kv')
    BY <2>1 DEF Settled
  <2> QED
    BY <1>3, <2>2 DEF Texted
<1> QED
  BY <1>2, <1>3

\* _archive adds e to the read window and drops the oldest at most.
LEMMA ArchivedTexted ==
  ASSUME IInv, RetiredTexted, NEW e \in Finished,
         retired' = Archived(e), stranded \subseteq stranded',
         e.id \notin stranded' => Follows(e.prompt, e.out)
  PROVE  RetiredTexted'
<1> DEFINE longer == Append(retired, e)
           now == Archived(e)
<1>1. retired \in Seq(Finished) /\ Len(retired) \in Nat
  BY LenProperties DEF IInv, TypeOK
<1>2. /\ longer \in Seq(Finished) /\ longer # << >> /\ Len(longer) = Len(retired) + 1
      /\ \A i \in 1 .. Len(retired) : longer[i] = retired[i]
      /\ longer[Len(retired) + 1] = e
  BY <1>1, AppendProperties
<1>3. now = Tail(longer) \/ now = longer
  BY DEF Archived
<1> HIDE DEF longer, now
<1>4. ASSUME NEW i \in DOMAIN now
      PROVE  now[i] = e \/ \E j \in DOMAIN retired : now[i] = retired[j]
  <2>1. \E j \in 1 .. Len(longer) : now[i] = longer[j]
    <3>1. CASE now = longer
      BY <1>2, <1>4, <3>1, LenProperties
    <3>2. CASE now = Tail(longer)
      <4>1. /\ now \in Seq(Finished) /\ Len(now) = Len(longer) - 1
            /\ \A k \in 1 .. Len(now) : now[k] = longer[k + 1]
        BY <1>2, <3>2, HeadTailProperties
      <4>2. i \in 1 .. Len(now) /\ i + 1 \in 1 .. Len(longer)
        BY <1>1, <1>2, <1>4, <4>1, LenProperties
      <4> QED
        BY <4>1, <4>2
    <3> QED
      BY <1>3, <3>1, <3>2
  <2>2. PICK j \in 1 .. Len(longer) : now[i] = longer[j]
    BY <2>1
  <2>3. DOMAIN retired = 1 .. Len(retired)
    BY <1>1, LenProperties
  <2> QED
    BY <1>1, <1>2, <2>2, <2>3
<1>5. ASSUME NEW i \in DOMAIN now, now[i].id \notin stranded'
      PROVE  Follows(now[i].prompt, now[i].out)
  <2>1. CASE now[i] = e
    BY <1>5, <2>1
  <2>2. CASE \E j \in DOMAIN retired : now[i] = retired[j]
    <3>1. PICK j \in DOMAIN retired : now[i] = retired[j]
      BY <2>2
    <3>2. retired[j].id \notin stranded
      BY <1>5, <3>1
    <3> QED
      BY <3>1, <3>2 DEF RetiredTexted
  <2> QED
    BY <1>4, <2>1, <2>2
<1> QED
  BY <1>5 DEF RetiredTexted, now

\* Retiring request r leaves every other one, and its slot, as they were.
LEMMA RetireEffect ==
  ASSUME IInv, NEW r \in DOMAIN states, NEW reason, NEW out,
         NEW memory \in [Slots -> Seq(Token)],
         \A t \in Slots \ {states[r].slot} : memory[t] = kv[t],
         states[r].nPrefilled >= Len(states[r].prompt)
           => IsPrefix(states[r].prompt, memory[states[r].slot]),
         Retire(r, reason, out, memory)
  PROVE  /\ DOMAIN states' = DOMAIN states \ {r}
         /\ \A q \in DOMAIN states' :
              states'[q] = states[q] /\ kv'[states[q].slot] = kv[states[q].slot]
         /\ retired' = Archived([id |-> r, prompt |-> states[r].prompt,
                                 params |-> states[r].params, out |-> out,
                                 reason |-> reason])
<1> DEFINE s == states[r].slot
           B == BusySlots'
<1>1. s \in Slots /\ states[r].prompt \in Prompts /\ states[r].nPrefilled \in Nat
  BY RequestTyped DEF IInv
<1>2. /\ states' = Minus(states, r)
      /\ PinOrRelease(s, states[r].prompt, states[r].nPrefilled, memory)
  BY DEF Retire
<1>3. /\ DOMAIN states' = DOMAIN states \ {r}
      /\ \A q \in DOMAIN states' : states'[q] = states[q]
      /\ s \notin B
      /\ BusySlots = B \cup {s}
  BY <1>2, Left
<1> HIDE DEF B
<1>4. \A t \in B : kv'[t] = kv[t]
  BY <1>1, <1>2, <1>3, PinnedOrReleased
<1>5. \A q \in DOMAIN states' : states'[q].slot \in B
  BY DEF B, BusySlots
<1> QED
  BY <1>3, <1>4, <1>5 DEF Retire

\* A request that starts with the first n tokens of its prompt in slot s.
LEMMA RegisteredSettled ==
  ASSUME NEW s \in Slots, NEW prompt \in Seq(Token), NEW params, NEW n \in Nat,
         n < Len(prompt), NEW m, m[s] = Begin(prompt, n)
  PROVE  Settled(Registered(s, prompt, params, n), m)
<1> DEFINE req == Registered(s, prompt, params, n)
<1>1. /\ req.slot = s /\ req.prompt = prompt /\ req.nPrefilled = n
      /\ req.nPos = n /\ req.next = NoToken /\ req.out = << >>
  BY DEF Registered
<1>2. Text(prompt, << >>) = prompt
  BY ConcatEmptySeq DEF Text
<1> HIDE DEF req
<1>3. Voiced(req)
  BY <1>1, FollowsNothing DEF Voiced
<1>4. req.nPrefilled < Len(req.prompt)
  BY <1>1
<1>5. m[req.slot] = Begin(Text(req.prompt, req.out), req.nPos)
  BY <1>1, <1>2
<1> QED
  BY <1>1, <1>3, <1>4, <1>5 DEF Settled, req

\* What a fork copies from pin m is the beginning of the new prompt.
LEMMA ForkedText ==
  ASSUME IInv, NEW prompt \in Prompts, NEW m \in Candidates(prompt), NEW n,
         n = Shared(pins[m].key, prompt) - 1
  PROVE  /\ n \in Nat /\ n < Len(prompt)
         /\ ForkedKv(m, n) \in Seq(Token)
         /\ ForkedKv(m, n) = Begin(prompt, n)
<1> DEFINE key == pins[m].key
           held == kv[pins[m].slot]
           run == Shared(key, prompt)
<1>1. prompt \in Seq(Token) /\ Len(prompt) \in Nat
  BY RequestAssumption, LenProperties
<1>2. m \in DOMAIN pins /\ n >= PinMin
  BY DEF Candidates
<1>3. key \in Seq(Token) /\ Len(key) \in Nat
      /\ held \in Seq(Token) /\ Len(held) \in Nat
  BY <1>2, PinsTyped, PinTypes, LenProperties DEF IInv, TypeOK
<1>4. Len(key) <= Len(held) /\ \A i \in 1 .. Len(key) : held[i] = key[i]
  BY <1>2, <1>3, PrefixByElements DEF IInv, Keyed
<1>5. /\ run \in 0 .. Len(key) /\ run <= Len(prompt)
      /\ \A i \in 1 .. run : key[i] = prompt[i]
  BY <1>1, <1>3, SharedProperties
<1>6. n = run - 1 /\ ForkedKv(m, n) = Begin(held, n)
  BY DEF ForkedKv, Begin
<1> HIDE DEF key, held, run
<1>7. /\ n \in Nat /\ n < Len(prompt) /\ n \in 0 .. Len(held)
      /\ n <= Len(prompt) /\ n <= run
  BY <1>1, <1>2, <1>3, <1>4, <1>5, <1>6, GeometryAssumption
<1>8. \A i \in 1 .. n : held[i] = prompt[i]
  BY <1>3, <1>4, <1>5, <1>7
<1>9. Begin(held, n) = Begin(prompt, n) /\ Begin(held, n) \in Seq(Token)
  BY <1>1, <1>3, <1>7, <1>8, SameBeginning, BeginProperties
<1> QED
  BY <1>6, <1>7, <1>9

\* An admission, however it ends, leaves every request in flight and its slot
\* as they were, and a request that joins them has its own text in its slot.
LEMMA AdmissionEffect ==
  ASSUME IInv, NEW prompt \in Prompts, NEW params \in Params,
         AddRequest(prompt, params)
  PROVE  /\ Idle /\ nextId' = nextId + 1
         /\ UNCHANGED <<todo, stranded, refused>>
         /\ \A q \in DOMAIN states :
              /\ q \in DOMAIN states'
              /\ states'[q] = states[q] /\ kv'[states[q].slot] = kv[states[q].slot]
         /\ \A q \in DOMAIN states' \ DOMAIN states : Settled(states'[q], kv')
         /\ \/ retired' = retired
            \/ \E e \in Finished : e.out = << >> /\ retired' = Archived(e)
<1> DEFINE m == FindPin(prompt)
           v == Victim(m)
           s == Head(FreeAfter(v))
<1>1. /\ Idle
      /\ nextId' = nextId + 1
      /\ free # << >> \/ pins # << >>
      /\ UNCHANGED <<todo, stranded, refused>>
      /\ \/ AdmissionRolledBack(v)
         \/ AdmittedPlain(v, prompt, params)
         \/ AdmittedForked(v, m, prompt, params)
         \/ AdmissionCancelled(v, m, prompt, params)
  BY DEF AddRequest
<1>2. /\ prompt \in Seq(Token) /\ Len(prompt) \in 1 .. NCtxSeq - 1
      /\ << >> \in Seq(Token) /\ nextId \in Nat
      /\ DOMAIN states \subseteq 0 .. nextId - 1
  BY RequestAssumption, EmptySeq DEF IInv, TypeOK
<1>3. m = 0 \/ m \in Candidates(prompt)
  BY FindPinProperties DEF IInv
<1>4. \/ v = 0 /\ free # << >>
      \/ v \in 1 .. Len(pins) /\ free = << >>
  BY <1>1, VictimProperties DEF IInv
<1>5. ASSUME NEW text \in Seq(Token), kv' = [KvAfter(v) EXCEPT ![s] = text]
      PROVE  /\ s \in Slots /\ kv'[s] = text
             /\ \A q \in DOMAIN states : kv'[states[q].slot] = kv[states[q].slot]
  BY <1>4, <1>5, SlotTaken DEF BusySlots
<1>6. ASSUME NEW new,
             states' = [q \in DOMAIN states \cup {nextId} |->
                          IF q = nextId THEN new ELSE states[q]]
      PROVE  /\ \A q \in DOMAIN states : q \in DOMAIN states' /\ states'[q] = states[q]
             /\ \A q \in DOMAIN states' \ DOMAIN states : states'[q] = new
  BY <1>2, <1>6
<1> HIDE DEF m, v, s
<1>7. CASE AdmissionRolledBack(v)
  <2>1. /\ kv' = [KvAfter(v) EXCEPT ![s] = << >>]
        /\ UNCHANGED <<states, retired>>
    BY <1>7 DEF AdmissionRolledBack, s
  <2> QED
    BY <1>1, <1>2, <1>5, <2>1
<1>8. CASE AdmittedPlain(v, prompt, params)
  <2> DEFINE new == Registered(s, prompt, params, 0)
  <2>1. /\ kv' = [KvAfter(v) EXCEPT ![s] = << >>]
        /\ states' = [q \in DOMAIN states \cup {nextId} |->
                        IF q = nextId THEN new ELSE states[q]]
        /\ UNCHANGED retired
    BY <1>8 DEF AdmittedPlain, s
  <2>2. kv'[s] = Begin(prompt, 0) /\ s \in Slots
    <3>1. Begin(prompt, 0) = << >>
      BY SubSeqEmpty DEF Begin
    <3>2. kv'[s] = << >> /\ s \in Slots
      BY <1>2, <1>5, <2>1
    <3> QED
      BY <3>1, <3>2
  <2>3. Settled(new, kv')
    BY <1>2, <2>2, RegisteredSettled
  <2> HIDE DEF new
  <2> QED
    BY <1>1, <1>2, <1>5, <1>6, <2>1, <2>3
<1>9. CASE AdmittedForked(v, m, prompt, params)
  <2> DEFINE n == Shared(pins[m].key, prompt) - 1
             new == Registered(s, prompt, params, n)
  <2>1. /\ m # 0
        /\ kv' = [KvAfter(v) EXCEPT ![s] = ForkedKv(m, n)]
        /\ states' = [q \in DOMAIN states \cup {nextId} |->
                        IF q = nextId THEN new ELSE states[q]]
        /\ UNCHANGED retired
    BY <1>9 DEF AdmittedForked, s
  <2>2. /\ n \in Nat /\ n < Len(prompt) /\ ForkedKv(m, n) \in Seq(Token)
        /\ ForkedKv(m, n) = Begin(prompt, n)
    BY <1>3, <2>1, ForkedText
  <2> HIDE DEF n
  <2>3. kv'[s] = Begin(prompt, n) /\ s \in Slots
    BY <1>5, <2>1, <2>2
  <2>4. Settled(new, kv')
    BY <1>2, <2>2, <2>3, RegisteredSettled
  <2> HIDE DEF new
  <2> QED
    BY <1>1, <1>5, <1>6, <2>1, <2>2, <2>4
<1>10. CASE AdmissionCancelled(v, m, prompt, params)
  <2> DEFINE e == [id |-> nextId, prompt |-> prompt, params |-> params,
                   out |-> << >>, reason |-> "cancelled"]
  <2>1. /\ kv' = [KvAfter(v) EXCEPT ![s] = << >>]
        /\ retired' = Archived(e)
        /\ UNCHANGED states
    BY <1>10 DEF AdmissionCancelled, s
  <2>2. e \in Finished /\ e.out = << >>
    BY <1>2 DEF Finished
  <2> HIDE DEF e
  <2> QED
    BY <1>1, <1>2, <1>5, <2>1, <2>2
<1> QED
  BY <1>1, <1>7, <1>8, <1>9, <1>10

LEMMA AddRequestText ==
  ASSUME KInv, NEW prompt \in Prompts, NEW params \in Params,
         AddRequest(prompt, params)
  PROVE  LiveTexted' /\ RetiredTexted' /\ NoBatchRefused'
<1>1. /\ Idle /\ UNCHANGED <<todo, stranded, refused>>
      /\ \A q \in DOMAIN states :
           /\ q \in DOMAIN states'
           /\ states'[q] = states[q] /\ kv'[states[q].slot] = kv[states[q].slot]
      /\ \A q \in DOMAIN states' \ DOMAIN states : Settled(states'[q], kv')
      /\ \/ retired' = retired
         \/ \E e \in Finished : e.out = << >> /\ retired' = Archived(e)
  BY AdmissionEffect DEF KInv
<1>2. ASSUME NEW q \in DOMAIN states' \ stranded' PROVE Texted(q)'
  <2>1. CASE q \in DOMAIN states
    BY <1>1, <1>2, <2>1, PeerTexted DEF KInv
  <2>2. CASE q \notin DOMAIN states
    <3>1. Settled(states'[q], kv') /\ q \notin DOMAIN todo'
      BY <1>1, <2>2 DEF Idle
    <3> QED
      BY <3>1 DEF Texted
  <2> QED
    BY <2>1, <2>2
<1>3. RetiredTexted'
  <2>1. CASE retired' = retired
    BY <1>1, <2>1 DEF KInv, RetiredTexted
  <2>2. CASE \E e \in Finished : e.out = << >> /\ retired' = Archived(e)
    <3>1. PICK e \in Finished : e.out = << >> /\ retired' = Archived(e)
      BY <2>2
    <3>2. Follows(e.prompt, e.out) /\ stranded \subseteq stranded'
      BY <1>1, <3>1, FollowsNothing
    <3> QED
      BY <3>1, <3>2, ArchivedTexted DEF KInv
  <2> QED
    BY <1>1, <2>1, <2>2
<1>4. NoBatchRefused'
  BY <1>1 DEF KInv, NoBatchRefused
<1> QED
  BY <1>2, <1>3, <1>4 DEF LiveTexted

-----------------------------------------------------------------------------
(* Retirement.                                                              *)

\* Request r retires with an output that followed its text.
LEMMA RetireText ==
  ASSUME KInv, NEW r \in DOMAIN states,
         NEW reason \in {"eog", "stop_sequence", "length", "context",
                         "cancelled", "error"},
         NEW out \in Seq(Token), NEW memory \in [Slots -> Seq(Token)],
         \A t \in Slots \ {states[r].slot} : memory[t] = kv[t],
         states[r].nPrefilled >= Len(states[r].prompt)
           => IsPrefix(states[r].prompt, memory[states[r].slot]),
         Retire(r, reason, out, memory),
         r \notin stranded => Follows(states[r].prompt, out),
         RowsLeft(r), UNCHANGED refused
  PROVE  LiveTexted' /\ RetiredTexted' /\ NoBatchRefused'
<1> DEFINE e == [id |-> r, prompt |-> states[r].prompt,
                 params |-> states[r].params, out |-> out, reason |-> reason]
<1>1. IInv
  BY DEF KInv
<1>2. /\ DOMAIN states' = DOMAIN states \ {r}
      /\ \A q \in DOMAIN states' :
           states'[q] = states[q] /\ kv'[states[q].slot] = kv[states[q].slot]
      /\ retired' = Archived(e)
  BY <1>1, RetireEffect
<1>3. ASSUME NEW q \in DOMAIN states' \ stranded' PROVE Texted(q)'
  <2>1. /\ q \in DOMAIN states /\ q # r /\ q \notin stranded'
        /\ stranded \subseteq stranded'
        /\ states'[q] = states[q] /\ kv'[states[q].slot] = kv[states[q].slot]
    BY <1>2 DEF RowsLeft
  <2>2. /\ q \in DOMAIN todo' <=> q \in DOMAIN todo
        /\ q \in DOMAIN todo => todo'[q] = todo[q]
    BY <2>1 DEF RowsLeft
  <2> QED
    BY <2>1, <2>2, PeerTexted DEF KInv
<1>4. e \in Finished
  <2>1. /\ states[r].prompt \in Prompts /\ states[r].params \in Params
        /\ r \in Nat
    BY <1>1, RequestTyped DEF IInv, TypeOK
  <2> QED
    BY <2>1 DEF Finished
<1>5. stranded \subseteq stranded'
  BY DEF RowsLeft
<1>6. e.id \notin stranded' => Follows(e.prompt, e.out)
  BY <1>5
<1> HIDE DEF e
<1>7. RetiredTexted'
  BY <1>1, <1>2, <1>4, <1>5, <1>6, ArchivedTexted DEF KInv
<1>8. NoBatchRefused'
  BY <1>5 DEF KInv, NoBatchRefused
<1> QED
  BY <1>3, <1>7, <1>8 DEF LiveTexted

LEMMA CancelText ==
  ASSUME KInv, NEW r \in DOMAIN states, Cancel(r)
  PROVE  LiveTexted' /\ RetiredTexted' /\ NoBatchRefused'
<1>1. /\ Idle /\ Retire(r, "cancelled", states[r].out, kv)
      /\ UNCHANGED <<nextId, todo, stranded, refused>>
  BY DEF Cancel
<1>2. IInv /\ kv \in [Slots -> Seq(Token)] /\ states[r].out \in Seq(Token)
  BY RequestTyped DEF KInv, IInv, TypeOK
<1>3. states[r].nPrefilled >= Len(states[r].prompt)
        => IsPrefix(states[r].prompt, kv[states[r].slot])
  BY <1>2, PromptHeld, RequestTyped DEF IInv, RowsBacked, Backed
<1>4. RowsLeft(r)
  BY <1>1 DEF RowsLeft, Idle
<1>5. r \notin stranded => Follows(states[r].prompt, states[r].out)
  BY DEF KInv, LiveTexted, Texted, InStep, Settled, Voiced
<1> QED
  BY <1>1, <1>2, <1>3, <1>4, <1>5, RetireText

-----------------------------------------------------------------------------
(* The rows of a step.                                                      *)

LEMMA ConfirmedTokens ==
  ASSUME NEW r, NEW m, NEW token \in Token,
         todo[r] \in Seq(Token), m \in 0 .. Len(todo[r])
  PROVE  /\ Confirmed(r, m, token) \in Seq(Token)
         /\ Len(Confirmed(r, m, token)) = m + 1
         /\ \A i \in 1 .. m : Confirmed(r, m, token)[i] = todo[r][i]
         /\ Confirmed(r, m, token)[m + 1] = token
<1> DEFINE d == todo[r]
           a == Begin(d, m)
<1>1. a \in Seq(Token) /\ Len(a) = m /\ \A i \in 1 .. m : a[i] = d[i]
  BY BeginProperties
<1>2. Confirmed(r, m, token) = Append(a, token)
  BY DEF Confirmed, Begin
<1> HIDE DEF a, d
<1>3. /\ Append(a, token) \in Seq(Token)
      /\ Len(Append(a, token)) = m + 1
      /\ \A i \in 1 .. m : Append(a, token)[i] = a[i]
      /\ Append(a, token)[m + 1] = token
  BY <1>1, AppendProperties
<1> QED
  BY <1>1, <1>2, <1>3 DEF d

\* The text of a row that is looked at.
LEMMA RowInStep ==
  ASSUME KInv, NEW r \in DOMAIN todo, r \notin stranded
  PROVE  /\ r \in DOMAIN states
         /\ InStep(states[r], todo[r], kv)
         /\ todo[r] \in Seq(Token) /\ Len(todo[r]) \in Nat
         /\ states[r].prompt \in Seq(Token) /\ Len(states[r].prompt) \in Nat
         /\ states[r].out \in Seq(Token) /\ Len(states[r].out) \in Nat
         /\ states[r].nPos \in Nat
<1>1. r \in DOMAIN states /\ todo[r] \in Seq(Token)
  BY DEF KInv, IInv, TypeOK
<1>2. InStep(states[r], todo[r], kv)
  BY <1>1 DEF KInv, LiveTexted, Texted
<1> QED
  BY <1>1, <1>2, RequestTyped, LenProperties DEF KInv, IInv

\* What the sampler drew and verification accepted followed the request's text.
LEMMA ConfirmedFollows ==
  ASSUME KInv, NEW r \in DOMAIN todo, r \notin stranded,
         NEW m \in 0 .. Len(todo[r]), NEW token \in Token, Samples(r, m, token),
         NEW n \in 0 .. m + 1
  PROVE  Follows(states[r].prompt,
                 states[r].out \o SubSeq(Confirmed(r, m, token), 1, n))
<1> DEFINE d == todo[r]
           p == states[r].prompt
           o == states[r].out
           c == Confirmed(r, m, token)
           x == Begin(c, n)
           base == states[r].nPos - Len(d) - 1
           held == kv[states[r].slot]
<1>1. /\ d \in Seq(Token) /\ Len(d) \in Nat
      /\ p \in Seq(Token) /\ Len(p) \in Nat
      /\ o \in Seq(Token) /\ Len(o) \in Nat
      /\ Follows(p, o)
      /\ held = Row(p, o, d)
      /\ states[r].nPos = Len(p) + Len(o) + Len(d)
      /\ m \in 0 .. Len(d)
  BY RowInStep DEF InStep, Voiced
<1>2. base = Len(p) + Len(o) - 1
  BY <1>1
<1>3. /\ c \in Seq(Token) /\ Len(c) = m + 1
      /\ \A i \in 1 .. m : c[i] = d[i]
      /\ c[m + 1] = token
  <2>1. todo[r] \in Seq(Token) /\ m \in 0 .. Len(todo[r])
    BY <1>1
  <2> QED
    BY <2>1, ConfirmedTokens
<1>4. /\ \A i \in 1 .. m : d[i] \in Support[Begin(held, base + i)]
      /\ token \in Support[Begin(held, base + m + 1)]
  BY DEF Samples, Begin
<1> HIDE DEF c, base, held
<1>5. x \in Seq(Token) /\ Len(x) = n /\ \A i \in 1 .. n : x[i] = c[i]
  BY <1>1, <1>3, BeginProperties
<1> HIDE DEF x, d, p, o
<1>6. ASSUME NEW i \in 1 .. n
      PROVE  x[i] \in Support[Begin(Row(p, o, d), Len(p) + Len(o) + i - 1)]
  <2>1. CASE i <= m
    <3>1. i \in 1 .. m /\ base + i = Len(p) + Len(o) + i - 1
      BY <1>1, <1>2, <2>1
    <3> QED
      BY <1>1, <1>3, <1>4, <1>5, <3>1
  <2>2. CASE i = m + 1
    <3>1. base + m + 1 = Len(p) + Len(o) + i - 1
      BY <1>1, <1>2, <2>2
    <3> QED
      BY <1>1, <1>3, <1>4, <1>5, <2>2, <3>1
  <2> QED
    BY <1>1, <2>1, <2>2
<1>7. n > 0 => Agree(d, x, n - 1)
  BY <1>1, <1>3, <1>5 DEF Agree
<1>8. Follows(p, o \o x)
  BY <1>1, <1>5, <1>6, <1>7, FollowsGrows
<1> QED
  BY <1>8 DEF x, c, o, p, Begin

\* The finish rules let a request go on only if its slot has a cell left.
LEMMA RoomLeft ==
  ASSUME NEW r, NEW token, NEW hit, NEW nGenerated, NEW pos \in Int,
         Reason(r, token, hit, nGenerated, pos) = "none"
  PROVE  pos < NCtxSeq
<1>1. ~ (pos >= NCtxSeq)
  BY Zenon DEF Reason
<1>2. NCtxSeq \in Int
  BY GeometryAssumption
<1> QED
  BY <1>1, <1>2

\* A request that goes on has its new text in its slot, the rejected drafts
\* rewound, and a cell for its pending token.
LEMMA GoesOnSettled ==
  ASSUME KInv, NEW r \in DOMAIN todo, r \notin stranded,
         NEW m \in 0 .. Len(todo[r]), NEW token \in Token, Samples(r, m, token),
         CheckedPos(todo[r], states[r].nPos - Len(todo[r]) - 1, m + 1) < NCtxSeq
  PROVE  LET c == Confirmed(r, m, token)
             final == states[r].nPos - Len(todo[r]) - 1 + Len(c)
         IN  Settled([states[r] EXCEPT !.out = @ \o c, !.next = token,
                                       !.nPos = final],
                     Rewound(states[r].slot, final))
<1> DEFINE d == todo[r]
           p == states[r].prompt
           o == states[r].out
           base == states[r].nPos - Len(todo[r]) - 1
           c == Confirmed(r, m, token)
           final == base + Len(c)
           y == o \o c
           held == kv[states[r].slot]
           new == [states[r] EXCEPT !.out = @ \o c, !.next = token, !.nPos = final]
           memory == Rewound(states[r].slot, final)
<1>1. /\ d \in Seq(Token) /\ Len(d) \in Nat
      /\ p \in Seq(Token) /\ Len(p) \in Nat
      /\ o \in Seq(Token) /\ Len(o) \in Nat
      /\ held = Row(p, o, d)
      /\ states[r].nPos = Len(p) + Len(o) + Len(d)
      /\ m \in 0 .. Len(d)
  BY RowInStep DEF InStep
<1>2. /\ c \in Seq(Token) /\ Len(c) = m + 1
      /\ \A i \in 1 .. m : c[i] = d[i]
      /\ c[m + 1] = token
  <2>1. todo[r] \in Seq(Token) /\ m \in 0 .. Len(todo[r])
    BY <1>1
  <2> QED
    BY <2>1, ConfirmedTokens
<1> HIDE DEF c
<1>3. Follows(p, y)
  <2>1. m + 1 \in 0 .. m + 1
    BY <1>1
  <2>2. SubSeq(c, 1, m + 1) = c
    BY <1>2, SubSeqFull
  <2> QED
    BY <2>1, <2>2, ConfirmedFollows DEF c
<1>4. /\ states[r] \in RequestState
      /\ states[r].nPrefilled = Len(p)
  BY RowInStep, RequestTyped DEF KInv, IInv, RowsBacked, RowReady
<1>5. /\ new.slot = states[r].slot /\ new.prompt = p
      /\ new.nPrefilled = states[r].nPrefilled
      /\ new.out = y /\ new.next = token /\ new.nPos = final
  BY <1>4, Zenon DEF RequestState
<1> HIDE DEF new
<1>6. memory[new.slot] = Begin(held, final)
  <2>1. states[r].slot \in Slots /\ kv \in [Slots -> Seq(Token)]
    BY RowInStep, RequestTyped DEF KInv, IInv, TypeOK
  <2> HIDE DEF final
  <2> QED
    BY <1>5, <2>1 DEF Rewound, Begin
<1> HIDE DEF memory, held
<1>7. /\ base = Len(p) + Len(o) - 1
      /\ final = Len(p) + Len(o) + m
      /\ final = base + m + 1
  <2> DEFINE pos == states[r].nPos
             n == Len(d)
  <2>1. base = pos - n - 1 /\ final = base + Len(c)
    OBVIOUS
  <2>2. pos = Len(p) + Len(o) + n /\ Len(c) = m + 1
    BY <1>1, <1>2
  <2>3. n \in Nat /\ Len(p) \in Nat /\ Len(o) \in Nat /\ m \in Int
    BY <1>1
  <2> HIDE DEF pos, n, p, o
  <2>4. base = Len(p) + Len(o) - 1
    BY <2>1, <2>2, <2>3
  <2> HIDE DEF base
  <2>5. final = base + (m + 1)
    BY <2>1, <2>2
  <2> QED
    BY <2>3, <2>4, <2>5
<1>8. final < NCtxSeq
  <2> DEFINE checked == CheckedPos(todo[r], base, m + 1)
  <2>1. base \in Int /\ m \in Nat /\ (todo[r] = << >> => m = 0)
    <3>1. Len(p) \in Nat /\ Len(o) \in Nat /\ m \in Nat
      BY <1>1
    <3>2. todo[r] = << >> => m = 0
      BY <1>1, EmptySeq
    <3> HIDE DEF p, o
    <3> QED
      BY <1>7, <3>1, <3>2
  <2>2. checked = IF todo[r] = << >> THEN base + 1 ELSE base + 1 + (m + 1)
    BY DEF CheckedPos
  <2>3. checked < NCtxSeq /\ NCtxSeq \in Int
    BY GeometryAssumption
  <2> HIDE DEF checked
  <2>4. final = base + m + 1
    BY <1>7
  <2> QED
    BY <2>1, <2>2, <2>3, <2>4
<1>9. /\ y \in Seq(Token) /\ Len(y) = Len(o) + (m + 1)
      /\ y[Len(o) + (m + 1)] = token
  <2>0. o \in Seq(Token) /\ c \in Seq(Token)
    BY <1>1, <1>2
  <2>1. /\ y \in Seq(Token) /\ Len(y) = Len(o) + Len(c)
        /\ \A i \in 1 .. Len(c) : y[Len(o) + i] = c[i]
    BY <2>0, Halves
  <2>2. Len(c) = m + 1 /\ c[m + 1] = token /\ m + 1 \in 1 .. m + 1
    BY <1>1, <1>2
  <2> HIDE DEF y, o
  <2> QED
    BY <2>1, <2>2
<1>10. memory[new.slot] = Begin(Text(p, y), final)
  <2>1. Text(p, y) = Row(p, o, c)
    BY <1>1, <1>2, LongerText
  <2>2. m \in Nat /\ Agree(d, c, m)
    BY <1>1, <1>2 DEF Agree
  <2>3. memory[new.slot] = Begin(Row(p, o, d), final)
    BY <1>1, <1>6
  <2> HIDE DEF y, d, p, o
  <2>4. Begin(Row(p, o, d), Len(p) + Len(o) + m)
          = Begin(Row(p, o, c), Len(p) + Len(o) + m)
    BY <1>1, <1>2, <2>2, SameText
  <2> QED
    BY <1>7, <2>1, <2>3, <2>4
<1> HIDE DEF y, p, o
<1>11. y # << >> /\ new.next = y[Len(y)]
  BY <1>1, <1>5, <1>9, EmptySeq
<1>12. Voiced(new)
  BY <1>3, <1>5, <1>11 DEF Voiced
<1>13. /\ ~ (new.nPrefilled < Len(new.prompt))
       /\ new.nPos = Len(new.prompt) + Len(new.out) - 1
  <2>1. /\ Len(p) \in Nat /\ Len(o) \in Nat /\ m \in Nat
        /\ new.nPrefilled = Len(p) /\ new.prompt = p /\ new.out = y
        /\ new.nPos = Len(p) + Len(o) + m
        /\ Len(y) = Len(o) + (m + 1)
    BY <1>1, <1>4, <1>5, <1>7, <1>9
  <2> QED
    BY <2>1
<1> QED
  BY <1>5, <1>8, <1>10, <1>12, <1>13 DEF Settled, new, memory, final, c

\* A verified row, whether its request goes on or retires.
LEMMA AcceptText ==
  ASSUME KInv, NEW r \in DOMAIN todo, NEW m \in 0 .. Len(todo[r]),
         NEW token \in Token, NEW h, Accept(r, m, token, h),
         RowsLeft(r), UNCHANGED refused
  PROVE  LiveTexted' /\ RetiredTexted' /\ NoBatchRefused'
<1> DEFINE drafts == todo[r]
           base == states[r].nPos - Len(drafts) - 1
           accepted == Confirmed(r, m, token)
           final == base + Len(accepted)
           memory == Rewound(states[r].slot, final)
           reason(i) == Reason(r, accepted[i], h = i, Len(states[r].out) + i,
                               CheckedPos(drafts, base, i))
           ends == {i \in 1 .. m + 1 : reason(i) # "none"}
<1>1. /\ IInv /\ r \in DOMAIN states
      /\ drafts \in Seq(Token) /\ Len(drafts) \in Nat /\ m \in Nat
      /\ states[r].nPos \in Nat /\ states[r].out \in Seq(Token)
      /\ states[r].slot \in Slots
  <2>1. IInv /\ r \in DOMAIN states /\ drafts \in Seq(Token)
    BY DEF KInv, IInv, TypeOK
  <2>2. Len(drafts) \in Nat /\ m \in Nat
    BY <2>1, LenProperties
  <2> QED
    BY <2>1, <2>2, RequestTyped DEF IInv
<1>2. accepted \in Seq(Token) /\ Len(accepted) = m + 1
      /\ final = states[r].nPos - Len(drafts) + m
  BY <1>1, ConfirmedTyped
<1>3. Samples(r, m, token)
  BY DEF Accept
<1>4. IF ends = {}
      THEN /\ states' = [states EXCEPT
                           ![r].out = @ \o accepted,
                           ![r].next = token,
                           ![r].nPos = final]
           /\ kv' = memory
           /\ UNCHANGED <<free, retired, pins>>
      ELSE LET k == Min(ends)
               kept == IF accepted[k] = Eog THEN k - 1 ELSE k
           IN  Retire(r, reason(k), states[r].out \o SubSeq(accepted, 1, kept),
                      memory)
  BY Zenon DEF Accept
<1>5. /\ memory \in [Slots -> Seq(Token)]
      /\ \A t \in Slots \ {states[r].slot} : memory[t] = kv[t]
      /\ final >= Len(states[r].prompt)
      /\ Len(memory[states[r].slot]) = final
      /\ \A i \in 1 .. final :
           memory[states[r].slot][i] = kv[states[r].slot][i]
  <2> HIDE DEF final
  <2> QED
    BY <1>1, <1>2, RewoundRow
<1>6. CASE ends = {}
  <2> DEFINE new == [states[r] EXCEPT !.out = @ \o accepted, !.next = token,
                                      !.nPos = final]
  <2>1. /\ states' = [states EXCEPT ![r] = new]
        /\ kv' = memory /\ UNCHANGED retired
    BY <1>1, <1>4, <1>6
  <2>2. ASSUME r \notin stranded PROVE Settled(new, memory)
    <3>1. CheckedPos(drafts, base, m + 1) < NCtxSeq
      <4> DEFINE pos == CheckedPos(drafts, base, m + 1)
                 hit == h = m + 1
                 last == accepted[m + 1]
                 length == Len(states[r].out) + (m + 1)
      <4>1. m + 1 \in 1 .. m + 1
        BY <1>1
      <4>2. reason(m + 1) = "none"
        BY <1>6, <4>1
      <4>3. pos \in Int
        BY <1>1 DEF CheckedPos
      <4>4. Reason(r, last, hit, length, pos) = "none"
        BY <4>2
      <4> HIDE DEF pos, hit, last, length
      <4>5. pos < NCtxSeq
        BY <4>3, <4>4, RoomLeft
      <4> QED
        BY <4>5 DEF pos
    <3> QED
      BY <1>3, <2>2, <3>1, GoesOnSettled
  <2> HIDE DEF new, memory
  <2>3. /\ DOMAIN states' = DOMAIN states /\ states'[r] = new
        /\ \A q \in DOMAIN states : q # r => states'[q] = states[q]
    BY <1>1, <2>1
  <2>4. ASSUME NEW q \in DOMAIN states' \ stranded' PROVE Texted(q)'
    <3>1. stranded \subseteq stranded' /\ q \in DOMAIN states
      BY <2>3 DEF RowsLeft
    <3>2. CASE q = r
      <4>1. Settled(states'[q], kv')
        BY <2>1, <2>2, <2>3, <2>4, <3>1, <3>2
      <4>2. q \notin DOMAIN todo'
        BY <3>2 DEF RowsLeft
      <4> QED
        BY <4>1, <4>2 DEF Texted
    <3>3. CASE q # r
      <4>1. states'[q] = states[q] /\ kv'[states[q].slot] = kv[states[q].slot]
        <5>1. states[q].slot \in Slots /\ states[q].slot # states[r].slot
          BY <1>1, <3>1, <3>3, RequestTyped DEF IInv, OneSlotEach
        <5> QED
          BY <1>5, <2>1, <2>3, <3>1, <3>3, <5>1
      <4>2. /\ q \in DOMAIN todo' <=> q \in DOMAIN todo
            /\ q \in DOMAIN todo => todo'[q] = todo[q]
        BY <2>4, <3>1, <3>3 DEF RowsLeft
      <4> QED
        BY <2>4, <3>1, <4>1, <4>2, PeerTexted DEF KInv
    <3> QED
      BY <3>2, <3>3
  <2>5. RetiredTexted' /\ NoBatchRefused'
    BY <2>1 DEF KInv, RetiredTexted, NoBatchRefused, RowsLeft
  <2> QED
    BY <2>4, <2>5 DEF LiveTexted
<1>7. CASE ends # {}
  <2> DEFINE k == Min(ends)
             kept == IF accepted[k] = Eog THEN k - 1 ELSE k
             out == states[r].out \o SubSeq(accepted, 1, kept)
             why == reason(k)
  <2>1. k \in 1 .. m + 1 /\ why # "none"
    <3>1. ends \subseteq Nat /\ ends # {}
      BY <1>1, <1>7
    <3>2. Min(ends) \in ends
      BY <3>1, LeastNumber
    <3> QED
      BY <3>2
  <2>2. why \in {"eog", "stop_sequence", "length", "context", "cancelled", "error"}
    BY <2>1, Zenon DEF Reason
  <2>3. Retire(r, why, out, memory)
    BY <1>4, <1>7
  <2> HIDE DEF ends, k
  <2>4. kept \in 0 .. m + 1
    BY <1>1, <2>1
  <2> HIDE DEF kept
  <2>5. out \in Seq(Token)
    <3>1. \A i \in 1 .. kept : accepted[i] \in Token
      BY <1>1, <1>2, <2>4, ElementOfSeq
    <3>2. SubSeq(accepted, 1, kept) \in Seq(Token)
      BY <1>1, <2>4, <3>1, SubSeqProperties
    <3> QED
      BY <1>1, <3>2, ConcatProperties
  <2>6. r \notin stranded => Follows(states[r].prompt, out)
    BY <1>3, <2>4, ConfirmedFollows
  <2>7. states[r].nPrefilled >= Len(states[r].prompt)
          => IsPrefix(states[r].prompt, memory[states[r].slot])
    <3> DEFINE held == memory[states[r].slot]
    <3>1. /\ states[r].nPrefilled = Len(states[r].prompt)
          /\ Len(states[r].prompt) \in Nat
      BY <1>1, RequestTyped DEF IInv, RowsBacked, RowReady
    <3>2. /\ held \in Seq(Token) /\ Len(held) >= states[r].nPrefilled
          /\ \A i \in 1 .. states[r].nPrefilled : held[i] = kv[states[r].slot][i]
      <4> HIDE DEF memory, final
      <4>1. /\ held \in Seq(Token) /\ Len(held) = final
            /\ final >= Len(states[r].prompt)
            /\ \A i \in 1 .. final : held[i] = kv[states[r].slot][i]
        BY <1>1, <1>5
      <4>2. final \in Int
        BY <1>1, <1>2
      <4> QED
        BY <3>1, <4>1, <4>2
    <3> HIDE DEF held
    <3>3. states[r].nPrefilled >= Len(states[r].prompt)
            => IsPrefix(states[r].prompt, held)
      BY <1>1, <3>2, PromptHeld
    <3> QED
      BY <3>3 DEF held
  <2> HIDE DEF why, out, memory
  <2> QED
    BY <1>1, <1>5, <2>2, <2>3, <2>5, <2>6, <2>7, RetireText
<1> QED
  BY <1>6, <1>7

LEMMA AdvanceText ==
  ASSUME KInv, Advance
  PROVE  LiveTexted' /\ RetiredTexted' /\ NoBatchRefused'
<1> DEFINE r == NextRow
<1>1. /\ ~Idle /\ todo' = Minus(todo, r)
      /\ UNCHANGED <<nextId, stranded, refused>>
  BY DEF Advance
<1>2. r \in DOMAIN todo
  BY <1>1, NextRowProperties DEF KInv
<1>3. PICK m \in 0 .. Len(todo[r]), token \in Token, h \in 0 .. Len(todo[r]) + 1 :
        Accept(r, m, token, h)
  BY DEF Advance
<1> HIDE DEF r
<1>4. RowsLeft(r)
  BY <1>1 DEF Minus, Restrict, RowsLeft
<1> QED
  BY <1>1, <1>2, <1>3, <1>4, AcceptText

\* The rows that an exception leaves behind are stranded.
LEMMA AbortedText ==
  ASSUME IInv, NEW r \in DOMAIN todo, StepAborted(r)
  PROVE  RowsLeft(r) /\ UNCHANGED refused
<1>1. /\ DOMAIN todo' = {} /\ stranded' = stranded \cup (DOMAIN todo \ {r})
      /\ UNCHANGED refused
  BY DEF StepAborted
<1> QED
  BY <1>1 DEF RowsLeft

LEMMA SyncFailsText ==
  ASSUME KInv, SyncFails
  PROVE  LiveTexted' /\ RetiredTexted' /\ NoBatchRefused'
<1> DEFINE r == NextRow
<1>1. ~Idle /\ StepAborted(r)
  BY DEF SyncFails
<1>2. r \in DOMAIN todo /\ IInv
  BY <1>1, NextRowProperties DEF KInv
<1>3. PICK m \in 0 .. Len(todo[r]), token \in Token : Accept(r, m, token, 0)
  BY DEF SyncFails
<1> HIDE DEF r
<1> QED
  BY <1>1, <1>2, <1>3, AbortedText, AcceptText

LEMMA AdvanceFailsText ==
  ASSUME KInv, AdvanceFails
  PROVE  LiveTexted' /\ RetiredTexted' /\ NoBatchRefused'
<1> DEFINE r == NextRow
           drafts == todo[r]
           base == states[r].nPos - Len(drafts) - 1
<1>1. ~Idle /\ StepAborted(r)
  BY DEF AdvanceFails
<1>2. PICK m \in 0 .. Len(drafts), token \in Token :
        \E n \in 0 .. m + 1 : RowFails(r, m, token, n)
  BY DEF AdvanceFails
<1>3. PICK n \in 0 .. m + 1 : RowFails(r, m, token, n)
  BY <1>2
<1>4. r \in DOMAIN todo /\ r \in DOMAIN states /\ IInv
  BY <1>1, NextRowProperties DEF KInv
<1>5. RowsLeft(r) /\ UNCHANGED refused
  BY <1>1, <1>4, AbortedText
<1> HIDE DEF r
<1> DEFINE accepted == Confirmed(r, m, token)
           final == base + Len(accepted)
           cut == Rewound(states[r].slot, final)
           out == states[r].out \o SubSeq(accepted, 1, n)
<1>6. /\ Samples(r, m, token)
      /\ \/ Retire(r, "error", out, cut)
         \/ Retire(r, "error", out, kv)
  BY <1>3 DEF RowFails
<1>7. /\ accepted \in Seq(Token) /\ Len(accepted) = m + 1
      /\ final = states[r].nPos - Len(drafts) + m
  BY <1>2, <1>4, ConfirmedTyped
<1>8. r \notin stranded => Follows(states[r].prompt, out)
  BY <1>2, <1>3, <1>4, <1>6, ConfirmedFollows
<1>9. /\ states[r].nPrefilled = Len(states[r].prompt)
      /\ states[r].prompt \in Seq(Token) /\ Len(states[r].prompt) \in Nat
      /\ states[r].out \in Seq(Token) /\ states[r].slot \in Slots
      /\ states[r].nPos \in Nat
      /\ kv \in [Slots -> Seq(Token)] /\ kv[states[r].slot] \in Seq(Token)
      /\ states[r].nPrefilled <= Len(kv[states[r].slot])
      /\ m \in Nat
  <2>1. todo[r] \in Seq(Token)
    BY <1>4 DEF IInv, TypeOK
  <2>2. m \in Nat
    BY <1>2, <2>1, LenProperties
  <2> QED
    BY <1>4, <2>2, RequestTyped DEF IInv, TypeOK, RowsBacked, Backed, RowReady
<1> HIDE DEF accepted
<1>10. out \in Seq(Token)
  <2>1. \A i \in 1 .. n : accepted[i] \in Token
    BY <1>3, <1>7, <1>9, ElementOfSeq
  <2>2. SubSeq(accepted, 1, n) \in Seq(Token)
    BY <1>3, <1>9, <2>1, SubSeqProperties
  <2> QED
    BY <1>9, <2>2, ConcatProperties
<1>11. CASE Retire(r, "error", out, cut)
  <2>1. /\ final \in Nat /\ final >= Len(states[r].prompt)
        /\ cut \in [Slots -> Seq(Token)]
        /\ \A t \in Slots \ {states[r].slot} : cut[t] = kv[t]
        /\ Len(cut[states[r].slot]) = final
        /\ \A i \in 1 .. final :
             cut[states[r].slot][i] = kv[states[r].slot][i]
    <3>1. m \in 0 .. Len(todo[r])
      BY <1>2
    <3> HIDE DEF final
    <3> QED
      BY <1>4, <1>7, <3>1, RewoundRow
  <2> DEFINE held == cut[states[r].slot]
  <2> HIDE DEF cut, final, out
  <2>2. /\ held \in Seq(Token) /\ Len(held) >= states[r].nPrefilled
        /\ \A i \in 1 .. states[r].nPrefilled : held[i] = kv[states[r].slot][i]
    BY <1>9, <2>1
  <2>3. states[r].nPrefilled >= Len(states[r].prompt)
          => IsPrefix(states[r].prompt, held)
    <3> HIDE DEF held
    <3> QED
      BY <1>4, <2>2, PromptHeld
  <2> QED
    BY <1>4, <1>5, <1>8, <1>10, <1>11, <2>1, <2>3, RetireText
<1>12. CASE Retire(r, "error", out, kv)
  <2>1. states[r].nPrefilled >= Len(states[r].prompt)
          => IsPrefix(states[r].prompt, kv[states[r].slot])
    BY <1>4, <1>9, PromptHeld
  <2> HIDE DEF out
  <2> QED
    BY <1>4, <1>5, <1>8, <1>9, <1>10, <1>12, <2>1, RetireText
<1> QED
  BY <1>6, <1>11, <1>12

-----------------------------------------------------------------------------
(* One decode.                                                              *)

\* Tokens b decoded after a.
Then(a, b) == a \o b

LEMMA ThenProperties ==
  ASSUME NEW S, NEW a \in Seq(S), NEW b \in Seq(S)
  PROVE  /\ Then(a, b) \in Seq(S)
         /\ Len(Then(a, b)) = Len(a) + Len(b)
         /\ \A i \in 1 .. Len(a) : Then(a, b)[i] = a[i]
         /\ \A i \in 1 .. Len(b) : Then(a, b)[Len(a) + i] = b[i]
BY Halves DEF Then

LEMMA ThenThen ==
  ASSUME NEW S, NEW a \in Seq(S), NEW b \in Seq(S), NEW c \in Seq(S)
  PROVE  Then(Then(a, b), c) = Then(a, Then(b, c))
BY ConcatAssociative DEF Then

\* The next chunk of prompt p, after its first a tokens.
LEMMA ChunkText ==
  ASSUME NEW S, NEW p \in Seq(S), NEW a \in Nat, NEW c \in Nat, a + c <= Len(p)
  PROVE  Then(Begin(p, a), SubSeq(p, a + 1, a + c)) = Begin(p, a + c)
<1> DEFINE b == Begin(p, a)
           x == SubSeq(p, a + 1, a + c)
           n == a + c
           d == Begin(p, n)
<1>1. Len(p) \in Nat /\ a \in 0 .. Len(p) /\ n \in 0 .. Len(p) /\ n \in Nat
  BY LenProperties
<1>2. b \in Seq(S) /\ Len(b) = a /\ \A i \in 1 .. a : b[i] = p[i]
  BY <1>1, BeginProperties
<1>3. d \in Seq(S) /\ Len(d) = n /\ \A i \in 1 .. n : d[i] = p[i]
  BY <1>1, BeginProperties
<1>4. x \in Seq(S) /\ Len(x) = c /\ \A i \in 1 .. c : x[i] = p[a + i]
  BY ChunkProperties
<1>5. n = a + c
  OBVIOUS
<1> HIDE DEF b, x, d, n
<1> DEFINE y == Then(b, x)
<1>0. b \in Seq(S) /\ x \in Seq(S)
  BY <1>2, <1>4
<1>6. y \in Seq(S) /\ Len(y) = Len(b) + Len(x)
  BY <1>0, ThenProperties
<1>7. \A i \in 1 .. a : y[i] = p[i]
  <2>1. \A i \in 1 .. Len(b) : y[i] = b[i]
    BY <1>0, ThenProperties
  <2> HIDE DEF y
  <2> QED
    BY <1>2, <2>1
<1>8. \A i \in 1 .. c : y[a + i] = p[a + i]
  <2>1. \A i \in 1 .. Len(x) : y[Len(b) + i] = x[i]
    BY <1>0, ThenProperties
  <2> HIDE DEF y
  <2> QED
    BY <1>2, <1>4, <2>1
<1> HIDE DEF y
<1>9. ASSUME NEW i \in 1 .. n PROVE y[i] = p[i]
  <2>1. CASE i <= a
    BY <1>1, <1>7, <2>1
  <2>2. CASE i > a
    <3>1. i - a \in 1 .. c /\ a + (i - a) = i
      BY <1>1, <1>5, <2>2
    <3> QED
      BY <1>8, <3>1
  <2> QED
    BY <1>1, <2>1, <2>2
<1>10. Len(y) = n
  BY <1>2, <1>4, <1>5, <1>6
<1>11. y = d
  BY <1>3, <1>6, <1>9, <1>10, SeqEqual
<1> QED
  BY <1>11 DEF y, b, x, d, n

\* The pending token, decoded after the text up to it, with drafts d after it.
LEMMA PendingText ==
  ASSUME NEW S, NEW p \in Seq(S), NEW o \in Seq(S), NEW d \in Seq(S), o # << >>
  PROVE  Then(Begin(Text(p, o), Len(p) + Len(o) - 1), Then(<<o[Len(o)]>>, d))
           = Row(p, o, d)
<1> DEFINE t == Text(p, o)
           n == Len(p) + Len(o)
           b == Begin(t, n - 1)
           last == <<o[Len(o)]>>
<1>1. /\ Len(p) \in Nat /\ Len(o) \in Nat /\ Len(o) > 0
      /\ o[Len(o)] \in S
  BY LenProperties, EmptySeq, ElementOfSeq
<1>2. /\ t \in Seq(S) /\ Len(t) = n
      /\ \A i \in 1 .. Len(o) : t[Len(p) + i] = o[i]
  BY TextProperties
<1>3. n \in Nat /\ n - 1 \in 0 .. n /\ n - 1 + 1 = n
  BY <1>1
<1>4. t[n] = o[Len(o)]
  BY <1>1, <1>2
<1>5. b \in Seq(S) /\ Len(b) = n - 1 /\ \A i \in 1 .. n - 1 : b[i] = t[i]
  <2> DEFINE k == n - 1
  <2>1. t \in Seq(S) /\ k \in 0 .. Len(t)
    BY <1>2, <1>3
  <2> HIDE DEF k, t
  <2>2. /\ Begin(t, k) \in Seq(S) /\ Len(Begin(t, k)) = k
        /\ \A i \in 1 .. k : Begin(t, k)[i] = t[i]
    BY <2>1, BeginProperties
  <2> QED
    BY <2>2 DEF k
<1>6. last \in Seq(S) /\ Len(last) = 1 /\ last[1] = o[Len(o)]
  BY <1>1
<1>7. Row(p, o, d) = Then(t, d)
  BY DEF Row, Text, Then
<1> HIDE DEF t, b, n, last
<1>8. b \in Seq(S) /\ last \in Seq(S)
  BY <1>5, <1>6
<1>9. Then(b, last) = t
  <2> DEFINE y == Then(b, last)
  <2>1. /\ y \in Seq(S) /\ Len(y) = Len(b) + Len(last)
        /\ \A i \in 1 .. Len(b) : y[i] = b[i]
        /\ \A i \in 1 .. Len(last) : y[Len(b) + i] = last[i]
    <3>1. y \in Seq(S) /\ Len(y) = Len(b) + Len(last)
      BY <1>8, ThenProperties
    <3>2. \A i \in 1 .. Len(b) : y[i] = b[i]
      BY <1>8, ThenProperties
    <3>3. \A i \in 1 .. Len(last) : y[Len(b) + i] = last[i]
      BY <1>8, ThenProperties
    <3> QED
      BY <3>1, <3>2, <3>3
  <2> HIDE DEF y
  <2>2. Len(y) = n /\ y[n] = t[n] /\ \A i \in 1 .. n - 1 : y[i] = t[i]
    BY <1>3, <1>4, <1>5, <1>6, <2>1
  <2>3. ASSUME NEW i \in 1 .. n PROVE y[i] = t[i]
    <3>1. i \in 1 .. n - 1 \/ i = n
      BY <1>3
    <3> QED
      BY <2>2, <3>1
  <2>4. y = t
    BY <1>2, <2>1, <2>2, <2>3, SeqEqual
  <2> QED
    BY <2>4 DEF y
<1>10. Then(Then(b, last), d) = Then(b, Then(last, d))
  BY <1>8, ThenThen
<1>11. Then(b, Then(last, d)) = Row(p, o, d)
  BY <1>7, <1>9, <1>10
<1> QED
  BY <1>11 DEF b, t, n, last

\* Between steps: the position of a request is the end of its KV.
LEMMA IdleSettled ==
  ASSUME KInv, Idle, NEW r \in DOMAIN states, r \notin stranded
  PROVE  LET p == states[r].prompt
             o == states[r].out
         IN  /\ Settled(states[r], kv) /\ Voiced(states[r])
             /\ p \in Seq(Token) /\ Len(p) \in Nat /\ Len(p) > 0
             /\ o \in Seq(Token) /\ Len(o) \in Nat
             /\ states[r].nPos \in Nat /\ states[r].nPrefilled \in Nat
             /\ Len(kv[states[r].slot]) = states[r].nPos
             /\ states[r].nPos < NCtxSeq
             /\ Prefilling(r) => o = << >> /\ states[r].nPos = states[r].nPrefilled
             /\ ~Prefilling(r) => /\ states[r].nPos = Len(p) + Len(o) - 1
                                  /\ states[r].nPrefilled = Len(p)
             /\ Generating(r) => o # << >> /\ states[r].next = o[Len(o)]
<1> DEFINE p == states[r].prompt
           o == states[r].out
           n == states[r].nPos
           f == states[r].nPrefilled
<1>1. /\ p \in Seq(Token) /\ Len(p) \in Nat /\ Len(p) > 0 /\ Len(p) < NCtxSeq
      /\ o \in Seq(Token) /\ Len(o) \in Nat /\ n \in Nat /\ f \in Nat
      /\ NCtxSeq \in Nat
  <2>1. /\ p \in Prompts /\ p \in Seq(Token) /\ Len(p) \in Nat
        /\ o \in Seq(Token) /\ n \in Nat /\ f \in Nat
    BY RequestTyped DEF KInv, IInv
  <2>2. Len(p) \in 1 .. NCtxSeq - 1 /\ Len(o) \in Nat /\ NCtxSeq \in Nat
    BY <2>1, RequestAssumption, GeometryAssumption, LenProperties
  <2> HIDE DEF p, o, n, f
  <2> QED
    BY <2>1, <2>2
<1>2. Settled(states[r], kv)
  BY DEF KInv, LiveTexted, Texted, Idle
<1>3. /\ kv[states[r].slot] = Begin(Text(p, o), n)
      /\ Voiced(states[r])
      /\ IF f < Len(p) THEN o = << >> ELSE n = Len(p) + Len(o) - 1 /\ n < NCtxSeq
  BY <1>2 DEF Settled
<1>4. f <= Len(p) /\ (f < Len(p) => n = f)
  BY DEF KInv, IInv, RowsBacked, Backed
<1>5. Prefilling(r) <=> f < Len(p)
  BY DEF Prefilling
<1>6. Generating(r) => o # << >> /\ states[r].next = o[Len(o)]
  BY <1>3 DEF Voiced, Generating
<1> HIDE DEF p, o, n, f
<1>7. n \in 0 .. Len(p) + Len(o) /\ n < NCtxSeq
  BY <1>1, <1>3, <1>4
<1>8. Len(Begin(Text(p, o), n)) = n
  <2> DEFINE t == Text(p, o)
  <2>1. t \in Seq(Token) /\ Len(t) = Len(p) + Len(o)
    BY <1>1, TextProperties
  <2> HIDE DEF t
  <2>2. n \in 0 .. Len(t)
    BY <1>7, <2>1
  <2>3. Len(Begin(t, n)) = n
    BY <2>1, <2>2, BeginProperties
  <2> QED
    BY <2>3 DEF t
<1>9. /\ Prefilling(r) => o = << >> /\ n = f
      /\ ~Prefilling(r) => n = Len(p) + Len(o) - 1 /\ f = Len(p)
  BY <1>1, <1>3, <1>4, <1>5
<1>10. Len(kv[states[r].slot]) = n
  BY <1>3, <1>8
<1> QED
  BY <1>1, <1>2, <1>3, <1>6, <1>7, <1>9, <1>10 DEF p, o, n, f

\* A chunk is no longer than its slot has cells.
LEMMA ChunkWithinSlot ==
  ASSUME NEW chunk, NEW r \in DOMAIN chunk, NEW left \in Int, NEW room \in Int,
         left = Len(states[r].prompt) - states[r].nPrefilled,
         room = Most(0, NCtxSeq - states[r].nPos),
         chunk[r] \in Int, IsPrefillPlan(chunk)
  PROVE  chunk[r] <= room
<1> DEFINE spare == NBatch - SumFunctionOnSet(chunk, {q \in DOMAIN chunk : q < r})
           both == Least(left, room)
<1>1. chunk[r] = Least(both, spare)
  BY DEF IsPrefillPlan
<1> HIDE DEF spare
<1>2. both \in Int /\ both <= room
  BY DEF Least
<1> HIDE DEF both
<1>3. CASE both <= spare
  BY <1>1, <1>2, <1>3 DEF Least
<1>4. CASE ~ (both <= spare)
  <2>1. chunk[r] = spare /\ spare \in Int
    BY <1>1, <1>4 DEF Least
  <2> QED
    BY <1>2, <1>4, <2>1
<1> QED
  BY <1>3, <1>4

\* Request r has in the batch the next chunk of its prompt, or its pending token
\* and the drafts after it, or nothing.
InBatch(r, chunk, rows, drafts) ==
  LET x == Packed(r, chunk, drafts)
  IN  /\ r \in DOMAIN chunk =>
           /\ Prefilling(r) /\ r \notin rows
           /\ chunk[r] \in Nat
           /\ states[r].nPrefilled + chunk[r] <= Len(states[r].prompt)
           /\ x = SubSeq(states[r].prompt, states[r].nPrefilled + 1,
                         states[r].nPrefilled + chunk[r])
           /\ x \in Seq(Token) /\ Len(x) = chunk[r]
      /\ r \in rows =>
           /\ Generating(r) /\ ~Prefilling(r) /\ r \notin DOMAIN chunk
           /\ drafts[r] \in Seq(Token) /\ Len(drafts[r]) \in Nat
           /\ x = Then(<<states[r].next>>, drafts[r])
           /\ x \in Seq(Token) /\ Len(x) = 1 + Len(drafts[r])
      /\ r \notin DOMAIN chunk /\ r \notin rows => x = << >>

LEMMA PackedRow ==
  ASSUME KInv, Idle,
         NEW chunk \in [{q \in DOMAIN states : Prefilling(q)} -> 0 .. NBatch],
         IsPrefillPlan(chunk),
         NEW rows \in SUBSET {q \in DOMAIN states : Generating(q)},
         NEW drafts \in [rows -> DraftSeqs],
         NEW r \in DOMAIN states
  PROVE  InBatch(r, chunk, rows, drafts)
<1>1. DOMAIN chunk = {q \in DOMAIN states : Prefilling(q)} /\ DOMAIN drafts = rows
  OBVIOUS
<1>2. IInv
  BY DEF KInv
<1>3. ASSUME r \in DOMAIN chunk
      PROVE  /\ Prefilling(r) /\ r \notin rows
             /\ chunk[r] \in Nat
             /\ states[r].nPrefilled + chunk[r] <= Len(states[r].prompt)
             /\ Packed(r, chunk, drafts) =
                  SubSeq(states[r].prompt, states[r].nPrefilled + 1,
                         states[r].nPrefilled + chunk[r])
             /\ Packed(r, chunk, drafts) \in Seq(Token)
             /\ Len(Packed(r, chunk, drafts)) = chunk[r]
  <2> DEFINE p == states[r].prompt
             f == states[r].nPrefilled
             c == chunk[r]
             x == Packed(r, chunk, drafts)
  <2>1. Prefilling(r) /\ r \notin rows
    BY <1>1, <1>3 DEF Generating
  <2>2. chunk[r] \in 0 .. NBatch
    BY <1>1, <1>3
  <2>3. c \in Nat /\ f + c <= Len(p)
    BY <1>2, <1>3, <2>2, ChunkWithinPrompt
  <2>4. x = SubSeq(p, f + 1, f + c)
    BY <1>3 DEF Packed
  <2>5. p \in Seq(Token) /\ f \in Nat
    BY <1>2, RequestTyped DEF IInv
  <2> HIDE DEF p, f, c, x
  <2>6. SubSeq(p, f + 1, f + c) \in Seq(Token) /\ Len(SubSeq(p, f + 1, f + c)) = c
    BY <2>3, <2>5, ChunkProperties
  <2>7. x \in Seq(Token) /\ Len(x) = c
    BY <2>4, <2>6
  <2> QED
    BY <2>1, <2>3, <2>4, <2>7 DEF p, f, c, x
<1>4. ASSUME r \in rows
      PROVE  /\ Generating(r) /\ ~Prefilling(r) /\ r \notin DOMAIN chunk
             /\ drafts[r] \in Seq(Token) /\ Len(drafts[r]) \in Nat
             /\ Packed(r, chunk, drafts) = Then(<<states[r].next>>, drafts[r])
             /\ Packed(r, chunk, drafts) \in Seq(Token)
             /\ Len(Packed(r, chunk, drafts)) = 1 + Len(drafts[r])
  <2> DEFINE x == Packed(r, chunk, drafts)
             d == drafts[r]
             t == <<states[r].next>>
  <2>1. Generating(r) /\ ~Prefilling(r) /\ r \notin DOMAIN chunk
    BY <1>1, <1>4 DEF Generating
  <2>2. d \in Seq(Token) /\ Len(d) \in Nat
    BY <1>1, <1>4, DraftsAreSequences
  <2>3. t \in Seq(Token) /\ Len(t) = 1
    BY <1>2, <2>1, RequestTyped DEF IInv, Generating
  <2>4. x = Then(t, d)
    BY <1>1, <1>4, <2>1 DEF Packed, Then
  <2> HIDE DEF x, d, t
  <2>5. Then(t, d) \in Seq(Token) /\ Len(Then(t, d)) = Len(t) + Len(d)
    BY <2>2, <2>3, ThenProperties
  <2>6. x \in Seq(Token) /\ Len(x) = 1 + Len(d)
    BY <2>3, <2>4, <2>5
  <2> QED
    BY <2>1, <2>2, <2>4, <2>6 DEF x, d, t
<1>5. r \notin DOMAIN chunk /\ r \notin rows => Packed(r, chunk, drafts) = << >>
  BY <1>1 DEF Packed
<1> QED
  BY <1>3, <1>4, <1>5 DEF InBatch

\* llama_decode accepts every row of a request that no failure has stranded.
LEMMA RowAccepted ==
  ASSUME KInv, Idle,
         NEW chunk \in [{q \in DOMAIN states : Prefilling(q)} -> 0 .. NBatch],
         IsPrefillPlan(chunk),
         NEW rows \in SUBSET {q \in DOMAIN states : Generating(q)},
         NEW drafts \in [rows -> DraftSeqs],
         NEW spare, IsDraftPlan(drafts, spare),
         NEW r \in DOMAIN states, r \notin stranded,
         Packed(r, chunk, drafts) # << >>
  PROVE  /\ states[r].nPos = Len(kv[states[r].slot])
         /\ states[r].nPos + Len(Packed(r, chunk, drafts)) <= NCtxSeq
<1> DEFINE n == states[r].nPos
           x == Packed(r, chunk, drafts)
<1>0. InBatch(r, chunk, rows, drafts)
  BY PackedRow
<1>1. /\ n \in Nat /\ Len(kv[states[r].slot]) = n /\ n < NCtxSeq
      /\ states[r].nPrefilled \in Nat /\ Len(states[r].prompt) \in Nat
      /\ NCtxSeq \in Nat
  BY IdleSettled, GeometryAssumption
<1>2. CASE r \in DOMAIN chunk
  <2> DEFINE left == Len(states[r].prompt) - states[r].nPrefilled
             room == Most(0, NCtxSeq - n)
             c == chunk[r]
  <2>1. c \in Nat /\ Len(x) = c
    BY <1>0, <1>2 DEF InBatch
  <2>2. left \in Int /\ room \in Int /\ room = NCtxSeq - n
    BY <1>1 DEF Most
  <2>3. c <= room
    BY <1>2, <2>1, <2>2, ChunkWithinSlot
  <2> HIDE DEF left, room, c, n, x
  <2>4. n + Len(x) <= NCtxSeq
    BY <1>1, <2>1, <2>2, <2>3
  <2> QED
    BY <1>1, <2>4 DEF n, x
<1>3. CASE r \in rows
  <2> DEFINE d == drafts[r]
  <2>1. d \in Seq(Token) /\ Len(d) \in Nat /\ Len(x) = 1 + Len(d)
    BY <1>0, <1>3 DEF InBatch
  <2>2. d # << >> => Len(d) <= NCtxSeq - n - 1
    BY <1>3 DEF IsDraftPlan
  <2>3. d = << >> => Len(d) = 0
    BY EmptySeq
  <2> HIDE DEF d, n, x
  <2>4. n + Len(x) <= NCtxSeq
    BY <1>1, <2>1, <2>2, <2>3
  <2> QED
    BY <1>1, <2>4 DEF n, x
<1> QED
  BY <1>0, <1>2, <1>3 DEF InBatch

\* The commit moves request r past tokens x, and they are in its slot.
MovedPast(r, x, chunk, drafts) ==
  /\ states'[r].slot = states[r].slot
  /\ states'[r].prompt = states[r].prompt
  /\ states'[r].next = states[r].next
  /\ states'[r].out = states[r].out
  /\ states'[r].nPos = states[r].nPos + Len(x)
  /\ states'[r].nPrefilled = IF r \in DOMAIN chunk
                             THEN states[r].nPrefilled + chunk[r]
                             ELSE states[r].nPrefilled
  /\ kv'[states[r].slot] = Then(kv[states[r].slot], x)
  /\ DOMAIN todo' = Completed(chunk) \cup DOMAIN drafts
  /\ r \in DOMAIN todo' =>
       todo'[r] = IF r \in DOMAIN drafts THEN drafts[r] ELSE << >>

LEMMA CommittedEffect ==
  ASSUME IInv, NEW chunk, NEW drafts, Committed(chunk, drafts),
         NEW r \in DOMAIN states
  PROVE  MovedPast(r, Packed(r, chunk, drafts), chunk, drafts)
<1> DEFINE req == states[r]
           x == Packed(r, chunk, drafts)
           n == req.nPos + Len(x)
           f == IF r \in DOMAIN chunk THEN req.nPrefilled + chunk[r]
                ELSE req.nPrefilled
           s == req.slot
           new == states'[r]
<1>1. req \in RequestState /\ s \in Slots /\ s \in BusySlots
  BY RequestTyped DEF IInv
<1>2. new = [req EXCEPT !.nPos = n, !.nPrefilled = f]
  BY DEF Committed
<1>3. kv'[s] = Then(kv[s], x)
  <2> DEFINE owner == CHOOSE q \in DOMAIN states : states[q].slot = s
  <2>1. owner = r
    BY DEF IInv, OneSlotEach
  <2>2. kv'[s] = kv[s] \o Packed(owner, chunk, drafts)
    BY <1>1, Zenon DEF Committed
  <2> QED
    BY <2>1, <2>2 DEF Then
<1>4. /\ DOMAIN todo' = Completed(chunk) \cup DOMAIN drafts
      /\ r \in DOMAIN todo' =>
           todo'[r] = IF r \in DOMAIN drafts THEN drafts[r] ELSE << >>
  BY DEF Committed
<1> HIDE DEF n, f, new, x
<1>5. /\ new.slot = req.slot /\ new.prompt = req.prompt
      /\ new.next = req.next /\ new.out = req.out
      /\ new.nPos = n /\ new.nPrefilled = f
  <2> HIDE DEF req
  <2> QED
    BY <1>1, <1>2 DEF RequestState
<1> QED
  BY <1>3, <1>4, <1>5 DEF n, f, new, x, MovedPast

\* A step leaves prompt, output and pending token of request r as they were.
LEMMA StillVoiced ==
  ASSUME NEW req, NEW new, Voiced(req), new.prompt = req.prompt,
         new.out = req.out, new.next = req.next
  PROVE  Voiced(new)
BY DEF Voiced

\* After the decode: a request's row has all of its text in the slot, a chunk
\* that leaves its prompt unfinished the beginning of it.
LEMMA RowTexted ==
  ASSUME KInv, Idle,
         NEW chunk \in [{q \in DOMAIN states : Prefilling(q)} -> 0 .. NBatch],
         IsPrefillPlan(chunk),
         NEW rows \in SUBSET {q \in DOMAIN states : Generating(q)},
         NEW drafts \in [rows -> DraftSeqs],
         Committed(chunk, drafts),
         NEW r \in DOMAIN states, r \notin stranded
  PROVE  Texted(r)'
<1> DEFINE p == states[r].prompt
           o == states[r].out
           n == states[r].nPos
           f == states[r].nPrefilled
           old == kv[states[r].slot]
           x == Packed(r, chunk, drafts)
           new == states'[r]
           now == kv'[new.slot]
<1>0. InBatch(r, chunk, rows, drafts) /\ DOMAIN drafts = rows
  BY PackedRow
<1>1. /\ new.slot = states[r].slot /\ new.prompt = p
      /\ new.next = states[r].next /\ new.out = o
      /\ new.nPos = n + Len(x)
      /\ now = Then(old, x)
      /\ DOMAIN todo' = Completed(chunk) \cup rows
  <2>1. MovedPast(r, x, chunk, drafts)
    BY CommittedEffect DEF KInv
  <2>2. /\ new.slot = states[r].slot /\ new.prompt = p
        /\ new.next = states[r].next /\ new.out = o
        /\ new.nPos = n + Len(x) /\ kv'[states[r].slot] = Then(old, x)
        /\ DOMAIN todo' = Completed(chunk) \cup rows
    BY <1>0, <2>1 DEF MovedPast
  <2> HIDE DEF n, x, old, p, o, new
  <2> QED
    BY <2>2 DEF now
<1>2. /\ Settled(states[r], kv) /\ Voiced(states[r])
      /\ p \in Seq(Token) /\ Len(p) \in Nat /\ Len(p) > 0
      /\ o \in Seq(Token) /\ Len(o) \in Nat
      /\ n \in Nat /\ f \in Nat /\ n < NCtxSeq
      /\ Prefilling(r) => o = << >> /\ n = f
      /\ ~Prefilling(r) => n = Len(p) + Len(o) - 1 /\ f = Len(p)
      /\ Generating(r) => o # << >> /\ states[r].next = o[Len(o)]
  BY IdleSettled
<1>3. old = Begin(Text(p, o), n) /\ (Prefilling(r) <=> f < Len(p))
  BY <1>2 DEF Settled, Prefilling
<1>4. Voiced(new)
  BY <1>1, <1>2, StillVoiced
<1>5. CASE r \in DOMAIN chunk
  <2> DEFINE c == chunk[r]
  <2>1. /\ Prefilling(r) /\ r \notin rows /\ c \in Nat /\ f + c <= Len(p)
        /\ x = SubSeq(p, f + 1, f + c) /\ Len(x) = c
    BY <1>0, <1>5 DEF InBatch
  <2>2. o = << >> /\ n = f /\ f < Len(p)
    BY <1>2, <1>3, <2>1
  <2>3. new.nPrefilled = f + c
    BY <1>5, CommittedEffect DEF KInv, MovedPast
  <2>4. r \in Completed(chunk) <=> c > 0 /\ f + c >= Len(p)
    BY <1>5 DEF Completed
  <2> HIDE DEF p, o, n, f, old, x, new, now, c
  <2>5. Text(p, o) = p
    BY <1>2, <2>2, ConcatEmptySeq DEF Text
  <2>6. now = Begin(p, f + c)
    <3>1. Then(Begin(p, f), SubSeq(p, f + 1, f + c)) = Begin(p, f + c)
      <4>1. p \in Seq(Token) /\ f \in Nat /\ c \in Nat /\ f + c <= Len(p)
        BY <1>2, <2>1
      <4> QED
        BY <4>1, ChunkText
    <3>2. old = Begin(p, f)
      BY <1>3, <2>2, <2>5
    <3> QED
      BY <1>1, <2>1, <3>1, <3>2
  <2>7. CASE c > 0 /\ f + c >= Len(p)
    <3>1. r \in DOMAIN todo' /\ todo'[r] = << >>
      BY <1>0, <1>1, <2>1, <2>4, <2>7, CommittedEffect DEF KInv, MovedPast
    <3>2. f + c = Len(p)
      BY <1>2, <2>1, <2>7
    <3>3. Begin(p, Len(p)) = p
      BY <1>2, SubSeqFull DEF Begin
    <3>4. Row(p, o, << >>) = p
      BY <1>2, <2>5, RowWithoutDrafts
    <3>5. now = Row(p, o, << >>)
      BY <2>6, <3>2, <3>3, <3>4
    <3>6. new.nPos = Len(p) + Len(o) + Len(<< >>)
      <4>1. Len(o) = 0 /\ Len(<< >>) = 0
        BY <2>2
      <4>2. new.nPos = Len(p)
        BY <1>1, <2>1, <2>2, <3>2
      <4> QED
        BY <1>2, <4>1, <4>2
    <3>7. InStep(new, << >>, kv')
      BY <1>1, <1>4, <3>5, <3>6 DEF InStep, now
    <3> QED
      BY <3>1, <3>7 DEF Texted, new
  <2>8. CASE ~ (c > 0 /\ f + c >= Len(p))
    <3>1. r \notin DOMAIN todo'
      BY <1>1, <2>1, <2>4, <2>8
    <3>2. f + c < Len(p) /\ new.nPrefilled < Len(new.prompt)
      BY <1>1, <1>2, <2>1, <2>2, <2>3, <2>8
    <3>3. new.nPos = f + c /\ new.out = << >>
      BY <1>1, <2>1, <2>2
    <3>4. now = Begin(Text(new.prompt, new.out), new.nPos)
      BY <1>1, <2>2, <2>5, <2>6, <3>3
    <3>5. Settled(new, kv')
      BY <1>4, <3>2, <3>3, <3>4 DEF Settled, now
    <3> QED
      BY <3>1, <3>5 DEF Texted, new
  <2> QED
    BY <2>7, <2>8
<1>6. CASE r \in rows
  <2> DEFINE d == drafts[r]
  <2>1. /\ Generating(r) /\ ~Prefilling(r)
        /\ d \in Seq(Token) /\ Len(d) \in Nat
        /\ x = Then(<<states[r].next>>, d) /\ Len(x) = 1 + Len(d)
    BY <1>0, <1>6 DEF InBatch
  <2>2. r \in DOMAIN todo' /\ todo'[r] = d
    BY <1>0, <1>1, <1>6, CommittedEffect DEF KInv, MovedPast
  <2>3. /\ o # << >> /\ states[r].next = o[Len(o)]
        /\ n = Len(p) + Len(o) - 1
    BY <1>2, <2>1
  <2> HIDE DEF p, o, n, f, old, x, new, now, d
  <2>4. now = Row(p, o, d)
    <3>1. Then(Begin(Text(p, o), Len(p) + Len(o) - 1), Then(<<o[Len(o)]>>, d))
            = Row(p, o, d)
      <4>1. p \in Seq(Token) /\ o \in Seq(Token) /\ d \in Seq(Token) /\ o # << >>
        BY <1>2, <2>1, <2>3
      <4> QED
        BY <4>1, PendingText
    <3> QED
      BY <1>1, <1>3, <2>1, <2>3, <3>1
  <2>5. new.nPos = Len(p) + Len(o) + Len(d)
    <3>1. new.nPos = n + Len(x) /\ Len(x) = 1 + Len(d)
      BY <1>1, <2>1
    <3>2. Len(p) \in Nat /\ Len(o) \in Nat /\ Len(d) \in Nat
      BY <1>2, <2>1
    <3> QED
      BY <2>3, <3>1, <3>2
  <2>6. InStep(new, d, kv')
    BY <1>1, <1>4, <2>4, <2>5 DEF InStep, now
  <2> QED
    BY <2>2, <2>6 DEF Texted, new
<1>7. CASE r \notin DOMAIN chunk /\ r \notin rows
  <2>1. x = << >>
    BY <1>0, <1>7 DEF InBatch
  <2>2. r \notin DOMAIN todo'
    BY <1>1, <1>7 DEF Completed
  <2>3. new.nPrefilled = f
    BY <1>7, CommittedEffect DEF KInv, MovedPast
  <2>4. old \in Seq(Token)
    BY RequestTyped DEF KInv, IInv
  <2> HIDE DEF n, old, x
  <2>5. now = old /\ new.nPos = n
    <3>1. Then(old, << >>) = old
      BY <2>4, ConcatEmptySeq DEF Then
    <3>2. Len(<< >>) = 0
      OBVIOUS
    <3> HIDE DEF now, new
    <3> QED
      BY <1>1, <1>2, <2>1, <3>1, <3>2
  <2>6. Settled(new, kv')
    <3> HIDE DEF new
    <3> QED
      BY <1>1, <1>2, <1>3, <1>4, <2>3, <2>5 DEF Settled, n
  <2> QED
    BY <2>2, <2>6 DEF Texted
<1> QED
  BY <1>5, <1>6, <1>7

LEMMA DecodeText ==
  ASSUME KInv, Decode
  PROVE  LiveTexted' /\ RetiredTexted' /\ NoBatchRefused'
<1>1. Idle /\ UNCHANGED <<nextId, free, retired, pins, stranded>>
  BY DEF Decode
<1>2. PICK chunk \in [{r \in DOMAIN states : Prefilling(r)} -> 0 .. NBatch] :
        LET left == NBatch - SumFunction(chunk)
            rows == DecodeRows(left)
        IN  /\ IsPrefillPlan(chunk)
            /\ \E drafts \in [rows -> DraftSeqs] :
                 /\ IsDraftPlan(drafts, left - Cardinality(rows))
                 /\ IF Accepted(chunk, drafts)
                    THEN Committed(chunk, drafts)
                    ELSE Refused
  BY <1>1 DEF Decode
<1> DEFINE left == NBatch - SumFunction(chunk)
           rows == DecodeRows(left)
           spare == left - Cardinality(rows)
<1>3. PICK drafts \in [rows -> DraftSeqs] :
        /\ IsDraftPlan(drafts, spare)
        /\ IF Accepted(chunk, drafts) THEN Committed(chunk, drafts) ELSE Refused
  BY <1>2
<1>4. IsPrefillPlan(chunk)
  BY <1>2
<1>5. rows \in SUBSET {r \in DOMAIN states : Generating(r)}
  BY DEF DecodeRows
<1> HIDE DEF left, rows, spare
<1>6. RetiredTexted'
  BY <1>1 DEF KInv, RetiredTexted
<1>7. CASE Accepted(chunk, drafts)
  <2>1. Committed(chunk, drafts)
    BY <1>3, <1>7
  <2>2. DOMAIN states' = DOMAIN states /\ refused' = refused
    BY <2>1 DEF Committed
  <2>3. ASSUME NEW r \in DOMAIN states' \ stranded' PROVE Texted(r)'
    <3>1. r \in DOMAIN states /\ r \notin stranded
      BY <1>1, <2>2
    <3> QED
      BY <1>1, <1>4, <1>5, <2>1, <3>1, RowTexted
  <2>4. NoBatchRefused'
    BY <1>1, <2>2 DEF KInv, NoBatchRefused
  <2> QED
    BY <1>6, <2>3, <2>4 DEF LiveTexted
<1>8. CASE ~Accepted(chunk, drafts)
  <2>1. UNCHANGED <<states, kv, todo, stranded>>
    BY <1>1, <1>3, <1>8 DEF Refused
  <2>2. LiveTexted'
    <3>1. ASSUME NEW r \in DOMAIN states' \ stranded' PROVE Texted(r)'
      BY <2>1, PeerTexted DEF KInv
    <3> QED
      BY <3>1 DEF LiveTexted
  <2>3. NoBatchRefused'
    <3>1. SUFFICES ASSUME stranded = {} PROVE FALSE
      BY <2>1 DEF NoBatchRefused
    <3>2. ASSUME NEW r \in DOMAIN states, Packed(r, chunk, drafts) # << >>
          PROVE  /\ states[r].nPos = Len(kv[states[r].slot])
                 /\ states[r].nPos + Len(Packed(r, chunk, drafts)) <= NCtxSeq
      <4>1. r \notin stranded /\ IsDraftPlan(drafts, spare)
        BY <1>3, <3>1
      <4> QED
        BY <1>1, <1>4, <1>5, <3>2, <4>1, RowAccepted
    <3> QED
      BY <1>8, <3>2 DEF Accepted
  <2> QED
    BY <1>6, <2>2, <2>3
<1> QED
  BY <1>7, <1>8

-----------------------------------------------------------------------------
(* The theorems.                                                            *)

LEMMA InitKInv == Init => KInv
<1> SUFFICES ASSUME Init PROVE KInv
  OBVIOUS
<1>1. DOMAIN states = {} /\ DOMAIN retired = {} /\ refused = FALSE
  BY DEF Init
<1> QED
  BY <1>1, InitIInv DEF KInv, LiveTexted, RetiredTexted, NoBatchRefused

LEMMA NextKInv == KInv /\ [Next]_vars => KInv'
<1> SUFFICES ASSUME KInv, [Next]_vars PROVE KInv'
  OBVIOUS
<1>1. IInv'
  BY NextIInv DEF KInv
<1>2. CASE \E p \in Prompts, q \in Params : AddRequest(p, q)
  BY <1>1, <1>2, AddRequestText DEF KInv
<1>3. CASE \E r \in DOMAIN states : Cancel(r)
  BY <1>1, <1>3, CancelText DEF KInv
<1>4. CASE Decode
  BY <1>1, <1>4, DecodeText DEF KInv
<1>5. CASE Advance
  BY <1>1, <1>5, AdvanceText DEF KInv
<1>6. CASE AdvanceFails
  BY <1>1, <1>6, AdvanceFailsText DEF KInv
<1>7. CASE SyncFails
  BY <1>1, <1>7, SyncFailsText DEF KInv
<1>8. CASE UNCHANGED vars
  <2>1. UNCHANGED <<states, kv, todo, stranded, retired, refused>>
    BY <1>8 DEF vars
  <2>2. ASSUME NEW r \in DOMAIN states' \ stranded' PROVE Texted(r)'
    BY <2>1, PeerTexted DEF KInv
  <2>3. RetiredTexted' /\ NoBatchRefused'
    BY <2>1 DEF KInv, RetiredTexted, NoBatchRefused
  <2> QED
    BY <1>1, <2>2, <2>3 DEF KInv, LiveTexted
<1> QED
  BY <1>2, <1>3, <1>4, <1>5, <1>6, <1>7, <1>8 DEF Next

\* The inductive invariant holds of every behaviour.
THEOREM TextInvariance == Spec => []KInv
<1>1. Init => KInv
  BY InitKInv
<1>2. KInv /\ [Next]_vars => KInv'
  BY NextKInv
<1> QED
  BY <1>1, <1>2, PTL DEF Spec

\* In the terms of KvMatchesRequest: a request's KV is the beginning, n_pos
\* tokens long, of its prompt, output and drafts.
LEMMA TextInKv ==
  ASSUME KInv, NEW r \in DOMAIN states \ stranded
  PROVE  LET req == states[r]
             drafts == IF r \in DOMAIN todo THEN todo[r] ELSE << >>
             text == Row(req.prompt, req.out, drafts)
         IN  /\ kv[req.slot] = Begin(text, req.nPos)
             /\ Prefilling(r) => req.nPos = req.nPrefilled /\ req.out = << >>
             /\ ~Prefilling(r) =>
                  req.nPos = IF r \in DOMAIN todo THEN Len(text) ELSE Len(text) - 1
             /\ req.out # << >> => req.next = Last(req.out)
<1> DEFINE p == states[r].prompt
           o == states[r].out
           n == states[r].nPos
           f == states[r].nPrefilled
<1>1. /\ p \in Seq(Token) /\ Len(p) \in Nat /\ o \in Seq(Token)
      /\ n \in Nat /\ f \in Nat
  BY RequestTyped DEF KInv, IInv
<1>2. Len(o) \in Nat
  BY <1>1, LenProperties
<1>3. f <= Len(p) /\ (f < Len(p) => n = f) /\ (Prefilling(r) <=> f < Len(p))
  BY DEF KInv, IInv, RowsBacked, Backed, Prefilling
<1>4. Texted(r)
  BY DEF KInv, LiveTexted
<1>5. o # << >> => states[r].next = Last(o)
  BY <1>4 DEF Texted, InStep, Settled, Voiced, Last
<1>6. CASE r \in DOMAIN todo
  <2> DEFINE d == todo[r]
             t == Row(p, o, d)
  <2>1. d \in Seq(Token) /\ Len(d) \in Nat
    BY <1>6, RowInStep
  <2>2. kv[states[r].slot] = t /\ n = Len(p) + Len(o) + Len(d)
    BY <1>4, <1>6 DEF Texted, InStep
  <2>3. t \in Seq(Token) /\ Len(t) = Len(p) + Len(o) + Len(d)
    <3> HIDE DEF p, o, d
    <3> QED
      BY <1>1, <2>1, RowProperties
  <2>4. Begin(t, n) = t
    BY <2>2, <2>3, SubSeqFull DEF Begin
  <2>5. ~Prefilling(r)
    BY <1>1, <1>3, <1>6 DEF KInv, IInv, RowsBacked, RowReady
  <2> QED
    BY <1>5, <1>6, <2>2, <2>3, <2>4, <2>5
<1>7. CASE r \notin DOMAIN todo
  <2> DEFINE t == Row(p, o, << >>)
  <2>1. t = Text(p, o)
    BY <1>1, RowWithoutDrafts
  <2>2. Len(t) = Len(p) + Len(o)
    <3>1. Len(Text(p, o)) = Len(p) + Len(o)
      <4> HIDE DEF p, o, t
      <4> QED
        BY <1>1, TextProperties
    <3> HIDE DEF p, o, t
    <3> QED
      BY <2>1, <3>1
  <2>3. /\ kv[states[r].slot] = Begin(t, n)
        /\ IF f < Len(p) THEN o = << >> ELSE n = Len(p) + Len(o) - 1
    BY <1>4, <1>7, <2>1 DEF Texted, Settled
  <2> QED
    <3>1. /\ Prefilling(r) => n = f /\ o = << >>
          /\ ~Prefilling(r) => n = Len(t) - 1
      <4> HIDE DEF p, o, n, f, t
      <4> QED
        BY <1>3, <2>2, <2>3
    <3> QED
      BY <1>5, <1>7, <2>3, <3>1
<1> QED
  BY <1>6, <1>7

\* Chunked prefill, forks, evictions, drafts and rewinds notwithstanding, the
\* KV of a request in flight is its own prompt and output (metal_engine.py).
THEOREM KvHoldsTheText == Spec => []KvMatchesRequest
<1>1. KInv => KvMatchesRequest
  BY TextInKv DEF KvMatchesRequest, Row, Begin
<1> QED
  BY <1>1, TextInvariance, PTL

\* Each output token was sampled after exactly the request's own prompt and
\* earlier output, through whichever batch, slot, pin or draft it came.
THEOREM OutputsFollow == Spec => []OutputFollowsContext
<1>1. ASSUME KInv PROVE OutputFollowsContext
  <2>1. \A r \in DOMAIN states \ stranded : Follows(states[r].prompt, states[r].out)
    BY <1>1 DEF KInv, LiveTexted, Texted, InStep, Settled, Voiced
  <2> QED
    BY <1>1, <2>1 DEF KInv, RetiredTexted, OutputFollowsContext
<1> QED
  BY <1>1, TextInvariance, PTL

\* As long as no row has raised, llama_decode refuses no batch: rows start
\* where their slot's KV ends, and chunks and drafts fit in its cells.
THEOREM BatchesAccepted == Spec => []NoBatchRefused
<1>1. KInv => NoBatchRefused
  BY DEF KInv
<1> QED
  BY <1>1, TextInvariance, PTL

-----------------------------------------------------------------------------
(* Requests leave each other alone.                                         *)

\* A step that admits or retires changes no other request and no other's slot.
PeersStep ==
  \A r \in DOMAIN states \cap DOMAIN states' :
    DOMAIN states' # DOMAIN states \/ nextId' # nextId =>
      /\ states'[r] = states[r]
      /\ kv'[states[r].slot] = kv[states[r].slot]

LEMMA AcceptPeers ==
  ASSUME IInv, NEW r \in DOMAIN todo, NEW m \in 0 .. Len(todo[r]),
         NEW token \in Token, NEW h, Accept(r, m, token, h), UNCHANGED nextId
  PROVE  PeersStep
<1> DEFINE drafts == todo[r]
           base == states[r].nPos - Len(drafts) - 1
           accepted == Confirmed(r, m, token)
           final == base + Len(accepted)
           memory == Rewound(states[r].slot, final)
           held == memory[states[r].slot]
           reason(i) == Reason(r, accepted[i], h = i, Len(states[r].out) + i,
                               CheckedPos(drafts, base, i))
           ends == {i \in 1 .. m + 1 : reason(i) # "none"}
           k == Min(ends)
           kept == IF accepted[k] = Eog THEN k - 1 ELSE k
           out == states[r].out \o SubSeq(accepted, 1, kept)
           why == reason(k)
<1>1. r \in DOMAIN states
  BY DEF IInv, TypeOK
<1>2. final = states[r].nPos - Len(drafts) + m
  BY <1>1, ConfirmedTyped
<1>3. \/ /\ states' = [states EXCEPT
                         ![r].out = @ \o accepted,
                         ![r].next = token,
                         ![r].nPos = final]
      \/ Retire(r, why, out, memory)
  BY Zenon DEF Accept
<1>4. /\ final \in Nat /\ final >= Len(states[r].prompt)
      /\ memory \in [Slots -> Seq(Token)]
      /\ \A t \in Slots \ {states[r].slot} : memory[t] = kv[t]
      /\ Len(held) = final
      /\ \A i \in 1 .. final : held[i] = kv[states[r].slot][i]
  <2> HIDE DEF final
  <2> QED
    BY <1>1, <1>2, RewoundRow
<1>5. /\ states[r].slot \in Slots
      /\ states[r].nPrefilled = Len(states[r].prompt)
      /\ Len(states[r].prompt) \in Nat
  BY <1>1, RequestTyped DEF IInv, RowsBacked, RowReady
<1> HIDE DEF why, out, final, memory
<1>6. states[r].nPrefilled >= Len(states[r].prompt)
        => IsPrefix(states[r].prompt, held)
  <2>1. /\ held \in Seq(Token) /\ Len(held) >= states[r].nPrefilled
        /\ \A i \in 1 .. states[r].nPrefilled : held[i] = kv[states[r].slot][i]
    BY <1>4, <1>5
  <2> HIDE DEF held
  <2> QED
    BY <1>1, <2>1, PromptHeld
<1>7. CASE states' = [states EXCEPT ![r].out = @ \o accepted, ![r].next = token,
                                    ![r].nPos = final]
  BY <1>7 DEF PeersStep
<1>8. CASE Retire(r, why, out, memory)
  <2>1. \A q \in DOMAIN states' :
          states'[q] = states[q] /\ kv'[states[q].slot] = kv[states[q].slot]
    BY <1>1, <1>4, <1>6, <1>8, RetireEffect
  <2> QED
    BY <2>1 DEF PeersStep
<1> QED
  BY <1>3, <1>7, <1>8

LEMMA AdvanceFailsPeers ==
  ASSUME IInv, AdvanceFails
  PROVE  PeersStep
<1> DEFINE r == NextRow
           drafts == todo[r]
           base == states[r].nPos - Len(drafts) - 1
<1>1. ~Idle
  BY DEF AdvanceFails
<1>2. PICK m \in 0 .. Len(drafts), token \in Token :
        \E n \in 0 .. m + 1 : RowFails(r, m, token, n)
  BY DEF AdvanceFails
<1>3. PICK n \in 0 .. m + 1 : RowFails(r, m, token, n)
  BY <1>2
<1>4. r \in DOMAIN todo /\ r \in DOMAIN states
  BY <1>1, NextRowProperties
<1> HIDE DEF r
<1> DEFINE accepted == Confirmed(r, m, token)
           final == base + Len(accepted)
           cut == Rewound(states[r].slot, final)
           held == cut[states[r].slot]
           out == states[r].out \o SubSeq(accepted, 1, n)
<1>5. \/ Retire(r, "error", out, cut)
      \/ Retire(r, "error", out, kv)
  BY <1>3 DEF RowFails
<1>6. final = states[r].nPos - Len(drafts) + m
  BY <1>2, <1>4, ConfirmedTyped
<1>7. /\ states[r].nPrefilled = Len(states[r].prompt)
      /\ states[r].slot \in Slots /\ Len(states[r].prompt) \in Nat
      /\ kv \in [Slots -> Seq(Token)] /\ kv[states[r].slot] \in Seq(Token)
      /\ states[r].nPrefilled <= Len(kv[states[r].slot])
  BY <1>4, RequestTyped DEF IInv, TypeOK, RowsBacked, Backed, RowReady
<1>8. /\ final \in Nat /\ final >= Len(states[r].prompt)
      /\ cut \in [Slots -> Seq(Token)]
      /\ \A t \in Slots \ {states[r].slot} : cut[t] = kv[t]
      /\ Len(held) = final
      /\ \A i \in 1 .. final : held[i] = kv[states[r].slot][i]
  <2> HIDE DEF final
  <2> QED
    BY <1>2, <1>4, <1>6, RewoundRow
<1> HIDE DEF cut, final, out
<1>9. CASE Retire(r, "error", out, cut)
  <2>1. states[r].nPrefilled >= Len(states[r].prompt)
          => IsPrefix(states[r].prompt, held)
    <3>1. /\ held \in Seq(Token) /\ Len(held) >= states[r].nPrefilled
          /\ \A i \in 1 .. states[r].nPrefilled : held[i] = kv[states[r].slot][i]
      BY <1>7, <1>8
    <3> HIDE DEF held
    <3> QED
      BY <1>4, <3>1, PromptHeld
  <2>2. \A q \in DOMAIN states' :
          states'[q] = states[q] /\ kv'[states[q].slot] = kv[states[q].slot]
    BY <1>4, <1>8, <1>9, <2>1, RetireEffect
  <2> QED
    BY <2>2 DEF PeersStep
<1>10. CASE Retire(r, "error", out, kv)
  <2>1. states[r].nPrefilled >= Len(states[r].prompt)
          => IsPrefix(states[r].prompt, kv[states[r].slot])
    BY <1>4, <1>7, PromptHeld
  <2>2. \A q \in DOMAIN states' :
          states'[q] = states[q] /\ kv'[states[q].slot] = kv[states[q].slot]
    BY <1>4, <1>7, <1>10, <2>1, RetireEffect
  <2> QED
    BY <2>2 DEF PeersStep
<1> QED
  BY <1>5, <1>9, <1>10

LEMMA NextPeers == IInv /\ [Next]_vars => [PeersStep]_vars
<1> SUFFICES ASSUME IInv, Next PROVE PeersStep
  OBVIOUS
<1>1. CASE \E p \in Prompts, q \in Params : AddRequest(p, q)
  <2>1. PICK p \in Prompts, q \in Params : AddRequest(p, q)
    BY <1>1
  <2> QED
    BY <2>1, AdmissionEffect DEF PeersStep
<1>2. CASE \E r \in DOMAIN states : Cancel(r)
  <2>1. PICK r \in DOMAIN states : Cancel(r)
    BY <1>2
  <2>2. Retire(r, "cancelled", states[r].out, kv)
    BY <2>1 DEF Cancel
  <2>3. /\ kv \in [Slots -> Seq(Token)]
        /\ states[r].nPrefilled >= Len(states[r].prompt)
             => IsPrefix(states[r].prompt, kv[states[r].slot])
    BY PromptHeld, RequestTyped DEF IInv, TypeOK, RowsBacked, Backed
  <2>4. \A q \in DOMAIN states' :
          states'[q] = states[q] /\ kv'[states[q].slot] = kv[states[q].slot]
    BY <2>2, <2>3, RetireEffect
  <2> QED
    BY <2>4 DEF PeersStep
<1>3. CASE Decode
  <2>1. DOMAIN states' = DOMAIN states /\ nextId' = nextId
    BY <1>3 DEF Decode, Committed, Refused
  <2> QED
    BY <2>1 DEF PeersStep
<1>4. CASE Advance
  <2> DEFINE r == NextRow
  <2>1. r \in DOMAIN todo /\ UNCHANGED nextId
    BY <1>4, NextRowProperties DEF Advance
  <2>2. PICK m \in 0 .. Len(todo[r]), token \in Token, h \in 0 .. Len(todo[r]) + 1 :
          Accept(r, m, token, h)
    BY <1>4 DEF Advance
  <2> HIDE DEF r
  <2> QED
    BY <2>1, <2>2, AcceptPeers
<1>5. CASE AdvanceFails
  BY <1>5, AdvanceFailsPeers
<1>6. CASE SyncFails
  <2> DEFINE r == NextRow
  <2>1. r \in DOMAIN todo /\ UNCHANGED nextId
    BY <1>6, NextRowProperties DEF SyncFails, StepAborted
  <2>2. PICK m \in 0 .. Len(todo[r]), token \in Token : Accept(r, m, token, 0)
    BY <1>6 DEF SyncFails
  <2> HIDE DEF r
  <2> QED
    BY <2>1, <2>2, AcceptPeers
<1> QED
  BY <1>1, <1>2, <1>3, <1>4, <1>5, <1>6 DEF Next

\* Admitting, cancelling, finishing or failing a request leaves the state and
\* the KV of every other request in flight as they were (metal_engine.py:414).
THEOREM PeersLeftAlone == Spec => PeersUntouched
<1>1. IInv /\ [Next]_vars => [PeersStep]_vars
  BY NextPeers
<1> QED
  BY <1>1, Invariance, PTL DEF Spec, PeersUntouched, PeersStep

-----------------------------------------------------------------------------
(* Sums over finite sets.  g[s] is the sum of f over s, for every set s of   *)
(* indices in S: the table that a fold of + goes by.                        *)

\* A fold of + over a finite set of indices, one step at a time.
SumStep(f, g, s) == IF s = {} THEN 0
                 ELSE LET x == CHOOSE x \in s : TRUE IN f[x] + g[s \ {x}]

IsSums(f, S, g) == \A s \in SUBSET S : g[s] = SumStep(f, g, s)

\* Induction over the numbers, as a statement about the set of counterexamples.
LEMMA NoCounterexample ==
  ASSUME NEW B, B \subseteq Nat, 0 \notin B,
         \A n \in Nat : n \notin B => n + 1 \notin B
  PROVE  B = {}
<1> SUFFICES ASSUME B # {} PROVE FALSE
  OBVIOUS
<1>1. Min(B) \in B /\ \A y \in B : Min(B) <= y
  BY LeastNumber
<1>2. PICK n \in B : \A y \in B : n <= y
  BY <1>1
<1>3. n # 0 /\ n - 1 \in Nat
  BY <1>2
<1>4. n - 1 \notin B
  BY <1>2, <1>3
<1>5. (n - 1) + 1 \notin B
  BY <1>3, <1>4
<1> QED
  BY <1>2, <1>5

LEMMA SumsExist ==
  ASSUME NEW f, NEW S, IsFiniteSet(S)
  PROVE  \E g : g = [s \in SUBSET S |-> SumStep(f, g, s)]
<1> DEFINE P(n) == \E g : \A s \in SUBSET S : Cardinality(s) <= n => g[s] = SumStep(f, g, s)
           B == {n \in Nat : ~P(n)}
<1>0. \A s \in SUBSET S : IsFiniteSet(s) /\ Cardinality(s) \in Nat
  BY FS_Subset, FS_CardinalityType
<1>1. P(0)
  <2> DEFINE g == [s \in SUBSET S |-> 0]
  <2>1. \A s \in SUBSET S : Cardinality(s) <= 0 => g[s] = SumStep(f, g, s)
    BY <1>0, FS_EmptySet DEF SumStep
  <2> QED
    BY <2>1
<1>2. ASSUME NEW n \in Nat, P(n) PROVE P(n + 1)
  <2>1. PICK g : \A s \in SUBSET S : Cardinality(s) <= n => g[s] = SumStep(f, g, s)
    BY <1>2
  <2> DEFINE h == [s \in SUBSET S |-> SumStep(f, g, s)]
  <2>2. ASSUME NEW s \in SUBSET S, Cardinality(s) <= n + 1
        PROVE  h[s] = SumStep(f, h, s)
    <3>1. CASE s = {}
      BY <3>1 DEF SumStep
    <3>2. CASE s # {}
      <4>1. PICK x : x = CHOOSE e \in s : TRUE
        OBVIOUS
      <4>2. x \in s
        BY <3>2, <4>1
      <4>3. s \ {x} \in SUBSET S /\ Cardinality(s \ {x}) <= n
        BY <1>0, <2>2, <4>2, FS_RemoveElement
      <4>4. h[s \ {x}] = g[s \ {x}]
        BY <2>1, <4>3
      <4> QED
        BY <3>2, <4>1, <4>4 DEF SumStep
    <3> QED
      BY <3>1, <3>2
  <2> HIDE DEF h
  <2> QED
    BY <2>2
<1> HIDE DEF P
<1>3. B = {}
  <2>1. B \subseteq Nat /\ 0 \notin B
    BY <1>1
  <2>2. \A n \in Nat : n \notin B => n + 1 \notin B
    BY <1>2
  <2> HIDE DEF B
  <2> QED
    BY <2>1, <2>2, NoCounterexample
<1>4. Cardinality(S) \in Nat /\ \A s \in SUBSET S : Cardinality(s) <= Cardinality(S)
  BY FS_Subset, FS_CardinalityType
<1>5. P(Cardinality(S))
  BY <1>3, <1>4
<1>6. PICK g : \A s \in SUBSET S : Cardinality(s) <= Cardinality(S) => g[s] = SumStep(f, g, s)
  BY <1>5 DEF P
<1> DEFINE h == [s \in SUBSET S |-> g[s]]
<1>7. \A s \in SUBSET S : h[s] = SumStep(f, h, s)
  <2> SUFFICES ASSUME NEW s \in SUBSET S PROVE h[s] = SumStep(f, h, s)
    OBVIOUS
  <2>1. h[s] = SumStep(f, g, s)
    BY <1>4, <1>6
  <2> QED
    BY <2>1 DEF SumStep
<1>8. h = [s \in SUBSET S |-> SumStep(f, h, s)]
  BY <1>7
<1> HIDE DEF h
<1> QED
  BY <1>8

LEMMA SumMeaning ==
  ASSUME NEW f, NEW S, IsFiniteSet(S)
  PROVE  \E g : /\ SumFunctionOnSet(f, S) = g[S]
                /\ IsSums(f, S, g)
<1> DEFINE it == CHOOSE g : g = [s \in SUBSET S |-> SumStep(f, g, s)]
<1>1. it = [s \in SUBSET S |-> SumStep(f, it, s)]
  BY SumsExist
<1>2. SumFunctionOnSet(f, S) = it[S]
  BY DEF SumFunctionOnSet, FoldFunctionOnSet, MapThenFoldSet, SumStep
<1> HIDE DEF it
<1>3. IsSums(f, S, it)
  BY <1>1 DEF IsSums
<1> QED
  BY <1>2, <1>3

\* Such a table gives a natural number, whatever element is taken off first.
LEMMA SumsAdd ==
  ASSUME NEW S, IsFiniteSet(S), NEW f, \A x \in S : f[x] \in Nat,
         NEW g, IsSums(f, S, g)
  PROVE  g[S] \in Nat /\ \A y \in S : g[S] = f[y] + g[S \ {y}]
<1> DEFINE Good(s) == g[s] \in Nat /\ \A y \in s : g[s] = f[y] + g[s \ {y}]
           P(n) == \A s \in SUBSET S : Cardinality(s) <= n => Good(s)
           B == {n \in Nat : ~P(n)}
<1>00. \A s \in SUBSET S : g[s] = SumStep(f, g, s)
  BY DEF IsSums
<1>0. \A s \in SUBSET S : IsFiniteSet(s) /\ Cardinality(s) \in Nat
  BY FS_Subset, FS_CardinalityType
<1>1. P(0)
  <2>1. Good({})
    <3>1. {} \in SUBSET S
      OBVIOUS
    <3>2. g[{}] = SumStep(f, g, {})
      BY <1>00, <3>1
    <3>3. g[{}] = 0
      BY <3>2 DEF SumStep
    <3> QED
      BY <3>3
  <2>2. \A s \in SUBSET S : Cardinality(s) <= 0 => s = {}
    BY <1>0, FS_EmptySet
  <2> QED
    BY <2>1, <2>2, Zenon
<1>2. ASSUME NEW n \in Nat, P(n) PROVE P(n + 1)
  <2> SUFFICES ASSUME NEW s \in SUBSET S, Cardinality(s) <= n + 1 PROVE Good(s)
    OBVIOUS
  <2>1. CASE s = {}
    BY <1>00, <2>1 DEF SumStep
  <2>2. CASE s # {}
    <3>1. PICK x : x = CHOOSE e \in s : TRUE
      OBVIOUS
    <3>2. x \in s
      BY <2>2, <3>1
    <3>3. g[s] = f[x] + g[s \ {x}]
      BY <1>00, <2>2, <3>1 DEF SumStep
    <3>4. ASSUME NEW y \in s
          PROVE  s \ {y} \in SUBSET S /\ Good(s \ {y}) /\ f[y] \in Nat
      <4>1. s \ {y} \in SUBSET S /\ Cardinality(s \ {y}) <= n
        BY <1>0, FS_RemoveElement
      <4> QED
        BY <1>2, <4>1
    <3>5. g[s] \in Nat
      <4>1. g[s \ {x}] \in Nat /\ f[x] \in Nat
        BY <3>2, <3>4
      <4> QED
        BY <3>3, <4>1
    <3>6. ASSUME NEW y \in s, y # x PROVE g[s] = f[y] + g[s \ {y}]
      <4>1. g[s \ {x}] = f[y] + g[(s \ {x}) \ {y}]
        BY <3>2, <3>4, <3>6
      <4>2. g[s \ {y}] = f[x] + g[(s \ {y}) \ {x}]
        BY <3>2, <3>4, <3>6
      <4>3. (s \ {x}) \ {y} = (s \ {y}) \ {x}
        OBVIOUS
      <4>4. (s \ {x}) \ {y} \in SUBSET S /\ Cardinality((s \ {x}) \ {y}) <= n
        <5>1. s \ {x} \in SUBSET S /\ IsFiniteSet(s \ {x}) /\ IsFiniteSet(s)
          BY <1>0
        <5>2. Cardinality(s \ {x}) \in Nat /\ Cardinality(s \ {x}) = Cardinality(s) - 1
          BY <1>0, <3>2, <5>1, FS_RemoveElement
        <5>3. Cardinality((s \ {x}) \ {y}) = Cardinality(s \ {x}) - 1
          BY <3>6, <5>1, FS_RemoveElement
        <5>4. Cardinality(s) \in Nat
          BY <1>0
        <5> QED
          BY <5>1, <5>2, <5>3, <5>4
      <4>5. g[(s \ {x}) \ {y}] \in Nat
        BY <1>2, <4>4
      <4> HIDE DEF Good
      <4>6. PICK rest \in Nat : rest = g[(s \ {x}) \ {y}]
        BY <4>5
      <4>7. f[x] \in Nat /\ f[y] \in Nat
        BY <3>2, <3>4
      <4>8. g[s] = f[x] + (f[y] + rest) /\ g[s \ {y}] = f[x] + rest
        BY <3>3, <4>1, <4>2, <4>3, <4>6
      <4> QED
        BY <4>7, <4>8
    <3> QED
      BY <3>3, <3>5, <3>6
  <2> QED
    BY <2>1, <2>2
<1> HIDE DEF P
<1>3. B = {}
  <2>1. B \subseteq Nat /\ 0 \notin B
    BY <1>1
  <2>2. \A n \in Nat : n \notin B => n + 1 \notin B
    BY <1>2
  <2> HIDE DEF B
  <2> QED
    BY <2>1, <2>2, NoCounterexample
<1>4. Cardinality(S) \in Nat /\ \A s \in SUBSET S : Cardinality(s) <= Cardinality(S)
  BY FS_Subset, FS_CardinalityType
<1>5. P(Cardinality(S))
  BY <1>3, <1>4
<1> QED
  BY <1>4, <1>5 DEF P

\* Two tables agree where both have an entry.
LEMMA SumsAgree ==
  ASSUME NEW S, IsFiniteSet(S), NEW T \in SUBSET S, NEW f,
         NEW g, IsSums(f, S, g),
         NEW h, IsSums(f, T, h)
  PROVE  g[T] = h[T]
<1> DEFINE P(n) == \A s \in SUBSET T : Cardinality(s) <= n => g[s] = h[s]
           B == {n \in Nat : ~P(n)}
<1>00. /\ \A s \in SUBSET S : g[s] = SumStep(f, g, s)
       /\ \A s \in SUBSET T : h[s] = SumStep(f, h, s)
  BY DEF IsSums
<1>0. \A s \in SUBSET T : s \in SUBSET S /\ IsFiniteSet(s) /\ Cardinality(s) \in Nat
  BY FS_Subset, FS_CardinalityType
<1>1. P(0)
  <2>1. {} \in SUBSET S /\ {} \in SUBSET T
    OBVIOUS
  <2>2. g[{}] = SumStep(f, g, {}) /\ h[{}] = SumStep(f, h, {})
    BY <1>00, <2>1
  <2>3. g[{}] = h[{}]
    BY <2>2 DEF SumStep
  <2>4. \A s \in SUBSET T : Cardinality(s) <= 0 => s = {}
    BY <1>0, FS_EmptySet
  <2> QED
    BY <2>3, <2>4, Zenon
<1>2. ASSUME NEW n \in Nat, P(n) PROVE P(n + 1)
  <2> SUFFICES ASSUME NEW s \in SUBSET T, Cardinality(s) <= n + 1 PROVE g[s] = h[s]
    OBVIOUS
  <2>1. CASE s = {}
    BY <1>00, <1>0, <2>1 DEF SumStep
  <2>2. CASE s # {}
    <3>1. PICK x : x = CHOOSE e \in s : TRUE
      OBVIOUS
    <3>2. x \in s
      BY <2>2, <3>1
    <3>3. s \ {x} \in SUBSET T /\ Cardinality(s \ {x}) <= n
      BY <1>0, <3>2, FS_RemoveElement
    <3>4. g[s \ {x}] = h[s \ {x}]
      BY <1>2, <3>3
    <3>5. g[s] = f[x] + g[s \ {x}] /\ h[s] = f[x] + h[s \ {x}]
      BY <1>00, <1>0, <2>2, <3>1 DEF SumStep
    <3> QED
      BY <3>4, <3>5
  <2> QED
    BY <2>1, <2>2
<1> HIDE DEF P
<1>3. B = {}
  <2>1. B \subseteq Nat /\ 0 \notin B
    BY <1>1
  <2>2. \A n \in Nat : n \notin B => n + 1 \notin B
    BY <1>2
  <2> HIDE DEF B
  <2> QED
    BY <2>1, <2>2, NoCounterexample
<1>4. IsFiniteSet(T) /\ Cardinality(T) \in Nat
  BY <1>0
<1>5. P(Cardinality(T))
  BY <1>3, <1>4
<1> QED
  BY <1>4, <1>5 DEF P

LEMMA SumAdds ==
  ASSUME NEW S, IsFiniteSet(S), NEW f, \A x \in S : f[x] \in Nat
  PROVE  /\ SumFunctionOnSet(f, S) \in Nat
         /\ \A y \in S : SumFunctionOnSet(f, S) = f[y] + SumFunctionOnSet(f, S \ {y})
<1>1. PICK g : /\ SumFunctionOnSet(f, S) = g[S]
               /\ IsSums(f, S, g)
  BY SumMeaning
<1>2. g[S] \in Nat /\ \A y \in S : g[S] = f[y] + g[S \ {y}]
  BY <1>1, SumsAdd
<1>3. ASSUME NEW y \in S PROVE SumFunctionOnSet(f, S \ {y}) = g[S \ {y}]
  <2>1. IsFiniteSet(S \ {y}) /\ S \ {y} \in SUBSET S
    BY FS_RemoveElement
  <2>2. PICK h : /\ SumFunctionOnSet(f, S \ {y}) = h[S \ {y}]
                 /\ IsSums(f, S \ {y}, h)
    BY <2>1, SumMeaning
  <2>3. g[S \ {y}] = h[S \ {y}]
    BY <1>1, <2>1, <2>2, SumsAgree
  <2> QED
    BY <2>2, <2>3
<1> QED
  BY <1>1, <1>2, <1>3

\* A larger set of indices has no smaller sum.
LEMMA SumGrows ==
  ASSUME NEW S, IsFiniteSet(S), NEW f, \A x \in S : f[x] \in Nat, NEW T \in SUBSET S
  PROVE  SumFunctionOnSet(f, T) \in Nat /\ SumFunctionOnSet(f, T) <= SumFunctionOnSet(f, S)
<1> DEFINE P(n) == \A s \in SUBSET S :
                     T \subseteq s /\ Cardinality(s) <= n =>
                       SumFunctionOnSet(f, T) <= SumFunctionOnSet(f, s)
           B == {n \in Nat : ~P(n)}
<1>0. \A s \in SUBSET S : /\ IsFiniteSet(s) /\ Cardinality(s) \in Nat
                          /\ SumFunctionOnSet(f, s) \in Nat
                          /\ \A y \in s : SumFunctionOnSet(f, s)
                               = f[y] + SumFunctionOnSet(f, s \ {y})
  <2> SUFFICES ASSUME NEW s \in SUBSET S
               PROVE  /\ IsFiniteSet(s) /\ Cardinality(s) \in Nat
                      /\ SumFunctionOnSet(f, s) \in Nat
                      /\ \A y \in s : SumFunctionOnSet(f, s)
                           = f[y] + SumFunctionOnSet(f, s \ {y})
    OBVIOUS
  <2>1. IsFiniteSet(s) /\ Cardinality(s) \in Nat /\ \A x \in s : f[x] \in Nat
    BY FS_Subset, FS_CardinalityType
  <2> QED
    BY <2>1, SumAdds
<1>1. P(0)
  <2>1. \A s \in SUBSET S : T \subseteq s /\ Cardinality(s) <= 0 => s = T
    <3> SUFFICES ASSUME NEW s \in SUBSET S, T \subseteq s, Cardinality(s) <= 0
                 PROVE  s = T
      OBVIOUS
    <3>1. s = {}
      BY <1>0, FS_EmptySet
    <3> QED
      BY <3>1
  <2>2. SumFunctionOnSet(f, T) <= SumFunctionOnSet(f, T)
    BY <1>0
  <2> SUFFICES ASSUME NEW s \in SUBSET S, T \subseteq s, Cardinality(s) <= 0
               PROVE  SumFunctionOnSet(f, T) <= SumFunctionOnSet(f, s)
    OBVIOUS
  <2>3. s = T
    BY <2>1
  <2> QED
    BY <2>2, <2>3
<1>2. ASSUME NEW n \in Nat, P(n) PROVE P(n + 1)
  <2> SUFFICES ASSUME NEW s \in SUBSET S, T \subseteq s, Cardinality(s) <= n + 1
               PROVE  SumFunctionOnSet(f, T) <= SumFunctionOnSet(f, s)
    OBVIOUS
  <2>1. CASE s = T
    BY <1>0, <2>1
  <2>2. CASE s # T
    <3>1. PICK y \in s : y \notin T
      BY <2>2
    <3>2. s \ {y} \in SUBSET S /\ T \subseteq s \ {y} /\ Cardinality(s \ {y}) <= n
      BY <1>0, <3>1, FS_RemoveElement
    <3>3. SumFunctionOnSet(f, T) <= SumFunctionOnSet(f, s \ {y})
      BY <1>2, <3>2
    <3>4. /\ SumFunctionOnSet(f, T) \in Nat /\ SumFunctionOnSet(f, s \ {y}) \in Nat
          /\ f[y] \in Nat
          /\ SumFunctionOnSet(f, s) = f[y] + SumFunctionOnSet(f, s \ {y})
      BY <1>0, <3>1, <3>2
    <3> QED
      BY <3>3, <3>4
  <2> QED
    BY <2>1, <2>2
<1> HIDE DEF P
<1>3. B = {}
  <2>1. B \subseteq Nat /\ 0 \notin B
    BY <1>1
  <2>2. \A n \in Nat : n \notin B => n + 1 \notin B
    BY <1>2
  <2> HIDE DEF B
  <2> QED
    BY <2>1, <2>2, NoCounterexample
<1>4. P(Cardinality(S))
  BY <1>0, <1>3
<1>5. Cardinality(S) <= Cardinality(S)
  BY <1>0
<1> QED
  BY <1>0, <1>4, <1>5 DEF P

-----------------------------------------------------------------------------
(* Prompts are served in the order of their admission.                      *)

LEMMA IdsAreFinite ==
  ASSUME TypeOK, NEW D \in SUBSET DOMAIN states
  PROVE  D \in SUBSET Nat /\ IsFiniteSet(D)
<1>1. nextId \in Nat /\ D \in SUBSET (0 .. nextId - 1)
  BY DEF TypeOK
<1>2. IsFiniteSet(0 .. nextId - 1)
  BY <1>1, FS_Interval
<1> QED
  BY <1>1, <1>2, FS_Subset

\* What the prompts before q, and q itself, have been given.
LEMMA ChunksAddUp ==
  ASSUME TypeOK, NEW chunk,
         DOMAIN chunk = {r \in DOMAIN states : Prefilling(r)},
         \A r \in DOMAIN chunk : chunk[r] \in Nat,
         NEW q \in DOMAIN chunk
  PROVE  LET before(n) == SumFunctionOnSet(chunk, {p \in DOMAIN chunk : p < n})
         IN  /\ before(q) \in Nat
             /\ before(q) + chunk[q] <= SumFunction(chunk)
             /\ \A r \in DOMAIN chunk :
                  q < r => before(r) \in Nat /\ before(q) + chunk[q] <= before(r)
<1> DEFINE D == DOMAIN chunk
           Below(n) == {p \in D : p < n}
           sum(S) == SumFunctionOnSet(chunk, S)
<1>1. D \in SUBSET Nat /\ IsFiniteSet(D)
  BY IdsAreFinite
<1>2. ASSUME NEW S \in SUBSET D, Below(q) \cup {q} \subseteq S
      PROVE  sum(S) \in Nat /\ sum(Below(q)) \in Nat /\ sum(Below(q)) + chunk[q] <= sum(S)
  <2> DEFINE T == Below(q) \cup {q}
  <2>1. IsFiniteSet(S) /\ T \in SUBSET S /\ IsFiniteSet(T)
    BY <1>1, <1>2, FS_Subset
  <2>2. T \ {q} = Below(q)
    BY <1>1
  <2>3. \A x \in S : chunk[x] \in Nat
    OBVIOUS
  <2>4. sum(T) = chunk[q] + sum(T \ {q})
    BY <2>1, <2>3, SumAdds
  <2>5. sum(T) \in Nat /\ sum(T) <= sum(S)
    BY <2>1, <2>3, SumGrows
  <2>6. sum(S) \in Nat
    BY <2>1, <2>3, SumAdds
  <2>7. sum(Below(q)) \in Nat
    <3>1. Below(q) \in SUBSET S
      BY <1>2
    <3> QED
      BY <2>1, <2>3, <3>1, SumGrows
  <2> HIDE DEF T, sum, Below
  <2> QED
    BY <2>2, <2>4, <2>5, <2>6, <2>7
<1>3. sum(Below(q)) \in Nat /\ sum(Below(q)) + chunk[q] <= sum(D)
  BY <1>2
<1>4. ASSUME NEW r \in D, q < r
      PROVE  sum(Below(r)) \in Nat /\ sum(Below(q)) + chunk[q] <= sum(Below(r))
  <2>1. Below(r) \in SUBSET D /\ Below(q) \cup {q} \subseteq Below(r)
    BY <1>1, <1>4
  <2> QED
    BY <1>2, <2>1
<1>5. SumFunction(chunk) = sum(D)
  BY DEF SumFunction
<1> HIDE DEF sum
<1> QED
  BY <1>3, <1>4, <1>5 DEF sum

\* The arithmetic of a prefill chunk (batching.py:107-121): one smaller than the
\* rows it was offered is all that is left of a prompt the context has room for.
LEMMA ChunkBounds ==
  ASSUME NEW len \in Int, NEW done \in Int, NEW cap \in Int, NEW pos \in Int, NEW rows \in Int,
         NEW size, size = Least(Least(len - done, Most(0, cap - pos)), rows)
  PROVE  done = pos /\ done < len /\ len <= cap /\ size < rows => size = len - done
<1> DEFINE room == Most(0, cap - pos)
           want == Least(len - done, room)
<1>1. room \in Int /\ (pos <= cap => room = cap - pos)
  BY DEF Most
<1> HIDE DEF room
<1>2. want \in Int /\ (len - done <= room => want = len - done)
  BY <1>1 DEF Least
<1> HIDE DEF want
<1>3. Least(want, rows) < rows => Least(want, rows) = want
  BY <1>2 DEF Least
<1>4. done = pos /\ done < len /\ len <= cap => want = len - done
  BY <1>1, <1>2
<1> QED
  BY <1>3, <1>4 DEF want, room

\* A prompt whose chunk leaves a row of the batch over is prefilled to its end.
LEMMA ChunkThatFits ==
  ASSUME IInv, NEW chunk, IsPrefillPlan(chunk), NEW q \in DOMAIN chunk,
         q \in DOMAIN states, Prefilling(q), chunk[q] \in Nat,
         SumFunctionOnSet(chunk, {p \in DOMAIN chunk : p < q}) \in Nat,
         SumFunctionOnSet(chunk, {p \in DOMAIN chunk : p < q}) + chunk[q] < NBatch
  PROVE  states[q].nPrefilled + chunk[q] = Len(states[q].prompt)
<1> DEFINE sum == SumFunctionOnSet(chunk, {p \in DOMAIN chunk : p < q})
           req == states[q]
<1>1. chunk[q] = Least(Least(Len(req.prompt) - req.nPrefilled, Most(0, NCtxSeq - req.nPos)),
                       NBatch - sum)
  BY DEF IsPrefillPlan
<1>2. /\ Len(req.prompt) \in Nat /\ req.nPrefilled \in Nat /\ req.nPos \in Nat
      /\ Len(req.prompt) \in 1 .. NCtxSeq - 1
  BY RequestTyped, RequestAssumption DEF IInv
<1>3. req.nPrefilled < Len(req.prompt) /\ req.nPos = req.nPrefilled
  BY DEF Prefilling, IInv, RowsBacked, Backed
<1>4. NCtxSeq \in Nat /\ NBatch \in Nat
  BY GeometryAssumption
<1> HIDE DEF sum, req
<1>5. sum \in Nat /\ chunk[q] \in Nat /\ sum + chunk[q] < NBatch
  BY DEF sum
<1>6. chunk[q] < NBatch - sum
  BY <1>4, <1>5
<1>7. /\ Len(req.prompt) \in Int /\ req.nPrefilled \in Int /\ req.nPos \in Int
      /\ NCtxSeq \in Int /\ NBatch - sum \in Int /\ Len(req.prompt) <= NCtxSeq
  BY <1>2, <1>4, <1>5
<1>8. chunk[q] = Len(req.prompt) - req.nPrefilled
  <2> DEFINE len == Len(req.prompt)
             spare == NBatch - sum
  <2>1. len \in Int /\ req.nPrefilled \in Int /\ req.nPos \in Int /\ spare \in Int
    BY <1>7
  <2>2. chunk[q] = Least(Least(len - req.nPrefilled, Most(0, NCtxSeq - req.nPos)), spare)
    BY <1>1
  <2>3. len <= NCtxSeq /\ req.nPrefilled < len /\ chunk[q] < spare
    BY <1>3, <1>6, <1>7
  <2> HIDE DEF len, spare
  <2>4. chunk[q] = len - req.nPrefilled
    BY <1>3, <1>7, <2>1, <2>2, <2>3, ChunkBounds
  <2> QED
    BY <2>4 DEF len
<1> QED
  BY <1>2, <1>5, <1>8 DEF req

\* What a step may never do, as FirstComeFirstServed says.
InTurn ==
  \A q, r \in DOMAIN states \cap DOMAIN states' :
    /\ Idle
    /\ states'[r].nPos > states[r].nPos
    /\ Prefilling(q)
    /\ q < r \/ Generating(r)
    => states'[q].nPrefilled = Len(states[q].prompt)

LEMMA DecodeInTurn == KInv /\ Decode => InTurn
<1> SUFFICES ASSUME KInv, Decode,
                    NEW q \in DOMAIN states \cap DOMAIN states',
                    NEW r \in DOMAIN states \cap DOMAIN states',
                    states'[r].nPos > states[r].nPos,
                    Prefilling(q), q < r \/ Generating(r)
             PROVE  states'[q].nPrefilled = Len(states[q].prompt)
  BY DEF InTurn
<1>1. Idle /\ IInv /\ TypeOK
  BY DEF Decode, KInv, IInv
<1>2. PICK chunk \in [{p \in DOMAIN states : Prefilling(p)} -> 0 .. NBatch] :
        LET left == NBatch - SumFunction(chunk)
            rows == DecodeRows(left)
        IN  /\ IsPrefillPlan(chunk)
            /\ \E drafts \in [rows -> DraftSeqs] :
                 IF Accepted(chunk, drafts) THEN Committed(chunk, drafts) ELSE Refused
  BY <1>1 DEF Decode
<1> DEFINE left == NBatch - SumFunction(chunk)
           rows == DecodeRows(left)
           before(n) == SumFunctionOnSet(chunk, {p \in DOMAIN chunk : p < n})
<1>3. PICK drafts \in [rows -> DraftSeqs] :
        IF Accepted(chunk, drafts) THEN Committed(chunk, drafts) ELSE Refused
  BY <1>2
<1>4. IsPrefillPlan(chunk) /\ rows \in SUBSET {p \in DOMAIN states : Generating(p)}
  BY <1>2 DEF DecodeRows
<1>5. rows # {} => left > 0
  <2> SUFFICES ASSUME NEW p \in rows PROVE left > 0
    OBVIOUS
  <2>1. Cardinality({x \in {y \in DOMAIN states : Generating(y)} : x < p}) < left
    BY DEF DecodeRows
  <2>2. IsFiniteSet({x \in {y \in DOMAIN states : Generating(y)} : x < p})
    BY <1>1, IdsAreFinite
  <2>3. Cardinality({x \in {y \in DOMAIN states : Generating(y)} : x < p}) \in Nat
    BY <2>2, FS_CardinalityType
  <2>4. left \in Int
    <3>1. SumFunction(chunk) \in Nat
      <4>1. IsFiniteSet(DOMAIN chunk) /\ \A x \in DOMAIN chunk : chunk[x] \in Nat
        BY <1>1, IdsAreFinite
      <4> QED
        BY <4>1, SumAdds DEF SumFunction
    <3> QED
      BY <3>1, GeometryAssumption
  <2> HIDE DEF left
  <2> QED
    BY <2>1, <2>3, <2>4
<1> HIDE DEF left, rows
<1>6. Committed(chunk, drafts)
  <2>1. ASSUME states' = states PROVE FALSE
    BY <1>1, <2>1, RequestTyped
  <2> QED
    BY <1>3, <2>1 DEF Refused
<1>7. /\ DOMAIN chunk = {p \in DOMAIN states : Prefilling(p)}
      /\ \A p \in DOMAIN chunk : chunk[p] \in Nat
      /\ q \in DOMAIN chunk
  OBVIOUS
<1>8. /\ before(q) \in Nat
      /\ before(q) + chunk[q] <= SumFunction(chunk)
      /\ \A p \in DOMAIN chunk :
           q < p => before(p) \in Nat /\ before(q) + chunk[q] <= before(p)
  BY <1>1, <1>7, ChunksAddUp
<1>9. MovedPast(r, Packed(r, chunk, drafts), chunk, drafts) /\ InBatch(r, chunk, rows, drafts)
  BY <1>1, <1>4, <1>6, CommittedEffect, PackedRow
<1>10. Packed(r, chunk, drafts) # << >>
  BY <1>1, <1>9, RequestTyped, EmptySeq DEF MovedPast
<1>11. r \in DOMAIN chunk \/ r \in rows
  BY <1>9, <1>10 DEF InBatch
<1>12. before(q) + chunk[q] < NBatch
  <2>1. CASE r \in rows
    <3>1. left > 0 /\ left = NBatch - SumFunction(chunk)
      BY <1>5, <2>1 DEF left
    <3>2. NBatch \in Nat /\ SumFunction(chunk) \in Nat
      <4>1. IsFiniteSet(DOMAIN chunk) /\ \A x \in DOMAIN chunk : chunk[x] \in Nat
        BY <1>1, IdsAreFinite
      <4> QED
        BY <4>1, SumAdds, GeometryAssumption DEF SumFunction
    <3> HIDE DEF before
    <3>3. chunk[q] \in Nat
      BY <1>7
    <3> QED
      BY <1>8, <3>1, <3>2, <3>3
  <2>2. CASE r \in DOMAIN chunk
    <3>1. q < r
      BY <1>7, <2>2 DEF Generating
    <3>2. before(r) \in Nat /\ before(q) + chunk[q] <= before(r)
      BY <1>8, <2>2, <3>1
    <3>3. chunk[r] > 0
      BY <1>9, <1>10, <2>2, EmptySeq DEF InBatch
    <3>4. chunk[r] = Least(Least(Len(states[r].prompt) - states[r].nPrefilled,
                                 Most(0, NCtxSeq - states[r].nPos)),
                           NBatch - before(r))
      BY <1>4, <2>2 DEF IsPrefillPlan
    <3> HIDE DEF before
    <3>5. /\ Len(states[r].prompt) \in Nat /\ states[r].nPrefilled \in Nat
          /\ states[r].nPos \in Nat /\ NBatch \in Nat /\ NCtxSeq \in Nat
      BY <1>1, RequestTyped, GeometryAssumption
    <3>6. /\ Len(states[r].prompt) \in Int /\ states[r].nPrefilled \in Int
          /\ states[r].nPos \in Int /\ NCtxSeq \in Int /\ NBatch - before(r) \in Int
      BY <3>2, <3>5
    <3>7. chunk[r] <= NBatch - before(r)
      <4> DEFINE len == Len(states[r].prompt)
                 done == states[r].nPrefilled
                 pos == states[r].nPos
                 spare == NBatch - before(r)
      <4>1. len \in Int /\ done \in Int /\ pos \in Int /\ NCtxSeq \in Int /\ spare \in Int
        BY <3>6
      <4>2. chunk[r] = Least(Least(len - done, Most(0, NCtxSeq - pos)), spare)
        BY <3>4
      <4> DEFINE want == Least(len - done, Most(0, NCtxSeq - pos))
      <4> HIDE DEF len, done, pos, spare
      <4>3. want \in Int
        BY <4>1 DEF Least, Most
      <4>4. chunk[r] = Least(want, spare)
        BY <4>2
      <4> HIDE DEF want
      <4>5. chunk[r] <= spare
        BY <4>1, <4>3, <4>4 DEF Least
      <4> QED
        BY <4>5 DEF spare
    <3>8. chunk[q] \in Nat /\ chunk[r] \in Nat
      BY <1>7, <2>2
    <3> QED
      BY <1>8, <3>2, <3>3, <3>5, <3>7, <3>8
  <2> QED
    BY <1>11, <2>1, <2>2
<1>13. states[q].nPrefilled + chunk[q] = Len(states[q].prompt)
  BY <1>1, <1>4, <1>7, <1>8, <1>12, ChunkThatFits
<1>14. MovedPast(q, Packed(q, chunk, drafts), chunk, drafts)
  BY <1>1, <1>6, CommittedEffect
<1> QED
  BY <1>7, <1>13, <1>14 DEF MovedPast

LEMMA NextInTurn == KInv /\ [Next]_vars => [InTurn]_vars
<1> SUFFICES ASSUME KInv, Next PROVE InTurn
  OBVIOUS
<1>0. IInv
  BY DEF KInv
<1>1. CASE \E p \in Prompts, q \in Params : AddRequest(p, q)
  <2>1. PICK p \in Prompts, q \in Params : AddRequest(p, q)
    BY <1>1
  <2>2. \A r \in DOMAIN states : states'[r] = states[r]
    BY <1>0, <2>1, AdmissionEffect
  <2> QED
    BY <1>0, <2>2, RequestTyped DEF InTurn, IInv
<1>2. CASE \E r \in DOMAIN states : Cancel(r)
  <2>1. PICK r \in DOMAIN states : Cancel(r)
    BY <1>2
  <2>2. \A p \in DOMAIN states' : states'[p] = states[p]
    BY <2>1 DEF Cancel, Retire, Minus, Restrict
  <2> QED
    BY <1>0, <2>2, RequestTyped DEF InTurn, IInv
<1>3. CASE Decode
  BY <1>3, DecodeInTurn
<1>4. CASE Advance \/ AdvanceFails \/ SyncFails
  BY <1>4 DEF Advance, AdvanceFails, SyncFails, InTurn
<1> QED
  BY <1>1, <1>2, <1>3, <1>4 DEF Next

\* FCFSPolicy (batching.py:107): no row of a step is spent on a request, a
\* continuation row least of all, as long as an earlier prompt is unfinished.
THEOREM ServedInOrder == Spec => FirstComeFirstServed
<1>1. KInv /\ [Next]_vars => [InTurn]_vars
  BY NextInTurn
<1> QED
  BY <1>1, TextInvariance, PTL DEF Spec, FirstComeFirstServed, InTurn

-----------------------------------------------------------------------------
(* The engine implements Generation.                                        *)

\* A request that drafts reaches its cap before the end of its slot: there the
\* finish rule of the speculative path is another (metal_engine.py:757).
CapsComeFirst ==
  \A p \in Prompts, q \in Params :
    MaxDrafts > 0 /\ (q.greedy \/ Opportunistic) => Len(p) + q.maxTokens <= NCtxSeq

\* The requests and the latest end that Generation sees.
Served(r) ==
  [prompt |-> states[r].prompt, params |-> states[r].params, out |-> states[r].out]
Live == [r \in DOMAIN states |-> Served(r)]
Ended ==
  IF retired = << >> THEN << >>
  ELSE LET e == Last(retired)
       IN  <<[id |-> e.id, prompt |-> e.prompt, out |-> e.out, reason |-> e.reason]>>

\* A row of the step fits in its slot, and has only drafts that were planned.
RowsPlanned ==
  \A r \in DOMAIN todo :
    /\ states[r].nPos <= NCtxSeq
    /\ Len(todo[r]) <= MaxDrafts
    /\ todo[r] # << >> => states[r].params.greedy \/ Opportunistic

\* The invariant of an engine in which nothing raises.
RInv == KInv /\ RowsPlanned /\ stranded = {}

LEMMA ArchivedLast ==
  ASSUME TypeOK, NEW e \in Finished, retired' = Archived(e)
  PROVE  Ended' = <<[id |-> e.id, prompt |-> e.prompt, out |-> e.out, reason |-> e.reason]>>
<1>1. RetiredLimit \in Nat /\ RetiredLimit >= 1
  BY GeometryAssumption DEF RetiredLimit, Most
<1>2. retired \in Seq(Finished) /\ Len(retired) \in Nat
  BY LenProperties DEF TypeOK
<1>3. PICK longer : longer = Append(retired, e)
  OBVIOUS
<1>4. /\ longer \in Seq(Finished) /\ longer # << >> /\ Len(longer) = Len(retired) + 1
      /\ longer[Len(retired) + 1] = e
  BY <1>2, <1>3, AppendProperties
<1>5. retired' = IF Len(longer) > RetiredLimit THEN Tail(longer) ELSE longer
  BY <1>3 DEF Archived
<1>6. retired' # << >> /\ Last(retired') = e
  <2>1. CASE Len(longer) > RetiredLimit
    <3>1. retired' = Tail(longer)
      BY <1>5, <2>1
    <3>2. /\ Tail(longer) \in Seq(Finished) /\ Len(Tail(longer)) = Len(longer) - 1
          /\ \A i \in 1 .. Len(longer) - 1 : Tail(longer)[i] = longer[i + 1]
      BY <1>4, HeadTailProperties
    <3>3. Len(retired) >= 1
      BY <1>1, <1>2, <1>4, <2>1
    <3>4. Len(Tail(longer)) = Len(retired) /\ Tail(longer)[Len(retired)] = e
      BY <1>2, <1>4, <3>2, <3>3
    <3> QED
      BY <3>1, <3>2, <3>3, <3>4, EmptySeq DEF Last
  <2>2. CASE ~ (Len(longer) > RetiredLimit)
    <3>1. retired' = longer
      BY <1>5, <2>2
    <3> QED
      BY <1>4, <3>1 DEF Last
  <2> QED
    BY <2>1, <2>2
<1> QED
  BY <1>6, Zenon DEF Ended

\* The finish rules on the text are those on the row.
LEMMA RuleIsReason ==
  ASSUME RInv, CapsComeFirst, NEW r \in DOMAIN todo,
         NEW c \in Seq(Token), Len(c) <= Len(todo[r]) + 1,
         NEW i \in 1 .. Len(c), NEW hit
  PROVE  Promise!Rule(Served(r), states[r].out \o Begin(c, i), hit)
           = Reason(r, c[i], hit, Len(states[r].out) + i,
                    CheckedPos(todo[r], states[r].nPos - Len(todo[r]) - 1, i))
<1> DEFINE d == todo[r]
           p == states[r].prompt
           o == states[r].out
           cap == states[r].params.maxTokens
           base == states[r].nPos - Len(d) - 1
           pos == CheckedPos(d, base, i)
           x == Begin(c, i)
           y == o \o x
           req == Served(r)
<1>0. KInv /\ r \notin stranded /\ RowsPlanned
  BY DEF RInv
<1>1. /\ r \in DOMAIN states /\ InStep(states[r], d, kv)
      /\ d \in Seq(Token) /\ Len(d) \in Nat /\ p \in Seq(Token) /\ Len(p) \in Nat
      /\ o \in Seq(Token) /\ Len(o) \in Nat
  BY <1>0, RowInStep
<1>2. Len(c) \in Nat /\ i \in Nat /\ i >= 1 /\ i <= Len(c) /\ i <= Len(d) + 1
  <2>1. Len(c) \in Nat /\ Len(c) <= Len(d) + 1
    BY LenProperties
  <2> HIDE DEF d
  <2> QED
    BY <1>1, <2>1
<1>3. base = Len(p) + Len(o) - 1
  <2>1. states[r].nPos = Len(p) + Len(o) + Len(d)
    BY <1>1 DEF InStep
  <2> HIDE DEF p, o, d
  <2> QED
    BY <1>1, <2>1
<1>5. x \in Seq(Token) /\ Len(x) = i /\ x[i] = c[i]
  <2>1. i \in 0 .. Len(c) /\ i \in 1 .. i
    BY <1>2
  <2> QED
    BY <2>1, BeginProperties
<1> HIDE DEF x
<1>6. Len(y) = Len(o) + i /\ y[Len(y)] = c[i]
  <2>1. /\ Len(y) = Len(o) + Len(x)
        /\ \A j \in 1 .. Len(x) : y[Len(o) + j] = x[j]
    <3>1. o \in Seq(Token) /\ x \in Seq(Token)
      BY <1>1, <1>5
    <3> HIDE DEF o
    <3> QED
      BY <3>1, Halves
  <2>2. i \in 1 .. Len(x)
    BY <1>2, <1>5
  <2> HIDE DEF y
  <2> QED
    BY <1>5, <2>1, <2>2
<1>7. cap \in Nat /\ p \in Prompts /\ states[r].params \in Params
  <2>1. p \in Prompts /\ states[r].params \in Params
    BY <1>0, <1>1, RequestTyped DEF KInv, IInv, RequestState
  <2> QED
    BY <2>1, RequestAssumption
<1>8. NCtxSeq \in Nat /\ MaxDrafts \in Nat
  BY GeometryAssumption
<1>9. Len(o) + i >= cap \/ (pos >= NCtxSeq <=> Len(p) + (Len(o) + i) > NCtxSeq)
  <2>1. CASE d = << >>
    <3>1. Len(d) = 0 /\ pos = base + 1
      BY <2>1, EmptySeq DEF CheckedPos
    <3> HIDE DEF pos, base, d, p, o, cap
    <3> QED
      BY <1>1, <1>2, <1>3, <1>8, <3>1
  <2>2. CASE d # << >>
    <3>1. pos = base + 1 + i
      BY <2>2 DEF CheckedPos
    <3>2. Len(d) > 0 /\ Len(d) <= MaxDrafts
      BY <1>0, <1>1, <2>2, EmptySeq DEF RowsPlanned
    <3>3. states[r].params.greedy \/ Opportunistic
      BY <1>0, <2>2 DEF RowsPlanned
    <3>4. MaxDrafts > 0
      BY <1>1, <1>8, <3>2
    <3>5. Len(p) + cap <= NCtxSeq
      BY <1>7, <3>3, <3>4 DEF CapsComeFirst
    <3> HIDE DEF pos, base, d, p, o, cap
    <3> QED
      BY <1>1, <1>2, <1>3, <1>7, <1>8, <3>1, <3>5
  <2> QED
    BY <2>1, <2>2
<1>10. req.prompt = p /\ req.params.maxTokens = cap
  BY DEF Served
<1> HIDE DEF y, req, pos
<1>11. Promise!Rule(req, y, hit)
         = IF c[i] = Eog THEN "eog"
           ELSE IF hit THEN "stop_sequence"
           ELSE IF Len(o) + i >= cap THEN "length"
           ELSE IF Len(p) + (Len(o) + i) > NCtxSeq THEN "context"
           ELSE "none"
  <2> HIDE DEF p, o, cap
  <2> QED
    BY <1>6, <1>10 DEF Promise!Rule
<1>12. Reason(r, c[i], hit, Len(o) + i, pos)
         = IF c[i] = Eog THEN "eog"
           ELSE IF hit THEN "stop_sequence"
           ELSE IF Len(o) + i >= cap THEN "length"
           ELSE IF pos >= NCtxSeq THEN "context"
           ELSE "none"
  BY DEF Reason
<1>13. Promise!Rule(req, y, hit) = Reason(r, c[i], hit, Len(o) + i, pos)
  <2> HIDE DEF p, o, cap
  <2> QED
    BY <1>9, <1>11, <1>12
<1> QED
  BY <1>13 DEF req, y, x, pos

\* Why the i-th token that row r accepts ends its request, h being the one that
\* completes a stop sequence.
ReasonAt(r, m, token, h, i) ==
  Reason(r, Confirmed(r, m, token)[i], h = i, Len(states[r].out) + i,
         CheckedPos(todo[r], states[r].nPos - Len(todo[r]) - 1, i))

\* The first k tokens that a row accepts, as a burst of Generation.
LEMMA AcceptedBurst ==
  ASSUME RInv, NEW r \in DOMAIN todo,
         NEW m \in 0 .. Len(todo[r]), NEW token \in Token, NEW k \in 1 .. m + 1
  PROVE  LET c == Confirmed(r, m, token)
             x == Begin(c, k)
         IN  /\ c \in Seq(Token) /\ Len(c) = m + 1
             /\ x \in Seq(Token) /\ Len(x) = k /\ x[k] = c[k]
             /\ m \in Nat /\ k \in Nat /\ m <= Len(todo[r]) /\ Len(todo[r]) \in Nat
             /\ x \in Promise!Bursts
<1> DEFINE c == Confirmed(r, m, token)
           x == Begin(c, k)
<1>1. /\ todo[r] \in Seq(Token) /\ Len(todo[r]) \in Nat
      /\ Len(todo[r]) <= MaxDrafts
  BY RowInStep DEF RInv, RowsPlanned
<1>2. m \in Nat /\ k \in Nat /\ m <= Len(todo[r]) /\ k <= m + 1 /\ k >= 1
  BY <1>1
<1>3. c \in Seq(Token) /\ Len(c) = m + 1
  BY <1>1, ConfirmedTokens
<1> HIDE DEF c
<1>4. x \in Seq(Token) /\ Len(x) = k /\ x[k] = c[k]
  <2>1. k \in 0 .. Len(c) /\ k \in 1 .. k
    BY <1>2, <1>3
  <2> QED
    BY <1>3, <2>1, BeginProperties
<1> HIDE DEF x
<1>5. x \in Promise!Bursts
  <2>1. k \in 1 .. MaxDrafts + 1
    BY <1>1, <1>2, GeometryAssumption
  <2>2. x \in [1 .. k -> Token]
    BY <1>4, LenProperties
  <2> QED
    BY <2>1, <2>2 DEF Promise!Bursts
<1> QED
  BY <1>1, <1>2, <1>3, <1>4, <1>5 DEF x, c

\* They are drawn after the request's text, which fits in its slot.
LEMMA AcceptedDrawn ==
  ASSUME RInv, NEW r \in DOMAIN todo, NEW m \in 0 .. Len(todo[r]),
         NEW token \in Token, Samples(r, m, token), NEW k \in 1 .. m + 1
  PROVE  Promise!Drawn(Served(r), Begin(Confirmed(r, m, token), k))
<1> DEFINE p == states[r].prompt
           o == states[r].out
           d == todo[r]
           x == Begin(Confirmed(r, m, token), k)
           text == Row(p, o, x)
<1>0. KInv /\ r \notin stranded
  BY DEF RInv
<1>1. /\ p \in Seq(Token) /\ Len(p) \in Nat /\ o \in Seq(Token) /\ Len(o) \in Nat
      /\ Len(d) \in Nat /\ states[r].nPos = Len(p) + Len(o) + Len(d)
  BY <1>0, RowInStep DEF InStep
<1>2. x \in Seq(Token) /\ Len(x) = k /\ k \in Nat /\ k <= Len(d) + 1 /\ k >= 1
  <2>1. /\ x \in Seq(Token) /\ Len(x) = k /\ m \in Nat /\ k \in Nat
        /\ m <= Len(d)
    BY AcceptedBurst
  <2> HIDE DEF x, d
  <2> QED
    BY <1>1, <2>1
<1>3. Follows(p, o \o x)
  <2>1. k \in 0 .. m + 1
    BY <1>2
  <2> QED
    BY <1>0, <2>1, ConfirmedFollows DEF Begin
<1>4. states[r].nPos <= NCtxSeq
  BY DEF RInv, RowsPlanned
<1>5. Served(r).prompt = p /\ Served(r).out = o
  BY DEF Served
<1> HIDE DEF p, o, d, x, text
<1>6. text \in Seq(Token) /\ Len(text) = Len(p) + Len(o) + Len(x)
  <2>1. p \in Seq(Token) /\ o \in Seq(Token) /\ x \in Seq(Token)
    BY <1>1, <1>2
  <2> QED
    BY <2>1, RowProperties DEF text
<1>7. Len(text) - 1 <= NCtxSeq /\ Len(text) - Len(x) = Len(p) + Len(o)
  BY <1>1, <1>2, <1>4, <1>6, GeometryAssumption
<1>8. ASSUME NEW i \in 1 .. Len(x)
      PROVE  x[i] \in Support[SubSeq(text, 1, Len(p) + Len(o) + i - 1)]
  <2> DEFINE y == o \o x
             j == Len(o) + i
  <2>1. Len(y) = Len(o) + Len(x) /\ y[Len(o) + i] = x[i]
    <3>1. o \in Seq(Token) /\ x \in Seq(Token) /\ i \in 1 .. Len(x)
      BY <1>1, <1>2
    <3> QED
      BY <3>1, Halves
  <2>2. Text(p, y) = text
    BY <1>1, <1>2, LongerText DEF text
  <2>3. \A n \in 1 .. Len(y) : y[n] \in Support[Begin(Text(p, y), Len(p) + n - 1)]
    BY <1>3, FollowsTheText
  <2>4. j \in 1 .. Len(y) /\ Len(p) + j - 1 = Len(p) + Len(o) + i - 1
    BY <1>1, <1>2, <2>1
  <2> HIDE DEF y, j
  <2>5. y[j] \in Support[Begin(text, Len(p) + Len(o) + i - 1)]
    BY <2>2, <2>3, <2>4
  <2> QED
    BY <2>1, <2>5 DEF j, Begin
<1>9. text = p \o o \o x
  BY DEF text, Row
<1> QED
  BY <1>5, <1>7, <1>8, <1>9, Zenon DEF Promise!Drawn, x

\* None of the first n of them ends the request.
LEMMA AcceptedGoesOn ==
  ASSUME RInv, CapsComeFirst, NEW r \in DOMAIN todo, NEW m \in 0 .. Len(todo[r]),
         NEW token \in Token, NEW h, NEW k \in 1 .. m + 1, NEW n \in 0 .. k,
         \A i \in 1 .. n : ReasonAt(r, m, token, h, i) = "none"
  PROVE  Promise!GoesOn(Served(r), Begin(Confirmed(r, m, token), k), n)
<1> DEFINE c == Confirmed(r, m, token)
           x == Begin(c, k)
           o == states[r].out
<1>1. /\ c \in Seq(Token) /\ Len(c) = m + 1 /\ m \in Nat /\ k \in Nat
      /\ m <= Len(todo[r]) /\ Len(todo[r]) \in Nat
  BY AcceptedBurst
<1>2. ASSUME NEW i \in 1 .. n
      PROVE  Promise!Rule(Served(r), o \o SubSeq(x, 1, i), FALSE) = "none"
  <2> DEFINE length == Len(o) + i
             pos == CheckedPos(todo[r], states[r].nPos - Len(todo[r]) - 1, i)
  <2>1. i \in 1 .. m + 1 /\ i \in 0 .. k
    BY <1>1
  <2>2. Begin(x, i) = Begin(c, i)
    <3>1. k \in 0 .. Len(c)
      BY <1>1
    <3> HIDE DEF c
    <3> QED
      BY <1>1, <2>1, <3>1, BeginningOfBeginning
  <2>3. Reason(r, c[i], FALSE, length, pos) = "none"
    <3> DEFINE t == c[i]
    <3>1. /\ t # Eog /\ ~ (length >= states[r].params.maxTokens)
          /\ ~ (pos >= NCtxSeq)
      <4>1. ReasonAt(r, m, token, h, i) = "none"
        OBVIOUS
      <4> QED
        BY <4>1, Zenon DEF ReasonAt, Reason
    <3> HIDE DEF t, length, pos
    <3>2. Reason(r, t, FALSE, length, pos) = "none"
      BY <3>1, Zenon DEF Reason
    <3> QED
      BY <3>2 DEF t
  <2>4. Promise!Rule(Served(r), o \o Begin(c, i), FALSE)
          = Reason(r, c[i], FALSE, length, pos)
    <3>1. i \in 1 .. Len(c) /\ Len(c) <= Len(todo[r]) + 1
      BY <1>1, <2>1
    <3>2. c \in Seq(Token)
      BY <1>1
    <3> HIDE DEF c
    <3> QED
      BY <3>1, <3>2, RuleIsReason
  <2> HIDE DEF c, x, o, length, pos
  <2> QED
    BY <2>2, <2>3, <2>4 DEF Begin
<1>3. Served(r).out = o
  BY DEF Served
<1> HIDE DEF x, o
<1> QED
  BY <1>2, <1>3, Zenon DEF Promise!GoesOn, x

\* Output o and the first k tokens of c, less the last of them.
LEMMA WithoutLast ==
  ASSUME NEW S, NEW o \in Seq(S), NEW c \in Seq(S), NEW k \in 1 .. Len(c)
  PROVE  LET y == o \o Begin(c, k)
         IN  SubSeq(y, 1, Len(y) - 1) = o \o Begin(c, k - 1)
<1> DEFINE a == Begin(c, k)
           b == Begin(c, k - 1)
           y == o \o a
           z == o \o b
           n == Len(o) + (k - 1)
<1>1. Len(c) \in Nat /\ k \in Nat /\ k >= 1 /\ k <= Len(c) /\ Len(o) \in Nat
  BY LenProperties
<1>2. a \in Seq(S) /\ Len(a) = k /\ \A i \in 1 .. k : a[i] = c[i]
  <2>1. k \in 0 .. Len(c)
    BY <1>1
  <2> QED
    BY <2>1, BeginProperties
<1>3. b \in Seq(S) /\ Len(b) = k - 1 /\ \A i \in 1 .. k - 1 : b[i] = c[i]
  <2> DEFINE j == k - 1
  <2>1. j \in 0 .. Len(c)
    BY <1>1
  <2> HIDE DEF j
  <2>2. /\ Begin(c, j) \in Seq(S) /\ Len(Begin(c, j)) = j
        /\ \A i \in 1 .. j : Begin(c, j)[i] = c[i]
    BY <2>1, BeginProperties
  <2> QED
    BY <2>2 DEF j
<1> HIDE DEF a, b
<1>4. /\ y \in Seq(S) /\ Len(y) = Len(o) + Len(a)
      /\ \A i \in 1 .. Len(o) : y[i] = o[i]
      /\ \A i \in 1 .. Len(a) : y[Len(o) + i] = a[i]
  <2>1. o \in Seq(S) /\ a \in Seq(S)
    BY <1>2
  <2> QED
    BY <2>1, Halves
<1>5. /\ z \in Seq(S) /\ Len(z) = Len(o) + Len(b)
      /\ \A i \in 1 .. Len(o) : z[i] = o[i]
      /\ \A i \in 1 .. Len(b) : z[Len(o) + i] = b[i]
  <2>1. o \in Seq(S) /\ b \in Seq(S)
    BY <1>3
  <2> QED
    BY <2>1, Halves
<1> HIDE DEF y, z
<1>6. /\ n \in 0 .. Len(y) /\ n \in Nat /\ n = Len(z) /\ n = Len(y) - 1
      /\ n = Len(o) + (k - 1)
  BY <1>1, <1>2, <1>3, <1>4, <1>5
<1> HIDE DEF n
<1>7. ASSUME NEW i \in 1 .. n PROVE y[i] = z[i]
  <2>1. CASE i <= Len(o)
    <3>1. i \in 1 .. Len(o)
      BY <1>1, <2>1
    <3> QED
      BY <1>4, <1>5, <3>1
  <2>2. CASE i > Len(o)
    <3> DEFINE j == i - Len(o)
    <3>1. /\ j \in 1 .. Len(a) /\ j \in 1 .. Len(b) /\ j \in 1 .. k - 1
          /\ j \in 1 .. k /\ Len(o) + j = i
      BY <1>1, <1>2, <1>3, <1>6, <2>2
    <3> HIDE DEF j
    <3> QED
      BY <1>2, <1>3, <1>4, <1>5, <3>1
  <2> QED
    BY <1>1, <1>6, <2>1, <2>2
<1>8. Begin(y, n) = Begin(z, n)
  <2>1. n <= Len(z)
    BY <1>6
  <2> QED
    BY <1>4, <1>5, <1>6, <1>7, <2>1, SameBeginning
<1>9. Begin(z, n) = z
  BY <1>5, <1>6, SubSeqFull DEF Begin
<1>10. SubSeq(y, 1, Len(y) - 1) = z
  BY <1>6, <1>8, <1>9 DEF Begin
<1> QED
  BY <1>10 DEF y, z, a, b

\* A retired request is one that Generation ends.
LEMMA RetireEnds ==
  ASSUME IInv, NEW r \in DOMAIN states,
         NEW reason \in {"eog", "stop_sequence", "length", "context",
                         "cancelled", "error"},
         NEW out \in Seq(Token), NEW memory, Retire(r, reason, out, memory)
  PROVE  r \in DOMAIN Live /\ Promise!Ending(r, out, reason)
<1> DEFINE e == [id |-> r, prompt |-> states[r].prompt, params |-> states[r].params,
                 out |-> out, reason |-> reason]
<1>1. states' = Minus(states, r) /\ retired' = Archived(e)
  BY DEF Retire
<1>2. /\ DOMAIN states' = DOMAIN states \ {r}
      /\ \A q \in DOMAIN states' : states'[q] = states[q]
  BY <1>1, Left
<1>3. e \in Finished /\ e.id = r /\ e.prompt = states[r].prompt /\ e.out = out
      /\ e.reason = reason
  <2>1. /\ states[r].prompt \in Prompts /\ states[r].params \in Params
        /\ r \in Nat
    BY RequestTyped DEF IInv, TypeOK
  <2> QED
    BY <2>1 DEF Finished
<1> HIDE DEF e
<1>4. Ended' = <<[id |-> r, prompt |-> states[r].prompt, out |-> out,
                  reason |-> reason]>>
  BY <1>1, <1>3, ArchivedLast DEF IInv
<1>5. Live' = [q \in DOMAIN Live \ {r} |-> Live[q]]
  BY <1>2 DEF Live, Served
<1>6. r \in DOMAIN Live /\ Live[r].prompt = states[r].prompt
  BY DEF Live, Served
<1> QED
  BY <1>4, <1>5, <1>6 DEF Promise!Ending, Live, Served, Ended

\* A way to finish request r in Generation.
LEMMA FinishMeans ==
  ASSUME NEW r, NEW t \in Promise!Bursts, NEW hit \in BOOLEAN, NEW w, NEW z,
         Promise!Drawn(Live[r], t), Promise!GoesOn(Live[r], t, Len(t) - 1),
         hit => Live[r].params.stop,
         Promise!Rule(Live[r], Live[r].out \o t, hit) = w, w # "none",
         z = IF w = "eog"
             THEN SubSeq(Live[r].out \o t, 1, Len(Live[r].out \o t) - 1)
             ELSE Live[r].out \o t,
         Promise!Ending(r, z, w)
  PROVE  Promise!Finish(r)
BY Zenon DEF Promise!Finish, Promise!Ending, Live, Served

\* A verified row extends its request by the tokens it accepts, or finishes it
\* at the first of them that ends it.
LEMMA AcceptImplements ==
  ASSUME RInv, CapsComeFirst, NEW r \in DOMAIN todo,
         NEW m \in 0 .. Len(todo[r]), NEW token \in Token, NEW h,
         h # 0 => states[r].params.stop, Accept(r, m, token, h)
  PROVE  r \in DOMAIN Live /\ (Promise!Extend(r) \/ Promise!Finish(r))
<1> DEFINE c == Confirmed(r, m, token)
           o == states[r].out
           final == states[r].nPos - Len(todo[r]) - 1 + Len(c)
           memory == Rewound(states[r].slot, final)
           ends == {i \in 1 .. m + 1 : ReasonAt(r, m, token, h, i) # "none"}
<1>0. KInv /\ IInv /\ r \notin stranded
  BY DEF RInv, KInv
<1>1. /\ r \in DOMAIN states /\ o \in Seq(Token) /\ Len(o) \in Nat
      /\ r \in DOMAIN Live /\ Live[r] = Served(r)
      /\ Served(r).out = o /\ Served(r).params = states[r].params
      /\ Served(r).prompt = states[r].prompt
  BY <1>0, RowInStep DEF Live, Served
<1>2. /\ c \in Seq(Token) /\ Len(c) = m + 1 /\ m \in Nat
      /\ m <= Len(todo[r]) /\ Len(todo[r]) \in Nat /\ m + 1 \in 1 .. m + 1
  <2>1. /\ todo[r] \in Seq(Token) /\ Len(todo[r]) \in Nat
        /\ m \in 0 .. Len(todo[r])
    BY <1>0, RowInStep
  <2> QED
    BY <2>1, ConfirmedTokens
<1>3. Samples(r, m, token)
  BY DEF Accept
<1>4. IF ends = {}
      THEN /\ states' = [states EXCEPT ![r].out = @ \o c,
                                       ![r].next = token,
                                       ![r].nPos = final]
           /\ UNCHANGED retired
      ELSE LET k == Min(ends)
               kept == IF c[k] = Eog THEN k - 1 ELSE k
           IN  Retire(r, ReasonAt(r, m, token, h, k), o \o SubSeq(c, 1, kept),
                      memory)
  BY Zenon DEF Accept, ReasonAt
<1>5. CASE ends = {}
  <2> DEFINE t == Begin(c, m + 1)
  <2>1. t = c
    BY <1>2, SubSeqFull DEF Begin
  <2>2. t \in Promise!Bursts /\ Promise!Drawn(Served(r), t)
    BY <1>2, <1>3, AcceptedBurst, AcceptedDrawn
  <2>3. Promise!GoesOn(Served(r), t, m + 1)
    <3>1. \A i \in 1 .. m + 1 : ReasonAt(r, m, token, h, i) = "none"
      BY <1>5
    <3>2. m + 1 \in 0 .. m + 1
      BY <1>2
    <3> QED
      BY <1>2, <3>1, <3>2, AcceptedGoesOn
  <2> HIDE DEF t, c, final
  <2>4. Live' = [Live EXCEPT ![r].out = @ \o t]
    <3>1. /\ DOMAIN states' = DOMAIN states
          /\ \A q \in DOMAIN states : q # r => states'[q] = states[q]
          /\ states'[r] = [states[r] EXCEPT !.out = @ \o c, !.next = token,
                                            !.nPos = final]
      BY <1>1, <1>4, <1>5
    <3>2. states[r] \in RequestState
      BY <1>0, <1>1, RequestTyped DEF IInv
    <3>3. /\ states'[r].prompt = states[r].prompt
          /\ states'[r].params = states[r].params
          /\ states'[r].out = o \o c
      BY <3>1, <3>2, Zenon DEF RequestState
    <3>4. Served(r)' = [Served(r) EXCEPT !.out = @ \o c]
      <4> DEFINE new == [prompt |-> states[r].prompt, params |-> states[r].params,
                         out |-> o \o c]
      <4>1. Served(r)' = new
        BY <3>3, Zenon DEF Served
      <4>2. [Served(r) EXCEPT !.out = @ \o c] = new
        <5>1. \A a, b, x, y : [[prompt |-> a, params |-> b, out |-> x] EXCEPT !.out = y]
                               = [prompt |-> a, params |-> b, out |-> y]
          OBVIOUS
        <5>2. Served(r).out = o
          BY <1>1
        <5>3. PICK y : y = o \o c
          OBVIOUS
        <5>4. [Served(r) EXCEPT !.out = y]
                = [prompt |-> states[r].prompt, params |-> states[r].params, out |-> y]
          BY <5>1, Zenon DEF Served
        <5>5. Served(r).out \o c = y
          BY <5>2, <5>3
        <5> QED
          BY <5>3, <5>4, <5>5
      <4> QED
        BY <4>1, <4>2
    <3>5. \A q \in DOMAIN states : q # r => Served(q)' = Served(q)
      BY <3>1 DEF Served
    <3> HIDE DEF o
    <3> QED
      BY <2>1, <3>1, <3>4, <3>5 DEF Live
  <2>5. Ended' = Ended
    BY <1>4, <1>5 DEF Ended
  <2>6. Len(t) = m + 1
    BY <1>2, <2>1
  <2>7. /\ t \in Promise!Bursts /\ Promise!Drawn(Live[r], t)
        /\ Promise!GoesOn(Live[r], t, Len(t))
    BY <1>1, <2>2, <2>3, <2>6
  <2>8. Promise!Extend(r)
    BY <2>4, <2>5, <2>7, Zenon DEF Promise!Extend, Live, Served, Ended
  <2> QED
    BY <1>1, <2>8
<1>6. CASE ends # {}
  <2> DEFINE k == Min(ends)
             kept == IF c[k] = Eog THEN k - 1 ELSE k
             out == o \o SubSeq(c, 1, kept)
             why == ReasonAt(r, m, token, h, k)
             t == Begin(c, k)
             n == Len(o) + k
             pos == CheckedPos(todo[r], states[r].nPos - Len(todo[r]) - 1, k)
  <2>1. /\ k \in 1 .. m + 1 /\ why # "none" /\ k \in Nat /\ k >= 1
        /\ \A i \in 1 .. k - 1 : ReasonAt(r, m, token, h, i) = "none"
    <3>1. ends \subseteq Nat /\ ends # {}
      BY <1>2, <1>6
    <3>2. Min(ends) \in ends /\ \A y \in ends : Min(ends) <= y
      BY <3>1, LeastNumber
    <3>3. k \in 1 .. m + 1 /\ why # "none" /\ k \in Nat /\ k >= 1
      BY <1>2, <3>2
    <3>4. ASSUME NEW i \in 1 .. k - 1 PROVE ReasonAt(r, m, token, h, i) = "none"
      <4> HIDE DEF k
      <4>1. i \in 1 .. m + 1 /\ ~ (k <= i)
        BY <1>2, <3>3
      <4>2. i \notin ends
        BY <3>2, <4>1 DEF k
      <4> QED
        BY <4>1, <4>2
    <3> QED
      BY <3>3, <3>4
  <2>2. Retire(r, why, out, memory)
    BY <1>4, <1>6
  <2> HIDE DEF ends, k
  <2>3. why \in {"eog", "stop_sequence", "length", "context", "cancelled", "error"}
    BY <2>1, Zenon DEF Reason, ReasonAt
  <2>4. c[k] = Eog <=> why = "eog"
    <3> HIDE DEF c
    <3>1. ReasonAt(r, m, token, h, k)
            = Reason(r, c[k], h = k, Len(states[r].out) + k,
                     CheckedPos(todo[r], states[r].nPos - Len(todo[r]) - 1, k))
      BY DEF ReasonAt, c
    <3> QED
      BY <3>1 DEF Reason
  <2>5. t \in Promise!Bursts /\ Promise!Drawn(Served(r), t)
    BY <1>3, <2>1, AcceptedBurst, AcceptedDrawn
  <2>6. Promise!GoesOn(Served(r), t, k - 1)
    <3> DEFINE j == k - 1
    <3>1. j \in 0 .. k /\ \A i \in 1 .. j : ReasonAt(r, m, token, h, i) = "none"
      BY <2>1
    <3> HIDE DEF j
    <3>2. Promise!GoesOn(Served(r), t, j)
      BY <2>1, <3>1, AcceptedGoesOn
    <3> QED
      BY <3>2 DEF j
  <2>7. PICK hit \in BOOLEAN : hit <=> h = k
    OBVIOUS
  <2>8. why = Reason(r, c[k], hit, n, pos)
    <3> HIDE DEF c
    <3> QED
      BY <2>7 DEF Reason, ReasonAt, c
  <2>9. Promise!Rule(Served(r), o \o t, hit) = why
    <3>1. k \in 1 .. Len(c) /\ Len(c) <= Len(todo[r]) + 1
      BY <1>2, <2>1
    <3>2. c \in Seq(Token)
      BY <1>2
    <3>3. why = Reason(r, c[k], hit, Len(states[r].out) + k,
                       CheckedPos(todo[r], states[r].nPos - Len(todo[r]) - 1, k))
      BY <2>8
    <3> HIDE DEF c, why
    <3>4. Promise!Rule(Served(r), states[r].out \o Begin(c, k), hit)
            = Reason(r, c[k], hit, Len(states[r].out) + k,
                     CheckedPos(todo[r], states[r].nPos - Len(todo[r]) - 1, k))
      BY <3>1, <3>2, RuleIsReason
    <3> QED
      BY <3>3, <3>4
  <2>10. hit => Served(r).params.stop
    BY <1>1, <2>1, <2>7
  <2>11. Len(t) = k
    BY <2>1, AcceptedBurst
  <2>12. out = IF why = "eog" THEN SubSeq(o \o t, 1, Len(o \o t) - 1) ELSE o \o t
    <3>1. CASE why = "eog"
      <4>1. out = o \o Begin(c, k - 1)
        BY <2>4, <3>1 DEF Begin
      <4>2. k \in 1 .. Len(c)
        BY <1>2, <2>1
      <4>3. SubSeq(o \o t, 1, Len(o \o t) - 1) = o \o Begin(c, k - 1)
        <5>1. c \in Seq(Token) /\ o \in Seq(Token)
          BY <1>1, <1>2
        <5> HIDE DEF c, o
        <5> QED
          BY <4>2, <5>1, WithoutLast
      <4> QED
        BY <3>1, <4>1, <4>3
    <3>2. CASE why # "eog"
      BY <2>4, <3>2 DEF Begin
    <3> QED
      BY <3>1, <3>2
  <2>13. out \in Seq(Token)
    <3>1. kept \in 0 .. Len(c)
      BY <1>2, <2>1
    <3> HIDE DEF kept
    <3>2. Begin(c, kept) \in Seq(Token)
      BY <1>2, <3>1, BeginProperties
    <3> QED
      BY <1>1, <3>2, ConcatProperties DEF Begin
  <2>14. PICK w, z, b : w = why /\ z = out /\ b = memory
    OBVIOUS
  <2> HIDE DEF t, why, out, memory, c, o
  <2>15. Promise!Ending(r, z, w)
    <3>1. /\ Retire(r, w, z, b) /\ z \in Seq(Token)
          /\ w \in {"eog", "stop_sequence", "length", "context", "cancelled", "error"}
      BY <2>2, <2>3, <2>13, <2>14
    <3> QED
      BY <1>0, <1>1, <3>1, RetireEnds
  <2>16. Promise!Finish(r)
    <3>1. /\ t \in Promise!Bursts /\ hit \in BOOLEAN
          /\ Promise!Drawn(Live[r], t) /\ Promise!GoesOn(Live[r], t, Len(t) - 1)
          /\ hit => Live[r].params.stop
          /\ Promise!Rule(Live[r], Live[r].out \o t, hit) = w /\ w # "none"
          /\ z = IF w = "eog"
                 THEN SubSeq(Live[r].out \o t, 1, Len(Live[r].out \o t) - 1)
                 ELSE Live[r].out \o t
      BY <1>1, <2>1, <2>5, <2>6, <2>7, <2>9, <2>10, <2>11, <2>12, <2>14 DEF why
    <3> QED
      BY <2>15, <3>1, FinishMeans
  <2> QED
    BY <1>1, <2>16
<1> QED
  BY <1>5, <1>6

\* A cancelled request is abandoned with the output it has.
LEMMA CancelImplements ==
  ASSUME RInv, NEW r \in DOMAIN states, Cancel(r)
  PROVE  r \in DOMAIN Live /\ Promise!Abandon(r)
<1>1. IInv /\ states[r].out \in Seq(Token)
  BY RequestTyped DEF RInv, KInv, IInv
<1>2. PICK z, b : z = states[r].out /\ b = kv
  OBVIOUS
<1>3. Retire(r, "cancelled", z, b)
  BY <1>2 DEF Cancel
<1>4. r \in DOMAIN Live /\ Promise!Ending(r, z, "cancelled")
  BY <1>1, <1>2, <1>3, RetireEnds
<1>5. z = Live[r].out
  BY <1>2 DEF Live, Served
<1> QED
  BY <1>4, <1>5, Zenon DEF Promise!Abandon, Promise!Ending, Live, Served

\* What Generation sees has not changed.
Unseen == UNCHANGED <<Live, Ended>>

\* An admission is one of Generation, or is rolled back unseen.
LEMMA AddRequestImplements ==
  ASSUME RInv, ~Faults, NEW prompt \in Prompts, NEW params \in Params,
         AddRequest(prompt, params)
  PROVE  \/ Unseen
         \/ \E id \in 0 .. MaxRequests - 1 : Promise!Admit(id, prompt, params)
<1> DEFINE m == FindPin(prompt)
           v == Victim(m)
<1>1. /\ nextId < MaxRequests
      /\ \/ AdmissionRolledBack(v)
         \/ AdmittedPlain(v, prompt, params)
         \/ AdmittedForked(v, m, prompt, params)
  BY DEF AddRequest, AdmissionCancelled
<1>2. nextId \in Nat /\ DOMAIN states \subseteq 0 .. nextId - 1 /\ MaxRequests \in Nat
  BY GeometryAssumption DEF RInv, KInv, IInv, TypeOK
<1>3. nextId \in 0 .. MaxRequests - 1 /\ nextId \notin DOMAIN states
  BY <1>1, <1>2
<1> HIDE DEF m, v
<1>4. ASSUME NEW s, NEW n, UNCHANGED retired,
             states' = [q \in DOMAIN states \cup {nextId} |->
                          IF q = nextId THEN Registered(s, prompt, params, n)
                          ELSE states[q]]
      PROVE  \E id \in 0 .. MaxRequests - 1 : Promise!Admit(id, prompt, params)
  <2>0. PICK id : id = nextId
    OBVIOUS
  <2> DEFINE new == [prompt |-> prompt, params |-> params, out |-> << >>]
  <2>1. /\ DOMAIN states' = DOMAIN states \cup {nextId}
        /\ states'[nextId] = Registered(s, prompt, params, n)
        /\ \A q \in DOMAIN states : states'[q] = states[q]
    BY <1>3, <1>4
  <2>2. /\ states'[nextId].prompt = prompt /\ states'[nextId].params = params
        /\ states'[nextId].out = << >>
    BY <2>1 DEF Registered
  <2>3. [prompt |-> states'[nextId].prompt, params |-> states'[nextId].params,
         out |-> states'[nextId].out] = new
    BY <2>2
  <2>4. \A q \in DOMAIN states : Served(q)' = Served(q)
    BY <2>1 DEF Served
  <2>5. Live' = [q \in DOMAIN Live \cup {nextId} |->
                   IF q = nextId THEN new ELSE Live[q]]
    <3>1. Live' = [q \in DOMAIN states \cup {nextId} |-> Served(q)']
      BY <2>1 DEF Live
    <3>2. ASSUME NEW q \in DOMAIN states \cup {nextId}
          PROVE  Served(q)' = IF q = nextId THEN new ELSE Live[q]
      <4>1. CASE q = nextId
        BY <2>3, <4>1 DEF Served
      <4>2. CASE q # nextId
        BY <2>4, <4>2 DEF Live
      <4> QED
        BY <4>1, <4>2
    <3>3. DOMAIN Live = DOMAIN states
      BY DEF Live
    <3> HIDE DEF new
    <3> QED
      BY <3>1, <3>2, <3>3
  <2>6. Ended' = Ended
    BY <1>4 DEF Ended
  <2>7. nextId \notin DOMAIN Live
    BY <1>3 DEF Live
  <2>8. id \notin DOMAIN Live
        /\ Live' = [q \in DOMAIN Live \cup {id} |-> IF q = id THEN new ELSE Live[q]]
    BY <2>0, <2>5, <2>7
  <2>9. Promise!Admit(id, prompt, params)
    BY <2>6, <2>8, Zenon DEF Promise!Admit, Live, Served, Ended
  <2> QED
    BY <1>3, <2>0, <2>9
<1>5. CASE AdmissionRolledBack(v)
  <2>1. states' = states /\ retired' = retired
    BY <1>5 DEF AdmissionRolledBack
  <2> QED
    BY <2>1 DEF Unseen, Live, Served, Ended
<1>6. CASE AdmittedPlain(v, prompt, params)
  BY <1>4, <1>6 DEF AdmittedPlain
<1>7. CASE AdmittedForked(v, m, prompt, params)
  BY <1>4, <1>7 DEF AdmittedForked
<1> QED
  BY <1>1, <1>5, <1>6, <1>7

\* Generation has no batches.
LEMMA DecodeImplements ==
  ASSUME RInv, Decode
  PROVE  Unseen
<1>1. retired' = retired
  BY DEF Decode
<1>2. /\ DOMAIN states' = DOMAIN states
      /\ \A q \in DOMAIN states : /\ states'[q].prompt = states[q].prompt
                                  /\ states'[q].params = states[q].params
                                  /\ states'[q].out = states[q].out
  <2>1. PICK chunk, drafts : Committed(chunk, drafts) \/ Refused
    BY DEF Decode
  <2>2. CASE Committed(chunk, drafts)
    <3>1. DOMAIN states' = DOMAIN states
      BY <2>2 DEF Committed
    <3>2. ASSUME NEW q \in DOMAIN states
          PROVE  /\ states'[q].prompt = states[q].prompt
                 /\ states'[q].params = states[q].params
                 /\ states'[q].out = states[q].out
      <4>1. states[q] \in RequestState
        BY RequestTyped DEF RInv, KInv, IInv
      <4>2. \E n, f : states'[q] = [states[q] EXCEPT !.nPos = n, !.nPrefilled = f]
        BY <2>2 DEF Committed
      <4> QED
        BY <4>1, <4>2 DEF RequestState
    <3> QED
      BY <3>1, <3>2
  <2>3. CASE Refused
    BY <2>3 DEF Refused
  <2> QED
    BY <2>1, <2>2, <2>3
<1>3. \A q \in DOMAIN states : Served(q)' = Served(q)
  BY <1>2 DEF Served
<1>4. Live' = Live
  BY <1>2, <1>3 DEF Live
<1> QED
  BY <1>1, <1>4 DEF Unseen, Ended

LEMMA DraftWithinLimit ==
  ASSUME NEW d \in DraftSeqs, MaxDrafts \in Nat
  PROVE  Len(d) <= MaxDrafts
<1>1. \E n \in 0 .. MaxDrafts : d \in [1 .. n -> Token]
  BY DEF DraftSeqs, BoundedSeq, SeqOf
<1>2. PICK n \in 0 .. MaxDrafts : d \in [1 .. n -> Token]
  BY <1>1
<1>3. d \in Seq(Token) /\ DOMAIN d = 1 .. n /\ n \in Nat /\ n <= MaxDrafts
  BY <1>2
<1>4. Len(d) = n
  BY <1>3
<1> QED
  BY <1>3, <1>4

\* The rows of a batch that llama_decode accepted fit in their slots.
LEMMA DecodeRowsPlanned ==
  ASSUME RInv, Decode
  PROVE  RowsPlanned'
<1>1. Idle /\ KInv /\ IInv /\ stranded = {}
  BY DEF Decode, RInv, KInv
<1>2. PICK chunk \in [{r \in DOMAIN states : Prefilling(r)} -> 0 .. NBatch] :
        LET left == NBatch - SumFunction(chunk)
            rows == DecodeRows(left)
        IN  /\ IsPrefillPlan(chunk)
            /\ \E drafts \in [rows -> DraftSeqs] :
                 /\ IsDraftPlan(drafts, left - Cardinality(rows))
                 /\ IF Accepted(chunk, drafts)
                    THEN Committed(chunk, drafts)
                    ELSE Refused
  BY <1>1 DEF Decode
<1> DEFINE left == NBatch - SumFunction(chunk)
           rows == DecodeRows(left)
           spare == left - Cardinality(rows)
<1>3. PICK drafts \in [rows -> DraftSeqs] :
        /\ IsDraftPlan(drafts, spare)
        /\ IF Accepted(chunk, drafts) THEN Committed(chunk, drafts) ELSE Refused
  BY <1>2
<1>4. IsPrefillPlan(chunk)
  BY <1>2
<1>5. rows \in SUBSET {r \in DOMAIN states : Generating(r)}
  BY DEF DecodeRows
<1> HIDE DEF left, rows, spare
<1>6. CASE ~Accepted(chunk, drafts)
  <2>1. todo' = todo
    BY <1>3, <1>6 DEF Refused
  <2> QED
    BY <1>1, <2>1 DEF Idle, RowsPlanned
<1>7. CASE Accepted(chunk, drafts)
  <2>0. Committed(chunk, drafts) /\ DOMAIN drafts = rows
    BY <1>3, <1>7
  <2>1. ASSUME NEW r \in DOMAIN todo'
        PROVE  /\ states'[r].nPos <= NCtxSeq
               /\ Len(todo'[r]) <= MaxDrafts
               /\ todo'[r] # << >> => states'[r].params.greedy \/ Opportunistic
    <3> DEFINE x == Packed(r, chunk, drafts)
    <3>1. /\ r \in Completed(chunk) \cup rows
          /\ todo'[r] = IF r \in rows THEN drafts[r] ELSE << >>
      BY <2>0, <2>1 DEF Committed
    <3>2. r \in DOMAIN states
      BY <1>5, <3>1 DEF Completed
    <3>3. InBatch(r, chunk, rows, drafts)
      BY <1>1, <1>4, <1>5, <3>2, PackedRow
    <3>4. states'[r].nPos = states[r].nPos + Len(x)
      <4>1. MovedPast(r, x, chunk, drafts)
        BY <1>1, <2>0, <3>2, CommittedEffect
      <4> HIDE DEF x
      <4> QED
        BY <4>1 DEF MovedPast
    <3>5. states'[r].params = states[r].params
      <4>1. states[r] \in RequestState
        BY <1>1, <3>2, RequestTyped DEF IInv
      <4>2. \E n, f : states'[r] = [states[r] EXCEPT !.nPos = n, !.nPrefilled = f]
        BY <2>0, <3>2 DEF Committed
      <4> QED
        BY <4>1, <4>2 DEF RequestState
    <3>6. x # << >>
      <4>1. CASE r \in rows
        <5>1. Len(x) = 1 + Len(drafts[r]) /\ Len(drafts[r]) \in Nat
          BY <3>3, <4>1 DEF InBatch
        <5> HIDE DEF x
        <5> QED
          BY <5>1
      <4>2. CASE r \notin rows
        <5>1. r \in DOMAIN chunk /\ chunk[r] > 0
          BY <3>1, <4>2 DEF Completed
        <5>2. Len(x) = chunk[r]
          BY <3>3, <5>1 DEF InBatch
        <5> HIDE DEF x
        <5> QED
          BY <5>1, <5>2
      <4> QED
        BY <4>1, <4>2
    <3>7. states[r].nPos + Len(x) <= NCtxSeq
      BY <1>7, <3>2, <3>6 DEF Accepted
    <3> HIDE DEF x
    <3>8. MaxDrafts \in Nat
      BY GeometryAssumption
    <3>9. CASE r \in rows
      <4>1. todo'[r] = drafts[r] /\ drafts[r] \in DraftSeqs
        BY <1>3, <3>1, <3>9
      <4>2. Len(drafts[r]) <= MaxDrafts
        BY <3>8, <4>1, DraftWithinLimit
      <4>3. drafts[r] # << >> => states[r].params.greedy \/ Opportunistic
        BY <1>3, <2>0, <3>9 DEF IsDraftPlan
      <4> QED
        BY <3>4, <3>5, <3>7, <4>1, <4>2, <4>3
    <3>10. CASE r \notin rows
      <4>1. todo'[r] = << >> /\ Len(<< >>) = 0
        BY <3>1, <3>10
      <4> QED
        BY <3>4, <3>7, <3>8, <4>1
    <3> QED
      BY <3>9, <3>10
  <2> QED
    BY <2>1 DEF RowsPlanned
<1> QED
  BY <1>6, <1>7

\* The rows that are left are as they were.
LEMMA AdvanceRowsPlanned ==
  ASSUME RInv, Advance
  PROVE  RowsPlanned'
<1> DEFINE r == NextRow
<1>1. ~Idle /\ todo' = Minus(todo, r)
  BY DEF Advance
<1>2. r \in DOMAIN todo /\ r \in DOMAIN states
  BY <1>1, NextRowProperties DEF RInv, KInv
<1>3. PICK m \in 0 .. Len(todo[r]), token \in Token, h \in 0 .. Len(todo[r]) + 1 :
        Accept(r, m, token, h)
  BY DEF Advance
<1> HIDE DEF r
<1>4. /\ DOMAIN todo' = DOMAIN todo \ {r}
      /\ \A q \in DOMAIN todo' : todo'[q] = todo[q]
  BY <1>1 DEF Minus, Restrict
<1>5. ASSUME NEW q \in DOMAIN todo' PROVE states'[q] = states[q]
  <2>1. q \in DOMAIN states /\ q # r
    BY <1>4 DEF RInv, KInv, IInv, TypeOK
  <2> DEFINE c == Confirmed(r, m, token)
             final == states[r].nPos - Len(todo[r]) - 1 + Len(c)
             ends == {i \in 1 .. m + 1 : ReasonAt(r, m, token, h, i) # "none"}
             k == Min(ends)
             kept == IF c[k] = Eog THEN k - 1 ELSE k
  <2>2. IF ends = {}
        THEN states' = [states EXCEPT ![r].out = @ \o c, ![r].next = token,
                                      ![r].nPos = final]
        ELSE Retire(r, ReasonAt(r, m, token, h, k),
                    states[r].out \o SubSeq(c, 1, kept),
                    Rewound(states[r].slot, final))
    BY <1>3, Zenon DEF Accept, ReasonAt
  <2> HIDE DEF c, final, ends, k, kept
  <2>3. CASE ends = {}
    BY <2>1, <2>2, <2>3
  <2>4. CASE ends # {}
    BY <2>1, <2>2, <2>4 DEF Retire, Minus, Restrict
  <2> QED
    BY <2>3, <2>4
<1> QED
  BY <1>4, <1>5 DEF RInv, RowsPlanned

-----------------------------------------------------------------------------
(* The refinement.                                                          *)

LEMMA InitRInv == Init => RInv
<1> SUFFICES ASSUME Init PROVE RInv
  OBVIOUS
<1>1. DOMAIN todo = {} /\ stranded = {}
  BY DEF Init
<1> QED
  BY <1>1, InitKInv DEF RInv, RowsPlanned

LEMMA NextRInv ==
  ASSUME ~Faults
  PROVE  RInv /\ [Next]_vars => RInv'
<1> SUFFICES ASSUME RInv, [Next]_vars PROVE RInv'
  OBVIOUS
<1>1. KInv'
  BY NextKInv DEF RInv
<1>2. ASSUME Idle, todo' = todo PROVE RowsPlanned'
  BY <1>2 DEF Idle, RowsPlanned
<1>3. CASE \E p \in Prompts, q \in Params : AddRequest(p, q)
  BY <1>1, <1>2, <1>3 DEF AddRequest, RInv
<1>4. CASE \E r \in DOMAIN states : Cancel(r)
  BY <1>1, <1>2, <1>4 DEF Cancel, RInv
<1>5. CASE Decode
  BY <1>1, <1>5, DecodeRowsPlanned DEF Decode, RInv
<1>6. CASE Advance
  BY <1>1, <1>6, AdvanceRowsPlanned DEF Advance, RInv
<1>7. CASE UNCHANGED vars
  BY <1>1, <1>7 DEF vars, RInv, RowsPlanned
<1>8. ~AdvanceFails /\ ~SyncFails
  BY DEF AdvanceFails, SyncFails
<1> QED
  BY <1>3, <1>4, <1>5, <1>6, <1>7, <1>8 DEF Next

LEMMA InitImplements == Init => Promise!GInit
<1> SUFFICES ASSUME Init PROVE Promise!GInit
  OBVIOUS
<1>1. DOMAIN states = {} /\ retired = << >>
  BY DEF Init
<1>2. Live = << >>
  BY <1>1 DEF Live
<1>3. Ended = << >>
  BY <1>1 DEF Ended
<1> QED
  BY <1>2, <1>3 DEF Promise!GInit, Live, Served, Ended

LEMMA NextImplements ==
  ASSUME ~Faults, CapsComeFirst
  PROVE  RInv /\ [Next]_vars => [Promise!GNext]_(Promise!gvars)
<1> SUFFICES ASSUME RInv, [Next]_vars PROVE Unseen \/ Promise!GNext
  BY DEF Unseen, Promise!gvars, Live, Served, Ended
<1>1. ASSUME NEW r, r \in DOMAIN Live,
             Promise!Extend(r) \/ Promise!Finish(r) \/ Promise!Abandon(r)
      PROVE  Promise!GNext
  BY <1>1, Zenon DEF Promise!GNext, Live, Served
<1>2. ASSUME NEW p \in Prompts, NEW q \in Params, NEW id \in 0 .. MaxRequests - 1,
             Promise!Admit(id, p, q)
      PROVE  Promise!GNext
  BY <1>2, Zenon DEF Promise!GNext
<1>3. CASE \E p \in Prompts, q \in Params : AddRequest(p, q)
  BY <1>2, <1>3, AddRequestImplements
<1>4. CASE \E r \in DOMAIN states : Cancel(r)
  BY <1>1, <1>4, CancelImplements
<1>5. CASE Decode
  BY <1>5, DecodeImplements
<1>6. CASE Advance
  <2> DEFINE r == NextRow
  <2>1. r \in DOMAIN todo
    BY <1>6, NextRowProperties DEF Advance, RInv, KInv
  <2>2. PICK m \in 0 .. Len(todo[r]), token \in Token, h \in 0 .. Len(todo[r]) + 1 :
          (h # 0 => states[r].params.stop) /\ Accept(r, m, token, h)
    BY <1>6 DEF Advance
  <2>3. PICK row : row = r
    OBVIOUS
  <2> HIDE DEF r
  <2>4. row \in DOMAIN Live /\ (Promise!Extend(row) \/ Promise!Finish(row))
    BY <2>1, <2>2, <2>3, AcceptImplements
  <2> QED
    BY <1>1, <2>4
<1>7. CASE UNCHANGED vars
  BY <1>7 DEF vars, Unseen, Live, Served, Ended
<1>8. ~AdvanceFails /\ ~SyncFails
  BY DEF AdvanceFails, SyncFails
<1> QED
  BY <1>3, <1>4, <1>5, <1>6, <1>7, <1>8 DEF Next

\* As long as no row raises, and drafting requests reach their cap before the
\* end of their slot, the requests, outputs and finish reasons of the engine are
\* those of one-token-at-a-time generation of each request alone.
THEOREM GenerationImplemented ==
  ASSUME ~Faults, CapsComeFirst
  PROVE  Spec => ImplementsGeneration
<1>1. Init => RInv /\ Promise!GInit
  BY InitRInv, InitImplements
<1>2. RInv /\ [Next]_vars => RInv' /\ [Promise!GNext]_(Promise!gvars)
  BY NextRInv, NextImplements
<1> QED
  BY <1>1, <1>2, PTL DEF Spec, ImplementsGeneration, Promise!GSpec
=============================================================================
