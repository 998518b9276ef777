--------------------------- MODULE MLXEngineProofs ---------------------------
(***************************************************************************)
(* Proofs about MLXEngine, for every model, draft table, configuration and *)
(* window, and any number of requests: short of the window, speculation,   *)
(* fallback and prompt cache do not show in greedy output, caches hold the *)
(* text of live requests, and the prompt cache holds its prompts.          *)
(***************************************************************************)
EXTENDS MLXEngine, TLAPS, WellFoundedInduction, SequenceTheorems

-----------------------------------------------------------------------------
(* Numbers, sequences and functions. *)

LEMMA SmallestOf ==
  ASSUME NEW S, S \subseteq Nat, S # {}
  PROVE  Min(S) \in S /\ \A y \in S : Min(S) <= y
<1>1. PICK x \in S : \A y \in S : ~ (<<y, x>> \in OpToRel(<, Nat))
  BY NatLessThanWellFounded, WFMin
<1>2. ASSUME NEW y \in S, y < x PROVE FALSE
  <2>1. <<y, x>> \in Nat \X Nat /\ <<y, x>>[1] < <<y, x>>[2]
    BY <1>2
  <2>2. <<y, x>> \in OpToRel(<, Nat)
    BY <2>1, Zenon DEF OpToRel
  <2> QED
    BY <1>1, <2>2
<1>3. \A y \in S : x <= y
  BY <1>2
<1> QED
  BY <1>3 DEF Min

LEMMA LargestOf ==
  ASSUME NEW n \in Nat, NEW S, S \subseteq 0 .. n, S # {}
  PROVE  Max(S) \in S /\ \A y \in S : y <= Max(S)
<1> DEFINE T == {n - y : y \in S}
<1>0. \A y \in S : y \in Int /\ n - y \in Nat
  OBVIOUS
<1>1. T \subseteq Nat /\ T # {}
  BY <1>0, Zenon
<1>2. PICK t \in T : \A u \in T : ~ (<<u, t>> \in OpToRel(<, Nat))
  BY <1>1, NatLessThanWellFounded, WFMin
<1>3. PICK x \in S : t = n - x
  BY <1>2
<1>4. ASSUME NEW y \in S, ~ (x >= y) PROVE FALSE
  <2>1. n - y \in T /\ n - y < n - x /\ n - y \in Nat /\ n - x \in Nat
    BY <1>0, <1>4
  <2>2. <<n - y, n - x>> \in Nat \X Nat /\ <<n - y, n - x>>[1] < <<n - y, n - x>>[2]
    BY <2>1
  <2>3. <<n - y, n - x>> \in OpToRel(<, Nat)
    BY <2>2, Zenon DEF OpToRel
  <2> QED
    BY <1>2, <1>3, <2>1, <2>3
<1> QED
  BY <1>4 DEF Max

LEMMA BoundedIs ==
  ASSUME NEW S, NEW n \in Nat, NEW s
  PROVE  s \in BoundedSeq(S, n) <=> s \in Seq(S) /\ Len(s) <= n
<1>1. ASSUME s \in BoundedSeq(S, n) PROVE s \in Seq(S) /\ Len(s) <= n
  <2>1. PICK m \in 0 .. n : s \in [1 .. m -> S]
    BY <1>1 DEF BoundedSeq, SeqOf
  <2>2. m \in Nat
    OBVIOUS
  <2>3. s \in Seq(S)
    BY <2>1, <2>2
  <2>4. Len(s) = m
    BY <2>1, <2>2, <2>3, LenProperties
  <2> QED
    BY <2>3, <2>4
<1>2. ASSUME s \in Seq(S), Len(s) <= n PROVE s \in BoundedSeq(S, n)
  <2>1. Len(s) \in 0 .. n /\ s \in [1 .. Len(s) -> S]
    BY <1>2, LenProperties
  <2> QED
    BY <2>1 DEF BoundedSeq, SeqOf
<1> QED
  BY <1>1, <1>2

\* The first n tokens of s.
Begin(s, n) == SubSeq(s, 1, n)

LEMMA BeginIs ==
  ASSUME NEW S, NEW s \in Seq(S), NEW n \in 0 .. Len(s)
  PROVE  /\ Begin(s, n) \in Seq(S)
         /\ Len(Begin(s, n)) = n
         /\ \A i \in 1 .. n : Begin(s, n)[i] = s[i]
<1>1. Len(s) \in Nat /\ n \in Nat /\ \A i \in 1 .. n : s[i] \in S
  BY LenProperties, ElementOfSeq
<1>2. /\ SubSeq(s, 1, n) \in Seq(S)
      /\ Len(SubSeq(s, 1, n)) = IF 1 <= n THEN n - 1 + 1 ELSE 0
      /\ \A i \in 1 .. n - 1 + 1 : SubSeq(s, 1, n)[i] = s[1 + i - 1]
  BY <1>1, SubSeqProperties
<1>3. n - 1 + 1 = n /\ (IF 1 <= n THEN n - 1 + 1 ELSE 0) = n
  BY <1>1
<1>4. \A i \in 1 .. n : 1 + i - 1 = i
  OBVIOUS
<1> QED
  BY <1>2, <1>3, <1>4 DEF Begin

LEMMA PlusTyped ==
  ASSUME NEW f, NEW r, NEW x, NEW S, f \in [DOMAIN f -> S], x \in S
  PROVE  Plus(f, r, x) \in [DOMAIN Plus(f, r, x) -> S]
BY DEF Plus

LEMMA MinusIs ==
  ASSUME NEW f, NEW r
  PROVE  /\ DOMAIN Minus(f, r) = DOMAIN f \ {r}
         /\ \A q \in DOMAIN f \ {r} : Minus(f, r)[q] = f[q]
BY DEF Minus, Restrict

LEMMA MinusTyped ==
  ASSUME NEW f, NEW r, NEW S, f \in [DOMAIN f -> S]
  PROVE  Minus(f, r) \in [DOMAIN Minus(f, r) -> S]
BY DEF Minus, Restrict

LEMMA Empty ==
  /\ DOMAIN << >> = {}
  /\ \A S : << >> \in [DOMAIN << >> -> S]
OBVIOUS

LEMMA JoinedIs ==
  ASSUME NEW S, NEW s \in Seq(S), NEW t \in Seq(S)
  PROVE  /\ s \o t \in Seq(S)
         /\ Len(s \o t) = Len(s) + Len(t)
         /\ \A i \in 1 .. Len(s) : (s \o t)[i] = s[i]
         /\ \A i \in 1 .. Len(t) : (s \o t)[Len(s) + i] = t[i]
<1>1. Len(s) \in Nat /\ Len(t) \in Nat
  BY LenProperties
<1>2. PICK x : x = s \o t
  OBVIOUS
<1>3. /\ x \in Seq(S) /\ Len(x) = Len(s) + Len(t)
      /\ \A i \in 1 .. Len(s) + Len(t) : x[i] = IF i <= Len(s) THEN s[i] ELSE t[i - Len(s)]
  BY <1>2, ConcatProperties
<1>4. \A i \in 1 .. Len(s) : x[i] = s[i]
  BY <1>1, <1>3
<1>5. ASSUME NEW i \in 1 .. Len(t) PROVE x[Len(s) + i] = t[i]
  <2>1. /\ Len(s) + i \in 1 .. Len(s) + Len(t) /\ ~ (Len(s) + i <= Len(s))
        /\ Len(s) + i - Len(s) = i
    BY <1>1
  <2> QED
    BY <1>3, <2>1
<1> QED
  BY <1>2, <1>3, <1>4, <1>5

LEMMA BeginOfBegin ==
  ASSUME NEW S, NEW t \in Seq(S), NEW k \in 0 .. Len(t), NEW j \in 0 .. k
  PROVE  Begin(Begin(t, k), j) = Begin(t, j)
<1>1. Len(t) \in Nat /\ j \in 0 .. Len(t)
  BY LenProperties
<1>2. PICK b : b = Begin(t, k)
  OBVIOUS
<1>3. b \in Seq(S) /\ Len(b) = k /\ \A i \in 1 .. k : b[i] = t[i]
  BY <1>2, BeginIs
<1>4. PICK c : c = Begin(b, j)
  OBVIOUS
<1>5. c \in Seq(S) /\ Len(c) = j /\ \A i \in 1 .. j : c[i] = b[i]
  BY <1>3, <1>4, BeginIs
<1>6. PICK e : e = Begin(t, j)
  OBVIOUS
<1>7. e \in Seq(S) /\ Len(e) = j /\ \A i \in 1 .. j : e[i] = t[i]
  BY <1>1, <1>6, BeginIs
<1>8. \A i \in 1 .. j : c[i] = e[i]
  BY <1>1, <1>3, <1>5, <1>7
<1>9. c = e
  BY <1>5, <1>7, <1>8, SeqEqual
<1> QED
  BY <1>2, <1>4, <1>6, <1>9

LEMMA BeginOfJoined ==
  ASSUME NEW S, NEW s \in Seq(S), NEW t \in Seq(S)
  PROVE  /\ \A i \in 0 .. Len(s) : Begin(s \o t, i) = Begin(s, i)
         /\ \A j \in 0 .. Len(t) : Begin(s \o t, Len(s) + j) = s \o Begin(t, j)
<1>1. Len(s) \in Nat /\ Len(t) \in Nat
  BY LenProperties
<1>2. PICK x : x = s \o t
  OBVIOUS
<1>3. /\ x \in Seq(S) /\ Len(x) = Len(s) + Len(t)
      /\ \A i \in 1 .. Len(s) : x[i] = s[i]
      /\ \A i \in 1 .. Len(t) : x[Len(s) + i] = t[i]
  BY <1>2, JoinedIs
<1>4. ASSUME NEW i \in 0 .. Len(s) PROVE Begin(x, i) = Begin(s, i)
  <2>1. i \in 0 .. Len(x)
    BY <1>1, <1>3
  <2>2. PICK b : b = Begin(x, i)
    OBVIOUS
  <2>3. b \in Seq(S) /\ Len(b) = i /\ \A k \in 1 .. i : b[k] = x[k]
    BY <1>3, <2>1, <2>2, BeginIs
  <2>4. PICK c : c = Begin(s, i)
    OBVIOUS
  <2>5. c \in Seq(S) /\ Len(c) = i /\ \A k \in 1 .. i : c[k] = s[k]
    BY <2>4, BeginIs
  <2>6. \A k \in 1 .. i : b[k] = c[k]
    <3>1. \A k \in 1 .. i : k \in 1 .. Len(s)
      BY <1>1
    <3> QED
      BY <1>3, <2>3, <2>5, <3>1, ZenonT(40)
  <2>7. b = c
    BY <2>3, <2>5, <2>6, SeqEqual
  <2> QED
    BY <2>2, <2>4, <2>7
<1>5. ASSUME NEW j \in 0 .. Len(t) PROVE Begin(x, Len(s) + j) = s \o Begin(t, j)
  <2>1. Len(s) + j \in 0 .. Len(x)
    BY <1>1, <1>3
  <2>2. PICK b : b = Begin(x, Len(s) + j)
    OBVIOUS
  <2>3. b \in Seq(S) /\ Len(b) = Len(s) + j /\ \A k \in 1 .. Len(s) + j : b[k] = x[k]
    BY <1>3, <2>1, <2>2, BeginIs
  <2>4. PICK c : c = Begin(t, j)
    OBVIOUS
  <2>5. c \in Seq(S) /\ Len(c) = j /\ \A k \in 1 .. j : c[k] = t[k]
    BY <2>4, BeginIs
  <2>6. PICK e : e = s \o c
    OBVIOUS
  <2>7. /\ e \in Seq(S) /\ Len(e) = Len(s) + j
        /\ \A k \in 1 .. Len(s) : e[k] = s[k]
        /\ \A k \in 1 .. j : e[Len(s) + k] = c[k]
    <3>1. /\ e \in Seq(S) /\ Len(e) = Len(s) + Len(c)
          /\ \A k \in 1 .. Len(s) : e[k] = s[k]
          /\ \A k \in 1 .. Len(c) : e[Len(s) + k] = c[k]
      <4>1. c \in Seq(S)
        BY <2>5
      <4> QED
        BY <2>6, <4>1, JoinedIs
    <3> QED
      BY <2>5, <3>1
  <2>8. ASSUME NEW k \in 1 .. Len(s) + j PROVE b[k] = e[k]
    <3>1. CASE k <= Len(s)
      BY <1>1, <1>3, <2>3, <2>7, <3>1
    <3>2. CASE ~ (k <= Len(s))
      <4>1. PICK i \in 1 .. j : k = Len(s) + i
        <5>1. k - Len(s) \in 1 .. j /\ k = Len(s) + (k - Len(s))
          BY <1>1, <3>2
        <5> QED
          BY <5>1
      <4>2. i \in 1 .. Len(t)
        BY <1>1, <4>1
      <4>3. x[Len(s) + i] = t[i] /\ e[Len(s) + i] = c[i] /\ c[i] = t[i]
        BY <1>3, <2>5, <2>7, <4>1, <4>2
      <4> QED
        BY <2>3, <4>1, <4>3
    <3> QED
      BY <3>1, <3>2
  <2>9. b = e
    BY <2>3, <2>7, <2>8, SeqEqual
  <2> QED
    BY <2>2, <2>4, <2>6, <2>9
<1> QED
  BY <1>2, <1>4, <1>5

LEMMA AppendJoined ==
  ASSUME NEW S, NEW u \in Seq(S), NEW v \in Seq(S), NEW x \in S
  PROVE  Append(u \o v, x) = u \o Append(v, x)
<1>1. u \o v \in Seq(S)
  BY ConcatProperties
<1>2. Append(u \o v, x) = (u \o v) \o <<x>>
  BY <1>1, AppendIsConcat
<1>3. Append(v, x) = v \o <<x>>
  BY AppendIsConcat
<1>4. <<x>> \in Seq(S)
  OBVIOUS
<1>5. (u \o v) \o <<x>> = u \o (v \o <<x>>)
  BY <1>4, ConcatAssociative
<1> QED
  BY <1>2, <1>3, <1>5

LEMMA Associates ==
  \A S : \A x, y, z \in Seq(S) : (x \o y) \o z = x \o (y \o z)
BY ConcatAssociative, Zenon

LEMMA BeginNext ==
  ASSUME NEW S, NEW o \in Seq(S), NEW t \in Seq(S), NEW n \in 1 .. Len(t)
  PROVE  Append(o \o Begin(t, n - 1), t[n]) = o \o Begin(t, n)
<1>1. Len(t) \in Nat /\ n \in Nat /\ n - 1 \in 0 .. Len(t) /\ n \in 0 .. Len(t) /\ t[n] \in S
  BY LenProperties, ElementOfSeq
<1>2. PICK b : b = Begin(t, n - 1)
  OBVIOUS
<1>3. b \in Seq(S) /\ Len(b) = n - 1 /\ \A i \in 1 .. n - 1 : b[i] = t[i]
  BY <1>1, <1>2, BeginIs
<1>4. PICK c : c = Begin(t, n)
  OBVIOUS
<1>5. c \in Seq(S) /\ Len(c) = n /\ \A i \in 1 .. n : c[i] = t[i]
  BY <1>1, <1>4, BeginIs
<1>6. Append(b, t[n]) = c
  <2>1. PICK e : e = Append(b, t[n])
    OBVIOUS
  <2>2. /\ e \in Seq(S) /\ Len(e) = n /\ e[n] = t[n]
        /\ \A i \in 1 .. n - 1 : e[i] = b[i]
    <3>1. /\ e \in Seq(S) /\ Len(e) = Len(b) + 1 /\ e[Len(b) + 1] = t[n]
          /\ \A i \in 1 .. Len(b) : e[i] = b[i]
      BY <1>1, <1>3, <2>1, AppendProperties
    <3>2. n - 1 + 1 = n
      BY <1>1
    <3> QED
      BY <1>3, <3>1, <3>2
  <2>3. ASSUME NEW i \in 1 .. n PROVE e[i] = c[i]
    <3>1. CASE i = n
      BY <1>5, <2>2, <3>1
    <3>2. CASE i # n
      <4>1. i \in 1 .. n - 1
        BY <1>1, <3>2
      <4> QED
        BY <1>3, <1>5, <2>2, <4>1
    <3> QED
      BY <3>1, <3>2
  <2>4. e = c
    BY <1>5, <2>2, <2>3, SeqEqual
  <2> QED
    BY <2>1, <2>4
<1>7. Append(o \o b, t[n]) = o \o Append(b, t[n])
  <2>1. b \in Seq(S)
    BY <1>3
  <2>2. PICK x \in S : x = t[n]
    BY <1>1
  <2>3. PICK w : w = o \o b
    OBVIOUS
  <2>4. w \in Seq(S)
    BY <2>1, <2>3, ConcatProperties
  <2>5. Append(w, x) = w \o <<x>> /\ Append(b, x) = b \o <<x>>
    BY <2>1, <2>4, AppendIsConcat
  <2>6. <<x>> \in Seq(S)
    OBVIOUS
  <2>7. (o \o b) \o <<x>> = o \o (b \o <<x>>)
    BY <2>1, <2>6, Associates, SMTT(40)
  <2>8. Append(o \o b, x) = o \o Append(b, x)
    BY <2>3, <2>5, <2>7, Zenon
  <2> QED
    BY <2>2, <2>8
<1> QED
  BY <1>2, <1>4, <1>6, <1>7

-----------------------------------------------------------------------------
(* What _feed makes of a list of tokens. *)

Reasons == {"none", "context", "eog", "stop_sequence", "length"}

\* Which clause of the finish rule applied, and what it says of output and cap.
LEMMA OutcomeIs ==
  ASSUME NEW q, NEW out \in Seq(Token), NEW t, NEW manual \in BOOLEAN,
         NEW o, o = Outcome(q, out, t, manual)
  PROVE  /\ o \in Reasons
         /\ o = "context" => manual /\ Len(q.prompt) + Len(out) >= NCtx
         /\ o = "eog" => t = Eog
         /\ o = "stop_sequence" => t = Stop
         /\ o = "length" => t \notin {Eog, Stop} /\ Len(out) + 1 >= q.cap
         /\ o = "none" => /\ t \notin {Eog, Stop}
                          /\ ~ (Len(out) + 1 >= q.cap)
                          /\ manual => ~ (Len(q.prompt) + Len(out) >= NCtx)
BY Zenon DEF Outcome, Reasons

\* Of tokens fed after q.out the n-th is the last one looked at, with outcome w.
StopsAt(q, tokens, manual, n, w) ==
  /\ \A i \in 1 .. n - 1 :
       Outcome(q, q.out \o Begin(tokens, i - 1), tokens[i], manual) = "none"
  /\ w = Outcome(q, q.out \o Begin(tokens, n - 1), tokens[n], manual)
  /\ w = "none" => n = Len(tokens)
  /\ Fed(q, tokens, manual) =
       [out |-> IF w \in {"context", "eog"} THEN q.out \o Begin(tokens, n - 1)
                ELSE q.out \o Begin(tokens, n),
        reason |-> w]

\* _feed stops at the first token that ends the request.
LEMMA FedIs ==
  ASSUME NEW q, q.out \in Seq(Token), NEW tokens \in Seq(Token), Len(tokens) >= 1,
         NEW manual \in BOOLEAN
  PROVE  \E n \in 1 .. Len(tokens) : \E w \in Reasons : StopsAt(q, tokens, manual, n, w)
<1> DEFINE before(i) == q.out \o Begin(tokens, i - 1)
           why(i) == Outcome(q, before(i), tokens[i], manual)
           S == {i \in DOMAIN tokens : why(i) # "none"} \cup {Len(tokens)}
<1>1. Len(tokens) \in Nat /\ DOMAIN tokens = 1 .. Len(tokens)
  BY LenProperties
<1>2. S \subseteq 1 .. Len(tokens) /\ S # {} /\ S \subseteq Nat
  BY <1>1
<1>3. PICK n : n = Min(S)
  OBVIOUS
<1>4. n \in S /\ \A y \in S : n <= y
  BY <1>2, <1>3, SmallestOf
<1>5. n \in 1 .. Len(tokens)
  BY <1>2, <1>4
<1>6. PICK w : w = why(n)
  OBVIOUS
<1>7. w \in Reasons
  <2>1. Begin(tokens, n - 1) \in Seq(Token)
    <3>1. n - 1 \in 0 .. Len(tokens)
      BY <1>1, <1>5
    <3> QED
      BY <3>1, BeginIs
  <2>2. before(n) \in Seq(Token)
    BY <2>1, ConcatProperties
  <2> QED
    BY <1>6, <2>2, OutcomeIs
<1>8. ASSUME NEW i \in 1 .. n - 1 PROVE why(i) = "none"
  <2>1. i \in DOMAIN tokens /\ ~ (n <= i)
    BY <1>1, <1>5
  <2> QED
    BY <1>4, <2>1
<1>9. w = "none" => n = Len(tokens)
  BY <1>4, <1>6
<1>10. Append(before(n), tokens[n]) = q.out \o Begin(tokens, n)
  BY <1>5, BeginNext
<1>11. Fed(q, tokens, manual) =
         [out |-> IF why(n) \in {"context", "eog"} THEN before(n)
                  ELSE Append(before(n), tokens[n]),
          reason |-> why(n)]
  BY <1>3 DEF Fed, Begin
<1>12. Fed(q, tokens, manual) =
         [out |-> IF w \in {"context", "eog"} THEN q.out \o Begin(tokens, n - 1)
                  ELSE q.out \o Begin(tokens, n),
          reason |-> w]
  BY <1>6, <1>10, <1>11, Zenon
<1>13. StopsAt(q, tokens, manual, n, w)
  BY <1>6, <1>8, <1>9, <1>12 DEF StopsAt
<1> QED
  BY <1>5, <1>7, <1>13

LEMMA TokensJoined ==
  \A x, y \in Seq(Token) : x \o y \in Seq(Token) /\ Len(x \o y) = Len(x) + Len(y)
BY ConcatProperties

\* What the tokens fed and the place where feeding stopped say of each other.
Says(q, tokens, manual, n, w) ==
  /\ \A i \in 1 .. n - 1 : tokens[i] \notin {Eog, Stop}
  /\ Len(q.out) + n - 1 < q.cap
  /\ w = "context" => manual /\ Len(q.prompt) + (Len(q.out) + n - 1) = NCtx
  /\ w = "eog" => tokens[n] = Eog
  /\ w = "stop_sequence" => tokens[n] = Stop
  /\ w = "length" => tokens[n] # Stop /\ Len(q.out) + n = q.cap
  /\ w = "none" => /\ n = Len(tokens)
                   /\ tokens[n] \notin {Eog, Stop}
                   /\ Len(q.out) + n < q.cap
                   /\ manual => Len(q.prompt) + (Len(q.out) + n) <= NCtx
  /\ Fed(q, tokens, manual) =
       [out |-> IF w \in {"context", "eog"} THEN q.out \o Begin(tokens, n - 1)
                ELSE q.out \o Begin(tokens, n),
        reason |-> w]

LEMMA FedSays ==
  ASSUME NEW q, q.out \in Seq(Token), q.prompt \in Seq(Token), q.cap \in Nat,
         NEW tokens \in Seq(Token), Len(tokens) >= 1, NEW manual \in BOOLEAN,
         Len(q.out) < q.cap, manual => Len(q.prompt) + Len(q.out) <= NCtx
  PROVE  \E n \in 1 .. Len(tokens) : \E w \in Reasons : Says(q, tokens, manual, n, w)
<1>1. PICK n \in 1 .. Len(tokens) : \E w \in Reasons : StopsAt(q, tokens, manual, n, w)
  BY FedIs
<1>0. PICK w \in Reasons : StopsAt(q, tokens, manual, n, w)
  BY <1>1
<1>2. /\ Len(tokens) \in Nat /\ Len(q.out) \in Nat /\ Len(q.prompt) \in Nat
      /\ n \in Nat /\ n - 1 \in Nat /\ NCtx \in Nat /\ NCtx \in Int
  BY LenProperties, MLXAssumption
<1>3. ASSUME NEW i \in 1 .. n
      PROVE  /\ q.out \o Begin(tokens, i - 1) \in Seq(Token)
             /\ Len(q.out \o Begin(tokens, i - 1)) = Len(q.out) + i - 1
  <2>1. i - 1 \in 0 .. Len(tokens) /\ Len(q.out) + (i - 1) = Len(q.out) + i - 1
    BY <1>2
  <2>2. PICK b : b = Begin(tokens, i - 1)
    OBVIOUS
  <2>3. b \in Seq(Token) /\ Len(b) = i - 1
    BY <2>1, <2>2, BeginIs
  <2>4. q.out \o b \in Seq(Token) /\ Len(q.out \o b) = Len(q.out) + Len(b)
    <3>1. b \in Seq(Token)
      BY <2>3
    <3> QED
      BY <3>1, TokensJoined, Zenon
  <2> QED
    BY <2>1, <2>2, <2>3, <2>4
<1>4. ASSUME NEW i \in 1 .. n - 1
      PROVE  /\ tokens[i] \notin {Eog, Stop}
             /\ ~ (Len(q.out) + i - 1 + 1 >= q.cap)
             /\ manual => ~ (Len(q.prompt) + (Len(q.out) + i - 1) >= NCtx)
  <2>1. i \in 1 .. n
    BY <1>2
  <2>2. PICK u : u = q.out \o Begin(tokens, i - 1)
    OBVIOUS
  <2>3. u \in Seq(Token) /\ Len(u) = Len(q.out) + i - 1
    BY <1>3, <2>1, <2>2
  <2>4. "none" = Outcome(q, u, tokens[i], manual)
    BY <1>0, <2>2 DEF StopsAt
  <2>5. /\ tokens[i] \notin {Eog, Stop} /\ ~ (Len(u) + 1 >= q.cap)
        /\ manual => ~ (Len(q.prompt) + Len(u) >= NCtx)
    BY <2>3, <2>4, OutcomeIs
  <2> QED
    BY <2>3, <2>5
<1>5. /\ Len(q.out) + n - 1 < q.cap
      /\ manual => Len(q.prompt) + (Len(q.out) + n - 1) <= NCtx
  <2>1. CASE n = 1
    <3>1. Len(q.out) + n - 1 = Len(q.out)
      BY <1>2, <2>1
    <3> QED
      BY <3>1
  <2>2. CASE n # 1
    <3>1. n - 1 \in 1 .. n - 1
      BY <1>2, <2>2
    <3>2. /\ ~ (Len(q.out) + (n - 1) - 1 + 1 >= q.cap)
          /\ manual => ~ (Len(q.prompt) + (Len(q.out) + (n - 1) - 1) >= NCtx)
      BY <1>4, <3>1
    <3>3. Len(q.out) + n - 1 < q.cap
      BY <1>2, <3>2
    <3>4. ASSUME manual PROVE Len(q.prompt) + (Len(q.out) + n - 1) <= NCtx
      <4>1. ~ (Len(q.prompt) + (Len(q.out) + (n - 1) - 1) >= NCtx)
        BY <3>2, <3>4
      <4>2. \A l, a, m, c \in Nat : ~ (l + (a + (m - 1) - 1) >= c) => l + (a + m - 1) <= c
        OBVIOUS
      <4> QED
        BY <1>2, <4>1, <4>2, Zenon
    <3> QED
      BY <3>3, <3>4
  <2> QED
    BY <2>1, <2>2
<1>6. PICK u : u = q.out \o Begin(tokens, n - 1)
  OBVIOUS
<1>7. u \in Seq(Token) /\ Len(u) = Len(q.out) + n - 1
  <2>1. n \in 1 .. n
    BY <1>2
  <2> QED
    BY <1>3, <1>6, <2>1
<1>8. /\ w = "context" => manual /\ Len(q.prompt) + Len(u) >= NCtx
      /\ w = "eog" => tokens[n] = Eog
      /\ w = "stop_sequence" => tokens[n] = Stop
      /\ w = "length" => tokens[n] \notin {Eog, Stop} /\ Len(u) + 1 >= q.cap
      /\ w = "none" => /\ tokens[n] \notin {Eog, Stop}
                       /\ ~ (Len(u) + 1 >= q.cap)
                       /\ manual => ~ (Len(q.prompt) + Len(u) >= NCtx)
  <2>1. w = Outcome(q, u, tokens[n], manual)
    BY <1>0, <1>6 DEF StopsAt
  <2>2. u \in Seq(Token)
    BY <1>7
  <2> QED
    BY <2>1, <2>2, OutcomeIs
<1>9. ASSUME w = "context"
      PROVE  manual /\ Len(q.prompt) + (Len(q.out) + n - 1) = NCtx
  <2>1. /\ Len(q.prompt) + (Len(q.out) + n - 1) >= NCtx
        /\ Len(q.prompt) + (Len(q.out) + n - 1) <= NCtx
    BY <1>5, <1>7, <1>8, <1>9
  <2>2. PICK x : x = Len(q.prompt) + (Len(q.out) + n - 1)
    OBVIOUS
  <2>3. \A l, a, m \in Nat : l + (a + m - 1) \in Int
    OBVIOUS
  <2>4. x \in Int
    BY <1>2, <2>2, <2>3
  <2>5. x >= NCtx /\ x <= NCtx
    BY <2>1, <2>2
  <2>6. x = NCtx
    BY <1>2, <2>4, <2>5
  <2>7. manual
    BY <1>8, <1>9
  <2> QED
    BY <2>2, <2>6, <2>7
<1>10. w = "length" => tokens[n] # Stop /\ Len(q.out) + n = q.cap
  <2>1. w = "length" => Len(q.out) + n = q.cap
    BY <1>2, <1>5, <1>7, <1>8
  <2> QED
    BY <1>8, <2>1
<1>11. ASSUME w = "none"
       PROVE  /\ Len(q.out) + n < q.cap
              /\ manual => Len(q.prompt) + (Len(q.out) + n) <= NCtx
  <2>1. /\ ~ (Len(q.out) + n - 1 + 1 >= q.cap)
        /\ manual => ~ (Len(q.prompt) + (Len(q.out) + n - 1) >= NCtx)
    BY <1>7, <1>8, <1>11
  <2>2. Len(q.out) + n < q.cap
    BY <1>2, <2>1
  <2>3. ASSUME manual PROVE Len(q.prompt) + (Len(q.out) + n) <= NCtx
    <3>1. ~ (Len(q.prompt) + (Len(q.out) + n - 1) >= NCtx)
      BY <2>1, <2>3
    <3>2. \A l, a, m, c \in Nat : ~ (l + (a + m - 1) >= c) => l + (a + m) <= c
      OBVIOUS
    <3> QED
      BY <1>2, <3>1, <3>2, Zenon
  <2> QED
    BY <2>2, <2>3
<1>12. /\ w = "none" => n = Len(tokens)
       /\ Fed(q, tokens, manual) =
            [out |-> IF w \in {"context", "eog"} THEN q.out \o Begin(tokens, n - 1)
                     ELSE q.out \o Begin(tokens, n),
             reason |-> w]
  BY <1>0 DEF StopsAt
<1>13. Says(q, tokens, manual, n, w)
  BY <1>4, <1>5, <1>8, <1>9, <1>10, <1>11, <1>12, Zenon DEF Says
<1> QED
  BY <1>13

\* The output is what the model says after prompt p, token by token.
Runs(p, o) == \A i \in 1 .. Len(o) : o[i] = Target(p \o Begin(o, i - 1))

\* No token of the output ends a request.
Clean(o) == \A i \in 1 .. Len(o) : o[i] \notin {Eog, Stop}

\* The tokens are what the model says after prompt p and output o.
Continues(p, o, tokens) ==
  \A i \in 1 .. Len(tokens) : tokens[i] = Target(p \o (o \o Begin(tokens, i - 1)))

LEMMA TokensBegin ==
  \A x, y \in Seq(Token) :
    /\ \A i \in 0 .. Len(x) : Begin(x \o y, i) = Begin(x, i)
    /\ \A j \in 0 .. Len(y) : Begin(x \o y, Len(x) + j) = x \o Begin(y, j)
BY BeginOfJoined

LEMMA RunGrows ==
  ASSUME NEW p, NEW o \in Seq(Token), NEW t \in Seq(Token), NEW k \in 0 .. Len(t),
         Runs(p, o), Continues(p, o, t)
  PROVE  Runs(p, o \o Begin(t, k))
<1>1. Len(o) \in Nat /\ Len(t) \in Nat
  BY LenProperties
<1>2. PICK b : b = Begin(t, k)
  OBVIOUS
<1>3. b \in Seq(Token) /\ Len(b) = k /\ \A i \in 1 .. k : b[i] = t[i]
  BY <1>2, BeginIs
<1>4. PICK x : x = o \o b
  OBVIOUS
<1>5. /\ x \in Seq(Token) /\ Len(x) = Len(o) + Len(b)
      /\ \A i \in 1 .. Len(o) : x[i] = o[i]
      /\ \A i \in 1 .. Len(b) : x[Len(o) + i] = b[i]
  <2>1. b \in Seq(Token)
    BY <1>3
  <2> QED
    BY <1>4, <2>1, JoinedIs
<1>6. /\ \A i \in 0 .. Len(o) : Begin(x, i) = Begin(o, i)
      /\ \A j \in 0 .. Len(b) : Begin(x, Len(o) + j) = o \o Begin(b, j)
  <2>1. b \in Seq(Token)
    BY <1>3
  <2> QED
    BY <1>4, <2>1, TokensBegin, Zenon
<1>7. ASSUME NEW i \in 1 .. Len(x) PROVE x[i] = Target(p \o Begin(x, i - 1))
  <2>1. CASE i <= Len(o)
    <3>1. i \in 1 .. Len(o) /\ i - 1 \in 0 .. Len(o)
      BY <1>1, <2>1
    <3>2. x[i] = o[i] /\ Begin(x, i - 1) = Begin(o, i - 1)
      BY <1>5, <1>6, <3>1
    <3>3. o[i] = Target(p \o Begin(o, i - 1))
      BY <3>1 DEF Runs
    <3> QED
      BY <3>2, <3>3
  <2>2. CASE ~ (i <= Len(o))
    <3>1. PICK j \in 1 .. k : i = Len(o) + j
      <4>1. i - Len(o) \in 1 .. k /\ i = Len(o) + (i - Len(o))
        BY <1>1, <1>3, <1>5, <2>2
      <4> QED
        BY <4>1
    <3>2. /\ j \in 1 .. Len(b) /\ j - 1 \in 0 .. Len(b) /\ j - 1 \in 0 .. k
          /\ j \in 1 .. Len(t) /\ i - 1 = Len(o) + (j - 1)
      BY <1>1, <1>3, <3>1
    <3>3. x[i] = t[j]
      BY <1>3, <1>5, <3>1, <3>2
    <3>4. Begin(x, i - 1) = o \o Begin(b, j - 1)
      BY <1>6, <3>2
    <3>5. Begin(b, j - 1) = Begin(t, j - 1)
      BY <1>2, <3>2, BeginOfBegin
    <3>6. t[j] = Target(p \o (o \o Begin(t, j - 1)))
      BY <3>2 DEF Continues
    <3> QED
      BY <3>3, <3>4, <3>5, <3>6
  <2> QED
    BY <2>1, <2>2
<1>8. Runs(p, x)
  BY <1>7 DEF Runs
<1> QED
  BY <1>2, <1>4, <1>8

LEMMA CleanGrows ==
  ASSUME NEW o \in Seq(Token), NEW t \in Seq(Token), NEW k \in 0 .. Len(t),
         Clean(o), \A i \in 1 .. k : t[i] \notin {Eog, Stop}
  PROVE  Clean(o \o Begin(t, k))
<1>1. Len(o) \in Nat /\ Len(t) \in Nat
  BY LenProperties
<1>2. PICK b : b = Begin(t, k)
  OBVIOUS
<1>3. b \in Seq(Token) /\ Len(b) = k /\ \A i \in 1 .. k : b[i] = t[i]
  BY <1>2, BeginIs
<1>4. PICK x : x = o \o b
  OBVIOUS
<1>5. /\ x \in Seq(Token) /\ Len(x) = Len(o) + Len(b)
      /\ \A i \in 1 .. Len(o) : x[i] = o[i]
      /\ \A i \in 1 .. Len(b) : x[Len(o) + i] = b[i]
  BY <1>3, <1>4, JoinedIs
<1>6. ASSUME NEW i \in 1 .. Len(x) PROVE x[i] \notin {Eog, Stop}
  <2>1. CASE i <= Len(o)
    <3>1. i \in 1 .. Len(o)
      BY <1>1, <2>1
    <3> QED
      BY <1>5, <3>1 DEF Clean
  <2>2. CASE ~ (i <= Len(o))
    <3>1. PICK j \in 1 .. k : i = Len(o) + j
      <4>1. i - Len(o) \in 1 .. k /\ i = Len(o) + (i - Len(o))
        BY <1>1, <1>3, <1>5, <2>2
      <4> QED
        BY <4>1
    <3>2. x[i] = t[j]
      BY <1>3, <1>5, <3>1
    <3> QED
      BY <3>2
  <2> QED
    BY <2>1, <2>2
<1>7. Clean(x)
  BY <1>6 DEF Clean
<1> QED
  BY <1>2, <1>4, <1>7

LEMMA WholeIsBegin ==
  ASSUME NEW S, NEW t \in Seq(S)
  PROVE  Begin(t, Len(t)) = t
<1>1. Len(t) \in 0 .. Len(t)
  BY LenProperties
<1>2. PICK b : b = Begin(t, Len(t))
  OBVIOUS
<1>3. b \in Seq(S) /\ Len(b) = Len(t) /\ \A i \in 1 .. Len(t) : b[i] = t[i]
  BY <1>1, <1>2, BeginIs
<1>4. b = t
  BY <1>3, SeqEqual
<1> QED
  BY <1>2, <1>4

\* As CleanGrows, up to the last token, which is the k-th of t.
LEMMA CleanToTheLast ==
  ASSUME NEW o \in Seq(Token), NEW t \in Seq(Token), NEW k \in 1 .. Len(t),
         Clean(o), \A i \in 1 .. k - 1 : t[i] \notin {Eog, Stop}
  PROVE  \A x : x = o \o Begin(t, k) =>
           /\ \A i \in 1 .. Len(x) - 1 : x[i] \notin {Eog, Stop}
           /\ Last(x) = t[k]
<1> SUFFICES ASSUME NEW x, x = o \o Begin(t, k)
             PROVE  /\ \A i \in 1 .. Len(x) - 1 : x[i] \notin {Eog, Stop}
                    /\ Last(x) = t[k]
  OBVIOUS
<1>1. Len(o) \in Nat /\ Len(t) \in Nat /\ k \in 0 .. Len(t) /\ k \in 1 .. k
  BY LenProperties
<1>2. PICK b : b = Begin(t, k)
  OBVIOUS
<1>3. b \in Seq(Token) /\ Len(b) = k /\ \A i \in 1 .. k : b[i] = t[i]
  BY <1>1, <1>2, BeginIs
<1>4. /\ x \in Seq(Token) /\ Len(x) = Len(o) + Len(b)
      /\ \A i \in 1 .. Len(o) : x[i] = o[i]
      /\ \A i \in 1 .. Len(b) : x[Len(o) + i] = b[i]
  <2>1. b \in Seq(Token) /\ x = o \o b
    BY <1>2, <1>3
  <2> QED
    BY <2>1, JoinedIs
<1>5. ASSUME NEW i \in 1 .. Len(x) - 1 PROVE x[i] \notin {Eog, Stop}
  <2>1. CASE i <= Len(o)
    <3>1. i \in 1 .. Len(o)
      BY <1>1, <2>1
    <3> QED
      BY <1>4, <3>1 DEF Clean
  <2>2. CASE ~ (i <= Len(o))
    <3>1. PICK j \in 1 .. k - 1 : i = Len(o) + j
      <4>1. i - Len(o) \in 1 .. k - 1 /\ i = Len(o) + (i - Len(o))
        BY <1>1, <1>3, <1>4, <2>2
      <4> QED
        BY <4>1
    <3>2. j \in 1 .. k
      BY <1>1, <3>1
    <3>3. x[i] = t[j]
      BY <1>3, <1>4, <3>1, <3>2
    <3> QED
      BY <3>1, <3>3
  <2> QED
    BY <2>1, <2>2
<1>6. Last(x) = t[k]
  <2>1. x[Len(o) + k] = b[k] /\ Len(x) = Len(o) + k
    BY <1>1, <1>3, <1>4
  <2> QED
    BY <1>1, <1>3, <2>1 DEF Last
<1> QED
  BY <1>5, <1>6

LEMMA BeginGrows ==
  ASSUME NEW o \in Seq(Token), NEW t \in Seq(Token), NEW k \in 0 .. Len(t)
  PROVE  o \o Begin(t, k) \in Seq(Token) /\ Len(o \o Begin(t, k)) = Len(o) + k
<1>1. PICK b : b = Begin(t, k)
  OBVIOUS
<1>2. b \in Seq(Token) /\ Len(b) = k
  BY <1>1, BeginIs
<1>3. b \in Seq(Token)
  BY <1>2
<1>4. o \o b \in Seq(Token) /\ Len(o \o b) = Len(o) + Len(b)
  BY <1>3, JoinedIs
<1> QED
  BY <1>1, <1>2, <1>4

\* A request that goes on has all the tokens, fits its cap and, on the manual path,
\* the context.
LEMMA FeedGoesOn ==
  ASSUME NEW q, q.out \in Seq(Token), q.prompt \in Seq(Token), q.cap \in Nat,
         NEW tokens \in Seq(Token), Len(tokens) >= 1, NEW manual \in BOOLEAN,
         Len(q.out) < q.cap, manual => Len(q.prompt) + Len(q.out) <= NCtx,
         NEW f, f = Fed(q, tokens, manual)
  PROVE  /\ f.out \in Seq(Token) /\ f.reason \in Reasons
         /\ f.reason = "none" =>
              /\ f.out = q.out \o tokens
              /\ Len(f.out) < q.cap
              /\ manual => Len(q.prompt) + Len(f.out) <= NCtx
              /\ Clean(q.out) => Clean(f.out)
<1>1. PICK n \in 1 .. Len(tokens) : \E w \in Reasons : Says(q, tokens, manual, n, w)
  BY FedSays
<1>2. PICK w \in Reasons : Says(q, tokens, manual, n, w)
  BY <1>1
<1>3. f = [out |-> IF w \in {"context", "eog"} THEN q.out \o Begin(tokens, n - 1)
                   ELSE q.out \o Begin(tokens, n),
           reason |-> w]
  BY <1>2 DEF Says
<1>4. Len(tokens) \in Nat /\ n \in 0 .. Len(tokens) /\ n - 1 \in 0 .. Len(tokens)
  BY LenProperties
<1>5. f.out \in Seq(Token) /\ f.reason \in Reasons
  <2>1. q.out \o Begin(tokens, n - 1) \in Seq(Token) /\ q.out \o Begin(tokens, n) \in Seq(Token)
    BY <1>4, BeginGrows
  <2> QED
    BY <1>3, <2>1
<1>6. ASSUME f.reason = "none"
      PROVE  /\ f.out = q.out \o tokens
             /\ Len(f.out) < q.cap
             /\ manual => Len(q.prompt) + Len(f.out) <= NCtx
             /\ Clean(q.out) => Clean(f.out)
  <2>1. w = "none" /\ f.out = q.out \o Begin(tokens, n)
    BY <1>3, <1>6
  <2>2. n = Len(tokens) /\ Begin(tokens, n) = tokens
    <3>1. n = Len(tokens)
      BY <1>2, <2>1 DEF Says
    <3> QED
      BY <3>1, WholeIsBegin
  <2>3. Len(f.out) = Len(q.out) + n
    <3>1. Len(q.out \o Begin(tokens, n)) = Len(q.out) + n
      BY <1>4, BeginGrows
    <3> QED
      BY <2>1, <3>1
  <2>4. Len(f.out) < q.cap /\ (manual => Len(q.prompt) + Len(f.out) <= NCtx)
    BY <1>2, <2>1, <2>3 DEF Says
  <2>5. \A i \in 1 .. n : tokens[i] \notin {Eog, Stop}
    <3>1. /\ \A i \in 1 .. n - 1 : tokens[i] \notin {Eog, Stop}
          /\ tokens[n] \notin {Eog, Stop}
      BY <1>2, <2>1 DEF Says
    <3>2. \A i \in 1 .. n : i \in 1 .. n - 1 \/ i = n
      BY <1>4
    <3> QED
      BY <3>1, <3>2
  <2>6. Clean(q.out) => Clean(f.out)
    BY <1>4, <2>1, <2>5, CleanGrows
  <2> QED
    BY <2>1, <2>2, <2>4, <2>6
<1> QED
  BY <1>5, <1>6

\* An output below the cap that nothing in it ends.
LEMMA NotOver ==
  ASSUME NEW e, e.out \in Seq(Token), e.cap \in Nat, Len(e.out) < e.cap, Clean(e.out)
  PROVE  PlainEnd(e) = IF Target(e.prompt \o e.out) = Eog THEN "eog" ELSE "none"
<1>1. Len(e.out) \in Nat /\ Len(e.out) # e.cap
  BY LenProperties
<1>2. ~ (Len(e.out) > 0 /\ Last(e.out) = Stop)
  <2>1. SUFFICES ASSUME Len(e.out) > 0 PROVE Last(e.out) # Stop
    OBVIOUS
  <2>2. Len(e.out) \in 1 .. Len(e.out)
    BY <1>1, <2>1
  <2> QED
    BY <2>2 DEF Clean, Last
<1> QED
  BY <1>1, <1>2, Zenon DEF PlainEnd

\* Fed with what the model says next, a request ends where, and why, the one-token
\* path would end it, or at the window if its cache is its own.
LEMMA FeedEnds ==
  ASSUME NEW q, q.out \in Seq(Token), q.prompt \in Seq(Token), q.cap \in Nat,
         NEW tokens \in Seq(Token), Len(tokens) >= 1, NEW manual \in BOOLEAN,
         Len(q.out) < q.cap, manual => Len(q.prompt) + Len(q.out) <= NCtx,
         NEW f, f = Fed(q, tokens, manual),
         Runs(q.prompt, q.out), Clean(q.out), Continues(q.prompt, q.out, tokens),
         NEW c, manual => OwnsCaches(c),
         NEW e, e.prompt = q.prompt, e.cap = q.cap, e.out = f.out, e.reason = f.reason
  PROVE  /\ Runs(q.prompt, f.out)
         /\ f.reason # "none" => IsPlainRun(e) /\ EndsByRule(e, c)
<1>1. PICK n \in 1 .. Len(tokens) : \E w \in Reasons : Says(q, tokens, manual, n, w)
  BY FedSays
<1>2. PICK w \in Reasons : Says(q, tokens, manual, n, w)
  BY <1>1
<1>3. f = [out |-> IF w \in {"context", "eog"} THEN q.out \o Begin(tokens, n - 1)
                   ELSE q.out \o Begin(tokens, n),
           reason |-> w]
  BY <1>2 DEF Says
<1>4. /\ Len(tokens) \in Nat /\ n \in 0 .. Len(tokens) /\ n - 1 \in 0 .. Len(tokens)
      /\ Len(q.out) \in Nat /\ n \in Nat
  BY LenProperties
<1>5. /\ Runs(q.prompt, q.out \o Begin(tokens, n - 1))
      /\ Runs(q.prompt, q.out \o Begin(tokens, n))
  BY <1>4, RunGrows
<1>6. Runs(q.prompt, f.out)
  BY <1>3, <1>5
<1>8. e.out = IF w \in {"context", "eog"} THEN q.out \o Begin(tokens, n - 1)
              ELSE q.out \o Begin(tokens, n)
  BY <1>3
<1>7. ASSUME f.reason # "none" PROVE IsPlainRun(e) /\ EndsByRule(e, c)
  <2>1. w # "none" /\ e.reason = w
    BY <1>3, <1>7
  <2>2. \A i \in 1 .. n - 1 : tokens[i] \notin {Eog, Stop}
    BY <1>2 DEF Says
  <2>3. Len(q.out) + n - 1 < q.cap
    BY <1>2 DEF Says
  <2>4. \A i \in 1 .. Len(e.out) : e.out[i] = Target(e.prompt \o SubSeq(e.out, 1, i - 1))
    BY <1>6 DEF Runs, Begin
  <2>5. CASE w \in {"context", "eog"}
    <3>1. PICK u : u = q.out \o Begin(tokens, n - 1)
      OBVIOUS
    <3>2. u \in Seq(Token) /\ Len(u) = Len(q.out) + (n - 1)
      BY <1>4, <3>1, BeginGrows
    <3>3. e.out = u
      BY <1>8, <2>5, <3>1, Zenon
    <3>4. Clean(u)
      BY <1>4, <2>2, <3>1, CleanGrows
    <3>5. \A i \in 1 .. Len(u) - 1 : u[i] \notin {Eog, Stop}
      <4>1. Len(u) \in Nat
        BY <3>2, LenProperties
      <4> QED
        BY <3>4, <4>1 DEF Clean
    <3>6. Len(u) = Len(q.out) + n - 1
      BY <1>4, <3>2
    <3>7. Len(u) <= q.cap
      BY <1>4, <2>3, <3>6
    <3>8. IsPlainRun(e)
      BY <2>4, <3>3, <3>5, <3>7 DEF IsPlainRun
    <3>9. PlainEnd(e) = IF Target(e.prompt \o e.out) = Eog THEN "eog" ELSE "none"
      <4>1. Len(e.out) < e.cap /\ e.cap \in Nat
        BY <2>3, <3>3, <3>6
      <4>2. e.out \in Seq(Token) /\ Clean(e.out)
        BY <3>2, <3>3, <3>4
      <4> QED
        BY <4>1, <4>2, NotOver
    <3>10. CASE w = "eog"
      <4>1. tokens[n] = Eog
        BY <1>2, <3>10 DEF Says
      <4>2. tokens[n] = Target(q.prompt \o u)
        BY <3>1 DEF Continues
      <4>3. PlainEnd(e) = "eog"
        BY <3>3, <3>9, <4>1, <4>2
      <4> QED
        BY <2>1, <3>8, <3>10, <4>3 DEF EndsByRule
    <3>11. CASE w = "context"
      <4>1. manual /\ Len(q.prompt) + (Len(q.out) + n - 1) = NCtx
        BY <1>2, <3>11 DEF Says
      <4>2. Len(e.prompt) + Len(e.out) = NCtx
        BY <3>3, <3>6, <4>1
      <4>3. PlainEnd(e) \in {"none", "eog"} /\ OwnsCaches(c)
        BY <3>9, <4>1
      <4> QED
        BY <2>1, <3>8, <3>11, <4>2, <4>3 DEF EndsByRule
    <3> QED
      BY <2>5, <3>10, <3>11
  <2>6. CASE w \in {"stop_sequence", "length"}
    <3>1. PICK u : u = q.out \o Begin(tokens, n)
      OBVIOUS
    <3>2. u \in Seq(Token) /\ Len(u) = Len(q.out) + n
      BY <1>4, <3>1, BeginGrows
    <3>3. e.out = u
      <4>1. w \notin {"context", "eog"}
        BY <2>6
      <4> QED
        BY <1>8, <3>1, <4>1, Zenon
    <3>4. /\ \A i \in 1 .. Len(u) - 1 : u[i] \notin {Eog, Stop}
          /\ Last(u) = tokens[n]
      <4>1. \A x : x = q.out \o Begin(tokens, n) =>
              /\ \A i \in 1 .. Len(x) - 1 : x[i] \notin {Eog, Stop}
              /\ Last(x) = tokens[n]
        BY <2>2, CleanToTheLast, ZenonT(60)
      <4> QED
        BY <3>1, <4>1
    <3>5. Len(u) <= q.cap
      BY <1>4, <2>3, <3>2
    <3>6. IsPlainRun(e)
      BY <2>4, <3>3, <3>4, <3>5 DEF IsPlainRun
    <3>7. w = "stop_sequence" => Last(e.out) = Stop
      BY <1>2, <3>3, <3>4 DEF Says
    <3>8. w = "length" => Last(e.out) # Stop /\ Len(e.out) = e.cap
      BY <1>2, <3>2, <3>3, <3>4 DEF Says
    <3>9. Len(e.out) > 0
      BY <1>4, <3>2, <3>3
    <3>10. PlainEnd(e) = w
      BY <2>6, <3>7, <3>8, <3>9, Zenon DEF PlainEnd
    <3> QED
      BY <2>1, <3>6, <3>10 DEF EndsByRule
  <2> QED
    BY <2>1, <2>5, <2>6 DEF Reasons
<1> QED
  BY <1>6, <1>7

-----------------------------------------------------------------------------
(* Windows: the newest entries of a list. *)

LEMMA MaxOfTwo ==
  ASSUME NEW a \in Int, NEW b \in Int
  PROVE  Max({a, b}) = IF a >= b THEN a ELSE b
<1>1. PICK m : m = Max({a, b})
  OBVIOUS
<1>2. \E x \in {a, b} : \A y \in {a, b} : x >= y
  <2>1. a >= b \/ b >= a
    OBVIOUS
  <2> QED
    BY <2>1
<1>3. m \in {a, b} /\ \A y \in {a, b} : m >= y
  BY <1>1, <1>2 DEF Max
<1> QED
  BY <1>1, <1>3

LEMMA MinOfTwo ==
  ASSUME NEW a \in Int, NEW b \in Int
  PROVE  Min({a, b}) = IF a <= b THEN a ELSE b
<1>1. PICK m : m = Min({a, b})
  OBVIOUS
<1>2. \E x \in {a, b} : \A y \in {a, b} : x <= y
  <2>1. a <= b \/ b <= a
    OBVIOUS
  <2> QED
    BY <2>1
<1>3. m \in {a, b} /\ \A y \in {a, b} : m <= y
  BY <1>1, <1>2 DEF Min
<1> QED
  BY <1>1, <1>3

\* The newest n entries are the last ones of the list, in its order.
LEMMA NewestIs ==
  ASSUME NEW S, NEW s \in Seq(S), NEW n \in Nat
  PROVE  /\ Newest(s, n) \in Seq(S)
         /\ Len(Newest(s, n)) <= n
         /\ \E d \in Nat : /\ Len(Newest(s, n)) + d <= Len(s)
                           /\ \A i \in 1 .. Len(Newest(s, n)) : Newest(s, n)[i] = s[d + i]
<1>1. Len(s) \in Nat /\ \A i \in 1 .. Len(s) : s[i] \in S
  BY LenProperties, ElementOfSeq
<1>2. PICK m : m = Max({1, Len(s) - n + 1})
  OBVIOUS
<1>3. m = IF 1 >= Len(s) - n + 1 THEN 1 ELSE Len(s) - n + 1
  BY <1>1, <1>2, MaxOfTwo
<1>4. m \in Nat /\ 1 <= m /\ m <= Len(s) + 1 /\ Len(s) - m + 1 <= n
  BY <1>1, <1>3
<1>5. PICK w : w = SubSeq(s, m, Len(s))
  OBVIOUS
<1>6. /\ w \in Seq(S)
      /\ Len(w) = IF m <= Len(s) THEN Len(s) - m + 1 ELSE 0
      /\ \A i \in 1 .. Len(s) - m + 1 : w[i] = s[m + i - 1]
  <2>1. \A i \in m .. Len(s) : s[i] \in S
    BY <1>1, <1>4
  <2> QED
    BY <1>1, <1>4, <1>5, <2>1, SubSeqProperties
<1>7. Len(w) = Len(s) - m + 1
  BY <1>1, <1>4, <1>6
<1>8. m - 1 \in Nat /\ Len(w) + (m - 1) <= Len(s) /\ Len(w) <= n
  BY <1>1, <1>4, <1>7
<1>9. \A i \in 1 .. Len(w) : w[i] = s[m - 1 + i]
  <2>1. \A i \in 1 .. Len(w) : m + i - 1 = m - 1 + i
    BY <1>4
  <2> QED
    BY <1>6, <1>7, <2>1
<1>10. w = Newest(s, n)
  BY <1>2, <1>5 DEF Newest
<1> QED
  BY <1>6, <1>8, <1>9, <1>10

-----------------------------------------------------------------------------
(* The inductive invariant. *)

\* Which path a request takes is settled by the configuration and its sampling.
Manual(r) ==
  \/ config.kvBits \/ config.prefixCache
  \/ config.speculative /\ states[r].greedy

\* Caches belong to the manual path and generators to the other; a generator that
\* is exhausted has raised; with a manual path every request has its counts.
Paths ==
  /\ \A r \in DOMAIN caches : Manual(r)
  /\ \A r \in DOMAIN streams : ~Manual(r) /\ (streams[r].raised => r \in broken)
  /\ config.speculative \/ config.kvBits \/ config.prefixCache => DOMAIN spec = DOMAIN states

\* Cache c has the prompt of q and less than the output, even when it was rebuilt
\* after a partial match; exactly the text before the last token when it was not.
CachedAt(q, c, exact) ==
  /\ Len(q.prompt) + Len(q.out) <= NCtx
  /\ \E o \in Seq(Token) : c = q.prompt \o o /\ Len(o) < Len(q.out)
  /\ exact => c = Front(q.prompt \o q.out)

\* A live request is below its cap and nothing it has ends it.
LiveAt(q, exact) ==
  /\ Len(q.out) < q.cap
  /\ exact /\ q.greedy => Runs(q.prompt, q.out) /\ Clean(q.out)

Live(r) ==
  /\ LiveAt(states[r], r \notin lossy)
  /\ r \in DOMAIN caches => CachedAt(states[r], caches[r], r \notin lossy)
  /\ r \notin DOMAIN caches => Generator(r).made = states[r].out

Record == [id : Nat, prompt : Prompts, cap : Caps, greedy : BOOLEAN, out : Seq(Token),
           reason : Reasons \cup {"cancelled", "error"}]

\* What a finished record promises.
EndedAt(e) ==
  e.greedy /\ e.id \notin lossy \cup broken => IsPlainRun(e) /\ EndsByRule(e, config)

RetiredPlain == retired \in Seq(Record) /\ \A i \in DOMAIN retired : EndedAt(retired[i])

EInv ==
  /\ TypeOK
  /\ OnlyLiveRequestsHoldCaches
  /\ PrefixHoldsPrompts
  /\ Paths
  /\ \A r \in DOMAIN states : Live(r)
  /\ RetiredPlain

\* The prompt cache's own part of the invariant.
PrefixOK ==
  /\ prefix \in Seq([key : Prompts, cache : Seq(Token), base : Token])
  /\ PrefixHoldsPrompts

LEMMA Typed ==
  ASSUME EInv, NEW r \in DOMAIN states
  PROVE  /\ states[r] \in Requests
         /\ states[r].prompt \in Prompts /\ states[r].prompt \in Seq(Token)
         /\ states[r].cap \in Caps /\ states[r].cap \in Nat
         /\ states[r].greedy \in BOOLEAN
         /\ states[r].out \in Seq(Token)
         /\ r \in Ids /\ r \in Nat
         /\ Live(r)
<1>1. states[r] \in Requests /\ r \in Ids /\ Live(r) /\ nextId \in Nat
  BY DEF EInv, TypeOK
<1>2. /\ states[r].prompt \in Prompts /\ states[r].cap \in Caps
      /\ states[r].greedy \in BOOLEAN /\ states[r].out \in Seq(Token)
  BY <1>1 DEF Requests
<1>3. states[r].prompt \in Seq(Token) /\ states[r].cap \in Nat
  BY <1>2, MLXAssumption
<1>4. r \in Nat
  BY <1>1 DEF Ids
<1> QED
  BY <1>1, <1>2, <1>3, <1>4

\* Nothing but request r changes what the requests hold.
Apart(r) ==
  /\ \A x \in DOMAIN states' \ {r} : x \in DOMAIN states /\ states'[x] = states[x]
  /\ \A x \in DOMAIN states' \ {r} :
       /\ x \in DOMAIN caches' <=> x \in DOMAIN caches
       /\ x \in DOMAIN caches => caches'[x] = caches[x]
       /\ x \in DOMAIN streams' <=> x \in DOMAIN streams
       /\ x \in DOMAIN streams => streams'[x] = streams[x]
       /\ x \in lossy' <=> x \in lossy

LEMMA OthersLive ==
  ASSUME EInv, NEW r, Apart(r), NEW x \in DOMAIN states' \ {r}
  PROVE  Live(x)'
<1>1. /\ x \in DOMAIN states /\ states'[x] = states[x]
      /\ x \in DOMAIN caches' <=> x \in DOMAIN caches
      /\ x \in DOMAIN caches => caches'[x] = caches[x]
      /\ x \in DOMAIN streams' <=> x \in DOMAIN streams
      /\ x \in DOMAIN streams => streams'[x] = streams[x]
      /\ x \in lossy' <=> x \in lossy
  BY DEF Apart
<1>2. Live(x)
  BY <1>1 DEF EInv
<1>3. LiveAt(states'[x], x \notin lossy')
  BY <1>1, <1>2 DEF Live, LiveAt
<1>4. ASSUME x \in DOMAIN caches' PROVE CachedAt(states'[x], caches'[x], x \notin lossy')
  <2>1. x \in DOMAIN caches /\ caches'[x] = caches[x] /\ CachedAt(states[x], caches[x], x \notin lossy)
    BY <1>1, <1>2, <1>4 DEF Live
  <2> QED
    BY <1>1, <2>1 DEF CachedAt
<1>5. ASSUME x \notin DOMAIN caches' PROVE Generator(x)'.made = states'[x].out
  <2>1. Generator(x).made = states[x].out
    BY <1>1, <1>2, <1>5 DEF Live
  <2>2. Generator(x)' = Generator(x)
    BY <1>1 DEF Generator
  <2> QED
    BY <1>1, <2>1, <2>2
<1> QED
  BY <1>3, <1>4, <1>5 DEF Live

\* A record that joins the finished ones, and the ones that stay.
LEMMA KeptIs ==
  ASSUME EInv, NEW e \in Record
  PROVE  /\ Kept(e) \in Seq(Record)
         /\ Len(Kept(e)) <= RetiredLimit
         /\ \A i \in DOMAIN Kept(e) :
              Kept(e)[i] = e \/ \E j \in DOMAIN retired : Kept(e)[i] = retired[j]
<1>1. retired \in Seq(Record) /\ RetiredLimit \in Nat
  BY MLXAssumption DEF EInv, RetiredPlain
<1>2. Len(retired) \in Nat /\ DOMAIN retired = 1 .. Len(retired)
  BY <1>1, LenProperties
<1>3. PICK a : a = Append(retired, e)
  OBVIOUS
<1>4. /\ a \in Seq(Record) /\ Len(a) = Len(retired) + 1 /\ a[Len(retired) + 1] = e
      /\ \A i \in 1 .. Len(retired) : a[i] = retired[i]
  BY <1>1, <1>3, AppendProperties
<1>5. PICK k : k = Newest(a, RetiredLimit)
  OBVIOUS
<1>6. a \in Seq(Record)
  BY <1>4
<1>7. /\ k \in Seq(Record) /\ Len(k) <= RetiredLimit
      /\ \E d \in Nat : Len(k) + d <= Len(a) /\ \A i \in 1 .. Len(k) : k[i] = a[d + i]
  BY <1>1, <1>5, <1>6, NewestIs
<1>8. PICK d \in Nat : Len(k) + d <= Len(a) /\ \A i \in 1 .. Len(k) : k[i] = a[d + i]
  BY <1>7
<1>9. Len(k) \in Nat /\ DOMAIN k = 1 .. Len(k)
  BY <1>7, LenProperties
<1>10. ASSUME NEW i \in DOMAIN k
       PROVE  k[i] = e \/ \E j \in DOMAIN retired : k[i] = retired[j]
  <2>1. d + i \in 1 .. Len(retired) \/ d + i = Len(retired) + 1
    BY <1>2, <1>4, <1>8, <1>9
  <2>2. k[i] = a[d + i]
    BY <1>8, <1>9
  <2>3. CASE d + i = Len(retired) + 1
    BY <1>4, <2>2, <2>3
  <2>4. CASE d + i \in 1 .. Len(retired)
    BY <1>2, <1>4, <2>2, <2>4
  <2> QED
    BY <2>1, <2>3, <2>4
<1>11. k = Kept(e)
  BY <1>3, <1>5 DEF Kept
<1> QED
  BY <1>7, <1>10, <1>11

-----------------------------------------------------------------------------
(* What happens to one request. *)

LEMMA RetiredPlainKept ==
  ASSUME EInv, NEW e \in Record, retired' = Kept(e), config' = config,
         lossy \subseteq lossy', broken \subseteq broken', EndedAt(e)'
  PROVE  RetiredPlain' /\ Len(retired') <= RetiredLimit
<1>0. PICK k : k = Kept(e)
  OBVIOUS
<1>1. /\ k \in Seq(Record) /\ Len(k) <= RetiredLimit
      /\ \A i \in DOMAIN k : k[i] = e \/ \E j \in DOMAIN retired : k[i] = retired[j]
  BY <1>0, KeptIs
<1>2. ASSUME NEW i \in DOMAIN k PROVE EndedAt(k[i])'
  <2>1. PICK x : x = k[i]
    OBVIOUS
  <2>2. CASE x = e
    BY <2>1, <2>2
  <2>3. CASE x # e
    <3>1. PICK j \in DOMAIN retired : x = retired[j]
      BY <1>1, <2>1, <2>3
    <3>2. EndedAt(x)
      BY <3>1 DEF EInv, RetiredPlain
    <3>3. EndedAt(x)'
      BY <3>2 DEF EndedAt
    <3> QED
      BY <2>1, <3>3
  <2> QED
    BY <2>2, <2>3
<1>3. retired' = k
  BY <1>0
<1> QED
  BY <1>1, <1>2, <1>3 DEF RetiredPlain, EndedAt

LEMMA RetiredPlainStays ==
  ASSUME EInv, retired' = retired, config' = config, lossy \subseteq lossy',
         broken \subseteq broken'
  PROVE  RetiredPlain' /\ Len(retired') <= RetiredLimit
<1>1. ASSUME NEW i \in DOMAIN retired PROVE EndedAt(retired[i])'
  BY DEF EInv, RetiredPlain, EndedAt
<1> QED
  BY <1>1 DEF EInv, TypeOK, RetiredPlain

\* _retire: request r is over.
LEMMA Gone ==
  ASSUME EInv, NEW r \in DOMAIN states, NEW result, result.out \in Seq(Token),
         result.reason \in Reasons \cup {"cancelled", "error"},
         Retire(r, result), UNCHANGED <<config, nextId>>,
         PrefixOK', turn' \subseteq DOMAIN states \ {r},
         lossy \subseteq lossy', lossy' \subseteq lossy \cup {r}, broken' = broken,
         states[r].greedy /\ r \notin lossy' \cup broken =>
           IsPlainRun(Finished(r, result)) /\ EndsByRule(Finished(r, result), config)
  PROVE  EInv'
<1>1. /\ states[r] \in Requests /\ r \in Ids /\ r \in Nat
      /\ states[r].prompt \in Prompts /\ states[r].cap \in Caps
      /\ states[r].greedy \in BOOLEAN
  BY Typed
<1>2. /\ states' = Minus(states, r) /\ caches' = Minus(caches, r)
      /\ streams' = Minus(streams, r) /\ spec' = Minus(spec, r)
      /\ retired' = Kept(Finished(r, result))
  BY DEF Retire
<1>3. /\ DOMAIN states' = DOMAIN states \ {r}
      /\ \A x \in DOMAIN states \ {r} : states'[x] = states[x]
      /\ DOMAIN caches' = DOMAIN caches \ {r}
      /\ \A x \in DOMAIN caches \ {r} : caches'[x] = caches[x]
      /\ DOMAIN streams' = DOMAIN streams \ {r}
      /\ \A x \in DOMAIN streams \ {r} : streams'[x] = streams[x]
      /\ DOMAIN spec' = DOMAIN spec \ {r}
      /\ \A x \in DOMAIN spec \ {r} : spec'[x] = spec[x]
  BY <1>2, MinusIs
<1>4. PICK e : e = Finished(r, result)
  OBVIOUS
<1>5. e \in Record /\ e.id = r /\ e.greedy = states[r].greedy
  BY <1>1, <1>4 DEF Finished, Record
<1>6. EndedAt(e)'
  BY <1>4, <1>5 DEF EndedAt
<1>7. RetiredPlain' /\ Len(retired') <= RetiredLimit
  <2>1. e \in Record /\ retired' = Kept(e)
    BY <1>2, <1>4, <1>5
  <2> QED
    BY <1>6, <2>1, RetiredPlainKept
<1>8. Apart(r)
  BY <1>3 DEF Apart
<1>9. \A x \in DOMAIN states' : Live(x)'
  BY <1>3, <1>8, OthersLive
<1>10. TypeOK'
  <2>1. /\ config' \in Configs /\ nextId' \in 0 .. MaxRequests /\ Ids' = Ids
    BY DEF EInv, TypeOK, Ids
  <2>2. DOMAIN states' \subseteq Ids /\ states' \in [DOMAIN states' -> Requests]
    <3>1. states \in [DOMAIN states -> Requests] /\ DOMAIN states \subseteq Ids
      BY DEF EInv, TypeOK
    <3> QED
      BY <1>2, <1>3, <3>1, MinusTyped
  <2>3. caches' \in [DOMAIN caches' -> Seq(Token)]
    <3>1. caches \in [DOMAIN caches -> Seq(Token)]
      BY DEF EInv, TypeOK
    <3> QED
      BY <1>2, <3>1, MinusTyped
  <2>4. streams' \in [DOMAIN streams' -> [made : Seq(Token), raised : BOOLEAN]]
    <3>1. streams \in [DOMAIN streams -> [made : Seq(Token), raised : BOOLEAN]]
      BY DEF EInv, TypeOK
    <3> QED
      BY <1>2, <3>1, MinusTyped
  <2>5. /\ spec' \in [DOMAIN spec' -> [ok : BOOLEAN, drafted : Nat, accepted : Nat,
                                      recomputes : Nat]]
        /\ \A x \in DOMAIN spec' : spec'[x].accepted <= spec'[x].drafted
    <3>1. /\ spec \in [DOMAIN spec -> [ok : BOOLEAN, drafted : Nat, accepted : Nat,
                                       recomputes : Nat]]
          /\ \A x \in DOMAIN spec : spec[x].accepted <= spec[x].drafted
      BY DEF EInv, TypeOK
    <3>2. spec' \in [DOMAIN spec' -> [ok : BOOLEAN, drafted : Nat, accepted : Nat,
                                      recomputes : Nat]]
      BY <1>2, <3>1, MinusTyped
    <3> QED
      BY <1>3, <3>1, <3>2
  <2>6. turn' \subseteq DOMAIN states'
    BY <1>3
  <2>7. lossy' \cup broken' \subseteq Ids
    <3>1. lossy \cup broken \subseteq Ids
      BY DEF EInv, TypeOK
    <3> QED
      BY <1>1, <3>1
  <2> QED
    BY <1>7, <2>1, <2>2, <2>3, <2>4, <2>5, <2>6, <2>7 DEF TypeOK, PrefixOK
<1>11. OnlyLiveRequestsHoldCaches'
  BY <1>3 DEF EInv, OnlyLiveRequestsHoldCaches
<1>12. Paths'
  <2>1. \A x \in DOMAIN states \ {r} : Manual(x)' <=> Manual(x)
    BY <1>3 DEF Manual
  <2>2. /\ DOMAIN caches \subseteq DOMAIN states /\ DOMAIN streams \subseteq DOMAIN states
    BY DEF EInv, OnlyLiveRequestsHoldCaches
  <2>3. \A x \in DOMAIN caches' : Manual(x)'
    BY <1>3, <2>1, <2>2 DEF EInv, Paths
  <2>4. \A x \in DOMAIN streams' : (~Manual(x))' /\ (streams'[x].raised => x \in broken)
    BY <1>3, <2>1, <2>2 DEF EInv, Paths
  <2>5. config.speculative \/ config.kvBits \/ config.prefixCache => DOMAIN spec' = DOMAIN states'
    BY <1>3 DEF EInv, Paths
  <2> QED
    BY <2>3, <2>4, <2>5 DEF Paths
<1> QED
  BY <1>7, <1>9, <1>10, <1>11, <1>12 DEF EInv, PrefixOK

SpecOK ==
  /\ spec \in [DOMAIN spec -> [ok : BOOLEAN, drafted : Nat, accepted : Nat,
                               recomputes : Nat]]
  /\ \A r \in DOMAIN spec : spec[r].accepted <= spec[r].drafted

\* Request r, q by now, is advanced on its own path: a cache or a generator follows.
Advances(r, q) ==
  \/ /\ Manual(r) /\ streams' = streams
     /\ \E c \in Seq(Token) : caches' = Plus(caches, r, c) /\ CachedAt(q, c, r \notin lossy')
  \/ /\ ~Manual(r) /\ caches' = caches
     /\ streams' = Plus(streams, r, [made |-> q.out, raised |-> FALSE])

\* A request that goes on with output out.
LEMMA GoesOn ==
  ASSUME EInv, NEW r \in DOMAIN states, NEW out \in Seq(Token),
         states' = [states EXCEPT ![r].out = out], UNCHANGED <<config, nextId, retired>>,
         PrefixOK', turn' \subseteq DOMAIN states,
         lossy \subseteq lossy', lossy' \subseteq lossy \cup {r}, broken' = broken,
         SpecOK', DOMAIN spec' = DOMAIN spec,
         NEW q, q = [states[r] EXCEPT !.out = out],
         LiveAt(q, r \notin lossy'), Advances(r, q)
  PROVE  EInv'
<1>1. /\ states[r] \in Requests /\ r \in Ids /\ r \in Nat
      /\ states[r].greedy \in BOOLEAN
  BY Typed
<1>2. /\ states \in [DOMAIN states -> Requests] /\ DOMAIN states \subseteq Ids
      /\ DOMAIN caches \cup DOMAIN streams \cup DOMAIN spec \subseteq DOMAIN states
      /\ DOMAIN caches \cap DOMAIN streams = {}
      /\ Paths
  BY DEF EInv, TypeOK, OnlyLiveRequestsHoldCaches
<1>3. q \in Requests /\ q.out = out /\ q.greedy = states[r].greedy
  BY <1>1 DEF Requests
<1>4. /\ DOMAIN states' = DOMAIN states
      /\ states'[r] = q
      /\ \A x \in DOMAIN states \ {r} : states'[x] = states[x]
      /\ states' \in [DOMAIN states' -> Requests]
  <2>1. states' = [states EXCEPT ![r] = q]
    OBVIOUS
  <2> QED
    BY <1>2, <1>3, <2>1
<1>5. \A x \in DOMAIN states : (Manual(x)' <=> Manual(x))
  BY <1>3, <1>4 DEF Manual
<1> DEFINE Done ==
             /\ caches' \in [DOMAIN caches' -> Seq(Token)]
             /\ streams' \in [DOMAIN streams' -> [made : Seq(Token), raised : BOOLEAN]]
             /\ Apart(r) /\ Live(r)'
             /\ \A x \in DOMAIN caches' : Manual(x)'
             /\ \A x \in DOMAIN streams' : (~Manual(x))' /\ (streams'[x].raised => x \in broken)
             /\ DOMAIN caches' \cup DOMAIN streams' \subseteq DOMAIN states'
             /\ DOMAIN caches' \cap DOMAIN streams' = {}
<1>6. ASSUME Manual(r) PROVE Done
  <2>1. PICK c \in Seq(Token) : /\ caches' = Plus(caches, r, c) /\ streams' = streams
                                /\ CachedAt(q, c, r \notin lossy')
    BY <1>6 DEF Advances
  <2>2. /\ DOMAIN caches' = DOMAIN caches \cup {r} /\ caches'[r] = c
        /\ \A x \in DOMAIN caches \ {r} : caches'[x] = caches[x]
    BY <2>1 DEF Plus
  <2>3. caches' \in [DOMAIN caches' -> Seq(Token)]
    <3>1. caches \in [DOMAIN caches -> Seq(Token)]
      BY DEF EInv, TypeOK
    <3> QED
      BY <2>1, <3>1, PlusTyped
  <2>4. streams' \in [DOMAIN streams' -> [made : Seq(Token), raised : BOOLEAN]]
    BY <2>1 DEF EInv, TypeOK
  <2>5. Apart(r)
    BY <1>4, <2>1, <2>2 DEF Apart
  <2>6. Live(r)'
    <3>1. r \in DOMAIN caches'
      BY <2>2
    <3>2. CachedAt(states'[r], caches'[r], r \notin lossy') /\ LiveAt(states'[r], r \notin lossy')
      BY <1>4, <2>1, <2>2
    <3> QED
      BY <3>1, <3>2 DEF Live
  <2>7. r \notin DOMAIN streams
    BY <1>2, <1>6 DEF Paths
  <2>8. /\ \A x \in DOMAIN caches' : Manual(x)'
        /\ \A x \in DOMAIN streams' : (~Manual(x))' /\ (streams'[x].raised => x \in broken)
    BY <1>2, <1>5, <1>6, <2>1, <2>2 DEF Paths
  <2>9. /\ DOMAIN caches' \cup DOMAIN streams' \subseteq DOMAIN states'
        /\ DOMAIN caches' \cap DOMAIN streams' = {}
    BY <1>2, <1>4, <2>1, <2>2, <2>7
  <2> QED
    BY <2>3, <2>4, <2>5, <2>6, <2>8, <2>9
<1>7. ASSUME ~Manual(r) PROVE Done
  <2>1. caches' = caches /\ streams' = Plus(streams, r, [made |-> out, raised |-> FALSE])
    BY <1>3, <1>7 DEF Advances
  <2>2. /\ DOMAIN streams' = DOMAIN streams \cup {r}
        /\ streams'[r] = [made |-> out, raised |-> FALSE]
        /\ \A x \in DOMAIN streams \ {r} : streams'[x] = streams[x]
    BY <2>1 DEF Plus
  <2>3. caches' \in [DOMAIN caches' -> Seq(Token)]
    BY <2>1 DEF EInv, TypeOK
  <2>4. streams' \in [DOMAIN streams' -> [made : Seq(Token), raised : BOOLEAN]]
    <3>1. streams \in [DOMAIN streams -> [made : Seq(Token), raised : BOOLEAN]]
      BY DEF EInv, TypeOK
    <3>2. [made |-> out, raised |-> FALSE] \in [made : Seq(Token), raised : BOOLEAN]
      OBVIOUS
    <3> QED
      BY <2>1, <3>1, <3>2, PlusTyped
  <2>5. Apart(r)
    BY <1>4, <2>1, <2>2 DEF Apart
  <2>7. r \notin DOMAIN caches
    BY <1>2, <1>7 DEF Paths
  <2>6. Live(r)'
    <3>1. r \notin DOMAIN caches'
      BY <2>1, <2>7
    <3>2. LiveAt(states'[r], r \notin lossy')
      BY <1>4
    <3>3. Generator(r)' = streams'[r]
      BY <2>2 DEF Generator
    <3>4. Generator(r)'.made = states'[r].out
      <4>1. streams'[r].made = out
        BY <2>2
      <4>2. states'[r].out = out
        BY <1>3, <1>4
      <4> QED
        BY <3>3, <4>1, <4>2, Zenon
    <3> QED
      BY <3>1, <3>2, <3>4 DEF Live
  <2>8. /\ \A x \in DOMAIN caches' : Manual(x)'
        /\ \A x \in DOMAIN streams' : (~Manual(x))' /\ (streams'[x].raised => x \in broken)
    <3>1. \A x \in DOMAIN caches' : Manual(x)'
      BY <1>2, <1>5, <2>1 DEF Paths
    <3>2. ASSUME NEW x \in DOMAIN streams, x # r
          PROVE  (~Manual(x))' /\ (streams'[x].raised => x \in broken)
      BY <1>2, <1>5, <2>2, <3>2 DEF Paths
    <3>3. (~Manual(r))'
      BY <1>5, <1>7
    <3>4. ~streams'[r].raised
      BY <2>2
    <3> QED
      BY <2>2, <3>1, <3>2, <3>3, <3>4
  <2>9. /\ DOMAIN caches' \cup DOMAIN streams' \subseteq DOMAIN states'
        /\ DOMAIN caches' \cap DOMAIN streams' = {}
    <3>1. /\ DOMAIN caches' = DOMAIN caches /\ DOMAIN streams' = DOMAIN streams \cup {r}
          /\ DOMAIN states' = DOMAIN states
      BY <1>4, <2>1, <2>2
    <3>2. /\ DOMAIN caches \subseteq DOMAIN states /\ DOMAIN streams \subseteq DOMAIN states
          /\ DOMAIN caches \cap DOMAIN streams = {}
      BY <1>2
    <3> QED
      BY <2>7, <3>1, <3>2
  <2> QED
    BY <2>3, <2>4, <2>5, <2>6, <2>8, <2>9
<1>8. Done
  BY <1>6, <1>7
<1>9. \A x \in DOMAIN states' : Live(x)'
  BY <1>8, OthersLive
<1>10. RetiredPlain' /\ Len(retired') <= RetiredLimit
  BY RetiredPlainStays
<1>11. TypeOK'
  <2>1. /\ config' \in Configs /\ nextId' \in 0 .. MaxRequests /\ Ids' = Ids
    BY DEF EInv, TypeOK, Ids
  <2>2. lossy' \cup broken' \subseteq Ids
    <3>1. lossy \cup broken \subseteq Ids
      BY DEF EInv, TypeOK
    <3> QED
      BY <1>1, <3>1
  <2> QED
    BY <1>2, <1>4, <1>8, <1>10, <2>1, <2>2 DEF TypeOK, PrefixOK, SpecOK
<1>12. OnlyLiveRequestsHoldCaches'
  BY <1>2, <1>4, <1>8 DEF OnlyLiveRequestsHoldCaches
<1>13. Paths'
  <2>1. config'.speculative \/ config'.kvBits \/ config'.prefixCache => DOMAIN spec' = DOMAIN states'
    BY <1>2, <1>4 DEF Paths
  <2> QED
    BY <1>8, <2>1 DEF Paths
<1> QED
  BY <1>9, <1>10, <1>11, <1>12, <1>13 DEF EInv, PrefixOK

LEMMA PrefixStays ==
  ASSUME EInv, prefix' = prefix
  PROVE  PrefixOK'
BY DEF EInv, TypeOK, PrefixOK, PrefixHoldsPrompts

\* Request r is fed and, by what that came to, retired or advanced.
LEMMA Settles ==
  ASSUME EInv, NEW r \in DOMAIN states, NEW tokens \in Seq(Token), Len(tokens) >= 1,
         NEW manual \in BOOLEAN, manual => OwnsCaches(config),
         manual => Len(states[r].prompt) + Len(states[r].out) <= NCtx,
         NEW f, f = Fed(states[r], tokens, manual),
         NEW c, NEW s, NEW n, Settle(r, f, c, s, n),
         UNCHANGED <<config, nextId>>, PrefixOK', turn' \subseteq DOMAIN states,
         f.reason # "none" => turn' \subseteq DOMAIN states \ {r},
         lossy \subseteq lossy', lossy' \subseteq lossy \cup {r}, broken' = broken,
         states[r].greedy /\ r \notin lossy =>
           Continues(states[r].prompt, states[r].out, tokens),
         f.reason = "none" /\ caches' = c /\ streams' = s /\ spec' = n =>
           /\ SpecOK' /\ DOMAIN spec' = DOMAIN spec
           /\ Advances(r, [states[r] EXCEPT !.out = f.out])
  PROVE  EInv'
<1>1. /\ states[r] \in Requests
      /\ states[r].prompt \in Seq(Token) /\ states[r].out \in Seq(Token)
      /\ states[r].cap \in Nat /\ states[r].greedy \in BOOLEAN
      /\ Live(r)
  BY Typed
<1>2. Len(states[r].out) < states[r].cap
  BY <1>1 DEF Live, LiveAt
<1>3. /\ f.out \in Seq(Token) /\ f.reason \in Reasons
      /\ f.reason = "none" =>
           /\ f.out = states[r].out \o tokens
           /\ Len(f.out) < states[r].cap
           /\ manual => Len(states[r].prompt) + Len(f.out) <= NCtx
           /\ Clean(states[r].out) => Clean(f.out)
  BY <1>1, <1>2, FeedGoesOn
<1>4. ASSUME states[r].greedy, r \notin lossy'
      PROVE  /\ Runs(states[r].prompt, f.out)
             /\ Clean(states[r].out)
             /\ f.reason # "none" =>
                  IsPlainRun(Finished(r, f)) /\ EndsByRule(Finished(r, f), config)
  <2>1. r \notin lossy
    BY <1>4
  <2>2. /\ Runs(states[r].prompt, states[r].out) /\ Clean(states[r].out)
        /\ Continues(states[r].prompt, states[r].out, tokens)
    BY <1>1, <1>4, <2>1 DEF Live, LiveAt
  <2>3. PICK e : e = Finished(r, f)
    OBVIOUS
  <2>4. /\ e.prompt = states[r].prompt /\ e.cap = states[r].cap
        /\ e.out = f.out /\ e.reason = f.reason
    BY <2>3 DEF Finished
  <2>5. /\ Runs(states[r].prompt, f.out)
        /\ f.reason # "none" => IsPlainRun(e) /\ EndsByRule(e, config)
    BY <1>1, <1>2, <2>2, <2>4, FeedEnds, ZenonT(60)
  <2> QED
    BY <2>2, <2>3, <2>5
<1>5. CASE f.reason # "none" /\ Retire(r, f)
  <2>1. f.reason \in Reasons \cup {"cancelled", "error"}
    BY <1>3
  <2>2. states[r].greedy /\ r \notin lossy' \cup broken =>
          IsPlainRun(Finished(r, f)) /\ EndsByRule(Finished(r, f), config)
    BY <1>4, <1>5
  <2>3. turn' \subseteq DOMAIN states \ {r}
    BY <1>5
  <2> QED
    BY <1>3, <1>5, <2>1, <2>2, <2>3, Gone
<1>6. CASE /\ f.reason = "none"
           /\ states' = [states EXCEPT ![r].out = f.out]
           /\ caches' = c /\ streams' = s /\ spec' = n
           /\ UNCHANGED retired
  <2>1. PICK q : q = [states[r] EXCEPT !.out = f.out]
    OBVIOUS
  <2>2. SpecOK' /\ DOMAIN spec' = DOMAIN spec /\ Advances(r, q)
    BY <1>6, <2>1
  <2>3. /\ q.prompt = states[r].prompt /\ q.cap = states[r].cap
        /\ q.greedy = states[r].greedy /\ q.out = f.out
    BY <1>1, <2>1 DEF Requests
  <2>4. Len(f.out) < states[r].cap /\ (Clean(states[r].out) => Clean(f.out))
    BY <1>3, <1>6
  <2>5. LiveAt(q, r \notin lossy')
    BY <1>4, <2>3, <2>4 DEF LiveAt
  <2>6. f.out \in Seq(Token)
    BY <1>3
  <2> QED
    BY <1>6, <2>1, <2>2, <2>5, <2>6, GoesOn
<1> QED
  BY <1>5, <1>6 DEF Settle

-----------------------------------------------------------------------------
(* The actions. *)

LEMMA InitHolds ==
  ASSUME Init
  PROVE  EInv
<1>1. nextId = 0 /\ config \in Configs /\ MaxRequests \in Nat /\ RetiredLimit \in Nat
      /\ PrefixSize \in Nat
  BY MLXAssumption DEF Init
<1>2. /\ states = << >> /\ caches = << >> /\ streams = << >> /\ spec = << >>
      /\ prefix = << >> /\ retired = << >> /\ turn = {} /\ lossy = {} /\ broken = {}
  BY DEF Init
<1>3. DOMAIN << >> = {} /\ Len(<< >>) = 0 /\ \A S : << >> \in Seq(S)
  OBVIOUS
<1>4. TypeOK
  BY <1>1, <1>2, <1>3, Empty DEF TypeOK
<1>5. OnlyLiveRequestsHoldCaches /\ PrefixHoldsPrompts /\ Paths /\ RetiredPlain
  BY <1>1, <1>2, <1>3 DEF OnlyLiveRequestsHoldCaches, PrefixHoldsPrompts, Paths, RetiredPlain
<1> QED
  BY <1>2, <1>3, <1>4, <1>5 DEF EInv

LEMMA Begins ==
  ASSUME EInv, BeginStep
  PROVE  EInv'
<1>1. /\ turn' = DOMAIN states
      /\ UNCHANGED <<config, nextId, states, caches, streams, spec, prefix, retired,
                     lossy, broken>>
  BY DEF BeginStep
<1>2. TypeOK'
  BY <1>1 DEF EInv, TypeOK, Ids
<1>3. OnlyLiveRequestsHoldCaches' /\ PrefixHoldsPrompts' /\ Paths'
  BY <1>1 DEF EInv, OnlyLiveRequestsHoldCaches, PrefixHoldsPrompts, Paths, Manual
<1>4. RetiredPlain'
  BY <1>1, RetiredPlainStays
<1>5. Apart(-1)
  BY <1>1 DEF Apart
<1>6. \A x \in DOMAIN states' : x # -1
  BY <1>1 DEF EInv, TypeOK, Ids
<1>7. \A x \in DOMAIN states' : Live(x)'
  BY <1>5, <1>6, OthersLive
<1> QED
  BY <1>2, <1>3, <1>4, <1>7 DEF EInv

LEMMA Stutters ==
  ASSUME EInv, UNCHANGED vars
  PROVE  EInv'
<1>1. UNCHANGED <<config, nextId, states, caches, streams, spec, prefix, retired, turn,
                  lossy, broken>>
  BY DEF vars
<1>2. TypeOK'
  BY <1>1 DEF EInv, TypeOK, Ids
<1>3. OnlyLiveRequestsHoldCaches' /\ PrefixHoldsPrompts' /\ Paths'
  BY <1>1 DEF EInv, OnlyLiveRequestsHoldCaches, PrefixHoldsPrompts, Paths, Manual
<1>4. RetiredPlain'
  BY <1>1, RetiredPlainStays
<1>5. Apart(-1)
  BY <1>1 DEF Apart
<1>6. \A x \in DOMAIN states' : x # -1
  BY <1>1 DEF EInv, TypeOK, Ids
<1>7. \A x \in DOMAIN states' : Live(x)'
  BY <1>5, <1>6, OthersLive
<1> QED
  BY <1>2, <1>3, <1>4, <1>7 DEF EInv

LEMMA Adds ==
  ASSUME EInv, AddRequest
  PROVE  EInv'
<1>1. /\ turn = {} /\ nextId < MaxRequests /\ nextId' = nextId + 1
      /\ UNCHANGED <<config, caches, streams, prefix, retired, turn, lossy, broken>>
  BY DEF AddRequest
<1>2. PICK p \in Prompts, c \in Caps, g \in BOOLEAN :
        states' = Plus(states, nextId, [prompt |-> p, cap |-> c, greedy |-> g, out |-> << >>])
  BY DEF AddRequest
<1>3. PICK new : new = [prompt |-> p, cap |-> c, greedy |-> g, out |-> << >>]
  OBVIOUS
<1>4. PICK r : r = nextId
  OBVIOUS
<1>5. new \in Requests /\ new.out = << >> /\ new.cap \in Nat /\ new.cap > 0
  <2>1. << >> \in Seq(Token) /\ c \in Nat \ {0}
    BY MLXAssumption
  <2> QED
    BY <1>3, <2>1 DEF Requests
<1>6. r \in Nat /\ MaxRequests \in Nat /\ r + 1 \in 0 .. MaxRequests /\ nextId' = r + 1
  <2>1. nextId \in 0 .. MaxRequests /\ MaxRequests \in Nat
    BY MLXAssumption DEF EInv, TypeOK
  <2> QED
    BY <1>1, <1>4, <2>1
<1>7. Ids' = 0 .. r /\ Ids = 0 .. r - 1
  BY <1>4, <1>6 DEF Ids
<1>8. /\ r \notin Ids /\ r \in Ids' /\ Ids \subseteq Ids'
  BY <1>6, <1>7
<1>9. /\ DOMAIN states \subseteq Ids
      /\ DOMAIN caches \cup DOMAIN streams \cup DOMAIN spec \subseteq DOMAIN states
      /\ states \in [DOMAIN states -> Requests]
  BY DEF EInv, TypeOK, OnlyLiveRequestsHoldCaches
<1>10. r \notin DOMAIN states /\ r \notin DOMAIN caches /\ r \notin DOMAIN streams
       /\ r \notin DOMAIN spec
  BY <1>8, <1>9
<1>11. /\ DOMAIN states' = DOMAIN states \cup {r} /\ states'[r] = new
       /\ \A x \in DOMAIN states \ {r} : states'[x] = states[x]
       /\ states' \in [DOMAIN states' -> Requests]
  <2>1. states' = Plus(states, r, new)
    BY <1>2, <1>3, <1>4
  <2> QED
    BY <1>5, <1>9, <2>1 DEF Plus
<1>12. SpecOK' /\ /\ config.speculative \/ config.kvBits \/ config.prefixCache
                     => DOMAIN spec' = DOMAIN spec \cup {r}
                  /\ ~ (config.speculative \/ config.kvBits \/ config.prefixCache)
                     => DOMAIN spec' = DOMAIN spec
  <2>1. SpecOK
    BY DEF EInv, TypeOK, SpecOK
  <2>2. CASE config.speculative \/ config.kvBits \/ config.prefixCache
    <3>1. PICK z : z = [ok |-> TRUE, drafted |-> 0, accepted |-> 0, recomputes |-> 0]
      OBVIOUS
    <3>2. /\ z \in [ok : BOOLEAN, drafted : Nat, accepted : Nat, recomputes : Nat]
          /\ z.accepted <= z.drafted
      BY <3>1
    <3>3. spec' = Plus(spec, r, z)
      BY <1>4, <2>2, <3>1 DEF AddRequest
    <3>4. DOMAIN spec' = DOMAIN spec \cup {r}
      BY <3>3 DEF Plus
    <3> QED
      BY <2>1, <2>2, <3>2, <3>3, <3>4 DEF Plus, SpecOK
  <2>3. CASE ~ (config.speculative \/ config.kvBits \/ config.prefixCache)
    <3>1. spec' = spec
      BY <2>3 DEF AddRequest
    <3> QED
      BY <2>1, <2>3, <3>1 DEF SpecOK
  <2> QED
    BY <2>2, <2>3
<1>13. RetiredPlain' /\ Len(retired') <= RetiredLimit
  BY <1>1, RetiredPlainStays
<1>14. TypeOK'
  <2>1. /\ config' \in Configs /\ caches' \in [DOMAIN caches' -> Seq(Token)]
        /\ streams' \in [DOMAIN streams' -> [made : Seq(Token), raised : BOOLEAN]]
        /\ prefix' \in Seq([key : Prompts, cache : Seq(Token), base : Token])
        /\ lossy' \cup broken' \subseteq Ids
    BY <1>1 DEF EInv, TypeOK
  <2>2. DOMAIN states' \subseteq Ids'
    BY <1>8, <1>9, <1>11
  <2>3. nextId' \in 0 .. MaxRequests
    BY <1>6
  <2>4. turn' \subseteq DOMAIN states'
    BY <1>1
  <2> QED
    BY <1>8, <1>11, <1>12, <1>13, <2>1, <2>2, <2>3, <2>4 DEF TypeOK, SpecOK
<1>15. OnlyLiveRequestsHoldCaches'
  BY <1>1, <1>9, <1>11, <1>12 DEF EInv, OnlyLiveRequestsHoldCaches
<1>16. PrefixHoldsPrompts'
  BY <1>1, PrefixStays DEF PrefixOK
<1>17. Paths'
  <2>1. \A x \in DOMAIN states : (Manual(x)' <=> Manual(x))
    BY <1>1, <1>10, <1>11 DEF Manual
  <2>2. \A x \in DOMAIN caches' : Manual(x)'
    BY <1>1, <1>9, <2>1 DEF EInv, Paths
  <2>3. \A x \in DOMAIN streams' : (~Manual(x))' /\ (streams'[x].raised => x \in broken')
    BY <1>1, <1>9, <2>1 DEF EInv, Paths
  <2>4. config'.speculative \/ config'.kvBits \/ config'.prefixCache => DOMAIN spec' = DOMAIN states'
    BY <1>1, <1>11, <1>12 DEF EInv, Paths
  <2> QED
    BY <2>2, <2>3, <2>4 DEF Paths
<1>18. Apart(r)
  BY <1>1, <1>11 DEF Apart
<1>19. Live(r)'
  <2>1. LiveAt(new, r \notin lossy')
    <3>1. Len(new.out) = 0
      BY <1>5
    <3>2. Runs(new.prompt, new.out) /\ Clean(new.out)
      BY <3>1 DEF Runs, Clean
    <3> QED
      BY <1>5, <3>1, <3>2 DEF LiveAt
  <2>2. Generator(r)' = [made |-> << >>, raised |-> FALSE]
    BY <1>1, <1>10 DEF Generator
  <2>3. LiveAt(states'[r], r \notin lossy') /\ r \notin DOMAIN caches'
    BY <1>1, <1>10, <1>11, <2>1
  <2>4. Generator(r)'.made = states'[r].out
    BY <1>5, <1>11, <2>2
  <2> QED
    BY <2>3, <2>4 DEF Live
<1>20. \A x \in DOMAIN states' : Live(x)'
  BY <1>18, <1>19, OthersLive
<1> QED
  BY <1>13, <1>14, <1>15, <1>16, <1>17, <1>20 DEF EInv

LEMMA ModelTyped ==
  ASSUME NEW p \in Prompts, NEW c \in Caps, NEW o \in Seq(Token), Len(o) < c
  PROVE  /\ Target(p \o o) \in Token
         /\ \A n \in 0 .. MaxDrafts : \A d \in Drafts(p, o, n) :
              d \in Seq(Token) /\ Len(d) <= n
<1>1. c \in Nat /\ c - 1 \in Nat /\ Len(o) \in Nat /\ Len(o) <= c - 1
  <2>1. c \in Nat /\ Len(o) \in Nat
    BY MLXAssumption, LenProperties
  <2> QED
    BY <2>1
<1>2. o \in BoundedSeq(Token, c - 1)
  BY <1>1, BoundedIs
<1>3. /\ Target(p \o o) \in Token
      /\ \A n \in 0 .. MaxDrafts : Drafts(p, o, n) \subseteq BoundedSeq(Token, n)
  BY <1>2, MLXAssumption
<1>4. ASSUME NEW n \in 0 .. MaxDrafts, NEW d \in Drafts(p, o, n)
      PROVE  d \in Seq(Token) /\ Len(d) <= n
  <2>1. d \in BoundedSeq(Token, n) /\ n \in Nat
    BY <1>3
  <2> QED
    BY <2>1, BoundedIs
<1> QED
  BY <1>3, <1>4

LEMMA ContinuesOne ==
  ASSUME NEW p, NEW o \in Seq(Token), NEW t \in Token, t = Target(p \o o)
  PROVE  Continues(p, o, <<t>>)
<1>1. PICK s : s = <<t>>
  OBVIOUS
<1>2. s \in Seq(Token) /\ Len(s) = 1 /\ s[1] = t
  BY <1>1
<1>3. 0 \in 0 .. Len(s)
  BY <1>2
<1>4. PICK b : b = Begin(s, 0)
  OBVIOUS
<1>5. b \in Seq(Token) /\ Len(b) = 0
  BY <1>2, <1>3, <1>4, BeginIs
<1>6. b = << >>
  BY <1>5, EmptySeq
<1>7. o \o << >> = o
  BY ConcatEmptySeq
<1>8. ASSUME NEW i \in 1 .. Len(s) PROVE s[i] = Target(p \o (o \o Begin(s, i - 1)))
  <2>1. i = 1 /\ i - 1 = 0
    BY <1>2
  <2>2. o \o Begin(s, i - 1) = o
    BY <1>4, <1>6, <1>7, <2>1
  <2> QED
    BY <1>2, <2>1, <2>2
<1>9. Continues(p, o, s)
  BY <1>8 DEF Continues
<1> QED
  BY <1>1, <1>9

\* A live request's output, as a finished record would have it.
LEMMA PlainSoFar ==
  ASSUME EInv, NEW r \in DOMAIN states, states[r].greedy, r \notin lossy,
         NEW e, e.prompt = states[r].prompt, e.cap = states[r].cap, e.out = states[r].out
  PROVE  IsPlainRun(e) /\ PlainEnd(e) = IF Target(e.prompt \o e.out) = Eog THEN "eog" ELSE "none"
<1>1. /\ Live(r) /\ states[r].out \in Seq(Token) /\ states[r].cap \in Nat
  BY Typed
<1>2. /\ Len(states[r].out) < states[r].cap
      /\ Runs(states[r].prompt, states[r].out) /\ Clean(states[r].out)
  BY <1>1 DEF Live, LiveAt
<1>3. Len(states[r].out) \in Nat
  BY <1>1, LenProperties
<1>4. Len(e.out) <= e.cap
  BY <1>1, <1>2, <1>3
<1>5. \A i \in 1 .. Len(e.out) : e.out[i] = Target(e.prompt \o SubSeq(e.out, 1, i - 1))
  BY <1>2 DEF Runs, Begin
<1>6. \A i \in 1 .. Len(e.out) - 1 : e.out[i] \notin {Eog, Stop}
  BY <1>2, <1>3 DEF Clean
<1>7. PlainEnd(e) = IF Target(e.prompt \o e.out) = Eog THEN "eog" ELSE "none"
  <2>1. e.out \in Seq(Token) /\ e.cap \in Nat /\ Len(e.out) < e.cap /\ Clean(e.out)
    BY <1>1, <1>2
  <2> QED
    BY <2>1, NotOver
<1> QED
  BY <1>4, <1>5, <1>6, <1>7 DEF IsPlainRun

\* A request that ends before it is fed again.
LEMMA Aborted ==
  ASSUME EInv, NEW r \in DOMAIN states, NEW reason \in {"cancelled", "error"},
         Retire(r, Stopped(r, reason)),
         UNCHANGED <<config, nextId, prefix, lossy, broken>>,
         turn' \subseteq DOMAIN states \ {r}
  PROVE  EInv'
<1>1. PICK f : f = Stopped(r, reason)
  OBVIOUS
<1>2. /\ f.out = states[r].out /\ f.reason = reason
      /\ states[r].out \in Seq(Token)
  BY <1>1, Typed DEF Stopped
<1>3. PICK e : e = Finished(r, f)
  OBVIOUS
<1>4. /\ e.prompt = states[r].prompt /\ e.cap = states[r].cap
      /\ e.out = states[r].out /\ e.reason = reason
  BY <1>2, <1>3 DEF Finished
<1>5. ASSUME states[r].greedy, r \notin lossy PROVE IsPlainRun(e) /\ EndsByRule(e, config)
  <2>1. IsPlainRun(e)
    BY <1>4, <1>5, PlainSoFar
  <2>2. EndsByRule(e, config)
    BY <1>4 DEF EndsByRule
  <2> QED
    BY <2>1, <2>2
<1>6. PrefixOK'
  BY PrefixStays
<1>7. f.out \in Seq(Token) /\ f.reason \in Reasons \cup {"cancelled", "error"}
  BY <1>2
<1>8. Retire(r, f)
  BY <1>1
<1>9. states[r].greedy /\ r \notin lossy' \cup broken =>
        IsPlainRun(Finished(r, f)) /\ EndsByRule(Finished(r, f), config)
  BY <1>3, <1>5
<1> QED
  BY <1>6, <1>7, <1>8, <1>9, Gone

LEMMA Cancels ==
  ASSUME EInv, NEW r \in DOMAIN states, Cancel(r)
  PROVE  EInv'
<1>1. turn' = {} /\ Retire(r, Stopped(r, "cancelled"))
      /\ UNCHANGED <<config, nextId, prefix, lossy, broken>>
  BY DEF Cancel
<1> QED
  BY <1>1, Aborted

LEMMA Raises ==
  ASSUME EInv, NEW r \in DOMAIN states, ManualRaises(r),
         UNCHANGED <<config, nextId, prefix, lossy, broken>>
  PROVE  EInv'
<1>1. turn' = {} /\ Retire(r, Stopped(r, "error"))
  BY DEF ManualRaises
<1> QED
  BY <1>1, Aborted

LEMMA ManualIs ==
  ASSUME EInv, NEW r \in DOMAIN states
  PROVE  UseManual(r) <=> Manual(r)
BY DEF EInv, Paths, UseManual, Manual

\* The stream path: an exhausted generator, or one more token.
LEMMA Streams ==
  ASSUME EInv, NEW r \in DOMAIN states, ~UseManual(r), StepStream(r),
         turn \subseteq DOMAIN states, UNCHANGED <<config, nextId, prefix, lossy, broken>>
  PROVE  EInv'
<1>1. /\ states[r] \in Requests
      /\ states[r].prompt \in Prompts /\ states[r].prompt \in Seq(Token)
      /\ states[r].cap \in Caps /\ states[r].cap \in Nat
      /\ states[r].greedy \in BOOLEAN /\ states[r].out \in Seq(Token) /\ Live(r)
  BY Typed
<1>2. ~Manual(r) /\ r \notin DOMAIN caches
  BY ManualIs DEF EInv, Paths
<1>3. /\ Generator(r).made = states[r].out
      /\ Len(states[r].out) < states[r].cap
      /\ Len(states[r].out) \in Nat
  BY <1>1, <1>2, LenProperties DEF Live, LiveAt
<1>4. Generator(r).raised => r \in broken
  BY DEF EInv, Paths, Generator
<1>5. turn' = turn \ {r}
  BY DEF StepStream
<1>6. PrefixOK' /\ turn' \subseteq DOMAIN states /\ turn' \subseteq DOMAIN states \ {r}
  BY <1>5, PrefixStays
<1>7. CASE /\ Generator(r).raised \/ Eog \in Yields(r)
           /\ Retire(r, Stopped(r, IF Len(states[r].out) >= states[r].cap THEN "length" ELSE "eog"))
  <2>1. PICK f : f = Stopped(r, IF Len(states[r].out) >= states[r].cap THEN "length" ELSE "eog")
    OBVIOUS
  <2>2. ~ (Len(states[r].out) >= states[r].cap)
    BY <1>1, <1>3
  <2>3. f.out = states[r].out /\ f.reason = "eog"
    BY <2>1, <2>2 DEF Stopped
  <2>4. PICK e : e = Finished(r, f)
    OBVIOUS
  <2>5. /\ e.prompt = states[r].prompt /\ e.cap = states[r].cap
        /\ e.out = states[r].out /\ e.reason = "eog"
    BY <2>3, <2>4 DEF Finished
  <2>6. ASSUME states[r].greedy, r \notin lossy, r \notin broken
        PROVE  IsPlainRun(e) /\ EndsByRule(e, config)
    <3>1. /\ IsPlainRun(e)
          /\ PlainEnd(e) = IF Target(e.prompt \o e.out) = Eog THEN "eog" ELSE "none"
      BY <2>5, <2>6, PlainSoFar
    <3>2. Eog \in Yields(r)
      BY <1>4, <1>7, <2>6
    <3>3. Eog = Target(states[r].prompt \o states[r].out)
      BY <1>3, <2>6, <3>2 DEF Yields
    <3>4. EndsByRule(e, config)
      BY <2>5, <3>1, <3>3 DEF EndsByRule
    <3> QED
      BY <3>1, <3>4
  <2>7. f.out \in Seq(Token) /\ f.reason \in Reasons \cup {"cancelled", "error"}
    BY <1>1, <2>3 DEF Reasons
  <2>8. Retire(r, f)
    BY <1>7, <2>1
  <2>9. states[r].greedy /\ r \notin lossy' \cup broken =>
          IsPlainRun(Finished(r, f)) /\ EndsByRule(Finished(r, f), config)
    BY <2>4, <2>6
  <2> QED
    BY <1>6, <2>7, <2>8, <2>9, Gone
<1>8. ASSUME NEW t \in Yields(r) \ {Eog}, ~Generator(r).raised,
             Settle(r, Fed(states[r], <<t>>, FALSE), caches,
                    Plus(streams, r, [made |-> Append(Generator(r).made, t),
                                      raised |-> FALSE]), spec)
      PROVE  EInv'
  <2>1. t \in Token /\ (states[r].greedy => t = Target(states[r].prompt \o states[r].out))
    <3>1. Target(states[r].prompt \o states[r].out) \in Token
      BY <1>1, <1>3, ModelTyped
    <3> QED
      BY <1>3, <3>1 DEF Yields
  <2>2. PICK s : s = <<t>>
    OBVIOUS
  <2>3. s \in Seq(Token) /\ Len(s) >= 1
    BY <2>1, <2>2
  <2>4. states[r].greedy => Continues(states[r].prompt, states[r].out, s)
    BY <1>1, <2>1, <2>2, ContinuesOne
  <2>5. PICK f : f = Fed(states[r], s, FALSE)
    OBVIOUS
  <2>6. PICK g : g = Plus(streams, r, [made |-> Append(Generator(r).made, t), raised |-> FALSE])
    OBVIOUS
  <2>7. ASSUME f.reason = "none", caches' = caches, streams' = g, spec' = spec
        PROVE  /\ SpecOK' /\ DOMAIN spec' = DOMAIN spec
               /\ Advances(r, [states[r] EXCEPT !.out = f.out])
    <3>1. SpecOK' /\ DOMAIN spec' = DOMAIN spec
      BY <2>7 DEF EInv, TypeOK, SpecOK
    <3>2. f.out = states[r].out \o s
      BY <1>1, <1>3, <2>3, <2>5, <2>7, FeedGoesOn
    <3>3. Append(Generator(r).made, t) = states[r].out \o s
      <4>1. Append(states[r].out, t) = states[r].out \o <<t>>
        BY <1>1, <2>1, AppendIsConcat
      <4> QED
        BY <1>3, <2>2, <4>1
    <3>4. streams' = Plus(streams, r, [made |-> f.out, raised |-> FALSE])
      BY <2>6, <2>7, <3>2, <3>3
    <3>5. [states[r] EXCEPT !.out = f.out].out = f.out
      BY <1>1 DEF Requests
    <3>6. Advances(r, [states[r] EXCEPT !.out = f.out])
      BY <1>2, <2>7, <3>4, <3>5 DEF Advances
    <3> QED
      BY <3>1, <3>6
  <2>8. Settle(r, f, caches, g, spec)
    BY <1>8, <2>2, <2>5, <2>6
  <2>9. /\ FALSE \in BOOLEAN
        /\ FALSE => OwnsCaches(config)
        /\ FALSE => Len(states[r].prompt) + Len(states[r].out) <= NCtx
        /\ f.reason # "none" => turn' \subseteq DOMAIN states \ {r}
        /\ lossy \subseteq lossy' /\ lossy' \subseteq lossy \cup {r}
        /\ states[r].greedy /\ r \notin lossy =>
             Continues(states[r].prompt, states[r].out, s)
    BY <1>6, <2>4
  <2> QED
    BY <1>6, <2>3, <2>5, <2>7, <2>8, <2>9, Settles
<1> QED
  BY <1>7, <1>8 DEF StepStream

\* A generator that raises retires nobody: it is exhausted from then on, or was
\* never made.
LEMMA StreamsRaise ==
  ASSUME EInv, NEW r \in DOMAIN states, ~UseManual(r), StreamRaises(r),
         UNCHANGED <<config, nextId, prefix, lossy>>
  PROVE  EInv'
<1>1. /\ states[r] \in Requests /\ states[r].out \in Seq(Token) /\ r \in Ids /\ Live(r)
  BY Typed
<1>2. ~Manual(r) /\ r \notin DOMAIN caches
  BY ManualIs DEF EInv, Paths
<1>3. Generator(r).made = states[r].out
  BY <1>1, <1>2 DEF Live
<1>4. /\ ~Generator(r).raised /\ broken' = broken \cup {r} /\ turn' = {}
      /\ UNCHANGED <<states, caches, spec, retired>>
  BY DEF StreamRaises
<1>5. PICK g : g = [Generator(r) EXCEPT !.raised = TRUE]
  OBVIOUS
<1>6. Generator(r) \in [made : Seq(Token), raised : BOOLEAN]
  <2>1. << >> \in Seq(Token)
    OBVIOUS
  <2>2. streams \in [DOMAIN streams -> [made : Seq(Token), raised : BOOLEAN]]
    BY DEF EInv, TypeOK
  <2> QED
    BY <2>1, <2>2 DEF Generator
<1>7. g \in [made : Seq(Token), raised : BOOLEAN] /\ g.made = states[r].out
  BY <1>3, <1>5, <1>6
<1> DEFINE Done ==
             /\ streams' \in [DOMAIN streams' -> [made : Seq(Token), raised : BOOLEAN]]
             /\ \A x \in DOMAIN streams \ {r} : x \in DOMAIN streams' /\ streams'[x] = streams[x]
             /\ DOMAIN streams' \subseteq DOMAIN streams \cup {r}
             /\ r \in DOMAIN streams' => streams'[r].made = states[r].out
             /\ r \notin DOMAIN streams' => states[r].out = << >>
<1>8. Done
  <2>0. streams \in [DOMAIN streams -> [made : Seq(Token), raised : BOOLEAN]]
    BY DEF EInv, TypeOK
  <2>1. CASE streams' = streams
    BY <1>3, <2>0, <2>1 DEF Generator
  <2>2. CASE streams' = Plus(streams, r, g)
    BY <1>7, <2>0, <2>2 DEF Plus
  <2> QED
    BY <1>5, <2>1, <2>2 DEF StreamRaises
<1>9. RetiredPlain' /\ Len(retired') <= RetiredLimit
  BY <1>4, RetiredPlainStays
<1>10. TypeOK'
  <2>1. lossy' \cup broken' \subseteq Ids' /\ Ids' = Ids
    BY <1>1, <1>4 DEF EInv, TypeOK, Ids
  <2>2. turn' \subseteq DOMAIN states'
    BY <1>4
  <2> QED
    BY <1>4, <1>8, <1>9, <2>1, <2>2 DEF EInv, TypeOK
<1>11. OnlyLiveRequestsHoldCaches'
  BY <1>2, <1>4, <1>8 DEF EInv, OnlyLiveRequestsHoldCaches
<1>12. PrefixHoldsPrompts'
  BY PrefixStays DEF PrefixOK
<1>13. Paths'
  <2>1. \A x \in DOMAIN states : (Manual(x)' <=> Manual(x))
    BY <1>4 DEF Manual
  <2>2. /\ \A x \in DOMAIN caches : Manual(x)
        /\ \A x \in DOMAIN streams : ~Manual(x) /\ (streams[x].raised => x \in broken)
        /\ DOMAIN caches \cup DOMAIN streams \subseteq DOMAIN states
    BY DEF EInv, Paths, OnlyLiveRequestsHoldCaches
  <2>3. \A x \in DOMAIN caches' : Manual(x)'
    BY <1>4, <2>1, <2>2
  <2>4. ASSUME NEW x \in DOMAIN streams' PROVE (~Manual(x))' /\ (streams'[x].raised => x \in broken')
    <3>1. CASE x = r
      BY <1>2, <1>4, <2>1, <3>1
    <3>2. CASE x # r
      <4>1. x \in DOMAIN streams /\ streams'[x] = streams[x]
        BY <1>8, <2>4, <3>2
      <4> QED
        BY <1>4, <2>1, <2>2, <4>1
    <3> QED
      BY <3>1, <3>2
  <2>5. config'.speculative \/ config'.kvBits \/ config'.prefixCache => DOMAIN spec' = DOMAIN states'
    BY <1>4 DEF EInv, Paths
  <2> QED
    BY <2>3, <2>4, <2>5 DEF Paths
<1>14. Apart(r)
  BY <1>4, <1>8 DEF Apart
<1>15. Live(r)'
  <2>1. LiveAt(states'[r], r \notin lossy') /\ r \notin DOMAIN caches'
    BY <1>1, <1>2, <1>4 DEF Live
  <2>2. Generator(r)'.made = states'[r].out
    BY <1>4, <1>8 DEF Generator
  <2> QED
    BY <2>1, <2>2 DEF Live
<1>16. \A x \in DOMAIN states' : Live(x)'
  BY <1>14, <1>15, OthersLive
<1> QED
  BY <1>9, <1>10, <1>11, <1>12, <1>13, <1>16 DEF EInv

-----------------------------------------------------------------------------
(* The prompt cache. *)

Entries == [key : Prompts, cache : Seq(Token), base : Token]

\* Entries under different prompts, each a snapshot at its prompt's boundary.
Faithful(s) ==
  /\ \A i, j \in DOMAIN s : s[i].key = s[j].key => i = j
  /\ \A i \in DOMAIN s : s[i].cache = s[i].key /\ s[i].base = Target(s[i].key)


LEMMA EntriesWindow ==
  ASSUME NEW w \in Seq(Entries), NEW n \in Nat, NEW x, x = Newest(w, n)
  PROVE  /\ x \in Seq(Entries) /\ Len(x) <= n
         /\ \E d \in Nat : Len(x) + d <= Len(w) /\ \A a \in 1 .. Len(x) : x[a] = w[d + a]
BY NewestIs

\* x is the end of the list w, no longer than the prompt cache.
EndOf(x, w) ==
  /\ x \in Seq(Entries) /\ Len(x) <= PrefixSize
  /\ \E d \in Nat : Len(x) + d <= Len(w) /\ \A a \in 1 .. Len(x) : x[a] = w[d + a]

LEMMA PrefixWindow ==
  \A w \in Seq(Entries) : \A x : x = Newest(w, PrefixSize) => EndOf(x, w)
<1>1. PrefixSize \in Nat
  BY MLXAssumption
<1> QED
  BY <1>1, EntriesWindow DEF EndOf

\* A hit moves its entry to the newest end.
LEMMA Refreshed ==
  ASSUME NEW s \in Seq(Entries), Faithful(s), NEW i \in DOMAIN s
  PROVE  /\ Append(RemoveAt(s, i), s[i]) \in Seq(Entries)
         /\ Len(Append(RemoveAt(s, i), s[i])) = Len(s)
         /\ Faithful(Append(RemoveAt(s, i), s[i]))
<1>1. /\ Len(s) \in Nat /\ DOMAIN s = 1 .. Len(s) /\ i \in 1 .. Len(s)
      /\ \A a \in 1 .. Len(s) : s[a] \in Entries
  BY LenProperties, ElementOfSeq
<1>0. Len(s) \in Nat /\ i \in Nat /\ 1 <= i /\ i <= Len(s)
  BY <1>1
<1>2. PICK u : u = SubSeq(s, 1, i - 1)
  OBVIOUS
<1>3. u \in Seq(Entries) /\ Len(u) = i - 1 /\ \A a \in 1 .. i - 1 : u[a] = s[a]
  <2>1. i - 1 \in 0 .. Len(s)
    BY <1>1
  <2> QED
    BY <1>2, <2>1, BeginIs DEF Begin
<1>4. PICK v : v = SubSeq(s, i + 1, Len(s))
  OBVIOUS
<1>5. v \in Seq(Entries) /\ Len(v) = Len(s) - i /\ \A a \in 1 .. Len(s) - i : v[a] = s[i + a]
  <2>1. /\ i + 1 \in Int /\ Len(s) \in Int
        /\ \A a \in i + 1 .. Len(s) : s[a] \in Entries
    BY <1>1
  <2>2. /\ v \in Seq(Entries)
        /\ Len(v) = IF i + 1 <= Len(s) THEN Len(s) - (i + 1) + 1 ELSE 0
        /\ \A a \in 1 .. Len(s) - (i + 1) + 1 : v[a] = s[i + 1 + a - 1]
    BY <1>4, <2>1, SubSeqProperties
  <2>3. /\ Len(s) - (i + 1) + 1 = Len(s) - i
        /\ (IF i + 1 <= Len(s) THEN Len(s) - (i + 1) + 1 ELSE 0) = Len(s) - i
        /\ \A a \in 1 .. Len(s) - i : i + 1 + a - 1 = i + a
    BY <1>1
  <2> QED
    BY <2>2, <2>3
<1>6. PICK w : w = u \o v
  OBVIOUS
<1>7. /\ w \in Seq(Entries) /\ Len(w) = Len(s) - 1
      /\ \A a \in 1 .. i - 1 : w[a] = s[a]
      /\ \A a \in i .. Len(s) - 1 : w[a] = s[a + 1]
  <2>1. u \in Seq(Entries) /\ v \in Seq(Entries)
    BY <1>3, <1>5
  <2>2. /\ w \in Seq(Entries) /\ Len(w) = Len(u) + Len(v)
        /\ \A a \in 1 .. Len(u) : w[a] = u[a]
        /\ \A a \in 1 .. Len(v) : w[Len(u) + a] = v[a]
    BY <1>6, <2>1, JoinedIs
  <2>3. ASSUME NEW a \in i .. Len(s) - 1 PROVE w[a] = s[a + 1]
    <3>1. PICK c \in 1 .. Len(s) - i : c = a - (i - 1)
      BY <1>1
    <3>2. Len(u) + c = a /\ i + c = a + 1 /\ c \in 1 .. Len(v)
      <4>1. i - 1 + c = a /\ i + c = a + 1
        BY <1>0, <3>1
      <4> QED
        BY <1>3, <1>5, <4>1
    <3>3. w[Len(u) + c] = v[c] /\ v[c] = s[i + c]
      BY <1>5, <2>2, <3>1, <3>2
    <3> QED
      BY <3>2, <3>3
  <2>4. Len(w) = Len(s) - 1
    BY <1>1, <1>3, <1>5, <2>2
  <2> QED
    BY <1>3, <2>2, <2>3, <2>4
<1>8. PICK x : x = Append(w, s[i])
  OBVIOUS
<1>9. /\ x \in Seq(Entries) /\ Len(x) = Len(s) /\ x[Len(s)] = s[i]
      /\ \A a \in 1 .. Len(s) - 1 : x[a] = w[a]
  <2>1. /\ x \in Seq(Entries) /\ Len(x) = Len(w) + 1 /\ x[Len(w) + 1] = s[i]
        /\ \A a \in 1 .. Len(w) : x[a] = w[a]
    <3>1. w \in Seq(Entries) /\ s[i] \in Entries
      BY <1>1, <1>7
    <3> QED
      BY <1>8, <3>1, AppendProperties
  <2>2. Len(w) + 1 = Len(s)
    BY <1>0, <1>7
  <2> QED
    BY <1>7, <2>1, <2>2
<1> DEFINE h(a) == IF a = Len(s) THEN i ELSE IF a < i THEN a ELSE a + 1
<1>10. DOMAIN x = 1 .. Len(s)
  BY <1>9, LenProperties
<1>11. ASSUME NEW a \in 1 .. Len(s) PROVE h(a) \in 1 .. Len(s) /\ x[a] = s[h(a)]
  <2>1. CASE a = Len(s)
    BY <1>1, <1>9, <2>1
  <2>2. CASE a # Len(s) /\ a < i
    <3>1. a \in 1 .. Len(s) - 1 /\ a \in 1 .. i - 1
      BY <1>0, <2>2
    <3> QED
      BY <1>7, <1>9, <2>2, <3>1
  <2>3. CASE a # Len(s) /\ ~ (a < i)
    <3>1. a \in 1 .. Len(s) - 1 /\ a \in i .. Len(s) - 1 /\ a + 1 \in 1 .. Len(s)
      BY <1>0, <2>3
    <3> QED
      BY <1>7, <1>9, <2>3, <3>1
  <2> QED
    BY <2>1, <2>2, <2>3
<1>12. ASSUME NEW a \in 1 .. Len(s), NEW b \in 1 .. Len(s), h(a) = h(b) PROVE a = b
  BY <1>0, <1>12
<1>13. Faithful(x)
  <2>1. /\ \A a \in DOMAIN x : h(a) \in DOMAIN s /\ x[a] = s[h(a)]
        /\ \A a, b \in DOMAIN x : h(a) = h(b) => a = b
    BY <1>1, <1>10, <1>11, <1>12
  <2>2. x \in Seq(Entries)
    BY <1>9
  <2> HIDE DEF h
  <2> QED
    BY <2>1, <2>2 DEF Faithful
<1>14. RemoveAt(s, i) = w
  BY <1>2, <1>4, <1>6 DEF RemoveAt
<1> QED
  BY <1>8, <1>9, <1>13, <1>14

\* The newest entries of a faithful list are one.
LEMMA FaithfulTail ==
  ASSUME NEW w \in Seq(Entries), Faithful(w)
  PROVE  \A x : x = Newest(w, PrefixSize) =>
           x \in Seq(Entries) /\ Len(x) <= PrefixSize /\ Faithful(x)
<1> SUFFICES ASSUME NEW x, x = Newest(w, PrefixSize)
             PROVE  x \in Seq(Entries) /\ Len(x) <= PrefixSize /\ Faithful(x)
  OBVIOUS
<1>1. /\ x \in Seq(Entries) /\ Len(x) <= PrefixSize
      /\ \E d \in Nat : Len(x) + d <= Len(w) /\ \A a \in 1 .. Len(x) : x[a] = w[d + a]
  <2>1. EndOf(x, w)
    BY PrefixWindow, Zenon
  <2> QED
    BY <2>1 DEF EndOf
<1>2. PICK d \in Nat : Len(x) + d <= Len(w) /\ \A a \in 1 .. Len(x) : x[a] = w[d + a]
  BY <1>1
<1>3. /\ Len(x) \in Nat /\ DOMAIN x = 1 .. Len(x)
      /\ Len(w) \in Nat /\ DOMAIN w = 1 .. Len(w)
  BY <1>1, LenProperties
<1>4. ASSUME NEW a \in DOMAIN x PROVE d + a \in DOMAIN w /\ x[a] = w[d + a]
  BY <1>2, <1>3
<1>5. \A a, b \in DOMAIN x : d + a = d + b => a = b
  BY <1>3
<1>6. Faithful(x)
  BY <1>4, <1>5 DEF Faithful
<1> QED
  BY <1>1, <1>6

\* A new entry joins, and the oldest ones leave.
LEMMA Remembered ==
  ASSUME NEW s \in Seq(Entries), Faithful(s), NEW y \in Entries,
         y.cache = y.key, y.base = Target(y.key), \A a \in DOMAIN s : s[a].key # y.key
  PROVE  /\ Newest(Append(s, y), PrefixSize) \in Seq(Entries)
         /\ Len(Newest(Append(s, y), PrefixSize)) <= PrefixSize
         /\ Faithful(Newest(Append(s, y), PrefixSize))
<1>1. PrefixSize \in Nat /\ Len(s) \in Nat /\ DOMAIN s = 1 .. Len(s)
  BY MLXAssumption, LenProperties
<1>2. PICK w : w = Append(s, y)
  OBVIOUS
<1>3. /\ w \in Seq(Entries) /\ Len(w) = Len(s) + 1 /\ w[Len(s) + 1] = y
      /\ \A a \in 1 .. Len(s) : w[a] = s[a]
  BY <1>2, AppendProperties
<1>4. w \in Seq(Entries) /\ DOMAIN w = 1 .. Len(s) + 1
  BY <1>3, LenProperties
<1>5. ASSUME NEW a \in DOMAIN w
      PROVE  \/ a \in DOMAIN s /\ w[a] = s[a]
             \/ a = Len(s) + 1 /\ w[a] = y
  BY <1>1, <1>3, <1>4
<1>6. Faithful(w)
  <2>1. ASSUME NEW a \in DOMAIN w, NEW b \in DOMAIN w, w[a].key = w[b].key PROVE a = b
    BY <1>5, <2>1 DEF Faithful
  <2>2. ASSUME NEW a \in DOMAIN w PROVE w[a].cache = w[a].key /\ w[a].base = Target(w[a].key)
    BY <1>5 DEF Faithful
  <2> QED
    BY <2>1, <2>2 DEF Faithful
<1>7. PICK x : x = Newest(w, PrefixSize)
  OBVIOUS
<1>8. x \in Seq(Entries) /\ Len(x) <= PrefixSize /\ Faithful(x)
  BY <1>4, <1>6, <1>7, FaithfulTail
<1> QED
  BY <1>2, <1>7, <1>8

LEMMA EmptyJoined ==
  ASSUME NEW S, NEW p \in Seq(S)
  PROVE  p \o << >> = p /\ << >> \o p = p
BY ConcatEmptySeq

\* Without its last token a sequence with one more is the sequence.
LEMMA FrontOfAppend ==
  ASSUME NEW S, NEW p \in Seq(S), NEW t \in S
  PROVE  Front(Append(p, t)) = p
<1>1. PICK x : x = Append(p, t)
  OBVIOUS
<1>2. /\ x \in Seq(S) /\ Len(x) = Len(p) + 1 /\ \A i \in 1 .. Len(p) : x[i] = p[i]
      /\ Len(p) \in Nat
  BY <1>1, AppendProperties, LenProperties
<1>3. Len(x) - 1 = Len(p) /\ Len(p) \in 0 .. Len(x)
  BY <1>2
<1>4. PICK b : b = Begin(x, Len(p))
  OBVIOUS
<1>5. b \in Seq(S) /\ Len(b) = Len(p) /\ \A i \in 1 .. Len(p) : b[i] = x[i]
  BY <1>2, <1>3, <1>4, BeginIs
<1>6. b = p
  BY <1>2, <1>5, SeqEqual
<1>7. Front(x) = b
  BY <1>3, <1>4 DEF Front, Begin
<1> QED
  BY <1>1, <1>6, <1>7

\* _start_spec: the cache it makes ends at the prompt, and its token follows the
\* prompt, whether both come from the prompt cache or from a prefill.
LEMMA Starts ==
  ASSUME EInv, NEW r \in DOMAIN states, UseManual(r), r \notin DOMAIN caches, StartSpec(r),
         turn \subseteq DOMAIN states, UNCHANGED <<config, nextId, lossy, broken>>
  PROVE  EInv'
<1>1. /\ states[r] \in Requests
      /\ states[r].prompt \in Prompts /\ states[r].prompt \in Seq(Token)
      /\ states[r].cap \in Caps /\ states[r].cap \in Nat
      /\ states[r].greedy \in BOOLEAN /\ states[r].out \in Seq(Token) /\ Live(r)
  BY Typed
<1>2. Manual(r) /\ r \notin DOMAIN streams
  BY ManualIs DEF EInv, Paths
<1>3. states[r].out = << >>
  <2>1. Generator(r).made = states[r].out
    BY <1>1 DEF Live
  <2>2. Generator(r).made = << >>
    BY <1>2 DEF Generator
  <2> QED
    BY <2>1, <2>2
<1>4. Len(states[r].out) = 0 /\ 0 < states[r].cap
  <2>1. Len(states[r].out) = 0
    BY <1>3
  <2>2. Len(states[r].out) < states[r].cap
    BY <1>1 DEF Live, LiveAt
  <2> QED
    BY <2>1, <2>2
<1>5. PICK key : key = states[r].prompt
  OBVIOUS
<1>6. key \in Prompts /\ key \in Seq(Token) /\ Len(key) \in Nat /\ Len(key) <= NCtx - 1
      /\ NCtx \in Nat
  BY <1>1, <1>5, MLXAssumption, LenProperties
<1>7. Target(key) \in Token
  <2>1. << >> \in Seq(Token) /\ Len(<< >>) < states[r].cap
    BY <1>4
  <2>2. Target(key \o << >>) \in Token
    BY <1>1, <1>6, <2>1, ModelTyped
  <2> QED
    BY <1>6, <2>2, EmptyJoined
<1>8. prefix \in Seq(Entries) /\ Faithful(prefix) /\ Len(prefix) <= PrefixSize
  BY DEF EInv, TypeOK, PrefixHoldsPrompts, Entries, Faithful
<1> DEFINE known == config.prefixCache /\ \E j \in DOMAIN prefix : prefix[j].key = key
           i == Position(key)
           base == IF known THEN prefix[i].base ELSE Target(key)
           held == IF known THEN prefix[i].cache ELSE key
           fed == Fed(states[r], <<base>>, TRUE)
<1>9. known => i \in DOMAIN prefix /\ prefix[i].key = key
  BY DEF Position
<1>10. base = Target(key) /\ held = key
  <2>1. CASE known
    <3>1. prefix[i].cache = prefix[i].key /\ prefix[i].base = Target(prefix[i].key)
      BY <1>8, <1>9, <2>1 DEF Faithful
    <3> QED
      BY <1>9, <2>1, <3>1
  <2>2. CASE ~known
    BY <2>2
  <2> QED
    BY <2>1, <2>2
<1>11. /\ Settle(r, fed, Plus(caches, r, held), streams, spec)
       /\ prefix' = IF known THEN Append(RemoveAt(prefix, i), prefix[i])
                    ELSE IF config.prefixCache /\ Len(key) >= MinPrefix
                    THEN Newest(Append(prefix, Snapshot(key, base)), PrefixSize)
                    ELSE prefix
       /\ turn' = IF fed.reason = "none" THEN turn ELSE turn \ {r}
  BY <1>5 DEF StartSpec
<1> HIDE DEF known, i, base, held, fed
<1>12. prefix' \in Seq(Entries) /\ Len(prefix') <= PrefixSize /\ Faithful(prefix)'
  <2>1. CASE known
    <3>1. i \in DOMAIN prefix /\ prefix' = Append(RemoveAt(prefix, i), prefix[i])
      BY <1>9, <1>11, <2>1
    <3>2. PICK x : x = Append(RemoveAt(prefix, i), prefix[i])
      OBVIOUS
    <3>3. x \in Seq(Entries) /\ Len(x) = Len(prefix) /\ Faithful(x)
      BY <1>8, <3>1, <3>2, Refreshed
    <3>4. prefix' = x
      BY <3>1, <3>2
    <3> QED
      BY <1>8, <3>3, <3>4 DEF Faithful
  <2>2. CASE ~known /\ config.prefixCache /\ Len(key) >= MinPrefix
    <3>1. PICK y : y = Snapshot(key, base)
      OBVIOUS
    <3>2. y \in Entries /\ y.key = key /\ y.cache = y.key /\ y.base = Target(y.key)
      BY <1>6, <1>7, <1>10, <3>1 DEF Snapshot, Entries
    <3>3. \A a \in DOMAIN prefix : prefix[a].key # y.key
      BY <2>2, <3>2 DEF known
    <3>4. PICK x : x = Newest(Append(prefix, y), PrefixSize)
      OBVIOUS
    <3>5. x \in Seq(Entries) /\ Len(x) <= PrefixSize /\ Faithful(x)
      BY <1>8, <3>2, <3>3, <3>4, Remembered
    <3>6. prefix' = x
      BY <1>11, <2>2, <3>1, <3>4
    <3> QED
      BY <3>5, <3>6 DEF Faithful
  <2>3. CASE ~known /\ ~ (config.prefixCache /\ Len(key) >= MinPrefix)
    <3>1. prefix' = prefix
      BY <1>11, <2>3
    <3> QED
      BY <1>8, <3>1 DEF Faithful
  <2> QED
    BY <2>1, <2>2, <2>3
<1>13. PrefixOK'
  BY <1>12 DEF PrefixOK, PrefixHoldsPrompts, Entries, Faithful
<1>14. PICK s : s = <<base>>
  OBVIOUS
<1>15. s \in Seq(Token) /\ Len(s) >= 1
  BY <1>7, <1>10, <1>14
<1>16. PICK f : f = Fed(states[r], s, TRUE)
  OBVIOUS
<1>17. f = fed
  BY <1>14, <1>16 DEF fed
<1>18. PICK c : c = Plus(caches, r, held)
  OBVIOUS
<1>19. Settle(r, f, c, streams, spec)
  BY <1>11, <1>17, <1>18
<1>20. Continues(states[r].prompt, states[r].out, s)
  <2>1. key \o << >> = key /\ << >> \in Seq(Token)
    BY <1>6, EmptyJoined
  <2>2. base \in Token /\ base = Target(key \o << >>)
    BY <1>7, <1>10, <2>1
  <2> QED
    BY <1>3, <1>5, <1>14, <2>1, <2>2, ContinuesOne
<1>21. Len(states[r].prompt) + Len(states[r].out) <= NCtx /\ OwnsCaches(config)
  <2>1. OwnsCaches(config)
    BY <1>2 DEF Manual, OwnsCaches
  <2> QED
    BY <1>4, <1>5, <1>6, <2>1
<1>22. ASSUME f.reason = "none", caches' = c, streams' = streams, spec' = spec
       PROVE  /\ SpecOK' /\ DOMAIN spec' = DOMAIN spec
              /\ Advances(r, [states[r] EXCEPT !.out = f.out])
  <2>1. SpecOK' /\ DOMAIN spec' = DOMAIN spec
    BY <1>22 DEF EInv, TypeOK, SpecOK
  <2>2. Len(states[r].out) < states[r].cap /\ TRUE \in BOOLEAN
    BY <1>4
  <2>3. /\ f.out = states[r].out \o s
        /\ Len(states[r].prompt) + Len(f.out) <= NCtx
    BY <1>1, <1>15, <1>16, <1>21, <1>22, <2>2, FeedGoesOn
  <2>4. f.out = s
    BY <1>3, <1>15, <2>3, EmptyJoined
  <2>5. PICK q : q = [states[r] EXCEPT !.out = f.out]
    OBVIOUS
  <2>6. q.prompt = key /\ q.out = s
    BY <1>1, <1>5, <2>4, <2>5 DEF Requests
  <2>7. caches' = Plus(caches, r, key)
    BY <1>10, <1>18, <1>22
  <2>8. key = Front(q.prompt \o q.out)
    <3>1. Append(key, base) = key \o <<base>>
      BY <1>6, <1>7, <1>10, AppendIsConcat
    <3>2. Front(Append(key, base)) = key
      BY <1>6, <1>7, <1>10, FrontOfAppend
    <3> QED
      BY <1>14, <2>6, <3>1, <3>2
  <2>9. \E o \in Seq(Token) : key = q.prompt \o o /\ Len(o) < Len(q.out)
    <3>1. << >> \in Seq(Token) /\ Len(<< >>) < Len(q.out)
      BY <1>14, <2>6
    <3>2. key = q.prompt \o << >>
      BY <1>6, <2>6, EmptyJoined
    <3> QED
      BY <3>1, <3>2
  <2>10. CachedAt(q, key, r \notin lossy')
    BY <2>3, <2>4, <2>6, <2>8, <2>9, <1>5 DEF CachedAt
  <2>11. Advances(r, q)
    BY <1>2, <1>6, <1>22, <2>7, <2>10 DEF Advances
  <2> QED
    BY <2>1, <2>5, <2>11
<1>23. /\ turn' \subseteq DOMAIN states
       /\ f.reason # "none" => turn' \subseteq DOMAIN states \ {r}
       /\ lossy \subseteq lossy' /\ lossy' \subseteq lossy \cup {r}
       /\ TRUE \in BOOLEAN
  BY <1>11, <1>17
<1> QED
  BY <1>13, <1>15, <1>16, <1>19, <1>20, <1>21, <1>22, <1>23, Settles

-----------------------------------------------------------------------------
(* Verification. *)

LEMMA AllowIs ==
  ASSUME EInv, NEW r \in DOMAIN states
  PROVE  /\ Allow(r) \in 0 .. MaxDrafts
         /\ Len(states[r].out) + Allow(r) < states[r].cap
<1>1. /\ states[r].out \in Seq(Token) /\ states[r].cap \in Nat /\ Live(r)
      /\ MaxDrafts \in Nat
  BY Typed, MLXAssumption
<1>2. Len(states[r].out) < states[r].cap /\ Len(states[r].out) \in Nat
  BY <1>1, LenProperties DEF Live, LiveAt
<1>3. PICK room \in Nat : room = states[r].cap - Len(states[r].out) - 1
  <2>1. states[r].cap - Len(states[r].out) - 1 \in Nat
    BY <1>1, <1>2
  <2> QED
    BY <2>1
<1>4. PICK few : few = Min({MaxDrafts, room})
  OBVIOUS
<1>5. few = IF MaxDrafts <= room THEN MaxDrafts ELSE room
  BY <1>1, <1>4, MinOfTwo
<1>6. few \in Nat /\ few <= MaxDrafts /\ few <= room
  BY <1>1, <1>5
<1>7. Max({0, few}) = few
  <2>1. Max({0, few}) = IF 0 >= few THEN 0 ELSE few
    BY <1>6, MaxOfTwo
  <2> QED
    BY <1>6, <2>1
<1>8. Allow(r) = few \/ Allow(r) = 0
  BY <1>3, <1>4, <1>7 DEF Allow
<1>9. Len(states[r].out) + room < states[r].cap
  BY <1>1, <1>2, <1>3
<1> QED
  BY <1>1, <1>2, <1>6, <1>8, <1>9

LEMMA FrontThenLast ==
  ASSUME NEW t \in Seq(Token), Len(t) >= 1
  PROVE  /\ Front(t) \in Seq(Token) /\ Last(t) \in Token
         /\ Front(t) \o <<Last(t)>> = t
<1>1. Len(t) \in Nat /\ Len(t) \in 1 .. Len(t) /\ Len(t) - 1 \in 0 .. Len(t)
  BY LenProperties
<1>2. t[Len(t)] \in Token
  BY <1>1, ElementOfSeq
<1>3. << >> \in Seq(Token) /\ \A s \in Seq(Token) : << >> \o s = s
  BY EmptyJoined
<1>4. Append(<< >> \o Begin(t, Len(t) - 1), t[Len(t)]) = << >> \o Begin(t, Len(t))
  BY <1>1, <1>3, BeginNext
<1>5. Begin(t, Len(t) - 1) \in Seq(Token) /\ Begin(t, Len(t)) = t
  BY <1>1, BeginIs, WholeIsBegin
<1>6. Append(Begin(t, Len(t) - 1), t[Len(t)]) = t
  BY <1>3, <1>4, <1>5
<1>7. Front(t) = Begin(t, Len(t) - 1) /\ Last(t) = t[Len(t)]
  BY DEF Front, Begin, Last
<1>8. Append(Front(t), Last(t)) = Front(t) \o <<Last(t)>>
  BY <1>2, <1>5, <1>7, AppendIsConcat
<1> QED
  BY <1>2, <1>5, <1>6, <1>7, <1>8

LEMMA Regrouped ==
  \A x, y, z \in Seq(Token) : (x \o y) \o z = x \o (y \o z)
BY ConcatAssociative

\* A cache without the last token of the text, fed that token and drafts, holds the
\* text and the drafts.
LEMMA RowsAre ==
  ASSUME NEW t \in Seq(Token), Len(t) >= 1, NEW d \in Seq(Token),
         NEW i \in 1 .. Len(d) + 1
  PROVE  Front(t) \o Begin(<<Last(t)>> \o d, i) = t \o Begin(d, i - 1)
<1>1. Front(t) \in Seq(Token) /\ Last(t) \in Token /\ Front(t) \o <<Last(t)>> = t
  BY FrontThenLast
<1>2. PICK l : l = <<Last(t)>>
  OBVIOUS
<1>3. l \in Seq(Token) /\ Len(l) = 1
  BY <1>1, <1>2
<1>4. Len(d) \in Nat /\ i - 1 \in 0 .. Len(d) /\ 1 + (i - 1) = i
  BY LenProperties
<1>5. l \in Seq(Token)
  BY <1>3
<1>6. \A j \in 0 .. Len(d) : Begin(l \o d, Len(l) + j) = l \o Begin(d, j)
  BY <1>5, TokensBegin, Zenon
<1>7. Begin(l \o d, i) = l \o Begin(d, i - 1)
  BY <1>3, <1>4, <1>6
<1>8. PICK b : b = Begin(d, i - 1)
  OBVIOUS
<1>9. b \in Seq(Token)
  BY <1>4, <1>8, BeginIs
<1>10. PICK f : f = Front(t)
  OBVIOUS
<1>11. f \in Seq(Token)
  BY <1>1, <1>10
<1>12. (f \o l) \o b = f \o (l \o b)
  BY <1>5, <1>9, <1>11, Regrouped, Zenon
<1> QED
  BY <1>1, <1>2, <1>7, <1>8, <1>10, <1>12

\* The accepted tokens are the drafts that matched and the model's next one.
LEMMA AcceptedIs ==
  ASSUME NEW d \in Seq(Token), NEW m \in 0 .. Len(d), NEW x \in Token
  PROVE  \A a : a = Append(Begin(d, m), x) =>
           /\ a \in Seq(Token) /\ Len(a) = m + 1
           /\ \A i \in 1 .. m : a[i] = d[i]
           /\ a[m + 1] = x
           /\ \A j \in 0 .. m : Begin(a, j) = Begin(d, j)
<1> SUFFICES ASSUME NEW a, a = Append(Begin(d, m), x)
             PROVE  /\ a \in Seq(Token) /\ Len(a) = m + 1
                    /\ \A i \in 1 .. m : a[i] = d[i]
                    /\ a[m + 1] = x
                    /\ \A j \in 0 .. m : Begin(a, j) = Begin(d, j)
  OBVIOUS
<1>1. PICK b : b = Begin(d, m)
  OBVIOUS
<1>2. b \in Seq(Token) /\ Len(b) = m /\ \A i \in 1 .. m : b[i] = d[i]
  BY <1>1, BeginIs
<1>3. a = Append(b, x)
  BY <1>1
<1>4. /\ a \in Seq(Token) /\ Len(a) = Len(b) + 1
      /\ \A i \in 1 .. Len(b) : a[i] = b[i]
      /\ a[Len(b) + 1] = x
  BY <1>2, <1>3, AppendProperties
<1>5. ASSUME NEW j \in 0 .. m PROVE Begin(a, j) = Begin(d, j)
  <2>1. j \in 0 .. Len(a) /\ j \in 0 .. Len(d) /\ m \in Nat
    <3>1. Len(d) \in Nat
      BY LenProperties
    <3> QED
      BY <1>2, <1>4, <3>1
  <2>2. PICK u : u = Begin(a, j)
    OBVIOUS
  <2>3. u \in Seq(Token) /\ Len(u) = j /\ \A i \in 1 .. j : u[i] = a[i]
    BY <1>4, <2>1, <2>2, BeginIs
  <2>4. PICK v : v = Begin(d, j)
    OBVIOUS
  <2>5. v \in Seq(Token) /\ Len(v) = j /\ \A i \in 1 .. j : v[i] = d[i]
    BY <2>1, <2>4, BeginIs
  <2>6. \A i \in 1 .. j : a[i] = d[i]
    <3>1. \A i \in 1 .. j : i \in 1 .. m
      BY <2>1
    <3> QED
      BY <1>2, <1>4, <3>1
  <2>7. u = v
    BY <2>3, <2>5, <2>6, SeqEqual
  <2> QED
    BY <2>2, <2>4, <2>7
<1> QED
  BY <1>2, <1>4, <1>5

LEMMA CountedIs ==
  ASSUME EInv, NEW r \in DOMAIN spec, NEW n \in Nat, NEW m \in 0 .. n, NEW s,
         s = Plus(spec, r, Counted(r, n, m)), spec' = s
  PROVE  SpecOK' /\ DOMAIN spec' = DOMAIN spec
<1>1. /\ spec \in [DOMAIN spec -> [ok : BOOLEAN, drafted : Nat, accepted : Nat,
                                   recomputes : Nat]]
      /\ \A x \in DOMAIN spec : spec[x].accepted <= spec[x].drafted
  BY DEF EInv, TypeOK
<1>2. PICK c : c = spec[r]
  OBVIOUS
<1>3. /\ c \in [ok : BOOLEAN, drafted : Nat, accepted : Nat, recomputes : Nat]
      /\ c.accepted <= c.drafted
  BY <1>1, <1>2
<1>4. PICK t : t = [c EXCEPT !.drafted = @ + n, !.accepted = @ + m,
                             !.recomputes = IF m < n THEN @ + 1 ELSE @]
  OBVIOUS
<1>5. /\ t \in [ok : BOOLEAN, drafted : Nat, accepted : Nat, recomputes : Nat]
      /\ t.accepted = c.accepted + m /\ t.drafted = c.drafted + n
  <2>1. /\ c.ok \in BOOLEAN /\ c.drafted + n \in Nat /\ c.accepted + m \in Nat
        /\ (IF m < n THEN c.recomputes + 1 ELSE c.recomputes) \in Nat
    BY <1>3
  <2>2. t = [ok |-> c.ok, drafted |-> c.drafted + n, accepted |-> c.accepted + m,
             recomputes |-> IF m < n THEN c.recomputes + 1 ELSE c.recomputes]
    BY <1>3, <1>4
  <2> QED
    BY <2>1, <2>2
<1>6. t.accepted <= t.drafted
  BY <1>3, <1>5
<1>7. PICK u : u = Counted(r, n, m)
  OBVIOUS
<1>8. \E b \in BOOLEAN : u = [t EXCEPT !.ok = b]
  <2>1. t.ok \in BOOLEAN
    BY <1>5
  <2>2. u = [t EXCEPT !.ok = @ /\ ~ (/\ t.drafted > 0
                                     /\ t.drafted >= MinDrafts \/ t.recomputes >= MinRecomputes
                                     /\ 2 * t.accepted < t.drafted)]
    BY <1>2, <1>4, <1>7 DEF Counted
  <2> QED
    BY <2>1, <2>2
<1>9. /\ u \in [ok : BOOLEAN, drafted : Nat, accepted : Nat, recomputes : Nat]
      /\ u.accepted <= u.drafted
  BY <1>5, <1>6, <1>8
<1>10. spec' = Plus(spec, r, u)
  BY <1>7
<1> QED
  BY <1>1, <1>9, <1>10 DEF Plus, SpecOK

\* What the model says next does not depend on the rows of the same pass, and ends
\* within the context it is typed for.
LEMMA RowsTyped ==
  ASSUME NEW p \in Prompts, NEW cap \in Caps, NEW o \in Seq(Token), NEW rows \in Seq(Token),
         Len(o) + Len(rows) < cap, p \in Seq(Token), NEW i \in 0 .. Len(rows)
  PROVE  Target((p \o o) \o Begin(rows, i)) \in Token
<1>1. PICK b : b = Begin(rows, i)
  OBVIOUS
<1>2. b \in Seq(Token) /\ Len(b) = i
  BY <1>1, BeginIs
<1>3. b \in Seq(Token)
  BY <1>2
<1>4. PICK x : x = o \o b
  OBVIOUS
<1>5. x \in Seq(Token) /\ Len(x) = Len(o) + Len(b)
  BY <1>3, <1>4, JoinedIs
<1>6. /\ Len(o) \in Nat /\ Len(rows) \in Nat /\ i \in Nat /\ i <= Len(rows) /\ cap \in Nat
  BY LenProperties, MLXAssumption
<1>7. Len(x) < cap
  BY <1>2, <1>5, <1>6
<1>8. Target(p \o x) \in Token
  BY <1>5, <1>7, ModelTyped
<1>9. (p \o o) \o b = p \o (o \o b)
  BY <1>3, Regrouped, Zenon
<1> QED
  BY <1>1, <1>4, <1>8, <1>9

LEMMA RegroupedBegin ==
  ASSUME NEW x \in Seq(Token), NEW y \in Seq(Token), NEW z \in Seq(Token),
         NEW j \in 0 .. Len(z)
  PROVE  (x \o y) \o Begin(z, j) = x \o (y \o Begin(z, j))
<1>1. PICK b : b = Begin(z, j)
  OBVIOUS
<1>2. b \in Seq(Token)
  BY <1>1, BeginIs
<1>3. (x \o y) \o b = x \o (y \o b)
  BY <1>2, Regrouped, ZenonT(40)
<1> QED
  BY <1>1, <1>3

\* Accepted tokens are the model's continuation of the text.
LEMMA AcceptedContinue ==
  ASSUME NEW p \in Seq(Token), NEW out \in Seq(Token), Len(p \o out) >= 1,
         NEW d \in Seq(Token), NEW m \in 0 .. Len(d),
         NEW a \in Seq(Token), Len(a) = m + 1,
         \A j \in 0 .. m : Begin(a, j) = Begin(d, j),
         \A i \in 1 .. m + 1 :
           a[i] = Target(Front(p \o out) \o Begin(<<Last(p \o out)>> \o d, i))
  PROVE  Continues(p, out, a)
<1>1. PICK t : t = p \o out
  OBVIOUS
<1>2. t \in Seq(Token) /\ Len(t) >= 1
  BY <1>1, ConcatProperties
<1>3. Len(d) \in Nat /\ m \in Nat
  BY LenProperties
<1>4. ASSUME NEW i \in 1 .. Len(a)
      PROVE  a[i] = Target(p \o (out \o Begin(a, i - 1)))
  <2>1. i \in 1 .. m + 1 /\ i \in 1 .. Len(d) + 1 /\ i - 1 \in 0 .. m /\ i - 1 \in 0 .. Len(d)
    BY <1>3
  <2>2. a[i] = Target(Front(t) \o Begin(<<Last(t)>> \o d, i))
    BY <1>1, <2>1
  <2>3. Front(t) \o Begin(<<Last(t)>> \o d, i) = t \o Begin(d, i - 1)
    BY <1>2, <2>1, RowsAre
  <2>4. PICK b : b = Begin(d, i - 1)
    OBVIOUS
  <2>5. b \in Seq(Token) /\ Begin(a, i - 1) = b
    BY <2>1, <2>4, BeginIs
  <2>6. (p \o out) \o b = p \o (out \o b)
    BY <2>1, <2>4, RegroupedBegin
  <2> QED
    BY <1>1, <2>2, <2>3, <2>4, <2>5, <2>6
<1> QED
  BY <1>4 DEF Continues

\* The text and the accepted tokens, without the last one, end at the match.
LEMMA FrontOfAccepted ==
  ASSUME NEW p \in Seq(Token), NEW out \in Seq(Token), NEW d \in Seq(Token),
         NEW m \in 0 .. Len(d), NEW x \in Token
  PROVE  Front(p \o (out \o Append(Begin(d, m), x))) = (p \o out) \o Begin(d, m)
<1>1. PICK b : b = Begin(d, m)
  OBVIOUS
<1>2. b \in Seq(Token)
  BY <1>1, BeginIs
<1>3. PICK l : l = <<x>>
  OBVIOUS
<1>4. l \in Seq(Token)
  BY <1>3
<1>5. PICK t : t = p \o out
  OBVIOUS
<1>6. t \in Seq(Token)
  BY <1>5, ConcatProperties
<1>7. PICK u : u = t \o b
  OBVIOUS
<1>8. u \in Seq(Token)
  BY <1>2, <1>6, <1>7, ConcatProperties
<1>9. Append(b, x) = b \o l /\ Append(u, x) = u \o l
  BY <1>2, <1>3, <1>8, AppendIsConcat
<1>10. PICK v : v = b \o l
  OBVIOUS
<1>11. v \in Seq(Token)
  BY <1>2, <1>4, <1>10, ConcatProperties
<1>12. p \o (out \o v) = (p \o out) \o v
  BY <1>11, Regrouped, ZenonT(40)
<1>13. t \o (b \o l) = (t \o b) \o l
  BY <1>2, <1>4, <1>6, Regrouped, ZenonT(40)
<1>14. p \o (out \o Append(b, x)) = Append(u, x)
  BY <1>5, <1>7, <1>9, <1>10, <1>12, <1>13, Zenon
<1>15. Front(Append(u, x)) = u
  BY <1>8, FrontOfAppend
<1> QED
  BY <1>1, <1>5, <1>7, <1>14, <1>15

\* _verify_rows: whatever was drafted, the request gets the model's own tokens, and
\* its cache the text they leave.
LEMMA Verifies ==
  ASSUME EInv, NEW r \in DOMAIN caches, Verify(r), turn \subseteq DOMAIN states,
         UNCHANGED <<config, nextId, broken, prefix>>
  PROVE  EInv'
<1>0. r \in DOMAIN states
  BY DEF EInv, OnlyLiveRequestsHoldCaches
<1>1. /\ states[r] \in Requests
      /\ states[r].prompt \in Prompts /\ states[r].prompt \in Seq(Token)
      /\ states[r].cap \in Caps /\ states[r].cap \in Nat
      /\ states[r].greedy \in BOOLEAN /\ states[r].out \in Seq(Token) /\ Live(r)
  BY <1>0, Typed
<1>2. PICK p : p = states[r].prompt
  OBVIOUS
<1>3. PICK out : out = states[r].out
  OBVIOUS
<1>4. PICK C : C = caches[r]
  OBVIOUS
<1>5. /\ p \in Prompts /\ p \in Seq(Token) /\ out \in Seq(Token)
      /\ Len(p) + Len(out) <= NCtx /\ Len(out) < states[r].cap
      /\ r \notin lossy => C = Front(p \o out)
  BY <1>1, <1>2, <1>3, <1>4 DEF Live, LiveAt, CachedAt
<1>6. PICK o \in Seq(Token) : C = p \o o /\ Len(o) < Len(out)
  BY <1>1, <1>2, <1>3, <1>4 DEF Live, CachedAt
<1>7. /\ Manual(r) /\ r \in DOMAIN spec
  <2>1. Manual(r)
    BY DEF EInv, Paths
  <2> QED
    BY <1>0, <2>1 DEF EInv, Paths, Manual
<1>8. PICK d \in Drafts(p, out, Allow(r)) :
        LET rows == <<Last(Text(r))>> \o d
            after(i) == Target(caches[r] \o SubSeq(rows, 1, i))
            m == Max({n \in 0 .. Len(d) : \A i \in 1 .. n : d[i] = after(i)})
            accepted == Append(SubSeq(d, 1, m), after(m + 1))
            fed == caches[r] \o rows
            cache == IF m < Len(d) THEN Refill(r, fed) ELSE fed
        IN  /\ Settle(r, Fed(states[r], accepted, TRUE), Plus(caches, r, cache), streams,
                      Plus(spec, r, Counted(r, Len(d), m)))
            /\ lossy' = IF m \in 1 .. Len(d) - 1 THEN lossy \cup {r} ELSE lossy
            /\ turn' = turn \ {r}
  BY <1>2, <1>3 DEF Verify
<1>9. PICK t : t = p \o out
  OBVIOUS
<1>10. /\ Len(p) \in Nat /\ Len(out) \in Nat /\ Len(o) \in Nat /\ Len(out) >= 1
  BY <1>5, <1>6, LenProperties
<1>11. t \in Seq(Token) /\ Len(t) >= 1
  <2>1. t \in Seq(Token) /\ Len(t) = Len(p) + Len(out)
    <3>1. p \in Seq(Token) /\ out \in Seq(Token)
      BY <1>5
    <3> QED
      BY <1>9, <3>1, JoinedIs
  <2> QED
    BY <1>10, <2>1
<1>12. Text(r) = t
  BY <1>2, <1>3, <1>9 DEF Text
<1>13. d \in Seq(Token) /\ Len(d) \in Nat /\ Len(out) + Len(d) < states[r].cap
  <2>1. Allow(r) \in 0 .. MaxDrafts /\ Len(out) + Allow(r) < states[r].cap
    BY <1>0, <1>3, AllowIs
  <2>2. d \in Seq(Token) /\ Len(d) <= Allow(r)
    BY <1>1, <1>5, <2>1, ModelTyped
  <2>3. Len(d) \in Nat
    BY <2>2, LenProperties
  <2>4. MaxDrafts \in Nat
    BY MLXAssumption
  <2> QED
    BY <1>1, <1>10, <2>1, <2>2, <2>3, <2>4
<1>14. Last(t) \in Token
  BY <1>11, FrontThenLast
<1>15. PICK rows : rows = <<Last(t)>> \o d
  OBVIOUS
<1>16. rows \in Seq(Token) /\ Len(rows) = Len(d) + 1
  <2>1. <<Last(t)>> \in Seq(Token) /\ Len(<<Last(t)>>) = 1
    BY <1>14
  <2>2. rows \in Seq(Token) /\ Len(rows) = Len(<<Last(t)>>) + Len(d)
    BY <1>13, <1>15, <2>1, JoinedIs
  <2> QED
    BY <1>13, <2>1, <2>2
<1> DEFINE after(i) == Target(C \o Begin(rows, i))
           S == {n \in 0 .. Len(d) : \A i \in 1 .. n : d[i] = after(i)}
<1>17. PICK m : m = Max(S)
  OBVIOUS
<1>18. PICK a : a = Append(Begin(d, m), after(m + 1))
  OBVIOUS
<1>19. PICK cache : cache = IF m < Len(d) THEN t ELSE C \o rows
  OBVIOUS
<1>20. /\ Settle(r, Fed(states[r], a, TRUE), Plus(caches, r, cache), streams,
                 Plus(spec, r, Counted(r, Len(d), m)))
       /\ lossy' = IF m \in 1 .. Len(d) - 1 THEN lossy \cup {r} ELSE lossy
       /\ turn' = turn \ {r}
  BY <1>4, <1>8, <1>12, <1>15, <1>17, <1>18, <1>19, Zenon DEF Begin, Refill
<1>21. \A i \in 0 .. Len(d) + 1 : after(i) \in Token
  <2>1. Len(o) + Len(rows) < states[r].cap
    BY <1>1, <1>6, <1>10, <1>13, <1>16
  <2>2. p \in Prompts /\ p \in Seq(Token) /\ rows \in Seq(Token)
    BY <1>5, <1>16
  <2>3. \A i \in 0 .. Len(rows) : Target((p \o o) \o Begin(rows, i)) \in Token
    BY <1>1, <2>1, <2>2, RowsTyped
  <2> QED
    BY <1>6, <1>16, <2>3
<1>22. m \in 0 .. Len(d) /\ \A i \in 1 .. m : d[i] = after(i)
  <2>1. S \subseteq 0 .. Len(d)
    OBVIOUS
  <2>2. 0 \in S
    BY <1>13
  <2>3. m \in S
    BY <1>13, <1>17, <2>1, <2>2, LargestOf
  <2> QED
    BY <2>3
<1>23. PICK x \in Token : x = after(m + 1)
  <2>1. m + 1 \in 0 .. Len(d) + 1
    BY <1>13, <1>22
  <2> QED
    BY <1>21, <2>1
<1>24. /\ a \in Seq(Token) /\ Len(a) = m + 1
       /\ \A i \in 1 .. m : a[i] = d[i]
       /\ a[m + 1] = x
       /\ \A j \in 0 .. m : Begin(a, j) = Begin(d, j)
  <2>1. a = Append(Begin(d, m), x)
    BY <1>18, <1>23
  <2>2. d \in Seq(Token)
    BY <1>13
  <2>3. m \in 0 .. Len(d)
    BY <1>22
  <2>4. \A b : b = Append(Begin(d, m), x) =>
          /\ b \in Seq(Token) /\ Len(b) = m + 1
          /\ \A i \in 1 .. m : b[i] = d[i]
          /\ b[m + 1] = x
          /\ \A j \in 0 .. m : Begin(b, j) = Begin(d, j)
    BY <2>2, <2>3, AcceptedIs
  <2> QED
    BY <2>1, <2>4
<1>25. \A i \in 1 .. m + 1 : a[i] = after(i)
  <2>1. \A i \in 1 .. m + 1 : i \in 1 .. m \/ i = m + 1
    BY <1>13, <1>22
  <2> QED
    BY <1>22, <1>23, <1>24, <2>1
<1> HIDE DEF after, S
<1>26. ASSUME r \notin lossy PROVE Continues(p, out, a)
  <2>1. C = Front(t)
    BY <1>5, <1>9, <1>26
  <2>2. \A i \in 1 .. m + 1 : a[i] = Target(Front(p \o out) \o Begin(<<Last(p \o out)>> \o d, i))
    BY <1>9, <1>15, <1>25, <2>1 DEF after
  <2>3. p \in Seq(Token) /\ out \in Seq(Token) /\ Len(p \o out) >= 1
    BY <1>5, <1>9, <1>11
  <2>4. d \in Seq(Token) /\ m \in 0 .. Len(d) /\ a \in Seq(Token) /\ Len(a) = m + 1
    BY <1>13, <1>22, <1>24
  <2>5. \A j \in 0 .. m : Begin(a, j) = Begin(d, j)
    BY <1>24
  <2> QED
    BY <2>2, <2>3, <2>4, <2>5, AcceptedContinue
<1>27. PICK f : f = Fed(states[r], a, TRUE)
  OBVIOUS
<1>28. PICK c : c = Plus(caches, r, cache)
  OBVIOUS
<1>29. PICK s : s = Plus(spec, r, Counted(r, Len(d), m))
  OBVIOUS
<1>30. Settle(r, f, c, streams, s)
  BY <1>20, <1>27, <1>28, <1>29
<1>31. /\ Len(a) >= 1 /\ TRUE \in BOOLEAN
       /\ Len(states[r].prompt) + Len(states[r].out) <= NCtx
       /\ Len(states[r].out) < states[r].cap
       /\ OwnsCaches(config)
  <2>1. Len(a) >= 1
    BY <1>13, <1>22, <1>24
  <2>2. OwnsCaches(config)
    BY <1>7 DEF Manual, OwnsCaches
  <2> QED
    BY <1>2, <1>3, <1>5, <2>1, <2>2
<1>32. cache \in Seq(Token) /\ \E u \in Seq(Token) : cache = p \o u /\ Len(u) < Len(out) + (m + 1)
  <2>1. CASE m < Len(d)
    <3>1. Len(out) < Len(out) + (m + 1)
      BY <1>10, <1>13, <1>22
    <3> QED
      BY <1>5, <1>9, <1>11, <1>19, <2>1, <3>1
  <2>2. CASE ~ (m < Len(d))
    <3>1. m = Len(d)
      BY <1>13, <1>22, <2>2
    <3>2. PICK u : u = o \o rows
      OBVIOUS
    <3>3. rows \in Seq(Token)
      BY <1>16
    <3>4. u \in Seq(Token) /\ Len(u) = Len(o) + Len(rows)
      BY <3>2, <3>3, JoinedIs
    <3>5. p \in Seq(Token)
      BY <1>5
    <3>6. (p \o o) \o rows = p \o (o \o rows)
      BY <3>3, <3>5, Regrouped, Zenon
    <3>7. cache = p \o u
      BY <1>6, <1>19, <2>2, <3>2, <3>6
    <3>8. u \in Seq(Token)
      BY <3>4
    <3>9. cache \in Seq(Token)
      BY <3>5, <3>7, <3>8, ConcatProperties
    <3>10. Len(u) < Len(out) + (m + 1)
      BY <1>6, <1>10, <1>13, <1>16, <3>1, <3>4
    <3> QED
      BY <3>7, <3>8, <3>9, <3>10
  <2> QED
    BY <2>1, <2>2
<1>33. ASSUME r \notin lossy' PROVE cache = Front(p \o (out \o a))
  <2>1. r \notin lossy /\ m \notin 1 .. Len(d) - 1
    BY <1>20, <1>33
  <2>2. a = Append(Begin(d, m), x)
    BY <1>18, <1>23
  <2>3. p \in Seq(Token) /\ out \in Seq(Token) /\ d \in Seq(Token) /\ m \in 0 .. Len(d)
    BY <1>5, <1>13, <1>22
  <2>4. Front(p \o (out \o Append(Begin(d, m), x))) = (p \o out) \o Begin(d, m)
    BY <2>3, FrontOfAccepted, SMTT(40)
  <2>5. cache = t \o Begin(d, m)
    <3>1. CASE m < Len(d)
      <4>1. m = 0
        BY <1>13, <1>22, <2>1, <3>1
      <4>2. Begin(d, 0) = << >>
        <5>1. PICK b : b = Begin(d, 0)
          OBVIOUS
        <5>2. 0 \in 0 .. Len(d)
          BY <1>13
        <5>3. b \in Seq(Token) /\ Len(b) = 0
          BY <1>13, <5>1, <5>2, BeginIs
        <5> QED
          BY <5>1, <5>3, EmptySeq
      <4>3. t \o << >> = t
        BY <1>11, EmptyJoined
      <4> QED
        BY <1>19, <3>1, <4>1, <4>2, <4>3
    <3>2. CASE ~ (m < Len(d))
      <4>1. m = Len(d) /\ Len(d) + 1 \in 1 .. Len(d) + 1 /\ Len(d) + 1 - 1 = Len(d)
        BY <1>13, <1>22, <3>2
      <4>2. C = Front(t)
        BY <1>5, <1>9, <2>1
      <4>3. PICK k : k = Len(d) + 1
        OBVIOUS
      <4>4. k \in 1 .. Len(d) + 1 /\ k - 1 = m /\ k = Len(rows)
        BY <1>13, <1>16, <4>1, <4>3
      <4>6. \A i \in 1 .. Len(d) + 1 :
              Front(t) \o Begin(<<Last(t)>> \o d, i) = t \o Begin(d, i - 1)
        BY <1>11, <1>13, RowsAre
      <4>7. Front(t) \o Begin(rows, k) = t \o Begin(d, m)
        BY <1>15, <4>4, <4>6, ZenonT(40)
      <4>8. Begin(rows, k) = rows
        BY <1>16, <4>4, WholeIsBegin
      <4>5. C \o rows = t \o Begin(d, m)
        BY <4>2, <4>7, <4>8
      <4> QED
        BY <1>19, <3>2, <4>5
    <3> QED
      BY <3>1, <3>2
  <2> QED
    BY <1>9, <2>2, <2>4, <2>5
<1>34. ASSUME f.reason = "none", caches' = c, streams' = streams, spec' = s
       PROVE  /\ SpecOK' /\ DOMAIN spec' = DOMAIN spec
              /\ Advances(r, [states[r] EXCEPT !.out = f.out])
  <2>1. SpecOK' /\ DOMAIN spec' = DOMAIN spec
    BY <1>7, <1>13, <1>22, <1>29, <1>34, CountedIs
  <2>2. /\ f.out = out \o a /\ Len(p) + Len(f.out) <= NCtx
    <3>1. a \in Seq(Token)
      BY <1>24
    <3>2. /\ f.out = states[r].out \o a
          /\ Len(states[r].prompt) + Len(f.out) <= NCtx
      BY <1>1, <1>27, <1>31, <1>34, <3>1, FeedGoesOn
    <3> QED
      BY <1>2, <1>3, <3>2
  <2>3. PICK q : q = [states[r] EXCEPT !.out = f.out]
    OBVIOUS
  <2>4. q.prompt = p /\ q.out = out \o a
    BY <1>1, <1>2, <2>2, <2>3 DEF Requests
  <2>5. Len(out \o a) = Len(out) + (m + 1)
    <3>1. a \in Seq(Token) /\ out \in Seq(Token)
      BY <1>5, <1>24
    <3>2. Len(out \o a) = Len(out) + Len(a)
      BY <3>1, JoinedIs
    <3> QED
      BY <1>24, <3>2
  <2>6. CachedAt(q, cache, r \notin lossy')
    <3>1. Len(q.prompt) + Len(q.out) <= NCtx
      BY <2>2, <2>4
    <3>2. \E u \in Seq(Token) : cache = q.prompt \o u /\ Len(u) < Len(q.out)
      BY <1>32, <2>4, <2>5
    <3>3. r \notin lossy' => cache = Front(q.prompt \o q.out)
      BY <1>33, <2>4
    <3> QED
      BY <3>1, <3>2, <3>3 DEF CachedAt
  <2>7. Advances(r, q)
    BY <1>7, <1>28, <1>32, <1>34, <2>6 DEF Advances
  <2> QED
    BY <2>1, <2>3, <2>7
<1>35. /\ turn' \subseteq DOMAIN states
       /\ f.reason # "none" => turn' \subseteq DOMAIN states \ {r}
       /\ lossy \subseteq lossy' /\ lossy' \subseteq lossy \cup {r}
  BY <1>20
<1>36. states[r].greedy /\ r \notin lossy => Continues(states[r].prompt, states[r].out, a)
  BY <1>2, <1>3, <1>26
<1>37. PrefixOK'
  BY PrefixStays
<1>38. a \in Seq(Token)
  BY <1>24
<1> QED
  BY <1>0, <1>27, <1>30, <1>31, <1>34, <1>35, <1>36, <1>37, <1>38, Settles

-----------------------------------------------------------------------------
(* The theorems. *)

LEMMA AdvanceHolds ==
  ASSUME EInv, Advance
  PROVE  EInv'
<1>1. PICK r : r = Min(turn)
  OBVIOUS
<1>2. /\ turn \subseteq DOMAIN states /\ DOMAIN states \subseteq Nat /\ turn # {}
  BY DEF EInv, TypeOK, Ids, Advance
<1>3. r \in DOMAIN states
  <2>1. turn \subseteq Nat /\ turn # {}
    BY <1>2
  <2> QED
    BY <1>1, <1>2, <2>1, SmallestOf
<1>4. (StepManual(r) \/ StepGenerator(r)) /\ UNCHANGED <<config, nextId>>
  BY <1>1 DEF Advance
<1>5. CASE UseManual(r) /\ UNCHANGED broken /\ r \notin DOMAIN caches /\ StartSpec(r) /\ UNCHANGED lossy
  BY <1>2, <1>3, <1>4, <1>5, Starts
<1>6. CASE UseManual(r) /\ UNCHANGED broken /\ r \in DOMAIN caches /\ Verify(r) /\ UNCHANGED prefix
  BY <1>2, <1>4, <1>6, Verifies
<1>7. CASE UseManual(r) /\ UNCHANGED broken /\ ManualRaises(r) /\ UNCHANGED <<prefix, lossy>>
  BY <1>3, <1>4, <1>7, Raises
<1>8. CASE ~UseManual(r) /\ UNCHANGED <<prefix, lossy>> /\ StepStream(r) /\ UNCHANGED broken
  BY <1>2, <1>3, <1>4, <1>8, Streams
<1>9. CASE ~UseManual(r) /\ UNCHANGED <<prefix, lossy>> /\ StreamRaises(r)
  BY <1>3, <1>4, <1>9, StreamsRaise
<1> QED
  BY <1>4, <1>5, <1>6, <1>7, <1>8, <1>9, Zenon DEF StepManual, StepGenerator

\* The inductive invariant: every request is where its path, its cap, its cache or
\* generator and the model's own continuation say it is.
THEOREM EngineInvariance == Spec => []EInv
<1>1. Init => EInv
  BY InitHolds
<1>2. EInv /\ [Next]_vars => EInv'
  <2> SUFFICES ASSUME EInv, [Next]_vars PROVE EInv'
    OBVIOUS
  <2>1. CASE AddRequest
    BY <2>1, Adds
  <2>2. CASE \E r \in DOMAIN states : Cancel(r)
    BY <2>2, Cancels
  <2>3. CASE BeginStep
    BY <2>3, Begins
  <2>4. CASE Advance
    BY <2>4, AdvanceHolds
  <2>5. CASE UNCHANGED vars
    BY <2>5, Stutters
  <2> QED
    BY <2>1, <2>2, <2>3, <2>4, <2>5 DEF Next
<1> QED
  BY <1>1, <1>2, PTL DEF Spec

\* Every variable keeps its shape, and acceptance never counts more than was drafted
\* (_states, _caches, _streams, _spec_stats, _prefix, _retired).
THEOREM EngineTypes == Spec => []TypeOK
<1>1. EInv => TypeOK
  BY DEF EInv
<1> QED
  BY <1>1, EngineInvariance, PTL

\* _retire leaves nothing behind on any path, and no request is on both paths.
THEOREM NothingOutlivesItsRequest == Spec => []OnlyLiveRequestsHoldCaches
<1>1. EInv => OnlyLiveRequestsHoldCaches
  BY DEF EInv
<1> QED
  BY <1>1, EngineInvariance, PTL

\* The prompt cache holds at most the configured number of entries, one a prompt,
\* each at its prompt's boundary with the token the model says there.
THEOREM PromptCacheIsFaithful == Spec => []PrefixHoldsPrompts
<1>1. EInv => PrefixHoldsPrompts
  BY DEF EInv
<1> QED
  BY <1>1, EngineInvariance, PTL

\* An owned cache that was not rebuilt after a partial match is the text without its
\* last token, after any number of verifications, matched or not.
THEOREM OwnedCachesHoldTheText == Spec => []CachesHoldTheText
<1>1. EInv => CachesHoldTheText
  <2> SUFFICES ASSUME EInv, NEW r \in DOMAIN caches \ lossy
               PROVE  caches[r] = Front(Text(r))
    BY DEF CachesHoldTheText
  <2>1. r \in DOMAIN states
    BY DEF EInv, OnlyLiveRequestsHoldCaches
  <2>2. CachedAt(states[r], caches[r], r \notin lossy)
    BY <2>1 DEF EInv, Live
  <2> QED
    BY <2>2 DEF CachedAt, Text
<1> QED
  BY <1>1, EngineInvariance, PTL

\* Whatever is drafted, accepted, hit in the prompt cache or fallen back from, the
\* output of a greedy request is the model's continuation of its prompt, it goes on
\* only where decoding one token at a time would, and it ends where and why that
\* would, but for the window: a request with a cache of its own ends there, one
\* token at a time does not (mlx_engine.py:570 against 593-616).  The theorem says
\* nothing of requests whose cache was rebuilt after a partial match, nor of the
\* end of those whose generator raised.
THEOREM GreedyOutputIsTheModels == Spec => []SpeculationIsLossless
<1>1. EInv => SpeculationIsLossless
  <2> SUFFICES ASSUME EInv PROVE SpeculationIsLossless
    OBVIOUS
  <2>1. ASSUME NEW r \in DOMAIN states \ lossy, states[r].greedy
        PROVE  IsPlainRun(states[r]) /\ PlainEnd(states[r]) \in {"none", "eog"}
    BY <2>1, PlainSoFar
  <2>2. ASSUME NEW i \in DOMAIN retired, retired[i].greedy, retired[i].id \notin lossy \cup broken
        PROVE  IsPlainRun(retired[i]) /\ EndsByRule(retired[i], config)
    BY <2>2 DEF EInv, RetiredPlain, EndedAt
  <2> QED
    BY <2>1, <2>2 DEF SpeculationIsLossless
<1> QED
  BY <1>1, EngineInvariance, PTL
==============================================================================
