-------------------------- MODULE AsyncEngineProofs ---------------------------
(***************************************************************************)
(* Proofs about AsyncEngine, for any number of clients, slots, outputs and *)
(* raising steps, whether or not a join may time out.                      *)
(***************************************************************************)
EXTENDS AsyncEngine, TLAPS, FiniteSetTheorems, SequenceTheorems

-----------------------------------------------------------------------------
(* Facts about sequences and sets. *)

LEMMA TailAt ==
  ASSUME NEW S, NEW s \in Seq(S), s # << >>
  PROVE  /\ 1 \in DOMAIN s /\ Head(s) = s[1] /\ Head(s) \in S
         /\ Tail(s) \in Seq(S)
         /\ \A i \in DOMAIN Tail(s) : i \in Int /\ i + 1 \in DOMAIN s /\ Tail(s)[i] = s[i + 1]
         /\ \A i \in DOMAIN s : i = 1 \/ (i - 1 \in DOMAIN Tail(s) /\ Tail(s)[i - 1] = s[i])
<1>1. /\ Len(s) \in Nat \ {0} /\ DOMAIN s = 1 .. Len(s)
      /\ Head(s) \in S /\ Head(s) = s[1]
      /\ Tail(s) \in Seq(S) /\ Len(Tail(s)) = Len(s) - 1
  BY HeadTailProperties, LenProperties, EmptySeq
<1>2. \A i \in 1 .. Len(s) - 1 : Tail(s)[i] = s[i + 1]
  BY <1>1
<1>3. DOMAIN Tail(s) = 1 .. Len(s) - 1
  BY <1>1, LenProperties
<1> QED
  BY <1>1, <1>2, <1>3

LEMMA ConcatAt ==
  ASSUME NEW S, NEW s \in Seq(S), NEW t \in Seq(S)
  PROVE  /\ s \o t \in Seq(S)
         /\ \A i \in DOMAIN s : i \in DOMAIN (s \o t) /\ (s \o t)[i] = s[i]
         /\ \A i \in DOMAIN (s \o t) :
              i \in DOMAIN s \/ \E k \in DOMAIN t : i = Len(s) + k /\ (s \o t)[i] = t[k]
<1>1. /\ s \o t \in Seq(S) /\ Len(s \o t) = Len(s) + Len(t)
      /\ \A i \in 1 .. Len(s) + Len(t) :
           (s \o t)[i] = IF i <= Len(s) THEN s[i] ELSE t[i - Len(s)]
      /\ Len(s) \in Nat /\ Len(t) \in Nat
      /\ DOMAIN s = 1 .. Len(s) /\ DOMAIN t = 1 .. Len(t)
  BY ConcatProperties, LenProperties
<1>2. DOMAIN (s \o t) = 1 .. Len(s) + Len(t)
  BY <1>1, LenProperties
<1>3. ASSUME NEW i \in 1 .. Len(s) + Len(t), i \notin 1 .. Len(s)
      PROVE  \E k \in 1 .. Len(t) : i = Len(s) + k /\ (s \o t)[i] = t[k]
  <2>1. i - Len(s) \in 1 .. Len(t) /\ i = Len(s) + (i - Len(s))
    BY <1>1, <1>3
  <2>2. (s \o t)[i] = t[i - Len(s)]
    BY <1>1, <1>3, <2>1
  <2> QED
    BY <2>1, <2>2
<1>4. \A i \in DOMAIN s : i \in DOMAIN (s \o t) /\ (s \o t)[i] = s[i]
  BY <1>1, <1>2
<1>5. \A i \in DOMAIN (s \o t) :
        i \in DOMAIN s \/ \E k \in DOMAIN t : i = Len(s) + k /\ (s \o t)[i] = t[k]
  BY <1>1, <1>2, <1>3, Zenon
<1> QED
  BY <1>1, <1>4, <1>5, Zenon

LEMMA AppendAt ==
  ASSUME NEW S, NEW s \in Seq(S), NEW e \in S
  PROVE  /\ Append(s, e) \in Seq(S)
         /\ \A i \in DOMAIN s : i \in DOMAIN Append(s, e) /\ Append(s, e)[i] = s[i]
         /\ Len(s) + 1 \in DOMAIN Append(s, e) /\ Append(s, e)[Len(s) + 1] = e
         /\ \A i \in DOMAIN Append(s, e) : i \in DOMAIN s \/ Append(s, e)[i] = e
BY AppendProperties, LenProperties

\* SetToSeq of a finite set has its length, and elements of it.
LEMMA SetToSeqIn ==
  ASSUME NEW S, IsFiniteSet(S)
  PROVE  /\ Cardinality(S) \in Nat
         /\ SetToSeq(S) \in [1 .. Cardinality(S) -> S]
<1>1. Cardinality(S) \in Nat
  BY FS_CardinalityType
<1>2. \E f : f \in Bijection(1 .. Cardinality(S), S)
  BY FS_CardinalityType DEF ExistsBijection
<1>3. \E f \in [1 .. Cardinality(S) -> S] : IsInjective(f)
  BY <1>2 DEF Bijection, Injection, IsInjective
<1> QED
  BY <1>1, <1>3, Zenon DEF SetToSeq

-----------------------------------------------------------------------------
(* The inductive invariant. *)

Callbacks ==
  {Joined} \cup [fn : {"register", "fail", "close", "id", "refused"}, c : Client]
    \cup [fn : {"deliver"}, c : Client, n : 1 .. MaxTokens, fin : BOOLEAN]

Commands == {Stop} \cup [kind : {"submit", "cancel"}, c : Client]

Items == {End, Failure} \cup [kind : {"output"}, n : 1 .. MaxTokens, fin : BOOLEAN]

\* TypeOK with the exact shapes of what is queued, and a request in flight has
\* not had its last output.
Shape ==
  /\ handler \in [Client -> {"new", "waiting", "answered", "streaming", "over", "gone"}]
  /\ got \in [Client -> Seq(1 .. MaxTokens)]
  /\ streams \subseteq Client /\ IsFiniteSet(streams)
  /\ channel \in [Client -> [items : Seq(Items), done : BOOLEAN, retired : BOOLEAN]]
  /\ ready \in Seq(Callbacks)
  /\ commands \in Seq(Commands)
  /\ worker \in {"off", "drain", "idle", "step"}
  /\ stopping \in BOOLEAN
  /\ lifecycle \in {"created", "started", "joining", "joined", "closed"}
  /\ live \subseteq Client /\ IsFiniteSet(live)
  /\ stuck \subseteq live
  /\ made \in [Client -> 0 .. MaxTokens]
  /\ \A c \in live : made[c] < MaxTokens
  /\ faults \in 0 .. MaxFaults
  /\ missed \subseteq Client

\* stop() sets the event before anything else, and so before the callback that
\* clears the streams is queued.
Stops ==
  /\ lifecycle \in {"joining", "joined", "closed"} => stopping
  /\ \A i \in DOMAIN ready : ready[i] = Joined => stopping

\* What the worker posts when it retires c.
LastOutputs(c) == [fn : {"deliver"}, c : {c}, n : 1 .. MaxTokens, fin : {TRUE}]

\* Nothing has come of the submission of c.
Fresh(c) ==
  /\ c \notin live
  /\ made[c] = 0
  /\ ~channel[c].retired
  /\ \A i \in DOMAIN ready :
       ready[i] \notin {Callback("id", c), Callback("refused", c)} \cup LastOutputs(c)

\* A request is submitted once, so that what has been said of it stays true.
SubmittedOnce(c) ==
  /\ handler[c] = "new" => Fresh(c)
  /\ \A i \in DOMAIN commands :
       commands[i] = Submission(c) =>
         /\ handler[c] \in {"waiting", "gone"}
         /\ Fresh(c)
         /\ \A j \in DOMAIN commands : commands[j] = Submission(c) => i = j

\* Of a request in flight nobody is told that it is refused or retired.
InFlight(c) ==
  c \in live =>
    /\ ~channel[c].retired
    /\ \A i \in DOMAIN ready : ready[i] \notin {Callback("refused", c)} \cup LastOutputs(c)

\* A handler learns its id behind the registration of its stream, which only
\* the handler and stop() take away.
Reached(c) ==
  /\ handler[c] \in {"answered", "streaming"} => c \in streams \/ stopping
  /\ handler[c] = "waiting" =>
       \A i \in DOMAIN ready : ready[i] = Callback("id", c) =>
         \/ c \in streams
         \/ stopping
         \/ \E j \in DOMAIN ready : j < i /\ ready[j] = Callback("register", c)

\* SlotsHaveOwners, of one request.
Owned(c) ==
  c \in live =>
    \/ handler[c] \in {"waiting", "answered", "streaming", "gone"}
    \/ \E i \in DOMAIN commands : commands[i] = Cancellation(c)
    \/ stopping

OfClient(c) == SubmittedOnce(c) /\ InFlight(c) /\ Reached(c) /\ Owned(c)

IInv == Shape /\ Stops /\ \A c \in Client : OfClient(c)

LEMMA InitIInv == Init => IInv
<1> SUFFICES ASSUME Init PROVE IInv
  OBVIOUS
<1>1. IsFiniteSet({})
  BY FS_EmptySet
<1>2. Shape
  <2>1. << >> \in Seq(Callbacks) /\ << >> \in Seq(Commands) /\ << >> \in Seq(Items)
        /\ << >> \in Seq(1 .. MaxTokens)
    OBVIOUS
  <2>2. channel \in [Client -> [items : Seq(Items), done : BOOLEAN, retired : BOOLEAN]]
    BY <2>1 DEF Init, NewChannel
  <2>3. made \in [Client -> 0 .. MaxTokens] /\ faults \in 0 .. MaxFaults
    BY AsyncAssumption DEF Init
  <2> QED
    BY <1>1, <2>1, <2>2, <2>3 DEF Init, Shape
<1>3. Stops
  BY DEF Init, Stops
<1>4. ASSUME NEW c \in Client PROVE OfClient(c)
  BY <1>4 DEF Init, NewChannel, OfClient, SubmittedOnce, Fresh, InFlight, Reached, Owned
<1> QED
  BY <1>2, <1>3, <1>4 DEF IInv

-----------------------------------------------------------------------------
(* What the actions do to the queues, and what that leaves true. *)

\* What a client is told once.
Answers(c) == {Callback("id", c), Callback("refused", c)} \cup LastOutputs(c)

LEMMA AnswersAreAbout ==
  ASSUME NEW c, NEW b \in Answers(c)
  PROVE  b.fn \in {"id", "refused", "deliver"} /\ b.c = c /\ (b.fn = "deliver" => b.fin)
<1>1. CASE b = Callback("id", c) \/ b = Callback("refused", c)
  BY <1>1 DEF Callback
<1>2. CASE b \in LastOutputs(c)
  BY <1>2 DEF LastOutputs
<1> QED
  BY <1>1, <1>2 DEF Answers

\* The callbacks change, with none that answers c.
NoAnswers(c) ==
  \A i \in DOMAIN ready' :
    ready'[i] \in Answers(c) => \E k \in DOMAIN ready : ready[k] = ready'[i]

\* The commands change, with no submission of c.
NoSubmission(c) ==
  /\ \A i, j \in DOMAIN commands' :
       commands'[i] = Submission(c) /\ commands'[j] = Submission(c) => i = j
  /\ \A i \in DOMAIN commands' :
       commands'[i] = Submission(c) => \E k \in DOMAIN commands : commands[k] = Submission(c)

\* Nothing happens to c's request itself.
LEMMA OnceKept ==
  ASSUME NEW c \in Client, SubmittedOnce(c), NoAnswers(c), NoSubmission(c),
         handler'[c] = handler[c] \/ (handler[c] # "new" /\ handler'[c] = "gone"),
         c \in live' => c \in live,
         c \notin live => made'[c] = made[c],
         channel'[c].retired => channel[c].retired
  PROVE  SubmittedOnce(c)'
<1>1. Fresh(c) => Fresh(c)'
  BY DEF Fresh, NoAnswers, Answers
<1>2. handler'[c] = "new" => Fresh(c)'
  BY <1>1 DEF SubmittedOnce
<1>3. ASSUME NEW i \in DOMAIN commands', commands'[i] = Submission(c)
      PROVE  handler'[c] \in {"waiting", "gone"} /\ Fresh(c)'
  BY <1>1, <1>3 DEF SubmittedOnce, NoSubmission
<1> QED
  BY <1>2, <1>3 DEF SubmittedOnce, NoSubmission

LEMMA FlightKept ==
  ASSUME NEW c \in Client, InFlight(c), NoAnswers(c),
         c \in live' => c \in live,
         channel'[c].retired => channel[c].retired
  PROVE  InFlight(c)'
BY DEF InFlight, NoAnswers, Answers

\* The callbacks grow by a sequence of which no element answers c.
LEMMA PostedWithoutAnswers ==
  ASSUME NEW c \in Client, ready \in Seq(Callbacks), NEW more \in Seq(Callbacks),
         ready' = ready \o more, \A k \in DOMAIN more : more[k] \notin Answers(c)
  PROVE  NoAnswers(c)
BY ConcatAt DEF NoAnswers

\* As they grow, whoever is to learn an id still finds its stream.
LEMMA ReachedGrown ==
  ASSUME NEW c \in Client, Reached(c), ready \in Seq(Callbacks),
         NEW more \in Seq(Callbacks), ready' = ready \o more,
         \A k \in DOMAIN more : more[k] # Callback("id", c),
         handler'[c] = handler[c] \/ handler'[c] = "gone",
         c \in streams => c \in streams',
         stopping => stopping'
  PROVE  Reached(c)'
<1>1. handler'[c] \in {"answered", "streaming"} => c \in streams' \/ stopping'
  BY DEF Reached
<1>2. ASSUME handler'[c] = "waiting", NEW i \in DOMAIN ready', ready'[i] = Callback("id", c)
      PROVE  \/ c \in streams'
             \/ stopping'
             \/ \E j \in DOMAIN ready' : j < i /\ ready'[j] = Callback("register", c)
  <2>1. i \in DOMAIN ready /\ ready[i] = Callback("id", c)
    BY <1>2, ConcatAt
  <2>2. \/ c \in streams
        \/ stopping
        \/ \E j \in DOMAIN ready : j < i /\ ready[j] = Callback("register", c)
    BY <1>2, <2>1 DEF Reached
  <2> QED
    BY <2>2, ConcatAt
<1> QED
  BY <1>1, <1>2 DEF Reached

\* The request of c keeps its owner.
CancelStays(c) ==
  \A i \in DOMAIN commands :
    commands[i] = Cancellation(c) =>
      \E k \in DOMAIN commands' : commands'[k] = Cancellation(c)

LEMMA OwnedKept ==
  ASSUME NEW c \in Client, Owned(c), CancelStays(c),
         c \in live' => c \in live,
         handler'[c] = handler[c] \/ handler'[c] \in {"answered", "streaming", "gone"},
         stopping => stopping'
  PROVE  Owned(c)'
BY DEF Owned, CancelStays

\* The commands grow by a sequence without a submission of c.
LEMMA CommandsGrown ==
  ASSUME NEW c \in Client, SubmittedOnce(c), commands \in Seq(Commands),
         NEW more \in Seq(Commands), commands' = commands \o more,
         \A k \in DOMAIN more : more[k] # Submission(c)
  PROVE  NoSubmission(c) /\ CancelStays(c)
<1>1. \A i \in DOMAIN commands : i \in DOMAIN commands' /\ commands'[i] = commands[i]
  BY ConcatAt
<1>2. \A i \in DOMAIN commands' :
        commands'[i] = Submission(c) => i \in DOMAIN commands /\ commands[i] = Submission(c)
  BY ConcatAt
<1> QED
  BY <1>1, <1>2 DEF NoSubmission, CancelStays, SubmittedOnce

\* Whoever an action of a handler is not about is left alone.
LEMMA OthersKept ==
  ASSUME NEW c \in Client, OfClient(c), Shape,
         UNCHANGED <<ready, live, made, stopping>>,
         handler'[c] = handler[c], channel'[c] = channel[c],
         c \in streams => c \in streams',
         NEW more \in Seq(Commands), commands' = commands \o more,
         \A k \in DOMAIN more : more[k] # Submission(c)
  PROVE  OfClient(c)'
<1>1. NoSubmission(c) /\ CancelStays(c)
  BY CommandsGrown DEF OfClient, Shape
<1>2. NoAnswers(c)
  BY DEF NoAnswers
<1>3. SubmittedOnce(c)'
  BY <1>1, <1>2, OnceKept DEF OfClient
<1>4. InFlight(c)'
  BY <1>2, FlightKept DEF OfClient
<1>5. Reached(c)'
  BY DEF OfClient, Reached
<1>6. Owned(c)'
  BY <1>1, OwnedKept DEF OfClient
<1> QED
  BY <1>3, <1>4, <1>5, <1>6 DEF OfClient

-----------------------------------------------------------------------------
(* The handlers. *)

LEMMA NothingAdded ==
  ASSUME NEW S, NEW s \in Seq(S)
  PROVE  /\ << >> \in Seq(S) /\ s \o << >> = s
         /\ \A k \in DOMAIN << >> : FALSE
BY ConcatEmptySeq, EmptySeq

LEMMA SubmitIInv ==
  ASSUME IInv, NEW c \in Client, Submit(c)
  PROVE  IInv'
<1> USE DEF IInv
<1>1. Shape /\ Stops /\ Submission(c) \in Commands
  BY DEF Submission, Commands
<1>2. Shape'
  <2>1. commands' \in Seq(Commands)
    <3>1. Append(commands, Submission(c)) \in Seq(Commands)
      BY <1>1, AppendAt DEF Shape
    <3>2. commands' = Append(commands, Submission(c)) \/ commands' = commands
      BY DEF Submit
    <3> QED
      BY <1>1, <3>1, <3>2 DEF Shape
  <2>2. handler' \in [Client -> {"new", "waiting", "answered", "streaming", "over", "gone"}]
    BY <1>1 DEF Submit, Shape
  <2> QED
    BY <1>1, <2>1, <2>2 DEF Submit, Shape, engineVars
<1>3. Stops'
  BY <1>1 DEF Submit, Stops
<1>4. /\ handler[c] = "new" /\ Fresh(c)
      /\ UNCHANGED <<streams, channel, ready, stopping, live, made>>
      /\ \A i \in DOMAIN commands : commands[i] # Submission(c)
  BY DEF Submit, engineVars, OfClient, SubmittedOnce
<1>5. Fresh(c)' /\ c \notin live'
  BY <1>4 DEF Fresh
<1>6. InFlight(c)' /\ Owned(c)'
  BY <1>5 DEF InFlight, Owned
<1>7. ASSUME lifecycle = "started" PROVE IInv'
  <2>1. handler' = [handler EXCEPT ![c] = "waiting"] /\ commands' = Append(commands, Submission(c))
    BY <1>7 DEF Submit
  <2>2. handler'[c] = "waiting"
    BY <1>1, <2>1 DEF Shape
  <2>3. SubmittedOnce(c)'
    <3>1. ASSUME NEW i \in DOMAIN commands', commands'[i] = Submission(c)
          PROVE  i = Len(commands) + 1
      BY <1>1, <1>4, <2>1, <3>1, AppendProperties, LenProperties DEF Shape
    <3> QED
      BY <1>5, <2>2, <3>1 DEF SubmittedOnce
  <2>4. Reached(c)'
    BY <1>4, <2>2 DEF Reached, Fresh
  <2>5. ASSUME NEW d \in Client, d # c PROVE OfClient(d)'
    <3>1. <<Submission(c)>> \in Seq(Commands) /\ commands' = commands \o <<Submission(c)>>
      BY <1>1, <2>1, AppendIsConcat DEF Shape
    <3>2. \A k \in DOMAIN <<Submission(c)>> : <<Submission(c)>>[k] # Submission(d)
      BY <2>5 DEF Submission
    <3>3. handler'[d] = handler[d]
      BY <1>1, <2>1, <2>5 DEF Shape
    <3> QED
      BY <1>1, <1>4, <3>1, <3>2, <3>3, OthersKept
  <2> QED
    BY <1>2, <1>3, <1>6, <2>3, <2>4, <2>5 DEF OfClient
<1>8. ASSUME lifecycle # "started" PROVE IInv'
  <2>1. handler' = [handler EXCEPT ![c] = "over"] /\ commands' = commands
    BY <1>8 DEF Submit
  <2>2. handler'[c] = "over"
    BY <1>1, <2>1 DEF Shape
  <2>3. SubmittedOnce(c)' /\ Reached(c)'
    BY <1>4, <2>1, <2>2 DEF SubmittedOnce, Reached
  <2>4. ASSUME NEW d \in Client, d # c PROVE OfClient(d)'
    <3>1. handler'[d] = handler[d]
      BY <1>1, <2>1, <2>4 DEF Shape
    <3>2. /\ << >> \in Seq(Commands) /\ commands' = commands \o << >>
          /\ \A k \in DOMAIN << >> : << >>[k] # Submission(d)
      BY <1>1, <2>1, NothingAdded DEF Shape
    <3> QED
      BY <1>1, <1>4, <3>1, <3>2, OthersKept
  <2> QED
    BY <1>2, <1>3, <1>6, <2>3, <2>4 DEF OfClient
<1> QED
  BY <1>7, <1>8

\* A handler's action is about its own request: the others are left alone.
LEMMA HandlerIInv ==
  ASSUME IInv, NEW c \in Client, OfClient(c)',
         UNCHANGED <<ready, worker, stopping, lifecycle, engineVars, faults, missed>>,
         NEW h \in {"answered", "streaming", "over", "gone"},
         handler' = [handler EXCEPT ![c] = h],
         got' \in [Client -> Seq(1 .. MaxTokens)],
         streams' \subseteq streams, streams \ {c} \subseteq streams',
         channel' \in [Client -> [items : Seq(Items), done : BOOLEAN, retired : BOOLEAN]],
         \A d \in Client \ {c} : channel'[d] = channel[d],
         NEW more \in Seq(Commands), commands' = commands \o more,
         \A k \in DOMAIN more : more[k] = Cancellation(c)
  PROVE  IInv'
<1>1. Shape /\ Stops /\ \A d \in Client : OfClient(d)
  BY DEF IInv
<1>2. Shape'
  <2>1. commands' \in Seq(Commands)
    BY <1>1, ConcatAt DEF Shape
  <2>2. IsFiniteSet(streams')
    BY <1>1, FS_Subset DEF Shape
  <2>3. handler' \in [Client -> {"new", "waiting", "answered", "streaming", "over", "gone"}]
    BY <1>1 DEF Shape
  <2> QED
    BY <1>1, <2>1, <2>2, <2>3 DEF Shape, engineVars
<1>3. Stops'
  BY <1>1 DEF Stops
<1>4. ASSUME NEW d \in Client, d # c PROVE OfClient(d)'
  <2>1. handler'[d] = handler[d]
    BY <1>1, <1>4 DEF Shape
  <2>2. \A k \in DOMAIN more : more[k] # Submission(d)
    BY DEF Cancellation, Submission
  <2>3. UNCHANGED <<ready, live, made, stopping>> /\ channel'[d] = channel[d]
        /\ (d \in streams => d \in streams')
    BY <1>4 DEF engineVars
  <2> QED
    BY <1>1, <2>1, <2>2, <2>3, OthersKept
<1> QED
  BY <1>2, <1>3, <1>4 DEF IInv

LEMMA VanishIInv ==
  ASSUME IInv, NEW c \in Client, Vanish(c)
  PROVE  IInv'
<1>1. Shape /\ OfClient(c)
  BY DEF IInv
<1>2. handler'[c] = "gone" /\ UNCHANGED <<streams, channel, ready, commands, stopping, live, made>>
  BY <1>1 DEF Vanish, Shape, engineVars
<1>3. OfClient(c)'
  <2>1. NoAnswers(c) /\ NoSubmission(c) /\ CancelStays(c)
    BY <1>1, <1>2 DEF OfClient, NoAnswers, NoSubmission, CancelStays, SubmittedOnce
  <2>2. handler[c] # "new"
    BY DEF Vanish
  <2>3. SubmittedOnce(c)' /\ InFlight(c)' /\ Owned(c)'
    BY <1>1, <1>2, <2>1, <2>2, OnceKept, FlightKept, OwnedKept DEF OfClient
  <2> QED
    BY <1>2, <2>3 DEF OfClient, Reached
<1>4. << >> \in Seq(Commands) /\ commands' = commands \o << >> /\ \A k \in DOMAIN << >> : FALSE
  BY <1>1, <1>2, NothingAdded DEF Shape
<1> QED
  BY <1>1, <1>2, <1>3, <1>4, HandlerIInv DEF Vanish, Shape

LEMMA OpenIInv ==
  ASSUME IInv, NEW c \in Client, Open(c)
  PROVE  IInv'
<1>1. Shape /\ OfClient(c)
  BY DEF IInv
<1>2. /\ handler[c] = "answered"
      /\ handler'[c] = IF c \in streams THEN "streaming" ELSE "over"
      /\ UNCHANGED <<streams, channel, ready, commands, stopping, live, made>>
  BY <1>1 DEF Open, Shape, engineVars
<1>3. OfClient(c)'
  <2>1. NoAnswers(c) /\ NoSubmission(c) /\ CancelStays(c)
    BY <1>1, <1>2 DEF OfClient, NoAnswers, NoSubmission, CancelStays, SubmittedOnce
  <2>2. SubmittedOnce(c)'
    BY <1>1, <1>2 DEF OfClient, SubmittedOnce
  <2>3. InFlight(c)'
    BY <1>1, <1>2, <2>1, FlightKept DEF OfClient
  <2>4. Reached(c)' /\ Owned(c)'
    BY <1>1, <1>2 DEF OfClient, Reached, Owned
  <2> QED
    BY <2>2, <2>3, <2>4 DEF OfClient
<1>4. << >> \in Seq(Commands) /\ commands' = commands \o << >> /\ \A k \in DOMAIN << >> : FALSE
  BY <1>1, <1>2, NothingAdded DEF Shape
<1>5. PICK h \in {"answered", "streaming", "over", "gone"} : handler' = [handler EXCEPT ![c] = h]
  BY DEF Open
<1>6. /\ UNCHANGED <<ready, worker, stopping, lifecycle, engineVars, faults, missed>>
      /\ UNCHANGED <<got, channel, streams>>
  BY DEF Open
<1>7. /\ got' \in [Client -> Seq(1 .. MaxTokens)]
      /\ channel' \in [Client -> [items : Seq(Items), done : BOOLEAN, retired : BOOLEAN]]
  BY <1>1, <1>6 DEF Shape
<1> QED
  BY <1>3, <1>4, <1>5, <1>6, <1>7, HandlerIInv

\* What a handler posts behind its last item, and the cancel it may owe.
LEMMA ReleaseIInv ==
  ASSUME IInv, NEW c \in Client, handler[c] = "streaming",
         NEW posted \in {<< >>, <<Cancellation(c)>>}, Release(c, posted),
         UNCHANGED <<ready, worker, stopping, lifecycle, engineVars, faults, missed>>
  PROVE  IInv'
<1> DEFINE due == IF c \in streams /\ ~channel[c].retired THEN <<Cancellation(c)>> ELSE << >>
<1>1. Shape /\ OfClient(c)
  BY DEF IInv
<1>2. /\ handler' = [handler EXCEPT ![c] = "over"]
      /\ got' = [got EXCEPT ![c] = << >>]
      /\ streams' = streams \ {c}
      /\ channel' = [channel EXCEPT ![c] = NewChannel]
      /\ commands' = (commands \o posted) \o due
      /\ UNCHANGED <<live, made>>
  BY DEF Release, engineVars
<1>3. /\ handler'[c] = "over"
      /\ ~channel'[c].retired
      /\ \A d \in Client \ {c} : channel'[d] = channel[d]
  BY <1>1, <1>2 DEF Shape, NewChannel
<1>4. /\ got' \in [Client -> Seq(1 .. MaxTokens)]
      /\ channel' \in [Client -> [items : Seq(Items), done : BOOLEAN, retired : BOOLEAN]]
  <2>1. << >> \in Seq(1 .. MaxTokens) /\ << >> \in Seq(Items)
    OBVIOUS
  <2>2. NewChannel \in [items : Seq(Items), done : BOOLEAN, retired : BOOLEAN]
    BY <2>1 DEF NewChannel
  <2> QED
    BY <1>1, <1>2, <2>1, <2>2 DEF Shape
<1>5. /\ posted \in Seq(Commands) /\ due \in Seq(Commands)
      /\ \A k \in DOMAIN posted : posted[k] = Cancellation(c)
      /\ \A k \in DOMAIN due : due[k] = Cancellation(c)
  <2>1. Cancellation(c) \in Commands
    BY DEF Commands, Cancellation
  <2>2. /\ << >> \in Seq(Commands) /\ <<Cancellation(c)>> \in Seq(Commands)
        /\ \A k \in DOMAIN <<Cancellation(c)>> : <<Cancellation(c)>>[k] = Cancellation(c)
        /\ \A k \in DOMAIN << >> : FALSE
    BY <2>1
  <2>3. posted = << >> \/ posted = <<Cancellation(c)>>
    OBVIOUS
  <2>4. due = << >> \/ due = <<Cancellation(c)>>
    OBVIOUS
  <2> HIDE DEF due
  <2> QED
    BY <2>2, <2>3, <2>4, Zenon
<1> HIDE DEF due
<1>6. /\ posted \o due \in Seq(Commands)
      /\ commands' = commands \o (posted \o due)
      /\ \A k \in DOMAIN (posted \o due) : (posted \o due)[k] = Cancellation(c)
  <2>1. posted \o due \in Seq(Commands)
    BY <1>5, ConcatAt
  <2>2. commands' = commands \o (posted \o due)
    <3>1. commands \in Seq(Commands)
      BY <1>1 DEF Shape
    <3>2. (commands \o posted) \o due = commands \o (posted \o due)
      <4>1. posted \in Seq(Commands) /\ due \in Seq(Commands)
        BY <1>5
      <4> HIDE DEF Commands
      <4> QED
        BY <3>1, <4>1, ConcatAssociative
    <3> QED
      BY <1>2, <3>2
  <2>3. ASSUME NEW k \in DOMAIN (posted \o due) PROVE (posted \o due)[k] = Cancellation(c)
    <3>1. \/ k \in DOMAIN posted /\ (posted \o due)[k] = posted[k]
          \/ \E j \in DOMAIN due : (posted \o due)[k] = due[j]
      BY <1>5, <2>3, ConcatAt, Zenon
    <3> QED
      BY <1>5, <3>1, Zenon
  <2> QED
    BY <2>1, <2>2, <2>3
<1>7. NoAnswers(c) /\ NoSubmission(c) /\ CancelStays(c)
  <2>1. \A k \in DOMAIN (posted \o due) : (posted \o due)[k] # Submission(c)
    BY <1>6 DEF Cancellation, Submission
  <2> QED
    BY <1>1, <1>6, <2>1, CommandsGrown DEF Shape, OfClient, NoAnswers
<1>8. OfClient(c)'
  <2>1. SubmittedOnce(c)'
    BY <1>1, <1>3, <1>7 DEF OfClient, SubmittedOnce, NoSubmission
  <2>2. InFlight(c)'
    BY <1>1, <1>2, <1>3, <1>7, FlightKept DEF OfClient
  <2>3. Reached(c)'
    BY <1>3 DEF Reached
  <2>4. ASSUME c \in live', ~stopping' PROVE \E i \in DOMAIN commands' : commands'[i] = Cancellation(c)
    <3>1. c \in streams /\ ~channel[c].retired
      BY <1>1, <1>2, <2>4 DEF OfClient, Reached, InFlight
    <3>2. due = <<Cancellation(c)>>
      BY <3>1 DEF due
    <3>3. commands \o posted \in Seq(Commands) /\ Cancellation(c) \in Commands
      BY <1>1, <1>5, ConcatAt DEF Shape, Commands, Cancellation
    <3>4. commands' = Append(commands \o posted, Cancellation(c))
      BY <1>2, <3>2, <3>3, AppendIsConcat
    <3> QED
      BY <3>3, <3>4, AppendAt
  <2> QED
    BY <2>1, <2>2, <2>3, <2>4 DEF OfClient, Owned
<1> QED
  BY <1>2, <1>3, <1>4, <1>6, <1>8, HandlerIInv

LEMMA HangUpIInv ==
  ASSUME IInv, NEW c \in Client, HangUp(c)
  PROVE  IInv'
<1>1. /\ handler[c] = "streaming"
      /\ UNCHANGED <<ready, worker, stopping, lifecycle, engineVars, faults, missed>>
  BY DEF HangUp
<1>2. PICK posted \in {<< >>, <<Cancellation(c)>>} : Release(c, posted)
  BY DEF HangUp
<1> QED
  BY <1>1, <1>2, ReleaseIInv

LEMMA ReadIInv ==
  ASSUME IInv, NEW c \in Client, Read(c)
  PROVE  IInv'
<1> DEFINE item == Head(channel[c].items)
<1>1. Shape /\ OfClient(c)
  BY DEF IInv
<1>2. /\ handler[c] = "streaming"
      /\ channel[c].items # << >>
      /\ UNCHANGED <<ready, worker, stopping, lifecycle, engineVars, faults, missed>>
  BY DEF Read
<1>3. CASE ~(item.kind = "output" /\ ~item.fin)
  BY <1>2, <1>3, ReleaseIInv DEF Read
<1>4. CASE item.kind = "output" /\ ~item.fin
  <2>1. /\ channel' = [channel EXCEPT ![c].items = Tail(@)]
        /\ got' = [got EXCEPT ![c] = Append(@, item.n)]
        /\ UNCHANGED <<handler, streams, commands>>
    BY <1>4 DEF Read
  <2>2. channel[c] \in [items : Seq(Items), done : BOOLEAN, retired : BOOLEAN]
    BY <1>1 DEF Shape
  <2>3. item \in Items /\ Tail(channel[c].items) \in Seq(Items)
    BY <1>2, <2>2, TailAt
  <2>4. item.n \in 1 .. MaxTokens
    BY <1>4, <2>3 DEF Items, End, Failure
  <2>5. got' \in [Client -> Seq(1 .. MaxTokens)]
    <3>1. Append(got[c], item.n) \in Seq(1 .. MaxTokens)
      BY <1>1, <2>4, AppendProperties DEF Shape
    <3> QED
      BY <1>1, <2>1, <3>1 DEF Shape
  <2>6. /\ channel' \in [Client -> [items : Seq(Items), done : BOOLEAN, retired : BOOLEAN]]
        /\ channel'[c].retired = channel[c].retired
        /\ \A d \in Client \ {c} : channel'[d] = channel[d]
    BY <1>1, <2>1, <2>2, <2>3 DEF Shape
  <2>7. /\ << >> \in Seq(Commands) /\ commands' = commands \o << >>
        /\ \A k \in DOMAIN << >> : << >>[k] = Cancellation(c)
    BY <1>1, <2>1, NothingAdded DEF Shape
  <2>8. handler' = [handler EXCEPT ![c] = "streaming"]
    BY <1>1, <1>2, <2>1 DEF Shape
  <2>9. OfClient(c)'
    <3>1. NoAnswers(c) /\ NoSubmission(c) /\ CancelStays(c)
      BY <1>1, <1>2, <2>1 DEF OfClient, NoAnswers, NoSubmission, CancelStays, SubmittedOnce
    <3>2. UNCHANGED <<live, made, handler, streams, stopping, ready>>
      BY <1>2, <2>1 DEF engineVars
    <3>3. SubmittedOnce(c)' /\ InFlight(c)' /\ Owned(c)'
      BY <1>1, <2>6, <3>1, <3>2, OnceKept, FlightKept, OwnedKept DEF OfClient
    <3>4. Reached(c)'
      BY <1>1, <3>2 DEF OfClient, Reached
    <3> QED
      BY <3>3, <3>4 DEF OfClient
  <2> QED
    BY <1>2, <2>1, <2>5, <2>6, <2>7, <2>8, <2>9, HandlerIInv
<1> QED
  BY <1>3, <1>4

-----------------------------------------------------------------------------
(* stop() and the worker: they do not touch what the loop owns. *)

LEMMA WorkerKept ==
  ASSUME NEW c \in Client, OfClient(c), Shape,
         UNCHANGED <<handler, streams, channel>>,
         c \in live' => c \in live,
         c \notin live => made'[c] = made[c],
         NEW more \in Seq(Callbacks), ready' = ready \o more,
         \A k \in DOMAIN more : more[k] \notin Answers(c),
         NoSubmission(c), CancelStays(c),
         stopping => stopping'
  PROVE  OfClient(c)'
<1>1. ready \in Seq(Callbacks)
  BY DEF Shape
<1>2. NoAnswers(c)
  BY <1>1, PostedWithoutAnswers
<1>3. SubmittedOnce(c)' /\ InFlight(c)' /\ Owned(c)'
  BY <1>2, OnceKept, FlightKept, OwnedKept DEF OfClient
<1>4. Reached(c)'
  <2>1. \A k \in DOMAIN more : more[k] # Callback("id", c)
    BY DEF Answers
  <2> QED
    BY <1>1, <2>1, ReachedGrown DEF OfClient
<1> QED
  BY <1>3, <1>4 DEF OfClient

LEMMA CommandsSame ==
  ASSUME NEW c \in Client, SubmittedOnce(c), UNCHANGED commands
  PROVE  NoSubmission(c) /\ CancelStays(c)
BY DEF NoSubmission, CancelStays, SubmittedOnce

LEMMA CallbacksSame ==
  ASSUME Shape, UNCHANGED ready, NEW c
  PROVE  /\ << >> \in Seq(Callbacks) /\ ready' = ready \o << >>
         /\ \A k \in DOMAIN << >> : << >>[k] \notin Answers(c)
BY NothingAdded DEF Shape

LEMMA StartIInv ==
  ASSUME IInv, Start
  PROVE  IInv'
<1>1. Shape /\ Stops /\ \A c \in Client : OfClient(c)
  BY DEF IInv
<1>2. UNCHANGED <<handler, got, streams, channel, ready, commands, stopping, live, stuck, made>>
  BY DEF Start, loopVars, engineVars
<1>3. Shape' /\ Stops'
  BY <1>1, <1>2 DEF Start, Shape, Stops
<1>4. ASSUME NEW c \in Client PROVE OfClient(c)'
  <2>1. OfClient(c) /\ NoSubmission(c) /\ CancelStays(c)
    BY <1>1, <1>2, CommandsSame DEF OfClient
  <2> QED
    BY <1>1, <1>2, <2>1, CallbacksSame, WorkerKept
<1> QED
  BY <1>3, <1>4 DEF IInv

LEMMA BeginStopIInv ==
  ASSUME IInv, BeginStop
  PROVE  IInv'
<1>1. Shape /\ Stops /\ \A c \in Client : OfClient(c)
  BY DEF IInv
<1>2. /\ UNCHANGED <<handler, got, streams, channel, ready, worker, live, stuck, made, faults, missed>>
      /\ stopping' /\ stopping' = TRUE /\ lifecycle' = "joining"
      /\ commands' = Append(commands, Stop)
  BY DEF BeginStop, loopVars, engineVars
<1>3. Stop \in Commands /\ <<Stop>> \in Seq(Commands) /\ commands' = commands \o <<Stop>>
  BY <1>1, <1>2, AppendIsConcat DEF Shape, Commands
<1>4. Shape' /\ Stops'
  <2>1. commands' \in Seq(Commands)
    BY <1>1, <1>2, <1>3, AppendAt DEF Shape
  <2> QED
    BY <1>1, <1>2, <2>1 DEF Shape, Stops
<1>5. ASSUME NEW c \in Client PROVE OfClient(c)'
  <2>1. \A k \in DOMAIN <<Stop>> : <<Stop>>[k] # Submission(c)
    BY DEF Stop, Submission
  <2>2. OfClient(c) /\ NoSubmission(c) /\ CancelStays(c)
    BY <1>1, <1>3, <2>1, CommandsGrown DEF OfClient, Shape
  <2> QED
    BY <1>1, <1>2, <2>2, CallbacksSame, WorkerKept
<1> QED
  BY <1>4, <1>5 DEF IInv

LEMMA JoinReturnsIInv ==
  ASSUME IInv, JoinReturns
  PROVE  IInv'
<1>1. Shape /\ Stops /\ \A c \in Client : OfClient(c)
  BY DEF IInv
<1>2. /\ UNCHANGED <<handler, got, streams, channel, commands, worker, stopping, live, stuck, made, faults>>
      /\ lifecycle = "joining" /\ lifecycle' = "joined"
      /\ ready' = Append(ready, Joined)
      /\ missed' = missed \/ missed' = Client
  BY DEF JoinReturns, loopVars, engineVars
<1>3. Joined \in Callbacks /\ <<Joined>> \in Seq(Callbacks) /\ ready' = ready \o <<Joined>>
  BY <1>1, <1>2, AppendIsConcat DEF Shape, Callbacks
<1>4. Shape' /\ Stops'
  <2>1. ready' \in Seq(Callbacks)
    BY <1>1, <1>2, <1>3, AppendAt DEF Shape
  <2>2. missed' \subseteq Client
    BY <1>1, <1>2 DEF Shape
  <2>3. stopping'
    BY <1>1, <1>2 DEF Stops
  <2> QED
    BY <1>1, <1>2, <2>1, <2>2, <2>3 DEF Shape, Stops
<1>5. ASSUME NEW c \in Client PROVE OfClient(c)'
  <2>1. OfClient(c) /\ NoSubmission(c) /\ CancelStays(c)
    BY <1>1, <1>2, CommandsSame DEF OfClient
  <2>2. \A k \in DOMAIN <<Joined>> : <<Joined>>[k] \notin Answers(c)
    BY AnswersAreAbout DEF Joined
  <2> QED
    BY <1>1, <1>2, <1>3, <2>1, <2>2, WorkerKept
<1> QED
  BY <1>4, <1>5 DEF IInv

LEMMA DrainedIInv ==
  ASSUME IInv, Drained
  PROVE  IInv'
<1>1. Shape /\ Stops /\ \A c \in Client : OfClient(c)
  BY DEF IInv
<1>2. /\ UNCHANGED <<handler, got, streams, channel, ready, commands, stopping, lifecycle,
                     live, stuck, made, faults, missed>>
      /\ worker' \in {"off", "idle", "step"}
  BY DEF Drained, loopVars, engineVars
<1>3. Shape' /\ Stops'
  BY <1>1, <1>2 DEF Shape, Stops
<1>4. ASSUME NEW c \in Client PROVE OfClient(c)'
  <2>1. OfClient(c) /\ NoSubmission(c) /\ CancelStays(c)
    BY <1>1, <1>2, CommandsSame DEF OfClient
  <2> QED
    BY <1>1, <1>2, <2>1, CallbacksSame, WorkerKept
<1> QED
  BY <1>3, <1>4 DEF IInv

-----------------------------------------------------------------------------
(* The worker applies a command. *)

LEMMA Consumed ==
  ASSUME NEW c \in Client, SubmittedOnce(c), commands \in Seq(Commands),
         commands # << >>, commands' = Tail(commands)
  PROVE  /\ NoSubmission(c)
         /\ Head(commands) # Cancellation(c) => CancelStays(c)
         /\ Head(commands) = Submission(c) =>
              \A i \in DOMAIN commands' : commands'[i] # Submission(c)
<1>1. /\ 1 \in DOMAIN commands /\ Head(commands) = commands[1]
      /\ \A i \in DOMAIN commands' :
           i \in Int /\ i + 1 \in DOMAIN commands /\ commands'[i] = commands[i + 1]
      /\ \A i \in DOMAIN commands :
           i = 1 \/ (i - 1 \in DOMAIN commands' /\ commands'[i - 1] = commands[i])
  BY TailAt
<1>2. \A i \in DOMAIN commands' : i >= 1
  BY <1>1, TailAt, LenProperties
<1>3. NoSubmission(c)
  BY <1>1 DEF NoSubmission, SubmittedOnce
<1>4. Head(commands) # Cancellation(c) => CancelStays(c)
  BY <1>1 DEF CancelStays
<1>5. ASSUME Head(commands) = Submission(c), NEW i \in DOMAIN commands',
             commands'[i] = Submission(c)
      PROVE  FALSE
  <2>1. commands[1] = Submission(c) /\ commands[i + 1] = Submission(c) /\ i + 1 \in DOMAIN commands
    BY <1>1, <1>5
  <2>2. 1 = i + 1
    BY <1>1, <2>1 DEF SubmittedOnce
  <2> QED
    BY <1>1, <1>2, <1>5, <2>2
<1> QED
  BY <1>3, <1>4, <1>5

\* An item of the queue other than the sentinel.
LEMMA CommandShape ==
  ASSUME NEW cmd \in Commands, cmd # Stop
  PROVE  /\ cmd.c \in Client
         /\ cmd.kind = "submit" => cmd = Submission(cmd.c)
         /\ cmd.kind = "cancel" => cmd = Cancellation(cmd.c)
BY DEF Commands, Submission, Cancellation

LEMMA AdmitIInv ==
  ASSUME IInv, NEW a \in Client, Head(commands) = Submission(a), commands # << >>,
         commands' = Tail(commands), Admit(a),
         worker' \in {"off", "drain", "idle", "step"},
         UNCHANGED <<loopVars, stopping, lifecycle, faults, missed>>
  PROVE  IInv'
<1> DEFINE more == <<Callback("register", a), Callback("id", a)>>
<1>1. Shape /\ Stops /\ \A c \in Client : OfClient(c)
  BY DEF IInv
<1>2. /\ UNCHANGED <<handler, got, streams, channel, stopping, lifecycle, stuck, made, faults, missed>>
      /\ live' = live \cup {a}
      /\ ready' = ready \o more
  BY DEF Admit, loopVars
<1>3. /\ ready \in Seq(Callbacks) /\ commands \in Seq(Commands)
      /\ commands' \in Seq(Commands)
  BY <1>1, TailAt DEF Shape
<1>4. /\ Callback("register", a) \in Callbacks /\ Callback("id", a) \in Callbacks
      /\ more \in Seq(Callbacks) /\ DOMAIN more = {1, 2}
      /\ more[1] = Callback("register", a) /\ more[2] = Callback("id", a)
  <2>1. Callback("register", a) \in Callbacks /\ Callback("id", a) \in Callbacks
    BY DEF Callback, Callbacks
  <2> QED
    BY <2>1
<1> HIDE DEF more
<1>5. handler[a] \in {"waiting", "gone"} /\ Fresh(a)
  BY <1>1, <1>3, TailAt DEF OfClient, SubmittedOnce
<1>6. Shape'
  <2>1. ready' \in Seq(Callbacks)
    BY <1>2, <1>3, <1>4, ConcatAt
  <2>2. live' \subseteq Client /\ IsFiniteSet(live') /\ stuck' \subseteq live'
    BY <1>1, <1>2, FS_AddElement DEF Shape
  <2>3. \A c \in live' : made'[c] < MaxTokens
    BY <1>1, <1>2, <1>5, AsyncAssumption DEF Shape, Fresh
  <2> QED
    BY <1>1, <1>2, <1>3, <2>1, <2>2, <2>3 DEF Shape
<1>7. Stops'
  <2>1. \A k \in DOMAIN more : more[k] # Joined
    BY <1>4 DEF Callback, Joined
  <2> QED
    BY <1>1, <1>2, <1>3, <1>4, <2>1, ConcatAt DEF Stops
<1>8. ASSUME NEW c \in Client, c # a PROVE OfClient(c)'
  <2>1. Head(commands) # Cancellation(c)
    BY DEF Submission, Cancellation
  <2>2. NoSubmission(c) /\ CancelStays(c)
    BY <1>1, <1>3, <2>1, Consumed DEF OfClient
  <2>3. \A k \in DOMAIN more : more[k] \notin Answers(c)
    BY <1>4, <1>8, AnswersAreAbout DEF Callback
  <2>4. /\ UNCHANGED <<handler, streams, channel>>
        /\ c \in live' => c \in live
        /\ c \notin live => made'[c] = made[c]
        /\ stopping => stopping'
    BY <1>2, <1>8
  <2> QED
    BY <1>1, <1>2, <1>4, <2>2, <2>3, <2>4, WorkerKept
<1>9. OfClient(a)'
  <2>1. \A i \in DOMAIN commands' : commands'[i] # Submission(a)
    BY <1>1, <1>3, Consumed DEF OfClient
  <2>2. SubmittedOnce(a)'
    BY <1>2, <1>5, <2>1 DEF SubmittedOnce
  <2>3. ASSUME NEW i \in DOMAIN ready', ready'[i] \in {Callback("refused", a)} \cup LastOutputs(a)
        PROVE  FALSE
    <3>1. CASE i \in DOMAIN ready
      BY <1>2, <1>3, <1>4, <1>5, <2>3, <3>1, ConcatAt DEF Fresh
    <3>2. CASE i \notin DOMAIN ready
      <4>1. ready'[i] \in {Callback("register", a), Callback("id", a)}
        BY <1>2, <1>3, <1>4, <3>2, ConcatAt
      <4>2. ready'[i].fn \in {"register", "id"}
        BY <4>1 DEF Callback
      <4>3. ready'[i].fn \in {"refused", "deliver"}
        <5>1. ready'[i] = Callback("refused", a) => ready'[i].fn = "refused"
          BY DEF Callback
        <5>2. \A b \in LastOutputs(a) : b.fn = "deliver"
          BY DEF LastOutputs
        <5> QED
          BY <2>3, <5>1, <5>2
      <4> QED
        BY <4>2, <4>3
    <3> QED
      BY <3>1, <3>2
  <2>4. InFlight(a)'
    BY <1>2, <1>5, <2>3 DEF InFlight, Fresh
  <2>5. ASSUME NEW i \in DOMAIN ready', ready'[i] = Callback("id", a)
        PROVE  \E j \in DOMAIN ready' : j < i /\ ready'[j] = Callback("register", a)
    <3>1. i \notin DOMAIN ready
      BY <1>2, <1>3, <1>4, <1>5, <2>5, ConcatAt DEF Fresh
    <3>2. PICK k \in {1, 2} : i = Len(ready) + k /\ ready'[i] = more[k]
      BY <1>2, <1>3, <1>4, <3>1, ConcatAt
    <3>3. k = 2
      BY <1>4, <2>5, <3>2 DEF Callback
    <3>4. Len(ready) \in Nat /\ Len(ready) + 1 \in DOMAIN ready'
          /\ ready'[Len(ready) + 1] = Callback("register", a)
      <4>1. /\ Len(ready) \in Nat /\ Len(more) = 2
            /\ Len(ready') = Len(ready) + Len(more)
            /\ DOMAIN ready' = 1 .. Len(ready')
            /\ \A j \in 1 .. Len(ready) + Len(more) :
                 ready'[j] = IF j <= Len(ready) THEN ready[j] ELSE more[j - Len(ready)]
        BY <1>2, <1>3, <1>4, <1>6, ConcatProperties, LenProperties DEF Shape
      <4> QED
        BY <1>4, <4>1
    <3> QED
      BY <3>2, <3>3, <3>4
  <2>6. Reached(a)'
    BY <1>2, <1>5, <2>5 DEF Reached
  <2>7. Owned(a)'
    BY <1>2, <1>5 DEF Owned
  <2> QED
    BY <2>2, <2>4, <2>6, <2>7 DEF OfClient
<1> QED
  BY <1>6, <1>7, <1>8, <1>9 DEF IInv

\* One callback is posted.
LEMMA PostOne ==
  ASSUME Shape, NEW b \in Callbacks, ready' = Append(ready, b)
  PROVE  /\ <<b>> \in Seq(Callbacks) /\ ready' = ready \o <<b>>
         /\ \A k \in DOMAIN <<b>> : <<b>>[k] = b
         /\ ready' \in Seq(Callbacks)
         /\ \A i \in DOMAIN ready' : (i \in DOMAIN ready /\ ready'[i] = ready[i]) \/ ready'[i] = b
<1>1. ready \in Seq(Callbacks)
  BY DEF Shape
<1>2. ready' = ready \o <<b>>
  BY <1>1, AppendIsConcat
<1>3. <<b>> \in Seq(Callbacks) /\ \A k \in DOMAIN <<b>> : <<b>>[k] = b
  OBVIOUS
<1>4. /\ ready' \in Seq(Callbacks)
      /\ \A i \in DOMAIN ready : ready'[i] = ready[i]
      /\ \A i \in DOMAIN ready' : i \in DOMAIN ready \/ ready'[i] = b
  BY <1>1, AppendAt
<1> QED
  BY <1>2, <1>3, <1>4

LEMMA RefuseIInv ==
  ASSUME IInv, NEW a \in Client, Head(commands) = Submission(a), commands # << >>,
         commands' = Tail(commands), Refuse(a),
         worker' \in {"off", "drain", "idle", "step"},
         UNCHANGED <<loopVars, stopping, lifecycle, faults, missed>>
  PROVE  IInv'
<1> DEFINE b == Callback("refused", a)
<1>1. Shape /\ Stops /\ \A c \in Client : OfClient(c)
  BY DEF IInv
<1>2. /\ UNCHANGED <<handler, got, streams, channel, stopping, lifecycle, live, stuck, made, faults, missed>>
      /\ ready' = Append(ready, b)
  BY DEF Refuse, loopVars, engineVars
<1>3. commands \in Seq(Commands) /\ commands' \in Seq(Commands)
  BY <1>1, TailAt DEF Shape
<1>4. b \in Callbacks /\ b # Joined /\ b # Callback("id", a) /\ b.fn = "refused" /\ b.c = a
  BY DEF Callbacks, Callback, Joined
<1> HIDE DEF b
<1>5. handler[a] \in {"waiting", "gone"} /\ Fresh(a)
  BY <1>1, <1>3, TailAt DEF OfClient, SubmittedOnce
<1>6. Shape' /\ Stops'
  BY <1>1, <1>2, <1>3, <1>4, PostOne DEF Shape, Stops
<1>7. ASSUME NEW c \in Client, c # a PROVE OfClient(c)'
  <2>1. Head(commands) # Cancellation(c)
    BY DEF Submission, Cancellation
  <2>2. NoSubmission(c) /\ CancelStays(c)
    BY <1>1, <1>3, <2>1, Consumed DEF OfClient
  <2>3. b \notin Answers(c)
    BY <1>4, <1>7, AnswersAreAbout
  <2>4. /\ <<b>> \in Seq(Callbacks) /\ ready' = ready \o <<b>>
        /\ \A k \in DOMAIN <<b>> : <<b>>[k] \notin Answers(c)
    BY <1>1, <1>2, <1>4, <2>3, PostOne
  <2>5. /\ UNCHANGED <<handler, streams, channel>>
        /\ c \in live' => c \in live
        /\ c \notin live => made'[c] = made[c]
        /\ stopping => stopping'
    BY <1>2
  <2> QED
    BY <1>1, <2>2, <2>4, <2>5, WorkerKept
<1>8. OfClient(a)'
  <2>1. \A i \in DOMAIN commands' : commands'[i] # Submission(a)
    BY <1>1, <1>3, Consumed DEF OfClient
  <2>2. SubmittedOnce(a)'
    BY <1>2, <1>5, <2>1 DEF SubmittedOnce
  <2>3. InFlight(a)' /\ Owned(a)'
    BY <1>2, <1>5 DEF InFlight, Owned, Fresh
  <2>4. Reached(a)'
    <3>1. /\ <<b>> \in Seq(Callbacks) /\ ready' = ready \o <<b>>
          /\ \A k \in DOMAIN <<b>> : <<b>>[k] # Callback("id", a)
      BY <1>1, <1>2, <1>4, PostOne
    <3>2. ready \in Seq(Callbacks) /\ Reached(a)
      BY <1>1 DEF Shape, OfClient
    <3>3. /\ handler'[a] = handler[a]
          /\ a \in streams => a \in streams'
          /\ stopping => stopping'
      BY <1>2
    <3> QED
      BY <3>1, <3>2, <3>3, ReachedGrown
  <2> QED
    BY <2>2, <2>3, <2>4 DEF OfClient
<1> QED
  BY <1>6, <1>7, <1>8 DEF IInv

LEMMA CancelIInv ==
  ASSUME IInv, NEW a \in Client, Head(commands) = Cancellation(a), commands # << >>,
         commands' = Tail(commands), CancelRequest(a),
         worker' \in {"off", "drain", "idle", "step"},
         UNCHANGED <<loopVars, stopping, lifecycle, faults, missed>>
  PROVE  IInv'
<1> DEFINE b == Callback("close", a)
<1>1. Shape /\ Stops /\ \A c \in Client : OfClient(c)
  BY DEF IInv
<1>2. /\ UNCHANGED <<handler, got, streams, channel, stopping, lifecycle, made, faults, missed>>
      /\ live' = live \ {a} /\ stuck' = stuck \ {a}
      /\ ready' = Append(ready, b)
  BY DEF CancelRequest, loopVars
<1>3. commands \in Seq(Commands) /\ commands' \in Seq(Commands)
  BY <1>1, TailAt DEF Shape
<1>4. b \in Callbacks /\ b # Joined /\ b.fn = "close"
  BY DEF Callbacks, Callback, Joined
<1> HIDE DEF b
<1>5. Shape' /\ Stops'
  <2>1. live' \subseteq Client /\ IsFiniteSet(live') /\ stuck' \subseteq live'
    BY <1>1, <1>2, FS_Subset DEF Shape
  <2> QED
    BY <1>1, <1>2, <1>3, <1>4, <2>1, PostOne DEF Shape, Stops
<1>6. ASSUME NEW c \in Client PROVE OfClient(c)'
  <2>1. NoSubmission(c) /\ (c # a => CancelStays(c))
    <3>1. c # a => Head(commands) # Cancellation(c)
      BY DEF Cancellation
    <3> QED
      BY <1>1, <1>3, <3>1, Consumed DEF OfClient
  <2>2. b \notin Answers(c)
    BY <1>4, AnswersAreAbout
  <2>3. /\ <<b>> \in Seq(Callbacks) /\ ready' = ready \o <<b>>
        /\ \A k \in DOMAIN <<b>> : <<b>>[k] \notin Answers(c)
    BY <1>1, <1>2, <1>4, <2>2, PostOne
  <2>4. /\ UNCHANGED <<handler, streams, channel>>
        /\ c \in live' => c \in live
        /\ c \notin live => made'[c] = made[c]
        /\ stopping => stopping'
    BY <1>2
  <2>5. CASE c # a
    BY <1>1, <2>1, <2>3, <2>4, <2>5, WorkerKept
  <2>6. CASE c = a
    <3>1. NoAnswers(c) /\ ready \in Seq(Callbacks)
      BY <1>1, <2>3, PostedWithoutAnswers DEF Shape
    <3>2. SubmittedOnce(c)' /\ InFlight(c)'
      BY <1>1, <2>1, <2>4, <3>1, OnceKept, FlightKept DEF OfClient
    <3>3. \A k \in DOMAIN <<b>> : <<b>>[k] # Callback("id", c)
      BY <2>3 DEF Answers
    <3>4. Reached(c)'
      BY <1>1, <2>3, <2>4, <3>1, <3>3, ReachedGrown DEF OfClient
    <3>5. Owned(c)'
      BY <1>2, <2>6 DEF Owned
    <3> QED
      BY <3>2, <3>4, <3>5 DEF OfClient
  <2> QED
    BY <2>5, <2>6
<1> QED
  BY <1>5, <1>6 DEF IInv

LEMMA ApplyIInv ==
  ASSUME IInv, commands # << >>, Head(commands) # Stop,
         commands' = Tail(commands), Apply(Head(commands)),
         worker' \in {"off", "drain", "idle", "step"},
         UNCHANGED <<loopVars, stopping, lifecycle, faults, missed>>
  PROVE  IInv'
<1> DEFINE cmd == Head(commands)
<1>1. cmd \in Commands
  BY TailAt DEF IInv, Shape
<1>2. /\ cmd.c \in Client
      /\ cmd.kind = "submit" => cmd = Submission(cmd.c)
      /\ cmd.kind = "cancel" => cmd = Cancellation(cmd.c)
  BY <1>1, CommandShape
<1>3. CASE cmd.kind = "submit" /\ Admit(cmd.c)
  BY <1>2, <1>3, AdmitIInv
<1>4. CASE cmd.kind = "submit" /\ Refuse(cmd.c)
  BY <1>2, <1>4, RefuseIInv
<1>5. CASE cmd.kind = "cancel" /\ CancelRequest(cmd.c)
  BY <1>2, <1>5, CancelIInv
<1> QED
  BY <1>3, <1>4, <1>5 DEF Apply

\* The sentinel, or the time-out of the blocking get, for which nothing is taken.
LEMMA SentinelIInv ==
  ASSUME IInv,
         \/ commands # << >> /\ Head(commands) = Stop /\ commands' = Tail(commands)
         \/ UNCHANGED commands,
         worker' \in {"off", "drain", "idle", "step"},
         stopping' = TRUE \/ stopping' = stopping,
         UNCHANGED <<loopVars, ready, engineVars, lifecycle, faults, missed>>
  PROVE  IInv'
<1>1. Shape /\ Stops /\ \A c \in Client : OfClient(c)
  BY DEF IInv
<1>2. /\ UNCHANGED <<handler, got, streams, channel, ready, lifecycle, live, stuck, made, faults, missed>>
      /\ stopping' \in BOOLEAN /\ (stopping => stopping')
  BY <1>1 DEF loopVars, engineVars, Shape
<1>3. commands' \in Seq(Commands)
  <2>1. commands \in Seq(Commands)
    BY <1>1 DEF Shape
  <2>2. commands # << >> => Tail(commands) \in Seq(Commands)
    BY <2>1, TailAt
  <2> QED
    BY <2>1, <2>2
<1>4. Shape' /\ Stops'
  BY <1>1, <1>2, <1>3 DEF Shape, Stops
<1>5. ASSUME NEW c \in Client PROVE OfClient(c)'
  <2>1. Stop # Cancellation(c)
    BY DEF Stop, Cancellation
  <2>2. SubmittedOnce(c) /\ commands \in Seq(Commands)
    BY <1>1 DEF OfClient, Shape
  <2>3. NoSubmission(c) /\ CancelStays(c)
    BY <2>1, <2>2, Consumed, CommandsSame
  <2> QED
    BY <1>1, <1>2, <2>3, CallbacksSame, WorkerKept
<1> QED
  BY <1>4, <1>5 DEF IInv

LEMMA DrainOneIInv ==
  ASSUME IInv, DrainOne
  PROVE  IInv'
<1>1. /\ commands # << >> /\ commands' = Tail(commands) /\ worker = "drain"
      /\ UNCHANGED <<loopVars, lifecycle, faults, missed>>
  BY DEF DrainOne
<1>2. CASE Head(commands) = Stop
  BY <1>1, <1>2, SentinelIInv DEF DrainOne
<1>3. CASE Head(commands) # Stop
  BY <1>1, <1>3, ApplyIInv DEF DrainOne
<1> QED
  BY <1>2, <1>3

LEMMA IdleIInv ==
  ASSUME IInv, Idle
  PROVE  IInv'
<1>1. UNCHANGED <<loopVars, stopping, lifecycle, faults, missed>>
  BY DEF Idle
<1>2. worker' \in {"off", "drain", "idle", "step"}
  BY DEF Idle, LoopHead
<1>3. CASE commands # << >> /\ Head(commands) # Stop
  BY <1>1, <1>2, <1>3, ApplyIInv DEF Idle
<1>4. CASE ~(commands # << >> /\ Head(commands) # Stop)
  BY <1>1, <1>2, <1>4, SentinelIInv DEF Idle
<1> QED
  BY <1>3, <1>4

-----------------------------------------------------------------------------
(* The loop runs a callback. *)

LEMMA CallbackShape ==
  ASSUME NEW b \in Callbacks
  PROVE  /\ b.fn \in {"register", "fail", "close", "id", "refused"} =>
              b.c \in Client /\ b = Callback(b.fn, b.c)
         /\ b.fn = "deliver" =>
              /\ b.c \in Client /\ b.n \in 1 .. MaxTokens /\ b.fin \in BOOLEAN
              /\ b.fin => b \in LastOutputs(b.c)
         /\ b.fn = "joined" <=> b = Joined
<1>1. CASE b = Joined
  BY <1>1 DEF Joined
<1>2. CASE b \in [fn : {"register", "fail", "close", "id", "refused"}, c : Client]
  <2>1. b = Callback(b.fn, b.c) /\ b.c \in Client
    BY <1>2 DEF Callback
  <2>2. b.fn \notin {"deliver", "joined"} /\ b # Joined
    BY <1>2 DEF Joined
  <2> QED
    BY <2>1, <2>2
<1>3. CASE b \in [fn : {"deliver"}, c : Client, n : 1 .. MaxTokens, fin : BOOLEAN]
  <2>1. b.fn = "deliver" /\ b # Joined
    BY <1>3 DEF Joined
  <2>2. b.c \in Client /\ b.n \in 1 .. MaxTokens /\ b.fin \in BOOLEAN
    BY <1>3
  <2>3. b.fin => b \in LastOutputs(b.c)
    BY <1>3, <2>2 DEF LastOutputs
  <2> QED
    BY <2>1, <2>2, <2>3
<1> QED
  BY <1>1, <1>2, <1>3 DEF Callbacks

\* What an answered client is not told again.
LEMMA AnsweredOnce ==
  ASSUME NEW c \in Client, OfClient(c), NEW i \in DOMAIN ready, ready[i] \in Answers(c)
  PROVE  /\ handler[c] # "new"
         /\ \A k \in DOMAIN commands : commands[k] # Submission(c)
         /\ ready[i] # Callback("id", c) => c \notin live
BY DEF OfClient, SubmittedOnce, Fresh, InFlight, Answers

\* With the first callback gone, nothing new is answered.
LEMMA TailAnswers ==
  ASSUME NEW c \in Client, ready \in Seq(Callbacks), ready # << >>, ready' = Tail(ready)
  PROVE  NoAnswers(c)
BY TailAt DEF NoAnswers

LEMMA ReachedTail ==
  ASSUME NEW c \in Client, Reached(c), ready \in Seq(Callbacks),
         ready # << >>, ready' = Tail(ready),
         handler'[c] = handler[c],
         c \in streams => c \in streams' \/ stopping',
         Head(ready) = Callback("register", c) => c \in streams',
         stopping => stopping'
  PROVE  Reached(c)'
<1>1. handler'[c] \in {"answered", "streaming"} => c \in streams' \/ stopping'
  BY DEF Reached
<1>2. ASSUME handler'[c] = "waiting", NEW i \in DOMAIN ready', ready'[i] = Callback("id", c),
             c \notin streams', ~stopping'
      PROVE  \E j \in DOMAIN ready' : j < i /\ ready'[j] = Callback("register", c)
  <2>1. i \in Int /\ i + 1 \in DOMAIN ready /\ ready[i + 1] = Callback("id", c)
    BY <1>2, TailAt
  <2>2. PICK j \in DOMAIN ready : j < i + 1 /\ ready[j] = Callback("register", c)
    BY <1>2, <2>1 DEF Reached
  <2>3. j # 1
    BY <1>2, <2>2, TailAt
  <2>4. j \in Int /\ j - 1 \in DOMAIN ready' /\ ready'[j - 1] = Callback("register", c)
    BY <2>2, <2>3, TailAt, LenProperties
  <2> QED
    BY <2>1, <2>2, <2>4
<1> QED
  BY <1>1, <1>2 DEF Reached

\* A callback that tells c nothing once and for all.
LEMMA LoopKept ==
  ASSUME NEW c \in Client, OfClient(c), ready \in Seq(Callbacks),
         ready # << >>, ready' = Tail(ready),
         UNCHANGED <<commands, live, made, stopping>>,
         handler'[c] = handler[c],
         channel'[c].retired => channel[c].retired,
         c \in streams => c \in streams' \/ stopping',
         Head(ready) = Callback("register", c) => c \in streams'
  PROVE  OfClient(c)'
<1>1. NoAnswers(c) /\ NoSubmission(c) /\ CancelStays(c)
  BY TailAnswers, CommandsSame DEF OfClient
<1>2. SubmittedOnce(c)' /\ InFlight(c)' /\ Owned(c)'
  BY <1>1, OnceKept, FlightKept, OwnedKept DEF OfClient
<1>3. Reached(c)'
  BY ReachedTail DEF OfClient
<1> QED
  BY <1>2, <1>3 DEF OfClient

\* Put changes one channel and nothing that must not change.
LEMMA PutProperties ==
  ASSUME Shape, NEW a \in Client, NEW items \in Seq(Items), NEW retired \in BOOLEAN,
         Put(a, items, retired)
  PROVE  /\ channel' \in [Client -> [items : Seq(Items), done : BOOLEAN, retired : BOOLEAN]]
         /\ \A c \in Client : channel'[c].retired => channel[c].retired \/ (c = a /\ retired)
<1>1. channel \in [Client -> [items : Seq(Items), done : BOOLEAN, retired : BOOLEAN]]
  BY DEF Shape
<1>2. CASE ~(a \in streams /\ ~channel[a].done)
  BY <1>1, <1>2 DEF Put
<1>3. CASE a \in streams /\ ~channel[a].done
  <2>1. channel[a].items \o items \in Seq(Items)
    BY <1>1, ConcatAt
  <2>2. channel' = [channel EXCEPT ![a].items = @ \o items,
                                   ![a].done = Last(items) = End,
                                   ![a].retired = retired]
    BY <1>3 DEF Put
  <2>3. (Last(items) = End) \in BOOLEAN
    OBVIOUS
  <2> QED
    BY <1>1, <2>1, <2>2, <2>3
<1> QED
  BY <1>2, <1>3

LEMMA RunCallbackIInv ==
  ASSUME IInv, RunCallback
  PROVE  IInv'
<1> DEFINE b == Head(ready)
<1>1. Shape /\ Stops /\ \A c \in Client : OfClient(c)
  BY DEF IInv
<1>2. /\ ready # << >> /\ ready' = Tail(ready)
      /\ UNCHANGED <<commands, worker, stopping, live, stuck, made, faults, missed>>
      /\ lifecycle' = IF b = Joined THEN "closed" ELSE lifecycle
  BY DEF RunCallback, engineVars
<1>3. /\ ready \in Seq(Callbacks) /\ 1 \in DOMAIN ready /\ b = ready[1] /\ b \in Callbacks
      /\ ready' \in Seq(Callbacks)
      /\ \A i \in DOMAIN ready' : i + 1 \in DOMAIN ready /\ ready'[i] = ready[i + 1]
      /\ \A i \in DOMAIN ready : i >= 1
  BY <1>1, <1>2, TailAt, LenProperties DEF Shape
<1>4. /\ b.fn \in {"register", "fail", "close", "id", "refused"} =>
           b.c \in Client /\ b = Callback(b.fn, b.c)
      /\ b.fn = "deliver" =>
           /\ b.c \in Client /\ b.n \in 1 .. MaxTokens /\ b.fin \in BOOLEAN
           /\ b.fin => b \in LastOutputs(b.c)
      /\ b.fn = "joined" <=> b = Joined
  BY <1>3, CallbackShape
<1> HIDE DEF b
<1>5. Stops'
  BY <1>1, <1>2, <1>3 DEF Stops
<1>6. lifecycle' \in {"created", "started", "joining", "joined", "closed"}
  BY <1>1, <1>2 DEF Shape
<1>7. ASSUME UNCHANGED got,
             handler' \in [Client -> {"new", "waiting", "answered", "streaming", "over", "gone"}],
             streams' \subseteq Client, IsFiniteSet(streams'),
             channel' \in [Client -> [items : Seq(Items), done : BOOLEAN, retired : BOOLEAN]],
             \A c \in Client : OfClient(c)'
      PROVE  IInv'
  <2>1. Shape'
    BY <1>1, <1>2, <1>3, <1>6, <1>7 DEF Shape
  <2> QED
    BY <1>5, <1>7, <2>1 DEF IInv
<1>8. CASE b.fn = "register" /\ RegisterStream(b.c)
  <2>1. streams' = streams \cup {b.c} /\ UNCHANGED <<channel, handler, got>>
    BY <1>8 DEF RegisterStream
  <2>2. streams' \subseteq Client /\ IsFiniteSet(streams')
    BY <1>1, <1>4, <1>8, <2>1, FS_AddElement DEF Shape
  <2>3. ASSUME NEW c \in Client PROVE OfClient(c)'
    <3>1. Head(ready) = Callback("register", c) => c \in streams'
      BY <2>1 DEF Callback, b
    <3>2. OfClient(c)
      BY <1>1
    <3> QED
      BY <1>2, <1>3, <2>1, <3>1, <3>2, LoopKept
  <2> QED
    BY <1>1, <1>7, <2>1, <2>2, <2>3 DEF Shape
<1>9. CASE b.fn \in {"fail", "close"} /\ (DeliverError(b.c) \/ CloseStream(b.c))
  <2>1. UNCHANGED <<streams, handler, got>> /\ b.c \in Client
    BY <1>4, <1>9 DEF DeliverError, CloseStream
  <2>2. PICK items \in Seq(Items) : Put(b.c, items, FALSE)
    <3>1. <<Failure, End>> \in Seq(Items) /\ <<End>> \in Seq(Items)
      BY DEF Items
    <3> QED
      BY <1>9, <3>1 DEF DeliverError, CloseStream
  <2>3. /\ channel' \in [Client -> [items : Seq(Items), done : BOOLEAN, retired : BOOLEAN]]
        /\ \A c \in Client : channel'[c].retired => channel[c].retired
    BY <1>1, <2>1, <2>2, PutProperties
  <2>4. ASSUME NEW c \in Client PROVE OfClient(c)'
    <3>1. Head(ready) # Callback("register", c)
      BY <1>9 DEF Callback, b
    <3>2. OfClient(c)
      BY <1>1
    <3> QED
      BY <1>2, <1>3, <2>1, <2>3, <3>1, <3>2, LoopKept
  <2> QED
    BY <1>1, <1>7, <2>1, <2>3, <2>4 DEF Shape
<1>10. CASE b.fn = "deliver" /\ Deliver(b)
  <2>1. UNCHANGED <<streams, handler, got>> /\ b.c \in Client
    BY <1>4, <1>10 DEF Deliver
  <2>2. PICK items \in Seq(Items) : Put(b.c, items, b.fin)
    <3>1. Output(b.n, b.fin) \in Items /\ End \in Items
      BY <1>4, <1>10 DEF Items, Output
    <3>2. <<Output(b.n, b.fin)>> \in Seq(Items) /\ Ended(b.fin) \in Seq(Items)
      BY <3>1 DEF Ended
    <3>3. <<Output(b.n, b.fin)>> \o Ended(b.fin) \in Seq(Items)
      BY <3>2, ConcatAt
    <3> QED
      BY <1>10, <3>3 DEF Deliver
  <2>3. /\ channel' \in [Client -> [items : Seq(Items), done : BOOLEAN, retired : BOOLEAN]]
        /\ \A c \in Client :
             channel'[c].retired => channel[c].retired \/ (c = b.c /\ b.fin)
    BY <1>1, <1>4, <1>10, <2>1, <2>2, PutProperties
  <2>4. ASSUME NEW c \in Client, ~(c = b.c /\ b.fin) PROVE OfClient(c)'
    <3>1. Head(ready) # Callback("register", c)
      BY <1>10 DEF Callback, b
    <3>2. OfClient(c) /\ (channel'[c].retired => channel[c].retired)
      BY <1>1, <2>3, <2>4
    <3> QED
      BY <1>2, <1>3, <2>1, <3>1, <3>2, LoopKept
  <2>5. ASSUME NEW c \in Client, c = b.c, b.fin PROVE OfClient(c)'
    <3>1. OfClient(c) /\ ready[1] \in Answers(c) /\ ready[1] # Callback("id", c)
      BY <1>1, <1>3, <1>4, <1>10, <2>5 DEF Answers, Callback
    <3>2. /\ handler[c] # "new"
          /\ \A k \in DOMAIN commands : commands[k] # Submission(c)
          /\ c \notin live
      BY <1>3, <3>1, AnsweredOnce
    <3>3. SubmittedOnce(c)' /\ InFlight(c)' /\ Owned(c)'
      BY <1>2, <2>1, <3>2 DEF SubmittedOnce, InFlight, Owned
    <3>4. Head(ready) # Callback("register", c)
      BY <1>10 DEF Callback, b
    <3>5. Reached(c)'
      BY <1>2, <1>3, <2>1, <3>1, <3>4, ReachedTail DEF OfClient
    <3> QED
      BY <3>3, <3>5 DEF OfClient
  <2> QED
    BY <1>1, <1>7, <2>1, <2>3, <2>4, <2>5 DEF Shape
<1>11. CASE \/ b.fn = "id" /\ Resolve(b.c, "answered")
            \/ b.fn = "refused" /\ Resolve(b.c, "over")
  <2>1. PICK answer \in {"answered", "over"} :
          /\ Resolve(b.c, answer)
          /\ b = Callback(IF answer = "answered" THEN "id" ELSE "refused", b.c)
    BY <1>4, <1>11
  <2>2. /\ UNCHANGED <<got, streams, channel>>
        /\ handler' = IF handler[b.c] = "waiting" THEN [handler EXCEPT ![b.c] = answer] ELSE handler
        /\ b.c \in Client
    BY <1>4, <1>11, <2>1 DEF Resolve
  <2>3. handler' \in [Client -> {"new", "waiting", "answered", "streaming", "over", "gone"}]
    BY <1>1, <2>2 DEF Shape
  <2>4. ASSUME NEW c \in Client PROVE Head(ready) # Callback("register", c)
    BY <1>11 DEF Callback, b
  <2>5. ASSUME NEW c \in Client, c # b.c \/ handler[b.c] # "waiting" PROVE OfClient(c)'
    <3>1. handler'[c] = handler[c]
      BY <1>1, <2>2, <2>5 DEF Shape
    <3>2. OfClient(c)
      BY <1>1
    <3> QED
      BY <1>2, <1>3, <2>2, <2>4, <3>1, <3>2, LoopKept
  <2>6. ASSUME NEW c \in Client, c = b.c, handler[c] = "waiting" PROVE OfClient(c)'
    <3>1. OfClient(c) /\ ready[1] \in Answers(c) /\ handler'[c] = answer
      BY <1>1, <1>3, <2>1, <2>2, <2>6 DEF Answers, Shape
    <3>2. /\ \A k \in DOMAIN commands : commands[k] # Submission(c)
          /\ ready[1] # Callback("id", c) => c \notin live
      BY <1>3, <3>1, AnsweredOnce
    <3>3. SubmittedOnce(c)'
      BY <1>2, <3>1, <3>2 DEF SubmittedOnce
    <3>4. InFlight(c)'
      BY <1>1, <1>2, <1>3, <2>2, TailAnswers, FlightKept DEF OfClient
    <3>5. answer = "over" => c \notin live
      BY <1>3, <2>1, <2>6, <3>2 DEF Callback
    <3>6. Owned(c)'
      BY <1>2, <3>1, <3>5 DEF Owned
    <3>7. answer = "answered" => c \in streams \/ stopping
      BY <1>3, <2>1, <2>6, <3>1 DEF OfClient, Reached
    <3>8. Reached(c)'
      BY <1>2, <2>2, <3>1, <3>7 DEF Reached
    <3> QED
      BY <3>3, <3>4, <3>6, <3>8 DEF OfClient
  <2> QED
    BY <1>1, <1>7, <2>2, <2>3, <2>5, <2>6 DEF Shape
<1>12. CASE b.fn = "joined" /\ FinishStop
  <2>1. UNCHANGED <<handler, got>> /\ streams' = {}
    BY <1>12 DEF FinishStop
  <2>2. stopping
    BY <1>1, <1>3, <1>4, <1>12 DEF Stops
  <2>3. /\ channel' \in [Client -> [items : Seq(Items), done : BOOLEAN, retired : BOOLEAN]]
        /\ \A c \in Client : channel'[c].retired = channel[c].retired
    <3>1. ASSUME NEW c \in Client
          PROVE  [channel[c] EXCEPT !.items = Append(@, End), !.done = TRUE]
                   \in [items : Seq(Items), done : BOOLEAN, retired : BOOLEAN]
      <4>1. channel[c] \in [items : Seq(Items), done : BOOLEAN, retired : BOOLEAN]
        BY <1>1 DEF Shape
      <4>2. Append(channel[c].items, End) \in Seq(Items)
        BY <4>1, AppendAt DEF Items
      <4> QED
        BY <4>1, <4>2
    <3> QED
      BY <1>1, <1>12, <3>1 DEF FinishStop, Shape
  <2>4. ASSUME NEW c \in Client PROVE OfClient(c)'
    <3>1. Head(ready) # Callback("register", c)
      BY <1>12 DEF Callback, b
    <3>2. OfClient(c) /\ stopping'
      BY <1>1, <1>2, <2>2
    <3> QED
      BY <1>2, <1>3, <2>1, <2>3, <3>1, <3>2, LoopKept
  <2> QED
    BY <1>1, <1>7, <2>1, <2>3, <2>4, FS_EmptySet DEF Shape
<1> QED
  BY <1>8, <1>9, <1>10, <1>11, <1>12 DEF RunCallback, b

-----------------------------------------------------------------------------
(* The worker steps the engine. *)

LEMMA AdvancedProperties ==
  ASSUME Shape, NEW moved \in SUBSET (live \ stuck), NEW ended, Advanced(moved, ended)
  PROVE  /\ ended \subseteq moved
         /\ made' \in [Client -> 0 .. MaxTokens]
         /\ \A c \in Client : c \notin live => made'[c] = made[c]
         /\ \A c \in live \ ended : made'[c] < MaxTokens
<1>1. /\ \A c \in moved : made[c] + 1 >= MaxTokens => c \in ended
      /\ made' = [c \in Client |-> IF c \in moved THEN made[c] + 1 ELSE made[c]]
      /\ ended \subseteq moved
  BY DEF Advanced
<1>2. /\ made \in [Client -> 0 .. MaxTokens] /\ live \subseteq Client
      /\ \A c \in live : made[c] < MaxTokens
  BY DEF Shape
<1>3. \A c \in Client : made'[c] \in 0 .. MaxTokens
  BY <1>1, <1>2, AsyncAssumption
<1>4. made' \in [Client -> 0 .. MaxTokens]
  BY <1>1, <1>3
<1>5. \A c \in live \ ended : made'[c] < MaxTokens
  BY <1>1, <1>2, AsyncAssumption
<1> QED
  BY <1>1, <1>2, <1>4, <1>5

LEMMA StepIInv ==
  ASSUME IInv, Step
  PROVE  IInv'
<1>1. Shape /\ Stops /\ \A c \in Client : OfClient(c)
  BY DEF IInv
<1>2. /\ UNCHANGED <<handler, got, streams, channel, commands, stopping, lifecycle, stuck, faults, missed>>
      /\ worker' \in {"off", "drain"}
  BY DEF Step, loopVars, LoopHead
<1>0. PICK moved \in SUBSET (live \ stuck) : \E ended \in SUBSET moved :
        /\ Advanced(moved, ended)
        /\ live' = live \ ended
        /\ ready' = ready \o [i \in 1 .. Cardinality(moved) |->
                                LET c == SetToSeq(moved)[i]
                                IN  Delivery(c, made[c] + 1, c \in ended)]
  BY DEF Step
<1>3. PICK ended \in SUBSET moved :
        /\ Advanced(moved, ended)
        /\ live' = live \ ended
        /\ ready' = ready \o [i \in 1 .. Cardinality(moved) |->
                                LET c == SetToSeq(moved)[i]
                                IN  Delivery(c, made[c] + 1, c \in ended)]
  BY <1>0
<1> DEFINE more == [i \in 1 .. Cardinality(moved) |->
                      Delivery(SetToSeq(moved)[i], made[SetToSeq(moved)[i]] + 1,
                               SetToSeq(moved)[i] \in ended)]
<1>4. ready' = ready \o more
  BY <1>3
<1>5. /\ ended \subseteq moved
      /\ made' \in [Client -> 0 .. MaxTokens]
      /\ \A c \in Client : c \notin live => made'[c] = made[c]
      /\ \A c \in live \ ended : made'[c] < MaxTokens
  BY <1>1, <1>3, AdvancedProperties
<1>6. /\ Cardinality(moved) \in Nat
      /\ \A i \in 1 .. Cardinality(moved) : SetToSeq(moved)[i] \in moved
  <2>1. IsFiniteSet(moved)
    BY <1>1, FS_Subset DEF Shape
  <2> QED
    BY <2>1, SetToSeqIn
<1>7. /\ more \in Seq(Callbacks)
      /\ \A k \in DOMAIN more : \E c \in moved :
           more[k] = Delivery(c, made[c] + 1, c \in ended)
  <2>1. ASSUME NEW c \in moved PROVE Delivery(c, made[c] + 1, c \in ended) \in Callbacks
    <3>1. c \in Client /\ made[c] + 1 \in 1 .. MaxTokens
      BY <1>1, <2>1, AsyncAssumption DEF Shape
    <3>2. (c \in ended) \in BOOLEAN
      OBVIOUS
    <3> QED
      BY <3>1, <3>2 DEF Delivery, Callbacks
  <2>2. \A i \in 1 .. Cardinality(moved) : more[i] \in Callbacks
    BY <1>6, <2>1
  <2> QED
    BY <1>6, <2>2
<1> HIDE DEF more
<1>8. ready \in Seq(Callbacks) /\ ready' \in Seq(Callbacks)
  BY <1>1, <1>4, <1>7, ConcatAt DEF Shape
<1>9. Shape'
  <2>1. live' \subseteq Client /\ IsFiniteSet(live') /\ stuck' \subseteq live'
    BY <1>1, <1>2, <1>3, FS_Subset DEF Shape
  <2>2. \A c \in live' : made'[c] < MaxTokens
    BY <1>3, <1>5
  <2> QED
    BY <1>1, <1>2, <1>5, <1>8, <2>1, <2>2 DEF Shape
<1>10. Stops'
  <2>1. \A k \in DOMAIN more : more[k] # Joined
    BY <1>7 DEF Delivery, Joined
  <2>2. \A i \in DOMAIN ready' : ready'[i] = Joined => i \in DOMAIN ready /\ ready[i] = Joined
    BY <1>4, <1>7, <1>8, <2>1, ConcatAt
  <2> QED
    BY <1>1, <1>2, <2>2 DEF Stops
<1>11. ASSUME NEW c \in Client, NEW k \in DOMAIN more
       PROVE  /\ more[k] # Callback("id", c)
              /\ c \notin ended => more[k] \notin Answers(c)
  <2>1. more[k].fn = "deliver" /\ (more[k].c = c /\ more[k].fin => c \in ended)
    <3>1. PICK d \in moved : more[k] = Delivery(d, made[d] + 1, d \in ended)
      BY <1>7
    <3>2. /\ more[k].fn = "deliver" /\ more[k].c = d
          /\ more[k].fin = (d \in ended)
      BY <3>1 DEF Delivery
    <3> QED
      BY <3>2
  <2>2. Callback("id", c).fn = "id"
    BY DEF Callback
  <2>3. more[k] \in Answers(c) => more[k].c = c /\ more[k].fin
    BY <2>1, AnswersAreAbout
  <2> QED
    BY <2>1, <2>2, <2>3
<1>12. ASSUME NEW c \in Client, c \notin ended PROVE OfClient(c)'
  <2>1. OfClient(c) /\ NoSubmission(c) /\ CancelStays(c)
    BY <1>1, <1>2, CommandsSame DEF OfClient
  <2>2. \A k \in DOMAIN more : more[k] \notin Answers(c)
    BY <1>11, <1>12
  <2>3. /\ UNCHANGED <<handler, streams, channel>>
        /\ c \in live' => c \in live
        /\ c \notin live => made'[c] = made[c]
        /\ stopping => stopping'
    BY <1>2, <1>3, <1>5
  <2> QED
    BY <1>1, <1>4, <1>7, <2>1, <2>2, <2>3, WorkerKept
<1>13. ASSUME NEW c \in ended PROVE OfClient(c)'
  <2>1. c \in Client /\ c \in live /\ c \notin live' /\ OfClient(c)
    BY <1>1, <1>3, <1>13 DEF Shape
  <2>2. handler[c] # "new" /\ \A k \in DOMAIN commands : commands[k] # Submission(c)
    BY <2>1 DEF OfClient, SubmittedOnce, Fresh
  <2>3. SubmittedOnce(c)' /\ InFlight(c)' /\ Owned(c)'
    BY <1>2, <2>1, <2>2 DEF SubmittedOnce, InFlight, Owned
  <2>4. Reached(c)'
    <3>1. \A k \in DOMAIN more : more[k] # Callback("id", c)
      BY <1>11, <2>1
    <3>2. /\ handler'[c] = handler[c]
          /\ c \in streams => c \in streams'
          /\ stopping => stopping'
      BY <1>2
    <3> QED
      BY <1>4, <1>7, <1>8, <2>1, <3>1, <3>2, ReachedGrown DEF OfClient
  <2> QED
    BY <2>3, <2>4 DEF OfClient
<1> QED
  BY <1>9, <1>10, <1>12, <1>13 DEF IInv

LEMMA StepRaisesIInv ==
  ASSUME IInv, StepRaises
  PROVE  IInv'
<1> DEFINE more == [i \in 1 .. Cardinality(streams) |-> Callback("fail", SetToSeq(streams)[i])]
<1>1. Shape /\ Stops /\ \A c \in Client : OfClient(c)
  BY DEF IInv
<1>2. /\ UNCHANGED <<handler, got, streams, channel, commands, stopping, lifecycle>>
      /\ worker' \in {"off", "drain"}
      /\ faults < MaxFaults /\ faults' = faults + 1
      /\ missed' = missed \cup (live \ streams)
      /\ ready' = ready \o more
  BY DEF StepRaises, ReportFailure, loopVars, LoopHead
<1>3. /\ live' \subseteq live /\ stuck' \subseteq live'
      /\ made' \in [Client -> 0 .. MaxTokens]
      /\ \A c \in Client : c \notin live => made'[c] = made[c]
      /\ \A c \in live' : made'[c] < MaxTokens
  <2>1. CASE UNCHANGED engineVars
    BY <1>1, <2>1 DEF Shape, engineVars
  <2>2. ASSUME NEW bad \in {{}} \cup {{c} : c \in live \ stuck}, NEW moved \in SUBSET (live \ stuck),
               bad \cap moved = {}, NEW ended \in SUBSET moved, Advanced(moved, ended),
               live' = live \ (ended \cup bad),
               NEW skipped \in SUBSET {c \in live \ (moved \cup bad) : made[c] = 0},
               stuck' = stuck \cup skipped
        PROVE  /\ live' \subseteq live /\ stuck' \subseteq live'
               /\ made' \in [Client -> 0 .. MaxTokens]
               /\ \A c \in Client : c \notin live => made'[c] = made[c]
               /\ \A c \in live' : made'[c] < MaxTokens
    <3>1. /\ made' \in [Client -> 0 .. MaxTokens]
          /\ \A c \in Client : c \notin live => made'[c] = made[c]
          /\ \A c \in live \ ended : made'[c] < MaxTokens
      BY <1>1, <2>2, AdvancedProperties
    <3>2. stuck \subseteq live
      BY <1>1 DEF Shape
    <3>3. bad \subseteq live \ stuck
      BY <2>2
    <3>4. skipped \subseteq live \ (ended \cup bad)
      BY <2>2
    <3> QED
      BY <2>2, <3>1, <3>2, <3>3, <3>4
  <2> QED
    BY <2>1, <2>2 DEF StepRaises
<1>4. /\ Cardinality(streams) \in Nat
      /\ \A i \in 1 .. Cardinality(streams) : SetToSeq(streams)[i] \in streams
  BY <1>1, SetToSeqIn DEF Shape
<1>5. /\ more \in Seq(Callbacks)
      /\ \A k \in DOMAIN more : more[k].fn = "fail"
  <2>1. \A c \in streams : Callback("fail", c) \in Callbacks /\ Callback("fail", c).fn = "fail"
    BY <1>1 DEF Shape, Callback, Callbacks
  <2> QED
    BY <1>4, <2>1
<1> HIDE DEF more
<1>6. ready \in Seq(Callbacks) /\ ready' \in Seq(Callbacks)
  BY <1>1, <1>2, <1>5, ConcatAt DEF Shape
<1>7. Shape'
  <2>1. live' \subseteq Client /\ IsFiniteSet(live')
    BY <1>1, <1>3, FS_Subset DEF Shape
  <2>2. faults' \in 0 .. MaxFaults /\ missed' \subseteq Client
    BY <1>1, <1>2, AsyncAssumption DEF Shape
  <2> QED
    BY <1>1, <1>2, <1>3, <1>6, <2>1, <2>2 DEF Shape
<1>8. Stops'
  <2>1. \A k \in DOMAIN more : more[k] # Joined
    BY <1>5 DEF Joined
  <2>2. \A i \in DOMAIN ready' : ready'[i] = Joined => i \in DOMAIN ready /\ ready[i] = Joined
    BY <1>2, <1>5, <1>6, <2>1, ConcatAt
  <2> QED
    BY <1>1, <1>2, <2>2 DEF Stops
<1>9. ASSUME NEW c \in Client PROVE OfClient(c)'
  <2>1. OfClient(c) /\ NoSubmission(c) /\ CancelStays(c)
    BY <1>1, <1>2, CommandsSame DEF OfClient
  <2>2. \A k \in DOMAIN more : more[k] \notin Answers(c)
    BY <1>5, AnswersAreAbout
  <2>3. /\ UNCHANGED <<handler, streams, channel>>
        /\ c \in live' => c \in live
        /\ c \notin live => made'[c] = made[c]
        /\ stopping => stopping'
    BY <1>2, <1>3
  <2> QED
    BY <1>1, <1>2, <1>5, <2>1, <2>2, <2>3, WorkerKept
<1> QED
  BY <1>7, <1>8, <1>9 DEF IInv

-----------------------------------------------------------------------------
(* The theorems. *)

LEMMA NextIInv == IInv /\ [Next]_vars => IInv'
<1> SUFFICES ASSUME IInv, [Next]_vars PROVE IInv'
  OBVIOUS
<1>1. CASE Start \/ BeginStop \/ JoinReturns
  BY <1>1, StartIInv, BeginStopIInv, JoinReturnsIInv
<1>2. CASE RunCallback
  BY <1>2, RunCallbackIInv
<1>3. CASE \E c \in Client : Submit(c) \/ Vanish(c) \/ Open(c) \/ Read(c) \/ HangUp(c)
  BY <1>3, SubmitIInv, VanishIInv, OpenIInv, ReadIInv, HangUpIInv
<1>4. CASE Worker
  BY <1>4, DrainOneIInv, DrainedIInv, IdleIInv, StepIInv, StepRaisesIInv DEF Worker
<1>5. CASE UNCHANGED vars
  BY <1>5 DEF vars, IInv, Shape, Stops, OfClient, SubmittedOnce, Fresh, InFlight, Reached, Owned
<1> QED
  BY <1>1, <1>2, <1>3, <1>4, <1>5 DEF Next

LEMMA Invariance == Spec => []IInv
BY InitIInv, NextIInv, PTL DEF Spec

LEMMA ShapeIsTyped == Shape => TypeOK
<1> SUFFICES ASSUME Shape PROVE TypeOK
  OBVIOUS
<1>1. Items \subseteq Item
  <2>1. 1 .. MaxTokens \subseteq 0 .. MaxTokens /\ 0 \in 0 .. MaxTokens
    BY AsyncAssumption
  <2>2. End \in Item /\ Failure \in Item
    BY <2>1 DEF Item, End, Failure
  <2>3. [kind : {"output"}, n : 1 .. MaxTokens, fin : BOOLEAN] \subseteq Item
    BY <2>1 DEF Item
  <2> QED
    BY <2>2, <2>3 DEF Items
<1>2. channel \in [Client -> [items : Seq(Item), done : BOOLEAN, retired : BOOLEAN]]
  <2>1. Seq(Items) \subseteq Seq(Item)
    BY <1>1
  <2> QED
    BY <2>1 DEF Shape
<1>3. ASSUME NEW i \in DOMAIN ready PROVE ready[i] = Joined \/ ready[i].c \in Client
  <2>1. ready[i] \in Callbacks
    BY ElementOfSeq, LenProperties DEF Shape
  <2> QED
    BY <2>1 DEF Callbacks
<1>4. ASSUME NEW i \in DOMAIN commands PROVE commands[i] = Stop \/ commands[i].c \in Client
  <2>1. commands[i] \in Commands
    BY ElementOfSeq, LenProperties DEF Shape
  <2> QED
    BY <2>1 DEF Commands
<1> QED
  BY <1>2, <1>3, <1>4 DEF Shape, TypeOK

\* The bridge's state keeps its shape (python/bwr/engine/async_engine.py): items,
\* callbacks and commands are about known clients, and no request is given more
\* outputs than its cap, in any order of steps of the loop, worker and joiner.
THEOREM BridgeTypes == Spec => []TypeOK
BY Invariance, ShapeIsTyped, PTL DEF IInv

\* A request in flight has a handler that will reach its release(), or its cancel
\* is queued, or the server stops, or - the one exception - its handler was killed
\* where no finally block runs (app.py:320; async_engine.py, release and _deliver).
THEOREM RequestsHaveOwners == Spec => []SlotsHaveOwners
<1>1. IInv => SlotsHaveOwners
  BY DEF IInv, Shape, OfClient, Owned, SlotsHaveOwners
<1> QED
  BY <1>1, Invariance, PTL
==============================================================================
