------------------------- MODULE AsyncDeliveryProofs -------------------------
(***************************************************************************)
(* Proof, from the invariant of AsyncEngineProofs, that no handler of      *)
(* AsyncEngine awaits a stream that nothing will end, and that its clients *)
(* are given what the engine made, in order and without a gap.             *)
(***************************************************************************)
EXTENDS AsyncEngineProofs

-----------------------------------------------------------------------------
(* The inductive invariant of the delivery. *)

\* A shutdown goes through its stages: the sentinel and the event come with
\* joining, the callback that closes the streams behind it, and the worker is
\* gone by then, unless a join has timed out.
Stages ==
  /\ stopping => lifecycle \notin {"created", "started"}
  /\ \A i \in DOMAIN commands : commands[i] = Stop => lifecycle \notin {"created", "started"}
  /\ \A i \in DOMAIN ready : ready[i] = Joined => lifecycle \in {"joined", "closed"}
  /\ missed # Client /\ lifecycle \in {"joined", "closed"} => worker = "off"

\* The callbacks that end the stream of c.
Finals(c) == {Callback("fail", c), Callback("close", c)} \cup LastOutputs(c)

Ending(c, b) == b = Joined \/ b \in Finals(c)

\* The worker will post one of them yet.
Busy(c) ==
  \/ c \in live \ stuck /\ worker # "off"
  \/ lifecycle = "joining"

\* One of them is behind position j of the callbacks, or will be.
Coming(c, j) ==
  \/ Busy(c)
  \/ \E i \in DOMAIN ready : i > j /\ Ending(c, ready[i])

\* The last item of a closed channel is its end, which nobody has read.
Closed(c) == channel[c].items # << >> /\ Last(channel[c].items) = End

\* A stream is closed, or open with its end to come.
Held(c) ==
  c \in streams \/ handler[c] = "streaming" =>
    \/ channel[c].done /\ Closed(c)
    \/ c \in streams /\ ~channel[c].done /\ Coming(c, 0)

\* A stream about to be registered is new, and its end comes behind.
Awaited(c) ==
  \A j \in DOMAIN ready :
    ready[j] = Callback("register", c) =>
      /\ c \notin streams
      /\ ~channel[c].done
      /\ \A k \in DOMAIN ready : ready[k] = Callback("register", c) => k = j
      /\ c \notin missed => Coming(c, j)

\* Before its submission is applied, a request has no stream.
Unregistered(c) ==
  handler[c] = "new" \/ (\E i \in DOMAIN commands : commands[i] = Submission(c)) =>
    /\ c \notin streams
    /\ ~channel[c].done
    /\ \A j \in DOMAIN ready : ready[j] # Callback("register", c)

Delivered(c) == Unregistered(c) /\ Awaited(c) /\ (c \notin missed => Held(c))

DInv == IInv /\ Stages /\ \A c \in Client : Delivered(c)

LEMMA InitDInv == Init => DInv
<1> SUFFICES ASSUME Init PROVE DInv
  OBVIOUS
<1>1. IInv
  BY InitIInv
<1>2. Stages
  BY DEF Init, Stages
<1>3. ASSUME NEW c \in Client PROVE Delivered(c)
  BY <1>3 DEF Init, NewChannel, Delivered, Unregistered, Awaited, Held
<1> QED
  BY <1>1, <1>2, <1>3 DEF DInv

-----------------------------------------------------------------------------
(* What posting and running callbacks leave true. *)

LEMMA ConcatBehind ==
  ASSUME NEW S, NEW s \in Seq(S), NEW t \in Seq(S), NEW k \in DOMAIN t
  PROVE  /\ Len(s) + k \in DOMAIN (s \o t) /\ (s \o t)[Len(s) + k] = t[k]
         /\ Len(s) + k > 0
         /\ \A j \in DOMAIN s : j \in Int /\ j < Len(s) + k
<1>1. /\ s \o t \in Seq(S) /\ Len(s \o t) = Len(s) + Len(t)
      /\ \A i \in 1 .. Len(s) + Len(t) :
           (s \o t)[i] = IF i <= Len(s) THEN s[i] ELSE t[i - Len(s)]
      /\ Len(s) \in Nat /\ Len(t) \in Nat
      /\ DOMAIN s = 1 .. Len(s) /\ DOMAIN t = 1 .. Len(t)
  BY ConcatProperties, LenProperties
<1>2. DOMAIN (s \o t) = 1 .. Len(s) + Len(t)
  BY <1>1, LenProperties
<1>3. k \in 1 .. Len(t) /\ Len(s) + k \in 1 .. Len(s) + Len(t) /\ ~(Len(s) + k <= Len(s))
  BY <1>1
<1>4. (s \o t)[Len(s) + k] = t[(Len(s) + k) - Len(s)]
  BY <1>1, <1>3
<1>5. (Len(s) + k) - Len(s) = k
  BY <1>1, <1>3
<1> QED
  BY <1>1, <1>2, <1>3, <1>4, <1>5

\* An end that was to come still is, or has been posted.
LEMMA ComingGrown ==
  ASSUME NEW c \in Client, ready \in Seq(Callbacks), NEW more \in Seq(Callbacks),
         ready' = ready \o more,
         Busy(c) => Busy(c)' \/ \E k \in DOMAIN more : Ending(c, more[k]),
         NEW j \in DOMAIN ready \cup {0}, Coming(c, j)
  PROVE  Coming(c, j)'
<1>1. CASE Busy(c)'
  BY <1>1 DEF Coming
<1>2. CASE \E k \in DOMAIN more : Ending(c, more[k])
  <2>1. PICK k \in DOMAIN more : Ending(c, more[k])
    BY <1>2
  <2>2. /\ Len(ready) + k \in DOMAIN ready' /\ ready'[Len(ready) + k] = more[k]
        /\ Len(ready) + k > j
    BY ConcatBehind
  <2>3. Ending(c, ready'[Len(ready) + k])
    BY <2>1, <2>2
  <2> QED
    BY <2>2, <2>3 DEF Coming
<1>3. CASE \E i \in DOMAIN ready : i > j /\ Ending(c, ready[i])
  <2>1. PICK i \in DOMAIN ready : i > j /\ Ending(c, ready[i])
    BY <1>3
  <2>2. i \in DOMAIN ready' /\ ready'[i] = ready[i]
    BY ConcatAt
  <2>3. Ending(c, ready'[i])
    BY <2>1, <2>2
  <2> QED
    BY <2>1, <2>2, <2>3 DEF Coming
<1> QED
  BY <1>1, <1>2, <1>3 DEF Coming

LEMMA UnregisteredKept ==
  ASSUME NEW c \in Client, Unregistered(c), NoSubmission(c),
         handler'[c] = "new" => handler[c] = "new",
         c \in streams' => c \in streams,
         channel'[c].done => channel[c].done,
         \A j \in DOMAIN ready' :
           ready'[j] = Callback("register", c) =>
             \E k \in DOMAIN ready : ready[k] = Callback("register", c)
  PROVE  Unregistered(c)'
BY DEF Unregistered, NoSubmission

\* Callbacks are posted, and no registration of c is among them.
LEMMA Posted ==
  ASSUME NEW c \in Client, ready \in Seq(Callbacks), Delivered(c),
         UNCHANGED <<handler, streams, channel>>, NoSubmission(c),
         c \in missed => c \in missed',
         NEW more \in Seq(Callbacks), ready' = ready \o more,
         \A k \in DOMAIN more : more[k] # Callback("register", c),
         c \notin missed' /\ Busy(c) =>
           Busy(c)' \/ \E k \in DOMAIN more : Ending(c, more[k])
  PROVE  Delivered(c)'
<1>1. \A j \in DOMAIN ready' :
        ready'[j] = Callback("register", c) => j \in DOMAIN ready /\ ready[j] = ready'[j]
  BY ConcatAt
<1>2. \A j \in DOMAIN ready \cup {0} : c \notin missed' /\ Coming(c, j) => Coming(c, j)'
  BY ComingGrown
<1>3. Unregistered(c)'
  BY <1>1, UnregisteredKept DEF Delivered
<1>4. Awaited(c)'
  BY <1>1, <1>2 DEF Delivered, Awaited
<1>5. c \notin missed' => Held(c)'
  BY <1>2 DEF Delivered, Held, Closed
<1> QED
  BY <1>3, <1>4, <1>5 DEF Delivered

\* While the worker is there, c not missed, a worker that leaves does so in stop().
LEMMA StillBusy ==
  ASSUME Stages, NEW c \in Client, c \notin missed, worker # "off", lifecycle' = lifecycle,
         lifecycle \in {"created", "started", "joining", "joined", "closed"},
         worker' = "off" => lifecycle \notin {"created", "started"},
         c \in live \ stuck => c \in live' \ stuck',
         Busy(c)
  PROVE  Busy(c)'
BY DEF Stages, Busy

\* The worker posts while nobody has joined it.
LEMMA WorkerStages ==
  ASSUME Stages, worker # "off", lifecycle' = lifecycle, missed \subseteq missed',
         missed' \subseteq Client,
         ready \in Seq(Callbacks), NEW more \in Seq(Callbacks), ready' = ready \o more,
         \A k \in DOMAIN more : more[k] # Joined,
         stopping' => stopping \/ lifecycle \notin {"created", "started"},
         \A i \in DOMAIN commands' :
           commands'[i] = Stop => \E k \in DOMAIN commands : commands[k] = Stop
  PROVE  Stages'
<1>1. \A i \in DOMAIN ready' :
        ready'[i] = Joined => i \in DOMAIN ready /\ ready[i] = Joined
  BY ConcatAt
<1>2. missed' # Client => missed # Client
  OBVIOUS
<1> QED
  BY <1>1, <1>2 DEF Stages

-----------------------------------------------------------------------------
(* stop() and the worker. *)

LEMMA Parts ==
  ASSUME DInv
  PROVE  /\ Shape /\ Stages
         /\ ready \in Seq(Callbacks) /\ commands \in Seq(Commands)
         /\ \A c \in Client : OfClient(c) /\ SubmittedOnce(c) /\ Delivered(c)
BY DEF DInv, IInv, Shape, OfClient

LEMMA NothingPosted ==
  ASSUME NEW c, UNCHANGED ready, ready \in Seq(Callbacks)
  PROVE  /\ << >> \in Seq(Callbacks) /\ ready' = ready \o << >>
         /\ \A k \in DOMAIN << >> : << >>[k] # Callback("register", c)
         /\ \A k \in DOMAIN << >> : << >>[k] # Joined
BY NothingAdded

LEMMA StartDelivered ==
  ASSUME DInv, Start
  PROVE  Stages' /\ \A c \in Client : Delivered(c)'
<1>1. /\ Shape /\ Stages /\ ready \in Seq(Callbacks)
      /\ \A c \in Client : SubmittedOnce(c) /\ Delivered(c)
  BY Parts
<1>2. /\ UNCHANGED <<handler, streams, channel, ready, commands, stopping, live, stuck, missed>>
      /\ lifecycle = "created" /\ lifecycle' = "started" /\ worker' = "drain"
  BY DEF Start, loopVars, engineVars
<1>3. Stages'
  BY <1>1, <1>2 DEF Stages
<1>4. ASSUME NEW c \in Client PROVE Delivered(c)'
  <2>1. NoSubmission(c) /\ (Busy(c) => Busy(c)')
    BY <1>1, <1>2, CommandsSame DEF Busy
  <2> QED
    BY <1>1, <1>2, <2>1, NothingPosted, Posted
<1> QED
  BY <1>3, <1>4

LEMMA BeginStopDelivered ==
  ASSUME DInv, BeginStop
  PROVE  Stages' /\ \A c \in Client : Delivered(c)'
<1>1. /\ Shape /\ Stages /\ ready \in Seq(Callbacks) /\ commands \in Seq(Commands)
      /\ \A c \in Client : SubmittedOnce(c) /\ Delivered(c)
  BY Parts
<1>2. /\ UNCHANGED <<handler, streams, channel, ready, missed>>
      /\ lifecycle = "started" /\ lifecycle' = "joining"
      /\ commands' = Append(commands, Stop)
  BY DEF BeginStop, loopVars, engineVars
<1>3. Stages'
  BY <1>1, <1>2 DEF Stages
<1>4. ASSUME NEW c \in Client PROVE Delivered(c)'
  <2>1. /\ <<Stop>> \in Seq(Commands) /\ commands' = commands \o <<Stop>>
        /\ \A k \in DOMAIN <<Stop>> : <<Stop>>[k] # Submission(c)
    <3>1. Stop \in Commands /\ Stop # Submission(c)
      BY DEF Commands, Stop, Submission
    <3> QED
      BY <1>1, <1>2, <3>1, AppendIsConcat
  <2>2. NoSubmission(c) /\ Busy(c)'
    BY <1>1, <1>2, <2>1, CommandsGrown DEF Busy
  <2> QED
    BY <1>1, <1>2, <2>2, NothingPosted, Posted
<1> QED
  BY <1>3, <1>4

LEMMA JoinReturnsDelivered ==
  ASSUME DInv, JoinReturns
  PROVE  Stages' /\ \A c \in Client : Delivered(c)'
<1>1. /\ Shape /\ Stages /\ ready \in Seq(Callbacks)
      /\ \A c \in Client : SubmittedOnce(c) /\ Delivered(c)
  BY Parts
<1>2. /\ UNCHANGED <<handler, streams, channel, commands, worker, stopping, live, stuck>>
      /\ lifecycle = "joining" /\ lifecycle' = "joined"
      /\ ready' = Append(ready, Joined)
      /\ (worker = "off" /\ UNCHANGED missed) \/ missed' = Client
  BY DEF JoinReturns, loopVars, engineVars
<1>3. Joined \in Callbacks
  BY DEF Callbacks
<1>4. /\ <<Joined>> \in Seq(Callbacks) /\ ready' = ready \o <<Joined>>
      /\ \A k \in DOMAIN <<Joined>> : <<Joined>>[k] = Joined
  BY <1>1, <1>2, <1>3, PostOne
<1>5. Stages'
  BY <1>1, <1>2 DEF Stages
<1>6. ASSUME NEW c \in Client PROVE Delivered(c)'
  <2>1. NoSubmission(c) /\ (c \in missed => c \in missed')
    BY <1>1, <1>2, CommandsSame DEF Shape
  <2>2. /\ Joined # Callback("register", c)
        /\ Ending(c, Joined)
        /\ 1 \in DOMAIN <<Joined>>
    BY DEF Joined, Callback, Ending
  <2>3. /\ UNCHANGED <<handler, streams, channel>>
        /\ \A k \in DOMAIN <<Joined>> : <<Joined>>[k] # Callback("register", c)
        /\ \E k \in DOMAIN <<Joined>> : Ending(c, <<Joined>>[k])
    BY <1>2, <1>4, <2>2
  <2> QED
    BY <1>1, <1>4, <2>1, <2>3, Posted
<1> QED
  BY <1>5, <1>6

LEMMA DrainedDelivered ==
  ASSUME DInv, Drained
  PROVE  Stages' /\ \A c \in Client : Delivered(c)'
<1>1. /\ Shape /\ Stages /\ ready \in Seq(Callbacks)
      /\ \A c \in Client : SubmittedOnce(c) /\ Delivered(c)
  BY Parts
<1>2. /\ UNCHANGED <<handler, streams, channel, ready, commands, stopping, lifecycle,
                     live, stuck, missed>>
      /\ worker # "off" /\ (worker' = "off" => stopping)
  BY DEF Drained, loopVars, engineVars
<1>3. worker' = "off" => lifecycle \notin {"created", "started"}
  BY <1>1, <1>2 DEF Stages
<1>4. Stages'
  BY <1>1, <1>2, <1>3 DEF Stages
<1>5. ASSUME NEW c \in Client PROVE Delivered(c)'
  <2>1. NoSubmission(c) /\ (c \notin missed /\ Busy(c) => Busy(c)')
    BY <1>1, <1>2, <1>3, CommandsSame, StillBusy DEF Shape
  <2> QED
    BY <1>1, <1>2, <2>1, NothingPosted, Posted
<1> QED
  BY <1>4, <1>5

-----------------------------------------------------------------------------
(***************************************************************************)
(* The worker, whatever it does: it takes a command or none, posts some    *)
(* callbacks, and leaves only in stop().                                   *)
(***************************************************************************)

\* What the worker does to the queues, and when it leaves.
WorkerMoves(more) ==
  /\ worker # "off"
  /\ worker' = "off" => lifecycle \notin {"created", "started"}
  /\ UNCHANGED <<handler, streams, channel, lifecycle>>
  /\ commands' = commands \/ (commands # << >> /\ commands' = Tail(commands))
  /\ stopping' => stopping \/ lifecycle \notin {"created", "started"}
  /\ missed \subseteq missed' /\ missed' \subseteq Client
  /\ more \in Seq(Callbacks) /\ ready' = ready \o more
  /\ \A k \in DOMAIN more : more[k] # Joined

LEMMA MovesStages ==
  ASSUME DInv, NEW more, WorkerMoves(more)
  PROVE  Stages' /\ \A c \in Client : NoSubmission(c)
<1>1. /\ Stages /\ ready \in Seq(Callbacks) /\ commands \in Seq(Commands)
      /\ \A c \in Client : SubmittedOnce(c)
  BY Parts
<1>2. \A i \in DOMAIN commands' :
        commands'[i] = Stop => \E k \in DOMAIN commands : commands[k] = Stop
  <2>1. CASE commands' = commands
    BY <2>1
  <2>2. CASE commands # << >> /\ commands' = Tail(commands)
    <3>1. \A i \in DOMAIN commands' : i + 1 \in DOMAIN commands /\ commands'[i] = commands[i + 1]
      BY <1>1, <2>2, TailAt
    <3> QED
      BY <3>1
  <2> QED
    BY <2>1, <2>2 DEF WorkerMoves
<1>3. \A c \in Client : NoSubmission(c)
  BY <1>1, Consumed, CommandsSame DEF WorkerMoves
<1>4. Stages'
  BY <1>1, <1>2, WorkerStages DEF WorkerMoves
<1> QED
  BY <1>3, <1>4

LEMMA MovesDelivered ==
  ASSUME DInv, NEW more, WorkerMoves(more), NEW c \in Client,
         \A k \in DOMAIN more : more[k] # Callback("register", c),
         c \notin missed' /\ c \in live \ stuck =>
           c \in live' \ stuck' \/ \E k \in DOMAIN more : Ending(c, more[k])
  PROVE  Delivered(c)'
<1>1. Shape /\ Stages /\ ready \in Seq(Callbacks) /\ Delivered(c)
  BY Parts
<1>2. NoSubmission(c)
  BY MovesStages
<1>3. c \notin missed' /\ Busy(c) =>
        Busy(c)' \/ \E k \in DOMAIN more : Ending(c, more[k])
  <2>1. lifecycle \in {"created", "started", "joining", "joined", "closed"}
    BY <1>1 DEF Shape
  <2> QED
    BY <1>1, <2>1, StillBusy DEF WorkerMoves
<1>4. /\ UNCHANGED <<handler, streams, channel>>
      /\ c \in missed => c \in missed'
      /\ more \in Seq(Callbacks) /\ ready' = ready \o more
  BY DEF WorkerMoves
<1> QED
  BY <1>1, <1>2, <1>3, <1>4, Posted

\* The sentinel, or the time-out of the blocking get, for which nothing is taken.
LEMMA SentinelDelivered ==
  ASSUME DInv, worker # "off",
         worker' = "off" => lifecycle \notin {"created", "started"},
         commands' = commands \/ (commands # << >> /\ commands' = Tail(commands)),
         stopping' => stopping \/ lifecycle \notin {"created", "started"},
         UNCHANGED <<loopVars, ready, engineVars, lifecycle, missed>>
  PROVE  Stages' /\ \A c \in Client : Delivered(c)'
<1>1. /\ Shape /\ ready \in Seq(Callbacks)
      /\ UNCHANGED <<handler, streams, channel, lifecycle, live, stuck, missed>>
  BY Parts DEF loopVars, engineVars
<1>2. WorkerMoves(<< >>)
  BY <1>1, NothingPosted DEF WorkerMoves, Shape
<1>3. \A c \in Client : Delivered(c)'
  BY <1>1, <1>2, NothingPosted, MovesDelivered
<1> QED
  BY <1>2, <1>3, MovesStages

\* What a worker that applies a command leaves alone.
Applying ==
  /\ worker # "off"
  /\ worker' = "off" => lifecycle \notin {"created", "started"}
  /\ commands # << >> /\ commands' = Tail(commands)
  /\ UNCHANGED <<loopVars, stopping, lifecycle, missed>>

LEMMA AdmitDelivered ==
  ASSUME DInv, Applying, NEW a \in Client, Head(commands) = Submission(a), Admit(a)
  PROVE  Stages' /\ \A c \in Client : Delivered(c)'
<1> DEFINE more == <<Callback("register", a), Callback("id", a)>>
<1>1. /\ Shape /\ Stages /\ ready \in Seq(Callbacks) /\ commands \in Seq(Commands)
      /\ \A c \in Client : SubmittedOnce(c) /\ Delivered(c)
  BY Parts
<1>2. /\ UNCHANGED <<handler, streams, channel, lifecycle, stuck, missed>>
      /\ live' = live \cup {a} /\ ready' = ready \o more
  BY DEF Applying, Admit, loopVars
<1>3. /\ more \in Seq(Callbacks) /\ DOMAIN more = {1, 2}
      /\ more[1] = Callback("register", a) /\ more[2] = Callback("id", a)
  <2>1. Callback("register", a) \in Callbacks /\ Callback("id", a) \in Callbacks
    BY DEF Callback, Callbacks
  <2> QED
    BY <2>1
<1> HIDE DEF more
<1>4. WorkerMoves(more)
  <2>1. \A k \in DOMAIN more : more[k] # Joined
    BY <1>3 DEF Callback, Joined
  <2> QED
    BY <1>1, <1>2, <1>3, <2>1 DEF Applying, WorkerMoves, Shape
<1>5. ASSUME NEW c \in Client, c # a PROVE Delivered(c)'
  <2>1. \A k \in DOMAIN more : more[k] # Callback("register", c)
    BY <1>3, <1>5 DEF Callback
  <2> QED
    BY <1>2, <1>4, <2>1, MovesDelivered
<1>6. Delivered(a)'
  <2>1. \A i \in DOMAIN commands' : commands'[i] # Submission(a)
    BY <1>1, Consumed DEF Applying
  <2>2. /\ 1 \in DOMAIN commands /\ commands[1] = Submission(a)
        /\ handler[a] \in {"waiting", "gone"} /\ a \notin live
    BY <1>1, TailAt DEF Applying, SubmittedOnce, Fresh
  <2>3. /\ a \notin streams /\ ~channel[a].done
        /\ \A j \in DOMAIN ready : ready[j] # Callback("register", a)
    BY <1>1, <2>2 DEF Delivered, Unregistered
  <2>4. Unregistered(a)' /\ Held(a)'
    BY <1>2, <2>1, <2>2, <2>3 DEF Unregistered, Held
  <2>5. a \notin missed' => Busy(a)'
    <3>1. a \in live' \ stuck'
      BY <1>1, <1>2, <2>2 DEF Shape
    <3>2. worker' = "off" /\ a \notin missed => lifecycle' = "joining"
      BY <1>1, <1>2 DEF Applying, Stages, Shape
    <3> QED
      BY <1>2, <3>1, <3>2 DEF Busy
  <2>6. ASSUME NEW j \in DOMAIN ready', ready'[j] = Callback("register", a)
        PROVE  j = Len(ready) + 1
    <3>1. PICK k \in DOMAIN more : j = Len(ready) + k /\ ready'[j] = more[k]
      BY <1>1, <1>2, <1>3, <2>3, <2>6, ConcatAt
    <3>2. k # 2
      BY <1>3, <2>6, <3>1 DEF Callback
    <3> QED
      BY <1>3, <3>1, <3>2
  <2>7. Awaited(a)'
    BY <1>2, <2>3, <2>5, <2>6 DEF Awaited, Coming
  <2> QED
    BY <2>4, <2>7 DEF Delivered
<1> QED
  BY <1>4, <1>5, <1>6, MovesStages

\* One callback, which does not register anybody, answers a command.
LEMMA AnswerDelivered ==
  ASSUME DInv, Applying, NEW b \in Callbacks, ready' = Append(ready, b),
         b.fn \in {"refused", "close"},
         \A c \in Client : c \in live \ stuck => c \in live' \ stuck' \/ Ending(c, b)
  PROVE  Stages' /\ \A c \in Client : Delivered(c)'
<1>1. Shape /\ UNCHANGED <<handler, streams, channel, lifecycle, missed>>
  BY Parts DEF Applying, loopVars
<1>2. /\ <<b>> \in Seq(Callbacks) /\ ready' = ready \o <<b>>
      /\ \A k \in DOMAIN <<b>> : <<b>>[k] = b
  BY <1>1, PostOne
<1>3. b # Joined /\ 1 \in DOMAIN <<b>> /\ \A c \in Client : b # Callback("register", c)
  BY DEF Joined, Callback
<1>4. \A k \in DOMAIN <<b>> : <<b>>[k] # Joined
  BY <1>2, <1>3
<1>5. WorkerMoves(<<b>>)
  BY <1>1, <1>2, <1>4 DEF WorkerMoves, Applying, Shape
<1>6. ASSUME NEW c \in Client PROVE Delivered(c)'
  <2>1. \A k \in DOMAIN <<b>> : <<b>>[k] # Callback("register", c)
    BY <1>2, <1>3
  <2>2. c \in live \ stuck =>
          c \in live' \ stuck' \/ \E k \in DOMAIN <<b>> : Ending(c, <<b>>[k])
    BY <1>2, <1>3
  <2> QED
    BY <1>5, <2>1, <2>2, MovesDelivered
<1> QED
  BY <1>5, <1>6, MovesStages

LEMMA ApplyDelivered ==
  ASSUME DInv, Applying, Head(commands) # Stop, Apply(Head(commands))
  PROVE  Stages' /\ \A c \in Client : Delivered(c)'
<1> DEFINE cmd == Head(commands)
<1>1. cmd \in Commands
  BY Parts, TailAt DEF Applying
<1>2. /\ cmd.c \in Client
      /\ cmd.kind = "submit" => cmd = Submission(cmd.c)
      /\ cmd.kind = "cancel" => cmd = Cancellation(cmd.c)
  BY <1>1, CommandShape
<1>3. CASE cmd.kind = "submit" /\ Admit(cmd.c)
  BY <1>2, <1>3, AdmitDelivered
<1>4. CASE cmd.kind = "submit" /\ Refuse(cmd.c)
  <2>1. /\ Callback("refused", cmd.c) \in Callbacks
        /\ Callback("refused", cmd.c).fn = "refused"
    BY <1>2 DEF Callback, Callbacks
  <2>2. ready' = Append(ready, Callback("refused", cmd.c)) /\ UNCHANGED <<live, stuck>>
    BY <1>4 DEF Refuse, engineVars
  <2> QED
    BY <2>1, <2>2, AnswerDelivered
<1>5. CASE cmd.kind = "cancel" /\ CancelRequest(cmd.c)
  <2>1. /\ Callback("close", cmd.c) \in Callbacks
        /\ Callback("close", cmd.c).fn = "close"
    BY <1>2 DEF Callback, Callbacks
  <2>2. /\ ready' = Append(ready, Callback("close", cmd.c))
        /\ live' = live \ {cmd.c} /\ stuck' = stuck \ {cmd.c}
    BY <1>5 DEF CancelRequest
  <2>3. \A c \in Client :
          c \in live \ stuck => c \in live' \ stuck' \/ Ending(c, Callback("close", cmd.c))
    BY <2>2 DEF Ending, Finals
  <2> QED
    BY <2>1, <2>2, <2>3, AnswerDelivered
<1> QED
  BY <1>3, <1>4, <1>5 DEF Apply

LEMMA DrainOneDelivered ==
  ASSUME DInv, DrainOne
  PROVE  Stages' /\ \A c \in Client : Delivered(c)'
<1>1. /\ commands # << >> /\ commands' = Tail(commands) /\ worker = "drain"
      /\ UNCHANGED <<loopVars, lifecycle, missed>>
  BY DEF DrainOne
<1>2. CASE Head(commands) = Stop
  <2>1. lifecycle \notin {"created", "started"}
    BY <1>1, <1>2, Parts, TailAt DEF Stages
  <2> QED
    BY <1>1, <1>2, <2>1, SentinelDelivered DEF DrainOne
<1>3. CASE Head(commands) # Stop
  <2>1. worker' = worker /\ stopping' = stopping /\ Apply(Head(commands))
    BY <1>3 DEF DrainOne
  <2>2. Applying
    BY <1>1, <2>1 DEF Applying
  <2> QED
    BY <1>3, <2>1, <2>2, ApplyDelivered
<1> QED
  BY <1>2, <1>3

LEMMA IdleDelivered ==
  ASSUME DInv, Idle
  PROVE  Stages' /\ \A c \in Client : Delivered(c)'
<1>1. worker = "idle" /\ UNCHANGED <<loopVars, stopping, lifecycle, missed>>
  BY DEF Idle
<1>2. LoopHead => (worker' = "off" => lifecycle \notin {"created", "started"})
  BY Parts DEF LoopHead, Stages
<1>3. CASE commands # << >> /\ Head(commands) # Stop
  <2>1. LoopHead /\ commands' = Tail(commands) /\ Apply(Head(commands))
    BY <1>3 DEF Idle
  <2>2. Applying
    BY <1>1, <1>2, <1>3, <2>1 DEF Applying
  <2> QED
    BY <1>3, <2>1, <2>2, ApplyDelivered
<1>4. CASE ~(commands # << >> /\ Head(commands) # Stop)
  <2>1. commands # << >> /\ Head(commands) = Stop => lifecycle \notin {"created", "started"}
    BY Parts, TailAt DEF Stages
  <2>2. /\ UNCHANGED <<ready, engineVars>>
        /\ commands' = commands \/ (commands # << >> /\ commands' = Tail(commands))
        /\ LoopHead \/ (commands # << >> /\ Head(commands) = Stop)
    BY <1>4 DEF Idle
  <2> QED
    BY <1>1, <1>2, <2>1, <2>2, SentinelDelivered
<1> QED
  BY <1>3, <1>4

\* SetToSeq lists every element of a finite set.
LEMMA SetToSeqAll ==
  ASSUME NEW S, IsFiniteSet(S)
  PROVE  \A e \in S : \E i \in 1 .. Cardinality(S) : SetToSeq(S)[i] = e
<1> DEFINE n == Cardinality(S)
<1>1. n \in Nat
  BY FS_CardinalityType
<1>2. \E f : f \in Bijection(1 .. n, S)
  BY FS_CardinalityType DEF ExistsBijection
<1>3. \E f \in [1 .. n -> S] : IsInjective(f)
  BY <1>2 DEF Bijection, Injection, IsInjective
<1>4. SetToSeq(S) \in [1 .. n -> S] /\ IsInjective(SetToSeq(S))
  BY <1>3, Zenon DEF SetToSeq
<1>5. SetToSeq(S) \in Injection(1 .. n, S)
  BY <1>4 DEF Injection, IsInjective
<1>6. Cardinality(1 .. n) = n
  BY <1>1, FS_Interval
<1> HIDE DEF n
<1>7. SetToSeq(S) \in Surjection(1 .. n, S)
  BY <1>5, <1>6, FS_Injection DEF n
<1> QED
  BY <1>7 DEF Surjection, n

LEMMA StepDelivered ==
  ASSUME DInv, Step
  PROVE  Stages' /\ \A c \in Client : Delivered(c)'
<1>1. Shape /\ Stages /\ ready \in Seq(Callbacks)
  BY Parts
<1>2. /\ UNCHANGED <<handler, streams, channel, commands, stopping, lifecycle, stuck, missed>>
      /\ worker = "step" /\ (worker' = "off" => stopping)
  BY DEF Step, loopVars, LoopHead
<1>3. PICK moved \in SUBSET (live \ stuck) : \E ended \in SUBSET moved :
        /\ Advanced(moved, ended)
        /\ live' = live \ ended
        /\ ready' = ready \o [i \in 1 .. Cardinality(moved) |->
                                LET c == SetToSeq(moved)[i]
                                IN  Delivery(c, made[c] + 1, c \in ended)]
  BY DEF Step
<1>4. PICK ended \in SUBSET moved :
        /\ Advanced(moved, ended)
        /\ live' = live \ ended
        /\ ready' = ready \o [i \in 1 .. Cardinality(moved) |->
                                LET c == SetToSeq(moved)[i]
                                IN  Delivery(c, made[c] + 1, c \in ended)]
  BY <1>3
<1> DEFINE more == [i \in 1 .. Cardinality(moved) |->
                      Delivery(SetToSeq(moved)[i], made[SetToSeq(moved)[i]] + 1,
                               SetToSeq(moved)[i] \in ended)]
<1>5. ready' = ready \o more
  BY <1>4
<1>6. /\ Cardinality(moved) \in Nat
      /\ \A i \in 1 .. Cardinality(moved) : SetToSeq(moved)[i] \in moved
      /\ \A c \in moved : \E i \in 1 .. Cardinality(moved) : SetToSeq(moved)[i] = c
  <2>1. IsFiniteSet(moved)
    BY <1>1, FS_Subset DEF Shape
  <2> QED
    BY <2>1, SetToSeqIn, SetToSeqAll
<1>7. \A c \in moved : /\ Delivery(c, made[c] + 1, c \in ended) \in Callbacks
                       /\ Delivery(c, made[c] + 1, c \in ended).fn = "deliver"
                       /\ c \in ended => Ending(c, Delivery(c, made[c] + 1, c \in ended))
  <2>1. ASSUME NEW c \in moved
        PROVE /\ Delivery(c, made[c] + 1, c \in ended) \in Callbacks
              /\ Delivery(c, made[c] + 1, c \in ended).fn = "deliver"
              /\ c \in ended => Ending(c, Delivery(c, made[c] + 1, c \in ended))
    <3>1. c \in Client /\ made[c] + 1 \in 1 .. MaxTokens
      BY <1>1, <2>1, AsyncAssumption DEF Shape
    <3>2. (c \in ended) \in BOOLEAN
      OBVIOUS
    <3>3. c \in ended => Delivery(c, made[c] + 1, c \in ended) \in LastOutputs(c)
      BY <3>1 DEF Delivery, LastOutputs
    <3> QED
      BY <3>1, <3>2, <3>3 DEF Delivery, Callbacks, Ending, Finals
  <2> QED
    BY <2>1
<1>8. /\ more \in Seq(Callbacks)
      /\ \A k \in DOMAIN more : more[k].fn = "deliver"
      /\ \A c \in ended : \E k \in DOMAIN more : Ending(c, more[k])
  <2>1. \A i \in 1 .. Cardinality(moved) : more[i] \in Callbacks /\ more[i].fn = "deliver"
    BY <1>6, <1>7
  <2>2. ASSUME NEW c \in ended PROVE \E k \in DOMAIN more : Ending(c, more[k])
    <3>1. PICK i \in 1 .. Cardinality(moved) : SetToSeq(moved)[i] = c
      BY <1>6
    <3>2. more[i] = Delivery(c, made[c] + 1, c \in ended)
      BY <3>1
    <3> QED
      BY <1>7, <3>1, <3>2
  <2> QED
    BY <1>6, <2>1, <2>2
<1> HIDE DEF more
<1>9. /\ \A k \in DOMAIN more : more[k] # Joined
      /\ \A c \in Client : \A k \in DOMAIN more : more[k] # Callback("register", c)
  BY <1>8 DEF Joined, Callback
<1>10. WorkerMoves(more)
  <2>1. worker' = "off" => lifecycle \notin {"created", "started"}
    BY <1>1, <1>2 DEF Stages
  <2> QED
    BY <1>1, <1>2, <1>5, <1>8, <1>9, <2>1 DEF WorkerMoves, Shape
<1>11. ASSUME NEW c \in Client PROVE Delivered(c)'
  <2>1. c \in live \ stuck =>
          c \in live' \ stuck' \/ \E k \in DOMAIN more : Ending(c, more[k])
    BY <1>2, <1>4, <1>8
  <2> QED
    BY <1>9, <1>10, <2>1, MovesDelivered
<1> QED
  BY <1>10, <1>11, MovesStages

LEMMA StepRaisesDelivered ==
  ASSUME DInv, StepRaises
  PROVE  Stages' /\ \A c \in Client : Delivered(c)'
<1> DEFINE more == [i \in 1 .. Cardinality(streams) |-> Callback("fail", SetToSeq(streams)[i])]
<1>1. Shape /\ Stages /\ ready \in Seq(Callbacks)
  BY Parts
<1>2. /\ UNCHANGED <<handler, streams, channel, commands, stopping, lifecycle>>
      /\ worker = "step" /\ (worker' = "off" => stopping)
      /\ missed' = missed \cup (live \ streams)
      /\ ready' = ready \o more
  BY DEF StepRaises, ReportFailure, loopVars, LoopHead
<1>3. /\ Cardinality(streams) \in Nat
      /\ \A i \in 1 .. Cardinality(streams) : SetToSeq(streams)[i] \in streams
      /\ \A c \in streams : \E i \in 1 .. Cardinality(streams) : SetToSeq(streams)[i] = c
  BY <1>1, SetToSeqIn, SetToSeqAll DEF Shape
<1>4. /\ more \in Seq(Callbacks)
      /\ \A k \in DOMAIN more : more[k].fn = "fail"
      /\ \A c \in streams : \E k \in DOMAIN more : Ending(c, more[k])
  <2>1. \A c \in streams : /\ Callback("fail", c) \in Callbacks
                           /\ Callback("fail", c).fn = "fail"
                           /\ Ending(c, Callback("fail", c))
    BY <1>1 DEF Shape, Callback, Callbacks, Ending, Finals
  <2> QED
    BY <1>3, <2>1
<1> HIDE DEF more
<1>5. /\ \A k \in DOMAIN more : more[k] # Joined
      /\ \A c \in Client : \A k \in DOMAIN more : more[k] # Callback("register", c)
  BY <1>4 DEF Joined, Callback
<1>6. WorkerMoves(more)
  <2>1. worker' = "off" => lifecycle \notin {"created", "started"}
    BY <1>1, <1>2 DEF Stages
  <2>2. missed' \subseteq Client
    BY <1>1, <1>2 DEF Shape
  <2> QED
    BY <1>1, <1>2, <1>4, <1>5, <2>1, <2>2 DEF WorkerMoves
<1>7. ASSUME NEW c \in Client PROVE Delivered(c)'
  <2>1. c \notin missed' /\ c \in live \ stuck =>
          c \in live' \ stuck' \/ \E k \in DOMAIN more : Ending(c, more[k])
    BY <1>2, <1>4
  <2> QED
    BY <1>5, <1>6, <2>1, MovesDelivered
<1> QED
  BY <1>6, <1>7, MovesStages

-----------------------------------------------------------------------------
(* The loop runs a callback. *)

LEMMA LastOfConcat ==
  ASSUME NEW S, NEW s \in Seq(S), NEW t \in Seq(S), t # << >>
  PROVE  s \o t # << >> /\ Last(s \o t) = Last(t)
<1>1. /\ s \o t \in Seq(S) /\ Len(s \o t) = Len(s) + Len(t)
      /\ \A i \in 1 .. Len(s) + Len(t) :
           (s \o t)[i] = IF i <= Len(s) THEN s[i] ELSE t[i - Len(s)]
      /\ Len(s) \in Nat /\ Len(t) \in Nat \ {0}
  BY ConcatProperties, LenProperties, EmptySeq
<1>2. (s \o t)[Len(s) + Len(t)] = t[(Len(s) + Len(t)) - Len(s)]
  BY <1>1
<1>3. (Len(s) + Len(t)) - Len(s) = Len(t) /\ Len(s) + Len(t) # 0
  BY <1>1
<1> QED
  BY <1>1, <1>2, <1>3, EmptySeq DEF Last

LEMMA LastOfAppend ==
  ASSUME NEW S, NEW s \in Seq(S), NEW e \in S
  PROVE  Append(s, e) # << >> /\ Last(Append(s, e)) = e
<1>1. /\ Append(s, e) \in Seq(S)
      /\ Len(Append(s, e)) = Len(s) + 1 /\ Append(s, e)[Len(s) + 1] = e
      /\ Len(s) \in Nat
  BY AppendProperties, LenProperties
<1>2. Last(Append(s, e)) = e
  BY <1>1 DEF Last
<1>3. Len(Append(s, e)) # 0 /\ Len(<< >>) = 0
  BY <1>1
<1> QED
  BY <1>2, <1>3, Zenon

LEMMA EndingShape ==
  ASSUME NEW c, NEW b, Ending(c, b), b # Joined
  PROVE  /\ b.fn \in {"fail", "close", "deliver"} /\ b.c = c
         /\ b.fn = "deliver" => b.fin
<1>1. CASE b = Callback("fail", c) \/ b = Callback("close", c)
  BY <1>1 DEF Callback
<1>2. CASE b \in LastOutputs(c)
  BY <1>2 DEF LastOutputs
<1> QED
  BY <1>1, <1>2 DEF Ending, Finals

\* What the loop does to the queues.
LoopMoves ==
  /\ ready # << >> /\ ready' = Tail(ready)
  /\ lifecycle' = IF Head(ready) = Joined THEN "closed" ELSE lifecycle
  /\ UNCHANGED <<commands, worker, stopping, live, stuck, missed>>

LEMMA LoopStages ==
  ASSUME DInv, LoopMoves
  PROVE  Stages' /\ \A c \in Client : Busy(c) => Busy(c)'
<1>1. /\ Stages /\ ready \in Seq(Callbacks)
      /\ 1 \in DOMAIN ready /\ Head(ready) = ready[1]
      /\ \A i \in DOMAIN ready' : i \in Int /\ i + 1 \in DOMAIN ready /\ ready'[i] = ready[i + 1]
  BY Parts, TailAt DEF LoopMoves
<1>2. Head(ready) = Joined => lifecycle \in {"joined", "closed"}
  BY <1>1 DEF Stages
<1>4. Stages'
  BY <1>1, <1>2 DEF Stages, LoopMoves
<1>5. \A c \in Client : Busy(c) => Busy(c)'
  BY <1>2 DEF Busy, LoopMoves
<1> QED
  BY <1>4, <1>5

LEMMA ComingTail ==
  ASSUME DInv, LoopMoves, NEW c \in Client, NEW j \in Nat, Coming(c, j + 1)
  PROVE  Coming(c, j)'
<1>1. CASE Busy(c)
  BY <1>1, LoopStages DEF Coming
<1>2. CASE \E i \in DOMAIN ready : i > j + 1 /\ Ending(c, ready[i])
  <2>1. PICK i \in DOMAIN ready : i > j + 1 /\ Ending(c, ready[i])
    BY <1>2
  <2>2. i \in Nat /\ i # 1
    BY <2>1, Parts, LenProperties
  <2>3. i - 1 \in DOMAIN ready' /\ ready'[i - 1] = ready[i]
    BY <2>1, <2>2, Parts, TailAt DEF LoopMoves
  <2>4. i - 1 > j /\ Ending(c, ready'[i - 1])
    BY <2>1, <2>2, <2>3
  <2> QED
    BY <2>3, <2>4 DEF Coming
<1> QED
  BY <1>1, <1>2 DEF Coming

\* What was to come, and was not the first callback, still is.
LEMMA ComingOn ==
  ASSUME DInv, LoopMoves, NEW c \in Client, Coming(c, 0), ~Ending(c, Head(ready))
  PROVE  Coming(c, 0)'
<1>1. /\ Head(ready) = ready[1] /\ \A i \in DOMAIN ready : i \in Nat /\ i >= 1
  BY Parts, TailAt, LenProperties DEF LoopMoves
<1>2. Coming(c, 0 + 1)
  BY <1>1 DEF Coming
<1> QED
  BY <1>2, ComingTail

\* A callback that does not register c.
LEMMA LoopDelivered ==
  ASSUME DInv, LoopMoves, NEW c \in Client,
         Head(ready) # Callback("register", c),
         handler'[c] = "new" => handler[c] = "new",
         c \in streams' => c \in streams,
         channel'[c].done => channel[c].done \/ c \in streams,
         c \notin missed => Held(c)'
  PROVE  Delivered(c)'
<1>1. /\ ready \in Seq(Callbacks) /\ Delivered(c)
      /\ \A i \in DOMAIN ready' : i \in Nat /\ i + 1 \in DOMAIN ready /\ ready'[i] = ready[i + 1]
  <2>1. ready \in Seq(Callbacks) /\ ready' \in Seq(Callbacks) /\ Delivered(c)
    BY Parts, TailAt DEF LoopMoves
  <2> QED
    BY <2>1, TailAt, LenProperties DEF LoopMoves
<1>2. Unregistered(c)'
  BY <1>1 DEF Delivered, Unregistered, LoopMoves
<1>3. Awaited(c)'
  <2> SUFFICES ASSUME NEW j \in DOMAIN ready', ready'[j] = Callback("register", c)
               PROVE  /\ c \notin streams'
                      /\ ~channel'[c].done
                      /\ \A k \in DOMAIN ready' : ready'[k] = Callback("register", c) => k = j
                      /\ c \notin missed' => Coming(c, j)'
    BY DEF Awaited
  <2>1. j \in Nat /\ j + 1 \in DOMAIN ready /\ ready[j + 1] = Callback("register", c)
    BY <1>1
  <2>2. /\ c \notin streams /\ ~channel[c].done
        /\ \A k \in DOMAIN ready : ready[k] = Callback("register", c) => k = j + 1
        /\ c \notin missed => Coming(c, j + 1)
    BY <1>1, <2>1 DEF Delivered, Awaited
  <2>3. ASSUME NEW k \in DOMAIN ready', ready'[k] = Callback("register", c) PROVE k = j
    <3>1. k \in Nat /\ k + 1 = j + 1
      BY <1>1, <2>2, <2>3
    <3> QED
      BY <2>1, <3>1
  <2>4. c \notin missed => Coming(c, j)'
    BY <2>1, <2>2, ComingTail
  <2> QED
    BY <2>2, <2>3, <2>4 DEF LoopMoves
<1> QED
  BY <1>2, <1>3 DEF Delivered, LoopMoves

LEMMA RegisterDelivered ==
  ASSUME DInv, LoopMoves, NEW a \in Client, Head(ready) = Callback("register", a),
         RegisterStream(a)
  PROVE  \A c \in Client : Delivered(c)'
<1>1. /\ ready \in Seq(Callbacks) /\ 1 \in DOMAIN ready /\ ready[1] = Callback("register", a)
      /\ \A c \in Client : Delivered(c)
      /\ \A i \in DOMAIN ready' : i \in Int /\ i + 1 \in DOMAIN ready /\ ready'[i] = ready[i + 1]
  BY Parts, TailAt DEF LoopMoves
<1>2. streams' = streams \cup {a} /\ UNCHANGED <<channel, handler>>
  BY DEF RegisterStream
<1>3. ASSUME NEW c \in Client, c # a PROVE Delivered(c)'
  <2>1. /\ Callback("register", a) # Callback("register", c)
        /\ Callback("register", a) # Joined
        /\ ~Ending(c, Callback("register", a))
    BY <1>3, EndingShape DEF Callback, Joined
  <2>2. c \notin missed => Held(c)'
    BY <1>1, <1>2, <1>3, <2>1, ComingOn DEF Delivered, Held, Closed
  <2> QED
    BY <1>2, <1>3, <2>1, <2>2, LoopDelivered
<1>4. Delivered(a)'
  <2>1. /\ ~channel[a].done
        /\ \A k \in DOMAIN ready : ready[k] = Callback("register", a) => k = 1
        /\ a \notin missed => Coming(a, 1)
    BY <1>1 DEF Delivered, Awaited
  <2>2. \A i \in DOMAIN ready' : ready'[i] # Callback("register", a)
    <3> SUFFICES ASSUME NEW i \in DOMAIN ready', ready'[i] = Callback("register", a) PROVE FALSE
      OBVIOUS
    <3>1. ready' \in Seq(Callbacks) /\ i >= 1 /\ i \in Int
      BY <1>1, TailAt, LenProperties DEF LoopMoves
    <3>2. i + 1 = 1
      BY <1>1, <2>1
    <3> QED
      BY <3>1, <3>2
  <2>3. Unregistered(a)' /\ Awaited(a)'
    BY <1>1, <1>2, <2>2 DEF Delivered, Unregistered, Awaited, LoopMoves
  <2>4. a \notin missed => Coming(a, 0)'
    <3>1. a \notin missed => Coming(a, 0 + 1)
      BY <2>1
    <3> QED
      BY <3>1, ComingTail
  <2> QED
    BY <1>2, <2>1, <2>3, <2>4 DEF Delivered, Held, LoopMoves
<1> QED
  BY <1>3, <1>4

LEMMA PutOn ==
  ASSUME Shape, NEW a \in Client, NEW items \in Seq(Items), items # << >>, NEW retired,
         Put(a, items, retired), NEW c \in Client
  PROVE  /\ c # a \/ c \notin streams \/ channel[c].done => channel'[c] = channel[c]
         /\ c = a /\ c \in streams /\ ~channel[c].done =>
              /\ channel'[c].done = (Last(items) = End)
              /\ Last(items) = End => Closed(c)'
<1>1. channel \in [Client -> [items : Seq(Items), done : BOOLEAN, retired : BOOLEAN]]
  BY DEF Shape
<1>2. channel[a].items \o items # << >> /\ Last(channel[a].items \o items) = Last(items)
  BY <1>1, LastOfConcat
<1>3. CASE ~(a \in streams /\ ~channel[a].done)
  BY <1>1, <1>3 DEF Put
<1>4. CASE a \in streams /\ ~channel[a].done
  <2>1. channel' = [channel EXCEPT ![a].items = @ \o items,
                                   ![a].done = Last(items) = End,
                                   ![a].retired = retired]
    BY <1>4 DEF Put
  <2>2. /\ \A d \in Client \ {a} : channel'[d] = channel[d]
        /\ channel'[a].items = channel[a].items \o items
        /\ channel'[a].done = (Last(items) = End)
    BY <1>1, <2>1
  <2> QED
    BY <1>2, <1>4, <2>2 DEF Closed
<1> QED
  BY <1>3, <1>4

\* An item, or the last ones, for one open channel.
LEMMA ItemsDelivered ==
  ASSUME DInv, LoopMoves, Head(ready).fn \in {"fail", "close", "deliver"},
         Head(ready).c \in Client, UNCHANGED <<streams, handler>>,
         NEW items \in Seq(Items), items # << >>, NEW retired,
         Put(Head(ready).c, items, retired),
         Head(ready).fn \in {"fail", "close"} \/ Head(ready).fin => Last(items) = End
  PROVE  \A c \in Client : Delivered(c)'
<1> DEFINE b == Head(ready)
<1>1. Shape /\ b # Joined
  BY Parts DEF Joined
<1>2. ASSUME NEW c \in Client PROVE Delivered(c)'
  <2>1. /\ c # b.c \/ c \notin streams \/ channel[c].done => channel'[c] = channel[c]
        /\ c = b.c /\ c \in streams /\ ~channel[c].done =>
             /\ channel'[c].done = (Last(items) = End)
             /\ Last(items) = End => Closed(c)'
    BY <1>1, PutOn
  <2>2. b # Callback("register", c)
    BY DEF Callback
  <2>3. ASSUME c \notin missed PROVE Held(c)'
    <3>1. Held(c)
      BY <2>3, Parts DEF Delivered
    <3>2. Ending(c, b) => c = b.c /\ Last(items) = End
      BY <1>1, EndingShape
    <3>3. Coming(c, 0) /\ ~Ending(c, b) => Coming(c, 0)'
      BY ComingOn
    <3> HIDE DEF b
    <3>4. CASE c \notin streams \/ channel[c].done
      BY <2>1, <3>1, <3>4 DEF Held, Closed
    <3>5. CASE c \in streams /\ ~channel[c].done
      <4>1. CASE c = b.c /\ Last(items) = End
        BY <2>1, <3>5, <4>1 DEF Held
      <4>2. CASE c # b.c \/ Last(items) # End
        <5>1. ~channel'[c].done /\ Coming(c, 0)'
          BY <2>1, <3>1, <3>2, <3>3, <3>5, <4>2 DEF Held
        <5> QED
          BY <3>5, <5>1 DEF Held
      <4> QED
        BY <4>1, <4>2
    <3> QED
      BY <3>4, <3>5
  <2>4. channel'[c].done => channel[c].done \/ c \in streams
    BY <2>1
  <2> QED
    BY <2>2, <2>3, <2>4, LoopDelivered
<1> QED
  BY <1>2

\* A submit is answered: no stream is touched, and no handler starts to read.
LEMMA ResolveDelivered ==
  ASSUME DInv, LoopMoves, Head(ready).fn \in {"id", "refused"}, Head(ready).c \in Client,
         NEW answer \in {"answered", "over"}, Resolve(Head(ready).c, answer)
  PROVE  \A c \in Client : Delivered(c)'
<1> DEFINE b == Head(ready)
<1>1. UNCHANGED <<streams, channel>>
  BY DEF Resolve
<1>2. \A c \in Client : handler'[c] = handler[c] \/ handler'[c] \in {"answered", "over"}
  BY Parts DEF Resolve, Shape
<1>3. ASSUME NEW c \in Client PROVE Delivered(c)'
  <2>1. /\ b # Joined /\ b # Callback("register", c)
        /\ ~Ending(c, b)
    BY EndingShape DEF Joined, Callback
  <2>2. c \notin missed => Held(c)'
    BY <1>1, <1>2, <2>1, Parts, ComingOn DEF Delivered, Held, Closed
  <2> QED
    BY <1>1, <1>2, <2>1, <2>2, LoopDelivered
<1> QED
  BY <1>3

LEMMA FinishStopDelivered ==
  ASSUME DInv, LoopMoves, Head(ready) = Joined, FinishStop
  PROVE  \A c \in Client : Delivered(c)'
<1>1. Shape /\ streams' = {} /\ UNCHANGED handler
  BY Parts DEF FinishStop
<1>2. ASSUME NEW c \in Client
      PROVE  /\ ~(c \in streams /\ ~channel[c].done) => channel'[c] = channel[c]
             /\ c \in streams /\ ~channel[c].done => channel'[c].done /\ Closed(c)'
  <2>1. channel[c] \in [items : Seq(Items), done : BOOLEAN, retired : BOOLEAN]
    BY <1>1 DEF Shape
  <2>2. End \in Items
    BY DEF Items
  <2>3. channel[c].items \in Seq(Items)
    BY <2>1
  <2>4. Append(channel[c].items, End) # << >> /\ Last(Append(channel[c].items, End)) = End
    BY <2>2, <2>3, LastOfAppend
  <2> QED
    BY <2>1, <2>4 DEF FinishStop, Closed
<1>3. ASSUME NEW c \in Client PROVE Delivered(c)'
  <2>1. Head(ready) # Callback("register", c)
    BY DEF Joined, Callback
  <2>2. c \notin missed => Held(c)'
    BY <1>1, <1>2, Parts DEF Delivered, Held, Closed
  <2>3. channel'[c].done => channel[c].done \/ c \in streams
    BY <1>2
  <2> QED
    BY <1>1, <2>1, <2>2, <2>3, LoopDelivered
<1> QED
  BY <1>3

LEMMA RunCallbackDelivered ==
  ASSUME DInv, RunCallback
  PROVE  Stages' /\ \A c \in Client : Delivered(c)'
<1> DEFINE b == Head(ready)
<1>1. LoopMoves
  BY DEF RunCallback, LoopMoves, engineVars
<1>2. b \in Callbacks
  BY Parts, TailAt DEF RunCallback
<1>3. /\ b.fn \in {"register", "fail", "close", "id", "refused"} =>
           b.c \in Client /\ b = Callback(b.fn, b.c)
      /\ b.fn = "deliver" =>
           /\ b.c \in Client /\ b.n \in 1 .. MaxTokens /\ b.fin \in BOOLEAN
           /\ b.fin => b \in LastOutputs(b.c)
      /\ b.fn = "joined" <=> b = Joined
  BY <1>2, CallbackShape
<1>4. /\ <<Failure, End>> \in Seq(Items) /\ <<Failure, End>> # << >>
      /\ Last(<<Failure, End>>) = End
      /\ <<End>> \in Seq(Items) /\ <<End>> # << >> /\ Last(<<End>>) = End
  BY DEF Items, Last
<1>5. CASE b.fn = "register" /\ RegisterStream(b.c)
  BY <1>1, <1>3, <1>5, RegisterDelivered, LoopStages
<1>6. CASE b.fn = "deliver" /\ Deliver(b)
  <2> DEFINE items == <<Output(b.n, b.fin)>> \o Ended(b.fin)
  <2>1. <<Output(b.n, b.fin)>> \in Seq(Items) /\ <<Output(b.n, b.fin)>> # << >>
    <3>1. Output(b.n, b.fin) \in Items
      BY <1>3, <1>6 DEF Items, Output
    <3> QED
      BY <3>1
  <2>2. items \in Seq(Items) /\ items # << >> /\ (b.fin => Last(items) = End)
    <3>1. CASE b.fin
      <4>1. items = <<Output(b.n, b.fin)>> \o <<End>>
        BY <3>1 DEF Ended
      <4>2. <<Output(b.n, b.fin)>> \o <<End>> \in Seq(Items)
        BY <1>4, <2>1, ConcatAt
      <4>3. /\ <<Output(b.n, b.fin)>> \o <<End>> # << >>
            /\ Last(<<Output(b.n, b.fin)>> \o <<End>>) = End
        BY <1>4, <2>1, LastOfConcat
      <4> QED
        BY <4>1, <4>2, <4>3, Zenon
    <3>2. CASE ~b.fin
      <4>1. items = <<Output(b.n, b.fin)>>
        BY <2>1, <3>2, ConcatEmptySeq DEF Ended
      <4> QED
        BY <2>1, <3>2, <4>1
    <3> QED
      BY <3>1, <3>2
  <2>3. Put(b.c, items, b.fin) /\ UNCHANGED <<streams, handler>>
    BY <1>6 DEF Deliver
  <2> HIDE DEF items
  <2> QED
    BY <1>1, <1>3, <1>6, <2>2, <2>3, ItemsDelivered, LoopStages
<1>7. CASE b.fn = "fail" /\ DeliverError(b.c)
  <2>1. Put(b.c, <<Failure, End>>, FALSE) /\ UNCHANGED <<streams, handler>>
    BY <1>7 DEF DeliverError
  <2> QED
    BY <1>1, <1>3, <1>4, <1>7, <2>1, ItemsDelivered, LoopStages
<1>8. CASE b.fn = "close" /\ CloseStream(b.c)
  <2>1. Put(b.c, <<End>>, FALSE) /\ UNCHANGED <<streams, handler>>
    BY <1>8 DEF CloseStream
  <2> QED
    BY <1>1, <1>3, <1>4, <1>8, <2>1, ItemsDelivered, LoopStages
<1>9. CASE \/ b.fn = "id" /\ Resolve(b.c, "answered")
           \/ b.fn = "refused" /\ Resolve(b.c, "over")
  <2>1. b.c \in Client /\ b.fn \in {"id", "refused"}
    BY <1>3, <1>9
  <2>2. PICK answer \in {"answered", "over"} : Resolve(b.c, answer)
    BY <1>9
  <2> QED
    BY <1>1, <2>1, <2>2, ResolveDelivered, LoopStages
<1>10. CASE b.fn = "joined" /\ FinishStop
  BY <1>1, <1>3, <1>10, FinishStopDelivered, LoopStages
<1> QED
  BY <1>5, <1>6, <1>7, <1>8, <1>9, <1>10 DEF RunCallback

-----------------------------------------------------------------------------
(* The handlers. *)

\* A handler's action is about its own request: the others are left alone.
LEMMA HandlerDelivered ==
  ASSUME DInv, NEW c \in Client, Delivered(c)',
         UNCHANGED <<ready, worker, stopping, lifecycle, engineVars, missed>>,
         NEW more \in Seq(Commands), commands' = commands \o more,
         \A k \in DOMAIN more : more[k] \in {Submission(c), Cancellation(c)},
         \A d \in Client \ {c} : /\ handler'[d] = handler[d] /\ channel'[d] = channel[d]
                                 /\ d \in streams' <=> d \in streams
  PROVE  Stages' /\ \A d \in Client : Delivered(d)'
<1>1. /\ Stages /\ commands \in Seq(Commands)
      /\ \A d \in Client : SubmittedOnce(d) /\ Delivered(d)
  BY Parts
<1>2. UNCHANGED <<live, stuck>>
  BY DEF engineVars
<1>3. Stages'
  <2>1. \A k \in DOMAIN more : more[k] # Stop
    BY DEF Submission, Cancellation, Stop
  <2>2. \A i \in DOMAIN commands' : commands'[i] = Stop => i \in DOMAIN commands /\ commands[i] = Stop
    BY <1>1, <2>1, ConcatAt
  <2> QED
    BY <1>1, <2>2 DEF Stages
<1>4. ASSUME NEW d \in Client, d # c PROVE Delivered(d)'
  <2>1. \A k \in DOMAIN more : more[k] # Submission(d)
    BY <1>4 DEF Submission, Cancellation
  <2>2. NoSubmission(d)
    BY <1>1, <2>1, CommandsGrown
  <2>3. /\ handler'[d] = handler[d] /\ channel'[d] = channel[d]
        /\ d \in streams' <=> d \in streams
    BY <1>4
  <2>4. Unregistered(d)'
    BY <1>1, <2>2, <2>3, UnregisteredKept DEF Delivered
  <2>5. Busy(d)' <=> Busy(d)
    BY <1>2 DEF Busy
  <2>6. \A j : Coming(d, j)' <=> Coming(d, j)
    BY <2>5 DEF Coming
  <2>7. Awaited(d)' /\ (d \notin missed' => Held(d)')
    BY <1>1, <2>3, <2>6 DEF Delivered, Awaited, Held, Closed
  <2> QED
    BY <2>4, <2>7 DEF Delivered
<1> QED
  BY <1>3, <1>4

\* Its own request, as long as its stream stays as it is.
LEMMA OwnDelivered ==
  ASSUME DInv, NEW c \in Client,
         UNCHANGED <<ready, worker, lifecycle, engineVars, missed, streams>>,
         handler'[c] = "new" \/ (\E i \in DOMAIN commands' : commands'[i] = Submission(c)) =>
           handler[c] = "new" \/ (\E i \in DOMAIN commands : commands[i] = Submission(c)),
         handler'[c] = "streaming" => handler[c] = "streaming" \/ c \in streams,
         channel'[c].done = channel[c].done,
         channel[c].done /\ Closed(c) => Closed(c)'
  PROVE  Delivered(c)'
<1>1. Delivered(c)
  BY Parts
<1>2. Busy(c)' <=> Busy(c)
  BY DEF Busy, engineVars
<1>3. \A j : Coming(c, j)' <=> Coming(c, j)
  BY <1>2 DEF Coming
<1>4. Unregistered(c)' /\ Awaited(c)'
  BY <1>1, <1>3 DEF Delivered, Unregistered, Awaited
<1>5. c \notin missed' => Held(c)'
  BY <1>1, <1>3 DEF Delivered, Held
<1> QED
  BY <1>4, <1>5 DEF Delivered

LEMMA SubmitDelivered ==
  ASSUME DInv, NEW c \in Client, Submit(c)
  PROVE  Stages' /\ \A d \in Client : Delivered(d)'
<1>1. Shape /\ commands \in Seq(Commands)
  BY Parts
<1>2. /\ handler[c] = "new"
      /\ UNCHANGED <<streams, channel, ready, worker, stopping, lifecycle, engineVars, missed>>
  BY DEF Submit
<1>3. PICK h \in {"waiting", "over"} : handler' = [handler EXCEPT ![c] = h]
  BY DEF Submit
<1>4. handler'[c] \in {"waiting", "over"} /\ \A d \in Client \ {c} : handler'[d] = handler[d]
  BY <1>1, <1>3 DEF Shape
<1>5. Delivered(c)'
  BY <1>2, <1>4, OwnDelivered DEF Closed
<1>6. CASE commands' = Append(commands, Submission(c))
  <2>1. Submission(c) \in Commands
    BY DEF Submission, Commands
  <2>2. /\ <<Submission(c)>> \in Seq(Commands) /\ commands' = commands \o <<Submission(c)>>
        /\ \A k \in DOMAIN <<Submission(c)>> : <<Submission(c)>>[k] = Submission(c)
    BY <1>1, <1>6, <2>1, AppendIsConcat
  <2> QED
    BY <1>2, <1>4, <1>5, <2>2, HandlerDelivered
<1>7. CASE UNCHANGED commands
  <2>1. /\ << >> \in Seq(Commands) /\ commands' = commands \o << >>
        /\ \A k \in DOMAIN << >> : FALSE
    BY <1>1, <1>7, NothingAdded
  <2> QED
    BY <1>2, <1>4, <1>5, <2>1, HandlerDelivered
<1> QED
  BY <1>6, <1>7 DEF Submit

LEMMA VanishOpenDelivered ==
  ASSUME DInv, NEW c \in Client, Vanish(c) \/ Open(c)
  PROVE  Stages' /\ \A d \in Client : Delivered(d)'
<1>1. Shape /\ commands \in Seq(Commands)
  BY Parts
<1>2. UNCHANGED <<streams, channel, ready, commands, worker, stopping, lifecycle,
                  engineVars, missed>>
  BY DEF Vanish, Open
<1>3. PICK h \in {"gone", "streaming", "over"} :
        handler' = [handler EXCEPT ![c] = h] /\ (h = "streaming" => c \in streams)
  BY DEF Vanish, Open
<1>4. handler'[c] = h /\ \A d \in Client \ {c} : handler'[d] = handler[d]
  BY <1>1, <1>3 DEF Shape
<1>5. Delivered(c)'
  BY <1>2, <1>3, <1>4, OwnDelivered DEF Closed
<1>6. /\ << >> \in Seq(Commands) /\ commands' = commands \o << >>
      /\ \A k \in DOMAIN << >> : FALSE
  BY <1>1, <1>2, NothingAdded
<1> QED
  BY <1>2, <1>4, <1>5, <1>6, HandlerDelivered

LEMMA ReleaseDelivered ==
  ASSUME DInv, NEW c \in Client, handler[c] = "streaming",
         NEW posted \in {<< >>, <<Cancellation(c)>>}, Release(c, posted),
         UNCHANGED <<ready, worker, stopping, lifecycle, engineVars, faults, missed>>
  PROVE  Stages' /\ \A d \in Client : Delivered(d)'
<1> DEFINE due == IF c \in streams /\ ~channel[c].retired THEN <<Cancellation(c)>> ELSE << >>
           more == posted \o due
<1>1. Shape /\ commands \in Seq(Commands) /\ SubmittedOnce(c) /\ Delivered(c)
  BY Parts
<1>2. /\ posted \in Seq(Commands) /\ due \in Seq(Commands)
      /\ \A k \in DOMAIN posted : posted[k] = Cancellation(c)
      /\ \A k \in DOMAIN due : due[k] = Cancellation(c)
  <2>1. Cancellation(c) \in Commands
    BY DEF Commands, Cancellation
  <2>2. /\ << >> \in Seq(Commands) /\ <<Cancellation(c)>> \in Seq(Commands)
        /\ \A k \in DOMAIN <<Cancellation(c)>> : <<Cancellation(c)>>[k] = Cancellation(c)
        /\ \A k \in DOMAIN << >> : FALSE
    BY <2>1
  <2>3. posted = << >> \/ posted = <<Cancellation(c)>>
    OBVIOUS
  <2>4. due = << >> \/ due = <<Cancellation(c)>>
    OBVIOUS
  <2> HIDE DEF due
  <2> QED
    BY <2>2, <2>3, <2>4, Zenon
<1>3. /\ handler' = [handler EXCEPT ![c] = "over"]
      /\ streams' = streams \ {c}
      /\ channel' = [channel EXCEPT ![c] = NewChannel]
      /\ commands' = (commands \o posted) \o due
  BY DEF Release
<1> HIDE DEF due
<1>4. /\ more \in Seq(Commands) /\ commands' = commands \o more
      /\ \A k \in DOMAIN more : more[k] = Cancellation(c)
  <2>1. more \in Seq(Commands)
    BY <1>2, ConcatAt
  <2>2. (commands \o posted) \o due = commands \o more
    <3> HIDE DEF Commands
    <3> QED
      BY <1>1, <1>2, ConcatAssociative
  <2>3. ASSUME NEW k \in DOMAIN more PROVE more[k] = Cancellation(c)
    <3>1. \/ k \in DOMAIN posted /\ more[k] = posted[k]
          \/ \E j \in DOMAIN due : more[k] = due[j]
      BY <1>2, <2>3, ConcatAt, Zenon
    <3> QED
      BY <1>2, <3>1, Zenon
  <2> QED
    BY <1>3, <2>1, <2>2, <2>3
<1> HIDE DEF more
<1>5. /\ handler'[c] = "over" /\ c \notin streams' /\ ~channel'[c].done
      /\ \A d \in Client \ {c} : /\ handler'[d] = handler[d] /\ channel'[d] = channel[d]
                                 /\ d \in streams' <=> d \in streams
  BY <1>1, <1>3 DEF Shape, NewChannel
<1>6. Delivered(c)'
  <2>1. \A k \in DOMAIN more : more[k] # Submission(c)
    BY <1>4 DEF Submission, Cancellation
  <2>2. NoSubmission(c)
    BY <1>1, <1>4, <2>1, CommandsGrown
  <2>3. Unregistered(c)'
    BY <1>1, <1>5, <2>2 DEF Unregistered, NoSubmission, SubmittedOnce
  <2>4. Busy(c)' <=> Busy(c)
    BY DEF Busy, engineVars
  <2>5. \A j : Coming(c, j)' <=> Coming(c, j)
    BY <2>4 DEF Coming
  <2>6. Awaited(c)' /\ Held(c)'
    BY <1>1, <1>5, <2>5 DEF Delivered, Awaited, Held
  <2> QED
    BY <2>3, <2>6 DEF Delivered
<1>7. \A k \in DOMAIN more : more[k] \in {Submission(c), Cancellation(c)}
  BY <1>4
<1> QED
  BY <1>4, <1>5, <1>6, <1>7, HandlerDelivered

LEMMA HangUpDelivered ==
  ASSUME DInv, NEW c \in Client, HangUp(c)
  PROVE  Stages' /\ \A d \in Client : Delivered(d)'
<1>1. PICK posted \in {<< >>, <<Cancellation(c)>>} : Release(c, posted)
  BY DEF HangUp
<1> QED
  BY <1>1, ReleaseDelivered DEF HangUp

\* What is behind the first element ends as the whole does.
LEMMA LastOfTail ==
  ASSUME NEW S, NEW s \in Seq(S), s # << >>, NEW e, Last(s) = e, Head(s) # e
  PROVE  Tail(s) # << >> /\ Last(Tail(s)) = e
<1>1. /\ Len(s) \in Nat /\ Len(s) # 0 /\ Head(s) = s[1]
      /\ Tail(s) \in Seq(S) /\ Len(Tail(s)) = Len(s) - 1
      /\ \A i \in 1 .. Len(s) - 1 : Tail(s)[i] = s[i + 1]
  BY HeadTailProperties, LenProperties, EmptySeq
<1>2. PICK n \in Nat : n = Len(s)
  BY <1>1
<1>3. n # 0 /\ n # 1
  BY <1>1, <1>2 DEF Last
<1>4. n - 1 \in 1 .. n - 1 /\ (n - 1) + 1 = n
  BY <1>3
<1>5. Tail(s)[n - 1] = s[n]
  BY <1>1, <1>2, <1>4
<1>6. Last(Tail(s)) = e
  BY <1>1, <1>2, <1>5 DEF Last
<1>7. Len(Tail(s)) # 0
  BY <1>1, <1>2, <1>3
<1>8. Len(<< >>) = 0
  OBVIOUS
<1> QED
  BY <1>6, <1>7, <1>8, Zenon

LEMMA ReadDelivered ==
  ASSUME DInv, NEW c \in Client, Read(c)
  PROVE  Stages' /\ \A d \in Client : Delivered(d)'
<1> DEFINE items == channel[c].items
<1>1. Shape /\ commands \in Seq(Commands)
  BY Parts
<1>2. /\ handler[c] = "streaming" /\ items # << >>
      /\ UNCHANGED <<ready, worker, stopping, lifecycle, engineVars, faults, missed>>
  BY DEF Read
<1>3. CASE ~(Head(items).kind = "output" /\ ~Head(items).fin)
  BY <1>2, <1>3, ReleaseDelivered DEF Read
<1>4. CASE Head(items).kind = "output" /\ ~Head(items).fin
  <2>1. /\ channel' = [channel EXCEPT ![c].items = Tail(@)]
        /\ UNCHANGED <<handler, streams, commands>>
    BY <1>4 DEF Read
  <2>2. channel[c] \in [items : Seq(Items), done : BOOLEAN, retired : BOOLEAN]
    BY <1>1 DEF Shape
  <2>3. /\ channel'[c].done = channel[c].done /\ channel'[c].items = Tail(items)
        /\ \A d \in Client \ {c} : channel'[d] = channel[d]
    BY <1>1, <2>1, <2>2 DEF Shape
  <2>4. Last(items) = End => Tail(items) # << >> /\ Last(Tail(items)) = End
    <3>1. items \in Seq(Items) /\ items # << >> /\ Head(items) # End
      BY <1>2, <1>4, <2>2 DEF End
    <3> HIDE DEF items
    <3> QED
      BY <3>1, LastOfTail
  <2>5. Closed(c) => Closed(c)'
    BY <2>3, <2>4 DEF Closed
  <2>6. Delivered(c)'
    BY <1>2, <2>1, <2>3, <2>5, OwnDelivered
  <2>7. /\ << >> \in Seq(Commands) /\ commands' = commands \o << >>
        /\ \A k \in DOMAIN << >> : FALSE
    BY <1>1, <2>1, NothingAdded
  <2> QED
    BY <1>2, <2>1, <2>3, <2>6, <2>7, HandlerDelivered
<1> QED
  BY <1>3, <1>4

-----------------------------------------------------------------------------
(* The theorem. *)

LEMMA NextDInv == DInv /\ [Next]_vars => DInv'
<1> SUFFICES ASSUME DInv, [Next]_vars PROVE DInv'
  OBVIOUS
<1>1. IInv'
  BY NextIInv DEF DInv
<1>2. Stages' /\ \A c \in Client : Delivered(c)'
  <2>1. CASE Start \/ BeginStop \/ JoinReturns
    BY <2>1, StartDelivered, BeginStopDelivered, JoinReturnsDelivered
  <2>2. CASE RunCallback
    BY <2>2, RunCallbackDelivered
  <2>3. CASE \E c \in Client : Submit(c) \/ Vanish(c) \/ Open(c) \/ Read(c) \/ HangUp(c)
    BY <2>3, SubmitDelivered, VanishOpenDelivered, ReadDelivered, HangUpDelivered
  <2>4. CASE Worker
    BY <2>4, DrainOneDelivered, DrainedDelivered, IdleDelivered, StepDelivered,
       StepRaisesDelivered DEF Worker
  <2>5. CASE UNCHANGED vars
    BY <2>5 DEF vars, DInv, Stages, Delivered, Unregistered, Awaited, Held, Closed,
                Coming, Busy
  <2> QED
    BY <2>1, <2>2, <2>3, <2>4, <2>5 DEF Next
<1> QED
  BY <1>1, <1>2 DEF DInv

\* A handler that awaits its stream is owed an item by some thread: the end is
\* in its channel, among the callbacks, or the worker has yet to post it, after
\* any errors, cancels and stop (async_engine.py, _deliver, _fail_open_streams,
\* cancel and stop).
THEOREM NobodyWaits == Spec => []NobodyWaitsForNothing
<1>1. DInv => NobodyWaitsForNothing
  <2> SUFFICES ASSUME DInv, NEW c \in Client \ missed, handler[c] = "streaming"
               PROVE  Owed(c)
    BY DEF NobodyWaitsForNothing
  <2>1. Held(c)
    BY Parts DEF Delivered
  <2>2. CASE Closed(c)
    BY <2>2 DEF Closed, Owed
  <2>3. CASE Busy(c)
    BY <2>3 DEF Busy, Owed
  <2>4. CASE \E i \in DOMAIN ready : Ending(c, ready[i])
    BY <2>4, EndingShape DEF Owed
  <2> QED
    BY <2>1, <2>2, <2>3, <2>4 DEF Held, Coming
<1> QED
  BY <1>1, InitDInv, NextDInv, PTL DEF Spec
-----------------------------------------------------------------------------
(* The inductive invariant of the order. *)

\* The callbacks that hand c an output.
Deliveries(c) == [fn : {"deliver"}, c : {c}, n : 1 .. MaxTokens, fin : BOOLEAN]

\* The i-th of the callbacks q is one that will reach an open channel.
Due(q, c, i) ==
  /\ i \in DOMAIN q /\ q[i] \in Deliveries(c)
  /\ \A j \in DOMAIN q : j < i => ~Ending(c, q[j])

\* Those outputs have numbers between base and m, they rise, each is one more
\* than the one before it, and unless an end is queued they go up to m.
InRange(q, c, base, m) ==
  \A i \in DOMAIN q : Due(q, c, i) => base < q[i].n /\ q[i].n <= m
Rising(q, c) ==
  \A i, j \in DOMAIN q : Due(q, c, i) /\ Due(q, c, j) /\ i < j => q[i].n < q[j].n
Linked(q, c, base) ==
  \A i \in DOMAIN q : Due(q, c, i) =>
    \/ q[i].n = base + 1
    \/ \E j \in DOMAIN q : j < i /\ Due(q, c, j) /\ q[j].n = q[i].n - 1
Complete(q, c, base, m) ==
  \/ \E i \in DOMAIN q : Ending(c, q[i])
  \/ m = base
  \/ \E i \in DOMAIN q : Due(q, c, i) /\ q[i].n = m

Numbering(q, c, base, m) ==
  InRange(q, c, base, m) /\ Rising(q, c) /\ Linked(q, c, base) /\ Complete(q, c, base, m)

\* The first k items of a channel are the outputs behind the g that were read.
Filling(items, g, k) ==
  /\ k \in 0 .. Len(items)
  /\ \A i \in 1 .. k : items[i].kind = "output" /\ items[i].n = g + i
  /\ \A i \in k + 1 .. Len(items) : items[i].kind # "output"

\* What c has read and what waits for it, against what was made for it.
Filled(c) ==
  /\ \A i \in DOMAIN got[c] : got[c][i] = i
  /\ \E k \in Nat :
       /\ Filling(channel[c].items, Len(got[c]), k)
       /\ Len(got[c]) + k <= made[c]
       /\ ~channel[c].done => k = Len(channel[c].items)
       /\ channel[c].retired => channel[c].done /\ Len(got[c]) + k = made[c]

\* The channel of c takes what is delivered, now or once it is registered.
Opened(c) ==
  /\ ~channel[c].done
  /\ c \in streams \/ \E j \in DOMAIN ready : ready[j] = Callback("register", c)

Numbered(c) ==
  Opened(c) =>
    Numbering(ready, c, Len(got[c]) + Len(channel[c].items), made[c])

\* The last output of a retired request is the last one made for it.
Tallied(c) ==
  \A i \in DOMAIN ready : ready[i] \in LastOutputs(c) => ready[i].n = made[c]

About(c, b) == b # Joined /\ b.c = c

\* Until its submission is applied, nobody has anything for c.
Pending(c) == handler[c] = "new" \/ \E i \in DOMAIN commands : commands[i] = Submission(c)
Quiet(c) ==
  Pending(c) =>
    /\ got[c] = << >> /\ channel[c].items = << >>
    /\ \A i \in DOMAIN commands : commands[i] # Cancellation(c)
    /\ \A i \in DOMAIN ready : ~About(c, ready[i])

\* Its registration is ahead of all that concerns it.
First(c) ==
  \A j \in DOMAIN ready :
    ready[j] = Callback("register", c) =>
      \A i \in DOMAIN ready : i < j => ready[i] # Joined /\ ~About(c, ready[i])

Ordered(c) == Filled(c) /\ Numbered(c) /\ Tallied(c) /\ Quiet(c) /\ First(c)

OInv == DInv /\ \A c \in Client : c \notin missed => Ordered(c)

-----------------------------------------------------------------------------
(* The numbers of queued outputs, as the queue grows and shrinks. *)

LEMMA DeliveryIs ==
  ASSUME NEW c, NEW b \in Deliveries(c)
  PROVE  /\ b.fn = "deliver" /\ b.c = c /\ b.n \in 1 .. MaxTokens /\ b.fin \in BOOLEAN
         /\ b # Joined /\ About(c, b)
         /\ Ending(c, b) <=> b.fin
         /\ b.fin <=> b \in LastOutputs(c)
<1>1. /\ b.fn = "deliver" /\ b.c = c /\ b.n \in 1 .. MaxTokens /\ b.fin \in BOOLEAN
      /\ b.fin <=> b \in LastOutputs(c)
  BY DEF Deliveries, LastOutputs
<1>2. b # Joined /\ b # Callback("fail", c) /\ b # Callback("close", c)
  BY <1>1 DEF Joined, Callback
<1> QED
  BY <1>1, <1>2 DEF Ending, Finals, About

LEMMA DueAt ==
  ASSUME NEW c, NEW q, NEW i, Due(q, c, i)
  PROVE  i \in DOMAIN q /\ q[i] \in Deliveries(c) /\ q[i].n \in 1 .. MaxTokens
BY DeliveryIs DEF Due

\* What is due in a longer queue, of what was there before.
LEMMA DueGrown ==
  ASSUME NEW c, NEW q \in Seq(Callbacks), NEW more \in Seq(Callbacks)
  PROVE  /\ \A i \in DOMAIN q : Due(q \o more, c, i) <=> Due(q, c, i)
         /\ \A i \in DOMAIN q : i \in DOMAIN (q \o more) /\ (q \o more)[i] = q[i]
         /\ \A i \in DOMAIN (q \o more) :
              Due(q \o more, c, i) =>
                i \in DOMAIN q \/ \E k \in DOMAIN more : i = Len(q) + k /\ (q \o more)[i] = more[k]
                                                          /\ more[k] \in Deliveries(c)
<1> DEFINE r == q \o more
<1>1. /\ \A i \in DOMAIN q : i \in DOMAIN r /\ r[i] = q[i]
      /\ \A i \in DOMAIN r :
           i \in DOMAIN q \/ \E k \in DOMAIN more : i = Len(q) + k /\ r[i] = more[k]
  BY ConcatAt
<1>2. \A i \in DOMAIN q, j \in DOMAIN r : j < i => j \in DOMAIN q
  <2>1. Len(q) \in Nat /\ DOMAIN q = 1 .. Len(q) /\ r \in Seq(Callbacks)
    BY ConcatAt, LenProperties
  <2>2. Len(r) \in Nat /\ DOMAIN r = 1 .. Len(r)
    BY <2>1, LenProperties
  <2> HIDE DEF r
  <2> QED
    BY <2>1, <2>2
<1> HIDE DEF r
<1>3. \A i \in DOMAIN q : Due(r, c, i) <=> Due(q, c, i)
  BY <1>1, <1>2 DEF Due
<1>4. \A i \in DOMAIN r : Due(r, c, i) => r[i] \in Deliveries(c)
  BY DEF Due
<1>5. \A i \in DOMAIN r :
        Due(r, c, i) =>
          i \in DOMAIN q \/ \E k \in DOMAIN more : i = Len(q) + k /\ r[i] = more[k]
                                                    /\ more[k] \in Deliveries(c)
  BY <1>1, <1>4
<1> QED
  BY <1>1, <1>3, <1>5 DEF r

\* Callbacks are added, with no output for c; c's count has grown only if they
\* end its stream.
LEMMA NumberingGrown ==
  ASSUME NEW c, NEW q \in Seq(Callbacks), NEW more \in Seq(Callbacks),
         NEW base \in Nat, NEW m \in Nat, NEW m2 \in Nat, Numbering(q, c, base, m),
         \A k \in DOMAIN more : more[k] \notin Deliveries(c),
         m <= m2, m2 = m \/ \E k \in DOMAIN more : Ending(c, more[k])
  PROVE  Numbering(q \o more, c, base, m2)
<1> DEFINE r == q \o more
<1>1. /\ \A i \in DOMAIN q : Due(r, c, i) <=> Due(q, c, i)
      /\ \A i \in DOMAIN q : i \in DOMAIN r /\ r[i] = q[i]
      /\ \A i \in DOMAIN r : Due(r, c, i) => i \in DOMAIN q
  BY DueGrown
<1>2. \A k \in DOMAIN more : Len(q) + k \in DOMAIN r /\ r[Len(q) + k] = more[k]
  BY ConcatBehind
<1> HIDE DEF r
<1>3. InRange(r, c, base, m2)
  <2> SUFFICES ASSUME NEW i \in DOMAIN r, Due(r, c, i)
               PROVE  base < r[i].n /\ r[i].n <= m2
    BY DEF InRange
  <2>1. i \in DOMAIN q /\ Due(q, c, i) /\ r[i] = q[i] /\ q[i].n \in 1 .. MaxTokens
    BY <1>1, DueAt
  <2>2. base < q[i].n /\ q[i].n <= m
    BY <2>1 DEF Numbering, InRange
  <2> QED
    BY <2>1, <2>2, AsyncAssumption
<1>4. Rising(r, c)
  BY <1>1 DEF Numbering, Rising
<1>5. Linked(r, c, base)
  BY <1>1 DEF Numbering, Linked
<1>6. Complete(r, c, base, m2)
  <2>1. CASE \E k \in DOMAIN more : Ending(c, more[k])
    BY <1>2, <2>1 DEF Complete
  <2>2. CASE m2 = m
    BY <1>1, <2>2 DEF Numbering, Complete
  <2> QED
    BY <2>1, <2>2
<1> QED
  BY <1>3, <1>4, <1>5, <1>6 DEF Numbering, r

\* Callbacks are added, and one of them hands c its next output.
LEMMA NumberingAdded ==
  ASSUME NEW c, NEW q \in Seq(Callbacks), NEW more \in Seq(Callbacks),
         NEW base \in Nat, NEW m \in Nat, base <= m, Numbering(q, c, base, m),
         NEW k \in DOMAIN more, more[k] \in Deliveries(c), more[k].n = m + 1,
         \A h \in DOMAIN more : more[h] \in Deliveries(c) \/ Ending(c, more[h]) => h = k
  PROVE  Numbering(q \o more, c, base, m + 1)
<1> DEFINE r == q \o more
           new == Len(q) + k
<1>1. /\ \A i \in DOMAIN q : Due(r, c, i) <=> Due(q, c, i)
      /\ \A i \in DOMAIN q : i \in DOMAIN r /\ r[i] = q[i]
      /\ \A i \in DOMAIN r : Due(r, c, i) => i \in DOMAIN q \/ i = new
      /\ \A i \in DOMAIN r :
           i \in DOMAIN q \/ \E h \in DOMAIN more : i = Len(q) + h /\ r[i] = more[h]
  BY DueGrown, ConcatAt
<1>2. /\ new \in DOMAIN r /\ r[new] = more[k]
      /\ \A j \in DOMAIN q : j \in Int /\ j < new
  BY ConcatBehind
<1>3. new \in Nat
  BY LenProperties
<1> HIDE DEF r, new
<1>4. \A i \in DOMAIN q : Due(q, c, i) => base < q[i].n /\ q[i].n <= m /\ q[i].n \in Nat
  BY DueAt, AsyncAssumption DEF Numbering, InRange
<1>5. InRange(r, c, base, m + 1)
  BY <1>1, <1>2, <1>4 DEF InRange
<1>6. Rising(r, c)
  <2> SUFFICES ASSUME NEW i \in DOMAIN r, NEW j \in DOMAIN r, Due(r, c, i), Due(r, c, j), i < j
               PROVE  r[i].n < r[j].n
    BY DEF Rising
  <2>1. i \in DOMAIN q
    <3>1. i = new => j \in DOMAIN q
      BY <1>1, <1>3
    <3> QED
      BY <1>1, <1>2, <1>3, <3>1
  <2>2. CASE j \in DOMAIN q
    BY <1>1, <2>1, <2>2 DEF Numbering, Rising
  <2>3. CASE j = new
    BY <1>1, <1>2, <1>4, <2>1, <2>3
  <2> QED
    BY <1>1, <2>2, <2>3
<1>7. ASSUME Due(r, c, new)
      PROVE  \A i \in DOMAIN q : ~Ending(c, q[i])
  BY <1>1, <1>2, <1>7 DEF Due
<1>8. Linked(r, c, base)
  <2> SUFFICES ASSUME NEW i \in DOMAIN r, Due(r, c, i)
               PROVE  \/ r[i].n = base + 1
                      \/ \E j \in DOMAIN r : j < i /\ Due(r, c, j) /\ r[j].n = r[i].n - 1
    BY DEF Linked
  <2>1. CASE i \in DOMAIN q
    BY <1>1, <2>1 DEF Numbering, Linked
  <2>2. CASE i = new
    <3>1. m = base \/ \E j \in DOMAIN q : Due(q, c, j) /\ q[j].n = m
      BY <1>7, <2>2 DEF Numbering, Complete
    <3>2. r[i].n = m + 1
      BY <1>2, <2>2
    <3>3. CASE m = base
      BY <3>2, <3>3
    <3>4. CASE \E j \in DOMAIN q : Due(q, c, j) /\ q[j].n = m
      <4>1. PICK j \in DOMAIN q : Due(q, c, j) /\ q[j].n = m
        BY <3>4
      <4>2. j < i /\ Due(r, c, j) /\ r[j].n = m /\ j \in DOMAIN r
        BY <1>1, <1>2, <2>2, <4>1
      <4>3. r[j].n = r[i].n - 1
        BY <3>2, <4>2
      <4> QED
        BY <4>2, <4>3
    <3> QED
      BY <3>1, <3>3, <3>4
  <2> QED
    BY <1>1, <2>1, <2>2
<1>9. Complete(r, c, base, m + 1)
  <2>1. CASE \E i \in DOMAIN q : Ending(c, q[i])
    BY <1>1, <2>1 DEF Complete
  <2>2. CASE \A i \in DOMAIN q : ~Ending(c, q[i])
    <3>1. \A i \in DOMAIN r : i < new => ~Ending(c, r[i])
      <4> SUFFICES ASSUME NEW i \in DOMAIN r, i < new, Ending(c, r[i]) PROVE FALSE
        OBVIOUS
      <4>1. i \notin DOMAIN q
        BY <1>1, <2>2
      <4>2. PICK h \in DOMAIN more : i = Len(q) + h /\ r[i] = more[h]
        BY <1>1, <4>1
      <4>3. h = k
        BY <4>2
      <4> QED
        BY <1>3, <4>2, <4>3 DEF new
    <3>2. Due(r, c, new) /\ r[new].n = m + 1
      BY <1>2, <3>1 DEF Due
    <3> QED
      BY <1>2, <3>2 DEF Complete
  <2> QED
    BY <2>1, <2>2
<1> QED
  BY <1>5, <1>6, <1>8, <1>9 DEF Numbering, r

\* The first of the callbacks is gone, and it has ended nothing of c's.
LEMMA DueTail ==
  ASSUME NEW c, NEW q \in Seq(Callbacks), q # << >>, ~Ending(c, Head(q))
  PROVE  /\ \A i \in DOMAIN Tail(q) : i \in Int /\ i + 1 \in DOMAIN q /\ Tail(q)[i] = q[i + 1]
         /\ \A i \in DOMAIN Tail(q) : Due(Tail(q), c, i) <=> Due(q, c, i + 1)
         /\ \A i \in DOMAIN q : i \in Int /\ (i = 1 \/ i - 1 \in DOMAIN Tail(q))
<1> DEFINE t == Tail(q)
<1>1. /\ \A i \in DOMAIN t : i \in Int /\ i + 1 \in DOMAIN q /\ t[i] = q[i + 1]
      /\ \A i \in DOMAIN q : i = 1 \/ (i - 1 \in DOMAIN t /\ t[i - 1] = q[i])
      /\ ~Ending(c, q[1])
  BY TailAt
<1>2. \A i \in DOMAIN q : i \in Int
  BY LenProperties
<1> HIDE DEF t
<1>3. ASSUME NEW i \in DOMAIN t PROVE Due(t, c, i) <=> Due(q, c, i + 1)
  <2>1. i \in Int /\ i + 1 \in DOMAIN q /\ t[i] = q[i + 1]
    BY <1>1
  <2>2. ASSUME Due(q, c, i + 1) PROVE Due(t, c, i)
    <3>1. \A j \in DOMAIN t : j < i => ~Ending(c, t[j])
      BY <1>1, <2>1, <2>2 DEF Due
    <3> QED
      BY <2>1, <2>2, <3>1 DEF Due
  <2>3. ASSUME Due(t, c, i) PROVE Due(q, c, i + 1)
    <3>1. \A j \in DOMAIN q : j < i + 1 => ~Ending(c, q[j])
      <4> SUFFICES ASSUME NEW j \in DOMAIN q, j < i + 1, j # 1 PROVE ~Ending(c, q[j])
        BY <1>1
      <4>1. j - 1 \in DOMAIN t /\ t[j - 1] = q[j] /\ j \in Int
        BY <1>1, <1>2
      <4>2. j - 1 < i
        BY <2>1, <4>1
      <4> QED
        BY <2>3, <4>1, <4>2 DEF Due
    <3> QED
      BY <2>1, <2>3, <3>1 DEF Due
  <2> QED
    BY <2>2, <2>3
<1> QED
  BY <1>1, <1>2, <1>3 DEF t

LEMMA NumberingTail ==
  ASSUME NEW c, NEW q \in Seq(Callbacks), q # << >>, NEW base \in Nat, NEW m \in Nat,
         Numbering(q, c, base, m), ~Ending(c, Head(q)), Head(q) \notin Deliveries(c)
  PROVE  Numbering(Tail(q), c, base, m)
<1> DEFINE t == Tail(q)
<1>1. /\ \A i \in DOMAIN t : i \in Int /\ i + 1 \in DOMAIN q /\ t[i] = q[i + 1]
      /\ \A i \in DOMAIN t : Due(t, c, i) <=> Due(q, c, i + 1)
      /\ \A i \in DOMAIN q : i \in Int /\ (i = 1 \/ i - 1 \in DOMAIN t)
  BY DueTail
<1>2. ~Ending(c, q[1]) /\ q[1] \notin Deliveries(c) /\ ~Due(q, c, 1)
  BY TailAt DEF Due
<1> HIDE DEF t
<1>3. \A i \in DOMAIN q : Due(q, c, i) =>
        i - 1 \in DOMAIN t /\ Due(t, c, i - 1) /\ t[i - 1] = q[i]
  <2> SUFFICES ASSUME NEW i \in DOMAIN q, Due(q, c, i)
               PROVE  i - 1 \in DOMAIN t /\ Due(t, c, i - 1) /\ t[i - 1] = q[i]
    OBVIOUS
  <2>1. i \in Int /\ i - 1 \in DOMAIN t /\ (i - 1) + 1 = i
    BY <1>1, <1>2
  <2> QED
    BY <1>1, <2>1
<1>4. InRange(t, c, base, m)
  BY <1>1 DEF Numbering, InRange
<1>5. Rising(t, c)
  <2> SUFFICES ASSUME NEW i \in DOMAIN t, NEW j \in DOMAIN t, Due(t, c, i), Due(t, c, j), i < j
               PROVE  t[i].n < t[j].n
    BY DEF Rising
  <2>1. i + 1 < j + 1
    BY <1>1
  <2> QED
    BY <1>1, <2>1 DEF Numbering, Rising
<1>6. Linked(t, c, base)
  <2> SUFFICES ASSUME NEW i \in DOMAIN t, Due(t, c, i)
               PROVE  \/ t[i].n = base + 1
                      \/ \E j \in DOMAIN t : j < i /\ Due(t, c, j) /\ t[j].n = t[i].n - 1
    BY DEF Linked
  <2>1. CASE q[i + 1].n = base + 1
    BY <1>1, <2>1
  <2>2. CASE \E j \in DOMAIN q : j < i + 1 /\ Due(q, c, j) /\ q[j].n = q[i + 1].n - 1
    <3>1. PICK j \in DOMAIN q : j < i + 1 /\ Due(q, c, j) /\ q[j].n = q[i + 1].n - 1
      BY <2>2
    <3>2. j - 1 \in DOMAIN t /\ Due(t, c, j - 1) /\ t[j - 1] = q[j] /\ j \in Int /\ i \in Int
      BY <1>1, <1>3, <3>1
    <3>3. j - 1 < i
      BY <3>1, <3>2
    <3>4. t[j - 1].n = t[i].n - 1
      BY <1>1, <3>1, <3>2, Zenon
    <3> QED
      BY <3>2, <3>3, <3>4
  <2> QED
    BY <1>1, <2>1, <2>2 DEF Numbering, Linked
<1>7. Complete(t, c, base, m)
  <2>1. ASSUME NEW i \in DOMAIN q, Ending(c, q[i])
        PROVE  \E j \in DOMAIN t : Ending(c, t[j])
    <3>1. i - 1 \in DOMAIN t /\ (i - 1) + 1 = i
      BY <1>1, <1>2, <2>1
    <3> QED
      BY <1>1, <2>1, <3>1
  <2> QED
    BY <1>3, <2>1 DEF Numbering, Complete
<1> QED
  BY <1>4, <1>5, <1>6, <1>7 DEF Numbering, t

\* The first of the callbacks hands c an output: it is the next one, and the
\* others go on from it.
LEMMA NumberingTaken ==
  ASSUME NEW c, NEW q \in Seq(Callbacks), q # << >>, NEW base \in Nat, NEW m \in Nat,
         Numbering(q, c, base, m), Head(q) \in Deliveries(c)
  PROVE  /\ Head(q).n = base + 1 /\ base + 1 <= m
         /\ ~Head(q).fin => Numbering(Tail(q), c, base + 1, m)
<1> DEFINE t == Tail(q)
<1>1. 1 \in DOMAIN q /\ Head(q) = q[1] /\ \A i \in DOMAIN q : i \in Int /\ i >= 1
  BY TailAt, LenProperties
<1>2. Due(q, c, 1)
  BY <1>1 DEF Due
<1>3. q[1].n = base + 1 /\ base + 1 <= m
  BY <1>1, <1>2 DEF Numbering, Linked, InRange
<1>4. \A i \in DOMAIN t : i \in Int /\ 1 < i + 1
  BY TailAt, LenProperties
<1>5. ASSUME ~Head(q).fin PROVE Numbering(t, c, base + 1, m)
  <2>0. ~Ending(c, Head(q)) /\ ~Ending(c, q[1])
    BY <1>1, <1>5, DeliveryIs
  <2>1. /\ \A i \in DOMAIN t : i \in Int /\ i + 1 \in DOMAIN q /\ t[i] = q[i + 1]
        /\ \A i \in DOMAIN t : Due(t, c, i) <=> Due(q, c, i + 1)
        /\ \A i \in DOMAIN q : i \in Int /\ (i = 1 \/ i - 1 \in DOMAIN t)
    BY <2>0, DueTail
  <2> HIDE DEF t
  <2>2. \A i \in DOMAIN q : Due(q, c, i) /\ i # 1 =>
          i - 1 \in DOMAIN t /\ Due(t, c, i - 1) /\ t[i - 1] = q[i]
    <3> SUFFICES ASSUME NEW i \in DOMAIN q, Due(q, c, i), i # 1
                 PROVE  i - 1 \in DOMAIN t /\ Due(t, c, i - 1) /\ t[i - 1] = q[i]
      OBVIOUS
    <3>1. i \in Int /\ i - 1 \in DOMAIN t /\ (i - 1) + 1 = i
      BY <2>1
    <3> QED
      BY <2>1, <3>1
  <2>3. InRange(t, c, base + 1, m)
    <3> SUFFICES ASSUME NEW i \in DOMAIN t, Due(t, c, i)
                 PROVE  base + 1 < t[i].n /\ t[i].n <= m
      BY DEF InRange
    <3>1. Due(q, c, i + 1) /\ i + 1 \in DOMAIN q /\ 1 < i + 1 /\ t[i] = q[i + 1]
      BY <2>1, <1>4
    <3>2. q[1].n < q[i + 1].n
      BY <1>1, <1>2, <3>1 DEF Numbering, Rising
    <3> QED
      BY <1>3, <3>1, <3>2 DEF Numbering, InRange
  <2>4. Rising(t, c)
    <3> SUFFICES ASSUME NEW i \in DOMAIN t, NEW j \in DOMAIN t, Due(t, c, i), Due(t, c, j), i < j
                 PROVE  t[i].n < t[j].n
      BY DEF Rising
    <3>1. i + 1 < j + 1
      BY <2>1
    <3> QED
      BY <2>1, <3>1 DEF Numbering, Rising
  <2>5. Linked(t, c, base + 1)
    <3> SUFFICES ASSUME NEW i \in DOMAIN t, Due(t, c, i)
                 PROVE  \/ t[i].n = (base + 1) + 1
                        \/ \E j \in DOMAIN t : j < i /\ Due(t, c, j) /\ t[j].n = t[i].n - 1
      BY DEF Linked
    <3>1. q[i + 1].n \in Int /\ base + 1 < q[i + 1].n /\ t[i] = q[i + 1]
          /\ Due(q, c, i + 1) /\ i + 1 \in DOMAIN q
      <4>1. t[i].n \in 1 .. MaxTokens
        BY DueAt
      <4> QED
        BY <2>1, <2>3, <4>1 DEF InRange
    <3>2. PICK j \in DOMAIN q : j < i + 1 /\ Due(q, c, j) /\ q[j].n = q[i + 1].n - 1
      BY <3>1 DEF Numbering, Linked
    <3>3. CASE j = 1
      BY <1>3, <3>1, <3>2, <3>3
    <3>4. CASE j # 1
      <4>1. j - 1 \in DOMAIN t /\ Due(t, c, j - 1) /\ t[j - 1] = q[j] /\ j \in Int /\ i \in Int
        BY <2>1, <2>2, <3>2, <3>4
      <4>2. j - 1 < i /\ t[j - 1].n = t[i].n - 1
        BY <3>1, <3>2, <4>1
      <4> QED
        BY <4>1, <4>2
    <3> QED
      BY <3>3, <3>4
  <2>6. Complete(t, c, base + 1, m)
    <3>1. ASSUME NEW i \in DOMAIN q, Ending(c, q[i])
          PROVE  \E j \in DOMAIN t : Ending(c, t[j])
      <4>1. i - 1 \in DOMAIN t /\ (i - 1) + 1 = i
        BY <2>0, <2>1, <3>1
      <4> QED
        BY <2>1, <3>1, <4>1
    <3>2. m # base
      BY <1>3
    <3>3. CASE \E i \in DOMAIN q : Ending(c, q[i])
      BY <3>1, <3>3 DEF Complete
    <3>4. CASE \E i \in DOMAIN q : Due(q, c, i) /\ q[i].n = m
      <4>1. PICK i \in DOMAIN q : Due(q, c, i) /\ q[i].n = m
        BY <3>4
      <4>2. CASE i = 1
        BY <1>3, <4>1, <4>2 DEF Complete
      <4>3. CASE i # 1
        BY <2>2, <4>1, <4>3 DEF Complete
      <4> QED
        BY <4>2, <4>3
    <3> QED
      BY <3>2, <3>3, <3>4 DEF Numbering, Complete
  <2> QED
    BY <2>3, <2>4, <2>5, <2>6 DEF Numbering
<1> QED
  BY <1>1, <1>3, <1>5

-----------------------------------------------------------------------------
(* The outputs in a channel, as items are put on it and read. *)

\* A channel is closed behind the outputs it holds.
LEMMA FillingClosed ==
  ASSUME NEW items \in Seq(Items), NEW more \in Seq(Items), NEW g \in Nat, NEW k \in Nat,
         Filling(items, g, k), \A i \in DOMAIN more : more[i].kind # "output"
  PROVE  Filling(items \o more, g, k)
<1> DEFINE r == items \o more
<1>1. /\ Len(r) = Len(items) + Len(more)
      /\ \A i \in 1 .. Len(items) + Len(more) :
           r[i] = IF i <= Len(items) THEN items[i] ELSE more[i - Len(items)]
      /\ Len(items) \in Nat /\ Len(more) \in Nat /\ DOMAIN more = 1 .. Len(more)
  BY ConcatProperties, LenProperties
<1> HIDE DEF r
<1>2. \A i \in Len(items) + 1 .. Len(r) : r[i].kind # "output"
  <2> SUFFICES ASSUME NEW i \in Len(items) + 1 .. Len(r) PROVE r[i].kind # "output"
    OBVIOUS
  <2>1. r[i] = more[i - Len(items)] /\ i - Len(items) \in DOMAIN more
    BY <1>1
  <2> QED
    BY <2>1
<1>3. \A i \in 1 .. Len(items) : r[i] = items[i]
  BY <1>1
<1>4. /\ k \in 0 .. Len(items)
      /\ \A i \in 1 .. k : items[i].kind = "output" /\ items[i].n = g + i
      /\ \A i \in k + 1 .. Len(items) : items[i].kind # "output"
  BY DEF Filling
<1>5. k \in 0 .. Len(r)
  BY <1>1, <1>4
<1>6. ASSUME NEW i \in 1 .. k
      PROVE  r[i].kind = "output" /\ r[i].n = g + i
  <2>1. r[i] = items[i]
    BY <1>1, <1>3, <1>4
  <2> QED
    BY <1>4, <2>1
<1>7. ASSUME NEW i \in k + 1 .. Len(r) PROVE r[i].kind # "output"
  <2>1. CASE i <= Len(items)
    <3>1. r[i] = items[i] /\ i \in k + 1 .. Len(items)
      BY <1>1, <1>3, <1>4, <2>1
    <3> QED
      BY <1>4, <3>1
  <2>2. CASE ~(i <= Len(items))
    BY <1>1, <1>2, <1>4, <2>2
  <2> QED
    BY <2>1, <2>2
<1> QED
  BY <1>5, <1>6, <1>7 DEF Filling, r

\* The next output, and what is put behind it.
LEMMA FillingMore ==
  ASSUME NEW items \in Seq(Items), NEW more \in Seq(Items), NEW g \in Nat, more # << >>,
         Filling(items, g, Len(items)),
         more[1].kind = "output", more[1].n = g + Len(items) + 1,
         \A i \in DOMAIN more : i # 1 => more[i].kind # "output"
  PROVE  Filling(items \o more, g, Len(items) + 1)
<1> DEFINE r == items \o more
<1>1. /\ Len(r) = Len(items) + Len(more)
      /\ \A i \in 1 .. Len(items) + Len(more) :
           r[i] = IF i <= Len(items) THEN items[i] ELSE more[i - Len(items)]
      /\ Len(items) \in Nat /\ Len(more) \in Nat /\ Len(more) > 0 /\ DOMAIN more = 1 .. Len(more)
  BY ConcatProperties, LenProperties, EmptySeq
<1> HIDE DEF r
<1>2. \A i \in Len(items) + 2 .. Len(r) : r[i].kind # "output"
  <2> SUFFICES ASSUME NEW i \in Len(items) + 2 .. Len(r) PROVE r[i].kind # "output"
    OBVIOUS
  <2>1. r[i] = more[i - Len(items)] /\ i - Len(items) \in DOMAIN more /\ i - Len(items) # 1
    BY <1>1
  <2> QED
    BY <2>1
<1>3. \A i \in 1 .. Len(items) : r[i] = items[i]
  BY <1>1
<1>4. r[Len(items) + 1] = more[1]
  <2>1. (Len(items) + 1) - Len(items) = 1 /\ Len(items) + 1 \in 1 .. Len(items) + Len(more)
        /\ ~(Len(items) + 1 <= Len(items))
    BY <1>1
  <2>2. r[Len(items) + 1] = more[(Len(items) + 1) - Len(items)]
    BY <1>1, <2>1
  <2> QED
    BY <2>1, <2>2
<1>5. \A i \in 1 .. Len(items) : items[i].kind = "output" /\ items[i].n = g + i
  BY DEF Filling
<1>6. ASSUME NEW i \in 1 .. Len(items) + 1
      PROVE  r[i].kind = "output" /\ r[i].n = g + i
  <2>1. CASE i = Len(items) + 1
    <3>1. r[i] = more[1] /\ g + i = g + Len(items) + 1
      BY <1>1, <1>4, <2>1
    <3> QED
      BY <3>1
  <2>2. CASE i # Len(items) + 1
    BY <1>1, <1>3, <1>5, <2>2
  <2> QED
    BY <2>1, <2>2
<1>7. Len(items) + 1 \in 0 .. Len(r) /\ (Len(items) + 1) + 1 = Len(items) + 2
  BY <1>1
<1>8. \A i \in (Len(items) + 1) + 1 .. Len(r) : r[i].kind # "output"
  BY <1>2, <1>7
<1> QED
  BY <1>6, <1>7, <1>8 DEF Filling, r

LEMMA FillingRead ==
  ASSUME NEW items \in Seq(Items), NEW g \in Nat, NEW k \in Nat, Filling(items, g, k),
         items # << >>, Head(items).kind = "output"
  PROVE  /\ k - 1 \in Nat /\ Head(items).n = g + 1
         /\ Filling(Tail(items), g + 1, k - 1)
<1> DEFINE t == Tail(items)
<1>1. /\ Head(items) = items[1] /\ Len(items) \in Nat \ {0}
      /\ Len(t) = Len(items) - 1 /\ \A i \in 1 .. Len(items) - 1 : t[i] = items[i + 1]
  BY HeadTailProperties, LenProperties, EmptySeq
<1> HIDE DEF t
<1>2. k # 0
  BY <1>1 DEF Filling
<1>3. k \in 1 .. Len(items) /\ items[1].n = g + 1
  BY <1>1, <1>2 DEF Filling
<1>4. ASSUME NEW i \in 1 .. k - 1
      PROVE  t[i].kind = "output" /\ t[i].n = (g + 1) + i
  <2>1. t[i] = items[i + 1] /\ i + 1 \in 1 .. k /\ g + (i + 1) = (g + 1) + i
    BY <1>1, <1>3
  <2>2. items[i + 1].kind = "output" /\ items[i + 1].n = g + (i + 1)
    BY <2>1 DEF Filling
  <2> QED
    BY <2>1, <2>2
<1>5. ASSUME NEW i \in (k - 1) + 1 .. Len(t) PROVE t[i].kind # "output"
  <2>1. t[i] = items[i + 1] /\ i + 1 \in k + 1 .. Len(items)
    BY <1>1, <1>3
  <2> QED
    BY <2>1 DEF Filling
<1>6. k - 1 \in 0 .. Len(t) /\ k - 1 \in Nat
  BY <1>1, <1>3
<1> QED
  BY <1>1, <1>3, <1>4, <1>5, <1>6 DEF Filling, t

-----------------------------------------------------------------------------
(* What posting callbacks leaves true. *)

LEMMA OwnShape ==
  ASSUME Shape, NEW c \in Client
  PROVE  /\ got[c] \in Seq(1 .. MaxTokens) /\ Len(got[c]) \in Nat
         /\ channel[c].items \in Seq(Items) /\ Len(channel[c].items) \in Nat
         /\ channel[c].done \in BOOLEAN /\ channel[c].retired \in BOOLEAN
         /\ made[c] \in Nat
         /\ Len(got[c]) + Len(channel[c].items) \in Nat
<1>1. /\ got[c] \in Seq(1 .. MaxTokens)
      /\ channel[c] \in [items : Seq(Items), done : BOOLEAN, retired : BOOLEAN]
      /\ made[c] \in Nat
  BY AsyncAssumption DEF Shape
<1>2. /\ channel[c].items \in Seq(Items)
      /\ channel[c].done \in BOOLEAN /\ channel[c].retired \in BOOLEAN
  BY <1>1
<1>3. Len(got[c]) \in Nat /\ Len(channel[c].items) \in Nat
  BY <1>1, <1>2, LenProperties
<1>4. Len(got[c]) + Len(channel[c].items) \in Nat
  <2>1. \A a, b \in Nat : a + b \in Nat
    OBVIOUS
  <2> QED
    BY <1>3, <2>1, Zenon
<1> QED
  BY <1>1, <1>2, <1>3, <1>4

\* Nothing has moved on the loop, and the engine has not gone back.
LEMMA FilledKept ==
  ASSUME Shape, NEW c \in Client, Filled(c), InFlight(c),
         made' \in [Client -> 0 .. MaxTokens], made[c] <= made'[c],
         c \notin live => made'[c] = made[c],
         got'[c] = got[c], channel'[c] = channel[c]
  PROVE  Filled(c)'
<1>1. PICK k \in Nat :
        /\ Filling(channel[c].items, Len(got[c]), k)
        /\ Len(got[c]) + k <= made[c]
        /\ ~channel[c].done => k = Len(channel[c].items)
        /\ channel[c].retired => channel[c].done /\ Len(got[c]) + k = made[c]
  BY DEF Filled
<1>2. Len(got[c]) + k <= made'[c]
  <2>1. made'[c] \in Nat
    BY AsyncAssumption
  <2>2. Len(got[c]) \in Nat /\ made[c] \in Nat
    BY OwnShape, Zenon
  <2> QED
    BY <1>1, <2>1, <2>2
<1>3. channel[c].retired => made'[c] = made[c]
  BY DEF InFlight
<1> QED
  BY <1>1, <1>2, <1>3 DEF Filled

LEMMA QuietKept ==
  ASSUME NEW c \in Client, Quiet(c), NoSubmission(c), handler'[c] = "new" => handler[c] = "new",
         got'[c] = got[c], channel'[c].items = channel[c].items,
         \A i \in DOMAIN commands' :
           commands'[i] = Cancellation(c) =>
             \E k \in DOMAIN commands : commands[k] = Cancellation(c),
         Pending(c) => \A i \in DOMAIN ready' :
           About(c, ready'[i]) => \E k \in DOMAIN ready : About(c, ready[k])
  PROVE  Quiet(c)'
BY DEF Quiet, Pending, NoSubmission

\* Of what is posted, nothing is an output for c, registers it, or is for a
\* client that has nothing to expect.
LEMMA PostedOrdered ==
  ASSUME Shape, NEW c \in Client, Ordered(c), InFlight(c), Quiet(c)',
         UNCHANGED loopVars, made' \in [Client -> 0 .. MaxTokens],
         NEW more \in Seq(Callbacks), ready' = ready \o more,
         \A k \in DOMAIN more : more[k] \notin Deliveries(c) /\ more[k] # Callback("register", c),
         made[c] <= made'[c], c \notin live => made'[c] = made[c],
         made'[c] = made[c] \/ \E k \in DOMAIN more : Ending(c, more[k])
  PROVE  Ordered(c)'
<1>1. /\ UNCHANGED <<handler, got, streams, channel>> /\ ready \in Seq(Callbacks)
      /\ made'[c] \in Nat
      /\ Filled(c) /\ Numbered(c) /\ Tallied(c) /\ First(c)
  BY AsyncAssumption DEF loopVars, Shape, Ordered
<1>2. /\ \A i \in DOMAIN ready : i \in DOMAIN ready' /\ ready'[i] = ready[i]
      /\ \A i \in DOMAIN ready' :
           i \in DOMAIN ready \/ \E k \in DOMAIN more : i = Len(ready) + k /\ ready'[i] = more[k]
      /\ Len(ready) \in Nat
  BY <1>1, ConcatAt, LenProperties
<1>3. Filled(c)'
  BY <1>1, FilledKept
<1>4. Numbered(c)'
  <2>1. Opened(c)' => Opened(c)
    BY <1>1, <1>2 DEF Opened
  <2>2. Opened(c) => Numbering(ready \o more, c, Len(got[c]) + Len(channel[c].items), made'[c])
    <3> SUFFICES ASSUME Opened(c)
                 PROVE  Numbering(ready \o more, c, Len(got[c]) + Len(channel[c].items), made'[c])
      OBVIOUS
    <3>1. Numbering(ready, c, Len(got[c]) + Len(channel[c].items), made[c])
      BY <1>1 DEF Numbered
    <3> DEFINE base == Len(got[c]) + Len(channel[c].items)
    <3>2. base \in Nat /\ made[c] \in Nat
      BY OwnShape
    <3> HIDE DEF base
    <3>3. Numbering(ready \o more, c, base, made'[c])
      BY <1>1, <3>1, <3>2, NumberingGrown DEF base
    <3> QED
      BY <3>3 DEF base
  <2> QED
    BY <1>1, <2>1, <2>2 DEF Numbered
<1>5. Tallied(c)'
  <2> SUFFICES ASSUME NEW i \in DOMAIN ready', ready'[i] \in LastOutputs(c)
               PROVE  ready'[i].n = made'[c]
    BY DEF Tallied
  <2>1. LastOutputs(c) \subseteq Deliveries(c)
    BY DEF LastOutputs, Deliveries
  <2>2. i \in DOMAIN ready /\ ready[i] = ready'[i]
    BY <1>2, <2>1
  <2>3. c \notin live
    BY <2>2 DEF InFlight
  <2> QED
    BY <1>1, <2>2, <2>3 DEF Tallied
<1>6. First(c)'
  <2> SUFFICES ASSUME NEW j \in DOMAIN ready', ready'[j] = Callback("register", c),
                      NEW i \in DOMAIN ready', i < j
               PROVE  ready'[i] # Joined /\ ~About(c, ready'[i])
    BY DEF First
  <2>1. j \in DOMAIN ready /\ ready[j] = ready'[j]
    BY <1>2
  <2>2. i \in DOMAIN ready
    BY <1>1, <1>2, <2>1, LenProperties
  <2> QED
    BY <1>1, <1>2, <2>1, <2>2 DEF First
<1> QED
  BY <1>3, <1>4, <1>5, <1>6 DEF Ordered

-----------------------------------------------------------------------------
(* stop() and the worker, as long as the engine makes nothing. *)

LEMMA OParts ==
  ASSUME OInv
  PROVE  /\ DInv /\ Shape /\ Stages
         /\ ready \in Seq(Callbacks) /\ commands \in Seq(Commands)
         /\ \A c \in Client : OfClient(c) /\ SubmittedOnce(c) /\ InFlight(c) /\ Delivered(c)
         /\ \A c \in Client : c \notin missed => Ordered(c) /\ Quiet(c)
BY Parts DEF OInv, OfClient, Ordered

\* The commands change, with no cancel of c.
NoCancellation(c) ==
  \A i \in DOMAIN commands' :
    commands'[i] = Cancellation(c) => \E k \in DOMAIN commands : commands[k] = Cancellation(c)

LEMMA TailCancels ==
  ASSUME NEW c, commands \in Seq(Commands),
         commands' = commands \/ (commands # << >> /\ commands' = Tail(commands))
  PROVE  NoCancellation(c)
<1>1. CASE commands' = commands
  BY <1>1 DEF NoCancellation
<1>2. CASE commands # << >> /\ commands' = Tail(commands)
  BY <1>2, TailAt DEF NoCancellation
<1> QED
  BY <1>1, <1>2

\* Nothing is posted.
LEMMA NothingOrdered ==
  ASSUME OInv, UNCHANGED <<loopVars, ready, made>>, NEW c \in Client, c \notin missed,
         NoSubmission(c), NoCancellation(c)
  PROVE  Ordered(c)'
<1>1. /\ Shape /\ ready \in Seq(Callbacks) /\ InFlight(c) /\ Ordered(c) /\ Quiet(c)
  BY OParts
<1>2. << >> \in Seq(Callbacks) /\ ready' = ready \o << >> /\ \A k \in DOMAIN << >> : FALSE
  BY <1>1, NothingAdded
<1>3. UNCHANGED <<handler, got, channel>>
  BY DEF loopVars
<1>4. Quiet(c)'
  BY <1>1, <1>3, QuietKept DEF NoCancellation
<1>5. /\ made' \in [Client -> 0 .. MaxTokens] /\ made'[c] = made[c] /\ made[c] <= made'[c]
  <2>1. made \in [Client -> 0 .. MaxTokens] /\ made[c] \in Nat
    BY <1>1, OwnShape DEF Shape
  <2> QED
    BY <2>1
<1> QED
  BY <1>1, <1>2, <1>4, <1>5, PostedOrdered

LEMMA StopOrdered ==
  ASSUME OInv, Start \/ BeginStop \/ Drained, NEW c \in Client, c \notin missed'
  PROVE  Ordered(c)'
<1>1. commands \in Seq(Commands) /\ SubmittedOnce(c)
  BY OParts
<1>2. UNCHANGED <<loopVars, ready, made, missed>>
  BY DEF Start, BeginStop, Drained, engineVars
<1>3. CASE commands' = commands
  BY <1>1, <1>2, <1>3, CommandsSame, TailCancels, NothingOrdered
<1>4. CASE commands' = Append(commands, Stop)
  <2>1. /\ Stop \in Commands /\ Stop # Submission(c) /\ Stop # Cancellation(c)
    BY DEF Commands, Stop, Submission, Cancellation
  <2>2. /\ <<Stop>> \in Seq(Commands) /\ commands' = commands \o <<Stop>>
        /\ \A k \in DOMAIN <<Stop>> : <<Stop>>[k] = Stop
    BY <1>1, <1>4, <2>1, AppendIsConcat
  <2>3. NoSubmission(c)
    BY <1>1, <2>1, <2>2, CommandsGrown
  <2>4. NoCancellation(c)
    BY <1>1, <1>4, <2>1, AppendAt DEF NoCancellation
  <2> QED
    BY <1>2, <2>3, <2>4, NothingOrdered
<1> QED
  BY <1>3, <1>4 DEF Start, BeginStop, Drained

LEMMA SentinelOrdered ==
  ASSUME OInv, UNCHANGED <<loopVars, ready, made>>, NEW c \in Client, c \notin missed,
         commands' = commands \/ (commands # << >> /\ commands' = Tail(commands))
  PROVE  Ordered(c)'
<1>1. commands \in Seq(Commands) /\ SubmittedOnce(c)
  BY OParts
<1>2. NoSubmission(c) /\ NoCancellation(c)
  BY <1>1, CommandsSame, Consumed, TailCancels
<1> QED
  BY <1>2, NothingOrdered

\* One callback is posted, which hands nobody an output and registers nobody.
LEMMA OneOrdered ==
  ASSUME OInv, UNCHANGED <<loopVars, made>>, NEW c \in Client, c \notin missed,
         NEW b \in Callbacks, ready' = Append(ready, b),
         b.fn \notin {"deliver", "register"}, Quiet(c)'
  PROVE  Ordered(c)'
<1>1. /\ Shape /\ ready \in Seq(Callbacks) /\ InFlight(c) /\ Ordered(c)
  BY OParts
<1>2. /\ <<b>> \in Seq(Callbacks) /\ ready' = ready \o <<b>>
      /\ \A k \in DOMAIN <<b>> : <<b>>[k] = b
  BY <1>1, PostOne
<1>3. b \notin Deliveries(c) /\ b # Callback("register", c)
  BY DeliveryIs DEF Callback
<1>4. \A k \in DOMAIN <<b>> : <<b>>[k] \notin Deliveries(c) /\ <<b>>[k] # Callback("register", c)
  BY <1>2, <1>3
<1>5. /\ made' \in [Client -> 0 .. MaxTokens] /\ made'[c] = made[c] /\ made[c] <= made'[c]
  <2>1. made \in [Client -> 0 .. MaxTokens] /\ made[c] \in Nat
    BY <1>1, OwnShape DEF Shape
  <2> QED
    BY <2>1
<1> QED
  BY <1>1, <1>2, <1>4, <1>5, PostedOrdered

\* What was posted is about nobody who has nothing to expect.
LEMMA OneQuiet ==
  ASSUME OInv, UNCHANGED loopVars, NEW c \in Client, c \notin missed,
         NoSubmission(c), NoCancellation(c),
         NEW b \in Callbacks, ready' = Append(ready, b),
         Pending(c) => ~About(c, b)
  PROVE  Quiet(c)'
<1>1. /\ Shape /\ ready \in Seq(Callbacks) /\ Quiet(c)
  BY OParts
<1>2. UNCHANGED <<handler, got, channel>>
  BY DEF loopVars
<1>3. \A i \in DOMAIN ready' : (i \in DOMAIN ready /\ ready'[i] = ready[i]) \/ ready'[i] = b
  BY <1>1, PostOne
<1>4. Pending(c) => \A i \in DOMAIN ready' :
        About(c, ready'[i]) => \E k \in DOMAIN ready : About(c, ready[k])
  BY <1>3
<1> QED
  BY <1>1, <1>2, <1>4, QuietKept DEF NoCancellation

LEMMA JoinReturnsOrdered ==
  ASSUME OInv, JoinReturns, NEW c \in Client, c \notin missed'
  PROVE  Ordered(c)'
<1>1. /\ UNCHANGED <<loopVars, made, commands>> /\ ready' = Append(ready, Joined)
      /\ c \notin missed
  BY DEF JoinReturns, engineVars
<1>2. /\ Joined \in Callbacks /\ Joined.fn = "joined" /\ ~About(c, Joined)
  BY DEF Callbacks, Joined, About
<1>3. NoSubmission(c) /\ NoCancellation(c)
  BY <1>1, OParts, CommandsSame, TailCancels
<1> QED
  BY <1>1, <1>2, <1>3, OneQuiet, OneOrdered

-----------------------------------------------------------------------------
(* The worker applies a command. *)

\* Whose submission was at the head of the commands has nothing more pending.
LEMMA AppliedQuiet ==
  ASSUME OInv, Applying, NEW a \in Client, Head(commands) = Submission(a)
  PROVE  ~Pending(a)'
<1>1. commands \in Seq(Commands) /\ SubmittedOnce(a)
  BY OParts
<1>2. \A i \in DOMAIN commands' : commands'[i] # Submission(a)
  BY <1>1, Consumed DEF Applying
<1>3. handler[a] \in {"waiting", "gone"} /\ handler'[a] = handler[a]
  BY <1>1, TailAt DEF Applying, loopVars, SubmittedOnce
<1> QED
  BY <1>2, <1>3 DEF Pending

LEMMA RefuseOrdered ==
  ASSUME OInv, Applying, NEW a \in Client, Head(commands) = Submission(a), Refuse(a),
         NEW c \in Client, c \notin missed
  PROVE  Ordered(c)'
<1> DEFINE b == Callback("refused", a)
<1>1. /\ UNCHANGED <<loopVars, made>> /\ ready' = Append(ready, b)
      /\ commands # << >> /\ commands' = Tail(commands)
  BY DEF Refuse, Applying, engineVars
<1>2. b \in Callbacks /\ b.fn = "refused" /\ b.c = a
  BY DEF Callbacks, Callback
<1>3. NoSubmission(c) /\ NoCancellation(c)
  BY <1>1, OParts, Consumed, TailCancels
<1> HIDE DEF b
<1>4. Quiet(c)'
  <2>1. CASE c = a
    BY <2>1, AppliedQuiet DEF Quiet
  <2>2. CASE c # a
    <3>1. ~About(c, b)
      BY <1>2, <2>2 DEF About
    <3> QED
      BY <1>1, <1>2, <1>3, <3>1, OneQuiet
  <2> QED
    BY <2>1, <2>2
<1> QED
  BY <1>1, <1>2, <1>4, OneOrdered

LEMMA CancelOrdered ==
  ASSUME OInv, Applying, NEW a \in Client, Head(commands) = Cancellation(a), CancelRequest(a),
         NEW c \in Client, c \notin missed
  PROVE  Ordered(c)'
<1> DEFINE b == Callback("close", a)
<1>1. /\ UNCHANGED <<loopVars, made>> /\ ready' = Append(ready, b)
      /\ commands # << >> /\ commands' = Tail(commands)
  BY DEF CancelRequest, Applying
<1>2. b \in Callbacks /\ b.fn = "close" /\ b.c = a
  BY DEF Callbacks, Callback
<1>3. NoSubmission(c) /\ NoCancellation(c) /\ Quiet(c) /\ commands \in Seq(Commands)
  BY <1>1, OParts, Consumed, TailCancels
<1> HIDE DEF b
<1>4. Pending(c) => ~About(c, b)
  BY <1>1, <1>2, <1>3, TailAt DEF About, Quiet
<1>5. Quiet(c)'
  BY <1>1, <1>2, <1>3, <1>4, OneQuiet
<1> QED
  BY <1>1, <1>2, <1>5, OneOrdered

\* The registration of a new request is the first that is queued about it, and
\* its channel has all of the outputs made for it: none.
LEMMA AdmitOrdered ==
  ASSUME OInv, Applying, NEW a \in Client, Head(commands) = Submission(a), Admit(a),
         NEW c \in Client, c \notin missed
  PROVE  Ordered(c)'
<1> DEFINE more == <<Callback("register", a), Callback("id", a)>>
<1>1. /\ Shape /\ Stages /\ ready \in Seq(Callbacks) /\ commands \in Seq(Commands)
      /\ SubmittedOnce(c) /\ InFlight(c) /\ Ordered(c) /\ Quiet(c)
  BY OParts
<1>2. /\ UNCHANGED <<loopVars, made>> /\ ready' = ready \o more
      /\ commands # << >> /\ commands' = Tail(commands)
  BY DEF Applying, Admit
<1>3. /\ more \in Seq(Callbacks) /\ DOMAIN more = {1, 2}
      /\ more[1] = Callback("register", a) /\ more[2] = Callback("id", a)
  <2>1. Callback("register", a) \in Callbacks /\ Callback("id", a) \in Callbacks
    BY DEF Callback, Callbacks
  <2> QED
    BY <2>1
<1> HIDE DEF more
<1>4. /\ \A k \in DOMAIN more : more[k].fn \in {"register", "id"} /\ more[k].c = a
      /\ \A k \in DOMAIN more : more[k] # Joined
  BY <1>3 DEF Callback, Joined
<1>5. \A k \in DOMAIN more : more[k] \notin Deliveries(c) /\ ~Ending(c, more[k])
  BY <1>4, DeliveryIs, EndingShape
<1>6. NoSubmission(c) /\ NoCancellation(c)
  BY <1>1, <1>2, Consumed, TailCancels
<1>7. UNCHANGED <<handler, got, streams, channel, made>>
  BY <1>2 DEF loopVars
<1>8. /\ made' \in [Client -> 0 .. MaxTokens] /\ made'[c] = made[c] /\ made[c] <= made'[c]
  <2>1. made \in [Client -> 0 .. MaxTokens] /\ made[c] \in Nat
    BY <1>1, OwnShape DEF Shape
  <2> QED
    BY <1>7, <2>1
<1>9. /\ \A i \in DOMAIN ready : i \in DOMAIN ready' /\ ready'[i] = ready[i]
      /\ \A i \in DOMAIN ready' :
           i \in DOMAIN ready \/ \E k \in DOMAIN more : i = Len(ready) + k /\ ready'[i] = more[k]
      /\ Len(ready) \in Nat /\ DOMAIN ready = 1 .. Len(ready)
  BY <1>1, <1>2, <1>3, ConcatAt, LenProperties
<1>10. CASE c # a
  <2>1. \A k \in DOMAIN more : more[k] # Callback("register", c) /\ ~About(c, more[k])
    BY <1>4, <1>10 DEF Callback, About
  <2>2. \A i \in DOMAIN ready' : About(c, ready'[i]) => \E k \in DOMAIN ready : About(c, ready[k])
    BY <1>9, <2>1
  <2>3. Quiet(c)'
    BY <1>1, <1>6, <1>7, <2>2, QuietKept DEF NoCancellation
  <2> QED
    BY <1>1, <1>2, <1>3, <1>5, <1>8, <2>1, <2>3, PostedOrdered
<1>11. CASE c = a
  <2>1. /\ Fresh(a) /\ Pending(a)
    BY <1>1, <1>2, <1>11, TailAt DEF SubmittedOnce, Pending
  <2>2. /\ got[a] = << >> /\ channel[a].items = << >> /\ made[a] = 0
        /\ \A i \in DOMAIN ready : ~About(a, ready[i])
    BY <1>1, <1>11, <2>1 DEF Quiet, Fresh
  <2>3. \A i \in DOMAIN ready : ready[i] # Joined
    BY <1>1, <1>11 DEF Applying, Stages
  <2>4. Filled(c)'
    BY <1>1, <1>7, <1>8, FilledKept DEF Ordered
  <2>5. \A i \in DOMAIN ready' : ~Due(ready', c, i)
    <3>1. \A i \in DOMAIN ready' : ready'[i] \notin Deliveries(c)
      BY <1>5, <1>9, <1>11, <2>2, DeliveryIs
    <3> QED
      BY <3>1 DEF Due
  <2>6. Numbered(c)'
    <3>1. Len(got'[c]) + Len(channel'[c].items) = made'[c]
      BY <1>7, <1>11, <2>2
    <3> QED
      BY <2>5, <3>1 DEF Numbered, Numbering, InRange, Rising, Linked, Complete
  <2>7. Tallied(c)'
    <3>1. \A i \in DOMAIN ready' : ready'[i] \notin LastOutputs(c)
      <4>1. LastOutputs(c) \subseteq Deliveries(c)
        BY DEF LastOutputs, Deliveries
      <4> QED
        BY <1>5, <1>9, <1>11, <2>2, <4>1, DeliveryIs
    <3> QED
      BY <3>1 DEF Tallied
  <2>8. Quiet(c)'
    BY <1>11, AppliedQuiet DEF Quiet
  <2>9. First(c)'
    <3> SUFFICES ASSUME NEW j \in DOMAIN ready', ready'[j] = Callback("register", c),
                        NEW i \in DOMAIN ready', i < j
                 PROVE  ready'[i] # Joined /\ ~About(c, ready'[i])
      BY DEF First
    <3>1. About(a, Callback("register", a)) /\ Callback("id", a) # Callback("register", a)
      BY DEF About, Callback, Joined
    <3>2. j = Len(ready) + 1
      BY <1>3, <1>9, <1>11, <2>2, <3>1
    <3>3. i \in DOMAIN ready
      <4>1. ASSUME NEW k \in DOMAIN more, i = Len(ready) + k PROVE FALSE
        BY <1>3, <1>9, <3>2, <4>1
      <4> QED
        BY <1>9, <4>1
    <3> QED
      BY <1>9, <1>11, <2>2, <2>3, <3>3
  <2> QED
    BY <2>4, <2>6, <2>7, <2>8, <2>9 DEF Ordered
<1> QED
  BY <1>10, <1>11

LEMMA ApplyOrdered ==
  ASSUME OInv, Applying, Head(commands) # Stop, Apply(Head(commands)),
         NEW c \in Client, c \notin missed
  PROVE  Ordered(c)'
<1> DEFINE cmd == Head(commands)
<1>1. cmd \in Commands
  BY OParts, TailAt DEF Applying
<1>2. /\ cmd.c \in Client
      /\ cmd.kind = "submit" => cmd = Submission(cmd.c)
      /\ cmd.kind = "cancel" => cmd = Cancellation(cmd.c)
  BY <1>1, CommandShape
<1> HIDE DEF cmd
<1>3. CASE cmd.kind = "submit" /\ Admit(cmd.c)
  BY <1>2, <1>3, AdmitOrdered DEF cmd
<1>4. CASE cmd.kind = "submit" /\ Refuse(cmd.c)
  BY <1>2, <1>4, RefuseOrdered DEF cmd
<1>5. CASE cmd.kind = "cancel" /\ CancelRequest(cmd.c)
  BY <1>2, <1>5, CancelOrdered DEF cmd
<1> QED
  BY <1>3, <1>4, <1>5 DEF Apply, cmd

LEMMA DrainOneOrdered ==
  ASSUME OInv, DrainOne, NEW c \in Client, c \notin missed
  PROVE  Ordered(c)'
<1>1. /\ commands # << >> /\ commands' = Tail(commands) /\ worker = "drain"
      /\ UNCHANGED <<loopVars, lifecycle, missed>>
  BY DEF DrainOne
<1>2. CASE Head(commands) = Stop
  <2>1. UNCHANGED <<loopVars, ready, made>>
    BY <1>1, <1>2 DEF DrainOne, engineVars
  <2> QED
    BY <1>1, <2>1, SentinelOrdered
<1>3. CASE Head(commands) # Stop
  <2>1. worker' = worker /\ stopping' = stopping /\ Apply(Head(commands))
    BY <1>3 DEF DrainOne
  <2>2. Applying
    BY <1>1, <2>1 DEF Applying
  <2> QED
    BY <1>3, <2>1, <2>2, ApplyOrdered
<1> QED
  BY <1>2, <1>3

LEMMA IdleOrdered ==
  ASSUME OInv, Idle, NEW c \in Client, c \notin missed
  PROVE  Ordered(c)'
<1>1. worker = "idle" /\ UNCHANGED <<loopVars, stopping, lifecycle, missed>>
  BY DEF Idle
<1>2. LoopHead => (worker' = "off" => lifecycle \notin {"created", "started"})
  BY OParts DEF LoopHead, Stages
<1>3. CASE commands # << >> /\ Head(commands) # Stop
  <2>1. LoopHead /\ commands' = Tail(commands) /\ Apply(Head(commands))
    BY <1>3 DEF Idle
  <2>2. Applying
    BY <1>1, <1>2, <1>3, <2>1 DEF Applying
  <2> QED
    BY <1>3, <2>1, <2>2, ApplyOrdered
<1>4. CASE ~(commands # << >> /\ Head(commands) # Stop)
  <2>1. /\ UNCHANGED <<loopVars, ready, made>>
        /\ commands' = commands \/ (commands # << >> /\ commands' = Tail(commands))
    BY <1>1, <1>4 DEF Idle, engineVars
  <2> QED
    BY <2>1, SentinelOrdered
<1> QED
  BY <1>3, <1>4

-----------------------------------------------------------------------------
(* The worker steps the engine. *)

\* SetToSeq lists each element of a finite set once.
LEMMA SetToSeqOnce ==
  ASSUME NEW S, IsFiniteSet(S), NEW i \in 1 .. Cardinality(S), NEW j \in 1 .. Cardinality(S),
         SetToSeq(S)[i] = SetToSeq(S)[j]
  PROVE  i = j
<1> DEFINE n == Cardinality(S)
<1>1. n \in Nat
  BY FS_CardinalityType
<1>2. \E f : f \in Bijection(1 .. n, S)
  BY FS_CardinalityType DEF ExistsBijection
<1>3. \E f \in [1 .. n -> S] : IsInjective(f)
  BY <1>2 DEF Bijection, Injection, IsInjective
<1>4. SetToSeq(S) \in [1 .. n -> S] /\ IsInjective(SetToSeq(S))
  BY <1>3, Zenon DEF SetToSeq
<1> QED
  BY <1>4 DEF IsInjective

\* The queue of a step: one output for each request it has moved.
LEMMA StepOrdered ==
  ASSUME OInv, Step, NEW c \in Client, c \notin missed
  PROVE  Ordered(c)'
<1>1. /\ Shape /\ ready \in Seq(Callbacks)
      /\ SubmittedOnce(c) /\ InFlight(c) /\ Ordered(c) /\ Quiet(c)
  BY OParts
<1>2. /\ UNCHANGED <<loopVars, commands>>
  BY DEF Step
<1>3. PICK moved \in SUBSET (live \ stuck) : \E ended \in SUBSET moved :
        /\ Advanced(moved, ended)
        /\ live' = live \ ended
        /\ ready' = ready \o [i \in 1 .. Cardinality(moved) |->
                                LET d == SetToSeq(moved)[i]
                                IN  Delivery(d, made[d] + 1, d \in ended)]
  BY DEF Step
<1>4. PICK ended \in SUBSET moved :
        /\ Advanced(moved, ended)
        /\ live' = live \ ended
        /\ ready' = ready \o [i \in 1 .. Cardinality(moved) |->
                                LET d == SetToSeq(moved)[i]
                                IN  Delivery(d, made[d] + 1, d \in ended)]
  BY <1>3
<1> DEFINE more == [i \in 1 .. Cardinality(moved) |->
                      Delivery(SetToSeq(moved)[i], made[SetToSeq(moved)[i]] + 1,
                               SetToSeq(moved)[i] \in ended)]
<1>5. ready' = ready \o more
  BY <1>4
<1>6. IsFiniteSet(moved)
  BY <1>1, FS_Subset DEF Shape
<1>7. /\ Cardinality(moved) \in Nat
      /\ \A i \in 1 .. Cardinality(moved) : SetToSeq(moved)[i] \in moved
      /\ \A d \in moved : \E i \in 1 .. Cardinality(moved) : SetToSeq(moved)[i] = d
  BY <1>6, SetToSeqIn, SetToSeqAll
<1>8. ASSUME NEW d \in moved
      PROVE  /\ Delivery(d, made[d] + 1, d \in ended) \in Deliveries(d)
             /\ Delivery(d, made[d] + 1, d \in ended) \in Callbacks
             /\ Delivery(d, made[d] + 1, d \in ended).n = made[d] + 1
             /\ Delivery(d, made[d] + 1, d \in ended).c = d
             /\ Delivery(d, made[d] + 1, d \in ended).fin = (d \in ended)
             /\ Delivery(d, made[d] + 1, d \in ended).fn = "deliver"
  <2>1. d \in Client /\ made[d] + 1 \in 1 .. MaxTokens
    BY <1>1, AsyncAssumption DEF Shape
  <2>2. (d \in ended) \in BOOLEAN
    OBVIOUS
  <2> QED
    BY <2>1, <2>2 DEF Delivery, Deliveries, Callbacks
<1>9. /\ more \in Seq(Callbacks) /\ DOMAIN more = 1 .. Cardinality(moved)
      /\ \A k \in DOMAIN more : more[k].c \in moved /\ more[k].fn = "deliver"
  BY <1>7, <1>8
<1>10. /\ made' \in [Client -> 0 .. MaxTokens]
       /\ \A d \in Client : d \notin live => made'[d] = made[d]
  BY <1>1, <1>4, AdvancedProperties
<1>11. made'[c] = IF c \in moved THEN made[c] + 1 ELSE made[c]
  BY <1>4 DEF Advanced
<1>12. made[c] \in Nat /\ made[c] <= made'[c] /\ made'[c] \in Nat
  <2>1. made[c] \in Nat
    BY <1>1, OwnShape
  <2> QED
    BY <1>11, <2>1
<1>13. UNCHANGED <<handler, got, streams, channel>>
  BY <1>2 DEF loopVars
<1>14. /\ \A i \in DOMAIN ready : i \in DOMAIN ready' /\ ready'[i] = ready[i]
       /\ \A i \in DOMAIN ready' :
            i \in DOMAIN ready \/ \E k \in DOMAIN more : i = Len(ready) + k /\ ready'[i] = more[k]
       /\ Len(ready) \in Nat /\ DOMAIN ready = 1 .. Len(ready)
  <2>1. more \in Seq(Callbacks)
    BY <1>9
  <2> HIDE DEF more
  <2>2. Len(ready) \in Nat /\ DOMAIN ready = 1 .. Len(ready)
    BY <1>1, LenProperties
  <2>3. /\ \A i \in DOMAIN ready : i \in DOMAIN (ready \o more) /\ (ready \o more)[i] = ready[i]
        /\ \A i \in DOMAIN (ready \o more) :
             i \in DOMAIN ready \/ \E k \in DOMAIN more : i = Len(ready) + k /\ (ready \o more)[i] = more[k]
    BY <1>1, <2>1, ConcatAt
  <2> QED
    BY <1>5, <2>2, <2>3, Zenon
<1>15. Quiet(c)'
  <2>1. NoSubmission(c) /\ NoCancellation(c)
    BY <1>1, <1>2, OParts, CommandsSame, TailCancels
  <2>2. Pending(c) => c \notin live
    BY <1>1 DEF Pending, SubmittedOnce, Fresh
  <2>3. Pending(c) => \A k \in DOMAIN more : ~About(c, more[k])
    BY <1>9, <2>2 DEF About
  <2>4. Pending(c) => \A i \in DOMAIN ready' :
          About(c, ready'[i]) => \E k \in DOMAIN ready : About(c, ready[k])
    BY <1>14, <2>3
  <2> QED
    BY <1>1, <1>13, <2>1, <2>4, QuietKept DEF NoCancellation
<1>16. CASE c \notin moved
  <2>1. \A k \in DOMAIN more : more[k] \notin Deliveries(c) /\ more[k] # Callback("register", c)
    BY <1>9, <1>16, DeliveryIs DEF Callback
  <2> HIDE DEF more
  <2> QED
    BY <1>1, <1>2, <1>5, <1>9, <1>10, <1>11, <1>12, <1>15, <1>16, <2>1, PostedOrdered
<1>17. CASE c \in moved
  <2>1. PICK k \in 1 .. Cardinality(moved) : SetToSeq(moved)[k] = c
    BY <1>7, <1>17
  <2>2. /\ k \in DOMAIN more /\ more[k] \in Deliveries(c) /\ more[k].n = made[c] + 1
        /\ more[k].fin = (c \in ended)
    <3>1. more[k] = Delivery(c, made[c] + 1, c \in ended)
      BY <2>1
    <3> QED
      BY <1>8, <1>9, <1>17, <3>1
  <2>3. ASSUME NEW h \in DOMAIN more, more[h].c = c
        PROVE  h = k
    <3>1. h \in 1 .. Cardinality(moved) /\ SetToSeq(moved)[h] \in moved
      BY <1>7, <1>9
    <3>2. more[h] = Delivery(SetToSeq(moved)[h], made[SetToSeq(moved)[h]] + 1,
                             SetToSeq(moved)[h] \in ended)
      BY <3>1
    <3>3. more[h].c = SetToSeq(moved)[h]
      BY <1>8, <3>1, <3>2
    <3> QED
      BY <1>6, <2>1, <2>3, <3>1, <3>3, SetToSeqOnce
  <2> HIDE DEF more
  <2>4. \A h \in DOMAIN more : more[h] \in Deliveries(c) \/ Ending(c, more[h]) => h = k
    <3>1. \A h \in DOMAIN more : more[h] # Joined
      BY <1>9 DEF Joined
    <3> QED
      BY <2>3, <3>1, DeliveryIs, EndingShape
  <2>5. c \in live /\ made'[c] = made[c] + 1
    BY <1>11, <1>17
  <2>6. \A i \in DOMAIN ready : ready[i] \notin LastOutputs(c)
    BY <1>1, <2>5 DEF InFlight
  <2>7. Filled(c)'
    BY <1>1, <1>10, <1>12, <1>13, <2>5, FilledKept DEF Ordered
  <2>8. Numbered(c)'
    <3>1. \A h \in DOMAIN more : more[h] # Callback("register", c)
      BY <1>9 DEF Callback
    <3>2. Opened(c)' => Opened(c)
      BY <1>13, <1>14, <3>1 DEF Opened
    <3> DEFINE base == Len(got[c]) + Len(channel[c].items)
    <3>3. base \in Nat
      BY <1>1, OwnShape
    <3>4. Opened(c) => base <= made[c]
      <4>1. Opened(c) => ~channel[c].done
        BY DEF Opened
      <4>2. ~channel[c].done => base <= made[c]
        BY <1>1 DEF Ordered, Filled
      <4> QED
        BY <4>1, <4>2
    <3>5. Opened(c) => Numbering(ready, c, base, made[c])
      BY <1>1 DEF Ordered, Numbered
    <3>6. base' = base
      BY <1>13
    <3> HIDE DEF base
    <3>7. Opened(c) => Numbering(ready \o more, c, base, made[c] + 1)
      BY <1>1, <1>9, <1>12, <2>2, <2>4, <3>3, <3>4, <3>5, NumberingAdded
    <3>8. Opened(c)' => Numbering(ready', c, base', made'[c])
      BY <1>5, <2>5, <3>2, <3>6, <3>7
    <3> QED
      BY <3>8 DEF Numbered, base
  <2>9. Tallied(c)'
    <3> SUFFICES ASSUME NEW i \in DOMAIN ready', ready'[i] \in LastOutputs(c)
                 PROVE  ready'[i].n = made'[c]
      BY DEF Tallied
    <3>1. LastOutputs(c) \subseteq Deliveries(c)
      BY DEF LastOutputs, Deliveries
    <3>2. ready'[i] = more[k]
      BY <1>14, <2>4, <2>6, <3>1
    <3> QED
      BY <2>2, <2>5, <3>2
  <2>10. First(c)'
    <3> SUFFICES ASSUME NEW j \in DOMAIN ready', ready'[j] = Callback("register", c),
                        NEW i \in DOMAIN ready', i < j
                 PROVE  ready'[i] # Joined /\ ~About(c, ready'[i])
      BY DEF First
    <3>1. j \in DOMAIN ready
      BY <1>9, <1>14 DEF Callback
    <3>2. i \in DOMAIN ready
      <4>1. ready' \in Seq(Callbacks)
        BY <1>1, <1>5, <1>9, ConcatAt
      <4>2. i \in Nat /\ i >= 1
        BY <4>1, LenProperties
      <4> QED
        BY <1>14, <3>1, <4>2
    <3> QED
      BY <1>1, <1>14, <3>1, <3>2 DEF Ordered, First
  <2> QED
    BY <1>15, <2>7, <2>8, <2>9, <2>10 DEF Ordered
<1> QED
  BY <1>16, <1>17

\* What a raising step has made and not posted is followed by an error.
LEMMA StepRaisesOrdered ==
  ASSUME OInv, StepRaises, NEW c \in Client, c \notin missed'
  PROVE  Ordered(c)'
<1> DEFINE more == [i \in 1 .. Cardinality(streams) |-> Callback("fail", SetToSeq(streams)[i])]
<1>1. /\ UNCHANGED <<loopVars, commands>>
      /\ missed' = missed \cup (live \ streams)
      /\ ready' = ready \o more
  BY DEF StepRaises, ReportFailure
<1>2. c \notin missed /\ (c \in live => c \in streams)
  BY <1>1
<1>3. /\ Shape /\ ready \in Seq(Callbacks) /\ Delivered(c)
      /\ SubmittedOnce(c) /\ InFlight(c) /\ Ordered(c) /\ Quiet(c)
  BY <1>2, OParts
<1>4. /\ Cardinality(streams) \in Nat
      /\ \A i \in 1 .. Cardinality(streams) : SetToSeq(streams)[i] \in streams
      /\ \A d \in streams : \E i \in 1 .. Cardinality(streams) : SetToSeq(streams)[i] = d
  <2>1. IsFiniteSet(streams)
    BY <1>3 DEF Shape
  <2> QED
    BY <2>1, SetToSeqIn, SetToSeqAll
<1>5. /\ more \in Seq(Callbacks)
      /\ \A k \in DOMAIN more : more[k].fn = "fail" /\ more[k].c \in streams
      /\ c \in streams => \E k \in DOMAIN more : Ending(c, more[k])
  <2>1. \A d \in streams : /\ Callback("fail", d) \in Callbacks
                           /\ Callback("fail", d).fn = "fail"
                           /\ Callback("fail", d).c = d
                           /\ Ending(d, Callback("fail", d))
    BY <1>3 DEF Shape, Callback, Callbacks, Ending, Finals
  <2> QED
    BY <1>4, <2>1
<1> HIDE DEF more
<1>6. \A k \in DOMAIN more : more[k] \notin Deliveries(c) /\ more[k] # Callback("register", c)
  BY <1>5, DeliveryIs DEF Callback
<1>7. /\ made' \in [Client -> 0 .. MaxTokens]
      /\ c \notin live => made'[c] = made[c]
      /\ made[c] <= made'[c]
  <2>1. made[c] \in Nat /\ made \in [Client -> 0 .. MaxTokens]
    BY <1>3, OwnShape DEF Shape
  <2>2. CASE UNCHANGED engineVars
    BY <2>1, <2>2 DEF engineVars
  <2>3. CASE \E moved \in SUBSET (live \ stuck) : \E ended \in SUBSET moved : Advanced(moved, ended)
    <3>1. PICK moved \in SUBSET (live \ stuck) : \E ended \in SUBSET moved : Advanced(moved, ended)
      BY <2>3
    <3>2. PICK ended \in SUBSET moved : Advanced(moved, ended)
      BY <3>1
    <3>3. /\ made' \in [Client -> 0 .. MaxTokens]
          /\ c \notin live => made'[c] = made[c]
      BY <1>3, <3>2, AdvancedProperties
    <3>4. made'[c] = IF c \in moved THEN made[c] + 1 ELSE made[c]
      BY <3>2 DEF Advanced
    <3> QED
      BY <2>1, <3>3, <3>4
  <2> QED
    BY <2>2, <2>3 DEF StepRaises
<1>8. made'[c] = made[c] \/ \E k \in DOMAIN more : Ending(c, more[k])
  BY <1>2, <1>5, <1>7
<1>9. Quiet(c)'
  <2>1. NoSubmission(c) /\ NoCancellation(c)
    BY <1>1, <1>3, OParts, CommandsSame, TailCancels
  <2>2. Pending(c) => c \notin streams
    BY <1>3 DEF Pending, Delivered, Unregistered
  <2>3. Pending(c) => \A k \in DOMAIN more : ~About(c, more[k])
    BY <1>5, <2>2 DEF About
  <2>4. \A i \in DOMAIN ready' :
          (i \in DOMAIN ready /\ ready'[i] = ready[i]) \/ \E k \in DOMAIN more : ready'[i] = more[k]
    BY <1>1, <1>3, <1>5, ConcatAt
  <2>5. Pending(c) => \A i \in DOMAIN ready' :
          About(c, ready'[i]) => \E k \in DOMAIN ready : About(c, ready[k])
    BY <2>3, <2>4
  <2>6. UNCHANGED <<handler, got, channel>>
    BY <1>1 DEF loopVars
  <2> QED
    BY <1>3, <2>1, <2>5, <2>6, QuietKept DEF NoCancellation
<1> QED
  BY <1>1, <1>3, <1>5, <1>6, <1>7, <1>8, <1>9, PostedOrdered

-----------------------------------------------------------------------------
(* The loop runs a callback. *)

LEMMA LoopRest ==
  ASSUME OInv, LoopMoves, UNCHANGED <<made, got>>, NEW c \in Client, c \notin missed,
         handler'[c] = "new" => handler[c] = "new",
         Pending(c) => channel'[c].items = channel[c].items
  PROVE  Tallied(c)' /\ Quiet(c)' /\ First(c)'
<1>1. /\ ready \in Seq(Callbacks) /\ SubmittedOnce(c) /\ Ordered(c) /\ Quiet(c)
      /\ ready # << >> /\ ready' = Tail(ready) /\ UNCHANGED commands
  BY OParts DEF LoopMoves
<1>2. \A i \in DOMAIN ready' : i \in Int /\ i + 1 \in DOMAIN ready /\ ready'[i] = ready[i + 1]
  BY <1>1, TailAt
<1>3. NoSubmission(c) /\ NoCancellation(c)
  BY <1>1, OParts, CommandsSame, TailCancels
<1>4. Tallied(c)'
  BY <1>1, <1>2 DEF Ordered, Tallied
<1>5. Quiet(c)'
  <2>1. Pending(c)' => Pending(c)
    BY <1>3 DEF Pending, NoSubmission
  <2>2. CASE Pending(c)
    <3>1. \A i \in DOMAIN ready' :
            About(c, ready'[i]) => \E k \in DOMAIN ready : About(c, ready[k])
      BY <1>2
    <3> QED
      BY <1>1, <1>3, <2>2, <3>1, QuietKept DEF NoCancellation
  <2>3. CASE ~Pending(c)
    BY <2>1, <2>3 DEF Quiet
  <2> QED
    BY <2>2, <2>3
<1>6. First(c)'
  <2> SUFFICES ASSUME NEW j \in DOMAIN ready', ready'[j] = Callback("register", c),
                      NEW i \in DOMAIN ready', i < j
               PROVE  ready'[i] # Joined /\ ~About(c, ready'[i])
    BY DEF First
  <2>1. i + 1 < j + 1
    BY <1>2
  <2> QED
    BY <1>1, <1>2, <2>1 DEF Ordered, First
<1> QED
  BY <1>4, <1>5, <1>6

\* What has moved on the loop does not concern what c has and is to have.
LEMMA FilledSame ==
  ASSUME NEW c \in Client, Filled(c), UNCHANGED <<made, got>>, channel'[c] = channel[c]
  PROVE  Filled(c)'
BY DEF Filled

\* A callback that hands c nothing, and does not end its stream.
LEMMA LoopOther ==
  ASSUME OInv, LoopMoves, UNCHANGED <<made, got>>, NEW c \in Client, c \notin missed,
         handler'[c] = "new" => handler[c] = "new", channel'[c] = channel[c],
         c \in streams' => c \in streams \/ Head(ready) = Callback("register", c),
         Head(ready) \notin Deliveries(c), ~Ending(c, Head(ready))
  PROVE  Ordered(c)'
<1>1. /\ Shape /\ ready \in Seq(Callbacks) /\ Ordered(c)
      /\ ready # << >> /\ ready' = Tail(ready)
  BY OParts DEF LoopMoves
<1>2. Tallied(c)' /\ Quiet(c)' /\ First(c)'
  BY LoopRest
<1>3. Filled(c)'
  BY <1>1, FilledSame DEF Ordered
<1>4. Numbered(c)'
  <2>1. Opened(c)' => Opened(c)
    BY <1>1, TailAt DEF Opened
  <2> DEFINE base == Len(got[c]) + Len(channel[c].items)
  <2>2. base \in Nat /\ made[c] \in Nat
    BY <1>1, OwnShape
  <2>3. Opened(c) => Numbering(ready, c, base, made[c])
    BY <1>1 DEF Ordered, Numbered
  <2>4. base' = base /\ made'[c] = made[c]
    OBVIOUS
  <2> HIDE DEF base
  <2>5. Opened(c) => Numbering(Tail(ready), c, base, made[c])
    BY <1>1, <2>2, <2>3, NumberingTail
  <2>6. Opened(c)' => Numbering(ready', c, base', made'[c])
    BY <1>1, <2>1, <2>4, <2>5
  <2> QED
    BY <2>6 DEF Numbered, base
<1> QED
  BY <1>2, <1>3, <1>4 DEF Ordered

\* Nothing about c is ahead of its registration.
LEMMA RegisteredBefore ==
  ASSUME OInv, ready # << >>, NEW c \in Client, c \notin missed,
         Ending(c, Head(ready)) \/ Head(ready) \in Deliveries(c)
  PROVE  \A j \in DOMAIN ready : ready[j] # Callback("register", c)
<1>1. ready \in Seq(Callbacks) /\ First(c)
  BY OParts DEF Ordered
<1>2. 1 \in DOMAIN ready /\ Head(ready) = ready[1] /\ \A j \in DOMAIN ready : j \in Int /\ j >= 1
  BY <1>1, TailAt, LenProperties
<1>3. Head(ready) = Joined \/ About(c, Head(ready))
  BY DeliveryIs, EndingShape DEF About
<1>4. Head(ready) # Callback("register", c)
  BY DeliveryIs, EndingShape DEF Callback, Joined
<1> QED
  BY <1>1, <1>2, <1>3, <1>4 DEF First

\* The channel takes nothing more.
LEMMA LoopShut ==
  ASSUME OInv, LoopMoves, UNCHANGED <<made, got>>, NEW c \in Client, c \notin missed,
         handler'[c] = "new" => handler[c] = "new",
         channel'[c].items = channel[c].items \/ c \in streams,
         Filled(c)', ~Opened(c)'
  PROVE  Ordered(c)'
<1>1. Pending(c) => c \notin streams
  BY OParts DEF Pending, Delivered, Unregistered
<1>2. Tallied(c)' /\ Quiet(c)' /\ First(c)'
  BY <1>1, LoopRest
<1> QED
  BY <1>2 DEF Ordered, Numbered

\* A callback for a channel that is closed, or gone.
LEMMA LoopLate ==
  ASSUME OInv, LoopMoves, UNCHANGED <<made, got>>, NEW c \in Client, c \notin missed,
         handler'[c] = "new" => handler[c] = "new", channel'[c] = channel[c],
         Ending(c, Head(ready)) \/ Head(ready) \in Deliveries(c),
         channel[c].done \/ c \notin streams, c \in streams' => c \in streams
  PROVE  Ordered(c)'
<1>1. \A j \in DOMAIN ready : ready[j] # Callback("register", c)
  BY RegisteredBefore DEF LoopMoves
<1>2. \A j \in DOMAIN ready' : ready'[j] # Callback("register", c)
  BY <1>1, OParts, TailAt DEF LoopMoves
<1>3. ~Opened(c)'
  BY <1>2 DEF Opened
<1>4. Filled(c)'
  BY OParts, FilledSame DEF Ordered
<1> QED
  BY <1>3, <1>4, LoopShut

\* An end, without an output, for an open channel.
LEMMA LoopEnds ==
  ASSUME OInv, LoopMoves, UNCHANGED <<made, got>>, NEW c \in Client, c \notin missed,
         handler'[c] = "new" => handler[c] = "new",
         c \in streams, ~channel[c].done,
         NEW more \in Seq(Items), \A i \in DOMAIN more : more[i].kind # "output",
         channel'[c].items = channel[c].items \o more,
         channel'[c].done, ~channel'[c].retired
  PROVE  Ordered(c)'
<1>1. Shape /\ Filled(c)
  BY OParts DEF Ordered
<1>2. PICK k \in Nat :
        /\ Filling(channel[c].items, Len(got[c]), k)
        /\ Len(got[c]) + k <= made[c]
  BY <1>1 DEF Filled
<1>3. channel[c].items \in Seq(Items) /\ Len(got[c]) \in Nat
  BY <1>1, OwnShape
<1>4. Filling(channel[c].items \o more, Len(got[c]), k)
  BY <1>2, <1>3, FillingClosed
<1>5. Filled(c)'
  BY <1>1, <1>2, <1>4 DEF Filled
<1>6. ~Opened(c)'
  BY DEF Opened
<1> QED
  BY <1>5, <1>6, LoopShut

LEMMA PutItems ==
  ASSUME Shape, NEW a \in Client, NEW items \in Seq(Items), NEW retired,
         Put(a, items, retired), NEW c \in Client
  PROVE  /\ c # a \/ c \notin streams \/ channel[c].done => channel'[c] = channel[c]
         /\ c = a /\ c \in streams /\ ~channel[c].done =>
              /\ channel'[c].items = channel[c].items \o items
              /\ channel'[c].done = (Last(items) = End)
              /\ channel'[c].retired = retired
<1>1. channel \in [Client -> [items : Seq(Items), done : BOOLEAN, retired : BOOLEAN]]
  BY DEF Shape
<1>2. CASE ~(a \in streams /\ ~channel[a].done)
  BY <1>1, <1>2 DEF Put
<1>3. CASE a \in streams /\ ~channel[a].done
  <2>1. channel' = [channel EXCEPT ![a].items = @ \o items,
                                   ![a].done = Last(items) = End,
                                   ![a].retired = retired]
    BY <1>3 DEF Put
  <2>2. /\ \A d \in Client \ {a} : channel'[d] = channel[d]
        /\ channel'[a].items = channel[a].items \o items
        /\ channel'[a].done = (Last(items) = End)
        /\ channel'[a].retired = retired
    BY <1>1, <2>1
  <2> QED
    BY <1>3, <2>2
<1> QED
  BY <1>2, <1>3

\* The next output of an open channel.
LEMMA LoopDelivers ==
  ASSUME OInv, LoopMoves, UNCHANGED <<made, got, handler, streams>>,
         NEW c \in Client, c \notin missed,
         Head(ready) \in Deliveries(c), c \in streams, ~channel[c].done,
         NEW more \in Seq(Items), more # << >>,
         more[1].kind = "output", more[1].n = Head(ready).n,
         \A i \in DOMAIN more : i # 1 => more[i].kind # "output",
         ~Head(ready).fin => Len(more) = 1,
         channel'[c].items = channel[c].items \o more,
         channel'[c].done = Head(ready).fin, channel'[c].retired = Head(ready).fin
  PROVE  Ordered(c)'
<1> DEFINE g == Len(got[c])
           l == Len(channel[c].items)
           b == Head(ready)
<1>1. /\ Shape /\ ready \in Seq(Callbacks)
      /\ Filled(c) /\ Numbered(c) /\ Tallied(c)
      /\ ready # << >> /\ ready' = Tail(ready)
  BY OParts DEF Ordered, LoopMoves
<1>2. /\ g \in Nat /\ l \in Nat /\ g + l \in Nat /\ made[c] \in Nat
      /\ channel[c].items \in Seq(Items)
  BY <1>1, OwnShape
<1>3. Numbering(ready, c, g + l, made[c])
  BY <1>1 DEF Numbered, Opened
<1>4. Filling(channel[c].items, g, l)
  BY <1>1 DEF Filled
<1>5. b \in Deliveries(c) /\ b \in {ready[i] : i \in DOMAIN ready} /\ (b.fin => b \in LastOutputs(c))
      /\ b.fin \in BOOLEAN
  BY <1>1, TailAt, DeliveryIs
<1> HIDE DEF g, l, b
<1>6. /\ b.n = g + l + 1 /\ g + l + 1 <= made[c]
      /\ ~b.fin => Numbering(Tail(ready), c, g + l + 1, made[c])
  BY <1>1, <1>2, <1>3, <1>5, NumberingTaken DEF b
<1>7. Filling(channel[c].items \o more, g, l + 1)
  <2>1. more[1].n = g + Len(channel[c].items) + 1 /\ Filling(channel[c].items, g, Len(channel[c].items))
    BY <1>4, <1>6 DEF b, l
  <2>2. Filling(channel[c].items \o more, g, Len(channel[c].items) + 1)
    BY <1>2, <2>1, FillingMore
  <2> QED
    BY <2>2 DEF l
<1>8. b.fin => g + l + 1 = made[c]
  BY <1>1, <1>5, <1>6 DEF Tallied
<1>9. Len(channel[c].items \o more) = l + Len(more)
  BY <1>2, ConcatProperties DEF l
<1>10. Filled(c)'
  <2>1. \A i \in DOMAIN got'[c] : got'[c][i] = i
    BY <1>1 DEF Filled
  <2>2. /\ l + 1 \in Nat /\ g + (l + 1) = g + l + 1
    BY <1>2
  <2>3. /\ Filling(channel'[c].items, Len(got'[c]), l + 1)
        /\ Len(got'[c]) = g
    BY <1>7 DEF g
  <2>4. g + (l + 1) <= made'[c]
    BY <1>6, <2>2
  <2>5. ~channel'[c].done => l + 1 = Len(channel'[c].items)
    BY <1>9 DEF b
  <2>6. channel'[c].retired => channel'[c].done /\ g + (l + 1) = made'[c]
    BY <1>8, <2>2 DEF b
  <2> QED
    BY <2>1, <2>2, <2>3, <2>4, <2>5, <2>6 DEF Filled
<1>11. CASE b.fin
  <2>1. ~Opened(c)'
    BY <1>11 DEF Opened, b
  <2> QED
    BY <1>10, <2>1, LoopShut
<1>12. CASE ~b.fin
  <2>1. Len(got'[c]) + Len(channel'[c].items) = g + l + 1
    <3>1. Len(channel'[c].items) = l + 1 /\ Len(got'[c]) = g
      BY <1>9, <1>12 DEF b, g
    <3> QED
      BY <1>2, <3>1
  <2>2. Numbered(c)'
    BY <1>1, <1>6, <1>12, <2>1 DEF Numbered
  <2>3. Pending(c) => c \notin streams
    BY OParts DEF Pending, Delivered, Unregistered
  <2>4. Tallied(c)' /\ Quiet(c)' /\ First(c)'
    BY <2>3, LoopRest
  <2> QED
    BY <1>10, <2>2, <2>4 DEF Ordered
<1> QED
  BY <1>5, <1>11, <1>12

LEMMA OneItem ==
  ASSUME NEW S, NEW o \in S
  PROVE  /\ <<o>> \in Seq(S) /\ Len(<<o>>) = 1 /\ <<o>>[1] = o /\ DOMAIN <<o>> = {1}
         /\ <<o>> # << >> /\ Last(<<o>>) = o
<1>1. <<o>> \in Seq(S) /\ Len(<<o>>) = 1 /\ <<o>>[1] = o /\ DOMAIN <<o>> = {1} /\ <<o>> # << >>
  OBVIOUS
<1> QED
  BY <1>1 DEF Last

IsPair(p, o, e) == p = <<o>> \o <<e>>

LEMMA TwoItems ==
  ASSUME NEW S, NEW o \in S, NEW e \in S, NEW p, IsPair(p, o, e)
  PROVE  /\ p \in Seq(S) /\ Len(p) = 2 /\ p[1] = o /\ p[2] = e /\ DOMAIN p = {1, 2}
         /\ p # << >> /\ Last(p) = e
<1>1. /\ <<o>> \in Seq(S) /\ Len(<<o>>) = 1 /\ <<o>>[1] = o /\ 1 \in DOMAIN <<o>>
      /\ <<e>> \in Seq(S) /\ Len(<<e>>) = 1 /\ <<e>>[1] = e /\ 1 \in DOMAIN <<e>>
  OBVIOUS
<1>2. /\ p \in Seq(S) /\ Len(p) = Len(<<o>>) + Len(<<e>>)
  BY <1>1, ConcatProperties DEF IsPair
<1>3. p[1] = o
  BY <1>1, ConcatAt DEF IsPair
<1>4. p[Len(<<o>>) + 1] = e
  BY <1>1, ConcatBehind DEF IsPair
<1>5. Len(p) = 2 /\ p[2] = e
  BY <1>1, <1>2, <1>4
<1>6. DOMAIN p = {1, 2}
  BY <1>2, <1>5, LenProperties
<1>7. Last(p) = p[Len(p)]
  BY DEF Last
<1>8. Len(p) # 0 /\ Len(<< >>) = 0
  BY <1>5
<1>9. p # << >>
  BY <1>8, Zenon
<1>10. Last(p) = e
  BY <1>5, <1>7, Zenon
<1> QED
  BY <1>2, <1>3, <1>5, <1>6, <1>9, <1>10

\* What _deliver puts on a channel.
Handed(items, n, fin) == items = <<Output(n, fin)>> \o Ended(fin)

LEMMA DeliveredItems ==
  ASSUME NEW n \in 1 .. MaxTokens, NEW fin \in BOOLEAN, NEW items, Handed(items, n, fin)
  PROVE  /\ items \in Seq(Items) /\ items # << >>
         /\ items[1].kind = "output" /\ items[1].n = n
         /\ \A i \in DOMAIN items : i # 1 => items[i].kind # "output"
         /\ ~fin => Len(items) = 1
         /\ (Last(items) = End) = fin
<1>1. PICK o : o = Output(n, fin)
  OBVIOUS
<1>2. o \in Items /\ o.kind = "output" /\ o.n = n
  BY <1>1 DEF Items, Output
<1>3. PICK e : e = End
  OBVIOUS
<1>4. e \in Items /\ e.kind # "output"
  BY <1>3 DEF Items, End
<1>5. CASE fin
  <2>1. IsPair(items, o, e)
    BY <1>1, <1>3, <1>5 DEF Handed, Ended, IsPair
  <2>2. /\ items \in Seq(Items) /\ Len(items) = 2 /\ items[1] = o /\ items[2] = e
        /\ DOMAIN items = {1, 2} /\ items # << >> /\ Last(items) = e
    BY <1>2, <1>4, <2>1, TwoItems
  <2> QED
    BY <1>2, <1>3, <1>4, <1>5, <2>2
<1>6. CASE ~fin
  <2>1. items = <<o>> \o << >>
    BY <1>1, <1>6 DEF Handed, Ended
  <2>2. <<o>> \in Seq(Items)
    BY <1>2, OneItem
  <2>3. items = <<o>>
    BY <2>1, <2>2, ConcatEmptySeq
  <2>4. /\ items \in Seq(Items) /\ Len(items) = 1 /\ items[1] = o
        /\ DOMAIN items = {1} /\ items # << >> /\ Last(items) = o
    BY <1>2, <2>3, OneItem
  <2>5. Last(items) # End
    BY <1>2, <1>3, <1>4, <2>4
  <2>6. (Last(items) = End) = fin
    BY <1>6, <2>5
  <2> QED
    BY <1>2, <1>6, <2>4, <2>6
<1> QED
  BY <1>5, <1>6

\* A channel is given items: the next output, or an end without one.
LEMMA ItemsOrdered ==
  ASSUME OInv, LoopMoves, UNCHANGED <<made, got, handler, streams>>,
         NEW c \in Client, c \notin missed, NEW a \in Client,
         Ending(a, Head(ready)) \/ Head(ready) \in Deliveries(a),
         Head(ready) # Joined,
         NEW items \in Seq(Items), items # << >>, NEW retired \in BOOLEAN,
         Put(a, items, retired),
         \/ /\ Head(ready) \in Deliveries(a) /\ retired = Head(ready).fin
            /\ items[1].kind = "output" /\ items[1].n = Head(ready).n
            /\ \A i \in DOMAIN items : i # 1 => items[i].kind # "output"
            /\ ~Head(ready).fin => Len(items) = 1
            /\ (Last(items) = End) = Head(ready).fin
         \/ /\ Head(ready) \notin Deliveries(a) /\ ~retired /\ Last(items) = End
            /\ \A i \in DOMAIN items : items[i].kind # "output"
  PROVE  Ordered(c)'
<1> DEFINE b == Head(ready)
<1>1. Shape
  BY OParts
<1>2. /\ c # a \/ c \notin streams \/ channel[c].done => channel'[c] = channel[c]
      /\ c = a /\ c \in streams /\ ~channel[c].done =>
           /\ channel'[c].items = channel[c].items \o items
           /\ channel'[c].done = (Last(items) = End)
           /\ channel'[c].retired = retired
  BY <1>1, PutItems
<1>3. b.c = a /\ b # Joined
  BY DeliveryIs, EndingShape
<1>4. CASE c # a
  <2>1. b \notin Deliveries(c) /\ ~Ending(c, b)
    BY <1>3, <1>4, DeliveryIs, EndingShape
  <2> QED
    BY <1>2, <1>4, <2>1, LoopOther
<1>5. CASE c = a /\ (c \notin streams \/ channel[c].done)
  BY <1>2, <1>5, LoopLate
<1>6. CASE c = a /\ c \in streams /\ ~channel[c].done
  <2>1. /\ channel'[c].items = channel[c].items \o items
        /\ channel'[c].done = (Last(items) = End)
        /\ channel'[c].retired = retired
    BY <1>2, <1>6
  <2>2. CASE /\ b \in Deliveries(a) /\ retired = b.fin
             /\ items[1].kind = "output" /\ items[1].n = b.n
             /\ \A i \in DOMAIN items : i # 1 => items[i].kind # "output"
             /\ ~b.fin => Len(items) = 1
             /\ (Last(items) = End) = b.fin
    BY <1>6, <2>1, <2>2, LoopDelivers
  <2>3. CASE /\ ~retired /\ Last(items) = End
             /\ \A i \in DOMAIN items : items[i].kind # "output"
    BY <1>6, <2>1, <2>3, LoopEnds
  <2> QED
    BY <2>2, <2>3
<1> QED
  BY <1>4, <1>5, <1>6

LEMMA FinishStopOrdered ==
  ASSUME OInv, LoopMoves, UNCHANGED made, Head(ready) = Joined, FinishStop,
         NEW c \in Client, c \notin missed
  PROVE  Ordered(c)'
<1>1. /\ Shape /\ Filled(c) /\ streams' = {} /\ UNCHANGED <<handler, got>>
  BY OParts DEF FinishStop, Ordered
<1>2. Ending(c, Head(ready))
  BY DEF Ending
<1>3. /\ channel[c] \in [items : Seq(Items), done : BOOLEAN, retired : BOOLEAN]
      /\ channel[c].items \in Seq(Items)
  BY <1>1 DEF Shape
<1>4. CASE ~(c \in streams /\ ~channel[c].done)
  <2>1. channel'[c] = channel[c]
    BY <1>4 DEF FinishStop
  <2> QED
    BY <1>1, <1>2, <1>4, <2>1, LoopLate
<1>5. CASE c \in streams /\ ~channel[c].done
  <2>1. channel'[c] = [channel[c] EXCEPT !.items = Append(@, End), !.done = TRUE]
    BY <1>5 DEF FinishStop
  <2>2. ~channel[c].retired
    BY <1>1, <1>5 DEF Filled
  <2>3. channel'[c].items = Append(channel[c].items, End) /\ channel'[c].done
        /\ ~channel'[c].retired
    BY <1>3, <2>1, <2>2
  <2>4. End \in Items /\ End.kind # "output"
    BY DEF Items, End
  <2>5. /\ <<End>> \in Seq(Items) /\ channel'[c].items = channel[c].items \o <<End>>
        /\ \A i \in DOMAIN <<End>> : <<End>>[i].kind # "output"
    BY <1>3, <2>3, <2>4, OneItem, AppendIsConcat
  <2> QED
    BY <1>1, <1>5, <2>3, <2>5, LoopEnds
<1> QED
  BY <1>4, <1>5

LEMMA RunCallbackOrdered ==
  ASSUME OInv, RunCallback, NEW c \in Client, c \notin missed
  PROVE  Ordered(c)'
<1> DEFINE b == Head(ready)
<1>1. LoopMoves /\ UNCHANGED made
  BY DEF RunCallback, LoopMoves, engineVars
<1>2. b \in Callbacks
  BY OParts, TailAt DEF RunCallback
<1>3. /\ b.fn \in {"register", "fail", "close", "id", "refused"} =>
           b.c \in Client /\ b = Callback(b.fn, b.c)
      /\ b.fn = "deliver" =>
           /\ b.c \in Client /\ b.n \in 1 .. MaxTokens /\ b.fin \in BOOLEAN
           /\ b \in Deliveries(b.c)
      /\ b.fn = "joined" <=> b = Joined
  <2>1. b.fn = "deliver" => b \in [fn : {"deliver"}, c : Client, n : 1 .. MaxTokens, fin : BOOLEAN]
    BY <1>2 DEF Callbacks, Joined
  <2>2. b.fn = "deliver" => b \in Deliveries(b.c)
    BY <2>1 DEF Deliveries
  <2> QED
    BY <1>2, <2>2, CallbackShape
<1>4. End \in Items /\ Failure \in Items /\ End.kind # "output" /\ Failure.kind # "output"
  BY DEF Items, End, Failure
<1>5. Shape
  BY OParts
<1>6. b.fn \in {"register", "id", "refused"} => b \notin Deliveries(c) /\ ~Ending(c, b)
  BY DeliveryIs, EndingShape DEF Joined
<1>7. CASE b.fn = "register" /\ RegisterStream(b.c)
  <2>1. /\ UNCHANGED <<got, handler, channel>>
        /\ c \in streams' => c \in streams \/ b = Callback("register", c)
    BY <1>3, <1>7 DEF RegisterStream
  <2> QED
    BY <1>1, <1>6, <1>7, <2>1, LoopOther
<1>8. CASE b.fn = "deliver" /\ Deliver(b)
  <2>1. PICK items : items = <<Output(b.n, b.fin)>> \o Ended(b.fin)
    OBVIOUS
  <2>2. Handed(items, b.n, b.fin)
    BY <2>1 DEF Handed
  <2>3. Put(b.c, items, b.fin) /\ UNCHANGED <<got, streams, handler>>
    BY <1>8, <2>1 DEF Deliver
  <2>4. b \in Deliveries(b.c) /\ b # Joined /\ b.c \in Client /\ b.n \in 1 .. MaxTokens /\ b.fin \in BOOLEAN
    BY <1>3, <1>8, DeliveryIs
  <2>5. /\ items \in Seq(Items) /\ items # << >>
        /\ items[1].kind = "output" /\ items[1].n = b.n
        /\ \A i \in DOMAIN items : i # 1 => items[i].kind # "output"
        /\ ~b.fin => Len(items) = 1
        /\ (Last(items) = End) = b.fin
    BY <2>2, <2>4, DeliveredItems
  <2> QED
    BY <1>1, <2>3, <2>4, <2>5, ItemsOrdered
<1>9. CASE b.fn = "fail" /\ DeliverError(b.c)
  <2>1. /\ b.c \in Client /\ b # Joined /\ Ending(b.c, b) /\ b \notin Deliveries(b.c)
    BY <1>3, <1>9, DeliveryIs DEF Ending, Finals, Joined
  <2>2. Put(b.c, <<Failure, End>>, FALSE) /\ UNCHANGED <<got, streams, handler>>
    BY <1>9 DEF DeliverError
  <2>3. /\ <<Failure, End>> \in Seq(Items) /\ <<Failure, End>> # << >>
        /\ Last(<<Failure, End>>) = End
        /\ \A i \in DOMAIN <<Failure, End>> : <<Failure, End>>[i].kind # "output"
    BY <1>4 DEF Last
  <2> QED
    BY <1>1, <2>1, <2>2, <2>3, ItemsOrdered
<1>10. CASE b.fn = "close" /\ CloseStream(b.c)
  <2>1. /\ b.c \in Client /\ b # Joined /\ Ending(b.c, b) /\ b \notin Deliveries(b.c)
    BY <1>3, <1>10, DeliveryIs DEF Ending, Finals, Joined
  <2>2. Put(b.c, <<End>>, FALSE) /\ UNCHANGED <<got, streams, handler>>
    BY <1>10 DEF CloseStream
  <2>3. /\ <<End>> \in Seq(Items) /\ <<End>> # << >> /\ Last(<<End>>) = End
        /\ \A i \in DOMAIN <<End>> : <<End>>[i].kind # "output"
    BY <1>4, OneItem
  <2> QED
    BY <1>1, <2>1, <2>2, <2>3, ItemsOrdered
<1>11. CASE \/ b.fn = "id" /\ Resolve(b.c, "answered")
            \/ b.fn = "refused" /\ Resolve(b.c, "over")
  <2>1. b.fn \in {"id", "refused"} /\ UNCHANGED <<got, streams, channel>>
    BY <1>11 DEF Resolve
  <2>2. handler'[c] = "new" => handler[c] = "new"
    <3>1. PICK answer \in {"answered", "over"} : Resolve(b.c, answer)
      BY <1>11
    <3>2. b.c \in Client /\ handler \in [Client -> {"new", "waiting", "answered", "streaming", "over", "gone"}]
      BY <1>3, <1>5, <2>1 DEF Shape
    <3> QED
      BY <3>1, <3>2 DEF Resolve
  <2> QED
    BY <1>1, <1>6, <2>1, <2>2, LoopOther
<1>12. CASE b.fn = "joined" /\ FinishStop
  BY <1>1, <1>3, <1>12, FinishStopOrdered
<1> QED
  BY <1>7, <1>8, <1>9, <1>10, <1>11, <1>12 DEF RunCallback

-----------------------------------------------------------------------------
(* The handlers. *)

\* What c has and is to have stays as it is.
LEMMA SameOrdered ==
  ASSUME OInv, UNCHANGED <<ready, made>>, NEW c \in Client, c \notin missed,
         got'[c] = got[c], channel'[c] = channel[c], c \in streams' => c \in streams,
         Quiet(c)'
  PROVE  Ordered(c)'
<1>1. Ordered(c)
  BY OParts
<1>2. Filled(c)'
  BY <1>1 DEF Ordered, Filled
<1>3. Numbered(c)'
  BY <1>1 DEF Ordered, Numbered, Opened
<1>4. Tallied(c)' /\ First(c)'
  BY <1>1 DEF Ordered, Tallied, First
<1> QED
  BY <1>2, <1>3, <1>4 DEF Ordered

\* The commands that c's handler has posted are about c.
OwnCommands(c) ==
  \A i \in DOMAIN commands' :
    \/ commands'[i] \in {Submission(c), Cancellation(c)}
    \/ \E k \in DOMAIN commands : commands[k] = commands'[i]

LEMMA OtherOrdered ==
  ASSUME OInv, UNCHANGED <<ready, made>>, NEW c \in Client, OwnCommands(c),
         NEW d \in Client, d # c, d \notin missed,
         handler'[d] = handler[d], got'[d] = got[d], channel'[d] = channel[d],
         d \in streams' => d \in streams
  PROVE  Ordered(d)'
<1>1. Quiet(d)
  BY OParts
<1>2. Submission(d) # Submission(c) /\ Submission(d) # Cancellation(c)
      /\ Cancellation(d) # Submission(c) /\ Cancellation(d) # Cancellation(c)
  BY DEF Submission, Cancellation
<1>3. Quiet(d)'
  BY <1>1, <1>2 DEF Quiet, Pending, OwnCommands
<1> QED
  BY <1>3, SameOrdered

LEMMA SubmitOrdered ==
  ASSUME OInv, NEW c \in Client, Submit(c), NEW d \in Client, d \notin missed
  PROVE  Ordered(d)'
<1>1. Shape /\ commands \in Seq(Commands) /\ SubmittedOnce(c)
  BY OParts
<1>2. /\ handler[c] = "new"
      /\ UNCHANGED <<got, streams, channel, ready, made>>
  BY DEF Submit, engineVars
<1>3. PICK h \in {"waiting", "over"} :
        /\ handler' = [handler EXCEPT ![c] = h]
        /\ UNCHANGED commands \/ commands' = Append(commands, Submission(c))
  BY DEF Submit
<1>4. \A i \in DOMAIN commands' :
        commands'[i] = Submission(c) \/ \E k \in DOMAIN commands : commands[k] = commands'[i]
  <2>1. Submission(c) \in Commands
    BY DEF Commands, Submission
  <2>2. CASE UNCHANGED commands
    BY <2>2
  <2>3. CASE commands' = Append(commands, Submission(c))
    BY <1>1, <2>1, <2>3, AppendAt
  <2> QED
    BY <1>3, <2>2, <2>3
<1>5. CASE d = c
  <2>1. Quiet(c)
    BY <1>5, OParts
  <2>2. Submission(c) # Cancellation(c)
    BY DEF Submission, Cancellation
  <2>3. Quiet(c)'
    BY <1>2, <1>4, <2>1, <2>2 DEF Quiet, Pending
  <2> QED
    BY <1>2, <1>5, <2>3, SameOrdered
<1>6. CASE d # c
  <2>1. OwnCommands(c)
    BY <1>4 DEF OwnCommands
  <2>2. handler'[d] = handler[d]
    BY <1>1, <1>3, <1>6 DEF Shape
  <2> QED
    BY <1>2, <1>6, <2>1, <2>2, OtherOrdered
<1> QED
  BY <1>5, <1>6

LEMMA VanishOpenOrdered ==
  ASSUME OInv, NEW c \in Client, Vanish(c) \/ Open(c), NEW d \in Client, d \notin missed
  PROVE  Ordered(d)'
<1>1. Shape /\ Quiet(d)
  BY OParts
<1>2. UNCHANGED <<got, streams, channel, ready, commands, made>>
  BY DEF Vanish, Open, engineVars
<1>3. PICK h \in {"gone", "streaming", "over"} : handler' = [handler EXCEPT ![c] = h]
  BY DEF Vanish, Open
<1>4. handler'[d] = "new" => handler[d] = "new"
  BY <1>1, <1>3 DEF Shape
<1>5. Quiet(d)'
  BY <1>1, <1>2, <1>4 DEF Quiet, Pending
<1> QED
  BY <1>2, <1>5, SameOrdered

\* Whose handler reads a stream has no submission pending.
LEMMA StreamingIsQuiet ==
  ASSUME OInv, NEW c \in Client, handler[c] = "streaming", handler'[c] # "new",
         \A i \in DOMAIN commands' :
           commands'[i] = Cancellation(c) \/ \E k \in DOMAIN commands : commands[k] = commands'[i]
  PROVE  Quiet(c)'
<1>1. SubmittedOnce(c)
  BY OParts
<1>2. \A k \in DOMAIN commands : commands[k] # Submission(c)
  BY <1>1 DEF SubmittedOnce
<1>3. \A i \in DOMAIN commands' : commands'[i] # Submission(c)
  BY <1>2 DEF Submission, Cancellation
<1> QED
  BY <1>3 DEF Quiet, Pending

Joins(r, s, t) == r = s \o t

LEMMA JoinedOf ==
  ASSUME NEW S, NEW s \in Seq(S), NEW t \in Seq(S), NEW r, Joins(r, s, t)
  PROVE  /\ r \in Seq(S)
         /\ \A i \in DOMAIN r : \/ \E k \in DOMAIN s : s[k] = r[i]
                                \/ \E k \in DOMAIN t : t[k] = r[i]
<1>1. /\ s \o t \in Seq(S)
      /\ \A i \in DOMAIN s : i \in DOMAIN (s \o t) /\ (s \o t)[i] = s[i]
      /\ \A i \in DOMAIN (s \o t) :
           i \in DOMAIN s \/ \E k \in DOMAIN t : i = Len(s) + k /\ (s \o t)[i] = t[k]
  BY ConcatAt
<1> QED
  BY <1>1 DEF Joins

LEMMA ReleaseOrdered ==
  ASSUME OInv, NEW c \in Client, handler[c] = "streaming",
         NEW posted \in {<< >>, <<Cancellation(c)>>}, Release(c, posted),
         UNCHANGED <<ready, engineVars>>, NEW d \in Client, d \notin missed
  PROVE  Ordered(d)'
<1> DEFINE due == IF c \in streams /\ ~channel[c].retired THEN <<Cancellation(c)>> ELSE << >>
<1>1. Shape /\ commands \in Seq(Commands)
  BY OParts
<1>2. /\ posted \in Seq(Commands) /\ due \in Seq(Commands)
      /\ \A k \in DOMAIN posted : posted[k] = Cancellation(c)
      /\ \A k \in DOMAIN due : due[k] = Cancellation(c)
  <2>1. Cancellation(c) \in Commands
    BY DEF Commands, Cancellation
  <2>2. /\ << >> \in Seq(Commands) /\ <<Cancellation(c)>> \in Seq(Commands)
        /\ \A k \in DOMAIN <<Cancellation(c)>> : <<Cancellation(c)>>[k] = Cancellation(c)
        /\ \A k \in DOMAIN << >> : FALSE
    BY <2>1
  <2>3. posted = << >> \/ posted = <<Cancellation(c)>>
    OBVIOUS
  <2>4. due = << >> \/ due = <<Cancellation(c)>>
    OBVIOUS
  <2> HIDE DEF due
  <2> QED
    BY <2>2, <2>3, <2>4, Zenon
<1>3. /\ handler' = [handler EXCEPT ![c] = "over"]
      /\ got' = [got EXCEPT ![c] = << >>]
      /\ streams' = streams \ {c}
      /\ channel' = [channel EXCEPT ![c] = NewChannel]
      /\ commands' = (commands \o posted) \o due
      /\ UNCHANGED made
  BY DEF Release, engineVars
<1> HIDE DEF due
<1>4. \A i \in DOMAIN commands' :
        commands'[i] = Cancellation(c) \/ \E k \in DOMAIN commands : commands[k] = commands'[i]
  <2>1. PICK mid : mid = commands \o posted
    OBVIOUS
  <2>2. Joins(mid, commands, posted) /\ Joins(commands', mid, due)
    BY <1>3, <2>1 DEF Joins
  <2>3. mid \in Seq(Commands)
    BY <1>1, <1>2, <2>2, JoinedOf
  <2>4. \A i \in DOMAIN mid :
          mid[i] = Cancellation(c) \/ \E k \in DOMAIN commands : commands[k] = mid[i]
    <3>1. \A i \in DOMAIN mid : \/ \E k \in DOMAIN commands : commands[k] = mid[i]
                                \/ \E k \in DOMAIN posted : posted[k] = mid[i]
      BY <1>1, <1>2, <2>2, JoinedOf
    <3> QED
      BY <1>2, <3>1
  <2>5. \A i \in DOMAIN commands' :
          commands'[i] = Cancellation(c) \/ \E k \in DOMAIN mid : mid[k] = commands'[i]
    <3>1. \A i \in DOMAIN commands' : \/ \E k \in DOMAIN mid : mid[k] = commands'[i]
                                      \/ \E k \in DOMAIN due : due[k] = commands'[i]
      BY <1>2, <2>2, <2>3, JoinedOf
    <3> QED
      BY <1>2, <3>1
  <2> QED
    BY <2>4, <2>5
<1>5. CASE d # c
  <2>1. OwnCommands(c)
    BY <1>4 DEF OwnCommands
  <2>2. /\ handler'[d] = handler[d] /\ got'[d] = got[d] /\ channel'[d] = channel[d]
        /\ d \in streams' => d \in streams
    BY <1>1, <1>3, <1>5 DEF Shape
  <2> QED
    BY <1>3, <1>5, <2>1, <2>2, OtherOrdered
<1>6. CASE d = c
  <2>1. /\ got'[c] = << >> /\ channel'[c] = NewChannel /\ handler'[c] = "over"
        /\ c \notin streams' /\ UNCHANGED <<ready, made>>
    BY <1>1, <1>3 DEF Shape
  <2>2. Quiet(c)'
    BY <1>4, <2>1, StreamingIsQuiet
  <2>3. Delivered(c) /\ Tallied(c) /\ First(c) /\ made[c] \in Nat
    BY <1>1, <1>6, OParts, OwnShape DEF Ordered
  <2>4. \A j \in DOMAIN ready : ready[j] # Callback("register", c)
    BY <1>6, <2>3 DEF Delivered, Awaited, Held
  <2>5. Numbered(c)'
    BY <2>1, <2>4 DEF Numbered, Opened
  <2>6. Filled(c)'
    <3>1. /\ NewChannel.items = << >> /\ ~NewChannel.retired
          /\ Len(<< >>) = 0 /\ \A i \in DOMAIN << >> : FALSE
      BY DEF NewChannel
    <3>2. Filling(<< >>, 0, 0)
      BY DEF Filling
    <3> QED
      BY <2>1, <2>3, <3>1, <3>2 DEF Filled
  <2> QED
    BY <1>6, <2>1, <2>2, <2>3, <2>5, <2>6 DEF Ordered, Tallied, First
<1> QED
  BY <1>5, <1>6

LEMMA HangUpOrdered ==
  ASSUME OInv, NEW c \in Client, HangUp(c), NEW d \in Client, d \notin missed
  PROVE  Ordered(d)'
<1>1. handler[c] = "streaming" /\ UNCHANGED <<ready, engineVars>>
  BY DEF HangUp
<1>2. CASE Release(c, << >>)
  BY <1>1, <1>2, ReleaseOrdered
<1>3. CASE Release(c, <<Cancellation(c)>>)
  BY <1>1, <1>3, ReleaseOrdered
<1> QED
  BY <1>2, <1>3 DEF HangUp

\* The next output is read: it is the one behind those that were.
LEMMA ReadOrdered ==
  ASSUME OInv, NEW c \in Client, Read(c), NEW d \in Client, d \notin missed
  PROVE  Ordered(d)'
<1> DEFINE item == Head(channel[c].items)
<1>1. /\ handler[c] = "streaming" /\ channel[c].items # << >>
      /\ UNCHANGED <<ready, engineVars, made>>
  BY DEF Read, engineVars
<1>2. CASE Release(c, << >>)
  BY <1>1, <1>2, ReleaseOrdered
<1>3. CASE ~Release(c, << >>)
  <2>1. /\ item.kind = "output"
        /\ channel' = [channel EXCEPT ![c].items = Tail(@)]
        /\ got' = [got EXCEPT ![c] = Append(@, item.n)]
        /\ UNCHANGED <<handler, streams, commands>>
    BY <1>3 DEF Read
  <2>2. Shape /\ commands \in Seq(Commands)
    BY OParts
  <2>3. CASE d # c
    <3>1. OwnCommands(c)
      BY <2>1 DEF OwnCommands
    <3>2. got'[d] = got[d] /\ channel'[d] = channel[d]
      BY <2>1, <2>2, <2>3 DEF Shape
    <3> QED
      BY <1>1, <2>1, <2>3, <3>1, <3>2, OtherOrdered
  <2>4. CASE d = c
    <3> DEFINE items == channel[c].items
               g == Len(got[c])
    <3>1. /\ got[c] \in Seq(1 .. MaxTokens) /\ g \in Nat
          /\ items \in Seq(Items) /\ Len(items) \in Nat
          /\ made[c] \in Nat
      BY <2>2, OwnShape
    <3>2. /\ channel'[c].items = Tail(items)
          /\ channel'[c].done = channel[c].done /\ channel'[c].retired = channel[c].retired
          /\ got'[c] = Append(got[c], item.n)
      BY <2>1, <2>2 DEF Shape
    <3>3. /\ Filled(c) /\ Numbered(c) /\ Tallied(c) /\ First(c)
      BY <2>4, OParts DEF Ordered
    <3>4. PICK k \in Nat :
            /\ Filling(items, g, k)
            /\ g + k <= made[c]
            /\ ~channel[c].done => k = Len(items)
            /\ channel[c].retired => channel[c].done /\ g + k = made[c]
      BY <3>3 DEF Filled
    <3> HIDE DEF items, g
    <3>5. k - 1 \in Nat /\ item.n = g + 1 /\ Filling(Tail(items), g + 1, k - 1)
      BY <1>1, <2>1, <3>1, <3>4, FillingRead DEF items
    <3>6. Len(Tail(items)) = Len(items) - 1
      BY <1>1, <3>1, HeadTailProperties DEF items
    <3>7. /\ \A i \in DOMAIN got[c] : i \in 1 .. g
          /\ DOMAIN got'[c] = 1 .. g + 1 /\ got'[c][g + 1] = item.n
          /\ \A i \in 1 .. g : got'[c][i] = got[c][i]
          /\ DOMAIN got[c] = 1 .. g /\ Len(got'[c]) = g + 1
      <4>1. item.n \in 1 .. MaxTokens
        <5>1. item \in Items
          BY <1>1, <3>1, TailAt DEF items
        <5> QED
          BY <2>1, <5>1 DEF Items, End, Failure
      <4>2. /\ Append(got[c], item.n) \in Seq(1 .. MaxTokens)
            /\ Len(Append(got[c], item.n)) = Len(got[c]) + 1
            /\ \A i \in 1 .. Len(got[c]) : Append(got[c], item.n)[i] = got[c][i]
            /\ Append(got[c], item.n)[Len(got[c]) + 1] = item.n
        BY <3>1, <4>1, AppendProperties
      <4> QED
        BY <3>1, <3>2, <4>2, LenProperties DEF g
    <3>8. \A i \in DOMAIN got'[c] : got'[c][i] = i
      <4>1. \A i \in DOMAIN got[c] : got[c][i] = i
        BY <3>3 DEF Filled
      <4> QED
        BY <3>1, <3>5, <3>7, <4>1
    <3>9. (g + 1) + (k - 1) = g + k
      BY <3>1, <3>4
    <3>10. Filled(c)'
      <4>1. (g + 1) + (k - 1) <= made'[c]
        BY <1>1, <3>4, <3>9
      <4>2. ~channel'[c].done => k - 1 = Len(channel'[c].items)
        BY <3>1, <3>2, <3>4, <3>6
      <4>3. channel'[c].retired => channel'[c].done /\ (g + 1) + (k - 1) = made'[c]
        BY <1>1, <3>2, <3>4, <3>9
      <4> QED
        BY <3>2, <3>5, <3>7, <3>8, <4>1, <4>2, <4>3 DEF Filled
    <3>11. Numbered(c)'
      <4>1. Opened(c)' => Opened(c)
        BY <1>1, <2>1, <3>2 DEF Opened
      <4>2. (g + 1) + Len(Tail(items)) = g + Len(items)
        <5>1. \A a, b \in Nat : (a + 1) + (b - 1) = a + b
          OBVIOUS
        <5> QED
          BY <3>1, <3>6, <5>1, Zenon
      <4>3. Len(got'[c]) + Len(channel'[c].items) = g + Len(items)
        BY <3>2, <3>7, <4>2
      <4>4. Opened(c) => Numbering(ready, c, g + Len(items), made[c])
        BY <3>3 DEF Numbered, g, items
      <4> QED
        BY <1>1, <4>1, <4>3, <4>4 DEF Numbered
    <3>12. Quiet(c)'
      <4>1. handler'[c] # "new"
        BY <1>1, <2>1
      <4> QED
        BY <1>1, <2>1, <4>1, StreamingIsQuiet
    <3> QED
      BY <1>1, <2>4, <3>3, <3>10, <3>11, <3>12 DEF Ordered, Tallied, First
  <2> QED
    BY <2>3, <2>4
<1> QED
  BY <1>2, <1>3

-----------------------------------------------------------------------------
(* The theorems. *)

LEMMA InitOInv == Init => OInv
<1> SUFFICES ASSUME Init PROVE OInv
  OBVIOUS
<1>1. DInv
  BY InitDInv
<1>2. ASSUME NEW c \in Client PROVE Ordered(c)
  <2>1. /\ got[c] = << >> /\ ready = << >> /\ commands = << >> /\ made[c] = 0
        /\ channel[c] = [items |-> << >>, done |-> FALSE, retired |-> FALSE]
        /\ streams = {}
    BY DEF Init, NewChannel
  <2>2. channel[c].items = << >> /\ ~channel[c].done /\ ~channel[c].retired
    BY <2>1
  <2>3. Filling(<< >>, 0, 0) /\ Len(<< >>) = 0
    BY DEF Filling
  <2>4. Filled(c)
    BY <2>1, <2>2, <2>3 DEF Filled
  <2>5. Numbered(c) /\ Tallied(c) /\ Quiet(c) /\ First(c)
    BY <2>1, <2>2 DEF Numbered, Opened, Tallied, Quiet, First
  <2> QED
    BY <2>4, <2>5 DEF Ordered
<1> QED
  BY <1>1, <1>2 DEF OInv

LEMMA NextOInv == OInv /\ [Next]_vars => OInv'
<1> SUFFICES ASSUME OInv, [Next]_vars PROVE OInv'
  OBVIOUS
<1>1. DInv'
  BY NextDInv DEF OInv
<1>2. ASSUME NEW c \in Client, c \notin missed' PROVE Ordered(c)'
  <2>1. CASE Start \/ BeginStop \/ JoinReturns
    BY <1>2, <2>1, StopOrdered, JoinReturnsOrdered
  <2>2. CASE RunCallback
    BY <1>2, <2>2, RunCallbackOrdered DEF RunCallback
  <2>3. CASE \E d \in Client : Submit(d) \/ Vanish(d) \/ Open(d) \/ Read(d) \/ HangUp(d)
    <3>1. PICK d \in Client : Submit(d) \/ Vanish(d) \/ Open(d) \/ Read(d) \/ HangUp(d)
      BY <2>3
    <3>2. UNCHANGED missed
      BY <3>1 DEF Submit, Vanish, Open, Read, HangUp
    <3> QED
      BY <1>2, <3>1, <3>2, SubmitOrdered, VanishOpenOrdered, ReadOrdered, HangUpOrdered
  <2>4. CASE DrainOne \/ Idle \/ Step
    <3>1. c \notin missed
      BY <1>2, <2>4 DEF DrainOne, Idle, Step
    <3> QED
      BY <2>4, <3>1, DrainOneOrdered, IdleOrdered, StepOrdered
  <2>5. CASE Drained \/ StepRaises
    BY <1>2, <2>5, StopOrdered, StepRaisesOrdered
  <2>6. CASE UNCHANGED vars
    <3>1. Ordered(c)
      BY <1>2, <2>6, OParts DEF vars
    <3>2. Quiet(c)'
      BY <2>6, <3>1 DEF vars, Ordered, Quiet, Pending
    <3> QED
      BY <1>2, <2>6, <3>2, SameOrdered DEF vars
  <2> QED
    BY <2>1, <2>2, <2>3, <2>4, <2>5, <2>6 DEF Next, Worker
<1> QED
  BY <1>1, <1>2 DEF OInv

\* The outputs that wait in a channel are its first items.
LEMMA WaitingIs ==
  ASSUME Shape, NEW c \in Client, NEW k \in Nat, Filling(channel[c].items, Len(got[c]), k)
  PROVE  Waiting(c) = 1 .. k /\ Cardinality(Waiting(c)) = k
<1>1. /\ channel[c].items \in Seq(Items) /\ Len(channel[c].items) \in Nat
      /\ DOMAIN channel[c].items = 1 .. Len(channel[c].items)
  BY OwnShape, LenProperties
<1>2. /\ k \in 0 .. Len(channel[c].items)
      /\ \A i \in 1 .. k : channel[c].items[i].kind = "output"
      /\ \A i \in k + 1 .. Len(channel[c].items) : channel[c].items[i].kind # "output"
  BY DEF Filling
<1>3. \A i \in 1 .. Len(channel[c].items) : i \in 1 .. k \/ i \in k + 1 .. Len(channel[c].items)
  BY <1>1, <1>2
<1>4. \A i \in 1 .. k : i \in 1 .. Len(channel[c].items)
  BY <1>1, <1>2
<1>5. Waiting(c) = 1 .. k
  BY <1>1, <1>2, <1>3, <1>4, Zenon DEF Waiting
<1>6. Cardinality(1 .. k) = k
  BY FS_Interval
<1> QED
  BY <1>5, <1>6

\* What a client reads is an initial part of what the engine made for it, in
\* order and without a gap, and nothing that ends its stream is ahead of an
\* output, whatever steps have raised, been cancelled or shut down in between
\* (async_engine.py, _run, _deliver, _fail_open_streams and release).
THEOREM OutputsArriveInOrder == Spec => []OutputsInOrder
<1>1. OInv => OutputsInOrder
  <2> SUFFICES ASSUME OInv, NEW c \in Client \ missed
               PROVE  LET items == channel[c].items
                          waiting == Cardinality(Waiting(c))
                      IN  /\ got[c] = [i \in 1 .. Len(got[c]) |-> i]
                          /\ Waiting(c) = 1 .. waiting
                          /\ \A i \in 1 .. waiting : items[i].n = Len(got[c]) + i
                          /\ Len(got[c]) + waiting <= made[c]
    BY DEF OutputsInOrder
  <2>1. Shape /\ Filled(c)
    BY OParts DEF Ordered
  <2>2. PICK k \in Nat :
          /\ Filling(channel[c].items, Len(got[c]), k)
          /\ Len(got[c]) + k <= made[c]
    BY <2>1 DEF Filled
  <2>3. Waiting(c) = 1 .. k /\ Cardinality(Waiting(c)) = k
    BY <2>1, <2>2, WaitingIs
  <2>4. \A i \in 1 .. k : channel[c].items[i].n = Len(got[c]) + i
    BY <2>2 DEF Filling
  <2>5. got[c] = [i \in 1 .. Len(got[c]) |-> i]
    <3>1. got[c] \in Seq(1 .. MaxTokens) /\ \A i \in DOMAIN got[c] : got[c][i] = i
      BY <2>1, OwnShape DEF Filled
    <3>2. /\ DOMAIN got[c] = 1 .. Len(got[c]) /\ got[c] = [i \in DOMAIN got[c] |-> got[c][i]]
      BY <3>1, LenProperties
    <3> QED
      BY <3>1, <3>2, Zenon
  <2> QED
    BY <2>2, <2>3, <2>4, <2>5
<1> QED
  BY <1>1, InitOInv, NextOInv, PTL DEF Spec

\* release() leaves out the cancel of a stream that is retired: by then the
\* engine has retired the request, and all of its outputs have been handed over
\* (async_engine.py, _deliver and release).
THEOREM RetiredStreamsAreDone == Spec => []RetiredIsRetired
<1>1. OInv => RetiredIsRetired
  <2> SUFFICES ASSUME OInv, NEW c \in Client, channel[c].retired
               PROVE  /\ c \notin live
                      /\ c \notin missed => Len(got[c]) + Cardinality(Waiting(c)) = made[c]
    BY DEF RetiredIsRetired
  <2>1. c \notin live
    BY OParts DEF InFlight
  <2>2. ASSUME c \notin missed PROVE Len(got[c]) + Cardinality(Waiting(c)) = made[c]
    <3>1. Shape /\ Filled(c)
      BY <2>2, OParts DEF Ordered
    <3>2. PICK k \in Nat :
            /\ Filling(channel[c].items, Len(got[c]), k)
            /\ Len(got[c]) + k = made[c]
      BY <3>1 DEF Filled
    <3> QED
      BY <3>1, <3>2, WaitingIs
  <2> QED
    BY <2>1, <2>2
<1> QED
  BY <1>1, InitOInv, NextOInv, PTL DEF Spec
==============================================================================
