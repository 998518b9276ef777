----------------------------- MODULE AsyncEngine -----------------------------
(***************************************************************************)
(* AsyncEngine (python/bwr/engine/async_engine.py): the worker thread that *)
(* owns the engine, the command queue into it, the callbacks it posts to   *)
(* the event loop, the per-request channels on the loop, and the request   *)
(* handlers of the server that submit, stream and release.                 *)
(*                                                                         *)
(* Three threads take steps: the loop (handlers and callbacks), the worker *)
(* and the executor thread that joins the worker.  A client submits one    *)
(* request and is its id.  The engine is MetalEngine seen from its caller: *)
(* a set of requests in flight, a step that returns at most one output for *)
(* each or raises, and the requests that a raising step left in flight     *)
(* without a row to advance (MetalEngine's stranded).                      *)
(***************************************************************************)
EXTENDS Integers, FiniteSets, SequencesExt

CONSTANTS
  Client,       \* clients, each with one request
  Slots,        \* sequence slots of the engine
  MaxTokens,    \* cap on the outputs of a request
  MaxFaults,    \* bound on the steps that raise
  JoinTimesOut  \* may join(10.0) return while the worker is inside a step?

ASSUME AsyncAssumption ==
  /\ Slots \in Nat \ {0}
  /\ MaxTokens \in Nat \ {0}
  /\ MaxFaults \in Nat
  /\ JoinTimesOut \in BOOLEAN

VARIABLES
  handler,   \* what each client's handler is doing
  got,       \* the outputs it has read so far, by number
  streams,   \* keys of _streams
  channel,   \* the _Stream object of each handler: queue, done, retired
  ready,     \* callbacks queued on the loop, first in first out
  commands,  \* _commands
  worker,    \* where the worker thread is in _run
  stopping,  \* the _stopping event
  lifecycle, \* start() and stop(): where they are
  live,      \* the engine's requests in flight
  stuck,     \* those of them that no step will advance
  made,      \* outputs the engine has produced for each request
  faults,    \* bound: steps that have raised
  missed     \* history: admitted, but not yet in _streams when a step raised; and
             \* everybody, once a join has timed out

loopVars == <<handler, got, streams, channel>>
engineVars == <<live, stuck, made>>
vars == <<handler, got, streams, channel, ready, commands, worker, stopping,
          lifecycle, live, stuck, made, faults, missed>>

-----------------------------------------------------------------------------
(* Items of a channel, callbacks and commands. *)

Output(n, fin) == [kind |-> "output", n |-> n, fin |-> fin]
End == [kind |-> "end", n |-> 0, fin |-> FALSE]
Failure == [kind |-> "error", n |-> 0, fin |-> FALSE]

Callback(fn, c) == [fn |-> fn, c |-> c]
Delivery(c, n, fin) == [fn |-> "deliver", c |-> c, n |-> n, fin |-> fin]
Joined == [fn |-> "joined"]

Submission(c) == [kind |-> "submit", c |-> c]
Cancellation(c) == [kind |-> "cancel", c |-> c]
Stop == [kind |-> "none"]

NewChannel == [items |-> << >>, done |-> FALSE, retired |-> FALSE]

Init ==
  /\ handler = [c \in Client |-> "new"]
  /\ got = [c \in Client |-> << >>]
  /\ streams = {}
  /\ channel = [c \in Client |-> NewChannel]
  /\ ready = << >>
  /\ commands = << >>
  /\ worker = "off"
  /\ stopping = FALSE
  /\ lifecycle = "created"
  /\ live = {}
  /\ stuck = {}
  /\ made = [c \in Client |-> 0]
  /\ faults = 0
  /\ missed = {}

-----------------------------------------------------------------------------
(* Lifecycle. *)

Start ==
  /\ lifecycle = "created"
  /\ lifecycle' = "started"
  /\ worker' = "drain"
  /\ UNCHANGED <<loopVars, ready, commands, stopping, engineVars, faults, missed>>

\* stop() up to its await: the event, then the sentinel.
BeginStop ==
  /\ lifecycle = "started"
  /\ lifecycle' = "joining"
  /\ stopping' = TRUE
  /\ commands' = Append(commands, Stop)
  /\ UNCHANGED <<loopVars, ready, worker, engineVars, faults, missed>>

\* The executor thread hands the end of join back to the loop: the worker has
\* returned, or ten seconds are over and stop() goes on regardless.
JoinReturns ==
  /\ lifecycle = "joining"
  /\ \/ worker = "off" /\ UNCHANGED missed
     \/ JoinTimesOut /\ worker # "off" /\ missed' = Client
  /\ lifecycle' = "joined"
  /\ ready' = Append(ready, Joined)
  /\ UNCHANGED <<loopVars, commands, worker, stopping, engineVars, faults>>

-----------------------------------------------------------------------------
(* Callbacks: the only code that writes to a channel. *)

\* Mutant of Put: an output after the channel was failed or closed.
PutLate(c, items, retired) ==
  channel' = IF c \in streams
             THEN [channel EXCEPT ![c].items = @ \o items,
                                  ![c].done = @ \/ Last(items) = End,
                                  ![c].retired = @ \/ retired]
             ELSE channel

\* A callback puts items on an open channel, the last of them perhaps the end.
Put(c, items, retired) ==
  channel' = IF c \in streams /\ ~channel[c].done
             THEN [channel EXCEPT ![c].items = @ \o items,
                                  ![c].done = Last(items) = End,
                                  ![c].retired = retired]
             ELSE channel

\* What _deliver puts behind an output.
Ended(fin) == IF fin THEN <<End>> ELSE << >>

RegisterStream(c) ==
  /\ streams' = streams \cup {c}
  /\ UNCHANGED <<channel, handler, got>>

Deliver(b) ==
  /\ Put(b.c, <<Output(b.n, b.fin)>> \o Ended(b.fin), b.fin)
  /\ UNCHANGED <<streams, handler, got>>

\* Mutant of DeliverError: a failed request is taken for a retired one.
DeliverErrorRetired(c) ==
  /\ Put(c, <<Failure, End>>, TRUE)
  /\ UNCHANGED <<streams, handler, got>>

DeliverError(c) ==
  /\ Put(c, <<Failure, End>>, FALSE)
  /\ UNCHANGED <<streams, handler, got>>

CloseStream(c) ==
  /\ Put(c, <<End>>, FALSE)
  /\ UNCHANGED <<streams, handler, got>>

\* _resolve: the submit future, unless its handler is gone.
Resolve(c, answer) ==
  /\ handler' = IF handler[c] = "waiting" THEN [handler EXCEPT ![c] = answer]
                ELSE handler
  /\ UNCHANGED <<got, streams, channel>>

\* Mutant of FinishStop: the open streams are forgotten without an end.
FinishStopSilently ==
  /\ channel' = channel
  /\ streams' = {}
  /\ UNCHANGED <<handler, got>>

\* stop() after its await.
FinishStop ==
  /\ channel' = [c \in Client |->
                   IF c \in streams /\ ~channel[c].done
                   THEN [channel[c] EXCEPT !.items = Append(@, End), !.done = TRUE]
                   ELSE channel[c]]
  /\ streams' = {}
  /\ UNCHANGED <<handler, got>>

RunCallback ==
  /\ ready # << >>
  /\ LET b == Head(ready)
     IN  \/ b.fn = "register" /\ RegisterStream(b.c)
         \/ b.fn = "deliver" /\ Deliver(b)
         \/ b.fn = "fail" /\ DeliverError(b.c)
         \/ b.fn = "close" /\ CloseStream(b.c)
         \/ b.fn = "id" /\ Resolve(b.c, "answered")
         \/ b.fn = "refused" /\ Resolve(b.c, "over")
         \/ b.fn = "joined" /\ FinishStop
  /\ ready' = Tail(ready)
  /\ lifecycle' = IF Head(ready) = Joined THEN "closed" ELSE lifecycle
  /\ UNCHANGED <<commands, worker, stopping, engineVars, faults, missed>>

-----------------------------------------------------------------------------
(* Handlers: submit, stream, release. *)

\* submit() up to its await; _check_worker refuses when no thread is running.
Submit(c) ==
  /\ handler[c] = "new"
  /\ IF lifecycle = "started"
     THEN /\ handler' = [handler EXCEPT ![c] = "waiting"]
          /\ commands' = Append(commands, Submission(c))
     ELSE /\ handler' = [handler EXCEPT ![c] = "over"]
          /\ UNCHANGED commands
  /\ UNCHANGED <<got, streams, channel, ready, worker, stopping, lifecycle,
                 engineVars, faults, missed>>

\* The handler is killed before it can release anything: while it awaits the
\* submit future, or before the response's generator is first resumed.
Vanish(c) ==
  /\ handler[c] \in {"waiting", "answered"}
  /\ handler' = [handler EXCEPT ![c] = "gone"]
  /\ UNCHANGED <<got, streams, channel, ready, commands, worker, stopping,
                 lifecycle, engineVars, faults, missed>>

\* stream() finds the channel, or raises KeyError (after stop() has cleared).
Open(c) ==
  /\ handler[c] = "answered"
  /\ handler' = [handler EXCEPT ![c] = IF c \in streams THEN "streaming" ELSE "over"]
  /\ UNCHANGED <<got, streams, channel, ready, commands, worker, stopping,
                 lifecycle, engineVars, faults, missed>>

\* Mutant of Release: a stream that has failed is taken for a retired one.
ReleaseDone(c, posted) ==
  /\ handler' = [handler EXCEPT ![c] = "over"]
  /\ got' = [got EXCEPT ![c] = << >>]
  /\ streams' = streams \ {c}
  /\ channel' = [channel EXCEPT ![c] = NewChannel]
  /\ commands' = commands \o posted
       \o IF c \in streams /\ ~channel[c].done THEN <<Cancellation(c)>> ELSE << >>

\* release() from a finally block, after the commands that were posted first;
\* with the handler its channel and what it has read are gone.
Release(c, posted) ==
  /\ handler' = [handler EXCEPT ![c] = "over"]
  /\ got' = [got EXCEPT ![c] = << >>]
  /\ streams' = streams \ {c}
  /\ channel' = [channel EXCEPT ![c] = NewChannel]
  /\ commands' = commands \o posted
       \o IF c \in streams /\ ~channel[c].retired THEN <<Cancellation(c)>> ELSE << >>

\* stream() yields, returns at the end or raises the error it was sent.
Read(c) ==
  /\ handler[c] = "streaming"
  /\ channel[c].items # << >>
  /\ LET item == Head(channel[c].items)
     IN  IF item.kind = "output" /\ ~item.fin
         THEN /\ channel' = [channel EXCEPT ![c].items = Tail(@)]
              /\ got' = [got EXCEPT ![c] = Append(@, item.n)]
              /\ UNCHANGED <<handler, streams, commands>>
         ELSE Release(c, << >>)
  /\ UNCHANGED <<ready, worker, stopping, lifecycle, engineVars, faults, missed>>

\* The handler ends early: a stop sequence or CancelledError, or the client has
\* disconnected and the handler cancels before it returns.
HangUp(c) ==
  /\ handler[c] = "streaming"
  /\ Release(c, << >>) \/ Release(c, <<Cancellation(c)>>)
  /\ UNCHANGED <<ready, worker, stopping, lifecycle, engineVars, faults, missed>>

-----------------------------------------------------------------------------
(* The worker: _run, and the engine calls it makes. *)

\* Mutant of Refuse: the exception of add_request is swallowed.
RefuseSilently(c) == UNCHANGED <<ready, engineVars>>

\* _apply of a submit that add_request rejects.
Refuse(c) ==
  /\ ready' = Append(ready, Callback("refused", c))
  /\ UNCHANGED engineVars

\* Mutant of Admit: the future is resolved before the stream is registered.
AdmitUnregistered(c) ==
  /\ Cardinality(live) < Slots
  /\ live' = live \cup {c}
  /\ ready' = ready \o <<Callback("id", c), Callback("register", c)>>
  /\ UNCHANGED <<stuck, made>>

\* _apply of a submit: the stream is registered before the future is resolved.
Admit(c) ==
  /\ Cardinality(live) < Slots
  /\ live' = live \cup {c}
  /\ ready' = ready \o <<Callback("register", c), Callback("id", c)>>
  /\ UNCHANGED <<stuck, made>>

\* _apply of a cancel: one of an unknown or finished request is tolerated.
CancelRequest(c) ==
  /\ live' = live \ {c}
  /\ stuck' = stuck \ {c}
  /\ ready' = Append(ready, Callback("close", c))
  /\ UNCHANGED made

Apply(cmd) ==
  \/ cmd.kind = "submit" /\ (Admit(cmd.c) \/ Refuse(cmd.c))
  \/ cmd.kind = "cancel" /\ CancelRequest(cmd.c)

\* The head of the loop, reached with the end of a step or of an idle wait.
LoopHead == worker' = IF stopping THEN "off" ELSE "drain"

\* _drain_commands takes one command.
DrainOne ==
  /\ worker = "drain"
  /\ commands # << >>
  /\ commands' = Tail(commands)
  /\ IF Head(commands) = Stop
     THEN worker' = "off" /\ stopping' = TRUE /\ UNCHANGED <<ready, engineVars>>
     ELSE Apply(Head(commands)) /\ UNCHANGED <<worker, stopping>>
  /\ UNCHANGED <<loopVars, lifecycle, faults, missed>>

\* _drain_commands finds the queue empty.
Drained ==
  /\ worker = "drain"
  /\ commands = << >>
  /\ worker' = IF stopping THEN "off" ELSE IF live = {} THEN "idle" ELSE "step"
  /\ UNCHANGED <<loopVars, ready, commands, stopping, lifecycle, engineVars,
                 faults, missed>>

\* The blocking get, with its timeout.
Idle ==
  /\ worker = "idle"
  /\ IF commands = << >>
     THEN LoopHead /\ UNCHANGED <<ready, commands, engineVars>>
     ELSE /\ commands' = Tail(commands)
          /\ IF Head(commands) = Stop
             THEN worker' = "off" /\ UNCHANGED <<ready, engineVars>>
             ELSE LoopHead /\ Apply(Head(commands))
  /\ UNCHANGED <<loopVars, stopping, lifecycle, faults, missed>>

\* Mutant of Advanced: the cap is checked before the output is counted.
AdvancedPastCap(moved, ended) ==
  /\ ended \subseteq moved
  /\ \A c \in moved : made[c] >= MaxTokens => c \in ended
  /\ made' = [c \in Client |-> IF c \in moved THEN made[c] + 1 ELSE made[c]]

\* The engine advances the requests in moved and retires those in ended.
Advanced(moved, ended) ==
  /\ ended \subseteq moved
  /\ \A c \in moved : made[c] + 1 >= MaxTokens => c \in ended
  /\ made' = [c \in Client |-> IF c \in moved THEN made[c] + 1 ELSE made[c]]

\* step() returns, and every output is dispatched.
Step ==
  /\ worker = "step"
  /\ \E moved \in SUBSET (live \ stuck) : \E ended \in SUBSET moved :
       /\ moved = {} => live \subseteq stuck
       /\ Advanced(moved, ended)
       /\ live' = live \ ended
       /\ ready' = ready \o [i \in 1 .. Cardinality(moved) |->
                               LET c == SetToSeq(moved)[i]
                               IN  Delivery(c, made[c] + 1, c \in ended)]
  /\ LoopHead
  /\ UNCHANGED <<loopVars, commands, stopping, lifecycle, stuck, faults, missed>>

\* Mutant of ReportFailure: the error is logged and nobody is told.
ReportNothing ==
  /\ ready' = ready
  /\ missed' = missed \cup (live \ streams)

\* _fail_open_streams: an error for every stream that is registered by now.
ReportFailure ==
  /\ ready' = ready \o [i \in 1 .. Cardinality(streams) |->
                          Callback("fail", SetToSeq(streams)[i])]
  /\ missed' = missed \cup (live \ streams)

\* step() raises and its outputs are lost: the batch was refused and no request
\* has moved; or a row raised and its request is retired; or the draft of a row
\* that goes on could not be synced.  The rows behind are stranded, and a prompt
\* that was to give its first output is never planned again.
StepRaises ==
  /\ worker = "step"
  /\ faults < MaxFaults
  /\ \/ UNCHANGED engineVars
     \/ \E bad \in {{}} \cup {{c} : c \in live \ stuck}, moved \in SUBSET (live \ stuck) :
          /\ bad \cap moved = {}
          /\ \E ended \in SUBSET moved :
               /\ bad = {} => ended # moved
               /\ Advanced(moved, ended)
               /\ live' = live \ (ended \cup bad)
               /\ \E skipped \in SUBSET {c \in live \ (moved \cup bad) : made[c] = 0} :
                    stuck' = stuck \cup skipped
  /\ ReportFailure
  /\ faults' = faults + 1
  /\ LoopHead
  /\ UNCHANGED <<loopVars, commands, stopping, lifecycle>>

Worker == DrainOne \/ Drained \/ Idle \/ Step \/ StepRaises

Next ==
  \/ Start \/ BeginStop \/ JoinReturns
  \/ RunCallback
  \/ \E c \in Client : Submit(c) \/ Vanish(c) \/ Open(c) \/ Read(c) \/ HangUp(c)
  \/ Worker

Spec == Init /\ [][Next]_vars

\* The loop runs its callbacks and resumes the handlers that can go on, the
\* worker thread is scheduled, and join returns.
FairSpec ==
  /\ Spec
  /\ WF_vars(RunCallback)
  /\ WF_vars(Worker)
  /\ WF_vars(JoinReturns)
  /\ \A c \in Client : WF_vars(Open(c)) /\ WF_vars(Read(c))

-----------------------------------------------------------------------------
(* Properties. *)

Item == [kind : {"output", "end", "error"}, n : 0 .. MaxTokens, fin : BOOLEAN]

\* The shape of the bridge's state.
TypeOK ==
  /\ handler \in [Client -> {"new", "waiting", "answered", "streaming", "over",
                             "gone"}]
  /\ got \in [Client -> Seq(1 .. MaxTokens)]
  /\ streams \subseteq Client
  /\ channel \in [Client -> [items : Seq(Item), done : BOOLEAN, retired : BOOLEAN]]
  /\ \A i \in DOMAIN ready : ready[i] = Joined \/ ready[i].c \in Client
  /\ \A i \in DOMAIN commands : commands[i] = Stop \/ commands[i].c \in Client
  /\ worker \in {"off", "drain", "idle", "step"}
  /\ stopping \in BOOLEAN
  /\ lifecycle \in {"created", "started", "joining", "joined", "closed"}
  /\ live \subseteq Client
  /\ stuck \subseteq live
  /\ made \in [Client -> 0 .. MaxTokens]
  /\ faults \in 0 .. MaxFaults
  /\ missed \subseteq Client

\* The places of the outputs that wait in c's channel.
Waiting(c) ==
  {i \in DOMAIN channel[c].items : channel[c].items[i].kind = "output"}

\* What a client reads is an initial part of what the engine made for it, in
\* order and without a gap, whatever steps have raised in between, and nothing
\* that ends its stream is ahead of an output.
OutputsInOrder ==
  \A c \in Client \ missed :
    LET items == channel[c].items
        waiting == Cardinality(Waiting(c))
    IN  /\ got[c] = [i \in 1 .. Len(got[c]) |-> i]
        /\ Waiting(c) = 1 .. waiting
        /\ \A i \in 1 .. waiting : items[i].n = Len(got[c]) + i
        /\ Len(got[c]) + waiting <= made[c]

\* retired is set only when the engine has retired the request itself and all
\* of its outputs are in the channel: then, and only then, release() may leave
\* out the cancel (async_engine.py:50-53).
RetiredIsRetired ==
  \A c \in Client :
    channel[c].retired =>
      /\ c \notin live
      /\ c \notin missed => Len(got[c]) + Cardinality(Waiting(c)) = made[c]

\* Some thread still owes the handler of c an item.
Owed(c) ==
  \/ channel[c].items # << >>
  \/ \E i \in DOMAIN ready :
       \/ ready[i] = Joined
       \/ ready[i].fn \in {"deliver", "fail", "close"} /\ ready[i].c = c
  \/ c \in live \ stuck /\ worker # "off"
  \/ lifecycle = "joining"

\* A handler that awaits its stream is not waiting for nothing: not after an
\* error, a cancel or a stop (async_engine.py:89).
NobodyWaitsForNothing ==
  \A c \in Client \ missed : handler[c] = "streaming" => Owed(c)

\* Failures are reported to whichever requests are open (async_engine.py:175):
\* the same, for requests that were admitted but not yet registered as well.
OpenRequestsAreTold ==
  \A c \in Client : handler[c] = "streaming" => Owed(c)

\* A request that is in flight has a handler that will reach its release(), or
\* its cancel is on its way, or the server stops, or its handler was killed where
\* no finally block runs (app.py:320): nothing else lets go of a slot's request.
SlotsHaveOwners ==
  \A c \in live :
    \/ handler[c] \in {"waiting", "answered", "streaming"}
    \/ \E i \in DOMAIN commands : commands[i] = Cancellation(c)
    \/ stopping
    \/ handler[c] = "gone"

\* A submit is answered unless the server is stopping.
SubmitsAreAnswered ==
  \A c \in Client : handler[c] = "waiting" ~> handler[c] # "waiting" \/ stopping

\* A stream that a handler consumes comes to its end, also when steps raise,
\* peers are cancelled or the server stops.
StreamsEnd ==
  \A c \in Client : handler[c] = "streaming" ~> handler[c] # "streaming" \/ c \in missed

\* The slot of a request comes back: when it ends, when its client hangs up and
\* when its row was skipped.  But for one case: a request whose row was skipped
\* keeps its slot if nobody is told of it, its handler gone or its registration
\* still under way when the step raised.
SlotsComeBack ==
  \A c \in Client :
    c \in live ~>
      \/ c \notin live
      \/ stopping
      \/ c \in stuck /\ (handler[c] = "gone" \/ c \in missed)
==============================================================================
