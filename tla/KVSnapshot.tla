------------------------------ MODULE KVSnapshot ------------------------------
(***************************************************************************)
(* KVSnapStore (python/bwr/engine/kv_snapshot.py) on a MetalEngine: the    *)
(* KV of a request is copied to one reserved sequence slot and written to  *)
(* disk, and comes back as a new request, in the same engine or, from the  *)
(* files, in the next one.                                                 *)
(*                                                                         *)
(* The engine runs with its prefix cache off: then every slot has a KV     *)
(* stream of its own, in which a copy of a whole slot replaces what was    *)
(* there, and there is no pin that a restore could evict.  A stop sequence *)
(* remains a choice of the environment, also for a restored request.       *)
(***************************************************************************)
EXTENDS Integers, FiniteSets, SequencesExt

CONSTANTS
  NSeqMax, NCtxSeq, NBatch, Token, Eog, NoToken, Support, Prompts, Params,
  MinRetained, Faults, MaxRequests,   \* as in MetalEngine
  SnapshotSeq,   \* snapshot_seq: the reserved slot
  Names,         \* names of snapshots
  IOFaults,      \* may reading, writing or deleting a file fail?
  MaxSaves       \* bound on the saves of a behaviour

ASSUME StoreAssumption ==
  /\ NSeqMax \in Nat \ {0} /\ NCtxSeq \in Nat \ {0} /\ NBatch \in Nat \ {0}
  /\ MinRetained \in Nat \ {0} /\ MaxRequests \in Nat
  /\ \A p \in Prompts : p \in Seq(Token) /\ Len(p) \in 1 .. NCtxSeq - 1
  /\ SnapshotSeq \in 0 .. NSeqMax - 1
  /\ MaxSaves \in Nat

VARIABLES
  nextId, free, states, retired, pins, kv, todo, stranded, refused, \* MetalEngine
  snaps,    \* _snaps: name -> Snapshot
  json,     \* <name>.json: name -> Snapshot; an unreadable file is none
  bin,      \* <name>.bin: name -> [kv, save]; likewise
  saves,    \* history: number of the last save
  leaked,   \* history: slots popped for a restore that raised
  inexact,  \* history: requests restored from KV and tokens of two saves, or
            \* from a save of such a request
  tainted   \* history: saves of requests that are inexact or stranded

engine == <<nextId, free, states, retired, pins, kv, todo, stranded, refused>>
files == <<json, bin>>
vars == <<engine, snaps, files, saves, leaked, inexact, tainted>>

Engine == INSTANCE MetalEngine
            WITH MaxDrafts <- 0, Opportunistic <- FALSE, PinCap <- 0, PinMin <- 0

-----------------------------------------------------------------------------
(* Construction. *)

\* The free list of a new engine once the store has taken its slot.
Unreserved == RemoveFirst([i \in 1 .. NSeqMax |-> i - 1], SnapshotSeq)

\* A new engine with a store on it, and no files.
Init ==
  /\ nextId = 0 /\ free = Unreserved
  /\ states = << >> /\ retired = << >> /\ pins = << >>
  /\ kv = [s \in Engine!Slots |-> << >>]
  /\ todo = << >> /\ stranded = {} /\ refused = FALSE
  /\ snaps = << >> /\ json = << >> /\ bin = << >>
  /\ saves = 0 /\ leaked = {} /\ inexact = {} /\ tainted = {}

\* Mutant of FromDisk: the KV is taken for present.
FromDiskLive(snap) == snap

\* A snapshot as a new store reads it: its KV is not in this engine.
FromDisk(snap) == [snap EXCEPT !.live = FALSE]

\* The process dies or is stopped, at any point; the next store hydrates.
Restart ==
  /\ nextId' = 0 /\ free' = Unreserved
  /\ states' = << >> /\ retired' = << >> /\ pins' = << >>
  /\ kv' = [s \in Engine!Slots |-> << >>]
  /\ todo' = << >> /\ stranded' = {} /\ refused' = FALSE
  /\ snaps' = [name \in DOMAIN json |-> FromDisk(json[name])]
  /\ leaked' = {} /\ inexact' = {}
  /\ UNCHANGED <<files, saves, tainted>>

-----------------------------------------------------------------------------
(* Files. *)

With(f, name, content) == [n \in DOMAIN f \cup {name} |-> IF n = name THEN content ELSE f[n]]
Without(f, names) == Restrict(f, DOMAIN f \ names)

\* What a write of name may leave: the content; if it fails, what was there, or
\* a truncated file.
Written(f, name, content) ==
  {With(f, name, content)} \cup (IF IOFaults THEN {f, Without(f, {name})} ELSE {})

\* What unlinking names may leave: of each file, if it fails, the file.
Unlinked(f, names) ==
  IF IOFaults THEN {Without(f, gone) : gone \in SUBSET names} ELSE {Without(f, names)}

-----------------------------------------------------------------------------
(* save, delete, clear. *)

\* Mutant of Copied: cells behind the prompt are not copied.
CopiedPrompt(r) == SubSeq(kv[states[r].slot], 1, states[r].nPrefilled)

\* memory_seq_cp of the whole slot of request r.
Copied(r) == kv[states[r].slot]

Snapshot(r, save) ==
  [prompt |-> states[r].prompt, params |-> states[r].params, out |-> states[r].out,
   nPos |-> states[r].nPos, nPrefilled |-> states[r].nPrefilled, next |-> states[r].next,
   live |-> TRUE, save |-> save]

\* save, of a request in flight: the slot's copy and the two files are those of
\* every earlier save as well.
Save(name, r) ==
  /\ Engine!Idle
  /\ saves < MaxSaves
  /\ states[r].slot # SnapshotSeq
  /\ saves' = saves + 1
  /\ kv' = [kv EXCEPT ![SnapshotSeq] = Copied(r)]
  /\ snaps' = With(snaps, name, Snapshot(r, saves'))
  /\ json' \in Written(json, name, Snapshot(r, saves'))
  /\ bin' \in Written(bin, name, [kv |-> kv[states[r].slot], save |-> saves'])
  /\ tainted' = IF r \in inexact \cup stranded THEN tainted \cup {saves'} ELSE tainted
  /\ UNCHANGED <<nextId, free, states, retired, pins, todo, stranded, refused, leaked, inexact>>

\* delete and clear: failures to unlink are ignored.
Forget(names) ==
  /\ Engine!Idle
  /\ snaps' = Without(snaps, names)
  /\ json' \in Unlinked(json, names)
  /\ bin' \in Unlinked(bin, names)
  /\ UNCHANGED <<engine, saves, leaked, inexact, tainted>>

-----------------------------------------------------------------------------
(* load. *)

Known(name) == name \in DOMAIN snaps \cup DOMAIN json

\* The snapshot of name, read from disk if the store does not have it.
Found(name) == IF name \in DOMAIN snaps THEN snaps[name] ELSE FromDisk(json[name])

\* Mutants of Restored: the output is left behind, or the pending token is
\* counted as decoded.
RestoredSilent(slot, snap) ==
  [slot |-> slot, prompt |-> snap.prompt, params |-> snap.params,
   nPrefilled |-> snap.nPrefilled, nPos |-> snap.nPos,
   next |-> snap.next, out |-> << >>]
RestoredAhead(slot, snap) ==
  [slot |-> slot, prompt |-> snap.prompt, params |-> snap.params,
   nPrefilled |-> snap.nPrefilled, nPos |-> Len(snap.prompt) + Len(snap.out),
   next |-> snap.next, out |-> snap.out]

\* The rehydrated RequestState.
Restored(slot, snap) ==
  [slot |-> slot, prompt |-> snap.prompt, params |-> snap.params,
   nPrefilled |-> snap.nPrefilled, nPos |-> snap.nPos,
   next |-> snap.next, out |-> snap.out]

\* Mutants of Registered: the id is used again, or the slot stays in the list.
RegisteredAgain(slots, state, cells) ==
  /\ nextId' = nextId
  /\ free' = Tail(slots)
  /\ states' = With(states, nextId, state)
  /\ kv' = [kv EXCEPT ![Head(slots)] = cells]
RegisteredUnpopped(slots, state, cells) ==
  /\ nextId' = nextId + 1
  /\ free' = slots
  /\ states' = With(states, nextId, state)
  /\ kv' = [kv EXCEPT ![Head(slots)] = cells]

\* A new request on the first of slots, the free list, whose KV becomes cells.
Registered(slots, state, cells) ==
  /\ nextId' = nextId + 1
  /\ free' = Tail(slots)
  /\ states' = With(states, nextId, state)
  /\ kv' = [kv EXCEPT ![Head(slots)] = cells]

\* inexact after a restore from tokens of save x and KV of save y.
Blamed(x, y) == IF x = y /\ x \notin tainted THEN inexact ELSE inexact \cup {nextId}

\* From the reserved slot.
LoadLive(snap) ==
  /\ snap.live
  /\ Registered(free, Restored(Head(free), snap), kv[SnapshotSeq])
  /\ inexact' = Blamed(snap.save, saves)
  /\ UNCHANGED leaked

\* From the file of the KV.
LoadBinary(name, snap) ==
  /\ ~snap.live
  /\ name \in DOMAIN bin
  /\ Registered(free, Restored(Head(free), snap), bin[name].kv)
  /\ inexact' = Blamed(snap.save, bin[name].save)
  /\ UNCHANGED leaked

\* add_request of the prompt with the free list slots: the output is dropped.
Prefilled(snap, slots) ==
  Registered(slots, Engine!Registered(Head(slots), snap.prompt, snap.params, 0), << >>)

\* No readable file of the KV.
LoadPrompt(name, snap) ==
  /\ ~snap.live
  /\ name \notin DOMAIN bin
  /\ Prefilled(snap, free)
  /\ UNCHANGED <<leaked, inexact>>

\* Reading the file raises: the slot popped for it is not put back.
LoadLeaks(name, snap) ==
  /\ IOFaults
  /\ ~snap.live
  /\ name \in DOMAIN bin
  /\ leaked' = leaked \cup {Head(free)}
  /\ \/ Tail(free) # << >> /\ Prefilled(snap, Tail(free))
     \/ Tail(free) = << >> /\ free' = << >> /\ UNCHANGED <<nextId, states, kv>>
  /\ UNCHANGED inexact

Load(name) ==
  /\ Engine!Idle
  /\ nextId < MaxRequests
  /\ Known(name)                    \* else KeyError
  /\ free # << >>                   \* else SeqIdExhausted
  /\ LET snap == Found(name)
     IN  /\ snaps' = With(snaps, name, snap)
         /\ \/ LoadLive(snap) \/ LoadBinary(name, snap)
            \/ LoadPrompt(name, snap) \/ LoadLeaks(name, snap)
  /\ UNCHANGED <<retired, pins, todo, stranded, refused, files, saves, tainted>>

EngineStep == Engine!Next /\ UNCHANGED <<snaps, files, saves, leaked, inexact, tainted>>

Next ==
  \/ EngineStep
  \/ \E name \in Names, r \in DOMAIN states : Save(name, r)
  \/ \E names \in {{name} : name \in Names} \cup {Names} : Forget(names)
  \/ \E name \in Names : Load(name)
  \/ Restart

Spec == Init /\ [][Next]_vars

-----------------------------------------------------------------------------
(* Properties. *)

Snapshots ==
  [prompt : Prompts, params : Params, out : Seq(Token), nPos : Nat, nPrefilled : Nat,
   next : Token \cup {NoToken}, live : BOOLEAN, save : 1 .. saves]

\* Shapes.
TypeOK ==
  /\ Engine!TypeOK
  /\ DOMAIN snaps \subseteq Names /\ snaps \in [DOMAIN snaps -> Snapshots]
  /\ DOMAIN json \subseteq Names /\ json \in [DOMAIN json -> Snapshots]
  /\ DOMAIN bin \subseteq Names
  /\ saves \in 0 .. MaxSaves
  /\ leaked \subseteq Engine!Slots
  /\ inexact \subseteq 0 .. nextId - 1
  /\ tainted \subseteq 1 .. saves

\* Restores, failed ones too, deal in the engine's slots without using one
\* twice or losing one, but for the slots of restores whose read raised; the
\* reserved slot is never given to a request (kv_snapshot.py:62).
SlotsConserved ==
  LET places == <<Engine!FreeSlots, Engine!BusySlots, leaked, {SnapshotSeq}>>
  IN  /\ IsInjective(free)
      /\ \A q, r \in DOMAIN states : states[q].slot = states[r].slot => q = r
      /\ \A i, j \in DOMAIN places : i # j => places[i] \cap places[j] = {}
      /\ UNION Range(places) = Engine!Slots

\* snap's n_pos cells.
Cells(snap) == SubSeq(snap.prompt \o snap.out, 1, snap.nPos)

\* The reserved slot holds the KV of the last save whatever the engine serves,
\* retires or restores since, and a KV file that of the save it was written by
\* (kv_snapshot.py:100).
SnapshotsHoldTheirText ==
  /\ \A n \in DOMAIN snaps :
       snaps[n].live /\ snaps[n].save = saves /\ saves \notin tainted
         => kv[SnapshotSeq] = Cells(snaps[n])
  /\ \A n \in DOMAIN json \cap DOMAIN bin :
       json[n].save = bin[n].save /\ json[n].save \notin tainted
         => bin[n].kv = Cells(json[n])

\* The engine in which requests restored from two saves count as stranded.
Exact == INSTANCE MetalEngine
           WITH MaxDrafts <- 0, Opportunistic <- FALSE, PinCap <- 0, PinMin <- 0,
                stranded <- stranded \cup inexact

\* A restored request goes on as the saved one would have: its KV is its text
\* (kv_snapshot.py:280) ...
RestoredKvIsItsText == Exact!KvMatchesRequest

\* ... and what it says after that follows from its prompt and all its output,
\* over any number of saves, restores and restarts.
RestoredOutputFollows == Exact!OutputFollowsContext

\* llama_decode takes the rows of request r: they begin where its KV ends, and
\* there is a cell.
Decodable(r) ==
  states[r].nPos = Len(kv[states[r].slot]) /\ states[r].nPos < NCtxSeq

\* A restore from one save is never why llama_decode refuses a batch, of which all
\* requests of the step are part: every request is decodable but for those restored
\* from KV and tokens of two saves and the stranded ones, whatever becomes of these,
\* and when a batch is refused for the first time one of these had rows in it.
RestoresAreDecodable ==
  /\ [](Engine!Idle => \A r \in DOMAIN states \ (stranded \cup inexact) : Decodable(r))
  /\ [][refused' /\ ~refused =>
          \E r \in DOMAIN states \cap (stranded \cup inexact) :
            (Engine!Prefilling(r) \/ Engine!Generating(r)) /\ ~Decodable(r)]_vars
==============================================================================
