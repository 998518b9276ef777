----------------------------- MODULE MetalEngine -----------------------------
(***************************************************************************)
(* MetalEngine (python/bwr/engine/metal_engine.py) with its FCFSPolicy     *)
(* (batching.py): admission of requests onto sequence slots, the pinned    *)
(* prefix slots, one batched llama_decode per step, speculative drafts and *)
(* their verification, and retirement.                                     *)
(*                                                                         *)
(* A slot's KV memory is the sequence of tokens decoded into it, so that a *)
(* sampled token can be required to follow from exactly the tokens its     *)
(* logits row was conditioned on.  A step of the engine is one Decode and  *)
(* then one Advance (or AdvanceFails) for every row with logits; nothing   *)
(* else is enabled while rows are left, since the worker thread is inside  *)
(* step().                                                                 *)
(***************************************************************************)
EXTENDS Integers, FiniteSets, SequencesExt

CONSTANTS
  NSeqMax,      \* sequence slots of the context (ctx.n_seq_max)
  NCtxSeq,      \* KV cells of one slot (ctx.n_ctx_seq)
  NBatch,       \* rows of one batch (ctx.n_batch)
  Token,        \* the vocabulary
  Eog,          \* the end-of-generation token
  NoToken,      \* next_token is None
  Support,      \* Support[c]: the tokens the sampler may draw after context c
  Prompts,      \* token lists that clients submit
  Params,       \* [maxTokens, stop, greedy] records that clients submit
  MaxDrafts,    \* spec_max_drafts, or draft_max_drafts; 0: no speculation
  Opportunistic,\* speculative_opportunistic
  PinCap,       \* prefix_cache_pins; 0: prefix cache inactive
  PinMin,       \* prefix_cache_min_tokens
  MinRetained,  \* MIN_RETAINED_FINISHED
  Faults,       \* may sampling a row, or preparing a draft stream, raise?
  MaxRequests   \* bound on the requests of a behaviour

Slots == 0 .. NSeqMax - 1

\* Contexts a logits row can be conditioned on.
Contexts == UNION {[1 .. n -> Token] : n \in 1 .. NCtxSeq}

ASSUME GeometryAssumption ==
  /\ NSeqMax \in Nat \ {0}
  /\ NCtxSeq \in Nat \ {0}
  /\ NBatch \in Nat \ {0}
  /\ MaxDrafts \in Nat
  /\ PinCap \in Nat
  /\ PinMin \in Nat
  /\ MinRetained \in Nat \ {0}
  /\ MaxRequests \in Nat

ASSUME VocabularyAssumption ==
  /\ Eog \in Token
  /\ NoToken \notin Token
  /\ Support \in [Contexts -> SUBSET Token]
  /\ \A c \in Contexts : Support[c] # {}

\* What add_request accepts (lines 317-336): the rejected rest changes nothing.
ASSUME RequestAssumption ==
  /\ \A p \in Prompts : p \in Seq(Token) /\ Len(p) \in 1 .. NCtxSeq - 1
  /\ Params \subseteq
       [maxTokens : Nat \ {0}, stop : BOOLEAN, greedy : BOOLEAN]

VARIABLES
  nextId,    \* _next_request_id
  free,      \* _free_seq_ids, taken at the head, returned at the tail
  states,    \* _states: request id -> RequestState, in flight only
  retired,   \* _retired: the last finished requests, newest last
  pins,      \* _pins in LRU order: [key: prompt, slot: sequence slot]
  kv,        \* the KV memory: slot -> tokens at positions 0, 1, ...
  todo,      \* rows of this step with logits, not yet advanced: id -> drafts
  stranded,  \* history: requests whose row was skipped, an earlier one raising
  refused    \* history: llama_decode has refused a batch

vars == <<nextId, free, states, retired, pins, kv, todo, stranded, refused>>

-----------------------------------------------------------------------------
(* Helpers. *)

Least(a, b) == IF a <= b THEN a ELSE b
Most(a, b) == IF a >= b THEN a ELSE b

\* Function f without r in its domain.
Minus(f, r) == Restrict(f, DOMAIN f \ {r})

\* Length of the longest common prefix, as _find_pin counts it.
Shared(key, prompt) ==
  Max({n \in 0 .. Least(Len(key), Len(prompt)) :
         \A i \in 1 .. n : key[i] = prompt[i]})

RetiredLimit == Most(NSeqMax, MinRetained)

Idle == DOMAIN todo = {}

\* Mutant of Prefilling: nothing remaining still counts as prefilling.
PrefillingForever(r) == states[r].nPrefilled <= Len(states[r].prompt)

\* RequestState.is_prefilling and .is_generating
Prefilling(r) == states[r].nPrefilled < Len(states[r].prompt)
Generating(r) == ~Prefilling(r) /\ states[r].next # NoToken

FreeSlots == Range(free)
PinSlots == {pins[i].slot : i \in DOMAIN pins}
BusySlots == {states[r].slot : r \in DOMAIN states}

Init ==
  /\ nextId = 0
  /\ free = [i \in 1 .. NSeqMax |-> i - 1]
  /\ states = << >>
  /\ retired = << >>
  /\ pins = << >>
  /\ kv = [s \in Slots |-> << >>]
  /\ todo = << >>
  /\ stranded = {}
  /\ refused = FALSE

-----------------------------------------------------------------------------
(* The prefix cache. *)

\* Pins long enough to be worth a fork for prompt.
Candidates(prompt) ==
  {i \in DOMAIN pins : Shared(pins[i].key, prompt) - 1 >= PinMin}

\* _find_pin: the longest, and among equals the least recently used; 0: none.
FindPin(prompt) ==
  IF Candidates(prompt) = {} THEN 0
  ELSE CHOOSE i \in Candidates(prompt) :
         \A j \in Candidates(prompt) :
           LET a == Shared(pins[i].key, prompt)
               b == Shared(pins[j].key, prompt)
           IN  a > b \/ (a = b /\ i <= j)

\* The pin add_request evicts when no slot is free: the oldest that is not the
\* fork source m, else m itself; 0: none.
Victim(m) ==
  IF free # << >> \/ pins = << >> THEN 0
  ELSE IF DOMAIN pins = {m} THEN m
  ELSE Min(DOMAIN pins \ {m})

PinsAfter(v) == IF v = 0 THEN pins ELSE RemoveAt(pins, v)
FreeAfter(v) == IF v = 0 THEN free ELSE <<pins[v].slot>>
KvAfter(v) == IF v = 0 THEN kv ELSE [kv EXCEPT ![pins[v].slot] = << >>]

\* Pin list p with its element i moved to the recent end.
Refreshed(p, i) == Append(RemoveAt(p, i), p[i])

\* PinsAfter(v) with pin m of pins at the recent end.
RefreshedAfter(v, m) ==
  Refreshed(PinsAfter(v), IF v # 0 /\ v < m THEN m - 1 ELSE m)

\* Mutant of Release: seq_rm of the wildcard sequence.
ReleaseClearsAll(s, memory) ==
  /\ free' = IF s \in Range(free) THEN free ELSE Append(free, s)
  /\ kv' = [t \in Slots |-> << >>]

\* memory_seq_rm plus the guarded append that returns slot s to the pool.
Release(s, memory) ==
  /\ free' = IF s \in Range(free) THEN free ELSE Append(free, s)
  /\ kv' = [memory EXCEPT ![s] = << >>]

\* Mutant of Worthwhile: a prompt cancelled in mid-prefill is pinned.
WorthwhileEarly(prompt, nPrefilled) ==
  PinCap > 0 /\ Len(prompt) - 1 >= PinMin

\* _maybe_pin's tests: only a fully prefilled, long enough prompt is pinned.
Worthwhile(prompt, nPrefilled) ==
  /\ PinCap > 0
  /\ nPrefilled >= Len(prompt)
  /\ Len(prompt) - 1 >= PinMin

\* The end of _retire with its _maybe_pin: slot s, whose KV is in memory,
\* becomes a pin for prompt or goes back to the pool.
PinOrRelease(s, prompt, nPrefilled, memory) ==
  LET worthwhile == Worthwhile(prompt, nPrefilled)
      known == {i \in DOMAIN pins : pins[i].key = prompt}
      entry == [key |-> prompt, slot |-> s]
  IN  \/ /\ ~worthwhile
         /\ Release(s, memory)
         /\ UNCHANGED pins
      \/ /\ worthwhile
         /\ \E i \in known : pins' = Refreshed(pins, i)
         /\ Release(s, memory)
      \/ /\ worthwhile
         /\ known = {}
         /\ Len(pins) < PinCap
         /\ pins' = Append(pins, entry)
         /\ kv' = memory
         /\ UNCHANGED free
      \/ /\ worthwhile
         /\ known = {}
         /\ Len(pins) >= PinCap       \* over capacity: the oldest is evicted
         /\ pins' = Append(RemoveAt(pins, 1), entry)
         /\ Release(Head(pins).slot, memory)

\* Mutant of Archived: the read window is never trimmed.
ArchivedForever(entry) == Append(retired, entry)

\* _archive
Archived(entry) ==
  LET longer == Append(retired, entry)
  IN  IF Len(longer) > RetiredLimit THEN Tail(longer) ELSE longer

\* _retire: request r leaves _states for the read window with its output, and
\* its slot, whose KV is in memory, is pinned or released.
Retire(r, reason, out, memory) ==
  /\ states' = Minus(states, r)
  /\ retired' = Archived([id |-> r, prompt |-> states[r].prompt,
                          params |-> states[r].params,
                          out |-> out, reason |-> reason])
  /\ PinOrRelease(states[r].slot, states[r].prompt, states[r].nPrefilled,
                  memory)

-----------------------------------------------------------------------------
(* Admission. *)

Registered(s, prompt, params, n) ==
  [slot |-> s, prompt |-> prompt, params |-> params, nPrefilled |-> n,
   nPos |-> n, next |-> NoToken, out |-> << >>]

\* Mutant of AdmissionRolledBack: the popped slot is not put back.
AdmissionLeaks(v) ==
  /\ pins' = PinsAfter(v)
  /\ free' = Tail(FreeAfter(v))
  /\ kv' = [KvAfter(v) EXCEPT ![Head(FreeAfter(v))] = << >>]
  /\ UNCHANGED <<states, retired>>

\* set_seq_sampler raises: the pop is undone, but not an eviction made for it.
AdmissionRolledBack(v) ==
  /\ pins' = PinsAfter(v)
  /\ free' = FreeAfter(v)
  /\ kv' = [KvAfter(v) EXCEPT ![Head(FreeAfter(v))] = << >>]
  /\ UNCHANGED <<states, retired>>

\* No pin to fork from, or the fork failed and the slot was cleared again.
AdmittedPlain(v, prompt, params) ==
  LET s == Head(FreeAfter(v))
  IN  /\ pins' = PinsAfter(v)
      /\ free' = Tail(FreeAfter(v))
      /\ kv' = [KvAfter(v) EXCEPT ![s] = << >>]
      /\ states' = [q \in DOMAIN states \cup {nextId} |->
                      IF q = nextId THEN Registered(s, prompt, params, 0)
                      ELSE states[q]]
      /\ UNCHANGED retired

\* Mutants of ForkedKv: the copy is cut at the shared run, or not at all.
ForkedKvAtRun(m, n) == SubSeq(kv[pins[m].slot], 1, n + 1)
ForkedKvWhole(m, n) == kv[pins[m].slot]

\* KV of a fork that keeps n tokens of pin m.
ForkedKv(m, n) == SubSeq(kv[pins[m].slot], 1, n)

\* _attempt_fork from pin m: copy, then truncate one short of the shared run.
AdmittedForked(v, m, prompt, params) ==
  LET s == Head(FreeAfter(v))
      n == Shared(pins[m].key, prompt) - 1
  IN  /\ m # 0 /\ m # v
      /\ pins' = RefreshedAfter(v, m)
      /\ free' = Tail(FreeAfter(v))
      /\ kv' = [KvAfter(v) EXCEPT ![s] = ForkedKv(m, n)]
      /\ states' = [q \in DOMAIN states \cup {nextId} |->
                      IF q = nextId THEN Registered(s, prompt, params, n)
                      ELSE states[q]]
      /\ UNCHANGED retired

\* The fork or draft.prepare raises after registration: the request is
\* cancelled.  Part of its prompt is not prefilled yet, so its slot is
\* released, never pinned.
AdmissionCancelled(v, m, prompt, params) ==
  LET s == Head(FreeAfter(v))
  IN  /\ Faults
      /\ \/ pins' = PinsAfter(v)
         \/ m # 0 /\ m # v /\ pins' = RefreshedAfter(v, m)
      /\ free' = Append(Tail(FreeAfter(v)), s)
      /\ kv' = [KvAfter(v) EXCEPT ![s] = << >>]
      /\ retired' = Archived([id |-> nextId, prompt |-> prompt,
                              params |-> params, out |-> << >>,
                              reason |-> "cancelled"])
      /\ UNCHANGED states

AddRequest(prompt, params) ==
  /\ Idle
  /\ nextId < MaxRequests
  /\ free # << >> \/ pins # << >>          \* else SeqIdExhausted
  /\ nextId' = nextId + 1
  /\ LET m == FindPin(prompt)
         v == Victim(m)
     IN  \/ AdmissionRolledBack(v)
         \/ AdmittedPlain(v, prompt, params)
         \/ AdmittedForked(v, m, prompt, params)
         \/ AdmissionCancelled(v, m, prompt, params)
  /\ UNCHANGED <<todo, stranded, refused>>

\* cancel: only a request in flight changes anything.
Cancel(r) ==
  /\ Idle
  /\ Retire(r, "cancelled", states[r].out, kv)
  /\ UNCHANGED <<nextId, todo, stranded, refused>>

-----------------------------------------------------------------------------
(* One step: FCFSPolicy's plan, the drafts that ride in its spare rows, the *)
(* batch, the decode.                                                       *)

\* Mutant of IsPrefillPlan: the newest prompt is served first.
IsNewestFirstPlan(chunk) ==
  \A r \in DOMAIN chunk :
    chunk[r] = Least(Least(Len(states[r].prompt) - states[r].nPrefilled,
                           Most(0, NCtxSeq - states[r].nPos)),
                     NBatch - SumFunctionOnSet(chunk, {q \in DOMAIN chunk : q > r}))

\* Prompt chunks in admission order, each as long as the batch and the slot
\* still allow.
IsPrefillPlan(chunk) ==
  \A r \in DOMAIN chunk :
    chunk[r] = Least(Least(Len(states[r].prompt) - states[r].nPrefilled,
                           Most(0, NCtxSeq - states[r].nPos)),
                     NBatch - SumFunctionOnSet(chunk, {q \in DOMAIN chunk : q < r}))

\* The first n generating requests, one row each.
DecodeRows(n) ==
  LET generating == {r \in DOMAIN states : Generating(r)}
  IN  {r \in generating : Cardinality({q \in generating : q < r}) < n}

\* Mutant of IsDraftPlan: the slot's room is not looked at.
IsRoomlessDraftPlan(drafts, spare) ==
  LET length == [r \in DOMAIN drafts |-> Len(drafts[r])]
  IN  \A r \in DOMAIN drafts :
        drafts[r] # << >> =>
          /\ states[r].params.greedy \/ Opportunistic
          /\ SumFunction(length) <= spare

\* _plan_drafts: a draft is no longer than the limit, the slot's room and the
\* rows left over; only a greedy request drafts.
IsDraftPlan(drafts, spare) ==
  LET length == [r \in DOMAIN drafts |-> Len(drafts[r])]
  IN  \A r \in DOMAIN drafts :
        drafts[r] # << >> =>
          /\ states[r].params.greedy \/ Opportunistic
          /\ Len(drafts[r]) <= NCtxSeq - states[r].nPos - 1
          /\ SumFunction(length) <= spare

DraftSeqs == BoundedSeq(Token, MaxDrafts)

\* _fill_batch: the tokens that request r has in the batch.
Packed(r, chunk, drafts) ==
  IF r \in DOMAIN chunk
  THEN SubSeq(states[r].prompt, states[r].nPrefilled + 1,
              states[r].nPrefilled + chunk[r])
  ELSE IF r \in DOMAIN drafts THEN <<states[r].next>> \o drafts[r]
  ELSE << >>

\* The prompts that this batch completes: their last row has logits.
Completed(chunk) ==
  {r \in DOMAIN chunk :
     /\ chunk[r] > 0
     /\ states[r].nPrefilled + chunk[r] >= Len(states[r].prompt)}

\* What llama_decode requires of a batch: the rows of a slot start where its KV
\* ends and fit in its cells.
Accepted(chunk, drafts) ==
  \A r \in DOMAIN states :
    Packed(r, chunk, drafts) # << >> =>
      /\ states[r].nPos = Len(kv[states[r].slot])
      /\ states[r].nPos + Len(Packed(r, chunk, drafts)) <= NCtxSeq

\* The commit once llama_decode has returned.
Committed(chunk, drafts) ==
  /\ states' = [r \in DOMAIN states |->
                  [states[r] EXCEPT
                     !.nPos = @ + Len(Packed(r, chunk, drafts)),
                     !.nPrefilled =
                        IF r \in DOMAIN chunk THEN @ + chunk[r] ELSE @]]
  /\ kv' = [s \in Slots |->
              IF s \in BusySlots
              THEN LET r == CHOOSE r \in DOMAIN states : states[r].slot = s
                   IN  kv[s] \o Packed(r, chunk, drafts)
              ELSE kv[s]]
  /\ todo' = [r \in Completed(chunk) \cup DOMAIN drafts |->
                IF r \in DOMAIN drafts THEN drafts[r] ELSE << >>]
  /\ UNCHANGED refused

\* decode raises: every request stays exactly where it was.
Refused ==
  /\ refused' = TRUE
  /\ UNCHANGED <<states, kv, todo>>

Decode ==
  /\ Idle
  /\ \E chunk \in [{r \in DOMAIN states : Prefilling(r)} -> 0 .. NBatch] :
       LET left == NBatch - SumFunction(chunk)
           rows == DecodeRows(left)
       IN  /\ IsPrefillPlan(chunk)
           /\ rows # {} \/ \E r \in DOMAIN chunk : chunk[r] > 0
           /\ \E drafts \in [rows -> DraftSeqs] :
                /\ IsDraftPlan(drafts, left - Cardinality(rows))
                /\ IF Accepted(chunk, drafts)
                   THEN Committed(chunk, drafts)
                   ELSE Refused
  /\ UNCHANGED <<nextId, free, retired, pins, stranded>>

-----------------------------------------------------------------------------
(* The rows of the step, in batch order: completed prompts come before      *)
(* continuations, each group in admission order.                            *)

NextRow ==
  LET completed == {r \in DOMAIN todo : states[r].next = NoToken}
  IN  IF completed # {} THEN Min(completed) ELSE Min(DOMAIN todo)

\* n_pos as the context check of _advance_token sees it for the i-th accepted
\* token of a row based at position base.
CheckedPos(drafts, base, i) ==
  IF drafts = << >> THEN base + 1 ELSE base + 1 + i

\* Mutant of Reason: one token more than the cap.
ReasonCapPlusOne(r, token, hit, nGenerated, pos) ==
  IF token = Eog THEN "eog"
  ELSE IF hit THEN "stop_sequence"
  ELSE IF nGenerated > states[r].params.maxTokens THEN "length"
  ELSE IF pos >= NCtxSeq THEN "context"
  ELSE "none"

\* The finish rules of _advance_token, in their order.
Reason(r, token, hit, nGenerated, pos) ==
  IF token = Eog THEN "eog"
  ELSE IF hit THEN "stop_sequence"
  ELSE IF nGenerated >= states[r].params.maxTokens THEN "length"
  ELSE IF pos >= NCtxSeq THEN "context"
  ELSE "none"

\* Mutant of Rewound: rejected drafts stay in the KV.
NotRewound(s, n) == kv

\* The KV with slot s cut back to its first n positions.
Rewound(s, n) == [kv EXCEPT ![s] = SubSeq(@, 1, n)]

\* What _verify_rows accepts: m drafts, then the token that was drawn instead of
\* the next draft or after the last.
Confirmed(r, m, token) == Append(SubSeq(todo[r], 1, m), token)

\* Mutant of Samples: every token is drawn from the base row.
SamplesBaseRow(r, m, token) ==
  LET drafts == todo[r]
      base == states[r].nPos - Len(drafts) - 1
      row == SubSeq(kv[states[r].slot], 1, base + 1)
  IN  /\ \A i \in 1 .. m : drafts[i] \in Support[row]
      /\ token \in Support[row]
      /\ m < Len(drafts) => token # drafts[m + 1]

\* The sampler draws exactly that from the rows of request r.
Samples(r, m, token) ==
  LET drafts == todo[r]
      after(n) == SubSeq(kv[states[r].slot], 1, n)
      base == states[r].nPos - Len(drafts) - 1
  IN  /\ \A i \in 1 .. m : drafts[i] \in Support[after(base + i)]
      /\ token \in Support[after(base + m + 1)]
      /\ m < Len(drafts) => token # drafts[m + 1]

\* _advance and _verify of row r: KV past the accepted tokens is rewound, and
\* the accepted tokens are accounted for up to the first that ends the request.
\* h: the accepted token that completes a stop sequence, 0 if none does.
Accept(r, m, token, h) ==
  LET req == states[r]
      drafts == todo[r]
      base == req.nPos - Len(drafts) - 1
      accepted == Confirmed(r, m, token)
      final == base + Len(accepted)
      memory == Rewound(req.slot, final)
      reason(i) == Reason(r, accepted[i], h = i, Len(req.out) + i,
                          CheckedPos(drafts, base, i))
      ends == {i \in 1 .. m + 1 : reason(i) # "none"}
  IN  /\ Samples(r, m, token)
      /\ IF ends = {}
         THEN /\ states' = [states EXCEPT
                              ![r].out = @ \o accepted,
                              ![r].next = token,
                              ![r].nPos = final]
              /\ kv' = memory
              /\ UNCHANGED <<free, retired, pins>>
         ELSE LET k == Min(ends)
                  kept == IF accepted[k] = Eog THEN k - 1 ELSE k
              IN  Retire(r, reason(k), req.out \o SubSeq(accepted, 1, kept),
                         memory)

Advance ==
  /\ ~Idle
  /\ LET r == NextRow
     IN  /\ \E m \in 0 .. Len(todo[r]), token \in Token,
               h \in 0 .. Len(todo[r]) + 1 :
              /\ h # 0 => states[r].params.stop
              /\ Accept(r, m, token, h)
         /\ todo' = Minus(todo, r)
  /\ UNCHANGED <<nextId, stranded, refused>>

\* An exception out of row r ends step(): the rows after it are never looked at
\* again.
StepAborted(r) ==
  /\ todo' = << >>
  /\ stranded' = stranded \cup (DOMAIN todo \ {r})
  /\ UNCHANGED <<nextId, refused>>

\* Sampling, rewinding or detokenising row r raises, the last after n accepted
\* tokens are in the output: the request is retired as it stands.
RowFails(r, m, token, n) ==
  LET req == states[r]
      drafts == todo[r]
      base == req.nPos - Len(drafts) - 1
      accepted == Confirmed(r, m, token)
      reason(i) == Reason(r, accepted[i], FALSE, Len(req.out) + i,
                          CheckedPos(drafts, base, i))
  IN  /\ Samples(r, m, token)
      /\ \A i \in 1 .. n : accepted[i] # Eog
      /\ \A i \in 1 .. n - 1 : reason(i) = "none"
      /\ \E memory \in {Rewound(req.slot, base + Len(accepted))}
                          \cup (IF n = 0 THEN {kv} ELSE {}) :
           Retire(r, "error", req.out \o SubSeq(accepted, 1, n), memory)

AdvanceFails ==
  /\ Faults
  /\ ~Idle
  /\ LET r == NextRow
     IN  /\ \E m \in 0 .. Len(todo[r]), token \in Token :
              \E n \in 0 .. m + 1 : RowFails(r, m, token, n)
         /\ StepAborted(r)

\* Row r was verified and its request goes on, but draft.sync raises.
SyncFails ==
  /\ Faults
  /\ ~Idle
  /\ LET r == NextRow
     IN  /\ todo[r] # << >>
         /\ \E m \in 0 .. Len(todo[r]), token \in Token : Accept(r, m, token, 0)
         /\ r \in DOMAIN states'
         /\ StepAborted(r)

Next ==
  \/ \E p \in Prompts, q \in Params : AddRequest(p, q)
  \/ \E r \in DOMAIN states : Cancel(r)
  \/ Decode
  \/ Advance
  \/ AdvanceFails
  \/ SyncFails

Spec == Init /\ [][Next]_vars

\* The worker thread steps while there is work (AsyncEngine._run, drain()).
FairSpec == Spec /\ WF_vars(Decode) /\ WF_vars(Advance)

-----------------------------------------------------------------------------
(* Properties. *)

RequestState ==
  [slot : Slots, prompt : Prompts, params : Params, nPrefilled : Nat,
   nPos : Nat, next : Token \cup {NoToken}, out : Seq(Token)]

Finished ==
  [id : Nat, prompt : Prompts, params : Params, out : Seq(Token),
   reason : {"eog", "stop_sequence", "length", "context", "cancelled",
             "error"}]

\* The shape of the engine's state.
TypeOK ==
  /\ nextId \in Nat
  /\ free \in Seq(Slots)
  /\ DOMAIN states \subseteq 0 .. nextId - 1
  /\ states \in [DOMAIN states -> RequestState]
  /\ retired \in Seq(Finished) /\ Len(retired) <= RetiredLimit
  /\ pins \in Seq([key : Prompts, slot : Slots])
  /\ kv \in [Slots -> Seq(Token)]
  /\ DOMAIN todo \subseteq DOMAIN states
  /\ todo \in [DOMAIN todo -> Seq(Token)]
  /\ stranded \subseteq 0 .. nextId - 1
  /\ refused \in BOOLEAN

\* len(pins) + len(free) + in-flight == n_seq_max (metal_engine.py:280): every
\* slot is in exactly one place, once, whatever admissions and rows fail.
SlotsPartitioned ==
  /\ IsInjective(free)
  /\ \A i, j \in DOMAIN pins : pins[i].slot = pins[j].slot => i = j
  /\ \A q, r \in DOMAIN states : states[q].slot = states[r].slot => q = r
  /\ FreeSlots \cap PinSlots = {}
  /\ FreeSlots \cap BusySlots = {}
  /\ PinSlots \cap BusySlots = {}
  /\ FreeSlots \cup PinSlots \cup BusySlots = Slots

\* A pin's slot begins with the pin's whole key, so that a fork may keep any
\* shared run of it; keys are distinct and no more than the cap are pinned.
PinsHoldTheirKeys ==
  /\ Len(pins) <= PinCap
  /\ \A i, j \in DOMAIN pins : pins[i].key = pins[j].key => i = j
  /\ \A i \in DOMAIN pins : IsPrefix(pins[i].key, kv[pins[i].slot])

\* The KV of a request in flight is its prompt and output up to n_pos and holds
\* all of them but the pending token; during a step it also holds the row's
\* drafts.  Chunked prefill, forks, eviction and rewinds all meet here.
KvMatchesRequest ==
  \A r \in DOMAIN states \ stranded :
    LET req == states[r]
        drafts == IF r \in DOMAIN todo THEN todo[r] ELSE << >>
        text == req.prompt \o req.out \o drafts
    IN  /\ kv[req.slot] = SubSeq(text, 1, req.nPos)
        /\ Prefilling(r) => req.nPos = req.nPrefilled /\ req.out = << >>
        /\ ~Prefilling(r) =>
             req.nPos = IF r \in DOMAIN todo THEN Len(text) ELSE Len(text) - 1
        /\ req.out # << >> => req.next = Last(req.out)

\* Follows(prompt, out): each token of out was drawn after the tokens before it.
Follows(prompt, out) ==
  \A i \in 1 .. Len(out) :
    out[i] \in Support[SubSeq(prompt \o out, 1, Len(prompt) + i - 1)]

\* Whatever batch, slot, pin or draft a token came through, it was sampled
\* after exactly the request's own prompt and earlier output.
OutputFollowsContext ==
  /\ \A r \in DOMAIN states \ stranded :
       Follows(states[r].prompt, states[r].out)
  /\ \A i \in DOMAIN retired :
       retired[i].id \notin stranded =>
         Follows(retired[i].prompt, retired[i].out)

\* llama_decode never refuses a batch, chunks and drafts included: each row is
\* at the next position of its slot and there is a cell for it.  (Once a row
\* has raised in mid-step its peers may break this: see InFlightRunnable.)
NoBatchRefused == stranded = {} => ~refused

\* Between steps every request in flight can be advanced (metal_engine.py:924).
InFlightRunnable ==
  Idle => \A r \in DOMAIN states : Prefilling(r) \/ Generating(r)

\* Admission and retirement leave the state and the KV of every request that
\* stays in flight as they were (metal_engine.py:414).
PeersUntouched ==
  [][\A r \in DOMAIN states \cap DOMAIN states' :
       DOMAIN states' # DOMAIN states \/ nextId' # nextId =>
         /\ states'[r] = states[r]
         /\ kv'[states[r].slot] = kv[states[r].slot]]_vars

\* FCFSPolicy: no row is spent on a request, a continuation row least of all,
\* in a step that leaves an earlier prompt unfinished.
FirstComeFirstServed ==
  [][\A q, r \in DOMAIN states \cap DOMAIN states' :
       /\ Idle
       /\ states'[r].nPos > states[r].nPos
       /\ Prefilling(q)
       /\ q < r \/ Generating(r)
       => states'[q].nPrefilled = Len(states[q].prompt)]_vars

\* What the engine promises its clients: requests, outputs and finish reasons
\* are those of Generation, in which there are no slots, batches, pins, drafts.
Promise ==
  INSTANCE Generation WITH
    Ids <- 0 .. MaxRequests - 1,
    MaxBurst <- MaxDrafts + 1,
    live <- [r \in DOMAIN states |->
               [prompt |-> states[r].prompt, params |-> states[r].params,
                out |-> states[r].out]],
    ended <- IF retired = << >> THEN << >>
             ELSE LET e == Last(retired)
                  IN  <<[id |-> e.id, prompt |-> e.prompt, out |-> e.out,
                         reason |-> e.reason]>>

\* Detokenised outputs and finish reasons are those of one-token-at-a-time
\* generation of each request alone.
ImplementsGeneration == Promise!GSpec

\* Every admitted request ends: prefill in chunks, a shared batch and
\* speculation never leave one behind.
EveryRequestEnds ==
  \A r \in 0 .. MaxRequests - 1 :
    r \in DOMAIN states ~> r \notin DOMAIN states
=============================================================================
