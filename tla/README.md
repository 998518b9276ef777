# A verification of big-white-rabbit (`bwr`) in TLA+

`bwr` serves language models on Apple hardware: an HTTP server (OpenAI and Anthropic
dialects) in front of one worker thread that owns an inference engine, either
`MetalEngine` (llama.cpp behind a C++ binding, with continuous batching) or `MLXEngine`
(mlx-lm). The modules here model the engines, the store that saves and restores requests, the
bridge between the server's event loop and the worker, and the answers that the routes make of
an engine's output. TLC checks them on small instances; TLAPS proves for all values of the
constants every safety and action property that a passing run checks, and that `MetalEngine`
implements `Generation` under two hypotheses (section 4). Liveness is model-checked.

Paths below are relative to the repository; `engine/` is `python/bwr/engine/` and `server/`
is `python/bwr/server/`.

## 1. The system

| Component | State | Operations | Hard behaviours | What makes it correct |
|---|---|---|---|---|
| `engine/metal_engine.py`, `engine/batching.py` | `_states`, `_free_seq_ids`, `_pins` (LRU), `_retired` window, the KV memory of each sequence slot | `add_request`, `cancel`, `step` (plan, pack, decode, then sample each row), `_retire`, pin, fork, evict | exceptions between two assignments; a fork that leaves one cell too many; several tokens accepted per row; rewinds | no slot lost or used twice; every token drawn after exactly its request's text; the batch never refused; speculation invisible |
| `engine/draft.py` | KV of the draft context, per request the next position and the logits row to start from | `prepare`, `propose`, `sync`, `release` | one logits buffer shared by all requests; tokens that bypass the draft | one stream per request, gone with it; a sync brings the draft to the target's tokens and positions; its logits row belongs to the request |
| `engine/ngram.py` | map from a context to the token that followed it | `update_stream`, `predict` | eviction order, bounded window | drafts are walks through what was fed, however it was fed |
| `engine/mlx_engine.py` | generators, owned caches, prompt-cache snapshots, acceptance counts | `add_request`, `cancel`, `step` on two paths | no rewind, so mismatches rebuild; sticky choice of path; a window that only one path knows | greedy output and, short of the window, finish reason are those of one token at a time |
| `engine/async_engine.py` | command queue, `_streams`, worker thread, stop event | `submit`, `stream`, `release`, `start`, `stop`; `_run`, callbacks on the loop | worker and loop interleave; disconnects; a raising step; shutdown | outputs in order, nobody awaits nothing, whoever leaves lets go of its slot |
| `engine/kv_snapshot.py` | saved prompts and states, one snapshot slot | `save`, `load`, `delete`, `clear` | several snapshots on one slot; a restore that raises half way | a restored request continues its own text |
| `engine/hotlist.py` | per-layer counts of routed experts | `update` | eviction order | advisory only |
| `engine/config.py` | held-back text of a stop-sequence filter | `push`, `flush` | a stop sequence split over pieces | text is released once, in order, up to the first stop |
| `server/tools.py` | buffer of the tool-call parser | `push`, `flush`, `parse_tool_calls` | tags split over pieces | streaming and whole-text parsing agree |
| `server/app.py`, `server/anthropic_api.py` | one handler per request | submit, stream, cancel, release; order of events | disconnect at any await | blocks opened and closed once, in order |
| `server/common.py`, `schemas.py`, `params.py`, `reasons.py` | none | validation, formatting | none | single expressions |
| `csrc/batch.*`, `csrc/context.*` | logits mask of the last decode, per-slot samplers | `decode`, `sample_seq`, `memory_seq_*`, state calls | a refused decode; a stale logits row | a refused decode changes nothing; only flagged rows are sampled |
| `csrc/model.*`, `csrc/module.cpp` | weights | tokenise, render, binding | none of its own | external library |
| `tune.py`, `generate.py`, `cli.py`, `server/launch.py` | none | scripts around the engines | none | sequential |

How they interact. A route handler (event loop) submits a command and awaits a future. The
worker thread alternates between draining commands and `engine.step()`, and posts every
result to the loop with `call_soon_threadsafe`; only callbacks write to a stream's queue.
Inside `step()` the engine plans a batch, may ask the draft table or the draft engine for
tokens, decodes once on the target, and then samples row by row, which may retire a request
and pin or free its slot.

## 2. Modules

| Module | Models | Correspondence |
|---|---|---|
| `MetalEngine` | metal engine and FCFS policy | one action for `add_request` (with the refused, rolled-back, forked and cancelled variants as disjuncts), `cancel`, and for `step`: `Decode`, then one `Advance`, `AdvanceFails` or `SyncFails` per row with logits. `todo` is the rest of the loop over rows, so no other engine call can come in between, as on the worker thread. `kv` keeps the tokens decoded into each slot. |
| `Generation` | what any engine promises | requests grow by tokens drawn after their own text and end by the finish rules of the one-token path; no slots, batches, pins or drafts. `MetalEngine!Promise` instantiates it. |
| `MetalEngineProofs`, `MetalTextProofs` | | lemmas and theorems about `MetalEngine` |
| `AsyncEngineProofs`, `AsyncDeliveryProofs` | | lemmas and theorems about `AsyncEngine`, the second module resting on the first |
| `AsyncEngine` | bridge, handlers and worker | `ready` is the loop's callback queue, `commands` the command queue, `worker` where `_run` is. The engine is reduced to the sets of requests in flight and of requests that no step advances. |
| `DraftMirror` | draft engine behind `_plan_model_drafts` and `_verify` | `cells` is the draft KV, `logits` the mask and contexts of its last decode, `stream` the position and pending row per request. `Admit` and `AdmitFails` are an admission whose `prepare` returns or raises between two chunks; `Propose`, `TargetRefuses` and `Verify` follow one step of the engine row by row. `ahead` counts the rows of a request that the target has committed behind a raising one and never verified (`Skips`): the target goes on behind them, with its old pending token. |
| `MLXEngine` | MLX engine, both paths | `turn` is the rest of the loop in `step`. A cache is the token sequence it was fed, the model a function `Target` of it. |
| `DraftMirrorProofs`, `MLXEngineProofs` | | lemmas and theorems about `DraftMirror` and `MLXEngine` |
| `NgramTable` | the n-gram table | a table is the sequence of its entries, oldest first; `Added`, `Updated` and `Predicted` are `add`, `update_stream` and `predict`, `Fed` is `_feed_table` of both engines. `MCMLXEngine` takes its drafts from it. |
| `KVSnapshot` | save, load, delete, clear and hydration on a Metal engine | composes every action of `MetalEngine` (`INSTANCE`, prefix cache off) with those of the store. `save` numbers what the reserved slot, each snapshot and each KV file were written by; `IOFaults` lets a write leave the old file or a torn one, a read raise and an unlink fail; `Restart` is the death of the process at any point, with only the files left. |
| `KVSnapshotProofs` | | lemmas and theorems about `KVSnapshot` |
| `StopFilter` | stop sequences of a request | `Normalized` is `normalize_stop`, `Push` and `Flush` the filter |
| `ToolParser` | tool-call blocks in generated text | `Push` and `Flush` the stream parser, `Parsed` the parser of a whole text. That a block's body is a call is membership in `Calls`. |
| `Replies` | the four handlers: OpenAI and Anthropic, streamed and whole | one action per engine output: outputs that go on, the last one (retired or stopped by the filter), a closed stream, a client that left. The handlers treat an output alike, so one filter and one parser stand for all four. `chat` and `wire` are what a client has assembled from the frames and events sent, `raw` what the filter released, `WholeBody` the unstreamed answer. |
| `RepliesProofs` | | lemmas and theorems about `Replies`, `ToolParser` and `StopFilter` |
| `MC...` | | values of the constants for TLC |

Histories (`stranded`, `refused`, `missed`, `unsynced`, `since`, `lossy`, `broken`, `saves`,
`leaked`, `inexact`, `tainted`, `said`) decide nothing the code does; some guard bounds. `leaked`, `inexact`, `tainted`, `missed`, `stranded`, `unsynced`, `since`, `lossy` and `broken` mark what
one of the faults of section 5, or a step that raised, has already spoiled, so that the other
properties can be stated about everything else.

## 3. Runs

All passing runs are exhaustive on their instance. Bounds are constants of the modules.

| Run | Instance | Shows |
|---|---|---|
| `engine_cache` | 2 slots of 5 cells, batches of 3 rows, 3 requests from 3 prompts that share prefixes, up to 2 pins, 1 draft, every admission and row may raise | slots are conserved; a pin holds its key; the KV of a request is its text; every token is drawn after its own text; no batch is refused; peers are untouched; FCFS order |
| `engine_drafts` | 2 slots of 7 cells, batches of 4 rows, 2 requests, 1 pin, 2 drafts, fairness | implements `Generation`; every request ends |
| `async_delivery` | 2 clients, 2 outputs each, 1 raising step, a join that may time out | order and completeness of streams, nobody waits for nothing, every request in flight has a handler or a queued cancel, but for handlers killed where no `finally` runs |
| `async_liveness` | 2 clients, 1 output, 1 raising step, fairness | submits are answered, streams end, slots come back, but for skipped requests whose handler is gone or missed the error |
| `draft_mirror` | 2 slots of 8 cells, draft batches of 4 rows, prompts of 1 and 5 tokens, 2 requests, 2 drafts, a draft model that agrees three times in four; a preparation, a proposal, the target's decode, a row and a sync may raise | streams and requests match; one sync puts a draft in step |
| `mlx` | 2 requests, window of 6, caps 1 and 5, 2 drafts of any tokens, 4 configurations, raising calls | speculation, fallback and prompt cache do not show in greedy output, nor in its end short of the window |
| `kv_snapshot` | 3 slots of 4 cells, one reserved, 2 saves under 2 (symmetric) names, 2 requests per process, any number of restarts, file faults | no slot is lost or given twice; the reserved slot and the files hold the text of their snapshot; a restored request goes on from its own text; every request that is neither stranded nor restored from two saves can be decoded, also beside those that are, and only a batch with one of these is refused |
| `replies` | every text of up to 6 of 4 characters in every split into pieces of up to 2, tags of 2 characters that begin alike, stop sequences nested in, ending and overlapping one another and the tags, 4 requests | stop sequences cut the text where they should; streamed and whole answers agree; no character lost or sent twice; blocks open and close in order |
| `engine_stranded`, `async_lost_error`, `draft_pending`, `mlx_refill` | the instances above, or smaller ones | the findings of section 5 |

Why the bounds are enough. The interesting cases need two requests that compete (for a slot,
a batch, the logits buffer, the loop), a third for an eviction while two pins exist, prompts
longer than a batch for chunked prefill (and, in `draft_mirror`, for a preparation that raises half way), prompts that share a proper prefix for forks, two
drafts for a partial match, and slots short enough to be filled. Every run includes those of its
module. The vocabulary is 2 to 4 tokens; the stand-in for the model depends on the whole
context in the engine runs, so that a missing, stale or duplicated cell changes the next
token. In `kv_snapshot` one prompt is answered up to its cap of 3, so that requests are saved
behind their prompt and pending, and a second save is what makes a KV and a
snapshot disagree. Only a third can be that of a request restored from such a pair, which the history
`tainted` excludes: with file faults that run does not end in minutes, and
`KVSnapshotProofs` covers it, as any number of saves. In `replies` 6 characters hold a call, text around it and a stop sequence
that begins in either; 4 characters can spell both tags, a body and the gap that the whole
parser strips. `MCMLXEngine` asserts that the table behaves as the reference says over every
text of up to 6 tokens.

Fairness. `engine_drafts` assumes weak fairness of the engine's own steps: `drain()` and the
worker call `step()` for as long as `has_work`. `async_liveness` assumes that the loop runs its
callbacks and resumes a handler that has something to read, that the worker thread is
scheduled, and that the join returns. Nothing is assumed of clients: they may stop reading at any time.

Choices that narrow a run:

- requests have `stop_at_eog`, the default of both routes;
- in `engine_drafts`, requests that draft reach their cap before the end of their slot,
  since at that end the speculative path differs from the plain one (section 5), and
  nothing raises (`GenerationImplemented` has the same two hypotheses); raising rows are in `engine_cache`;
- `memory_seq_rm` on a slot of the context is taken not to raise or to refuse;
- completing a stop sequence is a choice of the environment in `MetalEngine` and a token in `MLXEngine`;
- n-gram predictions are arbitrary tokens in `MetalEngine` and in run `mlx`; `mlx_refill`
  uses the predictions of the table itself, so its trace is one that the engine can produce;
- in `AsyncEngine` a client stands for its request's id, the check at the head of the worker's
  loop is merged into the action before it, and a second `start()` is not modelled;
- the generator of mlx-lm swallows an end of generation, as `_step_stream` expects;
- `Replies` leaves out what frames carry besides text: token counts, ids, headers, JSON of a
  call. Behind a call found in one piece, the Anthropic stream sends that piece's text before
  the call's block; the properties compare what a client concatenates by kind;
- `ChatIsTheBody` compares a streamed and a whole answer that end by an engine output or a stop
  sequence; on a stream that the bridge closes they differ (section 5);
- in the runs of `KVSnapshot` completing a stop sequence is switched off and engine steps do not raise
  (both are in `engine_cache`, and the theorems allow both); in the model only requests in flight are saved, restored ids are fresh, the
  KV is not unified, the prefix cache is off, params in a file are well formed, and a torn file counts as absent, as the
  code that reads it treats it;
- a call into mlx raises, if it does, before it has changed anything of the request.

## 4. Proofs

`MetalEngineProofs` proves, for every number of slots, cells, rows, drafts, pins and requests,
every vocabulary and every stand-in for the model that meets the three named assumptions of
`MetalEngine`:

- `TypeCorrect`: `Spec => []TypeOK`;
- `SlotConservation`: `Spec => []SlotsPartitioned`, free list, pins and requests in flight partition the slots;
- `PinsKeepTheirKeys`: `Spec => []PinsHoldTheirKeys`, the KV of a pinned slot begins with the whole key.

None of these is inductive alone. That a pin holds its key when a request retires needs that the
request had prefilled its prompt into its slot, through chunks, forks and rewinds; that a rewind
leaves the prompt alone needs that a row with logits is past its prompt. The inductive
invariant `IInv` is `TypeOK`, the partition (`Apart`, `OneSlotEach`), the pins (`Keyed`)
and `RowsBacked`: the prefilled part of each prompt is at the head of its slot, and a row
with logits stands at the end of its KV behind its prompt and drafts. `Apart` and `Keyed` are stated of any
free list, pin list and memory, so that each operation (take a slot, evict, refresh, pin,
release) has one lemma that the proofs of `add_request`, `cancel`, `Decode` and retirement
share. `InitIInv` and `NextIInv` put them together, `Invariance` is the temporal step.

`MetalTextProofs` proves from it, under the same assumptions,

- `KvHoldsTheText`: `Spec => []KvMatchesRequest`, the KV of a request is its own prompt and output;
- `OutputsFollow`: `Spec => []OutputFollowsContext`, every token was sampled after its own text;
- `BatchesAccepted`: `Spec => []NoBatchRefused`, until a row raises no batch is refused;
- `PeersLeftAlone`: `Spec => PeersUntouched`, the end of a request leaves all others as they were;
- `ServedInOrder`: `Spec => FirstComeFirstServed`, no row goes past a prompt that stays unfinished;
- `GenerationImplemented`: `Spec => ImplementsGeneration`, requests, outputs and finish reasons are
  those of one-token-at-a-time generation, if `~Faults` and `CapsComeFirst`.

The first three depend on each other: a token follows its text because the slot held that text
when the row was decoded, the slot holds it because the batch was accepted, and the batch is
accepted because each row starts where its slot ends. `KInv` states them together, and
says besides what the properties leave open between the rows of one step. A request with no row
left in the step is `Settled`: its slot holds all its text but the pending token and has a
cell for that. A request whose row has been decoded but not looked at is `InStep`: its slot
holds the pending token and the drafts too, of which the verification keeps some and rewinds the
rest. Stranded requests are exempt, as in the properties. `Agree` and its lemmas are the
arithmetic of verification: the confirmed drafts are those that the model would have drawn. A
request is followed through `Decode` by `InBatch` and `MovedPast`, through its own row by the
lemmas on `Accept`, and through every other action by `PeerTexted`, which needs only that
its record and its slot stay as they were.

`GenerationImplemented` has two hypotheses. `Generation` knows no reason `error`, so nothing
may raise. `CapsComeFirst` says that a request that may draft reaches its cap before the end
of its slot, because there the speculative path ends one token early (`metal_engine.py:757`,
section 5); without drafts it is true of every request, and it is true of the
instance of `engine_drafts`. The invariant `RInv` adds to `KInv` that nobody is stranded and
that each row still to be looked at fits in its slot, with no more drafts than the limit and none for
a request that may not draft (`RowsPlanned`).
With it, the tokens that a row accepts are drawn one after the other behind the
request's own text (`AcceptedDrawn`), all but the last leave the request running
(`AcceptedGoesOn`), and the rule by which the last ends it is that of `Generation`
(`RuleIsReason`). So `Advance` is `Extend` or `Finish`, an admission `Admit`, a cancel
`Abandon`, and `Decode` and an admission that is refused are stutters (`Unseen`).

`ServedInOrder` rests on the arithmetic of `_pack_rows`. A chunk shorter than its prompt's rest has
used up the batch (`ChunkThatFits`), and the chunks of a prompt and of those before it add up to
no more than what is left for a later one (`ChunksAddUp`); so after a prompt that stays
unfinished there is no row, for a later prompt or for a continuation (`DecodeInTurn`).

`AsyncEngineProofs` proves, for any number of clients, slots, outputs and raising steps, and
whether or not a join may time out:

- `BridgeTypes`: `Spec => []TypeOK`;
- `RequestsHaveOwners`: `Spec => []SlotsHaveOwners`, every request in flight has a handler that
  will reach its `release()`, or a queued cancel, or the server stops, or its handler was killed
  where no `finally` block runs (section 5).

That a handler which ends has cancelled its request, or need not, depends on what was queued
long before. `release()` leaves the cancel out when the stream is marked retired, or when there
is no stream. The invariant therefore says that a request is submitted once (`SubmittedOnce`), so
that one that was refused or retired is never in flight again (`InFlight`); that the registration
of a stream is queued before the id is (`Reached`), so that a handler with an id has a stream
until it releases it or the server stops; and that the event of `stop()` is set before the
callback that clears the streams is queued (`Stops`). Lemmas of their own say what consuming,
appending to and reading the two queues leaves true; each action cites them.

`AsyncDeliveryProofs` proves from it, under the same conditions,

- `NobodyWaits`: `Spec => []NobodyWaitsForNothing`, every handler that awaits its stream is owed
  an item, except those that the history variable `missed` names (section 5).

The property is not inductive: a thread that owes an item now must leave one behind when it moves
on. `DInv` says of each client that a closed channel still ends in its unread end, that an open
one has an end coming (`Held`), and, because a stream may be registered after the step that
retires its request, that the end of a stream yet to be registered is queued behind its
registration (`Awaited`), which is the only one (`Unregistered`). `Stages` follows `stop()` and
is where a join that times out is let off. `WorkerMoves` is what every step of the worker has in
common; one lemma about it carries the steps that retire, raise, refuse and cancel.

and from that

- `OutputsArriveInOrder`: `Spec => []OutputsInOrder`, what a client reads is what was made, in order;
- `RetiredStreamsAreDone`: `Spec => []RetiredIsRetired`, a release without a cancel leaks nothing.

The outputs of a client are in three places: read, in its channel, and among the callbacks of
the loop, where callbacks of other clients, registrations and ends lie between them. `Ordered(c)`
says that the numbers of the first are 1, 2, ..., those in the channel go on from there
(`Filled`), and those among the callbacks that will still find the channel open go on from there
without a gap up to what the engine has made (`Numbered`). The gap-free part is stated link by
link (`Rising`, `Linked`, `Complete`), because that is what taking a callback off the front
or posting one at the back preserves. A callback can find no channel, so nothing concerning a
client may be ahead of its registration (`First`), nor exist before its submission is
applied (`Quiet`). `Tallied` fixes the number of the output that retires.

`DraftMirrorProofs` proves, for any two models, any slots, batches and drafts that meet the
assumptions of `DraftMirror`:

- `MirrorTypes`: `Spec => []TypeOK`;
- `StreamsFollowRequests`: `Spec => []StreamsMatchRequests`, a stream for each request and for no other, a slot
  without a request being empty or left with the first chunks of a prompt whose `prepare` raised;
- `SyncedDraftsAreInStep`: `Spec => []SyncsStayInStep`, the draft of a request none of whose calls raised holds
  the target's tokens at its positions from its last proposal from behind on.

Of the cells between the prompt and that proposal nothing is claimed: drafts proposed from behind stay there, rejected ones too.


The second theorem is stated between steps; within a step the draft KV holds what it has just
proposed. `MInv` therefore says at every point (`Mirror`) that the draft KV of a request is a
confirmed base and the drafts not yet verified on top; with no drafts that is the property. That a sync
lands on its position needs that a planned row has its drafts or has none, and that text and
drafts fit the slot together (`StepFits`), which is what `_plan_model_drafts` checks before
it proposes. Requests that a raising row left behind (`ahead`) are outside of both, as nothing in `draft.py` brings
them back; of them only types, stream and slot are kept. One lemma per call (`prepare`, a proposed token, a sync that keeps some
drafts, a release) says what it does to one such KV.

`MLXEngineProofs` proves, for any model, any function from texts to drafts, any prompts, caps,
limits and configurations, with or without calls that raise:

- `EngineTypes`: `Spec => []TypeOK`;
- `NothingOutlivesItsRequest`: `Spec => []OnlyLiveRequestsHoldCaches`, an ended request leaves no cache, generator or count;
- `PromptCacheIsFaithful`: `Spec => []PrefixHoldsPrompts`, every entry is at its prompt's boundary;
- `OwnedCachesHoldTheText`: `Spec => []CachesHoldTheText`, an owned cache is the text without its last token;
- `GreedyOutputIsTheModels`: `Spec => []SpeculationIsLossless`, output and reason are those of one token at a time,
  but that a request with a cache of its own ends when its text fills the window.

`MLXAssumption` says of the model only that it answers a prompt and an output below its
cap by a token, and of the drafts that they are tokens, no more than were asked for; nothing relates
the one to the other. The inductive invariant `EInv` adds to the five properties what a request is
between steps (`Live`): below its cap, without a token that would have ended it, on
the path its configuration chose (`Paths`), with a cache that begins with its prompt and
is shorter than its text, or a generator that has made its output. The heart is the
lemma `Verifies`: rows fed on top of a faithful cache are answered as the model would after each
of them (`RowsAre`, `AcceptedIs`), so the drafts that match and the token after them are the
model's own, whatever was drafted, and feeding them one by one stops where decoding one by one
would (`FeedEnds`). A request that a rebuild has spoiled is in `lossy`, one whose generator
raised in `broken`; the properties and `Live` exempt them from what is spoiled and from nothing else.

`KVSnapshotProofs` proves, for any number of slots, cells, names, saves, requests and restarts,
with rows that raise and files that fail or are torn, under `StoreAssumption` and the vocabulary
and request assumptions of `MetalEngine`:

- `StoreTypes`: `Spec => []TypeOK`;
- `SlotsAreConserved`: `Spec => []SlotsConserved`, no slot is used twice or lost but by the restores in `leaked`;
- `SavedKvIsItsText`: `Spec => []SnapshotsHoldTheirText`, slot and files hold the KV of their text;
- `RestoredFromItsText`: `Spec => []RestoredKvIsItsText`, a restored request stands on its own text;
- `RestoredFollows`: `Spec => []RestoredOutputFollows`, its output goes on from all of its text;
- `RestoresDecode`: `Spec => RestoresAreDecodable`, between steps every request that is neither stranded nor
  `inexact` can be decoded, whatever others were restored, and a first refused batch has a row
  of one that is and cannot (`RefusedDecode`).

These hold or fall together, because what is saved is later a request and the other way
round. `SInv` therefore says the same of both: a request that is not stranded or `inexact`
(`RequestsHold`) and a snapshot whose save is not `tainted` (`Sound`) are `AtRest`: part of the
prompt is prefilled and nothing else, or all of the text is in the cells but the pending token,
and a cell is left for that. `Sound` adds that a KV file of the same save, whichever name it
is under, has the cells of that text; `SlotSaved` says it of the reserved slot. `Dealt` is the
partition of the slots, of any free list, any set of slots in use and any set of lost ones. The
engine half, `EInv`, is shown to hold after every engine action with the reserved slot
untouched, so the store half needs one lemma for all of them (`EngineStepKeeps`); what the
store does to the engine is `NobodyMoves` or `RegisteredKeeps`, and `StoreKeeps` is the
store half for everything but a save. Without drafts and pins a row is at
the end of its slot (`RowsMade`), so the engine half is smaller than in `MetalTextProofs`,
whose theorems are about `MetalEngine!Spec` and say nothing of requests that come
in by a restore. `tainted` has to be in the model for `SnapshotsHoldTheirText` to hold: a
request restored from two saves may be saved again.

`RepliesProofs` proves, for every alphabet, both tags, every set of calls and of stop
sequences, every text and every split of it into outputs, under `TagsAssumption` and
`RepliesAssumption`:

- `TypeCorrect`: `Spec => []TypeOK`, which counts the calls sent;
- `OnlyTheCutIsShown`: `Spec => []StopsCutTheText`, the text comes out up to the first stop sequence;
- `StreamIsTheBody`: `Spec => []ChatIsTheBody`, the OpenAI frames assemble to the whole answer;
- `BlocksAreTheBody`: `Spec => []WireIsTheBody`, so do the Anthropic blocks, with reason and stop sequence;
- `BlocksAreNested`: `Spec => []BlocksNest`, blocks are numbered, closed once and one at a time;
- `NothingLost`: `Spec => []NothingIsLost`, the answer is the text without its calls.

The inductive invariant has three parts, one for each thing between the engine's text and a client.

`Filtered` is about the stop filter: what it has released and what it withholds are the text read so far,
in which no stop sequence is (`Free`) and in whose released part none can begin, whatever
comes (`Clear`), and what is withheld is the start of one. `FilterPushes` keeps it over a
push and says that a hit is at the sequence completed first, which is where `Cut` cuts. That
a stop sequence spread over several outputs, or inside another, is not overlooked is
`ClearBoth` and `FreeBoth`: text in which none fits moves everything behind it and nothing else.

`Assembled` is about the parser: its state, and the text and calls sent, are those of *one* push of
all the released text. The lemma it needs is `PushPush`: a push of two pieces is two pushes. A
push is as many rounds as its buffer has characters, so the rounds of the two sides do not
match one by one. `Ends(a, b)` therefore says what the rounds from `a` lead to without counting them: `b`
stays as it is, and lies in every set of states that has `a` and is closed under `Scan`. There is one such end
(`OneEnd`), a push reaches it (`PushEnds`), and text that arrives later may as well have come before
a round (`RoundsCommute`), up to one round that then is still to be done. That in turn is
because a tag found stays the first one (`OpensLonger`, `ClosesLonger`), and text let go since it could
not begin a tag would have been let go of any longer text (`WaitsLonger`); and because
whitespace held back in two steps is what is held back in one (`AfterBoth`).

`Streamed` is about the events: until the last output the blocks hold what the frames of the other
stream do, with no block open or a text block that is the last one (`ShutAt`, `OpenAt`), and
at the end the whole answer (`Concludes`). `OutputIsSent` keeps it over one output, and
`EndIsSent` over the two flushes and the empty block of an answer with none.

`NothingLost` follows from these and from what a whole text is parsed to. `Kept(t, a)` says of a state `a`
of the parser what it still owes of the text `t`: `Split` of the rest, an open tag
included, behind what is already out. Every round keeps it (`KeptByScan`), so the end of the rounds has it
(`KeptToTheEnd`), where no block is left (`EndIsPlain`) and `flush` hands back the rest.

Recursion in these modules is by recursive functions and by `FoldLeft`, not by operators. A
recursive function is a `CHOOSE` of a table, so a fact about its values needs that such a table exists, which is
shown by induction on a bound (`RoundsExist`, `FoldsExist`, `SplitExists`), and induction is applied as the
statement that a set of counterexamples is empty (`NoCounterexample`), since an induction theorem over a formula is
nothing that the provers can instantiate.

Only model-checked: the liveness of `MetalEngine` (`EveryRequestEnds`) and of `AsyncEngine`
(`SubmitsAreAnswered`, `StreamsEnd`, `SlotsComeBack`), since fairness and `ENABLED` are out of
the prover's reach, and the reference definitions that `MCMLXEngine` holds `NgramTable` against.
`BoundedSeq` limits the texts of `Replies` by `MaxText` in the proofs too, but that is any number.

## 5. Findings

- **A raising row strands its peers** (`engine_stranded`; `metal_engine.py:494`). The rows behind
  it are committed and never sampled; a request whose prompt was completed by that step has
  nothing to decode, is never planned again and keeps `has_work` true.
- **An error is reported to nobody** (`async_lost_error`; `async_engine.py:227`). A request that is
  admitted but not yet registered on the loop when a step raises is missed by
  `_fail_open_streams`; its handler awaits a stream that nothing ends.
- **Pending draft logits are shared** (`draft_pending`; `draft.py:98`). Any decode for another request
  replaces the row that the next proposal samples.
- **A rebuilt MLX cache lacks the drafts just accepted** (`mlx_refill`; `mlx_engine.py:488`). Later
  output of that request is drawn after a wrong context.

Seen while modelling, without a run of its own: `_verify_rows` increments `n_pos` before each
check (`metal_engine.py:757`), so a request that drafts ends with reason `context` one token
before its slot is full, against the comment at line 753. `stop()` goes on after ten seconds whether or
not the worker has ended (`async_engine.py:88`). `AsyncEngine` has that step; after it the
comments at lines 89 (no consumer left awaiting) and 97 (only one thread touches the engine)
do not hold, and the history `missed` excludes what follows. A prefill on the MLX path is one step, so a
long prompt is enough. An MLX generator that raised is taken for one that ended
(`mlx_engine.py:601`), which `MLXEngine` models and `SpeculationIsLossless` excludes by
`broken`.

Also without a run; the modules behave as the code does, and a property excepts the case by name:

- a draft prefill that raises at a later chunk leaves the earlier ones: `release` does not know the request yet and
  returns (`draft.py:144`), so they stay on a slot nobody holds until the next `prepare` there, against the comment at
  `metal_engine.py:402` (`StreamsMatchRequests`);
- tokens accepted on the plain path, the first after a prompt for one, never reach the draft, so its proposals lie
  one position early until a sync, and that sync keeps the first of them also when the target rejected it
  (`draft.py:126`), against the docstring at `draft.py:9`. Output is not concerned, only how often drafts are accepted
  (`SyncsStayInStep`);
- a handler that is killed while it awaits `submit`, or whose response is dropped before its generator starts,
  never calls `release()` (`app.py:320`): its request runs to its cap for nobody (`SlotsHaveOwners`), and if a step
  that raises skips its row, it runs no more and keeps its slot for ever (`SlotsComeBack`), which is what
  `test_slot_release_on_abnormal_exit.py:1` is there to exclude;
- the MLX window depends on the path: a request with a cache of its own, by speculation, prompt cache or quantised
  KV, ends with reason `context` when its text fills `n_ctx` (`mlx_engine.py:570`), where `_step_stream` goes on,
  against `test_mlx_engine.py:234` (`SpeculationIsLossless`);
- all snapshots share one slot, and the KV of an earlier one is replaced by a later save while the snapshot stays
  marked live (`kv_snapshot.py:102`), against the comment at line 29 (`SnapshotsHoldTheirText`, and `inexact` for what
  is restored from it).

And further:

- on the MLX path the last token of a request that ends by cap or stop sequence is in `output_tokens`,
  but its `StepOutput` has no piece (`mlx_engine.py:630` and 632), while on the manual path an end-of-generation token has one
  (`mlx_engine.py:622`), against `app.py:348`;
- a KV file may be older than the JSON beside it (`kv_snapshot.py:149`); a load that raises while reading has
  popped a slot that nobody puts back (line 212). `KVSnapshot` models both, and `inexact` and
  `leaked` mark what they spoil, as they do for an overwritten slot;
- a `.bin` restore that raises between registration and sampler (`kv_snapshot.py:236`, malformed params) leaves that
  request in flight and admits a second one; `LoadBinary` leaves it out, as it leaves out malformed params;
- the engine ignores the stop sequences of a restored request, which has no stop filter; with a unified KV
  the copy to the reserved slot would share cells; saving a request that has
  retired copies an empty or a foreign slot; an explicit `new_request_id` may replace
  a live request;
- a draft of the table is a chain of trigrams, and not always a run that the request emitted, as `ngram.py:36` says;
- when the bridge closes a stream, the OpenAI stream ends without the text that the filter holds
  (`app.py:512`), the whole answer has it.

## 6. Plan

Done, in this order: `MetalEngine` with `Generation` and its proofs, `AsyncEngine`,
`DraftMirror`, `MLXEngine`; `StopFilter`, `ToolParser` and `Replies`; `KVSnapshot`; `NgramTable`; the proofs of all
safety properties. Next:

1. `ExpertHotlist` as functions against a reference definition.
2. `Context`: guards of the copy, removal and state calls in `csrc/context.cpp`.
3. The prompt side of `server/tools.py` and the routes: tools and conversations flattened into messages.

Not modelled and not planned: tokenisation, templates and the binding (external library behind
glue), request validation and formatting (single expressions), command line, tuning and one-shot
scripts (sequential).

## 7. Running

    tlc -workers 2 -config MCEngineCache.cfg MCMetalEngine.tla
    tlapm MetalEngineProofs.tla
    tlapm AsyncEngineProofs.tla
    tlapm MetalTextProofs.tla
    tlapm AsyncDeliveryProofs.tla
    tlapm DraftMirrorProofs.tla
    tlapm MLXEngineProofs.tla
    tlapm KVSnapshotProofs.tla
    tlapm RepliesProofs.tla

`PROJECT.json` lists the runs, for each property a mutant of the model that breaks it, the source
lines of every definition, the hazards and the findings.
