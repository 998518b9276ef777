------------------------------ MODULE MLXEngine -------------------------------
(***************************************************************************)
(* MLXEngine (python/bwr/engine/mlx_engine.py): one mlx-lm generator per   *)
(* request (stream path) or one owned cache per request (manual path, for  *)
(* n-gram speculation, the prompt cache and quantized KV), advanced one    *)
(* request after the other by step().                                      *)
(*                                                                         *)
(* A cache is the sequence of tokens it was fed; the model is the function *)
(* Target of that sequence, mlx-lm's generator its unrolling from the      *)
(* prompt.  Request ids, prompts and caps stand for RequestState;          *)
(* n_generated is Len(out) and next_token the last token of out, which     *)
(* every call of _feed restores.  A step of one request is atomic and      *)
(* nothing else runs between the requests of one step() call.              *)
(***************************************************************************)
EXTENDS Integers, FiniteSets, SequencesExt

CONSTANTS
  NCtx,             \* config.n_ctx
  Token,            \* the vocabulary
  Eog, Stop,        \* end of generation; a token that completes a stop sequence
  Target(_),        \* Target(c): argmax of the model after the tokens c
  Drafts(_, _, _),  \* Drafts(p, o, n): at most n tokens that the n-gram table of prompt
                    \* p and output o may predict
  Prompts, Caps,    \* prompts and max_tokens of clients
  Configs,          \* engine configurations: [speculative, prefixCache, kvBits]
  MaxDrafts,        \* spec_max_drafts
  MinDrafts,        \* _SPEC_FALLBACK_MIN_DRAFTS
  MinRecomputes,    \* _SPEC_FALLBACK_MIN_RECOMPUTES
  MinPrefix,        \* prefix_cache_min_tokens
  PrefixSize,       \* mlx_prefix_cache_size, at least 1
  RetiredLimit,     \* finished requests that are kept
  Faults,           \* may a call into mlx raise?
  MaxRequests       \* bound on the requests of a behaviour

ASSUME MLXAssumption ==
  /\ NCtx \in Nat /\ Caps \subseteq Nat \ {0}
  /\ MaxDrafts \in Nat /\ MinDrafts \in Nat /\ MinRecomputes \in Nat
  /\ MinPrefix \in Nat /\ PrefixSize \in Nat \ {0} /\ RetiredLimit \in Nat
  /\ Faults \in BOOLEAN /\ MaxRequests \in Nat
  /\ Configs \subseteq [speculative : BOOLEAN, prefixCache : BOOLEAN, kvBits : BOOLEAN]
  /\ \A p \in Prompts : p \in Seq(Token) /\ Len(p) \in 1 .. NCtx - 1
  /\ \A p \in Prompts, c \in Caps : \A o \in BoundedSeq(Token, c - 1) :
       /\ Target(p \o o) \in Token
       /\ \A n \in 0 .. MaxDrafts : Drafts(p, o, n) \subseteq BoundedSeq(Token, n)

VARIABLES
  config,    \* the engine's configuration
  nextId,    \* _next_request_id
  states,    \* _states: id -> [prompt, cap, greedy, out]
  caches,    \* _caches: id -> the tokens fed
  streams,   \* _streams: id -> [made, raised]: tokens yielded; it raised before
  spec,      \* _spec_ok and _spec_stats: id -> [ok, drafted, accepted, recomputes]
  prefix,    \* _prefix, least recently used first: [key, cache, base]
  retired,   \* _retired, oldest first: [id, prompt, cap, greedy, out, reason]
  turn,      \* requests that the current step() has still to advance
  lossy,     \* history: requests whose cache was rebuilt after a partial match
  broken     \* history: requests whose generator raised

vars == <<config, nextId, states, caches, streams, spec, prefix, retired, turn,
          lossy, broken>>

-----------------------------------------------------------------------------

Minus(f, r) == Restrict(f, DOMAIN f \ {r})
Plus(f, r, x) == [q \in DOMAIN f \cup {r} |-> IF q = r THEN x ELSE f[q]]
Newest(s, n) == SubSeq(s, Max({1, Len(s) - n + 1}), Len(s))

Text(r) == states[r].prompt \o states[r].out

Init ==
  /\ config \in Configs
  /\ nextId = 0
  /\ states = << >> /\ caches = << >> /\ streams = << >> /\ spec = << >>
  /\ prefix = << >> /\ retired = << >>
  /\ turn = {} /\ lossy = {} /\ broken = {}

-----------------------------------------------------------------------------
(* Feeding tokens and retiring. *)

\* The finish rule for token t after output out: the manual path checks the
\* context before _feed checks end of generation, stop sequence and cap.
Outcome(q, out, t, manual) ==
  IF manual /\ Len(q.prompt) + Len(out) >= NCtx THEN "context"
  ELSE IF t = Eog THEN "eog"
  ELSE IF t = Stop THEN "stop_sequence"
  ELSE IF Len(out) + 1 >= q.cap THEN "length"
  ELSE "none"

\* The output and the reason after feeding the tokens up to the first that ends
\* the request; a token that ends it by context or end of generation is left out.
Fed(q, tokens, manual) ==
  LET before(i) == q.out \o SubSeq(tokens, 1, i - 1)
      why(i) == Outcome(q, before(i), tokens[i], manual)
      n == Min({i \in DOMAIN tokens : why(i) # "none"} \cup {Len(tokens)})
  IN  [out |-> IF why(n) \in {"context", "eog"} THEN before(n)
               ELSE Append(before(n), tokens[n]),
       reason |-> why(n)]

\* Mutant of Kept: the window of finished requests is never trimmed.
KeptForever(q) == Append(retired, q)

Kept(q) == Newest(Append(retired, q), RetiredLimit)

Finished(r, result) ==
  [id |-> r, prompt |-> states[r].prompt, cap |-> states[r].cap,
   greedy |-> states[r].greedy, out |-> result.out,
   reason |-> result.reason]

\* Mutant of Retire: the cache is not popped.
RetireWithCache(r, result) ==
  /\ states' = Minus(states, r)
  /\ streams' = Minus(streams, r)
  /\ spec' = Minus(spec, r)
  /\ retired' = Kept(Finished(r, result))
  /\ UNCHANGED caches

\* _retire drops all that the request holds.
Retire(r, result) ==
  /\ states' = Minus(states, r)
  /\ caches' = Minus(caches, r)
  /\ streams' = Minus(streams, r)
  /\ spec' = Minus(spec, r)
  /\ retired' = Kept(Finished(r, result))

\* Request r is retired or goes on with result.out and what _caches, _streams and
\* the spec tables hold for it by then.
Settle(r, result, cachesNow, streamsNow, specNow) ==
  \/ result.reason # "none" /\ Retire(r, result)
  \/ /\ result.reason = "none"
     /\ states' = [states EXCEPT ![r].out = result.out]
     /\ caches' = cachesNow /\ streams' = streamsNow /\ spec' = specNow
     /\ UNCHANGED retired

Stopped(r, reason) ==
  [out |-> states[r].out, reason |-> reason]

-----------------------------------------------------------------------------
(* Admission and cancellation, between two steps. *)

AddRequest ==
  /\ turn = {}
  /\ nextId < MaxRequests
  /\ \E p \in Prompts, c \in Caps, g \in BOOLEAN :
       states' = Plus(states, nextId, [prompt |-> p, cap |-> c, greedy |-> g, out |-> << >>])
  /\ spec' = IF config.speculative \/ config.kvBits \/ config.prefixCache
             THEN Plus(spec, nextId,
                       [ok |-> TRUE, drafted |-> 0, accepted |-> 0, recomputes |-> 0])
             ELSE spec
  /\ nextId' = nextId + 1
  /\ UNCHANGED <<config, caches, streams, prefix, retired, turn, lossy, broken>>

Cancel(r) ==
  /\ turn = {}
  /\ Retire(r, Stopped(r, "cancelled"))
  /\ UNCHANGED <<config, nextId, prefix, turn, lossy, broken>>

-----------------------------------------------------------------------------
(* The manual path. *)

\* Mutant of UseManual: ownership of a cache does not count, drafting does.
UseManualWhileDrafting(r) ==
  \/ config.kvBits \/ config.prefixCache
  \/ config.speculative /\ states[r].greedy /\ spec[r].ok

UseManual(r) ==
  \/ r \in DOMAIN caches
  \/ config.kvBits \/ config.prefixCache
  \/ config.speculative /\ states[r].greedy

\* Where the prompt cache has key.
Position(key) == CHOOSE i \in DOMAIN prefix : prefix[i].key = key

\* Mutant of Snapshot: taken with the base token in it.
SnapshotPastBase(key, base) == [key |-> key, cache |-> Append(key, base), base |-> base]

Snapshot(key, base) == [key |-> key, cache |-> key, base |-> base]

\* _start_spec: a prompt-cache hit or a prefill, and the first token.
StartSpec(r) ==
  LET key == states[r].prompt
      known == config.prefixCache /\ \E j \in DOMAIN prefix : prefix[j].key = key
      i == Position(key)
      base == IF known THEN prefix[i].base ELSE Target(key)
      fed == Fed(states[r], <<base>>, TRUE)
  IN  /\ Settle(r, fed, Plus(caches, r, IF known THEN prefix[i].cache ELSE key),
                streams, spec)
      /\ prefix' = IF known THEN Append(RemoveAt(prefix, i), prefix[i])
                   ELSE IF config.prefixCache /\ Len(key) >= MinPrefix
                   THEN Newest(Append(prefix, Snapshot(key, base)), PrefixSize)
                   ELSE prefix
      /\ turn' = IF fed.reason = "none" THEN turn ELSE turn \ {r}

\* Drafts of a step: none without speculation or once it has fallen back.
Allow(r) ==
  IF config.speculative /\ spec[r].ok
  THEN Max({0, Min({MaxDrafts, states[r].cap - Len(states[r].out) - 1})})
  ELSE 0

\* Counts of a verification of n drafts, m of which matched, and the fallback.
Counted(r, n, m) ==
  LET s == [spec[r] EXCEPT !.drafted = @ + n, !.accepted = @ + m,
                           !.recomputes = IF m < n THEN @ + 1 ELSE @]
      poor == /\ s.drafted > 0
              /\ s.drafted >= MinDrafts \/ s.recomputes >= MinRecomputes
              /\ 2 * s.accepted < s.drafted
  IN  [s EXCEPT !.ok = @ /\ ~poor]

\* Mutant of Refill: the cache keeps the rejected rows.
RefillNothing(r, fed) == fed

\* _refill replays the prompt and the output as it stands, before the accepted
\* tokens of this step are appended; fed is what the cache held with the rows.
Refill(r, fed) == Text(r)

\* _verify_rows: one forward pass over the last token and the drafts.
Verify(r) ==
  \E d \in Drafts(states[r].prompt, states[r].out, Allow(r)) :
    LET rows == <<Last(Text(r))>> \o d
        after(i) == Target(caches[r] \o SubSeq(rows, 1, i))
        m == Max({n \in 0 .. Len(d) : \A i \in 1 .. n : d[i] = after(i)})
        accepted == Append(SubSeq(d, 1, m), after(m + 1))
        fed == caches[r] \o rows
        cache == IF m < Len(d) THEN Refill(r, fed) ELSE fed
    IN  /\ Settle(r, Fed(states[r], accepted, TRUE), Plus(caches, r, cache), streams,
                  Plus(spec, r, Counted(r, Len(d), m)))
        /\ lossy' = IF m \in 1 .. Len(d) - 1 THEN lossy \cup {r} ELSE lossy
        /\ turn' = turn \ {r}

\* A forward pass raises: the request is retired and step() is left.
ManualRaises(r) ==
  /\ Retire(r, Stopped(r, "error"))
  /\ turn' = {}

-----------------------------------------------------------------------------
(* The stream path. *)

\* The generator of r, made from the prompt on first use.
Generator(r) ==
  IF r \in DOMAIN streams THEN streams[r] ELSE [made |-> << >>, raised |-> FALSE]

\* What the generator may yield next; it swallows an end of generation.
Yields(r) ==
  IF states[r].greedy THEN {Target(states[r].prompt \o Generator(r).made)} ELSE Token

\* _step_stream: an exhausted generator ends the request, whatever exhausted it.
StepStream(r) ==
  /\ turn' = turn \ {r}
  /\ \/ /\ Generator(r).raised \/ Eog \in Yields(r)
        /\ Retire(r, Stopped(r, IF Len(states[r].out) >= states[r].cap THEN "length" ELSE "eog"))
     \/ \E t \in Yields(r) \ {Eog} :
          /\ ~Generator(r).raised
          /\ Settle(r, Fed(states[r], <<t>>, FALSE), caches,
                    Plus(streams, r, [made |-> Append(Generator(r).made, t),
                                      raised |-> FALSE]), spec)

\* next() raises out of step(), which retires nobody; making the generator may
\* raise as well, and is tried again.
StreamRaises(r) ==
  /\ ~Generator(r).raised
  /\ streams' \in {streams, Plus(streams, r, [Generator(r) EXCEPT !.raised = TRUE])}
  /\ broken' = broken \cup {r}
  /\ turn' = {}
  /\ UNCHANGED <<states, caches, spec, retired>>

-----------------------------------------------------------------------------
(* step() *)

BeginStep ==
  /\ turn = {}
  /\ DOMAIN states # {}
  /\ turn' = DOMAIN states
  /\ UNCHANGED <<config, nextId, states, caches, streams, spec, prefix, retired,
                 lossy, broken>>

StepManual(r) ==
  /\ UseManual(r)
  /\ UNCHANGED broken
  /\ \/ r \notin DOMAIN caches /\ StartSpec(r) /\ UNCHANGED lossy
     \/ r \in DOMAIN caches /\ Verify(r) /\ UNCHANGED prefix
     \/ Faults /\ ManualRaises(r) /\ UNCHANGED <<prefix, lossy>>

StepGenerator(r) ==
  /\ ~UseManual(r)
  /\ UNCHANGED <<prefix, lossy>>
  /\ \/ StepStream(r) /\ UNCHANGED broken
     \/ Faults /\ StreamRaises(r)

\* The requests are advanced in the order of their ids.
Advance ==
  /\ turn # {}
  /\ LET r == Min(turn) IN StepManual(r) \/ StepGenerator(r)
  /\ UNCHANGED <<config, nextId>>

Next ==
  \/ AddRequest
  \/ \E r \in DOMAIN states : Cancel(r)
  \/ BeginStep
  \/ Advance

Spec == Init /\ [][Next]_vars

-----------------------------------------------------------------------------
(* Properties. *)

Ids == 0 .. nextId - 1
Requests == [prompt : Prompts, cap : Caps, greedy : BOOLEAN, out : Seq(Token)]

\* The shape of the engine's state.
TypeOK ==
  /\ config \in Configs
  /\ nextId \in 0 .. MaxRequests
  /\ DOMAIN states \subseteq Ids /\ states \in [DOMAIN states -> Requests]
  /\ caches \in [DOMAIN caches -> Seq(Token)]
  /\ streams \in [DOMAIN streams -> [made : Seq(Token), raised : BOOLEAN]]
  /\ spec \in [DOMAIN spec -> [ok : BOOLEAN, drafted : Nat, accepted : Nat,
                               recomputes : Nat]]
  /\ \A r \in DOMAIN spec : spec[r].accepted <= spec[r].drafted
  /\ prefix \in Seq([key : Prompts, cache : Seq(Token), base : Token])
  /\ Len(retired) <= RetiredLimit
  /\ turn \subseteq DOMAIN states
  /\ lossy \cup broken \subseteq Ids

\* An owned cache holds the request's text without its last token, which the
\* next verification feeds: what _refill rebuilds and a full match leaves.
\* Requests rebuilt after a partial match are RefillIsExact's.
CachesHoldTheText ==
  \A r \in DOMAIN caches \ lossy : caches[r] = Front(Text(r))

\* The mismatch path rebuilds the cache exactly, from the prompt and the accepted
\* tokens (mlx_engine.py:480).
RefillIsExact ==
  \A r \in DOMAIN caches : caches[r] = Front(Text(r))

\* Output out of a request is the model's own continuation of its prompt, and
\* nothing before its end would have ended it on the plain path.
IsPlainRun(q) ==
  /\ Len(q.out) <= q.cap
  /\ \A i \in 1 .. Len(q.out) :
       q.out[i] = Target(q.prompt \o SubSeq(q.out, 1, i - 1))
  /\ \A i \in 1 .. Len(q.out) - 1 : q.out[i] \notin {Eog, Stop}

\* How _step_stream, one token at a time, ends a greedy request with this output:
\* it knows the stop sequences, the cap and the end of generation, and no window.
PlainEnd(q) ==
  IF Len(q.out) > 0 /\ Last(q.out) = Stop THEN "stop_sequence"
  ELSE IF Len(q.out) = q.cap THEN "length"
  ELSE IF Target(q.prompt \o q.out) = Eog THEN "eog"
  ELSE "none"

\* Under configuration c greedy requests have caches of their own.
OwnsCaches(c) == c.speculative \/ c.prefixCache \/ c.kvBits

\* A request ends as the plain path would have ended it, or was ended from outside.
\* The one exception is the window: a request with a cache of its own ends when its
\* text fills it (mlx_engine.py:570), where the plain path would have gone on.
EndsByRule(q, c) ==
  \/ q.reason \in {"cancelled", "error"}
  \/ q.reason = PlainEnd(q)
  \/ /\ q.reason = "context"
     /\ OwnsCaches(c)
     /\ Len(q.prompt) + Len(q.out) = NCtx
     /\ PlainEnd(q) \in {"none", "eog"}

\* Short of the window, speculation, fallback and prompt-cache hits do not show in
\* a greedy request: its output is the continuation of its prompt alone, it goes on
\* only where the one-token path would, and it ends where and why that path would.
\* Not so for requests whose cache was rebuilt after a partial match (RefillIsExact)
\* and for the end of those whose generator raised.
SpeculationIsLossless ==
  /\ \A r \in DOMAIN states \ lossy :
       states[r].greedy => IsPlainRun(states[r]) /\ PlainEnd(states[r]) \in {"none", "eog"}
  /\ \A i \in DOMAIN retired :
       LET q == retired[i]
       IN  q.greedy /\ q.id \notin lossy \cup broken => IsPlainRun(q) /\ EndsByRule(q, config)

\* A prompt-cache entry is a snapshot at its prompt's boundary with the token
\* that follows it, whatever the request that made it went on to decode; there
\* is one entry per prompt and never more than the configured number.
PrefixHoldsPrompts ==
  /\ Len(prefix) <= PrefixSize
  /\ \A i, j \in DOMAIN prefix : prefix[i].key = prefix[j].key => i = j
  /\ \A i \in DOMAIN prefix :
       prefix[i].cache = prefix[i].key /\ prefix[i].base = Target(prefix[i].key)

\* A request that is over holds no cache and no generator, even one that ends at
\* its first token or by an error, and no request has both.
OnlyLiveRequestsHoldCaches ==
  /\ DOMAIN caches \cup DOMAIN streams \cup DOMAIN spec \subseteq DOMAIN states
  /\ DOMAIN caches \cap DOMAIN streams = {}
==============================================================================
