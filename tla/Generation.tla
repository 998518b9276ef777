----------------------------- MODULE Generation ------------------------------
(***************************************************************************)
(* What an engine promises its clients, whatever slots, batches, pins or   *)
(* drafts it uses: the output of a request grows by tokens that are each   *)
(* drawn after the request's own prompt and earlier output, and it ends by *)
(* the finish rules of the one-token-per-step path.                        *)
(***************************************************************************)
EXTENDS Integers, Sequences

CONSTANTS
  NCtxSeq,   \* KV cells of a request
  Token,     \* the vocabulary
  Eog,       \* the end-of-generation token
  Support,   \* Support[c]: the tokens that may be drawn after context c
  Prompts,   \* prompts of clients
  Params,    \* request parameters of clients
  Ids,       \* request ids
  MaxBurst   \* most tokens that a request gains at once

VARIABLES
  live,      \* requests being served: id -> [prompt, params, out]
  ended      \* the request that ended last, with its reason; << >> at first

gvars == <<live, ended>>

Bursts == UNION {[1 .. n -> Token] : n \in 1 .. MaxBurst}

GInit == live = << >> /\ ended = << >>

\* Every token of burst t is drawn after all the tokens before it, which fit in
\* the request's cells.
Drawn(req, t) ==
  LET text == req.prompt \o req.out \o t
      n == Len(text) - Len(t)
  IN  /\ Len(text) - 1 <= NCtxSeq
      /\ \A i \in 1 .. Len(t) : t[i] \in Support[SubSeq(text, 1, n + i - 1)]

\* Why a request ends at the newest token of out; hit: a stop sequence is
\* complete.
Rule(req, out, hit) ==
  IF out[Len(out)] = Eog THEN "eog"
  ELSE IF hit THEN "stop_sequence"
  ELSE IF Len(out) >= req.params.maxTokens THEN "length"
  ELSE IF Len(req.prompt) + Len(out) > NCtxSeq THEN "context"
  ELSE "none"

\* No token of t before its n-th ends the request.
GoesOn(req, t, n) ==
  \A i \in 1 .. n : Rule(req, req.out \o SubSeq(t, 1, i), FALSE) = "none"

Ending(r, out, reason) ==
  /\ live' = [q \in DOMAIN live \ {r} |-> live[q]]
  /\ ended' = <<[id |-> r, prompt |-> live[r].prompt, out |-> out,
                 reason |-> reason]>>

Admit(r, prompt, params) ==
  /\ r \notin DOMAIN live
  /\ live' = [q \in DOMAIN live \cup {r} |->
                IF q = r THEN [prompt |-> prompt, params |-> params,
                               out |-> << >>]
                ELSE live[q]]
  /\ UNCHANGED ended

Extend(r) ==
  /\ \E t \in Bursts :
       /\ Drawn(live[r], t)
       /\ GoesOn(live[r], t, Len(t))
       /\ live' = [live EXCEPT ![r].out = @ \o t]
  /\ UNCHANGED ended

\* The last token of the burst ends the request; an end-of-generation token is
\* not part of the output.
Finish(r) ==
  \E t \in Bursts, hit \in BOOLEAN :
    LET out == live[r].out \o t
        reason == Rule(live[r], out, hit)
    IN  /\ Drawn(live[r], t)
        /\ GoesOn(live[r], t, Len(t) - 1)
        /\ hit => live[r].params.stop
        /\ reason # "none"
        /\ Ending(r, IF reason = "eog" THEN SubSeq(out, 1, Len(out) - 1) ELSE out,
                  reason)

Abandon(r) == Ending(r, live[r].out, "cancelled")

GNext ==
  \/ \E r \in Ids, p \in Prompts, q \in Params : Admit(r, p, q)
  \/ \E r \in DOMAIN live : Extend(r) \/ Finish(r) \/ Abandon(r)

GSpec == GInit /\ [][GNext]_gvars
==============================================================================
