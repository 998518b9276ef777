----------------------------- MODULE DraftMirror ------------------------------
(***************************************************************************)
(* DraftEngine (python/bwr/engine/draft.py) behind MetalEngine's           *)
(* verification: the draft context's KV, the logits rows of its last       *)
(* decode, and for every request a stream of the next position and the row *)
(* that the next proposal starts from.                                     *)
(*                                                                         *)
(* Both models are greedy.  A step proposes for its continuation rows one  *)
(* after the other, decodes on the target, then verifies its rows and      *)
(* syncs each draft stream; prompts that the step completes and rows       *)
(* without drafts take the plain path, which never touches the stream.     *)
(* A row that raises leaves the rows behind it committed and unverified:    *)
(* the target goes on with those requests behind tokens it never accepted, *)
(* and what it draws there is left open.  Sequence slots, batches and      *)
(* finish rules are MetalEngine's.                                         *)
(***************************************************************************)
EXTENDS Integers, FiniteSets, SequencesExt

CONSTANTS
  Slots,        \* sequence slots of both contexts
  NCtxSeq,      \* KV cells of one slot
  NBatch,       \* rows of a draft batch
  Token,        \* the vocabulary
  Target,       \* Target[c]: what the target draws after context c
  Draft,        \* Draft[c]: what the draft model draws
  Prompts,      \* prompts of clients
  MaxDrafts,    \* draft_max_drafts
  MaxRequests   \* bound on the requests of a behaviour

Contexts == UNION {[1 .. n -> Token] : n \in 1 .. NCtxSeq}

ASSUME MirrorAssumption ==
  /\ NCtxSeq \in Nat \ {0} /\ NBatch \in Nat \ {0}
  /\ MaxDrafts \in Nat /\ MaxRequests \in Nat
  /\ Target \in [Contexts -> Token]
  /\ Draft \in [Contexts -> Token]
  /\ \A p \in Prompts : p \in Seq(Token) /\ Len(p) \in 1 .. NCtxSeq - 1

VARIABLES
  nextId,    \* bound: ids given out
  req,       \* the target's requests: id -> [slot, prompt, out, stage]
  stream,    \* _seq, _pos and _pending_row: id -> [slot, pos, row]
  cells,     \* KV of the draft context: slot -> tokens
  logits,    \* rows of its last decode: the row's context, << >> if not flagged
  plan,      \* rows of this step still to be planned
  rows,      \* rows of this step still to be verified: id -> drafts
  ahead,     \* id -> rows of the target's KV that were never verified
  unsynced,  \* history: requests whose proposal was never followed by a sync
  since      \* history: id -> cells of its draft at its last proposal from behind

vars == <<nextId, req, stream, cells, logits, plan, rows, ahead, unsynced, since>>

-----------------------------------------------------------------------------

Least(a, b) == IF a <= b THEN a ELSE b
Minus(f, r) == Restrict(f, DOMAIN f \ {r})
Plus(f, r, x) == [q \in DOMAIN f \cup {r} |-> IF q = r THEN x ELSE f[q]]

Text(r) == req[r].prompt \o req[r].out
NPos(r) == Len(Text(r)) - 1 + ahead[r]   \* of a request with a pending token
InStage(stage) == {r \in DOMAIN req : req[r].stage = stage}
Idle == plan = {} /\ DOMAIN rows = {}

\* The rows of r lie within its slot of the target's KV.
RowsFit(r) == NPos(r) + Len(rows[r]) < NCtxSeq

Init ==
  /\ nextId = 0
  /\ req = << >>
  /\ stream = << >>
  /\ cells = [s \in Slots |-> << >>]
  /\ logits = << >>
  /\ plan = {}
  /\ rows = << >>
  /\ ahead = << >>
  /\ unsynced = {}
  /\ since = << >>

\* The context of logits row i; << >> if sample_seq would raise for it.
RowContext(i) == IF i \in DOMAIN logits THEN logits[i] ELSE << >>

-----------------------------------------------------------------------------
(* Admission and release. *)

\* The rows of prepare's last chunk: only the prompt's last token is flagged.
LastChunk(prompt) ==
  LET n == ((Len(prompt) - 1) % NBatch) + 1
  IN  [i \in 1 .. n |-> IF i = n THEN prompt ELSE << >>]

\* add_request with draft.prepare.
Admit(prompt) ==
  /\ Idle
  /\ nextId < MaxRequests
  /\ \E s \in Slots \ {req[r].slot : r \in DOMAIN req} :
       /\ req' = Plus(req, nextId, [slot |-> s, prompt |-> prompt,
                                    out |-> << >>, stage |-> "prefill"])
       /\ stream' = Plus(stream, nextId, [slot |-> s, pos |-> Len(prompt),
                                          row |-> Len(LastChunk(prompt))])
       /\ cells' = [cells EXCEPT ![s] = prompt]
  /\ logits' = LastChunk(prompt)
  /\ nextId' = nextId + 1
  /\ ahead' = Plus(ahead, nextId, 0)
  /\ since' = Plus(since, nextId, Len(prompt))
  /\ UNCHANGED <<plan, rows, unsynced>>

\* What prepare has decoded of a prompt when a chunk raises.
FirstChunks(prompt) ==
  {SubSeq(prompt, 1, n) : n \in {k \in 0 .. Len(prompt) - 1 : k % NBatch = 0}}

\* add_request with a prepare that raises: the request is cancelled, but release
\* does not know it yet and leaves the chunks that were decoded on the slot.
AdmitFails(prompt) ==
  /\ Idle
  /\ nextId < MaxRequests
  /\ \E s \in Slots \ {req[r].slot : r \in DOMAIN req}, part \in FirstChunks(prompt) :
       /\ cells' = [cells EXCEPT ![s] = part]
       /\ logits' = << >> \/ (part = << >> /\ UNCHANGED logits)
  /\ nextId' = nextId + 1
  /\ ahead' = Plus(ahead, nextId, 0)
  /\ since' = Plus(since, nextId, 0)
  /\ UNCHANGED <<req, stream, plan, rows, unsynced>>

\* Mutant of Release: the KV of the slot stays.
ReleaseStream(r) ==
  /\ stream' = Minus(stream, r)
  /\ cells' = cells

\* release, from the end of _retire.
Release(r) ==
  /\ stream' = Minus(stream, r)
  /\ cells' = [cells EXCEPT ![stream[r].slot] = << >>]

Cancel(r) ==
  /\ Idle
  /\ req' = Minus(req, r)
  /\ Release(r)
  /\ UNCHANGED <<nextId, logits, plan, rows, ahead, unsynced, since>>

-----------------------------------------------------------------------------
(* Planning: propose, for one continuation row after the other. *)

\* The policy picks continuation rows and the prompts that this step completes.
BeginStep ==
  /\ Idle
  /\ \E chosen \in SUBSET InStage("ready"), done \in SUBSET InStage("prefill") :
       /\ chosen \cup done # {}
       /\ plan' = chosen
       /\ rows' = [r \in done |-> << >>]
  /\ UNCHANGED <<nextId, req, stream, cells, logits, ahead, unsynced, since>>

\* An exception before the target commits: earlier rows have already proposed.
PlanAborted(proposed) ==
  /\ plan' = {}
  /\ rows' = << >>
  /\ unsynced' = unsynced \cup proposed
                   \cup {q \in DOMAIN rows : rows[q] # << >>}

\* No spare row or no room: the row goes without drafts.
PlanPlain(r) ==
  /\ plan' = plan \ {r}
  /\ rows' = Plus(rows, r, << >>)
  /\ UNCHANGED <<stream, cells, logits, unsynced>>

\* The n drafts that propose draws, the first from the pending row.
IsProposal(r, d) ==
  LET s == stream[r].slot
  IN  \A i \in DOMAIN d :
        d[i] = Draft[IF i = 1 THEN RowContext(stream[r].row)
                     ELSE cells[s] \o SubSeq(d, 1, i - 1)]

\* propose: every draft is decoded at the next position of its slot.
ProposeDrafts(r, d) ==
  LET s == stream[r].slot
  IN  /\ RowContext(stream[r].row) # << >>
      /\ stream[r].pos = Len(cells[s])
      /\ stream[r].pos + Len(d) <= NCtxSeq
      /\ IsProposal(r, d)
      /\ cells' = [cells EXCEPT ![s] = @ \o d]
      /\ stream' = [stream EXCEPT ![r].pos = @ + Len(d), ![r].row = 1]
      /\ logits' = <<cells[s] \o d>>
      /\ plan' = plan \ {r}
      /\ rows' = Plus(rows, r, d)
      /\ UNCHANGED unsynced

\* sample_seq raises: the pending row is not a flagged row of the last decode.
ProposeUnsampled(r) ==
  /\ RowContext(stream[r].row) = << >>
  /\ UNCHANGED <<stream, cells, logits>>
  /\ PlanAborted({})

\* A decode of propose is refused after the drafts d: the slot is full, or its
\* next position is not the stream's.
ProposeRefused(r, d) ==
  LET s == stream[r].slot
  IN  /\ RowContext(stream[r].row) # << >>
      /\ IF stream[r].pos = Len(cells[s])
         THEN stream[r].pos + Len(d) = NCtxSeq
         ELSE d = << >>
      /\ IsProposal(r, d)
      /\ cells' = [cells EXCEPT ![s] = @ \o d]
      /\ logits' = << >>
      /\ UNCHANGED stream
      /\ PlanAborted({r})

\* _plan_model_drafts for the first row that is left.
Propose ==
  /\ plan # {}
  /\ LET r == Min(plan)
         allow == Least(MaxDrafts, NCtxSeq - NPos(r) - 1)
     IN  \/ PlanPlain(r)
         \/ /\ allow > 0
            /\ \/ \E n \in 1 .. allow : \E d \in [1 .. n -> Token] : ProposeDrafts(r, d)
               \/ ProposeUnsampled(r)
               \/ \E d \in BoundedSeq(Token, allow - 1) : ProposeRefused(r, d)
  /\ UNCHANGED <<nextId, req, ahead, since>>

\* The target's decode refuses a row that does not fit.
TargetRefuses ==
  /\ plan = {}
  /\ \E r \in DOMAIN rows : ~ RowsFit(r)
  /\ PlanAborted({})
  /\ UNCHANGED <<nextId, req, stream, cells, logits, ahead, since>>

-----------------------------------------------------------------------------
(* Verification, once the target has decoded: prompts first, then by id. *)

NextRow ==
  LET completed == DOMAIN rows \cap InStage("prefill")
  IN  IF completed # {} THEN Min(completed) ELSE Min(DOMAIN rows)

\* The accepted tokens of row r: matching drafts and the token after them.
AcceptedTokens(r) ==
  LET after(i) == Target[Text(r) \o SubSeq(rows[r], 1, i)]
      m == Max({n \in 0 .. Len(rows[r]) : \A i \in 1 .. n : rows[r][i] = after(i - 1)})
  IN  Append(SubSeq(rows[r], 1, m), after(m))

\* What the target may accept of row r: behind rows it never verified, anything.
Accepted(r) ==
  IF ahead[r] = 0 THEN {AcceptedTokens(r)}
  ELSE {Append(SubSeq(rows[r], 1, m), t) : m \in 0 .. Len(rows[r]), t \in Token}

\* Mutant of Synced: the drafts are cut one position late.
SyncedLate(r, at, t) ==
  LET s == stream[r].slot
      kept == SubSeq(cells[s], 1, Least(at + 1, Len(cells[s])))
  IN  /\ Len(kept) = at + 1
      /\ cells' = [cells EXCEPT ![s] = Append(kept, t)]
      /\ stream' = [stream EXCEPT ![r].pos = at + 2, ![r].row = 1]
      /\ logits' = <<Append(kept, t)>>

\* sync: drop what lies at or after position at, decode the confirmed token t.
Synced(r, at, t) ==
  LET s == stream[r].slot
      kept == SubSeq(cells[s], 1, Least(at, Len(cells[s])))
  IN  /\ Len(kept) = at
      /\ cells' = [cells EXCEPT ![s] = Append(kept, t)]
      /\ stream' = [stream EXCEPT ![r].pos = at + 1, ![r].row = 1]
      /\ logits' = <<Append(kept, t)>>

\* The decode of sync is refused, its position not following on the slot's.
SyncRefused(r, at) ==
  /\ Len(cells[stream[r].slot]) < at
  /\ logits' = << >>
  /\ UNCHANGED <<stream, cells>>

\* The drafts of row r were proposed for an earlier position than the target's:
\* tokens of the plain path had not been given to the draft.
Behind(r) == Len(cells[stream[r].slot]) - Len(rows[r]) # NPos(r) + 1

\* A request that goes on with output out.
Going(r, out) == [req EXCEPT ![r].out = out, ![r].stage = "ready"]

\* The rows still in the step are committed but never verified (MetalEngine's
\* stranded): a prompt is never planned again, a continuation row goes on with
\* its old pending token behind the rows.
Skips(skipped) ==
  /\ rows' = << >>
  /\ ahead' = [q \in DOMAIN ahead |->
                 IF q \in skipped \cap InStage("ready") THEN ahead[q] + 1 + Len(rows[q])
                 ELSE ahead[q]]
  /\ unsynced' = unsynced \cup DOMAIN rows

Stranded(skipped) ==
  [q \in DOMAIN req |->
     IF q \in skipped \cap InStage("prefill") THEN [req[q] EXCEPT !.stage = "stranded"]
     ELSE req[q]]

\* The plain path: one token, and the draft stream is left alone.
AdvancePlain(r, accepted) ==
  LET out == req[r].out \o accepted
  IN  /\ rows[r] = << >>
      /\ rows' = Minus(rows, r)
      /\ \/ /\ NPos(r) + 1 < NCtxSeq
            /\ req' = Going(r, out)
            /\ UNCHANGED <<stream, cells>>
         \/ /\ req' = Minus(req, r)
            /\ Release(r)
      /\ UNCHANGED <<logits, ahead, unsynced, since>>

\* Mutant of VerifyEnds: the row of the ended request stays in the step.
VerifyEndsTwice(r) ==
  /\ rows[r] # << >>
  /\ req' = Minus(req, r)
  /\ Release(r)
  /\ UNCHANGED <<logits, rows, ahead, unsynced, since>>

\* A request that ends at any of its accepted tokens releases its stream.
VerifyEnds(r) ==
  /\ rows[r] # << >>
  /\ rows' = Minus(rows, r)
  /\ req' = Minus(req, r)
  /\ Release(r)
  /\ UNCHANGED <<logits, ahead, unsynced, since>>

\* A row that raises retires its request and skips the rows behind it.
RowRaises(r) ==
  LET others == DOMAIN rows \ {r}
  IN  /\ Skips(others)
      /\ req' = Minus(Stranded(others), r)
      /\ Release(r)
      /\ UNCHANGED <<logits, since>>

\* The request goes on: sync confirms the last accepted token.
VerifySyncs(r, accepted) ==
  LET out == req[r].out \o accepted
      at == NPos(r) + Len(accepted)
  IN  /\ rows[r] # << >>
      /\ at + 1 < NCtxSeq
      /\ req' = Going(r, out)
      /\ \/ /\ Synced(r, at, Last(accepted))
            /\ rows' = Minus(rows, r)
            /\ since' = [since EXCEPT ![r] = IF Behind(r) THEN at ELSE @]
            /\ UNCHANGED <<ahead, unsynced>>
         \/ /\ SyncRefused(r, at)
            /\ Skips(DOMAIN rows \ {r})
            /\ UNCHANGED since

Verify ==
  /\ plan = {}
  /\ DOMAIN rows # {}
  /\ \A q \in DOMAIN rows : RowsFit(q)
  /\ LET r == NextRow
     IN  \/ \E a \in Accepted(r) : AdvancePlain(r, a) \/ VerifySyncs(r, a)
         \/ VerifyEnds(r)
         \/ RowRaises(r)
  /\ UNCHANGED <<nextId, plan>>

Next ==
  \/ \E p \in Prompts : Admit(p) \/ AdmitFails(p)
  \/ \E r \in DOMAIN req : Cancel(r)
  \/ BeginStep
  \/ Propose
  \/ TargetRefuses
  \/ Verify

Spec == Init /\ [][Next]_vars

-----------------------------------------------------------------------------
(* Properties. *)

Ids == 0 .. nextId - 1

\* The shape of the draft side's state.
TypeOK ==
  /\ nextId \in 0 .. MaxRequests
  /\ DOMAIN req \subseteq Ids
  /\ req \in [DOMAIN req ->
               [slot : Slots, prompt : Prompts, out : Seq(Token),
                stage : {"prefill", "ready", "stranded"}]]
  /\ stream \in [DOMAIN stream ->
                  [slot : Slots, pos : 0 .. NCtxSeq, row : 1 .. NBatch]]
  /\ cells \in [Slots -> BoundedSeq(Token, NCtxSeq)]
  /\ logits \in Seq(BoundedSeq(Token, NCtxSeq))
  /\ plan \subseteq DOMAIN req
  /\ DOMAIN rows \subseteq DOMAIN req
  /\ rows \in [DOMAIN rows -> BoundedSeq(Token, MaxDrafts)]
  /\ ahead \in [Ids -> 0 .. NCtxSeq]
  /\ unsynced \subseteq Ids
  /\ since \in [Ids -> 0 .. NCtxSeq]

\* Every request in flight has a draft stream on its own slot, and no draft
\* outlives its request (draft.py:139), but for one case: a slot that no request
\* holds is empty or holds the first chunks of a prompt whose prepare raised.
StreamsMatchRequests ==
  /\ DOMAIN stream = DOMAIN req
  /\ \A r \in DOMAIN req : stream[r].slot = req[r].slot
  /\ \A s \in Slots :
       \/ \E r \in DOMAIN req : req[r].slot = s
       \/ cells[s] = << >>
       \/ \E p \in Prompts : cells[s] \in FirstChunks(p)

\* Between steps, of a request none of whose calls raised: its draft is at most
\* as long as its text, its stream stands at the end of the draft, and the draft
\* holds the prompt and, from its last proposal from behind on, the accepted
\* tokens at the target's positions, so that one sync brings it back in step and
\* it stays there for as long as every token reaches it.  Nothing is said of the
\* cells between the prompt and that proposal: they keep what was proposed from
\* behind, also when the target rejected it (draft.py:111).
SyncsStayInStep ==
  Idle => \A r \in DOMAIN req \ unsynced :
            LET own == cells[req[r].slot]
            IN  /\ Len(own) <= Len(Text(r))
                /\ stream[r].pos = Len(own)
                /\ \A i \in 1 .. Len(own) :
                     i <= Len(req[r].prompt) \/ i > since[r] => own[i] = Text(r)[i]

\* Every call leaves pending logits behind, which make the next one valid
\* (draft.py:19): the pending row of a request is the one row of the last
\* decode that was conditioned on its own tokens.
PendingLogits ==
  Idle => \A r \in DOMAIN req \ unsynced :
            RowContext(stream[r].row) = cells[stream[r].slot]
==============================================================================
