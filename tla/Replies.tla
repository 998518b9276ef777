------------------------------- MODULE Replies --------------------------------
(***************************************************************************)
(* What a client gets for one request: the streamed and the whole answer   *)
(* of the OpenAI route (python/bwr/server/app.py) and of the Anthropic     *)
(* route (python/bwr/server/anthropic_api.py).                             *)
(*                                                                         *)
(* Every handler runs the outputs of the engine through a stop filter and  *)
(* what that releases through a tool-call parser.  Up to the last output   *)
(* the four do so alike, so one filter and one parser stand for those of   *)
(* all; chat and wire are what a client has assembled from the frames of   *)
(* the two streams, WholeBody is the answer without streaming.             *)
(***************************************************************************)
EXTENDS ToolParser

CONSTANTS
  Characters,    \* characters of generated text
  Requests,      \* [stops, parsing]: what clients ask for
  MaxPiece,      \* longest text of one output
  MaxText        \* bound on the generated text

ASSUME RepliesAssumption ==
  /\ Open \in Seq(Characters) /\ Close \in Seq(Characters)
  /\ Requests \subseteq [stops : Seq(Seq(Characters)), parsing : BOOLEAN]
  /\ MaxPiece \in Nat /\ MaxText \in Nat

VARIABLES
  request,    \* params.stop as the client sent it; whether known_tools is a set
  said,       \* history: the text of the outputs read so far
  stopper,    \* StopSequenceFilter
  parser,     \* ToolCallStreamParser
  raw,        \* parts: what the stop filter has released
  chat,       \* OpenAI: [content, calls, reason] of the frames so far
  wire,       \* Anthropic: [blocks, open, ok, reason, stop] of the events so far
  index,      \* _stream's index
  textOpen,   \* _stream's text_open
  phase       \* "reading"; "finished" or "closed": after the last output, or
              \* without one; "gone": the client left or the stream raised

vars == <<request, said, stopper, parser, raw, chat, wire, index, textOpen, phase>>

Stops == F!Normalized(request.stops)

Init ==
  /\ request \in Requests
  /\ said = << >> /\ raw = << >>
  /\ stopper = F!NewFilter
  /\ parser = NewParser
  /\ chat = [content |-> << >>, calls |-> << >>, reason |-> "none"]
  /\ wire = [blocks |-> << >>, open |-> {}, ok |-> TRUE, reason |-> "none", stop |-> F!NoStop]
  /\ index = 0 /\ textOpen = FALSE
  /\ phase = "reading"

-----------------------------------------------------------------------------
(* Reasons. *)

\* reasons.py, for the ways a stream ends that a client reads to the end.
OpenAIReason(reason) ==
  IF reason \in {"length", "context"} THEN "length" ELSE "stop"
AnthropicReason(reason) ==
  CASE reason \in {"length", "context"} -> "max_tokens"
    [] reason = "stop_sequence" -> "stop_sequence"
    [] OTHER -> "end_turn"

-----------------------------------------------------------------------------
(* The parser in front of a client: off unless tools were offered. *)

ParserPush(p, piece) ==
  IF request.parsing THEN Push(p, piece)
  ELSE [parser |-> p, text |-> piece, calls |-> << >>]

ParserFlush(p) == IF request.parsing THEN Flush(p) ELSE << >>

-----------------------------------------------------------------------------
(* The client's side of the Anthropic stream: a block starts at the next    *)
(* index, gets deltas while it is open, and stops once.                     *)

BlockStart(w, i, block) ==
  [w EXCEPT !.ok = @ /\ i = Len(w.blocks) /\ w.open = {},
            !.blocks = Append(@, block), !.open = @ \cup {i}]

\* A block is [kind, text], text being that of a text block or the call's body.
Lengthened(blocks, i, text) == [blocks EXCEPT ![i].text = @ \o text]
BlockDelta(w, i, text) ==
  [w EXCEPT !.ok = @ /\ i \in w.open,
            !.blocks = IF i + 1 \in DOMAIN @ THEN Lengthened(@, i + 1, text) ELSE @]

BlockStop(w, i) == [w EXCEPT !.ok = @ /\ i \in w.open, !.open = @ \ {i}]

-----------------------------------------------------------------------------
(* The handler's side: s is [wire, index, textOpen]. *)

Current == [wire |-> wire, index |-> index, textOpen |-> textOpen]

EmptyBlock(kind) == [kind |-> kind, text |-> << >>]

TextSent(s, text) ==
  IF text = << >> THEN s
  ELSE LET w == IF s.textOpen THEN s.wire ELSE BlockStart(s.wire, s.index, EmptyBlock("text"))
       IN  [s EXCEPT !.wire = BlockDelta(w, s.index, text), !.textOpen = TRUE]

\* Mutant of TextClosed: the index is not advanced.
TextClosedInPlace(s) ==
  IF s.textOpen THEN [s EXCEPT !.wire = BlockStop(@, s.index), !.textOpen = FALSE] ELSE s

TextClosed(s) ==
  IF s.textOpen
  THEN [wire |-> BlockStop(s.wire, s.index), index |-> s.index + 1, textOpen |-> FALSE]
  ELSE s

\* emit_call: a whole tool_use block, behind the text block that may be open.
CallSent(s, body) ==
  LET t == TextClosed(s)
      started == BlockStart(t.wire, t.index, EmptyBlock("tool_use"))
  IN  [t EXCEPT !.wire = BlockStop(BlockDelta(started, t.index, body), t.index),
                !.index = @ + 1]

CallsSent(s, calls) == FoldLeft(CallSent, s, calls)

\* No block at all: one empty text block is sent, at index 0.
AtLeastOneBlock(s, nCalls) ==
  IF s.index = 0 /\ nCalls = 0
  THEN [s EXCEPT !.wire = BlockStop(BlockStart(@, 0, EmptyBlock("text")), 0)]
  ELSE s

\* Mutant of TailSent: what the stop filter withheld is forgotten.
TailSentWithoutHeld(s, p, filter) ==
  LET t == CallsSent(TextClosed(TextSent(s, ParserFlush(p))), << >>)
  IN  [s |-> AtLeastOneBlock(t, p.nCalls), nCalls |-> p.nCalls]

\* Behind the last output: first what the filter, then what the parser held.
TailSent(s, p, filter) ==
  LET a == ParserPush(p, F!Flush(filter))
      t == CallsSent(TextClosed(TextSent(s, a.text \o ParserFlush(a.parser))), a.calls)
  IN  [s |-> AtLeastOneBlock(t, a.parser.nCalls), nCalls |-> a.parser.nCalls]

\* message_delta: the reason, and the sequence if that is the reason.
MessageEnded(tail, reason, filter) ==
  LET why == IF tail.nCalls > 0 THEN "tool_use" ELSE AnthropicReason(reason)
  IN  [tail.s.wire EXCEPT !.reason = why,
                          !.stop = IF why = "stop_sequence" THEN filter.matched ELSE F!NoStop]

-----------------------------------------------------------------------------
(* Actions: one output, the last output, an end without one. *)

Reading(piece) ==
  /\ phase = "reading"
  /\ Len(said) + Len(piece) <= MaxText
  /\ said' = said \o piece
  /\ UNCHANGED request

\* An output after which both handlers go on.
ReadMore(piece) ==
  LET out == F!Push(Stops, stopper, piece)
      a == ParserPush(parser, out.text)
      s == CallsSent(TextSent(Current, a.text), a.calls)
  IN  /\ Reading(piece)
      /\ ~out.hit
      /\ stopper' = out.filter /\ parser' = a.parser
      /\ raw' = raw \o out.text
      /\ chat' = [chat EXCEPT !.content = @ \o a.text, !.calls = @ \o a.calls]
      /\ wire' = s.wire /\ index' = s.index /\ textOpen' = s.textOpen
      /\ UNCHANGED phase

\* _sse gives the parser the last text and the withheld text at once.
ChatEnded(text, reason) ==
  LET a == ParserPush(parser, text)
  IN  chat' = [content |-> chat.content \o a.text \o ParserFlush(a.parser),
               calls |-> chat.calls \o a.calls,
               reason |-> IF a.parser.nCalls > 0 THEN "tool_calls" ELSE OpenAIReason(reason)]

\* Mutant of LastText: text withheld for a stop sequence is not released.
LastTextWithoutHeld(out) == out.text

\* The text of the last output, with what the filter withheld unless it stopped.
LastText(out) == out.text \o (IF out.hit THEN << >> ELSE F!Flush(out.filter))

\* The output that ends the answer: the engine retired the request, or the stop
\* filter hit, which the handlers notice whatever the engine says.
ReadLast(piece, retired) ==
  LET out == F!Push(Stops, stopper, piece)
      a == ParserPush(parser, out.text)
      reason == IF out.hit THEN "stop_sequence" ELSE retired
      tail == TailSent(CallsSent(TextSent(Current, a.text), a.calls), a.parser, out.filter)
  IN  /\ Reading(piece)
      /\ reason # "none"
      /\ stopper' = out.filter /\ parser' = a.parser
      /\ raw' = raw \o out.text \o (IF out.hit THEN << >> ELSE F!Flush(out.filter))
      /\ ChatEnded(LastText(out), reason)
      /\ wire' = MessageEnded(tail, reason, out.filter)
      /\ index' = tail.s.index /\ textOpen' = tail.s.textOpen
      /\ phase' = "finished"

\* The bridge closes the stream: _sse ends with what it has sent, _stream sends
\* its tail, the whole answers flush the filter.
StreamCloses ==
  LET tail == TailSent(Current, parser, stopper)
  IN  /\ phase = "reading"
      /\ raw' = raw \o F!Flush(stopper)
      /\ wire' = MessageEnded(tail, "eog", stopper)
      /\ index' = tail.s.index /\ textOpen' = tail.s.textOpen
      /\ phase' = "closed"
      /\ UNCHANGED <<request, said, stopper, parser, chat>>

\* The client disconnects, or the stream raises: no handler sends any more.
Abandoned ==
  /\ phase = "reading"
  /\ phase' = "gone"
  /\ UNCHANGED <<request, said, stopper, parser, raw, chat, wire, index, textOpen>>

Pieces == BoundedSeq(Characters, MaxPiece)

\* An engine ends a request with eog, for which it reports no text, with length
\* or with context, for which both protocols have one name.
Next ==
  \/ \E piece \in Pieces \ {<< >>} : ReadMore(piece)
  \/ \E piece \in Pieces : ReadLast(piece, "none") \/ ReadLast(piece, "length")
  \/ ReadLast(<< >>, "eog")
  \/ StreamCloses
  \/ Abandoned

Spec == Init /\ [][Next]_vars

-----------------------------------------------------------------------------
(* The answer without streaming, from the text that the filter released. *)

WholeBody ==
  IF request.parsing THEN Parsed(raw) ELSE [content |-> raw, calls |-> << >>]

-----------------------------------------------------------------------------
(* Properties. *)

Ended == phase \in {"finished", "closed"}

\* Shapes.
TypeOK ==
  /\ request \in Requests
  /\ said \in Seq(Characters) /\ Len(said) <= MaxText
  /\ raw \in Seq(Characters)
  /\ parser.nCalls = Len(chat.calls) \/ phase = "finished"
  /\ index \in Nat /\ textOpen \in BOOLEAN
  /\ phase \in {"reading", "finished", "closed", "gone"}

\* Lengths at which text has just completed a stop sequence.
Completions(stops, text) ==
  {n \in 1 .. Len(text) : \E s \in stops : IsSuffix(s, SubSeq(text, 1, n))}

\* text up to the start of the first stop sequence that it completes, of the
\* longest one if two are completed at once.
Cut(stops, text) ==
  IF Completions(stops, text) = {} THEN text
  ELSE LET n == Min(Completions(stops, text))
           longest == Max({Len(s) : s \in {s \in stops : IsSuffix(s, SubSeq(text, 1, n))}})
       IN  SubSeq(text, 1, n - longest)

\* However the text is split into pieces, a client is never shown a character
\* of a stop sequence or behind one, gets all that comes before it, and nothing
\* is withheld that could not become part of one (config.py:247).
StopsCutTheText ==
  /\ IsPrefix(raw, Cut(Stops, said))
  /\ Ended => raw = Cut(Stops, said)
  /\ phase = "reading" =>
       \/ raw = said
       \/ \E s \in Stops : IsStrictPrefix(F!Drop(said, Len(raw)), s)

\* The frames of the OpenAI stream assemble to the whole answer, and never held
\* anything that the whole answer of the text so far does not (app.py:437).
ChatIsTheBody ==
  /\ IsPrefix(chat.content, WholeBody.content) /\ IsPrefix(chat.calls, WholeBody.calls)
  /\ phase = "finished" =>
       /\ chat.content = WholeBody.content /\ chat.calls = WholeBody.calls
       /\ chat.reason = "tool_calls" <=> WholeBody.calls # << >>

\* What the blocks of each kind hold, one after the other.
WithText(text, block) == IF block.kind = "text" THEN text \o block.text ELSE text
WithCall(calls, block) ==
  IF block.kind = "tool_use" THEN Append(calls, block.text) ELSE calls

TextOf(blocks) == FoldLeft(WithText, << >>, blocks)
CallsOf(blocks) == FoldLeft(WithCall, << >>, blocks)

\* The blocks of the Anthropic stream assemble to the whole answer, its reason
\* and its stop_sequence included (anthropic_api.py:281).
WireIsTheBody ==
  Ended =>
    /\ TextOf(wire.blocks) = WholeBody.content
    /\ CallsOf(wire.blocks) = WholeBody.calls
    /\ wire.reason = "tool_use" <=> WholeBody.calls # << >>
    /\ wire.stop # F!NoStop =>
         wire.reason = "stop_sequence" /\ IsPrefix(raw \o wire.stop, said)

\* Blocks are numbered from 0 without a gap, one is open at a time, each is
\* closed once, and a message that ends has at least one and none open.
BlocksNest ==
  /\ wire.ok
  /\ wire.open = IF textOpen THEN {index} ELSE {}
  /\ Ended => wire.open = {} /\ wire.blocks # << >>

\* The text between tags, first blocks first: what is outside and inside.
Split[text \in BoundedSeq(Characters, MaxText)] ==
  LET i == F!FirstOffset(Open, text)
      inner == F!Drop(text, i + Len(Open))
      j == F!FirstOffset(Close, inner)
      rest == Split[F!Drop(inner, j + Len(Close))]
      block == SubSeq(inner, 1, j)
  IN  IF ~F!Occurs(Open, text) \/ ~F!Occurs(Close, inner)
      THEN [outside |-> text, calls |-> << >>]
      ELSE IF Stripped(block) \in Calls
      THEN [outside |-> SubSeq(text, 1, i) \o rest.outside,
            calls |-> <<Stripped(block)>> \o rest.calls]
      ELSE [rest EXCEPT !.outside = SubSeq(text, 1, i + Len(Open) + j + Len(Close)) \o @]

WithLetter(text, c) == IF c = Space THEN text ELSE Append(text, c)
Unspaced(text) == FoldLeft(WithLetter, << >>, text)

\* No generated character is lost or sent twice: apart from the gaps around
\* calls, content is the text without the blocks that are calls, and an answer
\* without calls is the text itself.
NothingIsLost ==
  request.parsing /\ phase = "finished" =>
    /\ chat.calls = Split[raw].calls
    /\ Unspaced(chat.content) = Unspaced(Split[raw].outside)
    /\ chat.calls = << >> => chat.content = raw
==============================================================================
