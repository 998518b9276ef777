------------------------------ MODULE ToolParser ------------------------------
(***************************************************************************)
(* ToolCallStreamParser (python/bwr/server/tools.py): finds the tool calls *)
(* in text that arrives in pieces.  The JSON of a call is abstracted to    *)
(* membership of its stripped body in Calls.                               *)
(***************************************************************************)
EXTENDS Integers, FiniteSetsExt, SequencesExt

CONSTANTS
  Open, Close,   \* TOOL_CALL_OPEN, TOOL_CALL_CLOSE
  Space,         \* a whitespace character
  Calls          \* bodies that are a call of an offered tool

ASSUME TagsAssumption ==
  /\ Open # << >> /\ Close # << >>
  /\ Space \notin Range(Open) \cup Range(Close)

F == INSTANCE StopFilter

NewParser == [buffer |-> << >>, space |-> << >>, inCall |-> FALSE, nCalls |-> 0]

\* str.rstrip and str.strip
RightStripped(text) ==
  SubSeq(text, 1, Max({0} \cup {i \in DOMAIN text : text[i] # Space}))
Stripped(text) ==
  LET left == RightStripped(text)
  IN  F!Drop(left, Min({i \in DOMAIN left : left[i] # Space} \cup {Len(left) + 1}) - 1)

\* _emit_text: whitespace at the end is held back, as the gap before a call may be.
Emitted(a, text) ==
  LET core == RightStripped(text)
      gap == F!Drop(text, Len(core))
  IN  IF core = << >> THEN [a EXCEPT !.parser.space = @ \o gap]
      ELSE [a EXCEPT !.text = @ \o a.parser.space \o core, !.parser.space = gap]

\* Outside a call: text up to an opening tag, or all that cannot begin one.
ScanText(a) ==
  LET buffer == a.parser.buffer
      cut == IF F!Occurs(Open, buffer) THEN F!FirstOffset(Open, buffer)
             ELSE Len(buffer) - F!PartialStopLen(buffer, {Open})
      rest == F!Drop(buffer, cut)
      opened == IsPrefix(Open, rest)
  IN  Emitted([a EXCEPT !.parser.buffer = IF opened THEN F!Drop(rest, Len(Open)) ELSE rest,
                        !.parser.inCall = opened],
              SubSeq(buffer, 1, cut))

\* Mutants of Degraded: a block that is no call is dropped, or counted as one.
Dropped(a, inner) == a
DegradedButCounted(a, inner) ==
  [Emitted(a, Open \o inner \o Close) EXCEPT !.parser.nCalls = @ + 1]

\* A block that is no call of an offered tool is handed back as text.
Degraded(a, inner) == Emitted(a, Open \o inner \o Close)

\* A closed block leaves the buffer; a call drops the gap in front of it.
BlockRead(a, inner) ==
  [a EXCEPT !.parser.inCall = FALSE, !.parser.buffer = F!Drop(@, Len(inner) + Len(Close))]
CallFound(a, body) ==
  [a EXCEPT !.calls = Append(@, body), !.parser.space = << >>, !.parser.nCalls = @ + 1]

\* Inside a call, once it is closed: a call, or text again if it is none.
ScanCall(a) ==
  LET buffer == a.parser.buffer
      inner == SubSeq(buffer, 1, F!FirstOffset(Close, buffer))
  IN  IF ~F!Occurs(Close, buffer) THEN a
      ELSE IF Stripped(inner) \in Calls THEN CallFound(BlockRead(a, inner), Stripped(inner))
      ELSE Degraded(BlockRead(a, inner), inner)

\* One round of the loop over the buffer; one that finds no tag changes nothing more.
Scan(a) == IF a.parser.inCall THEN ScanCall(a) ELSE ScanText(a)

\* push: rounds until the buffer holds no tag.
Push(parser, piece) ==
  LET start == [parser |-> [parser EXCEPT !.buffer = @ \o piece],
                text |-> << >>, calls |-> << >>]
      round[i \in 0 .. Len(start.parser.buffer) + 1] ==
        IF i = 0 THEN start ELSE Scan(round[i - 1])
  IN  round[Len(start.parser.buffer) + 1]

\* flush: an unfinished tag or block is text; whitespace at the end is content
\* unless the text held a call.
Flush(parser) ==
  LET last == Emitted([parser |-> parser, text |-> << >>],
                      (IF parser.inCall THEN Open ELSE << >>) \o parser.buffer)
  IN  last.text \o (IF parser.nCalls = 0 THEN last.parser.space ELSE << >>)

\* parse_tool_calls: the same parser, fed the whole text at once.
Parsed(text) ==
  LET a == Push(NewParser, text)
  IN  [content |-> a.text \o Flush(a.parser), calls |-> a.calls]
==============================================================================
