------------------------------ MODULE StopFilter ------------------------------
(***************************************************************************)
(* StopSequenceFilter (python/bwr/engine/config.py): which part of the     *)
(* generated text may be released while a stop sequence may still be on    *)
(* its way.  A text is a sequence of characters; a filter is the text it   *)
(* withholds and the stop sequence that ended the generation.              *)
(***************************************************************************)
EXTENDS Integers, FiniteSetsExt, SequencesExt

NoStop == << >>
NewFilter == [buffer |-> << >>, matched |-> NoStop]

\* Offsets at which part occurs in text.
Offsets(part, text) ==
  {i \in 0 .. Len(text) - Len(part) : SubSeq(text, i + 1, i + Len(part)) = part}

Occurs(part, text) == Offsets(part, text) # {}
FirstOffset(part, text) == Min(Offsets(part, text))

Drop(text, n) == SubSeq(text, n + 1, Len(text))

\* normalize_stops: what the client sent, without empty sequences and repeats.
Normalized(sent) == {sent[i] : i \in DOMAIN sent} \ {<< >>}

\* Mutant of PartialStopLen: only prefixes longer than one character count.
PartialStopLenFromTwo(buffer, stops) ==
  Max({0} \cup {k \in 2 .. Len(buffer) :
                  \E s \in stops : k < Len(s) /\ IsSuffix(SubSeq(s, 1, k), buffer)})

\* The longest end of buffer that is a proper prefix of a stop sequence.
PartialStopLen(buffer, stops) ==
  Max({0} \cup {k \in 1 .. Len(buffer) :
                  \E s \in stops : k < Len(s) /\ IsSuffix(SubSeq(s, 1, k), buffer)})

\* Mutant of FirstStopMatch: the match that starts first wins.
FirstStartMatch(text, stops) ==
  CHOOSE s \in {s \in stops : Occurs(s, text)} :
    \A t \in {t \in stops : Occurs(t, text)} :
      FirstOffset(s, text) <= FirstOffset(t, text)

\* first_stop_match: the sequence completed first, of those the longest.
FirstStopMatch(text, stops) ==
  LET end(s) == FirstOffset(s, text) + Len(s)
      found == {s \in stops : Occurs(s, text)}
  IN  CHOOSE s \in found :
        \A t \in found : end(s) < end(t) \/ (end(s) = end(t) /\ Len(s) >= Len(t))

\* push: the filter after piece, the text it releases, and whether it stopped.
Push(stops, filter, piece) ==
  LET buffer == filter.buffer \o piece
      held == PartialStopLen(buffer, stops)
  IN  CASE stops = {} -> [filter |-> filter, text |-> piece, hit |-> FALSE]
        [] filter.matched # NoStop -> [filter |-> filter, text |-> << >>, hit |-> FALSE]
        [] \E s \in stops : Occurs(s, buffer) ->
             LET s == FirstStopMatch(buffer, stops)
             IN  [filter |-> [buffer |-> << >>, matched |-> s],
                  text |-> SubSeq(buffer, 1, FirstOffset(s, buffer)), hit |-> TRUE]
        [] OTHER ->
             [filter |-> [filter EXCEPT !.buffer = Drop(buffer, Len(buffer) - held)],
              text |-> SubSeq(buffer, 1, Len(buffer) - held), hit |-> FALSE]

\* flush: the withheld text, unless a stop sequence was completed.
Flush(filter) == IF filter.matched # NoStop THEN << >> ELSE filter.buffer
==============================================================================
