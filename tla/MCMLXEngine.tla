----------------------------- MODULE MCMLXEngine ------------------------------
(* Small instances of MLXEngine for TLC. *)
EXTENDS MLXEngine

MCToken == {"a", "b", "e", "s"}
MCPrompts == {<<"a">>, <<"a", "b">>, <<"b", "a">>}

\* A stand-in for the model: runs of a that a b interrupts, then the end.
MCTarget(c) ==
  IF Len(c) = 5 /\ c[2] = "b" THEN "e"
  ELSE IF Len(c) = 6 THEN "s"
  ELSE IF Len(c) % 3 = 0 THEN "b" ELSE "a"

\* Whatever a table may hold: any drafts.
MCDrafts(p, o, n) == BoundedSeq({"a", "b", "e"}, n)

Table == INSTANCE NgramTable WITH Order <- 3, MaxEntries <- 8192

\* Texts to check the table with.
Texts == BoundedSeq({"a", "b"}, 6)

\* The token behind the last occurrence of two tokens in text is what the table
\* of text predicts for them (ngram.py:22), and nothing if they never occurred.
ASSUME TableRemembersTheLast ==
  \A text \in Texts, u, v \in {"a", "b"} :
    LET behind == {i \in 3 .. Len(text) : text[i - 2] = u /\ text[i - 1] = v}
    IN  Table!Predicted(Table!Updated(Table!EmptyTable, text), <<u, v>>, 1)
          = IF behind = {} THEN << >> ELSE <<text[Max(behind)]>>

\* Feeding a text in two parts with the window of _feed_table gives the drafts
\* of the whole text (mlx_engine.py:580).
ASSUME FeedingInParts ==
  \A text \in Texts : \A k \in DOMAIN text :
    LET start == SubSeq(text, 1, k)
        parts == Table!Fed(Table!Updated(Table!EmptyTable, start), start,
                           SubSeq(text, k + 1, Len(text)))
    IN  Len(text) >= 2 =>
          Table!Predicted(parts, text, 3)
            = Table!Predicted(Table!Updated(Table!EmptyTable, text), text, 3)

\* The table a request drafts from: the first token of its output is never fed,
\* only part of the window of the tokens behind it.
MCTableDrafts(p, o, n) ==
  LET prompt == Table!Updated(Table!EmptyTable, p)
      table == IF Len(o) < 2 THEN prompt ELSE Table!Fed(prompt, Append(p, o[1]), Tail(o))
  IN  {Table!Predicted(table, p \o o, n)}

\* A prompt that repeats itself and a model that stops doing so.
MCRepeating == {<<"a", "b", "a", "a", "b">>}
MCConstant(c) == "a"

Config(s, p, k) == [speculative |-> s, prefixCache |-> p, kvBits |-> k]
MCConfigs == {Config(FALSE, FALSE, FALSE), Config(TRUE, FALSE, FALSE),
              Config(TRUE, TRUE, FALSE), Config(FALSE, FALSE, TRUE)}
MCSpeculative == {Config(TRUE, FALSE, FALSE)}
==============================================================================
