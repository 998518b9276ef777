------------------------------ MODULE NgramTable ------------------------------
(***************************************************************************)
(* NgramTable (python/bwr/engine/ngram.py): which token followed a context *)
(* last, and the drafts that a walk from one context to the next gives.  A *)
(* table is the sequence of its entries, oldest first.                     *)
(***************************************************************************)
EXTENDS Integers, FiniteSetsExt, SequencesExt

CONSTANTS Order, MaxEntries   \* both at least 1

EmptyTable == << >>

\* The last n elements of s, or all of them.
LastOf(s, n) == SubSeq(s, Max({1, Len(s) - n + 1}), Len(s))

Key(context) == LastOf(context, Order - 1)

\* add: a context seen again becomes the newest entry; the oldest are evicted.
Added(table, context, token) ==
  LET others == SelectSeq(table, LAMBDA e : e.key # Key(context))
  IN  LastOf(Append(others, [key |-> Key(context), token |-> token]), MaxEntries)

\* update_stream
Updated(table, tokens) ==
  LET after[i \in 0 .. Len(tokens)] ==
        IF i = 0 THEN table
        ELSE Added(after[i - 1], LastOf(SubSeq(tokens, 1, i - 1), Order - 1), tokens[i])
  IN  after[Len(tokens)]

\* _feed_table of both engines: the tokens accepted behind history.
Fed(table, history, tokens) == Updated(table, LastOf(history, Order - 1) \o tokens)

\* predict: at most n tokens, up to the first context that has no entry.
Predicted(table, context, n) ==
  LET found(key) == {i \in DOMAIN table : table[i].key = key}
      walk[i \in 0 .. n] ==
        IF i = 0 THEN << >>
        ELSE LET w == walk[i - 1]
                 entry == found(Key(context \o w))
             IN  IF Len(w) < i - 1 \/ entry = {} THEN w
                 ELSE Append(w, table[Max(entry)].token)
  IN  walk[n]
==============================================================================
