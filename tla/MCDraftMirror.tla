---------------------------- MODULE MCDraftMirror ----------------------------
(* Small instances of DraftMirror for TLC. *)
EXTENDS DraftMirror

MCToken == {0, 1}
MCPrompts == {<<1>>, <<1, 0, 1, 1, 0>>}

\* A stand-in for a model: the next token depends on the last two.
MCTarget ==
  [c \in Contexts |-> IF Len(c) > 1 /\ c[Len(c)] = c[Len(c) - 1] THEN 1 - c[Len(c)] ELSE c[Len(c)]]

\* A draft model that often agrees with it.
MCDraft == [c \in Contexts |-> IF Len(c) % 4 = 0 THEN 0 ELSE MCTarget[c]]
==============================================================================
