----------------------------- MODULE MCKVSnapshot -----------------------------
(* A small instance of KVSnapshot for TLC. *)
EXTENDS KVSnapshot, TLC

MCToken == {0, 1, 2}
MCNoToken == 3

\* The draw depends on the whole context: one prompt is answered to the cap, so
\* that it can be saved behind its prompt, the other ends itself.
MCSupport ==
  [c \in UNION {[1 .. n -> MCToken] : n \in 1 .. NCtxSeq} |->
     {(SumFunction([i \in DOMAIN c |-> (i + 1) * (c[i] + 1)]) % 5) % 3}]

MCPrompts == {<<1>>, <<2, 1>>}
MCParams == {[maxTokens |-> 3, stop |-> FALSE, greedy |-> TRUE]}
NameSymmetry == Permutations(Names)
==============================================================================
