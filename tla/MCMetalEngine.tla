---------------------------- MODULE MCMetalEngine ----------------------------
(* Small instances of MetalEngine for TLC. *)
EXTENDS MetalEngine

\* The vocabulary: two words and the end-of-generation token.
MCToken == {0, 1, 2}
MCNoToken == 3

\* A stand-in for the model: the draw depends on the whole context, so that a
\* missing, stale or duplicated KV cell changes it; one context in four leaves
\* the sampler two tokens to draw from.
MCSupport ==
  [c \in Contexts |->
     LET code == SumFunction([i \in DOMAIN c |-> (i + 1) * (c[i] + 1)])
     IN  {code % 3} \cup (IF code % 4 = 0 THEN {(code + 1) % 3} ELSE {})]

MCPrompts == {<<1>>, <<1, 2, 1>>, <<1, 2, 2>>}
MCLongPrompts == {<<1, 2>>, <<1, 2, 1, 1>>, <<2, 1, 1>>}

MCParams ==
  {[maxTokens |-> 2, stop |-> TRUE, greedy |-> FALSE],
   [maxTokens |-> 4, stop |-> FALSE, greedy |-> TRUE]}
MCFaultParams == {[maxTokens |-> 3, stop |-> TRUE, greedy |-> TRUE]}
MCSpecParams ==
  {[maxTokens |-> 5, stop |-> FALSE, greedy |-> FALSE],
   [maxTokens |-> 3, stop |-> TRUE, greedy |-> TRUE]}
MCGreedy == {[maxTokens |-> 5, stop |-> FALSE, greedy |-> TRUE]}
==============================================================================
