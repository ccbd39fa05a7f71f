----------------------------- MODULE MCMemory -----------------------------
(* Two size classes, in half-words, and memory for up to four blocks.       *)
EXTENDS Memory
MClen == [i \in 0 .. 1 |-> IF i = 0 THEN 2 ELSE 4]
===========================================================================
