------------------------------ MODULE MCBufferUse ------------------------------
(* Two posts, so that the engine's own and its repeat or a test post can meet.   *)
EXTENDS BufferUse, TLC

MCPillarOf == [v \in Variants |-> IF v = "v1" THEN "build_log" ELSE "company"]

\* Posts are interchangeable.
Symmetry == Permutations(Posts)
===============================================================================
