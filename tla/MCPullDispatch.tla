--------------------------- MODULE MCPullDispatch ---------------------------
(* Instances of PullDispatch for TLC.                                      *)
EXTENDS PullDispatch, TLC

CONSTANTS t1, t2, t3, s1, s2, NoDevice

\* t1 is bound to GPU 0, t2 to GPU 1; t3 runs anywhere.
Mixed == (t1 :> 0) @@ (t2 :> 1) @@ (t3 :> NoDevice)

Free == [t \in Task |-> NoDevice]

Symmetry == Permutations(Slot)
=============================================================================
