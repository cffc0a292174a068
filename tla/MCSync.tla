------------------------------- MODULE MCSync -------------------------------
(***************************************************************************)
(* Two peers: on the same chain, on two branches, or one with an invalid   *)
(* block.                                                                  *)
(***************************************************************************)
EXTENDS Sync, TLC

MCBlock(height, prev) == [height |-> height, prev |-> prev, valid |-> TRUE]
MCBlocks ==
  [g |-> MCBlock(0, "g"), a1 |-> MCBlock(1, "g"), a2 |-> MCBlock(2, "a1"), b1 |-> MCBlock(1, "g"),
   x2 |-> [MCBlock(2, "a1") EXCEPT !.valid = FALSE]]
A == <<"g", "a1", "a2">>
MCChains ==
  {[c1 |-> A, c2 |-> q] : q \in {A, <<"g", "b1">>, <<"g", "a1", "x2">>}}
MCConnections == {"c1", "c2"}
=============================================================================
