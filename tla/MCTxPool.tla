------------------------------ MODULE MCTxPool ------------------------------
(* A small pool for TLC. *)
EXTENDS TxPool, TLC

Entry(images, uses, weight, fee) ==
  [images |-> images, uses |-> uses, weight |-> weight, fee |-> fee]

\* 2 uses an output of 1, 3 spends what 1 spends.
ThreeTxs == << Entry({"a"}, {}, 2, 4), Entry({"b"}, {1}, 3, 3), Entry({"a", "c"}, {}, 2, 2) >>

ThreeBlocks == "g" :> {} @@ "b1" :> {1} @@ "b2" :> {2} @@ "b3" :> {3} @@ "e" :> {}

=============================================================================
