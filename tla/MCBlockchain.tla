---------------------------- MODULE MCBlockchain ----------------------------
(* Small block trees for TLC. *)
EXTENDS Blockchain, TLC

Block(parent, version, work, txs) ==
  [parent |-> parent, major |-> version, minor |-> version, work |-> work, txs |-> txs,
   sound |-> TRUE, reward |-> TRUE]

Root == [Block("g", 1, 1, <<>>) EXCEPT !.minor = 0]

\* A version 2 from height 2 on, by schedule.
EarlyFork == << [version |-> 1, height |-> 1, threshold |-> 0],
                [version |-> 2, height |-> 2, threshold |-> 0] >>

NoCheckpoints == << >>

NoFiles == {}

\* m1 - m2 - m3 - m4, and from m1 on a2 - a3 - a4 (heavier for a while), a2 - b3 - b4
\* (heavier, b3 invalid), and m3 - c4 (a wrong reward).  t1 is in both branches, t2 and
\* t3 spend the same output, t4 uses one of m2.
ReorgTree ==
  "g" :> Root @@ "m1" :> Block("g", 1, 1, <<>>)
  @@ "m2" :> Block("m1", 2, 2, <<"t1">>) @@ "m3" :> Block("m2", 2, 1, <<"t2">>)
  @@ "m4" :> Block("m3", 2, 2, <<>>)
  @@ "a2" :> Block("m1", 2, 1, <<"t1">>) @@ "a3" :> Block("a2", 2, 2, <<"t3">>)
  @@ "a4" :> Block("a3", 2, 1, <<>>)
  @@ "b3" :> Block("a2", 2, 1, <<"t4">>) @@ "b4" :> Block("b3", 2, 3, <<>>)
  @@ "c4" :> [Block("m3", 2, 3, <<>>) EXCEPT !.reward = FALSE]

ReorgTx ==
  "t1" :> [images |-> {"i1"}, uses |-> "g", last |-> 9]
  @@ "t2" :> [images |-> {"i2"}, uses |-> "m1", last |-> 9]
  @@ "t3" :> [images |-> {"i2"}, uses |-> "m1", last |-> 9]
  @@ "t4" :> [images |-> {"i4"}, uses |-> "m2", last |-> 9]

\* The version 2 a block later.
LateFork == [EarlyFork EXCEPT ![2].height = 3]

\* Branches that split below this fork and right at it; d has an output that version 2
\* forbids.
EdgeTree ==
  "g" :> Root @@ "m1" :> Block("g", 1, 3, <<"d">>) @@ "m2" :> Block("m1", 1, 1, <<>>)
  @@ "m3" :> Block("m2", 2, 1, <<>>) @@ "m4" :> Block("m3", 2, 1, <<>>)
  @@ "a1" :> Block("g", 1, 1, <<>>) @@ "a2" :> Block("a1", 1, 1, <<>>)
  @@ "a3" :> Block("a2", 2, 1, <<>>) @@ "a4" :> Block("a3", 2, 3, <<>>)
  @@ "a5" :> Block("a4", 2, 1, <<>>) @@ "c3" :> Block("m2", 2, 3, <<>>)

\* With a block that outweighs them all.
HeavyTree == EdgeTree @@ "x1" :> Block("g", 1, 20, <<>>)

EdgeTx == "d" :> [images |-> {"i1"}, uses |-> "g", last |-> 1]

\* A checkpoint file that comes before or after m4 and its rivals: a4, on which a heavier
\* block follows, and c3, which is heavier and lower.
Files == {4 :> "m4"}

=============================================================================
