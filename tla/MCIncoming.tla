----------------------------- MODULE MCIncoming -----------------------------
(***************************************************************************)
(* The chain g-a1-a2 is to give way to b1-b2-b3, which spend what a1       *)
(* spends, or to b1-c2-c3, where c2 spends it again: the switch fails, and *)
(* a2 cannot be restored, for the fork at height 3 forbids t5.  d3 spends  *)
(* a key image twice, e3 has one of its transactions, f3 one that is no    *)
(* good.                                                                   *)
(***************************************************************************)
EXTENDS Incoming

MCBlock(prev, txs) == [prev |-> prev, txs |-> txs]
MCBlocks ==
  [g |-> MCBlock("g", <<>>), a1 |-> MCBlock("g", <<"t1">>), a2 |-> MCBlock("a1", <<"t5">>),
   b1 |-> MCBlock("g", <<"t2">>), b2 |-> MCBlock("b1", <<>>), b3 |-> MCBlock("b2", <<>>), b4 |-> MCBlock("b3", <<>>),
   c2 |-> MCBlock("b1", <<"t6">>), c3 |-> MCBlock("c2", <<>>),
   d3 |-> MCBlock("a2", <<"t3", "t4">>), e3 |-> MCBlock("a2", <<"t3">>), f3 |-> MCBlock("a2", <<"t3", "bad">>)]
MCKey == [t1 |-> "k1", t2 |-> "k1", t3 |-> "k3", t4 |-> "k3", t5 |-> "k4", t6 |-> "k1", bad |-> "k5"]
MCSpans == {<<"b1", "b2", "b3", "b4">>, <<"b1", "c2", "c3">>, <<"d3">>, <<"e3">>, <<"f3">>}
MCStartChain == <<"g", "a1", "a2">>
=============================================================================
