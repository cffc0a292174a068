------------------------------ MODULE MCWallet ------------------------------
(* A daemon with two branches. *)
EXTENDS Wallet, TLC

B(prev, txs) == [prev |-> prev, txs |-> txs]

\* p pays us, and s and r spend it; q pays us too.
MCBlocks ==
  "g" :> B("g", <<>>) @@ "m1" :> B("g", <<"p">>) @@ "m2" :> B("m1", <<>>)
  @@ "a3" :> B("m2", <<"s">>) @@ "a4" :> B("a3", <<"q">>) @@ "a5" :> B("a4", <<>>)
  @@ "a6" :> B("a5", <<>>) @@ "a7" :> B("a6", <<>>) @@ "a8" :> B("a7", <<>>) @@ "a9" :> B("a8", <<>>)
  @@ "b3" :> B("m2", <<"q">>) @@ "b4" :> B("b3", <<>>) @@ "b5" :> B("b4", <<"s">>) @@ "b6" :> B("b5", <<>>)

MCPays == "p" :> {"kp"} @@ "q" :> {"kq"} @@ "s" :> {"ks"} @@ "r" :> {"kr"}
MCSpends == "p" :> {} @@ "q" :> {} @@ "s" :> {"kp"} @@ "r" :> {"kp"}
MCTips == {"m2", "a3", "a5", "b4", "b6", "a9"}

=============================================================================
