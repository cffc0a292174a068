----------------------------- MODULE MCNetNode -----------------------------
(* A seed that knows the peer p and the address of this node; p knows the peer d. *)
EXTENDS NetNode, TLC

Lists == "p" :> {"s", "d"} @@ "d" :> {} @@ "s" :> {"p", "me"} @@ "me" :> {}

NoAddresses == {}

\* The user names no peer, or one that no list has told of yet.
Lines == { {}, {"d"} }

Only(counts) == [k \in Kinds |-> IF k \in DOMAIN counts THEN counts[k] ELSE 0]

\* Gray peers that are checked while hosts are gone; a file that is old or cut short;
\* bans; peers that connect.
Stories ==
  { Only("house" :> 2 @@ "down" :> 1),
    Only("sync" :> 1 @@ "down" :> 1),
    Only("store" :> 1 @@ "restart" :> 1),
    Only("block" :> 1),
    Only("refuse" :> 2),
    Only("lost" :> 1),
    Only("connect" :> 1 @@ "sync" :> 1),
    Only("connect" :> 2),
    Only("connect" :> 1 @@ "wrong" :> 1) }

=============================================================================
