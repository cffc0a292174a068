---------------------------- MODULE MCThreadPool ----------------------------
(* A small pool for TLC. *)
EXTENDS ThreadPool, TLC

\* c submits three routines, two of which submit others: n, and the leaves x and y, of
\* which x submits r against the rules.
Tree ==
  "c" :> <<"a", "b", "d">> @@ "a" :> <<"n", "x">> @@ "b" :> <<"y">> @@ "x" :> <<"r">>
  @@ [j \in {"d", "n", "r", "y"} |-> <<>>]

=============================================================================
