--------------------------- MODULE MCTemplateFill ---------------------------
(* Small pools for TLC. *)
EXTENDS TemplateFill, TLC

\* By fee per weight, best first.
Sorted(p) == \A i \in DOMAIN p, j \in DOMAIN p :
               i < j => p[i].fee * p[j].weight >= p[j].fee * p[i].weight

Shapes == [weight : {1, 5}, fee : {1, 6}, ring : {1, 2, 5}]

\* Pools of four; only the second may have ring size 2, and only the last spend the key
\* image of another.
MixedPools ==
  {p \in {[i \in 1..4 |-> s[i] @@ "image" :> (IF i = 4 THEN k ELSE i)] :
            s \in {s \in [1..4 -> Shapes] : \A i \in {1, 3, 4} : s[i].ring # 2}, k \in {1, 4}} :
     Sorted(p)}

=============================================================================
