------------------------------ MODULE MCMiner ------------------------------
(* A node that mines with one worker in background mode, one that serves two clients,
   and one that does both, for one client and on one chain. *)
EXTENDS Miner

MCWorkers == {"w1"}
MCClients == {"c1", "c2"}
MCCallers == MCWorkers \cup MCClients \cup {"idle", "net", "control"}
MCAddress == [c \in MCCallers |-> IF c \in MCClients THEN c ELSE "miner"]
MCServes == [miner |-> {}, server |-> MCClients, both |-> {"c1"}]
MCMaxTip == [miner |-> 2, server |-> 2, both |-> 1]
MCMaxCalls == [miner |-> 2, server |-> 2, both |-> 1]
MCMaxCookie == [miner |-> 0, server |-> 1, both |-> 0]
=============================================================================
