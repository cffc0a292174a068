----------------------------- MODULE ForkChoice -----------------------------
(***************************************************************************)
(* What the block chain of a node promises to its users: it is always a    *)
(* valid chain, it changes in one step, and only to a chain with more      *)
(* work; a crash falls back to a chain saved before.                       *)
(***************************************************************************)
EXTENDS Naturals

CONSTANTS
  Chains,    \* the valid chains
  Genesis,   \* the one to start from
  Work(_)    \* how much work a chain carries

VARIABLES
  best,   \* the chain the node follows
  saved   \* the chain it finds after a crash

Init == best = Genesis /\ saved = Genesis

\* The node changes to a heavier valid chain.
Adopt ==
  /\ best' \in Chains /\ Work(best') > Work(best)
  /\ UNCHANGED saved

Save == saved' = best /\ UNCHANGED best

Crash == best' = saved /\ UNCHANGED saved

Next == Adopt \/ Save \/ Crash

Spec == Init /\ [][Next]_<<best, saved>>

=============================================================================
