----------------------------- MODULE MCHardFork -----------------------------
(* Small fork tables for TLC. *)
EXTENDS HardFork

\* Voting: 30% for version 2, then 80% for version 3.
VotedForks == << [version |-> 1, height |-> 1, threshold |-> 0],
                 [version |-> 2, height |-> 3, threshold |-> 30],
                 [version |-> 3, height |-> 5, threshold |-> 80] >>

=============================================================================
