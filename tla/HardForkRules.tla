--------------------------- MODULE HardForkRules ---------------------------
(***************************************************************************)
(* The decisions of class HardFork (cryptonote_basic/hardfork.cpp) as      *)
(* operators: which block versions are accepted, how block votes are       *)
(* counted in a rolling window, which fork the votes and the schedule      *)
(* activate, and how the state is rebuilt after a restart or a             *)
(* reorganisation.  The module has no variables: HardFork and Blockchain   *)
(* use it over their own state.                                            *)
(*                                                                         *)
(* The object's mutable members are the record                             *)
(*    [versions, last_versions, current_fork_index].                       *)
(* Fork indices count from 1 (the code counts from 0).  A chain is a       *)
(* sequence of blocks [major, minor]; the block at height h is chain[h+1]. *)
(***************************************************************************)
EXTENDS Integers, Sequences, FiniteSets, FiniteSetsExt, Functions

CONSTANTS
  Forks,       \* the fork table (member "heights"): <<[version, height, threshold], ...>>
  WindowSize   \* window_size, the number of blocks whose votes count

\* add_fork accepts a table only in increasing order with thresholds in percent,
\* and every table of blockchain.cpp starts with version 1, the genesis version.
ASSUME ForksAssumption ==
  /\ Forks \in Seq([version : Nat, height : Nat, threshold : 0..100])
  /\ Len(Forks) >= 1
  /\ Forks[1].version = 1
  /\ \A i, j \in 1..Len(Forks) : i < j => /\ Forks[i].version < Forks[j].version
                                          /\ Forks[i].height < Forks[j].height

ASSUME WindowAssumption == WindowSize \in Nat \ {0}

ForkIndices == 1..Len(Forks)

\* heights.back().version
MaxVersion == Forks[Len(Forks)].version

\* The indices of last_versions[] that an effective vote can have.
VersionNumbers == 1..MaxVersion

original_version == 1

-----------------------------------------------------------------------------
(* Votes *)

get_block_vote(b) == IF b.minor = 0 THEN 1 ELSE b.minor

get_effective_version(v) == IF v > MaxVersion THEN MaxVersion ELSE v

EffectiveVote(b) == get_effective_version(get_block_vote(b))

\* The effective votes of the blocks at heights from..to-1.
Votes(chain, from, to) == [i \in 1..(to - from) |-> EffectiveVote(chain[from + i])]

\* What last_versions holds after counting a window from zero.
Histogram(votes) ==
  [v \in VersionNumbers |-> Cardinality({i \in 1..Len(votes) : votes[i] = v})]

\* The first height of the window that ends before height h.
WindowStart(h) == IF h > WindowSize THEN h - WindowSize ELSE 0

WindowVotes(chain, h) == Votes(chain, WindowStart(h), h)

-----------------------------------------------------------------------------
(* Activation *)

\* Votes needed to activate fork n: the percentage rounded up.
Threshold(n) == (WindowSize * Forks[n].threshold + 99) \div 100

\* Votes for fork n or a later one.
AccumulatedVotes(last_versions, n) ==
  SumFunctionOnSet(last_versions, {Forks[m].version : m \in n..Len(Forks)})

\* The latest fork past its height and with enough votes; never below current.
get_voted_fork_index(current, last_versions, height) ==
  Max({n \in current..Len(Forks) :
         n = current \/ ( /\ height >= Forks[n].height
                          /\ AccumulatedVotes(last_versions, n) >= Threshold(n) )})

CheckAgainst(n, b) == /\ b.major = Forks[n].version
                      /\ get_block_vote(b) >= Forks[n].version

\* Mutant: the vote is not looked at.
CheckMajorOnly(hf, b) == b.major = Forks[hf.current_fork_index].version

\* do_check and check: may b come next?
check(hf, b) == CheckAgainst(hf.current_fork_index, b)

\* do_check_for_height: may b be the block at this height?
check_for_height(hf, b, height) ==
  CheckAgainst(get_voted_fork_index(hf.current_fork_index, hf.last_versions, height), b)

get_current_version(hf) == Forks[hf.current_fork_index].version

\* The version scheduled for a height, whatever the votes.
get_ideal_version(height) ==
  Forks[Max({n \in ForkIndices : n = 1 \/ height >= Forks[n].height})].version

-----------------------------------------------------------------------------
(* State changes *)

\* versions and last_versions before the first block.
EmptyWindow == [versions |-> <<>>, last_versions |-> [v \in VersionNumbers |-> 0]]

\* The oldest vote leaves a full window.  The code's loop runs at most once: no
\* caller leaves more than WindowSize votes.
Evict(hf) ==
  IF Len(hf.versions) >= WindowSize
  THEN [hf EXCEPT !.versions = Tail(@),
                  !.last_versions[Head(hf.versions)] = @ - 1]
  ELSE hf

\* Mutant: a vote for a version above all forks is counted as it is, nowhere.
PushUncapped(hf, b) ==
  [hf EXCEPT !.versions = Append(@, EffectiveVote(b)),
             !.last_versions = [v \in DOMAIN @ |-> @[v] + IF v = get_block_vote(b) THEN 1 ELSE 0]]

\* The vote of b enters the window.
Push(hf, b) ==
  [hf EXCEPT !.versions = Append(@, EffectiveVote(b)),
             !.last_versions[EffectiveVote(b)] = @ + 1]

\* Raise the fork index to what the window activates for this height.
Activate(hf, height) ==
  [hf EXCEPT !.current_fork_index = get_voted_fork_index(@, hf.last_versions, height)]

\* Mutant: the fork is voted for the height of b, not for the one above.
AddOneLow(hf, b, height) ==
  IF check(hf, b) THEN Activate(Push(Evict(hf), b), height) ELSE hf

\* add: a block that fails the check changes nothing.
add(hf, b, height) ==
  IF check(hf, b) THEN Activate(Push(Evict(hf), b), height + 1) ELSE hf

\* The entry add writes to the table of versions by height.
set_hard_fork_version(table, hf, b, height) ==
  IF check(hf, b) THEN [table EXCEPT ![height] = get_current_version(hf)] ELSE table

\* Count the window that ends before height h, and activate what it votes for
\* starting from fork index n.
Recount(chain, h, n) ==
  LET votes == WindowVotes(chain, h)
  IN  Activate([versions |-> votes, last_versions |-> Histogram(votes),
                current_fork_index |-> n], h)

\* reorganize_from_chain_height(h) up to its loop: lower the fork index to the
\* version of the last kept block, then recount.
reorganize(hf, chain, table, h) ==
  LET start_version == IF h = 1 THEN original_version ELSE table[h - 1]
      lowered == Max({n \in 1..hf.current_fork_index :
                        n = 1 \/ Forks[n].version <= start_version})
  IN  Recount(chain, h, lowered)

\* Mutant: the window ends below the top block.
RescanOneLow(chain, table) ==
  LET lastv == table[Len(chain) - 1]
  IN  Recount(chain, Len(chain) - 1,
              Min({n \in ForkIndices : n = Len(Forks) \/ Forks[n].version = lastv}))

\* rescan_from_chain_height as init calls it: the fork index is the one of the
\* version recorded for the top block.
rescan(chain, table) ==
  LET lastv == table[Len(chain) - 1]
      found == Min({n \in ForkIndices : n = Len(Forks) \/ Forks[n].version = lastv})
  IN  Recount(chain, Len(chain), found)

-----------------------------------------------------------------------------
(* What the rules mean, for the properties *)

\* The fork index that a version number names.
ForkOf(version) == CHOOSE n \in ForkIndices : Forks[n].version = version

\* The fork in force at height h of chain c: what the window below h and the
\* schedule activate, starting from the fork of the block below.
ForkInForce(c, h) ==
  get_voted_fork_index(ForkOf(c[h].major), Histogram(WindowVotes(c, h)), h)

=============================================================================
