------------------------------ MODULE HardFork ------------------------------
(***************************************************************************)
(* Class HardFork over the blocks of the database, driven the way its      *)
(* contract asks: blocks are added one at a time (BlockchainDB::add_block  *)
(* calls HardFork::add), and after blocks were popped the object is        *)
(* reorganised, or the node restarted, before the next block is added.     *)
(* rollback_blockchain_switching, Blockchain::init and the import tool     *)
(* keep to this; switch_to_alternative_blockchain does not, and module     *)
(* Blockchain shows what comes of it.                                      *)
(*                                                                         *)
(* The calls hold the object's lock, so the loop of a reorganisation is    *)
(* not interleaved with anything but a crash: pc = "replay" is inside it.  *)
(***************************************************************************)
EXTENDS HardForkRules

CONSTANTS
  Majors, Minors,  \* the major and minor versions an incoming block may carry
  MaxHeight        \* bound on the height of the chain

ASSUME BlocksAssumption == Majors \subseteq Nat /\ Minors \subseteq Nat

ASSUME MaxHeightAssumption == MaxHeight \in Nat \ {0}

VARIABLES
  chain,        \* the blocks in the database
  hf_versions,  \* the database's version by height; 0 where there is no entry
  hf,           \* the members of the HardFork object
  pc,           \* "ready", "popped" (not reorganised yet), "replay" or "offline"
  at            \* the next height the replay loop adds

vars == <<chain, hf_versions, hf, pc, at>>

Block == [major : Nat, minor : Nat]

\* generate_genesis_block: version 1, and no vote.
Genesis == [major |-> original_version, minor |-> 0]

NoVersions == [h \in 0..MaxHeight |-> 0]

\* The object before the first block: init on an empty database.
Fresh == [versions |-> EmptyWindow.versions,
          last_versions |-> EmptyWindow.last_versions,
          current_fork_index |-> 1]

\* Blockchain::init adds the genesis block to an empty database.
Init ==
  /\ chain = <<Genesis>>
  /\ hf_versions = [NoVersions EXCEPT ![0] = original_version]
  /\ hf = add(Fresh, Genesis, 0)
  /\ pc = "ready"
  /\ at = 1

\* handle_block_to_main_chain with a block that HardFork::check accepts.
AddBlock(b) ==
  /\ pc = "ready"
  /\ Len(chain) < MaxHeight
  /\ check(hf, b)
  /\ chain' = Append(chain, b)
  /\ hf_versions' = set_hard_fork_version(hf_versions, hf, b, Len(chain))
  /\ hf' = add(hf, b, Len(chain))
  /\ UNCHANGED <<pc, at>>

\* BlockchainDB::pop_block: neither the object nor hf_versions is touched.
PopBlock ==
  /\ pc \in {"ready", "popped"}
  /\ Len(chain) > 1
  /\ chain' = SubSeq(chain, 1, Len(chain) - 1)
  /\ pc' = "popped"
  /\ UNCHANGED <<hf_versions, hf, at>>

\* reorganize_from_chain_height(h): recount up to h, then replay what is above.
Reorganize(h) ==
  /\ pc \in {"ready", "popped"}
  /\ h \in 1..Len(chain)
  /\ hf' = reorganize(hf, chain, hf_versions, h)
  /\ at' = h
  /\ pc' = "replay"
  /\ UNCHANGED <<chain, hf_versions>>

\* One turn of the loop.  The result of add is ignored.
ReplayAdd ==
  /\ pc = "replay"
  /\ at < Len(chain)
  /\ hf' = add(hf, chain[at + 1], at)
  /\ hf_versions' = set_hard_fork_version(hf_versions, hf, chain[at + 1], at)
  /\ at' = at + 1
  /\ UNCHANGED <<chain, pc>>

\* The loop is over; init marks a repopulated table with the genesis entry.
ReplayDone ==
  /\ pc = "replay"
  /\ at >= Len(chain)
  /\ hf_versions' = [hf_versions EXCEPT ![0] = original_version]
  /\ pc' = "ready"
  /\ UNCHANGED <<chain, hf, at>>

\* blockchain_import --drop-hard-fork, run while the daemon is down.
DropHardForkInfo ==
  /\ pc = "ready"
  /\ hf_versions' = NoVersions
  /\ pc' = "offline"
  /\ UNCHANGED <<chain, hf, at>>

\* The node stops or crashes at any point, and HardFork::init rebuilds the object:
\* from the recorded versions, or by a replay from the start if there are none.
\* What an unfinished replay wrote is lost with its batch.
Restart ==
  /\ IF hf_versions[0] = 0
     THEN /\ hf_versions' = NoVersions
          /\ hf' = reorganize(Fresh, chain, hf_versions, 1)
          /\ at' = 1
          /\ pc' = "replay"
     ELSE /\ hf' = rescan(chain, hf_versions)
          /\ pc' = "ready"
          /\ UNCHANGED <<hf_versions, at>>
  /\ UNCHANGED chain

Next ==
  \/ \E b \in [major : Majors, minor : Minors] : AddBlock(b)
  \/ PopBlock
  \/ \E h \in 1..MaxHeight : Reorganize(h)
  \/ ReplayAdd
  \/ ReplayDone
  \/ DropHardForkInfo
  \/ Restart

Spec == Init /\ [][Next]_vars

-----------------------------------------------------------------------------
(* Properties *)

Phases == {"ready", "popped", "replay", "offline"}

Height == Len(chain)

HfState == [versions : Seq(VersionNumbers), last_versions : [VersionNumbers -> Int],
            current_fork_index : ForkIndices]

\* The state has the shape the C++ members and tables give it.
TypeOK ==
  /\ chain \in Seq(Block) /\ Height \in 1..MaxHeight
  /\ hf_versions \in [0..MaxHeight -> 0..MaxVersion]
  /\ hf \in HfState
  /\ Len(hf.versions) <= WindowSize
  /\ pc \in Phases
  /\ at \in 1..MaxHeight

\* The window holds the votes of the last WindowSize blocks, counted right, however
\* many pops, reorganisations, repopulations and restarts came before: the "rolling
\* window of the last N blocks' versions" of hardfork.h.
WindowIsLastVotes ==
  pc = "ready" => /\ hf.versions = WindowVotes(chain, Height)
                  /\ hf.last_versions = Histogram(hf.versions)

\* The current fork is a function of the blocks alone: a node that synced block by
\* block, one that reorganised and one that restarted agree on the next version.
CurrentForkIsVoted ==
  pc = "ready" => hf.current_fork_index = ForkInForce(chain, Height)

\* Every block carries the version of the fork in force at its height, and votes
\* for at least that version.
BlocksFollowForks ==
  \A h \in 1..(Height - 1) : CheckAgainst(ForkInForce(chain, h), chain[h + 1])

\* The database records the version each block was accepted with.
VersionsRecorded ==
  pc \in {"ready", "popped"} =>
    \A h \in 0..(Height - 1) : hf_versions[h] = chain[h + 1].major

\* Versions never decrease with the height, and no fork is in force before the
\* height it is scheduled for.
NoEarlyFork ==
  \A h \in 1..(Height - 1) : /\ chain[h].major <= chain[h + 1].major
                             /\ chain[h + 1].major <= get_ideal_version(h)

\* The replay loop ignores the result of add: no block of the chain is refused by
\* it, so no vote is lost.
ReplayAccepts ==
  pc = "replay" /\ at < Height => check(hf, chain[at + 1])

\* A restart of a node whose object is up to date rebuilds exactly the same object.
RestartChangesNothing ==
  [][pc = "ready" /\ Restart => UNCHANGED hf]_vars

=============================================================================
