----------------------------- MODULE Blockchain -----------------------------
(***************************************************************************)
(* Class Blockchain: blocks arrive in any order, extend the main chain or  *)
(* wait as alternatives, and a heavier alternative chain replaces the main *)
(* one: blocks are popped, the alternative ones connected, and everything  *)
(* is rolled back when one of them turns out bad.  The hard fork object    *)
(* and the transaction pool change along.                                  *)
(*                                                                         *)
(* add_new_block holds the locks of pool and chain, so a switch (pc other  *)
(* than "idle") is interrupted by nothing but a crash, which loses what    *)
(* the open batch of the database holds, and all that is only in memory.   *)
(***************************************************************************)
EXTENDS BlockTree

CONSTANTS
  Checkpoints,     \* the built-in checkpoints: height |-> block, for some heights
  CheckpointFiles  \* what the checkpoint file may hold

\* A built-in checkpoint at height 0 is the genesis block.  The checkpoints of a file
\* leave the first blocks alone (see rollback_height).
ASSUME CheckpointAssumption ==
  /\ DOMAIN Checkpoints \subseteq Nat
  /\ 0 \in DOMAIN Checkpoints => Checkpoints[0] = Genesis
  /\ \A f \in CheckpointFiles : DOMAIN f \subseteq Nat /\ \A h \in DOMAIN f : h > 2

VARIABLES
  main,         \* the main chain, in the database
  pool,         \* the transaction pool, in the database
  hf_versions,  \* the version by height, in the database
  hf,           \* the HardFork object
  checkpoints,  \* m_checkpoints
  alt,          \* m_alternative_chains
  invalid,      \* m_invalid_blocks
  pc,           \* "idle", or what a switch is doing
  job,          \* its variables: alt_chain and the block to connect next, the height
                \* of the split, the disconnected blocks, discard_disconnected_chain
  disk,         \* what the last finished batch wrote
  start,        \* history: main when the last block came in
  seen,         \* history: the blocks that came in after their parents
  confirmed     \* history: the transactions that were in the main chain once

vars == <<main, pool, hf_versions, hf, checkpoints, alt, invalid, pc, job, disk, start, seen, confirmed>>

chain_vars == <<main, pool, hf_versions, hf, confirmed>>

Top == TopOf(main)

NoJob == [chain |-> <<>>, next |-> 1, split |-> 0, old |-> <<>>, discard |-> FALSE]

Disk == [main |-> main, pool |-> pool, hf_versions |-> hf_versions, confirmed |-> confirmed]

\* A new node: the genesis block only.
Init ==
  /\ main = <<Genesis>>
  /\ pool = {}
  /\ hf_versions = [h \in 0..Cardinality(Blocks) |-> IF h = 0 THEN original_version ELSE 0]
  /\ hf = Recount(Headers(<<Genesis>>), 1, 1)
  /\ checkpoints = Checkpoints
  /\ alt = {} /\ invalid = {}
  /\ pc = "idle" /\ job = NoJob
  /\ start = main /\ seen = {Genesis} /\ confirmed = {}
  /\ disk = Disk

-----------------------------------------------------------------------------
(* Checks *)

check_block(height, b) == height \in DOMAIN checkpoints => checkpoints[height] = b

\* Mutant: alternatives at any height.
AllowedAnywhere(blockchain_height, block_height) == block_height # 0

\* The last checkpoint up to the number of blocks must lie below the new block.
is_alternative_block_allowed(blockchain_height, block_height) ==
  /\ block_height # 0
  /\ LET passed == {h \in DOMAIN checkpoints : h <= blockchain_height}
     IN  passed = {} \/ Max(passed) < block_height

have_block(b) == b \in Range(main) \cup alt \cup invalid

\* The output rules of the current version.
check_tx_outputs(t) == get_current_version(hf) <= Tx[t].last

\* Mutant: an output of a block that was popped will do.
InputsUnspent(t) == Tx[t].images \cap ImagesOf(TxsOf(main)) = {}

\* Outputs the chain has, and key images it has not spent.
check_tx_inputs(t) ==
  /\ Tx[t].uses \in Range(main)
  /\ Tx[t].images \cap ImagesOf(TxsOf(main)) = {}

\* One turn of the loop over a block's transactions, with pool p.
TxVerdict(t, p) ==
  IF t \in TxsOf(main) \/ t \notin p THEN "refused"
  ELSE IF check_tx_inputs(t) THEN "ok" ELSE "invalid"

\* The checks before the transactions are looked at.
HeaderVerdict(b) == check(hf, Tree[b]) /\ Tree[b].sound /\ check_block(Len(main), b)

BadTxs(b, p) == {i \in DOMAIN Tree[b].txs : TxVerdict(Tree[b].txs[i], p) # "ok"}

\* handle_block_to_main_chain on the top of main: what becomes of b.  Only wrong
\* inputs mark a block as invalid.
Verdict(b, p) ==
  IF ~HeaderVerdict(b) THEN "refused"
  ELSE IF BadTxs(b, p) # {} THEN TxVerdict(Tree[b].txs[Min(BadTxs(b, p))], p)
  ELSE IF Tree[b].reward THEN "ok" ELSE "refused"

\* return_tx_to_pool after a refusal: a transaction taken out goes back if it passes
\* the output rules of today.
PoolAfterRefusal(b, p) ==
  LET last == Min(BadTxs(b, p) \cup {Len(Tree[b].txs)})
      taken == IF HeaderVerdict(b) THEN p \cap Range(SubSeq(Tree[b].txs, 1, last)) ELSE {}
  IN  p \ {t \in taken : ~check_tx_outputs(t)}

MarkIfInvalid(b, verdict) == IF verdict = "invalid" THEN {b} ELSE {}

\* The alternative blocks from the main chain up to b: alt_chain with b at its end.
AltPath(b) ==
  LET path == PathTo[b]
      first == Max({i \in 2..Len(path) : i = 2 \/ path[i - 1] \notin alt})
  IN  SubSeq(path, first, Len(path))

\* Mutant: the block below the top is the one to beat.
HeavierThanBelow(b) == WorkOf(PathTo[b]) > WorkOf(Below(main))

\* Mutant: the longest chain wins.
LongerThanMain(b) == Len(PathTo[b]) > Len(main)

HeavierThanMain(b) == WorkOf(PathTo[b]) > WorkOf(main)

\* handle_alternative_block's early returns.
AltRefused(b) ==
  LET front == Head(AltPath(b))
  IN  \/ ~is_alternative_block_allowed(Len(main), get_block_height(b))
      \/ ~check_for_height(hf, Tree[b], get_block_height(b))
      \/ Tree[b].parent \notin alt \cup Range(main)            \* orphaned
      \/ Tree[b].parent \in alt /\ \/ Len(main) <= get_block_height(front)
                                   \/ Tree[front].parent \notin Range(main)
      \/ ~Tree[b].sound
      \/ ~check_block(get_block_height(b), b)

-----------------------------------------------------------------------------
(* Pieces of the operations *)

\* Mutant: the transactions stay in the pool.
ConnectLeavingPool(b, p) ==
  /\ main' = Append(main, b)
  /\ pool' = p
  /\ hf_versions' = set_hard_fork_version(hf_versions, hf, Tree[b], Len(main))
  /\ hf' = add(hf, Tree[b], Len(main))
  /\ confirmed' = confirmed \cup Range(Tree[b].txs)

\* The block enters the database, and the object and its table take note.
Connect(b, p) ==
  /\ main' = Append(main, b)
  /\ pool' = p \ Range(Tree[b].txs)
  /\ hf_versions' = set_hard_fork_version(hf_versions, hf, Tree[b], Len(main))
  /\ hf' = add(hf, Tree[b], Len(main))
  /\ confirmed' = confirmed \cup Range(Tree[b].txs)

\* Mutant: the transactions are dropped.
PopDropping ==
  /\ main' = Below(main)
  /\ UNCHANGED <<pool, hf_versions, hf, confirmed>>

\* pop_block_from_blockchain: the transactions go back to the pool, if they pass the
\* output rules of a version that is only corrected later.
Pop ==
  /\ main' = Below(main)
  /\ pool' = pool \cup {t \in Range(Tree[Top].txs) : check_tx_outputs(t)}
  /\ UNCHANGED <<hf_versions, hf, confirmed>>

\* reorganize_from_chain_height(h) with its loop over the blocks from h on.  (A state is
\* handed on as the element of a set, which has it worked out once.)
Reorganize(h) ==
  LET Step(s, i) == [hf |-> add(s.hf, Tree[main[i]], i - 1),
                     table |-> set_hard_fork_version(s.table, s.hf, Tree[main[i]], i - 1)]
      Replay[i \in Nat] ==
        IF i <= h THEN [hf |-> reorganize(hf, Headers(main), hf_versions, h), table |-> hf_versions]
        ELSE CHOOSE r \in {Step(s, i) : s \in {Replay[i - 1]}} : TRUE
  IN  \E done \in {Replay[Len(main)]} : hf' = done.hf /\ hf_versions' = done.table

\* load_checkpoints_from_json: only what lies above the checkpoints there are.
load_checkpoints_from_json(file) ==
  LET new == {h \in DOMAIN file : \A k \in DOMAIN checkpoints : h > k}
  IN  [h \in DOMAIN checkpoints \cup new |->
         IF h \in new THEN file[h] ELSE checkpoints[h]]

\* Mutant: the wrong block stays.
RollbackOntoCheckpoint(h) == h + 1

\* The number of blocks to keep when the one at checkpoint h is wrong.  (At height 1
\* the subtraction wraps around, and the rollback returns at once.)
rollback_height(h) == h - 2

\* The pool after a block came in with its transactions (kept_by_block).
Delivered(b) == pool \cup (Range(Tree[b].txs) \ TxsOf(main))

\* A block whose transactions are refused by the pool is not looked at.
Acceptable(b) == \A t \in Delivered(b) \ pool : check_tx_outputs(t)

Arrive(b) == seen' = IF Tree[b].parent \in seen THEN seen \cup {b} ELSE seen

-----------------------------------------------------------------------------
(* Operations *)

\* A transaction is relayed to the node, which checks it against chain and pool.
AddTx(t) ==
  /\ pc = "idle"
  /\ t \notin pool \cup TxsOf(main)
  /\ Tx[t].images \cap ImagesOf(pool) = {}
  /\ check_tx_inputs(t) /\ check_tx_outputs(t)
  /\ pool' = pool \cup {t}
  /\ UNCHANGED <<main, hf_versions, hf, checkpoints, alt, invalid, pc, job,
                 disk, start, seen, confirmed>>

\* A block comes with a transaction the pool refuses: the others stay.
RefuseBlock(b) ==
  /\ pc = "idle" /\ ~Acceptable(b)
  /\ pool' = pool \cup {t \in Delivered(b) : check_tx_outputs(t)}
  /\ UNCHANGED <<main, hf_versions, hf, checkpoints, alt, invalid, pc, job,
                 disk, start, seen, confirmed>>

\* add_new_block, on a block that is known already.
AddKnownBlock(b) ==
  /\ pc = "idle" /\ Acceptable(b)
  /\ have_block(b)
  /\ pool' = Delivered(b)
  /\ UNCHANGED <<main, hf_versions, hf, checkpoints, alt, invalid, pc, job,
                 disk, start, seen, confirmed>>

\* add_new_block, on a block that follows the top of the main chain.
AddNextBlock(b) ==
  /\ pc = "idle" /\ Acceptable(b)
  /\ ~have_block(b) /\ Tree[b].parent = Top
  /\ Arrive(b) /\ start' = main
  /\ LET verdict == Verdict(b, Delivered(b))
     IN  IF verdict = "ok"
         THEN Connect(b, Delivered(b)) /\ UNCHANGED invalid
         ELSE /\ pool' = PoolAfterRefusal(b, Delivered(b))
              /\ invalid' = invalid \cup MarkIfInvalid(b, verdict)
              /\ UNCHANGED <<main, hf_versions, hf, confirmed>>
  /\ UNCHANGED <<checkpoints, alt, pc, job, disk>>

\* add_new_block, on any other block: handle_alternative_block.
AddAlternativeBlock(b) ==
  /\ pc = "idle" /\ Acceptable(b)
  /\ ~have_block(b) /\ Tree[b].parent # Top
  /\ Arrive(b) /\ start' = main
  /\ pool' = Delivered(b)
  /\ LET checkpoint == get_block_height(b) \in DOMAIN checkpoints
     IN  IF AltRefused(b) THEN UNCHANGED <<alt, pc, job>>
         ELSE /\ alt' = alt \cup {b}
              /\ IF checkpoint \/ HeavierThanMain(b)
                 THEN /\ pc' = "disconnect"
                      /\ job' = [NoJob EXCEPT !.chain = AltPath(b), !.discard = checkpoint]
                 ELSE UNCHANGED <<pc, job>>
  /\ UNCHANGED <<main, hf_versions, hf, checkpoints, invalid, disk, confirmed>>

\* update_checkpoints reads the file; when the chain disagrees with a checkpoint, the
\* blocks from a few below it on are rolled back, and none restored.
UpdateCheckpoints(file) ==
  /\ pc = "idle"
  /\ checkpoints' = load_checkpoints_from_json(file)
  /\ LET wrong == {h \in DOMAIN checkpoints' : /\ h < Len(main) /\ h > 1
                                               /\ main[h + 1] # checkpoints'[h]}
     IN  IF wrong = {} THEN UNCHANGED <<pc, job>>
         ELSE /\ pc' = "rollback"
              /\ job' = [NoJob EXCEPT !.split = rollback_height(Min(wrong))]
  /\ UNCHANGED <<chain_vars, alt, invalid, disk, start, seen>>

\* switch_to_alternative_blockchain: pop down to the parent of the first block.
SwitchPop ==
  /\ pc = "disconnect"
  /\ Top # Tree[job.chain[1]].parent
  /\ Pop
  /\ job' = [job EXCEPT !.old = <<Top>> \o @]
  /\ UNCHANGED <<alt, invalid, pc, disk, start, seen, checkpoints>>

SwitchPopped ==
  /\ pc = "disconnect"
  /\ Top = Tree[job.chain[1]].parent
  /\ job' = [job EXCEPT !.split = Len(main)]
  /\ pc' = "connect"
  /\ UNCHANGED <<chain_vars, alt, invalid, disk, start, seen, checkpoints>>

SwitchConnect ==
  /\ pc = "connect" /\ job.next <= Len(job.chain)
  /\ Verdict(job.chain[job.next], pool) = "ok"
  /\ Connect(job.chain[job.next], pool)
  /\ job' = [job EXCEPT !.next = @ + 1]
  /\ UNCHANGED <<alt, invalid, pc, disk, start, seen, checkpoints>>

SwitchFail ==
  /\ pc = "connect" /\ job.next <= Len(job.chain)
  /\ LET b == job.chain[job.next]
     IN  /\ Verdict(b, pool) # "ok"
         /\ invalid' = invalid \cup MarkIfInvalid(b, Verdict(b, pool))
         /\ pool' = PoolAfterRefusal(b, pool)
  /\ pc' = "rollback"
  /\ UNCHANGED <<main, hf_versions, hf, confirmed, alt, job, disk, start, seen, checkpoints>>

\* Mutant: the hard fork object keeps the votes of the popped blocks.
RollbackPoppedOnly ==
  /\ pc = "rollback" /\ Len(main) = job.split
  /\ pc' = "restore"
  /\ UNCHANGED <<chain_vars, alt, invalid, job, disk, start, seen, checkpoints>>

\* rollback_blockchain_switching: pop what was connected, correct the hard fork
\* object, connect the original blocks, correct it again.
RollbackPop ==
  /\ pc = "rollback" /\ Len(main) # job.split
  /\ Pop
  /\ UNCHANGED <<alt, invalid, pc, job, disk, start, seen, checkpoints>>

RollbackPopped ==
  /\ pc = "rollback" /\ Len(main) = job.split
  /\ Reorganize(job.split)
  /\ pc' = "restore"
  /\ UNCHANGED <<main, pool, confirmed, alt, invalid, job, disk, start, seen, checkpoints>>

RollbackConnect ==
  /\ pc = "restore" /\ job.old # <<>>
  /\ Verdict(Head(job.old), pool) = "ok"
  /\ Connect(Head(job.old), pool)
  /\ job' = [job EXCEPT !.old = Tail(@)]
  /\ UNCHANGED <<alt, invalid, pc, disk, start, seen, checkpoints>>

\* After the rollback the failed block and those above it are invalid.
MarkRest(more) ==
  LET rest == Range(SubSeq(job.chain, job.next, Len(job.chain)))
  IN  /\ invalid' = invalid \cup rest \cup more
      /\ alt' = alt \ rest
      /\ pc' = "idle" /\ job' = NoJob

RollbackDone ==
  /\ pc = "restore" /\ job.old = <<>>
  /\ Reorganize(job.split)
  /\ MarkRest({})
  /\ UNCHANGED <<main, pool, confirmed, disk, start, seen, checkpoints>>

\* "PANIC! failed to add (again) block": the caller goes on all the same.
RollbackPanic ==
  /\ pc = "restore" /\ job.old # <<>>
  /\ LET b == Head(job.old)
     IN  /\ Verdict(b, pool) # "ok"
         /\ MarkRest(MarkIfInvalid(b, Verdict(b, pool)))
         /\ pool' = PoolAfterRefusal(b, pool)
  /\ UNCHANGED <<main, hf_versions, hf, confirmed, disk, start, seen, checkpoints>>

\* The disconnected blocks become alternatives, by handle_alternative_block, which does
\* not switch here (see NoSwitchInSwitch).
SwitchKeepOld ==
  /\ pc = "connect" /\ job.next > Len(job.chain)
  /\ ~job.discard /\ job.old # <<>>
  /\ alt' = IF AltRefused(Head(job.old)) THEN alt ELSE alt \cup {Head(job.old)}
  /\ job' = [job EXCEPT !.old = Tail(@)]
  /\ UNCHANGED <<chain_vars, invalid, pc, disk, start, seen, checkpoints>>

SwitchDone ==
  /\ pc = "connect" /\ job.next > Len(job.chain)
  /\ job.discard \/ job.old = <<>>
  /\ alt' = alt \ Range(job.chain)
  /\ Reorganize(job.split)
  /\ pc' = "idle" /\ job' = NoJob
  /\ UNCHANGED <<main, pool, confirmed, invalid, disk, start, seen, checkpoints>>

\* cleanup_handle_incoming_blocks ends the batch.
Commit ==
  /\ pc = "idle"
  /\ disk' = Disk
  /\ UNCHANGED <<chain_vars, alt, invalid, pc, job, start, seen, checkpoints>>

\* The node stops anywhere and starts again.  (The start also pops blocks whose version is
\* not the one the schedule has at their height; a chain that this node built has none.)
Crash ==
  /\ main' = disk.main /\ pool' = disk.pool /\ hf_versions' = disk.hf_versions
  /\ confirmed' = disk.confirmed
  /\ hf' = rescan(Headers(disk.main), disk.hf_versions)
  /\ checkpoints' = Checkpoints
  /\ alt' = {} /\ invalid' = {}
  /\ pc' = "idle" /\ job' = NoJob
  /\ start' = disk.main /\ seen' = Range(disk.main)
  /\ UNCHANGED disk

SwitchStep ==
  \/ SwitchPop \/ SwitchPopped \/ SwitchConnect \/ SwitchFail
  \/ RollbackPop \/ RollbackPopped \/ RollbackConnect \/ RollbackDone \/ RollbackPanic
  \/ SwitchKeepOld \/ SwitchDone

Next ==
  \/ \E t \in Txs : AddTx(t)
  \/ \E b \in Blocks \ {Genesis} : \/ RefuseBlock(b)
                                   \/ AddKnownBlock(b)
                                   \/ AddNextBlock(b)
                                   \/ AddAlternativeBlock(b)
  \/ \E file \in CheckpointFiles : UpdateCheckpoints(file)
  \/ SwitchStep
  \/ Commit
  \/ Crash

\* A switch runs to its end: it is a loop under locks that waits for nobody.
Spec == Init /\ [][Next]_vars /\ WF_vars(SwitchStep)

-----------------------------------------------------------------------------
(* Properties *)

Idle == pc = "idle"

\* The main chain is valid at any moment, also in the middle of a switch or rollback:
\* no key image spent twice, no output from a disconnected block used.
MainValid == main = PathTo[Top] /\ Top \in ValidBlocks

\* Reorganisations lose no transaction: what was confirmed once is in the chain or
\* waits in the pool, and no transaction is ever in both.
NoTxLost ==
  /\ Idle => confirmed \subseteq pool \cup TxsOf(main)
  /\ pool \cap TxsOf(main) = {}

\* The node follows the heaviest valid chain of which it got every block in order.
HeaviestWins ==
  Idle => \A b \in seen \cap ValidBlocks : WorkOf(PathTo[b]) <= WorkOf(main)

\* Between blocks the hard fork object is the one of the main chain, although the
\* switch pops and connects blocks before it corrects the object.
HfFollowsMain ==
  Idle => hf = Recount(Headers(main), Len(main), ForkOf(Tree[Top].major))

\* "PANIC! failed to add (again) block while chain switching during the rollback!"
\* does not happen: the original blocks connect again.
RollbackRestores ==
  pc = "restore" /\ job.old # <<>> => Verdict(Head(job.old), pool) = "ok"

\* A block at a checkpoint stays in the main chain, whatever comes in later.  A switch
\* to a branch that was known before the checkpoint was loaded does disconnect it, but
\* does not get past the height of the checkpoint, and the rollback brings it back: only
\* a rollback that ends in "PANIC!" (see RollbackRestores) loses the checkpointed block.
CheckpointFinal ==
  [][pc # "idle" /\ pc' = "idle" /\ job.chain # <<>> /\ ~Crash /\ ~RollbackPanic =>
       \A h \in DOMAIN checkpoints :
         checkpoints[h] \in Range(start) => checkpoints[h] \in Range(main')]_vars

\* Disconnected blocks that become alternatives start no switch of their own inside the
\* one that is still under way, though handle_alternative_block may: the new chain
\* outweighs them, and none is at a checkpoint.
NoSwitchInSwitch ==
  pc = "connect" /\ job.next > Len(job.chain) /\ ~job.discard /\ job.old # <<>> =>
    LET b == Head(job.old)
    IN  AltRefused(b) \/ ~(get_block_height(b) \in DOMAIN checkpoints \/ HeavierThanMain(b))

\* Between blocks the main chain agrees with every checkpoint, those loaded after its
\* blocks included.
CheckpointsHold ==
  Idle => \A h \in DOMAIN checkpoints : h < Len(main) => main[h + 1] = checkpoints[h]

\* Seen between two blocks, the node does what ForkChoice promises.
Choice == INSTANCE ForkChoice
            WITH Chains <- ValidChains, Genesis <- <<Genesis>>, Work <- WorkOf,
                 best <- IF Idle THEN main ELSE start, saved <- disk.main

ChoiceSpec == Choice!Spec

=============================================================================
