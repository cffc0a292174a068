# Verification of the XR node

The repository's running system is `core/hostblock/xr-coin-master`, a cryptonote node in C++
(Monero, AEON family): a block chain in LMDB, hard forks by schedule or vote, reorganisations onto
heavier chains, a transaction pool, mining, block download, a p2p node, and a wallet. Around it are small
Python services and static sites. This directory holds TLA+ models of the parts where order,
failure and arithmetic are hard to test, the TLC runs over them, and TLAPS proofs. Paths below are
relative to `src/core/hostblock/xr-coin-master/src` unless they start with `src/`.

## Parts

| Part | State | Operations | What is hard |
|---|---|---|---|
| HardFork | vote window, histogram, current fork, `hf_versions` table | check, add, reorganize, rescan, repopulate | popped blocks are not reported to it; restart from a table |
| Blockchain | main chain, alternative and invalid blocks, open batch | add block, switch, rollback, crash | a switch fails half way; the fork object and the pool lag behind |
| Checkpoints | height to hash | check, load from file, enforce | number of blocks against height; a checkpoint loaded after its block |
| Transaction pool | database, order by fee, key images, weight, input cache | add, take, flush, prune, expire, restart | six ways out, three indexes; remembered failures and cached checks |
| Template filling | counters and sums of the block so far | one turn of the loop | two passes, replacements, penalty, float threshold |
| Thread pool | queue, active count, waiters, thread-local depth and leaf flag | submit, run, wait | routines that wait for routines on the same threads |
| Template cache, miner | cached template and key, template number, pauses | create, cache, invalidate, mine, pause, stop | locks released between reads; a number read outside its lock |
| Block queue, protocol handler | spans, requested hashes, connections | request, receive, add, kick, close | several peers and branches; handlers that return early |
| Core and database | batch, its owner, locks of three kinds, window of difficulties | prepare, add, clean up, read, crash | a batch that spans many calls; an abort that does nothing |
| p2p node | white, gray and anchor lists, connections, bans | connect, handshake, ping, sync, store | counts sampled once a second; callbacks of either direction |
| Wallet | chain of hashes, transfers, sent transactions | refresh, detach, send | splits seen through answers that were asked for before |
| `src/services/xr_miner.py` | chain file | mine, write | the file is rewritten in place |

The rest (cryptography, device code, serialization, RPC, user interfaces, epee's sockets, word
lists, scripts and sites) is data conversion, numeric code or I/O. `PROJECT.json` lists every part
with its status and the reason.

How they interact: the p2p node holds connections, over which the protocol handler and, beside it,
RPC hand blocks and transactions to `core`, which calls Blockchain and the pool inside one batch of
the database. Blockchain calls HardFork through the database (`BlockchainDB::add_block`) and
directly (`reorganize_from_chain_height`), returns transactions of popped blocks to the pool, and
asks the pool to fill templates, which the miner hashes; the pool asks Blockchain for the version
and about inputs. Input checks use the thread pool. The wallet follows the node over RPC.

What should hold: the hard fork state is a function of the chain; the main chain is valid at any
time and is the heaviest valid one; a failed switch restores what was there; no transaction is
lost; checkpoints hold; the pool's indexes agree and a template can be mined; the totals of a filled
template are those of its transactions; every wait ends; a template belongs to one chain and to who
asked for it; blocks of peers are downloaded whatever connections close; a batch has one owner and
what is committed is whole; preferred peers did answer; a wallet knows what its chain holds. Where
the code keeps one of these only under a condition, the property states the condition; where it does
not keep it, the section on properties the code does not have says so.

## Modules

| Module | Models | State and actions |
|---|---|---|
| `HardForkRules` | `cryptonote_basic/hardfork.cpp` | no variables: `check`, `add`, `get_voted_fork_index`, recount, `rescan` and so on as operators on the members of the object |
| `HardFork` | the object driven by its contract | `chain`, `hf_versions`, `hf`; `AddBlock`, `PopBlock`, `Reorganize`, the replay loop turn by turn, dropping the table, `Restart` |
| `BlockTree` | the blocks and transactions there are, and consensus as a reference definition | no variables |
| `Blockchain` | `blockchain.cpp`: `add_new_block`, `handle_block_to_main_chain`, `handle_alternative_block`, `switch_to_alternative_blockchain`, `rollback_blockchain_switching`, checkpoints, batches | a switch is one step per block popped or connected; a crash may come between any two and falls back to `disk` |
| `ForkChoice` | what Blockchain promises | adopt a heavier valid chain in one step, save, crash |
| `TxPool` | `tx_pool.cpp` | each way into and out of the pool is one action with all its index updates; blocks come and go below |
| `TemplateFill` | `tx_memory_pool::fill_block_template`, `get_block_reward` | one action per outcome of a turn of the loop |
| `ThreadPool` | `common/threadpool.cpp` | each thread has a stack of calls; one action per hold of a mutex |
| `BlockTemplate` | `Blockchain::create_block_template` and its cache | `tip`, `cookie`, `btc`, `call`: each caller is at a place of the function, split where a lock is released; `raced` records that two callers met at the cache |
| `Miner` | `cryptonote_basic/miner.cpp`, `core::handle_block_found`, `update_miner_block_template` | extends `BlockTemplate`; one step per hold of the template's lock, of the flag of background mining, of the pause counter |
| `BlockQueue` | `cryptonote_protocol/block_queue.cpp` | no variables: the queue's methods as operators on its spans and requested hashes |
| `Sync` | `cryptonote_protocol_handler.inl` | per connection its state, needed ids, pending requests and callbacks; a handler is split at the block queue and at `m_sync_lock` |
| `BlockchainDB` | `blockchain_db.cpp`, `db_lmdb.cpp` | no variables: adding and popping a block on the tables, a failing `add_block` with the rows it leaves |
| `Incoming` | `core::prepare_handle_incoming_blocks` to `cleanup_handle_incoming_blocks`, the pool's `LockedTXN`, readers | threads at places between lock operations; `batch`, `writer`, `committed`, `lock`, the window of difficulties in `mem` |
| `PeerList` | `p2p/net_peerlist.h` | no variables: the lists' methods; where the oldest entry goes, any entry may |
| `NetNode` | `p2p/net_node.inl` | `job` is where the idle worker is in `connections_maker`, housekeeping or storing; other threads change `conns`, `peers`, `blocked` between its steps |
| `Wallet` | `wallet2::refresh` and what it calls, `commit_tx`, `update_pool_state` | `loop` is where the refresh is, `pull` the request its second thread has under way; the daemon's chain and pool change at any time |
| `HardForkProofs`, `BlockchainProofs`, `ThreadPoolProofs`, `IncomingProofs`, `NetNodeProofs`, `MinerProofs`, `SyncProofs`, `TxPoolProofs` | proofs about the module named | |
| `MC...` | small instances | |

`Blockchain` composes the rules of `HardForkRules` with a set-valued pool and the checkpoint table,
because the interplay is where the hazards are: `HardFork` alone assumes that blocks are not added
between a pop and the reorganisation of the object, and `switch_to_alternative_blockchain` does add
them. `TxPool` sees as little of the chain as the pool does: which transactions are in it. `Miner`
composes `BlockTemplate` with the threads that ask for templates, `Sync` composes `BlockQueue` with
a chain seen through `have_block`, `Incoming` composes `BlockchainDB` with the locks of core, pool
and chain, and `NetNode` composes `PeerList` with connections.

Abstractions. A block fixes its ancestors, so whatever a check computes from the chain below a
block (timestamps, difficulty, proof of work, reward) is an attribute of the block in `BlockTree`;
`sound` and `reward` stand for checks made before and after the transactions are. Transactions have
key images, the outputs they use, weight and fee. Signatures always verify. In the block trees no
block spends one key image twice; that path of the database is in `Incoming`. Constants such as
`CRYPTONOTE_MEMPOOL_TX_LIVETIME` are CONSTANTS of the modules: the repository's
`cryptonote_config.h` defines them under other names (`XR∞_...`) or, as with `P2P_...`, not at all.
The float threshold of filling is modelled by rounding to `FloatBits` significant bits, ties to
even. `size_t` keeps its width as `SizeModulus`. A template is the chain it builds on, the chain its
transactions were chosen for, the state of the pool then, and the address it pays. `next_blocks_start_height`
of `refresh` is read before it is set (`wallet2.cpp:2770`), so its value is left open there.

## Runs

| Run | Instance | Shows |
|---|---|---|
| `hardfork` | forks by 30% and 80% of a window of 3, 7 blocks | window, current fork and versions of blocks depend on the chain only; a restart rebuilds the same object |
| `reorg` | three branches above the fork, one invalid, one with a wrong reward, double spends across branches | validity, heaviest chain, no transaction lost, rollback restores; `Blockchain` implements `ForkChoice` |
| `reorg_edges` | branches that split below the fork, go on past the checkpoint and are heavier, and one that splits at the fork; a transaction that the fork forbids; a checkpoint file loaded at any time | the fork object follows the chain (`HfFollowsMain`), the chain agrees with the checkpoints (`CheckpointsHold`), a checkpointed block is lost only by a rollback that ends in a panic (`CheckpointFinal`), and keeping the disconnected blocks starts no second switch (`NoSwitchInSwitch`) |
| `tx_pool` | three transactions that conflict and depend, room for two, a clock of two ticks | indexes agree, templates can be mined, limits, restart |
| `template_fill` | all sorted pools of four transactions of twelve shapes, three rule sets | counted anew, the transactions fit into a block, share no key image, and from version 5 on bring the reward announced (`BlockAddsUp`) |
| `thread_pool` | two workers and one client, three levels of routines, two leaves | wait means done, no lost wake-up, no deadlock |
| `mining` | one worker in background mode with the threads around it; two clients of RPC; both at once, with one client and one chain | unless two callers meet at the unlocked cache, or the pool changes just before its cookie is read, templates are for who asked (`CacheRight`); every pause is undone (`PausesBalanced`), a node that only mines leaves old chains (`StaleEnds`) |
| `sync` | two peers on one chain, on two branches, or one with an invalid block; one connection closes | no hash counts as requested without a span (`NothingLeaked`), a connection stalls only after a refused block, every valid block is downloaded (`Downloads`) |
| `incoming` | two threads, three calls, one crash; a span that switches chains, one that spends a key image twice, one with a bad transaction; a hard fork with a transaction that it forbids | one owner of the batch, whole blocks on disk but for rows that failed blocks leave, stable readers, a sound window of difficulties, confirmed transactions kept unless the fork forbids them, calls end |
| `wallet` | two branches of nine and six blocks, two transactions of ours that spend one output, four moves of the daemon, one fault | no gap in the hash chain, transfers and spends are those of the chain (but for inputs of transactions that were given up), the wallet catches up |
| `peers` | four hosts, one a seed, one this node itself; a peer named on the command line or none; nine stories of faults | anchors did answer, and so did the white list but for peers of the command line (`WhiteReached`); the limit on outgoing connections holds on a node without priority and exclusive peers (`OutBounded`); the node finds peers again |

One run ends in a violation: a line of the repository says one thing and the code does another.

| Run | Statement | What TLC finds |
|---|---|---|
| `tx_pool_weight` | "the cumulative txpool weight in bytes" (`tx_pool.h:374`) | `prune` subtracts the time of receipt, and the total wraps around |

Bounds and why they are enough. `MaxHeight` 7 with a window of 3 lets the window fill, evict and
pass both fork heights, and leaves room to pop below each. The block trees let each branch overtake
another, fail at its first or at a later block, and split on both sides of a fork; blocks arrive in
every order. `MaxPruned`, `MaxTime` and the single block above the genesis block in the pool runs
let each transaction expire, be pruned, be mined and come back once. `MixedPools` reaches each
outcome of a turn in both passes. The thread instance has a thread that runs a routine while it waits for
another, more work than threads, and a leaf that submits. In `mining`, `MaxTip` 2 makes a template
stale twice and `MaxCookie` lets the pool change under a filled template; `MaxCalls` bounds the calls
at work at once. A node that mines and serves at once is checked on one chain and with one such call,
where `StaleEnds` says nothing, as no template grows old. That role alone with `MaxTip` 2 has 3,168,898
states; TLC finds no violation of the three properties in it, in 22 minutes, too long for a run of the
project. `PausesUndone` and `CacheKept` cover the role without bounds. In `sync`, spans of one block and `FullQueue` 1 make connections wait for each other with
chains of three blocks; `MaxPending` bounds the callbacks that timers add, `MaxCloses` the
connections lost. In `incoming`, three calls let a writer, a second writer and a reader overlap, and
`BlocksCount` 2 lets the window slide. In `wallet`, `Dense` 1 thins the history of ids out at once,
so that a split falls between two ids of it, and batches of `MaxCount` 4 leave one to be pulled while
the other is processed; four moves are a block, a switch, a switch back and an expiry. In `peers`, each
story of `Scenarios` bounds one kind of fault; the maker, the answers and the samples go on without
a bound.

Every property has a mutant: a plausible mistake in one definition that TLC finds by that property.

Fairness. `Blockchain` has weak fairness of the steps of a switch: they are loops of one function
under locks. `TemplateFill` has weak fairness of its loop for the same reason. `ThreadPool` has weak
fairness per thread: each runs on while it is not blocked. `Miner` has weak fairness per thread and
strong fairness of its own callers of `create_block_template`, and of the clients together: they wait
for locks that others take and release again and again. `StaleEnds` needs the clients' part on a node
that mines and serves: a client that stops for good with the lock of the chain keeps the idle thread from
ever asking for a template; and where `MaxCalls` is 1, so does a client that waits for the pool
forever, which is what TLC finds under weak fairness of the clients. `Sync` has weak fairness per connection: peers answer, timers fire, and a
handler goes on. `Incoming` has weak fairness per thread;
as calls are bounded, each lock is free for good in the end.
`Wallet` has weak fairness of refreshing and of the thread that pulls. `NetNode` has weak fairness of the
idle worker once it is in a job, of the handlers of open connections, of the sampler and of the end
of a ban; strong fairness of starting `connections_maker`, which shares the idle worker with other
jobs; and strong fairness of each entry being picked, because the picks are random. Whether a
new block, transaction or call arrives is never assumed. Deadlock checking is off where the system
ends: the filling loop, the client of the thread pool, and threads that made all their calls.

## Proofs

`HardForkProofs` proves, for every fork table in increasing order starting with version 1
(`ForksAssumption`, what `add_fork` enforces), every window size (`WindowAssumption`) and every
bound on the height:

- `TypeCorrect`, `WindowCorrect`, `ForkAgreement`, `ChainFollowsForks`, `RecordCorrect`,
  `ScheduleRespected`: the invariants of run `hardfork`, what the version table records, and that
  no version comes before its height;
- `RestartIdentity`: the action property of the same run.

The invariants are not inductive: while blocks are popped or replayed the object is not the chain's.
`IInv` adds what holds then. `PhaseOK`: after pops the fork index is not lower than any version on
the chain; a replay has the object of the blocks below its position, and their versions in the
table; a dropped table is marked at height 0. `ChainOK`: versions on the chain are in the fork
table, scheduled by their height, and do not decrease, and each block has the version of the fork in
force. The argument for the current fork: `AddAdvances` (adding a block slides the window and the
histogram like a recount) gives the step of `AddBlock` and of the replay; `LoweredFork` and
`FoundFork` give the start of a reorganisation and of a rescan, where the index is
looked up from a version and the votes may raise it. Lemmas on greatest and least elements, on the
histogram under append and tail, and on prefixes of chains carry it.

`IncomingProofs` proves, for any set of threads and any blocks, transactions, spans and bounds, from
two assumptions. The mark of a free lock is no thread (`NobodyIsNoThread`). The data are well formed
(`DataAssumption`): finitely many blocks, no hash is that of a block and of a transaction, and the chain at
the start is one that `add_block` could have built. The results:

- `BatchOwned`: an open batch belongs to one thread, which holds the lock of the pool (`OwnBatch`);
- `ReadersStable`: the committed chain does not change under a reader (`ReaderStable`);
- `BatchFree`: where `batch_start` is called there is no batch, so the loop at
  `blockchain.cpp:4293` that waits for one is never entered;
- `WholeCommitted`: the committed tables are those of the committed chain, but for rows of failed
  blocks (`CommittedWhole`);
- `WindowsSound`: the window of difficulties kept in memory never disagrees with the database
  (`WindowSound`);
- `KeptConfirmed`: no step loses a transaction of a committed block, unless the pool refuses it by the
  rules of the fork in force when its block is popped (`ConfirmedKept`; that these are lost is what
  the code does, `blockchain.cpp:641`).

`OwnBatch` is not inductive, for it says nothing of the threads that do not own the batch. `IInv`
says of every place of a thread which locks it holds there (`Places`), and that an open batch has a
thread at a place that writes (`Owner`). The argument: `MovesTo` is what a step of one
thread may do to locks, batch and committed tables; `OneMoves` shows that such a step preserves
`IInv`, and `StepInv` that each action is one.

The last three results need a second invariant, `DataInv`. What is committed was the batch of some
thread, so the tables of the open batch must be exact too: `Exact(db, over)` says which rows and key
images there are, with `over` the rows left behind by failed blocks, and that no two blocks share a
row. Without the last part a popped block could take away rows of another. The window is filled
by readers from the committed chain and used by the writer on its longer one. That is right as long
as the writer's chain goes on from the committed one (`Prefix`), and a pop, which may end that, sets
`reset` so that the window is dropped (`WindowOK`). `Good` says this of the state that the functions
under `add_new_block` hand to each other. There is one lemma per function: `PopExact`, `AddExact` and
`PartExact` (a block added half way) for the database, then `PopGood`, `HandleGood`, `PopToGood`,
`ConnectGood`, `SwitchGood`, `AltGood` and `NewBlockGood` up the calls. The loops are
recursive functions over a bounded range; what holds of each round holds at the end by a least
counterexample (`AllUpTo`), so no induction scheme is needed. TLC checked `DataInv` on the instance of `incoming`
before it was proved.

`NetNodeProofs` proves `WhiteAnswered`, for any hosts, seeds, lists of peers, command lines and limits:
the anchors only hold addresses that answered a connection of this node, and the white list only
these and the ones the user named at some start (`WhiteReached`); the latter get into the white list
at `net_node.inl:550`, whether they answer or not.
It is not inductive: an address is held by the file, by a connection past its handshake, or by an
attempt of the idle worker before it gets into a list. `IInv` says that each of them answered
(`Good(saved, reached)`, `KnownReached`, `AttemptReached`). One lemma per operation of `PeerList`
shows which addresses it may add; then there is one step per action.

`OutWithinPlan` proves of the same module that the connections `connections_maker` keeps are never
more than any list of its plan may ask for, and that no two have the same address. The room is counted
some time before a connection is made; `OutInv` carries the count through the places of the attempt
(`Room`). Where the number of anchors is not above the limit, this gives `OutLimited`
(`OutBounded`). Both are about a node without priority and exclusive peers: `connections_maker` tries
those (`net_node.inl:1217`) with only the sampled number in the way.

`MinerProofs` proves, for any finite set of workers and any clients, all of them callers of
`create_block_template` besides the idle, network and control threads (`ThreadsAssumption`):

- `PausesUndone`: the count of pauses is the number of threads between their pause and their resume
  (`PausesBalanced`);
- `ResumesExpected`: `resume` never finds a count of zero, so the correction it makes then
  (`miner.cpp:431`) is never used;
- `CacheKept`: the template cache never mixes up two callers, up to the races `raced` records
  (`CacheRight`).

`PausesBalanced` is not inductive: `start` replaces the workers, and would forget one that has
paused. `IInv` adds `Control`: where the control thread may start workers, all old ones have left.
Every action either leaves the pauses and the control thread alone (`QuietInv`), or makes one thread
pause or resume (`PauseInv`), or is one of the control thread. For the cache, which a call fills
member by member, `CacheInv` says what a call holds at each place of `create_block_template`, which
members are its own already, and that only one call writes; most steps are `Harmless` to it.

`SyncProofs` proves `RequestedHeld`, for any peers, blocks and limits: a hash that counts as
requested is held by a span (`NothingLeaked`). `IInv` adds that spans are whole records (`Tight`).
One lemma per method of the queue shows that it keeps a queue tight; every handler is a few calls of
them.

`BlockchainProofs` proves, for any tree of blocks whose parents are lower (`TreeAssumption`,
`PathAssumption`), any checkpoints whose files start above height 2, and any order of arrival:
`MainSound` (the main chain is a path of the tree, its transactions spend outputs of blocks below
them, and none occurs twice), `PoolAndChainApart`, and `CheckpointsKept` (`CheckpointsHold`). None of
them is inductive, since a switch takes many steps and a crash may come between any two. `ChainInv`
says of every stage of a switch what it still has to do (`SwitchInv`): the blocks to connect follow
one another, the next one follows the top of the main chain, and the disconnected ones fit where a
failure would bring them back. What is on disk is sound as well, since a crash falls back to it, and
while blocks go because of a new checkpoint, those that stay agree with it (`AgreesInv`). One lemma for popping and one for
connecting a block carry all stages.

`ThreadPoolProofs` proves, for any finite set of workers, any clients and any tree of routines
(`PoolAssumption`): `NoneIdle` (`NoIdleWork`) and `WaitsForAll` (`WaitWaits`). For the first it is
enough that sleeping workers are in no routine. For the second `WaitInv` adds that the count in a
waiter is the number of routines of its job that are in the queue or run by the loop of `run`, that a
routine is in one place only, and that one called by `submit` runs directly on top of the job that
submitted it; each action is then shown to move one routine from one place to the next.

`TxPoolProofs` proves, for any finite set of transactions with any key images, weights and fees, any
blocks and any limits (`PoolAssumption`):

- `IndexesInStep`: the order by fee and the index of key images agree with the table (`IndexesAgree`);
- `PoolStartsAgain`: of the transactions that spend one key image at most one was not kept by a block
  (`StartsAgain`);
- `TemplatesValid`: what `fill_block_template` chooses can be mined on the chain (`TemplateValid`).

`PoolInv` is the inductive invariant: the pool is one whose parts agree (`Pools`), `StartsAgain`, pool
and chain share no transaction, no transaction is in two blocks of the chain, and the cache of input
checks says what a check on the present chain would say (`CacheRight`). The two parts about the chain
are needed for `pop_block`: the transactions that come back must be new to the pool, and may not stay
in the chain. The third theorem follows from the cache and from the test of key images in the
choice itself, the second from the test of key images that a relayed transaction passes. The loops of the code (`prune`, blocks that take or return their
transactions, the start, the choice for a template) are recursive functions over a list; for each of
them a lemma gives a set of states per stage (`TakePool`, `PrunePool`, `ReturnPool`, `ReadPool`,
`TemplateMineable`), and `GoodWithin`, `GoodKin`, `GoodSame` and `GoodEntered` say which changes of the
table keep the invariant. The helpers on sequences are spelled out in `TxPool`, since `SequencesExt`
brings in bags, which slow the prover down several times. TLC checked `PoolInv` on the instance of
`tx_pool` before it was proved.

Only model-checked:

- liveness under fairness, which the prover does not reach;
- in `Blockchain`: the version part of `MainValid`, `HeaviestWins`, `RollbackRestores`,
  `HfFollowsMain`, `NoTxLost` and the refinement of `ForkChoice`. They hold where reorganisations do
  not cross a fork in the way the table below shows, so no theorem about every tree can state them;
  `CheckpointFinal` and `NoSwitchInSwitch` rest on the sums of work along branches;
- `StallsOnlyAfterRefusal` of `Sync`: the ids asked for may leave gaps, so it depends on the branches
  there are;
- `PoolBounded` of `TxPool`: it depends on sums of weights and on how far the total has wrapped around,
  which `MaxPruned` bounds;
- `TemplateFill` and `Wallet`: their properties are about folds over sequences and sets, and powers, for
  which the provers have no induction.

## Properties the code does not have

Each of these is defined in its module with the statement it is taken from. In the configuration
named it does not hold, and is part of no run with it (`HeaviestWins` and `RollbackRestores` do hold
where no reorganisation crosses a fork, and are checked there by `reorg`). To see the counterexample,
put the property into that configuration.

| Property | Statement | What happens | Configuration |
|---|---|---|---|
| `PartialUndone` (`Incoming`) | implementations "need to handle undoing any partially-added blocks in the event of a failure" (`blockchain_db.h:787`) | `block_txn_abort` does nothing inside a batch (`db_lmdb.cpp:3231`); a block that spends a key image twice fails in `add_block`, is caught (`blockchain.cpp:3781`), and its rows are committed with the batch | `MCIncoming.cfg` |
| `Synchronizes` (`Sync`) | whoever has the lock adds blocks "for as long as we can from the block queue" (`cryptonote_protocol_handler.inl:982`) | a span filled between the last look of the thread with `m_sync_lock` and its unlock stays: its own connection fails to lock and goes on, and when no connection asks for more, nobody looks at the queue again until a new block is announced | `MCSync.cfg` |
| `StopEnds` (`Miner`) | threads that wait for background mining are notified (`miner.cpp:369`) | a worker tests the flag (`miner.cpp:458`), `stop` notifies, the worker waits (`:462`) with no test under the mutex, and `stop` joins it for ever | `MCMiner.cfg` |
| `InputsFreed` (`Wallet`) | a transaction is given up "only when refreshed, so we're sure we've seen the blockchain state first" (`wallet2.cpp:2355`) | `refresh` tells `update_pool_state` that it has refreshed (`:2717`) before it pulls blocks: a transaction that was mined since is given up, and its inputs are offered again until its block is processed | `MCWallet.cfg` |
| `HeaviestWins` (`Blockchain`) | "we need to see if that chain is long enough to become the main chain" (`blockchain.cpp:1687`) | once a fork is active, `check_for_height` refuses the blocks of a heavier branch that splits below it (`:1716`) | `MCEdge.cfg` with `Tree <- HeavyTree` |
| `RollbackRestores` (`Blockchain`) | "PANIC! failed to add (again) block" is treated as impossible (`blockchain.cpp:1117`) | a transaction the later version forbids is not taken back into the pool (`:633`), and its block cannot be restored | `MCEdge.cfg` |
| `ValidIsReady` (`TxPool`) | "it may become valid again" (`tx_pool.cpp:226`) | a failure is remembered as long as the block that was the top then is in the chain (`:1018`) | `MCTxPool.cfg` with `WeightLimit = 2` |
| `ExpectedReward` (`TemplateFill`) | `expected_reward` is "the total reward awarded to the miner finding this block, including transaction fees" (`tx_pool.h:226`) | before version 5 the first pass does not compute it, and a transaction that is taken there sets it to 0 (`tx_pool.cpp:1427`) | `MCFill.cfg` |
| `RatioRespected` (`TemplateFill`) | "from v7, limit the ratio of non-private txes" (`blockchain.cpp:3740`) | a replacement is counted as an addition (`tx_pool.cpp:1429`), and the node's own template exceeds the limit | `MCFill.cfg` |

## Observations from reading

- `HardFork::check_for_height` starts at the current fork (`hardfork.cpp:121`) while `hardfork.h:109`
  speaks of the given height. `get_voting_info` reports a threshold (`hardfork.cpp:414`) other than
  what `hardfork.h:207` says.
- `is_alternative_block_allowed` is given the number of blocks (`checkpoints.cpp:144`), documented as
  the height of the chain (`checkpoints.h:113`).
- For a wrong block at height 1 `pt.first - 2` wraps around (`blockchain.cpp:3987`) and the rollback is
  skipped. No file can add a checkpoint below the built-in ones, so this needs a database of another
  network; `CheckpointAssumption` leaves it out.
- The threshold of `tx_pool.cpp:67,80` is a float with 24 significant bits, so filling may lose a
  little reward, against the comment at `tx_pool.cpp:1215`.
- `threadpool.cpp:76` tests `active == max`; a thread that runs a routine while it waits counts twice,
  so `active` may pass `max`. Work is then queued instead of run at once, and still done.
- The cookie of the pool is read after the pool was unlocked (`blockchain.cpp:1540`), so a template may be cached
  under a cookie newer than its transactions. The cache itself is written member by member under no
  lock (`:4893`), so a caller that compares and copies it meanwhile may get a template that pays
  someone else. `CacheRight` is stated up to these two races and does not cover them.
- The hashes that would let a peer with an old list be asked again are recorded
  (`cryptonote_protocol_handler.inl:1472`), and the condition that uses them is `&& false` (`:1555`).
- A connection that adds another one's bad span returns without a request of its own (`:1126`) and
  waits for `kick_idle_peers`. A timed sync in standby appends ids that are there already, and
  a second callback makes a second request.
- The return without cleanup in the loop that adds blocks (`:1071`) is not reached:
  `handle_incoming_txs` always fills the vector it is given. An exception out of `batch_start` or
  `add_new_block` in `handle_block_found` would leave the locks of `prepare` taken.
- When a rollback panics, the blocks of the old chain that were not restored are gone from the main
  chain, a checkpointed one included. For this the branch must have been known before the checkpoint
  was loaded, and cross a fork.
- At start `Blockchain::init` pops blocks whose version the hard fork object refuses
  (`blockchain.cpp:439`). `Crash` of `Blockchain` leaves this out: with the forks by schedule of that
  module (and of every table in the code, whose thresholds are 0) the chain on disk has none.
- A reader over RPC sees the hard fork object of a batch that is not committed yet.
- In the wallet, a refresh that tries again after a failed batch goes on with a history that holds ids it never
  processed; a daemon that switches there and back may make it set its hash chain up from the first
  block, while the transfers stay. The pulling thread and the handler of errors both use
  `short_chain_history`. When one of two own transactions with a common input is given up, the input
  shows as unspent although the other one spends it.
- In the p2p node, `block_host` takes `m_blocked_hosts_lock` and then the lock of connections
  (`net_node.inl:199`), while callbacks of `foreach_connection` run under the latter and may add a
  host fail, which takes the former. A host may be blocked between the filter of
  `connection::start` and the registration of its connection. `m_current_number_of_out_peers --`
  (`:927`) is unsigned and races with the sampler. The limit on incoming connections is sampled, so
  a burst within a second passes it (`:1718`). Anchors are dropped from the list when they are read at start,
  before any of them is connected. `m_conn_fails_cache` is read and never written.

## Not modelled

What follows is left out of a part that is modelled:

- miner: hash rate, nonces, hashing, battery and processor statistics, failures of
  `create_block_template`: they measure or compute, and change none of the state that threads share;
- protocol handler: fluffy blocks, relaying, serving the requests of others, the target height: no
  state is kept between messages, or it is only reported;
- core: start-up, options, semantics of ring signatures, relaying, disk and update checks;
- database: outputs and their indices, cursors, growth of the map, migration: the first are rows
  that follow their transaction, the others are LMDB's; the Berkeley DB back end does the same by other calls;
- p2p node: priority and exclusive peers, limits changed over RPC, run-time fallback seeds, uPnP, support
  flags, the incoming side of a connection to itself, and the time until a closed connection is
  destroyed;
- wallet: light wallet, wallets that start above the first block (`fast_refresh`, and blocks that are not
  scanned because they are older than the wallet, `wallet2.cpp:1956`), hash chains with an offset, `rescan_spent`, unconfirmed incoming payments,
  the scanning of outputs, amounts and an output that replaces a smaller one with the same key,
  subaddresses, and the making of transactions;
- pool: relay times and statistics; thread pool: its destructor, which runs at exit.

Parts with no model: cryptography and ring signatures (arithmetic over large fields), devices, multisig, mnemonics,
serialization and formats (conversions without a protocol), difficulty (one pass over at most 720 numbers; which window it
is given is in `Incoming`), RPC, console and the wallet's interfaces (queries and I/O), epee's
sockets and storage beyond what `NetNode` needs, import and export tools, the Python services,
dashboards, scripts and sites (a few lines around files). They are by far most of the repository's
lines, so the share of it that is mapped stays small although the stateful core of the node is
covered.
