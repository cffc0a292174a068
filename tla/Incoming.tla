------------------------------ MODULE Incoming ------------------------------
(***************************************************************************)
(* The threads that write to the database, and the locks between them.     *)
(*                                                                         *)
(* Whoever adds blocks runs prepare_handle_incoming_blocks, then for every *)
(* block handle_incoming_txs and handle_incoming_block, and at the end     *)
(* cleanup_handle_incoming_blocks, all in one batch of the database.  The  *)
(* pool writes in a batch of its own when there is none (LockedTXN), and   *)
(* RPC threads read what is committed.  Between prepare and cleanup only   *)
(* the locks of incoming transactions and of the pool are held; the lock   *)
(* of the chain is taken call by call.                                     *)
(*                                                                         *)
(* add_new_block is one step: other threads see nothing of a batch before  *)
(* its commit, and what they share with it in memory is under the lock of  *)
(* the chain.                                                              *)
(***************************************************************************)
EXTENDS BlockchainDB

CONSTANTS
  Nobody,
  Threads,     \* all threads
  Spans,       \* what may come in to be added: sequences of blocks
  Bad,         \* the transactions that fail verification
  Loose,       \* the transactions that also come on their own
  Outdated,    \* the transactions with outputs that the next hard fork forbids
  ForkHeight,  \* its height
  StartChain,  \* the chain at the start
  BlocksCount, \* DIFFICULTY_BLOCKS_COUNT
  MaxCalls,    \* bound on the calls of all threads
  MaxCrashes   \* bound on the crashes

ASSUME NobodyIsNoThread == Nobody \notin Threads

\* Hashes of blocks are none of transactions.  The chain at the start was added block by
\* block: no transaction and no key image is in it twice.
ASSUME DataAssumption ==
  /\ IsFiniteSet(DOMAIN Blocks) /\ DOMAIN Blocks \cap DOMAIN Key = {}
  /\ \A b \in DOMAIN Blocks : Blocks[b].prev \in DOMAIN Blocks /\ Blocks[b].txs \in Seq(DOMAIN Key)
  /\ Spans \subseteq Seq(DOMAIN Blocks) \ {<<>>} /\ Loose \subseteq DOMAIN Key
  /\ StartChain \in Seq(DOMAIN Blocks) \ {<<>>}
  /\ \A i, j \in DOMAIN StartChain : i # j => RowsOf(StartChain[i]) \cap RowsOf(StartChain[j]) = {}
  /\ \A t, u \in TxsOf(StartChain) : Key[t] = Key[u] => t = u
  /\ BlocksCount \in Nat /\ ForkHeight \in Nat

VARIABLES
  committed,  \* what readers of the database see, and a restart finds
  batch,      \* the open write transaction, NoBatch if there is none
  writer,     \* m_writer
  lock,       \* the owners of m_incoming_tx_lock, the pool's and the chain's lock
  mem,        \* what Blockchain keeps in memory
  thread,     \* where each thread is, and what it still has to do
  left,       \* history: rows left behind by blocks that were added in part
  calls, crashes

vars == <<committed, batch, writer, lock, mem, thread, left, calls, crashes>>

NoBatch == [chain |-> <<>>, txs |-> {}, keys |-> {}, pool |-> {}]
Free == [l \in {"incoming", "pool", "chain"} |-> Nobody]
Idle == [at |-> "idle", job |-> <<>>]

\* A new process: the window of difficulties is to be read anew, and the hard fork object
\* is the one of the chain.
NewMem(chain) ==
  [alt |-> {}, invalid |-> {}, window |-> <<>>, height |-> 0, reset |-> TRUE, sound |-> TRUE,
   forked |-> Len(chain) >= ForkHeight]

Init ==
  /\ committed = Whole(StartChain, {})
  /\ batch = NoBatch /\ writer = Nobody
  /\ lock = Free
  /\ mem = NewMem(StartChain)
  /\ thread = [t \in Threads |-> Idle]
  /\ left = {}
  /\ calls = 0 /\ crashes = 0

-----------------------------------------------------------------------------
(* Blockchain, on a state s of database and memory *)

LastOf(seq, n) == SubSeq(seq, Max({1, Len(seq) - n + 1}), Len(seq))

\* The window of the last blocks (genesis never counts) is always read again; where it
\* could have been moved on by one block, the two are compared.
get_difficulty_for_next_block(m, chain) ==
  LET height == IF m.reset THEN 0 ELSE m.height
      real == LastOf(Tail(chain), BlocksCount)
      moves == height # 0 /\ Len(chain) - height = 1 /\ Len(m.window) >= BlocksCount
  IN  [m EXCEPT !.window = real, !.height = Len(chain),
                !.sound = @ /\ (moves => LastOf(Append(m.window, TopOf(chain)), BlocksCount) = real)]

\* What add_tx refuses even for a block: outputs that the current version forbids.
Forbidden(m) == IF m.forked THEN Outdated ELSE {}

\* Mutant: the transactions of the block are forgotten.
PopForgetting(s) == [s EXCEPT !.db = pop_block(@), !.mem.height = 0, !.mem.reset = TRUE]

\* The transactions go back to the pool.  One that the pool refuses is only logged, and
\* lost; the version it goes by is still the one of the chain before any block was popped.
pop_block_from_blockchain(s) ==
  LET popped == pop_block(s.db)
      back == Range(Blocks[TopOf(s.db.chain)].txs) \ Forbidden(s.mem)
  IN  [s EXCEPT !.db = [popped EXCEPT !.pool = @ \cup back], !.mem.height = 0, !.mem.reset = TRUE]

\* reorganize_from_chain_height: the hard fork object is that of the chain again.
Reorganized(s) == [s EXCEPT !.mem.forked = Len(s.db.chain) >= ForkHeight]

\* The value f yields for x.  Going through sets has x worked out once, which matters
\* when steps like these are nested.
Let(x, f(_)) == CHOOSE y \in {f(v) : v \in {x}} : TRUE

PopTo(s, height) ==
  LET After[n \in 0..Len(s.db.chain) - height] ==
        IF n = 0 THEN s ELSE Let(After[n - 1], pop_block_from_blockchain)
  IN  After[Len(s.db.chain) - height]

\* The transactions of b that cannot be taken: in the chain already, unknown to the
\* pool, or spent.
Refused(db, b) ==
  {i \in DOMAIN Blocks[b].txs :
     LET t == Blocks[b].txs[i] IN t \in db.txs \/ t \notin db.pool \/ Key[t] \in db.keys}

WrongInputs(db, t) == t \notin db.txs /\ t \in db.pool

\* return_tx_to_pool, after the first n transactions of b were taken from the pool.
Returned(s, b, n) == s.db.pool \ (Forbidden(s.mem) \cap Range(SubSeq(Blocks[b].txs, 1, n)))

handle_block_to_main_chain(s, b) ==
  LET m == get_difficulty_for_next_block(s.mem, s.db.chain)
      added == add_block(s.db, b)
  IN  IF Refused(s.db, b) # {}
      THEN [s EXCEPT !.ok = FALSE,
                     !.db = [@ EXCEPT !.pool = Returned(s, b, Min(Refused(s.db, b)))],
                     !.mem = [m EXCEPT !.invalid = @ \cup
                                IF WrongInputs(s.db, Blocks[b].txs[Min(Refused(s.db, b))]) THEN {b} ELSE {}]]
      ELSE IF added.whole
      THEN [s EXCEPT !.db = [added.db EXCEPT !.pool = @ \ Range(Blocks[b].txs)],
                     !.mem = [get_difficulty_for_next_block(m, added.db.chain) EXCEPT
                                !.forked = @ \/ Len(added.db.chain) >= ForkHeight]]
      ELSE [s EXCEPT !.ok = FALSE, !.db = [added.db EXCEPT !.pool = Returned(s, b, Len(Blocks[b].txs))], !.mem = m,
                      !.left = @ \cup (added.db.txs \ s.db.txs)]

\* The first block that fails ends the loop.
ConnectOne(s, b) == IF s.ok THEN handle_block_to_main_chain(s, b) ELSE s

Connect(s, chain) ==
  LET After[n \in 0..Len(chain)] ==
        IF n = 0 THEN s ELSE Let(After[n - 1], LAMBDA r : ConnectOne(r, chain[n]))
  IN  After[Len(chain)]

\* An alternative block below the path goes in front of it.
Extended(m, path) ==
  IF Blocks[Head(path)].prev \in m.alt THEN <<Blocks[Head(path)].prev>> \o path ELSE path

\* b and the alternative blocks below it.
AltPath(m, b) ==
  LET After[n \in 0..Cardinality(m.alt)] ==
        IF n = 0 THEN <<b>> ELSE Let(After[n - 1], LAMBDA path : Extended(m, path))
  IN  After[Cardinality(m.alt)]

\* Where the path leaves the main chain.
SplitHeight(s, path) == Max({i \in DOMAIN s.db.chain : s.db.chain[i] = Blocks[Head(path)].prev})

\* rollback_blockchain_switching brings the old chain back when a block fails, up to the
\* first block that it cannot add again.  (The hard fork object then is that of the
\* chain already.)
switch_to_alternative_blockchain(s, path) ==
  LET split == SplitHeight(s, path)
      old == SubSeq(s.db.chain, split + 1, Len(s.db.chain))
      new == Connect(PopTo(s, split), path)
      failed == SubSeq(path, Len(new.db.chain) - split + 1, Len(path))
  IN  IF new.ok
      THEN [Reorganized(new) EXCEPT !.mem.alt = (@ \ Range(path)) \cup Range(old)]
      ELSE [Connect([Reorganized(PopTo(new, split)) EXCEPT !.ok = TRUE], old) EXCEPT
              !.ok = FALSE, !.mem.alt = @ \ Range(failed), !.mem.invalid = @ \cup Range(failed)]

have_block(s, b) == b \in Range(s.db.chain) \cup s.mem.alt \cup s.mem.invalid

\* handle_alternative_block.  All blocks weigh the same.
handle_alternative_block(s, b) ==
  LET r == [s EXCEPT !.mem.height = 0, !.mem.reset = TRUE]
      path == AltPath(s.mem, b)
      with_b == [r EXCEPT !.mem.alt = @ \cup {b}]
  IN  IF Blocks[Head(path)].prev \notin Range(s.db.chain) THEN [r EXCEPT !.ok = FALSE]
      ELSE IF SplitHeight(s, path) + Len(path) > Len(s.db.chain) THEN switch_to_alternative_blockchain(with_b, path)
      ELSE with_b

\* ok is FALSE when the block failed or is an orphan.
add_new_block(s, b) ==
  IF have_block(s, b) THEN s
  ELSE IF Blocks[b].prev = TopOf(s.db.chain) THEN handle_block_to_main_chain(s, b)
  ELSE handle_alternative_block(s, b)

-----------------------------------------------------------------------------
(* Locks and transactions *)

At(t, place) == thread[t].at = place
Goto(t, place) == thread' = [thread EXCEPT ![t] = [at |-> place, job |-> @.job]]
CanLock(t, l) == lock[l] \in {Nobody, t}
\* What thread t reads: its own transaction if it is the writer.
View(t) == IF batch # NoBatch /\ writer = t THEN batch ELSE committed

batch_start(t) == batch' = committed /\ writer' = t

batch_stop == committed' = batch /\ batch' = NoBatch

-----------------------------------------------------------------------------
(* Threads that add blocks *)

Begin(t, place, job) ==
  /\ At(t, "idle")
  /\ calls < MaxCalls
  /\ calls' = calls + 1
  /\ thread' = [thread EXCEPT ![t] = [at |-> place, job |-> job]]
  /\ UNCHANGED <<committed, batch, writer, lock, mem, left, crashes>>

\* try_add_next_blocks, handle_notify_new_block or handle_block_found.
NewSpan(t) == \E span \in Spans : Begin(t, "prepare", span)

\* core::prepare_handle_incoming_blocks and core::handle_incoming_txs begin alike.
LockIncoming(t) ==
  /\ At(t, "prepare") \/ At(t, "incoming")
  /\ CanLock(t, "incoming")
  /\ lock' = [lock EXCEPT !.incoming = t]
  /\ Goto(t, IF At(t, "prepare") THEN "prepare pool" ELSE "have_tx")
  /\ UNCHANGED <<committed, batch, writer, mem, left, calls, crashes>>

\* Mutant: the pool is not locked from prepare to cleanup.
PrepareWithoutPool(t) ==
  /\ At(t, "prepare pool") \/ At(t, "pool")
  /\ CanLock(t, "pool")
  /\ lock' = [lock EXCEPT !.pool = IF At(t, "pool") THEN t ELSE @]
  /\ Goto(t, IF At(t, "prepare pool") THEN "batch_start" ELSE "chain")
  /\ UNCHANGED <<committed, batch, writer, mem, left, calls, crashes>>

LockPool(t) ==
  /\ At(t, "prepare pool") \/ At(t, "pool")
  /\ CanLock(t, "pool")
  /\ lock' = [lock EXCEPT !.pool = t]
  /\ Goto(t, IF At(t, "prepare pool") THEN "batch_start" ELSE "chain")
  /\ UNCHANGED <<committed, batch, writer, mem, left, calls, crashes>>

\* The rest of prepare.  It would let go of its locks and try again as long as there
\* is a batch; whoever has the lock of the pool finds none (OwnBatch).
StartBatch(t) ==
  /\ At(t, "batch_start")
  /\ CanLock(t, "chain")
  /\ batch = NoBatch
  /\ batch_start(t)
  /\ Goto(t, "txs")
  /\ UNCHANGED <<committed, lock, mem, left, calls, crashes>>

\* The transactions that neither pool nor chain has, and those the pool refuses.
Unknown(txs) == txs \ (batch.pool \cup batch.txs)

Failing == Bad \cup Forbidden(mem)

\* Mutant: a transaction that fails makes the handler return at once.
TxsOrReturn(t) ==
  LET txs == Range(Blocks[Head(thread[t].job)].txs)
  IN  /\ At(t, "txs")
      /\ CanLock(t, "chain")
      /\ batch' = [batch EXCEPT !.pool = @ \cup (Unknown(txs) \ Failing)]
      /\ Goto(t, IF Unknown(txs) \cap Failing = {} THEN "block" ELSE "idle")
      /\ UNCHANGED <<committed, writer, lock, mem, left, calls, crashes>>

\* handle_incoming_txs, kept by block: what neither pool nor chain has goes into the
\* pool, and one failure ends the span.
HandleTxs(t) ==
  LET txs == Range(Blocks[Head(thread[t].job)].txs)
  IN  /\ At(t, "txs")
      /\ CanLock(t, "chain")
      /\ batch' = [batch EXCEPT !.pool = @ \cup (Unknown(txs) \ Failing)]
      /\ Goto(t, IF Unknown(txs) \cap Failing = {} THEN "block" ELSE "cleanup")
      /\ UNCHANGED <<committed, writer, lock, mem, left, calls, crashes>>

\* m_stopping: no further block.
Stopping(t) ==
  /\ At(t, "txs")
  /\ Goto(t, "cleanup")
  /\ UNCHANGED <<committed, batch, writer, lock, mem, left, calls, crashes>>

\* core::handle_incoming_block.
NewBlock(t) ==
  /\ At(t, "block")
  /\ CanLock(t, "chain")
  /\ \E s \in {add_new_block([db |-> batch, mem |-> mem, left |-> left, ok |-> TRUE], Head(thread[t].job))} :
       LET rest == Tail(thread[t].job)
       IN  /\ batch' = s.db /\ mem' = s.mem /\ left' = s.left
           /\ thread' = [thread EXCEPT ![t] = [at |-> IF s.ok /\ rest # <<>> THEN "txs" ELSE "cleanup", job |-> rest]]
  /\ UNCHANGED <<committed, writer, lock, calls, crashes>>

\* Mutant: the window goes on from where a reader left it.
CleanupKeepingHeight(t) ==
  /\ At(t, "cleanup")
  /\ CanLock(t, "chain")
  /\ batch_stop
  /\ mem' = [mem EXCEPT !.reset = FALSE]
  /\ lock' = [lock EXCEPT !.pool = Nobody, !.incoming = Nobody]
  /\ thread' = [thread EXCEPT ![t] = Idle]
  /\ UNCHANGED <<writer, left, calls, crashes>>

\* Mutant: the batch is stopped without the lock of the chain.
CleanupUnlocked(t) ==
  /\ At(t, "cleanup")
  /\ batch_stop
  /\ mem' = IF mem.reset THEN [mem EXCEPT !.height = 0, !.reset = FALSE] ELSE mem
  /\ lock' = [lock EXCEPT !.pool = Nobody, !.incoming = Nobody]
  /\ thread' = [thread EXCEPT ![t] = Idle]
  /\ UNCHANGED <<writer, left, calls, crashes>>

cleanup_handle_incoming_blocks(t) ==
  /\ At(t, "cleanup")
  /\ CanLock(t, "chain")
  /\ batch_stop
  /\ mem' = IF mem.reset THEN [mem EXCEPT !.height = 0, !.reset = FALSE] ELSE mem
  /\ lock' = [lock EXCEPT !.pool = Nobody, !.incoming = Nobody]
  /\ thread' = [thread EXCEPT ![t] = Idle]
  /\ UNCHANGED <<writer, left, calls, crashes>>

-----------------------------------------------------------------------------
(* Threads that use the pool *)

\* handle_incoming_txs for a transaction on its own.
NewTx(t) == \E x \in Loose : Begin(t, "incoming", <<x>>)

\* remove_stuck_transactions, and the other calls that take only the pool's lock.
Idling(t) == Begin(t, "pool", <<>>)

\* have_tx of the pool and of the chain, each under its locks for the moment.
HaveTx(t) ==
  LET x == Head(thread[t].job)
      known == x \in View(t).pool \cup View(t).txs
  IN  /\ At(t, "have_tx")
      /\ CanLock(t, "pool") /\ CanLock(t, "chain")
      /\ thread' = [thread EXCEPT ![t] = IF known THEN Idle ELSE [@ EXCEPT !.at = "pool"]]
      /\ lock' = IF known THEN [lock EXCEPT !.incoming = Nobody] ELSE lock
      /\ UNCHANGED <<committed, batch, writer, mem, left, calls, crashes>>

LockChain(t) ==
  /\ At(t, "chain")
  /\ CanLock(t, "chain")
  /\ lock' = [lock EXCEPT !.chain = t]
  /\ Goto(t, "LockedTXN")
  /\ UNCHANGED <<committed, batch, writer, mem, left, calls, crashes>>

\* add_tx: a transaction that is good and spends nothing spent before.
Acceptable(db, x) == x \notin Failing /\ Key[x] \notin db.keys \cup KeysOf(db.pool)

\* LockedTXN and the write under it: add_tx, or the removal of some transactions.
LockedTXN(t) ==
  LET job == thread[t].job
  IN  /\ At(t, "LockedTXN")
      /\ batch = NoBatch
      /\ writer' = t
      /\ IF job = <<>>
         THEN \E gone \in SUBSET committed.pool : batch' = [committed EXCEPT !.pool = @ \ gone]
         ELSE batch' = [committed EXCEPT !.pool = @ \cup {x \in Range(job) : Acceptable(committed, x)}]
      /\ Goto(t, "unlock")
      /\ UNCHANGED <<committed, lock, mem, left, calls, crashes>>

\* ~LockedTXN, then the locks in the order they are let go.
Unlock(t) ==
  /\ At(t, "unlock")
  /\ batch_stop
  /\ lock' = [l \in DOMAIN lock |-> IF lock[l] = t THEN Nobody ELSE lock[l]]
  /\ thread' = [thread EXCEPT ![t] = Idle]
  /\ UNCHANGED <<writer, mem, left, calls, crashes>>

-----------------------------------------------------------------------------
(* Threads that read, and the process *)

GetInfo(t) == Begin(t, "get_info", <<>>)

\* get_difficulty_for_next_block has the lock of the chain, and reads block by block.
ReadChain(t) ==
  /\ At(t, "get_info")
  /\ CanLock(t, "chain")
  /\ lock' = [lock EXCEPT !.chain = t]
  /\ thread' = [thread EXCEPT ![t] = [at |-> "reading", job |-> View(t).chain]]
  /\ UNCHANGED <<committed, batch, writer, mem, left, calls, crashes>>

ReadWindow(t) ==
  /\ At(t, "reading")
  /\ mem' = get_difficulty_for_next_block(mem, View(t).chain)
  /\ lock' = [lock EXCEPT !.chain = Nobody]
  /\ thread' = [thread EXCEPT ![t] = Idle]
  /\ UNCHANGED <<committed, batch, writer, left, calls, crashes>>

\* The open batch is lost.  A new process starts: the pool drops what it takes to be in
\* the chain (validate).
Crash ==
  /\ crashes < MaxCrashes
  /\ crashes' = crashes + 1
  /\ committed' = [committed EXCEPT !.pool = @ \ committed.txs]
  /\ batch' = NoBatch /\ writer' = Nobody
  /\ lock' = Free
  /\ mem' = NewMem(committed.chain)
  /\ thread' = [t \in Threads |-> Idle]
  /\ left' = left \cap committed.txs
  /\ UNCHANGED calls

Work(t) ==
  \/ LockIncoming(t) \/ LockPool(t)
  \/ StartBatch(t) \/ HandleTxs(t) \/ NewBlock(t) \/ cleanup_handle_incoming_blocks(t)
  \/ HaveTx(t) \/ LockChain(t) \/ LockedTXN(t) \/ Unlock(t)
  \/ ReadChain(t) \/ ReadWindow(t)

Next ==
  \/ \E t \in Threads : NewSpan(t) \/ NewTx(t) \/ Idling(t) \/ GetInfo(t) \/ Work(t) \/ Stopping(t)
  \/ Crash

\* A thread that can go on does; nobody has to call.
Spec == Init /\ [][Next]_vars /\ \A t \in Threads : WF_vars(Work(t))

-----------------------------------------------------------------------------
(* Properties *)

\* An open batch belongs to the thread that holds the lock of the pool, so LockedTXN
\* never writes into the batch of another thread, prepare never has to wait for one, and
\* block_txn_start never throws (the comments at LockedTXN and in prepare).
OwnBatch == batch # NoBatch => lock.pool = writer

\* What is committed is whole: the rows of transactions and key images are those of the
\* blocks of the chain, but for what failed blocks left behind, and no transaction is in
\* the pool and in the chain.  Crashes and chain switches inside a batch keep it so.
CommittedWhole ==
  LET whole == Whole(committed.chain, committed.pool)
  IN  /\ committed.txs \ left = whole.txs \ left
      /\ committed.keys \ KeysOf(left \cap DOMAIN Key) = whole.keys \ KeysOf(left \cap DOMAIN Key)
      /\ committed.pool \cap TxsOf(committed.chain) = {}

\* While a thread reads under the lock of the chain, no other thread commits.
ReaderStable == \A t \in Threads : At(t, "reading") => thread[t].job = View(t).chain

\* The window of difficulties moved on by one block is what the database holds: the code
\* reports "Inconsistency XXX" otherwise.  Readers see the committed chain, the thread
\* with the batch sees its own, and both use the one window.
WindowSound == mem.sound

\* A transaction of a committed block stays: after a switch, one that fails half way and
\* is rolled back or not, a failed block or a crash it is in a block or in the pool.  What
\* gets lost are transactions whose outputs the hard fork forbids, as the pool does not
\* take them back, and those of which a failed block left a row behind.
ConfirmedKept ==
  [][\A x \in TxsOf(committed.chain) \ (left \cup Outdated) :
       x \in TxsOf(committed'.chain) \cup committed'.pool]_vars

\* No call waits for ever: the locks are taken in one order, and always given back.
CallsEnd == \A t \in Threads : ~At(t, "idle") ~> At(t, "idle")

\* blockchain_db.h, add_block: "subclass implementations of this (or the functions it
\* calls) need to handle undoing any partially-added blocks in the event of a failure".
\* It does not hold: see README.md.
PartialUndone == committed.txs = Whole(committed.chain, {}).txs

=============================================================================
