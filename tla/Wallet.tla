------------------------------- MODULE Wallet -------------------------------
(***************************************************************************)
(* A wallet that follows the chain of a daemon (wallet2::refresh).         *)
(*                                                                         *)
(* A refresh asks for the pool, then pulls blocks batch by batch.  While   *)
(* it processes one batch a thread of the pool pulls the next one, with a  *)
(* history of block ids that it moves on by itself; the daemon may change  *)
(* its chain between any two answers.  The wallet notices a split when a   *)
(* block it pulled is not the one it has at that height, and detaches its  *)
(* chain there.                                                            *)
(*                                                                         *)
(* A wallet with one account, its full hash chain (no offset) and its key  *)
(* images; outputs have one amount, and a key of its own each.  It was     *)
(* created before the chain's first block and refreshes from there         *)
(* (m_refresh_from_block_height and start_height are 0), so that no block  *)
(* is skipped as too old and refresh never calls fast_refresh.             *)
(***************************************************************************)
EXTENDS Integers, Sequences, FiniteSets, SequencesExt, FiniteSetsExt

CONSTANTS
  Blocks,     \* block -> [prev, txs], Genesis its own prev
  Genesis,
  Pays,       \* transaction -> the keys of its outputs that are ours
  Spends,     \* transaction -> the keys of ours it spends
  Own,        \* the transactions this wallet may send
  Tips,       \* the blocks the daemon may be at
  MaxCount,   \* COMMAND_RPC_GET_BLOCKS_FAST_MAX_COUNT
  Dense,      \* ids in a history before it thins out, 10 in the code
  MaxMoves,   \* bound on what happens at the daemon
  MaxFaults   \* bound on failed calls and stops

VARIABLES
  tip, pool,    \* the daemon: the last block of its chain, and its pool
  chain,        \* m_blockchain, the block of height h at h + 1
  transfers,    \* m_transfers
  payments,     \* m_payments, as pairs of transaction and height
  unconfirmed,  \* m_unconfirmed_txs: transaction -> state
  confirmed,    \* m_confirmed_txs: transaction -> height
  done,         \* m_first_refresh_done
  loop,         \* the local variables of refresh
  pull,         \* the thread that pulls, and what it has pulled
  reset,        \* history: the hash chain was set up anew
  sent, moves, faults

wallet == <<chain, transfers, payments, unconfirmed, confirmed, reset>>
bounds == <<sent, moves, faults>>
vars == <<tip, pool, wallet, done, loop, pull, bounds>>

Txs == DOMAIN Pays
Unset == -1
NoPull == [at |-> "none", start |-> Unset, blocks |-> <<>>, error |-> FALSE]
Idle == [at |-> "idle", history |-> <<>>, first |-> TRUE, last |-> FALSE, start |-> Unset,
         blocks |-> <<>>, tries |-> 0]

Init ==
  /\ tip = Genesis /\ pool = {}
  /\ chain = <<Genesis>> /\ transfers = <<>> /\ payments = {}
  /\ unconfirmed = <<>> /\ confirmed = <<>>
  /\ done = FALSE /\ loop = Idle /\ pull = NoPull
  /\ reset = FALSE /\ sent = {} /\ moves = 0 /\ faults = 0

\* The chain that ends with a block.
Path[b \in DOMAIN Blocks] == IF b = Genesis THEN <<b>> ELSE Append(Path[Blocks[b].prev], b)

TxsOf(blocks) == UNION {ToSet(Blocks[blocks[i]].txs) : i \in DOMAIN blocks}

Without(f, S) == [x \in DOMAIN f \ S |-> f[x]]
With(f, x, v) == [y \in DOMAIN f \cup {x} |-> IF y = x THEN v ELSE f[y]]

-----------------------------------------------------------------------------
(* What the wallet learns from blocks: w has its variables as fields *)

Spent(td, height) == [td EXCEPT !.spent = TRUE, !.spent_height = height]
Unspent(td) == [td EXCEPT !.spent = FALSE, !.spent_height = 0]

Keys(tds) == {tds[i].key : i \in DOMAIN tds}

process_new_transaction(w, tx, height) ==
  LET new == SetToSeq(Pays[tx] \ Keys(w.transfers))
      got == w.transfers \o
             [i \in DOMAIN new |-> [key |-> new[i], height |-> height, spent |-> FALSE, spent_height |-> 0]]
      outgoing == Spends[tx] \cap Keys(got) # {}
  IN  [w EXCEPT
         !.transfers = [i \in DOMAIN got |-> IF got[i].key \in Spends[tx] THEN Spent(got[i], height) ELSE got[i]],
         !.payments = @ \cup IF Pays[tx] # {} /\ ~outgoing THEN {<<tx, height>>} ELSE {},
         !.unconfirmed = Without(@, {tx}),
         !.confirmed = IF outgoing \/ (tx \in DOMAIN w.unconfirmed /\ tx \notin DOMAIN @)
                       THEN With(@, tx, height) ELSE @]

\* The value f yields for x.  Going through sets has x worked out once, which matters
\* when steps like these are nested.
Let(x, f(_)) == CHOOSE y \in {f(v) : v \in {x}} : TRUE

process_new_blockchain_entry(w, b, height) ==
  LET txs == Blocks[b].txs
      After[n \in 0..Len(txs)] ==
        IF n = 0 THEN w ELSE Let(After[n - 1], LAMBDA v : process_new_transaction(v, txs[n], height))
  IN  [After[Len(txs)] EXCEPT !.chain = Append(@, b)]

\* Mutant: an output that was spent above the split stays spent.
DetachStillSpent(w, height) ==
  LET gone == {i \in DOMAIN w.transfers : w.transfers[i].height >= height}
      kept == IF gone = {} THEN w.transfers ELSE SubSeq(w.transfers, 1, Min(gone) - 1)
  IN  [w EXCEPT !.transfers = kept,
                !.chain = SubSeq(@, 1, height),
                !.payments = {p \in @ : p[2] < height},
                !.confirmed = Without(@, {tx \in DOMAIN @ : height <= @[tx]})]

\* Mutant: the first block above the split keeps its outputs.
DetachAbove(w, height) ==
  LET gone == {i \in DOMAIN w.transfers : w.transfers[i].height > height}
      kept == IF gone = {} THEN w.transfers ELSE SubSeq(w.transfers, 1, Min(gone) - 1)
  IN  [w EXCEPT !.transfers = [i \in DOMAIN kept |->
                                 IF kept[i].spent /\ kept[i].spent_height >= height
                                 THEN Unspent(kept[i]) ELSE kept[i]],
                !.chain = SubSeq(@, 1, height),
                !.payments = {p \in @ : p[2] < height},
                !.confirmed = Without(@, {tx \in DOMAIN @ : height <= @[tx]})]

\* The transfers go from the first one above the split on.
detach_blockchain(w, height) ==
  LET gone == {i \in DOMAIN w.transfers : w.transfers[i].height >= height}
      kept == IF gone = {} THEN w.transfers ELSE SubSeq(w.transfers, 1, Min(gone) - 1)
  IN  [w EXCEPT !.transfers = [i \in DOMAIN kept |->
                                 IF kept[i].spent /\ kept[i].spent_height >= height
                                 THEN Unspent(kept[i]) ELSE kept[i]],
                !.chain = SubSeq(@, 1, height),
                !.payments = {p \in @ : p[2] < height},
                !.confirmed = Without(@, {tx \in DOMAIN @ : height <= @[tx]})]

\* Mutant: the block after a split is the first one that is kept.
EntryLate(w, b, height, start) ==
  IF height >= Len(w.chain) THEN process_new_blockchain_entry(w, b, height)
  ELSE IF b # w.chain[height + 1]
  THEN IF height = start THEN [w EXCEPT !.thrown = TRUE]
       ELSE process_new_blockchain_entry(detach_blockchain(w, height + 1), b, height)
  ELSE w

\* Mutant: any split is taken for a wrong answer.
NeverDetaches(w, b, height, start) ==
  IF height >= Len(w.chain) THEN process_new_blockchain_entry(w, b, height)
  ELSE IF b # w.chain[height + 1] THEN [w EXCEPT !.thrown = TRUE]
  ELSE w

\* One block of a batch that starts at height start.
ProcessBlock(w, b, height, start) ==
  IF height >= Len(w.chain) THEN process_new_blockchain_entry(w, b, height)
  ELSE IF b # w.chain[height + 1]
  THEN IF height = start THEN [w EXCEPT !.thrown = TRUE]
       ELSE process_new_blockchain_entry(detach_blockchain(w, height), b, height)
  ELSE w

process_parsed_blocks(w, start, blocks) ==
  LET After[n \in 0..Len(blocks)] ==
        IF n = 0 THEN w
        ELSE Let(After[n - 1], LAMBDA v : IF v.thrown THEN v
                                          ELSE ProcessBlock(v, blocks[n], start + n - 1, start))
  IN  After[Len(blocks)]

W == [chain |-> chain, transfers |-> transfers, payments |-> payments, unconfirmed |-> unconfirmed,
      confirmed |-> confirmed, thrown |-> FALSE]

Becomes(w) ==
  /\ chain' = w.chain /\ transfers' = w.transfers /\ payments' = w.payments
  /\ unconfirmed' = w.unconfirmed /\ confirmed' = w.confirmed

-----------------------------------------------------------------------------
(* The daemon *)

Height(b) == Len(Path[b]) - 1
SpentBy(txs) == UNION {Spends[t] : t \in txs}

Moves == moves < MaxMoves /\ moves' = moves + 1 /\ UNCHANGED <<sent, faults>>

\* The chain grows, or gives way to a higher one; what only the old one had goes back to
\* the pool.
ChangeChain ==
  /\ Moves
  /\ \E b \in Tips :
       LET now == TxsOf(Path[b]) IN
         /\ Height(b) > Height(tip)
         /\ now \cap Own \subseteq sent
         /\ tip' = b
         /\ pool' = (pool \cup TxsOf(Path[tip])) \ now
  /\ UNCHANGED <<wallet, done, loop, pull>>

\* A transaction was in the pool for too long.
Expire ==
  /\ Moves
  /\ \E t \in pool : pool' = pool \ {t}
  /\ UNCHANGED <<tip, wallet, done, loop, pull>>

\* on_get_blocks: from the first id that is in the chain, that block included.
Supplement(ids, main) ==
  LET start == CHOOSE h \in 0..(Len(main) - 1) :
                 \E i \in DOMAIN ids : /\ ids[i] = main[h + 1]
                                       /\ \A j \in 1..(i - 1) : ~Contains(main, ids[j])
  IN  [start |-> start, blocks |-> SubSeq(main, start + 1, Min({Len(main), start + MaxCount}))]

-----------------------------------------------------------------------------
(* Calls on a wallet that is not being refreshed *)

commit_tx ==
  /\ loop.at = "idle"
  /\ \E t \in Own \ sent :
       /\ \A k \in Spends[t] : \E i \in DOMAIN transfers : transfers[i].key = k /\ ~transfers[i].spent
       /\ Spends[t] \cap SpentBy(pool \cup TxsOf(Path[tip])) = {}
       /\ \A k \in Spends[t] : \E u \in TxsOf(Path[tip]) : k \in Pays[u]
       /\ pool' = pool \cup {t} /\ sent' = sent \cup {t}
       /\ unconfirmed' = With(unconfirmed, t, "pending")
       /\ transfers' = [i \in DOMAIN transfers |->
                          IF transfers[i].key \in Spends[t] THEN Spent(transfers[i], 0) ELSE transfers[i]]
  /\ UNCHANGED <<tip, chain, payments, confirmed, reset, done, loop, pull, moves, faults>>

\* A pending transaction that is not in the pool fails when it is found missing again.
update_pool_state(refreshed) ==
  LET missing == {t \in DOMAIN unconfirmed : t \notin pool}
      failed == {t \in missing : unconfirmed[t] = "pending_not_in_pool" /\ refreshed}
  IN  /\ unconfirmed' = [t \in DOMAIN unconfirmed |->
                           IF t \in failed THEN "failed"
                           ELSE IF t \in missing /\ unconfirmed[t] = "pending" THEN "pending_not_in_pool"
                           ELSE unconfirmed[t]]
      /\ transfers' = [i \in DOMAIN transfers |->
                         IF transfers[i].key \in SpentBy(failed) THEN Unspent(transfers[i]) ELSE transfers[i]]

show_transfers ==
  /\ loop.at = "idle"
  /\ update_pool_state(FALSE)
  /\ UNCHANGED <<tip, pool, chain, payments, confirmed, reset, done, loop, pull, bounds>>

-----------------------------------------------------------------------------
(* refresh *)

Goto(at) == loop' = [loop EXCEPT !.at = at]

Fault == faults < MaxFaults /\ faults' = faults + 1 /\ UNCHANGED <<sent, moves>>

\* The ids of the newest blocks, then of ever fewer, and of the first one.
get_short_chain_history(c) ==
  LET size == Len(c)
      back == {o \in 1..(size - 1) : o <= Dense + 1 \/ \E k \in 1..size : o = Dense - 1 + 2^(k + 1)}
      order == SetToSortSeq(back, <)
  IN  Append([i \in DOMAIN order |-> c[size - order[i] + 1]], c[1])

\* The granularity of the first refresh leaves a short chain nothing but its first block.
Refresh ==
  /\ loop.at = "idle"
  /\ loop' = [Idle EXCEPT !.at = "pool", !.history = IF done THEN get_short_chain_history(chain) ELSE <<chain[1]>>]
  /\ UNCHANGED <<tip, pool, wallet, done, pull, bounds>>

PoolState ==
  /\ loop.at = "pool"
  /\ update_pool_state(TRUE)
  /\ Goto("head")
  /\ UNCHANGED <<tip, pool, chain, payments, confirmed, reset, done, pull, bounds>>

Throw == loop' = Idle /\ UNCHANGED done
Finish == loop' = Idle /\ done' = TRUE

PoolFault ==
  /\ loop.at = "pool"
  /\ Fault /\ Throw
  /\ UNCHANGED <<tip, pool, wallet, pull>>

\* stop() was called.
Stopped ==
  /\ loop.at = "head"
  /\ Fault /\ Finish
  /\ UNCHANGED <<tip, pool, wallet, pull>>

Iterate ==
  /\ loop.at = "head"
  /\ IF ~loop.first /\ loop.blocks = <<>>
     THEN Finish /\ UNCHANGED pull
     ELSE /\ pull' = [NoPull EXCEPT !.at = IF loop.last THEN "none" ELSE "run"]
          /\ Goto(IF loop.first THEN "wait" ELSE "process")
          /\ UNCHANGED done
  /\ UNCHANGED <<tip, pool, wallet, bounds>>

\* All but the last of the oldest three ids.
drop_from_short_history(ids) ==
  IF Len(ids) > 3 THEN Append(SubSeq(ids, 1, Len(ids) - 4), ids[Len(ids)]) ELSE ids

\* The last three blocks of the batch, in their order.
Newest(blocks) == SubSeq(blocks, Max({1, Len(blocks) - 2}), Len(blocks))

pull_and_parse_next_blocks ==
  /\ pull.at = "run"
  /\ \E ids \in {Newest(loop.blocks) \o drop_from_short_history(loop.history)} :
       \/ \E main \in {Path[tip]} : \E res \in {Supplement(ids, main)} :
            /\ loop' = [loop EXCEPT !.history = ids, !.last = Last(res.blocks) = tip]
            /\ pull' = [pull EXCEPT !.at = "done", !.start = res.start, !.blocks = res.blocks]
            /\ UNCHANGED bounds
       \/ /\ Fault
          /\ loop' = [loop EXCEPT !.history = ids, !.last = FALSE]
          /\ pull' = [pull EXCEPT !.at = "done", !.error = TRUE]
  /\ UNCHANGED <<tip, pool, wallet, done>>

\* A batch that starts above the chain has the hash chain set up anew; without an offset
\* that ends in an exception.
Process ==
  /\ loop.at = "process"
  /\ IF loop.start >= Len(chain)
     THEN /\ chain' = <<Genesis>> /\ reset' = TRUE
          /\ loop' = [loop EXCEPT !.at = "catch", !.history = <<Genesis>>]
          /\ UNCHANGED <<transfers, payments, unconfirmed, confirmed>>
     ELSE \E w \in {process_parsed_blocks(W, loop.start, loop.blocks)} :
            /\ Becomes(w) /\ UNCHANGED reset
            /\ Goto(IF w.thrown THEN "catch" ELSE "wait")
  /\ UNCHANGED <<tip, pool, done, pull, bounds>>

\* next_blocks_start_height is not initialised: without an answer it may be anything.
SameStart == pull.start \in {loop.start, Unset}
OtherStart == pull.start # loop.start

Refreshed ==
  /\ loop.at = "wait" /\ pull.at # "run"
  /\ ~loop.first /\ SameStart
  /\ Finish /\ pull' = NoPull
  /\ UNCHANGED <<tip, pool, wallet, bounds>>

NextBatch ==
  /\ loop.at = "wait" /\ pull.at # "run"
  /\ loop.first \/ OtherStart
  /\ loop' = IF pull.error THEN [loop EXCEPT !.at = "catch", !.first = FALSE]
             ELSE [loop EXCEPT !.at = "head", !.first = FALSE, !.start = pull.start, !.blocks = pull.blocks]
  /\ pull' = NoPull
  /\ UNCHANGED <<tip, pool, wallet, done, bounds>>

Catch ==
  /\ loop.at = "catch" /\ pull.at # "run"
  /\ IF loop.tries < 3
     THEN loop' = [loop EXCEPT !.at = "head", !.first = TRUE, !.tries = @ + 1] /\ UNCHANGED done
     ELSE Throw
  /\ pull' = NoPull
  /\ UNCHANGED <<tip, pool, wallet, bounds>>

RefreshStep == Iterate \/ Process \/ Refreshed \/ NextBatch \/ Catch

Next ==
  \/ ChangeChain \/ Expire
  \/ commit_tx \/ show_transfers
  \/ Refresh \/ PoolState \/ PoolFault \/ Stopped
  \/ RefreshStep \/ pull_and_parse_next_blocks

\* The wallet's idle thread refreshes again and again, a thread of the pool takes every
\* job, and a call of the daemon ends.
Fairness ==
  /\ WF_vars(Refresh) /\ WF_vars(PoolState)
  /\ WF_vars(RefreshStep) /\ WF_vars(pull_and_parse_next_blocks)

Spec == Init /\ [][Next]_vars /\ Fairness

-----------------------------------------------------------------------------
(* Properties *)

\* The hash chain has no gap: every block comes after its parent, whatever batches the
\* daemon gave while it changed chains (process_parsed_blocks).
ChainLinked == \A i \in 2..Len(chain) : Blocks[chain[i]].prev = chain[i - 1]

\* What one pass over the wallet's chain finds for us.
Received == {[key |-> k, height |-> i - 1] : k \in UNION {Pays[t] : t \in Txs}, i \in DOMAIN chain}

\* The outputs, the payments and the outgoing transactions the wallet knows are those of
\* its chain, however many splits it went through, until the hash chain is set up anew
\* (detach_blockchain; refresh leaves them alone then).
KnowsItsChain ==
  ~reset =>
  LET at(i) == ToSet(Blocks[chain[i]].txs) IN
    /\ {[key |-> transfers[i].key, height |-> transfers[i].height] : i \in DOMAIN transfers}
         = {r \in Received : \E t \in at(r.height + 1) : r.key \in Pays[t]}
    /\ \A i, j \in DOMAIN transfers : i < j => transfers[i].height <= transfers[j].height
    /\ payments = UNION {{<<t, i - 1>> : t \in {u \in at(i) : Pays[u] # {} /\ Spends[u] = {}}} : i \in DOMAIN chain}
    /\ DOMAIN confirmed = {t \in TxsOf(chain) : Spends[t] # {}}
    /\ \A t \in DOMAIN confirmed : t \in at(confirmed[t] + 1)

\* An output is spent at a height exactly if the wallet's chain spends it there, unless a
\* transaction of ours that spends it was given up, or the hash chain was set up anew
\* (set_spent, set_unspent, detach_blockchain).
SpentRight ==
  ~reset =>
  \A i \in DOMAIN transfers :
    LET td == transfers[i]
        spender == {n \in DOMAIN chain : td.key \in SpentBy(ToSet(Blocks[chain[n]].txs))}
    IN  /\ td.spent_height # 0 => td.spent /\ td.spent_height + 1 \in spender
        /\ spender # {} => \/ td.spent /\ td.spent_height + 1 \in spender
                           \/ \E t \in DOMAIN unconfirmed : unconfirmed[t] = "failed" /\ td.key \in Spends[t]

\* Once the daemon stays with its chain, the wallet gets there (refresh).
CatchesUp == []<>(loop.at = "idle" /\ chain = Path[tip])

\* The inputs of a transaction that was given up are not spent by the daemon's chain
\* (wallet2.cpp, update_pool_state: "the inputs aren't spent anymore, since the tx failed").
\* It does not hold: see README.md.
InputsFreed ==
  [][\A t \in DOMAIN unconfirmed \cap DOMAIN unconfirmed' :
       unconfirmed[t] # "failed" /\ unconfirmed'[t] = "failed"
         => Spends[t] \cap SpentBy(TxsOf(Path[tip])) = {}]_vars

=============================================================================
