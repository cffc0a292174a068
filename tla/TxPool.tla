------------------------------- MODULE TxPool -------------------------------
(***************************************************************************)
(* Class tx_memory_pool: transactions wait here to be mined.  The database *)
(* holds them with what is known of them; an order by fee, an index of key *)
(* images, the total weight and a cache of input checks live in memory and *)
(* are rebuilt on start.  Transactions are relayed by peers, come along    *)
(* with blocks, or come back from blocks taken off the chain; they leave   *)
(* by being mined, by age, or to make room.                                *)
(*                                                                         *)
(* The chain below the pool is as little of class Blockchain as the pool   *)
(* sees: which transactions are in it, in which blocks.                    *)
(***************************************************************************)
EXTENDS Integers, Sequences, FiniteSets, FiniteSetsExt, Functions

CONSTANTS
  Tx,             \* number |-> [images, uses, weight, fee]
  BlockTxs,       \* block |-> the transactions it holds
  MaxWeight,      \* m_txpool_max_weight
  WeightLimit,    \* get_transaction_weight_limit
  Lifetime,       \* CRYPTONOTE_MEMPOOL_TX_LIVETIME
  BlockLifetime,  \* CRYPTONOTE_MEMPOOL_TX_FROM_ALT_BLOCK_LIVETIME
  Epoch, MaxTime, \* the clock runs from Epoch to Epoch + MaxTime
  MaxHeight,      \* bound: blocks in the chain
  MaxPruned,      \* bound: transactions pruned since the start
  SizeModulus     \* 2^64: one more than the largest size_t

Txs == DOMAIN Tx

Images == UNION {Tx[t].images : t \in Txs}

ASSUME PoolAssumption ==
  /\ IsFiniteSet(Txs)
  /\ \A t \in Txs : Tx[t].uses \subseteq Txs /\ Tx[t].weight \in Nat \ {0} /\ Tx[t].fee \in Nat
  /\ \A b \in DOMAIN BlockTxs : BlockTxs[b] \subseteq Txs
  /\ "g" \in DOMAIN BlockTxs /\ BlockTxs["g"] = {}
  /\ MaxWeight \in Nat /\ Epoch \in Nat /\ SizeModulus \in Nat \ {0}
  /\ Epoch > MaxWeight   \* seconds since 1970, and 648 MB

VARIABLES
  chain,      \* the main chain: blocks, the genesis block "g" first
  pool,       \* [db, sorted, spent, weight]: transaction |-> what is known of it; the
              \* order m_txs_by_fee_and_receive_time; m_spent_key_images (an image with
              \* no transactions is absent); m_txpool_weight
  timed_out,  \* m_timed_out_transactions
  cache,      \* m_input_cache: transaction |-> did its inputs pass?
  now         \* time

vars == <<chain, pool, timed_out, cache, now>>

-----------------------------------------------------------------------------
(* Sequences *)

\* The members of a set, in some order.
SetToSeq(S) == CHOOSE s \in [1..Cardinality(S) -> S] : IsInjective(s)

Front(s) == SubSeq(s, 1, Len(s) - 1)

Last(s) == s[Len(s)]

Reverse(s) == [i \in 1..Len(s) |-> s[(Len(s) - i) + 1]]

InsertAt(s, i, e) == SubSeq(s, 1, i - 1) \o <<e>> \o SubSeq(s, i, Len(s))

RemoveAt(s, i) == SubSeq(s, 1, i - 1) \o SubSeq(s, i + 1, Len(s))

\* A loop over a sequence: step takes the state and a member of it to the next state.
ForEach(seq, state, step(_, _)) ==
  LET After[n \in 0..Len(seq)] == IF n = 0 THEN state ELSE step(After[n - 1], seq[n])
  IN  After[Len(seq)]

-----------------------------------------------------------------------------
(* The chain as the pool sees it *)

ChainTxs(c) == UNION {BlockTxs[b] : b \in Range(c)}

SpentBy(T) == UNION {Tx[t].images : t \in T}

\* Blockchain::check_tx_inputs: outputs there, key images not spent.
InputsValid(c, t) ==
  /\ Tx[t].uses \subseteq ChainTxs(c)
  /\ Tx[t].images \cap SpentBy(ChainTxs(c)) = {}

\* max_used_block_height, as a position in the chain.
MaxUsed(c, t) == Max({i \in DOMAIN c : i = 1 \/ BlockTxs[c[i]] \cap Tx[t].uses # {}})

\* Weight of transactions.
WeightOf(T) == FoldSet(LAMBDA t, sum : sum + Tx[t].weight, 0, T)

-----------------------------------------------------------------------------
(* Pieces of the pool *)

\* txCompare: fee per weight first, then age.  Of two equal entries each is before
\* the other, so a new one goes before the old one.
TxCompare(a, time_a, b, time_b) ==
  LET rate_a == Tx[a].fee * Tx[b].weight
      rate_b == Tx[b].fee * Tx[a].weight
  IN  rate_a > rate_b \/ (rate_a = rate_b /\ time_a <= time_b)

\* emplace in m_txs_by_fee_and_receive_time.
Emplace(sorted, db, t, time) ==
  LET behind == Cardinality({i \in DOMAIN sorted :
                               ~TxCompare(t, time, sorted[i], db[sorted[i]].time)})
  IN  InsertAt(sorted, behind + 1, t)

\* erase from it, of what is there or not.
Erase(sorted, t) ==
  LET at == {i \in 1..Len(sorted) : sorted[i] = t}
  IN  IF at = {} THEN sorted ELSE RemoveAt(sorted, Min(at))

\* Mutant: one spender does not count.
SpentTwice(p, t) == \E i \in Tx[t].images : Cardinality(p.spent[i]) > 1

\* Is a key image of t spent by a transaction of the pool?
have_tx_keyimges_as_spent(p, t) == \E i \in Tx[t].images : p.spent[i] # {}

insert_key_images(spent, t) ==
  [i \in Images |-> IF i \in Tx[t].images THEN spent[i] \cup {t} ELSE spent[i]]

\* Mutant: the key images of a removed transaction stay.
KeepKeyImages(spent, t) == spent

remove_transaction_keyimages(spent, t) == [i \in Images |-> spent[i] \ {t}]

\* A transaction enters the database and the indexes.
Insert(p, t, meta) ==
  [db     |-> [u \in DOMAIN p.db \cup {t} |-> IF u = t THEN meta ELSE p.db[u]],
   sorted |-> Emplace(p.sorted, p.db, t, meta.time),
   spent  |-> insert_key_images(p.spent, t),
   weight |-> (p.weight + Tx[t].weight) % SizeModulus]

\* A transaction leaves, and the total goes down by an amount.
Drop(p, t, amount) ==
  [db     |-> [u \in DOMAIN p.db \ {t} |-> p.db[u]],
   sorted |-> Erase(p.sorted, t),
   spent  |-> remove_transaction_keyimages(p.spent, t),
   weight |-> (p.weight - amount) % SizeModulus]

take_tx(p, t) == Drop(p, t, Tx[t].weight)

\* Mutant: the pool is never pruned.
PruneNothing(p) == p

\* it->first.second, which the code takes off the total, is the time of receipt.
PruneOne(q, t, meta) ==
  IF q.weight <= MaxWeight \/ meta.kept THEN q ELSE Drop(q, t, meta.time)

\* prune: from the worst up to the second best, as long as the total is too large.
prune(p) == ForEach(Reverse(Tail(p.sorted)), p, LAMBDA q, t : PruneOne(q, t, p.db[t]))

\* What add_tx notes of a transaction.  checked: there is a max_used_block_id; failed:
\* the chain up to last_failed_id.
NewMeta(c, p, t, kept) ==
  [kept |-> kept, time |-> Epoch + now, checked |-> InputsValid(c, t),
   max_used |-> IF InputsValid(c, t) THEN MaxUsed(c, t) ELSE 1, failed |-> <<>>,
   double_spend_seen |-> ~InputsValid(c, t) /\ have_tx_keyimges_as_spent(p, t)]

\* add_tx with kept_by_block: age, fee, weight and key images cannot stop it.
AddKept(c, p, t) == prune(Insert(p, t, NewMeta(c, p, t, TRUE)))

\* Transactions are taken out or come back one after the other.
TakeAll(p, T) == ForEach(SetToSeq(T), p, take_tx)

ReturnAll(c, p, T) == ForEach(SetToSeq(T), p, LAMBDA q, t : AddKept(c, q, t))

\* mark_double_spend on all transactions that share a key image with t.
mark_double_spend(p, t) ==
  [p EXCEPT !.db = [u \in DOMAIN p.db |->
     IF Tx[u].images \cap Tx[t].images # {} THEN [p.db[u] EXCEPT !.double_spend_seen = TRUE]
                                            ELSE p.db[u]]]

\* check_tx_inputs of the pool: what the cache says, if it says something.
CachedInputs(t) == IF t \in DOMAIN cache THEN cache[t] ELSE InputsValid(chain, t)

CacheWith(T) == [t \in DOMAIN cache \cup T |-> CachedInputs(t)]

\* is_transaction_ready_to_go up to the check of the inputs.  A failure counts as
\* long as the block that was the top is in the chain.
WorthChecking(t) ==
  LET meta == pool.db[t]
  IN  /\ meta.checked => meta.max_used <= Len(chain)
      /\ \/ meta.failed = <<>>
         \/ \E i \in DOMAIN meta.failed : i > Len(chain) \/ chain[i] # meta.failed[i]

\* Key images spent in the chain are looked for again, past the cache.
ReadyToGo(t) ==
  /\ WorthChecking(t) /\ CachedInputs(t)
  /\ Tx[t].images \cap SpentBy(ChainTxs(chain)) = {}

\* What it writes into the entry of the transaction.
MetaAfterCheck(t) ==
  IF ~WorthChecking(t) THEN pool.db[t]
  ELSE IF CachedInputs(t)
       THEN [pool.db[t] EXCEPT !.checked = TRUE, !.max_used = MaxUsed(chain, t)]
       ELSE [pool.db[t] EXCEPT !.max_used = 1, !.failed = chain]

\* A transaction is taken into the block if it is ready and shares no key image with
\* one that was taken.
Choose(chosen, t) ==
  IF ReadyToGo(t) /\ \A u \in chosen : Tx[u].images \cap Tx[t].images = {}
  THEN chosen \cup {t} ELSE chosen

\* The greedy choice of fill_block_template among T, the transactions that fit.
BlockTemplate(T) ==
  ForEach(pool.sorted, {}, LAMBDA chosen, t : IF t \in T THEN Choose(chosen, t) ELSE chosen)

-----------------------------------------------------------------------------
(* Operations *)

EmptyPool == [db |-> << >>, sorted |-> << >>, spent |-> [i \in Images |-> {}], weight |-> 0]

Init ==
  /\ chain = <<"g">>
  /\ pool = EmptyPool
  /\ timed_out = {} /\ cache = << >> /\ now = 0

\* Pruning takes the time of receipt off the total, so that it wraps around and runs
\* down from the modulus; the bound keeps it above what a pool can weigh.
FewPruned == pool.weight \notin MaxWeight + WeightOf(Txs) + 1..SizeModulus - MaxPruned * Epoch

\* core::add_new_tx lets only new transactions through.
IsNew(t) == FewPruned /\ t \notin DOMAIN pool.db /\ t \notin ChainTxs(chain)

\* add_tx, for a relayed transaction.
AddTx(t) ==
  /\ IsNew(t)
  /\ t \notin timed_out /\ Tx[t].weight <= WeightLimit
  /\ ~have_tx_keyimges_as_spent(pool, t)
  /\ cache' = CacheWith({t})
  /\ pool' = IF CachedInputs(t)
             THEN prune(Insert(pool, t, NewMeta(chain, pool, t, FALSE)))
             ELSE pool
  /\ UNCHANGED <<chain, timed_out, now>>

\* add_tx, for a transaction that spends what one of the pool spends.
RefuseDoubleSpend(t) ==
  /\ IsNew(t)
  /\ t \notin timed_out /\ Tx[t].weight <= WeightLimit
  /\ have_tx_keyimges_as_spent(pool, t)
  /\ pool' = mark_double_spend(pool, t)
  /\ UNCHANGED <<chain, timed_out, cache, now>>

\* add_tx, for a transaction that came with a block.
AddTxOfBlock(t) ==
  /\ IsNew(t)
  /\ pool' = AddKept(chain, pool, t)
  /\ UNCHANGED <<chain, timed_out, cache, now>>

\* A block takes its transactions out of the pool and is connected.
AddBlock(b) ==
  /\ Len(chain) <= MaxHeight /\ b \notin Range(chain)
  /\ BlockTxs[b] \subseteq DOMAIN pool.db
  /\ \A t \in BlockTxs[b] : InputsValid(chain, t)
  /\ chain' = Append(chain, b)
  /\ pool' = TakeAll(pool, BlockTxs[b])
  /\ cache' = << >>
  /\ UNCHANGED <<timed_out, now>>

\* A block turns out bad when T, some of its transactions, are out: return_tx_to_pool.
RefuseBlock(b, T) ==
  /\ FewPruned /\ b \notin Range(chain)
  /\ T # {} /\ T \subseteq DOMAIN pool.db
  /\ pool' = ReturnAll(chain, TakeAll(pool, T), T)
  /\ UNCHANGED <<chain, timed_out, cache, now>>

\* Mutant: on_blockchain_dec keeps the cache.
PopKeepingCache ==
  /\ FewPruned /\ Len(chain) > 1
  /\ chain' = Front(chain)
  /\ pool' = ReturnAll(chain', pool, BlockTxs[Last(chain)])
  /\ UNCHANGED <<timed_out, cache, now>>

\* pop_block_from_blockchain.
PopBlock ==
  /\ FewPruned /\ Len(chain) > 1
  /\ chain' = Front(chain)
  /\ pool' = ReturnAll(chain', pool, BlockTxs[Last(chain)])
  /\ cache' = << >>
  /\ UNCHANGED <<timed_out, now>>

\* remove_stuck_transactions, called when the node is idle.
RemoveStuck ==
  LET Age(t) == Epoch + now - pool.db[t].time
      old == {t \in DOMAIN pool.db : Age(t) > IF pool.db[t].kept THEN BlockLifetime ELSE Lifetime}
  IN  /\ old # {}
      /\ pool' = TakeAll(pool, old)
      /\ timed_out' = timed_out \cup old
      /\ UNCHANGED <<chain, cache, now>>

\* flush_txes_from_pool, on command.
Flush(t) ==
  /\ t \in DOMAIN pool.db
  /\ pool' = take_tx(pool, t)
  /\ UNCHANGED <<chain, timed_out, cache, now>>

\* fill_block_template, which answers BlockTemplate(T); T are the transactions whose
\* weight and reward fit.
FillTemplate(T) ==
  /\ pool' = [pool EXCEPT !.db = [t \in DOMAIN pool.db |->
                 IF t \in T THEN MetaAfterCheck(t) ELSE pool.db[t]]]
  /\ cache' = CacheWith({t \in T : WorthChecking(t)})
  /\ UNCHANGED <<chain, timed_out, now>>

\* init on start: everything in memory comes from the database, first the transactions
\* that were not kept by a block; then validate drops what is too heavy.
Restart ==
  LET db == pool.db
      kept == {t \in DOMAIN db : db[t].kept}
      again == ForEach(SetToSeq(DOMAIN db \ kept) \o SetToSeq(kept), EmptyPool,
                       LAMBDA q, t : Insert(q, t, db[t]))
  IN  /\ pool' = TakeAll(again, {t \in DOMAIN db : Tx[t].weight > WeightLimit})
      /\ timed_out' = {} /\ cache' = << >>
      /\ UNCHANGED <<chain, now>>

Tick ==
  /\ now < MaxTime
  /\ now' = now + 1
  /\ UNCHANGED <<chain, pool, timed_out, cache>>

Next ==
  \/ \E t \in Txs : AddTx(t) \/ RefuseDoubleSpend(t) \/ AddTxOfBlock(t) \/ Flush(t)
  \/ \E b \in DOMAIN BlockTxs : AddBlock(b) \/ \E T \in SUBSET BlockTxs[b] : RefuseBlock(b, T)
  \/ \E T \in SUBSET DOMAIN pool.db : FillTemplate(T)
  \/ PopBlock \/ RemoveStuck \/ Restart \/ Tick

Spec == Init /\ [][Next]_vars

-----------------------------------------------------------------------------
(* Properties *)

TotalWeight == WeightOf(DOMAIN pool.db)

\* The order by fee and the index of key images hold the transactions of the database
\* and no other, through every way in and out of the pool.
IndexesAgree ==
  /\ Range(pool.sorted) = DOMAIN pool.db /\ Len(pool.sorted) = Cardinality(DOMAIN pool.db)
  /\ \A i \in Images : pool.spent[i] = {t \in DOMAIN pool.db : i \in Tx[t].images}

\* Of the transactions that spend one key image at most one was not kept by a block:
\* else insert_key_images fails, and with it the next start.
StartsAgain ==
  \A t, u \in DOMAIN pool.db :
    t # u /\ ~pool.db[t].kept /\ ~pool.db[u].kept => Tx[t].images \cap Tx[u].images = {}

\* A block template can be mined: outputs in the chain, no key image spent before or
\* twice, although entries, failures and the cache remember other chains.
TemplateValid ==
  \A T \in SUBSET DOMAIN pool.db :
    LET template == BlockTemplate(T)
    IN  /\ \A t \in template : InputsValid(chain, t)
        /\ \A t, u \in template : t # u => Tx[t].images \cap Tx[u].images = {}

\* prune keeps the pool within its limit, but for one transaction ("this will never
\* remove the first one, but we don't care") and those that came with blocks.
PoolBounded ==
  \/ TotalWeight <= MaxWeight
  \/ Cardinality({t \in DOMAIN pool.db : ~pool.db[t].kept}) <= 1

\* get_txpool_weight: "the cumulative txpool weight in bytes".
WeightIsTotal == pool.weight = TotalWeight

\* "if the transaction was valid before (kept_by_block), then it may become valid
\* again": a transaction of the pool whose inputs are in order may be mined.
\* It does not hold: see README.md.
ValidIsReady == \A t \in DOMAIN pool.db : InputsValid(chain, t) => ReadyToGo(t)

=============================================================================
