---------------------------- MODULE BlockchainDB ----------------------------
(***************************************************************************)
(* What the tables of the database hold, and what adding and popping a     *)
(* block do to them inside a write transaction: the chain, the rows of the *)
(* transactions, the spent key images, the transactions of the pool.       *)
(***************************************************************************)
EXTENDS Integers, Sequences, FiniteSetsExt, Functions

CONSTANTS
  Blocks,   \* the blocks there are: block |-> [prev, txs], txs a sequence
  Genesis,  \* the first of them
  Key       \* transaction |-> the key image it spends

TopOf(chain) == chain[Len(chain)]

\* The coinbase of a block goes by the name of the block.
RowsOf(b) == {b} \cup Range(Blocks[b].txs)

TxsOf(chain) == UNION {Range(Blocks[b].txs) : b \in Range(chain)}

KeysOf(txs) == {Key[t] : t \in txs}

\* What the tables hold when every block of the chain was added whole.
Whole(chain, pool) ==
  [chain |-> chain, txs |-> UNION {RowsOf(b) : b \in Range(chain)},
   keys |-> KeysOf(TxsOf(chain)), pool |-> pool]

\* The first transaction whose key image is there already makes add_spent_key throw.
Throws(db, b) ==
  {i \in DOMAIN Blocks[b].txs :
     Key[Blocks[b].txs[i]] \in db.keys \cup {Key[Blocks[b].txs[j]] : j \in 1..i-1}}

\* Mutant: the key images of the block are not recorded.
AddBlockWithoutKeys(db, b) == [db |-> [db EXCEPT !.chain = Append(@, b), !.txs = @ \cup RowsOf(b)], whole |-> TRUE]

\* The coinbase goes in, then the transactions in their order, then the block itself.
\* Inside a batch block_txn_abort does nothing: what went in before a throw stays.
add_block(db, b) ==
  IF b \in db.txs THEN [db |-> db, whole |-> FALSE]
  ELSE IF Throws(db, b) = {}
  THEN [db |-> [db EXCEPT !.chain = Append(@, b), !.txs = @ \cup RowsOf(b),
                          !.keys = @ \cup KeysOf(Range(Blocks[b].txs))],
        whole |-> TRUE]
  ELSE LET stored == Range(SubSeq(Blocks[b].txs, 1, Min(Throws(db, b)) - 1))
       IN  [db |-> [db EXCEPT !.txs = @ \cup {b} \cup stored, !.keys = @ \cup KeysOf(stored)],
            whole |-> FALSE]

pop_block(db) ==
  LET b == TopOf(db.chain)
  IN  [db EXCEPT !.chain = SubSeq(@, 1, Len(@) - 1), !.txs = @ \ RowsOf(b), !.keys = @ \ KeysOf(Range(Blocks[b].txs))]

=============================================================================
