--------------------------- MODULE BlockTemplate ---------------------------
(***************************************************************************)
(* Blockchain::create_block_template: several threads ask for a block to   *)
(* mine, and the last one made is cached.  The top of the chain is read    *)
(* under the lock of the chain, the transactions are chosen under the lock *)
(* of the pool, and the cache is written under no lock at all, one member  *)
(* after the other.                                                        *)
(*                                                                         *)
(* Chains are numbered in the order in which the node follows them: tip is *)
(* the number of its chain, and stands for the top block's hash, height,   *)
(* version and difficulty.  A switch holds both locks, so nobody sees a    *)
(* chain between two of them.                                              *)
(***************************************************************************)
EXTENDS Naturals, FiniteSets

CONSTANTS
  Callers,   \* threads that ask for a template
  Address,   \* caller |-> the address and extra nonce it passes
  MaxTip,    \* bound, by role: chains
  MaxCookie, \* bound, by role: changes of the pool
  MaxCalls   \* bound, by role: calls at work at once, besides the one that holds the pool's lock

VARIABLES
  role,       \* "miner", "server" or "both": whether the node mines, serves templates to
              \* others, or does both
  tip,
  cookie,     \* m_cookie of the pool
  btc,        \* m_btc, m_btc_address, ...: the cached template and what it is for
  call,       \* caller |-> where it is, and b, diffic and pool_cookie of the call
  pool_lock,  \* who holds the pool's lock for more than a step
  raced       \* a history: whether the cache was used while it was being written, or the
              \* pool changed between a choice of transactions and the reading of its cookie

template_vars == <<role, tip, cookie, btc, call, pool_lock, raced>>

Nobody == "nobody"

\* A block: the chain it builds on, the chain and the pool its transactions were chosen
\* for, and whom it pays.
NoBlock == [prev |-> 0, txs |-> 0, pool |-> 0, pays |-> Nobody]

Idle == [at |-> "out", b |-> NoBlock, diffic |-> 0, cookie |-> 0]

TemplateInit ==
  /\ role \in DOMAIN MaxCookie /\ tip = 1 /\ cookie = 0 /\ pool_lock = Nobody /\ raced = FALSE
  /\ btc = [valid |-> FALSE, block |-> NoBlock, address |-> Nobody, diffic |-> 0, cookie |-> 0]
  /\ call = [c \in Callers |-> Idle]

At(c, where) == call[c].at = where

Go(c, where) == call' = [call EXCEPT ![c].at = where]

\* Only a caller that found a cached template keeps the lock of the chain for two steps.
ChainFree == \A c \in Callers : ~At(c, "copy")

PoolFree(c) == pool_lock \in {Nobody, c}

\* c uses the cached members while another caller is between two of its writes to them, or
\* between the comparison and the copy.
Race(c, steps) ==
  raced' = (raced \/ \E o \in Callers \ {c} : call[o].at \in steps)

Writing == {"address", "valid"}

-----------------------------------------------------------------------------
(* The chain and the pool below *)

\* A new chain, by a block or by a switch; its transactions may have been in the pool.
NewTip ==
  /\ ChainFree /\ tip < MaxTip[role]
  /\ tip' = tip + 1 /\ role' = role
  /\ cookie' \in {cookie, cookie + 1} \cap 0..MaxCookie[role]
  /\ btc' = [btc EXCEPT !.valid = FALSE]
  /\ raced' = (raced \/ (cookie' # cookie /\ \E c \in Callers : At(c, "cookie")))

PoolChange ==
  /\ pool_lock = Nobody /\ cookie < MaxCookie[role]
  /\ cookie' = cookie + 1
  /\ raced' = (raced \/ \E c \in Callers : At(c, "cookie"))
  /\ UNCHANGED <<role, tip, btc, call, pool_lock>>

-----------------------------------------------------------------------------
(* create_block_template *)

\* Mutant: the cached template is taken whoever it pays.
IsCachedForAnyone(c) == btc.valid /\ btc.cookie = cookie /\ btc.block.prev = tip

IsCached(c) ==
  /\ btc.valid /\ btc.address = Address[c]
  /\ btc.cookie = cookie /\ btc.block.prev = tip

MayBegin(c) ==
  \/ pool_lock = c
  \/ Cardinality({o \in Callers : call[o].at \in {"copy", "fill", "cookie", "block"} \cup Writing}) < MaxCalls[role]

FindCached(c) ==
  /\ At(c, "call") /\ MayBegin(c) /\ ChainFree /\ IsCached(c)
  /\ Go(c, "copy") /\ Race(c, Writing)
  /\ UNCHANGED <<role, tip, cookie, btc, pool_lock>>

\* Members may be written between the comparison and this copy.
CopyCached(c) ==
  /\ At(c, "copy")
  /\ call' = [call EXCEPT ![c].at = "done", ![c].b = btc.block, ![c].diffic = btc.diffic]
  /\ Race(c, Writing)
  /\ UNCHANGED <<role, tip, cookie, btc, pool_lock>>

ReadTop(c) ==
  /\ At(c, "call") /\ MayBegin(c) /\ ChainFree /\ ~IsCached(c)
  /\ btc' = [btc EXCEPT !.valid = FALSE]
  /\ call' = [call EXCEPT ![c].at = "fill", ![c].b = [NoBlock EXCEPT !.prev = tip], ![c].diffic = tip]
  /\ UNCHANGED <<role, tip, cookie, pool_lock, raced>>

\* fill_block_template, by the rules of the chain of this moment.
Fill(c) ==
  /\ At(c, "fill") /\ ChainFree /\ PoolFree(c)
  /\ call' = [call EXCEPT ![c].at = "cookie",
                          ![c].b = [@ EXCEPT !.txs = tip, !.pool = cookie, !.pays = Address[c]]]
  /\ UNCHANGED <<role, tip, cookie, btc, pool_lock, raced>>

\* The cookie is read after the transactions were chosen.
ReadCookie(c) ==
  /\ At(c, "cookie")
  /\ call' = [call EXCEPT ![c].at = "block", ![c].cookie = cookie]
  /\ UNCHANGED <<role, tip, cookie, btc, pool_lock, raced>>

\* cache_block_template
Write(c, from, to) ==
  /\ At(c, from) /\ Go(c, to) /\ Race(c, Writing \cup {"copy"})
  /\ UNCHANGED <<role, tip, cookie, pool_lock>>

WriteBlock(c) ==
  /\ Write(c, "block", "address")
  /\ btc' = [btc EXCEPT !.block = call[c].b]

WriteAddress(c) ==
  /\ Write(c, "address", "valid")
  /\ btc' = [btc EXCEPT !.address = Address[c], !.diffic = call[c].diffic]

WriteValid(c) ==
  /\ Write(c, "valid", "done")
  /\ btc' = [btc EXCEPT !.cookie = call[c].cookie, !.valid = TRUE]

create_block_template(c) ==
  \/ FindCached(c) \/ CopyCached(c) \/ ReadTop(c) \/ Fill(c) \/ ReadCookie(c)
  \/ WriteBlock(c) \/ WriteAddress(c) \/ WriteValid(c)

=============================================================================
