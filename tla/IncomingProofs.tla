--------------------------- MODULE IncomingProofs ---------------------------
(***************************************************************************)
(* For any threads, blocks, calls and crashes: a batch has one owner,      *)
(* nobody ever waits for the batch of another thread, a reader under the   *)
(* lock of the chain sees one chain; what is committed is whole, the       *)
(* window of difficulties is right, and no confirmed transaction is lost.  *)
(*                                                                         *)
(* OwnBatch alone is not inductive: it does not say which thread the batch *)
(* will be used by.  IInv therefore says of every place of a thread which  *)
(* locks it holds there, and where it owns the batch.  The three results   *)
(* about data need the same of the open batch that they say of what is     *)
(* committed, and that the batch goes on from the committed chain as long  *)
(* as the window is kept: DataInv.                                         *)
(***************************************************************************)
EXTENDS Incoming, FiniteSetTheorems, NaturalsInduction, WellFoundedInduction, TLAPS

-----------------------------------------------------------------------------
(* Locks and the owner of the batch *)

\* The places from LockPool to the end of cleanup or of LockedTXN.
WithPool == {"batch_start", "txs", "block", "cleanup", "chain", "LockedTXN", "unlock"}

\* The places with an open batch.
Writing == {"txs", "block", "cleanup", "unlock"}

\* The places under the lock of the chain.
WithChain == {"LockedTXN", "unlock", "reading"}

Shape ==
  /\ lock \in [{"incoming", "pool", "chain"} -> Threads \cup {Nobody}]
  /\ thread \in [Threads -> {thread[t] : t \in Threads}]
  /\ \A t \in Threads : thread[t] = [at |-> thread[t].at, job |-> thread[t].job]

Places ==
  \A t \in Threads :
    /\ thread[t].at \in WithPool => lock["pool"] = t
    /\ thread[t].at \in WithChain => lock["chain"] = t
    /\ thread[t].at \in Writing => writer = t
    /\ thread[t].at = "reading" => thread[t].job = committed.chain

Owner == batch # NoBatch => \E t \in Threads : thread[t].at \in Writing

IInv == Shape /\ Places /\ Owner

\* The guards of prepare and of LockedTXN on the batch never make a thread wait: where
\* batch_start is called there is no batch.
NoWaitForBatch == \A t \in Threads : At(t, "batch_start") \/ At(t, "LockedTXN") => batch = NoBatch

\* A state has one thread at most between LockPool and the end of its batch.
LEMMA OneOwner ==
  ASSUME IInv, NEW t \in Threads, thread[t].at \in WithPool,
         NEW u \in Threads, thread[u].at \in WithPool
  PROVE  t = u
  BY DEF IInv, Places

\* Init establishes the invariant: all locks are free and every thread is idle.
LEMMA InitInv == Init => IInv
  BY DEF Init, IInv, Shape, Places, Owner, Free, Idle, WithPool, WithChain, Writing

\* What a step in which only thread t moves may do.
MovesTo(t, place, job) ==
  /\ thread' = [thread EXCEPT ![t] = [at |-> place, job |-> job]]
  /\ lock' \in [{"incoming", "pool", "chain"} -> Threads \cup {Nobody}]
  /\ \A l \in {"pool", "chain"} : lock'[l] = lock[l] \/ lock[l] \in {Nobody, t}
  /\ place \in WithPool => lock'["pool"] = t
  /\ place \in WithChain => lock'["chain"] = t
  /\ place \in Writing => writer' = t
  /\ place = "reading" => job = committed'.chain
  /\ writer' = writer \/ thread[t].at \in WithPool
  /\ committed' = committed \/ lock["chain"] \in {Nobody, t}
  /\ batch' # NoBatch => place \in Writing \/ (batch' = batch /\ thread[t].at \notin Writing)

\* Such a step preserves the invariant: what other threads hold and own is theirs.
LEMMA OneMoves ==
  ASSUME IInv, NEW t \in Threads, NEW place, NEW job, MovesTo(t, place, job)
  PROVE  IInv'
<1>1. Shape'
  BY DEF IInv, Shape, MovesTo
<1>2. \A u \in Threads : u # t => thread'[u] = thread[u]
  BY DEF IInv, Shape, MovesTo
<1>3. thread'[t].at = place /\ thread'[t].job = job
  BY DEF IInv, Shape, MovesTo
<1>4. Places'
  <2> SUFFICES ASSUME NEW u \in Threads
               PROVE  /\ thread'[u].at \in WithPool => lock'["pool"] = u
                      /\ thread'[u].at \in WithChain => lock'["chain"] = u
                      /\ thread'[u].at \in Writing => writer' = u
                      /\ thread'[u].at = "reading" => thread'[u].job = committed'.chain
    BY DEF Places, WithPool, WithChain, Writing
  <2>1. CASE u = t
    BY <1>3, <2>1 DEF MovesTo
  <2>2. CASE u # t
    <3>1. thread'[u] = thread[u]
      BY <1>2, <2>2
    <3>2. /\ thread[u].at \in WithPool => lock["pool"] = u
          /\ thread[u].at \in WithChain => lock["chain"] = u
          /\ thread[u].at \in Writing => writer = u
          /\ thread[u].at = "reading" => thread[u].job = committed.chain
      BY DEF IInv, Places
    <3>3. thread[u].at \in Writing => thread[u].at \in WithPool
      BY DEF Writing, WithPool
    <3>4. thread[u].at = "reading" => thread[u].at \in WithChain
      BY DEF WithChain
    <3>5. thread[u].at \in WithPool => thread[t].at \notin WithPool
      BY <2>2, OneOwner
    <3> QED
      BY <2>2, <3>1, <3>2, <3>3, <3>4, <3>5, NobodyIsNoThread DEF MovesTo
  <2> QED
    BY <2>1, <2>2
<1>5. Owner'
  <2> SUFFICES ASSUME batch' # NoBatch
               PROVE  \E u \in Threads : thread'[u].at \in Writing
    BY DEF Owner, NoBatch, Writing
  <2>1. CASE place \in Writing
    BY <1>3, <2>1
  <2>2. CASE batch' = batch /\ thread[t].at \notin Writing
    <3>1. PICK u \in Threads : thread[u].at \in Writing
      BY <2>2 DEF IInv, Owner
    <3> QED
      BY <1>2, <2>2, <3>1
  <2> QED
    BY <2>1, <2>2 DEF MovesTo
<1> QED
  BY <1>1, <1>4, <1>5 DEF IInv

\* Every step preserves the invariant: one thread moves, or the process starts anew.
LEMMA StepInv == IInv /\ [Next]_vars => IInv'
<1> SUFFICES ASSUME IInv, [Next]_vars
             PROVE  IInv'
  OBVIOUS
<1> USE DEF WithPool, WithChain, Writing
<1>1. ASSUME NEW t \in Threads, NEW place \in {"prepare", "incoming", "pool", "get_info"}, NEW job,
             Begin(t, place, job)
      PROVE  IInv'
  <2>1. MovesTo(t, place, job)
    BY <1>1 DEF Begin, At, MovesTo, IInv, Shape
  <2> QED
    BY <2>1, OneMoves
<1>2. ASSUME NEW t \in Threads, LockIncoming(t)
      PROVE  IInv'
  <2>1. \E place \in {"prepare pool", "have_tx"} : MovesTo(t, place, thread[t].job)
    BY <1>2 DEF LockIncoming, Goto, At, CanLock, MovesTo, IInv, Shape
  <2> QED
    BY <2>1, OneMoves
<1>3. ASSUME NEW t \in Threads, LockPool(t)
      PROVE  IInv'
  <2>1. \E place \in {"batch_start", "chain"} : MovesTo(t, place, thread[t].job)
    BY <1>3 DEF LockPool, Goto, At, CanLock, MovesTo, IInv, Shape
  <2> QED
    BY <2>1, OneMoves
<1>4. ASSUME NEW t \in Threads, StartBatch(t)
      PROVE  IInv'
  <2>1. MovesTo(t, "txs", thread[t].job)
    BY <1>4 DEF StartBatch, batch_start, Goto, At, MovesTo, IInv, Shape, Places
  <2> QED
    BY <2>1, OneMoves
<1>5. ASSUME NEW t \in Threads, HandleTxs(t) \/ Stopping(t)
      PROVE  IInv'
  <2>1. \E place \in {"block", "cleanup"} : MovesTo(t, place, thread[t].job)
    BY <1>5 DEF HandleTxs, Stopping, Goto, At, MovesTo, IInv, Shape, Places
  <2> QED
    BY <2>1, OneMoves
<1>6. ASSUME NEW t \in Threads, NewBlock(t)
      PROVE  IInv'
  <2>1. PICK place \in {"txs", "cleanup"} :
          thread' = [thread EXCEPT ![t] = [at |-> place, job |-> Tail(thread[t].job)]]
    BY Zenon, <1>6 DEF NewBlock
  <2>2. MovesTo(t, place, Tail(thread[t].job))
    BY Zenon, <1>6, <2>1 DEF NewBlock, At, MovesTo, IInv, Shape, Places
  <2> QED
    BY <2>2, OneMoves
<1>7. ASSUME NEW t \in Threads, cleanup_handle_incoming_blocks(t)
      PROVE  IInv'
  <2>1. MovesTo(t, "idle", <<>>)
    BY Zenon, <1>7 DEF cleanup_handle_incoming_blocks, batch_stop, At, CanLock, Idle, MovesTo, IInv, Shape, Places
  <2> QED
    BY <2>1, OneMoves
<1>8. ASSUME NEW t \in Threads, HaveTx(t)
      PROVE  IInv'
  <2>1. CASE thread' = [thread EXCEPT ![t] = Idle] /\ lock' = [lock EXCEPT !.incoming = Nobody]
    <3>1. MovesTo(t, "idle", <<>>)
      BY Zenon, <1>8, <2>1 DEF HaveTx, At, Idle, MovesTo, IInv, Shape
    <3> QED
      BY <3>1, OneMoves
  <2>2. CASE thread' = [thread EXCEPT ![t] = [@ EXCEPT !.at = "pool"]] /\ lock' = lock
    <3>1. MovesTo(t, "pool", thread[t].job)
      BY Zenon, <1>8, <2>2 DEF HaveTx, At, MovesTo, IInv, Shape
    <3> QED
      BY <3>1, OneMoves
  <2> QED
    BY Zenon, <1>8, <2>1, <2>2 DEF HaveTx
<1>9. ASSUME NEW t \in Threads, LockChain(t)
      PROVE  IInv'
  <2>1. MovesTo(t, "LockedTXN", thread[t].job)
    BY <1>9 DEF LockChain, Goto, At, CanLock, MovesTo, IInv, Shape, Places
  <2> QED
    BY <2>1, OneMoves
<1>10. ASSUME NEW t \in Threads, LockedTXN(t)
       PROVE  IInv'
  <2>1. MovesTo(t, "unlock", thread[t].job)
    BY <1>10 DEF LockedTXN, Goto, At, MovesTo, IInv, Shape, Places
  <2> QED
    BY <2>1, OneMoves
<1>11. ASSUME NEW t \in Threads, Unlock(t)
       PROVE  IInv'
  <2>1. lock' \in [{"incoming", "pool", "chain"} -> Threads \cup {Nobody}]
    BY <1>11 DEF Unlock, IInv, Shape
  <2>2. \A l \in {"pool", "chain"} : lock'[l] = lock[l] \/ lock[l] \in {Nobody, t}
    BY <1>11 DEF Unlock, IInv, Shape
  <2>3. MovesTo(t, "idle", <<>>)
    BY <1>11, <2>1, <2>2 DEF Unlock, batch_stop, At, Idle, MovesTo, IInv, Places
  <2> QED
    BY <2>3, OneMoves
<1>12. ASSUME NEW t \in Threads, ReadChain(t)
       PROVE  IInv'
  <2>1. View(t) = committed
    BY <1>12 DEF ReadChain, At, View, IInv, Owner, Places
  <2>2. MovesTo(t, "reading", committed.chain)
    BY <1>12, <2>1 DEF ReadChain, At, CanLock, MovesTo, IInv, Shape
  <2> QED
    BY <2>2, OneMoves
<1>13. ASSUME NEW t \in Threads, ReadWindow(t)
       PROVE  IInv'
  <2>1. MovesTo(t, "idle", <<>>)
    BY <1>13 DEF ReadWindow, At, Idle, MovesTo, IInv, Shape, Places
  <2> QED
    BY <2>1, OneMoves
<1>14. CASE Crash
  BY <1>14 DEF Crash, Free, Idle, IInv, Shape, Places, Owner
<1>15. CASE UNCHANGED vars
  BY <1>15 DEF vars, IInv, Shape, Places, Owner, NoBatch
<1>16. ASSUME NEW t \in Threads, NewSpan(t) \/ NewTx(t) \/ Idling(t) \/ GetInfo(t)
       PROVE  IInv'
  BY Zenon, <1>1, <1>16 DEF NewSpan, NewTx, Idling, GetInfo
<1>17. ASSUME NEW t \in Threads, Work(t)
       PROVE  IInv'
  BY <1>2, <1>3, <1>4, <1>5, <1>6, <1>7, <1>8, <1>9, <1>10, <1>11, <1>12, <1>13, <1>17 DEF Work
<1> QED
  BY <1>5, <1>14, <1>15, <1>16, <1>17 DEF Next

\* The inductive invariant of locks and batches, for every step of Spec.
THEOREM Invariance == Spec => []IInv
<1>1. Init => IInv
  BY InitInv
<1>2. IInv /\ [Next]_vars => IInv'
  BY StepInv
<1> QED
  BY <1>1, <1>2, PTL DEF Spec

\* An open batch belongs to the thread with the lock of the pool: the comments at
\* LockedTXN and in prepare_handle_incoming_blocks are right.
THEOREM BatchOwned == Spec => []OwnBatch
<1>1. IInv => OwnBatch
  BY DEF IInv, Places, Owner, OwnBatch, WithPool, Writing
<1> QED
  BY <1>1, Invariance, PTL

\* Whoever is about to open a batch finds none, so the retry of prepare is never needed
\* and LockedTXN always gets a batch of its own.
THEOREM BatchFree == Spec => []NoWaitForBatch
<1>1. IInv => NoWaitForBatch
  <2> SUFFICES ASSUME IInv, NEW t \in Threads, thread[t].at \in {"batch_start", "LockedTXN"},
                      NEW u \in Threads, thread[u].at \in Writing
               PROVE  FALSE
    BY DEF NoWaitForBatch, At, IInv, Owner
  <2>1. t = u
    BY OneOwner DEF WithPool, Writing
  <2> QED
    BY <2>1 DEF Writing
<1> QED
  BY <1>1, Invariance, PTL

\* A reader under the lock of the chain sees one committed chain until it lets go.
THEOREM ReadersStable == Spec => []ReaderStable
<1>1. IInv => ReaderStable
  <2> SUFFICES ASSUME IInv, NEW t \in Threads, thread[t].at = "reading"
               PROVE  thread[t].job = View(t).chain
    BY DEF ReaderStable, At
  <2>1. View(t) = committed
    BY DEF View, IInv, Owner, Places, Writing
  <2> QED
    BY <2>1 DEF IInv, Places
<1> QED
  BY <1>1, Invariance, PTL

-----------------------------------------------------------------------------
(* Numbers, sequences and loops *)

\* A nonempty set of natural numbers has a least element.
LEMMA LeastExists ==
  ASSUME NEW S \in SUBSET Nat, S # {}
  PROVE  \E x \in S : \A y \in S : x <= y
<1>1. PICK x \in S : \A y \in S : <<y, x>> \notin OpToRel(<, Nat)
  BY Zenon, NatLessThanWellFounded, WFMin
<1>2. \A y \in S : ~(y < x)
  BY <1>1 DEF OpToRel
<1> QED
  BY <1>2

\* A set of numbers up to k that holds 0, and with each number the next one, holds all.
LEMMA AllUpTo ==
  ASSUME NEW k \in Nat, NEW T, 0 \in T, \A n \in 1..k : n - 1 \in T => n \in T
  PROVE  \A n \in 0..k : n \in T
<1> DEFINE Missing == {n \in 0..k : n \notin T}
<1>1. CASE Missing = {}
  BY Zenon, <1>1
<1>2. CASE Missing # {}
  <2>0. Missing \in SUBSET Nat
    OBVIOUS
  <2>1. PICK n \in Missing : \A m \in Missing : n <= m
    <3> HIDE DEF Missing
    <3> QED
      BY Zenon, <1>2, <2>0, LeastExists
  <2>2. n \in 1..k /\ n \notin T
    BY <2>1
  <2>3. n - 1 \in 0..k /\ ~(n <= n - 1)
    BY <2>2
  <2> QED
    BY <2>1, <2>2, <2>3
<1> QED
  BY <1>1, <1>2

\* A loop that goes from states to states: what a recursive definition of it asks for exists.
Steps(F, s, k, g) == g[0] = s /\ \A n \in 1..k : g[n] = F[<<n, g[n - 1]>>]

\* A loop of k rounds has a run, whatever its body does.
LEMMA Iterates ==
  ASSUME NEW S, NEW s \in S, NEW k \in Nat, NEW F \in [(1..k) \X S -> S]
  PROVE  \E g \in [0..k -> S] : Steps(F, s, k, g)
<1> DEFINE Runs(m, g) == g[0] = s /\ \A n \in 1..m : g[n] = F[<<n, g[n - 1]>>]
           T == {m \in 0..k : \E g \in [0..m -> S] : Runs(m, g)}
<1>1. 0 \in T
  <2>1. [i \in 0..0 |-> s] \in [0..0 -> S] /\ [i \in 0..0 |-> s][0] = s
    OBVIOUS
  <2>2. Runs(0, [i \in 0..0 |-> s])
    BY <2>1
  <2>3. 0 \in 0..k /\ [i \in 0..0 |-> s] \in [0..0 -> S]
    BY <2>1
  <2> QED
    BY Zenon, <2>2, <2>3
<1>2. ASSUME NEW m \in 1..k, m - 1 \in T
      PROVE  m \in T
  <2>1. PICK g \in [0..m - 1 -> S] : Runs(m - 1, g)
    BY Zenon, <1>2
  <2>2. F[<<m, g[m - 1]>>] \in S
    OBVIOUS
  <2>3. PICK h : h = [i \in 0..m |-> IF i = m THEN F[<<m, g[m - 1]>>] ELSE g[i]]
    BY Zenon
  <2>4. h \in [0..m -> S]
    BY <2>2, <2>3
  <2>5. \A i \in 0..m - 1 : h[i] = g[i]
    BY <2>3
  <2>6. h[m] = F[<<m, h[m - 1]>>] /\ h[0] = s
    <3>1. m - 1 \in 0..m - 1 /\ 0 \in 0..m - 1 /\ m \in 0..m
      OBVIOUS
    <3>2. h[m] = F[<<m, g[m - 1]>>]
      BY <2>3, <3>1
    <3> QED
      BY <2>1, <2>5, <3>1, <3>2
  <2>7. ASSUME NEW n \in 1..m, n # m
        PROVE  h[n] = F[<<n, h[n - 1]>>]
    <3>1. n \in 0..m - 1 /\ n - 1 \in 0..m - 1 /\ n \in 1..m - 1
      BY <2>7
    <3> QED
      BY <2>1, <2>5, <3>1
  <2>8. Runs(m, h)
    BY <2>6, <2>7
  <2>9. m \in 0..k
    OBVIOUS
  <2> QED
    BY Zenon, <2>4, <2>8, <2>9
<1> HIDE DEF T
<1>3. k \in T
  BY <1>1, <1>2, AllUpTo
<1> QED
  BY Zenon, <1>3 DEF T, Steps

\* The greatest of a nonempty set of numbers up to k.
LEMMA GreatestIn ==
  ASSUME NEW k \in Nat, NEW S \in SUBSET (0..k), S # {}
  PROVE  Max(S) \in S
<1> DEFINE D == {d \in Nat : k - d \in S}
<1>1. D # {} /\ D \in SUBSET Nat
  <2>1. PICK y \in S : TRUE
    OBVIOUS
  <2>2. k - y \in Nat /\ k - (k - y) = y
    OBVIOUS
  <2>3. k - y \in D
    BY <2>2
  <2> QED
    BY <2>3
<1>2. PICK d \in D : \A e \in D : d <= e
  <2> HIDE DEF D
  <2> QED
    BY Zenon, <1>1, LeastExists
<1>3. k - d \in S /\ \A y \in S : k - d >= y
  <2> SUFFICES ASSUME NEW y \in S PROVE k - d >= y
    BY <1>2
  <2>1. k - y \in D
    BY DEF D
  <2>2. d <= k - y
    BY <1>2, <2>1
  <2> QED
    BY <2>2
<1> QED
  BY Zenon, <1>3 DEF Max

\* A chain is its front and its top.
LEMMA FrontAndTop ==
  ASSUME NEW S, NEW c \in Seq(S), c # <<>>
  PROVE  /\ SubSeq(c, 1, Len(c) - 1) \in Seq(S)
         /\ Len(SubSeq(c, 1, Len(c) - 1)) = Len(c) - 1
         /\ TopOf(c) \in S
         /\ c = Append(SubSeq(c, 1, Len(c) - 1), TopOf(c))
<1>1. PICK n \in Nat : n = Len(c) - 1
  OBVIOUS
<1>2. PICK f : f = SubSeq(c, 1, n)
  BY Zenon
<1>3. f \in Seq(S) /\ Len(f) = n /\ \A i \in 1..n : f[i] = c[i]
  BY <1>1, <1>2
<1>4. TopOf(c) \in S
  BY <1>1 DEF TopOf
<1>5. c = Append(f, TopOf(c))
  BY <1>1, <1>3, <1>4 DEF TopOf
<1> QED
  BY <1>1, <1>2, <1>3, <1>4, <1>5

\* The members of a sequence with one more at its end.
LEMMA RangeOfAppend ==
  ASSUME NEW S, NEW f \in Seq(S), NEW b \in S
  PROVE  Range(Append(f, b)) = Range(f) \cup {b}
<1>0. Append(f, b) \in Seq(S)
  OBVIOUS
<1>1. PICK c \in Seq(S) : c = Append(f, b)
  BY Zenon, <1>0
<1>2. DOMAIN c = 1..Len(f) + 1 /\ DOMAIN f = 1..Len(f) /\ c[Len(f) + 1] = b
  BY <1>1
<1>3. \A i \in 1..Len(f) : c[i] = f[i]
  BY <1>1
<1>4. \A x : x \in Range(c) => x \in Range(f) \cup {b}
  BY <1>2, <1>3 DEF Range
<1>5. \A x : x \in Range(f) \cup {b} => x \in Range(c)
  BY <1>2, <1>3 DEF Range
<1> QED
  BY <1>1, <1>4, <1>5

-----------------------------------------------------------------------------
(* What the tables hold *)

\* The rows of the table of transactions: of every block its miner transaction, named
\* after the block, and its other transactions.
Rows == DOMAIN Blocks \cup DOMAIN Key
Chains == Seq(DOMAIN Blocks)

\* The rows that the blocks of a chain have.
ChainRows(chain) == UNION {RowsOf(b) : b \in Range(chain)}
TxsIn(b) == Range(Blocks[b].txs)

\* The types of the tables.
AllKeys == KeysOf(DOMAIN Key)

DBType == [chain : Chains \ {<<>>}, txs : SUBSET Rows, keys : SUBSET AllKeys, pool : SUBSET DOMAIN Key]

\* No row comes from two blocks of the chain.
Distinct(chain) ==
  \A i, j \in DOMAIN chain : i # j => RowsOf(chain[i]) \cap RowsOf(chain[j]) = {}

\* The tables hold what the blocks of the chain put there, and the rows over of blocks that
\* were added in part.
Exact(db, over) ==
  /\ Distinct(db.chain)
  /\ db.txs = ChainRows(db.chain) \cup over
  /\ over \cap ChainRows(db.chain) = {}
  /\ db.keys = KeysOf(TxsOf(db.chain) \cup (over \cap DOMAIN Key))
  /\ \A t \in TxsOf(db.chain), u \in TxsOf(db.chain) \cup (over \cap DOMAIN Key) : Key[t] = Key[u] => t = u
  /\ db.pool \cap TxsOf(db.chain) = {}

\* What DataAssumption says of one block.
LEMMA BlockTypes ==
  ASSUME NEW b \in DOMAIN Blocks
  PROVE  /\ Blocks[b].prev \in DOMAIN Blocks /\ Blocks[b].txs \in Seq(DOMAIN Key)
         /\ TxsIn(b) \subseteq DOMAIN Key /\ b \notin DOMAIN Key
         /\ RowsOf(b) = {b} \cup TxsIn(b) /\ RowsOf(b) \subseteq Rows
<1>1. Blocks[b].prev \in DOMAIN Blocks /\ Blocks[b].txs \in Seq(DOMAIN Key) /\ b \notin DOMAIN Key
  BY Zenon, DataAssumption
<1>2. TxsIn(b) \subseteq DOMAIN Key
  BY <1>1 DEF TxsIn, Range
<1> QED
  BY Zenon, <1>1, <1>2 DEF RowsOf, TxsIn, Rows

\* A record of four tables has the type of the tables.
LEMMA IsDB ==
  ASSUME NEW c \in Chains, c # <<>>, NEW x \in SUBSET Rows, NEW k \in SUBSET AllKeys, NEW p \in SUBSET DOMAIN Key
  PROVE  [chain |-> c, txs |-> x, keys |-> k, pool |-> p] \in DBType
  BY DEF DBType

\* A block at the end of a chain adds its own rows.
LEMMA RowsOfAppend ==
  ASSUME NEW f \in Chains, NEW b \in DOMAIN Blocks
  PROVE  /\ ChainRows(Append(f, b)) = ChainRows(f) \cup RowsOf(b)
         /\ TxsOf(Append(f, b)) = TxsOf(f) \cup TxsIn(b)
<1>1. Range(Append(f, b)) = Range(f) \cup {b}
  BY RangeOfAppend DEF Chains
<1> QED
  BY Zenon, <1>1 DEF ChainRows, TxsOf, TxsIn

\* The transactions of a chain are rows of it.
LEMMA TxsAreRows ==
  ASSUME NEW f \in Chains
  PROVE  TxsOf(f) \subseteq ChainRows(f) \cap DOMAIN Key /\ ChainRows(f) \subseteq Rows
<1>1. Range(f) \subseteq DOMAIN Blocks
  BY DEF Range, Chains
<1>2. \A b \in Range(f) : Range(Blocks[b].txs) \subseteq RowsOf(b) /\ RowsOf(b) \subseteq Rows /\ Range(Blocks[b].txs) \subseteq DOMAIN Key
  BY <1>1, BlockTypes DEF TxsIn
<1> QED
  BY Zenon, <1>2 DEF TxsOf, ChainRows

\* A chain stays without shared rows as long as a new block brings only new ones.
LEMMA DistinctAppend ==
  ASSUME NEW f \in Chains, NEW b \in DOMAIN Blocks
  PROVE  Distinct(Append(f, b)) <=> Distinct(f) /\ RowsOf(b) \cap ChainRows(f) = {}
<1>0. Append(f, b) \in Chains
  BY DEF Chains
<1>1. PICK c \in Chains : c = Append(f, b)
  BY Zenon, <1>0
<1>2. DOMAIN c = 1..Len(f) + 1 /\ DOMAIN f = 1..Len(f) /\ c[Len(f) + 1] = b /\ Len(f) \in Nat
  BY <1>1 DEF Chains
<1>3. \A i \in 1..Len(f) : c[i] = f[i]
  BY <1>1 DEF Chains
<1>4. ASSUME Distinct(c)
      PROVE  Distinct(f) /\ RowsOf(b) \cap ChainRows(f) = {}
  <2>1. Distinct(f)
    BY <1>2, <1>3, <1>4 DEF Distinct
  <2>2. \A i \in DOMAIN f : RowsOf(f[i]) \cap RowsOf(b) = {}
    BY <1>2, <1>3, <1>4 DEF Distinct
  <2> QED
    BY Zenon, <2>1, <2>2 DEF ChainRows, Range
<1>5. ASSUME Distinct(f), RowsOf(b) \cap ChainRows(f) = {}
      PROVE  Distinct(c)
  <2>1. \A i \in DOMAIN f : RowsOf(f[i]) \cap RowsOf(b) = {}
    BY Zenon, <1>5 DEF ChainRows, Range
  <2> SUFFICES ASSUME NEW i \in DOMAIN c, NEW j \in DOMAIN c, i # j
               PROVE  RowsOf(c[i]) \cap RowsOf(c[j]) = {}
    BY DEF Distinct
  <2>2. CASE i \in 1..Len(f) /\ j \in 1..Len(f)
    BY <1>2, <1>3, <1>5, <2>2 DEF Distinct
  <2>3. CASE i = Len(f) + 1 /\ j \in 1..Len(f)
    BY <1>2, <1>3, <2>1, <2>3
  <2>4. CASE j = Len(f) + 1 /\ i \in 1..Len(f)
    BY <1>2, <1>3, <2>1, <2>4
  <2> QED
    BY <1>2, <2>2, <2>3, <2>4
<1> QED
  BY <1>1, <1>4, <1>5

\* The tables without the top block, its transactions in the pool but for those of out.
Popped(db, out) == [pop_block(db) EXCEPT !.pool = @ \cup (Range(Blocks[TopOf(db.chain)].txs) \ out)]

\* pop_block_from_blockchain takes out what the top block put in, and returns the
\* transactions that the pool takes.
LEMMA PopExact ==
  ASSUME NEW db \in DBType, NEW over \in SUBSET Rows, Exact(db, over), Len(db.chain) > 1,
         NEW out, NEW new, new = Popped(db, out)
  PROVE  /\ new \in DBType /\ Exact(new, over)
         /\ new.chain = SubSeq(db.chain, 1, Len(db.chain) - 1) /\ Len(new.chain) = Len(db.chain) - 1
         /\ TxsOf(db.chain) \cup db.pool \subseteq TxsOf(new.chain) \cup new.pool \cup out
<1>0. db.chain \in Chains /\ db.chain # <<>> /\ db.txs \in SUBSET Rows /\ db.pool \in SUBSET DOMAIN Key
      /\ db.keys \in SUBSET AllKeys
  BY DEF DBType
<1>1. PICK f : f = SubSeq(db.chain, 1, Len(db.chain) - 1)
  BY Zenon
<1>2. PICK b : b = TopOf(db.chain)
  BY Zenon
<1>3. f \in Chains /\ b \in DOMAIN Blocks /\ db.chain = Append(f, b) /\ Len(f) = Len(db.chain) - 1
  BY Zenon, <1>0, <1>1, <1>2, FrontAndTop DEF Chains
<1>4. new = [chain |-> f, txs |-> db.txs \ RowsOf(b), keys |-> db.keys \ KeysOf(TxsIn(b)), pool |-> db.pool \cup (TxsIn(b) \ out)]
  BY <1>1, <1>2 DEF Popped, pop_block, DBType, TxsIn
<1>5. new.chain = f /\ new.txs = db.txs \ RowsOf(b) /\ new.keys = db.keys \ KeysOf(TxsIn(b)) /\ new.pool = db.pool \cup (TxsIn(b) \ out)
  BY <1>4
<1>6. /\ ChainRows(db.chain) = ChainRows(f) \cup RowsOf(b)
      /\ TxsOf(db.chain) = TxsOf(f) \cup TxsIn(b)
      /\ Distinct(f) /\ RowsOf(b) \cap ChainRows(f) = {}
  BY <1>3, RowsOfAppend, DistinctAppend DEF Exact
<1>7. TxsIn(b) \subseteq DOMAIN Key /\ TxsIn(b) \subseteq RowsOf(b) /\ TxsOf(f) \subseteq ChainRows(f) /\ TxsOf(f) \subseteq DOMAIN Key
  BY <1>3, BlockTypes, TxsAreRows
<1>8. new \in DBType
  <2>1. f # <<>>
    BY <1>3 DEF Chains
  <2>2. db.txs \ RowsOf(b) \in SUBSET Rows /\ db.keys \ KeysOf(TxsIn(b)) \in SUBSET AllKeys /\ db.pool \cup (TxsIn(b) \ out) \in SUBSET DOMAIN Key
    BY Zenon, <1>0, <1>7
  <2>3. [chain |-> f, txs |-> db.txs \ RowsOf(b), keys |-> db.keys \ KeysOf(TxsIn(b)), pool |-> db.pool \cup (TxsIn(b) \ out)] \in DBType
    BY Zenon, <1>3, <2>1, <2>2, IsDB
  <2> QED
    BY Zenon, <1>4, <2>3
<1>9. new.txs = ChainRows(f) \cup over /\ over \cap ChainRows(f) = {}
  BY Zenon, <1>5, <1>6 DEF Exact
<1>10. new.keys = KeysOf(TxsOf(f) \cup (over \cap DOMAIN Key))
  <2>1. PICK K : K = over \cap DOMAIN Key
    BY Zenon
  <2>2. db.keys = KeysOf(TxsOf(f) \cup TxsIn(b) \cup K)
    BY <1>6, <2>1 DEF Exact
  <2>3. \A t \in TxsIn(b), u \in TxsOf(f) \cup K : Key[t] # Key[u]
    <3> SUFFICES ASSUME NEW t \in TxsIn(b), NEW u \in TxsOf(f) \cup K, Key[t] = Key[u]
                 PROVE  FALSE
      OBVIOUS
    <3>1. t = u
      BY Zenon, <1>6, <2>1 DEF Exact
    <3> QED
      BY Zenon, <1>6, <1>7, <2>1, <3>1 DEF Exact
  <2>4. KeysOf(TxsOf(f) \cup TxsIn(b) \cup K) \ KeysOf(TxsIn(b)) = KeysOf(TxsOf(f) \cup K)
    BY Zenon, <2>3 DEF KeysOf
  <2> QED
    BY <1>5, <2>1, <2>2, <2>4
<1>11. \A t \in TxsOf(f), u \in TxsOf(f) \cup (over \cap DOMAIN Key) : Key[t] = Key[u] => t = u
  BY Zenon, <1>6 DEF Exact
<1>12. new.pool \cap TxsOf(f) = {}
  BY Zenon, <1>5, <1>6, <1>7 DEF Exact
<1>13. TxsOf(db.chain) \cup db.pool \subseteq TxsOf(new.chain) \cup new.pool \cup out
  BY Zenon, <1>5, <1>6
<1>14. Exact(new, over)
  BY Zenon, <1>5, <1>6, <1>9, <1>10, <1>11, <1>12 DEF Exact
<1> QED
  BY <1>1, <1>3, <1>5, <1>8, <1>13, <1>14

\* A block none of whose transactions is refused brings rows and key images of its own.
LEMMA NotRefused ==
  ASSUME NEW db, NEW b \in DOMAIN Blocks, Refused(db, b) = {}
  PROVE  \A t \in TxsIn(b) : t \notin db.txs /\ t \in db.pool /\ Key[t] \notin db.keys
  BY DEF Refused, TxsIn, Range

\* Adding a block whole leaves the tables exact.
Added(db, b) == [add_block(db, b).db EXCEPT !.pool = @ \ Range(Blocks[b].txs)]

\* A block that was added whole has exactly its rows and key images in the tables.
LEMMA AddExact ==
  ASSUME NEW db \in DBType, NEW over \in SUBSET Rows, Exact(db, over), NEW b \in DOMAIN Blocks,
         Refused(db, b) = {}, add_block(db, b).whole,
         NEW new, new = Added(db, b)
  PROVE  /\ new \in DBType /\ Exact(new, over)
         /\ new.chain = Append(db.chain, b) /\ add_block(db, b).db.chain = Append(db.chain, b)
         /\ TxsOf(new.chain) \cup new.pool = TxsOf(db.chain) \cup db.pool
<1>0. db.chain \in Chains /\ db.chain # <<>> /\ db.txs \in SUBSET Rows /\ db.pool \in SUBSET DOMAIN Key
      /\ db.keys \in SUBSET AllKeys
  BY DEF DBType
<1>1. b \notin db.txs /\ Throws(db, b) = {}
  BY DEF add_block
<1>2. add_block(db, b).db = [chain |-> Append(db.chain, b), txs |-> db.txs \cup RowsOf(b),
                             keys |-> db.keys \cup KeysOf(TxsIn(b)), pool |-> db.pool]
  BY <1>1 DEF add_block, DBType, TxsIn
<1>3. new = [chain |-> Append(db.chain, b), txs |-> db.txs \cup RowsOf(b),
             keys |-> db.keys \cup KeysOf(TxsIn(b)), pool |-> db.pool \ TxsIn(b)]
  <2>1. new = [add_block(db, b).db EXCEPT !.pool = @ \ TxsIn(b)]
    BY Zenon DEF TxsIn, Added
  <2>2. PICK old : old = add_block(db, b).db
    BY Zenon
  <2>3. new = [old EXCEPT !.pool = @ \ TxsIn(b)]
    BY Zenon, <2>1, <2>2
  <2>4. old = [chain |-> Append(db.chain, b), txs |-> db.txs \cup RowsOf(b),
               keys |-> db.keys \cup KeysOf(TxsIn(b)), pool |-> db.pool]
    BY Zenon, <1>2, <2>2
  <2> QED
    BY <2>3, <2>4
<1>4. /\ new.chain = Append(db.chain, b) /\ new.txs = db.txs \cup RowsOf(b)
      /\ new.keys = db.keys \cup KeysOf(TxsIn(b)) /\ new.pool = db.pool \ TxsIn(b)
      /\ add_block(db, b).db.chain = Append(db.chain, b)
  BY <1>2, <1>3
<1>5. /\ ChainRows(new.chain) = ChainRows(db.chain) \cup RowsOf(b)
      /\ TxsOf(new.chain) = TxsOf(db.chain) \cup TxsIn(b)
  BY <1>0, <1>4, RowsOfAppend
<1>6. TxsIn(b) \subseteq DOMAIN Key /\ RowsOf(b) = {b} \cup TxsIn(b) /\ RowsOf(b) \subseteq Rows
  BY BlockTypes
<1>7. \A t \in TxsIn(b) : t \notin db.txs /\ t \in db.pool /\ Key[t] \notin db.keys
  BY NotRefused
<1>8. RowsOf(b) \cap db.txs = {}
  BY <1>1, <1>6, <1>7
<1>9. Distinct(new.chain)
  <2>1. RowsOf(b) \cap ChainRows(db.chain) = {}
    BY <1>8 DEF Exact
  <2> QED
    <3>1. Distinct(db.chain)
      BY Zenon DEF Exact
    <3>2. Distinct(Append(db.chain, b))
      BY <1>0, <2>1, <3>1, DistinctAppend
    <3> QED
      BY Zenon, <1>4, <3>2
<1>10. new.txs = ChainRows(new.chain) \cup over /\ over \cap ChainRows(new.chain) = {}
  <2>1. over \subseteq db.txs
    BY DEF Exact
  <2> QED
    BY Zenon, <1>4, <1>5, <1>8, <2>1 DEF Exact
<1>11. new.keys = KeysOf(TxsOf(new.chain) \cup (over \cap DOMAIN Key))
  BY Zenon, <1>4, <1>5 DEF Exact, KeysOf
<1>12. ASSUME NEW t \in TxsOf(new.chain), NEW u \in TxsOf(new.chain) \cup (over \cap DOMAIN Key), Key[t] = Key[u]
       PROVE  t = u
  <2>1. \A x \in TxsOf(db.chain) \cup (over \cap DOMAIN Key) : Key[x] \in db.keys
    BY Zenon DEF Exact, KeysOf
  <2>2. CASE t \in TxsIn(b) /\ u \in TxsIn(b)
    <3>1. PICK i \in DOMAIN Blocks[b].txs : t = Blocks[b].txs[i]
      BY <2>2 DEF TxsIn, Range
    <3>2. PICK j \in DOMAIN Blocks[b].txs : u = Blocks[b].txs[j]
      BY <2>2 DEF TxsIn, Range
    <3>3. i \in Nat /\ i >= 1 /\ j \in Nat /\ j >= 1
      BY BlockTypes
    <3>4. ~(i < j)
      <4> SUFFICES ASSUME i < j PROVE FALSE
        OBVIOUS
      <4>1. i \in 1..j-1
        BY <3>3
      <4>2. j \in Throws(db, b)
        BY Zenon, <1>12, <3>1, <3>2, <4>1 DEF Throws
      <4> QED
        BY <1>1, <4>2
    <3>5. ~(j < i)
      <4> SUFFICES ASSUME j < i PROVE FALSE
        OBVIOUS
      <4>1. j \in 1..i-1
        BY <3>3
      <4>2. i \in Throws(db, b)
        BY Zenon, <1>12, <3>1, <3>2, <4>1 DEF Throws
      <4> QED
        BY <1>1, <4>2
    <3>6. i = j
      BY <3>3, <3>4, <3>5
    <3> QED
      BY <3>1, <3>2, <3>6
  <2>3. CASE t \in TxsIn(b) /\ u \notin TxsIn(b)
    BY Zenon, <1>5, <1>7, <1>12, <2>1, <2>3
  <2>4. CASE t \notin TxsIn(b) /\ u \in TxsIn(b)
    BY Zenon, <1>5, <1>7, <1>12, <2>1, <2>4
  <2>5. CASE t \notin TxsIn(b) /\ u \notin TxsIn(b)
    BY Zenon, <1>5, <1>12, <2>5 DEF Exact
  <2> QED
    BY Zenon, <2>2, <2>3, <2>4, <2>5
<1>13. new.pool \cap TxsOf(new.chain) = {}
  BY Zenon, <1>4, <1>5 DEF Exact
<1>14. TxsOf(new.chain) \cup new.pool = TxsOf(db.chain) \cup db.pool
  BY Zenon, <1>4, <1>5, <1>7
<1>15. Exact(new, over)
  BY Zenon, <1>9, <1>10, <1>11, <1>12, <1>13 DEF Exact
<1>16. new \in DBType
  <2>1. Append(db.chain, b) \in Chains \ {<<>>}
    BY <1>0 DEF Chains
  <2>2. KeysOf(TxsIn(b)) \subseteq AllKeys
    BY Zenon, <1>6 DEF KeysOf, AllKeys
  <2>3. db.txs \cup RowsOf(b) \in SUBSET Rows /\ db.keys \cup KeysOf(TxsIn(b)) \in SUBSET AllKeys /\ db.pool \ TxsIn(b) \in SUBSET DOMAIN Key
    BY Zenon, <1>0, <1>6, <2>2
  <2>4. [chain |-> Append(db.chain, b), txs |-> db.txs \cup RowsOf(b),
         keys |-> db.keys \cup KeysOf(TxsIn(b)), pool |-> db.pool \ TxsIn(b)] \in DBType
    BY Zenon, <2>1, <2>3, IsDB
  <2> QED
    BY Zenon, <1>3, <2>4
<1> QED
  BY <1>4, <1>14, <1>15, <1>16

\* A block added in part leaves rows behind, and nothing else changes.
LEMMA PartExact ==
  ASSUME NEW db \in DBType, NEW over \in SUBSET Rows, Exact(db, over), NEW b \in DOMAIN Blocks,
         Refused(db, b) = {}, ~add_block(db, b).whole, NEW new, new = add_block(db, b).db,
         NEW more, more = over \cup (new.txs \ db.txs)
  PROVE  new \in DBType /\ new.chain = db.chain /\ new.pool = db.pool /\ Exact(new, more)
<1>0. db.chain \in Chains /\ db.chain # <<>> /\ db.txs \in SUBSET Rows /\ db.pool \in SUBSET DOMAIN Key
      /\ db.keys \in SUBSET AllKeys
  BY DEF DBType
<1>1. CASE b \in db.txs
  <2>1. new = db
    BY <1>1 DEF add_block
  <2>2. more = over
    BY <2>1
  <2> QED
    BY <2>1, <2>2
<1>2. CASE b \notin db.txs
  <2>0. Throws(db, b) # {}
    BY <1>2 DEF add_block
  <2>1. PICK stored : stored = Range(SubSeq(Blocks[b].txs, 1, Min(Throws(db, b)) - 1))
    BY Zenon
  <2>2. stored \subseteq TxsIn(b)
    <3>1. PICK n : n = Min(Throws(db, b)) - 1
      BY Zenon
    <3>2. n \in Nat /\ n <= Len(Blocks[b].txs)
      <4>1. Blocks[b].txs \in Seq(DOMAIN Key)
        BY BlockTypes
      <4>2. Throws(db, b) \in SUBSET (1..Len(Blocks[b].txs))
        BY <4>1 DEF Throws
      <4>3. Throws(db, b) \in SUBSET Nat
        BY <4>2
      <4>4. \E x \in Throws(db, b) : \A y \in Throws(db, b) : x <= y
        BY Zenon, <2>0, <4>3, LeastExists
      <4>5. Min(Throws(db, b)) \in Throws(db, b)
        BY Zenon, <4>4 DEF Min
      <4> QED
        BY <3>1, <4>2, <4>5
    <3> QED
      BY <2>1, <3>1, <3>2, BlockTypes DEF TxsIn, Range
  <2>3. new = [chain |-> db.chain, txs |-> db.txs \cup {b} \cup stored, keys |-> db.keys \cup KeysOf(stored), pool |-> db.pool]
    BY <1>2, <2>0, <2>1 DEF add_block, DBType
  <2>4. /\ new.chain = db.chain /\ new.txs = db.txs \cup {b} \cup stored
        /\ new.keys = db.keys \cup KeysOf(stored) /\ new.pool = db.pool
    BY <2>3
  <2>5. TxsIn(b) \subseteq DOMAIN Key /\ RowsOf(b) = {b} \cup TxsIn(b) /\ RowsOf(b) \subseteq Rows /\ b \notin DOMAIN Key
    BY BlockTypes
  <2>6. \A t \in stored : t \notin db.txs /\ Key[t] \notin db.keys
    BY <2>2, NotRefused
  <2>7. new.txs \ db.txs = {b} \cup stored
    BY Zenon, <1>2, <2>4, <2>6
  <2>8. new \in DBType
    <3>1. KeysOf(stored) \subseteq AllKeys
      BY Zenon, <2>2, <2>5 DEF KeysOf, AllKeys
    <3>2. db.txs \cup {b} \cup stored \in SUBSET Rows /\ db.keys \cup KeysOf(stored) \in SUBSET AllKeys
      BY Zenon, <1>0, <2>2, <2>5, <3>1
    <3> QED
      BY <1>0, <2>3, <3>2, IsDB
  <2>9. more = over \cup ({b} \cup stored)
    BY Zenon, <2>7
  <2>10. new.txs = ChainRows(new.chain) \cup more
    BY <2>4, <2>9 DEF Exact
  <2>11. more \cap ChainRows(new.chain) = {}
    BY Zenon, <1>2, <2>4, <2>6, <2>9 DEF Exact
  <2>12. more \cap DOMAIN Key = (over \cap DOMAIN Key) \cup stored
    BY <2>2, <2>5, <2>9
  <2>13. new.keys = KeysOf(TxsOf(new.chain) \cup (more \cap DOMAIN Key))
    BY Zenon, <2>4, <2>12 DEF Exact, KeysOf
  <2>14. \A t \in TxsOf(new.chain), u \in TxsOf(new.chain) \cup (more \cap DOMAIN Key) : Key[t] = Key[u] => t = u
    <3>1. \A t \in TxsOf(db.chain) : Key[t] \in db.keys
      BY Zenon DEF Exact, KeysOf
    <3> SUFFICES ASSUME NEW t \in TxsOf(db.chain), NEW u \in TxsOf(db.chain) \cup (more \cap DOMAIN Key), Key[t] = Key[u]
                 PROVE  t = u
      BY Zenon, <2>4
    <3>2. CASE u \in TxsOf(db.chain) \cup (over \cap DOMAIN Key)
      BY Zenon, <3>2 DEF Exact
    <3>3. CASE u \in stored
      BY Zenon, <2>6, <3>1, <3>3
    <3> QED
      BY <2>12, <3>2, <3>3
  <2>15. Exact(new, more)
    BY Zenon, <2>4, <2>10, <2>11, <2>13, <2>14 DEF Exact
  <2> QED
    BY <2>4, <2>8, <2>15
<1> QED
  BY <1>1, <1>2

-----------------------------------------------------------------------------
(* The window of difficulties *)

\* The greater of two numbers.
LEMMA MaxOfTwo ==
  ASSUME NEW a \in Int, NEW b \in Int
  PROVE  Max({a, b}) = IF a >= b THEN a ELSE b
<1>1. \E x \in {a, b} : \A y \in {a, b} : x >= y
  OBVIOUS
<1>2. Max({a, b}) \in {a, b} /\ \A y \in {a, b} : Max({a, b}) >= y
  BY Zenon, <1>1 DEF Max
<1> QED
  BY <1>2

\* The last n members of a sequence.
LEMMA LastOfIs ==
  ASSUME NEW S, NEW s \in Seq(S), NEW n \in Nat
  PROVE  /\ LastOf(s, n) \in Seq(S)
         /\ Len(LastOf(s, n)) = IF Len(s) >= n THEN n ELSE Len(s)
         /\ Len(s) >= n => \A i \in 1..n : LastOf(s, n)[i] = s[Len(s) - n + i]
<1>1. PICK l \in Nat : l = Len(s)
  OBVIOUS
<1>2. PICK k : k = Max({1, l - n + 1})
  BY Zenon
<1>3. k = IF 1 >= l - n + 1 THEN 1 ELSE l - n + 1
  BY <1>2, MaxOfTwo
<1>4. LastOf(s, n) = SubSeq(s, k, l)
  BY Zenon, <1>1, <1>2 DEF LastOf
<1>5. k \in 1..l + 1
  BY <1>3
<1>6. SubSeq(s, k, l) \in Seq(S) /\ Len(SubSeq(s, k, l)) = l - k + 1 /\ \A i \in 1..l - k + 1 : SubSeq(s, k, l)[i] = s[k + i - 1]
  BY <1>1, <1>5
<1>7. CASE l >= n
  <2>1. k = l - n + 1 /\ l - k + 1 = n
    BY <1>3, <1>7
  <2>2. PICK x : x = SubSeq(s, k, l)
    BY Zenon
  <2>3. x \in Seq(S) /\ Len(x) = n /\ \A i \in 1..n : x[i] = s[k + i - 1]
    BY <1>6, <2>1, <2>2
  <2>4. \A i \in 1..n : k + i - 1 = l - n + i
    BY <2>1
  <2>5. \A i \in 1..n : x[i] = s[l - n + i]
    BY <2>3, <2>4
  <2> QED
    BY <1>1, <1>4, <1>7, <2>2, <2>3, <2>5
<1>8. CASE ~(l >= n)
  <2>1. k = 1
    BY <1>3, <1>8
  <2> QED
    BY <1>1, <1>4, <1>6, <1>8, <2>1
<1> QED
  BY <1>7, <1>8

\* Chain v goes on from chain c.
Prefix(c, v) == Len(c) <= Len(v) /\ c = SubSeq(v, 1, Len(c))

\* Two chains of which one goes on from the other have the same first blocks.
LEMMA PrefixCut ==
  ASSUME NEW S, NEW c \in Seq(S), NEW v \in Seq(S), Prefix(c, v), NEW h \in 1..Len(c)
  PROVE  SubSeq(c, 1, h) = SubSeq(v, 1, h) /\ h \in 1..Len(v)
<1>1. PICK l \in Nat : l = Len(c)
  OBVIOUS
<1>2. l <= Len(v) /\ c = SubSeq(v, 1, l) /\ h \in 1..l
  BY <1>1 DEF Prefix
<1>3. \A i \in 1..l : c[i] = v[i]
  BY <1>2
<1> QED
  BY <1>1, <1>2, <1>3

\* A chain goes on from itself.
LEMMA PrefixSame ==
  ASSUME NEW S, NEW c \in Seq(S)
  PROVE  Prefix(c, c)
  BY DEF Prefix

\* A chain with one more block goes on from what it went on from.
LEMMA PrefixAppend ==
  ASSUME NEW S, NEW c \in Seq(S), NEW v \in Seq(S), Prefix(c, v), NEW b \in S
  PROVE  Prefix(c, Append(v, b))
<1>1. PICK l \in Nat : l = Len(c)
  OBVIOUS
<1>2. l <= Len(v) /\ c = SubSeq(v, 1, l)
  BY <1>1 DEF Prefix
<1>3. SubSeq(v, 1, l) = SubSeq(Append(v, b), 1, l) /\ l <= Len(Append(v, b))
  BY <1>2
<1> QED
  BY <1>1, <1>2, <1>3 DEF Prefix

\* The window without its first block and with the new top is the window of the new chain.
LEMMA WindowMoves ==
  ASSUME NEW S, NEW c \in Seq(S), NEW n \in Nat, NEW h \in Nat, h >= 1, Len(c) = h + 1,
         NEW w, w = LastOf(Tail(SubSeq(c, 1, h)), n), Len(w) >= n
  PROVE  LastOf(Append(w, TopOf(c)), n) = LastOf(Tail(c), n)
<1>1. PICK f : f = Tail(SubSeq(c, 1, h))
  BY Zenon
<1>2. f \in Seq(S) /\ Len(f) = h - 1 /\ \A i \in 1..h - 1 : f[i] = c[i + 1]
  <2>1. PICK d : d = SubSeq(c, 1, h)
    BY Zenon
  <2>2. d \in Seq(S) /\ Len(d) = h /\ \A i \in 1..h : d[i] = c[i]
    BY <2>1
  <2>3. f = Tail(d)
    BY Zenon, <1>1, <2>1
  <2>4. f \in Seq(S) /\ Len(f) = h - 1 /\ \A i \in 1..h - 1 : f[i] = d[i + 1]
    BY <2>2, <2>3
  <2> QED
    BY <2>2, <2>4
<1>3. /\ w \in Seq(S)
      /\ Len(w) = IF h - 1 >= n THEN n ELSE h - 1
      /\ h - 1 >= n => \A i \in 1..n : w[i] = f[h - 1 - n + i]
  <2>1. w = LastOf(f, n)
    BY Zenon, <1>1
  <2>2. PICK l : l = Len(f)
    BY Zenon
  <2>3. /\ LastOf(f, n) \in Seq(S)
        /\ Len(LastOf(f, n)) = IF l >= n THEN n ELSE l
        /\ l >= n => \A i \in 1..n : LastOf(f, n)[i] = f[l - n + i]
    BY Zenon, <1>2, <2>2, LastOfIs
  <2>4. l = h - 1
    BY <1>2, <2>2
  <2> QED
    BY <2>1, <2>3, <2>4
<1>4. h - 1 >= n /\ Len(w) = n
  BY <1>3
<1>5. \A i \in 1..n : w[i] = c[h - n + i]
  <2> SUFFICES ASSUME NEW i \in 1..n
               PROVE  w[i] = c[h - n + i]
    OBVIOUS
  <2>1. w[i] = f[h - 1 - n + i]
    BY <1>3, <1>4
  <2>2. h - 1 - n + i \in 1..h - 1 /\ h - 1 - n + i + 1 = h - n + i
    BY <1>4
  <2> QED
    BY <1>2, <2>1, <2>2
<1>6. TopOf(c) = c[h + 1] /\ TopOf(c) \in S
  BY DEF TopOf
<1>7. PICK a : a = Append(w, TopOf(c))
  BY Zenon
<1>8. a \in Seq(S) /\ Len(a) = n + 1 /\ a[n + 1] = c[h + 1] /\ \A i \in 1..n : a[i] = w[i]
  BY <1>3, <1>4, <1>6, <1>7
<1>9. /\ LastOf(a, n) \in Seq(S) /\ Len(LastOf(a, n)) = n
      /\ \A i \in 1..n : LastOf(a, n)[i] = a[n + 1 - n + i]
  BY <1>8, LastOfIs
<1>10. Tail(c) \in Seq(S) /\ Len(Tail(c)) = h /\ \A i \in 1..h : Tail(c)[i] = c[i + 1]
  OBVIOUS
<1>11. /\ LastOf(Tail(c), n) \in Seq(S) /\ Len(LastOf(Tail(c), n)) = n
       /\ \A i \in 1..n : LastOf(Tail(c), n)[i] = Tail(c)[h - n + i]
  <2>1. PICK t \in Seq(S) : t = Tail(c)
    BY Zenon, <1>10
  <2>2. /\ LastOf(t, n) \in Seq(S)
        /\ Len(LastOf(t, n)) = IF Len(t) >= n THEN n ELSE Len(t)
        /\ Len(t) >= n => \A i \in 1..n : LastOf(t, n)[i] = t[Len(t) - n + i]
    BY Zenon, LastOfIs
  <2>3. Len(t) = h /\ h >= n
    BY <1>4, <1>10, <2>1
  <2> QED
    BY <2>1, <2>2, <2>3
<1>12. ASSUME NEW i \in 1..n
       PROVE  LastOf(a, n)[i] = LastOf(Tail(c), n)[i]
  <2>1. LastOf(Tail(c), n)[i] = c[h - n + i + 1]
    <3>1. h - n + i \in 1..h
      BY <1>4
    <3> QED
      BY <1>10, <1>11, <3>1
  <2>2. LastOf(a, n)[i] = a[i + 1]
    BY <1>9
  <2>3. CASE i = n
    <3>1. h - n + i + 1 = h + 1
      BY <2>3
    <3> QED
      BY <1>8, <2>1, <2>2, <2>3, <3>1
  <2>4. CASE i # n
    <3>1. i + 1 \in 1..n /\ h - n + (i + 1) = h - n + i + 1
      BY <2>4
    <3> QED
      BY <1>5, <1>8, <2>1, <2>2, <3>1
  <2> QED
    BY <2>3, <2>4
<1>13. LastOf(a, n) = LastOf(Tail(c), n)
  <2>1. PICK x \in Seq(S) : x = LastOf(a, n)
    BY Zenon, <1>9
  <2>2. PICK y \in Seq(S) : y = LastOf(Tail(c), n)
    BY Zenon, <1>11
  <2>3. Len(x) = n /\ Len(y) = n /\ \A i \in 1..n : x[i] = y[i]
    BY Zenon, <1>9, <1>11, <1>12, <2>1, <2>2
  <2>4. x = y
    BY <2>3
  <2> QED
    BY Zenon, <2>1, <2>2, <2>4
<1> QED
  BY Zenon, <1>7, <1>13

\* The type of what Blockchain keeps in memory.
MemType == [alt : SUBSET DOMAIN Blocks, invalid : SUBSET DOMAIN Blocks, window : Chains,
            height : Nat, reset : BOOLEAN, sound : BOOLEAN, forked : BOOLEAN]

\* The window is that of the blocks up to its height, unless it is to be read anew.
WindowOK(m, chain) ==
  /\ m.sound
  /\ ~m.reset => \/ m.height = 0
                 \/ m.height \in 1..Len(chain) /\ m.window = LastOf(Tail(SubSeq(chain, 1, m.height)), BlocksCount)

\* Whoever reads the window of the current chain, or of one it goes on from, leaves it right,
\* and finds no inconsistency.
LEMMA WindowKept ==
  ASSUME NEW m \in MemType, NEW c \in Chains, c # <<>>, NEW v \in Chains,
         m.reset \/ Prefix(c, v), WindowOK(m, v),
         NEW r, r = get_difficulty_for_next_block(m, c)
  PROVE  r \in MemType /\ WindowOK(r, v) /\ r.reset = m.reset /\ r.alt = m.alt /\ r.invalid = m.invalid
<1> DEFINE real == LastOf(Tail(c), BlocksCount)
           moves == (IF m.reset THEN 0 ELSE m.height) # 0 /\ Len(c) - (IF m.reset THEN 0 ELSE m.height) = 1
                    /\ Len(m.window) >= BlocksCount
           fits == LastOf(Append(m.window, TopOf(c)), BlocksCount) = real
<1>1. r = [m EXCEPT !.window = real, !.height = Len(c), !.sound = @ /\ (moves => fits)]
  BY Zenon DEF get_difficulty_for_next_block
<1>2. moves => fits
  <2> SUFFICES ASSUME moves PROVE fits
    OBVIOUS
  <2>1. ~m.reset /\ m.height # 0 /\ m.height \in Nat /\ Len(c) = m.height + 1
    BY DEF Chains, MemType
  <2>2. m.height \in 1..Len(c)
    BY <2>1
  <2>3. m.window = LastOf(Tail(SubSeq(v, 1, m.height)), BlocksCount) /\ Prefix(c, v)
    BY Zenon, <2>1 DEF WindowOK
  <2>4. SubSeq(c, 1, m.height) = SubSeq(v, 1, m.height)
    <3>1. PICK h \in 1..Len(c) : h = m.height
      BY Zenon, <2>2
    <3>2. c \in Seq(DOMAIN Blocks) /\ v \in Seq(DOMAIN Blocks) /\ Prefix(c, v)
      BY <2>3 DEF Chains
    <3>3. SubSeq(c, 1, h) = SubSeq(v, 1, h)
      BY <3>2, PrefixCut
    <3> QED
      BY Zenon, <3>1, <3>3
  <2>5. m.window = LastOf(Tail(SubSeq(c, 1, m.height)), BlocksCount)
    BY Zenon, <2>3, <2>4
  <2>6. BlocksCount \in Nat /\ m.height \in Nat /\ m.height >= 1
    BY <2>1, DataAssumption
  <2> QED
    BY <2>1, <2>5, <2>6, WindowMoves DEF Chains
<1>3. real \in Chains
  <2>1. BlocksCount \in Nat
    BY Zenon, DataAssumption
  <2>2. Tail(c) \in Seq(DOMAIN Blocks)
    BY DEF Chains
  <2> QED
    BY <2>1, <2>2, LastOfIs DEF Chains
<1>4. PICK h \in Nat : h = Len(c)
  BY DEF Chains
<1>5. PICK w \in Chains : w = real
  BY Zenon, <1>3
<1> HIDE DEF real, moves, fits
<1>6. PICK ok : ok = (m.sound /\ (moves => fits))
  BY Zenon
<1>7. ok = TRUE
  BY <1>2, <1>6 DEF WindowOK, MemType
<1>8. r = [m EXCEPT !.window = w, !.height = h, !.sound = TRUE]
  BY Zenon, <1>1, <1>4, <1>5, <1>6, <1>7
<1>9. /\ r \in MemType /\ r.reset = m.reset /\ r.alt = m.alt /\ r.invalid = m.invalid
      /\ r.sound /\ r.height = h /\ r.window = w
  BY <1>8 DEF MemType
<1>10. ASSUME ~m.reset
       PROVE  h \in 1..Len(v) /\ w = LastOf(Tail(SubSeq(v, 1, h)), BlocksCount)
  <2>1. h \in 1..Len(c) /\ Prefix(c, v)
    BY <1>4, <1>10 DEF Chains
  <2>2. SubSeq(c, 1, h) = SubSeq(v, 1, h) /\ h \in 1..Len(v)
    BY Zenon, <2>1, PrefixCut DEF Chains
  <2>3. SubSeq(c, 1, h) = c
    BY <1>4 DEF Chains
  <2> QED
    BY Zenon, <1>5, <2>2, <2>3 DEF real
<1> QED
  BY Zenon, <1>9, <1>10 DEF WindowOK

-----------------------------------------------------------------------------
(* The steps of Blockchain on database and memory *)

\* The state that the functions under add_new_block take and return.
StateType == [db : DBType, mem : MemType, left : SUBSET Rows, ok : BOOLEAN]

\* The tables are exact but for rows of left, the transactions of the set sure that no hard
\* fork forbids are still in a block or in the pool, and the window is right.  The rows of
\* base are left since before.
Good(s, sure, base) ==
  /\ s \in StateType /\ base \subseteq s.left
  /\ \E over \in SUBSET s.left : Exact(s.db, over)
  /\ \A t \in sure \ (s.left \cup Outdated) : t \in TxsOf(s.db.chain) \cup s.db.pool
  /\ WindowOK(s.mem, s.db.chain)

\* A record of its four parts is such a state.
LEMMA IsState ==
  ASSUME NEW d \in DBType, NEW m \in MemType, NEW l \in SUBSET Rows, NEW k \in BOOLEAN
  PROVE  [db |-> d, mem |-> m, left |-> l, ok |-> k] \in StateType
  BY DEF StateType

\* The types of the parts of such a state.
LEMMA StateFields ==
  ASSUME NEW s \in StateType
  PROVE  /\ s.db \in DBType /\ s.mem \in MemType /\ s.left \in SUBSET Rows /\ s.ok \in BOOLEAN
         /\ s.db.chain \in Chains /\ s.db.chain # <<>> /\ Len(s.db.chain) \in Nat /\ Len(s.db.chain) >= 1
         /\ s.mem.alt \in SUBSET DOMAIN Blocks /\ s.mem.invalid \in SUBSET DOMAIN Blocks /\ s.mem.reset \in BOOLEAN
<1>1. s.db \in DBType /\ s.mem \in MemType /\ s.left \in SUBSET Rows /\ s.ok \in BOOLEAN
  BY DEF StateType
<1>2. s.db.chain \in Chains /\ s.db.chain # <<>>
  BY <1>1 DEF DBType
<1>3. Len(s.db.chain) \in Nat /\ Len(s.db.chain) >= 1
  BY <1>2 DEF Chains
<1>4. s.mem.alt \in SUBSET DOMAIN Blocks /\ s.mem.invalid \in SUBSET DOMAIN Blocks /\ s.mem.reset \in BOOLEAN
  BY <1>1 DEF MemType
<1> QED
  BY <1>1, <1>2, <1>3, <1>4

\* Memory that is to be read anew is good for any chain.
LEMMA ResetOK ==
  ASSUME NEW m, m.sound, m.reset, NEW c
  PROVE  WindowOK(m, c)
  BY DEF WindowOK

\* Another pool.
LEMMA PoolExact ==
  ASSUME NEW d \in DBType, NEW over, Exact(d, over), NEW p \in SUBSET DOMAIN Key, p \cap TxsOf(d.chain) = {},
         NEW n, n = [d EXCEPT !.pool = p]
  PROVE  n \in DBType /\ Exact(n, over) /\ n.chain = d.chain /\ n.pool = p
<1>1. n \in DBType /\ n.chain = d.chain /\ n.pool = p /\ n.txs = d.txs /\ n.keys = d.keys
  BY DEF DBType
<1> QED
  BY Zenon, <1>1 DEF Exact

\* Only transactions that a hard fork forbids are refused on their way back to the pool.
LEMMA ForbiddenOutdated ==
  ASSUME NEW m
  PROVE  Forbidden(m) \subseteq Outdated
  BY DEF Forbidden

\* Nothing else leaves the pool with a block that fails.
LEMMA ReturnedKeeps ==
  ASSUME NEW s, NEW b, NEW n, NEW d \in DBType, d.pool = s.db.pool, NEW over, Exact(d, over),
         NEW p, p = Returned(s, b, n)
  PROVE  p \in SUBSET DOMAIN Key /\ p \cap TxsOf(d.chain) = {} /\ s.db.pool \subseteq p \cup Outdated
<1>1. d.pool \in SUBSET DOMAIN Key
  BY DEF DBType
<1>2. d.pool \cap TxsOf(d.chain) = {}
  BY Zenon DEF Exact
<1>3. p \subseteq s.db.pool /\ s.db.pool \subseteq p \cup Forbidden(s.mem)
  BY Zenon DEF Returned
<1> QED
  BY Zenon, <1>1, <1>2, <1>3, ForbiddenOutdated

\* A popped block leaves a good state, with the window to be read anew.
LEMMA PopGood ==
  ASSUME NEW sure, NEW base, NEW s, Good(s, sure, base), Len(s.db.chain) > 1, NEW r, r = pop_block_from_blockchain(s)
  PROVE  Good(r, sure, base) /\ r.mem.reset /\ Len(r.db.chain) = Len(s.db.chain) - 1 /\ r.ok = s.ok
<1>1. s \in StateType
  BY DEF Good
<1>2. s.db \in DBType /\ s.mem \in MemType /\ s.left \in SUBSET Rows /\ s.ok \in BOOLEAN
  BY <1>1, StateFields
<1>0. PICK out : out = Forbidden(s.mem)
  BY Zenon
<1>3. PICK d : d = Popped(s.db, out)
  BY Zenon
<1>4. PICK m : m = [s.mem EXCEPT !.height = 0, !.reset = TRUE]
  BY Zenon
<1>5. r = [db |-> d, mem |-> m, left |-> s.left, ok |-> s.ok]
  <2>1. r = [s EXCEPT !.db = d, !.mem.height = 0, !.mem.reset = TRUE]
    BY Zenon, <1>0, <1>3 DEF pop_block_from_blockchain, Popped
  <2> QED
    BY <1>1, <1>2, <1>4, <2>1 DEF StateType, MemType
<1>6. r.db = d /\ r.mem = m /\ r.left = s.left /\ r.ok = s.ok
  BY <1>5
<1>7. m \in MemType /\ m.reset /\ m.sound = s.mem.sound
  BY <1>2, <1>4 DEF MemType
<1>8. PICK over \in SUBSET s.left : Exact(s.db, over)
  BY Zenon DEF Good
<1>9. /\ d \in DBType /\ Exact(d, over) /\ Len(d.chain) = Len(s.db.chain) - 1
      /\ TxsOf(s.db.chain) \cup s.db.pool \subseteq TxsOf(d.chain) \cup d.pool \cup out
  <2>1. over \in SUBSET Rows
    BY <1>2, <1>8
  <2> QED
    BY <1>2, <1>3, <1>8, <2>1, PopExact
<1>10. r \in StateType
  BY Zenon, <1>2, <1>5, <1>7, <1>9, IsState
<1>11. \A t \in sure \ (r.left \cup Outdated) : t \in TxsOf(r.db.chain) \cup r.db.pool
  BY Zenon, <1>0, <1>6, <1>9, ForbiddenOutdated DEF Good
<1>12. WindowOK(r.mem, r.db.chain)
  <2>1. s.mem.sound
    BY Zenon DEF Good, WindowOK
  <2> QED
    BY Zenon, <1>6, <1>7, <2>1, ResetOK
<1>13. \E o \in SUBSET r.left : Exact(r.db, o)
  BY Zenon, <1>6, <1>8, <1>9
<1> QED
  BY Zenon, <1>6, <1>7, <1>9, <1>10, <1>11, <1>12, <1>13 DEF Good

\* The chain is as it was or b longer, and the window is no more to be read anew than before.
GoesOn(s, r, b) ==
  /\ r.mem.reset = s.mem.reset
  /\ r.db.chain = s.db.chain \/ r.db.chain = Append(s.db.chain, b)

\* handle_block_to_main_chain leaves a good state, whether the block is added, refused, or
\* fails half way with rows left behind.
LEMMA HandleGood ==
  ASSUME NEW sure, NEW base, NEW s, Good(s, sure, base), NEW b \in DOMAIN Blocks, NEW r, r = handle_block_to_main_chain(s, b)
  PROVE  Good(r, sure, base) /\ GoesOn(s, r, b)
<1>1. s \in StateType
  BY DEF Good
<1>2. /\ s.db \in DBType /\ s.mem \in MemType /\ s.left \in SUBSET Rows /\ s.ok \in BOOLEAN
      /\ s.db.chain \in Chains /\ s.db.chain # <<>>
  BY <1>1, StateFields
<1>3. PICK over \in SUBSET s.left : Exact(s.db, over)
  BY Zenon DEF Good
<1>4. over \in SUBSET Rows
  BY <1>2, <1>3
<1>5. PICK m : m = get_difficulty_for_next_block(s.mem, s.db.chain)
  BY Zenon
<1>6. m \in MemType /\ WindowOK(m, s.db.chain) /\ m.reset = s.mem.reset
  <2>1. WindowOK(s.mem, s.db.chain)
    BY Zenon DEF Good
  <2>2. Prefix(s.db.chain, s.db.chain)
    BY <1>2, PrefixSame DEF Chains
  <2> QED
    BY <1>2, <1>5, <2>1, <2>2, WindowKept
<1>7. PICK added : added = add_block(s.db, b)
  BY Zenon
<1>8. CASE Refused(s.db, b) # {}
  <2>1. PICK n, p :
          /\ n \in SUBSET DOMAIN Blocks
          /\ p = Returned(s, b, Min(Refused(s.db, b)))
          /\ r = [s EXCEPT !.ok = FALSE, !.db = [@ EXCEPT !.pool = p], !.mem = [m EXCEPT !.invalid = @ \cup n]]
    <3>1. PICK n : n = IF WrongInputs(s.db, Blocks[b].txs[Min(Refused(s.db, b))]) THEN {b} ELSE {}
      BY Zenon
    <3>2. n \in SUBSET DOMAIN Blocks
      BY <3>1
    <3>3. PICK p : p = Returned(s, b, Min(Refused(s.db, b)))
      BY Zenon
    <3>4. r = [s EXCEPT !.ok = FALSE, !.db = [@ EXCEPT !.pool = p], !.mem = [m EXCEPT !.invalid = @ \cup n]]
      BY Zenon, <1>5, <1>8, <3>1, <3>3 DEF handle_block_to_main_chain
    <3> QED
      BY Zenon, <3>2, <3>3, <3>4
  <2>2. PICK k : k = [m EXCEPT !.invalid = @ \cup n]
    BY Zenon
  <2>3. /\ k \in MemType /\ k.reset = m.reset /\ k.sound = m.sound /\ k.height = m.height /\ k.window = m.window
    <3>1. n \in SUBSET DOMAIN Blocks
      BY Zenon, <2>1
    <3> QED
      BY <1>6, <2>2, <3>1 DEF MemType
  <2>5. PICK x : x = s.db
    BY Zenon
  <2>4. p \in SUBSET DOMAIN Key /\ p \cap TxsOf(s.db.chain) = {} /\ s.db.pool \subseteq p \cup Outdated
    <3>1. x \in DBType /\ x.pool = s.db.pool /\ Exact(x, over)
      BY Zenon, <1>2, <1>3, <2>5
    <3>2. p \in SUBSET DOMAIN Key /\ p \cap TxsOf(x.chain) = {} /\ s.db.pool \subseteq p \cup Outdated
      BY <2>1, <3>1, ReturnedKeeps
    <3> QED
      BY Zenon, <2>5, <3>2
  <2>6. PICK d : d = [x EXCEPT !.pool = p]
    BY Zenon
  <2>7. d \in DBType /\ Exact(d, over) /\ d.chain = x.chain /\ d.pool = p
    <3>1. x \in DBType /\ Exact(x, over) /\ p \cap TxsOf(x.chain) = {}
      BY Zenon, <1>2, <1>3, <2>4, <2>5
    <3>2. p \in SUBSET DOMAIN Key
      BY Zenon, <2>4
    <3> QED
      BY <2>6, <3>1, <3>2, PoolExact
  <2>8. r = [db |-> d, mem |-> k, left |-> s.left, ok |-> FALSE]
    <3>1. r = [s EXCEPT !.ok = FALSE, !.db = [@ EXCEPT !.pool = p], !.mem = k]
      BY Zenon, <2>1, <2>2
    <3>2. [s EXCEPT !.ok = FALSE, !.db = [@ EXCEPT !.pool = p], !.mem = k] = [s EXCEPT !.ok = FALSE, !.db = d, !.mem = k]
      BY <1>1, <2>5, <2>6 DEF StateType
    <3> QED
      BY <1>1, <3>1, <3>2 DEF StateType
  <2>9. r.db = d /\ r.mem = k /\ r.left = s.left /\ r.ok = FALSE
    BY <2>8
  <2>10. r \in StateType
    BY Zenon, <1>2, <2>3, <2>7, <2>8, IsState
  <2>11. r.db.chain = s.db.chain
    BY Zenon, <2>5, <2>7, <2>9
  <2>12. WindowOK(r.mem, r.db.chain)
    BY Zenon, <1>6, <2>3, <2>9, <2>11 DEF WindowOK
  <2>13. \A t \in sure \ (r.left \cup Outdated) : t \in TxsOf(r.db.chain) \cup r.db.pool
    BY Zenon, <2>4, <2>7, <2>9, <2>11 DEF Good
  <2>14. \E o \in SUBSET r.left : Exact(r.db, o)
    BY Zenon, <1>3, <2>7, <2>9
  <2> QED
    BY Zenon, <1>6, <2>3, <2>9, <2>10, <2>11, <2>12, <2>13, <2>14 DEF Good, GoesOn
<1>9. CASE Refused(s.db, b) = {} /\ added.whole
  <2>1. PICK d : d = Added(s.db, b)
    BY Zenon
  <2>0. PICK w : w = get_difficulty_for_next_block(m, added.db.chain)
    BY Zenon
  <2>2. PICK k : k = [w EXCEPT !.forked = @ \/ Len(added.db.chain) >= ForkHeight]
    BY Zenon
  <2>3. r = [s EXCEPT !.db = d, !.mem = k]
    BY Zenon, <1>5, <1>7, <1>9, <2>0, <2>1, <2>2 DEF handle_block_to_main_chain, Added
  <2>4. /\ d \in DBType /\ Exact(d, over) /\ d.chain = Append(s.db.chain, b) /\ added.db.chain = Append(s.db.chain, b)
        /\ TxsOf(d.chain) \cup d.pool = TxsOf(s.db.chain) \cup s.db.pool
    <3>1. Refused(s.db, b) = {} /\ add_block(s.db, b).whole
      BY Zenon, <1>7, <1>9
    <3>2. /\ d \in DBType /\ Exact(d, over) /\ d.chain = Append(s.db.chain, b)
          /\ add_block(s.db, b).db.chain = Append(s.db.chain, b)
          /\ TxsOf(d.chain) \cup d.pool = TxsOf(s.db.chain) \cup s.db.pool
      BY Zenon, <1>2, <1>3, <1>4, <2>1, <3>1, AddExact
    <3> QED
      BY Zenon, <1>7, <3>2
  <2>5. PICK c : c = Append(s.db.chain, b)
    BY Zenon
  <2>6. c \in Chains /\ c # <<>> /\ Prefix(s.db.chain, c) /\ Prefix(c, c)
    <3>1. s.db.chain \in Seq(DOMAIN Blocks) /\ c \in Seq(DOMAIN Blocks) /\ c # <<>>
      BY <1>2, <2>5 DEF Chains
    <3>2. Prefix(s.db.chain, s.db.chain) /\ Prefix(c, c)
      BY <3>1, PrefixSame
    <3>3. Prefix(s.db.chain, c)
      BY Zenon, <2>5, <3>1, <3>2, PrefixAppend
    <3> QED
      BY <3>1, <3>2, <3>3 DEF Chains
  <2>7. WindowOK(m, c)
    <3> SUFFICES ASSUME ~m.reset, m.height # 0
                 PROVE  m.height \in 1..Len(c) /\ m.window = LastOf(Tail(SubSeq(c, 1, m.height)), BlocksCount)
      BY Zenon, <1>6 DEF WindowOK
    <3>1. m.height \in 1..Len(s.db.chain) /\ m.window = LastOf(Tail(SubSeq(s.db.chain, 1, m.height)), BlocksCount)
      BY Zenon, <1>6 DEF WindowOK
    <3>2. PICK h \in 1..Len(s.db.chain) : h = m.height
      BY Zenon, <3>1
    <3>3. s.db.chain \in Seq(DOMAIN Blocks) /\ c \in Seq(DOMAIN Blocks) /\ Prefix(s.db.chain, c)
      BY <1>2, <2>6 DEF Chains
    <3>4. SubSeq(s.db.chain, 1, h) = SubSeq(c, 1, h) /\ h \in 1..Len(c)
      BY <3>3, PrefixCut
    <3> QED
      BY Zenon, <3>1, <3>2, <3>4
  <2>8. k \in MemType /\ WindowOK(k, c) /\ k.reset = m.reset
    <3>1. w = get_difficulty_for_next_block(m, c)
      BY Zenon, <2>0, <2>4, <2>5
    <3>2. w \in MemType /\ WindowOK(w, c) /\ w.reset = m.reset
      BY <1>6, <2>6, <2>7, <3>1, WindowKept
    <3>3. PICK z \in BOOLEAN : z = (w.forked \/ Len(added.db.chain) >= ForkHeight)
      BY Zenon
    <3>4. k = [w EXCEPT !.forked = z]
      BY Zenon, <2>2, <3>3
    <3>5. k \in MemType /\ k.reset = w.reset /\ k.sound = w.sound /\ k.height = w.height /\ k.window = w.window
      BY <3>2, <3>4 DEF MemType
    <3> QED
      BY Zenon, <3>2, <3>5 DEF WindowOK
  <2>9. r = [db |-> d, mem |-> k, left |-> s.left, ok |-> s.ok]
    BY <1>1, <2>3 DEF StateType
  <2>10. r.db = d /\ r.mem = k /\ r.left = s.left /\ r.ok = s.ok
    BY <2>9
  <2>11. r \in StateType
    BY Zenon, <1>2, <2>4, <2>8, <2>9, IsState
  <2>12. \A t \in sure \ (r.left \cup Outdated) : t \in TxsOf(r.db.chain) \cup r.db.pool
    BY Zenon, <2>4, <2>10 DEF Good
  <2>13. \E o \in SUBSET r.left : Exact(r.db, o)
    BY Zenon, <1>3, <2>4, <2>10
  <2>14. WindowOK(r.mem, r.db.chain)
    BY Zenon, <2>4, <2>5, <2>8, <2>10
  <2>15. r.mem.reset = s.mem.reset /\ r.db.chain = Append(s.db.chain, b)
    BY Zenon, <1>6, <2>4, <2>8, <2>10
  <2> QED
    BY Zenon, <2>10, <2>11, <2>12, <2>13, <2>14, <2>15 DEF Good, GoesOn
<1>10. CASE Refused(s.db, b) = {} /\ ~added.whole
  <2>1. PICK e : e = added.db
    BY Zenon
  <2>2. PICK p : p = Returned(s, b, Len(Blocks[b].txs))
    BY Zenon
  <2>3. PICK d : d = [e EXCEPT !.pool = p]
    BY Zenon
  <2>4. PICK l : l = s.left \cup (e.txs \ s.db.txs)
    BY Zenon
  <2>5. r = [s EXCEPT !.ok = FALSE, !.db = d, !.mem = m, !.left = @ \cup (e.txs \ s.db.txs)]
    BY Zenon, <1>5, <1>7, <1>10, <2>1, <2>2, <2>3 DEF handle_block_to_main_chain
  <2>0. PICK more : more = over \cup (e.txs \ s.db.txs)
    BY Zenon
  <2>6. e \in DBType /\ e.chain = s.db.chain /\ e.pool = s.db.pool /\ Exact(e, more)
    <3>1. Refused(s.db, b) = {} /\ ~add_block(s.db, b).whole /\ e = add_block(s.db, b).db
      BY Zenon, <1>7, <1>10, <2>1
    <3>2. PICK x : x = s.db
      BY Zenon
    <3>3. x \in DBType /\ Exact(x, over)
      BY Zenon, <1>2, <1>3, <3>2
    <3>4. Refused(x, b) = {} /\ ~add_block(x, b).whole /\ e = add_block(x, b).db
      BY Zenon, <3>1, <3>2
    <3>5. more = over \cup (e.txs \ x.txs)
      BY Zenon, <2>0, <3>2
    <3>6. e \in DBType /\ e.chain = x.chain /\ e.pool = x.pool /\ Exact(e, more)
      BY <1>4, <3>3, <3>4, <3>5, PartExact
    <3> QED
      BY Zenon, <3>2, <3>6
  <2>7. p \in SUBSET DOMAIN Key /\ p \cap TxsOf(e.chain) = {} /\ s.db.pool \subseteq p \cup Outdated
    BY <2>2, <2>6, ReturnedKeeps
  <2>8. d \in DBType /\ Exact(d, more) /\ d.chain = e.chain /\ d.pool = p
    BY <2>3, <2>6, <2>7, PoolExact
  <2>9. l \in SUBSET Rows
    BY <1>2, <2>4, <2>6 DEF DBType
  <2>10. r = [db |-> d, mem |-> m, left |-> l, ok |-> FALSE]
    BY <1>1, <2>4, <2>5 DEF StateType
  <2>11. r.db = d /\ r.mem = m /\ r.left = l /\ r.ok = FALSE
    BY <2>10
  <2>12. r \in StateType
    BY Zenon, <1>6, <2>8, <2>9, <2>10, IsState
  <2>13. r.db.chain = s.db.chain
    BY Zenon, <2>6, <2>8, <2>11
  <2>14. \A t \in sure \ (r.left \cup Outdated) : t \in TxsOf(r.db.chain) \cup r.db.pool
    BY Zenon, <2>4, <2>7, <2>8, <2>11, <2>13 DEF Good
  <2>15. more \in SUBSET l
    BY Zenon, <1>3, <2>0, <2>4
  <2>16. \E o \in SUBSET r.left : Exact(r.db, o)
    BY Zenon, <2>8, <2>11, <2>15
  <2>17. WindowOK(r.mem, r.db.chain)
    BY Zenon, <1>6, <2>11, <2>13
  <2>18. base \subseteq r.left
    BY Zenon, <2>4, <2>11 DEF Good
  <2> QED
    BY Zenon, <1>6, <2>11, <2>12, <2>13, <2>14, <2>16, <2>17, <2>18 DEF Good, GoesOn
<1> QED
  BY Zenon, <1>8, <1>9, <1>10

-----------------------------------------------------------------------------
(* The loops *)

\* The states a loop that leaves the window to be read anew goes through, with a chain of
\* low blocks or more.
Stages(sure, base, low) == {x \in StateType : Good(x, sure, base) /\ x.mem.reset /\ Len(x.db.chain) >= low}

\* The three bodies of loops, applied to an evaluated state, are the plain ones.
LEMMA LetPop ==
  ASSUME NEW s
  PROVE  Let(s, pop_block_from_blockchain) = pop_block_from_blockchain(s)
  BY Zenon DEF Let

LEMMA LetConnect ==
  ASSUME NEW s, NEW b
  PROVE  Let(s, LAMBDA r : ConnectOne(r, b)) = ConnectOne(s, b)
  BY Zenon DEF Let

LEMMA LetExtended ==
  ASSUME NEW m, NEW path
  PROVE  Let(path, LAMBDA p : Extended(m, p)) = Extended(m, path)
  BY Zenon DEF Let

\* What the recursive definitions of the loops ask for.
PopRun(s, k, f) == f = [n \in 0..k |-> IF n = 0 THEN s ELSE Let(f[n - 1], pop_block_from_blockchain)]

ConnectRun(s, chain, k, f) ==
  f = [n \in 0..k |-> IF n = 0 THEN s ELSE Let(f[n - 1], LAMBDA r : ConnectOne(r, chain[n]))]

AltPathRun(m, b, k, f) ==
  f = [n \in 0..k |-> IF n = 0 THEN <<b>> ELSE Let(f[n - 1], LAMBDA path : Extended(m, path))]

\* What they yield, once there is such a function.
LEMMA PopToLoop ==
  ASSUME NEW s, NEW height, NEW k, k = Len(s.db.chain) - height, NEW f, PopRun(s, k, f)
  PROVE  \E g : PopRun(s, k, g) /\ PopTo(s, height) = g[k]
  BY Zenon DEF PopTo, PopRun

\* Connect is the last value of a run.
LEMMA ConnectLoop ==
  ASSUME NEW s, NEW chain, NEW k, k = Len(chain), NEW f, ConnectRun(s, chain, k, f)
  PROVE  \E g : ConnectRun(s, chain, k, g) /\ Connect(s, chain) = g[k]
  BY Zenon DEF Connect, ConnectRun

\* AltPath is the last value of a run.
LEMMA AltPathLoop ==
  ASSUME NEW m, NEW b, NEW k, k = Cardinality(m.alt), NEW f, AltPathRun(m, b, k, f)
  PROVE  \E g : AltPathRun(m, b, k, g) /\ AltPath(m, b) = g[k]
  BY Zenon DEF AltPath, AltPathRun

\* Such a function goes step by step.
PopSteps(s, k, f) == f[0] = s /\ \A n \in 1..k : f[n] = pop_block_from_blockchain(f[n - 1])

ConnectSteps(s, chain, k, f) == f[0] = s /\ \A n \in 1..k : f[n] = ConnectOne(f[n - 1], chain[n])

AltPathSteps(m, b, k, f) == f[0] = <<b>> /\ \A n \in 1..k : f[n] = Extended(m, f[n - 1])

\* The runs, round by round.
LEMMA PopRunSteps ==
  ASSUME NEW s, NEW k \in Nat, NEW f, PopRun(s, k, f)
  PROVE  PopSteps(s, k, f)
<1>1. 0 \in 0..k /\ \A n \in 1..k : n \in 0..k /\ n # 0
  OBVIOUS
<1>2. \A n \in 0..k : f[n] = IF n = 0 THEN s ELSE Let(f[n - 1], pop_block_from_blockchain)
  BY Zenon DEF PopRun
<1> QED
  BY Zenon, <1>1, <1>2, LetPop DEF PopSteps

LEMMA ConnectRunSteps ==
  ASSUME NEW s, NEW chain, NEW k \in Nat, NEW f, ConnectRun(s, chain, k, f)
  PROVE  ConnectSteps(s, chain, k, f)
<1>1. 0 \in 0..k /\ \A n \in 1..k : n \in 0..k /\ n # 0
  OBVIOUS
<1>2. \A n \in 0..k : f[n] = IF n = 0 THEN s ELSE Let(f[n - 1], LAMBDA r : ConnectOne(r, chain[n]))
  BY Zenon DEF ConnectRun
<1> QED
  BY Zenon, <1>1, <1>2, LetConnect DEF ConnectSteps

LEMMA AltPathRunSteps ==
  ASSUME NEW m, NEW b, NEW k \in Nat, NEW f, AltPathRun(m, b, k, f)
  PROVE  AltPathSteps(m, b, k, f)
<1>1. 0 \in 0..k /\ \A n \in 1..k : n \in 0..k /\ n # 0
  OBVIOUS
<1>2. \A n \in 0..k : f[n] = IF n = 0 THEN <<b>> ELSE Let(f[n - 1], LAMBDA path : Extended(m, path))
  BY Zenon DEF AltPathRun
<1> QED
  BY Zenon, <1>1, <1>2, LetExtended DEF AltPathSteps

\* Popping down to a height keeps every state in between good.
LEMMA PopToGood ==
  ASSUME NEW sure, NEW base, NEW s, Good(s, sure, base), s.mem.reset, NEW height \in 1..Len(s.db.chain),
         NEW r, r = PopTo(s, height)
  PROVE  Good(r, sure, base) /\ r.mem.reset /\ Len(r.db.chain) = height /\ r.ok = s.ok
<1>0. s \in StateType /\ Len(s.db.chain) \in Nat
  BY StateFields DEF Good
<1>1. PICK l \in Nat : l = Len(s.db.chain)
  BY Zenon, <1>0
<1>2. PICK k \in Nat : k = l - height
  <2>1. l - height \in Nat
    BY <1>1
  <2> QED
    BY Zenon, <2>1
<1>3. height \in 1..l /\ l - k = height
  BY <1>1, <1>2
<1> DEFINE S == Stages(sure, base, 1)
           F == [p \in (1..k) \X S |-> IF Len(p[2].db.chain) > 1 THEN pop_block_from_blockchain(p[2]) ELSE p[2]]
<1>4. ASSUME NEW x \in S, Len(x.db.chain) > 1
      PROVE  /\ pop_block_from_blockchain(x) \in S
             /\ Len(pop_block_from_blockchain(x).db.chain) = Len(x.db.chain) - 1
             /\ pop_block_from_blockchain(x).ok = x.ok
  <2>1. PICK y : y = pop_block_from_blockchain(x)
    BY Zenon
  <2>2. Good(x, sure, base) /\ x \in StateType
    BY Zenon DEF Stages
  <2>3. Good(y, sure, base) /\ y.mem.reset /\ Len(y.db.chain) = Len(x.db.chain) - 1 /\ y.ok = x.ok
    BY <1>4, <2>1, <2>2, PopGood
  <2>4. y \in StateType /\ Len(y.db.chain) >= 1
    BY <2>3, StateFields DEF Good
  <2> QED
    BY Zenon, <2>1, <2>3, <2>4 DEF Stages
<1>5. F \in [(1..k) \X S -> S]
  <2> HIDE DEF S
  <2>1. \A p \in (1..k) \X S : p[2] \in S
    OBVIOUS
  <2>2. \A p \in (1..k) \X S : (IF Len(p[2].db.chain) > 1 THEN pop_block_from_blockchain(p[2]) ELSE p[2]) \in S
    BY Zenon, <1>4, <2>1
  <2> QED
    BY Zenon, <2>2
<1>6. s \in S
  BY <1>0, StateFields DEF Stages
<1>7. \A n \in 1..k, x \in S : F[<<n, x>>] = IF Len(x.db.chain) > 1 THEN pop_block_from_blockchain(x) ELSE x
  <2> HIDE DEF S
  <2> SUFFICES ASSUME NEW n \in 1..k, NEW x \in S
               PROVE  F[<<n, x>>] = IF Len(x.db.chain) > 1 THEN pop_block_from_blockchain(x) ELSE x
    BY Zenon
  <2>1. <<n, x>> \in (1..k) \X S /\ <<n, x>>[2] = x
    OBVIOUS
  <2> QED
    BY Zenon, <2>1
<1> HIDE DEF S, F
<1>8. PICK f \in [0..k -> S] : f[0] = s /\ \A n \in 1..k : f[n] = F[<<n, f[n - 1]>>]
  <2>1. \E f \in [0..k -> S] : Steps(F, s, k, f)
    BY Zenon, <1>5, <1>6, Iterates
  <2> QED
    BY Zenon, <2>1 DEF Steps
<1> DEFINE T == {n \in 0..k : Len(f[n].db.chain) = l - n /\ f[n].ok = s.ok}
<1>9. \A n \in 1..k : n - 1 \in T => f[n] = pop_block_from_blockchain(f[n - 1]) /\ n \in T
  <2> SUFFICES ASSUME NEW n \in 1..k, n - 1 \in T
               PROVE  f[n] = pop_block_from_blockchain(f[n - 1]) /\ n \in T
    BY Zenon
  <2>1. PICK x \in S : x = f[n - 1]
    <3>1. n - 1 \in 0..k
      OBVIOUS
    <3> QED
      BY Zenon, <3>1, <1>8
  <2>2. Len(x.db.chain) = l - (n - 1) /\ x.ok = s.ok
    BY Zenon, <2>1
  <2>3. Len(x.db.chain) > 1
    BY <1>3, <2>2
  <2>4. f[n] = F[<<n, x>>]
    BY Zenon, <1>8, <2>1
  <2>5. f[n] = pop_block_from_blockchain(x)
    BY Zenon, <1>7, <2>3, <2>4
  <2>6. Len(f[n].db.chain) = Len(x.db.chain) - 1 /\ f[n].ok = x.ok
    BY Zenon, <1>4, <2>3, <2>5
  <2>7. Len(f[n].db.chain) = l - n /\ n \in 0..k
    BY <2>2, <2>6
  <2> QED
    BY Zenon, <2>1, <2>2, <2>5, <2>6, <2>7
<1>10. 0 \in T
  BY <1>1, <1>8
<1>11. \A n \in 0..k : n \in T
  <2> HIDE DEF T
  <2> QED
    BY <1>9, <1>10, AllUpTo
<1>12. PopRun(s, k, f)
  <2> HIDE DEF T
  <2>1. \A n \in 1..k : f[n] = Let(f[n - 1], pop_block_from_blockchain)
    <3> SUFFICES ASSUME NEW n \in 1..k
                 PROVE  f[n] = Let(f[n - 1], pop_block_from_blockchain)
      BY Zenon
    <3>1. n - 1 \in 0..k
      OBVIOUS
    <3>2. f[n] = pop_block_from_blockchain(f[n - 1])
      BY Zenon, <1>9, <1>11, <3>1
    <3> QED
      BY Zenon, <3>2, LetPop
  <2>2. \A n \in 0..k : n = 0 \/ n \in 1..k
    OBVIOUS
  <2>3. \A n \in 0..k : f[n] = IF n = 0 THEN s ELSE Let(f[n - 1], pop_block_from_blockchain)
    BY Zenon, <1>8, <2>1, <2>2
  <2> QED
    BY Zenon, <2>3 DEF PopRun
<1>13. PICK g : PopRun(s, k, g) /\ r = g[k]
  <2>1. k = Len(s.db.chain) - height
    BY Zenon, <1>1, <1>2
  <2> QED
    BY Zenon, <1>12, <2>1, PopToLoop
<1>14. \A n \in 0..k : g[n] = f[n]
  <2> DEFINE U == {n \in 0..k : g[n] = f[n]}
  <2>1. PopSteps(s, k, g)
    BY Zenon, <1>13, PopRunSteps
  <2>2. PopSteps(s, k, f)
    BY Zenon, <1>12, PopRunSteps
  <2>3. 0 \in U
    BY <2>1, <2>2 DEF PopSteps
  <2>4. ASSUME NEW n \in 1..k, n - 1 \in U
        PROVE  n \in U
    <3>1. n \in 0..k
      OBVIOUS
    <3> QED
      BY Zenon, <2>1, <2>2, <2>4, <3>1 DEF PopSteps
  <2> HIDE DEF U
  <2>5. \A n \in 0..k : n \in U
    BY <2>3, <2>4, AllUpTo
  <2> QED
    BY Zenon, <2>5 DEF U
<1>15. k \in 0..k
  OBVIOUS
<1>16. r = f[k] /\ f[k] \in S /\ k \in T
  BY Zenon, <1>8, <1>11, <1>13, <1>14, <1>15
<1>17. Len(r.db.chain) = height /\ r.ok = s.ok
  BY <1>3, <1>16
<1> QED
  BY Zenon, <1>16, <1>17 DEF S, Stages

\* One block of a chain that is connected.
LEMMA ConnectOneGood ==
  ASSUME NEW sure, NEW base, NEW low \in Nat, NEW x \in Stages(sure, base, low), NEW b \in DOMAIN Blocks
  PROVE  ConnectOne(x, b) \in Stages(sure, base, low)
<1>1. x \in StateType /\ Good(x, sure, base) /\ x.mem.reset /\ Len(x.db.chain) >= low
  BY Zenon DEF Stages
<1>2. CASE x.ok
  <2>1. PICK y : y = handle_block_to_main_chain(x, b)
    BY Zenon
  <2>0. Good(y, sure, base) /\ GoesOn(x, y, b)
    BY Zenon, <1>1, <2>1, HandleGood
  <2>2. Good(y, sure, base) /\ y.mem.reset = x.mem.reset /\ (y.db.chain = x.db.chain \/ y.db.chain = Append(x.db.chain, b))
    BY Zenon, <2>0 DEF GoesOn
  <2>3. x.db.chain \in Seq(DOMAIN Blocks)
    BY <1>1, StateFields DEF Chains
  <2>4. Len(Append(x.db.chain, b)) = Len(x.db.chain) + 1 /\ Len(x.db.chain) \in Nat
    BY <2>3
  <2>5. Len(y.db.chain) >= low
    BY <1>1, <2>2, <2>4
  <2>6. y \in Stages(sure, base, low)
    BY Zenon, <1>1, <2>2, <2>5 DEF Stages, Good
  <2> QED
    BY Zenon, <1>2, <2>1, <2>6 DEF ConnectOne
<1>3. CASE ~x.ok
  BY Zenon, <1>3 DEF ConnectOne
<1> QED
  BY <1>2, <1>3

\* A chain connected block by block, up to the first that fails, leaves a good state.
LEMMA ConnectGood ==
  ASSUME NEW sure, NEW base, NEW s, Good(s, sure, base), s.mem.reset, NEW chain \in Chains, NEW r, r = Connect(s, chain)
  PROVE  Good(r, sure, base) /\ r.mem.reset /\ Len(r.db.chain) >= Len(s.db.chain)
<1>0. s \in StateType /\ Len(s.db.chain) \in Nat
  BY StateFields DEF Good
<1>1. PICK k \in Nat : k = Len(chain)
  BY DEF Chains
<1>2. \A n \in 1..k : chain[n] \in DOMAIN Blocks
  BY <1>1 DEF Chains
<1>3. PICK low \in Nat : low = Len(s.db.chain)
  BY Zenon, <1>0
<1> DEFINE S == Stages(sure, base, low)
           F == [p \in (1..k) \X S |-> ConnectOne(p[2], chain[p[1]])]
<1>4. s \in S
  <2>1. Len(s.db.chain) >= low
    BY <1>3
  <2> QED
    BY Zenon, <1>0, <2>1 DEF Stages
<1>5. \A n \in 1..k, x \in S : ConnectOne(x, chain[n]) \in S
  BY <1>2, ConnectOneGood
<1> HIDE DEF S
<1>6. F \in [(1..k) \X S -> S]
  <2>1. \A p \in (1..k) \X S : p[1] \in 1..k /\ p[2] \in S
    OBVIOUS
  <2>2. \A p \in (1..k) \X S : ConnectOne(p[2], chain[p[1]]) \in S
    BY Zenon, <1>5, <2>1
  <2> QED
    BY Zenon, <2>2
<1>7. \A n \in 1..k, x \in S : F[<<n, x>>] = ConnectOne(x, chain[n])
  <2> SUFFICES ASSUME NEW n \in 1..k, NEW x \in S
               PROVE  F[<<n, x>>] = ConnectOne(x, chain[n])
    BY Zenon
  <2>1. <<n, x>> \in (1..k) \X S /\ <<n, x>>[1] = n /\ <<n, x>>[2] = x
    OBVIOUS
  <2> QED
    BY Zenon, <2>1
<1> HIDE DEF F
<1>8. PICK f \in [0..k -> S] : f[0] = s /\ \A n \in 1..k : f[n] = F[<<n, f[n - 1]>>]
  <2>1. \E f \in [0..k -> S] : Steps(F, s, k, f)
    BY Zenon, <1>4, <1>6, Iterates
  <2> QED
    BY Zenon, <2>1 DEF Steps
<1>9. ConnectRun(s, chain, k, f)
  <2>1. \A n \in 1..k : f[n] = Let(f[n - 1], LAMBDA x : ConnectOne(x, chain[n]))
    <3> SUFFICES ASSUME NEW n \in 1..k
                 PROVE  f[n] = Let(f[n - 1], LAMBDA x : ConnectOne(x, chain[n]))
      BY Zenon
    <3>1. n - 1 \in 0..k
      OBVIOUS
    <3>2. f[n - 1] \in S
      BY Zenon, <1>8, <3>1
    <3>3. f[n] = ConnectOne(f[n - 1], chain[n])
      BY Zenon, <1>7, <1>8, <3>2
    <3> QED
      BY Zenon, <3>3, LetConnect
  <2>2. \A n \in 0..k : n = 0 \/ n \in 1..k
    OBVIOUS
  <2>3. \A n \in 0..k : f[n] = IF n = 0 THEN s ELSE Let(f[n - 1], LAMBDA x : ConnectOne(x, chain[n]))
    BY Zenon, <1>8, <2>1, <2>2
  <2> QED
    BY Zenon, <2>3 DEF ConnectRun
<1>10. PICK g : ConnectRun(s, chain, k, g) /\ r = g[k]
  BY Zenon, <1>1, <1>9, ConnectLoop
<1>11. \A n \in 0..k : g[n] \in S
  <2> DEFINE U == {n \in 0..k : g[n] \in S}
  <2>1. ConnectSteps(s, chain, k, g)
    BY Zenon, <1>10, ConnectRunSteps
  <2>2. 0 \in U
    BY <1>4, <2>1 DEF ConnectSteps
  <2>3. ASSUME NEW n \in 1..k, n - 1 \in U
        PROVE  n \in U
    <3>1. n \in 0..k
      OBVIOUS
    <3> QED
      BY Zenon, <1>5, <2>1, <2>3, <3>1 DEF ConnectSteps
  <2> HIDE DEF U
  <2>4. \A n \in 0..k : n \in U
    BY <2>2, <2>3, AllUpTo
  <2> QED
    BY Zenon, <2>4 DEF U
<1>12. k \in 0..k
  OBVIOUS
<1>13. r \in S
  BY Zenon, <1>10, <1>11, <1>12
<1> QED
  BY Zenon, <1>3, <1>13 DEF S, Stages

\* The path of an alternative block is a chain that ends in the block.
LEMMA AltPathGood ==
  ASSUME NEW m \in MemType, NEW b \in DOMAIN Blocks
  PROVE  AltPath(m, b) \in Chains /\ AltPath(m, b) # <<>>
<1>1. m.alt \in SUBSET DOMAIN Blocks
  BY DEF MemType
<1>2. Cardinality(m.alt) \in Nat
  BY <1>1, DataAssumption, FS_Subset, FS_CardinalityType
<1>3. PICK k \in Nat : k = Cardinality(m.alt)
  BY Zenon, <1>2
<1> DEFINE S == Chains \ {<<>>}
           F == [p \in (1..k) \X S |-> Extended(m, p[2])]
<1>4. <<b>> \in S
  BY DEF Chains
<1>5. \A x \in S : Extended(m, x) \in S
  <2> SUFFICES ASSUME NEW x \in S
               PROVE  Extended(m, x) \in S
    BY Zenon
  <2>1. CASE Blocks[Head(x)].prev \in m.alt
    <3>1. PICK p \in DOMAIN Blocks : p = Blocks[Head(x)].prev
      BY Zenon, <1>1, <2>1
    <3>2. Extended(m, x) = <<p>> \o x
      BY Zenon, <2>1, <3>1 DEF Extended
    <3>3. <<p>> \o x \in Seq(DOMAIN Blocks) /\ <<p>> \o x # <<>>
      BY DEF Chains
    <3> QED
      BY <3>2, <3>3 DEF Chains
  <2>2. CASE Blocks[Head(x)].prev \notin m.alt
    BY Zenon, <2>2 DEF Extended
  <2> QED
    BY <2>1, <2>2
<1> HIDE DEF S
<1>6. F \in [(1..k) \X S -> S]
  <2>1. \A p \in (1..k) \X S : p[2] \in S
    OBVIOUS
  <2> QED
    BY Zenon, <1>5, <2>1
<1>7. \A n \in 1..k, x \in S : F[<<n, x>>] = Extended(m, x)
  <2> SUFFICES ASSUME NEW n \in 1..k, NEW x \in S
               PROVE  F[<<n, x>>] = Extended(m, x)
    BY Zenon
  <2>1. <<n, x>> \in (1..k) \X S /\ <<n, x>>[2] = x
    OBVIOUS
  <2> QED
    BY Zenon, <2>1
<1> HIDE DEF F
<1>8. PICK f \in [0..k -> S] : f[0] = <<b>> /\ \A n \in 1..k : f[n] = F[<<n, f[n - 1]>>]
  <2>1. \E f \in [0..k -> S] : Steps(F, <<b>>, k, f)
    BY Zenon, <1>4, <1>6, Iterates
  <2> QED
    BY Zenon, <2>1 DEF Steps
<1>9. AltPathRun(m, b, k, f)
  <2>1. \A n \in 1..k : f[n] = Let(f[n - 1], LAMBDA path : Extended(m, path))
    <3> SUFFICES ASSUME NEW n \in 1..k
                 PROVE  f[n] = Let(f[n - 1], LAMBDA path : Extended(m, path))
      BY Zenon
    <3>1. n - 1 \in 0..k
      OBVIOUS
    <3>2. f[n - 1] \in S
      BY Zenon, <1>8, <3>1
    <3>3. f[n] = Extended(m, f[n - 1])
      BY Zenon, <1>7, <1>8, <3>2
    <3> QED
      BY Zenon, <3>3, LetExtended
  <2>2. \A n \in 0..k : n = 0 \/ n \in 1..k
    OBVIOUS
  <2>3. \A n \in 0..k : f[n] = IF n = 0 THEN <<b>> ELSE Let(f[n - 1], LAMBDA path : Extended(m, path))
    BY Zenon, <1>8, <2>1, <2>2
  <2> QED
    BY Zenon, <2>3 DEF AltPathRun
<1>10. PICK g : AltPathRun(m, b, k, g) /\ AltPath(m, b) = g[k]
  BY Zenon, <1>3, <1>9, AltPathLoop
<1>11. \A n \in 0..k : g[n] \in S
  <2> DEFINE U == {n \in 0..k : g[n] \in S}
  <2>1. AltPathSteps(m, b, k, g)
    BY Zenon, <1>10, AltPathRunSteps
  <2>2. 0 \in U
    BY <1>4, <2>1 DEF AltPathSteps
  <2>3. ASSUME NEW n \in 1..k, n - 1 \in U
        PROVE  n \in U
    <3>1. n \in 0..k
      OBVIOUS
    <3> QED
      BY Zenon, <1>5, <2>1, <2>3, <3>1 DEF AltPathSteps
  <2> HIDE DEF U
  <2>4. \A n \in 0..k : n \in U
    BY <2>2, <2>3, AllUpTo
  <2> QED
    BY Zenon, <2>4 DEF U
<1>12. k \in 0..k
  OBVIOUS
<1> QED
  BY Zenon, <1>10, <1>11, <1>12 DEF S

\* A path that leaves the main chain at a block leaves it at some height.
LEMMA SplitGood ==
  ASSUME NEW s \in StateType, NEW path, Blocks[Head(path)].prev \in Range(s.db.chain)
  PROVE  SplitHeight(s, path) \in 1..Len(s.db.chain)
<1>1. s.db.chain \in Seq(DOMAIN Blocks) /\ Len(s.db.chain) \in Nat
  BY StateFields DEF Chains
<1>2. PICK l \in Nat : l = Len(s.db.chain)
  BY Zenon, <1>1
<1>3. DOMAIN s.db.chain = 1..l
  BY <1>1, <1>2
<1>4. PICK H : H = {i \in DOMAIN s.db.chain : s.db.chain[i] = Blocks[Head(path)].prev}
  BY Zenon
<1>5. H # {}
  BY Zenon, <1>4 DEF Range
<1>6. H \in SUBSET (1..l) /\ H \in SUBSET (0..l)
  BY <1>3, <1>4
<1>7. Max(H) \in H
  BY Zenon, <1>5, <1>6, GreatestIn
<1>8. SplitHeight(s, path) = Max(H)
  BY Zenon, <1>4 DEF SplitHeight
<1> QED
  BY Zenon, <1>2, <1>6, <1>7, <1>8

\* Memory with other sets of alternative and invalid blocks.
GoodAs(r, s, sure, base) == Good(r, sure, base) /\ r.mem.reset = s.mem.reset /\ r.db = s.db

\* A state with another verdict, other alternative blocks and other invalid blocks.
WithSets(s, k, a, i) == [s EXCEPT !.ok = k, !.mem.alt = a, !.mem.invalid = i]

\* These touch neither the tables nor the window.
LEMMA OtherSets ==
  ASSUME NEW sure, NEW base, NEW s, Good(s, sure, base), NEW a \in SUBSET DOMAIN Blocks, NEW i \in SUBSET DOMAIN Blocks, NEW k \in BOOLEAN,
         NEW r, r = WithSets(s, k, a, i)
  PROVE  GoodAs(r, s, sure, base)
<1>1. s \in StateType
  BY DEF Good
<1>2. s.db \in DBType /\ s.mem \in MemType /\ s.left \in SUBSET Rows
  BY <1>1, StateFields
<1>3. PICK m : m = [s.mem EXCEPT !.alt = a, !.invalid = i]
  BY Zenon
<1>4. m \in MemType /\ m.reset = s.mem.reset /\ m.sound = s.mem.sound /\ m.height = s.mem.height /\ m.window = s.mem.window
  BY <1>2, <1>3 DEF MemType
<1>5. r = [db |-> s.db, mem |-> m, left |-> s.left, ok |-> k]
  BY <1>1, <1>2, <1>3 DEF StateType, MemType, WithSets
<1>6. r.db = s.db /\ r.mem = m /\ r.left = s.left
  BY <1>5
<1>7. r \in StateType
  BY Zenon, <1>2, <1>4, <1>5, IsState
<1>8. WindowOK(r.mem, r.db.chain)
  BY Zenon, <1>4, <1>6 DEF Good, WindowOK
<1> QED
  BY Zenon, <1>4, <1>6, <1>7, <1>8 DEF Good, GoodAs

\* Nor does the hard fork object.
LEMMA ReorganizedGood ==
  ASSUME NEW sure, NEW base, NEW s, Good(s, sure, base), NEW r, r = Reorganized(s)
  PROVE  GoodAs(r, s, sure, base)
<1>1. s \in StateType
  BY DEF Good
<1>2. s.db \in DBType /\ s.mem \in MemType /\ s.left \in SUBSET Rows /\ s.ok \in BOOLEAN
  BY <1>1, StateFields
<1>3. PICK z \in BOOLEAN : z = (Len(s.db.chain) >= ForkHeight)
  <2>1. (Len(s.db.chain) >= ForkHeight) \in BOOLEAN
    BY <1>1, StateFields, DataAssumption
  <2> QED
    BY Zenon, <2>1
<1>4. PICK m : m = [s.mem EXCEPT !.forked = z]
  BY Zenon
<1>5. m \in MemType /\ m.reset = s.mem.reset /\ m.sound = s.mem.sound /\ m.height = s.mem.height /\ m.window = s.mem.window
  BY <1>2, <1>4 DEF MemType
<1>6. r = [s EXCEPT !.mem.forked = z]
  BY Zenon, <1>3 DEF Reorganized
<1>7. r = [db |-> s.db, mem |-> m, left |-> s.left, ok |-> s.ok]
  BY <1>1, <1>2, <1>4, <1>6 DEF StateType, MemType
<1>8. r.db = s.db /\ r.mem = m /\ r.left = s.left
  BY <1>7
<1>9. r \in StateType
  BY Zenon, <1>2, <1>5, <1>7, IsState
<1>10. WindowOK(r.mem, r.db.chain)
  BY Zenon, <1>5, <1>8 DEF Good, WindowOK
<1> QED
  BY Zenon, <1>5, <1>8, <1>9, <1>10 DEF Good, GoodAs

\* A switch of the chain, and the way back when a block fails.
LEMMA SwitchGood ==
  ASSUME NEW sure, NEW base, NEW s, Good(s, sure, base), s.mem.reset, NEW path \in Chains, path # <<>>,
         Blocks[Head(path)].prev \in Range(s.db.chain), NEW r, r = switch_to_alternative_blockchain(s, path)
  PROVE  Good(r, sure, base) /\ r.mem.reset
<1>1. s \in StateType
  BY DEF Good
<1>2. s.db.chain \in Chains
  BY <1>1, StateFields
<1>3. PICK split \in 1..Len(s.db.chain) : split = SplitHeight(s, path)
  BY Zenon, <1>1, SplitGood
<1>4. PICK old : old = SubSeq(s.db.chain, split + 1, Len(s.db.chain))
  BY Zenon
<1>5. old \in Chains
  BY <1>2, <1>4 DEF Chains
<1>6. PICK low : low = PopTo(s, split)
  BY Zenon
<1>7. Good(low, sure, base) /\ low.mem.reset /\ Len(low.db.chain) = split
  BY <1>6, PopToGood
<1>8. PICK new : new = Connect(low, path)
  BY Zenon
<1>9. Good(new, sure, base) /\ new.mem.reset /\ Len(new.db.chain) >= split
  <2>1. Good(new, sure, base) /\ new.mem.reset /\ Len(new.db.chain) >= Len(low.db.chain)
    BY Zenon, <1>7, <1>8, ConnectGood
  <2> QED
    BY Zenon, <1>7, <2>1
<1>10. PICK n \in Nat : n = Len(new.db.chain)
  <2>1. new \in StateType
    BY <1>9 DEF Good
  <2> QED
    BY Zenon, <2>1, StateFields
<1>11. PICK failed : failed = SubSeq(path, Len(new.db.chain) - split + 1, Len(path))
  BY Zenon
<1>12. failed \in Seq(DOMAIN Blocks)
  <2>1. PICK a \in Nat : a = n - split + 1 /\ a >= 1
    <3>1. n - split + 1 \in Nat /\ n - split + 1 >= 1
      BY <1>9, <1>10
    <3> QED
      BY Zenon, <3>1
  <2>2. failed = SubSeq(path, a, Len(path))
    BY Zenon, <1>10, <1>11, <2>1
  <2> QED
    BY <2>1, <2>2 DEF Chains
<1>13. Range(failed) \in SUBSET DOMAIN Blocks /\ Range(old) \in SUBSET DOMAIN Blocks /\ Range(path) \in SUBSET DOMAIN Blocks
  BY <1>5, <1>12 DEF Chains, Range
<1>14. CASE new.ok
  <2>0. PICK reo : reo = Reorganized(new)
    BY Zenon
  <2>1. r = [reo EXCEPT !.mem.alt = (@ \ Range(path)) \cup Range(old)]
    BY Zenon, <1>3, <1>4, <1>6, <1>8, <1>14, <2>0 DEF switch_to_alternative_blockchain
  <2>7. Good(reo, sure, base) /\ reo.mem.reset
    <3>1. GoodAs(reo, new, sure, base)
      BY Zenon, <1>9, <2>0, ReorganizedGood
    <3> QED
      BY Zenon, <1>9, <3>1 DEF GoodAs
  <2>2. reo \in StateType
    BY <2>7 DEF Good
  <2>3. reo.mem.alt \in SUBSET DOMAIN Blocks /\ reo.mem.invalid \in SUBSET DOMAIN Blocks /\ reo.ok \in BOOLEAN
    BY <2>2, StateFields
  <2>4. PICK a \in SUBSET DOMAIN Blocks : a = (reo.mem.alt \ Range(path)) \cup Range(old)
    <3>1. (reo.mem.alt \ Range(path)) \cup Range(old) \in SUBSET DOMAIN Blocks
      BY Zenon, <1>13, <2>3
    <3> QED
      BY Zenon, <3>1
  <2>5. r = WithSets(reo, reo.ok, a, reo.mem.invalid)
    BY <2>1, <2>2, <2>4 DEF StateType, MemType, WithSets
  <2>6. GoodAs(r, reo, sure, base)
    BY Zenon, <2>7, <2>3, <2>5, OtherSets
  <2> QED
    BY Zenon, <2>7, <2>6 DEF GoodAs
<1>15. CASE ~new.ok
  <2>0. PICK popped : popped = PopTo(new, split)
    BY Zenon
  <2>1. PICK back : back = Reorganized(popped)
    BY Zenon
  <2>2. Good(back, sure, base) /\ back.mem.reset
    <3>1. split \in 1..Len(new.db.chain)
      BY <1>3, <1>9, <1>10
    <3>2. Good(popped, sure, base) /\ popped.mem.reset
      BY Zenon, <1>9, <2>0, <3>1, PopToGood
    <3>3. GoodAs(back, popped, sure, base)
      BY Zenon, <2>1, <3>2, ReorganizedGood
    <3> QED
      BY Zenon, <3>2, <3>3 DEF GoodAs
  <2>3. PICK again : again = [back EXCEPT !.ok = TRUE]
    BY Zenon
  <2>4. back \in StateType
    BY <2>2 DEF Good
  <2>5. Good(again, sure, base) /\ again.mem.reset
    <3>1. back.mem.alt \in SUBSET DOMAIN Blocks /\ back.mem.invalid \in SUBSET DOMAIN Blocks
      BY <2>4, StateFields
    <3>2. again = WithSets(back, TRUE, back.mem.alt, back.mem.invalid)
      BY <2>3, <2>4 DEF StateType, MemType, WithSets
    <3>3. GoodAs(again, back, sure, base)
      BY Zenon, <2>2, <3>1, <3>2, OtherSets
    <3> QED
      BY Zenon, <2>2, <3>3 DEF GoodAs
  <2>6. PICK done : done = Connect(again, old)
    BY Zenon
  <2>7. Good(done, sure, base) /\ done.mem.reset
    BY Zenon, <1>5, <2>5, <2>6, ConnectGood
  <2>8. r = [done EXCEPT !.ok = FALSE, !.mem.alt = @ \ Range(failed), !.mem.invalid = @ \cup Range(failed)]
    BY Zenon, <1>3, <1>4, <1>6, <1>8, <1>11, <1>15, <2>0, <2>1, <2>3, <2>6 DEF switch_to_alternative_blockchain
  <2>9. done \in StateType
    BY <2>7 DEF Good
  <2>10. done.mem.alt \in SUBSET DOMAIN Blocks /\ done.mem.invalid \in SUBSET DOMAIN Blocks
    BY <2>9, StateFields
  <2>11. PICK a \in SUBSET DOMAIN Blocks : a = done.mem.alt \ Range(failed)
    <3>1. done.mem.alt \ Range(failed) \in SUBSET DOMAIN Blocks
      BY Zenon, <2>10
    <3> QED
      BY Zenon, <3>1
  <2>12. PICK i \in SUBSET DOMAIN Blocks : i = done.mem.invalid \cup Range(failed)
    <3>1. done.mem.invalid \cup Range(failed) \in SUBSET DOMAIN Blocks
      BY Zenon, <1>13, <2>10
    <3> QED
      BY Zenon, <3>1
  <2>13. r = WithSets(done, FALSE, a, i)
    BY <2>8, <2>9, <2>11, <2>12 DEF StateType, MemType, WithSets
  <2>14. GoodAs(r, done, sure, base)
    BY Zenon, <2>7, <2>13, OtherSets
  <2> QED
    BY Zenon, <2>7, <2>14 DEF GoodAs
<1> QED
  BY <1>14, <1>15

\* handle_alternative_block leaves a good state, switch or no switch.
LEMMA AltGood ==
  ASSUME NEW sure, NEW base, NEW s, Good(s, sure, base), NEW b \in DOMAIN Blocks, NEW r, r = handle_alternative_block(s, b)
  PROVE  Good(r, sure, base) /\ r.mem.reset
<1>1. s \in StateType
  BY DEF Good
<1>2. s.db \in DBType /\ s.mem \in MemType /\ s.left \in SUBSET Rows /\ s.ok \in BOOLEAN
  BY <1>1, StateFields
<1>3. PICK q : q = [s EXCEPT !.mem.height = 0, !.mem.reset = TRUE]
  BY Zenon
<1>4. Good(q, sure, base) /\ q.mem.reset /\ q.db = s.db /\ q.ok = s.ok
  <2>1. PICK m : m = [s.mem EXCEPT !.height = 0, !.reset = TRUE]
    BY Zenon
  <2>2. m \in MemType /\ m.reset /\ m.sound = s.mem.sound
    BY <1>2, <2>1 DEF MemType
  <2>3. q = [db |-> s.db, mem |-> m, left |-> s.left, ok |-> s.ok]
    BY <1>1, <1>2, <1>3, <2>1 DEF StateType, MemType
  <2>4. q.db = s.db /\ q.mem = m /\ q.left = s.left /\ q.ok = s.ok
    BY <2>3
  <2>5. q \in StateType
    BY Zenon, <1>2, <2>2, <2>3, IsState
  <2>6. WindowOK(q.mem, q.db.chain)
    <3>1. s.mem.sound
      BY Zenon DEF Good, WindowOK
    <3> QED
      BY Zenon, <2>2, <2>4, <3>1, ResetOK
  <2> QED
    BY Zenon, <2>2, <2>4, <2>5, <2>6 DEF Good
<1>5. q \in StateType
  BY <1>4 DEF Good
<1>6. q.mem.alt \in SUBSET DOMAIN Blocks /\ q.mem.invalid \in SUBSET DOMAIN Blocks
  BY <1>5, StateFields
<1>7. PICK path : path = AltPath(s.mem, b)
  BY Zenon
<1>8. path \in Chains /\ path # <<>>
  BY Zenon, <1>2, <1>7, AltPathGood
<1>9. PICK w : w = [q EXCEPT !.mem.alt = @ \cup {b}]
  BY Zenon
<1>10. Good(w, sure, base) /\ w.mem.reset /\ w.db = s.db
  <2>1. PICK a \in SUBSET DOMAIN Blocks : a = q.mem.alt \cup {b}
    <3>1. q.mem.alt \cup {b} \in SUBSET DOMAIN Blocks
      BY Zenon, <1>6
    <3> QED
      BY Zenon, <3>1
  <2>2. w = WithSets(q, q.ok, a, q.mem.invalid)
    BY <1>5, <1>9, <2>1 DEF StateType, MemType, WithSets
  <2>3. q.ok \in BOOLEAN
    BY Zenon, <1>2, <1>4
  <2>4. GoodAs(w, q, sure, base)
    BY Zenon, <1>4, <1>6, <2>2, <2>3, OtherSets
  <2> QED
    BY Zenon, <1>4, <2>4 DEF GoodAs
<1>11. CASE Blocks[Head(path)].prev \notin Range(s.db.chain)
  <2>1. r = [q EXCEPT !.ok = FALSE]
    BY Zenon, <1>3, <1>7, <1>11 DEF handle_alternative_block
  <2>2. r = WithSets(q, FALSE, q.mem.alt, q.mem.invalid)
    BY <1>5, <2>1 DEF StateType, MemType, WithSets
  <2>3. GoodAs(r, q, sure, base)
    BY Zenon, <1>4, <1>6, <2>2, OtherSets
  <2> QED
    BY Zenon, <1>4, <2>3 DEF GoodAs
<1>12. CASE Blocks[Head(path)].prev \in Range(s.db.chain)
  <2>1. r = switch_to_alternative_blockchain(w, path) \/ r = w
    BY Zenon, <1>3, <1>7, <1>9, <1>12 DEF handle_alternative_block
  <2>2. CASE r = switch_to_alternative_blockchain(w, path)
    <3>1. Blocks[Head(path)].prev \in Range(w.db.chain)
      BY Zenon, <1>10, <1>12
    <3> QED
      BY Zenon, <1>8, <1>10, <2>2, <3>1, SwitchGood
  <2> QED
    BY Zenon, <1>10, <2>1, <2>2
<1> QED
  BY <1>11, <1>12

\* A new block leaves the tables exact and the window right, wherever it goes; a window that
\* is not to be read anew goes on from a chain that grew.
LEMMA NewBlockGood ==
  ASSUME NEW sure, NEW base, NEW s, Good(s, sure, base), NEW b \in DOMAIN Blocks, NEW r, r = add_new_block(s, b)
  PROVE  /\ Good(r, sure, base)
         /\ r.mem.reset \/ GoesOn(s, r, b)
<1>1. r = s \/ r = handle_block_to_main_chain(s, b) \/ r = handle_alternative_block(s, b)
  BY Zenon DEF add_new_block
<1>2. CASE r = s
  BY Zenon, <1>2 DEF GoesOn
<1>3. CASE r = handle_block_to_main_chain(s, b)
  BY Zenon, <1>3, HandleGood
<1>4. CASE r = handle_alternative_block(s, b)
  BY Zenon, <1>4, AltGood
<1> QED
  BY Zenon, <1>1, <1>2, <1>3, <1>4

-----------------------------------------------------------------------------
(* Database and memory in every state *)

\* What a step sees: the tables d of the open batch, or the committed ones.
Holds(d, m, l, sure) ==
  /\ d \in DBType /\ m \in MemType /\ l \in SUBSET Rows
  /\ \E over \in SUBSET l : Exact(d, over)
  /\ \A t \in sure \ (l \cup Outdated) : t \in TxsOf(d.chain) \cup d.pool
  /\ WindowOK(m, d.chain)

\* The committed tables c are exact; the tables d in use are, keep the transactions of the
\* committed chain, and go on from it unless the window is to be read anew.
Sound(c, d, m, l) ==
  /\ c \in DBType
  /\ \E over \in SUBSET l : Exact(c, over)
  /\ Holds(d, m, l, TxsOf(c.chain))
  /\ m.reset \/ Prefix(c.chain, d.chain)

\* Between the state of the functions and the variables of the specification.
LEMMA GoodHolds ==
  ASSUME NEW s, NEW sure, NEW base, Good(s, sure, base)
  PROVE  Holds(s.db, s.mem, s.left, sure) /\ base \subseteq s.left
<1>1. s \in StateType
  BY Zenon DEF Good
<1>2. s.db \in DBType /\ s.mem \in MemType /\ s.left \in SUBSET Rows
  BY <1>1, StateFields
<1> QED
  BY Zenon, <1>2 DEF Good, Holds

\* The state that NewBlock hands to add_new_block.
StateOf(d, m, l) == [db |-> d, mem |-> m, left |-> l, ok |-> TRUE]

\* That state is good when the variables are.
LEMMA HoldsGood ==
  ASSUME NEW d, NEW m, NEW l, NEW sure, Holds(d, m, l, sure),
         NEW s, s = StateOf(d, m, l)
  PROVE  Good(s, sure, l) /\ s.db = d /\ s.mem = m
<1>1. d \in DBType /\ m \in MemType /\ l \in SUBSET Rows
  BY Zenon DEF Holds
<1>2. s \in StateType
  BY Zenon, <1>1, IsState DEF StateOf
<1>3. s.db = d /\ s.mem = m /\ s.left = l
  BY DEF StateOf
<1> QED
  BY Zenon, <1>2, <1>3 DEF Good, Holds

\* More transactions in the pool of the open batch.
LEMMA PoolGrows ==
  ASSUME NEW c, NEW d, NEW m, NEW l, Sound(c, d, m, l), NEW p \in SUBSET DOMAIN Key, p \cap TxsOf(d.chain) = {},
         d.pool \subseteq p, NEW n, n = [d EXCEPT !.pool = p]
  PROVE  Sound(c, n, m, l)
<1>1. Holds(d, m, l, TxsOf(c.chain))
  BY Zenon DEF Sound
<1>2. d \in DBType /\ m \in MemType /\ l \in SUBSET Rows /\ WindowOK(m, d.chain)
  BY Zenon, <1>1 DEF Holds
<1>3. PICK over \in SUBSET l : Exact(d, over)
  BY Zenon, <1>1 DEF Holds
<1>4. n \in DBType /\ Exact(n, over) /\ n.chain = d.chain /\ n.pool = p
  BY <1>2, <1>3, PoolExact
<1>5. \A t \in TxsOf(c.chain) \ (l \cup Outdated) : t \in TxsOf(n.chain) \cup n.pool
  BY Zenon, <1>1, <1>4 DEF Holds
<1>6. Holds(n, m, l, TxsOf(c.chain))
  BY Zenon, <1>2, <1>3, <1>4, <1>5 DEF Holds
<1> QED
  BY Zenon, <1>4, <1>6 DEF Sound

\* Any other pool, in a batch just opened.
LEMMA PoolChanges ==
  ASSUME NEW c, NEW m, NEW l, Sound(c, c, m, l), NEW p \in SUBSET DOMAIN Key, p \cap TxsOf(c.chain) = {},
         NEW n, n = [c EXCEPT !.pool = p]
  PROVE  Sound(c, n, m, l)
<1>1. Holds(c, m, l, TxsOf(c.chain))
  BY Zenon DEF Sound
<1>2. c \in DBType /\ m \in MemType /\ l \in SUBSET Rows /\ WindowOK(m, c.chain)
  BY Zenon, <1>1 DEF Holds
<1>3. PICK over \in SUBSET l : Exact(c, over)
  BY Zenon, <1>1 DEF Holds
<1>4. n \in DBType /\ Exact(n, over) /\ n.chain = c.chain /\ n.pool = p
  BY <1>2, <1>3, PoolExact
<1>5. \A t \in TxsOf(c.chain) \ (l \cup Outdated) : t \in TxsOf(n.chain) \cup n.pool
  BY Zenon, <1>4
<1>6. Holds(n, m, l, TxsOf(c.chain))
  BY Zenon, <1>2, <1>3, <1>4, <1>5 DEF Holds
<1> QED
  BY Zenon, <1>4, <1>6 DEF Sound

\* The batch becomes what is committed, and the window may be dropped.
LEMMA CommitSound ==
  ASSUME NEW c, NEW d, NEW m, NEW l, Sound(c, d, m, l), NEW n \in MemType, WindowOK(n, d.chain)
  PROVE  Sound(d, d, n, l)
<1>1. Holds(d, m, l, TxsOf(c.chain))
  BY Zenon DEF Sound
<1>2. d \in DBType /\ l \in SUBSET Rows /\ \E over \in SUBSET l : Exact(d, over)
  BY Zenon, <1>1 DEF Holds
<1>3. Prefix(d.chain, d.chain)
  <2>1. d.chain \in Seq(DOMAIN Blocks)
    BY <1>2 DEF DBType, Chains
  <2> QED
    BY <2>1, PrefixSame
<1>4. Holds(d, n, l, TxsOf(d.chain))
  BY Zenon, <1>2 DEF Holds
<1> QED
  BY Zenon, <1>2, <1>3, <1>4 DEF Sound

\* A reader of the committed chain leaves the window right for the open batch too.
LEMMA ReadSound ==
  ASSUME NEW c, NEW d, NEW m, NEW l, Sound(c, d, m, l), NEW n, n = get_difficulty_for_next_block(m, c.chain)
  PROVE  Sound(c, d, n, l)
<1>1. Holds(d, m, l, TxsOf(c.chain)) /\ c \in DBType /\ (m.reset \/ Prefix(c.chain, d.chain))
  BY Zenon DEF Sound
<1>2. d \in DBType /\ m \in MemType /\ WindowOK(m, d.chain)
  BY Zenon, <1>1 DEF Holds
<1>3. PICK x : x = c.chain
  BY Zenon
<1>4. PICK y : y = d.chain
  BY Zenon
<1>5. x \in Chains /\ x # <<>> /\ y \in Chains
  BY <1>1, <1>2, <1>3, <1>4 DEF DBType
<1>6. (m.reset \/ Prefix(x, y)) /\ WindowOK(m, y) /\ n = get_difficulty_for_next_block(m, x)
  BY Zenon, <1>1, <1>2, <1>3, <1>4
<1>7. n \in MemType /\ WindowOK(n, y) /\ n.reset = m.reset
  BY <1>2, <1>5, <1>6, WindowKept
<1>8. Holds(d, n, l, TxsOf(c.chain))
  BY Zenon, <1>1, <1>4, <1>7 DEF Holds
<1>9. n.reset \/ Prefix(c.chain, d.chain)
  BY Zenon, <1>1, <1>7
<1> QED
  BY Zenon, <1>8, <1>9 DEF Sound

\* add_new_block inside a batch.
LEMMA NewBlockSound ==
  ASSUME NEW c, NEW d, NEW m, NEW l, Sound(c, d, m, l), NEW b \in DOMAIN Blocks,
         NEW s, s = add_new_block(StateOf(d, m, l), b)
  PROVE  Sound(c, s.db, s.mem, s.left)
<1>1. PICK q : q = StateOf(d, m, l)
  BY Zenon
<1>2. Holds(d, m, l, TxsOf(c.chain)) /\ c \in DBType /\ (m.reset \/ Prefix(c.chain, d.chain))
  BY Zenon DEF Sound
<1>3. Good(q, TxsOf(c.chain), l) /\ q.db = d /\ q.mem = m 
  <2>1. PICK sure : sure = TxsOf(c.chain)
    BY Zenon
  <2>2. Holds(d, m, l, sure)
    BY Zenon, <1>2, <2>1
  <2>3. Good(q, sure, l) /\ q.db = d /\ q.mem = m
    BY <1>1, <2>2, HoldsGood
  <2> QED
    BY Zenon, <2>1, <2>3
<1>4. s = add_new_block(q, b)
  BY Zenon, <1>1
<1>5. Good(s, TxsOf(c.chain), l) /\ (s.mem.reset \/ GoesOn(q, s, b))
  BY Zenon, <1>3, <1>4, NewBlockGood
<1>6. Holds(s.db, s.mem, s.left, TxsOf(c.chain))
  BY Zenon, <1>5, GoodHolds
<1>7. s.mem.reset \/ Prefix(c.chain, s.db.chain)
  <2> SUFFICES ASSUME ~s.mem.reset
               PROVE  Prefix(c.chain, s.db.chain)
    BY Zenon
  <2>1. GoesOn(q, s, b)
    BY Zenon, <1>5
  <2>2. ~m.reset /\ (s.db.chain = d.chain \/ s.db.chain = Append(d.chain, b))
    BY <1>3, <2>1 DEF GoesOn
  <2>3. Prefix(c.chain, d.chain)
    BY Zenon, <1>2, <2>2
  <2>4. d \in DBType
    BY Zenon, <1>2 DEF Holds
  <2>5. c.chain \in Seq(DOMAIN Blocks) /\ d.chain \in Seq(DOMAIN Blocks)
    BY <1>2, <2>4 DEF DBType, Chains
  <2>6. Prefix(c.chain, Append(d.chain, b))
    BY Zenon, <2>3, <2>5, PrefixAppend
  <2> QED
    BY Zenon, <2>2, <2>3, <2>6
<1>8. l \subseteq s.left
  BY Zenon, <1>5, GoodHolds
<1>9. \E over \in SUBSET s.left : Exact(c, over)
  BY Zenon, <1>8 DEF Sound
<1> QED
  BY Zenon, <1>2, <1>6, <1>7, <1>9 DEF Sound

\* The memory of a new process has its window to be read anew.
LEMMA NewMemType ==
  ASSUME NEW chain \in Chains, NEW new, new = NewMem(chain)
  PROVE  new \in MemType /\ new.reset /\ new.sound
<1>1. <<>> \in Chains
  BY DEF Chains
<1>2. PICK z \in BOOLEAN : z = (Len(chain) >= ForkHeight)
  <2>1. (Len(chain) >= ForkHeight) \in BOOLEAN
    BY DataAssumption DEF Chains
  <2> QED
    BY Zenon, <2>1
<1>3. new = [alt |-> {}, invalid |-> {}, window |-> <<>>, height |-> 0, reset |-> TRUE, sound |-> TRUE, forked |-> z]
  BY Zenon, <1>2 DEF NewMem
<1> QED
  BY <1>1, <1>3 DEF MemType

\* A new process: the open batch is lost, the pool is validated, the memory is new.
LEMMA CrashSound ==
  ASSUME NEW c, NEW d, NEW m, NEW l, Sound(c, d, m, l), NEW n, n = [c EXCEPT !.pool = @ \ c.txs]
  PROVE  Sound(n, n, NewMem(c.chain), l \cap c.txs)
<1>1. c \in DBType /\ l \in SUBSET Rows
  BY Zenon DEF Sound, Holds
<1>2. PICK over \in SUBSET l : Exact(c, over)
  BY Zenon DEF Sound
<1>3. over \in SUBSET (l \cap c.txs) /\ l \cap c.txs \in SUBSET Rows
  BY Zenon, <1>1, <1>2 DEF Exact
<1>4. PICK p : p = c.pool \ c.txs
  BY Zenon
<1>5. p \in SUBSET DOMAIN Key /\ p \cap TxsOf(c.chain) = {}
  <2>1. c.pool \in SUBSET DOMAIN Key
    BY <1>1 DEF DBType
  <2> QED
    BY Zenon, <1>2, <1>4, <2>1 DEF Exact
<1>6. n = [c EXCEPT !.pool = p]
  BY Zenon, <1>4
<1>7. n \in DBType /\ Exact(n, over)
  BY <1>1, <1>2, <1>5, <1>6, PoolExact
<1>0. PICK new : new = NewMem(c.chain)
  BY Zenon
<1>8. new \in MemType /\ new.reset /\ new.sound
  <2>1. c.chain \in Chains
    BY <1>1 DEF DBType
  <2> QED
    BY <1>0, <2>1, NewMemType
<1>9. WindowOK(new, n.chain)
  BY Zenon, <1>8, ResetOK
<1>10. Holds(n, new, l \cap c.txs, TxsOf(n.chain))
  BY Zenon, <1>3, <1>7, <1>8, <1>9 DEF Holds
<1> QED
  BY Zenon, <1>0, <1>3, <1>7, <1>8, <1>10 DEF Sound

\* What the chain and the pool have at the start.
LEMMA InitSound ==
  ASSUME NEW c, c = Whole(StartChain, {})
  PROVE  Sound(c, c, NewMem(StartChain), {})
<1>1. StartChain \in Chains /\ StartChain # <<>>
  BY Zenon, DataAssumption DEF Chains
<1>2. /\ c.chain = StartChain /\ c.txs = ChainRows(StartChain)
      /\ c.keys = KeysOf(TxsOf(StartChain)) /\ c.pool = {}
  BY DEF Whole, ChainRows
<1>3. TxsOf(StartChain) \subseteq DOMAIN Key /\ ChainRows(StartChain) \subseteq Rows
  BY <1>1, TxsAreRows
<1>4. c \in DBType
  <2>1. ChainRows(StartChain) \in SUBSET Rows /\ KeysOf(TxsOf(StartChain)) \in SUBSET AllKeys /\ {} \in SUBSET DOMAIN Key
    BY Zenon, <1>3 DEF KeysOf, AllKeys
  <2>2. c = [chain |-> StartChain, txs |-> ChainRows(StartChain), keys |-> KeysOf(TxsOf(StartChain)), pool |-> {}]
    BY Zenon DEF Whole, ChainRows
  <2> QED
    BY Zenon, <1>1, <2>1, <2>2, IsDB
<1>5. Distinct(StartChain)
  BY Zenon, DataAssumption DEF Distinct
<1>6. \A t \in TxsOf(StartChain), u \in TxsOf(StartChain) \cup ({} \cap DOMAIN Key) : Key[t] = Key[u] => t = u
  BY Zenon, DataAssumption
<1>7. KeysOf(TxsOf(StartChain)) = KeysOf(TxsOf(StartChain) \cup ({} \cap DOMAIN Key))
  BY Zenon DEF KeysOf
<1>8. Exact(c, {})
  BY Zenon, <1>2, <1>5, <1>6, <1>7 DEF Exact
<1>0. PICK new : new = NewMem(StartChain)
  BY Zenon
<1>9. new \in MemType /\ new.reset /\ new.sound
  BY <1>0, <1>1, NewMemType
<1>10. WindowOK(new, c.chain)
  BY Zenon, <1>9, ResetOK
<1>11. {} \in SUBSET Rows /\ {} \in SUBSET {}
  BY Zenon
<1>12. Holds(c, new, {}, TxsOf(c.chain))
  BY Zenon, <1>4, <1>8, <1>9, <1>10, <1>11 DEF Holds
<1> QED
  BY Zenon, <1>0, <1>4, <1>8, <1>9, <1>11, <1>12 DEF Sound

\* The tables that the next write goes to.
Current == IF batch = NoBatch THEN committed ELSE batch

\* What a thread at a place has to do: blocks to add, or transactions for the pool.
Adding == {"prepare", "prepare pool", "batch_start", "txs", "block"}
Pooling == {"incoming", "have_tx", "pool", "chain", "LockedTXN"}

\* The job of a thread is a span of blocks or some transactions, by its place.
JobOK(place, job) ==
  /\ place \in Adding => job \in Chains /\ job # <<>>
  /\ place \in Pooling => job \in Seq(DOMAIN Key)

\* Every thread has the job that its place takes.
Jobs == \A t \in Threads : JobOK(thread[t].at, thread[t].job)

\* A thread past batch_start finds its batch open.
Batches == \A t \in Threads : thread[t].at \in Writing => batch # NoBatch

\* The inductive invariant of the data, on top of IInv.
DataInv == Jobs /\ Batches /\ Sound(committed, Current, mem, left)

\* Init establishes it: DataAssumption says that the chain of the start is one that
\* add_block could have built.
LEMMA InitData == Init => DataInv
<1> SUFFICES ASSUME Init PROVE DataInv
  OBVIOUS
<1>1. \A t \in Threads : thread[t].at = "idle"
  BY DEF Init, Idle
<1>2. Jobs
  BY <1>1 DEF Jobs, JobOK, Adding, Pooling
<1>3. Batches
  BY <1>1 DEF Batches, Writing
<1>4. Current = committed
  BY Zenon DEF Init, Current
<1>5. Sound(committed, committed, mem, left)
  BY Zenon, InitSound DEF Init
<1> QED
  BY Zenon, <1>2, <1>3, <1>4, <1>5 DEF DataInv

\* What a step in which only thread t moves has to show.
LEMMA OneMovesData ==
  ASSUME IInv, DataInv, NEW t \in Threads, NEW place, NEW job, JobOK(place, job),
         thread' = [thread EXCEPT ![t] = [at |-> place, job |-> job]],
         \/ batch' # NoBatch
         \/ batch' = batch /\ (place \in Writing => thread[t].at \in Writing)
         \/ place \notin Writing /\ thread[t].at \in WithPool,
         Sound(committed', Current', mem', left')
  PROVE  DataInv'
<1>1. \A u \in Threads : u # t => thread'[u] = thread[u]
  BY DEF IInv, Shape
<1>2. thread'[t].at = place /\ thread'[t].job = job
  BY DEF IInv, Shape
<1>3. Jobs'
  <2> SUFFICES ASSUME NEW u \in Threads
               PROVE  JobOK(thread'[u].at, thread'[u].job)
    BY Zenon DEF Jobs, JobOK, Adding, Pooling, Chains
  <2>1. CASE u = t
    BY Zenon, <1>2, <2>1
  <2>2. CASE u # t
    BY Zenon, <1>1, <2>2 DEF DataInv, Jobs
  <2> QED
    BY Zenon, <2>1, <2>2
<1>4. Batches'
  <2> SUFFICES ASSUME NEW u \in Threads, thread'[u].at \in Writing
               PROVE  batch' # NoBatch
    BY DEF Batches, Writing, NoBatch
  <2>1. CASE u = t
    <3>1. place \in Writing
      BY Zenon, <1>2, <2>1
    <3>2. thread[t].at \in Writing => batch # NoBatch
      BY Zenon DEF DataInv, Batches
    <3> QED
      BY Zenon, <3>1, <3>2
  <2>2. CASE u # t
    <3>1. thread[u].at \in Writing /\ batch # NoBatch
      BY Zenon, <1>1, <2>2 DEF DataInv, Batches
    <3>2. thread[u].at \in WithPool
      BY <3>1 DEF Writing, WithPool
    <3>3. thread[t].at \notin WithPool
      BY Zenon, <2>2, <3>2, OneOwner
    <3> QED
      BY Zenon, <3>1, <3>3
  <2> QED
    BY Zenon, <2>1, <2>2
<1> QED
  BY Zenon, <1>3, <1>4 DEF DataInv

\* Tables are not the value that stands for no batch.
LEMMA NotNoBatch ==
  ASSUME NEW d \in DBType
  PROVE  d # NoBatch
<1>1. d.chain # <<>>
  BY DEF DBType
<1>2. NoBatch.chain = <<>>
  BY DEF NoBatch
<1> QED
  BY Zenon, <1>1, <1>2

\* What the invariant says of the types and of the window.
LEMMA SoundDB ==
  ASSUME NEW c, NEW d, NEW m, NEW l, Sound(c, d, m, l)
  PROVE  c \in DBType /\ d \in DBType /\ m \in MemType /\ l \in SUBSET Rows /\ WindowOK(m, d.chain)
  BY Zenon DEF Sound, Holds

\* What the writer sees is its batch.
LEMMA WriterSees ==
  ASSUME DataInv, NEW t \in Threads, thread[t].at \in Writing
  PROVE  batch # NoBatch /\ Current = batch
  BY Zenon DEF DataInv, Batches, Current

\* A step that touches neither the tables nor the memory.
LEMMA NothingTouched ==
  ASSUME IInv, DataInv, NEW t \in Threads, NEW place, NEW job, JobOK(place, job),
         thread' = [thread EXCEPT ![t] = [at |-> place, job |-> job]],
         place \in Writing => thread[t].at \in Writing,
         committed' = committed, batch' = batch, mem' = mem, left' = left
  PROVE  DataInv'
<1>1. Current' = Current
  BY DEF Current, NoBatch
<1>2. Sound(committed', Current', mem', left')
  BY Zenon, <1>1 DEF DataInv
<1> QED
  BY Zenon, <1>2, OneMovesData

\* A call begins.
LEMMA BeginData ==
  ASSUME IInv, DataInv, NEW t \in Threads, NewSpan(t) \/ NewTx(t) \/ Idling(t) \/ GetInfo(t)
  PROVE  DataInv'
<1>1. PICK place \in {"prepare", "incoming", "pool", "get_info"} : \E job : JobOK(place, job) /\ Begin(t, place, job)
  <2>1. CASE NewSpan(t)
    <3>1. PICK span \in Spans : Begin(t, "prepare", span)
      BY Zenon, <2>1 DEF NewSpan
    <3>2. span \in Chains /\ span # <<>>
      BY Zenon, DataAssumption DEF Chains
    <3>3. JobOK("prepare", span)
      BY <3>2 DEF JobOK, Adding, Pooling
    <3> QED
      BY Zenon, <3>1, <3>3
  <2>2. CASE NewTx(t)
    <3>1. PICK x \in Loose : Begin(t, "incoming", <<x>>)
      BY Zenon, <2>2 DEF NewTx
    <3>2. x \in DOMAIN Key
      BY Zenon, DataAssumption
    <3>3. JobOK("incoming", <<x>>)
      BY <3>2 DEF JobOK, Adding, Pooling
    <3> QED
      BY Zenon, <3>1, <3>3
  <2>3. CASE Idling(t)
    <3>1. JobOK("pool", <<>>)
      BY DEF JobOK, Adding, Pooling
    <3> QED
      BY Zenon, <2>3, <3>1 DEF Idling
  <2>4. CASE GetInfo(t)
    <3>1. JobOK("get_info", <<>>)
      BY DEF JobOK, Adding, Pooling
    <3> QED
      BY Zenon, <2>4, <3>1 DEF GetInfo
  <2> QED
    BY Zenon, <2>1, <2>2, <2>3, <2>4
<1>2. PICK job : JobOK(place, job) /\ Begin(t, place, job)
  BY Zenon, <1>1
<1>3. place \notin Writing
  BY <1>1 DEF Writing
<1>4. thread' = [thread EXCEPT ![t] = [at |-> place, job |-> job]]
  BY Zenon, <1>2 DEF Begin
<1>5. committed' = committed /\ batch' = batch /\ mem' = mem /\ left' = left
  BY <1>2 DEF Begin
<1> QED
  BY Zenon, <1>2, <1>3, <1>4, <1>5, NothingTouched

\* A lock is taken, or the span is cut short.
LEMMA LockData ==
  ASSUME IInv, DataInv, NEW t \in Threads, LockIncoming(t) \/ LockPool(t) \/ LockChain(t) \/ Stopping(t)
  PROVE  DataInv'
<1> USE DEF Writing, Adding, Pooling
<1>0. JobOK(thread[t].at, thread[t].job)
  BY Zenon DEF DataInv, Jobs
<1>1. committed' = committed /\ batch' = batch /\ mem' = mem /\ left' = left
  BY DEF LockIncoming, LockPool, LockChain, Stopping
<1>2. \E place \in {"prepare pool", "have_tx", "batch_start", "chain", "LockedTXN", "cleanup"} :
        /\ JobOK(place, thread[t].job)
        /\ thread' = [thread EXCEPT ![t] = [at |-> place, job |-> thread[t].job]]
        /\ place \in Writing => thread[t].at \in Writing
  <2>1. CASE LockIncoming(t) /\ At(t, "prepare")
    <3>1. thread' = [thread EXCEPT ![t] = [at |-> "prepare pool", job |-> thread[t].job]]
      BY Zenon, <2>1 DEF LockIncoming, Goto
    <3>2. JobOK("prepare pool", thread[t].job)
      BY <1>0, <2>1 DEF JobOK, At
    <3> QED
      BY <3>1, <3>2
  <2>2. CASE LockIncoming(t) /\ ~At(t, "prepare")
    <3>1. thread' = [thread EXCEPT ![t] = [at |-> "have_tx", job |-> thread[t].job]] /\ At(t, "incoming")
      BY Zenon, <2>2 DEF LockIncoming, Goto
    <3>2. JobOK("have_tx", thread[t].job)
      BY <1>0, <3>1 DEF JobOK, At
    <3> QED
      BY <3>1, <3>2
  <2>3. CASE LockPool(t) /\ At(t, "prepare pool")
    <3>1. thread' = [thread EXCEPT ![t] = [at |-> "batch_start", job |-> thread[t].job]]
      BY Zenon, <2>3 DEF LockPool, Goto
    <3>2. JobOK("batch_start", thread[t].job)
      BY <1>0, <2>3 DEF JobOK, At
    <3> QED
      BY <3>1, <3>2
  <2>4. CASE LockPool(t) /\ ~At(t, "prepare pool")
    <3>1. thread' = [thread EXCEPT ![t] = [at |-> "chain", job |-> thread[t].job]] /\ At(t, "pool")
      BY Zenon, <2>4 DEF LockPool, Goto
    <3>2. JobOK("chain", thread[t].job)
      BY <1>0, <3>1 DEF JobOK, At
    <3> QED
      BY <3>1, <3>2
  <2>5. CASE LockChain(t)
    <3>1. thread' = [thread EXCEPT ![t] = [at |-> "LockedTXN", job |-> thread[t].job]] /\ At(t, "chain")
      BY Zenon, <2>5 DEF LockChain, Goto
    <3>2. JobOK("LockedTXN", thread[t].job)
      BY <1>0, <3>1 DEF JobOK, At
    <3> QED
      BY <3>1, <3>2
  <2>6. CASE Stopping(t)
    <3>1. thread' = [thread EXCEPT ![t] = [at |-> "cleanup", job |-> thread[t].job]] /\ At(t, "txs")
      BY Zenon, <2>6 DEF Stopping, Goto
    <3>2. JobOK("cleanup", thread[t].job)
      BY DEF JobOK
    <3> QED
      BY <3>1, <3>2 DEF At
  <2> QED
    BY Zenon, <2>1, <2>2, <2>3, <2>4, <2>5, <2>6
<1> HIDE DEF Writing, Adding, Pooling
<1> QED
  BY Zenon, <1>1, <1>2, NothingTouched

\* The early return of handle_incoming_txs.
LEMMA HaveTxData ==
  ASSUME IInv, DataInv, NEW t \in Threads, HaveTx(t)
  PROVE  DataInv'
<1>0. JobOK(thread[t].at, thread[t].job) /\ thread[t].at = "have_tx"
  BY Zenon DEF DataInv, Jobs, HaveTx, At
<1>1. committed' = committed /\ batch' = batch /\ mem' = mem /\ left' = left
  BY DEF HaveTx
<1>2. CASE thread' = [thread EXCEPT ![t] = Idle]
  <2>1. thread' = [thread EXCEPT ![t] = [at |-> "idle", job |-> <<>>]]
    BY Zenon, <1>2 DEF Idle
  <2>2. JobOK("idle", <<>>) /\ "idle" \notin Writing
    BY DEF JobOK, Adding, Pooling, Writing
  <2> QED
    BY Zenon, <1>1, <2>1, <2>2, NothingTouched
<1>3. CASE thread' = [thread EXCEPT ![t] = [@ EXCEPT !.at = "pool"]]
  <2>1. thread' = [thread EXCEPT ![t] = [at |-> "pool", job |-> thread[t].job]]
    <3>1. PICK r : r = thread[t]
      BY Zenon
    <3>2. r = [at |-> r.at, job |-> r.job]
      BY Zenon, <3>1 DEF IInv, Shape
    <3>3. [r EXCEPT !.at = "pool"] = [at |-> "pool", job |-> r.job]
      BY <3>2
    <3>4. thread' = [thread EXCEPT ![t] = [r EXCEPT !.at = "pool"]]
      BY Zenon, <1>3, <3>1
    <3> QED
      BY Zenon, <3>1, <3>3, <3>4
  <2>2. JobOK("pool", thread[t].job) /\ "pool" \notin Writing
    BY <1>0 DEF JobOK, Adding, Pooling, Writing
  <2> QED
    BY Zenon, <1>1, <2>1, <2>2, NothingTouched
<1> QED
  BY Zenon, <1>2, <1>3 DEF HaveTx

\* get_difficulty_for_next_block by a reader, while a batch may be open.
LEMMA ReadData ==
  ASSUME IInv, DataInv, NEW t \in Threads, ReadChain(t) \/ ReadWindow(t)
  PROVE  DataInv'
<1>1. CASE ReadChain(t)
  <2>1. committed' = committed /\ batch' = batch /\ mem' = mem /\ left' = left
    BY <1>1 DEF ReadChain
  <2>2. PICK job : thread' = [thread EXCEPT ![t] = [at |-> "reading", job |-> job]]
    BY Zenon, <1>1 DEF ReadChain
  <2>3. JobOK("reading", job) /\ "reading" \notin Writing
    BY DEF JobOK, Adding, Pooling, Writing
  <2> QED
    BY Zenon, <2>1, <2>2, <2>3, NothingTouched
<1>2. CASE ReadWindow(t)
  <2>1. View(t) = committed
    BY <1>2 DEF ReadWindow, At, View, IInv, Owner, Places, Writing
  <2>2. mem' = get_difficulty_for_next_block(mem, committed.chain)
    BY Zenon, <1>2, <2>1 DEF ReadWindow
  <2>3. committed' = committed /\ batch' = batch /\ left' = left
    BY <1>2 DEF ReadWindow
  <2>4. Current' = Current
    BY <2>3 DEF Current, NoBatch
  <2>5. Sound(committed, Current, mem', left)
    BY Zenon, <2>2, ReadSound DEF DataInv
  <2>6. Sound(committed', Current', mem', left')
    BY Zenon, <2>3, <2>4, <2>5
  <2>7. thread' = [thread EXCEPT ![t] = [at |-> "idle", job |-> <<>>]]
    BY Zenon, <1>2 DEF ReadWindow, Idle
  <2>8. JobOK("idle", <<>>) /\ "idle" \notin Writing
    BY DEF JobOK, Adding, Pooling, Writing
  <2> QED
    BY Zenon, <2>3, <2>6, <2>7, <2>8, OneMovesData
<1> QED
  BY Zenon, <1>1, <1>2

\* The batch starts from what is committed.
LEMMA StartData ==
  ASSUME IInv, DataInv, NEW t \in Threads, StartBatch(t)
  PROVE  DataInv'
<1>1. batch = NoBatch /\ batch' = committed /\ thread[t].at = "batch_start"
  BY Zenon DEF StartBatch, batch_start, At
<1>2. committed' = committed /\ mem' = mem /\ left' = left
  BY DEF StartBatch
<1>3. Current = committed
  BY Zenon, <1>1 DEF Current
<1>4. committed \in DBType
  BY Zenon, SoundDB DEF DataInv
<1>5. batch' # NoBatch
  BY Zenon, <1>1, <1>4, NotNoBatch
<1>6. Current' = committed
  <2>1. NoBatch' = NoBatch
    BY DEF NoBatch
  <2> QED
    BY Zenon, <1>1, <1>5, <2>1 DEF Current
<1>7. Sound(committed', Current', mem', left')
  BY Zenon, <1>2, <1>3, <1>6 DEF DataInv
<1>8. thread' = [thread EXCEPT ![t] = [at |-> "txs", job |-> thread[t].job]]
  BY Zenon DEF StartBatch, Goto
<1>9. JobOK("txs", thread[t].job)
  <2>1. JobOK(thread[t].at, thread[t].job)
    BY Zenon DEF DataInv, Jobs
  <2> QED
    BY <1>1, <2>1 DEF JobOK, Adding, Pooling
<1> QED
  BY Zenon, <1>5, <1>7, <1>8, <1>9, OneMovesData

\* The transactions of a block go into the pool of the batch, but for those in the chain.
LEMMA TxsData ==
  ASSUME IInv, DataInv, NEW t \in Threads, HandleTxs(t)
  PROVE  DataInv'
<1>1. thread[t].at = "txs"
  BY Zenon DEF HandleTxs, At
<1>2. batch # NoBatch /\ Current = batch
  <2>1. thread[t].at \in Writing
    BY <1>1 DEF Writing
  <2> QED
    BY Zenon, <2>1, WriterSees
<1>3. JobOK("txs", thread[t].job)
  BY Zenon, <1>1 DEF DataInv, Jobs
<1>4. PICK b \in DOMAIN Blocks : b = Head(thread[t].job)
  <2>1. Head(thread[t].job) \in DOMAIN Blocks
    BY <1>3 DEF JobOK, Adding, Chains
  <2> QED
    BY Zenon, <2>1
<1>5. PICK p : p = batch.pool \cup (Unknown(TxsIn(b)) \ Failing)
  BY Zenon
<1>6. batch' = [batch EXCEPT !.pool = p]
  BY Zenon, <1>4, <1>5 DEF HandleTxs, TxsIn
<1>7. Sound(committed, batch, mem, left)
  BY Zenon, <1>2 DEF DataInv
<1>8. batch \in DBType
  BY Zenon, <1>7, SoundDB
<1>9. PICK over : Exact(batch, over)
  BY Zenon, <1>7 DEF Sound, Holds
<1>10. p \in SUBSET DOMAIN Key /\ p \cap TxsOf(batch.chain) = {} /\ batch.pool \subseteq p
  <2>1. batch.pool \in SUBSET DOMAIN Key /\ batch.chain \in Chains
    BY <1>8 DEF DBType
  <2>2. TxsIn(b) \subseteq DOMAIN Key
    BY BlockTypes
  <2>3. TxsOf(batch.chain) \subseteq batch.txs
    <3>1. TxsOf(batch.chain) \subseteq ChainRows(batch.chain)
      BY <2>1, TxsAreRows
    <3> QED
      BY Zenon, <1>9, <3>1 DEF Exact
  <2> QED
    BY Zenon, <1>5, <1>9, <2>1, <2>2, <2>3 DEF Exact, Unknown
<1>11. Sound(committed, batch', mem, left)
  BY Zenon, <1>6, <1>7, <1>10, PoolGrows
<1>12. batch' # NoBatch
  <2>1. batch' \in DBType
    BY Zenon, <1>11, SoundDB
  <2> QED
    BY Zenon, <2>1, NotNoBatch
<1>13. Current' = batch'
  <2>1. NoBatch' = NoBatch
    BY DEF NoBatch
  <2> QED
    BY Zenon, <1>12, <2>1 DEF Current
<1>14. committed' = committed /\ mem' = mem /\ left' = left
  BY DEF HandleTxs
<1>15. Sound(committed', Current', mem', left')
  BY Zenon, <1>11, <1>13, <1>14
<1>16. PICK place \in {"block", "cleanup"} : thread' = [thread EXCEPT ![t] = [at |-> place, job |-> thread[t].job]]
  BY Zenon DEF HandleTxs, Goto
<1>17. JobOK(place, thread[t].job)
  BY <1>3, <1>16 DEF JobOK, Adding, Pooling
<1> QED
  BY Zenon, <1>12, <1>15, <1>16, <1>17, OneMovesData

\* A block is handled inside the batch.
LEMMA BlockData ==
  ASSUME IInv, DataInv, NEW t \in Threads, NewBlock(t)
  PROVE  DataInv'
<1>1. thread[t].at = "block"
  BY Zenon DEF NewBlock, At
<1>2. batch # NoBatch /\ Current = batch
  <2>1. thread[t].at \in Writing
    BY <1>1 DEF Writing
  <2> QED
    BY Zenon, <2>1, WriterSees
<1>3. thread[t].job \in Chains /\ thread[t].job # <<>>
  <2>1. JobOK("block", thread[t].job)
    BY Zenon, <1>1 DEF DataInv, Jobs
  <2> QED
    BY <2>1 DEF JobOK, Adding
<1>4. PICK b \in DOMAIN Blocks : b = Head(thread[t].job)
  <2>1. Head(thread[t].job) \in DOMAIN Blocks
    BY <1>3 DEF Chains
  <2> QED
    BY Zenon, <2>1
<1>5. PICK s : /\ s = add_new_block(StateOf(batch, mem, left), b)
               /\ batch' = s.db /\ mem' = s.mem /\ left' = s.left
               /\ thread' = [thread EXCEPT ![t] = [at |-> IF s.ok /\ Tail(thread[t].job) # <<>> THEN "txs" ELSE "cleanup",
                                                   job |-> Tail(thread[t].job)]]
  BY Zenon, <1>4 DEF NewBlock, StateOf
<1>6. Sound(committed, batch, mem, left)
  BY Zenon, <1>2 DEF DataInv
<1>7. Sound(committed, s.db, s.mem, s.left)
  BY Zenon, <1>5, <1>6, NewBlockSound
<1>8. Sound(committed, batch', mem', left')
  BY Zenon, <1>5, <1>7
<1>9. batch' # NoBatch
  <2>1. s.db \in DBType
    BY Zenon, <1>7, SoundDB
  <2> QED
    BY Zenon, <1>5, <2>1, NotNoBatch
<1>10. Current' = batch'
  <2>1. NoBatch' = NoBatch
    BY DEF NoBatch
  <2> QED
    BY Zenon, <1>9, <2>1 DEF Current
<1>11. committed' = committed
  BY DEF NewBlock
<1>12. Sound(committed', Current', mem', left')
  BY Zenon, <1>8, <1>10, <1>11
<1>13. PICK place : place = IF s.ok /\ Tail(thread[t].job) # <<>> THEN "txs" ELSE "cleanup"
  BY Zenon
<1>14. JobOK(place, Tail(thread[t].job))
  <2>1. Tail(thread[t].job) \in Chains
    <3>1. PICK q \in Seq(DOMAIN Blocks) : q = thread[t].job /\ q # <<>>
      BY Zenon, <1>3 DEF Chains
    <3>2. PICK S : S = DOMAIN Blocks
      BY Zenon
    <3>3. q \in Seq(S) /\ q # <<>>
      BY Zenon, <3>1, <3>2
    <3>4. Tail(q) \in Seq(S)
      BY <3>3
    <3> QED
      BY Zenon, <3>1, <3>2, <3>4 DEF Chains
  <2> QED
    BY <1>13, <2>1 DEF JobOK, Adding, Pooling
<1>15. thread' = [thread EXCEPT ![t] = [at |-> place, job |-> Tail(thread[t].job)]]
  BY Zenon, <1>5, <1>13
<1> QED
  BY Zenon, <1>9, <1>12, <1>14, <1>15, OneMovesData

\* The batch is committed, by cleanup_handle_incoming_blocks or by ~LockedTXN.
LEMMA CommitData ==
  ASSUME IInv, DataInv, NEW t \in Threads, cleanup_handle_incoming_blocks(t) \/ Unlock(t)
  PROVE  DataInv' /\ committed' = Current
<1>1. thread[t].at \in {"cleanup", "unlock"} /\ committed' = batch /\ batch' = NoBatch /\ left' = left
  BY DEF cleanup_handle_incoming_blocks, Unlock, batch_stop, At
<1>2. thread[t].at \in Writing /\ thread[t].at \in WithPool
  BY <1>1 DEF Writing, WithPool
<1>3. batch # NoBatch /\ Current = batch
  BY Zenon, <1>2, WriterSees
<1>4. Sound(committed, batch, mem, left)
  BY Zenon, <1>3 DEF DataInv
<1>5. mem \in MemType /\ WindowOK(mem, batch.chain)
  BY Zenon, <1>4, SoundDB
<1>6. mem' \in MemType /\ WindowOK(mem', batch.chain)
  <2>1. CASE mem' = mem
    BY Zenon, <1>5, <2>1
  <2>2. CASE mem' = [mem EXCEPT !.height = 0, !.reset = FALSE]
    <3>1. PICK n : n = [mem EXCEPT !.height = 0, !.reset = FALSE]
      BY Zenon
    <3>2. n \in MemType /\ n.height = 0 /\ n.sound = mem.sound
      BY <1>5, <3>1 DEF MemType
    <3>3. WindowOK(n, batch.chain)
      BY Zenon, <1>5, <3>2 DEF WindowOK
    <3> QED
      BY Zenon, <2>2, <3>1, <3>2, <3>3
  <2>3. mem' = mem \/ mem' = [mem EXCEPT !.height = 0, !.reset = FALSE]
    BY DEF cleanup_handle_incoming_blocks, Unlock
  <2> QED
    BY Zenon, <2>1, <2>2, <2>3
<1>7. Sound(batch, batch, mem', left)
  BY Zenon, <1>4, <1>6, CommitSound
<1>8. Current' = batch
  <2>1. NoBatch' = NoBatch
    BY DEF NoBatch
  <2> QED
    BY Zenon, <1>1, <2>1 DEF Current
<1>9. Sound(committed', Current', mem', left')
  BY Zenon, <1>1, <1>7, <1>8
<1>10. thread' = [thread EXCEPT ![t] = [at |-> "idle", job |-> <<>>]]
  BY Zenon DEF cleanup_handle_incoming_blocks, Unlock, Idle
<1>11. JobOK("idle", <<>>) /\ "idle" \notin Writing
  BY DEF JobOK, Adding, Pooling, Writing
<1>12. DataInv'
  BY Zenon, <1>2, <1>9, <1>10, <1>11, OneMovesData
<1> QED
  BY Zenon, <1>1, <1>3, <1>12

\* A write of the pool under LockedTXN.
LEMMA PoolData ==
  ASSUME IInv, DataInv, NEW t \in Threads, LockedTXN(t)
  PROVE  DataInv'
<1>1. thread[t].at = "LockedTXN" /\ batch = NoBatch
  BY Zenon DEF LockedTXN, At
<1>2. Current = committed
  BY Zenon, <1>1 DEF Current
<1>3. Sound(committed, committed, mem, left)
  BY Zenon, <1>2 DEF DataInv
<1>4. committed \in DBType
  BY Zenon, <1>3, SoundDB
<1>5. PICK over : Exact(committed, over)
  BY Zenon, <1>3 DEF Sound
<1>6. committed.pool \in SUBSET DOMAIN Key
  BY <1>4 DEF DBType
<1>7. PICK p \in SUBSET DOMAIN Key : p \cap TxsOf(committed.chain) = {} /\ batch' = [committed EXCEPT !.pool = p]
  <2>1. CASE thread[t].job = <<>>
    <3>1. PICK gone \in SUBSET committed.pool : batch' = [committed EXCEPT !.pool = @ \ gone]
      BY Zenon, <2>1 DEF LockedTXN
    <3>2. committed.pool \ gone \in SUBSET DOMAIN Key /\ (committed.pool \ gone) \cap TxsOf(committed.chain) = {}
      BY Zenon, <1>5, <1>6 DEF Exact
    <3> QED
      BY Zenon, <3>1, <3>2
  <2>2. CASE thread[t].job # <<>>
    <3>1. PICK new : new = {x \in Range(thread[t].job) : Acceptable(committed, x)}
      BY Zenon
    <3>2. batch' = [committed EXCEPT !.pool = @ \cup new]
      BY Zenon, <2>2, <3>1 DEF LockedTXN
    <3>3. Range(thread[t].job) \subseteq DOMAIN Key
      <4>1. JobOK("LockedTXN", thread[t].job)
        BY Zenon, <1>1 DEF DataInv, Jobs
      <4>2. thread[t].job \in Seq(DOMAIN Key)
        BY <4>1 DEF JobOK, Pooling
      <4> QED
        BY <4>2 DEF Range
    <3>4. \A x \in TxsOf(committed.chain) : Key[x] \in committed.keys
      BY Zenon, <1>5 DEF Exact, KeysOf
    <3>5. new \cap TxsOf(committed.chain) = {}
      BY Zenon, <3>1, <3>4 DEF Acceptable
    <3>6. committed.pool \cup new \in SUBSET DOMAIN Key /\ (committed.pool \cup new) \cap TxsOf(committed.chain) = {}
      BY Zenon, <1>5, <1>6, <3>1, <3>3, <3>5 DEF Exact
    <3> QED
      BY Zenon, <3>2, <3>6
  <2> QED
    BY Zenon, <2>1, <2>2
<1>8. Sound(committed, batch', mem, left)
  BY Zenon, <1>3, <1>7, PoolChanges
<1>9. batch' # NoBatch
  <2>1. batch' \in DBType
    BY Zenon, <1>8, SoundDB
  <2> QED
    BY Zenon, <2>1, NotNoBatch
<1>10. Current' = batch'
  <2>1. NoBatch' = NoBatch
    BY DEF NoBatch
  <2> QED
    BY Zenon, <1>9, <2>1 DEF Current
<1>11. committed' = committed /\ mem' = mem /\ left' = left
  BY DEF LockedTXN
<1>12. Sound(committed', Current', mem', left')
  BY Zenon, <1>8, <1>10, <1>11
<1>13. thread' = [thread EXCEPT ![t] = [at |-> "unlock", job |-> thread[t].job]]
  BY Zenon DEF LockedTXN, Goto
<1>14. JobOK("unlock", thread[t].job)
  BY DEF JobOK, Adding, Pooling
<1> QED
  BY Zenon, <1>9, <1>12, <1>13, <1>14, OneMovesData

\* A crash and the restart after it: no block is lost.
LEMMA CrashData ==
  ASSUME IInv, DataInv, Crash
  PROVE  DataInv' /\ committed'.chain = committed.chain
<1>1. /\ committed' = [committed EXCEPT !.pool = @ \ committed.txs] /\ batch' = NoBatch
      /\ mem' = NewMem(committed.chain) /\ left' = left \cap committed.txs
  BY Zenon DEF Crash
<1>2. PICK n : n = [committed EXCEPT !.pool = @ \ committed.txs]
  BY Zenon
<1>3. Sound(n, n, NewMem(committed.chain), left \cap committed.txs)
  BY Zenon, <1>2, CrashSound DEF DataInv
<1>4. Current' = n
  <2>1. NoBatch' = NoBatch
    BY DEF NoBatch
  <2> QED
    BY Zenon, <1>1, <1>2, <2>1 DEF Current
<1>5. Sound(committed', Current', mem', left')
  BY Zenon, <1>1, <1>2, <1>3, <1>4
<1>6. \A t \in Threads : thread'[t].at = "idle"
  BY DEF Crash, Idle
<1>7. Jobs'
  BY <1>6 DEF Jobs, JobOK, Adding, Pooling
<1>8. Batches'
  BY <1>6 DEF Batches, Writing
<1>9. committed \in DBType
  BY Zenon, SoundDB DEF DataInv
<1>10. committed'.chain = committed.chain
  BY <1>1, <1>9 DEF DBType
<1> QED
  BY Zenon, <1>5, <1>7, <1>8, <1>10 DEF DataInv

\* Every step keeps the data invariant; only the end of a batch and a restart change what is
\* committed.
LEMMA StepData ==
  ASSUME IInv, DataInv, [Next]_vars
  PROVE  /\ DataInv'
         /\ committed' = committed \/ committed' = Current \/ committed'.chain = committed.chain
<1>1. ASSUME NEW t \in Threads, NewSpan(t) \/ NewTx(t) \/ Idling(t) \/ GetInfo(t)
      PROVE  DataInv' /\ committed' = committed
  <2>1. committed' = committed
    BY <1>1 DEF NewSpan, NewTx, Idling, GetInfo, Begin
  <2> QED
    BY Zenon, <1>1, <2>1, BeginData
<1>2. ASSUME NEW t \in Threads, LockIncoming(t) \/ LockPool(t) \/ LockChain(t) \/ Stopping(t)
      PROVE  DataInv' /\ committed' = committed
  <2>1. committed' = committed
    BY <1>2 DEF LockIncoming, LockPool, LockChain, Stopping
  <2> QED
    BY Zenon, <1>2, <2>1, LockData
<1>3. ASSUME NEW t \in Threads, StartBatch(t)
      PROVE  DataInv' /\ committed' = committed
  BY Zenon, <1>3, StartData DEF StartBatch
<1>4. ASSUME NEW t \in Threads, HandleTxs(t)
      PROVE  DataInv' /\ committed' = committed
  BY <1>4, TxsData DEF HandleTxs
<1>5. ASSUME NEW t \in Threads, NewBlock(t)
      PROVE  DataInv' /\ committed' = committed
  BY <1>5, BlockData DEF NewBlock
<1>6. ASSUME NEW t \in Threads, cleanup_handle_incoming_blocks(t) \/ Unlock(t)
      PROVE  DataInv' /\ committed' = Current
  BY Zenon, <1>6, CommitData
<1>7. ASSUME NEW t \in Threads, HaveTx(t)
      PROVE  DataInv' /\ committed' = committed
  BY <1>7, HaveTxData DEF HaveTx
<1>8. ASSUME NEW t \in Threads, LockedTXN(t)
      PROVE  DataInv' /\ committed' = committed
  BY <1>8, PoolData DEF LockedTXN
<1>9. ASSUME NEW t \in Threads, ReadChain(t) \/ ReadWindow(t)
      PROVE  DataInv' /\ committed' = committed
  <2>1. committed' = committed
    BY <1>9 DEF ReadChain, ReadWindow
  <2> QED
    BY Zenon, <1>9, <2>1, ReadData
<1>10. CASE UNCHANGED vars
  <2>1. committed' = committed /\ batch' = batch /\ mem' = mem /\ left' = left /\ thread' = thread
    BY <1>10 DEF vars
  <2>2. Current' = Current
    BY <2>1 DEF Current, NoBatch
  <2>3. Jobs' /\ Batches'
    BY <2>1 DEF DataInv, Jobs, Batches, NoBatch
  <2>4. Sound(committed', Current', mem', left')
    BY Zenon, <2>1, <2>2 DEF DataInv
  <2> QED
    BY Zenon, <2>1, <2>3, <2>4 DEF DataInv
<1>11. CASE \E t \in Threads : NewSpan(t) \/ NewTx(t) \/ Idling(t) \/ GetInfo(t) \/ Work(t) \/ Stopping(t)
  <2>1. PICK t \in Threads : NewSpan(t) \/ NewTx(t) \/ Idling(t) \/ GetInfo(t) \/ Work(t) \/ Stopping(t)
    BY Zenon, <1>11
  <2> QED
    BY Zenon, <2>1, <1>1, <1>2, <1>3, <1>4, <1>5, <1>6, <1>7, <1>8, <1>9 DEF Work
<1>12. CASE Crash
  BY Zenon, <1>12, CrashData
<1> QED
  BY Zenon, <1>10, <1>11, <1>12 DEF Next

\* The tables and the window of difficulties are right in every state, whatever the threads,
\* the spans and the crashes.
THEOREM DataInvariance == Spec => []DataInv
<1>1. Init => DataInv
  BY InitData
<1>2. IInv /\ DataInv /\ [Next]_vars => DataInv'
  BY StepData
<1> QED
  BY <1>1, <1>2, Invariance, PTL DEF Spec

\* What is committed is whole: blocks that failed half way, chains that were switched and
\* switched back, and crashes leave no row behind but those of failed blocks.
THEOREM WholeCommitted == Spec => []CommittedWhole
<1>1. DataInv => CommittedWhole
  <2> SUFFICES ASSUME DataInv
               PROVE  CommittedWhole
    OBVIOUS
  <2>1. PICK over \in SUBSET left : Exact(committed, over)
    BY Zenon DEF DataInv, Sound
  <2>2. PICK T : T = TxsOf(committed.chain)
    BY Zenon
  <2>3. committed.txs \ left = ChainRows(committed.chain) \ left
    BY Zenon, <2>1 DEF Exact
  <2>4. committed.keys = KeysOf(T \cup (over \cap DOMAIN Key))
    BY Zenon, <2>1, <2>2 DEF Exact
  <2>5. KeysOf(T \cup (over \cap DOMAIN Key)) \ KeysOf(left \cap DOMAIN Key) = KeysOf(T) \ KeysOf(left \cap DOMAIN Key)
    BY Zenon DEF KeysOf
  <2>6. committed.pool \cap T = {}
    BY Zenon, <2>1, <2>2 DEF Exact
  <2>7. PICK w : w = Whole(committed.chain, committed.pool)
    BY Zenon
  <2>8. w.txs = ChainRows(committed.chain) /\ w.keys = KeysOf(T)
    BY <2>2, <2>7 DEF Whole, ChainRows
  <2> QED
    BY Zenon, <2>2, <2>3, <2>4, <2>5, <2>6, <2>7, <2>8 DEF CommittedWhole
<1> QED
  BY <1>1, DataInvariance, PTL

\* "Inconsistency XXX" is never reported: the window kept between calls is the one the
\* database holds, though readers and the thread with the batch see different chains.
THEOREM WindowsSound == Spec => []WindowSound
<1>1. DataInv => WindowSound
  BY Zenon, SoundDB DEF DataInv, WindowOK, WindowSound
<1> QED
  BY <1>1, DataInvariance, PTL

\* No step loses a confirmed transaction but one that a hard fork forbids: after a switch,
\* done or given up half way, a failed block or a crash it is in a block or back in the pool.
THEOREM KeptConfirmed == Spec => ConfirmedKept
<1>1. IInv /\ DataInv /\ [Next]_vars =>
        [\A x \in TxsOf(committed.chain) \ (left \cup Outdated) : x \in TxsOf(committed'.chain) \cup committed'.pool]_vars
  <2> SUFFICES ASSUME IInv, DataInv, [Next]_vars, NEW x \in TxsOf(committed.chain) \ (left \cup Outdated)
               PROVE  x \in TxsOf(committed'.chain) \cup committed'.pool
    BY Zenon
  <2>1. x \in TxsOf(Current.chain) \cup Current.pool
    BY Zenon DEF DataInv, Sound, Holds
  <2>2. committed' = committed \/ committed' = Current \/ committed'.chain = committed.chain
    BY Zenon, StepData
  <2> QED
    BY Zenon, <2>1, <2>2
<1> QED
  BY <1>1, Invariance, DataInvariance, PTL DEF Spec, ConfirmedKept

=============================================================================
