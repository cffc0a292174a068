----------------------------- MODULE BlockTree -----------------------------
(***************************************************************************)
(* The blocks and transactions a node may ever hear of, and the rules of   *)
(* consensus as a reference definition: which chains are valid, and how    *)
(* much work they carry.  A block fixes all its ancestors, so whatever a   *)
(* check computes from the chain below a block (timestamp median,          *)
(* difficulty, proof of work, miner transaction, weight and reward) is an  *)
(* attribute of the block here.                                            *)
(***************************************************************************)
EXTENDS HardForkRules

CONSTANTS
  Genesis,
  Tree,   \* block |-> [parent, major, minor, work, txs, sound, reward]
  Tx      \* transaction |-> [images, uses, last]: key images, a block that created
          \* outputs it uses, and the last version whose output rules it meets

Blocks == DOMAIN Tree

Txs == DOMAIN Tx

ASSUME TreeAssumption ==
  /\ Genesis \in Blocks
  /\ \A b \in Blocks : /\ Tree[b].parent \in Blocks
                       /\ Tree[b].work \in Nat \ {0}
                       /\ Tree[b].txs \in Seq(Txs)
  /\ \A t \in Txs : Tx[t].uses \in Blocks

\* The chain from the genesis block to b.
PathTo[b \in Blocks] ==
  IF b = Genesis THEN <<Genesis>> ELSE Append(PathTo[Tree[b].parent], b)

\* A block names its parent by hash, so the parents end at the genesis block, and the
\* definition above has a solution.
ASSUME PathAssumption ==
  /\ PathTo \in [Blocks -> Seq(Blocks)]
  /\ \A b \in Blocks :
       PathTo[b] = IF b = Genesis THEN <<Genesis>> ELSE Append(PathTo[Tree[b].parent], b)

\* The top block of a chain, and the chain without it.
TopOf(c) == c[Len(c)]

Below(c) == SubSeq(c, 1, Len(c) - 1)

\* Height of a block: its miner transaction names it, and it is checked.
get_block_height(b) == Len(PathTo[b]) - 1

\* Cumulative difficulty of a chain.
WorkOf(c) == MapThenSumSet(LAMBDA i : Tree[c[i]].work, DOMAIN c)

\* The blocks of a chain as the hard fork rules see them.
Headers(c) == [i \in DOMAIN c |-> Tree[c[i]]]

TxsOf(c) == UNION {Range(Tree[b].txs) : b \in Range(c)}

ImagesOf(T) == UNION {Tx[t].images : t \in T}

\* The transactions of b may follow chain c: none of them again, no key image spent
\* twice, no output used that the chain does not have.
SpendsRight(c, b) ==
  \A t \in Range(Tree[b].txs) : /\ t \notin TxsOf(c)
                                /\ Tx[t].uses \in Range(c)
                                /\ Tx[t].images \cap ImagesOf(TxsOf(c)) = {}

\* May b follow chain c?  The version is that of the fork in force.
ValidOn(c, b) ==
  /\ Tree[b].sound /\ Tree[b].reward
  /\ CheckAgainst(ForkInForce(Headers(c), Len(c)), Tree[b])
  /\ SpendsRight(c, b)

\* The blocks whose whole chain is valid.
ValidBlocks ==
  LET valid[b \in Blocks] == b = Genesis \/ ( /\ valid[Tree[b].parent]
                                              /\ ValidOn(PathTo[Tree[b].parent], b) )
  IN  {b \in Blocks : valid[b]}

ValidChains == {PathTo[b] : b \in ValidBlocks}

=============================================================================
