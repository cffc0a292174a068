-------------------------- MODULE BlockchainProofs --------------------------
(***************************************************************************)
(* For every tree of blocks, fork table and set of checkpoints: whatever   *)
(* blocks arrive, switches fail and crashes come, the main chain is sound, *)
(* apart from the pool, and agrees with the checkpoints between blocks.    *)
(*                                                                         *)
(* None of this is inductive: a switch takes one step for each block, and  *)
(* a crash falls back to the disk.  The invariant therefore says what a    *)
(* switch still has to do at each of its stages, that the disk is sound    *)
(* too, and which blocks agree while others are rolled back.               *)
(***************************************************************************)
EXTENDS Blockchain, FiniteSetTheorems, SequenceTheorems, NaturalsInduction,
        WellFoundedInduction, TLAPS

-----------------------------------------------------------------------------
(* Numbers and sequences *)

\* A nonempty set of natural numbers has a least element.
LEMMA LeastExists ==
  ASSUME NEW S \in SUBSET Nat, S # {}
  PROVE  \E x \in S : \A y \in S : x <= y
<1>1. PICK x \in S : \A y \in S : <<y, x>> \notin OpToRel(<, Nat)
  BY Zenon, NatLessThanWellFounded, WFMin
<1>2. \A y \in S : ~(y < x)
  BY <1>1 DEF OpToRel
<1> QED
  BY <1>2

LEMMA MinIn ==
  ASSUME NEW S \in SUBSET Nat, S # {}
  PROVE  Min(S) \in S /\ \A y \in S : Min(S) <= y
  BY Zenon, LeastExists DEF Min

LEMMA MaxIn ==
  ASSUME NEW n \in Nat, NEW S \in SUBSET (0..n), S # {}
  PROVE  Max(S) \in S /\ \A y \in S : y <= Max(S)
<1> DEFINE D == {n - x : x \in S}
<1>1. \A x \in S : x \in 0..n /\ n - x \in Nat /\ n - x \in D
  OBVIOUS
<1>2. D \in SUBSET Nat /\ D # {}
  BY <1>1
<1>3. PICK d \in D : \A e \in D : d <= e
  <2> HIDE DEF D
  <2> QED
    BY <1>2, LeastExists
<1>4. PICK x \in S : d = n - x
  OBVIOUS
<1>5. \A y \in S : x >= y
  <2> SUFFICES ASSUME NEW y \in S PROVE x >= y
    OBVIOUS
  <2>1. d <= n - y
    BY Zenon, <1>1, <1>3
  <2> QED
    BY <1>1, <1>4, <2>1
<1>6. \E m \in S : \A y \in S : m >= y
  BY Zenon, <1>5
<1>7. Max(S) \in S /\ \A y \in S : Max(S) >= y
  BY Zenon, <1>6 DEF Max
<1> QED
  BY <1>1, <1>7

\* The ends of a sequence.
LEMMA Ends ==
  ASSUME NEW S, NEW s \in Seq(S), s # <<>>
  PROVE  /\ Len(s) \in Nat \ {0} /\ TopOf(s) = s[Len(s)] /\ TopOf(s) \in S
         /\ Below(s) \in Seq(S) /\ Len(Below(s)) = Len(s) - 1
         /\ \A i \in 1..Len(s) - 1 : Below(s)[i] = s[i]
<1>1. Len(s) \in Nat \ {0} /\ s[Len(s)] \in S
  OBVIOUS
<1>2. Below(s) = SubSeq(s, 1, Len(s) - 1) /\ TopOf(s) = s[Len(s)]
  BY DEF TopOf, Below
<1>3. PICK n \in Nat : n = Len(s) - 1
  BY <1>1
<1>4. \A i \in 1..n : s[i] \in S
  BY <1>3
<1>5. /\ SubSeq(s, 1, n) \in Seq(S) /\ Len(SubSeq(s, 1, n)) = n
      /\ \A i \in 1..n : SubSeq(s, 1, n)[i] = s[i]
  BY <1>3, <1>4, SubSeqProperties
<1> QED
  BY <1>1, <1>2, <1>3, <1>5

LEMMA Appended ==
  ASSUME NEW S, NEW s \in Seq(S), NEW x \in S
  PROVE  /\ Append(s, x) \in Seq(S) /\ Append(s, x) # <<>> /\ Len(Append(s, x)) = Len(s) + 1
         /\ TopOf(Append(s, x)) = x /\ Below(Append(s, x)) = s
         /\ \A i \in 1..Len(s) : Append(s, x)[i] = s[i]
         /\ Append(s, x)[Len(s) + 1] = x
<1>1. /\ Append(s, x) \in Seq(S) /\ Len(Append(s, x)) = Len(s) + 1 /\ Len(s) \in Nat
      /\ \A i \in 1..Len(s) : Append(s, x)[i] = s[i]
      /\ Append(s, x)[Len(s) + 1] = x
  OBVIOUS
<1>2. PICK t \in Seq(S) : t = Append(s, x)
  BY <1>1
<1>3. t # <<>>
  BY <1>1, <1>2
<1>4. TopOf(t) = x /\ Below(t) \in Seq(S) /\ Len(Below(t)) = Len(s) /\ \A i \in 1..Len(s) : Below(t)[i] = s[i]
  <2>1. /\ TopOf(t) = t[Len(t)] /\ Below(t) \in Seq(S) /\ Len(Below(t)) = Len(t) - 1
        /\ \A i \in 1..Len(t) - 1 : Below(t)[i] = t[i]
    BY <1>3, Ends
  <2>2. Len(t) = Len(s) + 1 /\ Len(t) - 1 = Len(s) /\ t[Len(s) + 1] = x /\ \A i \in 1..Len(s) : t[i] = s[i]
    BY <1>1, <1>2
  <2> QED
    BY <2>1, <2>2
<1>5. Below(t) = s
  <2>1. PICK f \in Seq(S) : f = Below(t)
    BY <1>4
  <2> QED
    BY <1>4, <2>1, SeqEqual
<1> QED
  BY <1>1, <1>2, <1>3, <1>4, <1>5

LEMMA Members ==
  ASSUME NEW S, NEW s \in Seq(S)
  PROVE  /\ \A x : x \in Range(s) <=> \E i \in 1..Len(s) : s[i] = x
         /\ Range(s) \subseteq S
<1>1. DOMAIN s = 1..Len(s) /\ \A i \in 1..Len(s) : s[i] \in S
  OBVIOUS
<1>2. \A x : x \in Range(s) <=> \E i \in 1..Len(s) : s[i] = x
  BY Zenon, <1>1 DEF Range
<1> QED
  BY Zenon, <1>1, <1>2

LEMMA MembersAppended ==
  ASSUME NEW S, NEW s \in Seq(S), NEW x \in S
  PROVE  Range(Append(s, x)) = Range(s) \cup {x}
<1>1. PICK t \in Seq(S) : t = Append(s, x)
  BY Appended
<1>2. Len(t) = Len(s) + 1 /\ Len(s) \in Nat /\ (\A i \in 1..Len(s) : t[i] = s[i]) /\ t[Len(s) + 1] = x
  BY <1>1, Appended
<1>3. \A y : y \in Range(t) <=> \E i \in 1..Len(t) : t[i] = y
  BY Members
<1>4. \A y : y \in Range(s) <=> \E i \in 1..Len(s) : s[i] = y
  BY Members
<1>5. ASSUME NEW y \in Range(t) PROVE y \in Range(s) \cup {x}
  <2>1. PICK i \in 1..Len(t) : t[i] = y
    BY <1>3
  <2> QED
    BY <1>2, <1>4, <2>1
<1>6. ASSUME NEW y \in Range(s) \cup {x} PROVE y \in Range(t)
  <2>1. CASE y \in Range(s)
    <3>1. PICK i \in 1..Len(s) : s[i] = y
      BY <1>4, <2>1
    <3>2. i \in 1..Len(t) /\ t[i] = y
      BY <1>2, <3>1
    <3> QED
      BY <1>3, <3>2
  <2>2. CASE y = x
    <3>1. Len(s) + 1 \in 1..Len(t) /\ t[Len(s) + 1] = y
      BY <1>2, <2>2
    <3> QED
      BY <1>3, <3>1
  <2> QED
    BY <2>1, <2>2
<1> QED
  BY <1>1, <1>5, <1>6

LEMMA MembersFront ==
  ASSUME NEW S, NEW s \in Seq(S), s # <<>>
  PROVE  /\ Range(Below(s)) \subseteq Range(s)
         /\ Range(s) \ {TopOf(s)} \subseteq Range(Below(s))
<1>1. PICK f \in Seq(S) : f = Below(s)
  BY Ends
<1>2. /\ Len(s) \in Nat \ {0} /\ Len(f) = Len(s) - 1 /\ TopOf(s) = s[Len(s)]
      /\ \A i \in 1..Len(s) - 1 : f[i] = s[i]
  BY <1>1, Ends
<1>3. \A y : y \in Range(f) <=> \E i \in 1..Len(f) : f[i] = y
  BY Members
<1>4. \A y : y \in Range(s) <=> \E i \in 1..Len(s) : s[i] = y
  BY Members
<1>5. ASSUME NEW y \in Range(f) PROVE y \in Range(s)
  <2>1. PICK i \in 1..Len(f) : f[i] = y
    BY <1>3
  <2>2. i \in 1..Len(s) /\ s[i] = y
    BY <1>2, <2>1
  <2> QED
    BY <1>4, <2>2
<1>6. ASSUME NEW y \in Range(s), y # TopOf(s) PROVE y \in Range(f)
  <2>1. PICK i \in 1..Len(s) : s[i] = y
    BY <1>4
  <2>2. i \in 1..Len(f) /\ f[i] = y
    BY <1>2, <1>6, <2>1
  <2> QED
    BY <1>3, <2>2
<1> QED
  BY <1>1, <1>5, <1>6

-----------------------------------------------------------------------------
(* Chains *)

ParentOf(b) == Tree[b].parent

\* Every block but the first follows its parent.
Joined(c) == \A i \in 2..Len(c) : c[i] # Genesis /\ ParentOf(c[i]) = c[i - 1]

\* The chain to a block ends with it, and the rest is the chain to its parent.
LEMMA PathFacts ==
  ASSUME NEW b \in Blocks
  PROVE  /\ PathTo[b] \in Seq(Blocks) /\ PathTo[b] # <<>> /\ TopOf(PathTo[b]) = b
         /\ Len(PathTo[b]) \in Nat \ {0}
         /\ b = Genesis => PathTo[b] = <<Genesis>> /\ Len(PathTo[b]) = 1
         /\ b # Genesis => /\ ParentOf(b) \in Blocks /\ PathTo[b] = Append(PathTo[ParentOf(b)], b)
                           /\ Len(PathTo[b]) = Len(PathTo[ParentOf(b)]) + 1
                           /\ Below(PathTo[b]) = PathTo[ParentOf(b)]
                           /\ Len(PathTo[b]) > 1
<1>1. PathTo[b] \in Seq(Blocks)
  BY PathAssumption
<1>2. ParentOf(b) \in Blocks /\ Genesis \in Blocks
  BY TreeAssumption DEF ParentOf
<1>3. CASE b = Genesis
  <2>1. PathTo[b] = <<Genesis>>
    BY <1>3, PathAssumption
  <2>2. <<Genesis>> # <<>> /\ TopOf(<<Genesis>>) = Genesis /\ Len(<<Genesis>>) = 1
    BY DEF TopOf
  <2> QED
    BY <1>1, <1>3, <2>1, <2>2
<1>4. CASE b # Genesis
  <2>1. PathTo[b] = Append(PathTo[ParentOf(b)], b)
    BY <1>4, PathAssumption DEF ParentOf
  <2>2. PICK p \in Seq(Blocks) : p = PathTo[ParentOf(b)]
    BY <1>2, PathAssumption
  <2>3. /\ Append(p, b) # <<>> /\ TopOf(Append(p, b)) = b /\ Len(Append(p, b)) = Len(p) + 1
        /\ Below(Append(p, b)) = p
    BY Appended
  <2>4. p # <<>>
    <3>1. CASE ParentOf(b) = Genesis
      <4>1. p = <<Genesis>>
        BY <1>2, <2>2, <3>1, PathAssumption
      <4> QED
        BY <4>1
    <3>2. CASE ParentOf(b) # Genesis
      <4>1. PICK a \in Blocks : a = ParentOf(b)
        BY <1>2
      <4>2. Tree[a].parent \in Blocks
        BY TreeAssumption
      <4>3. PICK q \in Seq(Blocks) : q = PathTo[Tree[a].parent]
        BY <4>2, PathAssumption
      <4>4. p = Append(q, a)
        BY <2>2, <3>2, <4>1, <4>3, PathAssumption
      <4> QED
        BY <4>4, Appended
    <3> QED
      BY <3>1, <3>2
  <2>5. Len(p) \in Nat \ {0} /\ Len(p) + 1 > 1
    BY <2>4
  <2> QED
    BY <1>1, <1>2, <1>4, <2>1, <2>2, <2>3, <2>5
<1> QED
  BY <1>3, <1>4

\* A chain that the parents lead to is joined: a shortest one that is not would go on
\* from one that is.
LEMMA PathJoined == \A b \in Blocks : Joined(PathTo[b])
<1> DEFINE Bad == {b \in Blocks : ~Joined(PathTo[b])}
           Lengths == {Len(PathTo[b]) : b \in Bad}
<1> SUFFICES ASSUME Bad # {} PROVE FALSE
  BY Zenon
<1>1. Lengths \in SUBSET Nat /\ Lengths # {}
  <2>1. \A b \in Blocks : Len(PathTo[b]) \in Nat
    BY PathFacts
  <2> QED
    BY Zenon, <2>1
<1>2. PICK n \in Lengths : \A m \in Lengths : n <= m
  <2> HIDE DEF Lengths
  <2> QED
    BY <1>1, LeastExists
<1>3. PICK b \in Bad : n = Len(PathTo[b])
  BY Zenon
<1>4. b \in Blocks /\ ~Joined(PathTo[b])
  BY Zenon, <1>3
<1>5. b # Genesis
  <2> SUFFICES ASSUME b = Genesis PROVE Joined(PathTo[b])
    BY <1>4
  <2>1. Len(PathTo[b]) = 1
    BY <1>4, PathFacts
  <2> QED
    BY <2>1 DEF Joined
<1>6. PICK a \in Blocks : a = ParentOf(b)
  BY <1>4, <1>5, PathFacts
<1>7. PICK p \in Seq(Blocks) : p = PathTo[a]
  BY PathFacts
<1>8. /\ p # <<>> /\ TopOf(p) = a /\ Len(p) \in Nat \ {0}
  BY <1>7, PathFacts
<1>9. PathTo[b] = Append(p, b) /\ n = Len(p) + 1
  BY <1>3, <1>4, <1>5, <1>6, <1>7, PathFacts
<1>10. Joined(p)
  <2> SUFFICES ASSUME ~Joined(p) PROVE FALSE
    OBVIOUS
  <2>1. Len(p) \in Lengths
    BY <1>7
  <2>2. n <= Len(p)
    BY Zenon, <1>2, <2>1
  <2> QED
    BY <1>8, <1>9, <2>2
<1>11. Joined(PathTo[b])
  <2>1. /\ Len(Append(p, b)) = Len(p) + 1 /\ (\A i \in 1..Len(p) : Append(p, b)[i] = p[i])
        /\ Append(p, b)[Len(p) + 1] = b
    BY <1>4, Appended
  <2>2. p[Len(p)] = a
    BY <1>8, Ends
  <2>3. PICK q : q = Append(p, b)
    OBVIOUS
  <2>4. ASSUME NEW i \in 2..Len(q)
        PROVE  q[i] # Genesis /\ ParentOf(q[i]) = q[i - 1]
    <3>1. CASE i = Len(p) + 1
      <4>1. q[i] = b /\ i - 1 = Len(p) /\ q[Len(p)] = p[Len(p)]
        BY <1>8, <2>1, <2>3, <3>1
      <4> QED
        BY <1>5, <1>6, <2>2, <4>1
    <3>2. CASE i # Len(p) + 1
      <4>1. i \in 2..Len(p) /\ i \in 1..Len(p) /\ i - 1 \in 1..Len(p)
        BY <1>8, <2>1, <2>3, <2>4, <3>2
      <4>2. q[i] = p[i] /\ q[i - 1] = p[i - 1]
        BY <2>1, <2>3, <4>1
      <4> QED
        BY <1>10, <4>1, <4>2 DEF Joined
    <3> QED
      BY <3>1, <3>2
  <2> QED
    BY <1>9, <2>3, <2>4 DEF Joined
<1> QED
  BY <1>4, <1>11

BlockTxs(b) == Range(Tree[b].txs)

\* A chain that parents lead to, with blocks that pass the checks against the chain below
\* them, but for the version.
GoodChain(c) ==
  /\ c \in Seq(Blocks) /\ c # <<>> /\ c = PathTo[TopOf(c)]
  /\ \A b \in Range(c) \ {Genesis} :
       Tree[b].sound /\ Tree[b].reward /\ SpendsRight(PathTo[ParentOf(b)], b)

\* No transaction is in two blocks, and no key image is spent in two.
SpentOnce(c) ==
  \A i, k \in 1..Len(c) : i < k =>
    /\ BlockTxs(c[i]) \cap BlockTxs(c[k]) = {}
    /\ ImagesOf(BlockTxs(c[i])) \cap ImagesOf(BlockTxs(c[k])) = {}

LEMMA TxsOfBlock ==
  ASSUME NEW c, NEW b \in Range(c)
  PROVE  BlockTxs(b) \subseteq TxsOf(c)
  BY Zenon DEF TxsOf, BlockTxs

LEMMA TxsAppended ==
  ASSUME NEW c \in Seq(Blocks), NEW b \in Blocks
  PROVE  TxsOf(Append(c, b)) = TxsOf(c) \cup BlockTxs(b)
<1>1. Range(Append(c, b)) = Range(c) \cup {b}
  BY MembersAppended
<1>2. ASSUME NEW t \in TxsOf(Append(c, b)) PROVE t \in TxsOf(c) \cup BlockTxs(b)
  BY Zenon, <1>1 DEF TxsOf, BlockTxs
<1>3. ASSUME NEW t \in TxsOf(c) \cup BlockTxs(b) PROVE t \in TxsOf(Append(c, b))
  BY Zenon, <1>1 DEF TxsOf, BlockTxs
<1> QED
  BY Zenon, <1>2, <1>3

\* Chain c with a block b on top.
LEMMA ChainConnected ==
  ASSUME NEW c, GoodChain(c), SpentOnce(c), NEW b \in Blocks \ {Genesis}, ParentOf(b) = TopOf(c),
         Tree[b].sound, Tree[b].reward, SpendsRight(c, b)
  PROVE  /\ GoodChain(Append(c, b)) /\ SpentOnce(Append(c, b))
         /\ TxsOf(Append(c, b)) = TxsOf(c) \cup BlockTxs(b)
<1>1. c \in Seq(Blocks) /\ c # <<>> /\ c = PathTo[TopOf(c)]
  BY DEF GoodChain
<1>2. PICK d \in Seq(Blocks) : d = Append(c, b)
  BY <1>1, Appended
<1>3. /\ d # <<>> /\ Len(d) = Len(c) + 1 /\ TopOf(d) = b /\ d[Len(c) + 1] = b
      /\ (\A i \in 1..Len(c) : d[i] = c[i]) /\ Len(c) \in Nat
  BY <1>1, <1>2, Appended
<1>4. Range(d) = Range(c) \cup {b}
  BY <1>1, <1>2, MembersAppended
<1>5. d = PathTo[b]
  BY <1>1, <1>2, PathFacts
<1>6. SpendsRight(PathTo[ParentOf(b)], b)
  BY Zenon, <1>1
<1>7. GoodChain(d)
  <2>1. \A a \in Range(d) \ {Genesis} :
          Tree[a].sound /\ Tree[a].reward /\ SpendsRight(PathTo[ParentOf(a)], a)
    BY Zenon, <1>4, <1>6 DEF GoodChain
  <2> QED
    BY Zenon, <1>3, <1>5, <2>1 DEF GoodChain
<1>8. ASSUME NEW i \in 1..Len(c)
      PROVE  /\ BlockTxs(c[i]) \cap BlockTxs(b) = {}
             /\ ImagesOf(BlockTxs(c[i])) \cap ImagesOf(BlockTxs(b)) = {}
  <2>1. c[i] \in Range(c)
    BY Zenon, <1>1, Members
  <2>2. BlockTxs(c[i]) \subseteq TxsOf(c)
    BY <2>1, TxsOfBlock
  <2>3. \A t \in BlockTxs(b) : t \notin TxsOf(c) /\ Tx[t].images \cap ImagesOf(TxsOf(c)) = {}
    BY Zenon DEF SpendsRight, BlockTxs
  <2>4. ImagesOf(BlockTxs(c[i])) \subseteq ImagesOf(TxsOf(c))
    BY Zenon, <2>2 DEF ImagesOf
  <2>5. ImagesOf(BlockTxs(b)) \cap ImagesOf(TxsOf(c)) = {}
    <3> SUFFICES ASSUME NEW x \in ImagesOf(BlockTxs(b)), x \in ImagesOf(TxsOf(c)) PROVE FALSE
      BY Zenon
    <3>1. PICK t \in BlockTxs(b) : x \in Tx[t].images
      BY Zenon DEF ImagesOf
    <3> QED
      BY Zenon, <2>3, <3>1
  <2> QED
    BY Zenon, <2>2, <2>3, <2>4, <2>5
<1>9. SpentOnce(d)
  <2> SUFFICES ASSUME NEW i \in 1..Len(d), NEW k \in 1..Len(d), i < k
               PROVE  /\ BlockTxs(d[i]) \cap BlockTxs(d[k]) = {}
                      /\ ImagesOf(BlockTxs(d[i])) \cap ImagesOf(BlockTxs(d[k])) = {}
    BY Zenon DEF SpentOnce
  <2>1. i \in 1..Len(c) /\ d[i] = c[i]
    BY <1>3
  <2>2. CASE k = Len(c) + 1
    <3>1. d[k] = b
      BY <1>3, <2>2
    <3> QED
      BY Zenon, <1>8, <2>1, <3>1
  <2>3. CASE k # Len(c) + 1
    <3>1. k \in 1..Len(c) /\ d[k] = c[k]
      BY <1>3, <2>3
    <3> QED
      BY Zenon, <2>1, <3>1 DEF SpentOnce
  <2> QED
    BY <2>2, <2>3
<1>10. TxsOf(d) = TxsOf(c) \cup BlockTxs(b)
  BY <1>1, <1>2, TxsAppended
<1> QED
  BY Zenon, <1>2, <1>7, <1>9, <1>10

\* Chain c without its top.
LEMMA ChainPopped ==
  ASSUME NEW c, GoodChain(c), SpentOnce(c), Len(c) > 1
  PROVE  /\ TopOf(c) \in Blocks \ {Genesis} /\ TopOf(Below(c)) = ParentOf(TopOf(c))
         /\ GoodChain(Below(c)) /\ SpentOnce(Below(c))
         /\ TxsOf(c) = TxsOf(Below(c)) \cup BlockTxs(TopOf(c))
         /\ TxsOf(Below(c)) \cap BlockTxs(TopOf(c)) = {}
<1>1. c \in Seq(Blocks) /\ c # <<>> /\ c = PathTo[TopOf(c)]
  BY DEF GoodChain
<1>2. PICK b \in Blocks : b = TopOf(c)
  BY <1>1, Ends
<1>3. b # Genesis
  <2>1. b = Genesis => Len(PathTo[b]) = 1
    BY PathFacts
  <2>2. Len(c) = Len(PathTo[TopOf(c)])
    BY Zenon, <1>1
  <2>3. Len(c) = Len(PathTo[b])
    BY Zenon, <1>2, <2>2
  <2>4. PICK n : n = Len(c) /\ n > 1
    BY Zenon
  <2>5. n \in Nat
    BY <1>1, <2>4
  <2>6. n # 1
    BY <2>4, <2>5
  <2> QED
    BY Zenon, <2>1, <2>3, <2>4, <2>6
<1>4. PICK a \in Blocks : a = ParentOf(b)
  BY <1>3, PathFacts
<1>5. PICK d \in Seq(Blocks) : d = PathTo[a]
  BY PathFacts
<1>6. Below(c) = d /\ c = Append(d, b)
  BY <1>1, <1>2, <1>3, <1>4, <1>5, PathFacts
<1>7. d # <<>> /\ TopOf(d) = a
  BY <1>5, PathFacts
<1>8. Range(c) = Range(d) \cup {b}
  BY <1>6, MembersAppended
<1>9. TxsOf(c) = TxsOf(d) \cup BlockTxs(b)
  BY <1>6, TxsAppended
<1>10. GoodChain(d)
  <2>1. \A e \in Range(d) \ {Genesis} :
          Tree[e].sound /\ Tree[e].reward /\ SpendsRight(PathTo[ParentOf(e)], e)
    BY Zenon, <1>8 DEF GoodChain
  <2> QED
    BY Zenon, <1>5, <1>7, <2>1 DEF GoodChain
<1>11. SpentOnce(d)
  <2>1. Len(c) = Len(d) + 1 /\ Len(d) \in Nat /\ \A i \in 1..Len(d) : c[i] = d[i] /\ i \in 1..Len(c)
    <3>1. Len(c) = Len(d) + 1 /\ Len(d) \in Nat /\ \A i \in 1..Len(d) : c[i] = d[i]
      BY <1>6, Appended
    <3> QED
      BY <3>1
  <2> QED
    BY Zenon, <2>1 DEF SpentOnce
<1>12. TxsOf(d) \cap BlockTxs(b) = {}
  <2>1. b \in Range(c) \ {Genesis}
    BY Zenon, <1>3, <1>8
  <2>2. SpendsRight(d, b)
    BY Zenon, <1>4, <1>5, <2>1 DEF GoodChain
  <2> QED
    BY Zenon, <2>2 DEF SpendsRight, BlockTxs
<1> QED
  BY Zenon, <1>2, <1>3, <1>4, <1>6, <1>7, <1>9, <1>10, <1>11, <1>12

-----------------------------------------------------------------------------
(* The invariant *)

JobType ==
  [chain : Seq(Blocks \ {Genesis}), next : Nat \ {0}, split : Nat, old : Seq(Blocks \ {Genesis}),
   discard : BOOLEAN]

\* The disconnected blocks can be connected again on top of block b.
Follows(old, b) == Joined(old) /\ (old # <<>> => ParentOf(old[1]) = b)

\* A switch: it disconnects down to a block of the main chain, connects blocks that follow
\* one another, and knows how far it has to go back when it fails.
SwitchInv ==
  /\ pc = "disconnect" =>
       /\ job.chain # <<>> /\ job.next = 1 /\ Joined(job.chain)
       /\ ParentOf(job.chain[1]) \in Range(main)
       /\ Follows(job.old, Top)
  /\ pc = "connect" =>
       /\ job.chain # <<>> /\ Joined(job.chain)
       /\ job.split \in 1..Len(main)
       /\ job.next = 1 => Top = ParentOf(job.chain[1])
       /\ job.next > 1 => job.next - 1 \in 1..Len(job.chain) /\ Top = job.chain[job.next - 1]
       /\ job.next <= Len(job.chain) => Follows(job.old, main[job.split])
  /\ pc = "rollback" => job.split \in 1..Len(main) /\ Follows(job.old, main[job.split])
  /\ pc = "restore" => Follows(job.old, Top)

\* Chain c agrees with the checkpoints below height n.
Agrees(c, n, points) == \A h \in DOMAIN points : h < n /\ h < Len(c) => c[h + 1] = points[h]

\* While blocks are rolled back because of a new checkpoint, those to be kept agree.
AgreesInv ==
  /\ DOMAIN checkpoints \subseteq Nat
  /\ \A h \in DOMAIN Checkpoints : h \in DOMAIN checkpoints /\ checkpoints[h] = Checkpoints[h]
  /\ Agrees(main, IF pc = "rollback" THEN job.split ELSE Len(main), checkpoints)
  /\ Agrees(disk.main, Len(disk.main), Checkpoints)

\* No transaction waits in the pool that is in the chain.
Apart(p, c) == p \cap TxsOf(c) = {}

ChainInv ==
  /\ pc \in {"idle", "disconnect", "connect", "rollback", "restore"}
  /\ job \in JobType
  /\ GoodChain(main) /\ SpentOnce(main) /\ Apart(pool, main)
  /\ GoodChain(disk.main) /\ SpentOnce(disk.main) /\ Apart(disk.pool, disk.main)
  /\ SwitchInv
  /\ AgreesInv

\* What the checks of a block that is connected have shown.
LEMMA VerdictOk ==
  ASSUME NEW b \in Blocks, NEW p, Verdict(b, p) = "ok"
  PROVE  /\ Tree[b].sound /\ Tree[b].reward /\ SpendsRight(main, b)
         /\ Len(main) \in DOMAIN checkpoints => checkpoints[Len(main)] = b
<1>1. HeaderVerdict(b)
  BY DEF Verdict
<1>2. BadTxs(b, p) = {}
  <2> SUFFICES ASSUME BadTxs(b, p) # {} PROVE FALSE
    OBVIOUS
  <2>1. Tree[b].txs \in Seq(Txs)
    BY TreeAssumption
  <2>2. DOMAIN Tree[b].txs \subseteq Nat
    BY <2>1
  <2>3. BadTxs(b, p) \in SUBSET Nat
    BY Zenon, <2>2 DEF BadTxs
  <2>4. Min(BadTxs(b, p)) \in BadTxs(b, p)
    BY <2>3, MinIn
  <2>5. TxVerdict(Tree[b].txs[Min(BadTxs(b, p))], p) # "ok"
    BY Zenon, <2>4 DEF BadTxs
  <2> QED
    BY Zenon, <1>1, <2>5 DEF Verdict
<1>3. Tree[b].reward
  <2>1. "refused" # "ok"
    OBVIOUS
  <2> QED
    BY Zenon, <1>1, <1>2, <2>1 DEF Verdict
<1>4. ASSUME NEW t \in Range(Tree[b].txs)
      PROVE  /\ t \notin TxsOf(main) /\ Tx[t].uses \in Range(main)
             /\ Tx[t].images \cap ImagesOf(TxsOf(main)) = {}
  <2>1. PICK i \in DOMAIN Tree[b].txs : Tree[b].txs[i] = t
    BY Zenon DEF Range
  <2>2. TxVerdict(t, p) = "ok"
    BY Zenon, <1>2, <2>1 DEF BadTxs
  <2>3. "refused" # "ok" /\ "invalid" # "ok"
    OBVIOUS
  <2>4. t \notin TxsOf(main) /\ check_tx_inputs(t)
    BY Zenon, <2>2, <2>3 DEF TxVerdict
  <2> QED
    BY Zenon, <2>4 DEF check_tx_inputs
<1> QED
  BY Zenon, <1>1, <1>3, <1>4 DEF HeaderVerdict, check_block, SpendsRight

\* Pieces of an agreement with checkpoints.
LEMMA AgreesConnected ==
  ASSUME NEW c \in Seq(Blocks), NEW b \in Blocks, NEW points, DOMAIN points \subseteq Nat,
         Agrees(c, Len(c), points), Len(c) \in DOMAIN points => points[Len(c)] = b
  PROVE  Agrees(Append(c, b), Len(Append(c, b)), points)
<1>1. PICK d \in Seq(Blocks) : d = Append(c, b)
  BY Appended
<1>2. Len(d) = Len(c) + 1 /\ Len(c) \in Nat /\ (\A i \in 1..Len(c) : d[i] = c[i]) /\ d[Len(c) + 1] = b
  BY <1>1, Appended
<1>3. ASSUME NEW h \in DOMAIN points, h < Len(d)
      PROVE  d[h + 1] = points[h]
  <2>1. h \in Nat
    OBVIOUS
  <2>2. CASE h = Len(c)
    BY <1>2, <2>2
  <2>3. CASE h # Len(c)
    <3>1. h < Len(c) /\ h + 1 \in 1..Len(c)
      BY <1>2, <1>3, <2>1, <2>3
    <3> QED
      BY <1>2, <3>1 DEF Agrees
  <2> QED
    BY <2>2, <2>3
<1> QED
  BY Zenon, <1>1, <1>3 DEF Agrees

LEMMA AgreesPopped ==
  ASSUME NEW c \in Seq(Blocks), c # <<>>, NEW points, DOMAIN points \subseteq Nat, NEW n \in Nat,
         Agrees(c, n, points)
  PROVE  Agrees(Below(c), n, points)
<1>1. PICK d \in Seq(Blocks) : d = Below(c)
  BY Ends
<1>2. Len(c) \in Nat \ {0} /\ Len(d) = Len(c) - 1 /\ \A i \in 1..Len(c) - 1 : d[i] = c[i]
  BY <1>1, Ends
<1>3. ASSUME NEW h \in DOMAIN points, h < n, h < Len(d)
      PROVE  d[h + 1] = points[h]
  <2>1. h \in Nat
    OBVIOUS
  <2>2. h < Len(c) /\ h + 1 \in 1..Len(c) - 1
    BY <1>2, <1>3, <2>1
  <2> QED
    BY <1>2, <1>3, <2>2 DEF Agrees
<1> QED
  BY Zenon, <1>1, <1>3 DEF Agrees

\* A job's fields.
LEMMA JobFields ==
  ASSUME job \in JobType
  PROVE  /\ job.chain \in Seq(Blocks \ {Genesis}) /\ job.next \in Nat \ {0} /\ job.split \in Nat
         /\ job.old \in Seq(Blocks \ {Genesis}) /\ job.discard \in BOOLEAN
  BY DEF JobType

LEMMA NoJobTyped == NoJob \in JobType /\ NoJob.old = <<>> /\ NoJob.chain = <<>>
  BY DEF NoJob, JobType

-----------------------------------------------------------------------------
(* Connecting and popping *)

\* The main chain and the pool after a block was connected.
LEMMA Connected ==
  ASSUME ChainInv, pc # "rollback", NEW b \in Blocks \ {Genesis}, ParentOf(b) = Top, NEW p,
         Apart(p, main), Verdict(b, p) = "ok", Connect(b, p)
  PROVE  /\ main' = Append(main, b) /\ GoodChain(main') /\ SpentOnce(main') /\ Apart(pool', main')
         /\ Agrees(main', Len(main'), checkpoints)
         /\ TopOf(main') = b /\ Len(main') = Len(main) + 1 /\ Len(main) \in Nat \ {0}
         /\ \A i \in 1..Len(main) : main'[i] = main[i]
<1>1. main' = Append(main, b) /\ pool' = p \ BlockTxs(b)
  BY Zenon DEF Connect, BlockTxs
<1>2. /\ Tree[b].sound /\ Tree[b].reward /\ SpendsRight(main, b)
      /\ Len(main) \in DOMAIN checkpoints => checkpoints[Len(main)] = b
  BY VerdictOk
<1>3. GoodChain(main) /\ SpentOnce(main) /\ DOMAIN checkpoints \subseteq Nat
  BY Zenon DEF ChainInv, AgreesInv
<1>4. main \in Seq(Blocks) /\ main # <<>>
  BY Zenon, <1>3 DEF GoodChain
<1>5. GoodChain(Append(main, b)) /\ SpentOnce(Append(main, b))
      /\ TxsOf(Append(main, b)) = TxsOf(main) \cup BlockTxs(b)
  BY Zenon, <1>2, <1>3, ChainConnected DEF Top
<1>6. Apart(pool', main')
  BY Zenon, <1>1, <1>5 DEF Apart
<1>7. Agrees(main, Len(main), checkpoints)
  BY Zenon DEF ChainInv, AgreesInv
<1>8. Agrees(Append(main, b), Len(Append(main, b)), checkpoints)
  BY <1>2, <1>3, <1>4, <1>7, AgreesConnected
<1>9. /\ TopOf(Append(main, b)) = b /\ Len(Append(main, b)) = Len(main) + 1
      /\ \A i \in 1..Len(main) : Append(main, b)[i] = main[i]
  BY <1>4, Appended
<1>10. Len(main) \in Nat \ {0}
  BY <1>4
<1> QED
  BY Zenon, <1>1, <1>5, <1>6, <1>8, <1>9, <1>10

\* The main chain and the pool after its top was popped.
LEMMA PoppedTop ==
  ASSUME ChainInv, Len(main) > 1, Pop
  PROVE  /\ main' = Below(main) /\ GoodChain(main') /\ SpentOnce(main') /\ Apart(pool', main')
         /\ Top \in Blocks \ {Genesis} /\ TopOf(main') = ParentOf(Top)
         /\ Len(main') = Len(main) - 1 /\ Len(main) \in Nat \ {0}
         /\ \A i \in 1..Len(main) - 1 : main'[i] = main[i]
         /\ \A b \in Range(main) : b # Top => b \in Range(main')
         /\ \A n \in Nat : Agrees(main, n, checkpoints) => Agrees(main', n, checkpoints)
<1>1. main' = Below(main) /\ pool' \subseteq pool \cup BlockTxs(Top)
  BY Zenon DEF Pop, BlockTxs
<1>2. GoodChain(main) /\ SpentOnce(main) /\ Apart(pool, main) /\ DOMAIN checkpoints \subseteq Nat
  BY Zenon DEF ChainInv, AgreesInv
<1>3. main \in Seq(Blocks) /\ main # <<>>
  BY Zenon, <1>2 DEF GoodChain
<1>4. /\ TopOf(main) \in Blocks \ {Genesis} /\ TopOf(Below(main)) = ParentOf(TopOf(main))
      /\ GoodChain(Below(main)) /\ SpentOnce(Below(main))
      /\ TxsOf(main) = TxsOf(Below(main)) \cup BlockTxs(TopOf(main))
      /\ TxsOf(Below(main)) \cap BlockTxs(TopOf(main)) = {}
  BY Zenon, <1>2, ChainPopped
<1>5. Apart(pool', main')
  BY Zenon, <1>1, <1>2, <1>4 DEF Apart, Top
<1>6. /\ Len(Below(main)) = Len(main) - 1 /\ Len(main) \in Nat \ {0}
      /\ \A i \in 1..Len(main) - 1 : Below(main)[i] = main[i]
  BY <1>3, Ends
<1>7. Range(main) \ {TopOf(main)} \subseteq Range(Below(main))
  BY <1>3, MembersFront
<1>8. \A n \in Nat : Agrees(main, n, checkpoints) => Agrees(Below(main), n, checkpoints)
  BY <1>2, <1>3, AgreesPopped
<1> QED
  BY Zenon, <1>1, <1>4, <1>5, <1>6, <1>7, <1>8 DEF Top

\* The invariant after a step that does not write to the disk, put together.
LEMMA Assembled ==
  ASSUME ChainInv, disk' = disk, pc' \in {"idle", "disconnect", "connect", "rollback", "restore"},
         job' \in JobType, GoodChain(main'), SpentOnce(main'), Apart(pool', main'), SwitchInv',
         DOMAIN checkpoints' \subseteq Nat,
         \A h \in DOMAIN Checkpoints : h \in DOMAIN checkpoints' /\ checkpoints'[h] = Checkpoints[h],
         pc' = "rollback" => Agrees(main', job'.split, checkpoints'),
         pc' # "rollback" => Agrees(main', Len(main'), checkpoints')
  PROVE  ChainInv'
<1>1. /\ GoodChain(disk.main) /\ SpentOnce(disk.main) /\ Apart(disk.pool, disk.main)
      /\ Agrees(disk.main, Len(disk.main), Checkpoints)
  BY Zenon DEF ChainInv, AgreesInv
<1>2. /\ GoodChain(disk'.main) /\ SpentOnce(disk'.main) /\ Apart(disk'.pool, disk'.main)
      /\ Agrees(disk'.main, Len(disk'.main), Checkpoints)
  BY Zenon, <1>1
<1>3. AgreesInv'
  BY Zenon, <1>2 DEF AgreesInv
<1> QED
  BY Zenon, <1>2, <1>3 DEF ChainInv

\* The same for a step that leaves the checkpoints as they are.
LEMMA AssembledSame ==
  ASSUME ChainInv, disk' = disk, checkpoints' = checkpoints,
         pc' \in {"idle", "disconnect", "connect", "rollback", "restore"},
         job' \in JobType, GoodChain(main'), SpentOnce(main'), Apart(pool', main'), SwitchInv',
         pc' = "rollback" => Agrees(main', job'.split, checkpoints),
         pc' # "rollback" => Agrees(main', Len(main'), checkpoints)
  PROVE  ChainInv'
<1>1. /\ DOMAIN checkpoints' \subseteq Nat
      /\ \A h \in DOMAIN Checkpoints : h \in DOMAIN checkpoints' /\ checkpoints'[h] = Checkpoints[h]
  BY Zenon DEF ChainInv, AgreesInv
<1>2. pc' = "rollback" => Agrees(main', job'.split, checkpoints')
  BY Zenon
<1>3. pc' # "rollback" => Agrees(main', Len(main'), checkpoints')
  BY Zenon
<1> QED
  BY Zenon, <1>1, <1>2, <1>3, Assembled

LEMMA IdleSwitch ==
  ASSUME pc' = "idle"
  PROVE  SwitchInv'
<1>1. pc' # "disconnect" /\ pc' # "connect" /\ pc' # "rollback" /\ pc' # "restore"
  OBVIOUS
<1> QED
  BY Zenon, <1>1 DEF SwitchInv

\* Steps that change the pool only.
LEMMA PoolStep ==
  ASSUME ChainInv, pc = "idle", UNCHANGED <<main, checkpoints, pc, job, disk>>, Apart(pool', main)
  PROVE  ChainInv'
<1>1. /\ pc' \in {"idle", "disconnect", "connect", "rollback", "restore"}
      /\ job' \in JobType /\ GoodChain(main') /\ SpentOnce(main') /\ Apart(pool', main')
  BY Zenon DEF ChainInv
<1>2. SwitchInv'
  BY IdleSwitch
<1>3. Agrees(main', Len(main'), checkpoints) /\ pc' # "rollback"
  BY Zenon DEF ChainInv, AgreesInv
<1> QED
  BY Zenon, <1>1, <1>2, <1>3, AssembledSame

-----------------------------------------------------------------------------
(* The steps *)

LEMMA DeliveredApart ==
  ASSUME NEW b, Apart(pool, main)
  PROVE  Apart(Delivered(b), main)
  BY Zenon DEF Apart, Delivered

LEMMA RefusalApart ==
  ASSUME NEW b, NEW p, Apart(p, main)
  PROVE  Apart(PoolAfterRefusal(b, p), main)
<1>1. PoolAfterRefusal(b, p) \subseteq p
  BY Zenon DEF PoolAfterRefusal
<1> QED
  BY Zenon, <1>1 DEF Apart

LEMMA AddTxSafe ==
  ASSUME ChainInv, NEW t \in Txs, AddTx(t)
  PROVE  ChainInv'
<1>1. Apart(pool', main)
  BY Zenon DEF AddTx, Apart, ChainInv
<1> QED
  BY Zenon, <1>1, PoolStep DEF AddTx

LEMMA RefuseBlockSafe ==
  ASSUME ChainInv, NEW b, RefuseBlock(b)
  PROVE  ChainInv'
<1>1. Apart(Delivered(b), main) /\ Apart(pool, main)
  BY Zenon, DeliveredApart DEF ChainInv
<1>2. Apart(pool', main)
  BY Zenon, <1>1 DEF RefuseBlock, Apart
<1> QED
  BY Zenon, <1>2, PoolStep DEF RefuseBlock

LEMMA AddKnownBlockSafe ==
  ASSUME ChainInv, NEW b, AddKnownBlock(b)
  PROVE  ChainInv'
<1>1. Apart(Delivered(b), main)
  BY Zenon, DeliveredApart DEF ChainInv
<1>2. Apart(pool', main)
  BY Zenon, <1>1 DEF AddKnownBlock
<1> QED
  BY Zenon, <1>2, PoolStep DEF AddKnownBlock

LEMMA AddNextBlockSafe ==
  ASSUME ChainInv, NEW b \in Blocks \ {Genesis}, AddNextBlock(b)
  PROVE  ChainInv'
<1>1. /\ pc = "idle" /\ ParentOf(b) = Top
      /\ checkpoints' = checkpoints /\ pc' = pc /\ job' = job /\ disk' = disk
  BY Zenon DEF AddNextBlock, ParentOf
<1>2. PICK p : p = Delivered(b)
  BY Zenon
<1>3. Apart(p, main)
  BY Zenon, <1>2, DeliveredApart DEF ChainInv
<1>4. CASE Verdict(b, p) = "ok"
  <2>1. Connect(b, p)
    BY Zenon, <1>2, <1>4 DEF AddNextBlock
  <2>2. pc # "rollback"
    BY <1>1
  <2>3. /\ GoodChain(main') /\ SpentOnce(main') /\ Apart(pool', main')
        /\ Agrees(main', Len(main'), checkpoints)
    BY Zenon, <1>1, <1>3, <1>4, <2>1, <2>2, Connected
  <2>4. SwitchInv'
    BY <1>1, IdleSwitch
  <2>5. job' \in JobType /\ pc' \in {"idle", "disconnect", "connect", "rollback", "restore"}
    BY Zenon, <1>1 DEF ChainInv
  <2> QED
    BY Zenon, <1>1, <2>2, <2>3, <2>4, <2>5, AssembledSame
<1>5. CASE Verdict(b, p) # "ok"
  <2>1. main' = main /\ pool' = PoolAfterRefusal(b, p)
    BY Zenon, <1>2, <1>5 DEF AddNextBlock
  <2>2. Apart(pool', main)
    BY Zenon, <1>3, <2>1, RefusalApart
  <2> QED
    BY Zenon, <1>1, <2>1, <2>2, PoolStep
<1> QED
  BY <1>4, <1>5

\* The alternative blocks up to b, when it is not refused: they follow one another from a
\* block of the main chain on.
LEMMA AltPathJoined ==
  ASSUME ChainInv, NEW b \in Blocks \ {Genesis}, ~AltRefused(b)
  PROVE  /\ AltPath(b) \in Seq(Blocks \ {Genesis}) /\ AltPath(b) # <<>> /\ Joined(AltPath(b))
         /\ ParentOf(AltPath(b)[1]) \in Range(main)
<1>1. PICK p \in Seq(Blocks) : p = PathTo[b]
  BY PathFacts
<1>2. /\ Len(p) \in Nat /\ Len(p) > 1 /\ p # <<>> /\ TopOf(p) = b /\ p = Append(PathTo[ParentOf(b)], b)
      /\ ParentOf(b) \in Blocks /\ Len(p) = Len(PathTo[ParentOf(b)]) + 1
  BY <1>1, PathFacts
<1>3. Joined(p)
  BY <1>1, PathJoined
<1>4. p[Len(p)] = b
  BY <1>2, Ends
<1>5. p[Len(p) - 1] = ParentOf(b)
  <2>1. Len(p) \in 2..Len(p)
    BY <1>2
  <2> QED
    BY <1>3, <1>4, <2>1 DEF Joined
<1> DEFINE S == {i \in 2..Len(p) : i = 2 \/ p[i - 1] \notin alt}
<1>6. S \in SUBSET (0..Len(p)) /\ 2 \in S
  BY <1>2
<1>7. PICK f : f = Max(S)
  BY Zenon
<1>8. f \in S /\ \A i \in S : i <= f
  <2> HIDE DEF S
  <2> QED
    BY <1>2, <1>6, <1>7, MaxIn
<1>9. f \in 2..Len(p)
  BY <1>8
<1>10. AltPath(b) = SubSeq(p, f, Len(p))
  BY Zenon, <1>1, <1>7 DEF AltPath
<1>11. PICK n \in Nat \ {0} : n = Len(p) - f + 1
  <2>1. PICK m \in Nat : m = Len(p)
    BY Zenon, <1>2
  <2>2. f \in 2..m
    BY <1>9, <2>1
  <2>3. m - f + 1 \in Nat \ {0}
    BY <2>2
  <2> QED
    BY Zenon, <2>1, <2>3
<1>12. \A i \in f..Len(p) : p[i] \in Blocks \ {Genesis}
  <2> SUFFICES ASSUME NEW i \in f..Len(p) PROVE p[i] \in Blocks \ {Genesis}
    BY Zenon
  <2>1. i \in 2..Len(p) /\ i \in 1..Len(p)
    BY <1>2, <1>9
  <2>2. p[i] # Genesis
    BY <1>3, <2>1 DEF Joined
  <2> QED
    BY <1>1, <2>1, <2>2
<1>13. PICK c \in Seq(Blocks \ {Genesis}) : c = AltPath(b)
  <2>1. SubSeq(p, f, Len(p)) \in Seq(Blocks \ {Genesis})
    BY <1>2, <1>9, <1>12, SubSeqProperties
  <2> QED
    BY <1>10, <2>1
<1>14. Len(c) = n /\ \A i \in 1..n : c[i] = p[f + i - 1]
  <2>1. Len(SubSeq(p, f, Len(p))) = n
    BY <1>2, <1>9, <1>11, SubSeqProperties
  <2>2. \A i \in 1..n : SubSeq(p, f, Len(p))[i] = p[f + i - 1]
    BY <1>2, <1>9, <1>11, SubSeqProperties
  <2> QED
    BY <1>10, <1>13, <2>1, <2>2
<1>15. c # <<>> /\ c[1] = p[f]
  BY <1>9, <1>11, <1>14
<1>16. Joined(c)
  <2> SUFFICES ASSUME NEW i \in 2..Len(c) PROVE c[i] # Genesis /\ ParentOf(c[i]) = c[i - 1]
    BY Zenon DEF Joined
  <2>1. i \in 1..n /\ i - 1 \in 1..n
    BY <1>11, <1>14
  <2>2. PICK k \in Nat : k = f + i - 1
    BY <1>9, <2>1
  <2>3. k \in 2..Len(p) /\ f + (i - 1) - 1 = k - 1
    BY <1>2, <1>9, <1>11, <2>1, <2>2
  <2>4. c[i] = p[k] /\ c[i - 1] = p[k - 1]
    BY <1>14, <2>1, <2>2, <2>3
  <2> QED
    BY <1>3, <2>3, <2>4 DEF Joined
<1>17. ParentOf(c[1]) \in Range(main)
  <2>1. ParentOf(b) \in alt \cup Range(main)
    BY Zenon DEF AltRefused, ParentOf
  <2>2. CASE ParentOf(b) \in alt
    <3>1. Tree[Head(AltPath(b))].parent \in Range(main)
      BY Zenon, <2>2 DEF AltRefused, ParentOf
    <3>2. Head(c) = c[1]
      BY <1>15
    <3> QED
      BY Zenon, <1>13, <3>1, <3>2 DEF ParentOf
  <2>3. CASE ParentOf(b) \notin alt
    <3>1. Len(p) \in S
      BY <1>2, <1>5, <2>3
    <3>2. f = Len(p)
      BY <1>2, <1>8, <1>9, <3>1
    <3>3. c[1] = b
      BY <1>4, <1>15, <3>2
    <3> QED
      BY Zenon, <2>1, <2>3, <3>3
  <2> QED
    BY <2>2, <2>3
<1> QED
  BY <1>13, <1>15, <1>16, <1>17

LEMMA AddAlternativeBlockSafe ==
  ASSUME ChainInv, NEW b \in Blocks \ {Genesis}, AddAlternativeBlock(b)
  PROVE  ChainInv'
<1>1. /\ pc = "idle" /\ pool' = Delivered(b)
      /\ main' = main /\ checkpoints' = checkpoints /\ disk' = disk
  BY Zenon DEF AddAlternativeBlock
<1>2. Apart(pool', main)
  BY Zenon, <1>1, DeliveredApart DEF ChainInv
<1>3. CASE pc' = pc /\ job' = job
  BY Zenon, <1>1, <1>2, <1>3, PoolStep
<1>4. CASE ~(pc' = pc /\ job' = job)
  <2>1. ~AltRefused(b)
    BY Zenon, <1>4 DEF AddAlternativeBlock
  <2>2. PICK c : c = AltPath(b)
    BY Zenon
  <2>3. /\ c \in Seq(Blocks \ {Genesis}) /\ c # <<>> /\ Joined(c)
        /\ ParentOf(c[1]) \in Range(main)
    BY Zenon, <2>1, <2>2, AltPathJoined
  <2>4. PICK checkpoint \in BOOLEAN : pc' = "disconnect" /\ job' = [NoJob EXCEPT !.chain = c, !.discard = checkpoint]
    <3>1. (get_block_height(b) \in DOMAIN checkpoints) \in BOOLEAN
      OBVIOUS
    <3> QED
      BY Zenon, <1>4, <2>2, <3>1 DEF AddAlternativeBlock
  <2>5. job' = [chain |-> c, next |-> 1, split |-> 0, old |-> <<>>, discard |-> checkpoint]
    BY <2>4 DEF NoJob
  <2>6. job' \in JobType
    BY <2>3, <2>5 DEF JobType
  <2>7. job'.chain = c /\ job'.next = 1 /\ job'.old = <<>>
    BY <2>5
  <2>8. Follows(<<>>, Top)
    BY DEF Follows, Joined
  <2>9. SwitchInv'
    <3>1. /\ job'.chain # <<>> /\ job'.next = 1 /\ Joined(job'.chain)
          /\ ParentOf(job'.chain[1]) \in Range(main')
      BY Zenon, <1>1, <2>3, <2>7
    <3>2. Top' = Top
      BY Zenon, <1>1 DEF Top
    <3>3. Follows(job'.old, Top')
      BY Zenon, <2>7, <2>8, <3>2
    <3>4. pc' # "connect" /\ pc' # "rollback" /\ pc' # "restore"
      BY <2>4
    <3> QED
      BY Zenon, <3>1, <3>3, <3>4 DEF SwitchInv
  <2>10. /\ GoodChain(main') /\ SpentOnce(main') /\ Apart(pool', main')
         /\ Agrees(main', Len(main'), checkpoints)
    <3>1. pc # "rollback"
      BY <1>1
    <3> QED
      BY Zenon, <1>1, <1>2, <3>1 DEF ChainInv, AgreesInv
  <2>11. pc' # "rollback" /\ pc' \in {"idle", "disconnect", "connect", "rollback", "restore"}
    BY <2>4
  <2> QED
    BY Zenon, <1>1, <2>6, <2>9, <2>10, <2>11, AssembledSame
<1> QED
  BY Zenon, <1>3, <1>4

\* Checkpoints from a file only come on top of those there are.
LEMMA UpdateCheckpointsSafe ==
  ASSUME ChainInv, NEW file \in CheckpointFiles, UpdateCheckpoints(file)
  PROVE  ChainInv'
<1>1. /\ pc = "idle" /\ checkpoints' = load_checkpoints_from_json(file)
      /\ main' = main /\ pool' = pool /\ disk' = disk
  BY Zenon DEF UpdateCheckpoints, chain_vars
<1>2. /\ DOMAIN checkpoints \subseteq Nat
      /\ \A h \in DOMAIN Checkpoints : h \in DOMAIN checkpoints /\ checkpoints[h] = Checkpoints[h]
      /\ Agrees(main, Len(main), checkpoints)
  <2>1. pc # "rollback"
    BY <1>1
  <2> QED
    BY Zenon, <2>1 DEF ChainInv, AgreesInv
<1>3. GoodChain(main) /\ main \in Seq(Blocks) /\ main # <<>>
  BY Zenon DEF ChainInv, GoodChain
<1>4. Len(main) \in Nat \ {0}
  BY <1>3
<1> DEFINE new == {h \in DOMAIN file : \A k \in DOMAIN checkpoints : h > k}
<1>5. \A h \in new : h \in Nat /\ h > 2 /\ h \notin DOMAIN checkpoints
  <2> SUFFICES ASSUME NEW h \in new PROVE h \in Nat /\ h > 2 /\ h \notin DOMAIN checkpoints
    BY Zenon
  <2>1. h \in DOMAIN file /\ \A k \in DOMAIN checkpoints : h > k
    BY Zenon
  <2>2. h \in Nat /\ h > 2
    BY <2>1, CheckpointAssumption
  <2>3. ~(h > h)
    BY <2>2
  <2> QED
    BY Zenon, <2>1, <2>2, <2>3
<1>6. /\ DOMAIN checkpoints' = DOMAIN checkpoints \cup new
      /\ \A h \in DOMAIN checkpoints : checkpoints'[h] = checkpoints[h]
  <2>1. checkpoints' = [h \in DOMAIN checkpoints \cup new |-> IF h \in new THEN file[h] ELSE checkpoints[h]]
    BY Zenon, <1>1 DEF load_checkpoints_from_json
  <2> HIDE DEF new
  <2> QED
    BY Zenon, <1>5, <2>1
<1>7. /\ DOMAIN checkpoints' \subseteq Nat
      /\ \A h \in DOMAIN Checkpoints : h \in DOMAIN checkpoints' /\ checkpoints'[h] = Checkpoints[h]
  <2> HIDE DEF new
  <2> QED
    BY Zenon, <1>2, <1>5, <1>6
<1> DEFINE wrong == {h \in DOMAIN checkpoints' : h < Len(main) /\ h > 1 /\ main[h + 1] # checkpoints'[h]}
<1>8. \A h \in DOMAIN checkpoints' : h < Len(main) => h \in wrong \/ main[h + 1] = checkpoints'[h]
  <2> SUFFICES ASSUME NEW h \in DOMAIN checkpoints', h < Len(main), main[h + 1] # checkpoints'[h]
               PROVE  h \in wrong
    BY Zenon
  <2>1. CASE h \in new
    <3>1. h > 1
      BY <1>5, <2>1
    <3> QED
      BY Zenon, <3>1
  <2>2. CASE h \notin new
    <3> HIDE DEF new
    <3>1. h \in DOMAIN checkpoints /\ checkpoints'[h] = checkpoints[h]
      BY Zenon, <1>6, <2>2
    <3> QED
      BY Zenon, <1>2, <3>1 DEF Agrees
  <2> QED
    BY Zenon, <2>1, <2>2
<1>9. \A h \in wrong : h \in new
  <2> SUFFICES ASSUME NEW h \in wrong, h \notin new PROVE FALSE
    BY Zenon
  <2>1. h \in DOMAIN checkpoints' /\ h < Len(main) /\ main[h + 1] # checkpoints'[h]
    BY Zenon
  <2> HIDE DEF new, wrong
  <2>2. h \in DOMAIN checkpoints /\ checkpoints'[h] = checkpoints[h]
    BY Zenon, <1>6, <2>1
  <2> QED
    BY Zenon, <1>2, <2>1, <2>2 DEF Agrees
<1>10. GoodChain(main') /\ SpentOnce(main') /\ Apart(pool', main')
  BY Zenon, <1>1 DEF ChainInv
<1>11. CASE wrong = {}
  <2>1. pc' = pc /\ job' = job
    BY Zenon, <1>1, <1>11 DEF UpdateCheckpoints
  <2>2. Agrees(main', Len(main'), checkpoints')
    <3> HIDE DEF wrong
    <3> QED
      BY Zenon, <1>1, <1>8, <1>11 DEF Agrees
  <2>3. SwitchInv'
    BY <1>1, <2>1, IdleSwitch
  <2>4. job' \in JobType /\ pc' \in {"idle", "disconnect", "connect", "rollback", "restore"}
    BY Zenon, <2>1 DEF ChainInv
  <2>5. pc' # "rollback"
    BY <1>1, <2>1
  <2> QED
    BY Zenon, <1>1, <1>7, <1>10, <2>2, <2>3, <2>4, <2>5, Assembled
<1>12. CASE wrong # {}
  <2>1. PICK m : m = Min(wrong)
    BY Zenon
  <2>2. m \in wrong /\ (\A h \in wrong : m <= h) /\ wrong \subseteq Nat
    <3>1. wrong \in SUBSET Nat
      BY Zenon, <1>7
    <3> HIDE DEF wrong
    <3> QED
      BY <1>12, <2>1, <3>1, MinIn
  <2>3. m \in Nat /\ m < Len(main) /\ m > 2
    <3>1. m < Len(main)
      BY Zenon, <2>2
    <3> HIDE DEF wrong
    <3>2. m \in Nat /\ m > 2
      BY Zenon, <1>5, <1>9, <2>2
    <3> QED
      BY Zenon, <3>1, <3>2
  <2>4. PICK n \in Nat : n = m - 2
    BY <2>3
  <2>5. n \in 1..Len(main) /\ n < m
    BY <1>4, <2>3, <2>4
  <2>6. pc' = "rollback" /\ job' = [NoJob EXCEPT !.split = n]
    BY Zenon, <1>1, <1>12, <2>1, <2>4 DEF UpdateCheckpoints, rollback_height
  <2>7. job' = [chain |-> <<>>, next |-> 1, split |-> n, old |-> <<>>, discard |-> FALSE]
    BY <2>6 DEF NoJob
  <2>8. job' \in JobType
    BY <2>7 DEF JobType
  <2>9. job'.split = n /\ job'.old = <<>>
    BY <2>7
  <2>10. Agrees(main', n, checkpoints')
    <3> SUFFICES ASSUME NEW h \in DOMAIN checkpoints', h < n, h < Len(main)
                 PROVE  main[h + 1] = checkpoints'[h]
      BY Zenon, <1>1 DEF Agrees
    <3>1. h \in Nat
      BY Zenon, <1>7
    <3>2. ~(m <= h)
      BY <2>3, <2>5, <3>1
    <3> HIDE DEF wrong
    <3> QED
      BY Zenon, <1>8, <2>2, <3>2
  <2>11. SwitchInv'
    <3>1. job'.split \in 1..Len(main')
      BY Zenon, <1>1, <2>5, <2>9
    <3>2. Follows(<<>>, main'[job'.split])
      BY DEF Follows, Joined
    <3>3. Follows(job'.old, main'[job'.split])
      BY Zenon, <2>9, <3>2
    <3>4. pc' # "disconnect" /\ pc' # "connect" /\ pc' # "restore"
      BY <2>6
    <3> QED
      BY Zenon, <3>1, <3>3, <3>4 DEF SwitchInv
  <2>12. pc' \in {"idle", "disconnect", "connect", "rollback", "restore"}
    BY <2>6
  <2> HIDE DEF wrong
  <2> QED
    BY Zenon, <1>1, <1>7, <1>10, <2>6, <2>8, <2>9, <2>10, <2>11, <2>12, Assembled
<1> QED
  BY Zenon, <1>11, <1>12

\* A block on top of disconnected ones that follow it.
LEMMA FollowsMore ==
  ASSUME NEW old \in Seq(Blocks \ {Genesis}), NEW b \in Blocks \ {Genesis}, Follows(old, b)
  PROVE  <<b>> \o old \in Seq(Blocks \ {Genesis}) /\ Follows(<<b>> \o old, ParentOf(b))
<1>0. <<b>> \o old \in Seq(Blocks \ {Genesis})
  <2>1. <<b>> \in Seq(Blocks \ {Genesis})
    OBVIOUS
  <2> QED
    BY <2>1
<1>1. PICK c \in Seq(Blocks \ {Genesis}) : c = <<b>> \o old
  BY Zenon, <1>0
<1>2. Len(c) = Len(old) + 1 /\ Len(old) \in Nat /\ c[1] = b /\ \A i \in 2..Len(c) : c[i] = old[i - 1]
  BY <1>1
<1>3. ASSUME NEW i \in 2..Len(c)
      PROVE  c[i] # Genesis /\ ParentOf(c[i]) = c[i - 1]
  <2>1. i \in Nat /\ c[i] = old[i - 1] /\ i - 1 \in 1..Len(old) /\ i \in 1..Len(c)
    BY <1>2
  <2>2. c[i] # Genesis
    BY <1>1, <2>1
  <2>3. CASE i = 2
    <3>1. old # <<>> /\ c[i] = old[1] /\ c[i - 1] = b
      BY <1>2, <2>1, <2>3
    <3> QED
      BY Zenon, <2>2, <3>1 DEF Follows
  <2>4. CASE i # 2
    <3>1. i - 1 \in 2..Len(old) /\ i - 1 \in 2..Len(c) /\ c[i - 1] = old[(i - 1) - 1]
      BY <1>2, <2>1, <2>4
    <3>2. ParentOf(old[i - 1]) = old[(i - 1) - 1]
      BY <3>1 DEF Follows, Joined
    <3> QED
      BY Zenon, <2>1, <2>2, <3>1, <3>2
  <2> QED
    BY <2>3, <2>4
<1> QED
  BY Zenon, <1>1, <1>2, <1>3 DEF Follows, Joined

\* The disconnected blocks without the first.
LEMMA FollowsLess ==
  ASSUME NEW old \in Seq(Blocks \ {Genesis}), old # <<>>, NEW b, Follows(old, b)
  PROVE  /\ Head(old) \in Blocks \ {Genesis} /\ ParentOf(Head(old)) = b
         /\ Tail(old) \in Seq(Blocks \ {Genesis}) /\ Follows(Tail(old), Head(old))
<1>1. Head(old) \in Blocks \ {Genesis} /\ Head(old) = old[1] /\ Len(old) \in Nat \ {0}
  OBVIOUS
<1>0. Tail(old) \in Seq(Blocks \ {Genesis})
  BY HeadTailProperties
<1>2. PICK c \in Seq(Blocks \ {Genesis}) : c = Tail(old)
  BY Zenon, <1>0
<1>3. Len(c) = Len(old) - 1 /\ \A i \in 1..Len(c) : c[i] = old[i + 1]
  BY <1>1, <1>2, HeadTailProperties
<1>4. ASSUME NEW i \in 1..Len(c)
      PROVE  c[i] # Genesis /\ ParentOf(c[i]) = old[i]
  <2>1. i + 1 \in 2..Len(old) /\ (i + 1) - 1 = i
    BY <1>1, <1>3
  <2>2. c[i] = old[i + 1]
    BY <1>3
  <2> QED
    BY <2>1, <2>2 DEF Follows, Joined
<1>5. ASSUME NEW i \in 2..Len(c)
      PROVE  c[i] # Genesis /\ ParentOf(c[i]) = c[i - 1]
  <2>1. i \in 1..Len(c) /\ i - 1 \in 1..Len(c) /\ (i - 1) + 1 = i
    BY <1>1, <1>3
  <2>2. c[i - 1] = old[i]
    BY <1>3, <2>1
  <2> QED
    BY <1>4, <2>1, <2>2
<1>6. c # <<>> => ParentOf(c[1]) = old[1]
  <2>1. c # <<>> => 1 \in 1..Len(c)
    OBVIOUS
  <2> QED
    BY Zenon, <1>4, <2>1
<1>7. ParentOf(old[1]) = b
  BY Zenon DEF Follows
<1> QED
  BY Zenon, <1>1, <1>2, <1>5, <1>6, <1>7 DEF Follows, Joined

LEMMA SwitchPopSafe ==
  ASSUME ChainInv, SwitchPop
  PROVE  ChainInv'
<1>1. /\ pc = "disconnect" /\ Top # ParentOf(job.chain[1]) /\ Pop
      /\ job' = [job EXCEPT !.old = <<Top>> \o job.old]
      /\ pc' = pc /\ disk' = disk /\ checkpoints' = checkpoints
  BY Zenon DEF SwitchPop, ParentOf
<1>2. /\ job.chain \in Seq(Blocks \ {Genesis}) /\ job.next \in Nat \ {0} /\ job.split \in Nat
      /\ job.old \in Seq(Blocks \ {Genesis}) /\ job.discard \in BOOLEAN
  BY JobFields DEF ChainInv
<1>3. /\ job.chain # <<>> /\ job.next = 1 /\ Joined(job.chain)
      /\ ParentOf(job.chain[1]) \in Range(main) /\ Follows(job.old, Top)
  BY Zenon, <1>1 DEF ChainInv, SwitchInv
<1>4. main \in Seq(Blocks) /\ main # <<>> /\ GoodChain(main)
  BY Zenon DEF ChainInv, GoodChain
<1>5. Len(main) > 1
  <2>1. PICK i \in 1..Len(main) : main[i] = ParentOf(job.chain[1])
    BY Zenon, <1>3, <1>4, Members
  <2>2. main[Len(main)] = Top
    BY <1>4, Ends DEF Top
  <2>3. i # Len(main)
    BY Zenon, <1>1, <2>1, <2>2
  <2> QED
    BY <1>4, <2>1, <2>3
<1>6. /\ GoodChain(main') /\ SpentOnce(main') /\ Apart(pool', main')
      /\ Top \in Blocks \ {Genesis} /\ TopOf(main') = ParentOf(Top)
      /\ \A b \in Range(main) : b # Top => b \in Range(main')
      /\ \A n \in Nat : Agrees(main, n, checkpoints) => Agrees(main', n, checkpoints)
      /\ Len(main') = Len(main) - 1 /\ Len(main) \in Nat \ {0}
  BY Zenon, <1>1, <1>5, PoppedTop
<1>7. PICK old \in Seq(Blocks \ {Genesis}) : old = <<Top>> \o job.old /\ Follows(old, ParentOf(Top))
  BY Zenon, <1>2, <1>3, <1>6, FollowsMore
<1>8. /\ job'.chain = job.chain /\ job'.next = job.next /\ job'.split = job.split
      /\ job'.old = old /\ job'.discard = job.discard /\ job' \in JobType
  <2>1. job \in JobType
    BY Zenon DEF ChainInv
  <2> QED
    BY <1>1, <1>7, <2>1 DEF JobType
<1>9. SwitchInv'
  <2>1. Top' = ParentOf(Top)
    BY Zenon, <1>6 DEF Top
  <2>2. Follows(job'.old, Top')
    BY Zenon, <1>7, <1>8, <2>1
  <2>3. /\ job'.chain # <<>> /\ job'.next = 1 /\ Joined(job'.chain)
        /\ ParentOf(job'.chain[1]) \in Range(main')
    BY Zenon, <1>1, <1>3, <1>6, <1>8
  <2>4. pc' # "connect" /\ pc' # "rollback" /\ pc' # "restore"
    BY <1>1
  <2> QED
    BY Zenon, <2>2, <2>3, <2>4 DEF SwitchInv
<1>10. pc' # "rollback" /\ Agrees(main, Len(main), checkpoints)
  <2>1. pc # "rollback" /\ pc' # "rollback"
    BY <1>1
  <2> QED
    BY Zenon, <2>1 DEF ChainInv, AgreesInv
<1>11. Agrees(main', Len(main'), checkpoints)
  <2>1. Agrees(main', Len(main), checkpoints)
    BY Zenon, <1>6, <1>10
  <2>2. \A h \in DOMAIN checkpoints : h < Len(main') => h < Len(main)
    <3>1. DOMAIN checkpoints \subseteq Nat
      BY Zenon DEF ChainInv, AgreesInv
    <3> QED
      BY <1>6, <3>1
  <2> QED
    BY Zenon, <2>1, <2>2 DEF Agrees
<1>12. pc' \in {"idle", "disconnect", "connect", "rollback", "restore"}
  BY Zenon, <1>1 DEF ChainInv
<1> QED
  BY Zenon, <1>1, <1>6, <1>8, <1>9, <1>10, <1>11, <1>12, AssembledSame

\* Outside a rollback the whole chain agrees with the checkpoints.
LEMMA AgreesNow ==
  ASSUME ChainInv, pc # "rollback"
  PROVE  Agrees(main, Len(main), checkpoints)
BY Zenon DEF ChainInv, AgreesInv

LEMMA SwitchPoppedSafe ==
  ASSUME ChainInv, SwitchPopped
  PROVE  ChainInv'
<1>1. /\ pc = "disconnect" /\ Top = ParentOf(job.chain[1])
      /\ job' = [job EXCEPT !.split = Len(main)] /\ pc' = "connect"
      /\ main' = main /\ pool' = pool /\ disk' = disk /\ checkpoints' = checkpoints
  BY Zenon DEF SwitchPopped, ParentOf, chain_vars
<1>2. main \in Seq(Blocks) /\ main # <<>>
  BY Zenon DEF ChainInv, GoodChain
<1>3. Len(main) \in Nat \ {0} /\ Len(main) \in 1..Len(main) /\ main[Len(main)] = Top
  <2>1. PICK n \in Nat \ {0} : n = Len(main)
    BY <1>2
  <2>2. n \in 1..n
    BY <2>1
  <2>3. main[Len(main)] = Top
    BY <1>2, Ends DEF Top
  <2> QED
    BY Zenon, <2>1, <2>2, <2>3
<1>4. /\ job' \in JobType /\ job'.chain = job.chain /\ job'.next = job.next
      /\ job'.old = job.old /\ job'.split = Len(main)
  <2>1. job \in JobType
    BY Zenon DEF ChainInv
  <2> QED
    BY <1>1, <1>3, <2>1 DEF JobType
<1>5. /\ job.chain # <<>> /\ job.next = 1 /\ Joined(job.chain) /\ Follows(job.old, Top)
  BY Zenon, <1>1 DEF ChainInv, SwitchInv
<1>6. SwitchInv'
  <2>1. pc' # "disconnect" /\ pc' # "rollback" /\ pc' # "restore"
    BY <1>1
  <2>2. ~(job'.next > 1)
    BY <1>4, <1>5
  <2>3. Top' = Top
    BY Zenon, <1>1 DEF Top
  <2>4. /\ job'.chain # <<>> /\ Joined(job'.chain) /\ job'.split \in 1..Len(main')
        /\ Top' = ParentOf(job'.chain[1]) /\ Follows(job'.old, main'[job'.split])
    BY Zenon, <1>1, <1>3, <1>4, <1>5, <2>3
  <2> QED
    BY Zenon, <2>1, <2>2, <2>4 DEF SwitchInv
<1>7. pc' # "rollback" /\ pc # "rollback" /\ pc' \in {"idle", "disconnect", "connect", "rollback", "restore"}
  BY <1>1
<1>8. GoodChain(main') /\ SpentOnce(main') /\ Apart(pool', main')
  BY Zenon, <1>1 DEF ChainInv
<1>9. Agrees(main', Len(main'), checkpoints)
  BY Zenon, <1>1, <1>7, AgreesNow
<1> QED
  BY Zenon, <1>1, <1>4, <1>6, <1>7, <1>8, <1>9, AssembledSame

\* The block a switch connects next follows the top.
LEMMA NextFollows ==
  ASSUME ChainInv, pc = "connect", job.next <= Len(job.chain)
  PROVE  /\ job.chain[job.next] \in Blocks \ {Genesis}
         /\ ParentOf(job.chain[job.next]) = Top
<1>1. job.chain \in Seq(Blocks \ {Genesis}) /\ job.next \in Nat \ {0}
  BY JobFields DEF ChainInv
<1>2. /\ Joined(job.chain)
      /\ job.next = 1 => Top = ParentOf(job.chain[1])
      /\ job.next > 1 => Top = job.chain[job.next - 1]
  BY Zenon DEF ChainInv, SwitchInv
<1>3. job.next \in 1..Len(job.chain)
  BY <1>1
<1>4. job.chain[job.next] \in Blocks \ {Genesis}
  BY <1>1, <1>3
<1>5. CASE job.next = 1
  BY Zenon, <1>2, <1>4, <1>5
<1>6. CASE job.next # 1
  <2>1. job.next > 1 /\ job.next \in 2..Len(job.chain)
    BY <1>1, <1>3, <1>6
  <2> QED
    BY Zenon, <1>2, <1>4, <2>1 DEF Joined
<1> QED
  BY Zenon, <1>5, <1>6

LEMMA SwitchConnectSafe ==
  ASSUME ChainInv, SwitchConnect
  PROVE  ChainInv'
<1>1. /\ pc = "connect" /\ job.next <= Len(job.chain)
      /\ Verdict(job.chain[job.next], pool) = "ok" /\ Connect(job.chain[job.next], pool)
      /\ job' = [job EXCEPT !.next = job.next + 1]
      /\ pc' = pc /\ disk' = disk /\ checkpoints' = checkpoints
  BY Zenon DEF SwitchConnect
<1>2. PICK b \in Blocks \ {Genesis} : b = job.chain[job.next] /\ ParentOf(b) = Top
  BY Zenon, <1>1, NextFollows
<1>3. pc # "rollback" /\ pc' # "rollback" /\ pc' \in {"idle", "disconnect", "connect", "rollback", "restore"}
  BY <1>1
<1>4. Apart(pool, main)
  BY Zenon DEF ChainInv
<1>5. /\ GoodChain(main') /\ SpentOnce(main') /\ Apart(pool', main')
      /\ Agrees(main', Len(main'), checkpoints)
      /\ TopOf(main') = b /\ Len(main') = Len(main) + 1 /\ Len(main) \in Nat \ {0}
      /\ \A i \in 1..Len(main) : main'[i] = main[i]
  BY Zenon, <1>1, <1>2, <1>3, <1>4, Connected
<1>6. job.chain \in Seq(Blocks \ {Genesis}) /\ job.next \in Nat \ {0}
  BY JobFields DEF ChainInv
<1>7. /\ job' \in JobType /\ job'.chain = job.chain /\ job'.next = job.next + 1
      /\ job'.old = job.old /\ job'.split = job.split
  <2>1. job \in JobType
    BY Zenon DEF ChainInv
  <2> QED
    BY <1>1, <1>6, <2>1 DEF JobType
<1>8. /\ job.chain # <<>> /\ Joined(job.chain) /\ job.split \in 1..Len(main)
      /\ Follows(job.old, main[job.split])
  BY Zenon, <1>1 DEF ChainInv, SwitchInv
<1>9. SwitchInv'
  <2>1. pc' # "disconnect" /\ pc' # "rollback" /\ pc' # "restore"
    BY <1>1
  <2>2. job'.next # 1 /\ job'.next - 1 = job.next /\ job.next \in 1..Len(job.chain)
    BY <1>1, <1>6, <1>7
  <2>3. job'.split \in 1..Len(main') /\ main'[job'.split] = main[job.split]
    BY <1>5, <1>7, <1>8
  <2>4. Top' = b
    BY Zenon, <1>5 DEF Top
  <2>5. /\ job'.chain # <<>> /\ Joined(job'.chain)
        /\ job'.next - 1 \in 1..Len(job'.chain) /\ Top' = job'.chain[job'.next - 1]
        /\ Follows(job'.old, main'[job'.split])
    BY Zenon, <1>2, <1>7, <1>8, <2>2, <2>3, <2>4
  <2> QED
    BY Zenon, <2>1, <2>2, <2>3, <2>5 DEF SwitchInv
<1> QED
  BY Zenon, <1>1, <1>3, <1>5, <1>7, <1>9, AssembledSame

LEMMA SwitchFailSafe ==
  ASSUME ChainInv, SwitchFail
  PROVE  ChainInv'
<1>1. /\ pc = "connect" /\ job.next <= Len(job.chain)
      /\ pool' = PoolAfterRefusal(job.chain[job.next], pool)
      /\ pc' = "rollback"
      /\ main' = main /\ job' = job /\ disk' = disk /\ checkpoints' = checkpoints
  BY Zenon DEF SwitchFail
<1>2. GoodChain(main') /\ SpentOnce(main') /\ Apart(pool', main')
  <2>1. Apart(pool, main)
    BY Zenon DEF ChainInv
  <2>2. Apart(pool', main)
    BY Zenon, <1>1, <2>1, RefusalApart
  <2> QED
    BY Zenon, <1>1, <2>2 DEF ChainInv
<1>3. job.split \in 1..Len(main) /\ Follows(job.old, main[job.split])
  BY Zenon, <1>1 DEF ChainInv, SwitchInv
<1>4. SwitchInv'
  <2>1. pc' # "disconnect" /\ pc' # "connect" /\ pc' # "restore"
    BY <1>1
  <2>2. job'.split \in 1..Len(main') /\ Follows(job'.old, main'[job'.split])
    BY Zenon, <1>1, <1>3
  <2> QED
    BY Zenon, <2>1, <2>2 DEF SwitchInv
<1>5. Agrees(main', job'.split, checkpoints)
  <2>1. main \in Seq(Blocks) /\ DOMAIN checkpoints \subseteq Nat
    BY Zenon DEF ChainInv, GoodChain, AgreesInv
  <2>2. \A h \in DOMAIN checkpoints : h < job.split => h < Len(main)
    <3>1. PICK n \in Nat : n = Len(main)
      BY <2>1
    <3> QED
      BY <1>3, <2>1, <3>1
  <2>3. pc # "rollback"
    BY <1>1
  <2>4. Agrees(main, Len(main), checkpoints)
    BY Zenon, <2>3, AgreesNow
  <2> QED
    BY Zenon, <1>1, <2>2, <2>4 DEF Agrees
<1>6. pc' \in {"idle", "disconnect", "connect", "rollback", "restore"} /\ job' \in JobType
  BY Zenon, <1>1 DEF ChainInv
<1> QED
  BY Zenon, <1>1, <1>2, <1>4, <1>5, <1>6, AssembledSame

LEMMA RollbackPopSafe ==
  ASSUME ChainInv, RollbackPop
  PROVE  ChainInv'
<1>1. /\ pc = "rollback" /\ Len(main) # job.split /\ Pop
      /\ pc' = pc /\ job' = job /\ disk' = disk /\ checkpoints' = checkpoints
  BY Zenon DEF RollbackPop
<1>2. main \in Seq(Blocks)
  BY Zenon DEF ChainInv, GoodChain
<1>3. job.split \in 1..Len(main) /\ Follows(job.old, main[job.split])
  BY Zenon, <1>1 DEF ChainInv, SwitchInv
<1>4. Len(main) > 1 /\ job.split \in 1..Len(main) - 1 /\ job.split \in Nat
  <2>1. PICK n \in Nat : n = Len(main)
    BY <1>2
  <2>2. n > 1 /\ job.split \in 1..n - 1 /\ job.split \in Nat
    BY <1>1, <1>3, <2>1
  <2> QED
    BY Zenon, <2>1, <2>2
<1>5. /\ GoodChain(main') /\ SpentOnce(main') /\ Apart(pool', main')
      /\ Len(main') = Len(main) - 1 /\ Len(main) \in Nat \ {0}
      /\ \A i \in 1..Len(main) - 1 : main'[i] = main[i]
      /\ \A n \in Nat : Agrees(main, n, checkpoints) => Agrees(main', n, checkpoints)
  BY Zenon, <1>1, <1>4, PoppedTop
<1>6. SwitchInv'
  <2>1. pc' # "disconnect" /\ pc' # "connect" /\ pc' # "restore"
    BY <1>1
  <2>2. job'.split \in 1..Len(main') /\ Follows(job'.old, main'[job'.split])
    BY Zenon, <1>1, <1>3, <1>4, <1>5
  <2> QED
    BY Zenon, <2>1, <2>2 DEF SwitchInv
<1>7. Agrees(main, job.split, checkpoints)
  BY Zenon, <1>1 DEF ChainInv, AgreesInv
<1>8. Agrees(main', job'.split, checkpoints)
  BY Zenon, <1>1, <1>4, <1>5, <1>7
<1>9. pc' \in {"idle", "disconnect", "connect", "rollback", "restore"} /\ job' \in JobType
  BY Zenon, <1>1 DEF ChainInv
<1> QED
  BY Zenon, <1>1, <1>5, <1>6, <1>8, <1>9, AssembledSame

LEMMA RollbackPoppedSafe ==
  ASSUME ChainInv, RollbackPopped
  PROVE  ChainInv'
<1>1. /\ pc = "rollback" /\ Len(main) = job.split /\ pc' = "restore"
      /\ main' = main /\ pool' = pool /\ job' = job /\ disk' = disk /\ checkpoints' = checkpoints
  BY Zenon DEF RollbackPopped
<1>2. main \in Seq(Blocks) /\ main # <<>>
  BY Zenon DEF ChainInv, GoodChain
<1>3. main[Len(main)] = Top
  BY <1>2, Ends DEF Top
<1>4. Follows(job.old, main[job.split])
  BY Zenon, <1>1 DEF ChainInv, SwitchInv
<1>5. SwitchInv'
  <2>1. pc' # "disconnect" /\ pc' # "connect" /\ pc' # "rollback"
    BY <1>1
  <2>2. Follows(job'.old, Top')
    BY Zenon, <1>1, <1>3, <1>4 DEF Top
  <2> QED
    BY Zenon, <2>1, <2>2 DEF SwitchInv
<1>6. Agrees(main', Len(main'), checkpoints)
  <2>1. Agrees(main, job.split, checkpoints)
    BY Zenon, <1>1 DEF ChainInv, AgreesInv
  <2> QED
    BY Zenon, <1>1, <2>1
<1>7. pc' # "rollback" /\ pc' \in {"idle", "disconnect", "connect", "rollback", "restore"}
  BY <1>1
<1>8. GoodChain(main') /\ SpentOnce(main') /\ Apart(pool', main') /\ job' \in JobType
  BY Zenon, <1>1 DEF ChainInv
<1> QED
  BY Zenon, <1>1, <1>5, <1>6, <1>7, <1>8, AssembledSame

\* A step that drops the first of the disconnected blocks from the job.
LEMMA JobTail ==
  ASSUME job \in JobType, job.old # <<>>, job' = [job EXCEPT !.old = Tail(job.old)]
  PROVE  /\ job' \in JobType /\ job'.chain = job.chain /\ job'.next = job.next
         /\ job'.split = job.split /\ job'.old = Tail(job.old)
<1>1. Tail(job.old) \in Seq(Blocks \ {Genesis})
  BY JobFields, HeadTailProperties
<1> QED
  BY <1>1 DEF JobType

LEMMA RollbackConnectSafe ==
  ASSUME ChainInv, RollbackConnect
  PROVE  ChainInv'
<1>1. /\ pc = "restore" /\ job.old # <<>>
      /\ Verdict(Head(job.old), pool) = "ok" /\ Connect(Head(job.old), pool)
      /\ job' = [job EXCEPT !.old = Tail(job.old)]
      /\ pc' = pc /\ disk' = disk /\ checkpoints' = checkpoints
  BY Zenon DEF RollbackConnect
<1>2. job \in JobType /\ Apart(pool, main)
  BY Zenon DEF ChainInv
<1>3. job.old \in Seq(Blocks \ {Genesis})
  BY Zenon, <1>2, JobFields
<1>4. Follows(job.old, Top)
  BY Zenon, <1>1 DEF ChainInv, SwitchInv
<1>5. /\ Head(job.old) \in Blocks \ {Genesis} /\ ParentOf(Head(job.old)) = Top
      /\ Follows(Tail(job.old), Head(job.old))
  BY Zenon, <1>1, <1>3, <1>4, FollowsLess
<1>6. pc # "rollback" /\ pc' # "rollback" /\ pc' \in {"idle", "disconnect", "connect", "rollback", "restore"}
  BY <1>1
<1>7. /\ GoodChain(main') /\ SpentOnce(main') /\ Apart(pool', main')
      /\ Agrees(main', Len(main'), checkpoints) /\ TopOf(main') = Head(job.old)
  BY Zenon, <1>1, <1>2, <1>5, <1>6, Connected
<1>8. job' \in JobType /\ job'.old = Tail(job.old)
  BY Zenon, <1>1, <1>2, JobTail
<1>9. SwitchInv'
  <2>1. pc' # "disconnect" /\ pc' # "connect" /\ pc' # "rollback"
    BY <1>1
  <2>2. Follows(job'.old, Top')
    BY Zenon, <1>5, <1>7, <1>8 DEF Top
  <2> QED
    BY Zenon, <2>1, <2>2 DEF SwitchInv
<1> QED
  BY Zenon, <1>1, <1>6, <1>7, <1>8, <1>9, AssembledSame

\* The end of a switch, which leaves the chain as it is.
LEMMA SwitchEnds ==
  ASSUME ChainInv, pc # "rollback", pc' = "idle", job' = NoJob, main' = main, disk' = disk,
         checkpoints' = checkpoints, Apart(pool', main)
  PROVE  ChainInv'
<1>1. SwitchInv'
  BY IdleSwitch
<1>2. Agrees(main', Len(main'), checkpoints)
  BY Zenon, AgreesNow
<1>3. job' \in JobType
  BY Zenon, NoJobTyped
<1>4. GoodChain(main') /\ SpentOnce(main') /\ Apart(pool', main')
  BY Zenon DEF ChainInv
<1>5. pc' # "rollback" /\ pc' \in {"idle", "disconnect", "connect", "rollback", "restore"}
  OBVIOUS
<1> QED
  BY Zenon, <1>1, <1>2, <1>3, <1>4, <1>5, AssembledSame

LEMMA RollbackDoneSafe ==
  ASSUME ChainInv, RollbackDone
  PROVE  ChainInv'
<1>1. /\ pc = "restore" /\ pc' = "idle" /\ job' = NoJob
      /\ main' = main /\ pool' = pool /\ disk' = disk /\ checkpoints' = checkpoints
  BY Zenon DEF RollbackDone, MarkRest
<1>2. pc # "rollback"
  BY <1>1
<1>3. Apart(pool', main)
  BY Zenon, <1>1 DEF ChainInv
<1> QED
  BY Zenon, <1>1, <1>2, <1>3, SwitchEnds

LEMMA RollbackPanicSafe ==
  ASSUME ChainInv, RollbackPanic
  PROVE  ChainInv'
<1>1. /\ pc = "restore" /\ pc' = "idle" /\ job' = NoJob
      /\ main' = main /\ disk' = disk /\ checkpoints' = checkpoints
      /\ pool' = PoolAfterRefusal(Head(job.old), pool)
  BY Zenon DEF RollbackPanic, MarkRest
<1>2. pc # "rollback"
  BY <1>1
<1>3. Apart(pool, main)
  BY Zenon DEF ChainInv
<1>4. Apart(pool', main)
  BY Zenon, <1>1, <1>3, RefusalApart
<1> QED
  BY Zenon, <1>1, <1>2, <1>4, SwitchEnds

LEMMA SwitchDoneSafe ==
  ASSUME ChainInv, SwitchDone
  PROVE  ChainInv'
<1>1. /\ pc = "connect" /\ pc' = "idle" /\ job' = NoJob
      /\ main' = main /\ pool' = pool /\ disk' = disk /\ checkpoints' = checkpoints
  BY Zenon DEF SwitchDone
<1>2. pc # "rollback"
  BY <1>1
<1>3. Apart(pool', main)
  BY Zenon, <1>1 DEF ChainInv
<1> QED
  BY Zenon, <1>1, <1>2, <1>3, SwitchEnds

LEMMA SwitchKeepOldSafe ==
  ASSUME ChainInv, SwitchKeepOld
  PROVE  ChainInv'
<1>1. /\ pc = "connect" /\ job.next > Len(job.chain) /\ job.old # <<>>
      /\ job' = [job EXCEPT !.old = Tail(job.old)] /\ pc' = pc
      /\ main' = main /\ pool' = pool /\ disk' = disk /\ checkpoints' = checkpoints
  BY Zenon DEF SwitchKeepOld, chain_vars
<1>2. job \in JobType
  BY Zenon DEF ChainInv
<1>3. /\ job' \in JobType /\ job'.chain = job.chain /\ job'.next = job.next
      /\ job'.split = job.split
  BY Zenon, <1>1, <1>2, JobTail
<1>4. ~(job.next <= Len(job.chain))
  <2>1. job.chain \in Seq(Blocks \ {Genesis}) /\ job.next \in Nat \ {0}
    BY <1>2, JobFields
  <2> QED
    BY <1>1, <2>1
<1>5. SwitchInv'
  <2>1. pc' # "disconnect" /\ pc' # "rollback" /\ pc' # "restore"
    BY <1>1
  <2>2. Top' = Top
    BY Zenon, <1>1 DEF Top
  <2>3. /\ job.chain # <<>> /\ Joined(job.chain) /\ job.split \in 1..Len(main)
        /\ job.next = 1 => Top = ParentOf(job.chain[1])
        /\ job.next > 1 => job.next - 1 \in 1..Len(job.chain) /\ Top = job.chain[job.next - 1]
    BY Zenon, <1>1 DEF ChainInv, SwitchInv
  <2> QED
    BY Zenon, <1>1, <1>3, <1>4, <2>1, <2>2, <2>3 DEF SwitchInv
<1>6. pc # "rollback" /\ pc' # "rollback" /\ pc' \in {"idle", "disconnect", "connect", "rollback", "restore"}
  BY <1>1
<1>7. Agrees(main', Len(main'), checkpoints)
  BY Zenon, <1>1, <1>6, AgreesNow
<1>8. GoodChain(main') /\ SpentOnce(main') /\ Apart(pool', main')
  BY Zenon, <1>1 DEF ChainInv
<1> QED
  BY Zenon, <1>1, <1>3, <1>5, <1>6, <1>7, <1>8, AssembledSame

LEMMA CommitSafe ==
  ASSUME ChainInv, Commit
  PROVE  ChainInv'
<1>1. /\ pc = "idle" /\ disk' = Disk
      /\ main' = main /\ pool' = pool /\ pc' = pc /\ job' = job /\ checkpoints' = checkpoints
  BY Zenon DEF Commit, chain_vars
<1>2. disk'.main = main /\ disk'.pool = pool
  BY <1>1 DEF Disk
<1>3. pc # "rollback" /\ pc' # "rollback" /\ pc' = "idle"
  BY <1>1
<1>4. /\ DOMAIN checkpoints \subseteq Nat
      /\ \A h \in DOMAIN Checkpoints : h \in DOMAIN checkpoints /\ checkpoints[h] = Checkpoints[h]
      /\ Agrees(main, Len(main), checkpoints)
  BY Zenon, <1>3 DEF ChainInv, AgreesInv
<1>5. Agrees(disk'.main, Len(disk'.main), Checkpoints)
  BY Zenon, <1>2, <1>4 DEF Agrees
<1>6. AgreesInv'
  BY Zenon, <1>1, <1>3, <1>4, <1>5 DEF AgreesInv
<1>7. SwitchInv'
  BY Zenon, <1>3, IdleSwitch
<1>8. GoodChain(main) /\ SpentOnce(main) /\ Apart(pool, main) /\ job \in JobType
  BY Zenon DEF ChainInv
<1>9. pc' \in {"idle", "disconnect", "connect", "rollback", "restore"}
  BY <1>3
<1> QED
  BY Zenon, <1>1, <1>2, <1>6, <1>7, <1>8, <1>9 DEF ChainInv

LEMMA CrashSafe ==
  ASSUME ChainInv, Crash
  PROVE  ChainInv'
<1>1. /\ main' = disk.main /\ pool' = disk.pool /\ checkpoints' = Checkpoints
      /\ pc' = "idle" /\ job' = NoJob /\ disk' = disk
  BY Zenon DEF Crash
<1>2. /\ GoodChain(disk.main) /\ SpentOnce(disk.main) /\ Apart(disk.pool, disk.main)
      /\ Agrees(disk.main, Len(disk.main), Checkpoints)
  BY Zenon DEF ChainInv, AgreesInv
<1>3. SwitchInv'
  BY Zenon, <1>1, IdleSwitch
<1>4. job' \in JobType
  BY Zenon, <1>1, NoJobTyped
<1>5. pc' # "rollback" /\ pc' \in {"idle", "disconnect", "connect", "rollback", "restore"}
  BY <1>1
<1>6. DOMAIN checkpoints' \subseteq Nat
  BY Zenon, <1>1, CheckpointAssumption
<1>7. \A h \in DOMAIN Checkpoints : h \in DOMAIN checkpoints' /\ checkpoints'[h] = Checkpoints[h]
  BY Zenon, <1>1
<1>8. /\ GoodChain(main') /\ SpentOnce(main') /\ Apart(pool', main')
      /\ Agrees(main', Len(main'), checkpoints')
  BY Zenon, <1>1, <1>2
<1> QED
  BY Zenon, <1>1, <1>3, <1>4, <1>5, <1>6, <1>7, <1>8, Assembled

LEMMA InitChain ==
  ASSUME Init
  PROVE  ChainInv
<1>1. /\ main = <<Genesis>> /\ pool = {} /\ checkpoints = Checkpoints
      /\ pc = "idle" /\ job = NoJob /\ disk = Disk
  BY Zenon DEF Init
<1>2. disk.main = main /\ disk.pool = pool
  BY <1>1 DEF Disk
<1>3. GoodChain(main)
  <2>1. Genesis \in Blocks
    BY Zenon, TreeAssumption
  <2>2. main \in Seq(Blocks) /\ main # <<>> /\ TopOf(main) = Genesis /\ Range(main) = {Genesis}
    BY <1>1, <2>1 DEF TopOf, Range
  <2>3. PathTo[Genesis] = <<Genesis>>
    BY Zenon, <2>1, PathAssumption
  <2> QED
    BY Zenon, <1>1, <2>2, <2>3 DEF GoodChain
<1>4. SpentOnce(main)
  <2>1. Len(main) = 1
    BY <1>1
  <2>2. \A i, k \in 1..Len(main) : ~(i < k)
    BY <2>1
  <2> QED
    BY Zenon, <2>2 DEF SpentOnce
<1>5. Apart(pool, main)
  BY Zenon, <1>1 DEF Apart
<1>6. SwitchInv
  BY <1>1 DEF SwitchInv
<1>7. Agrees(main, Len(main), Checkpoints)
  <2>1. Len(main) = 1 /\ main[1] = Genesis
    BY <1>1
  <2>2. ASSUME NEW h \in DOMAIN Checkpoints, h < Len(main)
        PROVE  main[h + 1] = Checkpoints[h]
    <3>1. h \in Nat
      BY Zenon, CheckpointAssumption
    <3>2. h = 0 /\ h + 1 = 1
      BY <2>1, <2>2, <3>1
    <3> QED
      BY Zenon, <2>1, <3>2, CheckpointAssumption
  <2> QED
    BY Zenon, <2>2 DEF Agrees
<1>8. AgreesInv
  <2>1. pc # "rollback"
    BY <1>1
  <2>2. DOMAIN checkpoints \subseteq Nat
    BY Zenon, <1>1, CheckpointAssumption
  <2> QED
    BY Zenon, <1>1, <1>2, <1>7, <2>1, <2>2 DEF AgreesInv
<1>9. pc \in {"idle", "disconnect", "connect", "rollback", "restore"} /\ job \in JobType
  BY <1>1, NoJobTyped
<1> QED
  BY Zenon, <1>2, <1>3, <1>4, <1>5, <1>6, <1>8, <1>9 DEF ChainInv

LEMMA SwitchStepSafe ==
  ASSUME ChainInv, SwitchStep
  PROVE  ChainInv'
BY Zenon, SwitchPopSafe, SwitchPoppedSafe, SwitchConnectSafe, SwitchFailSafe, RollbackPopSafe,
   RollbackPoppedSafe, RollbackConnectSafe, RollbackDoneSafe, RollbackPanicSafe,
   SwitchKeepOldSafe, SwitchDoneSafe
DEF SwitchStep

LEMMA StepChain ==
  ASSUME ChainInv, [Next]_vars
  PROVE  ChainInv'
<1>1. CASE \E t \in Txs : AddTx(t)
  BY Zenon, <1>1, AddTxSafe
<1>2. CASE \E b \in Blocks \ {Genesis} : \/ RefuseBlock(b)
                                         \/ AddKnownBlock(b)
                                         \/ AddNextBlock(b)
                                         \/ AddAlternativeBlock(b)
  BY Zenon, <1>2, RefuseBlockSafe, AddKnownBlockSafe, AddNextBlockSafe, AddAlternativeBlockSafe
<1>3. CASE \E file \in CheckpointFiles : UpdateCheckpoints(file)
  BY Zenon, <1>3, UpdateCheckpointsSafe
<1>4. CASE SwitchStep
  BY Zenon, <1>4, SwitchStepSafe
<1>5. CASE Commit
  BY Zenon, <1>5, CommitSafe
<1>6. CASE Crash
  BY Zenon, <1>6, CrashSafe
<1>7. CASE UNCHANGED vars
  BY Zenon, <1>7 DEF vars, ChainInv, SwitchInv, AgreesInv, Top
<1> QED
  BY Zenon, <1>1, <1>2, <1>3, <1>4, <1>5, <1>6, <1>7 DEF Next

LEMMA ChainInvariant == Spec => []ChainInv
<1>1. Init => ChainInv
  BY Zenon, InitChain
<1>2. ChainInv /\ [Next]_vars => ChainInv'
  BY Zenon, StepChain
<1> QED
  BY <1>1, <1>2, PTL DEF Spec

\* At any moment, in the middle of a switch or rollback and after a crash too, the main
\* chain is the path from the genesis block to its top, its blocks have passed the checks
\* on their proof of work and reward, their transactions spend outputs of blocks below
\* them, and no transaction or key image occurs in two of them.
ChainSound == GoodChain(main) /\ SpentOnce(main)

\* The chain that handle_block_to_main_chain and pop_block_from_blockchain leave behind
\* is sound whatever blocks come in, in whatever order.
THEOREM MainSound == Spec => []ChainSound
<1>1. ChainInv => ChainSound
  BY Zenon DEF ChainInv, ChainSound
<1> QED
  BY <1>1, ChainInvariant, PTL

\* No transaction is in the pool and in the main chain at once.
PoolApart == pool \cap TxsOf(main) = {}

\* Connecting a block takes its transactions out of the pool and a popped one comes back
\* to it: a transaction is never both pooled and mined, whatever switch or crash.
THEOREM PoolAndChainApart == Spec => []PoolApart
<1>1. ChainInv => PoolApart
  BY Zenon DEF ChainInv, Apart, PoolApart
<1> QED
  BY <1>1, ChainInvariant, PTL

\* Between blocks the main chain agrees with every checkpoint: check_block sees to it when
\* a block is connected, update_checkpoints when a checkpoint is added.
THEOREM CheckpointsKept == Spec => []CheckpointsHold
<1>1. ChainInv => CheckpointsHold
  <2> SUFFICES ASSUME ChainInv, Idle PROVE Agrees(main, Len(main), checkpoints)
    BY Zenon DEF CheckpointsHold, Agrees
  <2>1. pc # "rollback"
    BY DEF Idle
  <2> QED
    BY Zenon, <2>1, AgreesNow
<1> QED
  BY <1>1, ChainInvariant, PTL

=============================================================================
