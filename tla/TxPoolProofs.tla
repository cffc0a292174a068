---------------------------- MODULE TxPoolProofs ----------------------------
(***************************************************************************)
(* For any transactions, blocks and limits: the indexes of the pool agree  *)
(* with its table, the pool can be read again at start, and every block    *)
(* template can be mined.                                                  *)
(***************************************************************************)
EXTENDS TxPool, FiniteSetTheorems, NaturalsInduction, WellFoundedInduction, TLAPS

-----------------------------------------------------------------------------
(* Numbers and loops *)

\* A nonempty set of natural numbers has a least element.
LEMMA LeastExists ==
  ASSUME NEW S \in SUBSET Nat, S # {}
  PROVE  \E x \in S : \A y \in S : x <= y
<1>1. PICK x \in S : \A y \in S : <<y, x>> \notin OpToRel(<, Nat)
  BY Zenon, NatLessThanWellFounded, WFMin
<1>2. \A y \in S : ~(y < x)
  BY <1>1 DEF OpToRel
<1> QED
  BY <1>2

\* A set of numbers up to k that holds 0, and with each number the next one, holds all.
LEMMA AllUpTo ==
  ASSUME NEW k \in Nat, NEW T, 0 \in T, \A n \in 1..k : n - 1 \in T => n \in T
  PROVE  \A n \in 0..k : n \in T
<1> DEFINE Missing == {n \in 0..k : n \notin T}
<1>1. CASE Missing = {}
  BY Zenon, <1>1
<1>2. CASE Missing # {}
  <2>0. Missing \in SUBSET Nat
    OBVIOUS
  <2>1. PICK n \in Missing : \A m \in Missing : n <= m
    <3> HIDE DEF Missing
    <3> QED
      BY Zenon, <1>2, <2>0, LeastExists
  <2>2. n \in 1..k /\ n \notin T
    BY <2>1
  <2>3. n - 1 \in 0..k /\ ~(n <= n - 1)
    BY <2>2
  <2> QED
    BY <2>1, <2>2, <2>3
<1> QED
  BY <1>1, <1>2

\* The greatest of a nonempty set of numbers up to k.
LEMMA GreatestIn ==
  ASSUME NEW k \in Nat, NEW S \in SUBSET (0..k), S # {}
  PROVE  Max(S) \in S
<1> DEFINE D == {d \in Nat : k - d \in S}
<1>1. D # {} /\ D \in SUBSET Nat
  <2>1. PICK y \in S : TRUE
    OBVIOUS
  <2>2. k - y \in Nat /\ k - (k - y) = y
    OBVIOUS
  <2>3. k - y \in D
    BY <2>2
  <2> QED
    BY <2>3
<1>2. PICK d \in D : \A e \in D : d <= e
  <2> HIDE DEF D
  <2> QED
    BY Zenon, <1>1, LeastExists
<1>3. k - d \in S /\ \A y \in S : k - d >= y
  <2> SUFFICES ASSUME NEW y \in S PROVE k - d >= y
    BY <1>2
  <2>1. k - y \in D
    BY DEF D
  <2>2. d <= k - y
    BY <1>2, <2>1
  <2> QED
    BY <2>2
<1> QED
  BY Zenon, <1>3 DEF Max

\* The stages of a loop: round n takes a state of stage n - 1 to one of stage n.
Stages(S, F, k) == \A n \in 1..k : \A x \in S[n - 1] : F[<<n, x>>] \in S[n]

Runs(F, s, k, g) == g[0] = s /\ \A n \in 1..k : g[n] = F[<<n, g[n - 1]>>]

\* A loop with stages has a run, which goes through them.
LEMMA RunExists ==
  ASSUME NEW k \in Nat, NEW S, NEW F, NEW s \in S[0], Stages(S, F, k)
  PROVE  \E g : g = [n \in 0..k |-> g[n]] /\ Runs(F, s, k, g) /\ \A n \in 0..k : g[n] \in S[n]
<1> DEFINE Upto(m, g) == /\ g = [n \in 0..m |-> g[n]] /\ g[0] = s /\ \A n \in 1..m : g[n] = F[<<n, g[n - 1]>>]
                         /\ \A n \in 0..m : g[n] \in S[n]
           T == {m \in 0..k : \E g : Upto(m, g)}
<1>1. 0 \in T
  <2>1. PICK g : g = [i \in 0..0 |-> s]
    BY Zenon
  <2>2. g = [n \in 0..0 |-> g[n]] /\ g[0] = s /\ \A n \in 0..0 : g[n] \in S[n]
    BY <2>1
  <2>3. Upto(0, g)
    BY <2>2
  <2>4. 0 \in 0..k
    OBVIOUS
  <2> QED
    BY Zenon, <2>3, <2>4
<1>2. ASSUME NEW m \in 1..k, m - 1 \in T
      PROVE  m \in T
  <2>1. PICK g : Upto(m - 1, g)
    BY Zenon, <1>2
  <2>2. PICK y : y = F[<<m, g[m - 1]>>]
    BY Zenon
  <2>3. y \in S[m]
    <3>1. m - 1 \in 0..m - 1
      OBVIOUS
    <3> QED
      BY Zenon, <2>1, <2>2, <3>1 DEF Stages
  <2>4. PICK h : h = [i \in 0..m |-> IF i = m THEN y ELSE g[i]]
    BY Zenon
  <2>5. \A i \in 0..m - 1 : h[i] = g[i] /\ i \in 0..m
    BY <2>4
  <2>6. h[m] = y /\ m \in 0..m /\ m - 1 \in 0..m - 1 /\ 0 \in 0..m - 1
    BY <2>4
  <2>7. h = [i \in 0..m |-> h[i]]
    BY <2>4
  <2>8. h[0] = s /\ h[m] = F[<<m, h[m - 1]>>]
    BY Zenon, <2>1, <2>2, <2>5, <2>6
  <2>9. ASSUME NEW n \in 1..m, n # m
        PROVE  h[n] = F[<<n, h[n - 1]>>]
    <3>1. n \in 0..m - 1 /\ n - 1 \in 0..m - 1 /\ n \in 1..m - 1
      BY <2>9
    <3> QED
      BY Zenon, <2>1, <2>5, <3>1
  <2>10. \A n \in 0..m : h[n] \in S[n]
    <3>1. \A n \in 0..m : n = m \/ n \in 0..m - 1
      OBVIOUS
    <3> QED
      BY Zenon, <2>1, <2>3, <2>5, <2>6, <3>1
  <2>11. Upto(m, h)
    BY Zenon, <2>7, <2>8, <2>9, <2>10
  <2>12. m \in 0..k
    OBVIOUS
  <2> QED
    BY Zenon, <2>11, <2>12
<1> HIDE DEF T
<1>3. k \in T
  BY <1>1, <1>2, AllUpTo
<1> QED
  BY Zenon, <1>3 DEF T, Runs

-----------------------------------------------------------------------------
(* Sequences without repetition *)

\* s lists the members of D, each once.
Lists(s, D) == s \in Seq(D) /\ IsInjective(s) /\ Range(s) = D

\* r is a sequence a of m members and then a sequence b of n.
Joins(r, S, a, m, b, n) ==
  /\ r \in Seq(S) /\ Len(r) = m + n
  /\ \A i \in 1..m + n : r[i] = IF i <= m THEN a[i] ELSE b[i - m]

\* r is a sequence s of l members with t at position k.
Inserts(r, S, s, l, k, t) ==
  /\ r \in Seq(S) /\ Len(r) = l + 1
  /\ \A i \in 1..l + 1 : r[i] = IF i < k THEN s[i] ELSE IF i = k THEN t ELSE s[i - 1]

\* One sequence after another, position by position.
LEMMA ConcatIs ==
  ASSUME NEW S, NEW a \in Seq(S), NEW b \in Seq(S), NEW m, m = Len(a), NEW n, n = Len(b), NEW r, r = a \o b
  PROVE  Joins(r, S, a, m, b, n)
  BY DEF Joins

\* What InsertAt yields, position by position.
LEMMA InsertIs ==
  ASSUME NEW S, NEW s \in Seq(S), NEW t \in S, NEW k \in 1..Len(s) + 1, NEW r, r = InsertAt(s, k, t)
  PROVE  Inserts(r, S, s, Len(s), k, t)
<1>1. PICK l \in Nat : l = Len(s)
  OBVIOUS
<1>2. PICK a : a = SubSeq(s, 1, k - 1)
  BY Zenon
<1>3. PICK b : b = SubSeq(s, k, l)
  BY Zenon
<1>4. a \in Seq(S) /\ Len(a) = k - 1 /\ \A i \in 1..k - 1 : a[i] = s[i]
  BY <1>1, <1>2
<1>5. b \in Seq(S) /\ Len(b) = l - k + 1 /\ \A i \in 1..l - k + 1 : b[i] = s[k + i - 1]
  BY <1>1, <1>3
<1>6. PICK c : c = a \o <<t>>
  BY Zenon
<1>7. c \in Seq(S) /\ Len(c) = k /\ (\A i \in 1..k - 1 : c[i] = s[i]) /\ c[k] = t
  BY <1>4, <1>6
<1>8. r = c \o b
  BY Zenon, <1>1, <1>2, <1>3, <1>6 DEF InsertAt
<1>9. /\ r \in Seq(S) /\ Len(r) = l + 1
      /\ \A i \in 1..l + 1 : r[i] = IF i <= k THEN c[i] ELSE b[i - k]
  <2>1. PICK n : n = l - k + 1
    BY Zenon
  <2>2. Len(b) = n /\ k + n = l + 1
    BY <1>1, <1>5, <2>1
  <2>3. Joins(r, S, c, k, b, n)
    BY Zenon, <1>5, <1>7, <1>8, <2>2, ConcatIs
  <2> QED
    BY Zenon, <2>2, <2>3 DEF Joins
<1>10. ASSUME NEW i \in 1..l + 1
       PROVE  r[i] = IF i < k THEN s[i] ELSE IF i = k THEN t ELSE s[i - 1]
  <2>1. CASE i < k
    BY <1>7, <1>9, <2>1
  <2>2. CASE i = k
    BY <1>7, <1>9, <2>2
  <2>3. CASE i > k
    <3>1. i - k \in 1..l - k + 1 /\ k + (i - k) - 1 = i - 1
      BY <2>3
    <3>2. b[i - k] = s[k + (i - k) - 1]
      BY Zenon, <1>5, <3>1
    <3>3. ~(i <= k) /\ ~(i < k) /\ i # k
      BY <2>3
    <3>4. r[i] = b[i - k]
      BY Zenon, <1>9, <3>3
    <3> QED
      BY Zenon, <3>1, <3>2, <3>3, <3>4
  <2> QED
    BY <2>1, <2>2, <2>3
<1> QED
  BY Zenon, <1>1, <1>9, <1>10 DEF Inserts

\* A new member, at any position.
LEMMA InsertLists ==
  ASSUME NEW D, NEW s, Lists(s, D), NEW t, t \notin D, NEW k \in 1..Len(s) + 1, NEW r, r = InsertAt(s, k, t)
  PROVE  Lists(r, D \cup {t})
<1>1. PICK E : E = D \cup {t}
  BY Zenon
<1>2. s \in Seq(E) /\ t \in E
  BY <1>1 DEF Lists
<1>3. PICK l \in Nat : l = Len(s)
  BY <1>2
<1>4. /\ r \in Seq(E) /\ Len(r) = l + 1
      /\ \A i \in 1..l + 1 : r[i] = IF i < k THEN s[i] ELSE IF i = k THEN t ELSE s[i - 1]
  <2>1. Inserts(r, E, s, Len(s), k, t)
    BY Zenon, <1>2, InsertIs
  <2> QED
    BY Zenon, <1>3, <2>1 DEF Inserts
<1>5. /\ \A i \in 1..l : s[i] # t
      /\ \A i, j \in 1..l : s[i] = s[j] => i = j
  BY <1>3 DEF Lists, Range, IsInjective
<1>6. DOMAIN r = 1..l + 1 /\ DOMAIN s = 1..l
  BY <1>2, <1>3, <1>4
<1>7. IsInjective(r)
  <2> SUFFICES ASSUME NEW i \in 1..l + 1, NEW j \in 1..l + 1, r[i] = r[j]
               PROVE  i = j
    BY <1>6 DEF IsInjective
  <2> QED
    BY <1>3, <1>4, <1>5
<1>8. Range(r) \subseteq E
  BY <1>4, <1>6 DEF Range
<1>9. ASSUME NEW x \in E
      PROVE  x \in Range(r)
  <2>1. CASE x = t
    <3>1. k \in 1..l + 1 /\ r[k] = t
      BY <1>3, <1>4
    <3> QED
      BY Zenon, <1>6, <2>1, <3>1 DEF Range
  <2>2. CASE x \in D
    <3>1. PICK i \in 1..l : s[i] = x
      BY <1>6, <2>2 DEF Lists, Range
    <3>2. CASE i < k
      <4>1. i \in 1..l + 1 /\ r[i] = x
        BY <1>3, <1>4, <3>1, <3>2
      <4> QED
        BY Zenon, <1>6, <4>1 DEF Range
    <3>3. CASE i >= k
      <4>1. i + 1 \in 1..l + 1 /\ r[i + 1] = x
        BY <1>3, <1>4, <3>1, <3>3
      <4> QED
        BY Zenon, <1>6, <4>1 DEF Range
    <3> QED
      BY <1>3, <3>2, <3>3
  <2> QED
    BY Zenon, <1>1, <2>1, <2>2
<1>10. Range(r) = E
  BY Zenon, <1>8, <1>9
<1> QED
  BY Zenon, <1>1, <1>4, <1>7, <1>10 DEF Lists

\* One member less.
LEMMA RemoveAtLists ==
  ASSUME NEW D, NEW s, Lists(s, D), NEW k \in 1..Len(s), NEW r, r = RemoveAt(s, k)
  PROVE  Lists(r, D \ {s[k]})
<1>1. s \in Seq(D)
  BY DEF Lists
<1>2. PICK l \in Nat : l = Len(s)
  BY <1>1
<1>3. PICK a : a = SubSeq(s, 1, k - 1)
  BY Zenon
<1>4. PICK b : b = SubSeq(s, k + 1, l)
  BY Zenon
<1>5. a \in Seq(D) /\ Len(a) = k - 1 /\ \A i \in 1..k - 1 : a[i] = s[i]
  BY <1>1, <1>2, <1>3
<1>6. b \in Seq(D) /\ Len(b) = l - k /\ \A i \in 1..l - k : b[i] = s[k + i]
  BY <1>1, <1>2, <1>4
<1>7. r = a \o b
  BY Zenon, <1>2, <1>3, <1>4 DEF RemoveAt
<1>8. /\ r \in Seq(D) /\ Len(r) = l - 1
      /\ \A i \in 1..l - 1 : r[i] = IF i < k THEN a[i] ELSE b[i - (k - 1)]
  <2>1. PICK m : m = k - 1
    BY Zenon
  <2>2. PICK n : n = l - k
    BY Zenon
  <2>3. Len(a) = m /\ Len(b) = n /\ m + n = l - 1 /\ \A i \in 1..m + n : i <= m <=> i < k
    BY <1>2, <1>5, <1>6, <2>1, <2>2
  <2>4. Joins(r, D, a, m, b, n)
    BY Zenon, <1>5, <1>6, <1>7, <2>3, ConcatIs
  <2> QED
    BY Zenon, <2>1, <2>3, <2>4 DEF Joins
<1>9. ASSUME NEW i \in 1..l - 1
      PROVE  r[i] = IF i < k THEN s[i] ELSE s[i + 1]
  <2>1. CASE i < k
    BY <1>5, <1>8, <2>1
  <2>2. CASE i >= k
    <3>1. i - (k - 1) \in 1..l - k /\ k + (i - (k - 1)) = i + 1
      BY <1>2, <2>2
    <3> QED
      BY <1>6, <1>8, <2>2, <3>1
  <2> QED
    BY <2>1, <2>2
<1>10. DOMAIN r = 1..l - 1 /\ DOMAIN s = 1..l
  BY <1>1, <1>2, <1>8
<1>11. \A i, j \in 1..l : s[i] = s[j] => i = j
  BY <1>10 DEF Lists, IsInjective
<1>12. IsInjective(r)
  <2> SUFFICES ASSUME NEW i \in 1..l - 1, NEW j \in 1..l - 1, r[i] = r[j]
               PROVE  i = j
    BY <1>10 DEF IsInjective
  <2> QED
    BY <1>2, <1>9, <1>11
<1>13. PICK E : E = D \ {s[k]}
  BY Zenon
<1>14. \A i \in 1..l - 1 : r[i] \in E
  <2> SUFFICES ASSUME NEW i \in 1..l - 1
               PROVE  r[i] \in D /\ r[i] # s[k]
    BY Zenon, <1>13
  <2>1. r[i] \in D
    BY <1>8
  <2>2. r[i] # s[k]
    BY <1>2, <1>9, <1>11
  <2> QED
    BY <2>1, <2>2
<1>15. r \in Seq(E)
  BY <1>8, <1>14
<1>16. ASSUME NEW x \in E
       PROVE  x \in Range(r)
  <2>1. PICK i \in 1..l : s[i] = x
    BY Zenon, <1>10, <1>13 DEF Lists, Range
  <2>2. i # k
    BY Zenon, <1>13, <2>1
  <2>3. CASE i < k
    <3>1. i \in 1..l - 1 /\ r[i] = x
      BY <1>2, <1>9, <2>1, <2>3
    <3> QED
      BY Zenon, <1>10, <3>1 DEF Range
  <2>4. CASE i > k
    <3>1. i - 1 \in 1..l - 1 /\ r[i - 1] = x
      BY <1>2, <1>9, <2>1, <2>4
    <3> QED
      BY Zenon, <1>10, <3>1 DEF Range
  <2> QED
    BY <1>2, <2>2, <2>3, <2>4
<1>17. Range(r) = E
  BY <1>10, <1>14, <1>16 DEF Range
<1> QED
  BY Zenon, <1>12, <1>13, <1>15, <1>17 DEF Lists

\* erase, of what is there or not.
LEMMA RemoveLists ==
  ASSUME NEW D, NEW s, Lists(s, D), NEW t, NEW r, r = Erase(s, t)
  PROVE  Lists(r, D \ {t})
<1>1. PICK I : I = {i \in 1..Len(s) : s[i] = t}
  BY Zenon
<1>2. s \in Seq(D) /\ Range(s) = D
  BY DEF Lists
<1>3. CASE I = {}
  <2>1. t \notin D
    BY <1>1, <1>2, <1>3 DEF Range
  <2>2. r = s
    BY Zenon, <1>1, <1>3 DEF Erase
  <2>3. D \ {t} = D
    BY Zenon, <2>1
  <2> QED
    BY Zenon, <2>2, <2>3
<1>4. CASE I # {}
  <2>1. Min(I) \in I
    <3>1. I \in SUBSET Nat
      BY <1>1, <1>2
    <3>2. PICK x \in I : \A y \in I : x <= y
      BY Zenon, <1>4, <3>1, LeastExists
    <3> QED
      BY Zenon, <3>2 DEF Min
  <2>2. PICK k \in 1..Len(s) : s[k] = t /\ k = Min(I)
    BY Zenon, <1>1, <2>1
  <2>3. r = RemoveAt(s, k)
    BY Zenon, <1>1, <1>4, <2>2 DEF Erase
  <2> QED
    BY Zenon, <2>2, <2>3, RemoveAtLists
<1> QED
  BY Zenon, <1>3, <1>4

\* SetToSeq lists a finite set.
LEMMA SetListed ==
  ASSUME NEW T, IsFiniteSet(T)
  PROVE  Lists(SetToSeq(T), T)
<1>1. PICK k \in Nat : k = Cardinality(T)
  BY Zenon, FS_CardinalityType
<1>2. PICK f \in Bijection(1..k, T) : TRUE
  BY Zenon, <1>1, FS_CardinalityType DEF ExistsBijection
<1>3. f \in [1..k -> T] /\ IsInjective(f)
  BY <1>2 DEF Bijection, Injection, IsInjective
<1>4. PICK s : s = SetToSeq(T)
  BY Zenon
<1>5. s \in [1..k -> T] /\ IsInjective(s)
  BY Zenon, <1>1, <1>3, <1>4 DEF SetToSeq
<1>6. s \in Injection(1..k, T)
  BY Zenon, <1>5 DEF Injection
<1>7. Cardinality(1..k) = k
  BY FS_Interval
<1>8. s \in Surjection(1..k, T)
  BY Zenon, <1>1, <1>6, <1>7, FS_Injection
<1>9. Range(s) = T
  BY <1>5, <1>8 DEF Surjection, Range
<1>10. s \in Seq(T)
  BY <1>5
<1> QED
  BY Zenon, <1>4, <1>5, <1>9, <1>10 DEF Lists

-----------------------------------------------------------------------------
(* One transaction in or out *)

Metas == [kept : BOOLEAN, time : Int, checked : BOOLEAN, max_used : Int, failed : Seq(DOMAIN BlockTxs),
          double_spend_seen : BOOLEAN]

Tables == UNION {[D -> Metas] : D \in SUBSET Txs}

PoolType == [db : Tables, sorted : Seq(Txs), spent : [Images -> SUBSET Txs], weight : Int]

\* The index of key images for a set of transactions.
Spenders(D) == [i \in Images |-> {t \in D : i \in Tx[t].images}]

\* The order and the index of key images are those of the table.
Agrees(p) == Lists(p.sorted, DOMAIN p.db) /\ p.spent = Spenders(DOMAIN p.db)

Pools == {p \in PoolType : Agrees(p)}

\* The tables d and e have the same entries for the transactions of D.
SameOn(d, e, D) == \A u \in D : d[u] = e[u]

PoolOf(d, s, D, w) == [db |-> d, sorted |-> s, spent |-> Spenders(D), weight |-> w]

PoolWith(p, d, D) == p \in Pools /\ p.db = d /\ DOMAIN p.db = D

\* A record of the four parts is a pool.
LEMMA IsPool ==
  ASSUME NEW D \in SUBSET Txs, NEW d \in [D -> Metas], NEW s, Lists(s, D), NEW w \in Int,
         NEW p, p = PoolOf(d, s, D, w)
  PROVE  PoolWith(p, d, D)
<1>1. d \in Tables
  BY Zenon DEF Tables
<1>2. s \in Seq(Txs)
  BY DEF Lists
<1>3. Spenders(D) \in [Images -> SUBSET Txs]
  BY DEF Spenders
<1>4. p \in PoolType
  BY Zenon, <1>1, <1>2, <1>3 DEF PoolType, PoolOf
<1>5. p.db = d /\ p.sorted = s /\ p.spent = Spenders(D) /\ p.weight = w
  BY Zenon DEF PoolOf
<1>6. DOMAIN d = D
  BY Zenon
<1> QED
  BY Zenon, <1>4, <1>5, <1>6 DEF Pools, Agrees, PoolWith

\* The parts of a pool.
LEMMA PoolParts ==
  ASSUME NEW p \in Pools
  PROVE  /\ DOMAIN p.db \in SUBSET Txs /\ p.db \in [DOMAIN p.db -> Metas] /\ Lists(p.sorted, DOMAIN p.db)
         /\ p.spent = Spenders(DOMAIN p.db) /\ p.weight \in Int
<1>1. p \in PoolType /\ Agrees(p)
  BY Zenon DEF Pools
<1>2. p.db \in Tables /\ p.weight \in Int
  BY <1>1 DEF PoolType
<1>3. PICK D \in SUBSET Txs : p.db \in [D -> Metas]
  BY Zenon, <1>2 DEF Tables
<1>4. DOMAIN p.db = D
  BY Zenon, <1>3
<1> QED
  BY Zenon, <1>1, <1>2, <1>3, <1>4 DEF Agrees

\* The types of the transactions.
LEMMA TxTypes ==
  ASSUME NEW t \in Txs
  PROVE  Tx[t].images \subseteq Images /\ Tx[t].weight \in Int
  BY PoolAssumption DEF Images

\* The size_t that a total becomes.
LEMMA SizeType ==
  ASSUME NEW w \in Int
  PROVE  w % SizeModulus \in Int
  BY PoolAssumption

\* emplace puts a new transaction somewhere.
LEMMA EmplaceLists ==
  ASSUME NEW D, NEW s, Lists(s, D), NEW t, t \notin D, NEW db, NEW time, NEW r, r = Emplace(s, db, t, time)
  PROVE  Lists(r, D \cup {t})
<1>1. PICK B : B = {i \in DOMAIN s : ~TxCompare(t, time, s[i], db[s[i]].time)}
  BY Zenon
<1>2. s \in Seq(D)
  BY DEF Lists
<1>3. PICK l \in Nat : l = Len(s)
  BY <1>2
<1>4. B \subseteq 1..l
  BY <1>1, <1>2, <1>3
<1>5. IsFiniteSet(1..l) /\ Cardinality(1..l) = l
  BY FS_Interval
<1>6. IsFiniteSet(B) /\ Cardinality(B) <= l
  BY Zenon, <1>4, <1>5, FS_Subset
<1>7. PICK c \in Nat : c = Cardinality(B)
  BY Zenon, <1>6, FS_CardinalityType
<1>8. c + 1 \in 1..Len(s) + 1
  <2>1. c <= l
    BY Zenon, <1>6, <1>7
  <2> QED
    BY <1>3, <2>1
<1>9. r = InsertAt(s, c + 1, t)
  BY Zenon, <1>1, <1>7 DEF Emplace
<1> QED
  BY Zenon, <1>8, <1>9, InsertLists

\* What Insert leaves: one entry more.
Entered(q, p, t, meta) ==
  q \in Pools /\ DOMAIN q.db = DOMAIN p.db \cup {t} /\ q.db[t] = meta /\ SameOn(q.db, p.db, DOMAIN p.db)

\* A transaction enters the table and the indexes.
LEMMA InsertPool ==
  ASSUME NEW p \in Pools, NEW t \in Txs, t \notin DOMAIN p.db, NEW meta \in Metas, NEW q, q = Insert(p, t, meta)
  PROVE  Entered(q, p, t, meta)
<1>1. PICK D \in SUBSET Txs : D = DOMAIN p.db /\ p.db \in [D -> Metas] /\ Lists(p.sorted, D) /\ p.spent = Spenders(D)
  BY Zenon, PoolParts
<1>2. PICK E \in SUBSET Txs : E = D \cup {t}
  OBVIOUS
<1>3. PICK d : d = [u \in E |-> IF u = t THEN meta ELSE p.db[u]]
  BY Zenon
<1>4. d \in [E -> Metas]
  BY Zenon, <1>1, <1>2, <1>3
<1>5. PICK s : s = Emplace(p.sorted, p.db, t, meta.time)
  BY Zenon
<1>6. Lists(s, E)
  BY Zenon, <1>1, <1>2, <1>5, EmplaceLists
<1>7. PICK w \in Int : w = (p.weight + Tx[t].weight) % SizeModulus
  <2>1. p.weight \in Int
    BY Zenon, PoolParts
  <2>2. p.weight + Tx[t].weight \in Int
    BY <2>1, TxTypes
  <2> QED
    BY Zenon, <2>2, SizeType
<1>8. insert_key_images(p.spent, t) = Spenders(E)
  <2>1. PICK f : f = p.spent
    BY Zenon
  <2>2. \A i \in Images : f[i] = {u \in D : i \in Tx[u].images}
    BY Zenon, <1>1, <2>1 DEF Spenders
  <2>3. ASSUME NEW i \in Images
        PROVE  (IF i \in Tx[t].images THEN f[i] \cup {t} ELSE f[i]) = {u \in E : i \in Tx[u].images}
    BY Zenon, <1>2, <2>2
  <2>4. insert_key_images(f, t) = Spenders(E)
    BY Zenon, <2>3 DEF insert_key_images, Spenders
  <2> QED
    BY Zenon, <2>1, <2>4
<1>9. q = PoolOf(d, s, E, w)
  BY Zenon, <1>1, <1>2, <1>3, <1>5, <1>7, <1>8 DEF Insert, PoolOf
<1>10. q \in Pools /\ q.db = d /\ DOMAIN q.db = E
  <2>1. PoolWith(q, d, E)
    BY Zenon, <1>4, <1>6, <1>9, IsPool
  <2> QED
    BY Zenon, <2>1 DEF PoolWith
<1>11. d[t] = meta /\ \A u \in D : d[u] = p.db[u]
  BY Zenon, <1>1, <1>2, <1>3
<1> QED
  BY Zenon, <1>1, <1>2, <1>10, <1>11 DEF Entered, SameOn

\* What is left of a pool: q has entries of p, and those of the transactions of D are gone.
Left(q, p, D) == q \in Pools /\ DOMAIN q.db = DOMAIN p.db \ D /\ SameOn(q.db, p.db, DOMAIN q.db)

\* A transaction leaves the table and the indexes.
LEMMA DropPool ==
  ASSUME NEW p \in Pools, NEW t, NEW amount \in Int, NEW q, q = Drop(p, t, amount)
  PROVE  Left(q, p, {t})
<1>1. PICK D \in SUBSET Txs : D = DOMAIN p.db /\ p.db \in [D -> Metas] /\ Lists(p.sorted, D) /\ p.spent = Spenders(D)
  BY Zenon, PoolParts
<1>2. PICK E \in SUBSET Txs : E = D \ {t}
  OBVIOUS
<1>3. PICK d : d = [u \in E |-> p.db[u]]
  BY Zenon
<1>4. d \in [E -> Metas]
  BY Zenon, <1>1, <1>2, <1>3
<1>5. PICK s : s = Erase(p.sorted, t)
  BY Zenon
<1>6. Lists(s, E)
  BY Zenon, <1>1, <1>2, <1>5, RemoveLists
<1>7. PICK w \in Int : w = (p.weight - amount) % SizeModulus
  <2>1. p.weight \in Int
    BY Zenon, PoolParts
  <2>2. p.weight - amount \in Int
    BY <2>1
  <2> QED
    BY Zenon, <2>2, SizeType
<1>8. remove_transaction_keyimages(p.spent, t) = Spenders(E)
  <2>1. PICK f : f = p.spent
    BY Zenon
  <2>2. \A i \in Images : f[i] = {u \in D : i \in Tx[u].images}
    BY Zenon, <1>1, <2>1 DEF Spenders
  <2>3. ASSUME NEW i \in Images
        PROVE  f[i] \ {t} = {u \in E : i \in Tx[u].images}
    BY Zenon, <1>2, <2>2
  <2>4. remove_transaction_keyimages(f, t) = Spenders(E)
    BY Zenon, <2>3 DEF remove_transaction_keyimages, Spenders
  <2> QED
    BY Zenon, <2>1, <2>4
<1>9. q = PoolOf(d, s, E, w)
  BY Zenon, <1>1, <1>2, <1>3, <1>5, <1>7, <1>8 DEF Drop, PoolOf
<1>10. q \in Pools /\ q.db = d /\ DOMAIN q.db = E
  <2>1. PoolWith(q, d, E)
    BY Zenon, <1>4, <1>6, <1>9, IsPool
  <2> QED
    BY Zenon, <2>1 DEF PoolWith
<1>11. \A u \in E : d[u] = p.db[u]
  BY Zenon, <1>3
<1> QED
  BY Zenon, <1>1, <1>2, <1>10, <1>11 DEF Left, SameOn

-----------------------------------------------------------------------------
(* Loops over transactions.  For each of them: what the recursive definition asks for, that
   the loop is such a run if there is one, and that it ends in its last stage. *)

\* A run over transactions that are taken out, and its stages; what it ends in.
TakeRun(seq, p, k, f) == f = [n \in 0..k |-> IF n = 0 THEN p ELSE take_tx(f[n - 1], seq[n])]

TakeResult(seq, p) == ForEach(seq, p, take_tx)

TakeGoes(S, seq, k) == \A n \in 1..k : \A x \in S[n - 1] : take_tx(x, seq[n]) \in S[n]

TakeHas(seq, p, k) == \E g : TakeRun(seq, p, k, g) /\ TakeResult(seq, p) = g[k]

\* The loop of taking out is such a run, if there is one.
LEMMA TakeLoop ==
  ASSUME NEW seq, NEW p, NEW k, k = Len(seq), NEW f, TakeRun(seq, p, k, f)
  PROVE  TakeHas(seq, p, k)
  BY Zenon DEF ForEach, TakeHas, TakeRun, TakeResult

\* It ends in the last stage, if every step goes from a stage to the next.
LEMMA TakeEnds ==
  ASSUME NEW seq, NEW k \in Nat, k = Len(seq), NEW S, NEW p \in S[0], TakeGoes(S, seq, k)
  PROVE  TakeResult(seq, p) \in S[k]
<1> DEFINE U == UNION {S[n] : n \in 0..k}
           F == [a \in (1..k) \X U |-> take_tx(a[2], seq[a[1]])]
<1>1. ASSUME NEW n \in 1..k
      PROVE  n - 1 \in 0..k /\ n \in 0..k /\ n # 0
  OBVIOUS
<1>2. ASSUME NEW n \in 1..k, NEW x \in S[n - 1]
      PROVE  F[<<n, x>>] = take_tx(x, seq[n])
  <2>1. x \in U
    BY Zenon, <1>1
  <2> HIDE DEF U
  <2>2. <<n, x>> \in (1..k) \X U /\ <<n, x>>[1] = n /\ <<n, x>>[2] = x
    BY <2>1
  <2> QED
    BY Zenon, <2>2
<1> HIDE DEF U, F
<1>3. Stages(S, F, k)
  BY Zenon, <1>2 DEF Stages, TakeGoes
<1>4. PICK f : f = [n \in 0..k |-> f[n]] /\ Runs(F, p, k, f) /\ \A n \in 0..k : f[n] \in S[n]
  BY Zenon, <1>3, RunExists
<1>5. TakeRun(seq, p, k, f)
  <2>1. \A n \in 1..k : f[n] = take_tx(f[n - 1], seq[n])
    BY Zenon, <1>1, <1>2, <1>4 DEF Runs
  <2>2. \A n \in 0..k : n = 0 \/ n \in 1..k
    OBVIOUS
  <2>3. \A n \in 0..k : f[n] = IF n = 0 THEN p ELSE take_tx(f[n - 1], seq[n])
    BY Zenon, <1>4, <2>1, <2>2 DEF Runs
  <2> QED
    BY Zenon, <1>4, <2>3 DEF TakeRun
<1>6. PICK g : TakeRun(seq, p, k, g) /\ TakeResult(seq, p) = g[k]
  <2>1. TakeHas(seq, p, k)
    BY Zenon, <1>5, TakeLoop
  <2> QED
    BY Zenon, <2>1 DEF TakeHas
<1>7. \A n \in 0..k : g[n] = IF n = 0 THEN p ELSE take_tx(g[n - 1], seq[n])
  BY Zenon, <1>6 DEF TakeRun
<1>8. PICK T : T = {n \in 0..k : g[n] \in S[n]}
  BY Zenon
<1>9. 0 \in T
  <2>1. 0 \in 0..k
    OBVIOUS
  <2> QED
    BY Zenon, <1>7, <1>8, <2>1
<1>10. \A n \in 1..k : n - 1 \in T => n \in T
  BY Zenon, <1>1, <1>7, <1>8 DEF TakeGoes
<1>11. \A n \in 0..k : n \in T
  BY Zenon, <1>9, <1>10, AllUpTo
<1>12. k \in 0..k
  OBVIOUS
<1> QED
  BY Zenon, <1>6, <1>8, <1>11, <1>12

\* A run over transactions that are pruned, e the table before, and its stages; what it ends in.
PruneRun(e, seq, p, k, f) == f = [n \in 0..k |-> IF n = 0 THEN p ELSE PruneOne(f[n - 1], seq[n], e[seq[n]])]

PruneResult(e, seq, p) == ForEach(seq, p, LAMBDA q, t : PruneOne(q, t, e[t]))

PruneGoes(e, S, seq, k) == \A n \in 1..k : \A x \in S[n - 1] : PruneOne(x, seq[n], e[seq[n]]) \in S[n]

PruneHas(e, seq, p, k) == \E g : PruneRun(e, seq, p, k, g) /\ PruneResult(e, seq, p) = g[k]

\* The loop of pruning is such a run, if there is one.
LEMMA PruneLoop ==
  ASSUME NEW e, NEW seq, NEW p, NEW k, k = Len(seq), NEW f, PruneRun(e, seq, p, k, f)
  PROVE  PruneHas(e, seq, p, k)
  BY Zenon DEF ForEach, PruneHas, PruneRun, PruneResult

\* It ends in the last stage, if every step goes from a stage to the next.
LEMMA PruneEnds ==
  ASSUME NEW e, NEW seq, NEW k \in Nat, k = Len(seq), NEW S, NEW p \in S[0], PruneGoes(e, S, seq, k)
  PROVE  PruneResult(e, seq, p) \in S[k]
<1> DEFINE U == UNION {S[n] : n \in 0..k}
           F == [a \in (1..k) \X U |-> PruneOne(a[2], seq[a[1]], e[seq[a[1]]])]
<1>1. ASSUME NEW n \in 1..k
      PROVE  n - 1 \in 0..k /\ n \in 0..k /\ n # 0
  OBVIOUS
<1>2. ASSUME NEW n \in 1..k, NEW x \in S[n - 1]
      PROVE  F[<<n, x>>] = PruneOne(x, seq[n], e[seq[n]])
  <2>1. x \in U
    BY Zenon, <1>1
  <2> HIDE DEF U
  <2>2. <<n, x>> \in (1..k) \X U /\ <<n, x>>[1] = n /\ <<n, x>>[2] = x
    BY <2>1
  <2> QED
    BY Zenon, <2>2
<1> HIDE DEF U, F
<1>3. Stages(S, F, k)
  BY Zenon, <1>2 DEF Stages, PruneGoes
<1>4. PICK f : f = [n \in 0..k |-> f[n]] /\ Runs(F, p, k, f) /\ \A n \in 0..k : f[n] \in S[n]
  BY Zenon, <1>3, RunExists
<1>5. PruneRun(e, seq, p, k, f)
  <2>1. \A n \in 1..k : f[n] = PruneOne(f[n - 1], seq[n], e[seq[n]])
    BY Zenon, <1>1, <1>2, <1>4 DEF Runs
  <2>2. \A n \in 0..k : n = 0 \/ n \in 1..k
    OBVIOUS
  <2>3. \A n \in 0..k : f[n] = IF n = 0 THEN p ELSE PruneOne(f[n - 1], seq[n], e[seq[n]])
    BY Zenon, <1>4, <2>1, <2>2 DEF Runs
  <2> QED
    BY Zenon, <1>4, <2>3 DEF PruneRun
<1>6. PICK g : PruneRun(e, seq, p, k, g) /\ PruneResult(e, seq, p) = g[k]
  <2>1. PruneHas(e, seq, p, k)
    BY Zenon, <1>5, PruneLoop
  <2> QED
    BY Zenon, <2>1 DEF PruneHas
<1>7. \A n \in 0..k : g[n] = IF n = 0 THEN p ELSE PruneOne(g[n - 1], seq[n], e[seq[n]])
  BY Zenon, <1>6 DEF PruneRun
<1>8. PICK T : T = {n \in 0..k : g[n] \in S[n]}
  BY Zenon
<1>9. 0 \in T
  <2>1. 0 \in 0..k
    OBVIOUS
  <2> QED
    BY Zenon, <1>7, <1>8, <2>1
<1>10. \A n \in 1..k : n - 1 \in T => n \in T
  BY Zenon, <1>1, <1>7, <1>8 DEF PruneGoes
<1>11. \A n \in 0..k : n \in T
  BY Zenon, <1>9, <1>10, AllUpTo
<1>12. k \in 0..k
  OBVIOUS
<1> QED
  BY Zenon, <1>6, <1>8, <1>11, <1>12

\* A run over transactions that come back to a pool on chain c, and its stages; what it ends in.
ReturnRun(c, seq, p, k, f) == f = [n \in 0..k |-> IF n = 0 THEN p ELSE AddKept(c, f[n - 1], seq[n])]

ReturnResult(c, seq, p) == ForEach(seq, p, LAMBDA q, t : AddKept(c, q, t))

ReturnGoes(c, S, seq, k) == \A n \in 1..k : \A x \in S[n - 1] : AddKept(c, x, seq[n]) \in S[n]

ReturnHas(c, seq, p, k) == \E g : ReturnRun(c, seq, p, k, g) /\ ReturnResult(c, seq, p) = g[k]

\* The loop of returning is such a run, if there is one.
LEMMA ReturnLoop ==
  ASSUME NEW c, NEW seq, NEW p, NEW k, k = Len(seq), NEW f, ReturnRun(c, seq, p, k, f)
  PROVE  ReturnHas(c, seq, p, k)
  BY Zenon DEF ForEach, ReturnHas, ReturnRun, ReturnResult

\* It ends in the last stage, if every step goes from a stage to the next.
LEMMA ReturnEnds ==
  ASSUME NEW c, NEW seq, NEW k \in Nat, k = Len(seq), NEW S, NEW p \in S[0], ReturnGoes(c, S, seq, k)
  PROVE  ReturnResult(c, seq, p) \in S[k]
<1> DEFINE U == UNION {S[n] : n \in 0..k}
           F == [a \in (1..k) \X U |-> AddKept(c, a[2], seq[a[1]])]
<1>1. ASSUME NEW n \in 1..k
      PROVE  n - 1 \in 0..k /\ n \in 0..k /\ n # 0
  OBVIOUS
<1>2. ASSUME NEW n \in 1..k, NEW x \in S[n - 1]
      PROVE  F[<<n, x>>] = AddKept(c, x, seq[n])
  <2>1. x \in U
    BY Zenon, <1>1
  <2> HIDE DEF U
  <2>2. <<n, x>> \in (1..k) \X U /\ <<n, x>>[1] = n /\ <<n, x>>[2] = x
    BY <2>1
  <2> QED
    BY Zenon, <2>2
<1> HIDE DEF U, F
<1>3. Stages(S, F, k)
  BY Zenon, <1>2 DEF Stages, ReturnGoes
<1>4. PICK f : f = [n \in 0..k |-> f[n]] /\ Runs(F, p, k, f) /\ \A n \in 0..k : f[n] \in S[n]
  BY Zenon, <1>3, RunExists
<1>5. ReturnRun(c, seq, p, k, f)
  <2>1. \A n \in 1..k : f[n] = AddKept(c, f[n - 1], seq[n])
    BY Zenon, <1>1, <1>2, <1>4 DEF Runs
  <2>2. \A n \in 0..k : n = 0 \/ n \in 1..k
    OBVIOUS
  <2>3. \A n \in 0..k : f[n] = IF n = 0 THEN p ELSE AddKept(c, f[n - 1], seq[n])
    BY Zenon, <1>4, <2>1, <2>2 DEF Runs
  <2> QED
    BY Zenon, <1>4, <2>3 DEF ReturnRun
<1>6. PICK g : ReturnRun(c, seq, p, k, g) /\ ReturnResult(c, seq, p) = g[k]
  <2>1. ReturnHas(c, seq, p, k)
    BY Zenon, <1>5, ReturnLoop
  <2> QED
    BY Zenon, <2>1 DEF ReturnHas
<1>7. \A n \in 0..k : g[n] = IF n = 0 THEN p ELSE AddKept(c, g[n - 1], seq[n])
  BY Zenon, <1>6 DEF ReturnRun
<1>8. PICK T : T = {n \in 0..k : g[n] \in S[n]}
  BY Zenon
<1>9. 0 \in T
  <2>1. 0 \in 0..k
    OBVIOUS
  <2> QED
    BY Zenon, <1>7, <1>8, <2>1
<1>10. \A n \in 1..k : n - 1 \in T => n \in T
  BY Zenon, <1>1, <1>7, <1>8 DEF ReturnGoes
<1>11. \A n \in 0..k : n \in T
  BY Zenon, <1>9, <1>10, AllUpTo
<1>12. k \in 0..k
  OBVIOUS
<1> QED
  BY Zenon, <1>6, <1>8, <1>11, <1>12

\* A run over transactions that are read from the table e at start, and its stages; what it ends in.
ReadRun(e, seq, p, k, f) == f = [n \in 0..k |-> IF n = 0 THEN p ELSE Insert(f[n - 1], seq[n], e[seq[n]])]

ReadResult(e, seq, p) == ForEach(seq, p, LAMBDA q, t : Insert(q, t, e[t]))

ReadGoes(e, S, seq, k) == \A n \in 1..k : \A x \in S[n - 1] : Insert(x, seq[n], e[seq[n]]) \in S[n]

ReadHas(e, seq, p, k) == \E g : ReadRun(e, seq, p, k, g) /\ ReadResult(e, seq, p) = g[k]

\* The loop of reading is such a run, if there is one.
LEMMA ReadLoop ==
  ASSUME NEW e, NEW seq, NEW p, NEW k, k = Len(seq), NEW f, ReadRun(e, seq, p, k, f)
  PROVE  ReadHas(e, seq, p, k)
  BY Zenon DEF ForEach, ReadHas, ReadRun, ReadResult

\* It ends in the last stage, if every step goes from a stage to the next.
LEMMA ReadEnds ==
  ASSUME NEW e, NEW seq, NEW k \in Nat, k = Len(seq), NEW S, NEW p \in S[0], ReadGoes(e, S, seq, k)
  PROVE  ReadResult(e, seq, p) \in S[k]
<1> DEFINE U == UNION {S[n] : n \in 0..k}
           F == [a \in (1..k) \X U |-> Insert(a[2], seq[a[1]], e[seq[a[1]]])]
<1>1. ASSUME NEW n \in 1..k
      PROVE  n - 1 \in 0..k /\ n \in 0..k /\ n # 0
  OBVIOUS
<1>2. ASSUME NEW n \in 1..k, NEW x \in S[n - 1]
      PROVE  F[<<n, x>>] = Insert(x, seq[n], e[seq[n]])
  <2>1. x \in U
    BY Zenon, <1>1
  <2> HIDE DEF U
  <2>2. <<n, x>> \in (1..k) \X U /\ <<n, x>>[1] = n /\ <<n, x>>[2] = x
    BY <2>1
  <2> QED
    BY Zenon, <2>2
<1> HIDE DEF U, F
<1>3. Stages(S, F, k)
  BY Zenon, <1>2 DEF Stages, ReadGoes
<1>4. PICK f : f = [n \in 0..k |-> f[n]] /\ Runs(F, p, k, f) /\ \A n \in 0..k : f[n] \in S[n]
  BY Zenon, <1>3, RunExists
<1>5. ReadRun(e, seq, p, k, f)
  <2>1. \A n \in 1..k : f[n] = Insert(f[n - 1], seq[n], e[seq[n]])
    BY Zenon, <1>1, <1>2, <1>4 DEF Runs
  <2>2. \A n \in 0..k : n = 0 \/ n \in 1..k
    OBVIOUS
  <2>3. \A n \in 0..k : f[n] = IF n = 0 THEN p ELSE Insert(f[n - 1], seq[n], e[seq[n]])
    BY Zenon, <1>4, <2>1, <2>2 DEF Runs
  <2> QED
    BY Zenon, <1>4, <2>3 DEF ReadRun
<1>6. PICK g : ReadRun(e, seq, p, k, g) /\ ReadResult(e, seq, p) = g[k]
  <2>1. ReadHas(e, seq, p, k)
    BY Zenon, <1>5, ReadLoop
  <2> QED
    BY Zenon, <2>1 DEF ReadHas
<1>7. \A n \in 0..k : g[n] = IF n = 0 THEN p ELSE Insert(g[n - 1], seq[n], e[seq[n]])
  BY Zenon, <1>6 DEF ReadRun
<1>8. PICK T : T = {n \in 0..k : g[n] \in S[n]}
  BY Zenon
<1>9. 0 \in T
  <2>1. 0 \in 0..k
    OBVIOUS
  <2> QED
    BY Zenon, <1>7, <1>8, <2>1
<1>10. \A n \in 1..k : n - 1 \in T => n \in T
  BY Zenon, <1>1, <1>7, <1>8 DEF ReadGoes
<1>11. \A n \in 0..k : n \in T
  BY Zenon, <1>9, <1>10, AllUpTo
<1>12. k \in 0..k
  OBVIOUS
<1> QED
  BY Zenon, <1>6, <1>8, <1>11, <1>12

-----------------------------------------------------------------------------
(* Many transactions in or out *)

\* The first n members of a sequence.
First(seq, n) == {seq[i] : i \in 1..n}

\* A list goes through its members one by one.
LEMMA FirstIs ==
  ASSUME NEW T, NEW seq, Lists(seq, T), NEW k, k = Len(seq)
  PROVE  /\ k \in Nat /\ First(seq, 0) = {} /\ First(seq, k) = T
         /\ \A n \in 1..k : /\ First(seq, n) = First(seq, n - 1) \cup {seq[n]}
                            /\ seq[n] \in T /\ seq[n] \notin First(seq, n - 1)
<1>1. seq \in Seq(T) /\ Range(seq) = T /\ IsInjective(seq)
  BY Zenon DEF Lists
<1>2. k \in Nat /\ DOMAIN seq = 1..k
  BY <1>1
<1>3. First(seq, 0) = {}
  BY DEF First
<1>4. First(seq, k) = T
  BY Zenon, <1>1, <1>2 DEF First, Range
<1>5. ASSUME NEW n \in 1..k
      PROVE  /\ First(seq, n) = First(seq, n - 1) \cup {seq[n]}
             /\ seq[n] \in T /\ seq[n] \notin First(seq, n - 1)
  <2>1. 1..n = (1..n - 1) \cup {n} /\ n \notin 1..n - 1 /\ (1..n - 1) \subseteq 1..k
    BY <1>2
  <2>2. First(seq, n) = First(seq, n - 1) \cup {seq[n]}
    BY Zenon, <2>1 DEF First
  <2>3. seq[n] \in T
    BY Zenon, <1>1, <1>2 DEF Range
  <2>4. seq[n] \notin First(seq, n - 1)
    BY Zenon, <1>1, <1>2, <2>1 DEF First, IsInjective
  <2> QED
    BY Zenon, <2>2, <2>3, <2>4
<1> QED
  BY Zenon, <1>2, <1>3, <1>4, <1>5

\* One transaction after the other is taken out.
LEMMA TakePool ==
  ASSUME NEW p \in Pools, NEW T \in SUBSET Txs, NEW q, q = TakeAll(p, T)
  PROVE  Left(q, p, T)
<1>1. PICK seq : seq = SetToSeq(T)
  BY Zenon
<1>2. Lists(seq, T)
  <2>1. IsFiniteSet(T)
    BY Zenon, PoolAssumption, FS_Subset
  <2> QED
    BY Zenon, <1>1, <2>1, SetListed
<1>3. PICK k \in Nat : k = Len(seq)
  BY Zenon, <1>2, FirstIs
<1>4. /\ First(seq, 0) = {} /\ First(seq, k) = T
      /\ \A n \in 1..k : First(seq, n) = First(seq, n - 1) \cup {seq[n]} /\ seq[n] \in T
  BY Zenon, <1>2, <1>3, FirstIs
<1>5. PICK S : S = [n \in 0..k |-> {x \in Pools : Left(x, p, First(seq, n))}]
  BY Zenon
<1>6. 0 \in 0..k /\ k \in 0..k /\ \A n \in 1..k : n \in 0..k /\ n - 1 \in 0..k
  OBVIOUS
<1>7. p \in S[0]
  <2>1. Left(p, p, First(seq, 0))
    BY Zenon, <1>4 DEF Left, SameOn
  <2> QED
    BY Zenon, <1>5, <1>6, <2>1
<1>8. ASSUME NEW n \in 1..k, NEW x \in S[n - 1]
      PROVE  take_tx(x, seq[n]) \in S[n]
  <2>1. PICK y : y = take_tx(x, seq[n])
    BY Zenon
  <2>2. x \in Pools /\ Left(x, p, First(seq, n - 1))
    BY Zenon, <1>5, <1>6
  <2>3. Tx[seq[n]].weight \in Int
    BY Zenon, <1>4, TxTypes
  <2>4. Left(y, x, {seq[n]})
    BY Zenon, <2>1, <2>2, <2>3, DropPool DEF take_tx
  <2>5. Left(y, p, First(seq, n))
    BY Zenon, <1>4, <2>2, <2>4 DEF Left, SameOn
  <2>6. y \in Pools
    BY Zenon, <2>4 DEF Left
  <2> QED
    BY Zenon, <1>5, <1>6, <2>1, <2>5, <2>6
<1>9. TakeGoes(S, seq, k)
  BY Zenon, <1>8 DEF TakeGoes
<1>10. q \in S[k]
  BY Zenon, <1>1, <1>3, <1>7, <1>9, TakeEnds DEF TakeAll, TakeResult
<1> QED
  BY Zenon, <1>4, <1>5, <1>6, <1>10

\* q has entries of p, and may lack some.
Within(q, p) == q \in Pools /\ DOMAIN q.db \subseteq DOMAIN p.db /\ SameOn(q.db, p.db, DOMAIN q.db)

\* prune only takes out.
LEMMA PrunePool ==
  ASSUME NEW p \in Pools, DOMAIN p.db # {}, NEW q, q = prune(p)
  PROVE  Within(q, p)
<1>1. PICK D \in SUBSET Txs : D = DOMAIN p.db /\ p.db \in [D -> Metas] /\ Lists(p.sorted, D) /\ D # {}
  BY Zenon, PoolParts
<1>2. PICK s \in Seq(D) : s = p.sorted /\ s # <<>>
  <2>1. p.sorted \in Seq(D) /\ Range(p.sorted) = D
    BY Zenon, <1>1 DEF Lists
  <2>2. p.sorted # <<>>
    BY <1>1, <2>1 DEF Range
  <2> QED
    BY Zenon, <2>1, <2>2
<1>3. PICK r \in Seq(D) : r = Tail(s)
  <2>1. s \in Seq(D) /\ s # <<>>
    BY Zenon, <1>2
  <2>2. Tail(s) \in Seq(D)
    BY <2>1
  <2> QED
    BY Zenon, <2>2
<1>4. PICK seq \in Seq(D) : seq = Reverse(r)
  <2>1. PICK l \in Nat : l = Len(r)
    BY <1>3
  <2>2. \A i \in 1..l : (l - i) + 1 \in 1..l
    OBVIOUS
  <2>3. \A i \in 1..l : r[(l - i) + 1] \in D
    BY <1>3, <2>1, <2>2
  <2>4. Reverse(r) = [i \in 1..l |-> r[(l - i) + 1]]
    BY Zenon, <2>1 DEF Reverse
  <2>5. Reverse(r) \in [1..l -> D]
    BY Zenon, <2>3, <2>4
  <2>6. Reverse(r) \in Seq(D)
    BY <2>5
  <2> QED
    BY Zenon, <2>6
<1>5. PICK k \in Nat : k = Len(seq)
  BY <1>4
<1>6. \A n \in 1..k : seq[n] \in D
  BY <1>4, <1>5
<1>7. PICK S : S = [n \in 0..k |-> {x \in Pools : Within(x, p)}]
  BY Zenon
<1>8. 0 \in 0..k /\ k \in 0..k /\ \A n \in 1..k : n \in 0..k /\ n - 1 \in 0..k
  OBVIOUS
<1>9. p \in S[0]
  BY Zenon, <1>7, <1>8 DEF Within, SameOn
<1>10. PICK e : e = p.db
  BY Zenon
<1>11. ASSUME NEW n \in 1..k, NEW x \in S[n - 1]
       PROVE  PruneOne(x, seq[n], e[seq[n]]) \in S[n]
  <2>1. PICK y : y = PruneOne(x, seq[n], e[seq[n]])
    BY Zenon
  <2>2. x \in Pools /\ Within(x, p)
    BY Zenon, <1>7, <1>8
  <2>3. e[seq[n]] \in Metas
    BY Zenon, <1>1, <1>6, <1>10
  <2>4. e[seq[n]].time \in Int
    BY <2>3 DEF Metas
  <2>5. y = x \/ y = Drop(x, seq[n], e[seq[n]].time)
    BY Zenon, <2>1 DEF PruneOne
  <2>6. y = x \/ Left(y, x, {seq[n]})
    BY Zenon, <2>2, <2>4, <2>5, DropPool
  <2>7. Within(y, p)
    BY Zenon, <2>2, <2>6 DEF Left, SameOn, Within
  <2>8. y \in Pools
    BY Zenon, <2>7 DEF Within
  <2> QED
    BY Zenon, <1>7, <1>8, <2>1, <2>7, <2>8
<1>12. PruneGoes(e, S, seq, k)
  BY Zenon, <1>11 DEF PruneGoes
<1>13. PruneResult(e, seq, p) \in S[k]
  BY Zenon, <1>5, <1>9, <1>12, PruneEnds
<1>14. q = PruneResult(e, seq, p)
  <2>1. q = PruneResult(p.db, Reverse(Tail(p.sorted)), p)
    BY Zenon DEF prune, PruneResult
  <2> QED
    BY Zenon, <1>2, <1>3, <1>4, <1>10, <2>1
<1> QED
  BY Zenon, <1>7, <1>8, <1>13, <1>14

Chains == Seq(DOMAIN BlockTxs)

\* The position of the last block that a transaction uses.
LEMMA MaxUsedType ==
  ASSUME NEW c \in Chains, c # <<>>, NEW t
  PROVE  MaxUsed(c, t) \in Int
<1>1. PICK l \in Nat : l = Len(c)
  BY DEF Chains
<1>2. PICK I : I = {i \in DOMAIN c : i = 1 \/ BlockTxs[c[i]] \cap Tx[t].uses # {}}
  BY Zenon
<1>3. DOMAIN c = 1..l /\ 1 \in 1..l
  BY <1>1 DEF Chains
<1>4. I \in SUBSET (0..l) /\ I # {}
  <2>1. I \subseteq 1..l /\ 1 \in I
    BY Zenon, <1>2, <1>3
  <2>2. (1..l) \subseteq 0..l
    OBVIOUS
  <2> QED
    BY Zenon, <2>1, <2>2
<1>5. Max(I) \in I
  BY Zenon, <1>4, GreatestIn
<1>6. Max(I) \in Int
  <2>1. PICK x \in 0..l : x = Max(I)
    BY Zenon, <1>4, <1>5
  <2>2. x \in Int
    OBVIOUS
  <2> QED
    BY Zenon, <2>1, <2>2
<1> QED
  BY Zenon, <1>2, <1>6 DEF MaxUsed

\* What add_tx notes of a transaction has the type of an entry.
LEMMA MetaType ==
  ASSUME NEW c \in Chains, c # <<>>, NEW p, NEW t, NEW kept \in BOOLEAN, now \in Int,
         NEW m, m = NewMeta(c, p, t, kept)
  PROVE  m \in Metas /\ m.kept = kept
<1>1. MaxUsed(c, t) \in Int
  BY Zenon, MaxUsedType
<1>2. InputsValid(c, t) \in BOOLEAN
  BY Zenon DEF InputsValid
<1>3. Epoch + now \in Int
  BY PoolAssumption
<1>4. PICK h \in BOOLEAN : h = (~InputsValid(c, t) /\ have_tx_keyimges_as_spent(p, t))
  BY Zenon
<1>5. PICK u \in Int : u = IF InputsValid(c, t) THEN MaxUsed(c, t) ELSE 1
  <2>1. 1 \in Int
    OBVIOUS
  <2> QED
    BY Zenon, <1>1, <2>1
<1>6. PICK i \in BOOLEAN : i = InputsValid(c, t)
  BY Zenon, <1>2
<1>7. PICK z \in Int : z = Epoch + now
  BY Zenon, <1>3
<1>8. <<>> \in Seq(DOMAIN BlockTxs)
  OBVIOUS
<1>9. m = [kept |-> kept, time |-> z, checked |-> i, max_used |-> u, failed |-> <<>>, double_spend_seen |-> h]
  BY Zenon, <1>4, <1>5, <1>6, <1>7 DEF NewMeta
<1> QED
  BY <1>8, <1>9 DEF Metas

\* q has entries of p, and others of transactions of T that were kept by a block.
Kin(q, p, T) ==
  /\ q \in Pools /\ DOMAIN q.db \subseteq DOMAIN p.db \cup T
  /\ \A u \in DOMAIN q.db : q.db[u].kept \/ (u \in DOMAIN p.db /\ q.db[u] = p.db[u])

\* A transaction that came with a block.
LEMMA KeptPool ==
  ASSUME NEW c \in Chains, c # <<>>, now \in Int, NEW p \in Pools, NEW t \in Txs, t \notin DOMAIN p.db,
         NEW q, q = AddKept(c, p, t)
  PROVE  Kin(q, p, {t})
<1>1. PICK m : m = NewMeta(c, p, t, TRUE)
  BY Zenon
<1>2. m \in Metas /\ m.kept = TRUE
  BY Zenon, <1>1, MetaType
<1>3. PICK x : x = Insert(p, t, m)
  BY Zenon
<1>4. Entered(x, p, t, m)
  BY Zenon, <1>2, <1>3, InsertPool
<1>5. x \in Pools /\ DOMAIN x.db # {}
  BY Zenon, <1>4 DEF Entered
<1>6. q = prune(x)
  BY Zenon, <1>1, <1>3 DEF AddKept
<1>7. Within(q, x)
  BY Zenon, <1>5, <1>6, PrunePool
<1> QED
  BY Zenon, <1>2, <1>4, <1>7 DEF Within, Entered, SameOn, Kin

\* Transactions come back one after the other.
LEMMA ReturnPool ==
  ASSUME NEW c \in Chains, c # <<>>, now \in Int, NEW p \in Pools, NEW T \in SUBSET Txs, T \cap DOMAIN p.db = {},
         NEW q, q = ReturnAll(c, p, T)
  PROVE  Kin(q, p, T)
<1>1. PICK seq : seq = SetToSeq(T)
  BY Zenon
<1>2. Lists(seq, T)
  <2>1. IsFiniteSet(T)
    BY Zenon, PoolAssumption, FS_Subset
  <2> QED
    BY Zenon, <1>1, <2>1, SetListed
<1>3. PICK k \in Nat : k = Len(seq)
  BY Zenon, <1>2, FirstIs
<1>4. /\ First(seq, 0) = {} /\ First(seq, k) = T
      /\ \A n \in 1..k : /\ First(seq, n) = First(seq, n - 1) \cup {seq[n]}
                         /\ seq[n] \in T /\ seq[n] \notin First(seq, n - 1)
  BY Zenon, <1>2, <1>3, FirstIs
<1>5. PICK S : S = [n \in 0..k |-> {x \in Pools : Kin(x, p, First(seq, n))}]
  BY Zenon
<1>6. 0 \in 0..k /\ k \in 0..k /\ \A n \in 1..k : n \in 0..k /\ n - 1 \in 0..k
  OBVIOUS
<1>7. p \in S[0]
  <2>1. Kin(p, p, First(seq, 0))
    BY Zenon, <1>4 DEF Kin
  <2> QED
    BY Zenon, <1>5, <1>6, <2>1
<1>8. ASSUME NEW n \in 1..k, NEW x \in S[n - 1]
      PROVE  AddKept(c, x, seq[n]) \in S[n]
  <2>1. PICK y : y = AddKept(c, x, seq[n])
    BY Zenon
  <2>2. x \in Pools /\ Kin(x, p, First(seq, n - 1))
    BY Zenon, <1>5, <1>6
  <2>3. PICK t \in Txs : t = seq[n] /\ t \in T
    BY Zenon, <1>4
  <2>4. t \notin DOMAIN x.db
    BY Zenon, <1>4, <2>2, <2>3 DEF Kin
  <2>5. Kin(y, x, {t})
    BY Zenon, <2>1, <2>2, <2>3, <2>4, KeptPool
  <2>6. Kin(y, p, First(seq, n))
    <3>1. DOMAIN y.db \subseteq DOMAIN p.db \cup First(seq, n) /\ y \in Pools
      <4>1. DOMAIN y.db \subseteq DOMAIN x.db \cup {t} /\ y \in Pools
        BY Zenon, <2>5 DEF Kin
      <4>2. DOMAIN x.db \subseteq DOMAIN p.db \cup First(seq, n - 1)
        BY Zenon, <2>2 DEF Kin
      <4>3. First(seq, n) = First(seq, n - 1) \cup {t}
        BY Zenon, <1>4, <2>3
      <4> QED
        BY Zenon, <4>1, <4>2, <4>3
    <3>2. ASSUME NEW u \in DOMAIN y.db
          PROVE  y.db[u].kept \/ (u \in DOMAIN p.db /\ y.db[u] = p.db[u])
      <4>1. CASE y.db[u].kept
        BY Zenon, <4>1
      <4>2. CASE u \in DOMAIN x.db /\ y.db[u] = x.db[u]
        <5>1. x.db[u].kept \/ (u \in DOMAIN p.db /\ x.db[u] = p.db[u])
          BY Zenon, <2>2, <4>2 DEF Kin
        <5> QED
          BY Zenon, <4>2, <5>1
      <4> QED
        BY Zenon, <2>5, <4>1, <4>2 DEF Kin
    <3> QED
      BY Zenon, <3>1, <3>2 DEF Kin
  <2>7. y \in Pools
    BY Zenon, <2>5 DEF Kin
  <2> QED
    BY Zenon, <1>5, <1>6, <2>1, <2>6, <2>7
<1>9. ReturnGoes(c, S, seq, k)
  BY Zenon, <1>8 DEF ReturnGoes
<1>10. ReturnResult(c, seq, p) \in S[k]
  BY Zenon, <1>3, <1>7, <1>9, ReturnEnds
<1>11. q = ReturnResult(c, seq, p)
  BY Zenon, <1>1 DEF ReturnAll, ReturnResult
<1>12. q \in S[k]
  BY Zenon, <1>10, <1>11
<1>13. q \in {x \in Pools : Kin(x, p, First(seq, k))}
  BY Zenon, <1>5, <1>6, <1>12
<1> QED
  BY Zenon, <1>4, <1>13

\* A pool with nothing in it.
LEMMA EmptyIs == EmptyPool \in Pools /\ DOMAIN EmptyPool.db = {}
<1>1. PICK z : z = <<>>
  BY Zenon
<1>2. DOMAIN z = {} /\ z \in [{} -> Metas] /\ z \in Seq({})
  BY <1>1
<1>3. Lists(z, {})
  BY <1>1, <1>2 DEF Lists, IsInjective, Range
<1>4. Spenders({}) = [i \in Images |-> {}]
  BY Zenon DEF Spenders
<1>5. EmptyPool = PoolOf(z, z, {}, 0)
  BY Zenon, <1>1, <1>4 DEF EmptyPool, PoolOf
<1>6. PoolWith(EmptyPool, z, {})
  <2>1. 0 \in Int /\ {} \in SUBSET Txs
    OBVIOUS
  <2> QED
    BY Zenon, <1>2, <1>3, <1>5, <2>1, IsPool
<1> QED
  BY Zenon, <1>6 DEF PoolWith

\* Two listed sets, one after the other.
LEMMA BothListed ==
  ASSUME NEW A, NEW B, A \cap B = {}, NEW a, Lists(a, A), NEW b, Lists(b, B), NEW r, r = a \o b
  PROVE  Lists(r, A \cup B)
<1>1. PICK D : D = A \cup B
  BY Zenon
<1>2. a \in Seq(A) /\ b \in Seq(B)
  BY Zenon DEF Lists
<1>3. a \in Seq(D) /\ b \in Seq(D)
  BY <1>1, <1>2
<1>4. PICK m \in Nat : m = Len(a)
  BY <1>2
<1>5. PICK n \in Nat : n = Len(b)
  BY <1>2
<1>6. Joins(r, D, a, m, b, n)
  BY Zenon, <1>3, <1>4, <1>5, ConcatIs
<1>7. r \in Seq(D) /\ Len(r) = m + n /\ \A i \in 1..m + n : r[i] = IF i <= m THEN a[i] ELSE b[i - m]
  BY Zenon, <1>6 DEF Joins
<1>8. DOMAIN a = 1..m /\ DOMAIN b = 1..n /\ DOMAIN r = 1..m + n
  BY <1>2, <1>4, <1>5, <1>7
<1>9. /\ \A i \in 1..m : a[i] \in A
      /\ \A i \in 1..n : b[i] \in B
      /\ \A i, j \in 1..m : a[i] = a[j] => i = j
      /\ \A i, j \in 1..n : b[i] = b[j] => i = j
  BY Zenon, <1>8 DEF Lists, IsInjective, Range
<1>10. IsInjective(r)
  <2> SUFFICES ASSUME NEW i \in 1..m + n, NEW j \in 1..m + n, r[i] = r[j]
               PROVE  i = j
    BY Zenon, <1>8 DEF IsInjective
  <2>1. CASE i <= m /\ j <= m
    <3>1. i \in 1..m /\ j \in 1..m
      BY <2>1
    <3> QED
      BY Zenon, <1>7, <1>9, <2>1, <3>1
  <2>2. CASE ~(i <= m) /\ ~(j <= m)
    <3>1. i - m \in 1..n /\ j - m \in 1..n
      BY <2>2
    <3>2. i - m = j - m
      BY Zenon, <1>7, <1>9, <2>2, <3>1
    <3> QED
      BY <3>2
  <2>3. CASE i <= m /\ ~(j <= m)
    <3>1. i \in 1..m /\ j - m \in 1..n
      BY <2>3
    <3> QED
      BY Zenon, <1>7, <1>9, <2>3, <3>1
  <2>4. CASE ~(i <= m) /\ j <= m
    <3>1. i - m \in 1..n /\ j \in 1..m
      BY <2>4
    <3> QED
      BY Zenon, <1>7, <1>9, <2>4, <3>1
  <2> QED
    BY Zenon, <2>1, <2>2, <2>3, <2>4
<1>11. ASSUME NEW x \in D
       PROVE  x \in Range(r)
  <2>1. CASE x \in A
    <3>1. PICK i \in 1..m : a[i] = x
      BY Zenon, <1>8, <2>1 DEF Lists, Range
    <3>2. i \in 1..m + n /\ i <= m
      OBVIOUS
    <3> QED
      BY Zenon, <1>7, <1>8, <3>1, <3>2 DEF Range
  <2>2. CASE x \in B
    <3>1. PICK i \in 1..n : b[i] = x
      BY Zenon, <1>8, <2>2 DEF Lists, Range
    <3>2. m + i \in 1..m + n /\ ~(m + i <= m) /\ (m + i) - m = i
      OBVIOUS
    <3>3. r[m + i] = x
      BY Zenon, <1>7, <3>1, <3>2
    <3> QED
      BY Zenon, <1>8, <3>2, <3>3 DEF Range
  <2> QED
    BY Zenon, <1>1, <2>1, <2>2
<1>12. Range(r) \subseteq D
  BY <1>7 DEF Range
<1>13. Range(r) = D
  BY Zenon, <1>11, <1>12
<1> QED
  BY Zenon, <1>1, <1>7, <1>10, <1>13 DEF Lists

\* init reads the table: it gets the entries it has.
LEMMA ReadPool ==
  ASSUME NEW e, NEW D \in SUBSET Txs, e \in [D -> Metas], NEW seq, Lists(seq, D)
  PROVE  LET q == ReadResult(e, seq, EmptyPool) IN q \in Pools /\ DOMAIN q.db = D /\ SameOn(q.db, e, D)
<1>1. PICK k \in Nat : k = Len(seq)
  BY Zenon, FirstIs
<1>2. /\ First(seq, 0) = {} /\ First(seq, k) = D
      /\ \A n \in 1..k : /\ First(seq, n) = First(seq, n - 1) \cup {seq[n]}
                         /\ seq[n] \in D /\ seq[n] \notin First(seq, n - 1)
  BY Zenon, <1>1, FirstIs
<1> DEFINE Read(x, n) == x \in Pools /\ DOMAIN x.db = First(seq, n) /\ SameOn(x.db, e, First(seq, n))
<1>3. PICK S : S = [n \in 0..k |-> {x \in Pools : Read(x, n)}]
  BY Zenon
<1>4. 0 \in 0..k /\ k \in 0..k /\ \A n \in 1..k : n \in 0..k /\ n - 1 \in 0..k
  OBVIOUS
<1>5. PICK p \in Pools : p = EmptyPool /\ DOMAIN p.db = {}
  BY Zenon, EmptyIs
<1>6. p \in S[0]
  <2>1. Read(p, 0)
    BY Zenon, <1>2, <1>5 DEF SameOn
  <2> HIDE DEF Read
  <2> QED
    BY Zenon, <1>3, <1>4, <2>1
<1>7. ASSUME NEW n \in 1..k, NEW x \in S[n - 1]
      PROVE  Insert(x, seq[n], e[seq[n]]) \in S[n]
  <2>1. PICK y : y = Insert(x, seq[n], e[seq[n]])
    BY Zenon
  <2>2. x \in Pools /\ Read(x, n - 1)
    <3> HIDE DEF Read
    <3> QED
      BY Zenon, <1>3, <1>4
  <2>3. PICK t \in Txs : t = seq[n] /\ t \in D /\ t \notin DOMAIN x.db
    BY Zenon, <1>2, <2>2
  <2>4. PICK m \in Metas : m = e[t]
    BY Zenon, <2>3
  <2>5. Entered(y, x, t, m)
    BY Zenon, <2>1, <2>2, <2>3, <2>4, InsertPool
  <2>6. First(seq, n) = First(seq, n - 1) \cup {t}
    BY Zenon, <1>2, <2>3
  <2>7. Read(y, n)
    BY Zenon, <2>2, <2>4, <2>5, <2>6 DEF Entered, SameOn
  <2>8. y \in Pools
    BY Zenon, <2>5 DEF Entered
  <2> HIDE DEF Read
  <2> QED
    BY Zenon, <1>3, <1>4, <2>1, <2>7, <2>8
<1>8. ReadGoes(e, S, seq, k)
  BY Zenon, <1>7 DEF ReadGoes
<1>9. ReadResult(e, seq, p) \in S[k]
  BY Zenon, <1>1, <1>6, <1>8, ReadEnds
<1>10. Read(ReadResult(e, seq, p), k)
  <2> HIDE DEF Read
  <2> QED
    BY Zenon, <1>3, <1>4, <1>9
<1> QED
  BY Zenon, <1>2, <1>5, <1>10

\* One step of the greedy choice.
TemplateStep(fit, chosen, t) == IF t \in fit THEN Choose(chosen, t) ELSE chosen

\* A run over transactions of the pool, fit those that fit into the block, and its stages; what it ends in.
TemplateRun(fit, seq, p, k, f) == f = [n \in 0..k |-> IF n = 0 THEN p ELSE TemplateStep(fit, f[n - 1], seq[n])]

TemplateResult(fit, seq, p) == ForEach(seq, p, LAMBDA chosen, t : IF t \in fit THEN Choose(chosen, t) ELSE chosen)

TemplateGoes(fit, S, seq, k) == \A n \in 1..k : \A x \in S[n - 1] : TemplateStep(fit, x, seq[n]) \in S[n]

TemplateHas(fit, seq, p, k) == \E g : TemplateRun(fit, seq, p, k, g) /\ TemplateResult(fit, seq, p) = g[k]

\* The loop of choosing is such a run, if there is one.
LEMMA TemplateLoop ==
  ASSUME NEW fit, NEW seq, NEW p, NEW k, k = Len(seq), NEW f, TemplateRun(fit, seq, p, k, f)
  PROVE  TemplateHas(fit, seq, p, k)
  BY Zenon DEF ForEach, TemplateHas, TemplateRun, TemplateResult, TemplateStep

\* It ends in the last stage, if every step goes from a stage to the next.
LEMMA TemplateEnds ==
  ASSUME NEW fit, NEW seq, NEW k \in Nat, k = Len(seq), NEW S, NEW p \in S[0], TemplateGoes(fit, S, seq, k)
  PROVE  TemplateResult(fit, seq, p) \in S[k]
<1> DEFINE U == UNION {S[n] : n \in 0..k}
           F == [a \in (1..k) \X U |-> TemplateStep(fit, a[2], seq[a[1]])]
<1>1. ASSUME NEW n \in 1..k
      PROVE  n - 1 \in 0..k /\ n \in 0..k /\ n # 0
  OBVIOUS
<1>2. ASSUME NEW n \in 1..k, NEW x \in S[n - 1]
      PROVE  F[<<n, x>>] = TemplateStep(fit, x, seq[n])
  <2>1. x \in U
    BY Zenon, <1>1
  <2> HIDE DEF U
  <2>2. <<n, x>> \in (1..k) \X U /\ <<n, x>>[1] = n /\ <<n, x>>[2] = x
    BY <2>1
  <2> QED
    BY Zenon, <2>2
<1> HIDE DEF U, F
<1>3. Stages(S, F, k)
  BY Zenon, <1>2 DEF Stages, TemplateGoes
<1>4. PICK f : f = [n \in 0..k |-> f[n]] /\ Runs(F, p, k, f) /\ \A n \in 0..k : f[n] \in S[n]
  BY Zenon, <1>3, RunExists
<1>5. TemplateRun(fit, seq, p, k, f)
  <2>1. \A n \in 1..k : f[n] = TemplateStep(fit, f[n - 1], seq[n])
    BY Zenon, <1>1, <1>2, <1>4 DEF Runs
  <2>2. \A n \in 0..k : n = 0 \/ n \in 1..k
    OBVIOUS
  <2>3. \A n \in 0..k : f[n] = IF n = 0 THEN p ELSE TemplateStep(fit, f[n - 1], seq[n])
    BY Zenon, <1>4, <2>1, <2>2 DEF Runs
  <2> QED
    BY Zenon, <1>4, <2>3 DEF TemplateRun
<1>6. PICK g : TemplateRun(fit, seq, p, k, g) /\ TemplateResult(fit, seq, p) = g[k]
  <2>1. TemplateHas(fit, seq, p, k)
    BY Zenon, <1>5, TemplateLoop
  <2> QED
    BY Zenon, <2>1 DEF TemplateHas
<1>7. \A n \in 0..k : g[n] = IF n = 0 THEN p ELSE TemplateStep(fit, g[n - 1], seq[n])
  BY Zenon, <1>6 DEF TemplateRun
<1>8. PICK T : T = {n \in 0..k : g[n] \in S[n]}
  BY Zenon
<1>9. 0 \in T
  <2>1. 0 \in 0..k
    OBVIOUS
  <2> QED
    BY Zenon, <1>7, <1>8, <2>1
<1>10. \A n \in 1..k : n - 1 \in T => n \in T
  BY Zenon, <1>1, <1>7, <1>8 DEF TemplateGoes
<1>11. \A n \in 0..k : n \in T
  BY Zenon, <1>9, <1>10, AllUpTo
<1>12. k \in 0..k
  OBVIOUS
<1> QED
  BY Zenon, <1>6, <1>8, <1>11, <1>12

-----------------------------------------------------------------------------
(* The invariant *)

\* Of the transactions that spend one key image at most one was not kept by a block.
Compatible(d) ==
  \A t, u \in DOMAIN d : t # u /\ ~d[t].kept /\ ~d[u].kept => Tx[t].images \cap Tx[u].images = {}

\* No transaction is in two blocks of the chain.
BlocksApart(c) == \A i, j \in DOMAIN c : i # j => BlockTxs[c[i]] \cap BlockTxs[c[j]] = {}

\* The pool p is one for the chain c: no transaction is in both.
Good(c, p) ==
  /\ c \in Chains /\ c # <<>> /\ BlocksApart(c)
  /\ p \in Pools /\ Compatible(p.db) /\ DOMAIN p.db \cap ChainTxs(c) = {}

\* The cache h says of every transaction what a check on the chain c would say.
CacheRight(c, h) == \A t \in DOMAIN h : h[t] = InputsValid(c, t)

PoolInv == now \in Int /\ Good(chain, pool) /\ CacheRight(chain, cache)

\* q has the transactions of p, and knows of each of them whether a block kept it.
Same(q, p) ==
  q \in Pools /\ DOMAIN q.db = DOMAIN p.db /\ \A u \in DOMAIN p.db : q.db[u].kept = p.db[u].kept

\* Transactions that leave do no harm.
LEMMA GoodWithin ==
  ASSUME NEW c, NEW p, Good(c, p), NEW q, Within(q, p)
  PROVE  Good(c, q)
<1>1. Compatible(q.db)
  BY Zenon DEF Good, Within, SameOn, Compatible
<1>2. q \in Pools /\ DOMAIN q.db \cap ChainTxs(c) = {}
  BY Zenon DEF Good, Within
<1> QED
  BY Zenon, <1>1, <1>2 DEF Good

\* Nor do those that are taken out.
LEMMA GoodLeft ==
  ASSUME NEW c, NEW p, Good(c, p), NEW q, NEW D, Left(q, p, D)
  PROVE  Good(c, q)
<1>1. Within(q, p)
  BY Zenon DEF Left, Within
<1> QED
  BY Zenon, <1>1, GoodWithin

\* Nor do those that a block kept, if they are not in the chain.
LEMMA GoodKin ==
  ASSUME NEW c, NEW p, Good(c, p), NEW q, NEW T, Kin(q, p, T), T \cap ChainTxs(c) = {}
  PROVE  Good(c, q)
<1>1. Compatible(q.db)
  BY Zenon DEF Good, Kin, Compatible
<1>2. q \in Pools /\ DOMAIN q.db \cap ChainTxs(c) = {}
  BY Zenon DEF Good, Kin
<1> QED
  BY Zenon, <1>1, <1>2 DEF Good

\* Nor does what is written into the entries, which stay kept by a block or not.
LEMMA GoodSame ==
  ASSUME NEW c, NEW p, Good(c, p), NEW q, Same(q, p)
  PROVE  Good(c, q)
<1>1. Compatible(q.db)
  BY Zenon DEF Good, Same, Compatible
<1>2. q \in Pools /\ DOMAIN q.db \cap ChainTxs(c) = {}
  BY Zenon DEF Good, Same
<1> QED
  BY Zenon, <1>1, <1>2 DEF Good

\* A relayed transaction shares no key image with one that is there.
LEMMA GoodEntered ==
  ASSUME NEW c, NEW p, Good(c, p), NEW t \in Txs, t \notin DOMAIN p.db, t \notin ChainTxs(c),
         ~have_tx_keyimges_as_spent(p, t), NEW m, NEW q, Entered(q, p, t, m)
  PROVE  Good(c, q)
<1>1. \A u \in DOMAIN p.db : Tx[t].images \cap Tx[u].images = {}
  <2> SUFFICES ASSUME NEW u \in DOMAIN p.db, NEW i \in Tx[t].images, i \in Tx[u].images
               PROVE  FALSE
    BY Zenon
  <2>1. i \in Images
    BY Zenon, TxTypes
  <2>2. p.spent = Spenders(DOMAIN p.db)
    BY Zenon, PoolParts DEF Good
  <2>3. u \in p.spent[i]
    BY Zenon, <2>1, <2>2 DEF Spenders
  <2> QED
    BY Zenon, <2>3 DEF have_tx_keyimges_as_spent
<1>2. Compatible(q.db)
  <2> SUFFICES ASSUME NEW a \in DOMAIN q.db, NEW b \in DOMAIN q.db, a # b, ~q.db[a].kept, ~q.db[b].kept
               PROVE  Tx[a].images \cap Tx[b].images = {}
    BY Zenon DEF Compatible
  <2>1. CASE a = t
    <3>1. b \in DOMAIN p.db
      BY Zenon, <2>1 DEF Entered
    <3> QED
      BY Zenon, <1>1, <2>1, <3>1
  <2>2. CASE b = t
    <3>1. a \in DOMAIN p.db
      BY Zenon, <2>2 DEF Entered
    <3>2. Tx[t].images \cap Tx[a].images = {}
      BY Zenon, <1>1, <3>1
    <3> QED
      BY Zenon, <2>2, <3>2
  <2>3. CASE a # t /\ b # t
    <3>1. a \in DOMAIN p.db /\ b \in DOMAIN p.db /\ p.db[a] = q.db[a] /\ p.db[b] = q.db[b]
      BY Zenon, <2>3 DEF Entered, SameOn
    <3>2. ~p.db[a].kept /\ ~p.db[b].kept
      BY Zenon, <3>1
    <3> QED
      BY Zenon, <3>1, <3>2 DEF Good, Compatible
  <2> QED
    BY Zenon, <2>1, <2>2, <2>3
<1>3. q \in Pools /\ DOMAIN q.db \cap ChainTxs(c) = {}
  BY Zenon DEF Good, Entered
<1> QED
  BY Zenon, <1>2, <1>3 DEF Good

\* A pool whose entries are written anew.
LEMMA Rewritten ==
  ASSUME NEW p \in Pools, NEW d \in [DOMAIN p.db -> Metas],
         \A u \in DOMAIN p.db : d[u].kept = p.db[u].kept, NEW q, q = [p EXCEPT !.db = d]
  PROVE  Same(q, p)
<1>1. PICK D \in SUBSET Txs : D = DOMAIN p.db /\ Lists(p.sorted, D) /\ p.spent = Spenders(D) /\ p.weight \in Int
  BY Zenon, PoolParts
<1>2. p \in PoolType
  BY Zenon DEF Pools
<1>3. q = [db |-> d, sorted |-> p.sorted, spent |-> p.spent, weight |-> p.weight]
  BY <1>2 DEF PoolType
<1>4. q = PoolOf(d, p.sorted, D, p.weight)
  BY Zenon, <1>1, <1>3 DEF PoolOf
<1>5. PoolWith(q, d, D)
  BY Zenon, <1>1, <1>4, IsPool
<1> QED
  BY Zenon, <1>1, <1>5 DEF PoolWith, Same

\* The transactions of the chain are those of its blocks.
LEMMA InChain ==
  ASSUME NEW c, NEW t
  PROVE  t \in ChainTxs(c) <=> \E i \in DOMAIN c : t \in BlockTxs[c[i]]
<1>1. \A b : b \in Range(c) <=> \E i \in DOMAIN c : b = c[i]
  BY Zenon DEF Range
<1>2. t \in ChainTxs(c) <=> \E b \in Range(c) : t \in BlockTxs[b]
  BY Zenon DEF ChainTxs
<1> QED
  BY Zenon, <1>1, <1>2

\* A block is connected.
LEMMA AppendIs ==
  ASSUME NEW c \in Chains, BlocksApart(c), NEW b \in DOMAIN BlockTxs, BlockTxs[b] \cap ChainTxs(c) = {},
         NEW d, d = Append(c, b)
  PROVE  d \in Chains /\ d # <<>> /\ BlocksApart(d) /\ ChainTxs(d) = ChainTxs(c) \cup BlockTxs[b]
<1>1. PICK l \in Nat : l = Len(c)
  BY DEF Chains
<1>2. /\ d \in Chains /\ d # <<>> /\ DOMAIN c = 1..l /\ DOMAIN d = 1..l + 1 /\ d[l + 1] = b
      /\ \A i \in 1..l : d[i] = c[i]
  BY <1>1 DEF Chains
<1>3. \A i \in 1..l + 1 : i \in 1..l \/ i = l + 1
  OBVIOUS
<1>4. \A i \in 1..l : i \in 1..l + 1 /\ i # l + 1
  OBVIOUS
<1>5. l + 1 \in 1..l + 1
  OBVIOUS
<1>6. \A i \in 1..l : BlockTxs[c[i]] \subseteq ChainTxs(c)
  BY Zenon, <1>2, InChain
<1>7. BlocksApart(d)
  <2> SUFFICES ASSUME NEW i \in 1..l + 1, NEW j \in 1..l + 1, i # j
               PROVE  BlockTxs[d[i]] \cap BlockTxs[d[j]] = {}
    BY Zenon, <1>2 DEF BlocksApart
  <2>1. CASE i \in 1..l /\ j \in 1..l
    BY Zenon, <1>2, <2>1 DEF BlocksApart
  <2>2. CASE i = l + 1 /\ j \in 1..l
    BY Zenon, <1>2, <1>6, <2>2
  <2>3. CASE i \in 1..l /\ j = l + 1
    BY Zenon, <1>2, <1>6, <2>3
  <2> QED
    BY Zenon, <1>3, <2>1, <2>2, <2>3
<1>8. Range(d) = Range(c) \cup {b}
  BY Zenon, <1>2, <1>3, <1>4, <1>5 DEF Range
<1>9. ChainTxs(d) = ChainTxs(c) \cup BlockTxs[b]
  BY Zenon, <1>8 DEF ChainTxs
<1> QED
  BY Zenon, <1>2, <1>7, <1>9

\* The last block is taken off; no transaction of it is in another.
LEMMA FrontIs ==
  ASSUME NEW c \in Chains, Len(c) > 1, BlocksApart(c), NEW d, d = Front(c), NEW b, b = Last(c)
  PROVE  /\ d \in Chains /\ d # <<>> /\ BlocksApart(d) /\ ChainTxs(d) \subseteq ChainTxs(c)
         /\ b \in DOMAIN BlockTxs /\ BlockTxs[b] \subseteq ChainTxs(c) /\ BlockTxs[b] \cap ChainTxs(d) = {}
<1>1. PICK l \in Nat : l = Len(c) /\ l > 1
  BY DEF Chains
<1>2. DOMAIN c = 1..l /\ b = c[l] /\ d = SubSeq(c, 1, l - 1) /\ b \in DOMAIN BlockTxs
  BY <1>1 DEF Chains, Front, Last
<1>3. d \in Chains /\ Len(d) = l - 1 /\ DOMAIN d = 1..l - 1 /\ \A i \in 1..l - 1 : d[i] = c[i]
  BY <1>1, <1>2 DEF Chains
<1>4. d # <<>>
  <2>1. 1 \in 1..l - 1
    BY <1>1
  <2>2. DOMAIN <<>> = {}
    OBVIOUS
  <2> QED
    BY Zenon, <1>3, <2>1, <2>2
<1>5. l \in 1..l /\ \A i \in 1..l - 1 : i \in 1..l /\ i # l
  BY <1>1
<1>6. BlocksApart(d)
  BY Zenon, <1>2, <1>3, <1>5 DEF BlocksApart
<1>7. Range(d) \subseteq Range(c) /\ b \in Range(c)
  BY Zenon, <1>2, <1>3, <1>5 DEF Range
<1>8. ChainTxs(d) \subseteq ChainTxs(c) /\ BlockTxs[b] \subseteq ChainTxs(c)
  BY Zenon, <1>7 DEF ChainTxs
<1>9. BlockTxs[b] \cap ChainTxs(d) = {}
  <2> SUFFICES ASSUME NEW t \in BlockTxs[b], t \in ChainTxs(d)
               PROVE  FALSE
    BY Zenon
  <2>1. PICK i \in 1..l - 1 : t \in BlockTxs[d[i]]
    BY Zenon, <1>3, InChain
  <2>2. t \in BlockTxs[c[i]] /\ t \in BlockTxs[c[l]] /\ i # l /\ i \in DOMAIN c /\ l \in DOMAIN c
    BY Zenon, <1>2, <1>3, <1>5, <2>1
  <2> QED
    BY Zenon, <2>2 DEF BlocksApart
<1> QED
  BY Zenon, <1>2, <1>3, <1>4, <1>6, <1>8, <1>9

\* What check_tx_inputs of the pool answers, and what it leaves in the cache.
LEMMA CacheKept ==
  ASSUME CacheRight(chain, cache), NEW T
  PROVE  CacheRight(chain, CacheWith(T)) /\ \A t : CachedInputs(t) = InputsValid(chain, t)
<1>1. ASSUME NEW t
      PROVE  CachedInputs(t) = InputsValid(chain, t)
  BY Zenon DEF CacheRight, CachedInputs
<1> QED
  BY Zenon, <1>1 DEF CacheRight, CacheWith

\* An empty cache says nothing wrong.
LEMMA NoCache ==
  ASSUME NEW c
  PROVE  CacheRight(c, <<>>)
<1>1. DOMAIN <<>> = {}
  OBVIOUS
<1> QED
  BY Zenon, <1>1 DEF CacheRight

-----------------------------------------------------------------------------
(* The steps *)

\* The pool is empty at first.
LEMMA InitInv == ASSUME Init PROVE PoolInv
<1>1. PICK c : c = <<"g">> /\ c = chain
  BY Zenon DEF Init
<1>2. PICK z : z = "g"
  BY Zenon
<1>3. z \in DOMAIN BlockTxs /\ BlockTxs[z] = {}
  BY Zenon, <1>2, PoolAssumption
<1>4. c = <<z>>
  BY Zenon, <1>1, <1>2
<1>5. c \in Chains /\ c # <<>> /\ DOMAIN c = 1..1
  BY <1>3, <1>4 DEF Chains
<1>6. \A i, j \in 1..1 : i = j
  OBVIOUS
<1>7. BlocksApart(c)
  BY Zenon, <1>5, <1>6 DEF BlocksApart
<1>8. pool \in Pools /\ DOMAIN pool.db = {}
  BY Zenon, EmptyIs DEF Init
<1>9. Compatible(pool.db) /\ DOMAIN pool.db \cap ChainTxs(c) = {}
  BY Zenon, <1>8 DEF Compatible
<1>10. Good(chain, pool)
  BY Zenon, <1>1, <1>5, <1>7, <1>8, <1>9 DEF Good
<1>11. CacheRight(chain, cache)
  BY Zenon, NoCache DEF Init
<1>12. now \in Int
  BY DEF Init
<1> QED
  BY Zenon, <1>10, <1>11, <1>12 DEF PoolInv

\* What the steps need of the invariant.
LEMMA InvParts ==
  ASSUME PoolInv
  PROVE  /\ now \in Int /\ chain \in Chains /\ chain # <<>> /\ BlocksApart(chain) /\ pool \in Pools
         /\ DOMAIN pool.db \cap ChainTxs(chain) = {} /\ Good(chain, pool) /\ CacheRight(chain, cache)
         /\ DOMAIN pool.db \in SUBSET Txs /\ pool.db \in [DOMAIN pool.db -> Metas]
  BY Zenon, PoolParts DEF PoolInv, Good

\* A step of the pool that leaves the chain, the cache and the clock alone.
LEMMA PoolStep ==
  ASSUME PoolInv, NEW q, q = pool', Good(chain, q), UNCHANGED <<chain, cache, now>>
  PROVE  PoolInv'
<1>1. chain' = chain /\ cache' = cache /\ now' = now
  BY Zenon
<1> QED
  BY Zenon, <1>1 DEF PoolInv

\* add_tx, for a relayed transaction.
LEMMA AddTxInv == ASSUME PoolInv, NEW t \in Txs, AddTx(t) PROVE PoolInv'
<1>1. PICK q : q = pool'
  BY Zenon
<1>2. Good(chain, q)
  <2>1. CASE ~CachedInputs(t)
    <3>1. q = pool
      BY Zenon, <1>1, <2>1 DEF AddTx
    <3> QED
      BY Zenon, <3>1, InvParts
  <2>2. CASE CachedInputs(t)
    <3>1. PICK m : m = NewMeta(chain, pool, t, FALSE)
      BY Zenon
    <3>2. m \in Metas
      BY Zenon, <3>1, InvParts, MetaType
    <3>3. PICK x : x = Insert(pool, t, m)
      BY Zenon
    <3>4. t \notin DOMAIN pool.db /\ t \notin ChainTxs(chain) /\ ~have_tx_keyimges_as_spent(pool, t)
      BY Zenon DEF AddTx, IsNew
    <3>5. Entered(x, pool, t, m)
      BY Zenon, <3>2, <3>3, <3>4, InvParts, InsertPool
    <3>6. Good(chain, x)
      BY Zenon, <3>4, <3>5, InvParts, GoodEntered
    <3>7. q = prune(x)
      BY Zenon, <1>1, <2>2, <3>1, <3>3 DEF AddTx
    <3>8. x \in Pools /\ DOMAIN x.db # {}
      BY Zenon, <3>5 DEF Entered
    <3>9. Within(q, x)
      BY Zenon, <3>7, <3>8, PrunePool
    <3> QED
      BY Zenon, <3>6, <3>9, GoodWithin
  <2> QED
    BY Zenon, <2>1, <2>2
<1>3. chain' = chain /\ now' = now /\ cache' = CacheWith({t})
  BY Zenon DEF AddTx
<1>4. CacheRight(chain, CacheWith({t}))
  BY Zenon, InvParts, CacheKept
<1> QED
  BY Zenon, <1>1, <1>2, <1>3, <1>4 DEF PoolInv

\* add_tx, for a double spend: the entries are marked.
LEMMA RefuseDoubleSpendInv == ASSUME PoolInv, NEW t \in Txs, RefuseDoubleSpend(t) PROVE PoolInv'
<1>1. PICK d : d = [u \in DOMAIN pool.db |->
                      IF Tx[u].images \cap Tx[t].images # {} THEN [pool.db[u] EXCEPT !.double_spend_seen = TRUE]
                                                             ELSE pool.db[u]]
  BY Zenon
<1>2. ASSUME NEW u \in DOMAIN pool.db
      PROVE  d[u] \in Metas /\ d[u].kept = pool.db[u].kept
  <2>1. PICK m \in Metas : m = pool.db[u]
    BY Zenon, InvParts
  <2>2. [m EXCEPT !.double_spend_seen = TRUE] \in Metas /\ [m EXCEPT !.double_spend_seen = TRUE].kept = m.kept
    BY DEF Metas
  <2>3. d[u] = m \/ d[u] = [m EXCEPT !.double_spend_seen = TRUE]
    BY Zenon, <1>1, <2>1
  <2> QED
    BY Zenon, <2>1, <2>2, <2>3
<1>3. d \in [DOMAIN pool.db -> Metas]
  BY Zenon, <1>1, <1>2
<1>4. PICK q : q = pool'
  BY Zenon
<1>5. q = [pool EXCEPT !.db = d]
  BY Zenon, <1>1, <1>4 DEF RefuseDoubleSpend, mark_double_spend
<1>6. Same(q, pool)
  BY Zenon, <1>2, <1>3, <1>5, InvParts, Rewritten
<1>7. Good(chain, q)
  BY Zenon, <1>6, InvParts, GoodSame
<1> QED
  BY Zenon, <1>4, <1>7, PoolStep DEF RefuseDoubleSpend

\* add_tx, for a transaction that came with a block.
LEMMA AddTxOfBlockInv == ASSUME PoolInv, NEW t \in Txs, AddTxOfBlock(t) PROVE PoolInv'
<1>1. PICK q : q = pool'
  BY Zenon
<1>2. t \notin DOMAIN pool.db /\ {t} \cap ChainTxs(chain) = {} /\ q = AddKept(chain, pool, t)
  BY Zenon, <1>1 DEF AddTxOfBlock, IsNew
<1>3. Kin(q, pool, {t})
  BY Zenon, <1>2, InvParts, KeptPool
<1>4. Good(chain, q)
  BY Zenon, <1>2, <1>3, InvParts, GoodKin
<1> QED
  BY Zenon, <1>1, <1>4, PoolStep DEF AddTxOfBlock

\* A block is connected: its transactions are in the chain and no longer in the pool.
LEMMA AddBlockInv == ASSUME PoolInv, NEW b \in DOMAIN BlockTxs, AddBlock(b) PROVE PoolInv'
<1>1. PICK q : q = pool'
  BY Zenon
<1>2. PICK c : c = chain'
  BY Zenon
<1>3. q = TakeAll(pool, BlockTxs[b]) /\ c = Append(chain, b) /\ BlockTxs[b] \subseteq DOMAIN pool.db
  BY Zenon, <1>1, <1>2 DEF AddBlock
<1>4. BlockTxs[b] \in SUBSET Txs
  BY Zenon, PoolAssumption
<1>5. Left(q, pool, BlockTxs[b])
  BY Zenon, <1>3, <1>4, InvParts, TakePool
<1>6. Good(chain, q)
  BY Zenon, <1>5, InvParts, GoodLeft
<1>7. BlockTxs[b] \cap ChainTxs(chain) = {}
  BY Zenon, <1>3, InvParts
<1>8. c \in Chains /\ c # <<>> /\ BlocksApart(c) /\ ChainTxs(c) = ChainTxs(chain) \cup BlockTxs[b]
  BY Zenon, <1>3, <1>7, InvParts, AppendIs
<1>9. DOMAIN q.db \cap ChainTxs(c) = {}
  BY Zenon, <1>5, <1>6, <1>8 DEF Left, Good
<1>10. Good(c, q)
  BY Zenon, <1>6, <1>8, <1>9 DEF Good
<1>11. now' = now /\ CacheRight(c, cache')
  BY Zenon, NoCache DEF AddBlock
<1> QED
  BY Zenon, <1>1, <1>2, <1>10, <1>11 DEF PoolInv

\* A block is refused: its transactions leave the pool and come back.
LEMMA RefuseBlockInv ==
  ASSUME PoolInv, NEW b \in DOMAIN BlockTxs, NEW T \in SUBSET BlockTxs[b], RefuseBlock(b, T)
  PROVE  PoolInv'
<1>1. PICK q : q = pool'
  BY Zenon
<1>2. PICK x : x = TakeAll(pool, T)
  BY Zenon
<1>3. T \in SUBSET Txs /\ T \subseteq DOMAIN pool.db
  BY Zenon, PoolAssumption DEF RefuseBlock
<1>4. Left(x, pool, T)
  BY Zenon, <1>2, <1>3, InvParts, TakePool
<1>5. Good(chain, x)
  BY Zenon, <1>4, InvParts, GoodLeft
<1>6. x \in Pools /\ T \cap DOMAIN x.db = {}
  BY Zenon, <1>4 DEF Left
<1>7. q = ReturnAll(chain, x, T)
  BY Zenon, <1>1, <1>2 DEF RefuseBlock
<1>8. Kin(q, x, T)
  BY Zenon, <1>3, <1>6, <1>7, InvParts, ReturnPool
<1>9. T \cap ChainTxs(chain) = {}
  BY Zenon, <1>3, InvParts
<1>10. Good(chain, q)
  BY Zenon, <1>5, <1>8, <1>9, GoodKin
<1> QED
  BY Zenon, <1>1, <1>10, PoolStep DEF RefuseBlock

\* A block is taken off: its transactions are in no other block, and come back.
LEMMA PopBlockInv == ASSUME PoolInv, PopBlock PROVE PoolInv'
<1>1. PICK q : q = pool'
  BY Zenon
<1>2. PICK c : c = chain'
  BY Zenon
<1>3. PICK b : b = Last(chain)
  BY Zenon
<1>4. Len(chain) > 1 /\ c = Front(chain) /\ q = ReturnAll(c, pool, BlockTxs[b])
  BY Zenon, <1>1, <1>2, <1>3 DEF PopBlock
<1>5. /\ c \in Chains /\ c # <<>> /\ BlocksApart(c) /\ ChainTxs(c) \subseteq ChainTxs(chain)
      /\ b \in DOMAIN BlockTxs /\ BlockTxs[b] \subseteq ChainTxs(chain) /\ BlockTxs[b] \cap ChainTxs(c) = {}
  BY Zenon, <1>3, <1>4, InvParts, FrontIs
<1>6. BlockTxs[b] \in SUBSET Txs /\ BlockTxs[b] \cap DOMAIN pool.db = {}
  BY Zenon, <1>5, InvParts, PoolAssumption
<1>7. Kin(q, pool, BlockTxs[b])
  BY Zenon, <1>4, <1>5, <1>6, InvParts, ReturnPool
<1>8. Good(c, pool)
  <2>1. DOMAIN pool.db \cap ChainTxs(c) = {}
    BY Zenon, <1>5, InvParts
  <2> QED
    BY Zenon, <1>5, <2>1 DEF PoolInv, Good
<1>9. Good(c, q)
  BY Zenon, <1>5, <1>7, <1>8, GoodKin
<1>10. now' = now /\ CacheRight(c, cache')
  BY Zenon, NoCache DEF PopBlock
<1> QED
  BY Zenon, <1>1, <1>2, <1>9, <1>10 DEF PoolInv

\* remove_stuck_transactions.
LEMMA RemoveStuckInv == ASSUME PoolInv, RemoveStuck PROVE PoolInv'
<1>1. PICK q : q = pool'
  BY Zenon
<1>2. PICK T : T \in SUBSET DOMAIN pool.db /\ q = TakeAll(pool, T)
  BY Zenon, <1>1 DEF RemoveStuck
<1>3. T \in SUBSET Txs
  BY Zenon, <1>2, InvParts
<1>4. Left(q, pool, T)
  BY Zenon, <1>2, <1>3, InvParts, TakePool
<1>5. Good(chain, q)
  BY Zenon, <1>4, InvParts, GoodLeft
<1> QED
  BY Zenon, <1>1, <1>5, PoolStep DEF RemoveStuck

\* flush_txes_from_pool.
LEMMA FlushInv == ASSUME PoolInv, NEW t \in Txs, Flush(t) PROVE PoolInv'
<1>1. PICK q : q = pool'
  BY Zenon
<1>2. q = Drop(pool, t, Tx[t].weight) /\ Tx[t].weight \in Int
  BY Zenon, <1>1, TxTypes DEF Flush, take_tx
<1>3. Left(q, pool, {t})
  BY Zenon, <1>2, InvParts, DropPool
<1>4. Good(chain, q)
  BY Zenon, <1>3, InvParts, GoodLeft
<1> QED
  BY Zenon, <1>1, <1>4, PoolStep DEF Flush

\* What is_transaction_ready_to_go writes into an entry.
LEMMA CheckedType ==
  ASSUME PoolInv, NEW t \in DOMAIN pool.db
  PROVE  MetaAfterCheck(t) \in Metas /\ MetaAfterCheck(t).kept = pool.db[t].kept
<1>1. PICK m \in Metas : m = pool.db[t]
  BY Zenon, InvParts
<1>2. PICK u \in Int : u = MaxUsed(chain, t)
  BY Zenon, InvParts, MaxUsedType
<1>3. PICK c \in Seq(DOMAIN BlockTxs) : c = chain
  BY Zenon, InvParts DEF Chains
<1>4. PICK x : x = [m EXCEPT !.checked = TRUE, !.max_used = u]
  BY Zenon
<1>5. PICK y : y = [m EXCEPT !.max_used = 1, !.failed = c]
  BY Zenon
<1>6. x \in Metas /\ x.kept = m.kept
  BY <1>4 DEF Metas
<1>7. y \in Metas /\ y.kept = m.kept
  <2>1. PICK S : S = Seq(DOMAIN BlockTxs)
    BY Zenon
  <2>2. c \in S
    BY Zenon, <2>1
  <2>3. Metas = [kept : BOOLEAN, time : Int, checked : BOOLEAN, max_used : Int, failed : S, double_spend_seen : BOOLEAN]
    BY Zenon, <2>1 DEF Metas
  <2>4. PICK v : v = [m EXCEPT !.max_used = 1]
    BY Zenon
  <2>5. v \in Metas /\ v.kept = m.kept
    BY <2>4 DEF Metas
  <2>6. y = [v EXCEPT !.failed = c]
    BY Zenon, <1>5, <2>4
  <2> QED
    BY <2>2, <2>3, <2>5, <2>6
<1>8. \/ MetaAfterCheck(t) = m
      \/ MetaAfterCheck(t) = x
      \/ MetaAfterCheck(t) = y
  BY Zenon, <1>1, <1>2, <1>3, <1>4, <1>5 DEF MetaAfterCheck
<1> QED
  BY Zenon, <1>1, <1>6, <1>7, <1>8

\* fill_block_template writes what it found, and fills the cache.
LEMMA FillTemplateInv == ASSUME PoolInv, NEW T \in SUBSET DOMAIN pool.db, FillTemplate(T) PROVE PoolInv'
<1>1. PICK d : d = [t \in DOMAIN pool.db |-> IF t \in T THEN MetaAfterCheck(t) ELSE pool.db[t]]
  BY Zenon
<1>2. ASSUME NEW t \in DOMAIN pool.db
      PROVE  d[t] \in Metas /\ d[t].kept = pool.db[t].kept
  <2>1. d[t] = MetaAfterCheck(t) \/ d[t] = pool.db[t]
    BY Zenon, <1>1
  <2>2. pool.db[t] \in Metas
    BY Zenon, InvParts
  <2> QED
    BY Zenon, <2>1, <2>2, CheckedType
<1>3. d \in [DOMAIN pool.db -> Metas]
  BY Zenon, <1>1, <1>2
<1>4. PICK q : q = pool'
  BY Zenon
<1>5. q = [pool EXCEPT !.db = d]
  BY Zenon, <1>1, <1>4 DEF FillTemplate
<1>6. Same(q, pool)
  BY Zenon, <1>2, <1>3, <1>5, InvParts, Rewritten
<1>7. Good(chain, q)
  BY Zenon, <1>6, InvParts, GoodSame
<1>8. chain' = chain /\ now' = now /\ cache' = CacheWith({t \in T : WorthChecking(t)})
  BY Zenon DEF FillTemplate
<1>9. CacheRight(chain, CacheWith({t \in T : WorthChecking(t)}))
  BY Zenon, InvParts, CacheKept
<1> QED
  BY Zenon, <1>4, <1>7, <1>8, <1>9 DEF PoolInv

\* init: the pool is read from its table, and the heavy transactions are dropped.
LEMMA RestartInv == ASSUME PoolInv, Restart PROVE PoolInv'
<1>1. PICK q : q = pool'
  BY Zenon
<1>2. PICK e : e = pool.db
  BY Zenon
<1>3. PICK D \in SUBSET Txs : D = DOMAIN e /\ e \in [D -> Metas]
  BY Zenon, <1>2, InvParts
<1>4. PICK K : K = {t \in DOMAIN e : e[t].kept}
  BY Zenon
<1>5. PICK seq : seq = SetToSeq(D \ K) \o SetToSeq(K)
  BY Zenon
<1>6. PICK x : x = ReadResult(e, seq, EmptyPool)
  BY Zenon
<1>7. PICK T : T \in SUBSET D /\ q = TakeAll(x, T)
  <2>1. PICK W : W = {t \in DOMAIN e : Tx[t].weight > WeightLimit}
    BY Zenon
  <2>2. q = TakeAll(x, W)
    <3> DEFINE kept == {t \in DOMAIN pool.db : pool.db[t].kept}
               heavy == {t \in DOMAIN pool.db : Tx[t].weight > WeightLimit}
    <3>1. pool' = TakeAll(ReadResult(pool.db, SetToSeq(DOMAIN pool.db \ kept) \o SetToSeq(kept), EmptyPool), heavy)
      BY Zenon DEF Restart, ReadResult
    <3>2. kept = K /\ heavy = W /\ DOMAIN pool.db = D /\ pool.db = e
      BY Zenon, <1>2, <1>3, <1>4, <2>1
    <3> HIDE DEF kept, heavy
    <3> QED
      BY Zenon, <1>1, <1>5, <1>6, <3>1, <3>2
  <2>3. W \in SUBSET D
    BY Zenon, <1>3, <2>1
  <2> QED
    BY Zenon, <2>2, <2>3
<1>8. K \subseteq D
  BY Zenon, <1>3, <1>4
<1>9. IsFiniteSet(K) /\ IsFiniteSet(D \ K)
  <2>1. K \in SUBSET Txs /\ D \ K \in SUBSET Txs
    BY Zenon, <1>8
  <2> QED
    BY Zenon, <2>1, PoolAssumption, FS_Subset
<1>10. Lists(seq, D)
  <2>1. PICK a : a = SetToSeq(D \ K)
    BY Zenon
  <2>2. PICK b : b = SetToSeq(K)
    BY Zenon
  <2>3. Lists(a, D \ K) /\ Lists(b, K)
    BY Zenon, <1>9, <2>1, <2>2, SetListed
  <2>4. seq = a \o b
    BY Zenon, <1>5, <2>1, <2>2
  <2>5. (D \ K) \cap K = {}
    BY Zenon
  <2>6. Lists(seq, (D \ K) \cup K)
    BY Zenon, <2>3, <2>4, <2>5, BothListed
  <2>7. (D \ K) \cup K = D
    BY Zenon, <1>8
  <2> QED
    BY Zenon, <2>6, <2>7
<1>11. x \in Pools /\ DOMAIN x.db = D /\ SameOn(x.db, e, D)
  BY Zenon, <1>3, <1>6, <1>10, ReadPool
<1>12. Within(x, pool)
  BY Zenon, <1>2, <1>3, <1>11 DEF Within
<1>13. Good(chain, x)
  BY Zenon, <1>12, InvParts, GoodWithin
<1>14. T \in SUBSET Txs
  BY Zenon, <1>3, <1>7
<1>15. Left(q, x, T)
  BY Zenon, <1>7, <1>11, <1>14, TakePool
<1>16. Good(chain, q)
  BY Zenon, <1>13, <1>15, GoodLeft
<1>17. chain' = chain /\ now' = now /\ CacheRight(chain, cache')
  BY Zenon, NoCache DEF Restart
<1> QED
  BY Zenon, <1>1, <1>16, <1>17 DEF PoolInv

\* Time passes.
LEMMA TickInv == ASSUME PoolInv, Tick PROVE PoolInv'
<1>1. now' \in Int
  BY DEF PoolInv, Tick
<1>2. chain' = chain /\ pool' = pool /\ cache' = cache
  BY Zenon DEF Tick
<1> QED
  BY Zenon, <1>1, <1>2 DEF PoolInv

\* Every step keeps the invariant.
LEMMA NextInv == ASSUME PoolInv, [Next]_vars PROVE PoolInv'
<1>1. CASE UNCHANGED vars
  BY <1>1 DEF PoolInv, vars
<1>2. CASE Next
  BY Zenon, <1>2, AddTxInv, RefuseDoubleSpendInv, AddTxOfBlockInv, FlushInv, AddBlockInv, RefuseBlockInv,
     FillTemplateInv, PopBlockInv, RemoveStuckInv, RestartInv, TickInv DEF Next
<1> QED
  BY Zenon, <1>1, <1>2

\* The invariant holds of every behaviour.
LEMMA PoolInvHolds == Spec => []PoolInv
<1>1. Init => PoolInv
  BY Zenon, InitInv
<1>2. PoolInv /\ [Next]_vars => PoolInv'
  BY Zenon, NextInv
<1> QED
  BY <1>1, <1>2, PTL DEF Spec

-----------------------------------------------------------------------------
(* The theorems *)

\* A list of a set is as long as the set has members.
LEMMA ListLength ==
  ASSUME NEW s, NEW D, Lists(s, D)
  PROVE  Len(s) = Cardinality(D)
<1>1. s \in Seq(D) /\ IsInjective(s) /\ Range(s) = D
  BY Zenon DEF Lists
<1>2. PICK k \in Nat : k = Len(s)
  BY <1>1
<1>3. s \in [1..k -> D] /\ DOMAIN s = 1..k
  BY <1>1, <1>2
<1>4. \A x \in D : \E i \in 1..k : s[i] = x
  BY Zenon, <1>1, <1>3 DEF Range
<1>5. \A i, j \in 1..k : s[i] = s[j] => i = j
  BY Zenon, <1>1, <1>3 DEF IsInjective
<1>6. s \in Bijection(1..k, D)
  <2>1. s \in Injection(1..k, D)
    BY Zenon, <1>3, <1>5 DEF Injection, IsInjective
  <2>2. s \in Surjection(1..k, D)
    BY Zenon, <1>3, <1>4 DEF Surjection
  <2> QED
    BY Zenon, <2>1, <2>2 DEF Bijection
<1>7. ExistsBijection(1..k, D)
  BY Zenon, <1>6 DEF ExistsBijection
<1>8. Cardinality(D) = k
  BY Zenon, <1>7, FS_CountingElements
<1> QED
  BY Zenon, <1>2, <1>8

\* add_tx, take_tx, prune, validate and init keep the order by fee and the index of key
\* images in step with the table: both hold the transactions of the pool and no other.
THEOREM IndexesInStep == Spec => []IndexesAgree
<1>1. PoolInv => IndexesAgree
  <2> SUFFICES ASSUME PoolInv PROVE IndexesAgree
    BY Zenon
  <2>1. Lists(pool.sorted, DOMAIN pool.db) /\ pool.spent = Spenders(DOMAIN pool.db)
    BY Zenon, InvParts, PoolParts
  <2>2. Len(pool.sorted) = Cardinality(DOMAIN pool.db)
    BY Zenon, <2>1, ListLength
  <2>3. Range(pool.sorted) = DOMAIN pool.db
    BY Zenon, <2>1 DEF Lists
  <2>4. \A i \in Images : pool.spent[i] = {t \in DOMAIN pool.db : i \in Tx[t].images}
    BY Zenon, <2>1 DEF Spenders
  <2> QED
    BY Zenon, <2>2, <2>3, <2>4 DEF IndexesAgree
<1> QED
  BY <1>1, PoolInvHolds, PTL

\* init does not fail: of the transactions that spend one key image insert_key_images
\* meets at most one that no block kept, whatever came relayed, with blocks and back.
THEOREM PoolStartsAgain == Spec => []StartsAgain
<1>1. PoolInv => StartsAgain
  BY Zenon DEF PoolInv, Good, Compatible, StartsAgain
<1> QED
  BY <1>1, PoolInvHolds, PTL

\* The transactions of a template so far can be mined together on the chain.
Mineable(x) ==
  /\ \A t \in x : InputsValid(chain, t)
  /\ \A t, u \in x : t # u => Tx[t].images \cap Tx[u].images = {}

\* Whatever fits, the greedy choice of fill_block_template can be mined.
LEMMA TemplateMineable ==
  ASSUME PoolInv, NEW T \in SUBSET DOMAIN pool.db
  PROVE  Mineable(BlockTemplate(T))
<1>1. PICK seq : seq = pool.sorted
  BY Zenon
<1>2. Lists(seq, DOMAIN pool.db)
  BY Zenon, <1>1, InvParts, PoolParts
<1>3. PICK k \in Nat : k = Len(seq)
  BY Zenon, <1>2, FirstIs
<1>4. \A n \in 1..k : seq[n] \in DOMAIN pool.db
  BY Zenon, <1>2, <1>3, FirstIs
<1>5. PICK S : S = [n \in 0..k |-> {x \in SUBSET DOMAIN pool.db : Mineable(x)}]
  BY Zenon
<1>6. 0 \in 0..k /\ k \in 0..k /\ \A n \in 1..k : n \in 0..k /\ n - 1 \in 0..k
  OBVIOUS
<1>7. {} \in S[0]
  <2>1. Mineable({})
    BY Zenon DEF Mineable
  <2> QED
    BY Zenon, <1>5, <1>6, <2>1
<1>8. ASSUME NEW n \in 1..k, NEW x \in S[n - 1]
      PROVE  TemplateStep(T, x, seq[n]) \in S[n]
  <2>1. PICK t \in DOMAIN pool.db : t = seq[n]
    BY Zenon, <1>4
  <2>2. x \in SUBSET DOMAIN pool.db /\ Mineable(x)
    BY Zenon, <1>5, <1>6
  <2>3. PICK y : y = TemplateStep(T, x, t)
    BY Zenon
  <2>4. CASE y = x
    BY Zenon, <1>5, <1>6, <2>1, <2>2, <2>3, <2>4
  <2>5. CASE y # x
    <3>1. y = x \cup {t} /\ ReadyToGo(t) /\ \A u \in x : Tx[u].images \cap Tx[t].images = {}
      BY Zenon, <2>3, <2>5 DEF TemplateStep, Choose
    <3>2. InputsValid(chain, t)
      <4>1. CachedInputs(t)
        BY Zenon, <3>1 DEF ReadyToGo
      <4>2. CachedInputs(t) = InputsValid(chain, t)
        BY Zenon, InvParts, CacheKept
      <4> QED
        BY Zenon, <4>1, <4>2
    <3>3. \A u \in x : Tx[t].images \cap Tx[u].images = {}
      <4> SUFFICES ASSUME NEW u \in x PROVE Tx[t].images \cap Tx[u].images = {}
        BY Zenon
      <4>1. Tx[u].images \cap Tx[t].images = {}
        BY Zenon, <3>1
      <4> QED
        BY Zenon, <4>1
    <3>4. Mineable(y)
      BY Zenon, <2>2, <3>1, <3>2, <3>3 DEF Mineable
    <3>5. y \in SUBSET DOMAIN pool.db
      BY Zenon, <2>2, <3>1
    <3> QED
      BY Zenon, <1>5, <1>6, <2>1, <2>3, <3>4, <3>5
  <2> QED
    BY Zenon, <2>4, <2>5
<1>9. TemplateGoes(T, S, seq, k)
  BY Zenon, <1>8 DEF TemplateGoes
<1>10. TemplateResult(T, seq, {}) \in S[k]
  BY Zenon, <1>3, <1>7, <1>9, TemplateEnds
<1>11. BlockTemplate(T) = TemplateResult(T, seq, {})
  BY Zenon, <1>1 DEF BlockTemplate, TemplateResult
<1>12. BlockTemplate(T) \in {x \in SUBSET DOMAIN pool.db : Mineable(x)}
  BY Zenon, <1>5, <1>6, <1>10, <1>11
<1> QED
  BY Zenon, <1>12

\* fill_block_template offers what can be mined: outputs in the chain, no key image spent
\* before or twice, although entries, failures and the cache remember other chains.
THEOREM TemplatesValid == Spec => []TemplateValid
<1>1. PoolInv => TemplateValid
  BY Zenon, TemplateMineable DEF TemplateValid, Mineable
<1> QED
  BY <1>1, PoolInvHolds, PTL

=============================================================================
