--------------------------- MODULE HardForkProofs ---------------------------
(***************************************************************************)
(* Proofs about HardFork, for every fork table, window size and height.    *)
(***************************************************************************)
EXTENDS HardFork, FiniteSetTheorems, WellFoundedInduction, TLAPS

-----------------------------------------------------------------------------
(* Greatest and least elements of sets of indices *)

\* A nonempty set of numbers within an interval has a greatest element.  Among its
\* subsets "the elements from x on" there is a smallest one, and its x is greatest.
LEMMA GreatestExists ==
  ASSUME NEW a \in Int, NEW b \in Int, NEW S \in SUBSET (a..b), S # {}
  PROVE  \E x \in S : \A y \in S : x >= y
<1> DEFINE From(x) == {y \in S : y >= x}
           T == {From(x) : x \in S}
           R == StrictSubsetOrdering(a..b)
<1>1. T # {}
  BY Zenon
<1>2. T \subseteq FiniteSubsetsOf(a..b)
  BY Zenon, FS_Interval, FS_Subset DEF FiniteSubsetsOf
<1>3. PICK U \in T : \A V \in T : <<V, U>> \notin R
  <2> HIDE DEF T, R
  <2> QED BY <1>1, <1>2, FS_StrictSubsetOrderingWellFounded, WFMin DEF R
<1>4. PICK x \in S : U = From(x)
  OBVIOUS
<1>5. ASSUME NEW y \in S PROVE x >= y
  <2>1. SUFFICES ASSUME y > x PROVE FALSE
    OBVIOUS
  <2>2. From(y) \in T /\ From(y) \subseteq U /\ From(y) # U
    <3>1. x \in Int /\ y \in Int /\ \A z \in S : z \in Int
      OBVIOUS
    <3>2. From(y) \in T
      OBVIOUS
    <3>3. From(y) \subseteq From(x)
      <4> SUFFICES ASSUME NEW z \in From(y) PROVE z \in From(x)
        BY Zenon
      <4>1. z \in S /\ z \in Int /\ z >= y
        BY <3>1
      <4>2. z >= x
        BY <2>1, <3>1, <4>1
      <4> QED BY <4>1, <4>2
    <3>4. x \in From(x) /\ x \notin From(y)
      BY <2>1, <3>1
    <3> HIDE DEF From
    <3> QED BY <1>4, <3>2, <3>3, <3>4
  <2>3. <<From(y), U>> \in R
    BY <1>2, <1>4, <2>2 DEF StrictSubsetOrdering, FiniteSubsetsOf
  <2> QED BY Zenon, <1>3, <2>2, <2>3
<1> QED BY <1>5

LEMMA MaxInSet ==
  ASSUME NEW a \in Int, NEW b \in Int, NEW S \in SUBSET (a..b), S # {}
  PROVE  /\ Max(S) \in S
         /\ \A y \in S : Max(S) >= y
BY Zenon, GreatestExists DEF Max

\* The least element, from the greatest element of the negated set.
LEMMA MinInSet ==
  ASSUME NEW a \in Int, NEW b \in Int, NEW S \in SUBSET (a..b), S # {}
  PROVE  /\ Min(S) \in S
         /\ \A y \in S : Min(S) <= y
<1> DEFINE N == {-x : x \in S}
<1>1. N \in SUBSET ((-b)..(-a)) /\ N # {}
  <2>1. \A x \in S : x \in Int /\ a <= x /\ x <= b
    OBVIOUS
  <2>2. \A x \in S : -x \in (-b)..(-a)
    BY <2>1
  <2>3. N # {}
    BY Zenon
  <2> QED BY <2>2, <2>3
<1>2. PICK m \in N : \A y \in N : m >= y
  <2>1. -b \in Int /\ -a \in Int
    OBVIOUS
  <2> HIDE DEF N
  <2> QED BY Zenon, <1>1, <2>1, GreatestExists
<1>3. PICK x \in S : m = -x
  BY <1>2
<1>4. \A y \in S : x <= y
  <2> TAKE y \in S
  <2>1. -y \in N
    OBVIOUS
  <2>2. x \in Int /\ y \in Int
    OBVIOUS
  <2> QED BY <1>2, <1>3, <2>1, <2>2
<1> QED BY <1>4 DEF Min

-----------------------------------------------------------------------------
(* The fork table *)

\* Fork indices and versions are in the same order, and every version is a
\* version number.
LEMMA ForkTable ==
  /\ Len(Forks) \in Nat /\ Len(Forks) >= 1 /\ 1 \in ForkIndices
  /\ MaxVersion \in Nat /\ MaxVersion >= 1 /\ original_version \in VersionNumbers
  /\ \A n \in ForkIndices : /\ Forks[n].version \in VersionNumbers
                            /\ Forks[n].version \in Nat
                            /\ Forks[n].height \in Nat
  /\ \A m, n \in ForkIndices : m <= n <=> Forks[m].version <= Forks[n].version
<1>1. /\ Len(Forks) \in Nat /\ Len(Forks) >= 1
      /\ \A n \in ForkIndices : Forks[n].version \in Nat /\ Forks[n].height \in Nat
  <2> DEFINE Rec == [version : Nat, height : Nat, threshold : 0..100]
  <2>1. Forks \in Seq(Rec) /\ Len(Forks) >= 1
    BY ForksAssumption
  <2>2. Len(Forks) \in Nat /\ \A n \in 1..Len(Forks) : Forks[n] \in Rec
    <3> HIDE DEF Rec
    <3> QED BY <2>1
  <2>3. \A r \in Rec : r.version \in Nat /\ r.height \in Nat
    OBVIOUS
  <2> QED BY <2>1, <2>2, <2>3 DEF ForkIndices
<1>2. \A m, n \in ForkIndices : m < n => Forks[m].version < Forks[n].version
  BY ForksAssumption DEF ForkIndices
<1>3. \A m, n \in ForkIndices : m <= n <=> Forks[m].version <= Forks[n].version
  <2> TAKE m, n \in ForkIndices
  <2>1. m \in Int /\ n \in Int
    BY DEF ForkIndices
  <2>2. CASE m < n
    BY <1>1, <1>2, <2>1, <2>2
  <2>3. CASE m = n
    BY <1>1, <2>1, <2>3
  <2>4. CASE n < m
    BY <1>1, <1>2, <2>1, <2>4
  <2> QED BY <2>1, <2>2, <2>3, <2>4
<1>4. 1 \in ForkIndices /\ Len(Forks) \in ForkIndices /\ Forks[1].version = 1
  BY <1>1, ForksAssumption DEF ForkIndices
<1>5. \A n \in ForkIndices : Forks[n].version \in VersionNumbers
  <2> TAKE n \in ForkIndices
  <2>1. 1 <= n /\ n <= Len(Forks)
    BY <1>1 DEF ForkIndices
  <2>2. Forks[1].version <= Forks[n].version /\ Forks[n].version <= MaxVersion
    BY <1>3, <1>4, <2>1 DEF MaxVersion
  <2> QED BY <1>1, <1>4, <2>2 DEF VersionNumbers, MaxVersion
<1> QED BY <1>1, <1>3, <1>4, <1>5 DEF MaxVersion, VersionNumbers, original_version

\* A version of the table names one fork.
LEMMA ForkOfVersion ==
  ASSUME NEW n \in ForkIndices
  PROVE  ForkOf(Forks[n].version) = n
<1>1. \A m \in ForkIndices : Forks[m].version = Forks[n].version => m = n
  <2> TAKE m \in ForkIndices
  <2>1. m \in Int /\ n \in Int /\ Forks[m].version \in Int /\ Forks[n].version \in Int
    BY ForkTable DEF ForkIndices
  <2> QED BY <2>1, ForkTable
<1> QED BY <1>1 DEF ForkOf

\* The voted fork is never below the current one, nor ahead of its height.
LEMMA VotedForkRange ==
  ASSUME NEW c \in ForkIndices, NEW lv, NEW h
  PROVE  /\ get_voted_fork_index(c, lv, h) \in ForkIndices
         /\ get_voted_fork_index(c, lv, h) >= c
         /\ \/ get_voted_fork_index(c, lv, h) = c
            \/ h >= Forks[get_voted_fork_index(c, lv, h)].height
<1> DEFINE S == {n \in c..Len(Forks) :
                   n = c \/ ( /\ h >= Forks[n].height
                             /\ AccumulatedVotes(lv, n) >= Threshold(n) )}
<1>1. c \in Int /\ Len(Forks) \in Int /\ S \in SUBSET (c..Len(Forks)) /\ c \in S
  BY ForkTable DEF ForkIndices
<1>2. Max(S) \in S
  <2> HIDE DEF S
  <2> QED BY Zenon, <1>1, MaxInSet
<1>3. get_voted_fork_index(c, lv, h) = Max(S)
  BY DEF get_voted_fork_index
<1> QED BY <1>1, <1>2, <1>3 DEF ForkIndices

-----------------------------------------------------------------------------
(* Votes and windows *)

LEMMA EffectiveVoteType ==
  ASSUME NEW b \in Block
  PROVE  EffectiveVote(b) \in VersionNumbers
BY ForkTable DEF Block, EffectiveVote, get_effective_version, get_block_vote, VersionNumbers

\* The votes below height h: as many as the window holds, oldest first.
LEMMA WindowVotesShape ==
  ASSUME NEW c \in Seq(Block), NEW h \in 0..Len(c)
  PROVE  /\ WindowVotes(c, h) \in Seq(VersionNumbers)
         /\ Len(WindowVotes(c, h)) = IF h > WindowSize THEN WindowSize ELSE h
         /\ WindowStart(h) \in 0..h
         /\ \A i \in 1..Len(WindowVotes(c, h)) :
              WindowVotes(c, h)[i] = EffectiveVote(c[WindowStart(h) + i])
<1> DEFINE s == WindowStart(h)
<1>1. s \in 0..h /\ h - s \in Nat /\ h - s = IF h > WindowSize THEN WindowSize ELSE h
  BY WindowAssumption DEF WindowStart
<1>2. \A i \in 1..(h - s) : c[s + i] \in Block
  <2> TAKE i \in 1..(h - s)
  <2>1. s + i \in 1..Len(c)
    BY <1>1
  <2> QED BY <2>1
<1>3. WindowVotes(c, h) = [i \in 1..(h - s) |-> EffectiveVote(c[s + i])]
  BY DEF WindowVotes, Votes
<1>4. \A i \in 1..(h - s) : EffectiveVote(c[s + i]) \in VersionNumbers
  BY <1>2, EffectiveVoteType
<1> HIDE DEF s
<1>5. WindowVotes(c, h) \in Seq(VersionNumbers)
  BY <1>1, <1>3, <1>4
<1>6. Len(WindowVotes(c, h)) = h - s
  BY <1>1, <1>3
<1> QED BY <1>1, <1>3, <1>5, <1>6 DEF s

\* The window below h depends on the blocks below h only.
LEMMA WindowVotesPrefix ==
  ASSUME NEW c \in Seq(Block), NEW d \in Seq(Block), NEW h \in 0..Len(c), h <= Len(d),
         \A i \in 1..h : c[i] = d[i]
  PROVE  WindowVotes(c, h) = WindowVotes(d, h)
<1>1. WindowStart(h) \in 0..h /\ h \in Nat
  BY WindowVotesShape
<1>2. \A i \in 1..(h - WindowStart(h)) : WindowStart(h) + i \in 1..h
  BY <1>1
<1> QED BY <1>1, <1>2 DEF WindowVotes, Votes

\* One block further: its vote enters, and the oldest leaves a full window.
LEMMA WindowSlides ==
  ASSUME NEW c \in Seq(Block), NEW h \in 0..(Len(c) - 1)
  PROVE  WindowVotes(c, h + 1) =
           Append(IF Len(WindowVotes(c, h)) >= WindowSize
                  THEN Tail(WindowVotes(c, h)) ELSE WindowVotes(c, h),
                  EffectiveVote(c[h + 1]))
<1> DEFINE w == WindowVotes(c, h)
           k == IF Len(w) >= WindowSize THEN Tail(w) ELSE w
           x == EffectiveVote(c[h + 1])
           z == WindowVotes(c, h + 1)
<1>1. h \in 0..Len(c) /\ h + 1 \in 0..Len(c) /\ h \in Nat /\ Len(c) \in Nat
  OBVIOUS
<1>2. /\ w \in Seq(VersionNumbers) /\ z \in Seq(VersionNumbers)
      /\ Len(w) = IF h > WindowSize THEN WindowSize ELSE h
      /\ Len(z) = IF h + 1 > WindowSize THEN WindowSize ELSE h + 1
      /\ \A i \in 1..Len(w) : w[i] = EffectiveVote(c[WindowStart(h) + i])
      /\ \A i \in 1..Len(z) : z[i] = EffectiveVote(c[WindowStart(h + 1) + i])
  BY <1>1, WindowVotesShape
<1>3. WindowSize \in Nat /\ WindowSize > 0
  BY WindowAssumption
<1>4. x \in VersionNumbers
  BY EffectiveVoteType
<1> HIDE DEF w, z, x
<1>5. CASE h >= WindowSize
  <2>1. /\ Len(w) = WindowSize /\ Len(z) = WindowSize
        /\ WindowStart(h) = h - WindowSize /\ WindowStart(h + 1) = h + 1 - WindowSize
    BY <1>1, <1>2, <1>3, <1>5 DEF WindowStart
  <2>2. /\ k = Tail(w) /\ k \in Seq(VersionNumbers) /\ Len(k) = WindowSize - 1
        /\ \A i \in 1..(WindowSize - 1) : k[i] = w[i + 1]
    BY <1>2, <1>3, <2>1
  <2>3. \A i \in 1..(WindowSize - 1) : z[i] = k[i]
    <3> SUFFICES ASSUME NEW i \in 1..(WindowSize - 1) PROVE z[i] = k[i]
      BY Zenon
    <3>1. i \in 1..Len(z) /\ i + 1 \in 1..Len(w)
      BY <1>3, <2>1
    <3>2. WindowStart(h + 1) + i = WindowStart(h) + (i + 1)
      BY <1>1, <1>3, <2>1
    <3> QED BY <1>2, <2>2, <3>1, <3>2
  <2>4. z[WindowSize] = x
    <3>1. WindowSize \in 1..Len(z) /\ WindowStart(h + 1) + WindowSize = h + 1
      BY <1>1, <1>3, <2>1
    <3> QED BY <1>2, <3>1 DEF x
  <2> HIDE DEF k
  <2>5. /\ Append(k, x) \in Seq(VersionNumbers) /\ Len(Append(k, x)) = WindowSize
        /\ \A i \in 1..(WindowSize - 1) : Append(k, x)[i] = k[i]
        /\ Append(k, x)[WindowSize] = x
    BY <1>3, <1>4, <2>2
  <2>6. \A i \in 1..WindowSize : z[i] = Append(k, x)[i]
    <3> SUFFICES ASSUME NEW i \in 1..WindowSize PROVE z[i] = Append(k, x)[i]
      BY Zenon
    <3>1. i = WindowSize \/ i \in 1..(WindowSize - 1)
      BY <1>3
    <3> QED BY <2>3, <2>4, <2>5, <3>1
  <2>7. z = Append(k, x)
    <3> DEFINE y == Append(k, x)
    <3>1. y \in Seq(VersionNumbers) /\ Len(y) = Len(z) /\ \A i \in 1..Len(z) : z[i] = y[i]
      BY <2>1, <2>5, <2>6
    <3> HIDE DEF y
    <3>2. z = y
      BY <1>2, <3>1
    <3> QED BY <3>2 DEF y
  <2> QED BY <2>7 DEF k, w, z, x
<1>6. CASE h < WindowSize
  <2>1. /\ Len(w) = h /\ Len(z) = h + 1
        /\ WindowStart(h) = 0 /\ WindowStart(h + 1) = 0
    BY <1>1, <1>2, <1>3, <1>6 DEF WindowStart
  <2>2. k = w
    BY <1>1, <1>3, <1>6, <2>1
  <2>3. /\ Append(w, x) \in Seq(VersionNumbers) /\ Len(Append(w, x)) = h + 1
        /\ \A i \in 1..h : Append(w, x)[i] = w[i]
        /\ Append(w, x)[h + 1] = x
    BY <1>1, <1>2, <1>4, <2>1
  <2>4. \A i \in 1..(h + 1) : z[i] = Append(w, x)[i]
    <3> SUFFICES ASSUME NEW i \in 1..(h + 1) PROVE z[i] = Append(w, x)[i]
      BY Zenon
    <3>1. i = h + 1 \/ i \in 1..h
      BY <1>1
    <3>2. i \in Int /\ 0 + i = i
      OBVIOUS
    <3> QED BY <1>2, <2>1, <2>3, <3>1, <3>2 DEF x
  <2>5. z = Append(w, x)
    BY <1>2, <2>1, <2>3, <2>4
  <2> QED BY <2>2, <2>5 DEF k, w, z, x
<1> QED BY <1>1, <1>3, <1>5, <1>6

-----------------------------------------------------------------------------
(* Histograms of votes *)

LEMMA VotesForFinite ==
  ASSUME NEW s \in Seq(VersionNumbers), NEW v
  PROVE  /\ IsFiniteSet({i \in 1..Len(s) : s[i] = v})
         /\ Cardinality({i \in 1..Len(s) : s[i] = v}) \in Nat
<1>1. Len(s) \in Int /\ 1 \in Int
  OBVIOUS
<1>2. IsFiniteSet(1..Len(s))
  BY <1>1, FS_Interval
<1>3. {i \in 1..Len(s) : s[i] = v} \in SUBSET (1..Len(s))
  OBVIOUS
<1>4. IsFiniteSet({i \in 1..Len(s) : s[i] = v})
  BY <1>2, <1>3, FS_Subset
<1> QED BY <1>4, FS_CardinalityType

LEMMA HistogramType ==
  ASSUME NEW s \in Seq(VersionNumbers)
  PROVE  /\ Histogram(s) \in [VersionNumbers -> Nat]
         /\ Histogram(s) \in [VersionNumbers -> Int]
<1>1. Histogram(s) \in [VersionNumbers -> Nat]
  BY Zenon, VotesForFinite DEF Histogram
<1> QED BY <1>1

\* Counting one more vote.
LEMMA HistogramAppend ==
  ASSUME NEW s \in Seq(VersionNumbers), NEW x \in VersionNumbers
  PROVE  Histogram(Append(s, x)) = [Histogram(s) EXCEPT ![x] = @ + 1]
<1> DEFINE t == Append(s, x)
           I(u, v) == {i \in 1..Len(u) : u[i] = v}
<1>1. /\ t \in Seq(VersionNumbers) /\ Len(t) = Len(s) + 1 /\ Len(s) \in Nat
      /\ t[Len(s) + 1] = x /\ \A i \in 1..Len(s) : t[i] = s[i]
  OBVIOUS
<1> HIDE DEF t
<1>2. ASSUME NEW v \in VersionNumbers
      PROVE  Cardinality(I(t, v)) = IF v = x THEN Cardinality(I(s, v)) + 1
                                             ELSE Cardinality(I(s, v))
  <2>1. IsFiniteSet(I(s, v))
    BY Zenon, VotesForFinite
  <2>2. Len(s) + 1 \notin I(s, v)
    BY <1>1
  <2>3. CASE v = x
    <3>1. I(t, v) = I(s, v) \cup {Len(s) + 1}
      BY <1>1, <2>3
    <3> HIDE DEF I
    <3> QED BY Zenon, <2>1, <2>2, <2>3, <3>1, FS_AddElement
  <2>4. CASE v # x
    <3>1. I(t, v) = I(s, v)
      BY <1>1, <2>4
    <3> QED BY Zenon, <2>4, <3>1
  <2> QED BY <2>3, <2>4
<1>3. Histogram(s) \in [VersionNumbers -> Nat] /\ Histogram(t) \in [VersionNumbers -> Nat]
  BY <1>1, HistogramType
<1>4. \A v \in VersionNumbers : /\ Histogram(s)[v] = Cardinality(I(s, v))
                                /\ Histogram(t)[v] = Cardinality(I(t, v))
  BY DEF Histogram
<1> HIDE DEF I
<1> QED BY <1>2, <1>3, <1>4 DEF t

\* Counting without the oldest vote: its positions are the others, moved by one.
LEMMA HistogramTail ==
  ASSUME NEW s \in Seq(VersionNumbers), Len(s) >= 1
  PROVE  Histogram(Tail(s)) = [Histogram(s) EXCEPT ![Head(s)] = @ - 1]
<1> DEFINE t == Tail(s)
           I(u, v) == {i \in 1..Len(u) : u[i] = v}
<1>1. /\ t \in Seq(VersionNumbers) /\ Len(t) = Len(s) - 1 /\ Len(s) \in Nat
      /\ \A i \in 1..Len(t) : t[i] = s[i + 1]
      /\ Head(s) = s[1] /\ Head(s) \in VersionNumbers
  OBVIOUS
<1> HIDE DEF t
<1>2. ASSUME NEW v \in VersionNumbers
      PROVE  Cardinality(I(t, v)) = IF v = Head(s) THEN Cardinality(I(s, v)) - 1
                                                   ELSE Cardinality(I(s, v))
  <2> DEFINE J == I(s, v) \ {1}
             f == [i \in I(t, v) |-> i + 1]
  <2>1. IsFiniteSet(I(s, v)) /\ IsFiniteSet(I(t, v)) /\ Cardinality(I(s, v)) \in Nat
    BY Zenon, <1>1, VotesForFinite
  <2>2. f \in [I(t, v) -> J]
    <3> SUFFICES ASSUME NEW i \in I(t, v) PROVE i + 1 \in J
      OBVIOUS
    <3> QED BY <1>1
  <2>3. \A i, j \in I(t, v) : f[i] = f[j] => i = j
    OBVIOUS
  <2>4. \A j \in J : \E i \in I(t, v) : f[i] = j
    <3> TAKE j \in J
    <3>1. j - 1 \in I(t, v) /\ f[j - 1] = j
      BY <1>1
    <3> QED BY <3>1
  <2>5. Cardinality(J) = Cardinality(I(t, v))
    <3> HIDE DEF J, I, f
    <3>1. f \in Bijection(I(t, v), J)
      BY <2>2, <2>3, <2>4 DEF Bijection, Injection, Surjection, IsInjective
    <3>2. ExistsBijection(I(t, v), J)
      BY <3>1 DEF ExistsBijection
    <3> QED BY <2>1, <3>2, FS_Bijection
  <2>6. 1 \in I(s, v) <=> v = Head(s)
    BY <1>1
  <2> HIDE DEF I
  <2> QED BY Zenon, <2>1, <2>5, <2>6, FS_RemoveElement
<1>3. Histogram(s) \in [VersionNumbers -> Nat] /\ Histogram(t) \in [VersionNumbers -> Nat]
  BY <1>1, HistogramType
<1>4. \A v \in VersionNumbers : /\ Histogram(s)[v] = Cardinality(I(s, v))
                                /\ Histogram(t)[v] = Cardinality(I(t, v))
  BY DEF Histogram
<1> HIDE DEF I
<1> QED BY <1>1, <1>2, <1>3, <1>4 DEF t

-----------------------------------------------------------------------------
(* The object's operations *)

\* The object x counts the window below height h of chain c.
Counts(x, c, h) == /\ x \in HfState
                   /\ x.versions = WindowVotes(c, h)
                   /\ x.last_versions = Histogram(x.versions)

\* A block that passes the check moves the count one block further.
LEMMA AddAdvances ==
  ASSUME NEW c \in Seq(Block), NEW h \in 0..(Len(c) - 1), NEW x,
         Counts(x, c, h), check(x, c[h + 1])
  PROVE  LET y == add(x, c[h + 1], h)
         IN  /\ Counts(y, c, h + 1)
             /\ y.current_fork_index =
                  get_voted_fork_index(x.current_fork_index,
                                       Histogram(WindowVotes(c, h + 1)), h + 1)
<1> DEFINE b == c[h + 1]
           v == EffectiveVote(b)
           e == Evict(x)
           p == Push(e, b)
           y == add(x, b, h)
<1>1. x \in HfState /\ x.versions = WindowVotes(c, h) /\ x.last_versions = Histogram(x.versions)
  BY DEF Counts
<1>2. v \in VersionNumbers
  BY EffectiveVoteType
<1>3. /\ e \in HfState
      /\ e.versions = IF Len(x.versions) >= WindowSize THEN Tail(x.versions) ELSE x.versions
      /\ e.last_versions = Histogram(e.versions)
      /\ e.current_fork_index = x.current_fork_index
  <2>1. CASE Len(x.versions) >= WindowSize
    <3>1. x.versions \in Seq(VersionNumbers) /\ Len(x.versions) >= 1
      BY <1>1, <2>1, WindowAssumption DEF HfState
    <3>2. Head(x.versions) \in VersionNumbers /\ Tail(x.versions) \in Seq(VersionNumbers)
      BY <3>1
    <3>3. Histogram(Tail(x.versions)) = [x.last_versions EXCEPT ![Head(x.versions)] = @ - 1]
      BY <1>1, <3>1, HistogramTail
    <3>4. Histogram(Tail(x.versions)) \in [VersionNumbers -> Int]
      BY Zenon, <3>2, HistogramType
    <3>5. e = [versions |-> Tail(x.versions),
               last_versions |-> [x.last_versions EXCEPT ![Head(x.versions)] = @ - 1],
               current_fork_index |-> x.current_fork_index]
      BY Zenon, <1>1, <2>1 DEF Evict, HfState
    <3> HIDE DEF e
    <3> QED BY <1>1, <2>1, <3>2, <3>3, <3>4, <3>5 DEF HfState
  <2>2. CASE ~(Len(x.versions) >= WindowSize)
    BY <1>1, <2>2 DEF Evict
  <2> QED BY <2>1, <2>2
<1> HIDE DEF e, v, b
<1>4. /\ p \in HfState
      /\ p.versions = Append(e.versions, v)
      /\ p.last_versions = Histogram(p.versions)
      /\ p.current_fork_index = x.current_fork_index
  <2>0. e \in HfState
    BY <1>3
  <2>1. e.versions \in Seq(VersionNumbers) /\ Append(e.versions, v) \in Seq(VersionNumbers)
    BY <1>2, <2>0 DEF HfState
  <2>2. Histogram(Append(e.versions, v)) = [e.last_versions EXCEPT ![v] = @ + 1]
    <3>1. Histogram(Append(e.versions, v)) = [Histogram(e.versions) EXCEPT ![v] = @ + 1]
      BY <1>2, <2>1, HistogramAppend
    <3> QED BY <1>3, <3>1
  <2>3. Histogram(Append(e.versions, v)) \in [VersionNumbers -> Int]
    BY Zenon, <2>1, HistogramType
  <2>4. p = [versions |-> Append(e.versions, v),
             last_versions |-> [e.last_versions EXCEPT ![v] = @ + 1],
             current_fork_index |-> e.current_fork_index]
    <3>1. p = [e EXCEPT !.versions = Append(@, v), !.last_versions[v] = @ + 1]
      BY DEF Push, v
    <3> HIDE DEF p
    <3> QED BY Zenon, <2>0, <3>1 DEF HfState
  <2> HIDE DEF p
  <2>5. /\ p.versions = Append(e.versions, v)
        /\ p.last_versions = Histogram(Append(e.versions, v))
        /\ p.current_fork_index = e.current_fork_index
    BY Zenon, <2>2, <2>4
  <2>6. p = [versions |-> p.versions, last_versions |-> p.last_versions,
             current_fork_index |-> p.current_fork_index]
    BY Zenon, <2>4, <2>5
  <2>7. p.versions \in Seq(VersionNumbers) /\ p.last_versions \in [VersionNumbers -> Int]
    BY Zenon, <2>1, <2>3, <2>5
  <2>8. e.current_fork_index = x.current_fork_index /\ x.current_fork_index \in ForkIndices
    BY Zenon, <1>1, <1>3 DEF HfState
  <2>9. p \in HfState
    BY Zenon, <2>5, <2>6, <2>7, <2>8 DEF HfState
  <2> QED BY Zenon, <2>5, <2>8, <2>9
<1>5. p.versions = WindowVotes(c, h + 1)
  BY <1>1, <1>3, <1>4, WindowSlides DEF v, b
<1>6. y = Activate(p, h + 1)
  BY DEF add, e, b
<1> HIDE DEF p
<1>7. y = [versions |-> p.versions, last_versions |-> p.last_versions,
           current_fork_index |->
             get_voted_fork_index(p.current_fork_index, p.last_versions, h + 1)]
  BY Zenon, <1>4, <1>6 DEF Activate, HfState
<1>8. get_voted_fork_index(p.current_fork_index, p.last_versions, h + 1) \in ForkIndices
  BY <1>4, VotedForkRange DEF HfState
<1> HIDE DEF y
<1>9. y \in HfState /\ y.versions = p.versions /\ y.last_versions = p.last_versions
  BY Zenon, <1>4, <1>7, <1>8 DEF HfState
<1>10. y.current_fork_index =
         get_voted_fork_index(x.current_fork_index, Histogram(WindowVotes(c, h + 1)), h + 1)
  BY Zenon, <1>4, <1>5, <1>7
<1> QED BY Zenon, <1>4, <1>5, <1>9, <1>10 DEF Counts, y, b

\* Counting from the blocks gives the window below h.
LEMMA RecountCounts ==
  ASSUME NEW c \in Seq(Block), NEW h \in 0..Len(c), NEW n \in ForkIndices
  PROVE  LET y == Recount(c, h, n)
         IN  /\ Counts(y, c, h)
             /\ y.current_fork_index =
                  get_voted_fork_index(n, Histogram(WindowVotes(c, h)), h)
<1> DEFINE w == WindowVotes(c, h)
           f == get_voted_fork_index(n, Histogram(w), h)
<1>1. w \in Seq(VersionNumbers)
  BY WindowVotesShape
<1>2. Histogram(w) \in [VersionNumbers -> Int]
  BY <1>1, HistogramType
<1>3. f \in ForkIndices
  BY VotedForkRange
<1>4. Recount(c, h, n) = [versions |-> w, last_versions |-> Histogram(w),
                          current_fork_index |-> f]
  BY DEF Recount, Activate
<1> HIDE DEF w, f
<1> QED BY <1>1, <1>2, <1>3, <1>4 DEF Counts, HfState, w, f

\* The window never holds more than WindowSize votes.
LEMMA CountsBounded ==
  ASSUME NEW c \in Seq(Block), NEW h \in 0..Len(c), NEW x, Counts(x, c, h)
  PROVE  Len(x.versions) <= WindowSize
<1>1. x.versions = WindowVotes(c, h)
  BY DEF Counts
<1>2. Len(WindowVotes(c, h)) = IF h > WindowSize THEN WindowSize ELSE h
  BY WindowVotesShape
<1>3. WindowSize \in Nat /\ h \in Nat
  BY WindowAssumption
<1>4. Len(WindowVotes(c, h)) <= WindowSize
  BY <1>2, <1>3
<1> QED BY <1>1, <1>4

-----------------------------------------------------------------------------
(* The inductive invariant *)

Recorded == \A h \in 0..(Height - 1) : hf_versions[h] = chain[h + 1].major

\* The block chain[i], at height i - 1, has the version of a fork scheduled by then.
MajorsInTable ==
  \A i \in 1..Height : \E n \in ForkIndices :
    /\ chain[i].major = Forks[n].version
    /\ n = 1 \/ i - 1 >= Forks[n].height

MajorsOrdered == \A i, j \in 1..Height : i <= j => chain[i].major <= chain[j].major

\* The object is the one that the blocks below height h determine.
UpToDate(h) == /\ Counts(hf, chain, h)
               /\ hf.current_fork_index = ForkInForce(chain, h)

ChainOK == /\ chain \in Seq(Block) /\ Height \in 1..MaxHeight
           /\ chain[1] = Genesis
           /\ MajorsInTable
           /\ MajorsOrdered
           /\ BlocksFollowForks

\* What holds of the object and of the version table in each phase.  While blocks
\* are popped the fork index may be too high, never too low; a replay has the
\* object of the blocks below at, and has the versions below at recorded.
PhaseOK ==
  /\ pc = "ready" => UpToDate(Height) /\ Recorded
  /\ pc = "popped" => /\ Recorded
                      /\ \A i \in 1..Height : chain[i].major <= get_current_version(hf)
  /\ pc = "replay" => /\ at <= Height
                      /\ UpToDate(at)
                      /\ IF hf_versions[0] = 0
                         THEN \A h \in 1..(at - 1) : hf_versions[h] = chain[h + 1].major
                         ELSE Recorded
  /\ pc = "offline" => hf_versions[0] = 0

StateOK == /\ hf_versions \in [0..MaxHeight -> 0..MaxVersion]
           /\ hf \in HfState /\ Len(hf.versions) <= WindowSize
           /\ pc \in Phases
           /\ at \in 1..MaxHeight

IInv == ChainOK /\ StateOK /\ PhaseOK

\* Chains that agree below h have the same fork in force at h.
LEMMA ForkInForcePrefix ==
  ASSUME NEW c \in Seq(Block), NEW d \in Seq(Block), NEW h \in 1..Len(c), h <= Len(d),
         \A i \in 1..h : c[i] = d[i]
  PROVE  ForkInForce(c, h) = ForkInForce(d, h)
<1>1. h \in 0..Len(c) /\ c[h] = d[h]
  OBVIOUS
<1>2. WindowVotes(c, h) = WindowVotes(d, h)
  BY <1>1, WindowVotesPrefix
<1> QED BY <1>1, <1>2 DEF ForkInForce

\* The fork of a block on the chain, and the fork in force above it.
LEMMA ForkOfBlock ==
  ASSUME ChainOK, NEW h \in 1..Height
  PROVE  /\ ForkOf(chain[h].major) \in ForkIndices
         /\ Forks[ForkOf(chain[h].major)].version = chain[h].major
         /\ ForkInForce(chain, h) \in ForkIndices
         /\ ForkInForce(chain, h) >= ForkOf(chain[h].major)
         /\ Forks[ForkInForce(chain, h)].version >= chain[h].major
         /\ ForkInForce(chain, h) = 1 \/ h >= Forks[ForkInForce(chain, h)].height
<1>1. PICK n \in ForkIndices : /\ chain[h].major = Forks[n].version
                               /\ n = 1 \/ h - 1 >= Forks[n].height
  BY DEF ChainOK, MajorsInTable
<1>2. ForkOf(chain[h].major) = n
  BY <1>1, ForkOfVersion
<1> DEFINE f == ForkInForce(chain, h)
<1>3. f \in ForkIndices /\ f >= n /\ (f = n \/ h >= Forks[f].height)
  BY <1>2, VotedForkRange DEF ForkInForce
<1> HIDE DEF f
<1>4. Forks[f].version >= Forks[n].version
  BY <1>3, ForkTable DEF ForkIndices
<1>5. f = 1 \/ h >= Forks[f].height
  BY <1>1, <1>3, ForkTable
<1> QED BY <1>1, <1>2, <1>3, <1>4, <1>5 DEF f

\* The greatest fork up to the current one with at most the version of fork k is k.
LEMMA LoweredFork ==
  ASSUME NEW cur \in ForkIndices, NEW k \in ForkIndices, k <= cur
  PROVE  Max({n \in 1..cur : n = 1 \/ Forks[n].version <= Forks[k].version}) = k
<1> DEFINE S == {n \in 1..cur : n = 1 \/ Forks[n].version <= Forks[k].version}
<1>1. 1 \in Int /\ cur \in Int /\ k \in Int /\ k \in 1..cur /\ S \in SUBSET (1..cur)
  BY DEF ForkIndices
<1>2. k \in S
  BY <1>1, ForkTable
<1>3. \A n \in S : n <= k
  <2> TAKE n \in S
  <2>1. n \in ForkIndices /\ n \in Int /\ 1 <= k
    BY <1>1 DEF ForkIndices
  <2> QED BY Zenon, <2>1, ForkTable
<1>4. Max(S) \in S /\ Max(S) >= k
  <2> HIDE DEF S
  <2> QED BY Zenon, <1>1, <1>2, MaxInSet
<1>5. Max(S) \in Int
  BY <1>1, <1>4
<1> HIDE DEF S
<1>6. Max(S) = k
  BY <1>1, <1>3, <1>4, <1>5
<1> QED BY <1>6 DEF S

\* The first fork with the version of fork k, or the last fork, is k.
LEMMA FoundFork ==
  ASSUME NEW k \in ForkIndices
  PROVE  Min({n \in ForkIndices : n = Len(Forks) \/ Forks[n].version = Forks[k].version}) = k
<1> DEFINE S == {n \in ForkIndices : n = Len(Forks) \/ Forks[n].version = Forks[k].version}
<1>1. 1 \in Int /\ Len(Forks) \in Int /\ k \in Int /\ S \in SUBSET (1..Len(Forks)) /\ k <= Len(Forks)
  BY ForkTable DEF ForkIndices
<1>2. k \in S
  OBVIOUS
<1>3. \A n \in S : k <= n
  <2> TAKE n \in S
  <2>1. n = Len(Forks) \/ n = k
    BY ForkOfVersion
  <2> QED BY <1>1, <2>1
<1>4. Min(S) \in S /\ Min(S) <= k
  <2> HIDE DEF S
  <2> QED BY Zenon, <1>1, <1>2, MinInSet
<1>5. Min(S) \in Int
  BY <1>1, <1>4
<1> HIDE DEF S
<1>6. Min(S) = k
  BY <1>1, <1>3, <1>4, <1>5
<1> QED BY <1>6 DEF S

-----------------------------------------------------------------------------
(* Induction *)

LEMMA ReadyAboveAll ==
  ASSUME ChainOK, StateOK, UpToDate(Height)
  PROVE  \A i \in 1..Height : chain[i].major <= get_current_version(hf)
<1>1. Height \in 1..Height /\ Height \in Nat
  BY DEF ChainOK
<1>2. \A i \in 1..Height : chain[i].major \in Nat
  <2> SUFFICES ASSUME NEW i \in 1..Height PROVE chain[i].major \in Nat
    OBVIOUS
  <2>1. chain[i] \in Block
    BY DEF ChainOK, Height
  <2> QED BY <2>1 DEF Block
<1>3. chain[Height].major <= get_current_version(hf) /\ get_current_version(hf) \in Nat
  BY <1>1, <1>2, ForkOfBlock, ForkTable DEF UpToDate, get_current_version
<1>4. \A i \in 1..Height : chain[i].major <= chain[Height].major
  BY <1>1 DEF ChainOK, MajorsOrdered
<1> QED BY <1>1, <1>2, <1>3, <1>4

LEMMA GenesisFacts ==
  /\ Genesis \in Block
  /\ <<Genesis>> \in Seq(Block) /\ Len(<<Genesis>>) = 1 /\ <<Genesis>>[1] = Genesis
  /\ Genesis.major = Forks[1].version /\ Genesis.major = 1
  /\ ForkOf(Genesis.major) = 1
  /\ CheckAgainst(1, Genesis)
<1>1. Genesis.major = Forks[1].version /\ Genesis.major = 1 /\ Genesis.minor = 0
  BY ForksAssumption DEF Genesis, original_version
<1>2. Genesis \in Block
  BY DEF Genesis, Block, original_version
<1>3. ForkOf(Genesis.major) = 1
  BY Zenon, <1>1, ForkTable, ForkOfVersion
<1>4. CheckAgainst(1, Genesis)
  BY <1>1 DEF CheckAgainst, get_block_vote
<1> QED BY <1>1, <1>2, <1>3, <1>4

LEMMA FreshCounts ==
  ASSUME NEW c \in Seq(Block)
  PROVE  /\ Counts(Fresh, c, 0)
         /\ Fresh.current_fork_index = 1
<1>1. WindowVotes(c, 0) = <<>>
  <2>1. WindowStart(0) = 0
    BY WindowAssumption DEF WindowStart
  <2>2. WindowVotes(c, 0) \in Seq(VersionNumbers) /\ Len(WindowVotes(c, 0)) = 0
    BY WindowAssumption, WindowVotesShape
  <2> QED BY <2>2
<1>2. Histogram(<<>>) = [v \in VersionNumbers |-> 0]
  <2>1. \A v \in VersionNumbers : {i \in 1..Len(<<>>) : <<>>[i] = v} = {}
    OBVIOUS
  <2> QED BY <2>1, FS_EmptySet DEF Histogram
<1>3. /\ Fresh.versions = <<>> /\ Fresh.last_versions = [v \in VersionNumbers |-> 0]
      /\ Fresh.current_fork_index = 1
  BY DEF Fresh, EmptyWindow
<1>4. Fresh \in HfState
  <2>1. [v \in VersionNumbers |-> 0] \in [VersionNumbers -> Int]
    OBVIOUS
  <2>2. <<>> \in Seq(VersionNumbers)
    OBVIOUS
  <2> QED BY <2>1, <2>2, ForkTable DEF Fresh, EmptyWindow, HfState
<1> QED BY <1>1, <1>2, <1>3, <1>4 DEF Counts

LEMMA InitIInv == Init => IInv
<1> SUFFICES ASSUME Init PROVE IInv
  OBVIOUS
<1>1. /\ chain = <<Genesis>> /\ chain \in Seq(Block) /\ Height = 1 /\ chain[1] = Genesis
  BY GenesisFacts DEF Init, Height
<1>2. ChainOK
  <2>1. Height \in 1..MaxHeight
    BY <1>1, MaxHeightAssumption
  <2>2. MajorsInTable
    <3>1. \A i \in 1..Height : chain[i].major = Forks[1].version
      BY <1>1, GenesisFacts
    <3>2. 1 \in ForkIndices
      BY ForkTable
    <3> QED BY <3>1, <3>2 DEF MajorsInTable
  <2>3. MajorsOrdered
    BY <1>1, GenesisFacts DEF MajorsOrdered
  <2>4. BlocksFollowForks
    BY <1>1 DEF BlocksFollowForks
  <2> QED BY Zenon, <1>1, <2>1, <2>2, <2>3, <2>4 DEF ChainOK
<1>3. UpToDate(1)
  <2>1. Counts(Fresh, chain, 0) /\ Fresh.current_fork_index = 1
    BY Zenon, <1>1, FreshCounts
  <2>2. check(Fresh, chain[0 + 1])
    BY <1>1, <2>1, GenesisFacts DEF check
  <2>3. 0 \in 0..(Len(chain) - 1)
    BY <1>1 DEF Height
  <2>4. /\ Counts(hf, chain, 1)
        /\ hf.current_fork_index = get_voted_fork_index(1, Histogram(WindowVotes(chain, 1)), 1)
    <3>1. hf = add(Fresh, chain[0 + 1], 0)
      BY <1>1 DEF Init
    <3>2. 0 + 1 = 1
      OBVIOUS
    <3>3. LET y == add(Fresh, chain[0 + 1], 0)
          IN  /\ Counts(y, chain, 0 + 1)
              /\ y.current_fork_index =
                   get_voted_fork_index(Fresh.current_fork_index,
                                        Histogram(WindowVotes(chain, 0 + 1)), 0 + 1)
      BY Zenon, <1>1, <2>1, <2>2, <2>3, AddAdvances
    <3> QED BY <2>1, <3>1, <3>2, <3>3
  <2> QED BY <1>1, <2>4, GenesisFacts DEF UpToDate, ForkInForce
<1>4. hf_versions \in [0..MaxHeight -> 0..MaxVersion] /\ hf_versions[0] = 1
  BY MaxHeightAssumption, ForkTable DEF Init, NoVersions, original_version, VersionNumbers
<1>5. Recorded
  BY <1>1, <1>4, GenesisFacts DEF Recorded
<1>6. Len(hf.versions) <= WindowSize
  <2>1. 1 \in 0..Len(chain)
    BY <1>1 DEF Height
  <2> QED BY Zenon, <1>1, <1>3, <2>1, CountsBounded DEF UpToDate
<1>7. StateOK
  BY <1>3, <1>4, <1>6, MaxHeightAssumption DEF StateOK, Init, Phases, UpToDate, Counts
<1>8. PhaseOK
  BY <1>1, <1>3, <1>5 DEF PhaseOK, Init
<1> QED BY <1>2, <1>7, <1>8 DEF IInv

\* A block accepted by check extends the chain.
LEMMA AddBlockStep ==
  ASSUME IInv, NEW b \in [major : Majors, minor : Minors], AddBlock(b)
  PROVE  IInv'
<1> DEFINE d == Append(chain, b)
           H == Len(chain)
           k == hf.current_fork_index
<1>1. /\ b \in Block /\ chain \in Seq(Block) /\ H \in Nat /\ H >= 1 /\ H < MaxHeight
      /\ MaxHeight \in Nat /\ chain[1] = Genesis
  <2>1. b \in Block
    BY Zenon, BlocksAssumption DEF Block
  <2>2. chain \in Seq(Block) /\ H \in 1..MaxHeight /\ chain[1] = Genesis /\ H < MaxHeight
    BY DEF IInv, ChainOK, Height, AddBlock
  <2> QED BY <2>1, <2>2, MaxHeightAssumption
<1>2. /\ d \in Seq(Block) /\ Len(d) = H + 1 /\ d[H + 1] = b
      /\ \A i \in 1..H : d[i] = chain[i]
  BY <1>1
<1>3. /\ chain' = d /\ hf' = add(hf, b, H) /\ pc' = pc /\ at' = at /\ pc = "ready"
      /\ hf_versions' = set_hard_fork_version(hf_versions, hf, b, H) /\ check(hf, b)
  BY DEF AddBlock
<1>4. /\ ChainOK /\ StateOK /\ UpToDate(H) /\ Recorded
      /\ H \in 1..Height /\ H \in 0..Len(chain) /\ H \in 1..Len(chain)
  BY <1>1, <1>3 DEF IInv, PhaseOK, Height
<1>5. /\ k \in ForkIndices /\ k = ForkInForce(chain, H)
      /\ b.major = Forks[k].version /\ CheckAgainst(k, b)
  BY <1>3, <1>4 DEF UpToDate, Counts, HfState, check, CheckAgainst
<1>6. ForkOf(b.major) = k
  BY <1>5, ForkOfVersion
<1> HIDE DEF d
<1>7. /\ Counts(hf', d, H + 1)
      /\ hf'.current_fork_index = get_voted_fork_index(k, Histogram(WindowVotes(d, H + 1)), H + 1)
  <2>1. WindowVotes(chain, H) = WindowVotes(d, H)
    BY <1>1, <1>2, <1>4, WindowVotesPrefix
  <2>2. Counts(hf, d, H)
    BY <1>4, <2>1 DEF UpToDate, Counts
  <2>3. H \in 0..(Len(d) - 1) /\ check(hf, d[H + 1])
    BY <1>1, <1>2, <1>3
  <2>4. hf' = add(hf, d[H + 1], H)
    BY <1>2, <1>3
  <2> QED BY <1>2, <2>2, <2>3, <2>4, AddAdvances
<1>8. UpToDate(Height)'
  <2>1. Height' = H + 1
    BY <1>2, <1>3 DEF Height
  <2>2. ForkInForce(d, H + 1) = hf'.current_fork_index
    BY <1>2, <1>6, <1>7 DEF ForkInForce
  <2> QED BY <1>3, <1>7, <2>1, <2>2 DEF UpToDate
<1>9. ChainOK'
  <2>1. Height' = H + 1 /\ Height = H
    BY <1>2, <1>3 DEF Height
  <2>2. Height' \in 1..MaxHeight
    BY <1>1, <2>1
  <2>3. chain'[1] = Genesis
    BY <1>1, <1>2, <1>3
  <2>4. /\ Forks[k].version >= chain[H].major /\ (k = 1 \/ H >= Forks[k].height)
        /\ chain[H].major \in Nat /\ Forks[k].version \in Nat
    BY <1>4, <1>5, ForkOfBlock, ForkTable
  <2>5. ASSUME NEW i \in 1..(H + 1)
        PROVE  \E n \in ForkIndices : /\ d[i].major = Forks[n].version
                                      /\ n = 1 \/ i - 1 >= Forks[n].height
    <3>1. CASE i = H + 1
      BY <1>1, <1>2, <1>5, <2>4, <3>1
    <3>2. CASE i # H + 1
      <4>1. i \in 1..H /\ i \in 1..Height
        BY <1>1, <2>1, <3>2
      <4> QED BY <1>2, <1>4, <4>1 DEF ChainOK, MajorsInTable
    <3> QED BY <3>1, <3>2
  <2>6. MajorsInTable'
    BY <1>3, <2>1, <2>5 DEF MajorsInTable
  <2>7. ASSUME NEW i \in 1..(H + 1), NEW j \in 1..(H + 1), i <= j
        PROVE  d[i].major <= d[j].major
    <3>1. CASE j \in 1..H
      <4>1. i \in 1..H /\ i \in 1..Height /\ j \in 1..Height
        BY <1>1, <2>1, <2>7, <3>1
      <4> QED BY <1>2, <1>4, <2>7, <3>1, <4>1 DEF ChainOK, MajorsOrdered
    <3>2. CASE j = H + 1 /\ i \in 1..H
      <4>1. chain[i].major <= chain[H].major
        BY <1>1, <1>4, <2>1, <3>2 DEF ChainOK, MajorsOrdered
      <4>2. chain[i].major \in Nat
        <5>1. chain[i] \in Block
          BY <1>1, <3>2
        <5> QED BY <5>1 DEF Block
      <4> QED BY <1>2, <1>5, <2>4, <3>2, <4>1, <4>2
    <3>3. CASE j = H + 1 /\ i = H + 1
      BY <1>1, <1>2, <1>5, <2>4, <3>3
    <3> QED BY <1>1, <2>7, <3>1, <3>2, <3>3
  <2>8. MajorsOrdered'
    BY <1>3, <2>1, <2>7 DEF MajorsOrdered
  <2>9. ASSUME NEW h \in 1..H
        PROVE  CheckAgainst(ForkInForce(d, h), d[h + 1])
    <3>1. ForkInForce(chain, h) = ForkInForce(d, h)
      <4>1. h \in 1..Len(chain) /\ h <= Len(d) /\ \A i \in 1..h : chain[i] = d[i]
        BY <1>1, <1>2
      <4> QED BY <1>1, <1>2, <4>1, ForkInForcePrefix
    <3>2. CASE h = H
      BY <1>2, <1>5, <3>1, <3>2
    <3>3. CASE h # H
      <4>1. h \in 1..(Height - 1) /\ h + 1 \in 1..H
        BY <1>1, <2>1, <3>3
      <4>2. CheckAgainst(ForkInForce(chain, h), chain[h + 1])
        BY <1>4, <4>1 DEF ChainOK, BlocksFollowForks
      <4> QED BY <1>2, <3>1, <4>1, <4>2
    <3> QED BY <3>2, <3>3
  <2>10. BlocksFollowForks'
    <3>1. Height' - 1 = H
      BY <1>1, <2>1
    <3> QED BY <1>3, <2>9, <3>1 DEF BlocksFollowForks
  <2> QED BY <1>2, <1>3, <2>2, <2>3, <2>6, <2>8, <2>10 DEF ChainOK
<1>10. hf_versions' = [hf_versions EXCEPT ![H] = b.major]
  BY <1>3, <1>5 DEF set_hard_fork_version, get_current_version
<1>11. Recorded'
  <2>1. Height' - 1 = H /\ Height - 1 = H - 1
    BY <1>1, <1>2, <1>3 DEF Height
  <2>2. hf_versions \in [0..MaxHeight -> 0..MaxVersion] /\ H \in 0..MaxHeight
    BY <1>1, <1>4 DEF StateOK
  <2>3. ASSUME NEW h \in 0..H PROVE hf_versions'[h] = d[h + 1].major
    <3>1. CASE h = H
      BY <1>2, <1>10, <2>2, <3>1
    <3>2. CASE h # H
      <4>1. h \in 0..(Height - 1) /\ h + 1 \in 1..H /\ h \in 0..MaxHeight
        BY <1>1, <2>1, <3>2
      <4> QED BY <1>2, <1>4, <1>10, <2>2, <3>2, <4>1 DEF Recorded
    <3> QED BY <3>1, <3>2
  <2> QED BY <1>3, <2>1, <2>3 DEF Recorded
<1>12. StateOK'
  <2>1. Forks[k].version \in 0..MaxVersion
    BY <1>5, ForkTable DEF VersionNumbers
  <2>2. hf_versions' \in [0..MaxHeight -> 0..MaxVersion]
    BY Zenon, <1>4, <1>5, <1>10, <2>1 DEF StateOK
  <2>3. H + 1 \in 0..Len(d)
    BY <1>1, <1>2
  <2>4. hf' \in HfState /\ Len(hf'.versions) <= WindowSize
    BY Zenon, <1>2, <1>7, <2>3, CountsBounded DEF Counts
  <2> QED BY <1>3, <1>4, <2>2, <2>4 DEF StateOK
<1>13. PhaseOK'
  BY <1>3, <1>8, <1>11 DEF PhaseOK
<1> QED BY <1>9, <1>12, <1>13 DEF IInv

\* A shorter chain keeps what the blocks say of each other.
LEMMA PrefixOK ==
  ASSUME ChainOK, chain' = SubSeq(chain, 1, Len(chain) - 1), Len(chain) > 1
  PROVE  /\ ChainOK' /\ Height' = Height - 1
         /\ \A i \in 1..Height' : i \in 1..Height /\ chain'[i] = chain[i]
<1> DEFINE d == SubSeq(chain, 1, Len(chain) - 1)
           H == Len(chain)
<1>1. chain \in Seq(Block) /\ H \in 1..MaxHeight /\ H \in Nat /\ chain[1] = Genesis
  BY DEF ChainOK, Height
<1>2. d \in Seq(Block) /\ Len(d) = H - 1 /\ \A i \in 1..(H - 1) : d[i] = chain[i]
  BY <1>1
<1>3. chain' = d /\ Height' = H - 1 /\ Height = H
  BY <1>2 DEF Height
<1> HIDE DEF d
<1>4. \A i \in 1..Height' : i \in 1..Height /\ chain'[i] = chain[i]
  BY <1>1, <1>2, <1>3
<1>5. Height' \in 1..MaxHeight /\ chain'[1] = Genesis /\ chain' \in Seq(Block)
  BY <1>1, <1>2, <1>3, MaxHeightAssumption
<1>6. MajorsInTable'
  BY Zenon, <1>4 DEF MajorsInTable, ChainOK
<1>7. MajorsOrdered'
  BY Zenon, <1>4 DEF MajorsOrdered, ChainOK
<1>8. BlocksFollowForks'
  <2>1. ASSUME NEW h \in 1..(Height' - 1)
        PROVE  CheckAgainst(ForkInForce(d, h), d[h + 1])
    <3>1. h \in 1..(Height - 1) /\ h \in 1..Len(chain) /\ h <= Len(d) /\ h + 1 \in 1..(H - 1)
      BY <1>1, <1>2, <1>3
    <3>2. \A i \in 1..h : chain[i] = d[i]
      BY <1>1, <1>2, <3>1
    <3>3. ForkInForce(chain, h) = ForkInForce(d, h)
      BY <1>1, <1>2, <3>1, <3>2, ForkInForcePrefix
    <3> QED BY <1>2, <3>1, <3>3 DEF ChainOK, BlocksFollowForks
  <2> QED BY Zenon, <1>3, <2>1 DEF BlocksFollowForks
<1> QED BY <1>3, <1>4, <1>5, <1>6, <1>7, <1>8 DEF ChainOK

\* After a pop the fork index may be too high for the chain, never too low.
LEMMA PopBlockStep ==
  ASSUME IInv, PopBlock
  PROVE  IInv'
<1>1. ChainOK /\ StateOK /\ PhaseOK
  BY DEF IInv
<1>2. /\ ChainOK' /\ Height' = Height - 1
      /\ \A i \in 1..Height' : i \in 1..Height /\ chain'[i] = chain[i]
  BY Zenon, <1>1, PrefixOK DEF PopBlock
<1>3. Recorded /\ \A i \in 1..Height : chain[i].major <= get_current_version(hf)
  <2>1. CASE pc = "ready"
    BY <1>1, <2>1, ReadyAboveAll DEF PhaseOK
  <2>2. CASE pc = "popped"
    BY <1>1, <2>2 DEF PhaseOK
  <2> QED BY <2>1, <2>2 DEF PopBlock
<1>4. UNCHANGED <<hf_versions, hf, at>> /\ pc' = "popped"
  BY DEF PopBlock
<1>5. StateOK'
  BY <1>1, <1>4 DEF StateOK, Phases
<1>6. Recorded'
  <2>1. Height \in Nat
    BY <1>1 DEF ChainOK
  <2>2. \A h \in 0..(Height' - 1) : h \in 0..(Height - 1) /\ h + 1 \in 1..Height'
    BY <1>2, <2>1
  <2> QED BY <1>2, <1>3, <1>4, <2>2 DEF Recorded
<1>7. PhaseOK'
  <2>1. \A i \in 1..Height' : chain'[i].major <= get_current_version(hf)'
    BY <1>2, <1>3, <1>4 DEF get_current_version
  <2> QED BY <1>4, <1>6, <2>1 DEF PhaseOK
<1> QED BY <1>2, <1>5, <1>7 DEF IInv

\* Recounting below height h from the fork of the block under it gives the object
\* that the blocks below h determine.
LEMMA RecountUpToDate ==
  ASSUME ChainOK, NEW h \in 1..Height
  PROVE  LET y == Recount(chain, h, ForkOf(chain[h].major))
         IN  /\ Counts(y, chain, h)
             /\ y.current_fork_index = ForkInForce(chain, h)
             /\ Len(y.versions) <= WindowSize
<1>1. chain \in Seq(Block) /\ h \in 0..Len(chain)
  BY DEF ChainOK, Height
<1>2. ForkOf(chain[h].major) \in ForkIndices
  BY ForkOfBlock
<1> QED BY <1>1, <1>2, RecountCounts, CountsBounded DEF ForkInForce

\* The start of a reorganisation, from any fork index that is not too low.
LEMMA ReorganizeUpToDate ==
  ASSUME ChainOK, NEW h \in 1..Height, NEW x, NEW t,
         x.current_fork_index \in ForkIndices,
         chain[h].major <= Forks[x.current_fork_index].version,
         h = 1 \/ t[h - 1] = chain[h].major
  PROVE  LET y == reorganize(x, chain, t, h)
         IN  /\ Counts(y, chain, h)
             /\ y.current_fork_index = ForkInForce(chain, h)
             /\ Len(y.versions) <= WindowSize
<1> DEFINE start_version == IF h = 1 THEN original_version ELSE t[h - 1]
           k == ForkOf(chain[h].major)
           cur == x.current_fork_index
<1>1. k \in ForkIndices /\ Forks[k].version = chain[h].major
  BY ForkOfBlock
<1>2. start_version = Forks[k].version
  BY <1>1, GenesisFacts DEF ChainOK, original_version
<1>3. k <= cur
  BY <1>1, ForkTable
<1>4. Max({n \in 1..cur : n = 1 \/ Forks[n].version <= start_version}) = k
  BY <1>1, <1>2, <1>3, LoweredFork
<1>5. reorganize(x, chain, t, h) = Recount(chain, h, k)
  BY <1>4 DEF reorganize
<1> QED BY <1>5, RecountUpToDate

LEMMA ReorganizeStep ==
  ASSUME IInv, NEW h \in 1..MaxHeight, Reorganize(h)
  PROVE  IInv'
<1>1. ChainOK /\ StateOK /\ PhaseOK /\ h \in 1..Height
  BY DEF IInv, Reorganize, Height
<1>2. Recorded /\ \A i \in 1..Height : chain[i].major <= get_current_version(hf)
  <2>1. CASE pc = "ready"
    BY <1>1, <2>1, ReadyAboveAll DEF PhaseOK
  <2>2. CASE pc = "popped"
    BY <1>1, <2>2 DEF PhaseOK
  <2> QED BY <2>1, <2>2 DEF Reorganize
<1>3. /\ UNCHANGED <<chain, hf_versions>> /\ pc' = "replay" /\ at' = h
      /\ hf' = reorganize(hf, chain, hf_versions, h)
  BY DEF Reorganize
<1>4. /\ Counts(hf', chain, h) /\ hf'.current_fork_index = ForkInForce(chain, h)
      /\ Len(hf'.versions) <= WindowSize
  <2>1. hf.current_fork_index \in ForkIndices
    BY <1>1 DEF StateOK, HfState
  <2>2. h = 1 \/ hf_versions[h - 1] = chain[h].major
    <3>1. h - 1 \in 0..(Height - 1) /\ (h - 1) + 1 = h
      BY <1>1 DEF ChainOK
    <3> QED BY <1>2, <3>1 DEF Recorded
  <2>3. chain[h].major <= Forks[hf.current_fork_index].version
    BY <1>1, <1>2 DEF get_current_version
  <2> QED BY <1>1, <1>3, <2>1, <2>2, <2>3, ReorganizeUpToDate
<1>5. ChainOK' /\ Recorded' /\ Height' = Height
  BY <1>1, <1>2, <1>3 DEF ChainOK, Recorded, Height, MajorsInTable, MajorsOrdered, BlocksFollowForks
<1>6. StateOK'
  BY <1>1, <1>3, <1>4 DEF StateOK, Phases, Counts
<1>7. UpToDate(at)'
  BY <1>3, <1>4 DEF UpToDate
<1>8. at' <= Height'
  BY <1>1, <1>3, <1>5
<1>9. hf_versions'[0] # 0
  <2>1. 0 \in 0..(Height - 1) /\ 0 + 1 = 1
    BY <1>1 DEF ChainOK
  <2> QED BY <1>1, <1>2, <1>3, <2>1, GenesisFacts DEF Recorded, ChainOK
<1>10. PhaseOK'
  BY <1>3, <1>5, <1>7, <1>8, <1>9 DEF PhaseOK
<1> QED BY <1>5, <1>6, <1>10 DEF IInv

LEMMA ReplayAddStep ==
  ASSUME IInv, ReplayAdd
  PROVE  IInv'
<1> DEFINE b == chain[at + 1]
           k == hf.current_fork_index
<1>1. ChainOK /\ StateOK /\ PhaseOK
  BY DEF IInv
<1>2. /\ UNCHANGED <<chain, pc>> /\ pc = "replay" /\ at' = at + 1
      /\ hf' = add(hf, b, at) /\ hf_versions' = set_hard_fork_version(hf_versions, hf, b, at)
  BY DEF ReplayAdd
<1>3. /\ at \in 1..(Height - 1) /\ at \in 0..(Len(chain) - 1) /\ at + 1 \in 1..Height
      /\ at + 1 \in 0..Len(chain) /\ at \in Nat /\ Height \in Nat /\ Height <= MaxHeight
  BY <1>1, MaxHeightAssumption DEF ReplayAdd, StateOK, ChainOK, Height
<1>4. UpToDate(at) /\ chain \in Seq(Block)
  BY <1>1, <1>2 DEF PhaseOK, ChainOK
<1>5. check(hf, b) /\ b.major = Forks[k].version /\ k \in ForkIndices
  BY <1>1, <1>3, <1>4 DEF ChainOK, BlocksFollowForks, UpToDate, Counts, HfState, check, CheckAgainst
<1>6. ForkOf(b.major) = k
  BY <1>5, ForkOfVersion
<1>7. /\ Counts(hf', chain, at + 1)
      /\ hf'.current_fork_index = ForkInForce(chain, at + 1)
      /\ Len(hf'.versions) <= WindowSize
  <2>1. /\ Counts(hf', chain, at + 1)
        /\ hf'.current_fork_index =
             get_voted_fork_index(k, Histogram(WindowVotes(chain, at + 1)), at + 1)
    BY <1>2, <1>3, <1>4, <1>5, AddAdvances DEF UpToDate
  <2>2. hf'.current_fork_index = ForkInForce(chain, at + 1)
    BY <1>6, <2>1 DEF ForkInForce
  <2> QED BY <1>3, <1>4, <2>1, <2>2, CountsBounded
<1>8. hf_versions' = [hf_versions EXCEPT ![at] = b.major]
  BY <1>2, <1>5 DEF set_hard_fork_version, get_current_version
<1>9. ChainOK' /\ Height' = Height
  BY <1>1, <1>2 DEF ChainOK, Height, MajorsInTable, MajorsOrdered, BlocksFollowForks
<1>10. StateOK'
  <2>1. b.major \in 0..MaxVersion
    BY <1>5, ForkTable DEF VersionNumbers
  <2>2. hf_versions' \in [0..MaxHeight -> 0..MaxVersion]
    BY <1>1, <1>8, <2>1 DEF StateOK
  <2>3. at' \in 1..MaxHeight
    BY <1>2, <1>3, MaxHeightAssumption
  <2> QED BY Zenon, <1>1, <1>2, <1>7, <2>2, <2>3 DEF StateOK, Counts
<1>11. UpToDate(at)'
  BY <1>2, <1>7 DEF UpToDate
<1>12. at' <= Height'
  BY <1>2, <1>3, <1>9
<1>13. IF hf_versions'[0] = 0
       THEN \A h \in 1..(at' - 1) : hf_versions'[h] = chain'[h + 1].major
       ELSE Recorded'
  <2>1. hf_versions \in [0..MaxHeight -> 0..MaxVersion] /\ at \in 0..MaxHeight /\ 0 \in 0..MaxHeight
    BY <1>1, <1>3, MaxHeightAssumption DEF StateOK
  <2>2. hf_versions'[0] = hf_versions[0]
    BY <1>3, <1>8, <2>1
  <2>3. CASE hf_versions[0] = 0
    <3>1. ASSUME NEW h \in 1..at PROVE hf_versions'[h] = chain[h + 1].major
      <4>1. CASE h = at
        BY <1>8, <2>1, <4>1
      <4>2. CASE h # at
        <5>1. h \in 1..(at - 1) /\ h \in 0..MaxHeight
          BY <1>3, <4>2, MaxHeightAssumption
        <5> QED BY <1>1, <1>2, <1>8, <2>1, <2>3, <4>2, <5>1 DEF PhaseOK
      <4> QED BY <4>1, <4>2
    <3>2. at' - 1 = at
      BY <1>2, <1>3
    <3> QED BY <1>2, <2>2, <2>3, <3>1, <3>2
  <2>4. CASE hf_versions[0] # 0
    <3>1. Recorded
      BY <1>1, <1>2, <2>4 DEF PhaseOK
    <3>2. hf_versions[at] = b.major
      <4>1. at \in 0..(Height - 1)
        BY <1>3
      <4> QED BY <3>1, <4>1 DEF Recorded
    <3>3. hf_versions' = hf_versions
      BY <1>8, <2>1, <3>2
    <3> QED BY <1>2, <1>9, <2>2, <2>4, <3>1, <3>3 DEF Recorded
  <2> QED BY <2>3, <2>4
<1>14. PhaseOK'
  BY <1>2, <1>11, <1>12, <1>13 DEF PhaseOK
<1> QED BY <1>9, <1>10, <1>14 DEF IInv

LEMMA ReplayDoneStep ==
  ASSUME IInv, ReplayDone
  PROVE  IInv'
<1>1. ChainOK /\ StateOK /\ PhaseOK
  BY DEF IInv
<1>2. /\ UNCHANGED <<chain, hf, at>> /\ pc = "replay" /\ pc' = "ready"
      /\ hf_versions' = [hf_versions EXCEPT ![0] = original_version]
  BY DEF ReplayDone
<1>3. at = Height /\ Height \in Nat /\ Height >= 1
  BY <1>1, <1>2, MaxHeightAssumption DEF ReplayDone, ChainOK, StateOK, PhaseOK, Height
<1>4. ChainOK' /\ Height' = Height
  BY <1>1, <1>2 DEF ChainOK, Height, MajorsInTable, MajorsOrdered, BlocksFollowForks
<1>5. hf_versions \in [0..MaxHeight -> 0..MaxVersion] /\ 0 \in 0..MaxHeight
  BY <1>1, MaxHeightAssumption DEF StateOK
<1>6. StateOK'
  <2>1. original_version \in 0..MaxVersion
    BY ForkTable DEF VersionNumbers
  <2>2. hf_versions' \in [0..MaxHeight -> 0..MaxVersion]
    BY <1>2, <1>5, <2>1
  <2> QED BY <1>1, <1>2, <2>2 DEF StateOK, Phases
<1>7. Recorded'
  <2>1. ASSUME NEW h \in 0..(Height - 1) PROVE hf_versions'[h] = chain[h + 1].major
    <3>1. CASE h = 0
      BY <1>1, <1>2, <1>5, <3>1, GenesisFacts DEF ChainOK, original_version
    <3>2. CASE h # 0
      <4>1. h \in 1..(at - 1) /\ h \in 0..MaxHeight
        BY <1>1, <1>3, <3>2, MaxHeightAssumption DEF ChainOK
      <4>2. hf_versions[h] = chain[h + 1].major
        BY <1>1, <1>2, <4>1 DEF PhaseOK, Recorded
      <4> QED BY <1>2, <1>5, <3>2, <4>1, <4>2
    <3> QED BY <3>1, <3>2
  <2> QED BY <1>2, <1>4, <2>1 DEF Recorded
<1>8. UpToDate(Height)'
  BY <1>1, <1>2, <1>3, <1>4 DEF PhaseOK, UpToDate
<1>9. PhaseOK'
  BY <1>2, <1>7, <1>8 DEF PhaseOK
<1> QED BY <1>4, <1>6, <1>9 DEF IInv

LEMMA DropHardForkInfoStep ==
  ASSUME IInv, DropHardForkInfo
  PROVE  IInv'
<1>1. ChainOK /\ StateOK
  BY DEF IInv
<1>2. UNCHANGED <<chain, hf, at>> /\ pc' = "offline" /\ hf_versions' = NoVersions
  BY DEF DropHardForkInfo
<1>3. ChainOK'
  BY <1>1, <1>2 DEF ChainOK, Height, MajorsInTable, MajorsOrdered, BlocksFollowForks
<1>4. NoVersions \in [0..MaxHeight -> 0..MaxVersion] /\ NoVersions[0] = 0
  BY ForkTable, MaxHeightAssumption DEF NoVersions
<1>5. StateOK'
  BY <1>1, <1>2, <1>4 DEF StateOK, Phases
<1>6. PhaseOK'
  BY <1>2, <1>4 DEF PhaseOK
<1> QED BY <1>3, <1>5, <1>6 DEF IInv

\* Rescanning a table that records the versions gives the object that the chain
\* determines.
LEMMA RescanUpToDate ==
  ASSUME ChainOK, Recorded
  PROVE  LET y == rescan(chain, hf_versions)
         IN  /\ Counts(y, chain, Height)
             /\ y.current_fork_index = ForkInForce(chain, Height)
             /\ Len(y.versions) <= WindowSize
<1> DEFINE k == ForkOf(chain[Height].major)
           lastv == hf_versions[Len(chain) - 1]
<1>1. Height \in 1..Height /\ Height = Len(chain) /\ Height \in Nat
  BY DEF ChainOK, Height
<1>2. k \in ForkIndices /\ Forks[k].version = chain[Height].major
  BY <1>1, ForkOfBlock
<1>3. lastv = Forks[k].version
  <2>1. Height - 1 \in 0..(Height - 1) /\ (Height - 1) + 1 = Height
    BY <1>1
  <2> QED BY <1>1, <1>2, <2>1 DEF Recorded
<1>4. Min({n \in ForkIndices : n = Len(Forks) \/ Forks[n].version = lastv}) = k
  BY <1>2, <1>3, FoundFork
<1>5. rescan(chain, hf_versions) = Recount(chain, Height, k)
  BY <1>1, <1>4 DEF rescan
<1> QED BY <1>1, <1>5, RecountUpToDate

LEMMA RecordedUnlessDropped ==
  ASSUME IInv, hf_versions[0] # 0
  PROVE  Recorded
BY DEF IInv, PhaseOK, StateOK, Phases

LEMMA RestartStep ==
  ASSUME IInv, Restart
  PROVE  IInv'
<1>1. ChainOK /\ StateOK /\ PhaseOK /\ chain' = chain
  BY DEF IInv, Restart
<1>2. ChainOK' /\ Height' = Height
  BY <1>1 DEF ChainOK, Height, MajorsInTable, MajorsOrdered, BlocksFollowForks
<1>3. CASE hf_versions[0] = 0
  <2>1. /\ hf_versions' = NoVersions /\ at' = 1 /\ pc' = "replay"
        /\ hf' = reorganize(Fresh, chain, hf_versions, 1)
    BY <1>3 DEF Restart
  <2>2. NoVersions \in [0..MaxHeight -> 0..MaxVersion] /\ NoVersions[0] = 0
    BY ForkTable, MaxHeightAssumption DEF NoVersions
  <2>3. 1 \in 1..Height /\ 1 \in 1..MaxHeight /\ 1 <= Height
    BY <1>1, MaxHeightAssumption DEF ChainOK
  <2>4. /\ Fresh.current_fork_index \in ForkIndices
        /\ chain[1].major <= Forks[Fresh.current_fork_index].version
    <3>1. Fresh.current_fork_index = 1
      BY DEF Fresh
    <3>2. chain[1].major = Forks[1].version /\ Forks[1].version \in Nat
      BY <1>1, GenesisFacts, ForkTable DEF ChainOK
    <3> QED BY <3>1, <3>2, ForkTable
  <2>5. /\ Counts(hf', chain, 1) /\ hf'.current_fork_index = ForkInForce(chain, 1)
        /\ Len(hf'.versions) <= WindowSize
    BY <1>1, <2>1, <2>3, <2>4, ReorganizeUpToDate
  <2>6. StateOK'
    BY <2>1, <2>2, <2>3, <2>5 DEF StateOK, Phases, Counts
  <2>7. UpToDate(at)'
    BY <1>1, <2>1, <2>5 DEF UpToDate
  <2>8. \A h \in 1..(at' - 1) : hf_versions'[h] = chain'[h + 1].major
    BY <2>1
  <2>9. PhaseOK'
    BY <1>2, <2>1, <2>2, <2>3, <2>7, <2>8 DEF PhaseOK
  <2> QED BY <1>2, <2>6, <2>9 DEF IInv
<1>4. CASE hf_versions[0] # 0
  <2>1. /\ UNCHANGED <<hf_versions, at>> /\ pc' = "ready"
        /\ hf' = rescan(chain, hf_versions)
    BY <1>4 DEF Restart
  <2>2. Recorded
    BY <1>4, RecordedUnlessDropped
  <2>3. /\ Counts(hf', chain, Height) /\ hf'.current_fork_index = ForkInForce(chain, Height)
        /\ Len(hf'.versions) <= WindowSize
    BY <1>1, <2>1, <2>2, RescanUpToDate
  <2>4. StateOK'
    BY <1>1, <2>1, <2>3 DEF StateOK, Phases, Counts
  <2>5. UpToDate(Height)'
    BY <1>1, <1>2, <2>3 DEF UpToDate
  <2>6. Recorded'
    BY <1>1, <1>2, <2>1, <2>2 DEF Recorded
  <2>7. PhaseOK'
    BY <2>1, <2>5, <2>6 DEF PhaseOK
  <2> QED BY <1>2, <2>4, <2>7 DEF IInv
<1> QED BY <1>3, <1>4

LEMMA StutterStep ==
  ASSUME IInv, UNCHANGED vars
  PROVE  IInv'
<1>1. chain' = chain /\ hf_versions' = hf_versions /\ hf' = hf /\ pc' = pc /\ at' = at
  BY DEF vars
<1>2. ChainOK' /\ Height' = Height
  BY <1>1 DEF IInv, ChainOK, Height, MajorsInTable, MajorsOrdered, BlocksFollowForks
<1>3. StateOK'
  BY <1>1 DEF IInv, StateOK
<1>4. PhaseOK'
  BY <1>1, <1>2 DEF IInv, PhaseOK, UpToDate, Recorded, get_current_version
<1> QED BY <1>2, <1>3, <1>4 DEF IInv

-----------------------------------------------------------------------------
(* Theorems *)

\* The inductive invariant holds in every reachable state of HardFork.
THEOREM Invariance == Spec => []IInv
<1>1. Init => IInv
  BY InitIInv
<1>2. IInv /\ [Next]_vars => IInv'
  <2> SUFFICES ASSUME IInv, [Next]_vars PROVE IInv'
    OBVIOUS
  <2>1. CASE \E b \in [major : Majors, minor : Minors] : AddBlock(b)
    BY <2>1, AddBlockStep
  <2>2. CASE PopBlock
    BY <2>2, PopBlockStep
  <2>3. CASE \E h \in 1..MaxHeight : Reorganize(h)
    BY <2>3, ReorganizeStep
  <2>4. CASE ReplayAdd
    BY <2>4, ReplayAddStep
  <2>5. CASE ReplayDone
    BY <2>5, ReplayDoneStep
  <2>6. CASE DropHardForkInfo
    BY <2>6, DropHardForkInfoStep
  <2>7. CASE Restart
    BY <2>7, RestartStep
  <2>8. CASE UNCHANGED vars
    BY <2>8, StutterStep
  <2> QED BY <2>1, <2>2, <2>3, <2>4, <2>5, <2>6, <2>7, <2>8 DEF Next
<1> QED BY <1>1, <1>2, PTL DEF Spec

\* The members and tables of the hard fork code keep their shape.
THEOREM TypeCorrect == Spec => []TypeOK
<1>1. IInv => TypeOK
  BY DEF IInv, ChainOK, StateOK, TypeOK
<1> QED BY <1>1, Invariance, PTL

\* A node's window holds exactly the last votes of its chain, whatever pops,
\* reorganisations, repopulations and restarts it went through.
THEOREM WindowCorrect == Spec => []WindowIsLastVotes
<1>1. IInv => WindowIsLastVotes
  BY DEF IInv, PhaseOK, UpToDate, Counts, WindowIsLastVotes
<1> QED BY <1>1, Invariance, PTL

\* Nodes with the same chain agree on the version of the next block.
THEOREM ForkAgreement == Spec => []CurrentForkIsVoted
<1>1. IInv => CurrentForkIsVoted
  BY DEF IInv, PhaseOK, UpToDate, CurrentForkIsVoted
<1> QED BY <1>1, Invariance, PTL

\* Every block on the chain has the version of the fork in force at its height, so
\* a replay of the chain refuses none.
THEOREM ChainFollowsForks == Spec => [](BlocksFollowForks /\ ReplayAccepts)
<1>1. IInv => BlocksFollowForks
  BY DEF IInv, ChainOK
<1>2. IInv => ReplayAccepts
  <2> SUFFICES ASSUME IInv, pc = "replay", at < Height PROVE check(hf, chain[at + 1])
    BY DEF ReplayAccepts
  <2>1. at \in 1..(Height - 1)
    BY MaxHeightAssumption DEF IInv, StateOK, ChainOK
  <2> QED BY <2>1 DEF IInv, ChainOK, PhaseOK, BlocksFollowForks, UpToDate, check
<1> QED BY <1>1, <1>2, Invariance, PTL

\* The database records for every block the version it was accepted with.
THEOREM RecordCorrect == Spec => []VersionsRecorded
<1>1. IInv => VersionsRecorded
  BY DEF IInv, PhaseOK, Recorded, VersionsRecorded
<1> QED BY <1>1, Invariance, PTL

\* No block carries a version before the height that version is scheduled for, and
\* versions never go down along the chain.
THEOREM ScheduleRespected == Spec => []NoEarlyFork
<1>1. IInv => NoEarlyFork
  <2> SUFFICES ASSUME IInv, NEW h \in 1..(Height - 1)
               PROVE  /\ chain[h].major <= chain[h + 1].major
                      /\ chain[h + 1].major <= get_ideal_version(h)
    BY DEF NoEarlyFork
  <2>1. ChainOK /\ h \in 1..Height /\ h + 1 \in 1..Height /\ h <= h + 1 /\ (h + 1) - 1 = h
    BY DEF IInv, ChainOK
  <2>2. chain[h].major <= chain[h + 1].major
    BY <2>1 DEF ChainOK, MajorsOrdered
  <2>3. PICK n \in ForkIndices : /\ chain[h + 1].major = Forks[n].version
                                 /\ n = 1 \/ h >= Forks[n].height
    BY <2>1 DEF ChainOK, MajorsInTable
  <2> DEFINE S == {m \in ForkIndices : m = 1 \/ h >= Forks[m].height}
  <2>4. S \in SUBSET (1..Len(Forks)) /\ n \in S /\ 1 \in Int /\ Len(Forks) \in Int
    BY <2>3, ForkTable DEF ForkIndices
  <2> HIDE DEF S
  <2>5. Max(S) \in S /\ Max(S) >= n
    BY Zenon, <2>4, MaxInSet
  <2>6. Max(S) \in ForkIndices
    BY Zenon, <2>4, <2>5 DEF ForkIndices
  <2>7. Forks[n].version <= Forks[Max(S)].version
    BY <2>5, <2>6, ForkTable DEF ForkIndices
  <2>8. get_ideal_version(h) = Forks[Max(S)].version
    BY DEF get_ideal_version, S
  <2> QED BY <2>2, <2>3, <2>7, <2>8
<1> QED BY <1>1, Invariance, PTL

\* A restart of an up-to-date node rebuilds the object it had.
THEOREM RestartIdentity == Spec => RestartChangesNothing
<1>1. IInv /\ [Next]_vars => [pc = "ready" /\ Restart => UNCHANGED hf]_vars
  <2> SUFFICES ASSUME IInv, pc = "ready", Restart PROVE hf' = hf
    OBVIOUS
  <2>1. ChainOK /\ StateOK /\ UpToDate(Height) /\ Recorded
    BY DEF IInv, PhaseOK
  <2>2. hf_versions[0] # 0
    <3>1. 0 \in 0..(Height - 1) /\ 0 + 1 = 1
      BY <2>1 DEF ChainOK
    <3> QED BY <2>1, <3>1, GenesisFacts DEF Recorded, ChainOK
  <2>3. hf' = rescan(chain, hf_versions)
    BY <2>2 DEF Restart
  <2>4. Counts(hf', chain, Height) /\ hf'.current_fork_index = ForkInForce(chain, Height)
    BY <2>1, <2>3, RescanUpToDate
  <2>5. hf \in HfState /\ hf' \in HfState
    BY <2>1, <2>4 DEF UpToDate, Counts
  <2>6. /\ hf.versions = hf'.versions /\ hf.last_versions = hf'.last_versions
        /\ hf.current_fork_index = hf'.current_fork_index
    BY <2>1, <2>4 DEF UpToDate, Counts
  <2> QED BY <2>5, <2>6 DEF HfState
<1> QED BY <1>1, Invariance, PTL DEF Spec, RestartChangesNothing

=============================================================================
