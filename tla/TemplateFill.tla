---------------------------- MODULE TemplateFill ----------------------------
(***************************************************************************)
(* tx_memory_pool::fill_block_template, one turn of its loop per step: a   *)
(* greedy choice of transactions by fee that weighs each fee against the   *)
(* penalty for a large block, and a second pass over the non-private ones  *)
(* (ring size 1), which may take the place of private ones.                *)
(*                                                                         *)
(* All transactions here are ready to go; TxPool has the others.           *)
(***************************************************************************)
EXTENDS Integers, FiniteSets, FiniteSetsExt, SequencesExt

CONSTANTS
  Pools,      \* sequences of [weight, fee, ring, image], by fee per weight
  Versions,   \* hard fork versions
  Median,     \* median_weight, not below the full reward zone
  Reserved,   \* CRYPTONOTE_COINBASE_BLOB_RESERVED_SIZE
  BaseReward,
  FloatBits,  \* significant bits of a float, 24
  Percent     \* NOFAKE_TXS_TO_TOTAL_TXS_PERCENT

ASSUME FillAssumption ==
  /\ Versions \subseteq Nat /\ Median \in Nat \ {0} /\ Reserved \in 0..Median
  /\ BaseReward \in Nat /\ FloatBits \in Nat \ {0} /\ Percent \in 0..100
  /\ \A p \in Pools : \A i \in DOMAIN p : p[i].weight \in Nat \ {0} /\ p[i].fee \in Nat

VARIABLES
  version,
  txs,    \* the pool
  pos,    \* sorted_it
  second, \* second_pass
  done,
  b       \* [hashes, n, in_pool, taken, weight, fee, coinbase, best, images]: the block's
          \* transactions and the counters beside them

vars == <<version, txs, pos, second, done, b>>

-----------------------------------------------------------------------------
(* Rewards and limits *)

rational_ceil(p, q) == p \div q + (IF p % q = 0 THEN 0 ELSE 1)

TooLarge == -1

\* get_block_reward: the penalty sets in above the median and forbids twice of it.
get_block_reward(weight) ==
  IF weight <= Median THEN BaseReward
  ELSE IF weight > 2 * Median THEN TooLarge
  ELSE ((BaseReward * ((2 * Median - weight) * weight)) \div Median) \div Median

max_total_weight == (IF version >= 5 THEN 2 * Median ELSE (130 * Median) \div 100) - Reserved

\* The amount times 1.0f: rounded to the nearest float, a tie to the even one.
template_accept_threshold(amount) ==
  LET ulp == 2^(CHOOSE k \in 0..64 : /\ amount < 2^(FloatBits + k)
                                     /\ k = 0 \/ amount >= 2^(FloatBits + k - 1))
      q == amount \div ulp
      r == amount % ulp
  IN  ulp * (q + IF 2 * r > ulp \/ (2 * r = ulp /\ q % 2 = 1) THEN 1 ELSE 0)

\* The coinbase with some weight and fees, if it is allowed and not below the best.
Worth(weight, fee) ==
  /\ get_block_reward(weight) # TooLarge
  /\ get_block_reward(weight) + fee >= template_accept_threshold(b.best)

-----------------------------------------------------------------------------
(* The turns of the loop *)

Init ==
  /\ version \in Versions /\ txs \in Pools
  /\ pos = 1 /\ second = FALSE /\ done = FALSE
  /\ b = [hashes |-> <<>>, n |-> 0, in_pool |-> 0, taken |-> 0, weight |-> 0, fee |-> 0,
          coinbase |-> 0, best |-> get_block_reward(0), images |-> {}]

t == txs[pos]

Fits == b.weight + t.weight <= max_total_weight

\* is_nofake_tx: ring size 1, and the inputs could have been mixed.
NoFake == version >= 2 /\ t.ring = 1

\* From version 5 on the first pass stops at a lower coinbase.
GoodFee == version >= 5 /\ ~second => Worth(b.weight + t.weight, b.fee + t.fee)

\* Transactions with few ring members: ring size 2 never, and before version 2 only as
\* the first transaction.
AllowedRing == IF version >= 2 THEN t.ring # 2 ELSE b.n = 0 \/ t.ring >= 3

CanAdd ==
  /\ b.taken + 1 <= rational_ceil((b.n + 1) * Percent, 100)
  /\ Worth(b.weight + t.weight, b.fee + t.fee)

CanReplace ==
  /\ b.n > b.taken
  /\ b.taken + 1 <= rational_ceil(b.n * Percent, 100)
  /\ Worth(b.weight + t.weight - txs[Last(b.hashes)].weight,
           b.fee + t.fee - txs[Last(b.hashes)].fee)

\* Before version 5 the loop ends above the median.
OverMedian == version < 5 /\ b.weight > Median

\* The checks on t after which it is looked at closely.
Considered == ~done /\ pos <= Len(txs) /\ Fits /\ ~OverMedian /\ GoodFee /\ AllowedRing

Unseen == t.image \notin b.images

Reward(weight, fee) == get_block_reward(weight) + fee

\* The block with t taken in.
Take(hashes, weight, fee, coinbase) ==
  [b EXCEPT !.hashes = hashes, !.n = @ + 1, !.weight = weight, !.fee = fee,
            !.coinbase = coinbase, !.best = coinbase, !.images = @ \cup {t.image}]

Advance == pos' = pos + 1 /\ UNCHANGED <<version, txs, second, done>>

\* A private transaction goes to the back.  Before version 5 nothing sets coinbase.
AddPrivate ==
  /\ Considered /\ Unseen /\ ~NoFake /\ ~second
  /\ LET weight == b.weight + t.weight
         fee == b.fee + t.fee
     IN  b' = Take(Append(b.hashes, pos), weight, fee,
                   IF version >= 5 THEN Reward(weight, fee) ELSE b.coinbase)
  /\ Advance

\* A non-private one goes to the front, in the second pass.
AddNoFake ==
  /\ Considered /\ Unseen /\ NoFake /\ second /\ CanAdd
  /\ LET weight == b.weight + t.weight
         fee == b.fee + t.fee
     IN  b' = [Take(<<pos>> \o b.hashes, weight, fee, Reward(weight, fee))
                 EXCEPT !.taken = b.taken + 1]
  /\ Advance

\* Mutant: the fee of the one that goes is kept.
ReplaceKeepingFee ==
  /\ Considered /\ Unseen /\ NoFake /\ second /\ ~CanAdd /\ CanReplace
  /\ LET weight == b.weight + t.weight - txs[Last(b.hashes)].weight
         fee == b.fee + t.fee
     IN  b' = [Take(<<pos>> \o Front(b.hashes), weight, fee, Reward(weight, fee))
                 EXCEPT !.taken = b.taken + 1]
  /\ Advance

\* Or it takes the place of the last; the number of transactions goes up all the same.
ReplaceByNoFake ==
  /\ Considered /\ Unseen /\ NoFake /\ second /\ ~CanAdd /\ CanReplace
  /\ LET out == txs[Last(b.hashes)]
         weight == b.weight + t.weight - out.weight
         fee == b.fee + t.fee - out.fee
     IN  b' = [Take(<<pos>> \o Front(b.hashes), weight, fee, Reward(weight, fee))
                 EXCEPT !.taken = b.taken + 1]
  /\ Advance

\* The first pass leaves the non-private ones to the second.
LeaveToSecond ==
  /\ Considered /\ NoFake /\ ~second
  /\ b' = [b EXCEPT !.in_pool = @ + 1]
  /\ Advance

Skip ==
  /\ ~done /\ pos <= Len(txs) /\ ~(Fits /\ OverMedian)
  /\ \/ ~Considered
     \/ ~NoFake /\ (second \/ ~Unseen)
     \/ NoFake /\ second /\ ((~CanAdd /\ ~CanReplace) \/ ~Unseen)
  /\ UNCHANGED b
  /\ Advance

Break ==
  /\ ~done /\ pos <= Len(txs) /\ Fits /\ OverMedian
  /\ done' = TRUE
  /\ UNCHANGED <<version, txs, pos, second, b>>

EndOfPass ==
  /\ ~done /\ pos > Len(txs)
  /\ IF b.in_pool = 0 \/ second
     THEN done' = TRUE /\ UNCHANGED <<pos, second>>
     ELSE second' = TRUE /\ pos' = 1 /\ UNCHANGED done
  /\ UNCHANGED <<version, txs, b>>

Next ==
  \/ AddPrivate \/ AddNoFake \/ ReplaceByNoFake \/ LeaveToSecond \/ Skip \/ Break \/ EndOfPass

Spec == Init /\ [][Next]_vars /\ WF_vars(Next)

-----------------------------------------------------------------------------
(* Properties *)

\* Whoever validates the block counts its transactions anew.
Sum(f(_)) == FoldLeft(LAMBDA sum, i : sum + f(txs[i]), 0, b.hashes)

Counted == Reward(Sum(LAMBDA x : x.weight), Sum(LAMBDA x : x.fee))

\* After all additions and replacements the totals kept beside the block are still those
\* of its transactions: counted anew they fit into a block, spend nothing twice, and, from
\* the version on whose filling computes it, bring the reward that was announced.
BlockAddsUp ==
  done => /\ Sum(LAMBDA x : x.weight) <= max_total_weight
          /\ \A i, j \in DOMAIN b.hashes : i # j => txs[b.hashes[i]].image # txs[b.hashes[j]].image
          /\ version >= 5 => b.best = Counted

\* The answer is "the total reward awarded to the miner finding this block, including
\* transaction fees", in every version.  It does not hold: see README.md.
ExpectedReward == done => b.best = Counted

\* "from v7, limit the ratio of non-private txes": a block with the template's
\* transactions passes that check. It does not hold: see README.md.
RatioRespected ==
  done /\ version >= 7 => Cardinality({i \in DOMAIN b.hashes : txs[b.hashes[i]].ring = 1})
            <= rational_ceil(Len(b.hashes) * Percent, 100)

=============================================================================
