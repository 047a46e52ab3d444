---------------------------- MODULE Distribution ----------------------------
(***************************************************************************)
(* Distributions, daemon/distribution.c, and what the value cache makes of *)
(* them in uc_insert and uc_update_metric: a plugin adds values to a       *)
(* distribution and may reset it, the cache gets clones of it and keeps    *)
(* the last one and the increase since the one before.                     *)
(*                                                                         *)
(* The buckets are the leaves of a binary tree whose nodes are laid out in *)
(* an array along an Euler path.  A tree is a function from array indices  *)
(* to [bucket_counter, maximum].  Counters are modulo Wrap.  Gauges are    *)
(* integers and bucket i is [i, i + 1), the last one unbounded.  The sums  *)
(* of values and squares follow the counters and are left out, and so is   *)
(* start_value, which nothing else here reads.  All distributions of the   *)
(* metric have the same buckets, as the code expects of a plugin:          *)
(* distribution_cmp never returns EINVAL, and uc_update_metric never fails *)
(* with it.                                                                *)
(***************************************************************************)
EXTENDS Integers, Sequences, FiniteSetsExt, TLC

CONSTANTS
  NumBuckets,
  Gauges,         \* the values that can be added
  Infinity,       \* above every gauge
  Percents,       \* the percentiles that are asked for
  Wrap,           \* the number of values of a uint64_t
  MaxUpdates,     \* bound on the values between two resets
  NoDistribution  \* NULL

VARIABLES
  dist,           \* the distribution of the plugin
  seen,           \* the values added to it since its last reset, by bucket
  raw,            \* ce->values_raw.value.distribution
  increase,       \* ce->distribution_increase
  fresh,          \* values added since the cache was told, by bucket
  resetSince,     \* distribution_reset was called since then
  expected        \* `fresh' when the cache was told last; NoDistribution
                  \* if there was a reset that the counters do not show

distvars == <<dist, seen, raw, increase, fresh, resetSince, expected>>

Indices == 0..NumBuckets - 1
Maximum(i) == IF i = NumBuckets - 1 THEN Infinity ELSE i + 1

left_child_index(node) == node + 1
right_child_index(node, left, right) == node + 2 * ((left + right) \div 2 - left + 1)

merge_buckets(l, r) ==
  [bucket_counter |-> l.bucket_counter + r.bucket_counter, maximum |-> r.maximum]

RECURSIVE build_tree(_, _, _)
build_tree(node, left, right) ==
  IF left = right THEN node :> [bucket_counter |-> 0, maximum |-> Maximum(left)]
  ELSE LET mid == (left + right) \div 2
           lc == left_child_index(node)
           rc == right_child_index(node, left, right)
           sub == build_tree(lc, left, mid) @@ build_tree(rc, mid + 1, right)
       IN  (node :> merge_buckets(sub[lc], sub[rc])) @@ sub

Bump(tree, node) ==
  [tree EXCEPT ![node].bucket_counter = (@ + 1) % Wrap]

\* Mutant: a gauge that equals the upper bound goes into the lower bucket.
RECURSIVE UpdateInclusive(_, _, _, _, _)
UpdateInclusive(tree, node, left, right, gauge) ==
  LET t == Bump(tree, node)
      mid == (left + right) \div 2
      lc == left_child_index(node)
  IN  IF left = right THEN t
      ELSE IF t[lc].maximum >= gauge THEN UpdateInclusive(t, lc, left, mid, gauge)
      ELSE UpdateInclusive(t, right_child_index(node, left, right), mid + 1, right, gauge)

RECURSIVE update_tree(_, _, _, _, _)
update_tree(tree, node, left, right, gauge) ==
  LET t == Bump(tree, node)
      mid == (left + right) \div 2
      lc == left_child_index(node)
  IN  IF left = right THEN t
      ELSE IF t[lc].maximum > gauge THEN update_tree(t, lc, left, mid, gauge)
      ELSE update_tree(t, right_child_index(node, left, right), mid + 1, right, gauge)

RECURSIVE tree_get_counter(_, _, _, _, _)
tree_get_counter(tree, node, left, right, counter) ==
  LET mid == (left + right) \div 2
      lc == left_child_index(node)
      below == tree[lc].bucket_counter
  IN  IF left = right THEN tree[node].maximum
      ELSE IF below >= counter THEN tree_get_counter(tree, lc, left, mid, counter)
      ELSE tree_get_counter(tree, right_child_index(node, left, right), mid + 1,
                            right, counter - below)

CeilPercent(n, percent) == (n * percent + 99) \div 100

distribution_percentile(tree, percent) ==
  tree_get_counter(tree, 0, 0, NumBuckets - 1, CeilPercent(tree[0].bucket_counter, percent))

RECURSIVE tree_write_leave_buckets(_, _, _, _)
tree_write_leave_buckets(tree, node, left, right) ==
  IF left = right THEN left :> tree[node].bucket_counter
  ELSE LET mid == (left + right) \div 2
       IN  tree_write_leave_buckets(tree, left_child_index(node), left, mid)
             @@ tree_write_leave_buckets(tree, right_child_index(node, left, right),
                                         mid + 1, right)

get_buckets(tree) == tree_write_leave_buckets(tree, 0, 0, NumBuckets - 1)

-----------------------------------------------------------------------------
compare_uint64(a, b) == IF a = b THEN 0 ELSE IF a < b THEN -1 ELSE 1

(* distribution_cmp of two distributions that were created in the same way *)
distribution_cmp(d1, d2) ==
  LET cmp(i) == compare_uint64(d1[i].bucket_counter, d2[i].bucket_counter)
  IN  [status |-> IF \E i \in DOMAIN d1 : cmp(i) \notin {0, cmp(0)} THEN "ERANGE" ELSE "OK",
       result |-> cmp(0)]

(* distribution_sub.  distribution_cmp is told to store its result in
   cmp_status, which its return value then replaces; cmp_result stays 0. *)
distribution_sub(d1, d2) ==
  LET cmp_result == 0
      cmp_status == distribution_cmp(d1, d2).status
  IN  IF cmp_status # "OK" \/ cmp_result = -1
      THEN [status |-> IF cmp_result = -1 THEN "ERANGE" ELSE cmp_status, d1 |-> d1]
      ELSE [status |-> "OK",
            d1 |-> [i \in DOMAIN d1 |->
                      [d1[i] EXCEPT !.bucket_counter = (@ - d2[i].bucket_counter) % Wrap]]]

-----------------------------------------------------------------------------
None == [i \in Indices |-> 0]

DistInit ==
  /\ dist = build_tree(0, 0, NumBuckets - 1) /\ seen = None
  /\ raw = NoDistribution /\ increase = NoDistribution
  /\ fresh = None /\ resetSince = FALSE /\ expected = NoDistribution

(* The bucket of a gauge, as distribution.h describes it *)
BucketOf(gauge) == Min({i \in Indices : gauge < Maximum(i)})

distribution_update(gauge) ==
  /\ dist[0].bucket_counter < MaxUpdates
  /\ dist' = update_tree(dist, 0, 0, NumBuckets - 1, gauge)
  /\ seen' = [seen EXCEPT ![BucketOf(gauge)] = @ + 1]
  /\ fresh' = [fresh EXCEPT ![BucketOf(gauge)] = @ + 1]
  /\ UNCHANGED <<raw, increase, resetSince, expected>>

distribution_reset ==
  /\ dist' = [i \in DOMAIN dist |-> [dist[i] EXCEPT !.bucket_counter = 0]]
  /\ seen' = None
  /\ resetSince' = TRUE
  /\ fresh' = None
  /\ UNCHANGED <<raw, increase, expected>>

(* A reset shows in the counters if one bucket holds fewer values than when
   the cache was told last, and another one more.  Only then can the cache
   know of it. *)
ResetShows ==
  LET now == get_buckets(dist)
      before == get_buckets(raw)
  IN  \E i, j \in Indices : now[i] < before[i] /\ now[j] > before[j]

Told(visible) ==
  /\ expected' = IF resetSince /\ ~visible THEN NoDistribution ELSE fresh
  /\ fresh' = None /\ resetSince' = FALSE
  /\ UNCHANGED <<dist, seen>>

(* uc_insert: the clone is the increase, too *)
InsertDistribution ==
  /\ raw = NoDistribution
  /\ raw' = dist /\ increase' = dist
  /\ Told(TRUE)

(* uc_update_metric, case METRIC_TYPE_DISTRIBUTION *)
UpdateDistribution ==
  LET sub == distribution_sub(dist, raw)
  IN  /\ raw # NoDistribution
      /\ increase' = IF sub.status = "ERANGE" THEN dist ELSE sub.d1
      /\ raw' = dist
      /\ Told(ResetShows)

DistNext ==
  \/ \E g \in Gauges : distribution_update(g)
  \/ distribution_reset
  \/ InsertDistribution
  \/ UpdateDistribution

DistSpec == DistInit /\ [][DistNext]_distvars

-----------------------------------------------------------------------------
Total(hist, i) == MapThenSumSet(LAMBDA j : hist[j], 0..i)

(* The walk down the tree agrees with a histogram: get_buckets returns for
   every bucket the number of values in [lower bound, upper bound), and
   distribution_percentile the least upper bound that at least the given
   percentage of the values are below (distribution.h says "more than", see
   PercentileIsExceeded).  The increase in the cache, from which
   uc_get_percentile answers, is the histogram of the values added between
   the last two updates of the cache; if the plugin has reset the distribution
   in between, of those added since the reset, provided the reset shows in the
   counters (when no bucket has grown, see IncreaseNotAboveTotal). *)
DistributionIsExact ==
  /\ get_buckets(dist) = seen
  /\ expected # NoDistribution => get_buckets(increase) = expected
  /\ Total(seen, NumBuckets - 1) > 0 =>
       \A p \in Percents :
         distribution_percentile(dist, p) =
           Maximum(Min({i \in Indices : 100 * Total(seen, i)
                                          >= p * Total(seen, NumBuckets - 1)}))

(* distribution.h:90 of the value distribution_percentile returns: "upper bound
   of such bucket that all less or equal buckets contain more than percent
   percents of values". *)
PercentileIsExceeded ==
  Total(seen, NumBuckets - 1) > 0 =>
    \A p \in Percents :
      \A i \in Indices :
        Maximum(i) = distribution_percentile(dist, p) =>
          100 * Total(seen, i) > p * Total(seen, NumBuckets - 1)

(* distribution_sub returns ERANGE if the second distribution is not less
   than the first one, so that no bucket of the increase counts more values
   than the distribution has. *)
IncreaseNotAboveTotal ==
  raw # NoDistribution =>
    \A i \in Indices : get_buckets(increase)[i] <= get_buckets(raw)[i]
=============================================================================
