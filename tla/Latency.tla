------------------------------ MODULE Latency -------------------------------
(***************************************************************************)
(* The latency counter of utils/latency/latency.c that statsd and the tail *)
(* plugins collect durations in: a histogram whose bins become wider when  *)
(* a latency does not fit and narrower when a reset finds them too wide.   *)
(* Its owner holds a lock of its own or is a single thread.                *)
(*                                                                         *)
(* Times are integers; sum and start_time are left out.                    *)
(***************************************************************************)
EXTENDS Integers, FiniteSetsExt, Functions

CONSTANTS
  NumBins,        \* HISTOGRAM_NUM_BINS
  DefaultWidth,   \* HISTOGRAM_DEFAULT_BIN_WIDTH, a power of 2
  ReduceThreshold,
  Latencies,      \* what can be added
  LatencyPercents,
  Widths,         \* the powers of 2 up to the greatest latency
  MaxLatencies    \* bound on the latencies between two resets

ASSUME LatencyAssumption ==
  /\ NumBins \in Nat \ {0} /\ ReduceThreshold \in Nat \ {0}
  /\ Latencies \subseteq Nat /\ IsFiniteSet(Latencies)
  /\ LatencyPercents \subseteq 1..99
ASSUME WidthsAssumption ==
  /\ Widths \subseteq Nat \ {0} /\ DefaultWidth \in Widths
  /\ \A v, w \in Widths : v < w => \E q \in 1..w : w = v * q
  /\ \A w \in Widths : w >= 2 * DefaultWidth => w \div 2 \in Widths
  /\ \A l \in Latencies : \E w \in Widths : w * NumBins >= l + 1

VARIABLES
  lc,             \* *lc: num, min, max, bin_width and histogram
  added           \* how often each latency was added since the last reset

latencyvars == <<lc, added>>

Bins == 0..NumBins - 1

Fresh(width) ==
  [num |-> 0, min |-> 0, max |-> 0, bin_width |-> width, histogram |-> [b \in Bins |-> 0]]

LatencyInit == lc = Fresh(DefaultWidth) /\ added = [l \in Latencies |-> 0]

(* The loop of change_bin_width: bin i is added to bin i * old / new width.
   It works in place and upwards, so that no count is moved twice. *)
Rebinned(c, width) ==
  [c EXCEPT !.bin_width = width,
            !.histogram = [b \in Bins |->
               SumFunctionOnSet(c.histogram,
                                {i \in Bins : (i * c.bin_width) \div width = b})]]

\* Mutant: the width just fits and need not be a multiple of the old one.
ChangeToTightWidth(c, latency) ==
  Rebinned(c, Min({w \in 1..latency : w * NumBins >= latency + 1}))

(* The least power of 2 not less than (latency + 1) / NumBins.  The code gets
   it from log, ceil and pow in double precision; the model takes the result
   to be exact.  It is not for a latency within a few units of 2^-30 seconds
   above 1000 * 2^k, k >= 42, where the logarithm may round down to k: such a
   latency, of 47 days and more, ends in "Invalid bin" below. *)
change_bin_width(c, latency) ==
  Rebinned(c, Min({w \in Widths : w * NumBins >= latency + 1}))

Counted(c, latency) ==
  LET first == c.min = 0 /\ c.max = 0
  IN  [c EXCEPT !.num = @ + 1,
                !.min = IF first \/ @ > latency THEN latency ELSE @,
                !.max = IF first \/ @ < latency THEN latency ELSE @]

(* The error "Invalid bin" after a change of the width leaves the latency
   counted in num and in no bin. *)
latency_counter_add(latency) ==
  /\ lc.num < MaxLatencies
  /\ latency # 0
  /\ LET BinIn(c) == (latency - 1) \div c.bin_width
         c1 == Counted(lc, latency)
         c2 == IF BinIn(c1) >= NumBins THEN change_bin_width(c1, latency) ELSE c1
     IN  lc' = IF BinIn(c2) >= NumBins THEN c2
               ELSE [c2 EXCEPT !.histogram[BinIn(c2)] = @ + 1]
  /\ added' = [added EXCEPT ![latency] = @ + 1]

latency_counter_reset ==
  LET max_bin == (lc.max - 1) \div lc.bin_width
      halve == lc.num > 0 /\ lc.bin_width >= 2 * DefaultWidth /\ max_bin < NumBins \div ReduceThreshold
  IN  /\ lc' = Fresh(IF halve THEN lc.bin_width \div 2 ELSE lc.bin_width)
      /\ added' = [l \in Latencies |-> 0]

LatencyNext ==
  \/ \E l \in Latencies : latency_counter_add(l)
  \/ latency_counter_reset

LatencySpec == LatencyInit /\ [][LatencyNext]_latencyvars

-----------------------------------------------------------------------------
(* The bin in which latency_counter_get_percentile stops *)
PercentileBin(percent) ==
  Min({b \in Bins : 100 * SumFunctionOnSet(lc.histogram, 0..b) >= percent * lc.num})

Between(low, high) ==
  SumFunctionOnSet(added, {l \in Latencies : low < l /\ l <= high})

(* However often the bins were made wider or narrower, bin i counts exactly
   the latencies in (i * width, (i + 1) * width], every latency is in one,
   and a latency that does not fit always finds its bin after one change
   of the width.  So the bounds in which latency_counter_get_percentile
   interpolates contain the percentile of the latencies that were added. *)
HistogramIsExact ==
  /\ \A b \in Bins : lc.histogram[b] = Between(b * lc.bin_width, (b + 1) * lc.bin_width)
  /\ SumFunctionOnSet(lc.histogram, Bins) = lc.num
  /\ lc.num > 0 =>
       \A p \in LatencyPercents :
         LET exact == Min({l \in Latencies : 100 * Between(0, l) >= p * lc.num})
             b == PercentileBin(p)
         IN  b * lc.bin_width < exact /\ exact <= (b + 1) * lc.bin_width
=============================================================================
