--------------------------- MODULE LatencyReports ---------------------------
(***************************************************************************)
(* What is made of the times that send_order returns: the counters and the *)
(* rolling window of the dashboard with the statistics shown once a second *)
(* (web_server.py), LatencyStats, which the benchmark prints and saves     *)
(* (utils.py), and the p99 the server prints when it stops (handler.py).   *)
(*                                                                         *)
(* The dashboard counts, resets and takes its snapshot under one lock, so  *)
(* an update may come at any state of this module.  Times are in the unit  *)
(* of the histogram's bounds; quotients are exact.                         *)
(***************************************************************************)
EXTENDS Integers, Sequences, FiniteSets, FiniteSetsExt, SequencesExt

CONSTANTS
    Times,      \* the times an order may take
    Bounds,     \* HIST_BOUNDS
    Window,     \* the length of the rolling window (2000)
    MaxResults  \* bound of the model: orders between two starts

ASSUME TimesAssumption == Times \subseteq Nat \ {0}
ASSUME HistogramAssumption ==
    /\ Bounds \in Seq(Nat)
    /\ \A i \in 1..(Len(Bounds) - 1) : Bounds[i] < Bounds[i + 1]
ASSUME SizesAssumption == Window \in Nat \ {0} /\ MaxResults \in Nat

VARIABLES
    results,    \* what send_order returned since the start, in order
    counters,   \* _total, _successful, _timeouts
    window      \* _latencies_ns

rvars == <<results, counters, window>>

Lost == -1      \* send_order timed out, or raised

\* if result > 0: latencies.append(result)
Valid(s) ==
    LET upTo[n \in 0..Len(s)] ==
          IF n = 0 THEN <<>>
          ELSE IF s[n] > 0 THEN Append(upTo[n - 1], s[n]) ELSE upTo[n - 1]
    IN  upTo[Len(s)]

LastOf(s, n) == IF Len(s) > n THEN SubSeq(s, Len(s) - n + 1, Len(s)) ELSE s

-----------------------------------------------------------------------------
(* Percentiles and histogram.                                              *)

\* How many of s are less than t, and how many are not more.
Below(s, t) == Cardinality({i \in DOMAIN s : s[i] < t})
NotAbove(s, t) == Cardinality({i \in DOMAIN s : s[i] <= t})

\* sorted(s): at place k is the time with fewer than k below it and at least k
\* not above it.
Ascending(s) ==
    [k \in 1..Len(s) |-> CHOOSE t \in Range(s) : Below(s, t) < k /\ k <= NotAbove(s, t)]

\* Mutant: the index is one too low, as for a list that begins at one.
PercentileBelow(s, p) ==
    LET idx == (Len(s) * p) \div 1000
    IN  s[IF idx > 0 THEN idx ELSE 1]

\* LatencyStats.percentile and pct of _build_stats, on a sorted list; p is in
\* tenths of a percent, and lists of the code begin at 0.
Percentile(s, p) ==
    LET idx == (Len(s) * p) \div 1000
    IN  s[IF idx < Len(s) THEN idx + 1 ELSE Len(s)]

\* What LatencyStats reports: p50, p75, p90, p95, p99 and p999.
Reported == {500, 750, 900, 950, 990, 999}

\* get_stats: int(n * 0.99), without a cap.
ServerP99(s) == s[(Len(s) * 99) \div 100 + 1]

\* statistics.median, doubled.
TwiceMedian(s) == s[(Len(s) + 1) \div 2] + s[Len(s) \div 2 + 1]

\* The first bucket whose bound is above t; the last one has none.
Bucket(t) == Min({i \in 1..Len(Bounds) : t < Bounds[i]} \cup {Len(Bounds) + 1})

Histogram(w) ==
    [i \in 1..(Len(Bounds) + 1) |-> Cardinality({j \in DOMAIN w : Bucket(w[j]) = i})]

\* round(timeouts / max(total, 1) * 100, 2), in hundredths of a percent.
LossRate == ((counters.timeouts * 20000) \div Max({counters.total, 1}) + 1) \div 2

\* _build_stats
BuildStats ==
    IF window = <<>>
    THEN [lossRate |-> 0, low |-> 0, high |-> 0,
          p50 |-> 0, p95 |-> 0, p99 |-> 0, histogram |-> Histogram(<<>>)]
    ELSE LET sorted == Ascending(window)
         IN  [lossRate |-> LossRate,
              low |-> Head(sorted), high |-> Last(sorted),
              p50 |-> Percentile(sorted, 500), p95 |-> Percentile(sorted, 950),
              p99 |-> Percentile(sorted, 990), histogram |-> Histogram(window)]

-----------------------------------------------------------------------------
(* The counters.                                                           *)

Empty == [total |-> 0, successful |-> 0, timeouts |-> 0]

\* Mutant: a start keeps the window of the run before.
ResetCounters ==
    /\ results' = <<>>
    /\ counters' = Empty
    /\ UNCHANGED window

\* A start of the dashboard.
ResetStats ==
    /\ results' = <<>>
    /\ counters' = Empty
    /\ window' = <<>>

\* An order is over: it took l, or is lost.
CountResult(l) ==
    /\ Len(results) < MaxResults
    /\ results' = Append(results, l)
    /\ counters' = [counters EXCEPT !.total = @ + 1,
                                    !.successful = IF l = Lost THEN @ ELSE @ + 1,
                                    !.timeouts = IF l = Lost THEN @ + 1 ELSE @]
    /\ window' = IF l = Lost THEN window ELSE LastOf(Append(window, l), Window)

ReportsInit == results = <<>> /\ counters = Empty /\ window = <<>>

ReportsNext == ResetStats \/ \E l \in Times \cup {Lost} : CountResult(l)

ReportsSpec == ReportsInit /\ [][ReportsNext]_rvars

-----------------------------------------------------------------------------
(* Properties.                                                             *)

Abs(n) == IF n < 0 THEN -n ELSE n

\* At least p of the times are not above t, at most p are below it.
Splits(s, p, t) ==
    /\ NotAbove(s, t) * 1000 >= Len(s) * p
    /\ Below(s, t) * 1000 <= Len(s) * p

\* t lies between the bounds of bucket i.
Within(t, i) ==
    /\ i > 1 => t >= Bounds[i - 1]
    /\ i <= Len(Bounds) => t < Bounds[i]

\* README.md:357: the dashboard "streams TCP/UDP latency, throughput, and loss in
\* real time"; trading.html:66 calls the number "Loss Rate".  So it is at any moment
\* the loss of the orders since the last start, to half of its last digit, also
\* while all of them are lost.
LossShown ==
    LET lost == Len(results) - Len(Valid(results))
    IN  2 * Abs(BuildStats.lossRate * Len(results) - 10000 * lost) <= Len(results)

\* Once an order was answered the numbers on the page are at any moment those of
\* the orders since the last start: the loss rate is that of all of them (rounded,
\* so that one loss in more than 20000 shows as 0); extremes, percentiles and
\* histogram are those of the last `Window` answers, each answer in the one bucket
\* it belongs to.  The counts and the histogram are right before that, too.
StatsTruthful ==
    LET answered == Valid(results)
        recent == LastOf(answered, Window)
        lost == Len(results) - Len(answered)
        stats == BuildStats
    IN  /\ counters = [total |-> Len(results), successful |-> Len(answered),
                       timeouts |-> lost]
        /\ answered # <<>> => LossShown
        /\ recent # <<>> =>
             /\ {stats.low, stats.high} \subseteq Range(recent)
             /\ \A i \in DOMAIN recent : stats.low <= recent[i] /\ recent[i] <= stats.high
             /\ Splits(recent, 500, stats.p50)
             /\ Splits(recent, 950, stats.p95)
             /\ Splits(recent, 990, stats.p99)
        /\ \A i \in 1..(Len(Bounds) + 1) :
             stats.histogram[i] = Cardinality({j \in DOMAIN recent : Within(recent[j], i)})

\* What the benchmark prints is in order, from the minimum over the median to
\* the maximum, and the three programs give the same times the same p99, at
\* every length of the list, although each has its own index computation.
ReportsAgree ==
    LET s == Ascending(Valid(results))
    IN  s # <<>> =>
          /\ 2 * Head(s) <= TwiceMedian(s) /\ TwiceMedian(s) <= 2 * Percentile(s, 500)
          /\ \A p, q \in Reported :
                p <= q => Percentile(s, p) <= Percentile(s, q)
          /\ Percentile(s, 999) <= Last(s)
          /\ ServerP99(s) = Percentile(s, 990)
          /\ Len(s) <= Window => BuildStats.p99 = ServerP99(s)
=============================================================================
