--------------------------- MODULE SampleStatistics ---------------------------
(***************************************************************************)
(* How a series of samples is summarized (util.cpp, 19-32 and 93-121): on  *)
(* a sorted copy, with percentiles interpolated between neighbours. The    *)
(* numbers are integers: a percentile is given in twentieths, a mean as    *)
(* the sum, and a variance times the third power of the count, so that     *)
(* nothing is rounded; the code computes in doubles. The standard          *)
(* deviation is the root of the variance and is left out.                 *)
(***************************************************************************)
EXTENDS Integers, Sequences, FiniteSets, SequencesExt

CONSTANTS
    Values,       \* what a sample may be
    MaxSamples    \* how many there may be (a bound of the model)

ASSUME StatisticsAssumption == Values \subseteq Int /\ MaxSamples \in Nat

VARIABLE samples

-----------------------------------------------------------------------------
(* percentile. A fraction is given in twentieths: 10 is 0.50, 19 is 0.95.    *)

\* In a sequence that is indexed from 1, the neighbours of a position that counts
\* from 0, in twentieths.
lower_index(position) == position \div 20 + 1
upper_index(position) == (position + 19) \div 20 + 1

\* What lies between two neighbours at a weight, which is in twentieths.
Interpolate(lower, upper, weight) == lower * (20 - weight) + upper * weight

\* Mutant: the position is rounded to that of one sample.
position_Rounded(count, fraction) == ((fraction * (count - 1) + 10) \div 20) * 20
position(count, fraction) == fraction * (count - 1)

\* The position is never beyond the last sample, so the upper neighbour exists.
percentile(sorted, fraction) ==
    IF Len(sorted) = 0 THEN 0
    ELSE IF Len(sorted) = 1 THEN 20 * sorted[1]
    ELSE LET p == position(Len(sorted), fraction)
         IN Interpolate(sorted[lower_index(p)], sorted[upper_index(p)], p % 20)

-----------------------------------------------------------------------------
(* summarize_samples.                                                       *)

\* An ascending sequence with one more number, which goes behind those not above it.
Inserted(s, x) == InsertAt(s, Cardinality({i \in DOMAIN s : s[i] <= x}) + 1, x)

\* std::sort; any way to sort gives the same numbers.
Sorted(s) ==
    LET first[n \in 0..Len(s)] == IF n = 0 THEN <<>> ELSE Inserted(first[n - 1], s[n])
    IN first[Len(s)]

\* Mutant: the mean is that of the whole numbers, without its fraction.
deviations_WholeMean(s) ==
    LET n == Len(s) mean == SumFunction(s) \div Len(s)
    IN SumFunction([i \in DOMAIN s |-> n * n * (s[i] - mean) * (s[i] - mean)])

\* The squares of (count * sample - sum), which are those of the deltas times count^2.
deviations(s) ==
    LET n == Len(s) sum == SumFunction(s)
    IN SumFunction([i \in DOMAIN s |-> (n * s[i] - sum) * (n * s[i] - sum)])

\* Nothing but the count is known of no samples.
summarize_samples(s) ==
    IF s = <<>> THEN [count |-> 0]
    ELSE LET sorted == Sorted(s) IN
         [count |-> Len(s),
          min   |-> sorted[1],
          max   |-> sorted[Len(sorted)],
          sum   |-> SumFunction(sorted),
          deviations |-> deviations(sorted),
          p50   |-> percentile(sorted, 10),
          p95   |-> percentile(sorted, 19)]

-----------------------------------------------------------------------------
(* The series of a record, in the order of the capture.                     *)

SeriesInit == samples = <<>>

AppendSample ==
    /\ Len(samples) < MaxSamples
    /\ \E value \in Values : samples' = Append(samples, value)

SeriesSpec == SeriesInit /\ [][AppendSample]_samples

-----------------------------------------------------------------------------
(* Properties.                                                              *)

Summary == summarize_samples(samples)

Below(v) == Cardinality({i \in DOMAIN samples : samples[i] < v})
NotAbove(v) == Cardinality({i \in DOMAIN samples : samples[i] <= v})

\* The value that has k samples before it, found by counting.
OrderStatistic(k) == CHOOSE v \in Values : Below(v) <= k /\ k < NotAbove(v)

\* The polygon through the order statistics, in twentieths.
Quantile(fraction) ==
    LET k == (fraction * (Len(samples) - 1)) \div 20
        rest == fraction * (Len(samples) - 1) - 20 * k
    IN IF rest = 0 THEN 20 * OrderStatistic(k)
       ELSE 20 * OrderStatistic(k) + rest * (OrderStatistic(k + 1) - OrderStatistic(k))

\* util.cpp:19-32, 99-101, 118-119: the median and the 95th percentile are those of
\* the samples, which the summary is given in the order of the capture: each lies on
\* the line between the two samples its rank falls between.
PercentilesAreQuantiles ==
    samples # <<>> => Summary.p50 = Quantile(10) /\ Summary.p95 = Quantile(19)

\* util.cpp:103-117: the deviations are those of the whole series from its mean, as in
\* the identity of the mean of the squares and the square of the mean; they are zero
\* only if all samples are the same.
DeviationsAreOfTheMean ==
    LET n == Len(samples)
        squares == SumFunction([i \in 1..n |-> samples[i] * samples[i]])
        sum == SumFunction(samples)
    IN samples # <<>> =>
           /\ Summary.deviations = n * (n * squares - sum * sum)
           /\ Summary.deviations = 0 <=> Summary.min = Summary.max
=============================================================================
