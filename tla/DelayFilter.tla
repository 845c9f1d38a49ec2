----------------------------- MODULE DelayFilter -----------------------------
(***************************************************************************)
(* core/filter.py, class DelayFilter: a window of the last samples and the *)
(* estimate taken from it, 0.6 of the minimum and 0.4 of the median.       *)
(***************************************************************************)
EXTENDS Integers, Sequences, FiniteSets, FiniteSetsExt, Functions

CONSTANT Window                 \* window

ASSUME WindowAssumption == Window \in Nat \ {0}

Last(s, n) == SubSeq(s, IF Len(s) > n THEN Len(s) - n + 1 ELSE 1, Len(s))

\* Mutant of Add: a sample is taken whatever its sign.
AddAny(samples, sample) == Last(Append(samples, sample), Window)

\* deque(maxlen = window).append, for a positive sample.
Add(samples, sample) ==
  IF sample > 0 THEN Last(Append(samples, sample), Window) ELSE samples

Minimum(samples) == Min(Range(samples))

\* The k-th smallest sample: fewer than k are below it, k or more at or below it.
Kth(samples, k) ==
  CHOOSE x \in Range(samples) :
    /\ Cardinality({i \in DOMAIN samples : samples[i] < x}) < k
    /\ Cardinality({i \in DOMAIN samples : samples[i] <= x}) >= k

\* statistics.median averages the two middle samples of an even number.
Median(samples) ==
  LET n == Len(samples)
  IN  (Kth(samples, (n + 1) \div 2) + Kth(samples, n \div 2 + 1)) \div 2

\* Mutant of Best: the median is not weighted.
BestHeavy(samples) ==
  IF samples = << >> THEN 0 ELSE (6 * Minimum(samples) + 10 * Median(samples)) \div 10

Best(samples) ==
  IF samples = << >> THEN 0 ELSE (6 * Minimum(samples) + 4 * Median(samples)) \div 10

=============================================================================
