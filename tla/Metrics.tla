------------------------------ MODULE Metrics ------------------------------
(***************************************************************************)
(* The percentiles that are reported of measured offsets: of their         *)
(* absolute values on the endpoint (accuracy/metrics.py), of the values    *)
(* themselves in the drift log (core/drift_logger.py).                     *)
(***************************************************************************)
EXTENDS Integers, Sequences, FiniteSets, SequencesExt

\* sorted(): a value comes behind all smaller ones, and behind its equals that it follows.
Place(values, i) ==
  Cardinality({j \in DOMAIN values : values[j] < values[i] \/ (values[j] = values[i] /\ j <= i)})

Sorted(values) ==
  LET place == [i \in DOMAIN values |-> Place(values, i)]
  IN  [k \in DOMAIN values |-> values[CHOOSE i \in DOMAIN values : place[i] = k]]

Absolute(values) == [i \in DOMAIN values |-> IF values[i] < 0 THEN -values[i] ELSE values[i]]

\* Mutant of Index: the index in a list that begins with 1.
IndexFromOne(n, percent) == Min({(percent * n) \div 100 + 1, n - 1})

\* int(0.95 * n), cut to the last index; the double product is exact enough.
Index(n, percent) == Min({(percent * n) \div 100, n - 1})

At(sorted, percent) == sorted[Index(Len(sorted), percent) + 1]

NoReport == [count |-> 0]

\* AccuracyTracker.report: nothing before the third sample.
Report(errors) ==
  LET sorted_abs == Sorted(Absolute(errors))
  IN  IF Len(errors) < 3 THEN NoReport
      ELSE [count |-> Len(errors), p95 |-> At(sorted_abs, 95), p99 |-> At(sorted_abs, 99),
            max |-> Max(Range(sorted_abs)), min |-> Min(Range(sorted_abs))]

\* DriftLogger._stats; the index of the median is never cut.
Stats(offsets) ==
  LET s == Sorted(offsets)
  IN  IF Len(offsets) = 0 THEN NoReport
      ELSE [count |-> Len(offsets), p50 |-> At(s, 50), p95 |-> At(s, 95), p99 |-> At(s, 99),
            max |-> Max(Range(s)), min |-> Min(Range(s))]

=============================================================================
