---------------------------- MODULE LatencyExport -----------------------------
(***************************************************************************)
(* export_latency_samples_csv of include/benchmark_utils.hpp, with         *)
(* calibrate_tsc and cycles_to_ns: what the benchmarks report of the       *)
(* samples, in cycles, that a thread has taken.  The loops are steps; what *)
(* is computed is kept, and its printing left out.  The products and       *)
(* quotients of doubles are taken as exact.                                *)
(*                                                                         *)
(* An operator named Bug... is what a slip in the code would make of the   *)
(* definition after it; nothing uses it but the mutants of PROJECT.json.   *)
(***************************************************************************)
EXTENDS Integers, Sequences, FiniteSetsExt, SequencesExt

CONSTANTS
  Latencies,    \* cycles a sample may be
  MaxSamples,   \* bound: samples of a thread
  ClockPairs,   \* cycles and nanoseconds that may pass while calibrate_tsc sleeps
  Second,       \* nanoseconds in a second
  IntModulus    \* how many values int has

ASSUME ExportAssumption ==
  /\ Latencies \subseteq Nat /\ MaxSamples \in Nat
  /\ ClockPairs \subseteq (Nat \ {0}) \X (Nat \ {0})
  /\ Second \in Nat \ {0}
  /\ IntModulus \in Nat /\ IntModulus % 2 = 0

VARIABLES
  samples,
  tsc_freq,    \* cycles in a second, or 0 before it is calibrated
  pc,          \* "begin", "sort", "histogram", "sum", "done"
  i,           \* samples that the loop has gone through
  histogram,   \* nanoseconds -> samples of so many
  sum          \* the sum of the samples, an int

vars == <<samples, tsc_freq, pc, i, histogram, sum>>

\* The quotient of natural numbers, not rounded.
BugRounded(a, b) == a \div b

\* The quotient of natural numbers, rounded to the nearest.
Rounded(a, b) == (a + b \div 2) \div b

Cycles_to_ns(cycles) == Rounded(cycles * Second, tsc_freq)

\* The value of an int: what is added to it is computed as a uint64_t and narrowed.
Narrowed(n) ==
  IF n % IntModulus < IntModulus \div 2 THEN n % IntModulus ELSE (n % IntModulus) - IntModulus

\* samples[p * (samples.size() - 1)], for p in thousandths, of the sorted samples.
Percentile(p) == samples[(p * (Len(samples) - 1)) \div 1000 + 1]

Init ==
  /\ samples \in BoundedSeq(Latencies, MaxSamples)
  /\ tsc_freq = 0
  /\ pc = "begin" /\ i = 0
  /\ histogram = << >> /\ sum = 0

Return ==
  /\ pc = "begin" /\ samples = << >>
  /\ pc' = "done"
  /\ UNCHANGED <<samples, tsc_freq, i, histogram, sum>>

Calibrate ==
  /\ pc = "begin" /\ samples # << >>
  /\ \E q \in ClockPairs : tsc_freq' = Rounded(q[1] * Second, q[2])
  /\ pc' = "sort"
  /\ UNCHANGED <<samples, i, histogram, sum>>

SortSamples ==
  /\ pc = "sort"
  /\ samples' = SortSeq(samples, <)
  /\ pc' = "histogram"
  /\ UNCHANGED <<tsc_freq, i, histogram, sum>>

\* A loop over the samples, and where it leads.
Loop(from, to) ==
  /\ pc = from
  /\ i' = (i + 1) % Len(samples)
  /\ pc' = IF i' = 0 THEN to ELSE from
  /\ UNCHANGED <<samples, tsc_freq>>

CountSample ==
  /\ Loop("histogram", "sum")
  /\ LET ns == Cycles_to_ns(samples[i + 1]) IN
       histogram' = [t \in DOMAIN histogram \cup {ns} |->
         (IF t \in DOMAIN histogram THEN histogram[t] ELSE 0) + (IF t = ns THEN 1 ELSE 0)]
  /\ UNCHANGED sum

AddSample ==
  /\ Loop("sum", "done")
  /\ sum' = Narrowed(sum + samples[i + 1])
  /\ UNCHANGED histogram

Done == pc = "done" /\ UNCHANGED vars

Next == Return \/ Calibrate \/ SortSamples \/ CountSample \/ AddSample \/ Done

Spec == Init /\ [][Next]_vars
------------------------------------------------------------------------------
(* Properties: what is reported, against the samples as a bag *)

AtMost(v) == Cardinality({j \in DOMAIN samples : samples[j] <= v})

\* A percentile is the least sample such that the samples up to it, itself included, are
\* more than that share of one sample fewer than there are.
PercentileRight(p) ==
  Percentile(p) = Min({v \in ToSet(samples) : AtMost(v) * 1000 > p * (Len(samples) - 1)})

\* The nanoseconds nearest to a number of cycles, the higher ones if there are two.
Nearest(cycles) ==
  CHOOSE ns \in 0 .. cycles * Second + 1 :
    /\ 2 * (ns * tsc_freq - cycles * Second) <= tsc_freq
    /\ 2 * (cycles * Second - ns * tsc_freq) < tsc_freq

HistogramRight ==
  LET near == [j \in DOMAIN samples |-> Nearest(samples[j])]
  IN histogram = [ns \in {near[j] : j \in DOMAIN near} |->
                    Cardinality({j \in DOMAIN near : near[j] = ns})]

TrueSum == MapThenSumSet(LAMBDA j : samples[j], DOMAIN samples)

\* The percentiles and the histogram tell of the samples what they say; and the
\* throughput, which is the number of samples over their sum, does so exactly as long as
\* the sum of the cycles fits an int.  When it does not the throughput is wrong, and may
\* be negative.
ReportRight ==
  pc = "done" /\ samples # << >> =>
    /\ \A p \in {500, 950, 990, 999} : PercentileRight(p)
    /\ HistogramRight
    /\ sum = TrueSum <=> TrueSum < IntModulus \div 2
==============================================================================
