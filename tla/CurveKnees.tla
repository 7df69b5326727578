------------------------------- MODULE CurveKnees -------------------------------
(***************************************************************************)
(* The detectors that turn a measured curve into a capacity or a spacing:  *)
(* those of infer.py for latencies, which rise, and for rates, and the one *)
(* of probes/rob.cpp.  A curve is a sequence of values in the order of its *)
(* x label; thresholds are per cent.                                       *)
(***************************************************************************)
EXTENDS Integers, Sequences, FiniteSets

CONSTANTS
  Values,     \* measured values, in ns or ticks
  Lengths,    \* lengths of a curve
  Noise       \* the absolute step that rob.cpp asks for beside its ratio

ASSUME CurveAssumption ==
  Values \subseteq Nat /\ Lengths \subseteq Nat /\ Noise \in Nat

VARIABLES
  curve,      \* the points measured so far
  whole,      \* no further point will come
  found       \* what each detector made of the curve

curveVars == <<curve, whole, found>>

Lowest(S) == CHOOSE x \in S : \A y \in S : x <= y
Highest(S) == CHOOSE x \in S : \A y \in S : x >= y

FirstOf(S) == IF S = {} THEN 0 ELSE Lowest(S)      \* 0: None
Exceeds(a, b, percent) == 100 * a > percent * b

\* _knees: every rise over the point before.
AllKnees(c, percent) == {i \in 2 .. Len(c) : Exceeds(c[i], c[i - 1], percent)}

\* Mutant: one follower is enough.
SustainedKnees_OneFollower(c, percent) ==
  {i \in 2 .. Len(c) :
     /\ c[i - 1] > 0
     /\ i + 1 <= Len(c)
     /\ \A j \in i .. i + 1 : Exceeds(c[j], c[i - 1], percent)}

\* Mutant: each follower is compared with the point before it.
SustainedKnees_Stairs(c, percent) ==
  {i \in 2 .. Len(c) :
     /\ c[i - 1] > 0
     /\ i + 2 <= Len(c)
     /\ \A j \in i .. i + 2 : Exceeds(c[j], c[j - 1], percent)}

\* _sustained_knees: the two points that follow stay above the step's foot too.
SustainedKnees(c, percent) ==
  {i \in 2 .. Len(c) :
     /\ c[i - 1] > 0
     /\ i + 2 <= Len(c)
     /\ \A j \in i .. i + 2 : Exceeds(c[j], c[i - 1], percent)}

\* statistics.median of the first three points
MedianOf3(c) ==
  CHOOSE m \in {c[1], c[2], c[3]} :
    /\ Cardinality({i \in 1 .. 3 : c[i] <= m}) >= 2
    /\ Cardinality({i \in 1 .. 3 : c[i] >= m}) >= 2

\* _pressure_knee
PressureKnee(c, percent) ==
  IF Len(c) < 3 THEN 0
  ELSE FirstOf({i \in 4 .. Len(c) : MedianOf3(c) > 0 /\ Exceeds(c[i], MedianOf3(c), percent)})

\* benchmark_rob: three points in a row above the mean of the first four.
RobKnee(c) ==
  LET total == c[1] + c[2] + c[3] + c[4]
      above(v) == 400 * v > 135 * total /\ 4 * v > total + 4 * Noise
  IN  FirstOf({i \in 5 .. Len(c) : i + 2 <= Len(c) /\ \A j \in i .. i + 2 : above(c[j])})

\* core.instruction_footprint_knee: below 70 % of the best of the first three.
FetchKnee(c) ==
  FirstOf({i \in 4 .. Len(c) : 100 * c[i] < 70 * Highest({c[1], c[2], c[3]})})

\* memory.prefetch_stride_knee: below half of the rate at the narrowest stride.
StrideKnee(c) == FirstOf({i \in 1 .. Len(c) : 100 * c[i] < 50 * c[1]})

\* coherence.empirical_line_knee: the least distance with 75 % of the best rate.
LineKnee(c) ==
  FirstOf({i \in 1 .. Len(c) : \A j \in 1 .. Len(c) : 100 * c[i] >= 75 * c[j]})

\* The pressure curves have a threshold each.
Detect(c) ==
  [cache |-> AllKnees(c, 145), tlb |-> SustainedKnees(c, 135),
   branch |-> [btb |-> PressureKnee(c, 125), history |-> PressureKnee(c, 130),
               return_stack |-> PressureKnee(c, 120), indirect |-> PressureKnee(c, 130)],
   rob |-> RobKnee(c), fetch |-> FetchKnee(c), stride |-> StrideKnee(c), line |-> LineKnee(c)]

CurveInit == curve = <<>> /\ whole = FALSE /\ found = Detect(<<>>)

\* The probe adds its next point.
AddPoint(v) ==
  /\ ~whole /\ \E n \in Lengths : Len(curve) < n
  /\ curve' = Append(curve, v)
  /\ UNCHANGED <<whole, found>>

\* The curve is complete, or was cut short by a failure, and is read.
ReadCurve ==
  /\ ~whole
  /\ whole' = TRUE
  /\ found' = Detect(curve)
  /\ UNCHANGED curve

CurveRead == whole /\ UNCHANGED curveVars

CurveNext == (\E v \in Values : AddPoint(v)) \/ ReadCurve \/ CurveRead
CurveSpec == CurveInit /\ [][CurveNext]_curveVars

--------------------------------------------------------------------------------
Index == 1 .. Len(curve)
\* All points but those of S are within `percent' of each other.
FlatBut(S, percent) ==
  \A i, j \in Index \ S : ~Exceeds(curve[i], curve[j], percent)

CurveTypeOK ==
  /\ curve \in Seq(Values) /\ whole \in BOOLEAN
  /\ found.cache \subseteq Index /\ found.tlb \subseteq Index
  /\ {found.rob, found.fetch, found.stride, found.line} \subseteq Index \cup {0}
  /\ found.branch \in [{"btb", "history", "return_stack", "indirect"} -> Index \cup {0}]

\* One point, or two neighbours, that rise out of an otherwise flat curve are
\* neither a TLB knee nor the ROB knee (the docstring of _sustained_knees,
\* METRICS.md:68, 197): the figure would be a conflict miss or an interrupt.
\* Only a rise is rejected: behind a point that is too low SustainedKnees
\* sees the return to normal as a cliff.
SpikesAreRejected ==
  whole => \A i \in Index :
    LET spike == {i, i + 1} \cap Index
        base == Index \ spike
        rises == \A s \in spike : \A b \in base : curve[s] >= curve[b]
    IN  rises /\ FlatBut(spike, 135) =>
          found.tlb = {} /\ (i > 4 => found.rob = 0)

\* A curve that has one level up to a point and another from there on.
StepAt(k) ==
  /\ \A i, j \in 1 .. k - 1 : curve[i] = curve[j]
  /\ \A i \in k .. Len(curve) : curve[i] = curve[k]

\* A latency that is flat up to a point and stays half as high again behind it
\* has exactly that one TLB knee, which the other detectors see at no later
\* place once their baseline is full, and no drop; a rate that falls below half
\* at a point and stays there has its knees there and is no latency's cliff;
\* threads on two lines recover their rate where it rises.
StepsAreFound ==
  whole => \A k \in 2 .. Len(curve) - 2 :
    LET rise == StepAt(k) /\ curve[1] > 0 /\ Exceeds(curve[k], curve[1], 145)
        fall == StepAt(k) /\ 100 * curve[k] < 50 * curve[1]
    IN  /\ rise =>
             /\ found.tlb = {k} /\ found.cache = {k} /\ found.line = k
             /\ found.stride = 0 /\ found.fetch = 0
             /\ k > 3 => \A b \in DOMAIN found.branch : found.branch[b] = k
             /\ k > 4 /\ curve[k] > curve[1] + Noise => found.rob = k
        /\ fall =>
             /\ found.tlb = {} /\ found.cache = {} /\ found.rob = 0 /\ found.line = 1
             /\ \A b \in DOMAIN found.branch : found.branch[b] = 0
             /\ found.stride = k
             /\ k > 3 => found.fetch = k
================================================================================
