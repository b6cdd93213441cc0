------------------------------- MODULE Sizing -------------------------------
(***************************************************************************)
(* sizing.Decide: from limits, usage, observed peaks and pending shortages *)
(* to a direction and new limits (internal/sizing/decide.go, quantity.go). *)
(* Quantities are integers in milli-units, the policy's fractions are      *)
(* percentages, and float64 products are taken exactly; the conversion of  *)
(* a product back to int64 keeps its width.                                *)
(***************************************************************************)
EXTENDS Integers

CONSTANTS
    Resources,       \* the keys of the quota
    Headroom,        \* Policy.HeadroomFor, in percent
    MinLimit,        \* Policy.MinFor, 0 where no minimum is configured
    Granule,         \* the unit Quantize rounds up to: 1, 1000, or one Mi
    Tolerance,       \* Policy.Tolerance, in percent
    MaxShrinkStep,   \* Policy.MaxShrinkStep, in percent
    MaxInt           \* math.MaxInt64

ASSUME SizingAssumption ==
    /\ Headroom \in [Resources -> Nat] /\ Granule \in [Resources -> Nat \ {0}]
    /\ MinLimit \in [Resources -> Nat]
    /\ Tolerance \in 0 .. 99 /\ MaxShrinkStep \in 1 .. 99   \* ParsePolicy, parseScalar
    /\ MaxInt \in Nat \ {0}

MinInt == -MaxInt - 1

\* Go's int64(f) of a float above the range is up to the processor: amd64
\* yields the smallest integer, arm64 the largest.
Builds == {MinInt, MaxInt}

toInt64(x, build) == IF x > MaxInt THEN build ELSE x

\* Wrap-around of int64 addition.
wrap(x) == IF x > MaxInt THEN x - 2 * (MaxInt + 1) ELSE x

\* int64(float64(milli) * (1 + headroom)).
WithHeadroom(r, milli, build) == toInt64((milli * (100 + Headroom[r])) \div 100, build)

(***************************************************************************)
(* An Input: per key the limit, the usage (-1: none reported), the event   *)
(* deficit (0: none) and the window's peak (0: none found).                *)
(***************************************************************************)

\* A limit or usage MilliValue() cannot represent, and a limit of zero, take
\* the key out of the decision.
overflowsMilliValue(q) == q > MaxInt \/ q < 0

Measurable(in, r) ==
    /\ ~overflowsMilliValue(in.hard[r]) /\ in.hard[r] # 0
    /\ ~overflowsMilliValue(in.used[r])

\* Mutant: rounds to the granule below.
Quantize_Down(r, milli) == (milli \div Granule[r]) * Granule[r]

\* Rounding is always upwards.
Quantize(r, milli) == ((milli + Granule[r] - 1) \div Granule[r]) * Granule[r]

larger(a, b) == IF a >= b THEN a ELSE b

\* Mutant: only the peak counts, not the pending shortage.
targetFor_NoDeficit(in, r, build) ==
    larger(WithHeadroom(r, larger(in.used[r], in.peak[r]), build), MinLimit[r])

\* Mutant: a peak in the window replaces current usage, floor included.
targetFor_PeakOnly(in, r, build) ==
    larger(WithHeadroom(r, IF in.peak[r] > 0 THEN in.peak[r] ELSE in.used[r], build), MinLimit[r])

\* The demand the target covers: usage, observed peak, pending shortage.
DemandOf(in, r) ==
    LET need == wrap(in.used[r] + in.deficit[r])
        peak == larger(in.used[r], in.peak[r])
    IN  IF in.deficit[r] > 0 THEN larger(peak, need) ELSE peak

targetFor(in, r, build) ==
    larger(larger(WithHeadroom(r, DemandOf(in, r), build),
                  WithHeadroom(r, in.used[r], build)),
           MinLimit[r])

\* The target of a shrink after the step cap.
Capped(in, r, build) ==
    larger(targetFor(in, r, build), (in.hard[r] * (100 - MaxShrinkStep)) \div 100)

\* Mutant: a decrease erased by rounding is proposed all the same.
Shrinks_Erased(in, r, build) ==
    targetFor(in, r, build) * 100 < in.hard[r] * (100 - Tolerance)

\* Outside the tolerance band, and not erased by rounding.
Grows(in, r, build) ==
    /\ targetFor(in, r, build) * 100 > in.hard[r] * (100 + Tolerance)
    /\ Quantize(r, targetFor(in, r, build)) > in.hard[r]

Shrinks(in, r, build) ==
    /\ targetFor(in, r, build) * 100 < in.hard[r] * (100 - Tolerance)
    /\ Quantize(r, Capped(in, r, build)) < in.hard[r]

\* Mutant: no name for DirectionNone.
Decide_UnnamedNone(in, gatesOpen, build) ==
    LET growing == {r \in Resources : Measurable(in, r) /\ Grows(in, r, build)}
    IN  IF growing = {} THEN [dir |-> "", targets |-> <<>>]
        ELSE [dir |-> "grow",
              targets |-> [r \in growing |-> Quantize(r, targetFor(in, r, build))]]

\* One direction for the whole quota; growth discards every shrink candidate.
Decide(in, gatesOpen, build) ==
    LET growing   == {r \in Resources : Measurable(in, r) /\ Grows(in, r, build)}
        shrinking == {r \in Resources : Measurable(in, r) /\ Shrinks(in, r, build)}
    IN  CASE growing # {} ->
               [dir |-> "grow",
                targets |-> [r \in growing |-> Quantize(r, targetFor(in, r, build))]]
          [] growing = {} /\ shrinking # {} /\ gatesOpen ->
               [dir |-> "shrink",
                targets |-> [r \in shrinking |-> Quantize(r, Capped(in, r, build))]]
          [] OTHER -> [dir |-> "none", targets |-> <<>>]

\* applyChangesToYaml: the limits given are set or added, the others stay.  A
\* target also reaches the other name of its resource (matchesResourceKey);
\* the keys of a quota are taken to be of different resources.
applyChanges(content, limits) ==
    [r \in DOMAIN content \cup DOMAIN limits |->
        IF r \in DOMAIN limits THEN limits[r] ELSE content[r]]
=============================================================================
