----------------------------- MODULE SizingFacts -----------------------------
(***************************************************************************)
(* What Quantize, targetFor and Decide return, for every policy, every     *)
(* unit and every width of the integers: the facts the proofs about        *)
(* SizingLoop and ShortageLoop share.                                      *)
(***************************************************************************)
EXTENDS Sizing, TLAPS

(* Integer division. *)

LEMMA DivFacts ==
    ASSUME NEW m \in Int, NEW g \in Nat \ {0}
    PROVE  m \div g \in Int /\ (m \div g) * g <= m /\ m < (m \div g) * g + g
  BY SMT

LEMMA MulMono ==
    ASSUME NEW a \in Int, NEW b \in Int, NEW g \in Nat, a <= b
    PROVE  a * g <= b * g
  BY SMT

LEMMA DivMono ==
    ASSUME NEW m \in Int, NEW n \in Int, NEW g \in Nat \ {0}, m <= n
    PROVE  m \div g <= n \div g
  <1> DEFINE a == m \div g
             b == n \div g
  <1>1. a \in Int /\ b \in Int /\ a * g <= m /\ n < b * g + g
    BY DivFacts
  <1> HIDE DEF a, b
  <1>2. SUFFICES ASSUME a > b PROVE FALSE
    BY <1>1 DEF a, b
  <1>3. (b + 1) * g <= a * g
    BY <1>1, <1>2, MulMono
  <1>4. (b + 1) * g = b * g + g
    BY <1>1
  <1> QED BY <1>1, <1>3, <1>4

-----------------------------------------------------------------------------
(* Quantize *)

\* Quantize never rounds a target down, by less than one unit up, and keeps
\* the order of targets.
LEMMA QuantizeFacts ==
    ASSUME NEW r \in Resources, NEW m \in Nat
    PROVE  /\ Quantize(r, m) \in Nat
           /\ Quantize(r, m) >= m
           /\ \A n \in Nat : m <= n => Quantize(r, m) <= Quantize(r, n)
  <1> DEFINE g == Granule[r]
             q(x) == (x + g - 1) \div g
  <1>1. g \in Nat \ {0}
    BY SizingAssumption
  <1> HIDE DEF g
  <1>2. \A x \in Nat : /\ x + g - 1 \in Int
                       /\ q(x) \in Int /\ x + g - 1 < q(x) * g + g
    BY <1>1, DivFacts
  <1>3. \A x \in Nat : Quantize(r, x) = q(x) * g
    BY DEF Quantize, g
  <1>4. ASSUME NEW n \in Nat, m <= n PROVE q(m) * g <= q(n) * g
    <2>1. m + g - 1 \in Int /\ n + g - 1 \in Int /\ m + g - 1 <= n + g - 1
      BY <1>1, <1>4
    <2>2. q(m) <= q(n)
      BY <1>1, <2>1, DivMono
    <2>3. q(m) \in Int /\ q(n) \in Int
      BY <1>2
    <2> HIDE DEF q
    <2> QED BY <1>1, <2>2, <2>3, MulMono
  <1>5. q(m) \in Int /\ m + g - 1 < q(m) * g + g
    BY <1>2
  <1> HIDE DEF q
  <1>6. q(m) * g \in Int /\ q(m) * g >= m
    BY <1>1, <1>5
  <1> QED BY <1>3, <1>4, <1>6

-----------------------------------------------------------------------------
(* targetFor *)

\* The target as a function of numbers.
Exact(r, x) == (x * (100 + Headroom[r])) \div 100
Demand(u, p, d) == larger(p, u + d)
Target(r, u, p, d) == larger(Exact(r, Demand(u, p, d)), MinLimit[r])

LEMMA ExactFacts ==
    ASSUME NEW r \in Resources, NEW x \in Nat, NEW y \in Nat, x <= y
    PROVE  /\ Exact(r, x) \in Nat /\ Exact(r, x) <= Exact(r, y)
           /\ Exact(r, x) * 100 > x * (100 + Headroom[r]) - 100
  <1> DEFINE h == 100 + Headroom[r]
  <1>1. h \in Nat
    BY SizingAssumption
  <1>2. Exact(r, x) = (x * h) \div 100 /\ Exact(r, y) = (y * h) \div 100
    BY DEF Exact
  <1> HIDE DEF h
  <1>3. x * h \in Nat /\ y * h \in Nat /\ x * h <= y * h
    BY <1>1, MulMono
  <1>4. \A a, b \in Nat : a <= b => /\ a \div 100 \in Nat /\ a \div 100 <= b \div 100
                                    /\ (a \div 100) * 100 > a - 100
    OBVIOUS
  <1>5. /\ (x * h) \div 100 \in Nat /\ (x * h) \div 100 <= (y * h) \div 100
        /\ ((x * h) \div 100) * 100 > x * h - 100
    BY <1>3, <1>4
  <1> QED BY <1>2, <1>5 DEF h

\* In range, targetFor is the target of exact arithmetic, on every processor.
LEMMA TargetForm ==
    ASSUME NEW r \in Resources, NEW in, NEW b \in Int,
           in.used[r] \in Nat, in.peak[r] \in Nat, in.deficit[r] \in Nat,
           in.used[r] + in.deficit[r] <= MaxInt,
           Exact(r, Demand(in.used[r], in.peak[r], in.deficit[r])) <= MaxInt
    PROVE  /\ targetFor(in, r, b) = Target(r, in.used[r], in.peak[r], in.deficit[r])
           /\ targetFor(in, r, b) \in Nat
  <1> DEFINE u == in.used[r]
             p == in.peak[r]
             d == in.deficit[r]
  <1>1. u \in Nat /\ p \in Nat /\ d \in Nat /\ MaxInt \in Nat /\ MinLimit[r] \in Nat
    BY SizingAssumption
  <1>2. u + d <= MaxInt /\ Exact(r, Demand(u, p, d)) <= MaxInt
    OBVIOUS
  <1>3. Demand(u, p, d) \in Nat /\ u <= Demand(u, p, d)
    BY <1>1 DEF Demand, larger
  <1>4. DemandOf(in, r) = Demand(u, p, d)
    BY <1>1, <1>2 DEF DemandOf, Demand, larger, wrap
  <1>5. /\ Exact(r, u) \in Nat /\ Exact(r, Demand(u, p, d)) \in Nat
        /\ Exact(r, u) <= Exact(r, Demand(u, p, d))
    BY <1>1, <1>3, ExactFacts
  <1>6. /\ WithHeadroom(r, DemandOf(in, r), b) = Exact(r, Demand(u, p, d))
        /\ WithHeadroom(r, u, b) = Exact(r, u)
    BY <1>1, <1>2, <1>4, <1>5 DEF WithHeadroom, toInt64, Exact
  <1> QED BY <1>1, <1>5, <1>6 DEF targetFor, Target, larger

\* Without a peak, whatever overflows and on every processor, the target is at
\* most that of any bound of usage and deficit.
LEMMA TargetCeiling ==
    ASSUME NEW r \in Resources, NEW in, NEW b \in Builds, NEW bound \in Nat,
           in.used[r] \in Nat, in.peak[r] = 0, in.deficit[r] \in Nat,
           in.used[r] + in.deficit[r] <= bound
    PROVE  /\ targetFor(in, r, b) \in Nat
           /\ targetFor(in, r, b) <= larger(WithHeadroom(r, bound, MaxInt), MinLimit[r])
  <1> DEFINE u == in.used[r]
             d == in.deficit[r]
             x == DemandOf(in, r)
  <1>1. u \in Nat /\ d \in Nat /\ MaxInt \in Nat /\ MinLimit[r] \in Nat /\ u + d <= bound
    BY SizingAssumption
  <1>2. x \in Nat /\ x <= bound /\ u <= bound
    BY <1>1 DEF DemandOf, larger, wrap
  <1>3. b \in Int /\ b <= MaxInt
    BY <1>1 DEF Builds, MinInt
  <1> HIDE DEF x, u
  <1>4. \A y \in Nat : y <= bound => /\ WithHeadroom(r, y, b) \in Int
                                     /\ WithHeadroom(r, y, b) <= WithHeadroom(r, bound, MaxInt)
    <2> TAKE y \in Nat
    <2> HAVE y <= bound
    <2>1. Exact(r, y) \in Nat /\ Exact(r, bound) \in Nat /\ Exact(r, y) <= Exact(r, bound)
      BY ExactFacts
    <2> QED BY <1>1, <1>3, <2>1 DEF WithHeadroom, toInt64, Exact
  <1>5. /\ WithHeadroom(r, x, b) \in Int /\ WithHeadroom(r, u, b) \in Int
        /\ WithHeadroom(r, x, b) <= WithHeadroom(r, bound, MaxInt)
        /\ WithHeadroom(r, u, b) <= WithHeadroom(r, bound, MaxInt)
    BY <1>1, <1>2, <1>4
  <1>6. WithHeadroom(r, bound, MaxInt) \in Int
    <2>1. Exact(r, bound) \in Nat
      BY ExactFacts
    <2> QED BY <1>1, <2>1 DEF WithHeadroom, toInt64, Exact
  <1>7. targetFor(in, r, b) = larger(larger(WithHeadroom(r, x, b), WithHeadroom(r, u, b)), MinLimit[r])
    BY DEF targetFor, x, u
  <1> QED BY <1>1, <1>5, <1>6, <1>7 DEF larger

\* A deficit the event scan missed can only lower the target, and no target is
\* below usage or peak plus headroom, or below the minimum.
LEMMA TargetFacts ==
    ASSUME NEW r \in Resources, NEW u \in Nat, NEW p \in Nat, NEW d \in Nat
    PROVE  /\ Target(r, u, p, d) \in Nat
           /\ Target(r, u, p, 0) <= Target(r, u, p, d)
           /\ Target(r, u, p, d) >= MinLimit[r]
           /\ Target(r, u, p, d) * 100 > larger(u, p) * (100 + Headroom[r]) - 100
  <1>1. MinLimit[r] \in Nat /\ Headroom[r] \in Nat
    BY SizingAssumption
  <1>2. /\ larger(u, p) \in Nat /\ Demand(u, p, d) \in Nat /\ Demand(u, p, 0) = larger(u, p)
        /\ larger(u, p) <= Demand(u, p, d)
    BY DEF Demand, larger
  <1> DEFINE x == larger(u, p)
             y == Demand(u, p, d)
  <1>3. /\ Exact(r, x) \in Nat /\ Exact(r, y) \in Nat /\ Exact(r, x) <= Exact(r, y)
        /\ Exact(r, x) * 100 > x * (100 + Headroom[r]) - 100
    BY <1>2, ExactFacts
  <1>4. Target(r, u, p, 0) = larger(Exact(r, x), MinLimit[r])
        /\ Target(r, u, p, d) = larger(Exact(r, y), MinLimit[r])
    BY <1>2 DEF Target
  <1>5. x * (100 + Headroom[r]) \in Int
    BY <1>1, <1>2
  <1> HIDE DEF x, y
  <1>6. /\ larger(Exact(r, y), MinLimit[r]) \in Nat
        /\ larger(Exact(r, x), MinLimit[r]) <= larger(Exact(r, y), MinLimit[r])
        /\ larger(Exact(r, y), MinLimit[r]) >= MinLimit[r]
        /\ larger(Exact(r, y), MinLimit[r]) >= Exact(r, x)
    BY <1>1, <1>3 DEF larger
  <1> QED BY <1>3, <1>4, <1>5, <1>6 DEF x

\* Whatever overflows, a target is a natural number not below the minimum.
LEMMA TargetNat ==
    ASSUME NEW r \in Resources, NEW in, NEW b \in Int,
           in.used[r] \in Nat, in.peak[r] \in Nat, in.deficit[r] \in Nat
    PROVE  targetFor(in, r, b) \in Nat
  <1>1. MaxInt \in Nat /\ MinLimit[r] \in Nat /\ 100 + Headroom[r] \in Nat
    BY SizingAssumption
  <1>2. \A x, h \in Int : (x * h) \div 100 \in Int
    OBVIOUS
  <1>3. \A x \in Int : WithHeadroom(r, x, b) \in Int
    BY <1>1, <1>2 DEF WithHeadroom, toInt64
  <1>4. DemandOf(in, r) \in Int
    BY <1>1 DEF DemandOf, wrap, larger
  <1>5. WithHeadroom(r, DemandOf(in, r), b) \in Int /\ WithHeadroom(r, in.used[r], b) \in Int
    BY <1>3, <1>4
  <1> QED BY <1>1, <1>5 DEF targetFor, larger

\* The cap keeps a shrink at or above the target and one step below the limit.
LEMMA CappedFacts ==
    ASSUME NEW r \in Resources, NEW in, NEW b, targetFor(in, r, b) \in Nat, in.hard[r] \in Nat
    PROVE  /\ Capped(in, r, b) \in Nat
           /\ Capped(in, r, b) >= targetFor(in, r, b)
           /\ Capped(in, r, b) * 100 > in.hard[r] * (100 - MaxShrinkStep) - 100
  <1> DEFINE n == in.hard[r] * (100 - MaxShrinkStep)
             t == targetFor(in, r, b)
  <1>1. n \in Nat
    BY SizingAssumption
  <1>2. Capped(in, r, b) = larger(t, n \div 100)
    BY DEF Capped
  <1>3. t \in Nat
    OBVIOUS
  <1> HIDE DEF n, t
  <1>4. n \div 100 \in Nat /\ (n \div 100) * 100 > n - 100
    BY <1>1
  <1>5. /\ larger(t, n \div 100) \in Nat /\ larger(t, n \div 100) >= t
        /\ larger(t, n \div 100) * 100 > n - 100
    BY <1>1, <1>3, <1>4 DEF larger
  <1> QED BY <1>2, <1>5 DEF n, t

-----------------------------------------------------------------------------
(* Decide *)

\* What a decision can be.
LEMMA DecideForm ==
    ASSUME NEW in, NEW g, NEW b, NEW d, d = Decide(in, g, b)
    PROVE  /\ d = [dir |-> d.dir, targets |-> d.targets] /\ d.dir \in {"none", "grow", "shrink"}
           /\ DOMAIN d.targets \subseteq Resources
           /\ \A r \in DOMAIN d.targets :
                 \/ d.dir = "grow" /\ d.targets[r] = Quantize(r, targetFor(in, r, b))
                 \/ d.dir = "shrink" /\ d.targets[r] = Quantize(r, Capped(in, r, b))
  <1> DEFINE growing   == {r \in Resources : Measurable(in, r) /\ Grows(in, r, b)}
             shrinking == {r \in Resources : Measurable(in, r) /\ Shrinks(in, r, b)}
             grow   == [dir |-> "grow",
                        targets |-> [r \in growing |-> Quantize(r, targetFor(in, r, b))]]
             shrink == [dir |-> "shrink",
                        targets |-> [r \in shrinking |-> Quantize(r, Capped(in, r, b))]]
             none   == [dir |-> "none", targets |-> <<>>]
  <1>1. growing \subseteq Resources /\ shrinking \subseteq Resources
    OBVIOUS
  <1>2. d = grow \/ d = shrink \/ d = none
    <2> DEFINE p == growing # {}
               q == growing = {} /\ shrinking # {} /\ g
    <2>1. d = CASE p -> grow [] q -> shrink [] OTHER -> none
      BY DEF Decide
    <2> HIDE DEF p, q, grow, shrink, none, growing, shrinking
    <2>2. ~(p /\ q)
      BY DEF p, q
    <2> QED BY <2>1, <2>2
  <1> HIDE DEF growing, shrinking
  <1>3. CASE d = grow
    BY <1>1, <1>3
  <1>4. CASE d = shrink
    BY <1>1, <1>4
  <1>5. CASE d = none
    BY <1>5
  <1> QED BY <1>2, <1>3, <1>4, <1>5

\* A key that grows makes the decision a grow, with a target for that key.
LEMMA GrowthDecides ==
    ASSUME NEW in, NEW g, NEW b, NEW r \in Resources, Measurable(in, r), Grows(in, r, b)
    PROVE  Decide(in, g, b).dir = "grow" /\ r \in DOMAIN Decide(in, g, b).targets
  <1> DEFINE growing   == {s \in Resources : Measurable(in, s) /\ Grows(in, s, b)}
             shrinking == {s \in Resources : Measurable(in, s) /\ Shrinks(in, s, b)}
             grow   == [dir |-> "grow",
                        targets |-> [s \in growing |-> Quantize(s, targetFor(in, s, b))]]
             shrink == [dir |-> "shrink",
                        targets |-> [s \in shrinking |-> Quantize(s, Capped(in, s, b))]]
             none   == [dir |-> "none", targets |-> <<>>]
  <1>1. r \in growing
    OBVIOUS
  <1>2. Decide(in, g, b) = CASE growing # {} -> grow
                             [] growing = {} /\ shrinking # {} /\ g -> shrink
                             [] OTHER -> none
    BY DEF Decide
  <1>3. grow.dir = "grow" /\ DOMAIN grow.targets = growing
    OBVIOUS
  <1> HIDE DEF growing, shrinking, grow, shrink, none
  <1>4. Decide(in, g, b) = grow
    BY <1>1, <1>2
  <1> QED BY <1>1, <1>3, <1>4

\* While the shrink gates are closed, the targets are those of the keys that
\* grow.
LEMMA OnlyGrowth ==
    ASSUME NEW in, NEW b
    PROVE  /\ DOMAIN Decide(in, FALSE, b).targets =
                 {r \in Resources : Measurable(in, r) /\ Grows(in, r, b)}
           /\ \A r \in DOMAIN Decide(in, FALSE, b).targets :
                 Decide(in, FALSE, b).targets[r] = Quantize(r, targetFor(in, r, b))
  <1> DEFINE growing   == {s \in Resources : Measurable(in, s) /\ Grows(in, s, b)}
             shrinking == {s \in Resources : Measurable(in, s) /\ Shrinks(in, s, b)}
             grow   == [dir |-> "grow",
                        targets |-> [s \in growing |-> Quantize(s, targetFor(in, s, b))]]
             shrink == [dir |-> "shrink",
                        targets |-> [s \in shrinking |-> Quantize(s, Capped(in, s, b))]]
             none   == [dir |-> "none", targets |-> <<>>]
  <1>1. Decide(in, FALSE, b) = CASE growing # {} -> grow
                                 [] growing = {} /\ shrinking # {} /\ FALSE -> shrink
                                 [] OTHER -> none
    BY DEF Decide
  <1>2. /\ DOMAIN grow.targets = growing /\ DOMAIN none.targets = {}
        /\ \A r \in growing : grow.targets[r] = Quantize(r, targetFor(in, r, b))
    OBVIOUS
  <1> HIDE DEF growing, shrinking, grow, shrink, none
  <1>3. CASE growing # {}
    <2>1. Decide(in, FALSE, b) = grow
      BY <1>1, <1>3
    <2> QED BY <1>2, <2>1 DEF growing
  <1>4. CASE growing = {}
    <2>1. Decide(in, FALSE, b) = none
      BY <1>1, <1>4
    <2> QED BY <1>2, <1>4, <2>1 DEF growing
  <1> QED BY <1>3, <1>4

-----------------------------------------------------------------------------
(* The tolerance band *)

\* The band Decide leaves alone is no wider than the headroom.
BandCovered == \A r \in Resources : Headroom[r] >= Tolerance

\* A demand above the limit, with at least the band's headroom, is above the
\* band.
LEMMA AboveBand ==
    ASSUME NEW x \in Nat, NEW y \in Nat, NEW h \in Nat, NEW b \in Nat, NEW t \in Nat,
           y < x, b <= h, t * 100 > x * (100 + h) - 100
    PROVE  t * 100 > y * (100 + b) /\ t > y
  <1>1. (y + 1) * (100 + h) <= x * (100 + h)
    BY MulMono
  <1>2. (y + 1) * (100 + h) = y * (100 + h) + 100 + h
    OBVIOUS
  <1>3. y * (100 + b) <= y * (100 + h)
    <2>1. (100 + b) * y <= (100 + h) * y
      BY MulMono
    <2> QED BY <2>1
  <1>4. y * 100 <= y * (100 + b)
    <2>1. 100 * y <= (100 + b) * y
      BY MulMono
    <2> QED BY <2>1
  <1>5. /\ x * (100 + h) \in Int /\ y * (100 + h) \in Int /\ y * (100 + b) \in Int
    OBVIOUS
  <1> QED BY <1>1, <1>2, <1>3, <1>4, <1>5
==============================================================================
