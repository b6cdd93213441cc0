---------------------------- MODULE SizingProofs ----------------------------
(***************************************************************************)
(* Theorems about sizing.Decide and the loop around it, for every policy,  *)
(* every unit and any quantities whose products fit into an int64.         *)
(***************************************************************************)
EXTENDS SizingLoop, SizingFacts

\* Everything demand may be, with headroom, is an int64.
InRange ==
    \A r \in Resources, u \in Usages, p \in Peaks, d \in Deficits \cup {0} :
        /\ u + d <= MaxInt
        /\ (larger(p, u + d) * (100 + Headroom[r])) \div 100 <= MaxInt

\* In range, the target of a decision is that of exact arithmetic.
LEMMA LoopTarget ==
    ASSUME InRange, NEW r \in Resources, NEW in, NEW b \in Int,
           in.used[r] \in Usages, in.peak[r] \in Peaks, in.deficit[r] \in Deficits \cup {0}
    PROVE  /\ targetFor(in, r, b) = Target(r, in.used[r], in.peak[r], in.deficit[r])
           /\ targetFor(in, r, b) \in Nat
  <1>1. Usages \subseteq Nat /\ Peaks \subseteq Nat /\ Deficits \cup {0} \subseteq Nat
    <2>1. MaxInt \in Nat
      BY SizingAssumption
    <2> QED BY <2>1, LoopAssumption
  <1>2. /\ in.used[r] + in.deficit[r] <= MaxInt
        /\ Exact(r, Demand(in.used[r], in.peak[r], in.deficit[r])) <= MaxInt
    BY DEF InRange, Exact, Demand
  <1> QED BY <1>1, <1>2, TargetForm

-----------------------------------------------------------------------------
(* The loop *)

\* The place a limit is in says what is known of it: a grow put in no more
\* than the present target rounded up, a shrink no less than the present target.
PresentTarget(r) == Target(r, used[r], peak[r], deficit[r])

Explained(limit, why, r) ==
    /\ why = "grow" => limit <= Quantize(r, PresentTarget(r))
    /\ why = "shrink" => limit >= PresentTarget(r)

CauseInv ==
    \A r \in Resources :
        /\ Explained(hard[r], cause["hard"][r], r)
        /\ Explained(git[r], cause["git"][r], r)
        /\ r \in DOMAIN pr.targets => Explained(pr.targets[r], cause["pr"][r], r)

LoopInv == TypeOK /\ pr = [dir |-> pr.dir, targets |-> pr.targets]

LEMMA LoopConstants ==
    /\ Limits \subseteq Nat /\ Usages \subseteq Nat /\ Peaks \subseteq Nat
    /\ Deficits \cup {0} \subseteq Nat /\ Builds \subseteq Int
  <1>1. MaxInt \in Nat
    BY SizingAssumption
  <1> QED BY <1>1, LoopAssumption DEF Builds, MinInt

\* The demand a decision sees.
LEMMA InputFacts ==
    ASSUME TypeOK, NEW scanned \in BOOLEAN, NEW r \in Resources
    PROVE  /\ input(scanned).hard[r] = hard[r] /\ input(scanned).hard[r] \in Nat
           /\ input(scanned).used[r] = used[r] /\ used[r] \in Usages
           /\ input(scanned).peak[r] = peak[r] /\ peak[r] \in Peaks
           /\ input(scanned).deficit[r] = IF scanned THEN deficit[r] ELSE 0
           /\ deficit[r] \in Deficits /\ input(scanned).deficit[r] \in Deficits \cup {0}
  BY DEF TypeOK, input

\* What a decision is in a state of the loop.
LEMMA DecisionFacts ==
    ASSUME TypeOK, NEW scanned \in BOOLEAN, NEW d, d = decision(scanned)
    PROVE  /\ d = [dir |-> d.dir, targets |-> d.targets] /\ d.dir \in Dirs
           /\ DOMAIN d.targets \subseteq Resources
           /\ \A r \in DOMAIN d.targets :
                 /\ d.targets[r] \in Nat
                 /\ \/ /\ d.dir = "grow"
                       /\ d.targets[r] = Quantize(r, targetFor(input(scanned), r, build))
                    \/ /\ d.dir = "shrink"
                       /\ d.targets[r] = Quantize(r, Capped(input(scanned), r, build))
  <1>1. /\ d = [dir |-> d.dir, targets |-> d.targets] /\ d.dir \in Dirs
        /\ DOMAIN d.targets \subseteq Resources
        /\ \A r \in DOMAIN d.targets :
              \/ /\ d.dir = "grow"
                 /\ d.targets[r] = Quantize(r, targetFor(input(scanned), r, build))
              \/ /\ d.dir = "shrink"
                 /\ d.targets[r] = Quantize(r, Capped(input(scanned), r, build))
    BY DecideForm DEF decision, Dirs
  <1>2. ASSUME NEW r \in Resources
        PROVE  /\ Quantize(r, targetFor(input(scanned), r, build)) \in Nat
               /\ Quantize(r, Capped(input(scanned), r, build)) \in Nat
    <2>1. /\ input(scanned).used[r] \in Nat /\ input(scanned).peak[r] \in Nat
          /\ input(scanned).deficit[r] \in Nat /\ input(scanned).hard[r] \in Nat
      BY InputFacts, LoopConstants
    <2>2. build \in Int
      BY LoopConstants DEF TypeOK
    <2>3. targetFor(input(scanned), r, build) \in Nat
      BY <2>1, <2>2, TargetNat
    <2>4. Capped(input(scanned), r, build) \in Nat
      BY <2>1, <2>3, CappedFacts
    <2> QED BY <2>3, <2>4, QuantizeFacts
  <1> QED BY <1>1, <1>2

\* Editing limits on a branch or merging them keeps their type.
LEMMA ApplyFacts ==
    ASSUME NEW content, NEW limits, NEW e, e = applyChanges(content, limits)
    PROVE  /\ DOMAIN e = DOMAIN content \cup DOMAIN limits
           /\ e = [r \in DOMAIN e |-> e[r]]
           /\ \A r \in DOMAIN e : e[r] = IF r \in DOMAIN limits THEN limits[r] ELSE content[r]
  BY DEF applyChanges

LEMMA NoPRFacts ==
    /\ NoPR = [dir |-> NoPR.dir, targets |-> NoPR.targets]
    /\ NoPR.dir \in Dirs /\ NoPR.dir # "shrink" /\ DOMAIN NoPR.targets = {}
  BY DEF NoPR, Dirs

LEMMA LoopInit ==
    Init => LoopInv /\ CauseInv
  <1> SUFFICES ASSUME Init PROVE LoopInv /\ CauseInv
    OBVIOUS
  <1>1. pr = NoPR /\ pr.dir = "none" /\ DOMAIN pr.targets = {}
    BY DEF Init, NoPR
  <1>2. TypeOK
    <2>1. build \in Builds /\ hard \in [Resources -> Nat] /\ git \in [Resources -> Nat]
      BY LoopConstants DEF Init
    <2>2. cause \in [{"pr", "git", "hard"} -> [Resources -> Dirs]]
      BY DEF Init, Dirs
    <2>3. gatesOpen \in BOOLEAN
      BY DEF Init
    <2>5. moves \in 0 .. MaxMoves
      BY LoopAssumption DEF Init
    <2>4. /\ used \in [Resources -> Usages] /\ peak \in [Resources -> Peaks]
          /\ deficit \in [Resources -> Deficits]
      BY DEF Init
    <2> QED BY <1>1, <2>1, <2>2, <2>3, <2>4, <2>5 DEF TypeOK, Dirs
  <1>3. CauseInv
    BY <1>1 DEF Init, CauseInv, Explained
  <1> QED BY <1>1, <1>2, <1>3 DEF LoopInv, NoPR

\* Every step keeps the types, whatever overflows.
LEMMA LoopStep ==
    LoopInv /\ [Next]_vars => LoopInv'
  <1> SUFFICES ASSUME LoopInv, [Next]_vars PROVE LoopInv'
    OBVIOUS
  <1> USE DEF LoopInv
  <1>1. ASSUME NEW scanned \in BOOLEAN, Propose(scanned) PROVE LoopInv'
    <2> DEFINE d == decision(scanned)
    <2>1. /\ d = [dir |-> d.dir, targets |-> d.targets] /\ d.dir \in Dirs
          /\ DOMAIN d.targets \subseteq Resources
          /\ \A r \in DOMAIN d.targets : d.targets[r] \in Nat
      BY DecisionFacts
    <2>2. /\ pr' = d
          /\ cause' = [cause EXCEPT !["pr"] = applyChanges([r \in Resources |-> "none"],
                                                           Blame(d.targets, d.dir))]
          /\ UNCHANGED <<build, hard, git, used, peak, deficit, moves>>
      BY <1>1 DEF Propose
    <2>5. gatesOpen' \in BOOLEAN
      BY <1>1 DEF Propose
    <2> HIDE DEF d
    <2>3. applyChanges([r \in Resources |-> "none"], Blame(d.targets, d.dir))
             \in [Resources -> Dirs]
      BY <2>1, ApplyFacts DEF applyChanges, Blame, Dirs
    <2>4. cause' \in [{"pr", "git", "hard"} -> [Resources -> Dirs]]
      BY <2>2, <2>3 DEF TypeOK
    <2> QED BY <2>1, <2>2, <2>4, <2>5 DEF TypeOK
  <1>2. ASSUME NEW scanned \in BOOLEAN, Update(scanned) PROVE LoopInv'
    <2> DEFINE d == decision(scanned)
               t == applyChanges(pr.targets, d.targets)
               c == applyChanges(cause["pr"], Blame(d.targets, "grow"))
    <2>1. /\ DOMAIN d.targets \subseteq Resources
          /\ \A r \in DOMAIN d.targets : d.targets[r] \in Nat
      BY DecisionFacts
    <2>2. /\ pr' = [pr EXCEPT !.targets = t]
          /\ cause' = [cause EXCEPT !["pr"] = c]
          /\ UNCHANGED <<build, hard, git, used, peak, deficit, gatesOpen, moves>>
      BY <1>2 DEF Update
    <2>3. DOMAIN t \subseteq Resources /\ \A r \in DOMAIN t : t[r] \in Nat
      BY <2>1 DEF applyChanges, TypeOK
    <2>4. c \in [Resources -> Dirs]
      BY <2>1 DEF applyChanges, TypeOK, Blame, Dirs
    <2> HIDE DEF d, t, c
    <2>5. pr' = [dir |-> pr.dir, targets |-> t]
      BY <2>2
    <2>6. cause' \in [{"pr", "git", "hard"} -> [Resources -> Dirs]]
      BY <2>2, <2>4 DEF TypeOK
    <2> QED BY <2>2, <2>3, <2>5, <2>6 DEF TypeOK
  <1>3. ASSUME NEW scanned \in BOOLEAN, Supersede(scanned) PROVE LoopInv'
    <2>1. gatesOpen' \in BOOLEAN
      BY <1>3 DEF Supersede
    <2> QED BY <1>3, <2>1, NoPRFacts DEF Supersede, TypeOK
  <1>4. CASE Abandon
    <2>1. gatesOpen' \in BOOLEAN
      BY <1>4 DEF Abandon
    <2> QED BY <1>4, <2>1, NoPRFacts DEF Abandon, TypeOK
  <1>5. CASE Merge
    <2>1. applyChanges(git, pr.targets) \in [Resources -> Nat]
      BY DEF applyChanges, TypeOK
    <2> DEFINE c == applyChanges(cause["git"], [r \in DOMAIN pr.targets |-> cause["pr"][r]])
    <2>2. c \in [Resources -> Dirs]
      BY DEF applyChanges, TypeOK
    <2>3. cause' = [cause EXCEPT !["git"] = c]
      BY <1>5 DEF Merge
    <2> HIDE DEF c
    <2>4. cause' \in [{"pr", "git", "hard"} -> [Resources -> Dirs]]
      BY <2>2, <2>3 DEF TypeOK
    <2>5. gatesOpen' \in BOOLEAN
      BY <1>5 DEF Merge
    <2> QED BY <1>5, <2>1, <2>4, <2>5, NoPRFacts DEF Merge, TypeOK
  <1>6. CASE Sync
    BY <1>6 DEF Sync, TypeOK
  <1>7. CASE GatesOpen
    BY <1>7 DEF GatesOpen, TypeOK
  <1>8. ASSUME NEW r \in Resources, NEW u \in Usages, NEW p \in Peaks, NEW d \in Deficits,
               DemandMoves(r, u, p, d)
        PROVE  LoopInv'
    <2>1. \A where \in DOMAIN cause : [cause[where] EXCEPT ![r] = "none"] \in [Resources -> Dirs]
      BY DEF TypeOK, Dirs
    <2>2. cause' \in [{"pr", "git", "hard"} -> [Resources -> Dirs]]
      BY <1>8, <2>1 DEF DemandMoves, TypeOK
    <2>3. moves' \in 0 .. MaxMoves
      BY <1>8, LoopAssumption DEF DemandMoves, TypeOK
    <2> QED BY <1>8, <2>2, <2>3 DEF DemandMoves, TypeOK
  <1>9. CASE UNCHANGED vars
    BY <1>9 DEF vars, TypeOK
  <1> QED BY <1>1, <1>2, <1>3, <1>4, <1>5, <1>6, <1>7, <1>8, <1>9 DEF Next

\* Type correctness: every limit the loop proposes, merges or applies is a
\* natural number, also when a product in targetFor leaves the int64 range.
THEOREM LoopTypeCorrect == Spec => []TypeOK
  <1>1. LoopInv => TypeOK
    BY DEF LoopInv
  <1> QED BY <1>1, LoopInit, LoopStep, PTL DEF Spec

-----------------------------------------------------------------------------
(* The targets behind the limits *)

\* A grow raises a limit to at most the present target rounded up, a shrink
\* based on a complete scan leaves at least the present target and at most one
\* step less than the limit.
LEMMA ProposalFacts ==
    ASSUME InRange, TypeOK, NEW scanned \in BOOLEAN, NEW d, d = decision(scanned),
           NEW r \in DOMAIN d.targets
    PROVE  /\ r \in Resources /\ d.targets[r] \in Nat /\ PresentTarget(r) \in Nat
           /\ d.dir \in {"grow", "shrink"}
           /\ d.dir = "grow" => d.targets[r] <= Quantize(r, PresentTarget(r))
           /\ d.dir = "shrink" /\ scanned =>
                 /\ d.targets[r] >= PresentTarget(r)
                 /\ d.targets[r] * 100 > hard[r] * (100 - MaxShrinkStep) - 100
  <1> DEFINE in == input(scanned)
             T  == PresentTarget(r)
             t  == targetFor(in, r, build)
             c  == Capped(in, r, build)
  <1>1. /\ r \in Resources /\ d.targets[r] \in Nat
        /\ \/ d.dir = "grow" /\ d.targets[r] = Quantize(r, t)
           \/ d.dir = "shrink" /\ d.targets[r] = Quantize(r, c)
    BY DecisionFacts
  <1>2. /\ in.hard[r] = hard[r] /\ hard[r] \in Nat
        /\ in.used[r] = used[r] /\ in.peak[r] = peak[r]
        /\ in.deficit[r] = IF scanned THEN deficit[r] ELSE 0
        /\ in.used[r] \in Usages /\ in.peak[r] \in Peaks /\ in.deficit[r] \in Deficits \cup {0}
        /\ used[r] \in Nat /\ peak[r] \in Nat /\ deficit[r] \in Nat
    BY <1>1, InputFacts, LoopConstants
  <1>3. build \in Int
    BY LoopConstants DEF TypeOK
  <1>4. t = Target(r, in.used[r], in.peak[r], in.deficit[r]) /\ t \in Nat
    BY <1>1, <1>2, <1>3, LoopTarget
  <1>5. T \in Nat /\ t <= T /\ (scanned => t = T)
    <2>1. T = Target(r, used[r], peak[r], deficit[r])
      BY DEF PresentTarget
    <2> HIDE DEF T, t, in
    <2>2. T \in Nat /\ Target(r, used[r], peak[r], 0) <= T
      <3>1. r \in Resources /\ used[r] \in Nat /\ peak[r] \in Nat /\ deficit[r] \in Nat
        BY <1>1, <1>2
      <3>2. /\ Target(r, used[r], peak[r], deficit[r]) \in Nat
            /\ Target(r, used[r], peak[r], 0) <= Target(r, used[r], peak[r], deficit[r])
        BY <3>1, TargetFacts
      <3> QED BY <2>1, <3>2
    <2>3. t = Target(r, used[r], peak[r], IF scanned THEN deficit[r] ELSE 0)
      BY <1>2, <1>4
    <2>4. CASE scanned
      BY <2>1, <2>2, <2>3, <2>4
    <2>5. CASE ~scanned
      BY <2>2, <2>3, <2>5
    <2> QED BY <2>4, <2>5
  <1>6. c \in Nat /\ c >= t /\ c * 100 > hard[r] * (100 - MaxShrinkStep) - 100
    BY <1>1, <1>2, <1>4, CappedFacts
  <1> HIDE DEF in, T, t, c
  <1>7. Quantize(r, t) <= Quantize(r, T)
    BY <1>1, <1>4, <1>5, QuantizeFacts
  <1>8. Quantize(r, c) \in Nat /\ Quantize(r, c) >= c
    BY <1>1, <1>6, QuantizeFacts
  <1>9. hard[r] * (100 - MaxShrinkStep) \in Int
    BY <1>2, SizingAssumption
  <1>10. ASSUME d.targets[r] = Quantize(r, c), scanned
         PROVE  /\ d.targets[r] >= T
                /\ d.targets[r] * 100 > hard[r] * (100 - MaxShrinkStep) - 100
    <2>1. \A q, x, n \in Int : q >= x /\ x * 100 > n - 100 => q * 100 > n - 100
      OBVIOUS
    <2>2. Quantize(r, c) * 100 > hard[r] * (100 - MaxShrinkStep) - 100
      BY <1>6, <1>8, <1>9, <2>1
    <2>3. Quantize(r, c) >= T
      BY <1>4, <1>5, <1>6, <1>8, <1>10
    <2> QED BY <1>10, <2>2, <2>3
  <1> QED BY <1>1, <1>5, <1>7, <1>10 DEF T

\* Every step keeps what is known of the limits: one that moves demand forgets
\* it for the resource whose demand has moved.
LEMMA CauseStep ==
    InRange /\ LoopInv /\ CauseInv /\ [Next]_vars => CauseInv'
  <1> SUFFICES ASSUME InRange, LoopInv, CauseInv, [Next]_vars PROVE CauseInv'
    OBVIOUS
  <1>a. TypeOK /\ pr = [dir |-> pr.dir, targets |-> pr.targets]
    BY DEF LoopInv
  <1>b. \A r \in Resources :
            /\ Explained(hard[r], cause["hard"][r], r)
            /\ Explained(git[r], cause["git"][r], r)
            /\ r \in DOMAIN pr.targets => Explained(pr.targets[r], cause["pr"][r], r)
    BY DEF CauseInv
  <1>c. ASSUME UNCHANGED <<used, peak, deficit>>,
               \A r \in Resources :
                  /\ Explained(hard'[r], cause'["hard"][r], r)
                  /\ Explained(git'[r], cause'["git"][r], r)
                  /\ r \in DOMAIN pr'.targets => Explained(pr'.targets[r], cause'["pr"][r], r)
        PROVE  CauseInv'
    BY <1>c DEF CauseInv, Explained, PresentTarget
  <1>d. cause \in [{"pr", "git", "hard"} -> [Resources -> Dirs]]
    BY <1>a DEF TypeOK
  <1>1. ASSUME NEW scanned \in BOOLEAN, Propose(scanned) PROVE CauseInv'
    <2> DEFINE d == decision(scanned)
               c == applyChanges([r \in Resources |-> "none"], Blame(d.targets, d.dir))
    <2>1. /\ pr' = d /\ (d.dir = "shrink" => scanned)
          /\ cause' = [cause EXCEPT !["pr"] = c]
          /\ UNCHANGED <<build, hard, git, used, peak, deficit, moves>>
      BY <1>1 DEF Propose
    <2>2. \A r \in DOMAIN d.targets : c[r] = d.dir
      BY DEF applyChanges, Blame
    <2>3. \A r \in DOMAIN d.targets : Explained(d.targets[r], d.dir, r)
      BY <1>a, <2>1, ProposalFacts DEF Explained
    <2> HIDE DEF d, c
    <2>4. cause'["pr"] = c /\ cause'["git"] = cause["git"] /\ cause'["hard"] = cause["hard"]
      BY <1>d, <2>1
    <2> QED BY <1>b, <1>c, <2>1, <2>2, <2>3, <2>4
  <1>2. ASSUME NEW scanned \in BOOLEAN, Update(scanned) PROVE CauseInv'
    <2> DEFINE d == decision(scanned)
               t == applyChanges(pr.targets, d.targets)
               c == applyChanges(cause["pr"], Blame(d.targets, "grow"))
    <2>1. /\ pr' = [pr EXCEPT !.targets = t] /\ d.dir = "grow"
          /\ cause' = [cause EXCEPT !["pr"] = c]
          /\ UNCHANGED <<build, hard, git, used, peak, deficit, gatesOpen, moves>>
      BY <1>2 DEF Update
    <2>2. \A r \in DOMAIN d.targets : r \in Resources /\ Explained(d.targets[r], "grow", r)
      BY <1>a, <2>1, ProposalFacts DEF Explained
    <2>3. \A r \in Resources : r \in DOMAIN t =>
             \/ r \in DOMAIN d.targets /\ t[r] = d.targets[r] /\ c[r] = "grow"
             \/ r \in DOMAIN pr.targets /\ t[r] = pr.targets[r] /\ c[r] = cause["pr"][r]
      BY <1>d DEF applyChanges, Blame
    <2> HIDE DEF d, t, c
    <2>4. cause'["pr"] = c /\ cause'["git"] = cause["git"] /\ cause'["hard"] = cause["hard"]
      BY <1>d, <2>1
    <2>5. pr'.targets = t
      BY <1>a, <2>1
    <2>6. \A r \in Resources : r \in DOMAIN t => Explained(t[r], c[r], r)
      BY <1>b, <2>2, <2>3
    <2> QED BY <1>b, <1>c, <2>1, <2>4, <2>5, <2>6
  <1>3. ASSUME NEW scanned \in BOOLEAN, Supersede(scanned) PROVE CauseInv'
    BY <1>3, <1>b, <1>c, NoPRFacts DEF Supersede
  <1>4. CASE Abandon
    BY <1>4, <1>b, <1>c, NoPRFacts DEF Abandon
  <1>5. CASE Merge
    <2> DEFINE g == applyChanges(git, pr.targets)
               c == applyChanges(cause["git"], [r \in DOMAIN pr.targets |-> cause["pr"][r]])
    <2>1. /\ git' = g /\ pr' = NoPR /\ cause' = [cause EXCEPT !["git"] = c]
          /\ UNCHANGED <<hard, used, peak, deficit>>
      BY <1>5 DEF Merge
    <2>2. \A r \in Resources :
             \/ r \in DOMAIN pr.targets /\ g[r] = pr.targets[r] /\ c[r] = cause["pr"][r]
             \/ g[r] = git[r] /\ c[r] = cause["git"][r]
      BY <1>a, <1>d DEF applyChanges, TypeOK
    <2> HIDE DEF g, c
    <2>3. cause'["git"] = c /\ cause'["hard"] = cause["hard"]
      BY <1>d, <2>1
    <2>4. \A r \in Resources : Explained(g[r], c[r], r)
      BY <1>b, <2>2
    <2> QED BY <1>b, <1>c, <2>1, <2>3, <2>4, NoPRFacts
  <1>6. CASE Sync
    <2>1. cause'["pr"] = cause["pr"] /\ cause'["git"] = cause["git"] /\ cause'["hard"] = cause["git"]
      BY <1>6, <1>d DEF Sync
    <2> QED BY <1>6, <1>b, <1>c, <2>1 DEF Sync
  <1>7. CASE GatesOpen
    BY <1>7, <1>b, <1>c DEF GatesOpen
  <1>8. ASSUME NEW r \in Resources, NEW u \in Usages, NEW p \in Peaks, NEW d \in Deficits,
               DemandMoves(r, u, p, d)
        PROVE  CauseInv'
    <2>1. \A where \in {"pr", "git", "hard"} :
             /\ cause'[where][r] = "none"
             /\ \A s \in Resources \ {r} : cause'[where][s] = cause[where][s]
      BY <1>8, <1>d DEF DemandMoves
    <2>2. \A s \in Resources \ {r} : used'[s] = used[s] /\ peak'[s] = peak[s] /\ deficit'[s] = deficit[s]
      BY <1>8, <1>a DEF DemandMoves, TypeOK
    <2>3. UNCHANGED <<hard, git, pr>>
      BY <1>8 DEF DemandMoves
    <2> SUFFICES ASSUME NEW s \in Resources
                 PROVE  /\ Explained(hard[s], cause["hard"][s], s)'
                        /\ Explained(git[s], cause["git"][s], s)'
                        /\ (s \in DOMAIN pr.targets)' => Explained(pr.targets[s], cause["pr"][s], s)'
      BY DEF CauseInv
    <2>4. CASE s = r
      BY <2>1, <2>4 DEF Explained
    <2>5. CASE s # r
      <3>1. PresentTarget(s)' = PresentTarget(s)
        BY <2>2, <2>5 DEF PresentTarget
      <3> QED BY <1>b, <2>1, <2>3, <2>5, <3>1 DEF Explained
    <2> QED BY <2>4, <2>5
  <1>9. CASE UNCHANGED vars
    BY <1>9, <1>b, <1>c DEF vars
  <1> QED BY <1>1, <1>2, <1>3, <1>4, <1>5, <1>6, <1>7, <1>8, <1>9 DEF Next

\* While demand stays, no limit a grow put in place is shrunk and none a shrink
\* put in place is grown, for every policy and unit, if demand with headroom is
\* an int64: a grow stops at the target rounded up, which no step cap goes
\* below, and a shrink stops at the target or above.
THEOREM NeverFlapping == InRange => (Spec => []NoFlapping)
  <1> SUFFICES ASSUME InRange PROVE Spec => []NoFlapping
    OBVIOUS
  <1>1. LoopInv /\ CauseInv => NoFlapping
    <2> SUFFICES ASSUME LoopInv, CauseInv, NEW r \in Resources
                 PROVE  /\ cause["hard"][r] = "grow" => ~Shrinks(input(TRUE), r, build)
                        /\ cause["hard"][r] = "shrink" => ~Grows(input(TRUE), r, build)
      BY DEF NoFlapping
    <2> DEFINE in == input(TRUE)
               t == targetFor(in, r, build)
               c == Capped(in, r, build)
    <2>1. TypeOK /\ Explained(hard[r], cause["hard"][r], r)
      BY DEF LoopInv, CauseInv
    <2>2. /\ in.hard[r] = hard[r] /\ hard[r] \in Nat
          /\ in.used[r] = used[r] /\ in.peak[r] = peak[r] /\ in.deficit[r] = deficit[r]
          /\ in.used[r] \in Usages /\ in.peak[r] \in Peaks /\ in.deficit[r] \in Deficits \cup {0}
      BY <2>1, InputFacts
    <2>3. build \in Int
      BY <2>1, LoopConstants DEF TypeOK
    <2>4. t = PresentTarget(r) /\ t \in Nat
      BY <2>2, <2>3, LoopTarget DEF PresentTarget
    <2>5. c \in Nat /\ c >= t
      BY <2>2, <2>4, CappedFacts
    <2>6. Quantize(r, t) \in Nat /\ Quantize(r, c) \in Nat /\ Quantize(r, t) <= Quantize(r, c)
      BY <2>4, <2>5, QuantizeFacts
    <2>7. Shrinks(in, r, build) => Quantize(r, c) < hard[r]
      BY <2>2 DEF Shrinks
    <2>8. Grows(in, r, build) => t * 100 > hard[r] * (100 + Tolerance)
      BY <2>2 DEF Grows
    <2> HIDE DEF in, t, c
    <2>9. ASSUME cause["hard"][r] = "grow" PROVE ~Shrinks(in, r, build)
      <3>1. hard[r] <= Quantize(r, t)
        BY <2>1, <2>4, <2>9 DEF Explained
      <3> QED BY <2>2, <2>6, <2>7, <3>1
    <2>10. ASSUME cause["hard"][r] = "shrink" PROVE ~Grows(in, r, build)
      <3>1. hard[r] >= t
        BY <2>1, <2>4, <2>10 DEF Explained
      <3>2. hard[r] * (100 + Tolerance) >= hard[r] * 100
        BY <2>2, SizingAssumption
      <3>3. hard[r] * (100 + Tolerance) \in Int
        BY <2>2, SizingAssumption
      <3> QED BY <2>2, <2>4, <2>8, <3>1, <3>2, <3>3
    <2> QED BY <2>9, <2>10 DEF in
  <1>2. CauseInv /\ LoopInv /\ [Next]_vars => CauseInv'
    BY CauseStep
  <1> QED BY <1>1, <1>2, LoopInit, LoopStep, PTL DEF Spec

\* A shrink is proposed only to limits that hold usage and peak with headroom
\* and the configured minimum, and takes at most one step off a limit, if demand
\* with headroom is an int64.
THEOREM ShrinkAboveFloor == InRange => (Spec => HardFloor)
  <1> SUFFICES ASSUME InRange PROVE Spec => HardFloor
    OBVIOUS
  <1> DEFINE Floor == pr' # pr /\ pr'.dir = "shrink" =>
                 \A r \in DOMAIN pr'.targets :
                    /\ pr'.targets[r] * 100 > larger(used[r], peak[r]) * (100 + Headroom[r]) - 100
                    /\ pr'.targets[r] >= MinLimit[r]
                    /\ pr'.targets[r] * 100 > hard[r] * (100 - MaxShrinkStep) - 100
  <1>1. LoopInv /\ [Next]_vars => [Floor]_vars
    <2> SUFFICES ASSUME LoopInv, Next, pr' # pr, pr'.dir = "shrink"
                 PROVE  \A r \in DOMAIN pr'.targets :
                    /\ pr'.targets[r] * 100 > larger(used[r], peak[r]) * (100 + Headroom[r]) - 100
                    /\ pr'.targets[r] >= MinLimit[r]
                    /\ pr'.targets[r] * 100 > hard[r] * (100 - MaxShrinkStep) - 100
      OBVIOUS
    <2>1. TypeOK
      BY DEF LoopInv
    <2>2. PICK scanned \in BOOLEAN : Propose(scanned)
      <3>1. \A scanned \in BOOLEAN : ~Update(scanned)
        BY DEF Update, LoopInv
      <3>2. ~Abandon /\ ~Merge /\ \A scanned \in BOOLEAN : ~Supersede(scanned)
        BY NoPRFacts DEF Abandon, Merge, Supersede
      <3>3. ~Sync /\ ~GatesOpen
        BY DEF Sync, GatesOpen
      <3>4. \A r \in Resources, u \in Usages, p \in Peaks, d \in Deficits : ~DemandMoves(r, u, p, d)
        BY DEF DemandMoves
      <3> QED BY <3>1, <3>2, <3>3, <3>4 DEF Next
    <2> DEFINE d == decision(scanned)
    <2>3. pr' = d /\ d.dir = "shrink" /\ scanned
      BY <2>2 DEF Propose
    <2> SUFFICES ASSUME NEW r \in DOMAIN d.targets
                 PROVE  /\ d.targets[r] * 100 > larger(used[r], peak[r]) * (100 + Headroom[r]) - 100
                        /\ d.targets[r] >= MinLimit[r]
                        /\ d.targets[r] * 100 > hard[r] * (100 - MaxShrinkStep) - 100
      BY <2>3
    <2>4. /\ r \in Resources /\ d.targets[r] \in Nat /\ PresentTarget(r) \in Nat
          /\ d.targets[r] >= PresentTarget(r)
          /\ d.targets[r] * 100 > hard[r] * (100 - MaxShrinkStep) - 100
      BY <2>1, <2>3, ProposalFacts
    <2>5. used[r] \in Nat /\ peak[r] \in Nat /\ deficit[r] \in Nat
      BY <2>1, <2>4, LoopConstants DEF TypeOK
    <2>6. /\ PresentTarget(r) >= MinLimit[r]
          /\ PresentTarget(r) * 100 > larger(used[r], peak[r]) * (100 + Headroom[r]) - 100
      BY <2>4, <2>5, TargetFacts DEF PresentTarget
    <2>7. MinLimit[r] \in Nat /\ larger(used[r], peak[r]) * (100 + Headroom[r]) \in Int
      BY <2>4, <2>5, SizingAssumption DEF larger
    <2>8. \A q, x, n \in Int : q >= x /\ x * 100 > n - 100 => q * 100 > n - 100
      OBVIOUS
    <2>9. d.targets[r] * 100 > larger(used[r], peak[r]) * (100 + Headroom[r]) - 100
      BY <2>4, <2>6, <2>7, <2>8
    <2> HIDE DEF d
    <2> QED BY <2>4, <2>6, <2>7, <2>9
  <1> QED BY <1>1, LoopInit, LoopStep, PTL DEF Spec, HardFloor

-----------------------------------------------------------------------------
(* Shortages *)

\* Every key starts with a limit and has a minimum.
Floored == 0 \notin Limits /\ \A r \in Resources : MinLimit[r] > 0

\* No limit, in the cluster, in Git or proposed, is zero.
NonZero ==
    /\ \A r \in Resources : hard[r] > 0 /\ git[r] > 0
    /\ \A r \in DOMAIN pr.targets : pr.targets[r] > 0

\* Every limit a decision sets is at least the minimum, also after overflow.
LEMMA TargetsFloored ==
    ASSUME Floored, TypeOK, NEW scanned \in BOOLEAN, NEW d, d = decision(scanned),
           NEW r \in DOMAIN d.targets
    PROVE  d.targets[r] > 0
  <1> DEFINE in == input(scanned)
             t  == targetFor(in, r, build)
             c  == Capped(in, r, build)
  <1>1. /\ r \in Resources
        /\ d.targets[r] = Quantize(r, t) \/ d.targets[r] = Quantize(r, c)
    BY DecisionFacts
  <1>2. /\ in.used[r] \in Nat /\ in.peak[r] \in Nat /\ in.deficit[r] \in Nat
        /\ in.hard[r] \in Nat
    BY <1>1, InputFacts, LoopConstants
  <1>3. build \in Int /\ MinLimit[r] \in Nat /\ MinLimit[r] > 0
    BY <1>1, LoopConstants, SizingAssumption DEF TypeOK, Floored
  <1>4. t \in Nat
    BY <1>1, <1>2, <1>3, TargetNat
  <1>5. t >= MinLimit[r]
    <2> DEFINE x == larger(WithHeadroom(r, DemandOf(in, r), build), WithHeadroom(r, in.used[r], build))
    <2>1. t = larger(x, MinLimit[r])
      BY DEF targetFor
    <2> HIDE DEF x, t
    <2> QED BY <1>3, <1>4, <2>1 DEF larger
  <1>6. c \in Nat /\ c >= t
    BY <1>1, <1>2, <1>4, CappedFacts
  <1> HIDE DEF in, t, c
  <1>7. /\ Quantize(r, t) \in Nat /\ Quantize(r, t) >= t
        /\ Quantize(r, c) \in Nat /\ Quantize(r, c) >= c
    BY <1>1, <1>4, <1>6, QuantizeFacts
  <1> QED BY <1>1, <1>3, <1>4, <1>5, <1>6, <1>7

LEMMA NonZeroStep ==
    Floored /\ LoopInv /\ NonZero /\ [Next]_vars => NonZero'
  <1> SUFFICES ASSUME Floored, LoopInv, NonZero, [Next]_vars PROVE NonZero'
    OBVIOUS
  <1>0. TypeOK
    BY DEF LoopInv
  <1>1. ASSUME NEW scanned \in BOOLEAN, Propose(scanned) PROVE NonZero'
    <2> DEFINE d == decision(scanned)
    <2>1. \A r \in DOMAIN d.targets : d.targets[r] > 0
      BY <1>0, TargetsFloored
    <2>2. pr' = d /\ UNCHANGED <<hard, git>>
      BY <1>1 DEF Propose
    <2> HIDE DEF d
    <2> QED BY <2>1, <2>2 DEF NonZero
  <1>2. ASSUME NEW scanned \in BOOLEAN, Update(scanned) PROVE NonZero'
    <2> DEFINE d == decision(scanned)
               t == applyChanges(pr.targets, d.targets)
    <2>1. \A r \in DOMAIN d.targets : d.targets[r] > 0
      BY <1>0, TargetsFloored
    <2>2. pr' = [pr EXCEPT !.targets = t] /\ UNCHANGED <<hard, git>>
      BY <1>2 DEF Update
    <2>3. \A r \in DOMAIN t : t[r] > 0
      BY <2>1 DEF applyChanges, NonZero
    <2> HIDE DEF d, t
    <2>4. pr' = [dir |-> pr.dir, targets |-> t]
      BY <2>2 DEF LoopInv
    <2> QED BY <2>2, <2>3, <2>4 DEF NonZero
  <1>3. ASSUME NEW scanned \in BOOLEAN, Supersede(scanned) PROVE NonZero'
    BY <1>3, NoPRFacts DEF Supersede, NonZero
  <1>4. CASE Abandon
    BY <1>4, NoPRFacts DEF Abandon, NonZero
  <1>5. CASE Merge
    <2>1. \A r \in Resources : applyChanges(git, pr.targets)[r] > 0
      BY <1>0 DEF applyChanges, NonZero, TypeOK
    <2> QED BY <1>5, <2>1, NoPRFacts DEF Merge, NonZero
  <1>6. CASE Sync \/ GatesOpen \/ UNCHANGED vars
    BY <1>6 DEF Sync, GatesOpen, vars, NonZero
  <1>7. ASSUME NEW r \in Resources, NEW u \in Usages, NEW p \in Peaks, NEW d \in Deficits,
               DemandMoves(r, u, p, d)
        PROVE  NonZero'
    BY <1>7 DEF DemandMoves, NonZero
  <1> QED BY <1>1, <1>2, <1>3, <1>4, <1>5, <1>6, <1>7 DEF Next

\* A workload the quota cannot take leads to a grow for that key, with every
\* policy whose headroom is at least the tolerance, if demand with headroom is
\* an int64 and no key can be shrunk to nothing: then no limit is ever zero,
\* and what is missing is never inside the band.
THEOREM EveryShortageGrows ==
    InRange /\ BandCovered /\ Floored => (Spec => []ShortageTriggersGrow)
  <1> SUFFICES ASSUME InRange, BandCovered, Floored PROVE Spec => []ShortageTriggersGrow
    OBVIOUS
  <1>1. Init => NonZero
    <2> SUFFICES ASSUME Init PROVE NonZero
      OBVIOUS
    <2>1. DOMAIN pr.targets = {}
      BY NoPRFacts DEF Init
    <2>2. \A l \in Limits : l > 0
      BY LoopConstants DEF Floored
    <2>3. \A r \in Resources : hard[r] \in Limits /\ git[r] \in Limits
      BY DEF Init
    <2> QED BY <2>1, <2>2, <2>3 DEF NonZero
  <1>2. LoopInv /\ NonZero => ShortageTriggersGrow
    <2> SUFFICES ASSUME LoopInv, NonZero, NEW r \in Resources, Exhausted(r)
                 PROVE  decision(TRUE).dir = "grow" /\ r \in DOMAIN decision(TRUE).targets
      BY DEF ShortageTriggersGrow
    <2> DEFINE in == input(TRUE)
               t  == targetFor(in, r, build)
    <2>1. TypeOK
      BY DEF LoopInv
    <2>2. /\ in.hard[r] = hard[r] /\ hard[r] \in Nat /\ hard[r] > 0
          /\ in.used[r] = used[r] /\ in.peak[r] = peak[r] /\ in.deficit[r] = deficit[r]
          /\ in.used[r] \in Usages /\ in.peak[r] \in Peaks /\ in.deficit[r] \in Deficits \cup {0}
          /\ used[r] \in Nat /\ peak[r] \in Nat /\ deficit[r] \in Nat
      BY <2>1, InputFacts, LoopConstants DEF NonZero
    <2>3. build \in Int /\ MaxInt \in Nat /\ Headroom[r] \in Nat /\ Tolerance \in Nat
          /\ MinLimit[r] \in Nat /\ Tolerance <= Headroom[r]
      BY <2>1, LoopConstants, SizingAssumption DEF TypeOK, BandCovered
    <2>4. t = Target(r, used[r], peak[r], deficit[r]) /\ t \in Nat
      BY <2>2, <2>3, LoopTarget
    <2> DEFINE x == Demand(used[r], peak[r], deficit[r])
    <2>5. x \in Nat /\ hard[r] < x /\ used[r] + deficit[r] <= MaxInt
          /\ hard[r] < used[r] + deficit[r]
      <3>1. used[r] + deficit[r] <= MaxInt
        BY <2>2 DEF InRange
      <3> QED BY <2>2, <3>1 DEF Exhausted, Demand, larger
    <2>6. t >= Exact(r, x) /\ Exact(r, x) \in Nat
          /\ Exact(r, x) * 100 > x * (100 + Headroom[r]) - 100
      <3>1. Exact(r, x) \in Nat /\ Exact(r, x) * 100 > x * (100 + Headroom[r]) - 100
        BY <2>5, ExactFacts
      <3>2. t = larger(Exact(r, x), MinLimit[r])
        BY <2>4 DEF Target
      <3> HIDE DEF x, t
      <3> QED BY <2>3, <3>1, <3>2 DEF larger
    <2> HIDE DEF in, t, x
    <2>7. t * 100 > x * (100 + Headroom[r]) - 100
      <3>1. \A q, e, n \in Int : q >= e /\ e * 100 > n - 100 => q * 100 > n - 100
        OBVIOUS
      <3>2. x * (100 + Headroom[r]) \in Int
        BY <2>3, <2>5
      <3> QED BY <2>4, <2>6, <3>1, <3>2
    <2>8. t * 100 > hard[r] * (100 + Tolerance) /\ t > hard[r]
      BY <2>2, <2>3, <2>4, <2>5, <2>7, AboveBand
    <2>9. Quantize(r, t) > hard[r]
      <3>1. Quantize(r, t) \in Nat /\ Quantize(r, t) >= t
        BY <2>4, QuantizeFacts
      <3> QED BY <2>2, <2>4, <2>8, <3>1
    <2>10. Grows(in, r, build)
      BY <2>2, <2>8, <2>9 DEF Grows, t
    <2>11. Measurable(in, r)
      BY <2>2, <2>3, <2>5 DEF Measurable, overflowsMilliValue
    <2> QED BY <2>10, <2>11, GrowthDecides DEF decision, in
  <1>3. LoopInv /\ NonZero /\ [Next]_vars => NonZero'
    BY NonZeroStep
  <1> QED BY <1>1, <1>2, <1>3, LoopInit, LoopStep, PTL DEF Spec
=============================================================================
