----------------------------- MODULE SizingLoop -----------------------------
(***************************************************************************)
(* The control loop around sizing.Decide for one quota: decisions become   *)
(* pull requests, merged pull requests change the file in Git, the GitOps  *)
(* tool brings the file to the cluster, and the next decision starts from  *)
(* the limits it finds there, while demand moves and reviewers take their  *)
(* time.  The Lease protocol of Resizer is taken as given: at most one     *)
(* open pull request, known to the controller.                             *)
(***************************************************************************)
EXTENDS Sizing

CONSTANTS
    Limits, Usages, Peaks, Deficits,   \* initial limits, and where demand may move
    MaxMoves                           \* bound: how often demand moves

ASSUME LoopAssumption ==
    /\ Limits \subseteq Nat /\ Usages \subseteq Nat
    /\ Peaks \subseteq 0 .. MaxInt /\ Deficits \subseteq 0 .. MaxInt
    /\ MaxMoves \in Nat

VARIABLES
    build,     \* what out-of-range conversions yield on this processor
    hard,      \* quota.Status.Hard in the cluster
    git,       \* the limits in the repository's main branch
    pr,        \* the open pull request: direction and the limits it sets
    used, peak, deficit,   \* quota.Status.Used, Window.Peak, collectDeficits
    gatesOpen, \* shrinkGates: window, recent-grow and cooldown
    moves,     \* how often demand has moved
    cause      \* history: why each limit is what it is, see Blame

vars == <<build, hard, git, pr, used, peak, deficit, gatesOpen, moves, cause>>

NoPR == [dir |-> "none", targets |-> <<>>]

Dirs == {"none", "grow", "shrink"}

input(scanned) == [hard |-> hard, used |-> used, peak |-> peak,
                   deficit |-> IF scanned THEN deficit ELSE [r \in Resources |-> 0]]

decision(scanned) == Decide(input(scanned), gatesOpen, build)

Init ==
    /\ build \in Builds
    /\ hard \in [Resources -> Limits] /\ git = hard
    /\ pr = NoPR
    /\ used \in [Resources -> Usages] /\ peak \in [Resources -> Peaks]
    /\ deficit \in [Resources -> Deficits]
    /\ gatesOpen = FALSE
    /\ moves = 0
    /\ cause = [where \in {"pr", "git", "hard"} |-> [r \in Resources |-> "none"]]

\* History: for every place a limit can be, the direction of the decision that
\* put it there, as long as the demand it was computed for has not moved.
Blame(targets, dir) == [r \in DOMAIN targets |-> dir]

\* handleNewProposal; a shrink is suppressed when the event scan failed.  The
\* proposal is stamped on the Lease, which closes a shrink gate either way.
Propose(scanned) ==
    LET d == decision(scanned)
    IN  /\ pr = NoPR /\ d.dir # "none"
        /\ d.dir = "shrink" => scanned
        /\ pr' = d
        /\ gatesOpen' = FALSE
        /\ cause' = [cause EXCEPT !["pr"] = applyChanges([r \in Resources |-> "none"],
                                                         Blame(d.targets, d.dir))]
        /\ UNCHANGED <<build, hard, git, used, peak, deficit, moves>>

\* handleActivePR on a grow: UpdatePR edits the file on the branch, where
\* limits an earlier decision raised stay raised.
Update(scanned) ==
    LET d == decision(scanned)
    IN  /\ pr.dir = "grow" /\ d.dir = "grow"
        /\ pr' = [pr EXCEPT !.targets = applyChanges(@, d.targets)]
        /\ cause' = [cause EXCEPT !["pr"] = applyChanges(@, Blame(d.targets, "grow"))]
        /\ UNCHANGED <<build, hard, git, used, peak, deficit, gatesOpen, moves>>

\* handleActivePR: growth supersedes an open shrink, whose end is stamped.
Supersede(scanned) ==
    /\ pr.dir = "shrink" /\ decision(scanned).dir = "grow"
    /\ pr' = NoPR /\ gatesOpen' = FALSE
    /\ UNCHANGED <<build, hard, git, used, peak, deficit, moves, cause>>

\* A reviewer closes the pull request, or a shrink expires: only the end of a
\* shrink is stamped.
Abandon ==
    /\ pr # NoPR
    /\ pr' = NoPR
    /\ gatesOpen' = (gatesOpen /\ pr.dir = "grow")
    /\ UNCHANGED <<build, hard, git, used, peak, deficit, moves, cause>>

\* Merged, by a reviewer or automatically.
Merge ==
    /\ pr # NoPR
    /\ git' = applyChanges(git, pr.targets)
    /\ pr' = NoPR
    /\ gatesOpen' = FALSE
    /\ cause' = [cause EXCEPT !["git"] =
                    applyChanges(@, [r \in DOMAIN pr.targets |-> cause["pr"][r]])]
    /\ UNCHANGED <<build, hard, used, peak, deficit, moves>>

\* The GitOps tool applies the repository.
Sync ==
    /\ hard # git
    /\ hard' = git
    /\ cause' = [cause EXCEPT !["hard"] = cause["git"]]
    /\ UNCHANGED <<build, git, pr, used, peak, deficit, gatesOpen, moves>>

\* A full window has been observed and the cooldowns are over.
GatesOpen ==
    /\ ~gatesOpen
    /\ gatesOpen' = TRUE
    /\ UNCHANGED <<build, hard, git, pr, used, peak, deficit, moves, cause>>

DemandMoves(r, u, p, d) ==
    /\ moves < MaxMoves /\ moves' = moves + 1
    /\ used' = [used EXCEPT ![r] = u]
    /\ peak' = [peak EXCEPT ![r] = p]
    /\ deficit' = [deficit EXCEPT ![r] = d]
    /\ cause' = [where \in DOMAIN cause |-> [cause[where] EXCEPT ![r] = "none"]]
    /\ UNCHANGED <<build, hard, git, pr, gatesOpen>>

Next ==
    \/ \E scanned \in BOOLEAN : Propose(scanned) \/ Update(scanned) \/ Supersede(scanned)
    \/ Abandon \/ Merge \/ Sync \/ GatesOpen
    \/ \E r \in Resources, u \in Usages, p \in Peaks, d \in Deficits : DemandMoves(r, u, p, d)

\* The GitOps tool keeps applying; reviewers and demand owe nothing.
Spec == Init /\ [][Next]_vars /\ WF_vars(Sync)

-----------------------------------------------------------------------------
\* Every variable has its type: limits in Git, in the cluster and in a pull
\* request are natural numbers, whatever targetFor computed.
TypeOK ==
    /\ build \in Builds
    /\ hard \in [Resources -> Nat] /\ git \in [Resources -> Nat]
    /\ pr.dir \in Dirs /\ DOMAIN pr.targets \subseteq Resources
    /\ \A r \in DOMAIN pr.targets : pr.targets[r] \in Nat
    /\ used \in [Resources -> Usages] /\ peak \in [Resources -> Peaks]
    /\ deficit \in [Resources -> Deficits]
    /\ gatesOpen \in BOOLEAN /\ moves \in 0 .. MaxMoves
    /\ cause \in [{"pr", "git", "hard"} -> [Resources -> Dirs]]

\* OPERATIONS.md 3, "Hard floor" and "Shrink step cap": a shrink is proposed
\* only to a limit that holds current usage plus headroom, the window's peak
\* and the configured minimum, and takes at most one step off the limit.
HardFloor ==
    [][pr' # pr /\ pr'.dir = "shrink" =>
         \A r \in DOMAIN pr'.targets :
            /\ pr'.targets[r] * 100 > larger(used[r], peak[r]) * (100 + Headroom[r]) - 100
            /\ pr'.targets[r] >= MinLimit[r]
            /\ pr'.targets[r] * 100 > hard[r] * (100 - MaxShrinkStep) - 100]_vars

\* OPERATIONS.md 3, "rules out flapping between grow and shrink structurally":
\* while demand stays, no limit that a grow put in place is then shrunk, and
\* none that a shrink put in place is then grown, rounding, step caps, stale
\* pull requests and slow syncs notwithstanding.
NoFlapping ==
    \A r \in Resources :
        Measurable(input(TRUE), r) =>
            /\ cause["hard"][r] = "grow" => ~Shrinks(input(TRUE), r, build)
            /\ cause["hard"][r] = "shrink" => ~Grows(input(TRUE), r, build)

Exhausted(r) == deficit[r] > 0 /\ used[r] + deficit[r] > hard[r]

\* OPERATIONS.md 2.B: a workload the quota cannot take (usage and deficit
\* exceed the limit) leads to a grow decision for that key.
ShortageTriggersGrow ==
    \A r \in Resources :
        Exhausted(r) => decision(TRUE).dir = "grow" /\ r \in DOMAIN decision(TRUE).targets

\* Demand that has stopped moving is matched by finitely many merged pull
\* requests: steps, rounding and the band leave nothing to propose forever.
MergesEnd == <>[][~Merge]_vars
=============================================================================
