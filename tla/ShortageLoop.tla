---------------------------- MODULE ShortageLoop ----------------------------
(***************************************************************************)
(* The way from a Pod the quota refuses to the Pod running: workload       *)
(* controllers retry and leave FailedCreate events, mapEventToQuota        *)
(* enqueues the quota, Reconcile scans the events (collectDeficits) and    *)
(* proposes a grow, the pull request is merged and synced, and the next    *)
(* retry succeeds.  A replica's claims are created before its Pod and stay *)
(* when the Pod goes, and a Pod is charged until its grace period is over. *)
(* Event timestamps are compared with two instants only, the last recorded *)
(* change and an hour ago, so events holds those that still count;         *)
(* shrinking and the window are modelled in SizingLoop.                    *)
(***************************************************************************)
EXTENDS Deficits, Sizing

CONSTANTS
    InitialHard,         \* the limits the quota starts with
    Sizes,               \* what a workload may be scaled to, Deleted included
    Build,               \* what the processor makes of a float that is no int64
    MaxMoves, MaxFaults  \* bounds: changes people make, failures

\* A quota that limits one resource under two names is left out: its deficit
\* counts under one of them, and a target is written to both (applyChanges).
ASSUME ShortageAssumption ==
    /\ Resources \subseteq Range(KeyOrder)
    /\ \A k, l \in Resources : <<k, l>> \notin Aliases
    /\ InitialHard \in [Resources -> Nat \ {0}] /\ Build \in Builds
    /\ Sizes \subseteq Nat \cup {-1} /\ MaxMoves \in Nat /\ MaxFaults \in Nat

VARIABLES
    desired,  \* replicas each workload should have, Deleted when it is gone
    running,  \* replicas it has: Pods that are not about to go
    ending,   \* Pods in their grace period, which status.replicas leaves out
    claimed,  \* replicas whose claims exist
    used,     \* quota.Status.Used
    hard,     \* quota.Status.Hard in the cluster
    git,      \* the limits in the repository's main branch
    pr,       \* the pull request the Lease names: its limits, and its fate
    events,   \* FailedCreate events not older than the last change or an hour
    queued,   \* whether the work queue holds the quota
    cooling,  \* whether the grow cooldown runs
    moves, faults,
    demand    \* history: the most that was charged and lacking at one time

cluster == <<desired, running, ending, claimed>>
vars == <<cluster, used, hard, git, pr, events, queued, cooling, moves, faults, demand>>

Deleted == -1
NoPR == [fate |-> "none", targets |-> <<>>]

isObjectAlive(w) == desired[w] # Deleted

missing == [w \in Workloads |-> desired[w] - running[w]]

-----------------------------------------------------------------------------
(* The cluster *)

\* The entry of a container a quota key is charged with; storage is charged for
\* claims.
ChargedFor(k) ==
    CASE k \in {"cpu", "requests.cpu"}       -> <<"requests", "cpu">>
      [] k \in {"memory", "requests.memory"} -> <<"requests", "memory">>
      [] k = "limits.cpu"                    -> <<"limits", "cpu">>
      [] k = "limits.memory"                 -> <<"limits", "memory">>
      [] OTHER                               -> <<"requests", "gpu">>

Amount(list, res) == IF res \in DOMAIN list THEN list[res] ELSE 0

\* What admission charges for one Pod of w and its claims.
Charge ==
    [w \in Workloads |-> [k \in Resources |->
        LET t == Template[w]
            e == ChargedFor(k)
        IN  IF k = "requests.storage"
            THEN SumFunction([i \in DOMAIN t.claims |-> Amount(t.claims[i], "storage")])
            ELSE Max({SumFunction([i \in DOMAIN t.containers |-> Amount(t.containers[i][e[1]], e[2])])}
                        \cup {Amount(t.init[i][e[1]], e[2]) : i \in DOMAIN t.init})]]

Charged(replicas, k) == SumFunction([w \in Workloads |-> replicas[w] * Charge[w][k]])

\* What counts against the quota: claims as long as they exist, Pods until their
\* grace period is over.
Held(k) ==
    [w \in Workloads |-> IF k = "requests.storage" THEN claimed[w] ELSE running[w] + ending[w]]

Usage == [k \in Resources |-> Charged(Held(k), k)]

\* The replicas of w that events may stand for: those it lacks, or the one Pod
\* of an event that outlived the shortage.
Lacking(w) ==
    IF missing[w] > 0 THEN missing[w]
    ELSE IF \E e \in events : e.workload = w THEN 1 ELSE 0

Wanted(k) == used[k] + Charged([w \in Workloads |-> Lacking(w)], k)

\* The quota controller brings the usage up to date, and what is charged and
\* lacking now may be the most there ever was.
Account ==
    /\ used' = Usage'
    /\ demand' = [k \in Resources |-> larger(demand[k], Wanted(k)')]

\* The next replica of w starts with claims that are not there yet.
NeedsClaims(w) == Template[w].claims # <<>> /\ claimed[w] <= running[w]

\* What its next request names, and which keys that exceeds.
AskedFor(w) ==
    {k \in Resources : Charge[w][k] > 0 /\ (k = "requests.storage" <=> NeedsClaims(w))}

Exceeded(w) == {k \in AskedFor(w) : used[k] + Charge[w][k] > hard[k]}

FailedCreate(w) ==
    [workload |-> w, requested |-> [k \in Exceeded(w) |-> Charge[w][k]]]

CreateClaims(w) ==
    /\ missing[w] > 0 /\ NeedsClaims(w) /\ Exceeded(w) = {}
    /\ claimed' = [claimed EXCEPT ![w] = @ + 1]
    /\ UNCHANGED <<desired, running, ending, hard, git, pr, events, queued, cooling, moves, faults>>
    /\ Account

StartPod(w) ==
    /\ missing[w] > 0 /\ ~NeedsClaims(w) /\ Exceeded(w) = {}
    /\ running' = [running EXCEPT ![w] = @ + 1]
    /\ UNCHANGED <<desired, ending, claimed, hard, git, pr, events, queued, cooling, moves, faults>>
    /\ Account

\* Mutant: FailedCreate events are not filtered for an exceeded quota.
mapEventToQuota_AnyFailure(w) ==
    /\ missing[w] > 0
    /\ queued' = TRUE
    /\ UNCHANGED <<cluster, used, hard, git, pr, cooling, moves, faults, demand>>
    /\ events' = events \cup {FailedCreate(w)}

\* A refused Pod or claim: the event reaches the watch, and mapEventToQuota enqueues
\* the quota the message names.
mapEventToQuota(w) ==
    /\ missing[w] > 0 /\ Exceeded(w) # {}
    /\ queued' = TRUE
    /\ UNCHANGED <<cluster, used, hard, git, pr, cooling, moves, faults, demand>>
    /\ events' = events \cup {FailedCreate(w)}

\* Scaled, or deleted: the Pods that have to go get their grace period.
Scale(w, n) ==
    /\ moves < MaxMoves /\ moves' = moves + 1
    /\ isObjectAlive(w) /\ n # desired[w]
    /\ desired' = [desired EXCEPT ![w] = n]
    /\ running' = [running EXCEPT ![w] = Min({@, Max({n, 0})})]
    /\ ending' = [ending EXCEPT ![w] = @ + running[w] - running'[w]]
    /\ UNCHANGED <<claimed, hard, git, pr, events, queued, cooling, faults>>
    /\ Account

\* A Pod is deleted, or its node drained: it will be replaced.
Evict(w) ==
    /\ moves < MaxMoves /\ moves' = moves + 1
    /\ running[w] > 0
    /\ running' = [running EXCEPT ![w] = @ - 1]
    /\ ending' = [ending EXCEPT ![w] = @ + 1]
    /\ UNCHANGED <<desired, claimed, hard, git, pr, events, queued, cooling, faults>>
    /\ Account

PodGone(w) ==
    /\ ending[w] > 0
    /\ ending' = [ending EXCEPT ![w] = @ - 1]
    /\ UNCHANGED <<desired, running, claimed, hard, git, pr, events, queued, cooling, moves, faults>>
    /\ Account

\* Somebody deletes the claims of a replica that has no Pod.
ReleaseClaims(w) ==
    /\ moves < MaxMoves /\ moves' = moves + 1
    /\ claimed[w] > running[w] + ending[w]
    /\ claimed' = [claimed EXCEPT ![w] = @ - 1]
    /\ UNCHANGED <<desired, running, ending, hard, git, pr, events, queued, cooling, faults>>
    /\ Account

\* An event is an hour old: the queue has been served since.
EventAges(e) ==
    /\ ~queued /\ e \in events
    /\ events' = events \ {e}
    /\ UNCHANGED <<cluster, used, hard, git, pr, queued, cooling, moves, faults, demand>>

Merge ==
    /\ pr.fate = "open"
    /\ git' = applyChanges(git, pr.targets)
    /\ pr' = [pr EXCEPT !.fate = "merged"]
    /\ UNCHANGED <<cluster, used, hard, events, queued, cooling, moves, faults, demand>>

\* The GitOps tool applies the repository; the quota's update enqueues it.
Sync ==
    /\ hard # git
    /\ hard' = git
    /\ queued' = TRUE
    /\ UNCHANGED <<cluster, used, git, pr, events, cooling, moves, faults, demand>>

-----------------------------------------------------------------------------
(* The controller *)

\* handleActivePR on a merged pull request: the change is stamped, events
\* before the stamp no longer count, the cooldown starts.
Record ==
    /\ pr.fate = "merged"
    /\ pr' = NoPR
    /\ events' = {} /\ cooling' = TRUE
    /\ UNCHANGED <<cluster, used, hard, git, queued, moves, faults, demand>>

\* The sizing.Input of a reconcile that sees the events seen and can Get the
\* workloads readable.
input(seen, readable) ==
    [hard |-> hard, used |-> used, peak |-> [k \in Resources |-> 0],
     deficit |-> collectDeficits(hard, {e \in seen : isObjectAlive(e.workload)}, readable, missing)]

decision(in) == Decide(in, FALSE, Build)

\* Reconcile, when everything is read, when the List fails or the Get in
\* isObjectAlive does and events are skipped, or when the Get of one workload
\* fails afterwards.  A grow updates the open pull request, or opens one when
\* the cooldown is over.
Reconcile(seen, readable) ==
    /\ queued /\ pr.fate # "merged"
    /\ \/ seen = events /\ readable = Workloads /\ UNCHANGED faults
       \/ /\ faults < MaxFaults /\ faults' = faults + 1
          /\ seen # events \/ readable # Workloads
    /\ queued' = FALSE
    /\ UNCHANGED <<cluster, used, hard, git, events, cooling, moves, demand>>
    /\ \E in \in {input(seen, readable)} : \E d \in {decision(in)} :
              \/ /\ d.dir = "grow" /\ pr.fate = "none" /\ ~cooling
                 /\ pr' = [fate |-> "open", targets |-> d.targets]
              \/ /\ d.dir = "grow" /\ pr.fate = "open"
                 /\ pr' = [pr EXCEPT !.targets = applyChanges(@, d.targets)]
              \/ /\ d.dir # "grow" \/ (pr.fate = "none" /\ cooling)
                 /\ UNCHANGED pr

\* The cooldown ends; RequeueAfter was set to its remainder.
CooldownEnds ==
    /\ cooling
    /\ cooling' = FALSE /\ queued' = TRUE
    /\ UNCHANGED <<cluster, used, hard, git, pr, events, moves, faults, demand>>

Init ==
    /\ desired = [w \in Workloads |-> 0] /\ running = desired
    /\ ending = desired /\ claimed = desired
    /\ used = [k \in Resources |-> 0] /\ demand = used /\ hard = InitialHard /\ git = hard /\ pr = NoPR
    /\ events = {} /\ queued = FALSE /\ cooling = FALSE
    /\ moves = 0 /\ faults = 0

Next ==
    \/ \E w \in Workloads : CreateClaims(w) \/ StartPod(w) \/ mapEventToQuota(w)
    \/ \E w \in Workloads, n \in Sizes : Scale(w, n)
    \/ \E w \in Workloads : Evict(w) \/ PodGone(w) \/ ReleaseClaims(w)
    \/ \E e \in events : EventAges(e)
    \/ Merge \/ Sync \/ Record \/ CooldownEnds
    \/ \E seen \in SUBSET events : Reconcile(seen, Workloads)
    \/ \E w \in Workloads : Reconcile(events, Workloads \ {w})

Fairness ==
    /\ \A w \in Workloads : WF_vars(CreateClaims(w) \/ StartPod(w) \/ mapEventToQuota(w))
    /\ \A w \in Workloads : WF_vars(PodGone(w))
    /\ WF_vars(Reconcile(events, Workloads))
    /\ WF_vars(Merge) /\ WF_vars(Sync) /\ WF_vars(Record) /\ WF_vars(CooldownEnds)

Spec == Init /\ [][Next]_vars /\ Fairness

-----------------------------------------------------------------------------
\* Every variable has its type; a proposal names keys of the quota only, and an
\* event that counts names a key that was exceeded.
TypeOK ==
    /\ desired \in [Workloads -> Sizes \cup {0}] /\ running \in [Workloads -> Nat]
    /\ ending \in [Workloads -> Nat] /\ claimed \in [Workloads -> Nat]
    /\ used \in [Resources -> Nat] /\ hard \in [Resources -> Nat] /\ git \in [Resources -> Nat]
    /\ pr.fate \in {"none", "open", "merged"} /\ DOMAIN pr.targets \subseteq Resources
    /\ \A e \in events : e.workload \in Workloads /\ DOMAIN e.requested # {}
    /\ queued \in BOOLEAN /\ cooling \in BOOLEAN
    /\ moves \in 0 .. MaxMoves /\ faults \in 0 .. MaxFaults

Blocked == {w \in {e.workload : e \in events} : missing[w] > 0}

SeparateKeys(ws) ==
    \A v, w \in ws : WorkloadKey(Name[v]) = WorkloadKey(Name[w]) => v = w

\* What a blocked workload waits for; of a Job only one Pod is known.
Waiting(w, k) == (IF Kind[w] = "Job" THEN 1 ELSE missing[w]) * Charge[w][k]

\* Limits and what they have to cover are int64 milli-units.
Representable ==
    \A k \in Resources :
        hard[k] <= MaxInt /\ (Wanted(k) * (100 + Headroom[k])) \div 100 <= MaxInt

\* OPERATIONS.md 2.B, "when several deployments fail at once, the controller
\* sums their demand": what a full scan decides admits every missing replica of
\* every workload with an event, whatever mix of containers, init containers
\* and claims they have, as long as WorkloadKey tells them apart and nothing
\* overflows.
BurstCovered ==
    Representable /\ SeparateKeys(Blocked) =>
        \A targets \in {decision(input(events, Workloads)).targets}, k \in Resources :
            LET limit == IF k \in DOMAIN targets THEN targets[k] ELSE hard[k]
            IN  limit >= used[k] + SumFunction([w \in Blocked |-> Waiting(w, k)])

\* The most a limit may be: what was ever charged and lacking at one time, with
\* its headroom and rounded, its minimum, or what it was from the start.
Ample(k) ==
    larger(InitialHard[k],
           Quantize(k, larger(WithHeadroom(k, demand[k], MaxInt), MinLimit[k])))

\* collectDeficits, "retries of one workload must not accumulate": however
\* often Pods and claims are refused, events outlive the shortage they report,
\* proposals are rewritten and scans fail, no limit grows past what the cluster
\* charged and lacked at one time.  What is charged includes Pods that are about
\* to go and claims that outlive their Pods, and the deficit asks for both again.
NoRunaway ==
    \A k \in Resources :
        /\ git[k] <= Ample(k)
        /\ k \in DOMAIN pr.targets => pr.targets[k] <= Ample(k)

\* OPERATIONS.md 2.B, "the deficit raises the target immediately": a workload whose
\* Pods the quota refuses gets all its replicas, or is scaled to what it has,
\* when pull requests are merged and synced.
BlockedGetsIn ==
    \A w \in Workloads : (missing[w] > 0) ~> (missing[w] <= 0)

-----------------------------------------------------------------------------
(* What documentation says, and the code does not do. *)

\* OPERATIONS.md 4.E, "A reduction is always a deliberate human decision": no
\* merged grow takes a limit in the repository below what it was.
GrowNeverLowers == [][\A k \in Resources : git'[k] >= git[k]]_vars
=============================================================================
