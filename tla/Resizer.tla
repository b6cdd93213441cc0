------------------------------- MODULE Resizer -------------------------------
(***************************************************************************)
(* The proposal life cycle of namespace-resizer: one reconcile worker      *)
(* (internal/controller), the state Lease behind an informer cache         *)
(* (internal/lock) and the pull requests of the GitHub provider            *)
(* (internal/git), with the people who merge or close pull requests, the   *)
(* clock, transient failures and crashes as the environment.               *)
(*                                                                         *)
(* The worker reads Leases through the informer cache (stale reads) and    *)
(* writes them through the API server (optimistic concurrency).  Because   *)
(* every write needs the latest resourceVersion, the cache is never more   *)
(* than one write behind, so the boolean synced[l] stands for "the cached  *)
(* resourceVersion is the current one".                                    *)
(***************************************************************************)
EXTENDS QuotaState, FiniteSets

CONSTANTS
    GrowCooldown, ShrinkCooldown, ShrinkPRTTL,  \* sizing.Policy durations
    WindowSpan,                                 \* Policy.WindowDays as a duration
    ShrinkEnabled, EnableAutoMerge,             \* --enable-shrink, --enable-auto-merge
    MaxPR, MaxTime, MaxFaults,                  \* bounds: pull requests, clock, failures
    KeepHistory                                 \* whether hist is kept up to date

ASSUME PolicyAssumption ==
    /\ GrowCooldown \in Nat /\ ShrinkCooldown \in Nat
    /\ ShrinkPRTTL \in Nat /\ WindowSpan \in Nat
    /\ ShrinkEnabled \in BOOLEAN /\ EnableAutoMerge \in BOOLEAN

ASSUME BoundAssumption ==
    MaxPR \in Nat /\ MaxTime \in Nat /\ MaxFaults \in Nat /\ KeepHistory \in BOOLEAN

VARIABLES
    lease,   \* API server: the Lease of every lease name
    cache,   \* informer cache of the manager's client
    synced,  \* whether cache[l] carries the current resourceVersion
    prs,     \* GitHub: every pull request the controller ever opened
    now,     \* the clock
    demand,  \* what Decide would find for each quota, shrink gates aside
    faults,  \* failures so far
    pc,      \* where the running reconcile is, "idle" between reconciles
    cur,     \* the quota being reconciled
    st,      \* lock.State returned by GetState
    dec,     \* sizing.Decision.Direction
    mut,     \* the MutateState call in progress
    hist     \* history: when locks were last released, see RecordRelease

kube   == <<lease, cache, synced>>
local  == <<pc, cur, st, dec, mut>>
vars   == <<lease, cache, synced, prs, now, demand, faults, local, hist>>

\* How much the quota has, against what it needs.
Demands == {"short", "fit", "over"}

Fates == {"open", "botMerged", "humanMerged", "botClosed", "humanClosed"}

\* A pull request: the quota and direction its branch name encodes, what its
\* branch would do to the quota when merged, and whether GitHub's reads
\* already reflect its fate.
PullRequest == [quota : Quotas, dir : Directions, content : Directions,
                created : Nat, fate : Fates, settled : BOOLEAN]

PCs == {"idle", "ensure", "write", "read", "status", "close", "merge", "update",
        "find", "create", "label", "unlabelled"}

\* Every variable has its type; the Lease, the cache and the State a reconcile
\* works on hold directions the code knows.
TypeOK ==
    /\ lease \in [Leases -> State] /\ cache \in [Leases -> State]
    /\ synced \in [Leases -> BOOLEAN]
    /\ prs \in Seq(PullRequest)
    /\ now \in Nat \ {0}
    /\ demand \in [Quotas -> Demands]
    /\ faults \in Nat
    /\ pc \in PCs /\ cur \in Quotas /\ st \in State
    /\ dec \in Directions \cup {"none"} /\ mut \in Mutations
    /\ hist \in [Leases -> [shrink : Nat, grow : Nat, merge : Nat]]

Init ==
    /\ lease = [l \in Leases |-> NoLease] /\ cache = lease
    /\ synced = [l \in Leases |-> TRUE]
    /\ prs = <<>>
    /\ now = 1
    /\ demand \in [Quotas -> Demands]
    /\ faults = 0
    /\ pc = "idle" /\ cur \in Quotas /\ st = NoLease /\ dec = "none" /\ mut = NoMutation
    /\ hist = [l \in Leases |-> [shrink |-> Zero, grow |-> Zero, merge |-> Zero]]

-----------------------------------------------------------------------------
Merged(n)       == prs[n].fate \in {"botMerged", "humanMerged"}
ReportedOpen(n) == prs[n].fate = "open" \/ ~prs[n].settled

\* Give pull request n its fate, unless it already has one.
End(n, f) ==
    prs' = IF prs[n].fate = "open"
           THEN [prs EXCEPT ![n] = [@ EXCEPT !.fate = f, !.settled = FALSE]]
           ELSE prs

\* Reconcile returns; nothing of its local state survives.
Return ==
    /\ pc' = "idle" /\ st' = NoLease /\ dec' = "none" /\ mut' = NoMutation
    /\ UNCHANGED cur

Goto(where) == pc' = where /\ UNCHANGED <<cur, st, dec, mut>>

MutateState(m) == pc' = "ensure" /\ mut' = m /\ UNCHANGED <<cur, st, dec>>

Fault == faults < MaxFaults /\ faults' = faults + 1

theLease == getLeaseName(cur)

-----------------------------------------------------------------------------
(***************************************************************************)
(* Reconcile, up to Observer.Observe: quota and namespace are read and the *)
(* sample is folded in; the window is written when a peak rose, a day      *)
(* began or the heartbeat elapsed, which this module leaves open.  A quota *)
(* that is gone or opted out returns before touching any of this state.    *)
(***************************************************************************)
Reconcile(q) ==
    /\ pc = "idle"
    /\ cur' = q
    /\ UNCHANGED <<st, dec>>
    /\ \/ pc' = "ensure" /\ mut' = [NoMutation EXCEPT !.kind = "window"]
       \/ pc' = "read" /\ UNCHANGED mut
    /\ UNCHANGED <<kube, prs, now, demand, faults, hist>>

\* MutateState, ensureLeaseExists: create the Lease when the cache lacks it
\* (AlreadyExists is fine).
ensureLeaseExists ==
    /\ pc = "ensure"
    /\ IF cache[theLease].exists \/ lease[theLease].exists
       THEN UNCHANGED kube
       ELSE /\ lease' = [lease EXCEPT ![theLease] = FreshLease]
            /\ synced' = [synced EXCEPT ![theLease] = FALSE]
            /\ UNCHANGED cache
    /\ Goto("write")
    /\ UNCHANGED <<prs, now, demand, faults, hist>>

\* What the release of a lock leaves in the history, old being the lock:
\* the end of a shrink, the merge of a grow, and any merge.
RecordRelease(old) ==
    LET held  == old.prid # 0 /\ mut.kind \in {"release", "closed"}
        merge == old.prid # 0 /\ (mut.kind = "merged" \/ (mut.kind = "release" /\ mut.merged))
        h     == hist[theLease]
    IN  hist' = IF ~KeepHistory THEN hist ELSE [hist EXCEPT ![theLease] =
          [shrink |-> IF held /\ old.dir = "shrink" THEN mut.at ELSE h.shrink,
           grow   |-> IF merge /\ old.dir = "grow" THEN mut.at ELSE h.grow,
           merge  |-> IF merge THEN mut.at ELSE h.merge]]

\* Get, fn, Update inside RetryOnConflict: the Update goes through once the
\* cached resourceVersion is the current one.
UpdateLease ==
    /\ pc = "write"
    /\ cache[theLease].exists /\ synced[theLease]
    /\ lease' = [lease EXCEPT ![theLease] = ApplyFn(mut, cache[theLease], now)]
    /\ synced' = [synced EXCEPT ![theLease] = FALSE]
    /\ RecordRelease(cache[theLease])
    /\ UNCHANGED <<cache, prs, now, demand>>

\* MutateState returns nil: Observe goes on to GetState, every other caller
\* returns from Reconcile.
WriteLease ==
    /\ UpdateLease
    /\ IF mut.kind = "window"
       THEN pc' = "read" /\ mut' = NoMutation /\ UNCHANGED <<cur, st, dec>>
       ELSE Return
    /\ UNCHANGED faults

\* The Update took effect, its response was lost.
WriteLeaseLost == UpdateLease /\ Return /\ Fault

\* The Lease just created is not in the cache yet: the Get inside MutateState
\* fails with NotFound, which RetryOnConflict does not retry.
WriteLeaseNotFound ==
    /\ pc = "write" /\ ~cache[theLease].exists
    /\ Return
    /\ UNCHANGED <<kube, prs, now, demand, faults, hist>>

\* Any call that returns an error without effect, MutateState running out of
\* conflict retries included: Reconcile returns the error.
CallFails ==
    /\ pc \in {"ensure", "write", "read", "status", "close", "update", "find", "create", "unlabelled"}
    /\ Return
    /\ Fault
    /\ UNCHANGED <<kube, prs, now, demand, hist>>

-----------------------------------------------------------------------------
\* sizing.shrinkGates on the stamps of the State read from the Lease.
shrinkGatesOpen(s, complete) ==
    /\ ShrinkEnabled
    /\ complete
    /\ s.lastGrow = Zero \/ now >= s.lastGrow + WindowSpan
    /\ s.lastShrink = Zero \/ now >= s.lastShrink + ShrinkCooldown

\* The direction of sizing.Decide.
Decide(seen, s, complete) ==
    CASE seen = "short"                              -> "grow"
      [] seen = "over" /\ shrinkGatesOpen(s, complete) -> "shrink"
      [] OTHER                                       -> "none"

\* Without the event deficits the target can only be understated.
Understated(d) == CASE d = "short" -> Demands
                    [] d = "fit"   -> {"fit", "over"}
                    [] OTHER       -> {"over"}

\* GetState, collectDeficits, Decide, and the branch Reconcile takes.
GetStateAndDecide ==
    /\ pc = "read"
    /\ \E scanFailed, complete \in BOOLEAN, seen \in Demands :
        /\ IF scanFailed THEN seen \in Understated(demand[cur]) /\ Fault
                         ELSE seen = demand[cur] /\ UNCHANGED faults
        /\ LET s == cache[theLease]
               d == Decide(seen, s, complete)
           IN IF s.prid = 0 /\ (d = "none" \/ (d = "shrink" /\ scanFailed))
              THEN Return
              ELSE /\ pc' = IF s.prid # 0 THEN "status" ELSE "find"
                   /\ st' = s /\ dec' = d
                   /\ UNCHANGED <<cur, mut>>
    /\ UNCHANGED <<kube, prs, now, demand, hist>>

-----------------------------------------------------------------------------
(* handleActivePR *)

\* Mutants: the TTL, the supersede rule forgotten.
shrinkPRShouldClose_NoTTL(pr) == dec = "grow"
shrinkPRShouldClose_NoSupersede(pr) == now > pr.created + ShrinkPRTTL

shrinkPRShouldClose(pr) ==
    dec = "grow" \/ now > pr.created + ShrinkPRTTL

\* The fields of git.PRStatus the auto-merge gate looks at.
MergeStatus == [mergeable : BOOLEAN, state : {"clean", "blocked", "unknown", "dirty"},
                checks : {"success", "pending"}, checksTotal : 0 .. 1]

canAttemptMerge(status) ==
    /\ status.mergeable
    /\ \/ status.state = "clean"
       \/ status.state = "blocked" /\ (status.checks = "success" \/ status.checksTotal = 0)

\* The switch at the end of handleActivePR: only a grow rewrites the branch.
UpdateIfGrow == IF dec = "grow" THEN Goto("update") ELSE Return

\* GetPRStatus and the branch taken on it; optOut is the auto-merge annotation.
GetPRStatus ==
    /\ pc = "status"
    /\ LET isOpen    == ReportedOpen(st.prid)
           mustClose == st.dir = "shrink" /\ shrinkPRShouldClose(prs[st.prid])
       IN  \/ /\ ~isOpen
              /\ MutateState([NoMutation EXCEPT !.kind = "release",
                                                !.merged = Merged(st.prid), !.at = now])
           \/ isOpen /\ mustClose /\ Goto("close")
           \/ /\ isOpen /\ ~mustClose
              /\ \E status \in MergeStatus, optOut \in BOOLEAN :
                    LET shouldAutoMerge == EnableAutoMerge /\ st.dir # "shrink" /\ ~optOut
                    IN  \/ shouldAutoMerge /\ status.state = "unknown" /\ Return
                        \/ shouldAutoMerge /\ canAttemptMerge(status) /\ Goto("merge")
                        \/ /\ shouldAutoMerge => /\ status.state # "unknown"
                                                 /\ ~canAttemptMerge(status)
                           /\ UpdateIfGrow
    /\ UNCHANGED <<kube, prs, now, demand, faults, hist>>

\* ClosePR on a superseded or expired shrink; a pull request that was merged
\* or closed meanwhile keeps its fate and the call still succeeds.
ClosePR ==
    /\ pc = "close"
    /\ End(st.prid, "botClosed")
    /\ \/ MutateState([NoMutation EXCEPT !.kind = "closed", !.at = now]) /\ UNCHANGED faults
       \/ Return /\ Fault
    /\ UNCHANGED <<kube, now, demand, hist>>

\* MergePR.  GitHub refuses to merge what is not open, and may refuse what is;
\* an error, a lost response included, does not end the reconcile.
MergePR ==
    /\ pc = "merge"
    /\ \/ /\ prs[st.prid].fate = "open"
          /\ End(st.prid, "botMerged")
          /\ \/ MutateState([NoMutation EXCEPT !.kind = "merged", !.at = now]) /\ UNCHANGED faults
             \/ UpdateIfGrow /\ Fault
       \/ UpdateIfGrow /\ UNCHANGED <<prs, faults>>
    /\ UNCHANGED <<kube, now, demand, hist>>

\* UpdatePR commits the new targets to the branch, or finds no quota file.
UpdatePR ==
    /\ pc = "update"
    /\ \/ /\ prs[st.prid].fate = "open"
          /\ prs' = [prs EXCEPT ![st.prid].content = dec]
       \/ UNCHANGED prs
    /\ Return
    /\ UNCHANGED <<kube, now, demand, faults, hist>>

-----------------------------------------------------------------------------
(* handleNewProposal *)

\* The grow cooldown; the shrink cooldown is a gate of Decide.
CoolingDown == dec = "grow" /\ st.lastModified # Zero /\ now < st.lastModified + GrowCooldown

\* Mutant: no orphan recovery before creating.
FindOpenPR_Skipped ==
    /\ pc = "find"
    /\ Return \/ (~CoolingDown /\ Goto("create"))
    /\ UNCHANGED <<kube, prs, now, demand, faults, hist>>

\* FindOpenPR by the branch prefix of this quota: adopt what it finds, else
\* stop on a no-op or the cooldown, else create.
FindOpenPR ==
    /\ pc = "find"
    /\ LET found == {n \in DOMAIN prs : prs[n].quota = cur /\ ReportedOpen(n)}
       IN  IF found # {}
           THEN \E n \in found :
                    MutateState([NoMutation EXCEPT !.kind = "adopt", !.prid = n,
                                                   !.dir = prs[n].dir])
           ELSE Return \/ (~CoolingDown /\ Goto("create"))
    /\ UNCHANGED <<kube, prs, now, demand, faults, hist>>

\* CreatePR up to PullRequests.Create: no quota file, created, or created with
\* the response lost.
CreatePR ==
    /\ pc = "create"
    /\ \/ Return /\ UNCHANGED <<prs, faults>>
       \/ /\ Len(prs) < MaxPR
          /\ prs' = Append(prs, [quota |-> cur, dir |-> dec, content |-> dec,
                                 created |-> now, fate |-> "open", settled |-> TRUE])
          /\ \/ /\ pc' = "label"
                /\ mut' = [NoMutation EXCEPT !.kind = "acquire", !.prid = Len(prs) + 1,
                                             !.dir = dec]
                /\ UNCHANGED <<cur, st, dec, faults>>
             \/ Return /\ Fault
    /\ UNCHANGED <<kube, now, demand, hist>>

\* Mutant: a grow whose labels fail is taken back as well.
AddLabels_TakesBackGrow ==
    /\ pc = "label"
    /\ \/ Goto("ensure") /\ UNCHANGED faults
       \/ Goto("unlabelled") /\ Fault
    /\ UNCHANGED <<kube, prs, now, demand, hist>>

\* addLabels: a grow whose labels fail is kept, a shrink is taken back.
AddLabels ==
    /\ pc = "label"
    /\ \/ Goto("ensure") /\ UNCHANGED faults
       \/ Goto(IF dec = "shrink" THEN "unlabelled" ELSE "ensure") /\ Fault
    /\ UNCHANGED <<kube, prs, now, demand, hist>>

\* CreatePR closes the shrink it could not label and returns an error.
TakeBack ==
    /\ pc = "unlabelled"
    /\ End(mut.prid, "botClosed")
    /\ Return
    /\ UNCHANGED <<kube, now, demand, faults, hist>>

-----------------------------------------------------------------------------
(* The environment *)

\* The watch delivers the latest Lease to the informer cache.
CacheSync(l) ==
    /\ ~synced[l]
    /\ cache' = [cache EXCEPT ![l] = lease[l]]
    /\ synced' = [synced EXCEPT ![l] = TRUE]
    /\ UNCHANGED <<lease, prs, now, demand, faults, local, hist>>

\* GitHub's reads catch up with the fate of a pull request.
Settle(n) ==
    /\ n \in DOMAIN prs /\ ~prs[n].settled
    /\ prs' = [prs EXCEPT ![n].settled = TRUE]
    /\ UNCHANGED <<kube, now, demand, faults, local, hist>>

\* Somebody merges or closes a pull request.
Human(n, f) ==
    /\ n \in DOMAIN prs /\ prs[n].fate = "open"
    /\ End(n, f)
    /\ UNCHANGED <<kube, now, demand, faults, local, hist>>

\* Demand moves; only GetStateAndDecide looks at it, so between reconciles is
\* often enough.
DemandChanges(q, d) ==
    /\ pc = "idle"
    /\ demand' = [demand EXCEPT ![q] = d]
    /\ UNCHANGED <<kube, prs, now, faults, local, hist>>

Tick ==
    /\ now < MaxTime /\ now' = now + 1
    /\ UNCHANGED <<kube, prs, demand, faults, local, hist>>

\* The process dies mid-reconcile; its successor lists every Lease afresh.
Crash ==
    /\ pc # "idle"
    /\ Return
    /\ cache' = lease /\ synced' = [l \in Leases |-> TRUE]
    /\ Fault
    /\ UNCHANGED <<lease, prs, now, demand, hist>>

Step ==
    \/ ensureLeaseExists \/ WriteLease \/ WriteLeaseNotFound
    \/ GetStateAndDecide
    \/ GetPRStatus \/ ClosePR \/ MergePR \/ UpdatePR
    \/ FindOpenPR \/ CreatePR \/ AddLabels \/ TakeBack

Environment ==
    \/ \E l \in Leases : CacheSync(l)
    \/ \E n \in DOMAIN prs : Settle(n)
    \/ \E n \in DOMAIN prs, f \in {"humanMerged", "humanClosed"} : Human(n, f)
    \/ \E q \in Quotas, d \in Demands : DemandChanges(q, d)
    \/ Tick

Running == Step \/ CallFails \/ WriteLeaseLost \/ Environment

Next ==
    \/ \E q \in Quotas : Reconcile(q)
    \/ Running
    \/ Crash

Spec == Init /\ [][Next]_vars

-----------------------------------------------------------------------------
(* Safety *)

\* OPERATIONS.md 4.E: the controller itself only ever merges pull requests that
\* were opened for a grow and last written by one, however reconciles, stale
\* Lease reads, adoption of orphans, failed label calls and crashes interleave
\* (the auto-merge gate of handleActivePR).  content is the direction of the last
\* decision on the branch; what its limits are against main is in ShortageLoop
\* (GrowNeverLowers).
ShrinkNeverAutoMerged ==
    \A n \in DOMAIN prs :
        prs[n].fate = "botMerged" => prs[n].dir = "grow" /\ prs[n].content = "grow"

\* handleNewProposal opens no pull request next to one that is still open for
\* the same quota, even if the Lease never learned of that one.
OneOpenPR ==
    \A m, n \in DOMAIN prs :
        prs[m].quota = prs[n].quota /\ prs[m].fate = "open" /\ prs[n].fate = "open"
            => m = n

\* The lock on a quota's Lease names a pull request of that quota, with the
\* direction its branch was created with (State, "for one quota").
LockFaithful ==
    \A q \in Quotas :
        LET s == lease[getLeaseName(q)]
        IN  s.prid # 0 => /\ s.prid \in DOMAIN prs
                          /\ prs[s.prid].quota = q
                          /\ prs[s.prid].dir = s.dir

Elapsed(t, span) == t = Zero \/ now >= t + span

\* The shrink gates on the Lease as it really is: whatever the reconcile read,
\* a shrink is opened only when the shrink cooldown has passed since the lock
\* of the previous shrink was released (merged, rejected, superseded or
\* expired) and a window has passed since a merged grow was recorded.
ShrinkSpacing ==
    [][\A n \in DOMAIN prs' \ DOMAIN prs :
         prs'[n].dir = "shrink" =>
            LET h == hist[getLeaseName(prs'[n].quota)]
            IN  Elapsed(h.shrink, ShrinkCooldown) /\ Elapsed(h.grow, WindowSpan)]_vars

\* OPERATIONS.md 4.A: a grow is opened only when the grow cooldown has passed
\* since a merge was recorded on the Lease.
GrowSpacing ==
    [][\A n \in DOMAIN prs' \ DOMAIN prs :
         prs'[n].dir = "grow" =>
            Elapsed(hist[getLeaseName(prs'[n].quota)].merge, GrowCooldown)]_vars

-----------------------------------------------------------------------------
(* Refinement *)

\* Of a pull request, what ProposalLifecycle speaks of.
Proposals ==
    [n \in DOMAIN prs |-> [quota |-> prs[n].quota, dir |-> prs[n].dir, fate |-> prs[n].fate]]

Life == INSTANCE ProposalLifecycle WITH proposals <- Proposals

\* The controller, the Lease and GitHub together implement the life cycle
\* ProposalLifecycle promises.
ImplementsLifecycle == Life!Spec
=============================================================================
