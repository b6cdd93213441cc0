--------------------------- MODULE LeaseCollector ---------------------------
(***************************************************************************)
(* The proposal life cycle next to the lease garbage collector             *)
(* (internal/lock/gc.go), with namespaces that are deleted and recreated.  *)
(* The collector and the reconcile worker are goroutines of one process    *)
(* and share nothing but the Leases.                                       *)
(***************************************************************************)
EXTENDS Resizer

VARIABLES
    gone,      \* namespaces that do not exist
    targetNS,  \* the label of every Lease, {} while there is no Lease
    doomed     \* the Lease whose namespace the collector has not found

gcVars == <<gone, targetNS, doomed>>

Namespaces == {q.ns : q \in Quotas}

GCInit == Init /\ gone = {} /\ targetNS = [l \in Leases |-> {}] /\ doomed = {}

\* ensureLeaseExists labels the Lease it creates.
managedLeaseLabels ==
    targetNS' = [l \in Leases |-> IF lease'[l].exists /\ ~lease[l].exists
                                  THEN {cur.ns} ELSE targetNS[l]]

\* A reconcile begins where its namespace is found; one that has begun goes on.
Worker ==
    /\ (\E q \in Quotas : q.ns \notin gone /\ Reconcile(q)) \/ Running
    /\ managedLeaseLabels
    /\ UNCHANGED <<gone, doomed>>

\* The collector dies with the process.
ProcessDies == Crash /\ doomed' = {} /\ UNCHANGED <<gone, targetNS>>

NamespaceDeleted(n) ==
    /\ n \notin gone /\ gone' = gone \cup {n}
    /\ Fault
    /\ UNCHANGED <<kube, prs, now, demand, local, hist, targetNS, doomed>>

NamespaceRecreated(n) ==
    /\ n \in gone /\ gone' = gone \ {n}
    /\ UNCHANGED <<vars, targetNS, doomed>>

-----------------------------------------------------------------------------
(* cleanup *)

\* Mutant: a Lease that holds a lock is left alone.
NamespaceNotFound_SparesLocks(l) ==
    /\ doomed = {} /\ cache[l].exists /\ cache[l].prid = 0
    /\ targetNS[l] # {} /\ targetNS[l] \subseteq gone
    /\ doomed' = {l}
    /\ UNCHANGED <<vars, gone, targetNS>>

\* The Get of the namespace a listed Lease names ends in NotFound.
NamespaceNotFound(l) ==
    /\ doomed = {} /\ cache[l].exists /\ targetNS[l] # {} /\ targetNS[l] \subseteq gone
    /\ doomed' = {l}
    /\ UNCHANGED <<vars, gone, targetNS>>

\* The Lease is deleted, whatever has become of it or its namespace meanwhile.
DeleteLease(l) ==
    /\ l \in doomed /\ doomed' = {}
    /\ lease' = [lease EXCEPT ![l] = NoLease]
    /\ synced' = [synced EXCEPT ![l] = FALSE]
    /\ targetNS' = [targetNS EXCEPT ![l] = {}]
    /\ UNCHANGED <<cache, prs, now, demand, faults, local, hist, gone>>

\* An error is logged, and the next cleanup tries again.
DeleteLeaseFails ==
    /\ doomed # {} /\ doomed' = {}
    /\ Fault
    /\ UNCHANGED <<kube, prs, now, demand, local, hist, gone, targetNS>>

cleanup(l) == NamespaceNotFound(l) \/ DeleteLease(l)

GCNext ==
    \/ Worker \/ ProcessDies
    \/ \E n \in Namespaces : NamespaceDeleted(n) \/ NamespaceRecreated(n)
    \/ \E l \in Leases : cleanup(l)
    \/ DeleteLeaseFails

all == <<vars, gcVars>>

GCSpec == GCInit /\ [][GCNext]_all

(***************************************************************************)
(* The worker keeps running what it started, the work queue serves every   *)
(* quota (each requeue, resync and event enqueues it), watches deliver,    *)
(* time passes and the collector's ticker ticks.  Failures are finitely    *)
(* many (MaxFaults).  People, demand and namespaces are not fair.          *)
(***************************************************************************)
Fairness ==
    /\ WF_all(Step /\ managedLeaseLabels /\ UNCHANGED <<gone, doomed>>)
    /\ \A q \in Quotas :
          SF_all(q.ns \notin gone /\ Reconcile(q) /\ UNCHANGED gcVars)
    /\ \A l \in Leases : WF_all(CacheSync(l) /\ UNCHANGED gcVars)
    /\ \A n \in 1 .. MaxPR : WF_all(Settle(n) /\ UNCHANGED gcVars)
    /\ WF_all(Tick /\ UNCHANGED gcVars)
    /\ \A l \in Leases : WF_all(cleanup(l))

FairSpec == GCSpec /\ Fairness

-----------------------------------------------------------------------------
Locks(q, n) == lease[getLeaseName(q)].prid = n

OpenShrink(q, n) ==
    n \in DOMAIN prs /\ prs[n].quota = q /\ prs[n].dir = "shrink" /\ prs[n].fate = "open"

\* handleActivePR and cleanup: a lock whose pull request was merged or closed
\* is released, by the next reconcile or with the namespace.
LockReleased ==
    \A q \in Quotas, n \in 1 .. MaxPR :
        (Locks(q, n) /\ n \in DOMAIN prs /\ prs[n].fate # "open") ~> ~Locks(q, n)

\* Supersede: while a shortage lasts no shrink pull request of the quota stays
\* open, whether or not the Lease knows of it, or was collected.
ShortageSupersedesShrink ==
    \A q \in Quotas, n \in 1 .. MaxPR :
        OpenShrink(q, n) ~> (~OpenShrink(q, n) \/ demand[q] # "short" \/ q.ns \in gone)

TTLEndsInTime(n) == n \in DOMAIN prs /\ prs[n].created + ShrinkPRTTL < MaxTime

\* TTL (shrinkPRShouldClose): an unreviewed shrink pull request does not hold
\* the lock indefinitely.  Checked for those whose TTL ends before the clock does.
ShrinkLockExpires ==
    \A q \in Quotas, n \in 1 .. MaxPR :
        (Locks(q, n) /\ OpenShrink(q, n) /\ TTLEndsInTime(n))
            ~> ~(Locks(q, n) /\ OpenShrink(q, n))

Orphaned(l) == lease[l].exists /\ targetNS[l] \subseteq gone

\* cleanup: the Lease of a deleted namespace goes away, also one that a
\* reconcile still under way creates or writes after the deletion.
LeaseCollected == \A l \in Leases : Orphaned(l) ~> ~Orphaned(l)
=============================================================================
