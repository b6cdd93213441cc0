----------------------------- MODULE QuotaState -----------------------------
(***************************************************************************)
(* The state Lease that internal/lock keeps for every ResourceQuota: its   *)
(* name, the State decoded from its annotations, and the closures the      *)
(* reconciler hands to LeaseLocker.MutateState.  Only the fields the       *)
(* proposal life cycle depends on are kept; the observation window is      *)
(* modelled in ObservationWindow.                                          *)
(***************************************************************************)
EXTENDS Naturals, Sequences

CONSTANTS
    Quotas   \* ResourceQuotas: records [ns, name], each part the sequence
             \* of the '-'-separated segments of a Kubernetes name

\* The zero time.Time.  Real instants start at 1.
Zero == 0

Directions == {"grow", "shrink"}

\* fmt.Sprintf("state-%s-%s", ns, name): joining with '-' forgets where the
\* namespace ends, which is exactly what concatenating the segments does.
getLeaseName(q) == q.ns \o q.name

Leases == {getLeaseName(q) : q \in Quotas}

\* lock.State, plus whether the Lease object exists at all.
State == [exists : BOOLEAN, prid : Nat, dir : Directions \cup {""},
          lastModified : Nat, lastGrow : Nat, lastShrink : Nat]

\* GetState on a missing Lease returns the zero State.
NoLease == [exists |-> FALSE, prid |-> 0, dir |-> "", lastModified |-> Zero,
            lastGrow |-> Zero, lastShrink |-> Zero]

\* The Lease ensureLeaseExists creates: labels only, no holder, no stamps.
FreshLease == [NoLease EXCEPT !.exists = TRUE]

-----------------------------------------------------------------------------
(***************************************************************************)
(* The closures passed to MutateState.  They are applied to the State read *)
(* back inside MutateState, not to the one the reconcile started from.     *)
(***************************************************************************)

\* Mutants: no rejection stamp; a closed pull request keeps the lock.
ReleaseFn_NoRejectionStamp(s, merged, at) ==
    [s EXCEPT !.prid = 0, !.dir = "",
              !.lastModified = IF merged THEN at ELSE @,
              !.lastShrink   = IF merged /\ s.dir = "shrink" THEN at ELSE @,
              !.lastGrow     = IF merged /\ s.dir # "shrink" THEN at ELSE @]
ReleaseFn_MergedOnly(s, merged, at) ==
    IF merged THEN [s EXCEPT !.prid = 0, !.dir = "", !.lastModified = at]
    ELSE [s EXCEPT !.lastShrink = at]

\* handleActivePR, pull request no longer open.
ReleaseFn(s, merged, at) ==
    LET wasShrink == s.dir = "shrink"
    IN  [s EXCEPT !.prid = 0, !.dir = "",
                  !.lastModified = IF merged THEN at ELSE @,
                  !.lastShrink   = IF wasShrink THEN at ELSE @,
                  !.lastGrow     = IF merged /\ ~wasShrink THEN at ELSE @]

\* Mutant: the direction is cleared to Direction.String() of DirectionNone.
ClosedFn_DirNone(s, at) == [s EXCEPT !.prid = 0, !.dir = "none", !.lastShrink = at]

\* handleActivePR, shrink pull request superseded or expired.
ClosedFn(s, at) == [s EXCEPT !.prid = 0, !.dir = "", !.lastShrink = at]

\* Mutant: the merge is not stamped as a modification.
MergedFn_NotModified(s, at) == [s EXCEPT !.prid = 0, !.dir = "", !.lastGrow = at]

\* handleActivePR, auto-merge succeeded.
MergedFn(s, at) ==
    [s EXCEPT !.prid = 0, !.dir = "", !.lastModified = at, !.lastGrow = at]

\* Mutant: the orphan is adopted by number only.
AdoptFn_NoDirection(s, n, d) == [s EXCEPT !.prid = n]

\* handleNewProposal, orphan adopted.
AdoptFn(s, n, d) == [s EXCEPT !.prid = n, !.dir = d]

\* Mutant: the direction of the new pull request is not persisted.
AcquireFn_NoDirection(s, n, d, at) ==
    [s EXCEPT !.prid = n, !.lastShrink = IF d = "shrink" THEN at ELSE @,
              !.lastGrow = IF d = "shrink" THEN @ ELSE at]

\* handleNewProposal, new pull request recorded (time.Now() inside fn).
AcquireFn(s, n, d, at) ==
    [s EXCEPT !.prid = n, !.dir = d,
              !.lastShrink = IF d = "shrink" THEN at ELSE @,
              !.lastGrow   = IF d = "shrink" THEN @ ELSE at]

\* A pending MutateState call: which closure, and what it captured.
MutKinds == {"none", "window", "release", "closed", "merged", "adopt", "acquire"}

Mutations == [kind : MutKinds, prid : Nat, dir : Directions \cup {""},
              merged : BOOLEAN, at : Nat]

NoMutation == [kind |-> "none", prid |-> 0, dir |-> "", merged |-> FALSE,
               at |-> Zero]

\* fn(&state): what the pending closure m makes of the State s read at t.
\* Observer.Observe only replaces the window, which this module leaves out.
ApplyFn(m, s, t) ==
    CASE m.kind = "release" -> ReleaseFn(s, m.merged, m.at)
      [] m.kind = "closed"  -> ClosedFn(s, m.at)
      [] m.kind = "merged"  -> MergedFn(s, m.at)
      [] m.kind = "adopt"   -> AdoptFn(s, m.prid, m.dir)
      [] m.kind = "acquire" -> AcquireFn(s, m.prid, m.dir, t)
      [] OTHER              -> s
=============================================================================
