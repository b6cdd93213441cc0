--------------------------- MODULE LifecycleProofs ---------------------------
(***************************************************************************)
(* Resizer implements ProposalLifecycle, its locks name the right pull     *)
(* requests and its cooldowns are kept, for every set of quotas, every     *)
(* policy and every bound; and what of this is left when a collector       *)
(* deletes Leases under it.                                                *)
(***************************************************************************)
EXTENDS LeaseCollector, ResizerProofs

(* The refinement *)

LEMMA ProposalFacts ==
    ASSUME CoreInv
    PROVE  /\ Proposals \in Seq([quota : Quotas, dir : Directions, fate : Fates])
           /\ DOMAIN Proposals = DOMAIN prs /\ Len(Proposals) = Len(prs)
           /\ \A n \in DOMAIN prs : /\ Proposals[n].quota = prs[n].quota
                                    /\ Proposals[n].dir = prs[n].dir
                                    /\ Proposals[n].fate = prs[n].fate
  <1>1. prs \in Seq(PullRequest) /\ DOMAIN prs = 1 .. Len(prs) /\ Len(prs) \in Nat
    BY LenProperties DEF CoreInv, TypeOK
  <1>2. \A n \in DOMAIN prs : prs[n] \in PullRequest
    BY <1>1, ElementOfSeq
  <1>3. Proposals \in [1 .. Len(prs) -> [quota : Quotas, dir : Directions, fate : Fates]]
    BY <1>1, <1>2 DEF Proposals, PullRequest
  <1> QED BY <1>1, <1>3 DEF Proposals

\* Fields the mapping forgets, and pull requests nothing happens to.
LEMMA SameProposals ==
    ASSUME DOMAIN prs' = DOMAIN prs,
           \A n \in DOMAIN prs : /\ prs'[n].quota = prs[n].quota /\ prs'[n].dir = prs[n].dir
                                 /\ prs'[n].fate = prs[n].fate
    PROVE  Proposals' = Proposals
  BY DEF Proposals

\* A pull request that ends is a proposal that ends.
LEMMA EndFinishes ==
    ASSUME CoreInv, NEW n \in DOMAIN prs, NEW f \in Fates \ {"open"}, End(n, f),
           f = "botMerged" => prs[n].dir = "grow",
           f = "botClosed" => prs[n].dir = "shrink"
    PROVE  [Life!Next]_Proposals
  <1>1. /\ DOMAIN prs' = DOMAIN prs
        /\ \A i \in DOMAIN prs : i # n => prs'[i] = prs[i]
        /\ prs'[n].quota = prs[n].quota /\ prs'[n].dir = prs[n].dir
        /\ prs[n].fate = "open" => prs'[n].fate = f
        /\ prs[n].fate # "open" => prs' = prs
    BY EndFacts DEF CoreInv, TypeOK
  <1>2. CASE prs[n].fate # "open"
    BY <1>1, <1>2, SameProposals
  <1>3. CASE prs[n].fate = "open"
    <2>1. Life!MayEnd(Proposals[n], f)
      BY <1>3, ProposalFacts DEF Life!MayEnd, Life!Fates, Fates
    <2>2. Proposals' = [Proposals EXCEPT ![n].fate = f]
      BY <1>1, <1>3 DEF Proposals
    <2>3. n \in DOMAIN Proposals
      BY ProposalFacts
    <2> QED BY <2>1, <2>2, <2>3 DEF Life!Next, Life!Finish, Life!Fates, Fates
  <1> QED BY <1>2, <1>3

\* A pull request that is opened is a proposal.
LEMMA CreateProposes ==
    ASSUME CoreInv, OpenInv, CreatePR
    PROVE  [Life!Next]_Proposals
  <1> DEFINE e == [quota |-> cur, dir |-> dec, content |-> dec,
                   created |-> now, fate |-> "open", settled |-> TRUE]
             p == [quota |-> cur, dir |-> dec, fate |-> "open"]
  <1>1. e \in PullRequest /\ dec \in Directions /\ cur \in Quotas
    BY DEF CoreInv, TypeOK, DirInv, LocalOK, CreatePR, PullRequest, Fates
  <1>2. CASE prs' = prs
    BY <1>2, SameProposals
  <1>3. CASE prs' = Append(prs, e)
    <2>1. e.quota = cur /\ e.dir = dec /\ e.fate = "open"
      OBVIOUS
    <2> HIDE DEF e
    <2>2. /\ Len(prs) \in Nat /\ DOMAIN prs = 1 .. Len(prs)
          /\ DOMAIN prs' = 1 .. Len(prs) + 1
          /\ prs'[Len(prs) + 1] = e /\ \A i \in DOMAIN prs : prs'[i] = prs[i]
      BY <1>1, <1>3, AppendFacts DEF CoreInv, TypeOK
    <2>3. Proposals' = Append(Proposals, p)
      <3>1. Append(Proposals, p) = [i \in 1 .. Len(prs) + 1 |->
                                      IF i = Len(prs) + 1 THEN p ELSE Proposals[i]]
        BY <2>2, ProposalFacts
      <3>2. Proposals' = [i \in 1 .. Len(prs) + 1 |->
                            [quota |-> prs'[i].quota, dir |-> prs'[i].dir, fate |-> prs'[i].fate]]
        BY <2>2 DEF Proposals
      <3>3. ASSUME NEW i \in 1 .. Len(prs) + 1
            PROVE  [quota |-> prs'[i].quota, dir |-> prs'[i].dir, fate |-> prs'[i].fate]
                     = IF i = Len(prs) + 1 THEN p ELSE Proposals[i]
        <4>1. CASE i = Len(prs) + 1
          BY <2>1, <2>2, <4>1
        <4>2. CASE i \in DOMAIN prs
          BY <2>2, <4>2 DEF Proposals
        <4> QED BY <2>2, <4>1, <4>2
      <3> QED BY <3>1, <3>2, <3>3
    <2>4. \A n \in DOMAIN Proposals : Proposals[n].quota = cur => Proposals[n].fate # "open"
      BY ProposalFacts DEF OpenInv, NoneOpen, CreatePR
    <2>5. Life!Propose(cur, dec)
      BY <2>3, <2>4 DEF Life!Propose
    <2> QED BY <1>1, <2>5 DEF Life!Next, Directions
  <1> QED BY <1>2, <1>3 DEF CreatePR

\* Every step of the life cycle is a step of its abstraction, or none.
LEMMA LifecycleStep ==
    ASSUME CoreInv, OpenInv, [Next]_vars
    PROVE  [Life!Next]_Proposals
  <1>1. CASE prs' = prs
    BY <1>1, SameProposals
  <1>2. CASE ClosePR
    <2>1. /\ st.prid \in DOMAIN prs /\ prs[st.prid].dir = "shrink"
          /\ End(st.prid, "botClosed")
      BY <1>2 DEF CoreInv, DirInv, LocalOK, DirOK, ClosePR
    <2> QED BY <2>1, EndFinishes DEF Fates
  <1>3. CASE MergePR
    <2>1. st.prid \in DOMAIN prs /\ prs[st.prid].dir # "shrink"
      BY <1>3 DEF CoreInv, DirInv, LocalOK, DirOK, MergePR
    <2>2. prs[st.prid].dir = "grow"
      <3>1. prs[st.prid] \in PullRequest
        BY <2>1, LenProperties, ElementOfSeq DEF CoreInv, TypeOK
      <3> QED BY <2>1, <3>1 DEF PullRequest, Directions
    <2>3. End(st.prid, "botMerged") \/ prs' = prs
      BY <1>3 DEF MergePR
    <2> QED BY <1>1, <2>1, <2>2, <2>3, EndFinishes DEF Fates
  <1>4. CASE TakeBack
    <2>1. /\ mut.prid \in DOMAIN prs /\ prs[mut.prid].dir = "shrink"
          /\ End(mut.prid, "botClosed")
      BY <1>4 DEF CoreInv, DirInv, LocalOK, TakeBack
    <2> QED BY <2>1, EndFinishes DEF Fates
  <1>5. CASE UpdatePR
    <2>1. st.prid \in DOMAIN prs /\ dec \in Directions
      BY <1>5 DEF CoreInv, DirInv, LocalOK, DirOK, UpdatePR, Directions
    <2>2. prs[st.prid] \in PullRequest
      BY <2>1, LenProperties, ElementOfSeq DEF CoreInv, TypeOK
    <2>3. CASE prs' = [prs EXCEPT ![st.prid].content = dec]
      <3>1. /\ DOMAIN prs' = DOMAIN prs /\ \A i \in DOMAIN prs : i # st.prid => prs'[i] = prs[i]
            /\ prs'[st.prid] = [prs[st.prid] EXCEPT !.content = dec]
        BY <2>1, <2>3, SetContentFacts DEF CoreInv, TypeOK
      <3>2. \A i \in DOMAIN prs : /\ prs'[i].quota = prs[i].quota /\ prs'[i].dir = prs[i].dir
                                  /\ prs'[i].fate = prs[i].fate
        BY <2>2, <3>1 DEF PullRequest
      <3> QED BY <3>1, <3>2, SameProposals
    <2> QED BY <1>1, <1>5, <2>3 DEF UpdatePR
  <1>6. ASSUME NEW n \in DOMAIN prs, Settle(n) PROVE [Life!Next]_Proposals
    <2>1. prs[n] \in PullRequest
      BY LenProperties, ElementOfSeq DEF CoreInv, TypeOK
    <2>2. /\ DOMAIN prs' = DOMAIN prs /\ \A i \in DOMAIN prs : i # n => prs'[i] = prs[i]
          /\ prs'[n] = [prs[n] EXCEPT !.settled = TRUE]
      BY <1>6, SettleFacts DEF Settle, CoreInv, TypeOK
    <2>3. \A i \in DOMAIN prs : /\ prs'[i].quota = prs[i].quota /\ prs'[i].dir = prs[i].dir
                                /\ prs'[i].fate = prs[i].fate
      BY <2>1, <2>2 DEF PullRequest
    <2> QED BY <2>2, <2>3, SameProposals
  <1>7. ASSUME NEW n \in DOMAIN prs, NEW f \in {"humanMerged", "humanClosed"}, Human(n, f)
        PROVE  [Life!Next]_Proposals
    BY <1>7, EndFinishes DEF Human, Fates
  <1>8. CASE Environment
    BY <1>1, <1>6, <1>7, <1>8 DEF Environment, CacheSync, DemandChanges, Tick
  <1>9. CASE \/ UNCHANGED vars \/ (\E q \in Quotas : Reconcile(q))
             \/ ensureLeaseExists \/ WriteLease \/ WriteLeaseNotFound \/ GetStateAndDecide
             \/ GetPRStatus \/ FindOpenPR \/ AddLabels \/ CallFails \/ WriteLeaseLost \/ Crash
    BY <1>1, <1>9
       DEF vars, Reconcile, ensureLeaseExists, WriteLease, UpdateLease, WriteLeaseNotFound,
           GetStateAndDecide, GetPRStatus, FindOpenPR, AddLabels, CallFails, WriteLeaseLost, Crash
  <1> QED BY <1>2, <1>3, <1>4, <1>5, <1>8, <1>9, CreateProposes DEF Next, Running, Step

\* Whatever the Lease, its cache, failures and crashes do to a reconcile, what
\* becomes of pull requests is what ProposalLifecycle allows: the merge, the
\* close and the withdrawal of an unlabelled pull request are justified by the
\* directions of CoreInv, the opening by OpenInv.
THEOREM LifecycleImplemented == Spec => ImplementsLifecycle
  <1>1. Init => Life!Init
    <2> SUFFICES ASSUME Init PROVE Proposals = <<>>
      BY DEF Life!Init
    <2>1. DOMAIN prs = {}
      BY EmptySeq, LenProperties DEF Init
    <2> QED BY <2>1 DEF Proposals
  <1>2. Init => OpenInv
    BY EmptySeq, LenProperties DEF Init, OpenInv, OneOpenPR
  <1>3. CoreInv /\ OpenInv /\ [Next]_vars => [Life!Next]_Proposals
    BY LifecycleStep
  <1> QED BY <1>1, <1>2, <1>3, InitCore, CoreInvInductive, OpenInvInductive, PTL
          DEF Spec, ImplementsLifecycle, Life!Spec

-----------------------------------------------------------------------------
(***************************************************************************)
(* How a step moves the Lease, its cache, the history and the pending      *)
(* MutateState call.  What follows rests on these facts, not on actions.   *)
(***************************************************************************)

\* What a step does to the Lease and the cache under the name l: nothing,
\* ensureLeaseExists, the Update of MutateState, or the cache catching up.
LeaseMoves(l) ==
    /\ \/ lease'[l] = lease[l]
       \/ lease'[l] = FreshLease /\ ~lease[l].exists
       \/ UpdateLease /\ l = theLease /\ lease'[l] = ApplyFn(mut, cache[l], now)
    /\ \/ cache'[l] = cache[l] /\ (synced'[l] => synced[l] /\ lease'[l] = lease[l])
       \/ cache'[l] = lease[l] /\ lease'[l] = lease[l]

\* What a step does to the pending MutateState call, and to cur under it: a
\* call is begun, goes on for the same quota, or is over.
MutationMoves ==
    \/ mut' = mut /\ cur' = cur /\ (pc' = "idle" => pc = "idle")
    \/ mut' = mut /\ pc = "idle" /\ pc' # "idle"
    \/ mut'.kind \in {"none", "window"} /\ (pc' = "idle" => mut' = NoMutation)
    \/ /\ mut'.kind \in {"release", "closed", "merged"} /\ mut'.at = now /\ pc' # "idle"
    \/ /\ mut'.kind \in {"adopt", "acquire"} /\ pc' # "idle" /\ cur' = cur
       /\ mut'.prid \in DOMAIN prs' /\ prs'[mut'.prid].quota = cur

LEMMA LeaseStep ==
    ASSUME CoreInv, [Next]_vars, NEW l \in Leases
    PROVE  LeaseMoves(l) /\ (UpdateLease \/ hist' = hist) /\ now' >= now
  <1>0. /\ theLease \in Leases /\ lease \in [Leases -> State] /\ cache \in [Leases -> State]
        /\ synced \in [Leases -> BOOLEAN] /\ now \in Nat
    BY DEF CoreInv, TypeOK, theLease, Leases
  <1>1. CASE UNCHANGED <<kube, hist>> /\ now' \in {now, now + 1}
    BY <1>0, <1>1 DEF LeaseMoves, kube
  <1>2. CASE ensureLeaseExists
    BY <1>0, <1>2 DEF ensureLeaseExists, LeaseMoves, kube
  <1>3. CASE UpdateLease
    BY <1>0, <1>3 DEF UpdateLease, LeaseMoves
  <1>4. CASE Crash
    BY <1>0, <1>4 DEF Crash, LeaseMoves
  <1>5. CASE Environment
    BY <1>0, <1>1, <1>5
       DEF Environment, CacheSync, Settle, Human, DemandChanges, Tick, LeaseMoves, kube
  <1>6. CASE \/ UNCHANGED vars \/ (\E q \in Quotas : Reconcile(q))
             \/ WriteLeaseNotFound \/ GetStateAndDecide \/ GetPRStatus \/ ClosePR \/ MergePR
             \/ UpdatePR \/ FindOpenPR \/ CreatePR \/ AddLabels \/ TakeBack \/ CallFails
    BY <1>1, <1>6 DEF vars, kube, Reconcile, WriteLeaseNotFound, GetStateAndDecide, GetPRStatus,
       ClosePR, MergePR, UpdatePR, FindOpenPR, CreatePR, AddLabels, TakeBack, CallFails
  <1> QED BY <1>2, <1>3, <1>4, <1>5, <1>6 DEF Next, Running, Step, WriteLease, WriteLeaseLost

LEMMA MutationStep ==
    ASSUME CoreInv, [Next]_vars
    PROVE  MutationMoves
  <1>1. CASE Return
    BY <1>1 DEF Return, MutationMoves, NoMutation
  <1>2. ASSUME NEW p \in PCs \ {"idle"}, Goto(p) PROVE MutationMoves
    BY <1>2 DEF Goto, MutationMoves
  <1>3. ASSUME NEW m, MutateState(m), m.kind \in {"release", "closed", "merged"}, m.at = now
        PROVE  MutationMoves
    BY <1>3 DEF MutateState, MutationMoves
  <1>4. CASE UNCHANGED local
    BY <1>4 DEF local, MutationMoves
  <1>5. ASSUME NEW q \in Quotas, Reconcile(q) PROVE MutationMoves
    BY <1>5 DEF Reconcile, MutationMoves, NoMutation
  <1>6. CASE GetPRStatus \/ ClosePR \/ MergePR
    <2>1. /\ [NoMutation EXCEPT !.kind = "release", !.merged = Merged(st.prid), !.at = now].kind = "release"
          /\ [NoMutation EXCEPT !.kind = "release", !.merged = Merged(st.prid), !.at = now].at = now
          /\ [NoMutation EXCEPT !.kind = "closed", !.at = now].kind = "closed"
          /\ [NoMutation EXCEPT !.kind = "closed", !.at = now].at = now
          /\ [NoMutation EXCEPT !.kind = "merged", !.at = now].kind = "merged"
          /\ [NoMutation EXCEPT !.kind = "merged", !.at = now].at = now
      BY DEF NoMutation
    <2>2. UpdateIfGrow => Goto("update") \/ Return
      BY DEF UpdateIfGrow
    <2>3. CASE GetPRStatus
      <3>1. \/ MutateState([NoMutation EXCEPT !.kind = "release", !.merged = Merged(st.prid), !.at = now])
            \/ Goto("close") \/ Goto("merge") \/ Return \/ UpdateIfGrow
        BY <2>3, Zenon DEF GetPRStatus
      <3> QED BY <1>1, <1>2, <1>3, <2>1, <2>2, <3>1 DEF PCs
    <2>4. CASE ClosePR
      BY <1>1, <1>3, <2>1, <2>4 DEF ClosePR
    <2>5. CASE MergePR
      BY <1>1, <1>2, <1>3, <2>1, <2>2, <2>5 DEF MergePR, PCs
    <2> QED BY <1>6, <2>3, <2>4, <2>5
  <1>7. CASE FindOpenPR
    <2>1. ASSUME NEW n \in DOMAIN prs, prs[n].quota = cur, prs' = prs,
                 MutateState([NoMutation EXCEPT !.kind = "adopt", !.prid = n, !.dir = prs[n].dir])
          PROVE  MutationMoves
      BY <2>1 DEF MutateState, MutationMoves, NoMutation
    <2> QED BY <1>1, <1>2, <1>7, <2>1 DEF FindOpenPR, PCs
  <1>8. CASE CreatePR
    <2> DEFINE e == [quota |-> cur, dir |-> dec, content |-> dec,
                     created |-> now, fate |-> "open", settled |-> TRUE]
    <2>1. e \in PullRequest /\ e.quota = cur
      BY <1>8 DEF CoreInv, TypeOK, DirInv, LocalOK, CreatePR, PullRequest, Fates
    <2>2. CASE /\ prs' = Append(prs, e) /\ pc' = "label" /\ cur' = cur
               /\ mut' = [NoMutation EXCEPT !.kind = "acquire", !.prid = Len(prs) + 1, !.dir = dec]
      <3> HIDE DEF e
      <3>1. Len(prs) + 1 \in DOMAIN prs' /\ prs'[Len(prs) + 1] = e
        BY <2>1, <2>2, AppendFacts DEF CoreInv, TypeOK
      <3> QED BY <2>1, <2>2, <3>1 DEF MutationMoves, NoMutation
    <2> QED BY <1>1, <1>8, <2>2 DEF CreatePR
  <1>9. CASE GetStateAndDecide
    <2>1. Return \/ (pc' \in {"status", "find"} /\ UNCHANGED <<cur, mut>>)
      BY <1>9 DEF GetStateAndDecide
    <2> QED BY <1>1, <2>1 DEF MutationMoves
  <1>10. CASE WriteLease
    <2>1. Return \/ (pc' = "read" /\ mut' = NoMutation)
      BY <1>10, Zenon DEF WriteLease
    <2>2. NoMutation.kind = "none"
      BY DEF NoMutation
    <2> QED BY <1>1, <2>1, <2>2 DEF MutationMoves
  <1>11. CASE \/ UNCHANGED vars \/ Environment
    BY <1>4, <1>11 DEF vars, local, Environment, CacheSync, Settle, Human, DemandChanges, Tick
  <1>12. CASE \/ ensureLeaseExists \/ WriteLeaseNotFound \/ UpdatePR \/ AddLabels \/ TakeBack
              \/ CallFails \/ WriteLeaseLost \/ Crash
    BY <1>1, <1>2, <1>12
       DEF ensureLeaseExists, WriteLeaseNotFound, UpdatePR, AddLabels, TakeBack, CallFails,
           WriteLeaseLost, Crash, PCs
  <1> QED BY <1>5, <1>6, <1>7, <1>8, <1>9, <1>10, <1>11, <1>12 DEF Next, Running, Step

-----------------------------------------------------------------------------
(* Locks *)

\* No two quotas share a Lease: getLeaseName joins namespace and name with
\* '-', which may occur in both, so this is a condition on the cluster.
LeasesDistinct ==
    \A p, q \in Quotas : getLeaseName(p) = getLeaseName(q) => p = q

\* A State that names a pull request names one of the quota q.
LockOf(s, q) == s.prid # 0 => s.prid \in DOMAIN prs /\ prs[s.prid].quota = q

\* The lock of every Lease, and of its cached copy, is of the quota; so is the
\* pull request a pending call would record, as long as the reconcile lasts.
LockInv ==
    /\ \A q \in Quotas : LockOf(lease[getLeaseName(q)], q) /\ LockOf(cache[getLeaseName(q)], q)
    /\ mut.kind \in {"adopt", "acquire"} => prs[mut.prid].quota = cur
    /\ pc = "idle" => mut = NoMutation

\* A quota keeps the pull requests it has.
LEMMA QuotasKept ==
    ASSUME CoreInv, [Next]_vars
    PROVE  \A n \in DOMAIN prs : n \in DOMAIN prs' /\ prs'[n].quota = prs[n].quota
  <1>1. CASE ~CreatePR
    BY <1>1, OnlyCreateOpens DEF OpensNothing
  <1>2. CASE CreatePR
    <2> DEFINE e == [quota |-> cur, dir |-> dec, content |-> dec,
                     created |-> now, fate |-> "open", settled |-> TRUE]
    <2>1. e \in PullRequest
      BY <1>2 DEF CoreInv, TypeOK, DirInv, LocalOK, CreatePR, PullRequest, Fates
    <2>2. prs' = prs \/ prs' = Append(prs, e)
      BY <1>2 DEF CreatePR
    <2> HIDE DEF e
    <2> QED BY <2>1, <2>2, AppendFacts DEF CoreInv, TypeOK
  <1> QED BY <1>1, <1>2

LEMMA LockInvInductive ==
    ASSUME LeasesDistinct, CoreInv, LockInv, [Next]_vars
    PROVE  LockInv'
  <1>1. ASSUME NEW s, NEW q, LockOf(s, q), NEW t, t = s
        PROVE  t.prid # 0 => t.prid \in DOMAIN prs' /\ prs'[t.prid].quota = q
    BY <1>1, QuotasKept DEF LockOf
  <1>2. ASSUME NEW q \in Quotas
        PROVE  LockOf(lease[getLeaseName(q)], q)' /\ LockOf(cache[getLeaseName(q)], q)'
    <2> DEFINE l == getLeaseName(q)
    <2>1. l \in Leases /\ LeaseMoves(l) /\ LockOf(lease[l], q) /\ LockOf(cache[l], q)
      BY LeaseStep DEF Leases, LockInv
    <2>2. LockOf(cache[l], q)'
      BY <1>1, <2>1 DEF LeaseMoves, LockOf
    <2>3. CASE lease'[l] = lease[l]
      BY <1>1, <2>1, <2>2, <2>3 DEF LockOf
    <2>4. CASE lease'[l] = FreshLease
      BY <2>2, <2>4 DEF LockOf, FreshLease, NoLease
    <2>5. CASE UpdateLease /\ l = theLease /\ lease'[l] = ApplyFn(mut, cache[l], now)
      <3>1. cur = q
        BY <2>5 DEF LeasesDistinct, theLease, CoreInv, TypeOK
      <3>2. LockOf(ApplyFn(mut, cache[l], now), q)
        <4>1. cache[l] \in State /\ mut \in Mutations /\ now \in Nat
          BY <2>1 DEF CoreInv, TypeOK
        <4>2. mut.kind \in {"adopt", "acquire"} => mut.prid \in DOMAIN prs /\ prs[mut.prid].quota = q
          BY <3>1 DEF LockInv, CoreInv, DirInv, LocalOK
        <4>3. ApplyFn(mut, cache[l], now).prid \in {0, cache[l].prid}
              \/ (mut.kind \in {"adopt", "acquire"} /\ ApplyFn(mut, cache[l], now).prid = mut.prid)
          BY <4>1 DEF ApplyFn, ReleaseFn, ClosedFn, MergedFn, AdoptFn, AcquireFn, Mutations,
             MutKinds, State
        <4> QED BY <2>1, <4>2, <4>3 DEF LockOf
      <3> QED BY <1>1, <2>2, <2>5, <3>2 DEF LockOf
    <2> QED BY <2>1, <2>2, <2>3, <2>4, <2>5 DEF LeaseMoves
  <1>3. mut'.kind \in {"adopt", "acquire"} => prs'[mut'.prid].quota = cur'
    <2>1. mut.kind \in {"adopt", "acquire"} => mut.prid \in DOMAIN prs /\ prs[mut.prid].quota = cur
      BY DEF CoreInv, DirInv, LocalOK, LockInv
    <2>2. pc = "idle" => mut.kind = "none"
      <3>1. NoMutation.kind = "none"
        BY DEF NoMutation
      <3> QED BY <3>1 DEF LockInv
    <2> QED BY <2>1, <2>2, MutationStep, QuotasKept DEF MutationMoves
  <1>4. pc' = "idle" => mut' = NoMutation
    BY MutationStep DEF MutationMoves, LockInv
  <1> QED BY <1>2, <1>3, <1>4 DEF LockInv

LEMMA LockInit == Init => LockInv
  <1>1. NoLease.prid = 0 /\ NoMutation.kind = "none"
    BY DEF NoLease, NoMutation
  <1>2. \A q \in Quotas : getLeaseName(q) \in Leases
    BY DEF Leases
  <1> QED BY <1>1, <1>2 DEF Init, LockInv, LockOf

LEMMA LockInvFaithful == CoreInv /\ LockInv => LockFaithful
  BY DEF CoreInv, DirInv, DirOK, LockInv, LockOf, LockFaithful, Leases

\* Where no two quotas share a Lease, the lock on a quota's Lease is a pull
\* request of that quota with the direction its branch was created with, also
\* when a Lease is written from a stale read or an orphan is adopted.
THEOREM LocksFaithful == LeasesDistinct => (Spec => []LockFaithful)
  <1> SUFFICES ASSUME LeasesDistinct PROVE Spec => []LockFaithful
    OBVIOUS
  <1>1. Init => LockInv
    BY LockInit
  <1>2. CoreInv /\ LockInv /\ [Next]_vars => LockInv'
    BY LockInvInductive
  <1>3. CoreInv /\ LockInv => LockFaithful
    BY LockInvFaithful
  <1> QED BY <1>1, <1>2, <1>3, InitCore, CoreInvInductive, PTL DEF Spec

-----------------------------------------------------------------------------
(* Cooldowns *)

\* The stamps of s are no older than what the history says.
Covers(s, h) == h.shrink <= s.lastShrink /\ h.grow <= s.lastGrow /\ h.merge <= s.lastModified

NotAfter(h, t) == h.shrink <= t /\ h.grow <= t /\ h.merge <= t

\* The Lease covers the history; the cache does while it holds no lock, since
\* only the release of a lock is recorded; a pending release is not older than
\* the history; and the gates a reconcile passed stay passed.
SpacingInv ==
    /\ \A l \in Leases :
         /\ synced[l] => cache[l] = lease[l]
         /\ ~lease[l].exists => lease[l] = NoLease
         /\ Covers(lease[l], hist[l])
         /\ cache[l].prid = 0 => Covers(cache[l], hist[l])
         /\ NotAfter(hist[l], now)
         /\ mut.kind \in {"release", "closed", "merged"} => NotAfter(hist[l], mut.at)
    /\ mut.kind \in {"release", "closed", "merged"} => mut.at <= now
    /\ pc \in {"find", "create"} =>
         /\ Covers(st, hist[theLease])
         /\ dec = "shrink" => /\ Elapsed(st.lastGrow, WindowSpan)
                              /\ Elapsed(st.lastShrink, ShrinkCooldown)
    /\ pc = "create" /\ dec = "grow" => Elapsed(st.lastModified, GrowCooldown)

\* What the Update of MutateState leaves on the Lease covers what the history
\* then holds, and the history changes only by the release of a lock.
LEMMA ReleaseCovered ==
    ASSUME CoreInv, UpdateLease, NEW l, l = theLease,
           Covers(cache[l], hist[l]), NotAfter(hist[l], now),
           mut.kind \in {"release", "closed", "merged"} => NotAfter(hist[l], mut.at)
    PROVE  /\ Covers(ApplyFn(mut, cache[l], now), hist'[l])
           /\ cache[l].prid = 0 => hist'[l] = hist[l]
           /\ \/ hist'[l] = hist[l]
              \/ /\ mut.kind \in {"release", "closed", "merged"}
                 /\ hist'[l].shrink \in {hist[l].shrink, mut.at}
                 /\ hist'[l].grow \in {hist[l].grow, mut.at}
                 /\ hist'[l].merge \in {hist[l].merge, mut.at}
  <1>1. /\ l \in Leases /\ cache[l] \in State /\ mut \in Mutations /\ now \in Nat
        /\ hist[l] \in [shrink : Nat, grow : Nat, merge : Nat]
        /\ hist \in [Leases -> [shrink : Nat, grow : Nat, merge : Nat]]
    BY DEF CoreInv, TypeOK, theLease, Leases
  <1> DEFINE s == cache[l]
             t == ApplyFn(mut, s, now)
             held  == s.prid # 0 /\ mut.kind \in {"release", "closed"}
             merge == s.prid # 0 /\ (mut.kind = "merged" \/ (mut.kind = "release" /\ mut.merged))
             h == [shrink |-> IF held /\ s.dir = "shrink" THEN mut.at ELSE hist[l].shrink,
                   grow   |-> IF merge /\ s.dir = "grow" THEN mut.at ELSE hist[l].grow,
                   merge  |-> IF merge THEN mut.at ELSE hist[l].merge]
  <1>2. hist'[l] = hist[l] \/ hist'[l] = h
    BY <1>1, Zenon DEF UpdateLease, RecordRelease
  <1>3. ~held /\ ~merge => h = hist[l]
    BY <1>1
  <1>4. Covers(t, hist[l])
    BY <1>1 DEF Covers, NotAfter, ApplyFn, ReleaseFn, ClosedFn, MergedFn, AdoptFn, AcquireFn,
       State, Mutations, MutKinds
  <1>5. /\ held /\ s.dir = "shrink" => t.lastShrink = mut.at
        /\ merge /\ s.dir = "grow" => t.lastGrow = mut.at
        /\ merge => t.lastModified = mut.at
    BY <1>1 DEF ApplyFn, ReleaseFn, ClosedFn, MergedFn, State, Mutations
  <1>6. held \/ merge => mut.kind \in {"release", "closed", "merged"} /\ s.prid # 0
    OBVIOUS
  <1>7. /\ h.shrink \in {hist[l].shrink, mut.at} /\ h.grow \in {hist[l].grow, mut.at}
        /\ h.merge \in {hist[l].merge, mut.at}
    OBVIOUS
  <1>8. Covers(t, h)
    <2>1. mut.at \in Nat
      BY <1>1 DEF Mutations
    <2> HIDE DEF t
    <2> QED BY <1>4, <1>5, <2>1 DEF Covers
  <1> HIDE DEF h, held, merge, t
  <1>9. Covers(t, hist'[l])
    BY <1>2, <1>4, <1>8
  <1> QED BY <1>2, <1>3, <1>6, <1>7, <1>9 DEF t

\* How a reconcile gets to FindOpenPR and CreatePR: past the gates.
LEMMA GateStep ==
    ASSUME CoreInv, [Next]_vars, pc' \in {"find", "create"}
    PROVE  /\ cur' = cur
           /\ \/ pc' = pc /\ st' = st /\ dec' = dec
              \/ /\ pc' = "find" /\ st' = cache[theLease] /\ st'.prid = 0
                 /\ dec' = "shrink" => /\ Elapsed(st'.lastGrow, WindowSpan)
                                       /\ Elapsed(st'.lastShrink, ShrinkCooldown)
                 /\ now' = now /\ hist' = hist
              \/ /\ pc = "find" /\ pc' = "create" /\ st' = st /\ dec' = dec /\ now' = now
                 /\ dec = "grow" => Elapsed(st.lastModified, GrowCooldown)
  <1>1. CASE FindOpenPR
    <2>1. pc = "find" /\ Goto("create") /\ ~CoolingDown /\ now' = now
      BY <1>1 DEF FindOpenPR, MutateState, Return, Goto
    <2>2. st.lastModified \in Nat /\ now \in Nat /\ GrowCooldown \in Nat
      BY PolicyAssumption DEF CoreInv, TypeOK, State
    <2>3. dec = "grow" => Elapsed(st.lastModified, GrowCooldown)
      BY <2>1, <2>2 DEF CoolingDown, Elapsed
    <2> QED BY <2>1, <2>3 DEF Goto
  <1>2. CASE GetStateAndDecide
    <2>1. theLease \in Leases /\ cache[theLease] \in State /\ now \in Nat
      BY DEF CoreInv, TypeOK, theLease, Leases
    <2>2. PICK seen \in Demands, complete \in BOOLEAN :
            /\ st' = cache[theLease] /\ dec' = Decide(seen, cache[theLease], complete)
            /\ cur' = cur /\ cache[theLease].prid = 0 /\ pc' = "find"
            /\ now' = now /\ hist' = hist
      BY <1>2 DEF GetStateAndDecide, Return
    <2>3. dec' = "shrink" => shrinkGatesOpen(cache[theLease], complete)
      BY <2>2 DEF Decide
    <2> QED BY <2>2, <2>3 DEF shrinkGatesOpen, Elapsed
  <1>3. CASE \/ UNCHANGED vars \/ Environment \/ Crash
    BY <1>3 DEF vars, local, Environment, CacheSync, Settle, Human, DemandChanges, Tick, Crash, Return
  <1>4. ASSUME NEW q \in Quotas, Reconcile(q) PROVE FALSE
    BY <1>4 DEF Reconcile
  <1>5. ~Return /\ \A m : ~MutateState(m) /\ \A p \in PCs \ {"find", "create"} : ~Goto(p)
    BY DEF Return, MutateState, Goto
  <1>6. CASE GetPRStatus \/ ClosePR \/ MergePR \/ UpdatePR
    BY <1>5, <1>6 DEF GetPRStatus, ClosePR, MergePR, UpdatePR, UpdateIfGrow, PCs
  <1>7. CASE \/ ensureLeaseExists \/ WriteLease \/ WriteLeaseNotFound \/ CallFails
             \/ WriteLeaseLost \/ CreatePR \/ AddLabels \/ TakeBack
    BY <1>5, <1>7 DEF ensureLeaseExists, WriteLease, WriteLeaseNotFound, CallFails,
       WriteLeaseLost, CreatePR, AddLabels, TakeBack, PCs
  <1> QED BY <1>1, <1>2, <1>3, <1>4, <1>6, <1>7 DEF Next, Running, Step

\* Time only passes.
LEMMA ElapsedStays ==
    ASSUME NEW t \in Nat, NEW span \in Nat, now \in Nat, now' \in Nat, now' >= now,
           Elapsed(t, span)
    PROVE  Elapsed(t, span)'
  BY DEF Elapsed

LEMMA SpacingInvInductive ==
    ASSUME CoreInv, CoreInv', SpacingInv, [Next]_vars
    PROVE  SpacingInv'
  <1> DEFINE Releasing == mut.kind \in {"release", "closed", "merged"}
  <1>0. now \in Nat /\ now' \in Nat /\ mut \in Mutations /\ theLease \in Leases /\ st \in State
        /\ st' \in State
    BY DEF CoreInv, TypeOK, theLease, Leases
  <1>1. ASSUME NEW l \in Leases
        PROVE  /\ synced'[l] => cache'[l] = lease'[l]
               /\ ~lease'[l].exists => lease'[l] = NoLease
               /\ Covers(lease'[l], hist'[l])
               /\ cache'[l].prid = 0 => Covers(cache'[l], hist'[l])
               /\ NotAfter(hist'[l], now')
               /\ Releasing' => NotAfter(hist'[l], mut'.at)
    <2>1. /\ LeaseMoves(l) /\ (UpdateLease \/ hist' = hist) /\ now' >= now
      BY LeaseStep
    <2>2. /\ lease[l] \in State /\ cache[l] \in State
          /\ hist[l] \in [shrink : Nat, grow : Nat, merge : Nat]
          /\ lease'[l] \in State /\ cache'[l] \in State
          /\ hist'[l] \in [shrink : Nat, grow : Nat, merge : Nat]
      BY DEF CoreInv, TypeOK
    <2>3. /\ synced[l] => cache[l] = lease[l]
          /\ ~lease[l].exists => lease[l] = NoLease
          /\ Covers(lease[l], hist[l])
          /\ cache[l].prid = 0 => Covers(cache[l], hist[l])
          /\ NotAfter(hist[l], now)
          /\ Releasing => NotAfter(hist[l], mut.at) /\ mut.at <= now
      BY DEF SpacingInv
    <2>4. synced'[l] => cache'[l] = lease'[l]
      BY <2>1, <2>3 DEF LeaseMoves
    <2>5. ~lease'[l].exists => lease'[l] = NoLease
      <3>1. FreshLease.exists
        BY DEF FreshLease, NoLease
      <3>2. UpdateLease /\ l = theLease => ApplyFn(mut, cache[l], now).exists
        BY <1>0, <2>2 DEF UpdateLease, ApplyFn, ReleaseFn, ClosedFn, MergedFn, AdoptFn,
           AcquireFn, State, Mutations, MutKinds
      <3> QED BY <2>1, <2>3, <3>1, <3>2 DEF LeaseMoves
    <2>6. UpdateLease /\ l = theLease => synced[l] /\ cache'[l] = cache[l] /\ mut.at \in Nat
      BY <1>0 DEF UpdateLease, Mutations
    <2>7. UpdateLease /\ l # theLease => hist'[l] = hist[l]
      BY <1>0 DEF UpdateLease, RecordRelease, CoreInv, TypeOK
    <2>8. UpdateLease /\ l = theLease =>
             /\ Covers(ApplyFn(mut, cache[l], now), hist'[l])
             /\ cache[l].prid = 0 => hist'[l] = hist[l]
             /\ \/ hist'[l] = hist[l]
                \/ /\ Releasing
                   /\ hist'[l].shrink \in {hist[l].shrink, mut.at}
                   /\ hist'[l].grow \in {hist[l].grow, mut.at}
                   /\ hist'[l].merge \in {hist[l].merge, mut.at}
      BY <2>3, <2>6, ReleaseCovered
    <2>9. Covers(lease'[l], hist'[l])
      <3>1. CASE UpdateLease /\ l = theLease
        <4>1. lease'[l] = ApplyFn(mut, cache[l], now)
          BY <1>0, <3>1 DEF UpdateLease, CoreInv, TypeOK
        <4> QED BY <2>8, <3>1, <4>1
      <3>2. CASE ~(UpdateLease /\ l = theLease)
        <4>1. hist'[l] = hist[l]
          BY <2>1, <2>7, <3>2
        <4>2. ~lease[l].exists => Covers(FreshLease, hist[l])
          BY <2>2, <2>3 DEF Covers, FreshLease, NoLease
        <4> QED BY <2>1, <2>3, <3>2, <4>1, <4>2 DEF LeaseMoves
      <3> QED BY <3>1, <3>2
    <2>10. cache'[l].prid = 0 => Covers(cache'[l], hist'[l])
      <3>1. CASE UpdateLease /\ l = theLease
        BY <2>3, <2>6, <2>8, <3>1
      <3>2. CASE ~(UpdateLease /\ l = theLease)
        BY <2>1, <2>3, <2>7, <3>2 DEF LeaseMoves
      <3> QED BY <3>1, <3>2
    <2>11. /\ NotAfter(hist'[l], now) /\ NotAfter(hist'[l], now')
           /\ Releasing => NotAfter(hist'[l], mut.at)
      <3>1. mut.at \in Nat
        BY <1>0 DEF Mutations
      <3>2. hist'[l] = hist[l] \/ (UpdateLease /\ l = theLease)
        BY <2>1, <2>7
      <3> QED BY <1>0, <2>1, <2>2, <2>3, <2>8, <3>1, <3>2 DEF NotAfter
    <2>12. Releasing' => NotAfter(hist'[l], mut'.at)
      BY <2>11, MutationStep DEF MutationMoves
    <2> QED BY <2>4, <2>5, <2>9, <2>10, <2>11, <2>12
  <1>2. Releasing' => mut'.at <= now'
    <2>1. mut.at \in Nat /\ (Releasing => mut.at <= now) /\ now' >= now
      BY <1>0, LeaseStep DEF SpacingInv, Mutations
    <2> QED BY <1>0, <2>1, MutationStep DEF MutationMoves
  <1>3. ASSUME pc' \in {"find", "create"}
        PROVE  /\ Covers(st, hist[theLease])'
               /\ dec' = "shrink" => /\ Elapsed(st.lastGrow, WindowSpan)'
                                     /\ Elapsed(st.lastShrink, ShrinkCooldown)'
               /\ pc' = "create" /\ dec' = "grow" => Elapsed(st.lastModified, GrowCooldown)'
    <2>1. cur' = cur /\ theLease' = theLease
      BY <1>3, GateStep DEF theLease
    <2>2. /\ now' >= now /\ st.lastGrow \in Nat /\ st.lastShrink \in Nat /\ st.lastModified \in Nat
          /\ WindowSpan \in Nat /\ ShrinkCooldown \in Nat /\ GrowCooldown \in Nat
      BY <1>0, LeaseStep, PolicyAssumption DEF State
    <2>3. CASE pc' = pc /\ st' = st /\ dec' = dec
      <3>1. hist' = hist
        BY <1>0, <1>3, <2>3, LeaseStep DEF UpdateLease
      <3>2. /\ Covers(st, hist[theLease])
            /\ dec = "shrink" => /\ Elapsed(st.lastGrow, WindowSpan)
                                 /\ Elapsed(st.lastShrink, ShrinkCooldown)
            /\ pc = "create" /\ dec = "grow" => Elapsed(st.lastModified, GrowCooldown)
        BY <1>3, <2>3 DEF SpacingInv
      <3> QED BY <1>0, <2>1, <2>2, <2>3, <3>1, <3>2, ElapsedStays DEF Elapsed
    <2>4. CASE /\ pc' = "find" /\ st' = cache[theLease] /\ st'.prid = 0
               /\ dec' = "shrink" => /\ Elapsed(st'.lastGrow, WindowSpan)
                                     /\ Elapsed(st'.lastShrink, ShrinkCooldown)
               /\ now' = now /\ hist' = hist
      <3>1. Covers(cache[theLease], hist[theLease])
        BY <1>0, <2>4 DEF SpacingInv
      <3> QED BY <2>1, <2>4, <3>1 DEF Elapsed
    <2>5. CASE /\ pc = "find" /\ pc' = "create" /\ st' = st /\ dec' = dec /\ now' = now
               /\ dec = "grow" => Elapsed(st.lastModified, GrowCooldown)
      <3>1. hist' = hist
        BY <1>0, <2>5, LeaseStep DEF UpdateLease
      <3>2. /\ Covers(st, hist[theLease])
            /\ dec = "shrink" => /\ Elapsed(st.lastGrow, WindowSpan)
                                 /\ Elapsed(st.lastShrink, ShrinkCooldown)
        BY <2>5 DEF SpacingInv
      <3> QED BY <2>1, <2>5, <3>1, <3>2 DEF Elapsed
    <2> QED BY <1>3, <2>3, <2>4, <2>5, GateStep
  <1> QED BY <1>1, <1>2, <1>3 DEF SpacingInv

LEMMA SpacingInit == Init => SpacingInv
  <1> SUFFICES ASSUME Init PROVE SpacingInv
    OBVIOUS
  <1>1. ASSUME NEW l \in Leases
        PROVE  /\ lease[l] = NoLease /\ cache[l] = NoLease
               /\ hist[l] = [shrink |-> Zero, grow |-> Zero, merge |-> Zero]
    BY DEF Init
  <1>2. Covers(NoLease, [shrink |-> Zero, grow |-> Zero, merge |-> Zero])
        /\ NotAfter([shrink |-> Zero, grow |-> Zero, merge |-> Zero], 1)
    BY DEF Covers, NotAfter, NoLease, Zero
  <1>3. now = 1 /\ pc = "idle" /\ mut.kind = "none"
    BY DEF Init, NoMutation
  <1> QED BY <1>1, <1>2, <1>3 DEF SpacingInv

\* The pull request a step opens is the one CreatePR opens.
LEMMA OpenedByCreate ==
    ASSUME CoreInv, [Next]_vars, NEW n \in DOMAIN prs' \ DOMAIN prs
    PROVE  pc = "create" /\ prs'[n].quota = cur /\ prs'[n].dir = dec
  <1>1. CASE ~CreatePR
    BY <1>1, OnlyCreateOpens DEF OpensNothing
  <1>2. CASE CreatePR
    <2> DEFINE e == [quota |-> cur, dir |-> dec, content |-> dec,
                     created |-> now, fate |-> "open", settled |-> TRUE]
    <2>1. e \in PullRequest /\ e.quota = cur /\ e.dir = dec /\ pc = "create"
      BY <1>2 DEF CoreInv, TypeOK, DirInv, LocalOK, CreatePR, PullRequest, Fates
    <2>2. prs' = prs \/ prs' = Append(prs, e)
      BY <1>2 DEF CreatePR
    <2> HIDE DEF e
    <2>3. /\ Len(prs) \in Nat /\ DOMAIN prs = 1 .. Len(prs)
          /\ DOMAIN prs' = 1 .. Len(prs) + 1 /\ prs'[Len(prs) + 1] = e
      BY <2>1, <2>2, AppendFacts DEF CoreInv, TypeOK
    <2>4. n = Len(prs) + 1
      BY <2>3
    <2> QED BY <2>1, <2>3, <2>4
  <1> QED BY <1>1, <1>2

\* What the gates let through on the stamps they read holds of the history.
LEMMA CoveredElapsed ==
    ASSUME NEW h \in Nat, NEW t \in Nat, NEW span \in Nat, now \in Nat, h <= t, Elapsed(t, span)
    PROVE  Elapsed(h, span)
  BY DEF Elapsed, Zero

LEMMA SpacedStep ==
    ASSUME CoreInv, SpacingInv, [Next]_vars, NEW n \in DOMAIN prs' \ DOMAIN prs
    PROVE  LET h == hist[getLeaseName(prs'[n].quota)]
           IN  /\ prs'[n].dir = "shrink" =>
                     Elapsed(h.shrink, ShrinkCooldown) /\ Elapsed(h.grow, WindowSpan)
               /\ prs'[n].dir = "grow" => Elapsed(h.merge, GrowCooldown)
  <1>1. pc = "create" /\ getLeaseName(prs'[n].quota) = theLease /\ prs'[n].dir = dec
    BY OpenedByCreate DEF theLease
  <1>2. /\ theLease \in Leases /\ st \in State /\ now \in Nat
        /\ hist[theLease] \in [shrink : Nat, grow : Nat, merge : Nat]
    BY DEF CoreInv, TypeOK, theLease, Leases
  <1>3. /\ hist[theLease].shrink \in Nat /\ hist[theLease].grow \in Nat
        /\ hist[theLease].merge \in Nat
        /\ st.lastGrow \in Nat /\ st.lastShrink \in Nat /\ st.lastModified \in Nat
    BY <1>2 DEF State
  <1>4. /\ Covers(st, hist[theLease])
        /\ dec = "shrink" => /\ Elapsed(st.lastGrow, WindowSpan)
                             /\ Elapsed(st.lastShrink, ShrinkCooldown)
        /\ dec = "grow" => Elapsed(st.lastModified, GrowCooldown)
    BY <1>1 DEF SpacingInv
  <1> QED BY <1>1, <1>2, <1>3, <1>4, CoveredElapsed, PolicyAssumption DEF Covers

\* However stale the Lease a reconcile read, whatever writes were lost, and
\* also across crashes: a shrink is opened only when the cooldown has passed
\* since the lock of the last shrink was released, and a window since the
\* merge of a grow was recorded.
THEOREM ShrinksSpaced == Spec => ShrinkSpacing
  <1>1. CoreInv /\ SpacingInv /\ [Next]_vars =>
          [\A n \in DOMAIN prs' \ DOMAIN prs :
             prs'[n].dir = "shrink" =>
                LET h == hist[getLeaseName(prs'[n].quota)]
                IN  Elapsed(h.shrink, ShrinkCooldown) /\ Elapsed(h.grow, WindowSpan)]_vars
    BY SpacedStep
  <1>2. CoreInv /\ SpacingInv /\ [Next]_vars => CoreInv' /\ SpacingInv'
    BY CoreInvInductive, SpacingInvInductive
  <1> QED BY <1>1, <1>2, InitCore, SpacingInit, PTL DEF Spec, ShrinkSpacing

\* Likewise a grow is opened only when the grow cooldown has passed since a
\* merge was recorded on the Lease.
THEOREM GrowsSpaced == Spec => GrowSpacing
  <1>1. CoreInv /\ SpacingInv /\ [Next]_vars =>
          [\A n \in DOMAIN prs' \ DOMAIN prs :
             prs'[n].dir = "grow" =>
                Elapsed(hist[getLeaseName(prs'[n].quota)].merge, GrowCooldown)]_vars
    BY SpacedStep
  <1>2. CoreInv /\ SpacingInv /\ [Next]_vars => CoreInv' /\ SpacingInv'
    BY CoreInvInductive, SpacingInvInductive
  <1> QED BY <1>1, <1>2, InitCore, SpacingInit, PTL DEF Spec, GrowSpacing

-----------------------------------------------------------------------------
(* The collector *)

\* A step that does nothing to pull requests and to the reconcile under way,
\* and leaves every Lease as it is or deletes it.
OnlyDeletes ==
    /\ UNCHANGED <<cache, prs, now, demand, local, hist>>
    /\ faults' \in Nat /\ synced' \in [Leases -> BOOLEAN]
    /\ lease' \in [Leases -> State]
    /\ \A l \in Leases : lease'[l] \in {lease[l], NoLease}

\* Such a step keeps the invariants: a Lease that is gone names no pull
\* request, and no direction with it.
LEMMA DeletionKeeps ==
    ASSUME CoreInv, OpenInv, OnlyDeletes
    PROVE  CoreInv' /\ OpenInv'
  <1>1. TypeOK'
    BY DEF CoreInv, TypeOK, OnlyDeletes, local
  <1>2. NoLease.prid = 0
    BY DEF NoLease
  <1>3. \A l \in Leases : DirOK(lease[l])' /\ DirOK(cache[l])'
    BY <1>2 DEF CoreInv, DirInv, DirOK, OnlyDeletes
  <1>4. DirInv'
    BY <1>3 DEF CoreInv, DirInv, DirOK, LocalOK, ShrinkNeverAutoMerged, OnlyDeletes, local
  <1>5. OpenInv'
    BY DEF OpenInv, OneOpenPR, NoneOpen, OnlyDeletes, local
  <1> QED BY <1>1, <1>4, <1>5 DEF CoreInv

\* Every step of the composition is one of the life cycle, or such a step.
LEMMA CollectorSteps ==
    ASSUME CoreInv, [GCNext]_all
    PROVE  [Next]_vars \/ OnlyDeletes
  <1>1. CASE UNCHANGED all
    BY <1>1 DEF all
  <1>2. CASE Worker \/ ProcessDies
    BY <1>2 DEF Worker, ProcessDies, Next
  <1>3. ASSUME NEW n \in Namespaces, NamespaceDeleted(n) PROVE OnlyDeletes
    BY <1>3 DEF NamespaceDeleted, OnlyDeletes, Fault, kube, CoreInv, TypeOK
  <1>4. ASSUME NEW n \in Namespaces, NamespaceRecreated(n) PROVE [Next]_vars
    BY <1>4 DEF NamespaceRecreated
  <1>5. ASSUME NEW l \in Leases, NamespaceNotFound(l) PROVE [Next]_vars
    BY <1>5 DEF NamespaceNotFound
  <1>6. ASSUME NEW l \in Leases, DeleteLease(l) PROVE OnlyDeletes
    BY <1>6, StateTypes DEF DeleteLease, OnlyDeletes, CoreInv, TypeOK
  <1>7. CASE DeleteLeaseFails
    BY <1>7 DEF DeleteLeaseFails, OnlyDeletes, Fault, kube, CoreInv, TypeOK
  <1> QED BY <1>1, <1>2, <1>3, <1>4, <1>5, <1>6, <1>7 DEF GCNext, cleanup

LEMMA CollectorInductive == CoreInv /\ OpenInv /\ [GCNext]_all => CoreInv' /\ OpenInv'
  BY CollectorSteps, DeletionKeeps, CoreInvInductive, OpenInvInductive

LEMMA CollectorInit == GCInit => CoreInv /\ OpenInv
  BY InitCore, EmptySeq, LenProperties DEF GCInit, Init, OpenInv, OneOpenPR

\* However the collector's unconditional Delete interleaves with a reconcile,
\* also when the namespace is back by then and the Lease holds the lock of a
\* live quota: the pull request is found again, and no second one is opened.
THEOREM CollectedStillOneOpenPR == GCSpec => []OneOpenPR
  <1>1. OpenInv => OneOpenPR
    BY DEF OpenInv
  <1> QED BY CollectorInit, CollectorInductive, <1>1, PTL DEF GCSpec

\* Nor does losing the direction kept on the Lease ever get a shrink merged.
THEOREM CollectedNeverAutoMergesShrink == GCSpec => []ShrinkNeverAutoMerged
  <1>1. CoreInv => ShrinkNeverAutoMerged
    BY DEF CoreInv, DirInv
  <1> QED BY CollectorInit, CollectorInductive, <1>1, PTL DEF GCSpec

\* A collector is no more than what ProposalLifecycle allows for: with Leases
\* deleted under it, the controller still implements the life cycle.
THEOREM CollectedLifecycleImplemented == GCSpec => ImplementsLifecycle
  <1>1. GCInit => Life!Init
    <2> SUFFICES ASSUME GCInit PROVE Proposals = <<>>
      BY DEF Life!Init
    <2>1. DOMAIN prs = {}
      BY EmptySeq, LenProperties DEF GCInit, Init
    <2> QED BY <2>1 DEF Proposals
  <1>2. CoreInv /\ OpenInv /\ [GCNext]_all => [Life!Next]_Proposals
    <2> SUFFICES ASSUME CoreInv, OpenInv, [GCNext]_all PROVE [Life!Next]_Proposals
      OBVIOUS
    <2>1. CASE [Next]_vars
      BY <2>1, LifecycleStep
    <2>2. CASE OnlyDeletes
      BY <2>2, SameProposals DEF OnlyDeletes
    <2> QED BY <2>1, <2>2, CollectorSteps
  <1> QED BY <1>1, <1>2, CollectorInit, CollectorInductive, PTL
          DEF GCSpec, ImplementsLifecycle, Life!Spec

\* Where no two quotas share a Lease, a lock that is there after a deletion is
\* the lock of its quota: a MutateState call that was under way when the Lease
\* went away cannot leave somebody else's.
THEOREM CollectedLocksFaithful == LeasesDistinct => (GCSpec => []LockFaithful)
  <1> SUFFICES ASSUME LeasesDistinct PROVE GCSpec => []LockFaithful
    OBVIOUS
  <1>1. GCInit => LockInv
    BY LockInit DEF GCInit
  <1>2. CoreInv /\ LockInv /\ [GCNext]_all => LockInv'
    <2> SUFFICES ASSUME CoreInv, LockInv, [GCNext]_all PROVE LockInv'
      OBVIOUS
    <2>1. CASE [Next]_vars
      BY <2>1, LockInvInductive
    <2>2. CASE OnlyDeletes
      <3>1. NoLease.prid = 0
        BY DEF NoLease
      <3>2. \A q \in Quotas : lease'[getLeaseName(q)] \in {lease[getLeaseName(q)], NoLease}
        BY <2>2 DEF OnlyDeletes, Leases
      <3> QED BY <2>2, <3>1, <3>2 DEF LockInv, LockOf, OnlyDeletes, local
    <2> QED BY <2>1, <2>2, CollectorSteps
  <1>3. CoreInv /\ LockInv => LockFaithful
    BY LockInvFaithful
  <1> QED BY <1>1, <1>2, <1>3, CollectorInit, CollectorInductive, PTL DEF GCSpec
=============================================================================
