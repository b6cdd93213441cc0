---------------------------- MODULE ResizerProofs ----------------------------
(***************************************************************************)
(* Theorems about Resizer, for every set of quotas, every policy and every *)
(* bound.                                                                  *)
(***************************************************************************)
EXTENDS Resizer, SequenceTheorems, TLAPS

(* Facts about the helpers. *)

\* Every MutateState closure maps a State to a State.
LEMMA ApplyFnType ==
    ASSUME NEW m \in Mutations, NEW s \in State, NEW t \in Nat
    PROVE  ApplyFn(m, s, t) \in State
  BY DEF ApplyFn, ReleaseFn, ClosedFn, MergedFn, AdoptFn, AcquireFn, Mutations, State,
         MutKinds, Directions, NoLease

LEMMA StateTypes ==
    NoLease \in State /\ FreshLease \in State /\ NoMutation \in Mutations
  BY DEF NoLease, FreshLease, NoMutation, State, Mutations, MutKinds, Directions, Zero

\* Replacing one pull request by another of the same quota, direction and age.
LEMMA ReplaceOne ==
    ASSUME prs \in Seq(PullRequest), NEW n \in DOMAIN prs, NEW e \in PullRequest,
           prs' = [prs EXCEPT ![n] = e]
    PROVE  /\ prs' \in Seq(PullRequest) /\ Len(prs') = Len(prs)
           /\ DOMAIN prs' = DOMAIN prs /\ DOMAIN prs = 1 .. Len(prs)
           /\ prs'[n] = e
           /\ \A i \in DOMAIN prs : i # n => prs'[i] = prs[i]
  BY ExceptSeq, LenProperties

\* What ending a pull request does to the list of pull requests.
LEMMA EndFacts ==
    ASSUME prs \in Seq(PullRequest), NEW n \in DOMAIN prs, NEW f \in Fates, End(n, f)
    PROVE  /\ prs' \in Seq(PullRequest) /\ Len(prs') = Len(prs)
           /\ DOMAIN prs' = DOMAIN prs /\ DOMAIN prs = 1 .. Len(prs)
           /\ \A i \in DOMAIN prs : i # n => prs'[i] = prs[i]
           /\ prs'[n].quota = prs[n].quota /\ prs'[n].dir = prs[n].dir
           /\ prs'[n].content = prs[n].content
           /\ prs[n].fate = "open" => prs'[n].fate = f
           /\ prs[n].fate # "open" => prs' = prs
  <1> DEFINE e == [prs[n] EXCEPT !.fate = f, !.settled = FALSE]
  <1>1. DOMAIN prs = 1 .. Len(prs) /\ prs[n] \in PullRequest
    BY LenProperties, ElementOfSeq
  <1>2. e \in PullRequest /\ e.fate = f /\ e.quota = prs[n].quota
        /\ e.dir = prs[n].dir /\ e.content = prs[n].content
    BY <1>1 DEF PullRequest
  <1>3. CASE prs[n].fate = "open"
    <2>1. prs' = [prs EXCEPT ![n] = e]
      BY <1>3 DEF End
    <2> HIDE DEF e
    <2> QED BY <1>1, <1>2, <1>3, <2>1, ReplaceOne
  <1>4. CASE prs[n].fate # "open"
    BY <1>1, <1>4 DEF End
  <1> QED BY <1>3, <1>4

\* What UpdatePR and GitHub catching up do: one field of one pull request.
LEMMA SetContentFacts ==
    ASSUME prs \in Seq(PullRequest), NEW n \in DOMAIN prs, NEW d \in Directions,
           prs' = [prs EXCEPT ![n].content = d]
    PROVE  /\ prs' \in Seq(PullRequest) /\ Len(prs') = Len(prs)
           /\ DOMAIN prs' = DOMAIN prs /\ DOMAIN prs = 1 .. Len(prs)
           /\ \A i \in DOMAIN prs : i # n => prs'[i] = prs[i]
           /\ prs'[n] = [prs[n] EXCEPT !.content = d]
  <1> DEFINE e == [prs[n] EXCEPT !.content = d]
  <1>1. prs[n] \in PullRequest
    BY LenProperties, ElementOfSeq
  <1>2. e \in PullRequest /\ prs' = [prs EXCEPT ![n] = e]
    BY <1>1 DEF PullRequest
  <1> HIDE DEF e
  <1>3. prs'[n] = e
    BY <1>2, ReplaceOne
  <1> QED BY <1>2, <1>3, ReplaceOne DEF e

LEMMA SettleFacts ==
    ASSUME prs \in Seq(PullRequest), NEW n \in DOMAIN prs,
           prs' = [prs EXCEPT ![n].settled = TRUE]
    PROVE  /\ prs' \in Seq(PullRequest) /\ Len(prs') = Len(prs)
           /\ DOMAIN prs' = DOMAIN prs /\ DOMAIN prs = 1 .. Len(prs)
           /\ \A i \in DOMAIN prs : i # n => prs'[i] = prs[i]
           /\ prs'[n] = [prs[n] EXCEPT !.settled = TRUE]
  <1> DEFINE e == [prs[n] EXCEPT !.settled = TRUE]
  <1>1. prs[n] \in PullRequest
    BY LenProperties, ElementOfSeq
  <1>2. e \in PullRequest /\ prs' = [prs EXCEPT ![n] = e]
    BY <1>1 DEF PullRequest
  <1> HIDE DEF e
  <1>3. prs'[n] = e
    BY <1>2, ReplaceOne
  <1> QED BY <1>2, <1>3, ReplaceOne DEF e

-----------------------------------------------------------------------------
(***************************************************************************)
(* Where the reconcile is determines what its local state can be.  TypeOK  *)
(* alone is not inductive: handleActivePR looks st.prid up in prs, and     *)
(* CreatePR uses the decision as a direction.                              *)
(***************************************************************************)

\* A State names a pull request that exists, with its direction.
DirOK(s) == s.prid # 0 => s.prid \in DOMAIN prs /\ s.dir = prs[s.prid].dir

LocalOK ==
    /\ pc \in {"status", "close", "merge", "update"} => st.prid # 0
    /\ pc \in {"find", "create"} => st.prid = 0 /\ dec \in Directions
    /\ pc = "close" => st.dir = "shrink"
    /\ pc \in {"merge", "update"} => st.dir # "shrink"
    /\ pc = "update" => dec = "grow"
    /\ pc \in {"label", "unlabelled"} => mut.kind = "acquire"
    /\ pc = "label" => mut.dir = dec
    /\ pc = "unlabelled" => mut.dir = "shrink"
    /\ mut.kind \in {"adopt", "acquire"} =>
          mut.prid \in DOMAIN prs /\ mut.dir = prs[mut.prid].dir

DirInv ==
    /\ \A l \in Leases : DirOK(lease[l]) /\ DirOK(cache[l])
    /\ DirOK(st)
    /\ LocalOK
    /\ \A n \in DOMAIN prs : prs[n].content = prs[n].dir
    /\ ShrinkNeverAutoMerged

CoreInv == TypeOK /\ DirInv

\* A closure keeps the direction of the lock right.
LEMMA ApplyFnDir ==
    ASSUME NEW m \in Mutations, NEW s \in State, NEW t \in Nat, DirOK(s),
           m.kind \in {"adopt", "acquire"} =>
               m.prid \in DOMAIN prs /\ m.dir = prs[m.prid].dir
    PROVE  DirOK(ApplyFn(m, s, t))
  BY DEF ApplyFn, ReleaseFn, ClosedFn, MergedFn, AdoptFn, AcquireFn, Mutations, State,
         MutKinds, Directions, DirOK

LEMMA ReturnFacts ==
    ASSUME Return, TypeOK
    PROVE  /\ pc' \in PCs /\ cur' \in Quotas /\ st' \in State /\ mut' \in Mutations
           /\ dec' \in Directions \cup {"none"}
           /\ DirOK(st)' /\ LocalOK'
  BY StateTypes DEF Return, TypeOK, PCs, DirOK, LocalOK, NoLease, NoMutation, Directions

LEMMA InitCore == Init => CoreInv
  <1> SUFFICES ASSUME Init PROVE CoreInv
    OBVIOUS
  <1>1. prs = <<>> /\ DOMAIN prs = {} /\ prs \in Seq(PullRequest)
    BY EmptySeq, LenProperties DEF Init
  <1>2. TypeOK
    BY <1>1, StateTypes DEF Init, TypeOK, PCs, Directions, Zero
  <1>3. DirInv
    BY <1>1 DEF Init, DirInv, DirOK, LocalOK, ShrinkNeverAutoMerged, NoLease, NoMutation
  <1> QED BY <1>2, <1>3 DEF CoreInv

LEMMA ReconcileCore ==
    ASSUME CoreInv, NEW q \in Quotas, Reconcile(q)
    PROVE  CoreInv'
  <1>1. TypeOK'
    BY StateTypes DEF CoreInv, TypeOK, Reconcile, kube, PCs, Mutations, MutKinds, NoMutation
  <1>2. DirInv'
    BY DEF CoreInv, TypeOK, DirInv, DirOK, LocalOK, ShrinkNeverAutoMerged, Reconcile, kube, NoMutation, Mutations
  <1> QED BY <1>1, <1>2 DEF CoreInv

LEMMA EnsureCore ==
    ASSUME CoreInv, ensureLeaseExists
    PROVE  CoreInv'
  <1>0. theLease \in Leases
    BY DEF CoreInv, TypeOK, theLease, Leases
  <1>1. TypeOK'
    BY <1>0, StateTypes DEF CoreInv, TypeOK, ensureLeaseExists, kube, Goto, PCs
  <1>2. FreshLease.prid = 0
    BY DEF FreshLease, NoLease
  <1>3. \A l \in Leases : lease'[l] = lease[l] \/ lease'[l] = FreshLease
    BY <1>0 DEF CoreInv, TypeOK, ensureLeaseExists, kube
  <1>4. UNCHANGED <<cache, prs>> /\ Goto("write")
    BY DEF ensureLeaseExists, kube
  <1>5. DirInv'
    BY <1>2, <1>3, <1>4 DEF CoreInv, DirInv, DirOK, LocalOK, ShrinkNeverAutoMerged, Goto
  <1> QED BY <1>1, <1>5 DEF CoreInv

\* The write itself, whichever way MutateState returns.
LEMMA UpdateLeaseFacts ==
    ASSUME CoreInv, UpdateLease
    PROVE  /\ lease' \in [Leases -> State] /\ cache' = cache
           /\ synced' \in [Leases -> BOOLEAN]
           /\ hist' \in [Leases -> [shrink : Nat, grow : Nat, merge : Nat]]
           /\ prs' = prs /\ now' = now /\ demand' = demand
           /\ \A l \in Leases : DirOK(lease[l])'
  <1> DEFINE l == theLease
             s == ApplyFn(mut, cache[l], now)
  <1>1. l \in Leases
    BY DEF CoreInv, TypeOK, theLease, Leases
  <1>2. s \in State
    BY <1>1, ApplyFnType DEF CoreInv, TypeOK
  <1>3. DirOK(s)
    BY <1>1, ApplyFnDir DEF CoreInv, TypeOK, DirInv, LocalOK
  <1>4. lease' = [lease EXCEPT ![l] = s] /\ prs' = prs /\ now' = now /\ demand' = demand
        /\ cache' = cache /\ synced' \in [Leases -> BOOLEAN]
    BY <1>1 DEF UpdateLease, CoreInv, TypeOK
  <1> HIDE DEF s
  <1>5. hist' \in [Leases -> [shrink : Nat, grow : Nat, merge : Nat]]
    BY <1>1 DEF UpdateLease, RecordRelease, CoreInv, TypeOK, Mutations
  <1>6. \A k \in Leases : DirOK(lease[k])'
    BY <1>1, <1>3, <1>4 DEF CoreInv, TypeOK, DirInv, DirOK
  <1> QED BY <1>2, <1>4, <1>5, <1>6 DEF CoreInv, TypeOK

LEMMA WriteCore ==
    ASSUME CoreInv, WriteLease \/ WriteLeaseLost
    PROVE  CoreInv'
  <1>1. UpdateLease
    BY DEF WriteLease, WriteLeaseLost
  <1>2. faults' \in Nat
    BY DEF WriteLease, WriteLeaseLost, Fault, CoreInv, TypeOK
  <1>3. CASE Return
    BY <1>1, <1>2, <1>3, UpdateLeaseFacts, ReturnFacts
       DEF CoreInv, TypeOK, DirInv, DirOK, ShrinkNeverAutoMerged
  <1>4. CASE pc' = "read" /\ mut' = NoMutation /\ UNCHANGED <<cur, st, dec>>
    <2>1. TypeOK'
      BY <1>1, <1>2, <1>4, UpdateLeaseFacts, StateTypes DEF CoreInv, TypeOK, PCs
    <2>2. DirInv'
      BY <1>1, <1>4, UpdateLeaseFacts
         DEF CoreInv, DirInv, DirOK, LocalOK, ShrinkNeverAutoMerged, NoMutation
    <2> QED BY <2>1, <2>2 DEF CoreInv
  <1> QED BY <1>3, <1>4 DEF WriteLease, WriteLeaseLost

LEMMA ErrorCore ==
    ASSUME CoreInv, WriteLeaseNotFound \/ CallFails
    PROVE  CoreInv'
  <1>1. Return /\ UNCHANGED <<kube, prs, now, demand, hist>> /\ faults' \in Nat
    BY DEF WriteLeaseNotFound, CallFails, Fault, CoreInv, TypeOK
  <1> QED BY <1>1, ReturnFacts DEF CoreInv, TypeOK, DirInv, DirOK, ShrinkNeverAutoMerged, kube

LEMMA CrashCore ==
    ASSUME CoreInv, Crash
    PROVE  CoreInv'
  BY ReturnFacts DEF Crash, Fault, CoreInv, TypeOK, DirInv, DirOK, ShrinkNeverAutoMerged

LEMMA DecideCore ==
    ASSUME CoreInv, GetStateAndDecide
    PROVE  CoreInv'
  <1>0. theLease \in Leases
    BY DEF CoreInv, TypeOK, theLease, Leases
  <1>1. faults' \in Nat /\ UNCHANGED <<kube, prs, now, demand, hist>>
    BY DEF GetStateAndDecide, Fault, CoreInv, TypeOK
  <1>2. CASE Return
    BY <1>1, <1>2, ReturnFacts DEF CoreInv, TypeOK, DirInv, DirOK, ShrinkNeverAutoMerged, kube
  <1>3. CASE ~Return
    <2>1. PICK d \in Directions \cup {"none"} :
             /\ pc' = IF cache[theLease].prid # 0 THEN "status" ELSE "find"
             /\ st' = cache[theLease] /\ dec' = d /\ UNCHANGED <<cur, mut>>
             /\ cache[theLease].prid = 0 => d # "none"
      BY <1>3 DEF GetStateAndDecide, Decide, Directions
    <2>2. mut.kind \in {"adopt", "acquire"} =>
             mut.prid \in DOMAIN prs /\ mut.dir = prs[mut.prid].dir
      BY DEF CoreInv, DirInv, LocalOK
    <2>3. TypeOK'
      BY <1>0, <1>1, <2>1 DEF CoreInv, TypeOK, kube, PCs
    <2>4. DirInv'
      BY <1>0, <1>1, <2>1, <2>2
         DEF CoreInv, DirInv, DirOK, LocalOK, ShrinkNeverAutoMerged, kube
    <2> QED BY <2>3, <2>4 DEF CoreInv
  <1> QED BY <1>2, <1>3

\* Starting a MutateState call.
LEMMA MutateStateFacts ==
    ASSUME CoreInv, NEW m \in Mutations, MutateState(m),
           UNCHANGED <<kube, now, demand, hist>>, faults' \in Nat,
           prs' \in Seq(PullRequest), DOMAIN prs' = DOMAIN prs,
           \A n \in DOMAIN prs : prs'[n].dir = prs[n].dir /\ prs'[n].content = prs[n].content,
           ShrinkNeverAutoMerged',
           m.kind \in {"adopt", "acquire"} =>
               m.prid \in DOMAIN prs /\ m.dir = prs[m.prid].dir
    PROVE  CoreInv'
  <1>1. TypeOK'
    BY DEF CoreInv, TypeOK, MutateState, kube, PCs
  <1>2. DirInv'
    BY DEF CoreInv, TypeOK, DirInv, DirOK, LocalOK, MutateState, kube
  <1> QED BY <1>1, <1>2 DEF CoreInv

\* Returning, or going on elsewhere, after pull requests changed their fate.
LEMMA ReturnKeeps ==
    ASSUME CoreInv, Return,
           UNCHANGED <<kube, now, demand, hist>>, faults' \in Nat,
           prs' \in Seq(PullRequest), DOMAIN prs \subseteq DOMAIN prs',
           \A n \in DOMAIN prs : prs'[n].dir = prs[n].dir,
           \A n \in DOMAIN prs' : prs'[n].content = prs'[n].dir,
           ShrinkNeverAutoMerged'
    PROVE  CoreInv'
  <1>1. TypeOK'
    BY ReturnFacts DEF CoreInv, TypeOK, kube
  <1>2. \A l \in Leases : DirOK(lease[l])' /\ DirOK(cache[l])'
    BY DEF CoreInv, DirInv, DirOK, kube
  <1>3. DirInv'
    BY <1>2, ReturnFacts DEF CoreInv, DirInv
  <1> QED BY <1>1, <1>3 DEF CoreInv

LEMMA StatusCore ==
    ASSUME CoreInv, GetPRStatus
    PROVE  CoreInv'
  <1>1. UNCHANGED <<kube, prs, now, demand, faults, hist>> /\ pc = "status"
    BY DEF GetPRStatus
  <1> DEFINE m == [NoMutation EXCEPT !.kind = "release", !.merged = Merged(st.prid), !.at = now]
  <1>2. CASE Return
    BY <1>1, <1>2, ReturnFacts DEF CoreInv, TypeOK, DirInv, DirOK, ShrinkNeverAutoMerged, kube
  <1>3. CASE MutateState(m)
    <2>0. Merged(st.prid) \in BOOLEAN
      BY DEF Merged
    <2>1. m \in Mutations /\ m.kind = "release"
      BY <2>0 DEF CoreInv, TypeOK, Mutations, MutKinds, NoMutation, Directions, Zero
    <2> HIDE DEF m
    <2> QED BY <1>1, <1>3, <2>1, MutateStateFacts
            DEF CoreInv, TypeOK, DirInv, ShrinkNeverAutoMerged
  <1>4. CASE \/ Goto("close") /\ st.dir = "shrink"
             \/ Goto("merge") /\ st.dir # "shrink"
             \/ Goto("update") /\ st.dir # "shrink" /\ dec = "grow"
    <2>1. TypeOK'
      BY <1>1, <1>4 DEF CoreInv, TypeOK, kube, Goto, PCs
    <2>2. DirInv'
      BY <1>1, <1>4 DEF CoreInv, DirInv, DirOK, LocalOK, ShrinkNeverAutoMerged, kube, Goto
    <2> QED BY <2>1, <2>2 DEF CoreInv
  <1>5. \/ Return
        \/ MutateState(m)
        \/ Goto("close") /\ st.dir = "shrink"
        \/ Goto("merge") /\ st.dir # "shrink"
        \/ Goto("update") /\ st.dir # "shrink" /\ dec = "grow"
    BY Zenon DEF GetPRStatus, UpdateIfGrow, shrinkPRShouldClose
  <1> QED BY <1>2, <1>3, <1>4, <1>5

LEMMA CloseCore ==
    ASSUME CoreInv, ClosePR
    PROVE  CoreInv'
  <1> DEFINE m == [NoMutation EXCEPT !.kind = "closed", !.at = now]
  <1>1. /\ st.prid \in DOMAIN prs /\ prs[st.prid].dir = "shrink"
        /\ End(st.prid, "botClosed") /\ UNCHANGED <<kube, now, demand, hist>>
        /\ faults' \in Nat
    BY DEF CoreInv, TypeOK, DirInv, LocalOK, DirOK, ClosePR, Fault
  <1>2. /\ prs' \in Seq(PullRequest) /\ DOMAIN prs' = DOMAIN prs
        /\ \A n \in DOMAIN prs : /\ prs'[n].dir = prs[n].dir /\ prs'[n].content = prs[n].content
                                 /\ prs'[n].fate \in {prs[n].fate, "botClosed"}
    BY <1>1, EndFacts DEF CoreInv, TypeOK, Fates
  <1>3. ShrinkNeverAutoMerged'
    BY <1>2 DEF CoreInv, DirInv, ShrinkNeverAutoMerged
  <1>4. CASE Return
    <2>1. \A n \in DOMAIN prs' : prs'[n].content = prs'[n].dir
      BY <1>2 DEF CoreInv, DirInv
    <2> QED BY <1>1, <1>2, <1>3, <1>4, <2>1, ReturnKeeps
  <1>5. CASE MutateState(m)
    <2>1. m \in Mutations /\ m.kind = "closed"
      BY StateTypes DEF CoreInv, TypeOK, Mutations, MutKinds, NoMutation, Directions
    <2> HIDE DEF m
    <2> QED BY <1>1, <1>2, <1>3, <1>5, <2>1, MutateStateFacts
  <1> QED BY <1>4, <1>5 DEF ClosePR

LEMMA MergeCore ==
    ASSUME CoreInv, MergePR
    PROVE  CoreInv'
  <1> DEFINE m == [NoMutation EXCEPT !.kind = "merged", !.at = now]
  <1>1. /\ st.prid \in DOMAIN prs /\ prs[st.prid].dir = "grow" /\ st.dir # "shrink"
        /\ End(st.prid, "botMerged") \/ prs' = prs
        /\ UNCHANGED <<kube, now, demand, hist>>
        /\ faults' \in Nat
    <2>1. st.prid \in DOMAIN prs /\ prs[st.prid].dir = st.dir /\ st.dir # "shrink"
      BY DEF CoreInv, DirInv, LocalOK, DirOK, MergePR
    <2>2. prs[st.prid] \in PullRequest
      BY <2>1, LenProperties, ElementOfSeq DEF CoreInv, TypeOK
    <2> QED BY <2>1, <2>2 DEF CoreInv, TypeOK, MergePR, Fault, PullRequest, Directions
  <1>2. /\ prs' \in Seq(PullRequest) /\ DOMAIN prs' = DOMAIN prs
        /\ \A n \in DOMAIN prs : /\ prs'[n].dir = prs[n].dir /\ prs'[n].content = prs[n].content
                                 /\ (n # st.prid => prs'[n].fate = prs[n].fate)
    BY <1>1, EndFacts DEF CoreInv, TypeOK, Fates
  <1>3. ShrinkNeverAutoMerged'
    <2> SUFFICES ASSUME NEW n \in DOMAIN prs', prs'[n].fate = "botMerged"
                 PROVE  prs'[n].dir = "grow" /\ prs'[n].content = "grow"
      BY DEF ShrinkNeverAutoMerged
    <2>1. CASE n = st.prid
      BY <1>1, <1>2, <2>1 DEF CoreInv, DirInv
    <2>2. CASE n # st.prid
      BY <1>2, <2>2 DEF CoreInv, DirInv, ShrinkNeverAutoMerged
    <2> QED BY <2>1, <2>2
  <1>4. CASE Return
    <2>1. \A n \in DOMAIN prs' : prs'[n].content = prs'[n].dir
      BY <1>2 DEF CoreInv, DirInv
    <2> QED BY <1>1, <1>2, <1>3, <1>4, <2>1, ReturnKeeps
  <1>5. CASE MutateState(m)
    <2>1. m \in Mutations /\ m.kind = "merged"
      BY StateTypes DEF CoreInv, TypeOK, Mutations, MutKinds, NoMutation, Directions
    <2> HIDE DEF m
    <2> QED BY <1>1, <1>2, <1>3, <1>5, <2>1, MutateStateFacts
  <1>6. CASE Goto("update") /\ dec = "grow"
    <2>1. TypeOK'
      BY <1>1, <1>2, <1>6 DEF CoreInv, TypeOK, kube, Goto, PCs
    <2>2. DirInv'
      BY <1>1, <1>2, <1>3, <1>6 DEF CoreInv, DirInv, DirOK, LocalOK, kube, Goto
    <2> QED BY <2>1, <2>2 DEF CoreInv
  <1> QED BY <1>4, <1>5, <1>6 DEF MergePR, UpdateIfGrow

LEMMA UpdateCore ==
    ASSUME CoreInv, UpdatePR
    PROVE  CoreInv'
  <1>1. /\ st.prid \in DOMAIN prs /\ prs[st.prid].dir = st.dir /\ st.dir # "shrink"
        /\ dec = "grow" /\ Return /\ UNCHANGED <<kube, now, demand, faults, hist>>
    BY DEF CoreInv, DirInv, LocalOK, DirOK, UpdatePR
  <1>2. prs[st.prid] \in PullRequest
    BY <1>1, LenProperties, ElementOfSeq DEF CoreInv, TypeOK
  <1>3. prs[st.prid].dir = "grow"
    BY <1>1, <1>2 DEF PullRequest, Directions
  <1>4. CASE prs' = prs
    BY <1>1, <1>4, ReturnFacts DEF CoreInv, TypeOK, DirInv, DirOK, ShrinkNeverAutoMerged, kube
  <1>5. CASE prs' = [prs EXCEPT ![st.prid].content = dec]
    <2>1. /\ prs' \in Seq(PullRequest) /\ DOMAIN prs' = DOMAIN prs
          /\ \A i \in DOMAIN prs : i # st.prid => prs'[i] = prs[i]
          /\ prs'[st.prid] = [prs[st.prid] EXCEPT !.content = "grow"]
      BY <1>1, <1>5, SetContentFacts DEF CoreInv, TypeOK, Directions
    <2>2. \A i \in DOMAIN prs : /\ prs'[i].dir = prs[i].dir /\ prs'[i].content = prs[i].dir
                                /\ prs'[i].fate = prs[i].fate
      BY <1>2, <1>3, <2>1 DEF PullRequest, CoreInv, DirInv
    <2>3. ShrinkNeverAutoMerged'
      BY <2>1, <2>2 DEF CoreInv, DirInv, ShrinkNeverAutoMerged
    <2> QED BY <1>1, <2>1, <2>2, <2>3, ReturnFacts DEF CoreInv, TypeOK, DirInv, DirOK, kube
  <1> QED BY <1>4, <1>5 DEF UpdatePR

LEMMA FindCore ==
    ASSUME CoreInv, FindOpenPR
    PROVE  CoreInv'
  <1>1. UNCHANGED <<kube, prs, now, demand, faults, hist>> /\ pc = "find"
    BY DEF FindOpenPR
  <1>2. CASE Return
    BY <1>1, <1>2, ReturnFacts DEF CoreInv, TypeOK, DirInv, DirOK, ShrinkNeverAutoMerged, kube
  <1>3. CASE Goto("create")
    <2>1. TypeOK'
      BY <1>1, <1>3 DEF CoreInv, TypeOK, kube, Goto, PCs
    <2>2. DirInv'
      BY <1>1, <1>3 DEF CoreInv, DirInv, DirOK, LocalOK, ShrinkNeverAutoMerged, kube, Goto
    <2> QED BY <2>1, <2>2 DEF CoreInv
  <1>4. ASSUME NEW n \in DOMAIN prs,
               MutateState([NoMutation EXCEPT !.kind = "adopt", !.prid = n, !.dir = prs[n].dir])
        PROVE  CoreInv'
    <2> DEFINE m == [NoMutation EXCEPT !.kind = "adopt", !.prid = n, !.dir = prs[n].dir]
    <2>1. n \in Nat /\ prs[n] \in PullRequest
      BY LenProperties, ElementOfSeq DEF CoreInv, TypeOK
    <2>2. m \in Mutations /\ m.prid = n /\ m.dir = prs[n].dir
      BY <2>1 DEF Mutations, MutKinds, NoMutation, Directions, Zero, PullRequest
    <2>3. MutateState(m)
      BY <1>4
    <2> HIDE DEF m
    <2> QED BY <1>1, <2>2, <2>3, MutateStateFacts
            DEF CoreInv, TypeOK, DirInv, ShrinkNeverAutoMerged
  <1>5. \/ Return
        \/ Goto("create")
        \/ \E n \in DOMAIN prs :
             MutateState([NoMutation EXCEPT !.kind = "adopt", !.prid = n, !.dir = prs[n].dir])
    BY Zenon DEF FindOpenPR
  <1> QED BY <1>2, <1>3, <1>4, <1>5

\* The list of pull requests after PullRequests.Create.
LEMMA AppendFacts ==
    ASSUME prs \in Seq(PullRequest), NEW e \in PullRequest, prs' = Append(prs, e)
    PROVE  /\ prs' \in Seq(PullRequest) /\ Len(prs') = Len(prs) + 1
           /\ Len(prs) \in Nat
           /\ DOMAIN prs = 1 .. Len(prs) /\ DOMAIN prs' = 1 .. Len(prs) + 1
           /\ prs'[Len(prs) + 1] = e
           /\ \A i \in DOMAIN prs : prs'[i] = prs[i]
  BY AppendProperties, LenProperties

LEMMA CreateCore ==
    ASSUME CoreInv, CreatePR
    PROVE  CoreInv'
  <1> DEFINE e == [quota |-> cur, dir |-> dec, content |-> dec,
                   created |-> now, fate |-> "open", settled |-> TRUE]
             m == [NoMutation EXCEPT !.kind = "acquire", !.prid = Len(prs) + 1, !.dir = dec]
  <1>1. UNCHANGED <<kube, now, demand, hist>> /\ faults' \in Nat
    BY DEF CreatePR, Fault, CoreInv, TypeOK
  <1>2. e \in PullRequest /\ dec \in Directions
    BY DEF CoreInv, TypeOK, DirInv, LocalOK, CreatePR, PullRequest, Fates
  <1>3. CASE Return /\ prs' = prs
    BY <1>1, <1>3, ReturnFacts DEF CoreInv, TypeOK, DirInv, DirOK, ShrinkNeverAutoMerged, kube
  <1>4. CASE prs' = Append(prs, e)
    <2>0. e.dir = dec /\ e.content = dec /\ e.fate = "open"
      OBVIOUS
    <2> HIDE DEF e
    <2>1. /\ prs' \in Seq(PullRequest) /\ Len(prs) \in Nat
          /\ DOMAIN prs = 1 .. Len(prs) /\ DOMAIN prs' = 1 .. Len(prs) + 1
          /\ prs'[Len(prs) + 1] = e /\ \A i \in DOMAIN prs : prs'[i] = prs[i]
      BY <1>2, <1>4, AppendFacts DEF CoreInv, TypeOK
    <2>2. \A i \in DOMAIN prs' : i \in DOMAIN prs \/ i = Len(prs) + 1
      BY <2>1
    <2>3. DOMAIN prs \subseteq DOMAIN prs' /\ Len(prs) + 1 \in DOMAIN prs'
      BY <2>1
    <2>4. \A i \in DOMAIN prs' : prs'[i].content = prs'[i].dir
      BY <2>0, <2>1, <2>2 DEF CoreInv, DirInv
    <2>5. ShrinkNeverAutoMerged'
      BY <2>0, <2>1, <2>2 DEF CoreInv, DirInv, ShrinkNeverAutoMerged
    <2>6. CASE Return
      BY <1>1, <2>1, <2>3, <2>4, <2>5, <2>6, ReturnKeeps
    <2>7. CASE pc' = "label" /\ mut' = m /\ UNCHANGED <<cur, st, dec>>
      <3>0. Len(prs) + 1 \in Nat
        BY <2>1
      <3>1. m \in Mutations /\ m.kind = "acquire" /\ m.prid = Len(prs) + 1 /\ m.dir = dec
        BY <1>2, <3>0 DEF Mutations, MutKinds, NoMutation, Directions, Zero
      <3> HIDE DEF m
      <3>2. TypeOK'
        BY <1>1, <2>1, <2>7, <3>1 DEF CoreInv, TypeOK, kube, PCs
      <3>3. DirInv'
        BY <1>1, <2>0, <2>1, <2>3, <2>4, <2>5, <2>7, <3>1
           DEF CoreInv, DirInv, DirOK, LocalOK, kube
      <3> QED BY <3>2, <3>3 DEF CoreInv
    <2> QED BY <1>4, <2>6, <2>7 DEF CreatePR, e
  <1> QED BY <1>3, <1>4 DEF CreatePR

LEMMA LabelCore ==
    ASSUME CoreInv, AddLabels
    PROVE  CoreInv'
  <1>1. UNCHANGED <<kube, prs, now, demand, hist>> /\ faults' \in Nat /\ pc = "label"
    BY DEF AddLabels, Fault, CoreInv, TypeOK
  <1>2. Goto("ensure") \/ (Goto("unlabelled") /\ dec = "shrink")
    BY DEF AddLabels
  <1>3. TypeOK'
    BY <1>1, <1>2 DEF CoreInv, TypeOK, kube, Goto, PCs
  <1>4. DirInv'
    BY <1>1, <1>2 DEF CoreInv, DirInv, DirOK, LocalOK, ShrinkNeverAutoMerged, kube, Goto
  <1> QED BY <1>3, <1>4 DEF CoreInv

LEMMA TakeBackCore ==
    ASSUME CoreInv, TakeBack
    PROVE  CoreInv'
  <1>1. /\ mut.prid \in DOMAIN prs /\ End(mut.prid, "botClosed") /\ Return
        /\ UNCHANGED <<kube, now, demand, faults, hist>>
    BY DEF CoreInv, DirInv, LocalOK, TakeBack
  <1>2. /\ prs' \in Seq(PullRequest) /\ DOMAIN prs' = DOMAIN prs
        /\ \A n \in DOMAIN prs : /\ prs'[n].dir = prs[n].dir /\ prs'[n].content = prs[n].content
                                 /\ prs'[n].fate \in {prs[n].fate, "botClosed"}
    BY <1>1, EndFacts DEF CoreInv, TypeOK, Fates
  <1>3. ShrinkNeverAutoMerged'
    BY <1>2 DEF CoreInv, DirInv, ShrinkNeverAutoMerged
  <1>4. \A n \in DOMAIN prs' : prs'[n].content = prs'[n].dir
    BY <1>2 DEF CoreInv, DirInv
  <1>5. faults' \in Nat
    BY <1>1 DEF CoreInv, TypeOK
  <1> QED BY <1>1, <1>2, <1>3, <1>4, <1>5, ReturnKeeps

\* Changes to pull requests that keep direction and content, made by others.
LEMMA ForeignChange ==
    ASSUME CoreInv, UNCHANGED <<kube, now, demand, faults, local, hist>>,
           prs' \in Seq(PullRequest), DOMAIN prs' = DOMAIN prs,
           \A n \in DOMAIN prs :
               /\ prs'[n].dir = prs[n].dir /\ prs'[n].content = prs[n].content
               /\ prs'[n].fate = "botMerged" => prs[n].fate = "botMerged"
    PROVE  CoreInv'
  <1>1. TypeOK'
    BY DEF CoreInv, TypeOK, kube, local
  <1>2. DirInv'
    BY DEF CoreInv, DirInv, DirOK, LocalOK, ShrinkNeverAutoMerged, kube, local
  <1> QED BY <1>1, <1>2 DEF CoreInv

LEMMA SettleCore ==
    ASSUME CoreInv, NEW n \in DOMAIN prs, Settle(n)
    PROVE  CoreInv'
  <1>1. prs[n] \in PullRequest
    BY LenProperties, ElementOfSeq DEF CoreInv, TypeOK
  <1>2. /\ prs' \in Seq(PullRequest) /\ DOMAIN prs' = DOMAIN prs
        /\ \A i \in DOMAIN prs : i # n => prs'[i] = prs[i]
        /\ prs'[n] = [prs[n] EXCEPT !.settled = TRUE]
    BY SettleFacts DEF Settle, CoreInv, TypeOK
  <1>3. \A i \in DOMAIN prs : /\ prs'[i].dir = prs[i].dir /\ prs'[i].content = prs[i].content
                              /\ prs'[i].fate = prs[i].fate
    BY <1>1, <1>2 DEF PullRequest
  <1> QED BY <1>2, <1>3, ForeignChange DEF Settle

LEMMA HumanCore ==
    ASSUME CoreInv, NEW n \in DOMAIN prs, NEW f \in {"humanMerged", "humanClosed"}, Human(n, f)
    PROVE  CoreInv'
  <1>1. /\ prs' \in Seq(PullRequest) /\ DOMAIN prs' = DOMAIN prs
        /\ \A i \in DOMAIN prs : /\ prs'[i].dir = prs[i].dir /\ prs'[i].content = prs[i].content
                                 /\ prs'[i].fate \in {prs[i].fate, f}
    BY EndFacts DEF Human, CoreInv, TypeOK, Fates
  <1> QED BY <1>1, ForeignChange DEF Human

LEMMA EnvironmentCore ==
    ASSUME CoreInv, Environment
    PROVE  CoreInv'
  <1>1. ASSUME NEW l \in Leases, CacheSync(l) PROVE CoreInv'
    <2>1. TypeOK'
      BY <1>1 DEF CoreInv, TypeOK, CacheSync, local
    <2>2. \A k \in Leases : cache'[k] = cache[k] \/ cache'[k] = lease[k]
      BY <1>1 DEF CoreInv, TypeOK, CacheSync
    <2>3. DirInv'
      BY <1>1, <2>2 DEF CoreInv, DirInv, DirOK, LocalOK, ShrinkNeverAutoMerged, CacheSync, local
    <2> QED BY <2>1, <2>3 DEF CoreInv
  <1>2. ASSUME NEW q \in Quotas, NEW d \in Demands, DemandChanges(q, d) PROVE CoreInv'
    BY <1>2 DEF CoreInv, TypeOK, DirInv, DirOK, LocalOK, ShrinkNeverAutoMerged,
                DemandChanges, kube, local
  <1>3. CASE Tick
    BY <1>3 DEF CoreInv, TypeOK, DirInv, DirOK, LocalOK, ShrinkNeverAutoMerged, Tick, kube, local
  <1> QED BY <1>1, <1>2, <1>3, SettleCore, HumanCore DEF Environment

LEMMA CoreInvInductive == CoreInv /\ [Next]_vars => CoreInv'
  <1> SUFFICES ASSUME CoreInv, [Next]_vars PROVE CoreInv'
    OBVIOUS
  <1>1. CASE UNCHANGED vars
    BY <1>1 DEF CoreInv, TypeOK, DirInv, DirOK, LocalOK, ShrinkNeverAutoMerged, vars, local
  <1>2. CASE Step
    BY <1>2, EnsureCore, WriteCore, ErrorCore, DecideCore, StatusCore, CloseCore, MergeCore,
       UpdateCore, FindCore, CreateCore, LabelCore, TakeBackCore DEF Step
  <1> QED BY <1>1, <1>2, ReconcileCore, WriteCore, ErrorCore, EnvironmentCore, CrashCore DEF Next, Running

\* Type correctness of the whole proposal life cycle, for any number of
\* quotas, pull requests and failures.
THEOREM TypeCorrect == Spec => []TypeOK
  <1>1. CoreInv => TypeOK
    BY DEF CoreInv
  <1> QED BY InitCore, CoreInvInductive, <1>1, PTL DEF Spec

\* The controller never merges a pull request that was opened for a shrink or last
\* written by one: the gate of handleActivePR trusts the direction on the Lease,
\* which is sound because every lock, cached or not, carries the direction of its
\* branch (DirInv).
THEOREM NoShrinkAutoMerged == Spec => []ShrinkNeverAutoMerged
  <1>1. CoreInv => ShrinkNeverAutoMerged
    BY DEF CoreInv, DirInv
  <1> QED BY InitCore, CoreInvInductive, <1>1, PTL DEF Spec

-----------------------------------------------------------------------------
(***************************************************************************)
(* One open pull request per quota.  The strengthening says what FindOpenPR*)
(* established and nobody but the single worker could undo: between the    *)
(* listing and PullRequests.Create no pull request of the quota is open.   *)
(***************************************************************************)
NoneOpen(q) == \A n \in DOMAIN prs : prs[n].quota = q => prs[n].fate # "open"

OpenInv == OneOpenPR /\ (pc = "create" => NoneOpen(cur))

\* A step that opens nothing.
OpensNothing ==
    /\ DOMAIN prs' = DOMAIN prs
    /\ \A n \in DOMAIN prs : /\ prs'[n].quota = prs[n].quota
                             /\ prs'[n].fate = "open" => prs[n].fate = "open"

\* Every step but CreatePR opens nothing.
LEMMA OnlyCreateOpens ==
    ASSUME CoreInv, [Next]_vars, ~CreatePR
    PROVE  OpensNothing
  <1>1. CASE prs' = prs
    BY <1>1 DEF OpensNothing
  <1>2. ASSUME NEW n \in DOMAIN prs, NEW f \in Fates \ {"open"}, End(n, f)
        PROVE  OpensNothing
    BY <1>2, EndFacts DEF OpensNothing, CoreInv, TypeOK
  <1>3. ASSUME NEW n \in DOMAIN prs, prs' = [prs EXCEPT ![n].settled = TRUE]
        PROVE  OpensNothing
    <2>1. prs[n] \in PullRequest
      BY LenProperties, ElementOfSeq DEF CoreInv, TypeOK
    <2> QED BY <1>3, <2>1, SettleFacts DEF OpensNothing, CoreInv, TypeOK, PullRequest
  <1>4. CASE UpdatePR
    <2>1. st.prid \in DOMAIN prs /\ dec \in Directions
      BY <1>4 DEF CoreInv, DirInv, LocalOK, DirOK, UpdatePR, Directions
    <2>2. prs[st.prid] \in PullRequest
      BY <2>1, LenProperties, ElementOfSeq DEF CoreInv, TypeOK
    <2>3. CASE prs' = [prs EXCEPT ![st.prid].content = dec]
      BY <2>1, <2>2, <2>3, SetContentFacts DEF OpensNothing, CoreInv, TypeOK, PullRequest
    <2> QED BY <1>1, <1>4, <2>3 DEF UpdatePR
  <1>5. CASE ClosePR
    <2>1. st.prid \in DOMAIN prs /\ End(st.prid, "botClosed")
      BY <1>5 DEF CoreInv, DirInv, LocalOK, DirOK, ClosePR
    <2> QED BY <1>2, <2>1 DEF Fates
  <1>6. CASE MergePR
    <2>1. st.prid \in DOMAIN prs /\ (End(st.prid, "botMerged") \/ prs' = prs)
      BY <1>6 DEF CoreInv, DirInv, LocalOK, DirOK, MergePR
    <2> QED BY <1>1, <1>2, <2>1 DEF Fates
  <1>7. CASE TakeBack
    <2>1. mut.prid \in DOMAIN prs /\ End(mut.prid, "botClosed")
      BY <1>7 DEF CoreInv, DirInv, LocalOK, TakeBack
    <2> QED BY <1>2, <2>1 DEF Fates
  <1>8. CASE Environment
    BY <1>1, <1>2, <1>3, <1>8
       DEF Environment, CacheSync, Settle, Human, DemandChanges, Tick, Fates
  <1>9. CASE \/ UNCHANGED vars \/ (\E q \in Quotas : Reconcile(q))
             \/ ensureLeaseExists \/ WriteLease \/ WriteLeaseNotFound \/ GetStateAndDecide
             \/ GetPRStatus \/ FindOpenPR \/ AddLabels \/ CallFails \/ WriteLeaseLost \/ Crash
    BY <1>1, <1>9
       DEF vars, Reconcile, ensureLeaseExists, WriteLease, UpdateLease, WriteLeaseNotFound,
           GetStateAndDecide, GetPRStatus, FindOpenPR, AddLabels, CallFails, WriteLeaseLost, Crash
  <1> QED BY <1>4, <1>5, <1>6, <1>7, <1>8, <1>9 DEF Next, Running, Step

\* A reconcile gets to CreatePR only through FindOpenPR finding nothing.
LEMMA OnlyFindLeadsToCreate ==
    ASSUME CoreInv, [Next]_vars, pc' = "create"
    PROVE  cur' = cur /\ (pc = "create" \/ (pc = "find" /\ NoneOpen(cur)))
  <1>1. CASE FindOpenPR
    BY <1>1 DEF FindOpenPR, ReportedOpen, NoneOpen, Goto, MutateState, Return
  <1>2. CASE \/ UNCHANGED vars \/ Environment \/ Crash
    BY <1>2 DEF vars, local, Environment, CacheSync, Settle, Human, DemandChanges, Tick, Crash, Return
  <1>3. ASSUME NEW q \in Quotas, Reconcile(q) PROVE FALSE
    BY <1>3 DEF Reconcile
  <1>4. ~Return /\ \A m : ~MutateState(m) /\ \A p \in PCs \ {"create"} : ~Goto(p)
    BY DEF Return, MutateState, Goto
  <1>5. CASE GetPRStatus \/ ClosePR \/ MergePR \/ UpdatePR
    BY <1>4, <1>5 DEF GetPRStatus, ClosePR, MergePR, UpdatePR, UpdateIfGrow, PCs
  <1>6. CASE \/ ensureLeaseExists \/ WriteLease \/ WriteLeaseNotFound \/ CallFails
             \/ WriteLeaseLost \/ GetStateAndDecide \/ CreatePR \/ AddLabels \/ TakeBack
    BY <1>4, <1>6 DEF ensureLeaseExists, WriteLease, WriteLeaseNotFound, CallFails,
       WriteLeaseLost, GetStateAndDecide, CreatePR, AddLabels, TakeBack, PCs
  <1> QED BY <1>1, <1>2, <1>3, <1>5, <1>6 DEF Next, Running, Step

LEMMA OpenInvInductive == CoreInv /\ OpenInv /\ [Next]_vars => OpenInv'
  <1> SUFFICES ASSUME CoreInv, OpenInv, [Next]_vars PROVE OpenInv'
    OBVIOUS
  <1>1. CASE CreatePR
    <2> DEFINE e == [quota |-> cur, dir |-> dec, content |-> dec,
                     created |-> now, fate |-> "open", settled |-> TRUE]
    <2>1. e \in PullRequest /\ e.quota = cur
      BY <1>1 DEF CoreInv, TypeOK, DirInv, LocalOK, CreatePR, PullRequest, Fates
    <2>2. pc' # "create" /\ NoneOpen(cur)
      BY <1>1 DEF CreatePR, Return, OpenInv
    <2>3. CASE prs' = prs
      BY <2>2, <2>3 DEF OpenInv, OneOpenPR
    <2>4. CASE prs' = Append(prs, e)
      <3> HIDE DEF e
      <3>1. /\ Len(prs) \in Nat /\ DOMAIN prs = 1 .. Len(prs)
            /\ DOMAIN prs' = 1 .. Len(prs) + 1
            /\ prs'[Len(prs) + 1] = e /\ \A i \in DOMAIN prs : prs'[i] = prs[i]
        BY <2>1, <2>4, AppendFacts DEF CoreInv, TypeOK
      <3>2. \A i \in DOMAIN prs' : i \in DOMAIN prs \/ i = Len(prs) + 1
        BY <3>1
      <3> QED BY <2>1, <2>2, <3>1, <3>2 DEF OpenInv, OneOpenPR, NoneOpen
    <2> QED BY <1>1, <2>3, <2>4 DEF CreatePR
  <1>2. CASE ~CreatePR
    <2>1. OpensNothing
      BY <1>2, OnlyCreateOpens
    <2>2. OneOpenPR'
      BY <2>1 DEF OpenInv, OneOpenPR, OpensNothing
    <2>3. pc' = "create" => NoneOpen(cur)'
      BY <2>1, OnlyFindLeadsToCreate DEF OpenInv, NoneOpen, OpensNothing
    <2> QED BY <2>2, <2>3 DEF OpenInv
  <1> QED BY <1>1, <1>2

\* Orphan recovery works: whatever was lost between CreatePR and the Lease, a
\* quota never has two open pull requests.
THEOREM AtMostOneOpenPR == Spec => []OneOpenPR
  <1>1. Init => OpenInv
    BY EmptySeq, LenProperties DEF Init, OpenInv, OneOpenPR
  <1>2. OpenInv => OneOpenPR
    BY DEF OpenInv
  <1> QED BY InitCore, CoreInvInductive, <1>1, OpenInvInductive, <1>2, PTL DEF Spec
=============================================================================
