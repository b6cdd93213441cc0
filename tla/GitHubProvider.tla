--------------------------- MODULE GitHubProvider ---------------------------
(***************************************************************************)
(* The GitHub provider call by call (internal/git/github.go): the paged    *)
(* search for an open pull request, the file a proposal edits and the      *)
(* commits it makes, while people push, label, merge and close in the same *)
(* repository.  What the reconciler does in between is in Resizer; here it *)
(* searches and then goes on with any call the result allows.  Every call  *)
(* may fail, and the process may die after every one of them.              *)
(***************************************************************************)
EXTENDS Integers, Sequences, FiniteSets, SequencesExt

CONSTANTS
    Quotas,    \* records [ns, name], the segments of Kubernetes names
    Dir,       \* for every namespace the YAML files of its directory, in order
    Docs,      \* for every file the quotas that have a document in it
    Objects,   \* for every file the names of the other objects in it
    Targets,   \* limits that may be proposed
    PerPage,   \* pull requests per page of a listing
    Before,    \* pull requests from before the upgrade, see Legacy
    MaxPR, MaxBranches, MaxActs, MaxFaults   \* bounds: also acts of people

ASSUME ProviderAssumption ==
    /\ PerPage \in Nat \ {0} /\ MaxPR \in Nat /\ MaxBranches \in Nat
    /\ MaxActs \in Nat /\ MaxFaults \in Nat

Files == DOMAIN Docs

\* No part of a Kubernetes name is empty, and a directory lists files.
ASSUME RepositoryAssumption ==
    /\ IsFiniteSet(Files)
    /\ Quotas \subseteq [ns : Seq(STRING) \ {<<>>}, name : Seq(STRING) \ {<<>>}]
    /\ \A p \in Quotas : Dir[p.ns] \in Seq(Files)

\* A shrink from before carries its label: what has none is older than shrinks
\* (directionFromLabels).
ASSUME BeforeAssumption ==
    /\ Before \in Seq([quota : Quotas, dir : {"grow", "shrink"}, labels : Seq({"grow", "shrink"})])
    /\ \A i \in DOMAIN Before : Before[i].dir = "shrink" => "shrink" \in Range(Before[i].labels)

VARIABLES
    main,      \* the files of the default branch
    branches,  \* every branch: its name, its files, and main when it was made
    prs,       \* every pull request
    pc, q,     \* the call under way, and for which quota
    page,      \* FindOpenPR: opts.Page
    legacy,    \* FindOpenPR: legacyID and legacyDirection
    found,     \* what the search came to
    branch,    \* the branch being written
    copy,      \* the file findQuotaFile read
    order,     \* how GitHub sorts a listing; the code does not say
    acts, faults,
    steady, known  \* history: nothing ended since the search began; open then

world  == <<main, branches, prs>>
search == <<page, legacy, found, steady, known, order>>
edit   == <<branch, copy>>
vars   == <<world, pc, q, search, edit, acts, faults>>

NoQuota == [ns |-> <<>>, name |-> <<>>]
Nothing == [id |-> 0, dir |-> ""]
NoCopy  == [file |-> "", content |-> <<>>]

(***************************************************************************)
(* The content of a file, which also stands for its blob SHA: for every    *)
(* document the limits and for which quota they were computed, and how     *)
(* much people wrote next to them.                                         *)
(***************************************************************************)
Fresh(f) == [limits |-> [p \in Docs[f] |-> [for |-> p, value |-> 0]], notes |-> 0]

\* resize/<direction>/<namespace>/<quota>/<timestamp>; and, before the
\* direction was part of it, resize/<namespace>-<quota>-<timestamp>.
BranchName(dir, p) == [dir |-> dir, quota |-> p, words |-> <<>>]
Legacy(p) == [dir |-> "", quota |-> p, words |-> p.ns \o p.name \o <<"1700000000">>]

PR(b, dir, labels) == [branch |-> b, dir |-> dir, labels |-> labels, state |-> "open"]

Open == {n \in DOMAIN prs : prs[n].state = "open"}
Ref(n) == branches[prs[n].branch].name

Fault == faults < MaxFaults /\ faults' = faults + 1

Return ==
    /\ pc' = "idle" /\ q' = NoQuota /\ page' = 1 /\ legacy' = Nothing /\ found' = Nothing
    /\ branch' = 0 /\ copy' = NoCopy
    /\ order' = "newest" /\ steady' = TRUE /\ known' = {}

\* Before: [quota, dir, labels] of every pull request from before the upgrade.
Init ==
    /\ main = [f \in Files |-> Fresh(f)]
    /\ branches = [i \in DOMAIN Before |->
                     [name |-> Legacy(Before[i].quota), files |-> main, forked |-> main]]
    /\ prs = [i \in DOMAIN Before |-> PR(i, Before[i].dir, Before[i].labels)]
    /\ pc = "idle" /\ q = NoQuota
    /\ page = 1 /\ legacy = Nothing /\ found = Nothing
    /\ branch = 0 /\ copy = NoCopy /\ order = "newest"
    /\ acts = 0 /\ faults = 0 /\ steady = TRUE /\ known = {}

-----------------------------------------------------------------------------
(* FindOpenPR *)

Begin(p) ==
    /\ pc = "idle"
    /\ q' = p /\ pc' = "list" /\ known' = Open
    /\ order' \in {"newest", "oldest"}
    /\ UNCHANGED <<world, page, legacy, found, steady, edit, acts, faults>>

\* GitHub lists m before n, and so many before n.
Precedes(m, n) == IF order = "oldest" THEN m < n ELSE m > n
Rank(n) == Cardinality({m \in Open : Precedes(m, n)})

\* Page k of the open pull requests, and the first of some that are listed.
Listing(k) == {n \in Open : (k - 1) * PerPage <= Rank(n) /\ Rank(n) < k * PerPage}
FirstListed(S) == CHOOSE n \in S : \A m \in S \ {n} : Precedes(n, m)

HasNextPage(k) == Cardinality(Open) > k * PerPage

Own(n) == Ref(n).words = <<>> /\ Ref(n).quota = q

MatchesLegacy(n) == Ref(n).words # <<>> /\ IsPrefix(q.ns \o q.name, Ref(n).words)

\* Mutant: the first direction label decides.
directionFromLabels_First(labels) == IF labels = <<>> THEN "grow" ELSE Head(labels)

\* Any label but "grow" makes it a shrink.
directionFromLabels(labels) == IF Range(labels) \subseteq {"grow"} THEN "grow" ELSE "shrink"

\* The older matches of a page, and those before it.
Fallback(listed) ==
    LET old == {n \in listed : MatchesLegacy(n)}
        n   == FirstListed(old)
    IN  IF legacy # Nothing \/ old = {} THEN legacy
        ELSE [id |-> n, dir |-> directionFromLabels(prs[n].labels)]

\* Mutant: one page is read.
More_OnePage(k) == FALSE

More(k) == HasNextPage(k)

\* Mutant: whichever match is listed first.
Pick_FirstListed(listed) ==
    LET hits == {n \in listed : Own(n) \/ MatchesLegacy(n)}
        n    == FirstListed(hits)
    IN  IF hits = {} THEN Nothing
        ELSE [id |-> n, dir |-> IF Own(n) THEN Ref(n).dir ELSE directionFromLabels(prs[n].labels)]

\* The first branch of this quota in the current shape.
Pick(listed) ==
    LET own == {n \in listed : Own(n)}
        n   == FirstListed(own)
    IN  IF own = {} THEN Nothing ELSE [id |-> n, dir |-> Ref(n).dir]

List ==
    /\ pc = "list"
    /\ LET listed == Listing(page)
       IN  /\ legacy' = Fallback(listed)
           /\ IF Pick(listed) # Nothing
              THEN found' = Pick(listed) /\ pc' = "found" /\ UNCHANGED page
              ELSE IF More(page) THEN page' = page + 1 /\ UNCHANGED <<found, pc>>
              ELSE found' = legacy' /\ pc' = "found" /\ UNCHANGED page
    /\ UNCHANGED <<world, q, edit, steady, known, order, acts, faults>>

-----------------------------------------------------------------------------
(* CreatePR *)

\* Mutant: the name of the new branch is not kept.
CreateRef_NameLost(dir) ==
    /\ pc = "found" /\ found = Nothing
    /\ Len(branches) < MaxBranches
    /\ branches' = Append(branches, [name |-> BranchName(dir, q), files |-> main, forked |-> main])
    /\ pc' = "branch"
    /\ UNCHANGED <<main, prs, q, search, edit, acts, faults>>

\* The branch is made before anything else is known.
CreateRef(dir) ==
    /\ pc = "found" /\ found = Nothing
    /\ Len(branches) < MaxBranches
    /\ branches' = Append(branches, [name |-> BranchName(dir, q), files |-> main, forked |-> main])
    /\ branch' = Len(branches) + 1
    /\ pc' = "branch"
    /\ UNCHANGED <<main, prs, q, search, copy, acts, faults>>

\* "kind: ResourceQuota" and "name: <quota>" are looked for as text, each
\* anywhere in the file: the name may be that of another object, and may go on.
Mentions(f) ==
    /\ Docs[f] # {}
    /\ \E name \in {p.name : p \in Docs[f]} \cup Objects[f] : IsPrefix(q.name, name)

\* Mutant: the first file with a quota in it.
findQuotaFile_AnyQuota == {i \in DOMAIN Dir[q.ns] : Docs[Dir[q.ns][i]] # {}}

\* Where in the directory findQuotaFile would settle; it does so at the first.
findQuotaFile == {i \in DOMAIN Dir[q.ns] : Mentions(Dir[q.ns][i])}

\* Read the file, from the new branch or the one to update.  A file that cannot
\* be read is passed over.
ReadFile(unread) ==
    /\ \/ pc = "branch" /\ UNCHANGED branch
       \/ pc = "found" /\ found.dir = "grow" /\ branch' = prs[found.id].branch
    /\ faults' = faults + Cardinality(unread) /\ faults' <= MaxFaults
    /\ LET matching == {i \in findQuotaFile : Dir[q.ns][i] \notin unread}
           file     == Dir[q.ns][Min(matching)]
       IN  /\ matching # {}
           /\ copy' = [file |-> file, content |-> branches[branch'].files[file]]
    /\ pc' = "commit"
    /\ UNCHANGED <<world, q, search, acts>>

\* Every ResourceQuota document of the file is given the limits.
applyChangesToYaml(content, t) ==
    [content EXCEPT !.limits = [p \in DOMAIN @ |-> [for |-> q, value |-> t]]]

\* Mutant: the commit does not name the blob it replaces.
BlobMatches_Always == TRUE

BlobMatches == branches[branch].files[copy.file] = copy.content

\* The next call after the commit: PullRequests.Create, or, in UpdatePR, the
\* Edit of the body.
Committed ==
    IF found = Nothing
    THEN pc' = "open" /\ UNCHANGED <<q, search, edit>>
    ELSE Return

\* UpdateFile; UpdatePR skips a commit that changes nothing.
UpdateFile(t) ==
    /\ pc = "commit" /\ BlobMatches
    /\ branches' = [branches EXCEPT ![branch].files[copy.file] = applyChangesToYaml(copy.content, t)]
    /\ Committed
    /\ UNCHANGED <<main, prs, acts, faults>>

\* 409: somebody pushed since.
UpdateFileConflict ==
    /\ pc = "commit" /\ ~BlobMatches
    /\ Return
    /\ UNCHANGED <<world, acts, faults>>

Create ==
    /\ pc = "open" /\ Len(prs) < MaxPR
    /\ LET dir == branches[branch].name.dir
       IN  /\ prs' = Append(prs, PR(branch, dir, <<>>))
           /\ found' = [id |-> Len(prs) + 1, dir |-> dir]
    /\ pc' = "label"
    /\ UNCHANGED <<main, branches, q, page, legacy, steady, known, order, edit, acts, faults>>

\* addLabels; without its label a shrink is closed again.
Label ==
    /\ pc = "label"
    /\ LET n == found.id
       IN  \/ prs' = [prs EXCEPT ![n].labels = Append(@, prs[n].dir)] /\ UNCHANGED faults
           \/ /\ Fault
              /\ prs' = IF prs[n].dir = "shrink" /\ prs[n].state = "open"
                        THEN [prs EXCEPT ![n].state = "closed"] ELSE prs
    /\ Return
    /\ UNCHANGED <<main, branches, acts>>

-----------------------------------------------------------------------------
(* The other calls *)

\* GitHub merges what does not conflict with the default branch.
Mergeable(n) ==
    LET b == branches[prs[n].branch]
    IN  \A f \in Files : b.files[f] = b.forked[f] \/ main[f] = b.forked[f]

MergeInto(n) ==
    LET b == branches[prs[n].branch]
    IN  /\ prs[n].state = "open" /\ Mergeable(n)
        /\ main' = [f \in Files |-> IF b.files[f] = b.forked[f] THEN main[f] ELSE b.files[f]]
        /\ prs' = [prs EXCEPT ![n].state = "merged"]

\* MergePR is for what was found as a grow, ClosePR for what was found as a
\* shrink.
MergePR ==
    /\ pc = "found" /\ found.dir = "grow"
    /\ MergeInto(found.id)
    /\ Return
    /\ UNCHANGED <<branches, acts, faults>>

ClosePR ==
    /\ pc = "found" /\ found.dir = "shrink"
    /\ prs' = IF prs[found.id].state = "open" THEN [prs EXCEPT ![found.id].state = "closed"] ELSE prs
    /\ Return
    /\ UNCHANGED <<main, branches, acts, faults>>

\* Nothing more is wanted, there is no quota file, or GitHub takes no new pull
\* request.
Done ==
    /\ pc \in {"found", "open"} \/ (pc = "branch" /\ findQuotaFile = {})
    /\ Return
    /\ UNCHANGED <<world, acts, faults>>

\* A call fails, or takes effect and its response is lost, or the process dies.
Interrupted ==
    /\ pc # "idle"
    /\ Return /\ Fault
    /\ UNCHANGED <<world, acts>>

-----------------------------------------------------------------------------
(* People *)

Act == acts < MaxActs /\ acts' = acts + 1

PushNote(b, f) ==
    /\ Act
    /\ branches' = [branches EXCEPT ![b].files[f].notes = @ + 1]
    /\ UNCHANGED <<main, prs, pc, q, search, edit, faults>>

AddLabel(n, dir) ==
    /\ Act /\ n \in Open
    /\ prs' = [prs EXCEPT ![n].labels = <<dir>> \o @]
    /\ UNCHANGED <<main, branches, pc, q, search, edit, faults>>

\* A pull request that has nothing to do with quotas.
OpenOther ==
    /\ Act /\ Len(prs) < MaxPR /\ Len(branches) < MaxBranches
    /\ branches' = Append(branches, [name |-> [dir |-> "", quota |-> NoQuota, words |-> <<"docs">>],
                                     files |-> main, forked |-> main])
    /\ prs' = Append(prs, PR(Len(branches) + 1, "", <<>>))
    /\ UNCHANGED <<main, pc, q, search, edit, faults>>

EndByHuman(n) ==
    /\ Act /\ n \in Open
    /\ \/ MergeInto(n)
       \/ prs' = [prs EXCEPT ![n].state = "closed"] /\ UNCHANGED main
    /\ steady' = (steady /\ pc = "idle")
    /\ UNCHANGED <<branches, pc, q, page, legacy, found, known, order, edit, faults>>

Reopen(n) ==
    /\ Act /\ prs[n].state = "closed"
    /\ prs' = [prs EXCEPT ![n].state = "open"]
    /\ UNCHANGED <<main, branches, pc, q, search, edit, faults>>

Next ==
    \/ \E p \in Quotas : Begin(p)
    \/ List
    \/ \E dir \in {"grow", "shrink"} : CreateRef(dir)
    \/ \E unread \in SUBSET Files : ReadFile(unread)
    \/ \E t \in Targets : UpdateFile(t)
    \/ UpdateFileConflict \/ Create \/ Label
    \/ MergePR \/ ClosePR \/ Done \/ Interrupted
    \/ \E b \in DOMAIN branches, f \in Files : PushNote(b, f)
    \/ \E n \in DOMAIN prs, dir \in {"grow", "shrink"} : AddLabel(n, dir)
    \/ OpenOther
    \/ \E n \in DOMAIN prs : EndByHuman(n) \/ Reopen(n)

Spec == Init /\ [][Next]_vars

-----------------------------------------------------------------------------
\* Every variable has its type; a branch is written only by a call that has
\* made or found it.
TypeOK ==
    /\ \A f \in Files : DOMAIN main[f].limits = Docs[f] /\ main[f].notes \in 0 .. MaxActs
    /\ \A n \in DOMAIN prs : /\ prs[n].branch \in DOMAIN branches
                             /\ prs[n].dir \in {"grow", "shrink", ""}
                             /\ prs[n].state \in {"open", "merged", "closed"}
    /\ pc \in {"idle", "list", "found", "branch", "commit", "open", "label"}
    /\ pc # "idle" => q \in Quotas
    /\ pc \in {"branch", "commit", "open", "label"} => branch \in DOMAIN branches
    /\ pc = "commit" => copy.file \in Files
    /\ found.id \in DOMAIN prs \cup {0} /\ legacy.id \in DOMAIN prs \cup {0}
    /\ acts \in 0 .. MaxActs /\ faults \in 0 .. MaxFaults

\* findQuotaFile and applyChangesToYaml, "to avoid ... modifying the wrong
\* resources": whatever is merged, by whom and in which order, the limits of a
\* quota in the default branch were computed for that quota.
OwnDocument == \A f \in Files : \A p \in Docs[f] : main[f].limits[p].for = p

\* CreatePR and UpdatePR write what they read a while ago: nothing anybody pushed
\* to the branch in the meantime is lost.
NoLostEdit ==
    [][\A b \in DOMAIN branches, f \in Files :
         branches[b].files[f].notes <= branches'[b].files[f].notes]_vars

Mine == {n \in known : Own(n) \/ MatchesLegacy(n)}

\* FindOpenPR, "Returns 0 ... if no matching open PR exists", is what CreatePR
\* rests on: over any number of pages, and whatever is opened meanwhile, a
\* search that finds nothing has missed nothing, as long as no pull request
\* ends between two pages.
NothingMissed == pc = "found" /\ found = Nothing /\ steady => Mine = {}

\* FindOpenPR, "a namespace that has its own new-shape pull request must adopt
\* that one regardless of where GitHub happens to list the two".
OwnFirst == pc = "found" /\ steady /\ (\E n \in known : Own(n)) => found # Nothing /\ Own(found.id)

\* directionFromLabels: a pull request that lowers limits is never taken for a
\* grow, whatever labels people add to it.
NeverTakenForGrow == pc = "found" /\ found.dir = "grow" => prs[found.id].dir = "grow"
=============================================================================
