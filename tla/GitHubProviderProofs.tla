------------------------ MODULE GitHubProviderProofs ------------------------
(***************************************************************************)
(* Theorems about GitHubProvider, for every repository, every page size    *)
(* and every bound.                                                        *)
(***************************************************************************)
EXTENDS GitHubProvider, SequenceTheorems, FiniteSetTheorems, NaturalsInduction,
        WellFoundedInduction, TLAPS

(* Types *)

Owners == Quotas \cup UNION {Docs[f] : f \in Files}

Content(f) == [limits : [Docs[f] -> [for : Owners, value : Targets \cup {0}]], notes : Nat]

\* The files of a branch.
Tree == {t \in [Files -> UNION {Content(f) : f \in Files}] : \A f \in Files : t[f] \in Content(f)}

Words == Seq(STRING \cup {"docs", "1700000000"})

\* Directions, and none.
Dirs == {"grow", "shrink", ""}

Name == [dir : Dirs, quota : Quotas \cup {NoQuota}, words : Words]

Branch == [name : Name, files : Tree, forked : Tree]

PullRequest == [branch : Nat, dir : Dirs, labels : Seq(Dirs), state : {"open", "merged", "closed"}]

Result == [id : Nat, dir : Dirs]

(***************************************************************************)
(* What the direction of a pull request can be read off: its branch name   *)
(* in the current shape, in the older one the labels of a shrink.          *)
(***************************************************************************)
Readable(n) ==
    /\ prs[n].branch \in DOMAIN branches
    /\ Ref(n).words = <<>> => prs[n].dir = Ref(n).dir
    /\ Ref(n).words # <<>> /\ prs[n].dir = "shrink" => "shrink" \in Range(prs[n].labels)
    /\ Ref(n).words # <<>> /\ prs[n].dir = "" => Ref(n).words = <<"docs">>

WorldOK ==
    /\ main \in Tree /\ branches \in Seq(Branch) /\ prs \in Seq(PullRequest)
    /\ \A n \in DOMAIN prs : Readable(n)
    /\ acts \in 0 .. MaxActs /\ faults \in 0 .. MaxFaults
    /\ \A f \in Files : /\ main[f].notes <= acts
                        /\ \A b \in DOMAIN branches : branches[b].files[f].notes <= acts

\* A result names a pull request, and takes none for a grow that is not.
ResultOK(r) ==
    r = Nothing \/ (r.id \in DOMAIN prs /\ (r.dir = "grow" => prs[r.id].dir = "grow"))

CallOK ==
    /\ pc \in {"idle", "list", "found", "branch", "commit", "open", "label"}
    /\ pc # "idle" => q \in Quotas
    /\ page \in Nat \ {0} /\ order \in {"newest", "oldest"} /\ steady \in BOOLEAN
    /\ legacy \in Result /\ ResultOK(legacy) /\ found \in Result /\ ResultOK(found)
    /\ known \in SUBSET DOMAIN prs
    /\ pc \in {"branch", "commit", "open", "label"} => branch \in DOMAIN branches
    /\ pc \in {"branch", "commit", "open"} /\ found = Nothing => branches[branch].name.words = <<>>
    /\ pc = "open" => found = Nothing
    /\ pc = "label" => found # Nothing
    /\ pc = "commit" => copy.file \in Files /\ copy.content \in Content(copy.file)

ProviderInv == WorldOK /\ CallOK

\* Branches and pull requests are never forgotten, and keep what they are for.
Grows ==
    /\ \A b \in DOMAIN branches : b \in DOMAIN branches' /\ branches'[b].name = branches[b].name
    /\ \A n \in DOMAIN prs : /\ n \in DOMAIN prs' /\ prs'[n].branch = prs[n].branch
                             /\ prs'[n].dir = prs[n].dir

-----------------------------------------------------------------------------
(* Facts about the helpers *)

LEMMA SeqFacts ==
    ASSUME NEW S, NEW s \in Seq(S)
    PROVE  Len(s) \in Nat /\ DOMAIN s = 1 .. Len(s) /\ \A i \in DOMAIN s : s[i] \in S
  BY LenProperties, ElementOfSeq

LEMMA ReplaceFacts ==
    ASSUME NEW S, NEW s \in Seq(S), NEW i \in DOMAIN s, NEW e \in S,
           NEW t, t = [s EXCEPT ![i] = e]
    PROVE  /\ t \in Seq(S) /\ DOMAIN t = DOMAIN s /\ t[i] = e
           /\ \A j \in DOMAIN s : j # i => t[j] = s[j]
  BY SeqFacts, ExceptSeq

LEMMA AppendFacts ==
    ASSUME NEW S, NEW s \in Seq(S), NEW e \in S, NEW t, t = Append(s, e)
    PROVE  /\ t \in Seq(S) /\ Len(t) = Len(s) + 1 /\ DOMAIN t = DOMAIN s \cup {Len(s) + 1}
           /\ t[Len(s) + 1] = e /\ \A j \in DOMAIN s : t[j] = s[j]
  BY SeqFacts, AppendProperties

LEMMA OneElement ==
    ASSUME NEW S, NEW e \in S
    PROVE  <<e>> \in Seq(S) /\ <<e>> # <<>> /\ Len(<<e>>) = 1
  <1>1. <<e>> \in Seq(S)
    OBVIOUS
  <1>2. Len(<<e>>) = 1
    OBVIOUS
  <1>3. <<e>> # <<>>
    OBVIOUS
  <1> QED BY <1>1, <1>2, <1>3

LEMMA RangeGrows ==
    ASSUME NEW S, NEW s \in Seq(S), NEW t \in Seq(S)
    PROVE  Range(s) \subseteq Range(t \o s) /\ Range(s) \subseteq Range(s \o t)
  <1>1. Range(t \o s) = Range(t) \cup Range(s) /\ Range(s \o t) = Range(s) \cup Range(t)
    BY RangeConcatenation
  <1> QED BY <1>1

LEMMA FreshOK == ASSUME NEW f \in Files PROVE Fresh(f) \in Content(f) /\ Fresh(f).notes = 0
  BY DEF Fresh, Content, Owners

LEMMA FreshTree ==
    /\ [f \in Files |-> Fresh(f)] \in Tree
    /\ \A f \in Files : [g \in Files |-> Fresh(g)][f] = Fresh(f)
  BY FreshOK DEF Tree

\* One file of a tree is replaced.
LEMMA TreeExcept ==
    ASSUME NEW t \in Tree, NEW f \in Files, NEW c \in Content(f)
    PROVE  /\ [t EXCEPT ![f] = c] \in Tree /\ [t EXCEPT ![f] = c][f] = c
           /\ \A g \in Files : g # f => [t EXCEPT ![f] = c][g] = t[g]
  BY DEF Tree

\* One of the files of one branch is written.
Written(b, f, c) == branches' = [branches EXCEPT ![b].files[f] = c]

LEMMA WriteFacts ==
    ASSUME branches \in Seq(Branch), NEW b \in DOMAIN branches, NEW f \in Files,
           NEW c \in Content(f), Written(b, f, c)
    PROVE  /\ branches' \in Seq(Branch) /\ DOMAIN branches' = DOMAIN branches
           /\ \A i \in DOMAIN branches : branches'[i].name = branches[i].name
           /\ branches'[b].files[f] = c
           /\ \A i \in DOMAIN branches, g \in Files :
                 i # b \/ g # f => branches'[i].files[g] = branches[i].files[g]
  <1> DEFINE t == [branches[b].files EXCEPT ![f] = c]
             e == [branches[b] EXCEPT !.files = t]
  <1>1. branches[b] \in Branch
    BY SeqFacts
  <1>2. /\ t \in Tree /\ t[f] = c
        /\ \A g \in Files : g # f => t[g] = branches[b].files[g]
    BY <1>1, TreeExcept DEF Branch
  <1> HIDE DEF t
  <1>3. e \in Branch /\ e.files = t /\ e.name = branches[b].name
    BY <1>1, <1>2 DEF Branch
  <1>4. branches' = [branches EXCEPT ![b] = e]
    BY DEF t, Written
  <1> HIDE DEF e
  <1>5. /\ branches' \in Seq(Branch) /\ DOMAIN branches' = DOMAIN branches
        /\ branches'[b] = e /\ \A i \in DOMAIN branches : i # b => branches'[i] = branches[i]
    BY <1>3, <1>4, ReplaceFacts
  <1> QED BY <1>2, <1>3, <1>5

\* A branch is made from the default branch.
LEMMA ForkFacts ==
    ASSUME WorldOK, NEW name \in Name,
           branches' = Append(branches, [name |-> name, files |-> main, forked |-> main])
    PROVE  /\ branches' \in Seq(Branch) /\ DOMAIN branches' = DOMAIN branches \cup {Len(branches) + 1}
           /\ Len(branches) \in Nat /\ DOMAIN branches = 1 .. Len(branches)
           /\ \A i \in DOMAIN branches : branches'[i] = branches[i]
           /\ branches'[Len(branches) + 1].name = name
           /\ branches'[Len(branches) + 1].files = main
  <1> DEFINE e == [name |-> name, files |-> main, forked |-> main]
  <1>1. e \in Branch /\ e.name = name /\ e.files = main
    BY DEF WorldOK, Branch
  <1> HIDE DEF e
  <1>2. branches \in Seq(Branch) /\ branches' = Append(branches, e)
    BY DEF WorldOK, e
  <1>3. /\ branches' \in Seq(Branch) /\ DOMAIN branches' = DOMAIN branches \cup {Len(branches) + 1}
        /\ branches'[Len(branches) + 1] = e /\ \A j \in DOMAIN branches : branches'[j] = branches[j]
    BY <1>1, <1>2, AppendFacts
  <1> QED BY <1>1, <1>2, <1>3, SeqFacts

\* A pull request is changed, keeping its branch and its direction.
LEMMA ChangeFacts ==
    ASSUME prs \in Seq(PullRequest), NEW n \in DOMAIN prs, NEW e \in PullRequest,
           e.branch = prs[n].branch, e.dir = prs[n].dir,
           Range(prs[n].labels) \subseteq Range(e.labels),
           prs' = [prs EXCEPT ![n] = e]
    PROVE  /\ prs' \in Seq(PullRequest) /\ DOMAIN prs' = DOMAIN prs
           /\ prs'[n] = e /\ \A i \in DOMAIN prs : i # n => prs'[i] = prs[i]
           /\ \A i \in DOMAIN prs : /\ prs'[i].branch = prs[i].branch /\ prs'[i].dir = prs[i].dir
                                    /\ Range(prs[i].labels) \subseteq Range(prs'[i].labels)
  <1>1. /\ prs' \in Seq(PullRequest) /\ DOMAIN prs' = DOMAIN prs
        /\ prs'[n] = e /\ \A i \in DOMAIN prs : i # n => prs'[i] = prs[i]
    BY ReplaceFacts
  <1> QED BY <1>1

LEMMA StateFacts ==
    ASSUME prs \in Seq(PullRequest), NEW n \in DOMAIN prs,
           NEW s \in {"open", "merged", "closed"}, prs' = [prs EXCEPT ![n].state = s]
    PROVE  /\ prs' \in Seq(PullRequest) /\ DOMAIN prs' = DOMAIN prs
           /\ prs'[n].state = s /\ \A i \in DOMAIN prs : i # n => prs'[i] = prs[i]
           /\ \A i \in DOMAIN prs : /\ prs'[i].branch = prs[i].branch /\ prs'[i].dir = prs[i].dir
                                    /\ Range(prs[i].labels) \subseteq Range(prs'[i].labels)
  <1> DEFINE e == [prs[n] EXCEPT !.state = s]
  <1>1. prs[n] \in PullRequest
    BY SeqFacts
  <1>2. /\ e \in PullRequest /\ e.branch = prs[n].branch /\ e.dir = prs[n].dir
        /\ e.labels = prs[n].labels /\ e.state = s
    BY <1>1 DEF PullRequest
  <1>3. prs' = [prs EXCEPT ![n] = e]
    OBVIOUS
  <1> HIDE DEF e
  <1>4. Range(prs[n].labels) \subseteq Range(e.labels)
    BY <1>2
  <1> QED BY <1>2, <1>3, <1>4, ChangeFacts

LEMMA LabelFacts ==
    ASSUME prs \in Seq(PullRequest), NEW n \in DOMAIN prs,
           NEW ls \in Seq(Dirs), Range(prs[n].labels) \subseteq Range(ls),
           prs' = [prs EXCEPT ![n].labels = ls]
    PROVE  /\ prs' \in Seq(PullRequest) /\ DOMAIN prs' = DOMAIN prs
           /\ \A i \in DOMAIN prs : /\ prs'[i].branch = prs[i].branch /\ prs'[i].dir = prs[i].dir
                                    /\ prs'[i].state = prs[i].state
                                    /\ Range(prs[i].labels) \subseteq Range(prs'[i].labels)
  <1> DEFINE e == [prs[n] EXCEPT !.labels = ls]
  <1>1. prs[n] \in PullRequest
    BY SeqFacts
  <1>2. /\ e \in PullRequest /\ e.branch = prs[n].branch /\ e.dir = prs[n].dir
        /\ e.labels = ls /\ e.state = prs[n].state
    BY <1>1 DEF PullRequest
  <1>3. prs' = [prs EXCEPT ![n] = e]
    OBVIOUS
  <1> HIDE DEF e
  <1>4. Range(prs[n].labels) \subseteq Range(e.labels)
    BY <1>2
  <1> QED BY <1>2, <1>3, <1>4, ChangeFacts

-----------------------------------------------------------------------------
(* The repository *)

LEMMA TreeFacts ==
    ASSUME NEW t \in Tree, NEW f \in Files
    PROVE  t[f] \in Content(f) /\ t[f].notes \in Nat
  <1>1. t[f] \in Content(f)
    BY DEF Tree
  <1> QED BY <1>1 DEF Content

LEMMA FileFacts ==
    ASSUME WorldOK, NEW f \in Files
    PROVE  /\ main[f] \in Content(f) /\ main[f].notes \in Nat /\ acts \in Nat
           /\ \A b \in DOMAIN branches : /\ branches[b].files \in Tree
                                          /\ branches[b].files[f] \in Content(f)
                                          /\ branches[b].files[f].notes \in Nat
  <1>1. main \in Tree /\ branches \in Seq(Branch) /\ acts \in Nat
    BY ProviderAssumption DEF WorldOK
  <1>2. ASSUME NEW b \in DOMAIN branches PROVE branches[b].files \in Tree
    <2>1. branches[b] \in Branch
      BY <1>1, SeqFacts
    <2> QED BY <2>1 DEF Branch
  <1> QED BY <1>1, <1>2, TreeFacts

\* Pull requests stay readable when names, branches and directions stay and
\* labels are only added.
LEMMA ReadableKept ==
    ASSUME WorldOK, Grows, DOMAIN prs' = DOMAIN prs,
           \A i \in DOMAIN prs : Range(prs[i].labels) \subseteq Range(prs'[i].labels)
    PROVE  \A n \in DOMAIN prs' : Readable(n)'
  BY DEF WorldOK, Grows, Readable, Ref

LEMMA SameWorld ==
    ASSUME WorldOK, UNCHANGED <<world, acts>>, faults' \in 0 .. MaxFaults
    PROVE  WorldOK' /\ Grows
  BY DEF WorldOK, Grows, Readable, Ref, Open, world

\* Pull requests alone change.
LEMMA OnlyPRs ==
    ASSUME WorldOK, UNCHANGED <<main, branches>>, acts' \in {acts, acts + 1},
           acts' \in 0 .. MaxActs, faults' \in 0 .. MaxFaults,
           prs' \in Seq(PullRequest), DOMAIN prs' = DOMAIN prs,
           \A i \in DOMAIN prs : /\ prs'[i].branch = prs[i].branch /\ prs'[i].dir = prs[i].dir
                                 /\ Range(prs[i].labels) \subseteq Range(prs'[i].labels)
    PROVE  WorldOK' /\ Grows
  <1>1. Grows
    BY DEF Grows
  <1>2. \A n \in DOMAIN prs' : Readable(n)'
    BY <1>1, ReadableKept
  <1>3. \A f \in Files : /\ main'[f].notes <= acts'
                         /\ \A b \in DOMAIN branches' : branches'[b].files[f].notes <= acts'
    <2>1. \A f \in Files : /\ main[f].notes \in Nat /\ acts \in Nat
                           /\ \A b \in DOMAIN branches : branches[b].files[f].notes \in Nat
      BY FileFacts
    <2> QED BY <2>1 DEF WorldOK
  <1> QED BY <1>1, <1>2, <1>3 DEF WorldOK

LEMMA MergeFacts ==
    ASSUME WorldOK, NEW n \in DOMAIN prs, MergeInto(n)
    PROVE  /\ main' \in Tree
           /\ \A f \in Files : main'[f] \in {main[f], branches[prs[n].branch].files[f]}
           /\ prs' \in Seq(PullRequest) /\ DOMAIN prs' = DOMAIN prs
           /\ \A i \in DOMAIN prs : /\ prs'[i].branch = prs[i].branch /\ prs'[i].dir = prs[i].dir
                                    /\ Range(prs[i].labels) \subseteq Range(prs'[i].labels)
  <1>1. branches[prs[n].branch] \in Branch
    BY SeqFacts DEF WorldOK, Readable
  <1>2. \A f \in Files : main'[f] \in {main[f], branches[prs[n].branch].files[f]}
    BY DEF MergeInto
  <1>3. main' \in Tree
    <2>1. DOMAIN main' = Files /\ main' = [f \in Files |-> main'[f]]
      BY DEF MergeInto
    <2>2. \A f \in Files : main'[f] \in Content(f)
      BY <1>1, <1>2 DEF WorldOK, Tree, Branch
    <2> QED BY <2>1, <2>2 DEF Tree
  <1>4. prs' = [prs EXCEPT ![n].state = "merged"]
    BY DEF MergeInto
  <1> QED BY <1>2, <1>3, <1>4, StateFacts DEF WorldOK

LEMMA MergeWorld ==
    ASSUME WorldOK, NEW n \in DOMAIN prs, MergeInto(n), branches' = branches,
           acts' \in {acts, acts + 1}, acts' \in 0 .. MaxActs, faults' \in 0 .. MaxFaults
    PROVE  WorldOK' /\ Grows
  <1>1. Grows
    BY MergeFacts DEF Grows
  <1>2. \A i \in DOMAIN prs' : Readable(i)'
    BY <1>1, MergeFacts, ReadableKept
  <1>3. \A f \in Files : /\ main'[f].notes <= acts'
                         /\ \A b \in DOMAIN branches' : branches'[b].files[f].notes <= acts'
    <2>1. \A f \in Files : /\ main[f].notes \in Nat /\ acts \in Nat
                           /\ \A b \in DOMAIN branches : branches[b].files[f].notes \in Nat
      BY FileFacts
    <2>2. prs[n].branch \in DOMAIN branches
      BY DEF WorldOK, Readable
    <2>3. \A f \in Files : main'[f].notes <= acts
      BY <2>2, MergeFacts DEF WorldOK
    <2>4. \A f \in Files : main'[f].notes \in Nat
      BY MergeFacts DEF Tree, Content
    <2> QED BY <2>1, <2>2, <2>3, <2>4 DEF WorldOK
  <1> QED BY <1>1, <1>2, <1>3, MergeFacts DEF WorldOK

LEMMA CreateRefWorld ==
    ASSUME ProviderInv, NEW dir \in {"grow", "shrink"}, CreateRef(dir)
    PROVE  WorldOK' /\ Grows
  <1>1. BranchName(dir, q) \in Name /\ BranchName(dir, q).words = <<>>
    <2>1. q \in Quotas /\ <<>> \in Words
      BY EmptySeq DEF Words, ProviderInv, CallOK, CreateRef
    <2> QED BY <2>1 DEF BranchName, Name, Dirs
  <1>2. branches' = Append(branches, [name |-> BranchName(dir, q), files |-> main, forked |-> main])
        /\ UNCHANGED <<main, prs, acts, faults>>
    BY DEF CreateRef
  <1>3. /\ branches' \in Seq(Branch) /\ DOMAIN branches' = DOMAIN branches \cup {Len(branches) + 1}
        /\ \A i \in DOMAIN branches : branches'[i] = branches[i]
        /\ branches'[Len(branches) + 1].files = main
    BY <1>1, <1>2, ForkFacts DEF ProviderInv
  <1>4. Grows
    BY <1>2, <1>3 DEF Grows
  <1>5. \A i \in DOMAIN prs' : Readable(i)'
    BY <1>2, <1>4, ReadableKept DEF ProviderInv
  <1>6. \A f \in Files, b \in DOMAIN branches' : branches'[b].files[f].notes <= acts
    BY <1>3 DEF ProviderInv, WorldOK
  <1> QED BY <1>2, <1>3, <1>4, <1>5, <1>6 DEF ProviderInv, WorldOK

\* A file of a branch is written.
LEMMA WriteWorld ==
    ASSUME WorldOK, NEW b \in DOMAIN branches, NEW f \in Files, NEW c \in Content(f),
           Written(b, f, c), c.notes <= acts',
           UNCHANGED <<main, prs>>, acts' \in {acts, acts + 1}, acts' \in 0 .. MaxActs,
           faults' \in 0 .. MaxFaults
    PROVE  WorldOK' /\ Grows
  <1>1. /\ branches' \in Seq(Branch) /\ DOMAIN branches' = DOMAIN branches
        /\ \A i \in DOMAIN branches : branches'[i].name = branches[i].name
        /\ branches'[b].files[f] = c
        /\ \A i \in DOMAIN branches, g \in Files :
              i # b \/ g # f => branches'[i].files[g] = branches[i].files[g]
    <2>1. branches \in Seq(Branch)
      BY DEF WorldOK
    <2> QED BY <2>1, WriteFacts
  <1>2. Grows
    BY <1>1 DEF Grows
  <1>3. \A i \in DOMAIN prs' : Readable(i)'
    BY <1>2, ReadableKept
  <1>4. \A g \in Files : /\ main[g].notes \in Nat
                         /\ \A i \in DOMAIN branches : branches[i].files[g].notes \in Nat
    BY FileFacts
  <1>5. acts \in Nat
    BY DEF WorldOK
  <1>6. \A g \in Files : main'[g].notes <= acts'
    BY <1>4, <1>5 DEF WorldOK
  <1>7. \A g \in Files, i \in DOMAIN branches' : branches'[i].files[g].notes <= acts'
    <2> SUFFICES ASSUME NEW g \in Files, NEW i \in DOMAIN branches
                 PROVE  branches'[i].files[g].notes <= acts'
      BY <1>1
    <2>1. branches[i].files[g].notes \in Nat /\ branches[i].files[g].notes <= acts
      BY <1>4 DEF WorldOK
    <2> QED BY <1>1, <1>5, <2>1
  <1> QED BY <1>1, <1>2, <1>3, <1>6, <1>7 DEF WorldOK

LEMMA UpdateFileWorld ==
    ASSUME ProviderInv, NEW t \in Targets, UpdateFile(t)
    PROVE  WorldOK' /\ Grows
  <1> DEFINE c == applyChangesToYaml(copy.content, t)
  <1>1. /\ branch \in DOMAIN branches /\ copy.file \in Files /\ q \in Quotas
        /\ copy.content \in Content(copy.file)
        /\ copy.content = branches[branch].files[copy.file]
    BY DEF ProviderInv, CallOK, UpdateFile, BlobMatches
  <1>2. c \in Content(copy.file) /\ c.notes = copy.content.notes
    BY <1>1 DEF applyChangesToYaml, Content, Owners
  <1>3. Written(branch, copy.file, c) /\ UNCHANGED <<main, prs, acts, faults>>
    BY DEF UpdateFile, Written
  <1> HIDE DEF c
  <1>4. c.notes <= acts' /\ acts' = acts /\ acts' \in 0 .. MaxActs /\ faults' \in 0 .. MaxFaults
    BY <1>1, <1>2, <1>3 DEF ProviderInv, WorldOK
  <1> QED BY <1>1, <1>2, <1>3, <1>4, WriteWorld DEF ProviderInv

LEMMA PushNoteWorld ==
    ASSUME ProviderInv, NEW b \in DOMAIN branches, NEW f \in Files, PushNote(b, f)
    PROVE  WorldOK' /\ Grows
  <1> DEFINE c == [branches[b].files[f] EXCEPT !.notes = @ + 1]
  <1>1. branches[b].files[f] \in Content(f) /\ branches[b].files[f].notes <= acts /\ acts \in Nat
    BY FileFacts DEF ProviderInv, WorldOK
  <1>2. c \in Content(f) /\ c.notes = branches[b].files[f].notes + 1
        /\ branches[b].files[f].notes \in Nat
    BY <1>1 DEF Content
  <1>3. Written(b, f, c) /\ UNCHANGED <<main, prs, faults>>
    BY DEF PushNote, Written
  <1>4. acts' = acts + 1 /\ acts' \in 0 .. MaxActs
    BY ProviderAssumption DEF PushNote, Act, ProviderInv, WorldOK
  <1> HIDE DEF c
  <1>5. c.notes <= acts' /\ faults' \in 0 .. MaxFaults
    BY <1>1, <1>2, <1>3, <1>4 DEF ProviderInv, WorldOK
  <1> QED BY <1>2, <1>3, <1>4, <1>5, WriteWorld DEF ProviderInv

\* A pull request is opened for branch b, whose name is in the current shape
\* or not about quotas.
Opened(b, dir) ==
    /\ prs' = Append(prs, PR(b, dir, <<>>))
    /\ branches'[b].name.words = <<>> => dir = branches'[b].name.dir
    /\ branches'[b].name.words # <<>> => dir = "" /\ branches'[b].name.words = <<"docs">>

\* A pull request is opened.
LEMMA OpenWorld ==
    ASSUME WorldOK, main' = main, branches' \in Seq(Branch),
           \A i \in DOMAIN branches : i \in DOMAIN branches' /\ branches'[i] = branches[i],
           \A i \in DOMAIN branches', f \in Files : branches'[i].files[f].notes <= acts,
           NEW b \in DOMAIN branches', NEW dir \in Dirs,
           Opened(b, dir),
           acts' \in {acts, acts + 1}, acts' \in 0 .. MaxActs, faults' \in 0 .. MaxFaults
    PROVE  WorldOK' /\ Grows
  <1> DEFINE e == PR(b, dir, <<>>)
  <1>1. e \in PullRequest /\ e.branch = b /\ e.dir = dir
    <2>1. b \in Nat
      BY SeqFacts
    <2>2. <<>> \in Seq(Dirs)
      BY EmptySeq
    <2> QED BY <2>1, <2>2 DEF PR, PullRequest
  <1> HIDE DEF e
  <1>2. PICK n : /\ prs' \in Seq(PullRequest) /\ DOMAIN prs' = DOMAIN prs \cup {n}
                 /\ prs'[n] = e /\ \A i \in DOMAIN prs : prs'[i] = prs[i]
    <2>1. prs \in Seq(PullRequest) /\ prs' = Append(prs, e)
      BY DEF WorldOK, Opened, e
    <2> QED BY <1>1, <2>1, AppendFacts
  <1>3. Grows
    BY <1>2 DEF Grows
  <1>4. \A i \in DOMAIN prs' : Readable(i)'
    <2>1. ASSUME NEW i \in DOMAIN prs PROVE Readable(i)'
      BY <1>2, <2>1 DEF WorldOK, Readable, Ref
    <2>2. Readable(n)'
      <3>1. /\ branches'[b].name.words = <<>> => dir = branches'[b].name.dir
            /\ branches'[b].name.words # <<>> => dir = "" /\ branches'[b].name.words = <<"docs">>
        BY DEF Opened
      <3> QED BY <1>1, <1>2, <3>1 DEF Readable, Ref
    <2> QED BY <1>2, <2>1, <2>2
  <1>5. \A f \in Files : main'[f].notes <= acts'
    <2> SUFFICES ASSUME NEW f \in Files PROVE main[f].notes <= acts'
      OBVIOUS
    <2>1. main[f].notes <= acts /\ main[f].notes \in Nat /\ acts \in Nat
      BY FileFacts DEF WorldOK
    <2> QED BY <2>1
  <1>6. \A f \in Files, i \in DOMAIN branches' : branches'[i].files[f].notes <= acts'
    <2> SUFFICES ASSUME NEW f \in Files, NEW i \in DOMAIN branches'
                 PROVE  branches'[i].files[f].notes <= acts'
      OBVIOUS
    <2>1. branches'[i] \in Branch
      BY SeqFacts
    <2>2. branches'[i].files[f].notes \in Nat
      BY <2>1, TreeFacts DEF Branch
    <2>3. branches'[i].files[f].notes <= acts /\ acts \in Nat
      BY FileFacts
    <2> QED BY <2>2, <2>3
  <1> QED BY <1>2, <1>3, <1>4, <1>5, <1>6 DEF WorldOK

LEMMA CreateWorld ==
    ASSUME ProviderInv, Create
    PROVE  WorldOK' /\ Grows
  <1>1. /\ branch \in DOMAIN branches /\ branches[branch].name.words = <<>>
        /\ UNCHANGED <<main, branches, acts, faults>>
    BY DEF ProviderInv, CallOK, Create
  <1>2. branches \in Seq(Branch) /\ acts \in 0 .. MaxActs /\ faults \in 0 .. MaxFaults
        /\ \A i \in DOMAIN branches, f \in Files : branches[i].files[f].notes <= acts
    BY DEF ProviderInv, WorldOK
  <1>3. branches[branch].name.dir \in Dirs
    <2>1. branches[branch] \in Branch
      BY <1>1, <1>2, SeqFacts
    <2> QED BY <2>1 DEF Branch, Name
  <1>4. Opened(branch, branches[branch].name.dir)
    BY <1>1 DEF Opened, Create
  <1> QED BY <1>1, <1>2, <1>3, <1>4, OpenWorld DEF ProviderInv

LEMMA OpenOtherWorld ==
    ASSUME ProviderInv, OpenOther
    PROVE  WorldOK' /\ Grows
  <1> DEFINE name == [dir |-> "", quota |-> NoQuota, words |-> <<"docs">>]
             b == Len(branches) + 1
  <1>1. name \in Name /\ name.words = <<"docs">> /\ name.words # <<>>
    <2>1. <<"docs">> \in Words /\ <<"docs">> # <<>>
      BY OneElement DEF Words
    <2> QED BY <2>1 DEF Name, Dirs
  <1>2. main' = main /\ faults' = faults /\ acts' = acts + 1 /\ acts' \in 0 .. MaxActs
    <2>1. acts \in 0 .. MaxActs /\ acts < MaxActs /\ acts' = acts + 1
      BY DEF OpenOther, Act, ProviderInv, WorldOK
    <2>2. main' = main /\ faults' = faults
      BY DEF OpenOther
    <2> QED BY <2>1, <2>2, ProviderAssumption
  <1>3. branches' = Append(branches, [name |-> name, files |-> main, forked |-> main])
    BY DEF OpenOther
  <1> HIDE DEF name
  <1>4. /\ branches' \in Seq(Branch) /\ DOMAIN branches' = DOMAIN branches \cup {b}
        /\ \A i \in DOMAIN branches : branches'[i] = branches[i]
        /\ branches'[b].name = name /\ branches'[b].files = main
    BY <1>1, <1>3, ForkFacts DEF ProviderInv
  <1>5. Opened(b, "")
    BY <1>1, <1>4 DEF Opened, OpenOther
  <1> HIDE DEF b
  <1>7. "" \in Dirs
    BY DEF Dirs
  <1>6. faults \in 0 .. MaxFaults
        /\ \A i \in DOMAIN branches', f \in Files : branches'[i].files[f].notes <= acts
    BY <1>4 DEF ProviderInv, WorldOK
  <1> QED BY <1>2, <1>4, <1>5, <1>6, <1>7, OpenWorld DEF ProviderInv

LEMMA LabelWorld ==
    ASSUME ProviderInv, Label
    PROVE  WorldOK' /\ Grows
  <1>1. /\ found.id \in DOMAIN prs /\ prs \in Seq(PullRequest)
        /\ UNCHANGED <<main, branches, acts>> /\ acts \in 0 .. MaxActs
    BY DEF ProviderInv, WorldOK, CallOK, ResultOK, Label
  <1>2. faults' \in 0 .. MaxFaults
    BY ProviderAssumption DEF ProviderInv, WorldOK, Label, Fault
  <1>3. prs[found.id] \in PullRequest
    BY <1>1, SeqFacts
  <1>4. CASE prs' = [prs EXCEPT ![found.id].labels = Append(@, prs[found.id].dir)]
    <2> DEFINE old == prs[found.id].labels
               ls == Append(old, prs[found.id].dir)
    <2>1. old \in Seq(Dirs) /\ prs[found.id].dir \in Dirs
      BY <1>3 DEF PullRequest
    <2>2. ls \in Seq(Dirs) /\ Range(old) \subseteq Range(ls)
      <3> HIDE DEF old
      <3>1. <<prs[found.id].dir>> \in Seq(Dirs)
        BY <2>1, OneElement
      <3>2. ls = old \o <<prs[found.id].dir>>
        BY <2>1, AppendIsConcat
      <3> QED BY <2>1, <3>1, <3>2, RangeGrows, AppendProperties
    <2>3. prs' = [prs EXCEPT ![found.id].labels = ls]
      BY <1>4
    <2> HIDE DEF ls
    <2> QED BY <1>1, <1>2, <2>2, <2>3, LabelFacts, OnlyPRs DEF ProviderInv
  <1>5. CASE prs' = [prs EXCEPT ![found.id].state = "closed"]
    BY <1>1, <1>2, <1>5, StateFacts, OnlyPRs DEF ProviderInv
  <1>6. CASE prs' = prs
    BY <1>1, <1>2, <1>6, SameWorld DEF ProviderInv, world
  <1> QED BY <1>4, <1>5, <1>6 DEF Label

LEMMA AddLabelWorld ==
    ASSUME ProviderInv, NEW n \in DOMAIN prs, NEW dir \in {"grow", "shrink"}, AddLabel(n, dir)
    PROVE  WorldOK' /\ Grows
  <1>1. prs \in Seq(PullRequest) /\ UNCHANGED <<main, branches, faults>> /\ faults \in 0 .. MaxFaults
        /\ acts' = acts + 1 /\ acts' \in 0 .. MaxActs
    BY ProviderAssumption DEF ProviderInv, WorldOK, AddLabel, Act
  <1> DEFINE old == prs[n].labels
             ls == <<dir>> \o old
  <1>2. old \in Seq(Dirs)
    <2>1. prs[n] \in PullRequest
      BY <1>1, SeqFacts
    <2> QED BY <2>1 DEF PullRequest
  <1>3. ls \in Seq(Dirs) /\ Range(old) \subseteq Range(ls)
    <2>1. <<dir>> \in Seq(Dirs)
      BY OneElement DEF Dirs
    <2> HIDE DEF old
    <2> QED BY <1>2, <2>1, RangeGrows, ConcatProperties
  <1>4. prs' = [prs EXCEPT ![n].labels = ls]
    BY DEF AddLabel
  <1> HIDE DEF ls
  <1> QED BY <1>1, <1>3, <1>4, LabelFacts, OnlyPRs DEF ProviderInv

LEMMA EndWorld ==
    ASSUME ProviderInv, NEW n \in DOMAIN prs, EndByHuman(n) \/ Reopen(n)
    PROVE  WorldOK' /\ Grows
  <1>1. prs \in Seq(PullRequest) /\ UNCHANGED <<branches, faults>> /\ faults \in 0 .. MaxFaults
        /\ acts' = acts + 1 /\ acts' \in 0 .. MaxActs
    BY ProviderAssumption DEF ProviderInv, WorldOK, EndByHuman, Reopen, Act
  <1>2. CASE MergeInto(n)
    BY <1>1, <1>2, MergeWorld DEF ProviderInv
  <1>3. ASSUME NEW s \in {"open", "closed"}, prs' = [prs EXCEPT ![n].state = s], main' = main
        PROVE  WorldOK' /\ Grows
    BY <1>1, <1>3, StateFacts, OnlyPRs DEF ProviderInv
  <1> QED BY <1>2, <1>3 DEF EndByHuman, Reopen

LEMMA BotEndWorld ==
    ASSUME ProviderInv, MergePR \/ ClosePR
    PROVE  WorldOK' /\ Grows
  <1>1. found.id \in DOMAIN prs /\ prs \in Seq(PullRequest) /\ UNCHANGED <<branches, acts, faults>>
        /\ acts \in 0 .. MaxActs /\ faults \in 0 .. MaxFaults
    <2>1. Nothing.dir = ""
      BY DEF Nothing
    <2>2. found # Nothing
      BY <2>1 DEF MergePR, ClosePR
    <2> QED BY <2>2 DEF ProviderInv, WorldOK, CallOK, ResultOK, MergePR, ClosePR
  <1>2. CASE MergePR
    BY <1>1, <1>2, MergeWorld DEF ProviderInv, MergePR
  <1>3. CASE ClosePR /\ prs' = prs
    BY <1>1, <1>3, SameWorld DEF ProviderInv, world, ClosePR
  <1>4. CASE ClosePR /\ prs' = [prs EXCEPT ![found.id].state = "closed"]
    BY <1>1, <1>4, StateFacts, OnlyPRs DEF ProviderInv, ClosePR
  <1> QED BY <1>2, <1>3, <1>4 DEF ClosePR

LEMMA WorldStep ==
    ASSUME ProviderInv, [Next]_vars
    PROVE  WorldOK' /\ Grows
  <1>1. CASE \/ UNCHANGED vars \/ (\E p \in Quotas : Begin(p)) \/ List
             \/ (\E unread \in SUBSET Files : ReadFile(unread))
             \/ UpdateFileConflict \/ Done \/ Interrupted
    <2>1. UNCHANGED <<world, acts>>
      BY <1>1 DEF vars, Begin, List, ReadFile, UpdateFileConflict, Done, Interrupted
    <2>2. ASSUME NEW unread \in SUBSET Files, ReadFile(unread) PROVE faults' \in 0 .. MaxFaults
      <3>1. Cardinality(unread) \in Nat
        BY FS_Subset, FS_CardinalityType, RepositoryAssumption
      <3> QED BY <2>2, <3>1, ProviderAssumption DEF ReadFile, ProviderInv, WorldOK
    <2>3. faults' \in 0 .. MaxFaults
      BY <1>1, <2>2, ProviderAssumption
         DEF vars, Begin, List, UpdateFileConflict, Done, Interrupted, Fault, ProviderInv, WorldOK
    <2> QED BY <2>1, <2>3, SameWorld DEF ProviderInv
  <1> QED BY <1>1, CreateRefWorld, UpdateFileWorld, CreateWorld, LabelWorld, BotEndWorld,
             PushNoteWorld, AddLabelWorld, OpenOtherWorld, EndWorld
          DEF Next

-----------------------------------------------------------------------------
(* The search *)

\* A set of numbers has a least one, and one that is bounded a greatest.
LEMMA LeastOf ==
    ASSUME NEW S \in SUBSET Nat, S # {}
    PROVE  \E n \in S : \A m \in S \ {n} : n < m
  <1>1. PICK n \in S : \A m \in S : ~ (<<m, n>> \in OpToRel(<, Nat))
    BY NatLessThanWellFounded, WFMin
  <1>2. \A m \in S : ~(m < n)
    BY <1>1 DEF OpToRel
  <1> QED BY <1>2

LEMMA GreatestOf ==
    ASSUME NEW k \in Nat, NEW S \in SUBSET 1 .. k, S # {}
    PROVE  \E n \in S : \A m \in S \ {n} : n > m
  <1> DEFINE T == {k - n : n \in S}
  <1>1. T \in SUBSET Nat /\ T # {}
    <2>1. \A n \in S : k - n \in Nat
      OBVIOUS
    <2> QED BY <2>1
  <1>2. PICK t \in T : \A u \in T \ {t} : t < u
    BY <1>1, LeastOf
  <1>3. PICK n \in S : t = k - n
    OBVIOUS
  <1>4. ASSUME NEW m \in S \ {n} PROVE n > m
    <2>1. k - m \in T /\ k - m # t
      BY <1>3
    <2>2. t < k - m
      BY <1>2, <2>1
    <2> QED BY <1>3, <2>2
  <1> QED BY <1>4

LEMMA FirstListedFacts ==
    ASSUME ProviderInv, NEW S \in SUBSET DOMAIN prs, S # {}
    PROVE  FirstListed(S) \in S /\ \A m \in S \ {FirstListed(S)} : Precedes(FirstListed(S), m)
  <1>1. Len(prs) \in Nat /\ DOMAIN prs = 1 .. Len(prs)
    BY SeqFacts DEF ProviderInv, WorldOK
  <1>2. \E n \in S : \A m \in S \ {n} : Precedes(n, m)
    <2>1. CASE order = "oldest"
      BY <1>1, <2>1, LeastOf DEF Precedes
    <2>2. CASE order # "oldest"
      BY <1>1, <2>2, GreatestOf DEF Precedes
    <2> QED BY <2>1, <2>2
  <1> QED BY <1>2 DEF FirstListed

\* A branch that is not about quotas is in the older shape of no quota.
LEMMA NotDocs ==
    ASSUME NEW p \in Quotas
    PROVE  ~IsPrefix(p.ns \o p.name, <<"docs">>)
  <1>1. p.ns \in Seq(STRING) /\ p.ns # <<>> /\ p.name \in Seq(STRING) /\ p.name # <<>>
    BY RepositoryAssumption
  <1>2. Len(p.ns) \in Nat \ {0} /\ Len(p.name) \in Nat \ {0}
    BY <1>1, EmptySeq, LenProperties
  <1> DEFINE prefix == p.ns \o p.name
             docs == <<"docs">>
  <1>3. Len(prefix) = Len(p.ns) + Len(p.name)
    BY <1>1, ConcatProperties
  <1>4. Len(docs) = 1
    OBVIOUS
  <1> HIDE DEF prefix, docs
  <1>5. ~(Len(prefix) <= Len(docs))
    <2>1. \A m, n \in Nat \ {0} : ~(m + n <= 1)
      OBVIOUS
    <2> QED BY <1>2, <1>3, <1>4, <2>1, Zenon
  <1>6. ~IsPrefix(prefix, docs)
    BY <1>5, Zenon DEF IsPrefix
  <1> QED BY <1>6 DEF prefix, docs

LEMMA NothingFacts ==
    Nothing.id = 0 /\ Nothing.dir = "" /\ Nothing \in Result /\ ResultOK(Nothing)
  <1>1. Nothing.id = 0 /\ Nothing.dir = "" /\ Nothing \in Result
    BY DEF Nothing, Result, Dirs
  <1>2. ResultOK(Nothing)
    BY Zenon DEF ResultOK
  <1> QED BY <1>1, <1>2

LEMMA PickFacts ==
    ASSUME ProviderInv, NEW listed \in SUBSET DOMAIN prs
    PROVE  /\ Pick(listed) \in Result /\ ResultOK(Pick(listed))
           /\ Pick(listed) = Nothing => \A n \in listed : ~Own(n)
           /\ Pick(listed) # Nothing => Own(Pick(listed).id)
  <1> DEFINE own == {n \in listed : Own(n)}
             n == FirstListed(own)
  <1>1. CASE own = {}
    <2>1. Pick(listed) = Nothing
      BY <1>1 DEF Pick
    <2> QED BY <1>1, <2>1, NothingFacts
  <1>2. CASE own # {}
    <2>1. n \in own
      BY <1>2, FirstListedFacts
    <2> HIDE DEF n
    <2>2. Pick(listed) = [id |-> n, dir |-> Ref(n).dir]
      BY <1>2 DEF Pick, n
    <2>3. /\ n \in DOMAIN prs /\ n \in Nat \ {0} /\ Own(n)
          /\ prs[n].branch \in DOMAIN branches
          /\ Ref(n).words = <<>> => prs[n].dir = Ref(n).dir
      <3>1. n \in DOMAIN prs /\ Own(n)
        BY <2>1
      <3>2. prs \in Seq(PullRequest) /\ Readable(n)
        BY <3>1 DEF ProviderInv, WorldOK
      <3>3. n \in Nat \ {0}
        BY <3>1, <3>2, SeqFacts
      <3> QED BY <3>1, <3>2, <3>3 DEF Readable
    <2>4. Ref(n).dir \in Dirs
      <3>1. branches[prs[n].branch] \in Branch
        BY <2>3, SeqFacts DEF ProviderInv, WorldOK
      <3> QED BY <3>1 DEF Ref, Branch, Name
    <2>5. Pick(listed).id = n /\ Pick(listed).dir = Ref(n).dir /\ Pick(listed) \in Result
      BY <2>2, <2>3, <2>4 DEF Result
    <2>6. Pick(listed) # Nothing
      BY <2>3, <2>5, NothingFacts
    <2> QED BY <2>3, <2>5, <2>6 DEF ResultOK, Own
  <1> QED BY <1>1, <1>2

LEMMA FallbackFacts ==
    ASSUME ProviderInv, pc # "idle", NEW listed \in SUBSET DOMAIN prs
    PROVE  /\ Fallback(listed) \in Result /\ ResultOK(Fallback(listed))
           /\ Fallback(listed) = Nothing => legacy = Nothing /\ \A n \in listed : ~MatchesLegacy(n)
  <1> DEFINE old == {n \in listed : MatchesLegacy(n)}
             n == FirstListed(old)
  <1>1. CASE legacy # Nothing \/ old = {}
    <2>1. Fallback(listed) = legacy
      BY <1>1 DEF Fallback
    <2> QED BY <1>1, <2>1 DEF ProviderInv, CallOK
  <1>2. CASE legacy = Nothing /\ old # {}
    <2>1. n \in old
      BY <1>2, FirstListedFacts
    <2> HIDE DEF n
    <2>2. Fallback(listed) = [id |-> n, dir |-> directionFromLabels(prs[n].labels)]
      BY <1>2 DEF Fallback, n
    <2>3. n \in DOMAIN prs /\ n \in Nat \ {0} /\ MatchesLegacy(n) /\ Readable(n)
          /\ q \in Quotas /\ prs[n] \in PullRequest
      BY <2>1, SeqFacts DEF ProviderInv, WorldOK, CallOK
    <2>4. directionFromLabels(prs[n].labels) \in {"grow", "shrink"}
      BY DEF directionFromLabels
    <2>5. directionFromLabels(prs[n].labels) = "grow" => prs[n].dir = "grow"
      <3>1. prs[n].dir # ""
        BY <2>3, NotDocs DEF Readable, MatchesLegacy
      <3>2. directionFromLabels(prs[n].labels) = "grow" => prs[n].dir # "shrink"
        BY <2>3 DEF directionFromLabels, Readable, MatchesLegacy
      <3> QED BY <2>3, <3>1, <3>2 DEF PullRequest, Dirs
    <2> HIDE DEF old
    <2>6. /\ Fallback(listed).id = n /\ Fallback(listed).dir = directionFromLabels(prs[n].labels)
          /\ Fallback(listed) \in Result
      <3>1. directionFromLabels(prs[n].labels) \in Dirs
        BY <2>4 DEF Dirs
      <3>2. n \in Nat
        BY <2>3
      <3> QED BY <2>2, <3>1, <3>2 DEF Result
    <2>7. Fallback(listed) # Nothing
      BY <2>3, <2>6, NothingFacts
    <2> QED BY <2>3, <2>5, <2>6, <2>7 DEF ResultOK
  <1> QED BY <1>1, <1>2

-----------------------------------------------------------------------------
(* The call under way *)

\* What people do leaves the call alone.
LEMMA CallKept ==
    ASSUME ProviderInv, Grows, steady' \in BOOLEAN,
           UNCHANGED <<pc, q, page, legacy, found, known, order, edit>>
    PROVE  CallOK'
  <1>1. \A r : ResultOK(r) => ResultOK(r)'
    BY DEF Grows, ResultOK
  <1>2. ResultOK(legacy)' /\ ResultOK(found)'
    BY <1>1 DEF ProviderInv, CallOK
  <1>3. known' \in SUBSET DOMAIN prs'
    BY DEF ProviderInv, CallOK, Grows
  <1>4. /\ pc' \in {"branch", "commit", "open", "label"} => branch' \in DOMAIN branches'
        /\ pc' \in {"branch", "commit", "open"} /\ found' = Nothing =>
              branches'[branch'].name.words = <<>>
    BY DEF ProviderInv, CallOK, Grows, edit
  <1> QED BY <1>2, <1>3, <1>4 DEF ProviderInv, CallOK, edit

LEMMA ReturnCall ==
    ASSUME Return
    PROVE  CallOK'
  <1>1. ResultOK(legacy)' /\ ResultOK(found)'
    BY DEF Return, ResultOK
  <1>2. steady' \in BOOLEAN
    BY Zenon DEF Return
  <1>3. /\ pc' = "idle" /\ page' = 1 /\ order' = "newest" /\ known' = {}
        /\ legacy' \in Result /\ found' \in Result
    BY NothingFacts DEF Return
  <1> QED BY <1>1, <1>2, <1>3 DEF CallOK

LEMMA ListCall ==
    ASSUME ProviderInv, List
    PROVE  CallOK'
  <1> DEFINE listed == Listing(page)
  <1>1. listed \in SUBSET DOMAIN prs
    BY DEF Listing, Open
  <1>2. pc = "list" /\ UNCHANGED <<world, q, edit, steady, known, order>>
    BY DEF List
  <1>3. legacy' = Fallback(listed) /\ legacy' \in Result /\ ResultOK(legacy')
    BY <1>1, <1>2, FallbackFacts DEF List
  <1>4. \/ found' = Pick(listed) /\ pc' = "found" /\ page' = page
        \/ found' = found /\ pc' = "list" /\ page' = page + 1
        \/ found' = legacy' /\ pc' = "found" /\ page' = page
    BY <1>2 DEF List
  <1> HIDE DEF listed
  <1>5. found' \in Result /\ ResultOK(found')
    BY <1>1, <1>3, <1>4, PickFacts DEF ProviderInv, CallOK
  <1>6. ResultOK(legacy)' /\ ResultOK(found)'
    BY <1>2, <1>3, <1>5 DEF ResultOK, world
  <1>7. pc' \in {"list", "found"} /\ page' \in Nat \ {0}
    BY <1>4 DEF ProviderInv, CallOK
  <1> QED BY <1>2, <1>3, <1>5, <1>6, <1>7 DEF ProviderInv, CallOK, world

LEMMA BeginCall ==
    ASSUME ProviderInv, NEW p \in Quotas, Begin(p)
    PROVE  CallOK'
  <1>1. UNCHANGED <<world, page, legacy, found, steady>>
        /\ q' = p /\ pc' = "list" /\ known' = Open /\ order' \in {"newest", "oldest"}
    BY DEF Begin
  <1>2. ResultOK(legacy)' /\ ResultOK(found)'
    BY <1>1 DEF ProviderInv, CallOK, ResultOK, world
  <1> QED BY <1>1, <1>2 DEF ProviderInv, CallOK, Open, world

LEMMA CreateRefCall ==
    ASSUME ProviderInv, NEW dir \in {"grow", "shrink"}, CreateRef(dir)
    PROVE  CallOK'
  <1> DEFINE b == Len(branches) + 1
  <1>1. BranchName(dir, q) \in Name /\ BranchName(dir, q).words = <<>>
    <2>1. q \in Quotas /\ <<>> \in Words
      BY EmptySeq DEF Words, ProviderInv, CallOK, CreateRef
    <2> QED BY <2>1 DEF BranchName, Name, Dirs
  <1>2. branches' = Append(branches, [name |-> BranchName(dir, q), files |-> main, forked |-> main])
    BY DEF CreateRef
  <1>3. /\ b \in DOMAIN branches' /\ branches'[b].name = BranchName(dir, q)
    BY <1>1, <1>2, ForkFacts DEF ProviderInv
  <1>4. branch' = b
    BY DEF CreateRef
  <1> HIDE DEF b
  <1>5. branch' \in DOMAIN branches' /\ branches'[branch'].name.words = <<>>
    BY <1>1, <1>3, <1>4
  <1>6. pc' = "branch" /\ UNCHANGED <<prs, q, page, legacy, found, steady, known, order>>
    BY DEF CreateRef, search
  <1>7. ResultOK(legacy)' /\ ResultOK(found)'
    BY <1>6 DEF ProviderInv, CallOK, ResultOK
  <1>8. q \in Quotas
    BY DEF ProviderInv, CallOK, CreateRef
  <1> QED BY <1>5, <1>6, <1>7, <1>8 DEF ProviderInv, CallOK

\* The file that is read is one of the directory that mentions the quota.
LEMMA ReadFacts ==
    ASSUME ProviderInv, NEW unread \in SUBSET Files, ReadFile(unread)
    PROVE  /\ branch' \in DOMAIN branches /\ q \in Quotas /\ copy'.file \in Files
           /\ copy'.content = branches[branch'].files[copy'.file]
           /\ Mentions(copy'.file) /\ \E i \in DOMAIN Dir[q.ns] : copy'.file = Dir[q.ns][i]
           /\ found = Nothing => branch' = branch /\ pc = "branch"
  <1>1. q \in Quotas /\ Dir[q.ns] \in Seq(Files)
    BY RepositoryAssumption DEF ProviderInv, CallOK, ReadFile
  <1>2. branch' \in DOMAIN branches /\ (found = Nothing => branch' = branch /\ pc = "branch")
    <2>1. CASE pc = "branch" /\ UNCHANGED branch
      BY <2>1 DEF ProviderInv, CallOK
    <2>2. CASE pc = "found" /\ found.dir = "grow" /\ branch' = prs[found.id].branch
      <3>1. found # Nothing
        BY <2>2, NothingFacts
      <3>2. found.id \in DOMAIN prs
        BY <3>1 DEF ProviderInv, CallOK, ResultOK
      <3> QED BY <2>2, <3>1, <3>2 DEF ProviderInv, WorldOK, Readable
    <2> QED BY <2>1, <2>2 DEF ReadFile
  <1> DEFINE matching == {i \in findQuotaFile : Dir[q.ns][i] \notin unread}
             k == Min(matching)
  <1>3. k \in matching
    <2>1. matching \in SUBSET Nat /\ matching # {}
      BY <1>1, SeqFacts DEF findQuotaFile, ReadFile
    <2>2. \E x \in matching : \A y \in matching \ {x} : x < y
      BY <2>1, LeastOf
    <2>3. \E x \in matching : \A y \in matching : x =< y
      BY <2>1, <2>2
    <2> QED BY <2>3 DEF Min
  <1>4. copy' = [file |-> Dir[q.ns][k], content |-> branches[branch'].files[Dir[q.ns][k]]]
    BY DEF ReadFile
  <1>5. k \in DOMAIN Dir[q.ns] /\ Mentions(Dir[q.ns][k])
    BY <1>3 DEF findQuotaFile
  <1> HIDE DEF k, matching
  <1>6. Dir[q.ns][k] \in Files
    BY <1>1, <1>5, SeqFacts
  <1> QED BY <1>1, <1>2, <1>4, <1>5, <1>6

LEMMA ReadCall ==
    ASSUME ProviderInv, NEW unread \in SUBSET Files, ReadFile(unread)
    PROVE  CallOK'
  <1>1. pc' = "commit" /\ UNCHANGED <<branches, prs, q, page, legacy, found, steady, known, order>>
    BY DEF ReadFile, world, search
  <1>2. ResultOK(legacy)' /\ ResultOK(found)'
    BY <1>1 DEF ProviderInv, CallOK, ResultOK
  <1>3. /\ branch' \in DOMAIN branches /\ q \in Quotas
        /\ copy'.file \in Files /\ copy'.content \in Content(copy'.file)
    BY ReadFacts, FileFacts DEF ProviderInv
  <1>4. found = Nothing => branches[branch'].name.words = <<>>
    BY ReadFacts DEF ProviderInv, CallOK
  <1> QED BY <1>1, <1>2, <1>3, <1>4 DEF ProviderInv, CallOK

LEMMA CommitCall ==
    ASSUME ProviderInv, Grows, NEW t \in Targets, UpdateFile(t)
    PROVE  CallOK'
  <1>1. CASE Return
    BY <1>1, ReturnCall
  <1>2. CASE found = Nothing /\ pc' = "open" /\ UNCHANGED <<q, search, edit>>
    <2>1. pc = "commit" /\ prs' = prs
      BY DEF UpdateFile
    <2>2. branch \in DOMAIN branches /\ branches[branch].name.words = <<>> /\ q \in Quotas
      BY <1>2, <2>1 DEF ProviderInv, CallOK
    <2>3. branch' \in DOMAIN branches' /\ branches'[branch'].name.words = <<>>
      BY <1>2, <2>2 DEF Grows, edit
    <2>4. ResultOK(legacy)' /\ ResultOK(found)'
      BY <1>2, <2>1 DEF ProviderInv, CallOK, ResultOK, search
    <2> QED BY <1>2, <2>1, <2>2, <2>3, <2>4 DEF ProviderInv, CallOK, search
  <1> QED BY <1>1, <1>2 DEF UpdateFile, Committed

LEMMA CreateCall ==
    ASSUME ProviderInv, Grows, Create
    PROVE  CallOK'
  <1> DEFINE n == Len(prs) + 1
             dir == branches[branch].name.dir
  <1>1. /\ branch \in DOMAIN branches /\ q \in Quotas
        /\ UNCHANGED <<branches, q, page, legacy, steady, known, order, branch>>
        /\ pc' = "label" /\ prs' = Append(prs, PR(branch, dir, <<>>))
    BY DEF ProviderInv, CallOK, Create, edit
  <1>2. found' = [id |-> n, dir |-> dir]
    BY DEF Create
  <1>3. dir \in Dirs /\ branch \in Nat
    <2>1. branches \in Seq(Branch)
      BY DEF ProviderInv, WorldOK
    <2>2. branches[branch] \in Branch /\ branch \in Nat
      BY <1>1, <2>1, SeqFacts
    <2> QED BY <2>2 DEF Branch, Name
  <1>4. n \in Nat \ {0} /\ n \in DOMAIN prs' /\ prs'[n].dir = dir
    <2> DEFINE e == PR(branch, dir, <<>>)
    <2>1. e \in PullRequest /\ e.dir = dir
      <3>1. <<>> \in Seq(Dirs)
        BY EmptySeq
      <3> QED BY <1>3, <3>1 DEF PR, PullRequest
    <2> HIDE DEF e
    <2>2. prs \in Seq(PullRequest) /\ prs' = Append(prs, e)
      BY <1>1 DEF ProviderInv, WorldOK, e
    <2>3. n \in DOMAIN prs' /\ prs'[n] = e
      BY <2>1, <2>2, AppendFacts
    <2>4. Len(prs) \in Nat
      BY <2>2, SeqFacts
    <2> QED BY <2>1, <2>3, <2>4
  <1> HIDE DEF n, dir
  <1>5. found' \in Result /\ found'.id = n /\ found'.dir = dir
    BY <1>2, <1>3, <1>4 DEF Result
  <1>6. found' # Nothing
    BY <1>4, <1>5, NothingFacts
  <1>7. ResultOK(found)'
    BY <1>4, <1>5 DEF ResultOK
  <1>8. ResultOK(legacy)'
    BY <1>1 DEF ProviderInv, CallOK, ResultOK, Grows
  <1>9. known' \in SUBSET DOMAIN prs'
    BY <1>1 DEF ProviderInv, CallOK, Grows
  <1> QED BY <1>1, <1>5, <1>6, <1>7, <1>8, <1>9 DEF ProviderInv, CallOK

LEMMA CallStep ==
    ASSUME ProviderInv, Grows, [Next]_vars
    PROVE  CallOK'
  <1>1. CASE Return
    BY <1>1, ReturnCall
  <1>2. CASE UNCHANGED <<pc, q, search, edit>>
    BY <1>2, CallKept DEF search, ProviderInv, CallOK
  <1>3. ASSUME NEW n \in DOMAIN prs, EndByHuman(n) PROVE CallOK'
    <2>1. steady' \in BOOLEAN
      BY <1>3 DEF EndByHuman
    <2> QED BY <1>3, <2>1, CallKept DEF EndByHuman
  <1>4. CASE \/ UpdateFileConflict \/ Label \/ MergePR \/ ClosePR \/ Done \/ Interrupted
    BY <1>1, <1>4 DEF UpdateFileConflict, Label, MergePR, ClosePR, Done, Interrupted
  <1>5. CASE \/ UNCHANGED vars
             \/ \E b \in DOMAIN branches, f \in Files : PushNote(b, f)
             \/ \E n \in DOMAIN prs, dir \in {"grow", "shrink"} : AddLabel(n, dir)
             \/ OpenOther \/ \E n \in DOMAIN prs : Reopen(n)
    BY <1>2, <1>5 DEF vars, PushNote, AddLabel, OpenOther, Reopen
  <1> QED BY <1>3, <1>4, <1>5, BeginCall, ListCall, CreateRefCall, ReadCall, CommitCall, CreateCall
          DEF Next

LEMMA ProviderInductive == ProviderInv /\ [Next]_vars => ProviderInv'
  BY WorldStep, CallStep DEF ProviderInv

LEMMA NameOf ==
    ASSUME NEW d \in Dirs, NEW p \in Quotas, NEW w \in Words, NEW m,
           m = [dir |-> d, quota |-> p, words |-> w]
    PROVE  m \in Name /\ m.words = w
  BY DEF Name

LEMMA ProviderInit == Init => ProviderInv
  <1> SUFFICES ASSUME Init PROVE ProviderInv
    OBVIOUS
  <1>1. Before \in Seq([quota : Quotas, dir : {"grow", "shrink"}, labels : Seq({"grow", "shrink"})])
    BY BeforeAssumption
  <1>2. /\ Len(Before) \in Nat /\ DOMAIN Before = 1 .. Len(Before)
        /\ \A i \in DOMAIN Before :
             Before[i] \in [quota : Quotas, dir : {"grow", "shrink"}, labels : Seq({"grow", "shrink"})]
    BY <1>1, SeqFacts
  <1>3. main \in Tree /\ \A f \in Files : main[f].notes = 0
    BY FreshTree, FreshOK DEF Init
  <1>4. ASSUME NEW p \in Quotas PROVE Legacy(p) \in Name /\ Legacy(p).words # <<>>
    <2> DEFINE S == STRING \cup {"docs", "1700000000"}
               a == p.ns \o p.name
               z == <<"1700000000">>
    <2>1. p.ns \in Seq(S) /\ p.name \in Seq(S)
      <3>1. p.ns \in Seq(STRING) /\ p.name \in Seq(STRING)
        BY RepositoryAssumption
      <3> QED BY <3>1, SeqMonotonic
    <2>2. a \in Seq(S)
      BY <2>1, ConcatProperties
    <2>3. z \in Seq(S) /\ z # <<>>
      BY OneElement
    <2> HIDE DEF S, z, a
    <2>4. a \o z \in Seq(S) /\ a \o z # <<>>
      BY <2>2, <2>3, ConcatProperties, EmptySeq, LenProperties
    <2>5. Legacy(p) = [dir |-> "", quota |-> p, words |-> a \o z]
      BY DEF Legacy, a, z
    <2> DEFINE w == a \o z
               d == ""
    <2>6. w \in Words
      BY <2>4 DEF Words, S
    <2>7. d \in Dirs
      BY DEF Dirs
    <2>8. Legacy(p) = [dir |-> d, quota |-> p, words |-> w]
      BY <2>5
    <2> HIDE DEF w, d
    <2>9. Legacy(p) \in Name /\ Legacy(p).words = w
      BY <2>6, <2>7, <2>8, NameOf
    <2> QED BY <2>4, <2>9 DEF w
  <1>5. /\ branches \in Seq(Branch) /\ DOMAIN branches = DOMAIN Before
        /\ \A i \in DOMAIN Before : /\ branches[i].name.words # <<>>
                                     /\ branches[i].files = main
    <2>1. ASSUME NEW i \in DOMAIN Before
          PROVE  [name |-> Legacy(Before[i].quota), files |-> main, forked |-> main] \in Branch
      BY <1>2, <1>3, <1>4 DEF Branch
    <2>2. branches = [i \in 1 .. Len(Before) |->
                        [name |-> Legacy(Before[i].quota), files |-> main, forked |-> main]]
      BY <1>2 DEF Init
    <2>3. branches \in Seq(Branch) /\ DOMAIN branches = DOMAIN Before
      BY <1>2, <2>1, <2>2, IsASeq
    <2> QED BY <1>2, <1>4, <2>2, <2>3
  <1>6. /\ prs \in Seq(PullRequest) /\ DOMAIN prs = DOMAIN Before
        /\ \A i \in DOMAIN Before : /\ prs[i].branch = i /\ prs[i].dir = Before[i].dir
                                     /\ prs[i].labels = Before[i].labels
    <2>1. ASSUME NEW i \in DOMAIN Before
          PROVE  PR(i, Before[i].dir, Before[i].labels) \in PullRequest
      <3> DEFINE L == {"grow", "shrink"}
      <3>4. L \subseteq Dirs
        BY DEF Dirs
      <3>2. i \in Nat /\ Before[i].labels \in Seq(L) /\ Before[i].dir \in L
        BY <1>2
      <3>1. L \subseteq Dirs /\ Before[i].dir \in Dirs /\ i \in Nat
        BY <3>2, <3>4
      <3> HIDE DEF L
      <3>3. Before[i].labels \in Seq(Dirs)
        BY <3>1, <3>2, SeqMonotonic
      <3> QED BY <3>1, <3>3 DEF PR, PullRequest
    <2>2. prs = [i \in 1 .. Len(Before) |-> PR(i, Before[i].dir, Before[i].labels)]
      BY <1>2 DEF Init
    <2>3. prs \in Seq(PullRequest) /\ DOMAIN prs = DOMAIN Before
      BY <1>2, <2>1, <2>2, IsASeq
    <2> QED BY <1>2, <2>2, <2>3 DEF PR
  <1>7. \A n \in DOMAIN prs : Readable(n)
    BY <1>2, <1>5, <1>6, BeforeAssumption DEF Readable, Ref
  <1>8. acts = 0 /\ faults = 0 /\ acts \in 0 .. MaxActs /\ faults \in 0 .. MaxFaults
    BY ProviderAssumption DEF Init
  <1>9. WorldOK
    BY <1>3, <1>5, <1>6, <1>7, <1>8 DEF WorldOK
  <1>10. CallOK
    <2>1. steady \in BOOLEAN
      BY Zenon DEF Init
    <2>2. ResultOK(legacy) /\ ResultOK(found) /\ legacy \in Result /\ found \in Result
      BY NothingFacts DEF Init
    <2>3. pc = "idle" /\ page = 1 /\ order = "newest" /\ known = {}
      BY DEF Init
    <2> QED BY <2>1, <2>2, <2>3 DEF CallOK
  <1> QED BY <1>9, <1>10 DEF ProviderInv

-----------------------------------------------------------------------------
\* Every variable keeps its type, and a branch is written only by a call that
\* has made or found it, whatever people do to the repository meanwhile.
THEOREM ProviderTypeCorrect == Spec => []TypeOK
  <1>1. ProviderInv => TypeOK
    <2> SUFFICES ASSUME ProviderInv PROVE TypeOK
      OBVIOUS
    <2>1. \A f \in Files : DOMAIN main[f].limits = Docs[f] /\ main[f].notes \in 0 .. MaxActs
      <3> SUFFICES ASSUME NEW f \in Files
                   PROVE  DOMAIN main[f].limits = Docs[f] /\ main[f].notes \in 0 .. MaxActs
        OBVIOUS
      <3>1. main[f] \in Content(f) /\ main[f].notes \in Nat /\ acts \in Nat
        BY FileFacts DEF ProviderInv
      <3>2. main[f].notes <= acts /\ acts \in 0 .. MaxActs
        BY DEF ProviderInv, WorldOK
      <3> QED BY <3>1, <3>2, ProviderAssumption DEF Content
    <2>2. \A n \in DOMAIN prs : /\ prs[n].branch \in DOMAIN branches
                                /\ prs[n].dir \in {"grow", "shrink", ""}
                                /\ prs[n].state \in {"open", "merged", "closed"}
      <3> SUFFICES ASSUME NEW n \in DOMAIN prs
                   PROVE  /\ prs[n].branch \in DOMAIN branches
                          /\ prs[n].dir \in {"grow", "shrink", ""}
                          /\ prs[n].state \in {"open", "merged", "closed"}
        OBVIOUS
      <3>1. prs \in Seq(PullRequest) /\ Readable(n)
        BY DEF ProviderInv, WorldOK
      <3>2. prs[n] \in PullRequest
        BY <3>1, SeqFacts
      <3> QED BY <3>1, <3>2 DEF Readable, PullRequest, Dirs
    <2>3. found.id \in DOMAIN prs \cup {0} /\ legacy.id \in DOMAIN prs \cup {0}
      BY NothingFacts DEF ProviderInv, CallOK, ResultOK
    <2> QED BY <2>1, <2>2, <2>3 DEF ProviderInv, WorldOK, CallOK, TypeOK
  <1> QED BY <1>1, ProviderInit, ProviderInductive, PTL DEF Spec

\* A pull request that lowers limits is never found as a grow: its direction is
\* read off its own branch name, or off labels to which people can only add.
THEOREM ShrinkNeverTakenForGrow == Spec => []NeverTakenForGrow
  <1>1. ProviderInv => NeverTakenForGrow
    BY NothingFacts DEF ProviderInv, CallOK, ResultOK, NeverTakenForGrow
  <1> QED BY <1>1, ProviderInit, ProviderInductive, PTL DEF Spec

-----------------------------------------------------------------------------
(* What is written *)

\* A commit puts the limits into the copy that was read, which is what the
\* branch still holds.
LEMMA CommitFacts ==
    ASSUME ProviderInv, NEW t \in Targets, UpdateFile(t)
    PROVE  /\ branch \in DOMAIN branches /\ copy.file \in Files /\ q \in Quotas
           /\ DOMAIN branches' = DOMAIN branches
           /\ branches'[branch].files[copy.file].notes = branches[branch].files[copy.file].notes
           /\ \A p \in Docs[copy.file] : branches'[branch].files[copy.file].limits[p].for = q
           /\ \A i \in DOMAIN branches, g \in Files :
                 i # branch \/ g # copy.file => branches'[i].files[g] = branches[i].files[g]
  <1> DEFINE c == applyChangesToYaml(copy.content, t)
  <1>1. /\ branch \in DOMAIN branches /\ copy.file \in Files /\ q \in Quotas
        /\ copy.content \in Content(copy.file) /\ branches \in Seq(Branch)
        /\ copy.content = branches[branch].files[copy.file]
    BY DEF ProviderInv, CallOK, WorldOK, UpdateFile, BlobMatches
  <1>2. /\ c \in Content(copy.file) /\ c.notes = copy.content.notes
        /\ \A p \in Docs[copy.file] : c.limits[p].for = q
    BY <1>1 DEF applyChangesToYaml, Content, Owners
  <1>3. Written(branch, copy.file, c)
    BY DEF UpdateFile, Written
  <1> HIDE DEF c
  <1>4. /\ DOMAIN branches' = DOMAIN branches /\ branches'[branch].files[copy.file] = c
        /\ \A i \in DOMAIN branches, g \in Files :
              i # branch \/ g # copy.file => branches'[i].files[g] = branches[i].files[g]
    BY <1>1, <1>2, <1>3, WriteFacts
  <1> QED BY <1>1, <1>2, <1>4

LEMMA PushFacts ==
    ASSUME ProviderInv, NEW b \in DOMAIN branches, NEW f \in Files, PushNote(b, f)
    PROVE  /\ DOMAIN branches' = DOMAIN branches
           /\ branches[b].files[f].notes \in Nat
           /\ branches'[b].files[f].notes = branches[b].files[f].notes + 1
           /\ branches'[b].files[f].limits = branches[b].files[f].limits
           /\ \A i \in DOMAIN branches, g \in Files :
                 i # b \/ g # f => branches'[i].files[g] = branches[i].files[g]
  <1> DEFINE c == [branches[b].files[f] EXCEPT !.notes = @ + 1]
  <1>1. branches \in Seq(Branch) /\ branches[b].files[f] \in Content(f)
        /\ branches[b].files[f].notes \in Nat
    BY FileFacts DEF ProviderInv, WorldOK
  <1>2. /\ c \in Content(f) /\ c.notes = branches[b].files[f].notes + 1
        /\ c.limits = branches[b].files[f].limits
    BY <1>1 DEF Content
  <1>3. Written(b, f, c)
    BY DEF PushNote, Written
  <1> HIDE DEF c
  <1>4. /\ DOMAIN branches' = DOMAIN branches /\ branches'[b].files[f] = c
        /\ \A i \in DOMAIN branches, g \in Files :
              i # b \/ g # f => branches'[i].files[g] = branches[i].files[g]
    BY <1>1, <1>2, <1>3, WriteFacts
  <1> QED BY <1>1, <1>2, <1>4

\* A branch is added that holds what the default branch holds.
Forked ==
    \E b : /\ DOMAIN branches' = DOMAIN branches \cup {b} /\ branches'[b].files = main
           /\ \A i \in DOMAIN branches : branches'[i] = branches[i]

\* Everything that happens to the branches, and to the default branch.
LEMMA BranchStep ==
    ASSUME ProviderInv, [Next]_vars
    PROVE  /\ \/ branches' = branches \/ Forked
              \/ \E t \in Targets : UpdateFile(t)
              \/ \E b \in DOMAIN branches, f \in Files : PushNote(b, f)
           /\ \A f \in Files : \/ main'[f] = main[f]
                               \/ \E b \in DOMAIN branches : main'[f] = branches[b].files[f]
  <1>1. ASSUME NEW n \in DOMAIN prs, MergeInto(n)
        PROVE  \A f \in Files : \/ main'[f] = main[f]
                                \/ \E b \in DOMAIN branches : main'[f] = branches[b].files[f]
    <2>1. prs[n].branch \in DOMAIN branches
      BY DEF ProviderInv, WorldOK, Readable
    <2> QED BY <1>1, <2>1, MergeFacts DEF ProviderInv
  <1>2. ASSUME NEW dir \in {"grow", "shrink"}, CreateRef(dir) PROVE Forked
    <2>1. BranchName(dir, q) \in Name
      <3>1. q \in Quotas /\ <<>> \in Words
        BY <1>2, EmptySeq DEF Words, ProviderInv, CallOK, CreateRef
      <3> QED BY <3>1 DEF BranchName, Name, Dirs
    <2>2. branches' = Append(branches, [name |-> BranchName(dir, q), files |-> main, forked |-> main])
      BY <1>2 DEF CreateRef
    <2> QED BY <2>1, <2>2, ForkFacts DEF ProviderInv, Forked
  <1>3. ASSUME OpenOther PROVE Forked
    <2> DEFINE name == [dir |-> "", quota |-> NoQuota, words |-> <<"docs">>]
    <2>1. name \in Name
      <3>1. <<"docs">> \in Words
        BY OneElement DEF Words
      <3> QED BY <3>1 DEF Name, Dirs
    <2>2. branches' = Append(branches, [name |-> name, files |-> main, forked |-> main])
      BY <1>3 DEF OpenOther
    <2> HIDE DEF name
    <2> QED BY <2>1, <2>2, ForkFacts DEF ProviderInv, Forked
  <1>4. CASE \/ UNCHANGED vars \/ (\E p \in Quotas : Begin(p)) \/ List
             \/ (\E unread \in SUBSET Files : ReadFile(unread))
             \/ UpdateFileConflict \/ Create \/ Label \/ ClosePR \/ Done \/ Interrupted
             \/ (\E n \in DOMAIN prs, dir \in {"grow", "shrink"} : AddLabel(n, dir))
             \/ (\E n \in DOMAIN prs : Reopen(n))
    <2>1. UNCHANGED <<main, branches>>
      BY <1>4 DEF vars, world, Begin, List, ReadFile, UpdateFileConflict, Create, Label, ClosePR,
                  Done, Interrupted, AddLabel, Reopen
    <2> QED BY <2>1
  <1>5. CASE MergePR
    <2>1. found.id \in DOMAIN prs
      <3>1. found # Nothing
        BY <1>5, NothingFacts DEF MergePR
      <3> QED BY <3>1 DEF ProviderInv, CallOK, ResultOK
    <2> QED BY <1>1, <1>5, <2>1 DEF MergePR
  <1>6. ASSUME NEW n \in DOMAIN prs, EndByHuman(n)
        PROVE  /\ branches' = branches
               /\ \A f \in Files : \/ main'[f] = main[f]
                                   \/ \E b \in DOMAIN branches : main'[f] = branches[b].files[f]
    BY <1>1, <1>6 DEF EndByHuman
  <1>7. CASE \/ (\E dir \in {"grow", "shrink"} : CreateRef(dir)) \/ OpenOther
             \/ (\E t \in Targets : UpdateFile(t))
             \/ (\E b \in DOMAIN branches, f \in Files : PushNote(b, f))
    <2>1. main' = main
      BY <1>7 DEF CreateRef, OpenOther, UpdateFile, PushNote
    <2> QED BY <1>2, <1>3, <1>7, <2>1
  <1> QED BY <1>4, <1>5, <1>6, <1>7 DEF Next

\* Nothing that was pushed to a branch is lost: a commit replaces the very copy
\* it was made from, and what people wrote next to the limits is in that copy.
THEOREM EditsKept == Spec => NoLostEdit
  <1>1. ASSUME ProviderInv, [Next]_vars, NEW b \in DOMAIN branches, NEW f \in Files
        PROVE  branches[b].files[f].notes <= branches'[b].files[f].notes
    <2>1. branches[b].files[f].notes \in Nat
      BY <1>1, FileFacts DEF ProviderInv
    <2>2. CASE branches' = branches \/ Forked
      <3>1. branches'[b] = branches[b]
        BY <2>2 DEF Forked
      <3> QED BY <2>1, <3>1
    <2>3. ASSUME NEW t \in Targets, UpdateFile(t)
          PROVE  branches[b].files[f].notes <= branches'[b].files[f].notes
      BY <1>1, <2>1, <2>3, CommitFacts
    <2>4. ASSUME NEW i \in DOMAIN branches, NEW g \in Files, PushNote(i, g)
          PROVE  branches[b].files[f].notes <= branches'[b].files[f].notes
      <3>1. CASE b = i /\ f = g
        BY <1>1, <2>1, <2>4, <3>1, PushFacts
      <3>2. CASE b # i \/ f # g
        BY <1>1, <2>1, <2>4, <3>2, PushFacts
      <3> QED BY <3>1, <3>2
    <2> QED BY <1>1, <2>2, <2>3, <2>4, BranchStep
  <1>2. ProviderInv /\ [Next]_vars =>
          [\A b \in DOMAIN branches, f \in Files :
             branches[b].files[f].notes <= branches'[b].files[f].notes]_vars
    BY <1>1
  <1> QED BY <1>2, ProviderInit, ProviderInductive, PTL DEF Spec, NoLostEdit

-----------------------------------------------------------------------------
(* Whose limits *)

(***************************************************************************)
(* A file with quotas in which the name of one, or of any other object,    *)
(* begins like that of a quota of its directory holds that quota and no    *)
(* other.  The code does not ask for it, and without it the limits of one  *)
(* quota reach another (MCGitHubShared).                                   *)
(***************************************************************************)
FilesOwn ==
    \A p \in Quotas : \A i \in DOMAIN Dir[p.ns] :
      LET f == Dir[p.ns][i]
      IN  /\ Docs[f] # {}
          /\ \E name \in {r.name : r \in Docs[f]} \cup Objects[f] : IsPrefix(p.name, name)
          => Docs[f] = {p}

OwnContent(f, c) == \A p \in Docs[f] : c.limits[p].for = p

OwnInv ==
    /\ \A f \in Files : OwnContent(f, main[f])
    /\ \A b \in DOMAIN branches, f \in Files : OwnContent(f, branches[b].files[f])
    /\ pc = "commit" => Docs[copy.file] = {q}

LEMMA OwnInvInductive ==
    ASSUME FilesOwn, ProviderInv, OwnInv, [Next]_vars
    PROVE  OwnInv'
  <1>1. \A f \in Files : OwnContent(f, main'[f])
    BY BranchStep DEF OwnInv
  <1>2. \A b \in DOMAIN branches', f \in Files : OwnContent(f, branches'[b].files[f])
    <2>1. CASE branches' = branches \/ Forked
      BY <2>1 DEF OwnInv, Forked
    <2>2. ASSUME NEW t \in Targets, UpdateFile(t)
          PROVE  \A b \in DOMAIN branches', f \in Files : OwnContent(f, branches'[b].files[f])
      <3>1. Docs[copy.file] = {q}
        BY <2>2 DEF OwnInv, UpdateFile
      <3>2. OwnContent(copy.file, branches'[branch].files[copy.file])
        BY <2>2, <3>1, CommitFacts DEF OwnContent
      <3> QED BY <2>2, <3>2, CommitFacts DEF OwnInv
    <2>3. ASSUME NEW i \in DOMAIN branches, NEW g \in Files, PushNote(i, g)
          PROVE  \A b \in DOMAIN branches', f \in Files : OwnContent(f, branches'[b].files[f])
      <3>1. OwnContent(g, branches'[i].files[g])
        BY <2>3, PushFacts DEF OwnInv, OwnContent
      <3> QED BY <2>3, <3>1, PushFacts DEF OwnInv
    <2> QED BY <2>1, <2>2, <2>3, BranchStep
  <1>3. ASSUME pc' = "commit" PROVE Docs[copy'.file] = {q'}
    <2>1. ASSUME NEW unread \in SUBSET Files, ReadFile(unread)
          PROVE  Docs[copy'.file] = {q'}
      <3>1. /\ q \in Quotas /\ Mentions(copy'.file)
            /\ \E i \in DOMAIN Dir[q.ns] : copy'.file = Dir[q.ns][i]
        BY <2>1, ReadFacts
      <3>2. q' = q
        BY <2>1 DEF ReadFile
      <3> QED BY <3>1, <3>2 DEF FilesOwn, Mentions
    <2>2. CASE UNCHANGED <<pc, q, copy>>
      BY <1>3, <2>2 DEF OwnInv
    <2>3. CASE ~ UNCHANGED <<pc, q, copy>>
      <3>1. ~Return
        BY <1>3 DEF Return
      <3> QED BY <1>3, <2>1, <2>3, <3>1
              DEF Next, vars, edit, Begin, List, CreateRef, UpdateFile, Committed, UpdateFileConflict,
                  Create, Label, MergePR, ClosePR, Done, Interrupted, PushNote, AddLabel, OpenOther,
                  EndByHuman, Reopen
    <2> QED BY <2>2, <2>3
  <1> QED BY <1>1, <1>2, <1>3 DEF OwnInv, OwnContent

LEMMA OwnInvInit == Init => OwnInv
  <1> SUFFICES ASSUME Init PROVE OwnInv
    OBVIOUS
  <1>1. ASSUME NEW f \in Files PROVE OwnContent(f, main[f])
    BY DEF Init, Fresh, OwnContent
  <1>2. \A b \in DOMAIN branches : branches[b].files = main
    BY DEF Init
  <1> QED BY <1>1, <1>2 DEF Init, OwnInv

\* With a file per quota the limits of a quota in the default branch were
\* computed for that quota, whatever is merged, by whom and in which order.
THEOREM LimitsReachTheirQuota == FilesOwn => (Spec => []OwnDocument)
  <1> SUFFICES ASSUME FilesOwn PROVE Spec => []OwnDocument
    OBVIOUS
  <1>1. Init => ProviderInv /\ OwnInv
    BY ProviderInit, OwnInvInit
  <1>2. ProviderInv /\ OwnInv /\ [Next]_vars => (ProviderInv /\ OwnInv)'
    BY ProviderInductive, OwnInvInductive
  <1>3. OwnInv => OwnDocument
    BY DEF OwnInv, OwnContent, OwnDocument
  <1> QED BY <1>1, <1>2, <1>3, PTL DEF Spec

-----------------------------------------------------------------------------
(* What a search comes to *)

\* The pages read so far end before n.
Ahead(n) == (page - 1) * PerPage <= Rank(n)

(***************************************************************************)
(* While nothing ends, pull requests only move towards the end of the      *)
(* listing: what was open at the beginning and is this quota's is still    *)
(* ahead of the search, or it has a fallback already.                      *)
(***************************************************************************)
SearchInv ==
    /\ pc = "idle" => page = 1
    /\ pc = "list" /\ steady =>
         \A n \in known : /\ n \in Open /\ (Own(n) => Ahead(n))
                          /\ MatchesLegacy(n) => legacy # Nothing \/ Ahead(n)
    /\ NothingMissed /\ OwnFirst

LEMMA RankFacts ==
    ASSUME WorldOK, NEW n
    PROVE  /\ IsFiniteSet(Open) /\ Cardinality(Open) \in Nat /\ Rank(n) \in Nat
           /\ n \in Open => Rank(n) < Cardinality(Open)
  <1> DEFINE R == {m \in Open : Precedes(m, n)}
  <1>1. Len(prs) \in Nat /\ DOMAIN prs = 1 .. Len(prs)
    BY SeqFacts DEF WorldOK
  <1>2. Open \in SUBSET (1 .. Len(prs))
    BY <1>1 DEF Open
  <1>3. IsFiniteSet(Open) /\ Cardinality(Open) \in Nat
    <2>1. IsFiniteSet(1 .. Len(prs))
      BY <1>1, FS_Interval
    <2> QED BY <1>2, <2>1, FS_Subset, FS_CardinalityType
  <1>4. R \in SUBSET Open
    OBVIOUS
  <1> HIDE DEF R
  <1>5. Rank(n) = Cardinality(R) /\ Rank(n) \in Nat
    <2>1. IsFiniteSet(R)
      BY <1>3, <1>4, FS_Subset
    <2> QED BY <2>1, FS_CardinalityType DEF Rank, R
  <1>6. ASSUME n \in Open PROVE Rank(n) < Cardinality(Open)
    <2>1. n \in Nat
      BY <1>1, <1>2, <1>6
    <2>2. ~Precedes(n, n)
      BY <2>1 DEF Precedes
    <2>3. n \notin R
      BY <2>2 DEF R
    <2>4. Cardinality(R) <= Cardinality(Open) /\ Cardinality(R) # Cardinality(Open)
      BY <1>3, <1>4, <1>6, <2>3, FS_Subset
    <2> QED BY <1>3, <1>5, <2>4
  <1> QED BY <1>3, <1>5, <1>6

\* What is opened or reopened moves nothing forward.
LEMMA RankGrows ==
    ASSUME WorldOK, WorldOK', order' = order, Open \subseteq Open', NEW n
    PROVE  Rank(n) <= Rank(n)' /\ Rank(n) \in Nat /\ Rank(n)' \in Nat
  <1> DEFINE R == {m \in Open : Precedes(m, n)}
             T == {m \in Open' : Precedes(m, n)'}
  <1>1. R \in SUBSET T
    BY DEF Precedes
  <1>2. IsFiniteSet(Open) /\ Rank(n) \in Nat
    BY RankFacts
  <1>3. IsFiniteSet(Open)' /\ Rank(n)' \in Nat
    <2>1. Len(prs') \in Nat /\ DOMAIN prs' = 1 .. Len(prs')
      BY SeqFacts DEF WorldOK
    <2>2. Open' \in SUBSET (1 .. Len(prs'))
      BY <2>1 DEF Open
    <2>3. IsFiniteSet(1 .. Len(prs'))
      BY <2>1, FS_Interval
    <2>4. IsFiniteSet(Open')
      BY <2>2, <2>3, FS_Subset
    <2>5. IsFiniteSet(T)
      <3>1. T \in SUBSET Open'
        OBVIOUS
      <3> QED BY <2>4, <3>1, FS_Subset
    <2>6. Cardinality(T) \in Nat
      BY <2>5, FS_CardinalityType
    <2> QED BY <2>4, <2>6 DEF Rank
  <1>4. IsFiniteSet(T)
    <2>1. T \in SUBSET Open'
      OBVIOUS
    <2> QED BY <1>3, <2>1, FS_Subset
  <1>5. Cardinality(R) <= Cardinality(T)
    <2> HIDE DEF R, T
    <2> QED BY <1>1, <1>4, FS_Subset
  <1> QED BY <1>2, <1>3, <1>5 DEF Rank

\* A pull request stays the one it is for the quota that is looked for.
LEMMA MatchKept ==
    ASSUME WorldOK, Grows, q' = q, NEW n \in DOMAIN prs
    PROVE  Own(n)' = Own(n) /\ MatchesLegacy(n)' = MatchesLegacy(n)
  <1>1. Ref(n)' = Ref(n)
    BY DEF WorldOK, Readable, Grows, Ref
  <1> QED BY <1>1 DEF Own, MatchesLegacy

LEMMA PageFacts ==
    ASSUME ProviderInv
    PROVE  /\ (page - 1) * PerPage \in Nat /\ page * PerPage \in Nat
           /\ page = 1 => (page - 1) * PerPage = 0
  <1>1. \A k \in Nat \ {0} : k - 1 \in Nat
    OBVIOUS
  <1>2. \A j, k \in Nat : j * k \in Nat
    OBVIOUS
  <1>3. \A k \in Nat : 0 * k = 0
    OBVIOUS
  <1>4. page \in Nat \ {0} /\ PerPage \in Nat
    BY ProviderAssumption DEF ProviderInv, CallOK
  <1>5. page = 1 => page - 1 = 0
    OBVIOUS
  <1> QED BY <1>1, <1>2, <1>3, <1>4, <1>5

LEMMA BeginSearch ==
    ASSUME ProviderInv, SearchInv, NEW p \in Quotas, Begin(p), WorldOK'
    PROVE  SearchInv'
  <1>1. pc' = "list" /\ page' = 1 /\ known' = Open /\ UNCHANGED world
    BY DEF Begin, SearchInv
  <1>2. Open' = Open
    BY <1>1 DEF Open, world
  <1>3. \A n : Ahead(n)'
    <2> SUFFICES ASSUME NEW n PROVE Ahead(n)'
      OBVIOUS
    <2>1. Rank(n)' \in Nat
      <3>1. /\ IsFiniteSet(Open)
        BY RankFacts DEF ProviderInv
      <3> DEFINE T == {m \in Open' : Precedes(m, n)'}
      <3>2. T \in SUBSET Open
        BY <1>2
      <3>3. Cardinality(T) \in Nat
        <4> HIDE DEF T
        <4> QED BY <3>1, <3>2, FS_Subset, FS_CardinalityType
      <3> QED BY <3>3 DEF Rank
    <2>2. (page' - 1) * PerPage = 0
      <3>1. \A k \in Nat : 0 * k = 0
        OBVIOUS
      <3>2. page' - 1 = 0
        BY <1>1
      <3> QED BY <3>1, <3>2, ProviderAssumption
    <2> QED BY <2>1, <2>2 DEF Ahead
  <1> QED BY <1>1, <1>2, <1>3 DEF SearchInv, NothingMissed, OwnFirst

\* What is known and not on this page is on a later one.
LEMMA ListSearch ==
    ASSUME ProviderInv, SearchInv, List
    PROVE  SearchInv'
  <1> DEFINE listed == Listing(page)
             lo == (page - 1) * PerPage
             hi == page * PerPage
  <1>1. /\ pc = "list" /\ listed \in SUBSET DOMAIN prs /\ q' = q
        /\ UNCHANGED <<world, steady, known, order>>
        /\ legacy' = Fallback(listed)
    BY DEF List, Listing, Open
  <1>2. /\ Pick(listed) = Nothing => \A n \in listed : ~Own(n)
        /\ Pick(listed) # Nothing => Own(Pick(listed).id)
    BY <1>1, PickFacts
  <1>3. Fallback(listed) = Nothing => legacy = Nothing /\ \A n \in listed : ~MatchesLegacy(n)
    BY <1>1, FallbackFacts
  <1>4. \/ Pick(listed) # Nothing /\ found' = Pick(listed) /\ pc' = "found"
        \/ Pick(listed) = Nothing /\ More(page) /\ page' = page + 1 /\ pc' = "list"
        \/ Pick(listed) = Nothing /\ ~More(page) /\ found' = legacy' /\ pc' = "found"
    BY <1>1 DEF List
  <1>5. \A n : /\ Own(n)' = Own(n) /\ MatchesLegacy(n)' = MatchesLegacy(n)
               /\ Rank(n)' = Rank(n) /\ (n \in Open)' = (n \in Open)
    BY <1>1 DEF world, Own, MatchesLegacy, Ref, Rank, Open, Precedes
  <1>6. lo \in Nat /\ hi \in Nat
    BY PageFacts
  <1>7. ASSUME NEW n \in Open, lo <= Rank(n), n \notin listed
        PROVE  hi <= Rank(n) /\ More(page)
    <2>1. Rank(n) \in Nat /\ Cardinality(Open) \in Nat /\ Rank(n) < Cardinality(Open)
      BY RankFacts DEF ProviderInv
    <2>2. ~(Rank(n) < hi)
      BY <1>7 DEF Listing
    <2> HIDE DEF hi
    <2>3. hi <= Rank(n) /\ Cardinality(Open) > hi
      BY <1>6, <2>1, <2>2
    <2> QED BY <2>3 DEF More, HasNextPage, hi
  <1>8. ASSUME steady, NEW n \in known, Own(n), Pick(listed) = Nothing
        PROVE  n \in Open /\ hi <= Rank(n) /\ More(page)
    <2>1. n \in Open /\ lo <= Rank(n) /\ n \notin listed
      BY <1>1, <1>2, <1>8 DEF SearchInv, Ahead
    <2> QED BY <1>7, <2>1
  <1>9. ASSUME steady, NEW n \in known, MatchesLegacy(n), legacy' = Nothing
        PROVE  n \in Open /\ hi <= Rank(n) /\ More(page)
    <2>1. n \in Open /\ lo <= Rank(n) /\ n \notin listed
      BY <1>1, <1>3, <1>9 DEF SearchInv, Ahead
    <2> QED BY <1>7, <2>1
  <1> HIDE DEF listed, lo
  <1>10. CASE Pick(listed) # Nothing /\ found' = Pick(listed) /\ pc' = "found"
    <2>1. found' # Nothing /\ Own(found'.id)
      BY <1>2, <1>10
    <2>2. Own(found.id)'
      BY <1>1, <2>1 DEF world, Own, Ref
    <2> QED BY <1>10, <2>1, <2>2 DEF SearchInv, NothingMissed, OwnFirst
  <1>11. CASE Pick(listed) = Nothing /\ More(page) /\ page' = page + 1 /\ pc' = "list"
    <2>1. (page' - 1) * PerPage = hi
      <3>1. page' - 1 = page
        BY <1>11 DEF ProviderInv, CallOK
      <3> QED BY <3>1
    <2>2. \A n : Ahead(n)' = (hi <= Rank(n))
      BY <1>5, <2>1 DEF Ahead
    <2>3. ASSUME steady', NEW n \in known'
          PROVE  /\ n \in Open' /\ (Own(n)' => Ahead(n)')
                 /\ MatchesLegacy(n)' => legacy' # Nothing \/ Ahead(n)'
      BY <1>1, <1>5, <1>8, <1>9, <1>11, <2>2, <2>3 DEF SearchInv
    <2> QED BY <1>11, <2>3 DEF SearchInv, NothingMissed, OwnFirst
  <1>12. CASE Pick(listed) = Nothing /\ ~More(page) /\ found' = legacy' /\ pc' = "found"
    <2>1. steady' => \A n \in known' : ~Own(n)'
      BY <1>1, <1>5, <1>8, <1>12
    <2>2. steady' /\ found' = Nothing => \A n \in known' : ~MatchesLegacy(n)'
      BY <1>1, <1>5, <1>9, <1>12
    <2> QED BY <1>12, <2>1, <2>2 DEF SearchInv, NothingMissed, OwnFirst, Mine
  <1> QED BY <1>4, <1>10, <1>11, <1>12

\* What people do does not disturb the search, unless they end a pull request.
LEMMA PeopleSearch ==
    ASSUME ProviderInv, SearchInv, WorldOK', Grows,
           UNCHANGED <<pc, q, page, legacy, found, known, order>>,
           pc = "idle" \/ ~steady' \/ (Open \subseteq Open' /\ steady' = steady)
    PROVE  SearchInv'
  <1>1. known \subseteq DOMAIN prs /\ (found # Nothing => found.id \in DOMAIN prs)
    BY DEF ProviderInv, CallOK, ResultOK
  <1>2. \A n \in DOMAIN prs : Own(n)' = Own(n) /\ MatchesLegacy(n)' = MatchesLegacy(n)
    BY MatchKept DEF ProviderInv
  <1>3. CASE pc = "idle" \/ ~steady'
    BY <1>3 DEF SearchInv, NothingMissed, OwnFirst
  <1>4. CASE Open \subseteq Open' /\ steady' = steady
    <2>1. ASSUME NEW n, Ahead(n) PROVE Ahead(n)'
      <3> DEFINE lo == (page - 1) * PerPage
      <3>1. lo <= Rank(n) /\ lo \in Nat
        BY <2>1, PageFacts DEF Ahead
      <3>2. Rank(n) <= Rank(n)' /\ Rank(n) \in Nat /\ Rank(n)' \in Nat
        BY <1>4, RankGrows DEF ProviderInv
      <3> HIDE DEF lo
      <3>3. lo <= Rank(n)'
        BY <3>1, <3>2
      <3> QED BY <3>3 DEF Ahead, lo
    <2>2. ASSUME pc = "list", steady, NEW n \in known
          PROVE  /\ n \in Open' /\ (Own(n)' => Ahead(n)')
                 /\ MatchesLegacy(n)' => legacy' # Nothing \/ Ahead(n)'
      BY <1>1, <1>2, <1>4, <2>1, <2>2 DEF SearchInv
    <2>3. NothingMissed'
      BY <1>1, <1>2, <1>4 DEF SearchInv, NothingMissed, Mine
    <2>4. OwnFirst'
      <3>1. found # Nothing => Own(found.id)' = Own(found.id)
        BY <1>1, <1>2 DEF Own, Ref
      <3> QED BY <1>1, <1>2, <1>4, <3>1 DEF SearchInv, OwnFirst
    <2> QED BY <1>4, <2>2, <2>3, <2>4 DEF SearchInv
  <1> QED BY <1>3, <1>4

LEMMA OpenKept ==
    ASSUME ProviderInv,
           \/ UNCHANGED vars \/ OpenOther
           \/ \E b \in DOMAIN branches, f \in Files : PushNote(b, f)
           \/ \E n \in DOMAIN prs, dir \in {"grow", "shrink"} : AddLabel(n, dir)
           \/ \E n \in DOMAIN prs : Reopen(n)
    PROVE  Open \subseteq Open' /\ UNCHANGED <<pc, q, search>>
  <1>1. UNCHANGED <<pc, q, search>>
    BY DEF vars, OpenOther, PushNote, AddLabel, Reopen, search
  <1>2. prs \in Seq(PullRequest)
    BY DEF ProviderInv, WorldOK
  <1>3. CASE prs' = prs
    BY <1>1, <1>3 DEF Open
  <1>4. CASE OpenOther
    <2> DEFINE e == PR(Len(branches) + 1, "", <<>>)
    <2>1. prs' = Append(prs, e)
      BY <1>4 DEF OpenOther
    <2>2. e \in PullRequest
      <3> DEFINE b == Len(branches) + 1
                 d == ""
      <3>1. b \in Nat
        BY SeqFacts DEF ProviderInv, WorldOK
      <3>2. <<>> \in Seq(Dirs) /\ d \in Dirs
        BY EmptySeq DEF Dirs
      <3> HIDE DEF b
      <3> QED BY <3>1, <3>2 DEF PR, PullRequest, b
    <2> HIDE DEF e
    <2>3. PICK k : /\ prs' \in Seq(PullRequest) /\ DOMAIN prs' = DOMAIN prs \cup {k}
                   /\ prs'[k] = e /\ \A i \in DOMAIN prs : prs'[i] = prs[i]
      BY <1>2, <2>1, <2>2, AppendFacts
    <2> QED BY <1>1, <2>3 DEF Open
  <1>5. ASSUME NEW n \in DOMAIN prs, NEW dir \in {"grow", "shrink"}, AddLabel(n, dir)
        PROVE  Open \subseteq Open'
    <2> DEFINE ls == <<dir>> \o prs[n].labels
               e == [prs[n] EXCEPT !.labels = ls]
    <2>1. prs' = [prs EXCEPT ![n] = e]
      BY <1>5 DEF AddLabel
    <2>2. e.state = prs[n].state
      <3>1. prs[n] \in PullRequest
        BY <1>2, SeqFacts
      <3> HIDE DEF ls
      <3> QED BY <3>1 DEF PullRequest
    <2> HIDE DEF e
    <2> QED BY <2>1, <2>2 DEF Open
  <1>6. ASSUME NEW n \in DOMAIN prs, Reopen(n) PROVE Open \subseteq Open'
    <2>1. prs' = [prs EXCEPT ![n].state = "open"]
      BY <1>6 DEF Reopen
    <2>2. DOMAIN prs' = DOMAIN prs /\ \A i \in DOMAIN prs : prs'[i].state \in {prs[i].state, "open"}
      BY <1>2, <2>1, StateFacts
    <2> QED BY <2>2 DEF Open
  <1> QED BY <1>1, <1>3, <1>4, <1>5, <1>6 DEF vars, world, PushNote

LEMMA SearchInvInductive ==
    ASSUME ProviderInv, SearchInv, [Next]_vars
    PROVE  SearchInv'
  <1>1. WorldOK' /\ Grows
    BY WorldStep
  <1>2. CASE \/ UNCHANGED vars \/ OpenOther
             \/ \E b \in DOMAIN branches, f \in Files : PushNote(b, f)
             \/ \E n \in DOMAIN prs, dir \in {"grow", "shrink"} : AddLabel(n, dir)
             \/ \E n \in DOMAIN prs : Reopen(n)
    BY <1>1, <1>2, OpenKept, PeopleSearch DEF search
  <1>3. ASSUME NEW n \in DOMAIN prs, EndByHuman(n) PROVE SearchInv'
    <2>1. UNCHANGED <<pc, q, page, legacy, found, known, order>> /\ (steady' => pc = "idle")
      BY <1>3 DEF EndByHuman
    <2> QED BY <1>1, <2>1, PeopleSearch
  <1>4. CASE pc' = "idle" /\ page' = 1
    BY <1>4 DEF SearchInv, NothingMissed, OwnFirst
  <1>5. CASE pc' \in {"branch", "commit", "open", "label"}
    BY <1>5 DEF SearchInv, NothingMissed, OwnFirst
  <1> QED BY <1>1, <1>2, <1>3, <1>4, <1>5, BeginSearch, ListSearch
          DEF Next, CreateRef, ReadFile, UpdateFile, Committed, UpdateFileConflict, Create, Label,
              MergePR, ClosePR, Done, Interrupted, Return

LEMMA SearchAlways == Spec => [](ProviderInv /\ SearchInv)
  <1>1. Init => SearchInv
    BY DEF Init, SearchInv, NothingMissed, OwnFirst
  <1> QED BY <1>1, ProviderInit, ProviderInductive, SearchInvInductive, PTL DEF Spec

\* Over any number of pages, whatever is opened, reopened, labelled or pushed
\* meanwhile, a search that finds nothing has missed no open pull request of
\* its quota, as long as none ends between two pages.
THEOREM SearchMissesNothing == Spec => []NothingMissed
  BY SearchAlways, PTL DEF SearchInv

\* A quota that has a pull request in the current shape adopts that one, on
\* whichever page an older one is listed.
THEOREM OwnAdoptedFirst == Spec => []OwnFirst
  BY SearchAlways, PTL DEF SearchInv
=============================================================================
