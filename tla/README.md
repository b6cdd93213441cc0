# A TLA+ model of namespace-resizer

namespace-resizer watches the ResourceQuotas of a cluster and proposes changes
to their limits as GitHub pull requests. This directory models the parts of the
controller whose correctness depends on order, failure and time, checks them
with TLC on small instances, and proves with TLAPS, for instances of any size, every
safety property that holds.

Paths below are relative to `internal/`.

## 1. The system

| Component | State it keeps | Operations |
|---|---|---|
| Reconciler (`controller/resourcequota_controller.go`) | none between reconciles | `Reconcile`, `handleActivePR`, `handleNewProposal`, `shrinkPRShouldClose`, `collectDeficits` |
| State Lease (`lock/state.go`, `lock/lease.go`) | one Lease per quota: pull request held (`PRID`), its direction, stamps `LastModified`, `LastGrow`, `LastShrink`, the window | `GetState` (from the informer cache), `MutateState` (read, closure, update, retried on conflict), `ensureLeaseExists` |
| Lease garbage collector (`lock/gc.go`) | none | `Start` (a ticker), `cleanup`: list, Get of the namespace, Delete |
| GitHub provider (`git/github.go`) | GitHub: branches, files, pull requests, labels | `FindOpenPR`, `CreatePR`, `UpdatePR`, `MergePR`, `ClosePR`, `GetPRStatus`, `findQuotaFile`, `applyChangesToYaml` |
| Sizing decision (`sizing/decide.go`, `quantity.go`) | none | `Decide`, `targetFor`, `shrinkGates`, `Quantize` |
| Observation window (`sizing/window.go`) | daily buckets: first and last sample, longest gap, peaks | `Observe`, `Peak`, `IsComplete`, `prune`, `DecodeWindow` |
| Observer (`controller/observation.go`) | write-behind cache of windows | `Observe`, `Forget`, `heartbeatElapsed` |
| Policy (`sizing/policy.go`) | the base policy, shared by all calls | `ParsePolicy` and its helpers, `HeadroomFor`, `MinFor` |
| Event deficits (`sizing/deficit.go`, `controller/resourcequota_utils.go`) | none | `ParseEventMessage`, `WorkloadKey`, `PodRequests`, `PVCRequests`, `calculateWorkloadDeficit`, `mapEventToQuota` |
| Log-only providers, metrics, `cmd/main.go` | counters, gauges, flags | – |

**How they interact.** One worker reconciles one quota at a time
(`MaxConcurrentReconciles` is not set), and the collector is a second goroutine
of the same process. A reconcile parses the policy from the namespace's
annotations, folds the present usage into the window (Observer, which may write
the Lease), reads the Lease through the informer cache, scans events, calls
`Decide`, and then either looks after the pull request the Lease names or makes
a new proposal. Each of these calls is a separate round trip to the API server
or to GitHub; between any two of them people merge, close, push and label,
workloads are scaled, namespaces come and go, caches lag, calls fail with or
without effect, and the process can die. What a merged pull request changed
comes back through Git, the GitOps tool and the quota's status as the input of a
later decision.

The models have one process. `cmd/main.go:79` leaves leader election off unless
a flag switches it on; two processes side by side, as in a rolling update
without it, are outside of what is claimed here (see the end of section 3).

**What is hard.** The Lease and GitHub are two stores updated one after the
other, without a transaction; the controller reads its own writes late; closures
run on a newer state than the decision they carry out; orphaned pull requests
have to be found again, page by page, in a repository people work in; cooldowns
have to survive all of this; the sizing loop must neither oscillate nor go below
usage with rounding, step caps and stale pull requests in between; refused Pods
retry and leave events that are counted by every scan; a day of observation must
not look complete when it was not; and annotations arrive in random order.
PROJECT.json lists these hazards at their lines.

**What makes it correct**, per component:

* life cycle: one open pull request per quota, no shrink merged by the
  controller, cooldowns kept, locks that name the right pull request and are
  released, shortages that win over shrinks, shrinks that expire;
* collector: Leases of deleted namespaces go away, and losing a Lease at any
  moment leaves one open pull request per quota, no shrink merged by the
  controller and locks that name the right pull request. The cooldowns are lost
  with the stamps on the Lease, so their spacing is claimed without the collector
  only;
* provider: searches that miss nothing and put the quota's own pull request
  first, a shrink never taken for a grow, no edit of a human overwritten, limits
  that end up in the right document;
* sizing: floor and step cap of every shrink, no flapping for constant demand,
  every shortage answered by a grow, finitely many pull requests per demand;
* deficits: a burst is covered, retries do not accumulate, a refused Pod or claim
  gets in;
* policy: values in the ranges `Decide` needs, the documented precedence,
  namespaces that do not influence one another, exact warnings;
* observation: "complete" means sampled, the peak is the maximum of the samples,
  a crash loses at most a heartbeat.

## 2. Modules

| Module | Models | |
|---|---|---|
| `QuotaState` | Lease name, `lock.State`, and the closures handed to `MutateState`, as functions from State to State | operators |
| `Resizer` | reconciler, Lease with cache, GitHub, environment; EXTENDS `QuotaState` | state machine |
| `ProposalLifecycle` | what is promised about pull requests alone; `Resizer` implements it | abstract specification |
| `LeaseCollector` | `Resizer` composed with the garbage collector and namespaces; fairness and liveness of both | state machine |
| `GitHubProvider` | the provider call by call, files, branches, labels and people | state machine |
| `Sizing` | `Decide`, `targetFor`, `Quantize` with int64 width | operators |
| `SizingLoop` | decision, pull request, Git, cluster, demand; EXTENDS `Sizing` | state machine |
| `Deficits` | events and Pod templates to deficits per key | operators |
| `ShortageLoop` | refused Pods, events, scans, grows, merges, syncs; EXTENDS `Deficits` and `Sizing` | state machine |
| `ObservationWindow` | Window and Observer | state machine |
| `Policy` | `ParsePolicy` and the look-ups | state machine |
| `ResizerProofs`, `LifecycleProofs` | theorems about the life cycle, without and with the collector | TLAPS |
| `GitHubProviderProofs`, `WindowProofs`, `PolicyProofs` | theorems about `GitHubProvider`, `ObservationWindow` and `Policy` | TLAPS |
| `SizingFacts` | lemmas about `Quantize`, `targetFor` and `Decide`, used by the next two | TLAPS |
| `SizingProofs`, `ShortageProofs` | theorems about `SizingLoop` and `ShortageLoop` | TLAPS |
| `MCResizer`, `MCLeaseCollector`, `MCGitHubProvider`, `MCSizingLoop`, `MCShortageLoop`, `MCObservationWindow`, `MCPolicy` | constants for TLC | |

Definitions whose names carry a suffix after `_` and whose comment begins with
"Mutant" are deliberate mistakes. No specification uses them; putting one in
place of the definition it is named after must break a property.

### Resizer

`pc` says where the running reconcile is, and each action is one call with the
code up to the next call:

| `pc` | Action | Code |
|---|---|---|
| `idle` | `Reconcile(q)` | `Reconcile` up to `Observer.Observe` |
| `ensure`, `write` | `ensureLeaseExists`, `WriteLease`, `WriteLeaseNotFound`, `WriteLeaseLost` | `MutateState` |
| `read` | `GetStateAndDecide` | `GetState`, `collectDeficits`, `Decide`, the branch on them |
| `status` | `GetPRStatus` | `handleActivePR` up to the next call |
| `close`, `merge`, `update` | `ClosePR`, `MergePR`, `UpdatePR` | `handleActivePR` |
| `find` | `FindOpenPR` | `handleNewProposal` up to `CreatePR` |
| `create`, `label`, `unlabelled` | `CreatePR`, `AddLabels`, `TakeBack` | `GitHubProvider.CreatePR` |

`CallFails` is any of these calls failing without effect, lost responses are
disjuncts of the action whose effect took place, and `Crash` may happen
anywhere. `mut` is the closure of the `MutateState` call in progress with what
it captured; `ApplyFn` applies it to the State read back inside `MutateState`.

Abstractions, and why they lose nothing the properties tell apart:

* *Cache.* An update needs the current resourceVersion, and the controller is
  the only writer of its Leases, so the cache is at most one write behind;
  `synced` says whether it is. Conflict retries are waiting for `CacheSync`, or
  `CallFails` when they run out.
* *Decide* is reduced to what demand is against limits (`short`, `fit`, `over`)
  and whether the window is complete, both free; the timestamp gates are
  computed. A failed scan may understate demand. `SizingLoop` and `ShortageLoop`
  have the arithmetic.
* *GitHub.* A fate is decided once; reads of a pull request may show it as open
  for a while after (`settled`), which the code expects. A new pull request is
  listed as soon as it exists, and closed ones are not reopened. How a search
  goes through pages and names is in `GitHubProvider`.
* *Time* is a counter. Stamps keep whole seconds; an instant of the model is
  taken to be longer.
* `DemandChanges` happens between reconciles only: just one action reads demand.

* `content` is the direction of the last decision written to a branch, not its
  limits: `ShrinkNeverAutoMerged` says that no merged branch was opened for a
  shrink or last written by one. What the limits of a merged grow are against
  those in the repository is a question to `ShortageLoop`, and the answer is
  `grow_lowers_git`.

`Life` instantiates `ProposalLifecycle` with the pull requests as `Proposals` shows
them, and `ImplementsLifecycle` is the refinement.

`hist` is a history variable: when locks of shrinks, merged grows and merges
were last released on the Lease. `RecordRelease` writes it, only properties read
it; `KeepHistory` is FALSE in the runs whose properties do not.

### LeaseCollector

`gone` is the set of namespaces that do not exist, `targetNS` the label
`ensureLeaseExists` puts on a Lease, `doomed` the Lease whose namespace the
collector's Get has not found. `NamespaceNotFound` and `DeleteLease` are the two
round trips of `cleanup` for one Lease, with every step of a reconcile, the
recreation of the namespace and a crash possible in between; the Delete carries
no precondition, so it removes whatever the Lease has become. A reconcile begins
only where its namespace is found, and goes on when the namespace is deleted
under it, which may write the Lease again. A deletion of a namespace counts
against `MaxFaults`.

### GitHubProvider

Each action is one call to GitHub. `Begin` and `List` are `FindOpenPR`, one page
at a time, in either order a listing may have; `CreateRef`, `ReadFile`,
`UpdateFile`, `Create` and `Label` are `CreatePR`; `ReadFile` and `UpdateFile`
from `found` are `UpdatePR`. The content of a file doubles as its blob SHA, so
that `UpdateFileConflict` is GitHub's 409. `Interrupted` stands for a failed
call, a lost response and the end of the process: in each case the effect, if
any, is there and the caller is not. People push to branches (`PushNote`), label, merge,
close, reopen and open pull requests of their own between any two calls.

A page of a listing is described by ranks: `Listing(k)` holds the open pull
requests that `(k - 1) * PerPage` or more, and fewer than `k * PerPage`, others
precede in the order GitHub happens to use. That is what a page is while pull
requests come and go between two calls, and it lets the search be reasoned about
for any number of them. The ASSUMEs say that no part of a Kubernetes name is
empty, and that an old shrink carries its label: `directionFromLabels` takes what
has no label for older than shrinks.

A limit in a document carries the quota it was computed for. `Docs` has the
quotas of every file and `Objects` the names of all else in it: `findQuotaFile`
looks for `kind: ResourceQuota` and `name: <quota>` anywhere in the text
(`Mentions`), so a file whose role or LimitRange is called like the quota is as
good as the quota's own when it also holds some quota. A branch name from
before the direction was encoded is a sequence of words, because the code
matches it by prefix. What happens between the calls of the provider is left to
`Resizer`: here any call may follow a search whose result allows it.

### SizingLoop

`hard` (cluster), `git` (main branch) and `pr` (branch of the open pull request)
are the three places a limit can be. `Propose`, `Update`, `Supersede`, `Abandon`
and `Merge` are the outcomes of the life cycle, `Sync` is the GitOps tool,
`DemandMoves` replaces usage, peak and deficit of one key by anything.
`gatesOpen` is what `shrinkGates` finds; proposals and ended shrinks close the
gates, `GatesOpen` is the passing of window and cooldowns. `cause` is a history
variable with the direction that put each limit where it is, forgotten when
demand of the key moves.

Quantities are integers in milli-units and percentages are exact: float64
rounding, which is below one part in 10^15, is left out. `toInt64` keeps what
matters of the conversion back: out of range, amd64 yields the smallest integer
and arm64 the largest, so `build` is one of the two. `wrap` is the wrap-around
of `usedMilli + deficit`. The multiplication inside `Quantize` is taken not to
overflow.

### Deficits and ShortageLoop

`Deficits` has what is pure: a Pod's requests as the larger of the sum over its
containers and the maximum over its init containers, claims, the multiplication
by missing replicas, the maximum over the events of one workload and the sum
over workloads, and the aliases of quota keys. Resource lists are functions from
names to amounts, a message is the function from the keys it reports as exceeded to
the amounts requested of them (the code reads the first key only, in the
alphabetical order Kubernetes lists them in, `KeyOrder`), and object names are sequences
of segments. Sums are taken over explicit functions (`SumFunction`), which is what makes
them provable. The ASSUME says what the API server admits: finitely many workloads,
containers and claims, with amounts that are natural numbers, of `cpu`, `memory`,
`ephemeral-storage` or an extended resource (`gpu` stands for any) in containers and of
`storage` in claims.

`ShortageLoop` puts it into the loop it serves. `Charge` is what admission
charges a Pod and its claims with, and is not taken from the controller's code: it
is what the quota refuses by, and what `BurstCovered` measures the controller's
estimate against.

The cluster's side is what the code has to cope with. `CreateClaims` and
`StartPod` are two requests, as in a StatefulSet: claims are charged while their
Pod may still be refused. `Scale` and `Evict` send Pods into their grace period
(`ending`), in which `status.replicas` no longer counts them and the quota still
does, until `PodGone`. Claims outlive Pods and workloads (`claimed`) until
somebody deletes them (`ReleaseClaims`). So `used` may already hold part of what
`calculateWorkloadDeficit` asks for, since it multiplies the whole template by
the missing replicas (`resourcequota_utils.go:131-142`): limits can exceed what
the workloads alone would need, by Pods about to go and by claims that are
there. `demand`, a history variable, is the most that was charged and lacking at
one time, and `NoRunaway` bounds limits by it and not by what the workloads
want.

`mapEventToQuota(w)` is a refused Pod or claim, its event and the enqueueing;
`Reconcile(seen, readable)` is a scan of all events, one whose List fails
(`seen = {}`) or whose Get in `isObjectAlive` fails for some of them and skips
these, or one that cannot Get a workload afterwards and falls back to the
message. Timestamps of events are
compared with two instants only, so `events` holds the ones that still count:
`Record` stamps a change and empties it, `EventAges` is the hour. Only growing
is modelled; windows and shrinking are in `SizingLoop`. `Build` is the processor, as
`build` is there.

### ObservationWindow

One quota with one key. `up` is real time, `back` how far the wall clock was
set back; `Date` and `TimeOfDay` split the clock. `Observe` and `ObserveFails`
are the Observer's handler with and without the write succeeding.
`LeftBehind` is what a failed write leaves in the cache: the window is copied
out of the map by value, but slices and maps inside it are shared. `taken`
is the history of the samples, `ok` whether the code reported them as recorded
and no crash has lost them since. The ASSUMEs keep what the clock may be set
back by to a day, and the gap and the heartbeat positive.

### Policy

`heap` holds the maps of the base policy and those of the call, `out` the policy
with references into it, so that a shared map would show. `Begin` copies, `LookAt`
is one turn of the loop over the annotations, in any order, `Finish` applies the
three spellings of a headroom. A name is its resource words and its attribute, a
value what it parses to or `Unparsable`. `Annotate` is anybody editing a
namespace between two calls. `enableShrink` is the flag `--enable-shrink`, either
way from the start; `Fold` is `strings.EqualFold`. `Duration` is the product of a number of days or
minutes with its unit in int64: the code tests the number and multiplies
afterwards, so a TTL beyond 106751 days wraps around. Headrooms are percentages; `Inf`,
which `strconv.ParseFloat` reads as well, is left out.

## 3. What the runs check

Passing runs:

| Run | Checks | Bounds, and why they are enough |
|---|---|---|
| `lifecycle_safety` | types; `ShrinkNeverAutoMerged`, `OneOpenPR`, `LockFaithful`, `ShrinkSpacing`, `GrowSpacing`; `ImplementsLifecycle` | one quota, 2 pull requests, 3 instants, 1 failure: a pull request, its failure or stale release, and the next one; cooldowns of 1 and 2 instants can be kept and broken. Quotas with different Leases do not interact |
| `lifecycle_liveness` | `LockReleased`, `ShortageSupersedesShrink`, `ShrinkLockExpires`, `LeaseCollected`, and `ShrinkNeverAutoMerged` next to the collector | 1 pull request, 2 instants, TTL 0, 2 failures, crashes or deletions of the namespace: a Lease deleted under a reconcile and written again, an expired shrink whose close fails |
| `provider` | types; `NothingMissed`, `OwnFirst`, `NeverTakenForGrow`, `NoLostEdit`, `OwnDocument` | 2 quotas whose old branch names share a prefix, a file without quotas and objects in other files with similar names, pages of 1, one old shrink, 3 branches and pull requests, 2 acts of people, 1 failure: a search over three pages with an arrival in between, a push between read and commit |
| `sizing_loop` | types; `HardFloor`, `NoFlapping`, `ShortageTriggersGrow`, `MergesEnd` | a fine (unit 1) and a coarse key (unit 8), default headroom, tolerance and step, 2 moves of demand: grow after shrink after grow, with rounding that matters |
| `shortage_loop` | types; `BurstCovered`, `NoRunaway`, `BlockedGetsIn` | a ReplicaSet with two containers, a StatefulSet with an init container and claims, a Job; two of them share a workload key; 2 scalings, evictions or deletions, of workloads or of claims, 1 failed scan, units of 8, and a minimum for claims above the limit they start with: a limit is reached by Pods that are about to go, and by claims whose Pod is refused |
| `window` | types; `CoverageSound`, `PeakFaithful`, `LossBounded` | days of 3 instants over 6 instants, window of 1 or 2 days changing at will, heartbeat 2, a usage that is idle or busy, 2 failures, crashes or recreations, a clock set back by one instant: two whole days, across midnight |
| `policy` | `SizingReady`, `MostSpecificWins`, `OwnMinimum`, `OptOutOnly`, `WarnedExactly` | 2 namespaces (symmetric), 3 edits of 19 annotations with values inside, at and beyond their ranges, a TTL that overflows among them, and shrinking enabled or not: three spellings of one entry compete, one namespace is parsed after another |

Violation runs. Each shows a place where the code does something other than a
comment or a document says (quoted in PROJECT.json, "findings"):

| Run | What happens |
|---|---|
| `lease_collision` | `team-a/b` and `team/a-b` share a Lease |
| `sizing_zero_limit` | an idle limit is shrunk to zero and never grown again |
| `extended_shortage` | the template of a ReplicaSet yields the key `gpu`, the quota counts `requests.gpu`: its Pods stay out for ever |
| `grow_lowers_git` | a grow computed before the last merged one is synced lowers the limit in the repository, and is merged automatically |
| `files_other_quota` | in a file with two quotas, a proposal for one, whose body names that one, sets the limits of both |

Conditions under which a property is claimed, because it does not hold without:

* `ShortageTriggersGrow`: the headroom is at least the tolerance (otherwise a
  shortage may stay inside the band), and no limit is zero (`sizing_zero_limit`);
* `HardFloor`: products fit into int64; beyond, amd64 turns a usage near the
  limit into a negative target and shrinks below it;
* `CoverageSound`: the clock is not set back. When the first sample after an
  outage falls on the next day and the clock then returns to the day before,
  `prune` drops the bucket that recorded the gap;
* `PeakFaithful`: usage fits into milli-units; `Peak` skips what does not,
  `IsComplete` accepts it;
* `LockFaithful`: no two quotas share a Lease name (`lease_collision`);
* `ShrinkLockExpires`: the lock is on the Lease and the namespace stays opted in;
* `NothingMissed`, `OwnFirst`: no pull request ends between two pages of one
  search; one that does moves the next one to a page already read;
* `OwnDocument`: every quota has a file of its own (`files_other_quota`), and no
  file with another quota has an object whose name begins with the quota's:
  `findQuotaFile` would take it;
* `BurstCovered`: `WorkloadKey` tells the blocked workloads apart; when it does
  not, `BlockedGetsIn` shows that the smaller one gets in later. Nor does
  it when a conversion overflows (`Representable`). And it is claimed for
  constants with the three hypotheses of its theorem (section 4);
* `NoRunaway`: up to what was charged and lacking at one time, one Pod for an event
  that outlived its shortage included, and up to the minimum a key has;
* `BlockedGetsIn`: resources the quota names as Pods do, or under an alias
  (`extended_shortage`); pull requests are merged, and Pods in their grace period go;
* `SizingReady`: of the cooldowns and the TTL while every number of days and
  minutes fits into a `time.Duration` (`Fits`); a larger one comes out as any
  duration, negative ones included.

Two of these properties read differently than one might expect. `MostSpecificWins`
admits either value where `headroom` and `default-headroom` are both written: they
mean one entry, and the one the map yields last wins, although the comment at
`policy.go:244-245` promises precedence "independent of Go's random map iteration
order". `LossBounded` adds what the
clock was set back by to the heartbeat: a write that fails with its effect in place
after a set-back leaves a Lease whose last write is later than the clock, and the
next heartbeat is counted from there.

Behaviours that were met on the way, contradict no line worth a run of their
own, and are not excluded by any property:

* a lock can be released for an older pull request than the one it names, when
  the informer lags behind the controller's own write while the next reconcile
  starts; the open pull request is found again by `FindOpenPR`;
* a shrink whose number never reached the Lease is not closed after its TTL
  while demand fits, only by a shortage;
* a peak whose write failed is in memory, but written only at the next heartbeat;
* branches of `CreatePR` calls that end early are never removed;
* an old branch name can be adopted by another namespace's quota that has no
  pull request of its own; branch names do not carry the cluster, so two
  clusters that propose to one repository can adopt each other's;
* an open grow may be updated downwards only for keys that still grow; limits of
  the others stay in the branch;
* a headroom of `Inf` is accepted, and so is a negative minimum, which acts like
  none;
* `docs/INSTALLATION.md:64-65` speaks of an exact `"true"`; the code folds case, and
  `True` does not opt out (`OptOutOnly` follows the code);
* the deficit is counted on top of a usage that may hold part of it already, see
  `ShortageLoop` above;
* two processes without leader election can both find no pull request and open
  one each.

**Fairness.** `LeaseCollector!Fairness`: the worker finishes the step it is in
(WF); the queue serves each quota again and again, through requeues, resyncs and
events (SF, as the worker may be busy with others); watches deliver and GitHub's
reads catch up (WF); time passes (WF); the collector's ticker ticks (WF).
Failures, crashes and deletions of namespaces are bounded by `MaxFaults`, so that
no property rests on a call that fails for ever. Nothing is assumed of people or
demand.

`ShortageLoop!Fairness`: workload controllers retry what was refused, grace periods
end, the queue
serves the quota, open grows are merged (automatic merging is on; otherwise it
is what a Pod has to wait for), the GitOps tool syncs, merges are recorded and
cooldowns end (all WF: none of these is ever disabled by another actor for good).
`SizingLoop` assumes only that the GitOps tool keeps applying what is in Git (WF
of `Sync`); `MergesEnd` needs no fairness of reviewers.

Deadlock is checked in `Resizer`, `LeaseCollector`, `GitHubProvider` and
`Policy`; the sizing, shortage and window runs may stop, when nothing is left to
propose or to start and when time is up, and say so.

## 4. What is proved

For every value of the constants that satisfies the ASSUMEs (which only say that
durations, bounds and policy values have the ranges the code enforces):

| Theorem | Statement |
|---|---|
| `ResizerProofs!TypeCorrect` | `Spec => []TypeOK` |
| `ResizerProofs!NoShrinkAutoMerged` | `Spec => []ShrinkNeverAutoMerged` |
| `ResizerProofs!AtMostOneOpenPR` | `Spec => []OneOpenPR` |
| `LifecycleProofs!LifecycleImplemented` | `Spec => ImplementsLifecycle` |
| `LifecycleProofs!LocksFaithful` | `LeasesDistinct => (Spec => []LockFaithful)` |
| `LifecycleProofs!ShrinksSpaced` | `Spec => ShrinkSpacing` |
| `LifecycleProofs!GrowsSpaced` | `Spec => GrowSpacing` |
| `LifecycleProofs!CollectedNeverAutoMergesShrink` | `GCSpec => []ShrinkNeverAutoMerged` |
| `LifecycleProofs!CollectedStillOneOpenPR` | `GCSpec => []OneOpenPR` |
| `LifecycleProofs!CollectedLifecycleImplemented` | `GCSpec => ImplementsLifecycle` |
| `LifecycleProofs!CollectedLocksFaithful` | `LeasesDistinct => (GCSpec => []LockFaithful)` |
| `GitHubProviderProofs!ProviderTypeCorrect` | `Spec => []TypeOK` |
| `GitHubProviderProofs!ShrinkNeverTakenForGrow` | `Spec => []NeverTakenForGrow` |
| `GitHubProviderProofs!EditsKept` | `Spec => NoLostEdit` |
| `GitHubProviderProofs!LimitsReachTheirQuota` | `FilesOwn => (Spec => []OwnDocument)` |
| `GitHubProviderProofs!SearchMissesNothing` | `Spec => []NothingMissed` |
| `GitHubProviderProofs!OwnAdoptedFirst` | `Spec => []OwnFirst` |
| `SizingProofs!LoopTypeCorrect` | `Spec => []TypeOK` |
| `SizingProofs!NeverFlapping` | `InRange => (Spec => []NoFlapping)` |
| `SizingProofs!ShrinkAboveFloor` | `InRange => (Spec => HardFloor)` |
| `SizingProofs!EveryShortageGrows` | `InRange /\ BandCovered /\ Floored => (Spec => []ShortageTriggersGrow)` |
| `ShortageProofs!ShortageTypeCorrect` | `Spec => []TypeOK` |
| `ShortageProofs!NoLimitRunsAway` | `Spec => []NoRunaway` |
| `ShortageProofs!BurstsCovered` | `BandCovered /\ NoExtended /\ OneKeyJobs => (Spec => []BurstCovered)` |
| `WindowProofs!ObserverTypeCorrect` | `Spec => []TypeOK` |
| `WindowProofs!LossStaysBounded` | `Spec => []LossBounded` |
| `WindowProofs!CoverageStaysSound` | `Spec => []CoverageSound` |
| `WindowProofs!PeakStaysFaithful` | `Representable => (Spec => []PeakFaithful)` |
| `PolicyProofs!PolicyStaysReady` | `Spec => []SizingReady` |
| `PolicyProofs!MostSpecificAlwaysWins` | `Spec => []MostSpecificWins` |
| `PolicyProofs!MinimumStaysOwn` | `Spec => []OwnMinimum` |
| `PolicyProofs!ShrinkingNeverOptedIn` | `Spec => []OptOutOnly` |
| `PolicyProofs!WarningsStayExact` | `Spec => []WarnedExactly` |

A hypothesis in front of `Spec` is a condition on the constants that the code does
not enforce, and each is needed: `LeasesDistinct` (`lease_collision` shows what
happens without), `FilesOwn` (`files_other_quota`), `Floored`, that every limit
starts above zero and every key has a minimum (`sizing_zero_limit`), `BandCovered`,
that the headroom is at least the tolerance, `InRange`, that demand with headroom
is an int64, and `Representable` of `WindowProofs`, that usage fits into milli-units.

The three hypotheses of `BurstsCovered` hold for the constants of `shortage_loop`, and
TLC refutes `BurstCovered` when any one of them is dropped: `BandCovered` (with a
tolerance above the headroom the band swallows the burst), `NoExtended` (the quota
limits no extended resource, as it does in `extended_shortage`), and
`OneKeyJobs` (a Job's template is not read, and of its message only the first key, so
a Job that is charged under two keys is helped with one at a time).

*No shrink merged.* The property is not inductive: a merge trusts the direction
in `st`, which came from the cache, which came from the Lease, which came from a
pending closure. `CoreInv` adds to the types that wherever a number is recorded
(Lease, cache, `st`, pending closure) a pull request of that number exists and
has the direction recorded with it (`DirOK`), what the reconcile knows at each
`pc` (`LocalOK`), and that no branch was rewritten against its direction. It
does not need Leases to be distinct: a colliding quota's lock still carries the
right direction.

*One open pull request.* `OpenInv`: whenever the reconcile is about to call
`PullRequests.Create`, no pull request of the quota is open. `FindOpenPR`
establishes it from GitHub's own list, not from the Lease, and no step between
opens one.

*With the collector.* Every step of `GCSpec` is a step of `Resizer`, leaves its
variables alone, or empties a Lease. `CoreInv` says something about Leases only
where they hold a number, and `OpenInv` nothing at all, so both survive a Lease
that disappears at any moment, with a lock on it or not.

*Refinement.* A step of `Resizer` that touches no pull request is a stutter of
`ProposalLifecycle`, a deleted Lease included. Opening one is allowed by `OpenInv`;
a merge, a close and the withdrawal of an unlabelled pull request by the
directions in `CoreInv`.

*Locks.* `LockInv`: the number on a Lease and in its cached copy is that of a
pull request of the Lease's quota, and what a pending closure would record is one
of the quota being reconciled. With two quotas on one Lease it fails at once,
hence `LeasesDistinct`.

*Spacing.* The stamps a gate looks at may come from a stale copy. `SpacingInv`: the
stamps on a Lease cover the history (are at least as late); so do those of the
cached copy while it holds no lock, since only the release of a lock is recorded,
and a reconcile proposes only when its copy holds none; a pending release is not
older than the history; and the gates a reconcile has passed stay passed until
it creates its pull request.

*Searching.* `SearchInv`: while nothing ends, every pull request that was open when
the search began and is the quota's has a rank on a page not yet read, or, if its
name is an old one, the search has a fallback already. Arrivals only move it
towards the end of the listing; that ranks behave so is a lemma about
cardinalities. `NeverTakenForGrow` rests on labels only being added, `NoLostEdit`
on the copy being the content the blob SHA is checked against, and `OwnDocument`
on `OwnInv`: in the default branch and in every branch, limits carry the quota of
their document, and the file being edited has no other.

*Every shortage.* `NonZero`: no limit in the cluster, in Git or in a pull request is
zero, since a shrink stops at the minimum. A key that is short then has a
target above its limit by more than the band.

*Observing.* `WindowsOK` relates the windows in memory and on the Lease, as far as
they are of the present object, to the history of samples: every peak in a
bucket was sampled on its day (`Peaks`), and unless the clock was set back the recorded
gap and times of a bucket leave no longer stretch without a sample (`Covers`,
`Lasts`). `KeptInv` says that what the next sample is added to has every recorded
sample in its bucket, or has pruned its day for good; `LossInv` the same of the
Lease for all samples but those newer than its last write, and that none of these is
newer by a heartbeat. The difficult step is a failed write, which leaves a
window in memory whose buckets are new through the shared slice and whose stamps
are old, next to a Lease that may or may not have been written.

The attempt to prove `LossBounded` in an earlier form, without what the clock was
set back by, failed, and with `MaxBack = 2` and days of 6 instants TLC shows why.

*Policy.* `PolicyInv`: the base maps are never written and the call has maps of its
own (`MapsOK`), each of the three collections holds what its spelling said in
the annotations looked at so far (`FromOK`), and so for minimums, the switch, the durations and
the warnings. When nothing is left to look at, this is what the properties say of
`seen`. That the most specific entry is decisive needs that the default is last
among the entries of a key, or is followed by nothing else.

*No flapping.* `CauseInv`: a limit a grow put in some place is at most the
present target rounded up, and one a shrink put there is at least the present
target; an incomplete scan can only understate the target of a grow, and shrinks
need a complete one. With that, the step cap and the rounding of a shrink cannot
go below a grown limit, and the band keeps a shrunk limit from being grown.
The lemmas below it say that `Quantize` is monotone and never rounds down, that
`targetFor` equals its exact-arithmetic form on every processor as long as
usage, peak and deficit with headroom are int64 (`InRange`), and what `Decide`
can return.

*Sums.* What a fold over a finite set computes takes an induction, and the library's
induction theorems cannot be instantiated here. `SubsetInduction` replaces the
predicate by a set of subsets and follows from a least cardinality; with it a
sum is shown to exist, to be independent of the order it is taken in, and to have the
properties the rest uses: it is a natural number, gains a summand with an element, is
monotone, and is at most another sum when an injection takes each summand to a larger one.

*No runaway.* The property says nothing of `hard`, on which decisions are based, nor of
what events ask for. `IInv` adds that usage is what Pods, running or ending, and claims are charged, and
that `demand` covers it together with what is lacking (`Accounts`), that limits are positive and the
cluster's are ample as well (`Limits`), and that a message asks for what one Pod of its
workload is charged (`Messages`). The deficit of a key is then at most one share per
workload: the maximum over its events is the missing replicas, or one Pod, times what
admission charges, and different summands belong to different workloads. So usage and
deficit together are at most `demand`. The rest is that target and rounding are monotone, also when a conversion
overflows: out of range it yields the smallest or the largest integer, and neither takes
a target beyond `WithHeadroom(k, demand, MaxInt)`. The attempt showed that `Ample` has
to admit the minimum, which a grow may raise a limit to without any Pod wanting it (a minimum of 9 for claims
is enough for TLC to show it).

*Bursts.* In the other direction the deficit is at least what every blocked workload
waits for: its event is live, its template names the resource admission charges
(`PodRequests` and `PVCRequests` are no less than `Charge`), `resolveQuotaKey` leads to that
key, and workload keys that differ keep the shares apart. The target then covers usage
and deficit, and a key whose target is inside the band has a limit that covers them
already.

Only model-checked:

* liveness under fairness (`LockReleased`, `ShortageSupersedesShrink`,
  `ShrinkLockExpires`, `LeaseCollected`, `MergesEnd`, `BlockedGetsIn`), which is out
  of the prover's reach.

## 5. What is not modelled

* Text: YAML syntax, the regular expressions for event messages, path templates,
  bodies and titles of pull requests, logs. Their results are in the models. Left
  out with it: a file `applyChangesToYaml` cannot parse, or one without
  `spec.hard`, comes back unchanged (`github.go:579-585`, `613-617`), and
  `CreatePR` commits it and opens a pull request all the same.
* Which events a scan takes for those of the quota:
  `resourcequota_controller.go:514-515` looks for the quota's name anywhere in the
  message, so that events of a quota with a longer name count as well. The model
  has one quota.
* Overflow of `val * missing` and of the sums over workloads in the deficit.
* Quotas that limit one resource under both of its names (`cpu` and
  `requests.cpu`). `resolveQuotaKey` credits a deficit to one of them, and
  `matchesResourceKey` then writes that target to both, in map order when both have one.
* Of a StatefulSet: the claims of one replica are one request, and a replica may start
  while another is about to go, which the code sees with parallel Pod management.
* The log-only providers: simulations that keep a map which dies with the
  process; no promise of the controller rests on them.
* Metrics: gauges set from a decision and read by nobody in the program.
* `cmd/main.go`: flags and wiring. Of it, the base policy is in `Policy`.
* `AcquireLock` in `lock/lease.go`, which only tests call.
* Two controllers at once, without leader election or while leadership changes
  hands.
* Authentication against GitHub, rate limits (a failed call like any other).

## 6. State of the project

The life cycle with its collector, the provider, the sizing loop, deficits and the
shortage loop, the observation window and the policy are modelled, each with its runs,
and every invariant and every safety action property of a passing run is stated by a
theorem. What the theorems do not reach is liveness.

What would extend the project: two processes without leader election, and a
composition of the life cycle with the sizing loop, so that the cooldowns and the
arithmetic meet in one model.
