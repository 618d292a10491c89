# application-controller in TLA+

A verification project for the application controller of this repository: a
Kubernetes controller that turns an `Application` resource into a Deployment and the
objects around it, and follows new container images. The modules are translated
from the Go code under `src/`; line numbers below refer to it.

| module | models | proofs |
|---|---|---|
| `Reconciler` | one Application's reconciliation against the API server, caches and everybody else | `ReconcilerProofs`, `SettledProofs`, `WorkloadProofs` |
| `AccessGrants` | the abstract protocol that Reconciler implements for cluster-wide rights | `ReconcilerProofs` |
| `Ports`, `Builders` | what the mutators make of an object over a history of edits | `PortProofs`, `BuilderProofs` |
| `ImageWatcher` | watch loop, cron scheduler, webhook and image cache as goroutines | `ImageWatcherProofs` |
| `ImageFinder` | one lookup in a registry that changes under it | `ImageFinderProofs` |
| `Naming` | the names of an Application's objects | in the module |

The `MC*.tla` modules and the `*.cfg` files are instances for TLC; `PROJECT.json` says
which definition models which lines and lists the runs, mutants, findings, hazards and
theorems.

## The system

| part | source | state | operations | talks to |
|---|---|---|---|---|
| Reconciler | `internal/controller/application_controller.go` | none of its own; works on a copy of the Application, reads informer caches, writes to the API server | `Reconcile`, its nine stages, `reconcileResource`, status and finalizer updates | API server, informers, image finder, work queue |
| Object builders | `internal/controller/{deployment,cronjob,service,lbservice,podmonitor,ingress_route,rolebinding,clusterrolebinding}.go` | none | one mutator per kind | called by the Reconciler inside `CreateOrPatch` |
| Naming | `internal/controller/names.go`, `internal/gkutil` | none | name of each object | Reconciler, builders |
| Image watcher | `internal/images/cronwatcher.go`, `cache.go`, `simpleapplicationlister.go` | image cache, job handles, gocron's jobs, blocked goroutines | watch loop, `reconcileSchedules`, cron jobs, webhook, `FindImage` | Reconciler (events over a channel, `FindImage` calls), gocron, registry |
| Image finder, registry client | `internal/images/imagefinder.go`, `registryclient.go` | none | newest digest of a tag, newest tag of a SemVer range | registry |
| Start-up | `cmd/main.go` | flags | starts watcher, webhook server and manager | everything |
| Flags, probes, metrics, API types | `internal/flag`, `internal/k8s`, `internal/metrics`, `api/v1alpha1` | none | parsing, discovery, counters, schema | |

How they interact: the informers, the watcher's events and errors put a request into
the work queue; one worker runs `Reconcile` for it (`MaxConcurrentReconciles` is 1). Within
`Reconcile` the CronJob and Deployment builders call `FindImage`, which reads and fills the
watcher's cache, without a lock between the two. Cron jobs and webhook goroutines drop
cached images and send the Application over an unbuffered channel to the watch loop,
which forwards it to the controller over another.

What is hard about it, and what makes each part correct:

- **Reconciler.** All reads are from caches that lag; writes are optimistic (the
  Application) or blind (objects: merge patches without a resourceVersion, deletes without
  preconditions); any call may fail, or take effect and have its answer lost; the process
  may die between two calls; users, the garbage collector and third parties act in between.
  Correct means: cluster-wide grants never outlive their Application; nothing is written for
  an Application that is gone; pods do not start before their bindings; when the controller
  rests, the cluster is as the spec asks; it comes to rest; deletion completes; other
  people's objects are left alone.
- **Image watcher.** Four kinds of goroutines share a cache whose look-up, fetch and store
  are separate steps; jobs hold old copies of Applications; the loop is one goroutine that
  does two jobs, with a timer made anew each turn. Correct means: gocron's jobs are the ones
  the handles know and the ones the Applications ask for; the newest image is deployed in the
  end, whatever raced; nothing stays cached for ever.
- **Builders** start from the object there is: what a spec leads to may depend on the specs
  before it and on the stage that failed half-way. Correct means: an edited Application gets
  the objects of a new one; a second Reconcile has nothing to write; every port leads to the
  container; the addresses clients use do not change; requests are guarded as asked.
- **Image finder.** A lookup by version is two calls of a registry that changes in between.
  Correct means: what it answers, "not found" included, was true at some moment.
- **Naming.** Correct means: no two objects of one Application have one name.

## Reconciler

One Application name, with incarnations told apart by `uid`.

State. `app` and `store` are the API server; `appCache`, `cache` the informers' caches;
`news[o]` says whether events about `o` are yet to be delivered and whether one of them
names the Application as owner (only such events enqueue, through `Owns`/`Watches`,
`Watched`). `appCacheCurrent` and `copyCurrent` say whether the cached Application and
Reconcile's copy have the API server's resourceVersion; they stand for optimistic locking
and are exact: a write that changes something makes them false. `pc`, `copy`, `stage`,
`ensure`, `stale`, `item`, `before`, `want` are Reconcile's program counter and locals.

| action | code |
|---|---|
| `Begin`, `Entry` | 186-234: the `Get` of the Application and the early returns |
| `InitStatus`, `AddFinalizer`, `RemoveFinalizer`, `FinalStatus`, `ErrorStatus` | the five updates of the Application, each of which ends Reconcile |
| `ListGrants` | `ensureNoClusterRoleBindings`, 500-525 |
| `ListStage`, `NextStage`, `SkipRole` | the loops of the stages, 285-498; `SkipRole` is the `return err` with a nil `err` at 356-359 |
| `Get` | 567-588: the first read, the ownership check, "skipping creation" |
| `Mutate` | the second read, the mutator and the owner, inside `CreateOrPatch`, 595-608 |
| `Create`, `Patch`, `Delete` | the calls to the API, 595-637 |
| `ReadError` | any of the cached reads above failing with an error other than NotFound |
| `SyncApp`, `SyncObject`, `Resync`, `Restart` | informers, process |
| `CreateApp`, `EditApp`, `DeleteApp`, `Meddle`, `Publish`, `Report`, `CollectGarbage` | users, third parties, registry, deployment controller, garbage collector |

Every read and every call is a step of its own, so all of the environment may act between
any two. A read succeeds or fails; a write is refused, fails, takes effect and fails (`fault`), or succeeds. Objects
are abstracted to owner, the spec revision they were made from, image and the Available
condition; `MergePatch` carries only the fields that differ between what was read and what is
wanted, so a patch from a stale read may leave a field as it is. A mutator fails for a kind
the spec is `malformed` for, or when the image finder does. `Stages` is the order of 236-282
without the kinds whose CRDs are missing (`SupportsTraefik`, `SupportsPrometheus`).

`Budget` bounds each kind of event, and its entry `"any"` all of them together (`Spend`).

`LaggingKinds` are the kinds whose cache may be behind when it is read. Reads of the other
kinds wait for the cache: this is how a run separates questions, and where `NoOrphanedGrants`
gets its proviso.

`GrantsFollowProtocol` says that this implements `AccessGrants`, a protocol of seven actions
without caches, calls or stages: an Application is protected before anything is granted for
it, and leaves only when nothing is. The refinement mapping takes `life` from the
Application at the API server (absent, without the finalizer, with it, marked for deletion)
and `granted` from the ClusterRoleBindings the Application owns. It needs the
ClusterRoleBinding cache in step (LagOrphan).

Left out: event recording and logs; the wording of conditions; more than one Application (they
share nothing in Reconcile but names, see Naming); two replicas at once.

## Builders

One Application, its spec edited and the process restarted with other flags up to `MaxEdits`
times in all. State: the object of each kind, Reconcile's copy of the spec, the stage, and how
the last Reconcile ended. A stage reads, mutates and writes in one step, as interference is
Reconciler's subject; the API server may still act between the stages through users
(`Edit`, `Restart`).

| definition | code |
|---|---|
| `Ports!Merge`, `MergeContainerPorts` | `reconcileContainerPorts`, deployment.go 106-136 |
| `Ports!Merge`, `MergeServicePorts` | `reconcileServicePorts`, service.go 33-63 |
| `Service`, `LBService`, `PodMonitor`, `IngressRoute`, `CronJob`, `Deployment` | the mutators: what each overwrites, merges, keeps and refuses |
| `Guess` | the port a PodMonitor or an IngressRoute takes when the spec names none |
| `Routes`, `RuleFor`, `AuthValid` | the routes with and without authentication, ingress_route.go |
| `Valid`, `Stored`, `Reached` | the API server's validation and defaults, and where a Service leads (external) |
| `Stage` | `CreateOrPatch` with the mutator, the "not wanted" branch, and the first error that ends Reconcile |

Left out: names, labels, the image; what Deployment and CronJob overwrite as a whole (command,
environment, probes, resources, volumes) is one number, `pod`, with the flag `complete` for the
defaults the API server fills in. Between two rules for paths Traefik goes by the length of
strings, which is left open. `NodePorts` is a finite set that is assumed to have a port for each
one a load balancer names (`SpecAssumption`): a cluster that runs out of them is not modelled. The mutators of ServiceAccount and of the role bindings overwrite
all they set and have no model of their own.

## Naming

Names are sequences of the words between dashes, so that `Sprintf("%s-%s")` is
concatenation; equality of names is then a question about sequences and is settled by proof.

## ImageFinder

One `FindImage` after another. A lookup by tag is one call of the registry (`GetDigest`), one by
version two (`ListTags`, `GetDigest`); users push, move and remove tags in between, and the
registry may fail once (`Fault`). `Sorted` has all orders `sort.Sort` may produce, which is not
stable; tags that are no versions are skipped; `Refused` has the malformed specs. The history
variable `atOnce` collects what a lookup that takes no time could have answered since the call
began (`Instant`, the reference definition): answers must be among these.

Left out: constraints are sets of precedences (no parsing); the list of tags is one answer, as
it is for a repository that fits on a page; authentication.

## ImageWatcher

State. `imageCache` per image spec (the cache key is the whole `ImageSpec`, schedule
included); `handles` (`cronScheduler.jobs`) against `jobs` (what gocron runs); `senders`,
goroutines in `enqueueReconciliation` before `imageCache.Delete`, and `waiting`, those
blocked on `updateChan`, in the order Go's channels serve them; `timer`, `loop`, `listed`,
`todo`, `event`, the watch loop and its locals; `serving`, whether the manager has started the
controller; `queue` and `worker`, as much of the controller as calls `FindImage`, once for each
of the Application's `Workloads` (CronJobs first, the Deployment last).

| action | code |
|---|---|
| `TimerFires` | `time.After`, 81 and 208-210 |
| `List`, `UpsertJob`, `KeepJobs`, `KeepOnly` | `reconcileSchedules` 135-160, `UpsertJob` 260-291, `KeepJobs` 293-308, `cache.KeepOnly` |
| `Receive`, `Forward` | 83-84 |
| `StartScheduler` | `Start` 242-258, a goroutine: jobs are refused before it ran |
| `Tick`, `Clear` | a cron job; `enqueueReconciliation` 162-170 |
| `Webhook` | `onImageUpdated` 172-189 |
| `StartController` | main.go 184-196: the watcher runs before the manager has started, or leads; until then listing fails (`CannotList`), and `Forward`, which waits for nothing else, blocks |
| `Take`, `CacheGet`, `Fetch`, `CacheSet` | the worker; `FindImage` 114-133, look-up, fetch and store apart |
| `SetSpec`, `Publish`, `Restart` | users, registries, the process |

A shutdown ends the process: the goroutines it leaves behind end with it, and what follows is
`Restart`. Left out: panics.

## Runs

All run with two workers in two minutes or little more. `CHECK_DEADLOCK FALSE` throughout: once
the budget is spent and all is settled, the Reconciler, the builders and the finder really have
nothing to do, and the watcher has none either when it has no jobs.

| run | question | bounds |
|---|---|---|
| Stages | `NoOrphanedGrants`, `AtRestMeansSettled`, `AccessBeforeWorkload`, `WritesOnlyUnderFinalizer`, `GrantsFollowProtocol`, `TypeOK` | one object of each way a stage treats its kind, a ClusterRoleBinding among them; three specs, one with an invalid role, one malformed; at most five of: two incarnations, an edit, a deletion, a failure, a crash, a resync; the Deployment cache lags, 2.4 million states |
| Drift | `AtRestMeansSettled` | a RoleBinding, a CronJob and a Deployment; the caches of the watched ones lag; at most four of: interference, a new image, a status report, an edit, a failure, a crash |
| Ends | `Converges`, `DeletionCompletes` | a binding and a Deployment, lagging; two incarnations, interference, a failure |
| Builders | `AsIfNew`, `NothingToPatch`, `PortsLeadHome`, `RoutedAsAsked`, `StableAddresses`, `TypeOK` | eight specs and two sets of flags, up to three edits or restarts, at any stage; six node ports, more than any spec's ports |
| Finder | `AtomicAnswer`, `NotFoundIsTrue`, `ErrorsHaveReason`, `TypeOK` | five tags, two of one version and one that moves; eleven specs; two lookups, two pushes, two removals, a failure |
| Updates | `AutoUpdate`, `SchedulesFollow`, `NoLeakedJobs`, `TypeOK` | one Application with a CronJob and a Deployment, two repositories and schedules; its creation and two of: an edit, two pushes with or without webhook, a failure, a restart; the manager starts at any time |
| Lifecycle | `SchedulesFollow`, `CachePruned`, `NoLeakedJobs` | two Applications with the same or different specs, one of them with a schedule gocron refuses; a removal, which may be followed by a new incarnation, and a restart |

Why the bounds are enough: Reconcile handles objects one by one and keeps nothing between
calls, so one object per way of treating a kind, two incarnations and two or three specs reach
every branch; races need one event at the right place, and every event may happen at every
place. Builders: a merge looks at the object before and the spec, so three edits give every
pair with a refused or rejected spec between them, and the specs differ in everything that is
merged, kept, guessed or refused. Finder: three tags and two changes per call reach every
order of list, change and digest, and the theorems hold for all tags. The runs divide the
kinds and the events between them since their product is out of reach.

The runs that are expected to fail show disagreements between the code and what it says of
itself; each checks one property:

| run | what happens | says otherwise |
|---|---|---|
| LagOrphan | A ClusterRoleBinding the cache does not show yet survives the cleanup; nothing removes it later. | comment at 213-215 |
| InvalidRole | A Cluster-scoped role that is no ClusterRole makes the stage return a nil error: unwanted bindings stay, later roles get none, and the Application is reported Ready. | comment at 555 |
| ForeignRace | An object somebody else creates under the name after the ownership check is patched or deleted. | error at 585 |
| KeptSchedule | An edit of the image that keeps the schedule keeps the job of the old spec: the new image's cache entry is never dropped, updates stop. | README.md 21 |
| DeadHandle | A refused schedule removes the job and leaves its handle; going back to the former schedule makes no job. | cronwatcher_test.go 92 |

What the passing runs leave out on account of these: `Updates` has no edit that keeps the
schedule (KeptSchedule) and no refused schedule (DeadHandle); `Lifecycle` has a refused
schedule but no edit; in `Stages` the ClusterRoleBinding cache does not lag (LagOrphan); no
passing run checks `ForeignUntouched`. `AtRestMeansSettled` holds in `Stages` although the spec
with the invalid role never revokes a binding, because no other spec there grants one.

### Known limits

Seen while modelling, and left without a run of their own:

- CronJobs have no `Owns` (application_controller.go 661-668). A CronJob that the stale list
  misses stays until something else enqueues the Application. The runs therefore keep
  "CronJob" out of `LaggingKinds` and `Meddled`; with either, `AtRestMeansSettled` fails.
- The default of `--default-update-schedule` (main.go 72) has six fields, where gocron's
  `Cron` takes five: Applications without a schedule get no job and do not follow a push,
  unless the flag is set, as the shipped manifest does. `AutoUpdate` fails with a
  `DefaultSchedule` outside `ValidSchedules`.
- Every turn of the watch loop makes a new `time.After` of 30 s (cronwatcher.go 81). A job
  that ticks more often, such as "@every 10s", re-arms it for ever and schedules are no longer
  reconciled. The fairness of `TimerFires` excludes it.
- A lookup under way when the webhook drops the cached image stores the older one after it
  (cronwatcher.go 131). The reconciliation the webhook asked for then finds that; the next
  tick of the cron job repairs it, which is what `AutoUpdate` shows.
- The cache key is the whole image spec. A spec written again before `KeepOnly` has pruned its
  entry finds the image cached for it long ago (cronwatcher.go 117), until the next tick.
- While the watch loop waits for the controller, goroutines of the webhook pile up behind it
  without a bound (cronwatcher.go 185).
- A tag that is a version and is moved between the two calls of a lookup gives a pair that never
  was the answer, as does a list of several pages; hence the condition on `Movable` in the
  proofs. Two tags of one version are chosen from arbitrarily: `sort.Sort` is not stable.
- A repository that does not parse panics on the worker (imageref.go 26) and ends the process,
  after every restart again; the schema of the CRD does not exclude it.
- hostNetwork and the security contexts are written when set and never taken back
  (deployment.go 47 and 88-96): `AsIfNew` leaves them out. A host port is never changed after
  the port was made.
- A service port keeps its number when the spec renumbers the port, which
  is what `StableAddresses` asks for; a number that has moved to another name is rejected by the
  API server for ever, as the old port still has it (service.go 49). `outcome` is then "rejected"
  and the properties, which speak of Reconciles that succeeded, say nothing.
- Ports are told apart by name only (service.go 41, deployment.go 114), and nothing makes an
  Application name them or give each a name of its own. An unnamed port of a Service has its
  number for a target, which the API server fills in and the next Reconcile takes back: the
  Service is patched every time, and the target does not follow an edit of the container port.
  Of two ports of one name a new object is rejected with, an edited one gets the last, without a
  word. The instance has only named ports; the theorems about ports say so (`PortsNamed`).
- An authentication service that is called as the Application's own Service, or an authentication
  middleware that is also listed among the ordinary ones, would blur what `PortsLeadHome` and
  `RoutedAsAsked` speak of; the theorems exclude both.
- CronJobs have no call that completes defaults, so every Reconcile patches them;
  `NothingToPatch` leaves them out. They are not watched, so this does not go on for ever.
- `readOnly` of a volume (application_types.go 273) is read by no builder.
- The API calls the entries of `excludePrefixes` path prefixes (application_types.go 321), all of
  them. The code takes only an entry with a trailing slash for a prefix, any other for one exact
  path (ingress_route.go 137-141), and so does its test (ingress_route_test.go 206):
  "/metrics" leaves "/metrics/x" behind authentication. `RoutedAsAsked` states what code and test
  do, the stricter of the two, and shows nothing about the comment.
- A path that is excluded from authentication and below its prefix is left open.
- `WithAuthenticatedRegistryClient` builds a client with the image pull secrets and does not give
  it to the finder (imagefinder.go 52), which goes on with the anonymous one it was made with
  (imagefinder.go 17). Authentication is not modelled.
- Names of two Applications can be the same (names.go 62 and 90): see `ClusterNamesCollide` and
  `ServiceNamesCollide`. The second meets an object it does not own, is `Obstructed` for ever,
  and is not told why but by the error.

Each property of a passing run has a mutant in `PROJECT.json`: a variant of a definition
(`EntryWithoutCleanup`, `ReturnSwallows`, `StillScheduled`, ...) placed before it in the
module, with which TLC finds the property violated.

## Fairness

`Reconciler`: the worker (`WF_vars(Reconcile)`: controller-runtime runs a request that is
queued and Go runs the goroutine), each informer (`SyncApp`, `SyncObject`), the garbage
collector. Users, third parties, failures and crashes have none and are bounded, which is
what "in the end" means. `Converges` excuses an Application that is `Obstructed`: a malformed
spec, or a name in somebody else's hands, makes the same stage fail every time.

`Builders` and `ImageFinder` have no liveness properties and no fairness.

`ImageWatcher`: the manager starts its controller in the end (the process is elected leader; a
stand-by does nothing); each goroutine's next step is weakly fair; `Work` is one goroutine, so is the
loop. `select` picks at random among ready cases, hence strong fairness of `List` and
`Receive`. Cron jobs tick for ever. The timer is made anew each turn of the loop, so nothing is
certain of it in general; strong fairness of `TimerFires` is justified when ticks come in
bursts with more than 30 s between them, since then a turn of the loop lasts long enough again
and again: cron schedules have full minutes. Descriptors such as `@every 10s` are the exception
(Known limits). Users, registries, failures and restarts have no fairness.

## Proofs

Every invariant and every action property that a passing run checks is also a theorem, for all
values of the constants that meet the assumptions below. A proviso is an assumption of a theorem
that the code does not guarantee; each is met by a run that checks the property, and each is
needed for the reason given with it.

**Reconciler**, for every set of objects and specs, every sequence of stages and every budget:

- `TypeCorrect`: `Spec => []TypeOK`. `TypeOK` is not inductive: that `Head(ensure)` is an object,
  that the final status has a Deployment in `want`, or that an update makes a typed Application
  needs the link between program counter and locals (`Control`, `LastStage`) and between
  resourceVersions and contents (`Versions`). `TypeInv` is their conjunction.
- `WritesUnderFinalizer`: `Spec => WritesOnlyUnderFinalizer`. `FinalizerHeld`: if the cache or
  the copy of a stage shows an Application that holds the finalizer and is not deleted, the API
  server has that incarnation, with the finalizer. The finalizer goes only in `RemoveFinalizer`,
  from a copy that is marked for deletion; the cache it was taken from is then past the point
  where it could show the incarnation alive (`Doomed`), and a new incarnation has a new uid.
- `GrantsRemoved`: `"ClusterRoleBinding" \notin LaggingKinds` implies `Spec => []NoOrphanedGrants`.
  `CleanupInv`: during the cleanup every binding that exists is still in `stale`, and there is
  none once `pc = "removeFinalizer"`. The proviso is needed: LagOrphan.
- `GrantsImplemented`: under the same proviso, `Spec => GrantsFollowProtocol`: each step of the
  Reconciler maps to a step of `AccessGrants` or a stutter. The invariant is that of
  `GrantsRemoved` and `Marked`, that an Application marked for deletion still has its finalizer:
  without it the protocol would be left by an Application that is "unprotected" and leaving.
- `RestIsSettled` (`SettledProofs`): `Spec => []AtRestMeansSettled`. The property speaks of the
  moment of rest only; the invariant `SInv` says what a Reconcile has achieved at every moment.
  As long as a request is queued, the Application's cache is behind, or an event that will queue a
  request is on its way (`Pending`), nothing has to be right. Otherwise the copy is the
  Application as it is and the stages done, as well as what this stage has taken off its list, are
  as the spec asks (`Accounted`, `Progress`). Around it: caches without news are up to date
  (`Synced`), news that do not name the Application are about objects it does not own (`NewsTold`),
  the list has only what the stage is about (`Agenda`), and the object a patch is about is as it
  was when the patch was made, unless there will be another Reconcile (`Basis`).
  Provisos: roles are valid (`RolesValid`), or a stage ends early and reports success
  (InvalidRole); CronJobs are neither touched by others nor read from a lagging cache
  (`CronJobsKept`), as their events queue nothing (Known limits). The run Drift meets both; Stages
  has an invalid role, and its property is only model-checked.
- `AccessFirst` (`WorkloadProofs`): `Spec => AccessBeforeWorkload`. `AccessInPlace`: each account
  and binding that the copy's spec wants in a stage that is done is there, with this incarnation
  for its owner. Garbage collection takes only what belongs to an incarnation that is gone, and
  `FinalizerHeld` keeps this one. Cluster-scoped objects have no owner reference and are safe
  from it. Provisos: no role follows an invalid one (`RolesLast`), at which the stage ends; and
  accounts and bindings are not touched by others nor read from a cache that is behind
  (`AccessKept`): what such a cache shows as in place may be gone.

**ImageWatcher**, for every finite set of Applications, every set of image specs and every budget:

- `TypeCorrect`: `Spec => []TypeOK`, from `LoopLocals`: UpsertJob only sees Applications that
  were listed, and the loop passes on an Application.
- `JobsHaveHandles`: `Spec => []NoLeakedJobs`. The property is inductive once the types are
  known: a job that is replaced or dropped is removed through its handle, and the invariant says
  that there is no other. It holds with refused schedules too; what then goes wrong is that a
  handle has no job (DeadHandle).

**Builders**, for every set of specs and flags and histories of every length:

- `PortProofs` has what the merges compute. `SelectedIs` says which ports `Selected` selects;
  `MergeIs` that a merge has the ports of the object that have a namesake, updated, and the new
  ones; `MergeCarries` that the result has exactly the names asked for, each once, with the
  fields that are overwritten (`Carries`); `CarriesKept` that a merge leaves a list alone that
  carries what is asked for already, which is why nothing is left to patch; `Extension` that
  node ports can always be given without taking one that is in use.
- `BInv(K)`: every object is one a stage may find (`Found`: unique names and
  node ports), and for each kind of `K`, once its stage is behind, in this Reconcile or in
  one that succeeded, the object has everything that the copy's spec decides (`Made`). `Made`
  says nothing of what merges keep, so it does not matter what the object was before: history
  is forgotten here. It is proved inductive once, by a lemma for each kind, and used with the
  kinds a theorem is about.
- `TypeCorrect` and `AddressesStable` (`Spec => StableAddresses`) hold as they are.
- `EditedAsNew` (`AsIfNew`) and `NothingLeftToPatch` (`NothingToPatch`): provided that ports have
  names, each its own (`PortsNamed`), for the merges tell them apart by nothing else.
- `PortsReached` (`PortsLeadHome`): provided also that no flag calls the authentication service
  "app", the model's name for the Application's own Service.
- `Routed` (`RoutedAsAsked`): provided that nobody lists the authentication middleware among the
  ordinary ones; else even the routes past authentication have it. It needs no names of ports.

**ImageFinder**, for every set of tags and versions, every set of specs and every budget:

- `TypeCorrect`, `NotFoundJustified` (`NotFoundIsTrue`) and `ErrorsJustified`
  (`ErrorsHaveReason`), without a proviso: tags may move. `Recorded`: `atOnce` has what could be
  answered now; `Chosen`: the tag whose digest is fetched is the one asked for, or a version
  which is still there or has been removed during the call (`excused`).
- `AnswersAtomic`: `Spec => []AtomicAnswer`, provided no tag that is a version is moved
  (`Movable \cap Versions = {}`; Known limits). `Picked`: the tag chosen from the list was the
  newest at a moment of the call, so if it still exists its image, which cannot have changed, is
  in `atOnce`. `FirstIsNewest` says that the first acceptable tag of a descending list is a newest
  one, whatever order equals are in.

**Naming**, for every set of words: `OwnNamesDiffer` (two objects of one Application and kind
never share a name, which `Reconciler` assumes of its objects), `ClusterNamesCollide` and
`ServiceNamesCollide` (two Applications may share one).

Assumptions: those named in the modules, which TLC evaluates in every run. They say that sentinels
are no data, that a spec of `Reconciler` wants objects of the right kinds and one Deployment, that
stages come in the order of the code, that versions are ranked, that specs and flags have the
types of the API and the list map of the CRD, and that node ports do not run out.

Only model-checked: `Converges`, `DeletionCompletes`, `SchedulesFollow`, `AutoUpdate` and
`CachePruned`. They are liveness, which this prover does not reach; the theorems say nothing of it.

How the proofs get round the prover's limits: what a recursive function computes is proved by
induction on sets (`PortProofs!Induction`: a set that has 0 and all successors has every number)
or from a least element (`ImageFinderProofs!Least`), as the library's induction theorems take
operators, which cannot be instantiated. `SelectSeq` is opaque to the provers, so `Ports` selects
with a function of its own.

## Plan

Done: the Reconciler with its refinement of `AccessGrants`, the image watcher with a manager that
starts late, the builders over a history of specs, the image finder, naming; theorems for every
safety property of the passing runs.

Next, in this order:

1. Proofs: the image watcher's safety side of `SchedulesFollow` (a handle without a job comes
   only from a refused schedule), first as an invariant of a run; `AtRestMeansSettled` with
   invalid roles in specs that grant nothing they would have to revoke, as in Stages.
2. `Rollout`: Reconciler's worker composed with ImageWatcher, to state that the image answered
   to a stage is the one the object gets in the end under interference. At present each
   takes the other as an action of its environment (`Publish` in Reconciler; `Take`, `CacheGet`,
   `Fetch` and `CacheSet` in ImageWatcher).
3. Two Applications that meet on a name, in Reconciler.

## Not modelled

- Command-line flags (`internal/flag`): parsing of one string at a time; what the flags say is an
  input of `Builders` (`Configs`) and of `ImageWatcher` (`DefaultSchedule`).
- The registry client beyond its two calls, which answer or fail: HTTP, authentication, paging.
- The probes of `internal/k8s`: a discovery call at start; `Stages` is what they leave.
- Generated deep copies, metrics (counters only), test utilities.
- Labels and selectors, event recording, logs, the wording of conditions and errors.
- Two replicas at once: leader election is relied on.
