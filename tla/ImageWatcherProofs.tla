------------------------- MODULE ImageWatcherProofs -------------------------
(***************************************************************************)
(* Type correctness of ImageWatcher, and that gocron's jobs are those the  *)
(* scheduler has handles on, for all Applications, specs and budgets.      *)
(***************************************************************************)
EXTENDS ImageWatcher, FiniteSetTheorems, TLAPS

\* What the type invariant needs besides: an Application that UpsertJob has yet to see was
\* listed with a spec, and the loop passes on an Application.
LoopLocals ==
  /\ \A a \in todo : listed[a] # NoSpec
  /\ loop = "forward" => event \in Apps

TypeInv == TypeOK /\ LoopLocals

-----------------------------------------------------------------------------
(***************************************************************************)
(* Helpers                                                                 *)
(***************************************************************************)

\* An image spec names one of the repositories.
LEMMA RepoOfSpec == \A s \in ImageSpecs : s.repo \in Repos
BY DEF Repos

\* Adding to a work queue of Applications leaves one.
LEMMA AddType ==
  ASSUME NEW q \in Seq(Apps), NEW a \in Apps
  PROVE  Add(q, a) \in Seq(Apps)
BY DEF Add

\* Spending an event leaves a budget.
LEMMA SpendType ==
  ASSUME left \in [Events -> Nat], NEW e \in Events, Spend(e)
  PROVE  left' \in [Events -> Nat]
BY DEF Spend, Events

\* A listing that fails leaves a budget.
LEMMA CannotListType ==
  ASSUME left \in [Events -> Nat], CannotList
  PROVE  left' \in [Events -> Nat]
BY SpendType DEF CannotList, Events

\* An enumeration of a set of Applications is a sequence of them.
LEMMA EnumerationType ==
  ASSUME NEW S \in SUBSET Apps, NEW q \in SetToSeqs(S)
  PROVE  q \in Seq(Apps)
<1>1. Cardinality(S) \in Nat
  BY WatcherAssumption, FS_Subset, FS_CardinalityType
<1>2. q \in [1..Cardinality(S) -> Apps]
  BY DEF SetToSeqs
<1> QED  BY <1>1, <1>2

-----------------------------------------------------------------------------
(***************************************************************************)
(* Types, one action at a time                                             *)
(***************************************************************************)

\* The watcher starts with its types in order.
LEMMA TypeInit == Init => TypeInv
<1> SUFFICES ASSUME Init PROVE TypeInv
  OBVIOUS
<1>1. /\ newest \in [Repos -> Nat]
      /\ imageCache \in [ImageSpecs -> Nat]
      /\ left \in [Events -> Nat]
  BY WatcherAssumption DEF Init
<1>2. /\ handles \in [Apps -> Jobs \cup {NoJob}]
      /\ spec \in [Apps -> ImageSpecs \cup {NoSpec}]
      /\ listed \in [Apps -> ImageSpecs \cup {NoSpec}]
  BY DEF Init
<1>5. deployed \in [Apps -> [1..Workloads -> Images \cup {NoSpec}]]
  BY DEF Init, Nothing
<1>3. queue \in Seq(Apps) /\ waiting \in Seq(Senders)
  BY DEF Init
<1>4. worker \in Workers
  BY DEF Init, Workers
<1> QED
  BY <1>1, <1>2, <1>3, <1>4, <1>5 DEF Init, TypeInv, TypeOK, LoopLocals

\* The end of a turn of the loop leaves its locals typed.
LEMMA NextTurnType ==
  ASSUME NextTurn
  PROVE  /\ loop' = "select"
         /\ timer' \in BOOLEAN
         /\ listed' \in [Apps -> ImageSpecs \cup {NoSpec}]
         /\ todo' = {}
         /\ event' \in Apps \cup {NoApp}
BY DEF NextTurn

\* The actions of the watch loop and of the timer.
LEMMA TypeLoop ==
  ASSUME TypeInv, TimerFires \/ Loop
  PROVE  TypeInv'
<1> USE DEF TypeInv, TypeOK, LoopLocals
<1>1. CASE TimerFires
  BY <1>1 DEF TimerFires, envVars, jobVars, sendVars, workVars
<1>2. CASE List
  <2>1. left' \in [Events -> Nat]
    BY <1>2, CannotListType DEF List
  <2>2. CASE NextTurn
    BY <1>2, <2>1, <2>2, NextTurnType DEF List, jobVars, sendVars, workVars
  <2>3. CASE ~NextTurn
    BY <1>2, <2>1, <2>3 DEF List, jobVars, sendVars, workVars
  <2> QED  BY <2>2, <2>3
<1>3. ASSUME NEW a \in Apps, UpsertJob(a) PROVE TypeInv'
  <2> DEFINE job == [app |-> a, spec |-> listed[a]]
  <2>1. job \in Jobs
    BY <1>3 DEF UpsertJob, Jobs
  <2>2. jobs' \subseteq Jobs /\ handles' \in [Apps -> Jobs \cup {NoJob}]
    BY <1>3, <2>1 DEF UpsertJob, Unscheduled
  <2> QED
    BY <1>3, <2>2 DEF UpsertJob, envVars, sendVars, workVars
<1>4. CASE KeepJobs
  <2>1. jobs' \subseteq Jobs /\ handles' \in [Apps -> Jobs \cup {NoJob}]
    BY <1>4 DEF KeepJobs, Unscheduled
  <2> QED
    BY <1>4, <2>1 DEF KeepJobs, envVars, sendVars, workVars
<1>5. CASE KeepOnly
  <2>1. imageCache' \in [ImageSpecs -> Nat]
    BY <1>5 DEF KeepOnly, Pruned
  <2> QED
    BY <1>5, <2>1, NextTurnType DEF KeepOnly, envVars, jobVars, sendVars, workVars
<1>6. CASE Receive
  <2>1. Head(waiting) \in Senders /\ Tail(waiting) \in Seq(Senders)
    BY <1>6 DEF Receive
  <2>2. event' \in Apps /\ waiting' \in Seq(Senders)
    BY <1>6, <2>1 DEF Receive, Senders
  <2> QED
    BY <1>6, <2>2 DEF Receive, envVars, jobVars, workVars
<1>7. CASE Forward
  <2>1. queue' \in Seq(Apps)
    BY <1>7, AddType DEF Forward
  <2> QED
    BY <1>7, <2>1, NextTurnType DEF Forward, envVars, jobVars, sendVars, workVars
<1> QED  BY <1>1, <1>2, <1>3, <1>4, <1>5, <1>6, <1>7 DEF Loop

\* The goroutines that drop cached images, and the start of the scheduler.
LEMMA TypeSenders ==
  ASSUME TypeInv,
         \/ StartScheduler
         \/ \E j \in jobs : Tick(j)
         \/ \E s \in senders : Clear(s)
         \/ \E h \in hooks : Webhook(h)
  PROVE  TypeInv'
<1> USE DEF TypeInv, TypeOK, LoopLocals
<1>1. CASE StartScheduler
  BY <1>1 DEF StartScheduler, envVars, sendVars, loopVars, workVars
<1>2. ASSUME NEW j \in jobs, Tick(j) PROVE TypeInv'
  <2>1. [app |-> j.app, spec |-> j.spec, push |-> 0] \in Senders
    BY DEF Jobs, Senders
  <2>2. senders' \subseteq Senders
    BY <1>2, <2>1 DEF Tick
  <2> QED
    BY <1>2, <2>2 DEF Tick, envVars, jobVars, loopVars, workVars
<1>3. ASSUME NEW s \in senders, Clear(s) PROVE TypeInv'
  <2>1. imageCache' \in [ImageSpecs -> Nat]
    BY <1>3 DEF Clear, Dropped
  <2>2. waiting' \in Seq(Senders) /\ senders' \subseteq Senders
    BY <1>3 DEF Clear
  <2> QED
    BY <1>3, <2>1, <2>2 DEF Clear, envVars, jobVars, loopVars, workVars
<1>4. ASSUME NEW h \in hooks, Webhook(h) PROVE TypeInv'
  <2>1. \A a \in Apps : spec[a] # NoSpec => [app |-> a, spec |-> spec[a], push |-> h.push] \in Senders
    BY DEF Senders
  <2>2. senders' \subseteq Senders
    BY <1>4, <2>1 DEF Webhook
  <2>3. left' \in [Events -> Nat]
    BY <1>4, CannotListType DEF Webhook
  <2>4. hooks' \subseteq [repo : Repos, push : Nat]
    BY <1>4 DEF Webhook
  <2> QED
    BY <1>4, <2>2, <2>3, <2>4 DEF Webhook, jobVars, loopVars, workVars
<1> QED  BY <1>1, <1>2, <1>3, <1>4

\* An idle worker.
LEMMA IdleWorks == Idle \in Workers
BY DEF Workers

\* A worker at the cache or at the registry.
LEMMA Looking == [at : {"get", "fetch"}, app : Apps, spec : ImageSpecs, load : 1..Workloads] \subseteq Workers
BY DEF Workers

\* A worker that has the answer.
LEMMA Storing == [at : {"set"}, app : Apps, spec : ImageSpecs, load : 1..Workloads, version : Nat] \subseteq Workers
BY DEF Workers

\* What the worker holds while it looks an image up.
LEMMA WorkerFields ==
  ASSUME TypeOK, worker # Idle
  PROVE  /\ worker.app \in Apps /\ worker.spec \in ImageSpecs
         /\ worker.load \in 1..Workloads /\ worker.load \in Nat /\ Workloads \in Nat
         /\ worker.at = "set" => worker.version \in Nat
         /\ worker.at = "get" =>
              worker \in [at : {"get", "fetch"}, app : Apps, spec : ImageSpecs, load : 1..Workloads]
<1>1. CASE worker \in [at : {"get", "fetch"}, app : Apps, spec : ImageSpecs, load : 1..Workloads]
  BY <1>1, WatcherAssumption
<1>2. CASE worker \in [at : {"set"}, app : Apps, spec : ImageSpecs, load : 1..Workloads, version : Nat]
  BY <1>2, WatcherAssumption
<1> QED  BY <1>1, <1>2 DEF TypeOK, Workers

\* What is deployed is an image; the worker looks up the next one or is idle again.
LEMMA DeployType ==
  ASSUME TypeOK, worker # Idle, NEW v \in Nat, Deploy([repo |-> worker.spec.repo, version |-> v])
  PROVE  /\ deployed' \in [Apps -> [1..Workloads -> Images \cup {NoSpec}]]
         /\ worker' \in Workers
<1> DEFINE image == [repo |-> worker.spec.repo, version |-> v]
<1>1. /\ worker.app \in Apps /\ worker.spec \in ImageSpecs
      /\ worker.load \in 1..Workloads /\ worker.load \in Nat /\ Workloads \in Nat
  BY WorkerFields
<1>2. image \in Images
  BY <1>1, RepoOfSpec DEF Images
<1>3. deployed \in [Apps -> [1..Workloads -> Images \cup {NoSpec}]]
  BY DEF TypeOK
<1> HIDE DEF image
<1>4. \/ deployed' = deployed
      \/ deployed' = [deployed EXCEPT ![worker.app][worker.load] = image]
  BY DEF Deploy, image
<1>5. deployed' \in [Apps -> [1..Workloads -> Images \cup {NoSpec}]]
  <2> DEFINE row == deployed[worker.app]
             Row == [1..Workloads -> Images \cup {NoSpec}]
  <2>1. row \in Row
    BY <1>1, <1>3
  <2>2. [row EXCEPT ![worker.load] = image] \in Row
    BY <1>1, <1>2, <2>1
  <2> HIDE DEF Row
  <2>3. CASE deployed' = [deployed EXCEPT ![worker.app][worker.load] = image]
    BY <1>3, <2>2, <2>3 DEF Row
  <2> QED  BY <1>3, <1>4, <2>3
<1>6. CASE worker.load = Workloads
  <2>1. worker' = Idle
    BY <1>6 DEF Deploy
  <2> QED  BY <1>5, <2>1, IdleWorks
<1>7. CASE worker.load # Workloads
  <2>1. worker.load + 1 \in 1..Workloads
    BY <1>1, <1>7
  <2>2. worker' = [at |-> "get", app |-> worker.app, spec |-> worker.spec, load |-> worker.load + 1]
    BY <1>7 DEF Deploy
  <2>3. worker' \in [at : {"get", "fetch"}, app : Apps, spec : ImageSpecs, load : 1..Workloads]
    BY <1>1, <2>1, <2>2
  <2> QED  BY <1>5, <2>3, Looking
<1> QED  BY <1>6, <1>7

\* The controller's worker, and the start of the controller.
LEMMA TypeWork ==
  ASSUME TypeInv, Work \/ StartController
  PROVE  TypeInv'
<1> USE DEF TypeInv, TypeOK, LoopLocals
<1>1. CASE Take
  <2>1. Head(queue) \in Apps /\ queue' \in Seq(Apps)
    BY <1>1 DEF Take
  <2>2. ASSUME spec[Head(queue)] # NoSpec
        PROVE  [at |-> "get", app |-> Head(queue), spec |-> spec[Head(queue)], load |-> 1] \in Workers
    BY <2>1, <2>2, WatcherAssumption DEF Workers
  <2>3. worker' \in Workers
    BY <1>1, <2>1, <2>2 DEF Take, Workers
  <2> QED
    BY <1>1, <2>1, <2>3 DEF Take, envVars, jobVars, sendVars, loopVars
<1>2. CASE CacheGet
  <2>0. worker # Idle
    BY <1>2 DEF CacheGet, Idle
  <2>1. worker \in [at : {"get", "fetch"}, app : Apps, spec : ImageSpecs, load : 1..Workloads]
    BY <1>2, <2>0, WorkerFields DEF CacheGet
  <2>2. worker.spec \in ImageSpecs /\ imageCache[worker.spec] \in Nat
    BY <2>1
  <2>3. worker' \in Workers /\ deployed' \in [Apps -> [1..Workloads -> Images \cup {NoSpec}]]
    <3>1. CASE imageCache[worker.spec] # 0
      BY <1>2, <2>0, <2>2, <3>1, DeployType DEF CacheGet
    <3>2. CASE imageCache[worker.spec] = 0
      <4>1. [worker EXCEPT !.at = "fetch"]
              \in [at : {"get", "fetch"}, app : Apps, spec : ImageSpecs, load : 1..Workloads]
        BY <2>1
      <4> QED  BY <1>2, <3>2, <4>1 DEF CacheGet, Workers
    <3> QED  BY <3>1, <3>2
  <2> QED
    BY <1>2, <2>3 DEF CacheGet, envVars, jobVars, sendVars, loopVars
<1>3. CASE Fetch
  <2>1. worker.app \in Apps /\ worker.spec \in ImageSpecs /\ worker.load \in 1..Workloads
    BY <1>3, WorkerFields DEF Fetch, Idle
  <2>2. newest[worker.spec.repo] \in Nat
    BY <2>1, RepoOfSpec
  <2>3. queue' \in Seq(Apps)
    BY <1>3, <2>1, AddType DEF Fetch
  <2>5. [at |-> "set", app |-> worker.app, spec |-> worker.spec, load |-> worker.load,
         version |-> newest[worker.spec.repo]] \in Workers
    <3>1. [at |-> "set", app |-> worker.app, spec |-> worker.spec, load |-> worker.load,
           version |-> newest[worker.spec.repo]]
             \in [at : {"set"}, app : Apps, spec : ImageSpecs, load : 1..Workloads, version : Nat]
      BY <2>1, <2>2
    <3> QED  BY <3>1, Storing
  <2>6. worker' \in Workers
    BY <1>3, <2>5, IdleWorks DEF Fetch
  <2>4. left' \in [Events -> Nat]
    BY <1>3, SpendType DEF Fetch, Events
  <2> QED
    BY <1>3, <2>3, <2>4, <2>6 DEF Fetch, jobVars, sendVars, loopVars
<1>4. CASE CacheSet
  <2>0. worker # Idle
    BY <1>4 DEF CacheSet, Idle
  <2>1. worker.spec \in ImageSpecs /\ worker.version \in Nat
    BY <1>4, <2>0, WorkerFields DEF CacheSet
  <2>2. worker' \in Workers /\ deployed' \in [Apps -> [1..Workloads -> Images \cup {NoSpec}]]
    BY <1>4, <2>0, <2>1, DeployType DEF CacheSet
  <2>3. imageCache' \in [ImageSpecs -> Nat]
    BY <1>4, <2>1 DEF CacheSet
  <2> QED
    BY <1>4, <2>2, <2>3 DEF CacheSet, envVars, jobVars, sendVars, loopVars
<1>5. CASE StartController
  <2>1. queue' \in Seq(Apps)
    BY <1>5, EnumerationType DEF StartController
  <2> QED
    BY <1>5, <2>1 DEF StartController, envVars, jobVars, sendVars, loopVars, workVars
<1> QED  BY <1>1, <1>2, <1>3, <1>4, <1>5 DEF Work

\* Users, registries and the process.
LEMMA TypeEnvironment ==
  ASSUME TypeInv,
         \/ Restart
         \/ \E r \in Repos : Publish(r)
         \/ \E a \in Apps, s \in ImageSpecs \cup {NoSpec} : SetSpec(a, s)
  PROVE  TypeInv'
<1> USE DEF TypeInv, TypeOK, LoopLocals
<1>1. CASE Restart
  <2>1. queue' \in Seq(Apps)
    BY <1>1 DEF Restart
  <2>2. left' \in [Events -> Nat]
    BY <1>1, SpendType DEF Restart, Events
  <2>3. worker' \in Workers
    BY <1>1 DEF Restart, Workers
  <2>4. waiting' \in Seq(Senders)
    BY <1>1 DEF Restart
  <2>5. handles' \in [Apps -> Jobs \cup {NoJob}] /\ imageCache' \in [ImageSpecs -> Nat]
    BY <1>1 DEF Restart
  <2> QED
    BY <1>1, <2>1, <2>2, <2>3, <2>4, <2>5, NextTurnType DEF Restart
<1>2. ASSUME NEW r \in Repos, Publish(r) PROVE TypeInv'
  <2>1. left' \in [Events -> Nat]
    BY <1>2, SpendType DEF Publish, Events
  <2>2. newest' \in [Repos -> Nat] /\ hooks' \subseteq [repo : Repos, push : Nat]
    BY <1>2 DEF Publish
  <2> QED
    BY <1>2, <2>1, <2>2 DEF Publish, jobVars, sendVars, loopVars, workVars
<1>3. ASSUME NEW a \in Apps, NEW s \in ImageSpecs \cup {NoSpec}, SetSpec(a, s) PROVE TypeInv'
  <2>1. left' \in [Events -> Nat]
    <3>1. PICK e \in Events : Spend(e)
      BY <1>3 DEF SetSpec, Events
    <3> QED  BY <3>1, SpendType
  <2>2. queue' \in Seq(Apps)
    BY <1>3, AddType DEF SetSpec
  <2>3. deployed' \in [Apps -> [1..Workloads -> Images \cup {NoSpec}]]
    <3>1. Nothing \in [1..Workloads -> Images \cup {NoSpec}]
      BY DEF Nothing
    <3> QED  BY <1>3, <3>1 DEF SetSpec
  <2> QED
    BY <1>3, <2>1, <2>2, <2>3 DEF SetSpec, jobVars, sendVars, loopVars
<1> QED  BY <1>1, <1>2, <1>3

\* Every step keeps the types.
LEMMA TypeStep ==
  ASSUME TypeInv, [Next]_vars
  PROVE  TypeInv'
<1>1. CASE Next
  BY <1>1, TypeLoop, TypeSenders, TypeWork, TypeEnvironment DEF Next
<1>2. CASE UNCHANGED vars
  BY <1>2 DEF TypeInv, TypeOK, LoopLocals, vars, envVars, jobVars, sendVars, loopVars, workVars
<1> QED  BY <1>1, <1>2

\* Every variable has its type in every reachable state.
THEOREM TypeCorrect == Spec => []TypeOK
<1>1. Spec => []TypeInv
  BY TypeInit, TypeStep, PTL DEF Spec
<1>2. TypeInv => TypeOK
  BY DEF TypeInv
<1> QED  BY <1>1, <1>2, PTL

-----------------------------------------------------------------------------
(***************************************************************************)
(* Jobs and handles                                                        *)
(***************************************************************************)

\* UpsertJob and KeepJobs, the only steps of the scheduler that touch gocron's jobs, leave
\* none without its handle: a job they replace or drop is removed through the handle, and
\* the invariant says that it has no job beside that.
LEMMA NoLeakedJobsStep ==
  ASSUME TypeInv, NoLeakedJobs, [Next]_vars
  PROVE  NoLeakedJobs'
<1> USE DEF NoLeakedJobs
<1>1. ASSUME NEW a \in Apps, UpsertJob(a) PROVE NoLeakedJobs'
  BY <1>1 DEF UpsertJob, Unscheduled, TypeInv, TypeOK, Jobs
<1>2. CASE KeepJobs
  BY <1>2 DEF KeepJobs, Unscheduled, TypeInv, TypeOK, Jobs
<1>3. CASE StartScheduler
  BY <1>3 DEF StartScheduler
<1>4. CASE Restart
  BY <1>4 DEF Restart
<1>5. CASE UNCHANGED jobVars
  BY <1>5 DEF jobVars
<1>6. (TimerFires \/ List \/ KeepOnly \/ Receive \/ Forward \/ Work \/ StartController) => UNCHANGED jobVars
  BY DEF TimerFires, List, KeepOnly, Receive, Forward, Work, Take, CacheGet, Fetch, CacheSet,
         StartController
<1>7. \A j \in jobs : Tick(j) => UNCHANGED jobVars
  BY DEF Tick
<1>8. \A s \in senders : Clear(s) => UNCHANGED jobVars
  BY DEF Clear
<1>9. \A h \in hooks : Webhook(h) => UNCHANGED jobVars
  BY DEF Webhook
<1>10. \A r \in Repos : Publish(r) => UNCHANGED jobVars
  BY DEF Publish
<1>11. \A a \in Apps, s \in ImageSpecs \cup {NoSpec} : SetSpec(a, s) => UNCHANGED jobVars
  BY DEF SetSpec
<1>12. UNCHANGED vars => UNCHANGED jobVars
  BY DEF vars
<1> QED
  BY <1>1, <1>2, <1>3, <1>4, <1>5, <1>6, <1>7, <1>8, <1>9, <1>10, <1>11, <1>12 DEF Next, Loop

\* gocron never runs a job the scheduler has no handle on, whatever is edited, refused,
\* removed or restarted.
THEOREM JobsHaveHandles == Spec => []NoLeakedJobs
<1>1. Init => NoLeakedJobs
  BY DEF Init, NoLeakedJobs
<1>2. Spec => []TypeInv
  BY TypeInit, TypeStep, PTL DEF Spec
<1> QED  BY <1>1, <1>2, NoLeakedJobsStep, PTL DEF Spec

=============================================================================
