---------------------------- MODULE ImageWatcher ----------------------------
(***************************************************************************)
(* cronImageWatcher, cronScheduler and the image cache (internal/images/   *)
(* cronwatcher.go, cache.go), with as much of the controller as calls      *)
(* FindImage.                                                              *)
(*                                                                         *)
(* Four kinds of goroutines share the image cache: the watch loop, which   *)
(* keeps the cron jobs in step with the Applications and forwards events;  *)
(* one cron job per Application; the goroutines a webhook starts; and the  *)
(* controller's worker, which looks images up.  A cron job and a webhook   *)
(* goroutine do the same two things (enqueueReconciliation): drop the      *)
(* cached image, then send the Application over an unbuffered channel to   *)
(* the watch loop, which passes it on to the work queue.                   *)
(***************************************************************************)
EXTENDS Integers, Sequences, SequencesExt

CONSTANTS
  Apps,            \* names of Applications
  ImageSpecs,      \* records [repo, schedule]: the image specs users write
  DefaultSchedule, \* --default-update-schedule
  ValidSchedules,  \* the schedules that gocron can parse
  Hooked,          \* repositories whose registry calls the webhook
  Workloads,       \* how many workloads an Application has: its CronJobs and its Deployment
  Budget,          \* how often each environment event may happen
  NoSchedule, NoSpec, NoJob, NoApp    \* "there is none"

Repos == { s.repo : s \in ImageSpecs }

\* "any" bounds the total.
Events == {"create", "edit", "delete", "publish", "fault", "restart", "any"}

\* scheduleOrDefault
Schedule(s) == IF s.schedule = NoSchedule THEN DefaultSchedule ELSE s.schedule

\* What gocron runs: the Application as it was when the job was made.
Jobs == [app : Apps, spec : ImageSpecs]

\* Goroutines inside enqueueReconciliation: of a cron job (push 0), or started by the
\* webhook for a push.
Senders == [app : Apps, spec : ImageSpecs, push : Nat]

ASSUME WatcherAssumption ==
  /\ ImageSpecs \subseteq [repo : Repos, schedule : { s.schedule : s \in ImageSpecs }]
  /\ NoSpec \notin ImageSpecs
  /\ NoJob \notin Jobs
  /\ NoApp \notin Apps
  /\ IsFiniteSet(Apps)
  /\ Hooked \subseteq Repos
  /\ Workloads \in Nat \ {0}
  /\ Budget \in [Events -> Nat]

VARIABLES
  spec,        \* spec.image of each Application, as the cached client lists it
  newest,      \* the newest image of each repository
  imageCache,  \* the image cached for each image spec; 0 when there is none
  handles,     \* cronScheduler.jobs: per Application the job it should have
  jobs,        \* the jobs gocron runs
  started,     \* cronScheduler.isStarted
  senders,     \* goroutines about to drop a cached image
  waiting,     \* goroutines blocked on updateChan, first come first served
  hooks,       \* pushes the webhook has yet to be told of
  timer,       \* the time.After of this turn of the watch loop has fired
  loop,        \* where the watch loop is
  listed,      \* the Applications reconcileSchedules listed
  todo,        \* the ones UpsertJob has yet to see
  event,       \* the Application the watch loop is passing on
  serving,     \* the manager has started its controller: the cluster's cache is in step,
               \* and this process leads
  queue,       \* the controller's work queue, first come first served
  worker,      \* where the controller's worker is
  deployed,    \* the image each of the Applications' workloads runs, or NoSpec
  left         \* environment events that may still happen

envVars   == << spec, newest, hooks, left >>
jobVars   == << handles, jobs, started >>
loopVars  == << timer, loop, listed, todo, event >>
workVars  == << worker, deployed >>
sendVars  == << senders, waiting >>
vars      == << envVars, imageCache, jobVars, sendVars, loopVars, serving, queue, workVars >>

Images == [repo : Repos, version : Nat]

Idle == [at |-> "idle"]

Workers ==
  {Idle} \cup [at : {"get", "fetch"}, app : Apps, spec : ImageSpecs, load : 1..Workloads]
         \cup [at : {"set"}, app : Apps, spec : ImageSpecs, load : 1..Workloads, version : Nat]

\* No workload runs.
Nothing == [i \in 1..Workloads |-> NoSpec]

TypeOK ==
  /\ spec \in [Apps -> ImageSpecs \cup {NoSpec}]
  /\ newest \in [Repos -> Nat]
  /\ imageCache \in [ImageSpecs -> Nat]
  /\ handles \in [Apps -> Jobs \cup {NoJob}]
  /\ jobs \subseteq Jobs
  /\ senders \subseteq Senders
  /\ waiting \in Seq(Senders)
  /\ started \in BOOLEAN
  /\ hooks \subseteq [repo : Repos, push : Nat]
  /\ timer \in BOOLEAN
  /\ loop \in {"select", "upsert", "keepOnly", "forward"}
  /\ listed \in [Apps -> ImageSpecs \cup {NoSpec}]
  /\ todo \subseteq Apps
  /\ event \in Apps \cup {NoApp}
  /\ serving \in BOOLEAN
  /\ queue \in Seq(Apps)
  /\ worker \in Workers
  /\ deployed \in [Apps -> [1..Workloads -> Images \cup {NoSpec}]]
  /\ left \in [Events -> Nat]

Init ==
  /\ spec = [a \in Apps |-> NoSpec]
  /\ newest = [r \in Repos |-> 1]
  /\ imageCache = [s \in ImageSpecs |-> 0]
  /\ handles = [a \in Apps |-> NoJob]
  /\ jobs = {}
  /\ senders = {}
  /\ waiting = << >>
  /\ started = FALSE
  /\ hooks = {}
  /\ timer = FALSE
  /\ loop = "select"
  /\ listed = [a \in Apps |-> NoSpec]
  /\ todo = {}
  /\ event = NoApp
  /\ serving = FALSE
  /\ queue = << >>
  /\ worker = Idle
  /\ deployed = [a \in Apps |-> Nothing]
  /\ left = Budget

Spend(e) ==
  /\ left[e] > 0 /\ left["any"] > 0
  /\ left' = [k \in Events |-> IF k \in {e, "any"} THEN left[k] - 1 ELSE left[k]]

\* A work queue holds an item once.
Add(q, a) == IF \E i \in DOMAIN q : q[i] = a THEN q ELSE Append(q, a)

-----------------------------------------------------------------------------
(***************************************************************************)
(* The scheduler and the cache, and variants of them that forget a step    *)
(***************************************************************************)

\* gocron's jobs after RemoveByReference on the handles of the Applications as.
StillScheduled(as) == jobs
Unscheduled(as) == jobs \ { handles[a] : a \in as }

\* UpsertJob finds a job on the schedule the listed Application asks for.
HasJob(a) == handles[a] # NoJob
HasSchedule(a) == handles[a] # NoJob /\ Schedule(handles[a].spec) = Schedule(listed[a])

\* cache.Delete
KeptInCache(i) == imageCache
Dropped(i) == [imageCache EXCEPT ![i] = 0]

\* cache.KeepOnly
Unpruned(kept) == imageCache
Pruned(kept) == [i \in ImageSpecs |-> IF i \in kept THEN imageCache[i] ELSE 0]

-----------------------------------------------------------------------------
(***************************************************************************)
(* The watch loop: WatchForNewImages and reconcileSchedules                *)
(***************************************************************************)

\* A turn of the loop is over: select again, with a new time.After.
NextTurn ==
  /\ loop' = "select"
  /\ timer' = FALSE
  /\ listed' = [a \in Apps |-> NoSpec]
  /\ todo' = {}
  /\ event' = NoApp

TimerFires ==
  /\ loop = "select"
  /\ ~timer
  /\ timer' = TRUE
  /\ UNCHANGED << envVars, imageCache, jobVars, sendVars, loop, listed, todo, event, serving, queue, workVars >>

\* A call for the list of Applications fails: as it does before the manager has started its
\* caches, or later, for once.
CannotList == IF serving THEN Spend("fault") ELSE UNCHANGED left

\* reconcileSchedules lists the Applications; when it cannot, it gives up for this turn.
List ==
  /\ loop = "select"
  /\ timer
  /\ \/ /\ loop' = "upsert"
        /\ listed' = spec
        /\ todo' = { a \in Apps : spec[a] # NoSpec }
        /\ UNCHANGED << timer, event, left >>
     \/ NextTurn /\ CannotList
  /\ UNCHANGED << spec, newest, hooks, imageCache, jobVars, sendVars, serving, queue, workVars >>

\* UpsertJob for one Application, once the scheduler is started.  A job with the same
\* schedule stays as it is, with the Application it was made for; one with another
\* schedule is removed before gocron is asked for the new one; the handle changes only
\* when gocron agrees.
UpsertJob(a) ==
  LET job == [app |-> a, spec |-> listed[a]]
      valid == Schedule(listed[a]) \in ValidSchedules
  IN  /\ loop = "upsert"
      /\ a \in todo
      /\ todo' = todo \ {a}
      /\ IF HasSchedule(a) \/ ~started
         THEN UNCHANGED << jobs, handles >>
         ELSE IF valid
         THEN jobs' = Unscheduled({a}) \cup {job} /\ handles' = [handles EXCEPT ![a] = job]
         ELSE jobs' = Unscheduled({a}) /\ UNCHANGED handles
      /\ UNCHANGED << started, envVars, imageCache, sendVars, timer, loop, listed, event, serving, queue, workVars >>

\* KeepJobs: the jobs of Applications that were not listed go.
KeepJobs ==
  LET gone == { a \in Apps : listed[a] = NoSpec }
  IN  /\ loop = "upsert"
      /\ todo = {}
      /\ loop' = "keepOnly"
      /\ jobs' = Unscheduled(gone)
      /\ handles' = [a \in Apps |-> IF a \in gone THEN NoJob ELSE handles[a]]
      /\ UNCHANGED << started, envVars, imageCache, sendVars, timer, listed, todo, event, serving, queue, workVars >>

\* KeepOnly: the cached images of specs that no listed Application has go.
KeepOnly ==
  /\ loop = "keepOnly"
  /\ imageCache' = Pruned({ listed[a] : a \in Apps })
  /\ NextTurn
  /\ UNCHANGED << envVars, jobVars, sendVars, serving, queue, workVars >>

\* A variant that passes on what the sender holds.
ReceiveSender ==
  /\ loop = "select"
  /\ waiting # << >>
  /\ waiting' = Tail(waiting)
  /\ loop' = "forward"
  /\ event' = Head(waiting)
  /\ UNCHANGED << envVars, imageCache, jobVars, senders, timer, listed, todo, serving, queue, workVars >>

\* The loop takes an Application from updateChan, which lets its sender go ...
Receive ==
  /\ loop = "select"
  /\ waiting # << >>
  /\ waiting' = Tail(waiting)
  /\ loop' = "forward"
  /\ event' = Head(waiting).app
  /\ UNCHANGED << envVars, imageCache, jobVars, senders, timer, listed, todo, serving, queue, workVars >>

\* ... and passes it on to the controller's queue, for which it waits, deaf to everything
\* else, until the controller is there.
Forward ==
  /\ loop = "forward"
  /\ serving
  /\ queue' = Add(queue, event)
  /\ NextTurn
  /\ UNCHANGED << envVars, imageCache, jobVars, sendVars, serving, workVars >>

-----------------------------------------------------------------------------
(***************************************************************************)
(* enqueueReconciliation, from cron jobs and from the webhook              *)
(***************************************************************************)

\* cronScheduler.Start, a goroutine of its own.
StartScheduler ==
  /\ ~started
  /\ started' = TRUE
  /\ UNCHANGED << handles, jobs, envVars, imageCache, sendVars, loopVars, serving, queue, workVars >>

\* A cron job ticks.  Jobs run in singleton mode: not while the last run is unfinished.
Tick(j) ==
  LET run == [app |-> j.app, spec |-> j.spec, push |-> 0]
  IN  /\ j \in jobs
      /\ run \notin senders \cup Range(waiting)
      /\ senders' = senders \cup {run}
      /\ UNCHANGED << envVars, imageCache, jobVars, waiting, loopVars, serving, queue, workVars >>

\* The webhook names a repository: a goroutine for each Application that uses it; or the
\* Applications cannot be listed, and the push is forgotten.
Webhook(h) ==
  /\ h \in hooks
  /\ hooks' = hooks \ {h}
  /\ \/ /\ senders' = senders \cup
             { [app |-> a, spec |-> spec[a], push |-> h.push] :
                 a \in { b \in Apps : spec[b] # NoSpec /\ spec[b].repo = h.repo } }
        /\ UNCHANGED left
     \/ CannotList /\ UNCHANGED senders
  /\ UNCHANGED << spec, newest, imageCache, jobVars, waiting, loopVars, serving, queue, workVars >>

\* The cached image of the Application's spec, as it was when the job or the goroutine
\* was made, is dropped; then the goroutine waits for the watch loop.
Clear(s) ==
  /\ s \in senders
  /\ senders' = senders \ {s}
  /\ imageCache' = Dropped(s.spec)
  /\ waiting' = Append(waiting, s)
  /\ UNCHANGED << envVars, jobVars, loopVars, serving, queue, workVars >>

-----------------------------------------------------------------------------
(***************************************************************************)
(* The controller's worker: Reconcile up to the Deployment's image         *)
(***************************************************************************)

\* The manager starts the controller, which enqueues every Application, in some order.
StartController ==
  /\ ~serving
  /\ serving' = TRUE
  /\ queue' \in SetToSeqs({ a \in Apps : spec[a] # NoSpec })
  /\ UNCHANGED << envVars, imageCache, jobVars, sendVars, loopVars, workVars >>

\* What the Application wants is read when it is taken from the queue.
Take ==
  /\ worker = Idle
  /\ queue # << >>
  /\ queue' = Tail(queue)
  /\ LET a == Head(queue)
     IN  worker' = IF spec[a] = NoSpec THEN Idle
                   ELSE [at |-> "get", app |-> a, spec |-> spec[a], load |-> 1]
  /\ UNCHANGED << envVars, imageCache, jobVars, sendVars, loopVars, serving, deployed >>

\* The CronJobs, then the Deployment: each looks the image up for itself.
Deploy(image) ==
  LET a == worker.app
  IN  /\ deployed' = IF spec[a] = NoSpec THEN deployed
                     ELSE [deployed EXCEPT ![a][worker.load] = image]
      /\ worker' = IF worker.load = Workloads THEN Idle
                   ELSE [at |-> "get", app |-> a, spec |-> worker.spec, load |-> worker.load + 1]

\* FindImage: the cached image, if there is one.
CacheGet ==
  /\ worker.at = "get"
  /\ IF imageCache[worker.spec] # 0
     THEN Deploy([repo |-> worker.spec.repo, version |-> imageCache[worker.spec]])
     ELSE worker' = [worker EXCEPT !.at = "fetch"] /\ UNCHANGED deployed
  /\ UNCHANGED << envVars, imageCache, jobVars, sendVars, loopVars, serving, queue >>

\* The registry is asked, with no lock held; an error makes the controller try again.
Fetch ==
  /\ worker.at = "fetch"
  /\ \/ /\ worker' = [at |-> "set", app |-> worker.app, spec |-> worker.spec,
                      load |-> worker.load, version |-> newest[worker.spec.repo]]
        /\ UNCHANGED << queue, left >>
     \/ /\ Spend("fault")
        /\ worker' = Idle
        /\ queue' = Add(queue, worker.app)
  /\ UNCHANGED << spec, newest, hooks, imageCache, jobVars, sendVars, loopVars, serving, deployed >>

\* The answer is cached, whatever happened to the cache since it was found empty.
CacheSet ==
  /\ worker.at = "set"
  /\ imageCache' = [imageCache EXCEPT ![worker.spec] = worker.version]
  /\ Deploy([repo |-> worker.spec.repo, version |-> worker.version])
  /\ UNCHANGED << envVars, jobVars, sendVars, loopVars, serving, queue >>

-----------------------------------------------------------------------------
(***************************************************************************)
(* Users and registries                                                    *)
(***************************************************************************)

\* An Application appears, changes or goes; the controller, once it is there, enqueues it.
SetSpec(a, s) ==
  /\ s # spec[a]
  /\ Spend(IF s = NoSpec THEN "delete" ELSE IF spec[a] = NoSpec THEN "create" ELSE "edit")
  /\ spec' = [spec EXCEPT ![a] = s]
  /\ queue' = IF serving THEN Add(queue, a) ELSE queue
  /\ deployed' = IF s = NoSpec THEN [deployed EXCEPT ![a] = Nothing] ELSE deployed
  /\ UNCHANGED << newest, hooks, imageCache, jobVars, sendVars, loopVars, serving, worker >>

\* An image is pushed; its registry may call the webhook, or the call gets lost.
Publish(r) ==
  /\ Spend("publish")
  /\ newest' = [newest EXCEPT ![r] = @ + 1]
  /\ \/ UNCHANGED hooks
     \/ r \in Hooked /\ hooks' = hooks \cup {[repo |-> r, push |-> newest[r] + 1]}
  /\ UNCHANGED << spec, imageCache, jobVars, sendVars, loopVars, serving, queue, workVars >>

\* The process starts again: nothing of the watcher is persisted.
Restart ==
  /\ Spend("restart")
  /\ imageCache' = [s \in ImageSpecs |-> 0]
  /\ handles' = [a \in Apps |-> NoJob]
  /\ jobs' = {}
  /\ started' = FALSE
  /\ senders' = {}
  /\ waiting' = << >>
  /\ NextTurn
  /\ serving' = FALSE
  /\ queue' = << >>
  /\ worker' = Idle
  /\ UNCHANGED << spec, newest, hooks, deployed >>

Loop == List \/ (\E a \in Apps : UpsertJob(a)) \/ KeepJobs \/ KeepOnly
          \/ Receive \/ Forward

Work == Take \/ CacheGet \/ Fetch \/ CacheSet

Next ==
  \/ Loop \/ Work \/ TimerFires \/ StartScheduler \/ StartController \/ Restart
  \/ \E j \in jobs : Tick(j)
  \/ \E s \in senders : Clear(s)
  \/ \E h \in hooks : Webhook(h)
  \/ \E r \in Repos : Publish(r)
  \/ \E a \in Apps, s \in ImageSpecs \cup {NoSpec} : SetSpec(a, s)

Spec == Init /\ [][Next]_vars

\* Go runs every goroutine that can run, select chooses fairly between ready cases, and
\* cron jobs tick forever.  The timer is made anew each turn of the loop; it fires again and
\* again since cron jobs tick at full minutes and it is set to 30 s (not so with a schedule
\* like "@every 10s").  Nothing of the environment's is fair.
Fairness ==
  /\ WF_vars(StartScheduler) /\ WF_vars(StartController)
  /\ SF_vars(TimerFires) /\ SF_vars(List) /\ SF_vars(Receive)
  /\ WF_vars((\E a \in Apps : UpsertJob(a)) \/ KeepJobs \/ KeepOnly \/ Forward)
  /\ \A a \in Apps, i \in ImageSpecs :
       /\ WF_vars(Tick([app |-> a, spec |-> i]))
       /\ WF_vars(Clear([app |-> a, spec |-> i, push |-> 0]))
  /\ WF_vars(Work)

FairSpec == Spec /\ Fairness

-----------------------------------------------------------------------------
(***************************************************************************)
(* Properties                                                              *)
(***************************************************************************)

\* gocron never runs a job the scheduler has no handle on: such a job could not be
\* unscheduled any more (UpsertJob, KeepJobs), and an Application would have two.
NoLeakedJobs == \A j \in jobs : handles[j.app] = j

\* In the end each Application has a job on the schedule it asks for, provided gocron can
\* parse it, and no other Application has one: schedules are set, updated and removed.
SchedulesFollow ==
  \A a \in Apps :
    <>[](IF spec[a] = NoSpec THEN ~\E j \in jobs : j.app = a
         ELSE Schedule(spec[a]) \in ValidSchedules =>
                \E j \in jobs : j.app = a /\ Schedule(j.spec) = Schedule(spec[a]))

\* In the end every workload of an Application runs the newest image of the repository the
\* Application names, although each looks it up for itself, whatever was edited, pushed,
\* lost or restarted on the way, and however long the loop had to wait for the controller.
AutoUpdate ==
  \A a \in Apps : <>[](spec[a] # NoSpec =>
    \A i \in 1..Workloads :
      deployed[a][i] = [repo |-> spec[a].repo, version |-> newest[spec[a].repo]])

\* In the end no image is cached for a spec nobody has any more, not even when a lookup
\* under way puts it back.
CachePruned ==
  \A i \in ImageSpecs : <>[]((\A a \in Apps : spec[a] # i) => imageCache[i] = 0)

=============================================================================
