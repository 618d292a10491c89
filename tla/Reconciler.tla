----------------------------- MODULE Reconciler -----------------------------
(***************************************************************************)
(* ApplicationReconciler (internal/controller/application_controller.go):  *)
(* the reconciliation of one Application against the API server, seen      *)
(* through informer caches that lag behind it.                             *)
(*                                                                         *)
(* The API server holds the Application (app) and the objects made for it  *)
(* (store).  The controller reads both only through its caches (appCache,  *)
(* cache) and writes to the API server.  One worker (MaxConcurrent-        *)
(* Reconciles is 1) runs Reconcile whenever the queue holds the request.   *)
(* Every read of a cache and every call to the API is a step of its own,   *)
(* so users, the garbage collector, other controllers, the informers and a *)
(* crash may act between any two of them.                                  *)
(*                                                                         *)
(* Environment events other than informer synchronisation and garbage      *)
(* collection are bounded by Budget, a constant the theorems leave open.   *)
(***************************************************************************)
EXTENDS Integers, Sequences, FiniteSets

CONSTANTS
  Stages,         \* kinds Reconcile handles, in its order; unsupported CRDs left out
  Objects,        \* records [kind, name]: every object name Reconcile may touch
  Specs,          \* records [rev, wants, malformed]: the specs a user may write
  Meddled,        \* objects third parties create, edit or delete
  LaggingKinds,   \* kinds whose informer cache may be behind when it is read
  Budget,         \* how often each event of the environment may happen, and all together
  NoApp, NoObj,   \* "not found"
  NotClusterRole  \* a Cluster-scoped entry of spec.roles that names no ClusterRole

ReconcileOrder == << "ServiceAccount", "RoleBinding", "ClusterRoleBinding", "Service",
                     "LBService", "PodMonitor", "IngressRoute", "CronJob", "Deployment" >>

Kinds == { ReconcileOrder[i] : i \in 1..9 }

\* Kinds of which an Application may have several objects: Reconcile lists those
\* it owns and deletes the ones the spec no longer names.
Listed == {"RoleBinding", "ClusterRoleBinding", "CronJob"}

\* Kinds whose pods run the image that the image finder answers.
Workloads == {"CronJob", "Deployment"}

\* Kinds whose events enqueue the owning Application (SetupWithManager); and a variant
\* with two Owns(...) lines fewer.
WatchedLess == Kinds \ {"CronJob", "RoleBinding", "Deployment"}
Watched == Kinds \ {"CronJob"}

\* Every event of the environment counts as one of its kind and as "any".
Events == {"create", "edit", "delete", "meddle", "publish", "report", "resync",
           "restart", "fault", "any"}

Drifted == -1     \* content nobody's spec asks for

Revs == { s.rev : s \in Specs } \cup {0, Drifted}

Owners == [by : {"app", "other", "nobody"}, uid : Nat]

Stored == [owner : Owners, rev : Revs, image : Nat, avail : {"none", "True", "False"}]

Applications ==
  [uid : Nat, spec : Specs, deleting : BOOLEAN, finalizer : BOOLEAN,
   ready : {"none", "Unknown", "True", "False"}, image : Nat]

ASSUME SentinelAssumption ==
  /\ NoApp \notin Applications
  /\ NoObj \notin Stored \cup Objects
  /\ NotClusterRole \notin Objects

ASSUME ObjectAssumption == \A o \in Objects : o.kind \in Kinds

ASSUME SpecAssumption ==
  /\ Specs \subseteq [rev : Nat,
                      wants : [Kinds -> Seq(Objects \cup {NotClusterRole})],
                      malformed : SUBSET Kinds]
  /\ \A s \in Specs, k \in Kinds : \A i \in DOMAIN s.wants[k] :
        s.wants[k][i] \in Objects => s.wants[k][i].kind = k
  /\ \A s \in Specs : \E d \in Objects :
        s.wants["Deployment"] = << d >> /\ \A o \in Objects : o.kind = "Deployment" => o = d

\* Stages is ReconcileOrder without some of its kinds.
ASSUME StagesAssumption ==
  /\ Stages \in Seq(Kinds)
  /\ \A i, j \in 1..Len(Stages), m, n \in 1..9 :
        (i < j /\ Stages[i] = ReconcileOrder[m] /\ Stages[j] = ReconcileOrder[n]) => m < n
  /\ Stages # << >>
  /\ Stages[Len(Stages)] = "Deployment"

ASSUME BudgetAssumption ==
  /\ Budget \in [Events -> Nat]
  /\ Meddled \subseteq Objects
  /\ LaggingKinds \subseteq Kinds

VARIABLES
  app,              \* the Application in the API server, or NoApp
  appCache,         \* the Application as the controller's cache has it
  appCacheCurrent,  \* appCache has the resourceVersion of app
  store,            \* the objects in the API server
  cache,            \* the objects as the controller's caches have them
  news,             \* per object, whether events the informer has yet to deliver
                    \* name the Application as owner ("app"), do not ("other"), or none
  queued,           \* the request is in the controller's work queue
  latest,           \* the image the image finder answers
  left,             \* environment events that may still happen
  nextUid,          \* uid of the next Application created
  pc,               \* where Reconcile is; "idle" between calls
  copy,             \* Reconcile's local `app`
  copyCurrent,      \* copy has the resourceVersion of app
  stage,            \* index into Stages; 0 while the finalizer cleans up
  ensure,           \* wanted objects of this stage still to be handled
  stale,            \* unwanted objects of this stage still to be handled
  item,             \* the object reconcileResource is working on
  before,           \* obj: item as last read from the cache
  want              \* item as CreateOrPatch means to leave it, then what the API answered

appVars    == << app, appCache, appCacheCurrent, nextUid >>
objVars    == << store, cache, news >>
localVars  == << copy, copyCurrent, stage, ensure, stale, item, before, want >>
workerVars == << pc, localVars >>
vars       == << appVars, objVars, queued, latest, left, workerVars >>

PCs == {"idle", "initStatus", "addFinalizer", "cleanup", "removeFinalizer", "list",
        "get", "mutate", "create", "patch", "delete", "finalStatus", "errorStatus"}

TypeOK ==
  /\ app \in Applications \cup {NoApp}
  /\ appCache \in Applications \cup {NoApp}
  /\ appCacheCurrent \in BOOLEAN
  /\ store \in [Objects -> Stored \cup {NoObj}]
  /\ cache \in [Objects -> Stored \cup {NoObj}]
  /\ news \in [Objects -> {"none", "other", "app"}]
  /\ queued \in BOOLEAN
  /\ latest \in Nat
  /\ left \in [Events -> Nat]
  /\ nextUid \in Nat
  /\ pc \in PCs
  /\ copy \in Applications \cup {NoApp}
  /\ copyCurrent \in BOOLEAN
  /\ stage \in 0..Len(Stages)
  /\ ensure \in Seq(Objects \cup {NotClusterRole})
  /\ stale \in SUBSET Objects
  /\ item \in Objects \cup {NoObj}
  /\ before \in Stored \cup {NoObj}
  /\ want \in Stored \cup {NoObj}

Init ==
  /\ app = NoApp
  /\ appCache = NoApp
  /\ appCacheCurrent = TRUE
  /\ store = [o \in Objects |-> NoObj]
  /\ cache = [o \in Objects |-> NoObj]
  /\ news = [o \in Objects |-> "none"]
  /\ queued = FALSE
  /\ latest = 1
  /\ left = Budget
  /\ nextUid = 1
  /\ pc = "idle"
  /\ copy = NoApp
  /\ copyCurrent = FALSE
  /\ stage = 0
  /\ ensure = << >>
  /\ stale = {}
  /\ item = NoObj
  /\ before = NoObj
  /\ want = NoObj

-----------------------------------------------------------------------------
(***************************************************************************)
(* Vocabulary                                                              *)
(***************************************************************************)

Spend(e) ==
  /\ left[e] > 0
  /\ left["any"] > 0
  /\ left' = [k \in Events |-> IF k \in {e, "any"} THEN left[k] - 1 ELSE left[k]]

ClusterScoped(o) == o.kind = "ClusterRoleBinding"

\* isObjectOwnedBy: the controller reference (or, for a ClusterRoleBinding, the
\* annotations) names an Application of this name; the uid is not compared.
OwnedByApp(obj) == obj # NoObj /\ obj.owner.by = "app"

\* The owner that SetControllerReference or SetOwnerAnnotations writes.
OwnerFor(o, a) == [by |-> "app", uid |-> IF ClusterScoped(o) THEN 0 ELSE a.uid]

Kind == IF stage = 0 THEN "ClusterRoleBinding" ELSE Stages[stage]

\* A read of the caches of kind k finds them up to date, or k's cache may lag.
Fresh(k) ==
  k \notin LaggingKinds => \A o \in Objects : o.kind = k => news[o] = "none"

\* A write to the API server, and the event it causes; a write that changes nothing
\* causes none.
Write(o, new) ==
  /\ store' = [store EXCEPT ![o] = new]
  /\ news' = IF new = store[o] THEN news
             ELSE [news EXCEPT ![o] =
                     IF OwnedByApp(store[o]) \/ OwnedByApp(new) THEN "app"
                     ELSE IF @ = "none" THEN "other" ELSE @]

\* client.List with the owner index, answered from the cache.
OwnedInCache(k) == { o \in Objects : o.kind = k /\ OwnedByApp(cache[o]) }

\* The names that a stage of kind k deals with (simpleNamer), taken to be distinct.
Names(k) == { o \in Objects : o.kind = k }

\* What the stage's mutator leaves in the spec of o.  ServiceAccounts have no
\* mutator; a role binding says what its name says, whatever the revision.
RevFor(o, s, rev) ==
  CASE o.kind = "ServiceAccount"                           -> rev
    [] o.kind \in {"RoleBinding", "ClusterRoleBinding"}    -> 0
    [] OTHER                                               -> s.rev

ImageFor(o, image) == IF o.kind \in Workloads THEN image ELSE 0

\* o after mutateFn and the setting of the owner, starting from obj.
Mutated(o, obj, a, image) ==
  LET old == IF obj = NoObj
             THEN [owner |-> OwnerFor(o, a), rev |-> 0, image |-> 0, avail |-> "none"]
             ELSE obj
  IN  [old EXCEPT !.owner = OwnerFor(o, a),
                  !.rev   = RevFor(o, a.spec, @),
                  !.image = ImageFor(o, image)]

\* A merge patch carries the fields that differ between from and to, no others.
MergePatch(obj, from, to) ==
  [obj EXCEPT !.owner = IF to.owner = from.owner THEN @ ELSE to.owner,
              !.rev   = IF to.rev = from.rev     THEN @ ELSE to.rev,
              !.image = IF to.image = from.image THEN @ ELSE to.image]

-----------------------------------------------------------------------------
(***************************************************************************)
(* Reconcile: taking the request, the Application's own updates            *)
(***************************************************************************)

\* A variant that takes no notice of errors.
ReturnSwallows(requeue) ==
  /\ pc' = "idle"
  /\ copy' = NoApp
  /\ copyCurrent' = FALSE
  /\ stage' = 0
  /\ ensure' = << >>
  /\ stale' = {}
  /\ item' = NoObj
  /\ before' = NoObj
  /\ want' = NoObj
  /\ queued' = queued

\* Reconcile returns; an error or Requeue puts the request back in the queue.
Return(requeue) ==
  /\ pc' = "idle"
  /\ copy' = NoApp
  /\ copyCurrent' = FALSE
  /\ stage' = 0
  /\ ensure' = << >>
  /\ stale' = {}
  /\ item' = NoObj
  /\ before' = NoObj
  /\ want' = NoObj
  /\ queued' = (queued \/ requeue)

\* Variants that add no finalizer, remove it without cleaning up, return as soon as the
\* Application is being deleted, or clean up whether or not it is.
EntryWithoutFinalizer(a) ==
  IF a = NoApp \/ (a.ready # "none" /\ a.deleting) THEN "idle"
  ELSE IF a.ready = "none" THEN "initStatus" ELSE "list"

EntryWithoutCleanup(a) ==
  IF a = NoApp THEN "idle"
  ELSE IF a.ready = "none" THEN "initStatus"
  ELSE IF a.deleting THEN (IF a.finalizer THEN "removeFinalizer" ELSE "idle")
  ELSE IF a.finalizer THEN "list" ELSE "addFinalizer"

EntryIgnoringDeletion(a) ==
  IF a = NoApp \/ a.deleting THEN "idle"
  ELSE IF a.ready = "none" THEN "initStatus"
  ELSE IF a.finalizer THEN "list" ELSE "addFinalizer"

EntryAlwaysCleansUp(a) ==
  IF a = NoApp THEN "idle"
  ELSE IF a.ready = "none" THEN "initStatus"
  ELSE IF a.finalizer THEN "cleanup" ELSE "addFinalizer"

\* The early returns at the head of Reconcile, as a function of the cached Application.
Entry(a) ==
  CASE a = NoApp                       -> "idle"
    [] a # NoApp /\ a.ready = "none"   -> "initStatus"
    [] a # NoApp /\ a.ready # "none" /\ ~a.deleting ->
         IF a.finalizer THEN "list" ELSE "addFinalizer"
    [] OTHER -> IF a.finalizer THEN "cleanup" ELSE "idle"

\* The worker takes the request and reads the Application from the cache.
Begin ==
  /\ pc = "idle"
  /\ queued
  /\ queued' = FALSE
  /\ pc' = Entry(appCache)
  /\ copy' = IF pc' = "idle" THEN NoApp ELSE appCache
  /\ copyCurrent' = (appCacheCurrent /\ pc' # "idle")
  /\ stage' = IF pc' = "list" THEN 1 ELSE 0
  /\ UNCHANGED << appVars, objVars, latest, left, ensure, stale, item, before, want >>

\* r.Update or r.Status().Update of the copy: refused when the Application has
\* another resourceVersion or is gone; it may also fail, or take effect and fail.
UpdateApp(new, requeue) ==
  /\ nextUid' = nextUid
  /\ UNCHANGED << objVars, latest, appCache >>
  /\ \/ /\ copyCurrent
        /\ app' = new
        /\ appCacheCurrent' = (appCacheCurrent /\ new = app)
        /\ \/ Return(requeue) /\ UNCHANGED left
           \/ Return(TRUE) /\ Spend("fault")
     \/ /\ UNCHANGED << app, appCacheCurrent >>
        /\ Return(TRUE)
        /\ (~copyCurrent /\ UNCHANGED left) \/ Spend("fault")

\* The first status an Application gets: Ready is Unknown; and a variant with an empty one.
InitStatusEmpty ==
  /\ pc = "initStatus"
  /\ UpdateApp([app EXCEPT !.ready = ""], FALSE)

InitStatus ==
  /\ pc = "initStatus"
  /\ UpdateApp([app EXCEPT !.ready = "Unknown"], FALSE)

AddFinalizer ==
  /\ pc = "addFinalizer"
  /\ UpdateApp([app EXCEPT !.finalizer = TRUE], FALSE)

\* The Application has no other finalizer: removing this one deletes it.
RemoveFinalizer ==
  /\ pc = "removeFinalizer"
  /\ UpdateApp(NoApp, FALSE)

\* The end of a Reconcile without errors: the Deployment's Available condition, if
\* there is one, becomes Ready, and the status names the Deployment's image.
FinalStatus ==
  /\ pc = "finalStatus"
  /\ UpdateApp([app EXCEPT !.image = want.image,
                           !.ready = IF want.avail = "none" THEN @ ELSE want.avail], FALSE)

\* updateStatusWithError: whatever the update does, Reconcile returns the error; and a
\* variant that returns what the update does.
ErrorStatusReported ==
  /\ pc = "errorStatus"
  /\ UpdateApp([app EXCEPT !.ready = "False"], FALSE)

ErrorStatus ==
  /\ pc = "errorStatus"
  /\ UpdateApp([app EXCEPT !.ready = "False"], TRUE)

-----------------------------------------------------------------------------
(***************************************************************************)
(* Reconcile: the stages, and reconcileResource within them                *)
(***************************************************************************)

\* A variant that goes on with the next stage.
FailContinues ==
  IF stage \in {0, Len(Stages)}
  THEN Return(TRUE)
  ELSE /\ pc' = "list"
       /\ stage' = stage + 1
       /\ ensure' = << >>
       /\ stale' = {}
       /\ item' = NoObj
       /\ before' = NoObj
       /\ want' = NoObj
       /\ UNCHANGED << queued, copy, copyCurrent >>

\* An error on the way: a stage reports it in the status, the cleanup just returns it.
Fail ==
  IF stage = 0
  THEN Return(TRUE)
  ELSE /\ pc' = "errorStatus"
       /\ UNCHANGED << queued, localVars >>

\* ensureNoClusterRoleBindings lists the bindings it has to delete.
ListGrants ==
  /\ pc = "cleanup"
  /\ Fresh("ClusterRoleBinding")
  /\ stale' = OwnedInCache("ClusterRoleBinding")
  /\ pc' = "get"
  /\ UNCHANGED << appVars, objVars, queued, latest, left,
                  copy, copyCurrent, stage, ensure, item, before, want >>

\* A stage begins: what the spec wants, in the spec's order, then what it does not.
ListStage ==
  /\ pc = "list"
  /\ Fresh(Kind)
  /\ ensure' = copy.spec.wants[Kind]
  /\ stale' = (IF Kind \in Listed THEN OwnedInCache(Kind) ELSE Names(Kind))
                 \ { ensure'[i] : i \in DOMAIN ensure' }
  /\ pc' = "get"
  /\ UNCHANGED << appVars, objVars, queued, latest, left,
                  copy, copyCurrent, stage, item, before, want >>

\* The loop of a stage is done: on to the next stage, to the removal of the
\* finalizer or to the final status.
NextStage ==
  /\ pc = "get"
  /\ ensure = << >>
  /\ stale = {}
  /\ IF stage = 0 \/ stage = Len(Stages)
     THEN /\ pc' = IF stage = 0 THEN "removeFinalizer" ELSE "finalStatus"
          /\ UNCHANGED stage
     ELSE /\ pc' = "list"
          /\ stage' = stage + 1
  /\ UNCHANGED << appVars, objVars, queued, latest, left,
                  copy, copyCurrent, ensure, stale, item, before, want >>

\* reconcileClusterRoleBindings meets a role that is not a ClusterRole: it logs and
\* returns err, which is nil, so the stage ends as if it had succeeded.
SkipRole ==
  /\ pc = "get"
  /\ ensure # << >>
  /\ Head(ensure) = NotClusterRole
  /\ ensure' = << >>
  /\ stale' = {}
  /\ UNCHANGED << appVars, objVars, queued, latest, left,
                  pc, copy, copyCurrent, stage, item, before, want >>

\* reconcileResource has dealt with o; result is what the call left in obj.
DoneWith(o, result) ==
  /\ pc' = "get"
  /\ IF ensure # << >>
     THEN ensure' = Tail(ensure) /\ UNCHANGED stale
     ELSE stale' = stale \ {o} /\ UNCHANGED ensure
  /\ item' = NoObj
  /\ before' = NoObj
  /\ want' = result
  /\ UNCHANGED << queued, copy, copyCurrent, stage >>

\* reconcileResource reads the object and checks whose it is.
Get(o) ==
  /\ pc = "get"
  /\ Fresh(Kind)
  /\ IF ensure # << >> THEN Head(ensure) = o ELSE o \in stale
  /\ IF cache[o] # NoObj /\ ~OwnedByApp(cache[o])
     THEN Fail
     ELSE IF ensure = << >> /\ cache[o] = NoObj
     THEN DoneWith(o, NoObj)
     ELSE /\ pc' = IF ensure # << >> THEN "mutate" ELSE "delete"
          /\ item' = o
          /\ before' = cache[o]
          /\ UNCHANGED << queued, copy, copyCurrent, stage, ensure, stale, want >>
  /\ UNCHANGED << appVars, objVars, latest, left >>

\* SetControllerReference refuses an object that something else controls.
HasOtherController(o) ==
  ~ClusterScoped(o) /\ cache[o] # NoObj /\ cache[o].owner.by = "other"

\* CreateOrPatch reads the object once more (when it is gone by now, obj still holds
\* what the first read found), runs the mutator and sets the owner.  A mutator fails on
\* a malformed spec and, for a workload, when the image finder does.
Mutate ==
  /\ pc = "mutate"
  /\ Fresh(Kind)
  /\ \/ /\ \/ Kind \in copy.spec.malformed /\ UNCHANGED left
           \/ HasOtherController(item) /\ UNCHANGED left
           \/ Kind \in Workloads /\ Spend("fault")
        /\ Fail
     \/ /\ Kind \notin copy.spec.malformed
        /\ ~HasOtherController(item)
        /\ LET obj == IF cache[item] = NoObj THEN before ELSE cache[item]
               new == Mutated(item, obj, copy, latest)
           IN  IF new = cache[item]
               THEN DoneWith(item, new)
               ELSE /\ pc' = IF cache[item] = NoObj THEN "create" ELSE "patch"
                    /\ before' = obj
                    /\ want' = new
                    /\ UNCHANGED << queued, copy, copyCurrent, stage, ensure, stale, item >>
        /\ UNCHANGED left
  /\ UNCHANGED << appVars, objVars, latest >>

\* A call to the API: it is refused, or fails, or takes effect and fails, or succeeds.
Call(accepted, result) ==
  /\ \/ /\ accepted
        /\ Write(item, result)
        /\ \/ DoneWith(item, result) /\ UNCHANGED left
           \/ Fail /\ Spend("fault")
     \/ /\ UNCHANGED << store, news >>
        /\ Fail
        /\ (~accepted /\ UNCHANGED left) \/ Spend("fault")
  /\ UNCHANGED << appVars, cache, latest >>

\* Refused with AlreadyExists when the name is taken, and as invalid when obj carries
\* the resourceVersion of an object that the first read found.
Create ==
  /\ pc = "create"
  /\ Call(store[item] = NoObj /\ before = NoObj, want)

\* Refused with NotFound when the object is gone; the patch names no resourceVersion.
Patch ==
  /\ pc = "patch"
  /\ Call(store[item] # NoObj, MergePatch(store[item], before, want))

\* The delete has no preconditions; NotFound is an error like any other.
Delete ==
  /\ pc = "delete"
  /\ Call(store[item] # NoObj, NoObj)

\* The next step of the stage or the cleanup reads an object.
Reads == IF ensure # << >> THEN Head(ensure) # NotClusterRole ELSE stale # {}

\* A read from a cache fails, with an error other than NotFound: the Get of the Application,
\* a List of the objects owned, the Get of an object or the one of CreateOrPatch.
ReadError ==
  /\ \/ pc = "idle" /\ queued /\ Return(TRUE)
     \/ pc = "cleanup" /\ Fail
     \/ pc = "list" /\ Kind \in Listed /\ Fail
     \/ pc = "get" /\ Reads /\ Fail
     \/ pc = "mutate" /\ Fail
  /\ Spend("fault")
  /\ UNCHANGED << appVars, objVars, latest >>

Reconcile ==
  \/ Begin \/ ReadError
  \/ InitStatus \/ AddFinalizer \/ RemoveFinalizer \/ FinalStatus \/ ErrorStatus
  \/ ListGrants \/ ListStage \/ NextStage \/ SkipRole
  \/ \E o \in Objects : Get(o)
  \/ Mutate \/ Create \/ Patch \/ Delete

-----------------------------------------------------------------------------
(***************************************************************************)
(* The environment                                                         *)
(***************************************************************************)

\* A write to the Application by somebody else: the cache and a copy are now old.
AppWritten(new) ==
  /\ app' = new
  /\ appCacheCurrent' = FALSE
  /\ copyCurrent' = FALSE
  /\ UNCHANGED << appCache, objVars, queued, latest,
                  pc, copy, stage, ensure, stale, item, before, want >>

CreateApp(s) ==
  /\ app = NoApp
  /\ Spend("create")
  /\ nextUid' = nextUid + 1
  /\ AppWritten([uid |-> nextUid, spec |-> s, deleting |-> FALSE, finalizer |-> FALSE,
                 ready |-> "none", image |-> 0])

EditApp(s) ==
  /\ app # NoApp
  /\ Spend("edit")
  /\ UNCHANGED nextUid
  /\ AppWritten([app EXCEPT !.spec = s])

\* An Application with a finalizer is only marked; without one it is gone.
DeleteApp ==
  /\ app # NoApp
  /\ ~app.deleting
  /\ Spend("delete")
  /\ UNCHANGED nextUid
  /\ AppWritten(IF app.finalizer THEN [app EXCEPT !.deleting = TRUE] ELSE NoApp)

\* Somebody else creates the object (as another controller, or as nobody's), takes
\* it away or changes what it says.
Meddle(o) ==
  /\ o \in Meddled
  /\ Spend("meddle")
  /\ \/ /\ store[o] = NoObj
        /\ \E by \in {"other", "nobody"} :
              Write(o, [owner |-> [by |-> by, uid |-> 0], rev |-> Drifted,
                        image |-> 0, avail |-> "none"])
     \/ store[o] # NoObj /\ Write(o, NoObj)
     \/ store[o] # NoObj /\ Write(o, [store[o] EXCEPT !.rev = Drifted])
  /\ UNCHANGED << appVars, cache, queued, latest, workerVars >>

\* A new image appears; the image watcher enqueues the Application.
Publish ==
  /\ Spend("publish")
  /\ latest' = latest + 1
  /\ queued' = TRUE
  /\ UNCHANGED << appVars, objVars, workerVars >>

\* The deployment controller reports the Deployment's Available condition.
Report(o) ==
  /\ o.kind = "Deployment"
  /\ store[o] # NoObj
  /\ Spend("report")
  /\ \E a \in {"True", "False"} \ {store[o].avail} :
        Write(o, [store[o] EXCEPT !.avail = a])
  /\ UNCHANGED << appVars, cache, queued, latest, workerVars >>

\* The garbage collector deletes an object whose controller reference names an
\* Application that no longer exists.
Garbage(o) ==
  /\ OwnedByApp(store[o])
  /\ ~ClusterScoped(o)
  /\ app # NoApp => app.uid # store[o].owner.uid

CollectGarbage(o) ==
  /\ Garbage(o)
  /\ Write(o, NoObj)
  /\ UNCHANGED << appVars, cache, queued, latest, left, workerVars >>

\* An informer catches up with the API server and its event handlers enqueue.
SyncApp ==
  /\ ~appCacheCurrent
  /\ appCache' = app
  /\ appCacheCurrent' = TRUE
  /\ queued' = TRUE
  /\ UNCHANGED << app, nextUid, objVars, latest, left, workerVars >>

SyncObject(o) ==
  /\ news[o] # "none"
  /\ cache' = [cache EXCEPT ![o] = store[o]]
  /\ news' = [news EXCEPT ![o] = "none"]
  /\ queued' = (queued \/ (o.kind \in Watched /\ news[o] = "app"))
  /\ UNCHANGED << appVars, store, latest, left, workerVars >>

\* The informers' periodic resync enqueues every Application in the cache.
Resync ==
  /\ appCache # NoApp
  /\ Spend("resync")
  /\ queued' = TRUE
  /\ UNCHANGED << appVars, objVars, latest, workerVars >>

\* The controller dies, wherever Reconcile was, and starts over with full caches.
Restart ==
  /\ Spend("restart")
  /\ Return(TRUE)
  /\ appCache' = app
  /\ appCacheCurrent' = TRUE
  /\ cache' = store
  /\ news' = [o \in Objects |-> "none"]
  /\ UNCHANGED << app, nextUid, store, latest >>

\* What a user may write: any spec but the one that is there.
OtherSpecs == IF app = NoApp THEN Specs ELSE Specs \ {app.spec}

Environment ==
  \/ \E s \in OtherSpecs : CreateApp(s) \/ EditApp(s)
  \/ DeleteApp \/ Publish \/ Resync \/ Restart \/ SyncApp
  \/ \E o \in Objects : Meddle(o) \/ Report(o) \/ CollectGarbage(o) \/ SyncObject(o)

Next == Reconcile \/ Environment

Spec == Init /\ [][Next]_vars

\* The worker, the informers and the garbage collector keep going.
Fairness ==
  /\ WF_vars(Reconcile)
  /\ WF_vars(SyncApp)
  /\ \A o \in Objects : WF_vars(SyncObject(o)) /\ WF_vars(CollectGarbage(o))

FairSpec == Spec /\ Fairness

-----------------------------------------------------------------------------
(***************************************************************************)
(* Properties                                                              *)
(***************************************************************************)

\* A cluster-wide grant outlives nothing: once the Application is gone, or before
\* it holds the finalizer, no ClusterRoleBinding made for it is left (the comment
\* at the cleanup in Reconcile).
NoOrphanedGrants ==
  (app = NoApp \/ ~app.finalizer) =>
     \A o \in Objects : ClusterScoped(o) => ~OwnedByApp(store[o])

\* How far the Application is protected, and the grants made for it that exist.
Life ==
  IF app = NoApp THEN "absent"
  ELSE IF ~app.finalizer THEN "unprotected"
  ELSE IF app.deleting THEN "leaving" ELSE "protected"

Granted == { o \in Objects : ClusterScoped(o) /\ OwnedByApp(store[o]) }

Access ==
  INSTANCE AccessGrants WITH
    Bindings <- { o \in Objects : ClusterScoped(o) }, life <- Life, granted <- Granted

\* Stages, failures, stale reads and crashes make up the simple life of an Application in
\* AccessGrants: rights are granted only to one that is protected, and it is let go only
\* when it is leaving and none is left.
GrantsFollowProtocol == Access!Spec

\* Whatever Reconcile creates or patches, it does so while the Application exists
\* and holds the finalizer: deletion cannot slip between the check of the finalizer
\* in a cached copy and a write made many steps later.
WritesOnlyUnderFinalizer ==
  [][ (pc \in {"create", "patch"} /\ pc' # pc /\ store' # store)
        => app # NoApp /\ app.finalizer /\ app.uid = copy.uid ]_vars

\* What the spec asks of the objects of kind k, and what it asks not to exist.
Wanted(s, k) == { o \in Objects : \E i \in DOMAIN s.wants[k] : s.wants[k][i] = o }

Supported == { Stages[i] : i \in DOMAIN Stages }

UpToDate(o, a) ==
  /\ OwnedByApp(store[o])
  /\ store[o] = Mutated(o, store[o], a, latest)

\* Everything the spec wants exists and is as the mutators would leave it, nothing
\* owned is left that it does not want, and the status tells of the Deployment.
Settled ==
  /\ \A k \in Supported :
        /\ \A o \in Wanted(app.spec, k) : UpToDate(o, app)
        /\ \A o \in Names(k) \ Wanted(app.spec, k) : ~OwnedByApp(store[o])
  /\ \A o \in Wanted(app.spec, "Deployment") :
        /\ app.image = store[o].image
        /\ store[o].avail # "none" => app.ready = store[o].avail

\* Nothing is queued, the caches have caught up and the collector has nothing to do.
Quiet ==
  /\ pc = "idle"
  /\ ~queued
  /\ appCacheCurrent
  /\ \A o \in Objects : news[o] = "none"
  /\ \A o \in Objects : ~Garbage(o)

\* When the controller has come to rest, it has nothing left to do: no lost event,
\* stale read, conflict, failed call or crash leaves it believing that it is done
\* while an object or the status is not what the spec asks for (reconcileResource).
AtRestMeansSettled == (Quiet /\ app # NoApp) => (~app.deleting /\ Settled)

\* The Deployment is written, whether or not the answer arrives, only when the accounts and
\* bindings of the same spec are in place: pods never start before the rights they are given
\* (the order of the stages in Reconcile, and its returns on their errors).
AccessBeforeWorkload ==
  [][ (pc \in {"create", "patch"} /\ Kind = "Deployment" /\ pc' # pc /\ store' # store)
        => \A k \in Supported \cap {"ServiceAccount", "RoleBinding", "ClusterRoleBinding"} :
              \A o \in Wanted(copy.spec, k) : OwnedByApp(store[o]) ]_vars

\* A mutator rejects the spec, or a name Reconcile has to deal with is somebody else's:
\* it fails at that stage, every time, and never reaches the later ones.
Obstructed ==
  \E k \in Supported :
     \/ k \in app.spec.malformed
     \/ \E o \in Names(k) : /\ store[o] # NoObj
                            /\ ~OwnedByApp(store[o])
                            /\ k \in Listed => o \in Wanted(app.spec, k)

\* Reconciliation ends: once users, registry and third parties stop, a live Application
\* that nothing obstructs is settled, and stays so.
Converges == <>[](app # NoApp => Settled \/ Obstructed)

\* An Application marked for deletion goes away.
DeletionCompletes == (app # NoApp /\ app.deleting) ~> (app = NoApp)

\* "Resources that are no longer wanted are cleaned up" (reconcileResource), for the
\* cluster-wide grants: at rest, no ClusterRoleBinding is left that no role asks for.
RevokedGrants ==
  (Quiet /\ app # NoApp) =>
     \A o \in Names("ClusterRoleBinding") \ Wanted(app.spec, "ClusterRoleBinding") :
        ~OwnedByApp(store[o])

\* "... is not owned by the Application; refusing to reconcile!" (reconcileResource):
\* Reconcile neither changes nor deletes an object that belongs to somebody else.
ForeignUntouched ==
  [][ (pc \in {"patch", "delete"} /\ pc' # pc /\ store' # store)
        => OwnedByApp(store[item]) ]_vars

=============================================================================
