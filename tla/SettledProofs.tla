---------------------------- MODULE SettledProofs ----------------------------
(***************************************************************************)
(* What Reconciler leaves behind when it comes to rest, for every set of   *)
(* objects and specs, every sequence of stages and every budget of events. *)
(*                                                                         *)
(* The argument: as long as a request is queued or an event on its way     *)
(* will queue one, nothing has to be right yet, for there will be another  *)
(* Reconcile (Pending).  Otherwise the copy that Reconcile works on is the *)
(* Application as it is, and what it has dealt with so far is as the spec  *)
(* asks (Accounted); the next failed call or lost race makes it Pending.   *)
(* So a Reconcile that returns without a request left has dealt with       *)
(* everything.                                                             *)
(***************************************************************************)
EXTENDS ReconcilerProofs, SequenceTheorems

\* There will be another Reconcile.
Pending ==
  \/ queued
  \/ ~appCacheCurrent
  \/ \E o \in Objects : o.kind \in Watched /\ news[o] = "app"

\* The object is as the Application's spec asks for: up to date, or not there for it.
Right(o) ==
  IF o \in Wanted(app.spec, o.kind) THEN UpToDate(o, app) ELSE ~OwnedByApp(store[o])

Working == pc \in {"get", "mutate", "create", "patch", "delete"}

ToDo(o) == (\E i \in DOMAIN ensure : ensure[i] = o) \/ o \in stale

\* Events that do not name the Application are of objects that are and were not its own.
NewsTold ==
  \A o \in Objects : news[o] = "other" => ~OwnedByApp(cache[o]) /\ ~OwnedByApp(store[o])

\* What a stage has on its list is its own kind's, wanted by the copy's spec or not, or an
\* invalid role; what leads to an update of the Application makes it a change.
Agenda ==
  /\ pc = "initStatus" => copy.ready = "none"
  /\ pc = "addFinalizer" => ~copy.finalizer
  /\ (stage > 0 /\ Working) =>
       /\ \A i \in DOMAIN ensure : ensure[i] \in Wanted(copy.spec, Kind) \cup {NotClusterRole}
       /\ stale \subseteq Names(Kind) \ Wanted(copy.spec, Kind)
  /\ pc \in {"mutate", "create", "patch"} => ensure # << >> /\ item = Head(ensure)
  /\ pc = "delete" => item \in stale

\* No role on the list is invalid.
AllValid == \A i \in DOMAIN ensure : ensure[i] # NotClusterRole

\* The object a patch is about is still as it was when the patch was made, or was and is not
\* the Application's; only one whose events do not count may be gone.
Basis ==
  \/ store[item] = before
  \/ item.kind \notin Watched /\ store[item] = NoObj
  \/ item.kind \in Watched /\ ~OwnedByApp(before) /\ ~OwnedByApp(store[item])

\* What a stage has dealt with is right, and so are the stages before it.
Progress ==
  /\ \A i \in 1..Len(Stages) : (i < stage \/ pc = "finalStatus") =>
        \A o \in Names(Stages[i]) : Right(o)
  /\ Working => \A o \in Names(Kind) : Right(o) \/ ToDo(o)
  /\ (pc = "finalStatus" \/ (pc = "get" /\ Kind = "Deployment" /\ ensure = << >>)) =>
        \A o \in Names("Deployment") : want = store[o]
  /\ pc \in {"create", "patch"} => want = Mutated(item, before, copy, latest)
  /\ pc = "patch" => Basis

\* When no other Reconcile is coming, this one knows the Application and has been right so
\* far, and the last one has left everything right.
Accounted ==
  ~Pending =>
    /\ pc = "idle" /\ app # NoApp => ~app.deleting /\ Settled
    /\ pc # "idle" => copyCurrent
    /\ stage > 0 /\ pc # "errorStatus" => Progress

\* The inductive invariant behind AtRestMeansSettled.
SInv == FInv /\ Synced /\ NewsTold /\ Marked /\ Agenda /\ AllValid /\ Accounted

\* No spec has a Cluster-scoped role that names no ClusterRole.
RolesValid ==
  \A s \in Specs, k \in Kinds : \A i \in DOMAIN s.wants[k] : s.wants[k][i] # NotClusterRole

\* Nobody else touches CronJobs, whose events do not queue a request, and their cache is
\* up to date when it is read.
CronJobsKept ==
  /\ \A o \in Meddled : o.kind # "CronJob"
  /\ "CronJob" \notin LaggingKinds

-----------------------------------------------------------------------------
(***************************************************************************)
(* The operators                                                           *)
(***************************************************************************)

\* What a spec wants of a kind are objects of that kind.
LEMMA WantedNames ==
  ASSUME NEW s \in Specs, NEW k \in Kinds
  PROVE  Wanted(s, k) \subseteq Names(k)
BY SpecAssumption DEF Wanted, Names

\* What is left of a list but its head is part of the list.
LEMMA TailParts ==
  ASSUME NEW S, NEW list \in Seq(S), list # << >>
  PROVE  /\ Tail(list) \in Seq(S) /\ Len(Tail(list)) = Len(list) - 1
         /\ \A i \in DOMAIN Tail(list) : i + 1 \in DOMAIN list /\ Tail(list)[i] = list[i + 1]
         /\ \A i \in DOMAIN list : i # 1 => i - 1 \in DOMAIN Tail(list) /\ Tail(list)[i - 1] = list[i]
<1>1. Tail(list) \in Seq(S) /\ Len(Tail(list)) = Len(list) - 1
  OBVIOUS
<1>2. DOMAIN Tail(list) = 1..Len(list) - 1 /\ DOMAIN list = 1..Len(list) /\ Len(list) \in Nat
  BY <1>1
<1>3. \A i \in 1..Len(list) - 1 : Tail(list)[i] = list[i + 1]
  OBVIOUS
<1>4. ASSUME NEW i \in DOMAIN list, i # 1
      PROVE  i - 1 \in 1..Len(list) - 1 /\ Tail(list)[i - 1] = list[i]
  <2>1. i - 1 \in 1..Len(list) - 1 /\ (i - 1) + 1 = i
    BY <1>2, <1>4
  <2> QED BY <1>3, <2>1
<1> QED BY <1>1, <1>2, <1>3, <1>4

\* A mutator run on what it left changes nothing; what it leaves belongs to the Application,
\* and the Deployment's conditions are not its business.
LEMMA MutatedTwice ==
  ASSUME NEW o \in Objects, NEW obj \in Stored \cup {NoObj},
         NEW a \in Applications, NEW image \in Nat
  PROVE  LET new == Mutated(o, obj, a, image)
         IN  /\ new \in Stored
             /\ new.owner = OwnerFor(o, a)
             /\ OwnedByApp(new)
             /\ obj # NoObj => new.avail = obj.avail
             /\ Mutated(o, new, a, image) = new
<1> DEFINE new == Mutated(o, obj, a, image)
           old == IF obj = NoObj
                  THEN [owner |-> OwnerFor(o, a), rev |-> 0, image |-> 0, avail |-> "none"]
                  ELSE obj
<1>1. new \in Stored /\ new # NoObj
  BY MutatedType, SentinelAssumption
<1>2. OwnerFor(o, a) \in Owners /\ OwnerFor(o, a).by = "app"
  BY DEF OwnerFor, Owners, Applications
<1>3. old \in Stored
  BY <1>2 DEF Stored, Revs
<1>4. new = [old EXCEPT !.owner = OwnerFor(o, a), !.rev = RevFor(o, a.spec, @),
                        !.image = ImageFor(o, image)]
  BY DEF Mutated
<1> HIDE DEF old, new
<1>5. /\ new.owner = OwnerFor(o, a) /\ new.rev = RevFor(o, a.spec, old.rev)
      /\ new.image = ImageFor(o, image) /\ new.avail = old.avail
  BY <1>3, <1>4 DEF Stored
<1>6. RevFor(o, a.spec, new.rev) = new.rev
  BY <1>5 DEF RevFor
<1>7. Mutated(o, new, a, image) =
        [new EXCEPT !.owner = OwnerFor(o, a), !.rev = RevFor(o, a.spec, @),
                    !.image = ImageFor(o, image)]
  BY <1>1 DEF Mutated
<1>8. Mutated(o, new, a, image) = new
  BY <1>1, <1>5, <1>6, <1>7 DEF Stored
<1>9. obj # NoObj => new.avail = obj.avail
  BY <1>5 DEF old
<1> QED BY <1>1, <1>2, <1>5, <1>8, <1>9 DEF new, OwnedByApp

\* A merge patch made from what is there leaves what was meant ...
LEMMA PatchOfSame ==
  ASSUME NEW from \in Stored, NEW to \in Stored, to.avail = from.avail
  PROVE  MergePatch(from, from, to) = to
BY DEF MergePatch, Stored

\* ... and one that makes an object the Application's does so whatever is there by then.
LEMMA PatchAdopts ==
  ASSUME NEW obj \in Stored, NEW from \in Stored, NEW to \in Stored,
         OwnedByApp(to), ~OwnedByApp(from)
  PROVE  OwnedByApp(MergePatch(obj, from, to))
<1>1. to.owner # from.owner
  BY SentinelAssumption DEF OwnedByApp
<1>2. MergePatch(obj, from, to) \in Stored
  BY MergePatchType
<1>3. MergePatch(obj, from, to).owner = to.owner
  BY <1>1 DEF MergePatch, Stored
<1> QED BY <1>2, <1>3, SentinelAssumption DEF OwnedByApp

\* An object that changes in the Application's hands, or into them, leaves news of it; no
\* write takes back such news.
LEMMA WriteTells ==
  ASSUME TypeInv, NEW o \in Objects, NEW new, Write(o, new)
  PROVE  /\ \A p \in Objects : news[p] = "app" => news'[p] = "app"
         /\ \A p \in Objects \ {o} : store'[p] = store[p] /\ news'[p] = news[p]
         /\ store'[o] = new
         /\ (new # store[o] /\ (OwnedByApp(store[o]) \/ OwnedByApp(new))) => news'[o] = "app"
         /\ news'[o] = "other" =>
              news[o] = "other" \/ (~OwnedByApp(store[o]) /\ ~OwnedByApp(new))
<1>1. store \in [Objects -> Stored \cup {NoObj}] /\ news \in [Objects -> {"none", "other", "app"}]
  BY DEF TypeInv, SharedOK
<1>2. CASE new = store[o]
  BY <1>1, <1>2 DEF Write
<1>3. CASE new # store[o]
  BY <1>1, <1>3 DEF Write
<1> QED BY <1>2, <1>3

\* A request or an event that is on its way stays so until Reconcile begins.
LEMMA PendingStays ==
  ASSUME queued => queued', appCacheCurrent' => appCacheCurrent,
         \A o \in Objects : news[o] = "app" => news'[o] = "app"
  PROVE  Pending => Pending'
BY DEF Pending

\* Rightness looks at the object, the Application and the image only.
LEMMA RightStays ==
  ASSUME NEW o \in Objects, UNCHANGED << app, latest >>, store'[o] = store[o]
  PROVE  Right(o)' <=> Right(o)
BY DEF Right, UpToDate, OwnedByApp

-----------------------------------------------------------------------------
(***************************************************************************)
(* Caches, the deletion mark and the stage's list                          *)
(***************************************************************************)

\* A write keeps what the events on their way say of the objects.
LEMMA WriteTold ==
  ASSUME TypeInv, Synced, NewsTold, NEW o \in Objects, NEW new, Write(o, new), UNCHANGED cache
  PROVE  Synced' /\ NewsTold'
<1>1. Synced'
  BY WriteSynced
<1> SUFFICES ASSUME NEW p \in Objects, news'[p] = "other"
             PROVE  ~OwnedByApp(cache[p]) /\ ~OwnedByApp(store'[p])
  BY <1>1 DEF NewsTold, OwnedByApp
<1>2. CASE p # o
  <2>1. news[p] = "other" /\ store'[p] = store[p]
    BY <1>2, WriteTells
  <2> QED BY <2>1 DEF NewsTold
<1>3. CASE p = o /\ new = store[o]
  <2>1. news' = news /\ store'[o] = store[o]
    BY <1>3, WriteTells DEF Write
  <2> QED BY <1>3, <2>1 DEF NewsTold
<1>4. CASE p = o /\ new # store[o]
  <2>1. ~OwnedByApp(store[o]) /\ ~OwnedByApp(new) /\ store'[o] = new
    BY <1>4, WriteTells
  <2>2. news[o] \in {"none", "other"}
    BY <1>4, WriteTells DEF TypeInv, SharedOK
  <2>3. ~OwnedByApp(cache[o])
    BY <2>1, <2>2 DEF Synced, NewsTold
  <2> QED BY <1>4, <2>1, <2>3
<1> QED BY <1>2, <1>3, <1>4

\* Every step keeps caches and events consistent.
LEMMA NextTold ==
  ASSUME TypeInv, Synced, NewsTold, [Next]_vars
  PROVE  Synced' /\ NewsTold'
<1>1. CASE UNCHANGED objVars
  BY <1>1 DEF objVars, Synced, NewsTold, OwnedByApp
<1>2. ASSUME NEW o \in Objects, NEW new, Write(o, new), UNCHANGED cache
      PROVE  Synced' /\ NewsTold'
  BY <1>2, WriteTold
<1>3. CASE Create \/ Patch \/ Delete
  <2>1. PICK accepted, result : Call(accepted, result)
    BY <1>3 DEF Create, Patch, Delete
  <2>2. item \in Objects
    BY <1>3 DEF Create, Patch, Delete, TypeInv, Control
  <2> QED BY <1>1, <1>2, <2>1, <2>2 DEF Call, objVars
<1>4. ASSUME NEW o \in Objects, Meddle(o) \/ Report(o) \/ CollectGarbage(o)
      PROVE  Synced' /\ NewsTold'
  BY <1>2, <1>4, OthersGrantNothing DEF Meddle, Report, CollectGarbage
<1>5. ASSUME NEW o \in Objects, SyncObject(o) PROVE Synced' /\ NewsTold'
  BY <1>5 DEF SyncObject, TypeInv, SharedOK, Synced, NewsTold, OwnedByApp
<1>6. CASE Restart
  BY <1>6 DEF Restart, Synced, NewsTold
<1>7. CASE \/ Begin \/ ReadError \/ InitStatus \/ AddFinalizer \/ RemoveFinalizer \/ FinalStatus \/ ErrorStatus
           \/ ListGrants \/ ListStage \/ NextStage \/ SkipRole
           \/ (\E o \in Objects : Get(o)) \/ Mutate
           \/ (\E s \in Specs : CreateApp(s) \/ EditApp(s)) \/ DeleteApp
           \/ Publish \/ Resync \/ SyncApp \/ UNCHANGED vars
  BY <1>1, <1>7 DEF Begin, ReadError, InitStatus, AddFinalizer, RemoveFinalizer, FinalStatus, ErrorStatus,
     UpdateApp, ListGrants, ListStage, NextStage, SkipRole, Get, Mutate, CreateApp, EditApp,
     DeleteApp, AppWritten, Publish, Resync, SyncApp, vars
<1> QED BY <1>3, <1>4, <1>5, <1>6, <1>7 DEF Next, Reconcile, Environment, OtherSpecs

\* The worker's updates mark no Application and take no finalizer from a marked one, but by
\* letting it go.
LEMMA UpdateMarked ==
  ASSUME Marked, NEW new, NEW r, UpdateApp(new, r),
         copyCurrent => \/ new = NoApp
                        \/ app # NoApp /\ new.deleting = app.deleting
                             /\ (app.finalizer => new.finalizer)
  PROVE  Marked'
<1>1. UNCHANGED app \/ (copyCurrent /\ app' = new)
  BY DEF UpdateApp
<1> QED BY <1>1 DEF Marked

\* Every step keeps the finalizer of an Application that is marked for deletion.
LEMMA NextMarked ==
  ASSUME TypeInv, Marked, [Next]_vars
  PROVE  Marked'
<1>1. app # NoApp => app \in Applications
  BY DEF TypeInv, SharedOK
<1>2. copyCurrent => app # NoApp
  BY DEF TypeInv, Versions, Control
<1>3. CASE InitStatus
  BY <1>1, <1>2, <1>3, UpdateMarked DEF InitStatus, Applications
<1>4. CASE AddFinalizer
  BY <1>1, <1>2, <1>4, UpdateMarked DEF AddFinalizer, Applications
<1>5. CASE RemoveFinalizer
  BY <1>5, UpdateMarked DEF RemoveFinalizer
<1>6. CASE FinalStatus
  <2> DEFINE new == [app EXCEPT !.image = want.image,
                                !.ready = IF want.avail = "none" THEN @ ELSE want.avail]
  <2>1. app # NoApp => new.deleting = app.deleting /\ new.finalizer = app.finalizer
    BY <1>1 DEF Applications
  <2> QED BY <1>2, <1>6, <2>1, UpdateMarked DEF FinalStatus
<1>7. CASE ErrorStatus
  BY <1>1, <1>2, <1>7, UpdateMarked DEF ErrorStatus, Applications
<1>8. ASSUME NEW s \in Specs, CreateApp(s) PROVE Marked'
  BY <1>8 DEF CreateApp, AppWritten, Marked
<1>9. ASSUME NEW s \in Specs, EditApp(s) PROVE Marked'
  BY <1>1, <1>9 DEF EditApp, AppWritten, Marked, Applications
<1>10. CASE DeleteApp
  BY <1>1, <1>10 DEF DeleteApp, AppWritten, Marked, Applications
<1>11. CASE UNCHANGED app
  BY <1>11 DEF Marked
<1>12. CASE Create \/ Patch \/ Delete
  BY <1>11, <1>12 DEF Create, Patch, Delete, Call, appVars
<1>13. CASE \/ Begin \/ ReadError \/ ListGrants \/ ListStage \/ NextStage \/ SkipRole
            \/ (\E o \in Objects : Get(o)) \/ Mutate
            \/ Publish \/ Resync \/ Restart \/ SyncApp \/ UNCHANGED vars
            \/ \E o \in Objects : Meddle(o) \/ Report(o) \/ CollectGarbage(o) \/ SyncObject(o)
  BY <1>11, <1>13 DEF Begin, ReadError, ListGrants, ListStage, NextStage, SkipRole, Get, Mutate, Publish,
     Resync, Restart, SyncApp, Meddle, Report, CollectGarbage, SyncObject, appVars, vars
<1> QED BY <1>3, <1>4, <1>5, <1>6, <1>7, <1>8, <1>9, <1>10, <1>12, <1>13
        DEF Next, Reconcile, Environment, OtherSpecs

\* An error, or a return, leaves nothing on the list that matters.
LEMMA FailAgenda == ASSUME Fail PROVE Agenda'
<1>1. pc' \in {"idle", "errorStatus"}
  BY DEF Fail, Return
<1> QED BY <1>1 DEF Agenda, Working

\* Being done with an object shortens the list.
LEMMA DoneAgenda ==
  ASSUME TypeInv, Agenda, Working, NEW o, NEW result, DoneWith(o, result)
  PROVE  Agenda'
<1>1. pc' = "get" /\ UNCHANGED << copy, stage >> /\ Kind' = Kind
  BY DEF DoneWith, Kind
<1>2. stale' \subseteq stale
  BY DEF DoneWith
<1>3. \A i \in DOMAIN ensure' : \E j \in DOMAIN ensure : ensure'[i] = ensure[j]
  <2>1. ensure \in Seq(Objects \cup {NotClusterRole})
    BY DEF TypeInv, LocalsOK
  <2>2. CASE ensure # << >>
    BY <2>1, <2>2, TailParts DEF DoneWith
  <2>3. CASE ensure = << >>
    BY <2>3 DEF DoneWith
  <2> QED BY <2>2, <2>3
<1> QED BY <1>1, <1>2, <1>3 DEF Agenda, Working

\* The list a stage begins with.
LEMMA ListAgenda ==
  ASSUME TypeInv, ListStage
  PROVE  Agenda'
<1>1. stage > 0 /\ copy \in Applications
  BY DEF ListStage, TypeInv, Control, LocalsOK
<1>2. Kind \in Kinds /\ Kind' = Kind
  BY <1>1, StagesAssumption DEF ListStage, Kind, TypeInv, LocalsOK
<1>3. copy.spec \in Specs
  BY <1>1 DEF Applications
<1>4. ensure' = copy.spec.wants[Kind] /\ UNCHANGED copy
  BY DEF ListStage
<1>5. ensure' \in Seq(Objects \cup {NotClusterRole})
  BY <1>2, <1>3, <1>4, SpecType
<1>6. \A i \in DOMAIN ensure' : ensure'[i] \in Wanted(copy.spec, Kind) \cup {NotClusterRole}
  BY <1>4, <1>5 DEF Wanted
<1>7. stale' \subseteq Names(Kind) \ Wanted(copy.spec, Kind)
  <2>1. Wanted(copy.spec, Kind) \subseteq { ensure'[i] : i \in DOMAIN ensure' }
    BY <1>4 DEF Wanted
  <2>2. stale' \subseteq Names(Kind) \ { ensure'[i] : i \in DOMAIN ensure' }
    BY DEF ListStage, OwnedInCache, Names
  <2> QED BY <2>1, <2>2
<1>8. pc' = "get"
  BY DEF ListStage
<1> QED BY <1>2, <1>4, <1>6, <1>7, <1>8 DEF Agenda, Working

\* Every step keeps the list in line with the copy's spec.
LEMMA NextAgenda ==
  ASSUME TypeInv, Agenda, [Next]_vars
  PROVE  Agenda'
<1>1. CASE UNCHANGED << pc, copy, stage, ensure, stale, item >>
  BY <1>1 DEF Agenda, Working, Kind
<1>2. CASE \/ InitStatus \/ AddFinalizer \/ RemoveFinalizer \/ FinalStatus \/ ErrorStatus
           \/ Restart
  <2>1. pc' = "idle"
    BY <1>2 DEF InitStatus, AddFinalizer, RemoveFinalizer, FinalStatus, ErrorStatus, UpdateApp,
                Restart, Return
  <2> QED BY <2>1 DEF Agenda, Working
<1>3. CASE Begin
  <2>1. ~Working'
    BY <1>3 DEF Begin, Entry, Working
  <2>2. pc' # "idle" => copy' = appCache
    BY <1>3 DEF Begin
  <2>3. /\ pc' = "initStatus" => appCache.ready = "none"
        /\ pc' = "addFinalizer" => ~appCache.finalizer
        /\ pc' \notin {"mutate", "create", "patch", "delete"}
    BY <1>3 DEF Begin, Entry
  <2> QED BY <2>1, <2>2, <2>3 DEF Agenda
<1>4. CASE ListGrants
  <2>1. pc' = "get" /\ stage' = 0
    BY <1>4 DEF ListGrants, TypeInv, Control
  <2> QED BY <2>1 DEF Agenda
<1>5. CASE NextStage
  BY <1>5 DEF NextStage, Agenda, Working
<1>6. CASE SkipRole
  BY <1>6 DEF SkipRole, Agenda, Working
<1>7. ASSUME NEW o \in Objects, Get(o) PROVE Agenda'
  <2>1. CASE Fail
    BY <2>1, FailAgenda
  <2>2. CASE DoneWith(o, NoObj)
    BY <1>7, <2>2, DoneAgenda DEF Get, Working
  <2>3. CASE /\ pc' = IF ensure # << >> THEN "mutate" ELSE "delete"
             /\ item' = o
             /\ UNCHANGED << copy, stage, ensure, stale >>
    BY <1>7, <2>3 DEF Get, Agenda, Working, Kind
  <2> QED BY <1>7, <2>1, <2>2, <2>3 DEF Get
<1>8. CASE Mutate
  <2>1. CASE Fail
    BY <2>1, FailAgenda
  <2>2. ASSUME NEW new, DoneWith(item, new) PROVE Agenda'
    BY <1>8, <2>2, DoneAgenda DEF Mutate, Working
  <2>3. CASE /\ pc' \in {"create", "patch"}
             /\ UNCHANGED << copy, stage, ensure, stale, item >>
    BY <1>8, <2>3 DEF Mutate, Agenda, Working, Kind
  <2> QED BY <1>8, <2>1, <2>2, <2>3 DEF Mutate
<1>9. CASE Create \/ Patch \/ Delete
  <2>1. PICK accepted, result : Call(accepted, result)
    BY <1>9 DEF Create, Patch, Delete
  <2>2. Working
    BY <1>9 DEF Create, Patch, Delete, Working
  <2> QED BY <2>1, <2>2, FailAgenda, DoneAgenda DEF Call
<1>10. CASE \/ (\E s \in Specs : CreateApp(s) \/ EditApp(s)) \/ DeleteApp
            \/ Publish \/ Resync \/ SyncApp \/ UNCHANGED vars
            \/ \E o \in Objects : Meddle(o) \/ Report(o) \/ CollectGarbage(o) \/ SyncObject(o)
  BY <1>1, <1>10 DEF CreateApp, EditApp, DeleteApp, AppWritten, Publish, Resync, SyncApp, Meddle,
     Report, CollectGarbage, SyncObject, vars, workerVars, localVars
<1>11. CASE ReadError
  <2>1. Return(TRUE) \/ Fail
    BY <1>11, ReadErrorFails
  <2>2. Return(TRUE) => pc' = "idle"
    BY DEF Return
  <2> QED BY <2>1, <2>2, FailAgenda DEF Agenda, Working
<1> QED BY <1>2, <1>3, <1>4, <1>5, <1>6, <1>7, <1>8, <1>9, <1>10, <1>11, ListAgenda
        DEF Next, Reconcile, Environment, OtherSpecs

\* The list is shortened from the front, emptied, or made from a spec.
LEMMA ListMoves ==
  ASSUME TypeInv, [Next]_vars
  PROVE  \/ ensure' \in {ensure, << >>}
         \/ ensure # << >> /\ ensure' = Tail(ensure)
         \/ \E s \in Specs, k \in Kinds : ensure' = s.wants[k]
<1>1. ASSUME NEW r, Return(r) PROVE ensure' = << >>
  BY <1>1 DEF Return
<1>2. ASSUME Fail PROVE ensure' \in {ensure, << >>}
  BY <1>2, <1>1 DEF Fail, localVars
<1>3. ASSUME NEW o, NEW result, DoneWith(o, result)
      PROVE  ensure' = ensure \/ (ensure # << >> /\ ensure' = Tail(ensure))
  BY <1>3 DEF DoneWith
<1>4. CASE InitStatus \/ AddFinalizer \/ RemoveFinalizer \/ FinalStatus \/ ErrorStatus \/ Restart
  BY <1>1, <1>4 DEF InitStatus, AddFinalizer, RemoveFinalizer, FinalStatus, ErrorStatus,
     UpdateApp, Restart
<1>5. CASE ListStage
  <2>1. copy \in Applications /\ stage \in 1..Len(Stages)
    BY <1>5 DEF ListStage, TypeInv, Control, LocalsOK
  <2>2. Kind \in Kinds /\ copy.spec \in Specs
    BY <2>1, StagesAssumption DEF Kind, Applications
  <2> QED BY <1>5, <2>2 DEF ListStage
<1>6. ASSUME NEW o \in Objects, Get(o)
      PROVE  ensure' \in {ensure, << >>} \/ (ensure # << >> /\ ensure' = Tail(ensure))
  BY <1>2, <1>3, <1>6 DEF Get
<1>7. CASE Mutate
  BY <1>2, <1>3, <1>7 DEF Mutate
<1>8. CASE Create \/ Patch \/ Delete
  BY <1>2, <1>3, <1>8 DEF Create, Patch, Delete, Call
<1>9. CASE \/ Begin \/ ListGrants \/ NextStage \/ SkipRole
           \/ (\E s \in Specs : CreateApp(s) \/ EditApp(s)) \/ DeleteApp
           \/ Publish \/ Resync \/ SyncApp \/ UNCHANGED vars
           \/ \E o \in Objects : Meddle(o) \/ Report(o) \/ CollectGarbage(o) \/ SyncObject(o)
  BY <1>9 DEF Begin, ListGrants, NextStage, SkipRole, CreateApp, EditApp, DeleteApp, AppWritten,
     Publish, Resync, SyncApp, Meddle, Report, CollectGarbage, SyncObject, vars, workerVars,
     localVars
<1>10. CASE ReadError
  BY <1>1, <1>2, <1>10, ReadErrorFails
<1> QED BY <1>4, <1>5, <1>6, <1>7, <1>8, <1>9, <1>10 DEF Next, Reconcile, Environment, OtherSpecs

\* A stage has a kind, and what the copy's spec wants of it is of that kind.
LEMMA StageKind ==
  ASSUME FInv, stage > 0
  PROVE  /\ copy \in Applications /\ copy.spec \in Specs
         /\ stage \in 1..Len(Stages) /\ Kind = Stages[stage] /\ Kind \in Kinds
         /\ Wanted(copy.spec, Kind) \subseteq Names(Kind)
<1>1. stage \in 1..Len(Stages) /\ Kind = Stages[stage]
  BY StagesAssumption DEF Kind, FInv, TypeInv, LocalsOK
<1>2. Kind \in Kinds
  BY <1>1, StagesAssumption
<1>3. copy # NoApp
  BY DEF FInv, FinalizerHeld, Live
<1>4. copy \in Applications
  BY <1>3 DEF FInv, TypeInv, LocalsOK
<1>5. copy.spec \in Specs
  BY <1>4 DEF Applications
<1> QED BY <1>1, <1>2, <1>4, <1>5, WantedNames

\* What a stage is working on is one of its objects.
LEMMA ItemKind ==
  ASSUME FInv, Agenda, stage > 0, Working, NEW o \in Objects,
         IF ensure # << >> THEN o = Head(ensure) ELSE o \in stale
  PROVE  /\ o \in Names(Kind)
         /\ o \in Wanted(copy.spec, Kind) <=> ensure # << >>
<1>1. ensure \in Seq(Objects \cup {NotClusterRole})
  BY DEF FInv, TypeInv, LocalsOK
<1>2. ensure # << >> => o \in Wanted(copy.spec, Kind)
  BY <1>1, SentinelAssumption DEF Agenda
<1>3. ensure = << >> => o \in Names(Kind) \ Wanted(copy.spec, Kind)
  BY DEF Agenda
<1> QED BY <1>2, <1>3, StageKind

\* Valid roles in the specs mean valid roles on the list.
LEMMA NextValid ==
  ASSUME RolesValid, TypeInv, AllValid, [Next]_vars
  PROVE  AllValid'
<1>1. ensure \in Seq(Objects \cup {NotClusterRole})
  BY DEF TypeInv, LocalsOK
<1>2. CASE ensure' \in {ensure, << >>}
  BY <1>2 DEF AllValid
<1>3. CASE ensure # << >> /\ ensure' = Tail(ensure)
  BY <1>1, <1>3, TailParts DEF AllValid
<1>4. CASE \E s \in Specs, k \in Kinds : ensure' = s.wants[k]
  BY <1>4 DEF RolesValid, AllValid
<1> QED BY <1>2, <1>3, <1>4, ListMoves

-----------------------------------------------------------------------------
(***************************************************************************)
(* Accounted                                                               *)
(***************************************************************************)

\* With no other Reconcile coming, the copy is the Application.
LEMMA CopyIsApp ==
  ASSUME SInv, ~Pending, pc # "idle"
  PROVE  copyCurrent /\ copy = app
BY DEF SInv, FInv, TypeInv, Versions, Accounted

\* A step of the worker that writes nothing and stays inside a stage.
LEMMA SameRight ==
  ASSUME UNCHANGED << app, latest, store >>
  PROVE  \A o \in Objects : Right(o)' <=> Right(o)
BY RightStays

\* The worker's updates end a Reconcile; no other is coming only when the update was made
\* and changed nothing.
LEMMA UpdateAccounted ==
  ASSUME SInv, NEW new, NEW requeue, UpdateApp(new, requeue), ~Pending'
  PROVE  /\ ~requeue /\ copyCurrent /\ new = app /\ app' = app /\ ~Pending
         /\ pc' = "idle" /\ stage' = 0 /\ UNCHANGED << store, latest >>
<1>1. news' = news /\ UNCHANGED << store, latest >>
  BY DEF UpdateApp, objVars
<1>2. ~queued' /\ appCacheCurrent'
  BY DEF Pending
<1>3. ~Return(TRUE)
  BY <1>2 DEF Return
<1>4. /\ copyCurrent /\ app' = new
      /\ appCacheCurrent' = (appCacheCurrent /\ new = app)
      /\ Return(requeue)
  BY <1>3 DEF UpdateApp
<1>5. ~requeue /\ ~queued /\ appCacheCurrent /\ new = app
  BY <1>2, <1>4 DEF Return, SInv, FInv, TypeInv, LocalsOK, SharedOK
<1>6. ~Pending
  BY <1>1, <1>2, <1>5 DEF Pending
<1> QED BY <1>1, <1>4, <1>5, <1>6 DEF Return

\* The first status, the finalizer and its removal are changes; an error comes back; and
\* after the final status everything is right.
LEMMA OwnUpdatesAccounted ==
  ASSUME SInv, InitStatus \/ AddFinalizer \/ RemoveFinalizer \/ FinalStatus \/ ErrorStatus
  PROVE  Accounted'
<1> SUFFICES ASSUME ~Pending' PROVE Accounted'
  BY DEF Accounted
<1>1. PICK new, requeue : UpdateApp(new, requeue)
  BY DEF InitStatus, AddFinalizer, RemoveFinalizer, FinalStatus, ErrorStatus
<1>2. ~Pending /\ pc' = "idle" /\ stage' = 0 /\ app' = app /\ copyCurrent /\ UNCHANGED << store, latest >>
  BY <1>1, UpdateAccounted
<1>3. pc # "idle"
  BY DEF InitStatus, AddFinalizer, RemoveFinalizer, FinalStatus, ErrorStatus
<1>4. copy = app /\ app \in Applications
  BY <1>2, <1>3, CopyIsApp DEF SInv, FInv, TypeInv, Control, LocalsOK
<1>5. ~InitStatus
  <2> SUFFICES ASSUME InitStatus PROVE FALSE
    OBVIOUS
  <2>1. app = [app EXCEPT !.ready = "Unknown"]
    BY UpdateAccounted DEF InitStatus
  <2>2. app.ready = "none"
    BY <1>4 DEF InitStatus, SInv, Agenda
  <2> QED BY <1>4, <2>1, <2>2 DEF Applications
<1>6. ~AddFinalizer
  <2> SUFFICES ASSUME AddFinalizer PROVE FALSE
    OBVIOUS
  <2>1. app = [app EXCEPT !.finalizer = TRUE]
    BY UpdateAccounted DEF AddFinalizer
  <2>2. ~app.finalizer
    BY <1>4 DEF AddFinalizer, SInv, Agenda
  <2> QED BY <1>4, <2>1, <2>2 DEF Applications
<1>7. ~RemoveFinalizer
  <2> SUFFICES ASSUME RemoveFinalizer PROVE FALSE
    OBVIOUS
  <2>1. app = NoApp
    BY UpdateAccounted DEF RemoveFinalizer
  <2> QED BY <1>4, <2>1, SentinelAssumption
<1>8. ~ErrorStatus
  BY UpdateAccounted DEF ErrorStatus
<1>9. CASE FinalStatus
  <2> DEFINE status == [app EXCEPT !.image = want.image,
                                   !.ready = IF want.avail = "none" THEN @ ELSE want.avail]
  <2>1. app = status
    BY <1>9, UpdateAccounted DEF FinalStatus
  <2>2. app.image = want.image /\ (want.avail # "none" => app.ready = want.avail)
    BY <1>4, <2>1 DEF Applications
  <2>3. stage > 0 /\ pc = "finalStatus" /\ app.spec \in Specs
    BY <1>4, <1>9 DEF FinalStatus, SInv, FInv, TypeInv, Control, Applications
  <2>4. Progress
    BY <1>2, <2>3 DEF SInv, Accounted
  <2>5. \A k \in Supported : \A o \in Names(k) : Right(o)
    BY <2>3, <2>4, StagesAssumption DEF Progress, Supported
  <2>6. Supported \subseteq Kinds
    BY StagesAssumption DEF Supported
  <2>7. \A k \in Supported : \A o \in Names(k) :
           IF o \in Wanted(app.spec, k) THEN UpToDate(o, app) ELSE ~OwnedByApp(store[o])
    BY <2>5 DEF Right, Names
  <2>8. \A k \in Supported : Wanted(app.spec, k) \subseteq Names(k)
    BY <2>3, <2>6, WantedNames
  <2>9. \A o \in Wanted(app.spec, "Deployment") : want = store[o]
    <3>1. "Deployment" \in Kinds
      BY DEF Kinds, ReconcileOrder
    <3> QED BY <2>3, <2>4, <3>1, WantedNames DEF Progress
  <2>10. Settled
    BY <2>2, <2>7, <2>8, <2>9 DEF Settled
  <2>11. ~app.deleting
    BY <1>4, <2>3 DEF SInv, FInv, FinalizerHeld, Live
  <2>12. Settled'
    BY <1>2, <2>10 DEF Settled, UpToDate, OwnedByApp
  <2> QED BY <1>2, <2>11, <2>12 DEF Accounted
<1> QED BY <1>5, <1>6, <1>7, <1>8, <1>9

\* Reconcile begins with an Application that the cache shows as it is, or there will be
\* another.
LEMMA BeginAccounted ==
  ASSUME SInv, Begin
  PROVE  Accounted'
<1> SUFFICES ASSUME ~Pending' PROVE Accounted'
  BY DEF Accounted
<1>1. UNCHANGED << app, appCacheCurrent, store, latest >>
  BY DEF Begin, appVars, objVars
<1>2. appCacheCurrent /\ appCache = app
  BY <1>1 DEF Pending, SInv, FInv, TypeInv, Versions
<1>3. pc' = Entry(app) /\ (pc' # "idle" => copyCurrent')
  BY <1>2 DEF Begin
<1>4. pc' = "idle" => app' = NoApp
  BY <1>1, <1>3 DEF Entry, SInv, Marked
<1>5. stage' > 0 => pc' = "list" /\ stage' = 1
  BY DEF Begin
<1>6. stage' > 0 => Progress'
  BY <1>5 DEF Progress, Working
<1> QED BY <1>3, <1>4, <1>6 DEF Accounted

\* What the caches show to be the Application's is so, and what they do not is not, unless
\* another Reconcile is coming.
LEMMA CacheTells ==
  ASSUME SInv, CronJobsKept, ~Pending, NEW k \in Kinds, Fresh(k), NEW o \in Names(k)
  PROVE  \/ cache[o] = store[o]
         \/ k \in Watched /\ ~OwnedByApp(cache[o]) /\ ~OwnedByApp(store[o])
<1>1. o \in Objects /\ o.kind = k
  BY DEF Names
<1>2. news[o] \in {"none", "other", "app"}
  BY <1>1 DEF SInv, FInv, TypeInv, SharedOK
<1>3. CASE k = "CronJob"
  BY <1>1, <1>3 DEF CronJobsKept, Fresh, SInv, Synced
<1>4. CASE k # "CronJob"
  <2>1. k \in Watched
    BY <1>4 DEF Watched
  <2>2. news[o] # "app"
    BY <1>1, <2>1 DEF Pending
  <2> QED BY <1>1, <1>2, <2>1, <2>2 DEF SInv, Synced, NewsTold
<1> QED BY <1>3, <1>4

\* A stage begins with everything on its list that is not right.
LEMMA ListAccounted ==
  ASSUME SInv, CronJobsKept, ListGrants \/ ListStage
  PROVE  Accounted'
<1> SUFFICES ASSUME ~Pending' PROVE Accounted'
  BY DEF Accounted
<1>1. UNCHANGED << app, store, latest, copyCurrent, copy, stage >> /\ Kind' = Kind
  BY DEF ListGrants, ListStage, appVars, objVars, Kind
<1>2. ~Pending
  BY PendingStays DEF ListGrants, ListStage, appVars, objVars
<1>3. pc' = "get" /\ pc # "idle"
  BY DEF ListGrants, ListStage
<1>4. copyCurrent /\ copy = app
  BY <1>2, <1>3, CopyIsApp
<1>5. CASE ListGrants
  <2>1. stage' = 0
    BY <1>5 DEF ListGrants, SInv, FInv, TypeInv, Control
  <2> QED BY <1>1, <1>3, <1>4, <2>1 DEF Accounted
<1>6. CASE ListStage
  <2>1. stage > 0 /\ pc = "list"
    BY <1>6 DEF ListStage, SInv, FInv, TypeInv, Control
  <2>2. Progress
    BY <1>2, <2>1 DEF SInv, Accounted
  <2>3. Kind \in Kinds /\ app.spec \in Specs /\ Wanted(app.spec, Kind) \subseteq Names(Kind)
    BY <1>4, <2>1, StageKind DEF SInv
  <2>4. ASSUME NEW o \in Names(Kind) PROVE Right(o) \/ ToDo(o)'
    <3>1. o \in Objects /\ o.kind = Kind
      BY DEF Names
    <3>2. CASE o \in Wanted(app.spec, Kind)
      BY <1>4, <1>6, <3>2 DEF ListStage, Wanted, ToDo
    <3>3. CASE o \notin Wanted(app.spec, Kind)
      <4>1. o \notin { ensure'[i] : i \in DOMAIN ensure' }
        BY <1>4, <1>6, <3>1, <3>3 DEF ListStage, Wanted
      <4>2. CASE Kind \notin Listed
        BY <1>6, <4>1, <4>2 DEF ListStage, ToDo
      <4>3. CASE OwnedByApp(cache[o])
        BY <1>6, <3>1, <4>1, <4>3 DEF ListStage, ToDo, OwnedInCache
      <4>4. CASE ~OwnedByApp(cache[o])
        <5>1. Fresh(Kind)
          BY <1>6 DEF ListStage
        <5>2. ~OwnedByApp(store[o])
          BY <1>2, <2>3, <4>4, <5>1, CacheTells DEF OwnedByApp
        <5> QED BY <3>1, <3>3, <5>2 DEF Right
      <4> QED BY <4>2, <4>3, <4>4
    <3> QED BY <3>2, <3>3
  <2>5. ~(Kind = "Deployment" /\ ensure' = << >>)
    BY <1>4, <1>6, <2>3, OneDeployment DEF ListStage
  <2>6. \A o \in Objects : Right(o)' <=> Right(o)
    BY <1>1, SameRight
  <2>7. \A i \in 1..Len(Stages) : \A o \in Names(Stages[i]) : o \in Objects
    BY DEF Names
  <2>8. \A o \in Names(Kind) : o \in Objects
    BY DEF Names
  <2>9. Progress'
    BY <1>1, <1>3, <2>1, <2>2, <2>4, <2>5, <2>6, <2>7, <2>8 DEF Progress, Working
  <2> QED BY <1>1, <1>3, <1>4, <2>9 DEF Accounted
<1> QED BY <1>5, <1>6

\* A stage ends with nothing on its list, so all of its kind is right.
LEMMA NextStageAccounted ==
  ASSUME SInv, NextStage
  PROVE  Accounted'
<1> SUFFICES ASSUME ~Pending' PROVE Accounted'
  BY DEF Accounted
<1>1. UNCHANGED << app, store, latest, copyCurrent, want >>
  BY DEF NextStage, appVars, objVars
<1>2. ~Pending
  BY PendingStays DEF NextStage, appVars, objVars
<1>3. /\ pc = "get" /\ ensure = << >> /\ stale = {}
      /\ pc' \in {"removeFinalizer", "finalStatus", "list"}
  BY DEF NextStage
<1>4. copyCurrent
  BY <1>2, <1>3, CopyIsApp
<1>5. CASE stage = 0
  BY <1>1, <1>3, <1>4, <1>5 DEF NextStage, Accounted
<1>6. CASE stage > 0
  <2>1. Progress
    BY <1>2, <1>3, <1>6 DEF SInv, Accounted
  <2>2. stage \in 1..Len(Stages) /\ Kind = Stages[stage]
    BY <1>6, StageKind DEF SInv
  <2>3. \A o \in Names(Stages[stage]) : Right(o)
    BY <1>3, <2>1, <2>2 DEF Progress, Working, ToDo
  <2>4. \A i \in 1..Len(Stages) : i <= stage => \A o \in Names(Stages[i]) : Right(o)
    BY <2>1, <2>2, <2>3 DEF Progress
  <2>5. \/ pc' = "finalStatus" /\ stage' = stage /\ stage = Len(Stages)
        \/ pc' = "list" /\ stage' = stage + 1
    BY <1>6 DEF NextStage
  <2>6. Len(Stages) \in Nat
    BY StagesAssumption
  <2>7. \A i \in 1..Len(Stages) : (i < stage' \/ pc' = "finalStatus") => i <= stage
    BY <2>2, <2>5, <2>6
  <2>8. pc' = "finalStatus" => \A o \in Names("Deployment") : want = store[o]
    BY <1>3, <2>1, <2>2, <2>5, StagesAssumption DEF Progress
  <2>9. \A o \in Objects : Right(o)' <=> Right(o)
    BY <1>1, SameRight
  <2>10. \A i \in 1..Len(Stages) : \A o \in Names(Stages[i]) : o \in Objects
    BY DEF Names
  <2>11. Progress'
    BY <1>1, <1>3, <2>4, <2>7, <2>8, <2>9, <2>10 DEF Progress, Working, Names
  <2> QED BY <1>1, <1>3, <1>4, <2>11 DEF Accounted
<1> QED BY <1>5, <1>6 DEF SInv, FInv, TypeInv, LocalsOK

\* With valid roles nothing on the list is skipped.
LEMMA NoSkip ==
  ASSUME SInv, SkipRole
  PROVE  FALSE
<1>1. ensure # << >> /\ Head(ensure) = NotClusterRole
  BY DEF SkipRole
<1>2. ensure \in Seq(Objects \cup {NotClusterRole})
  BY DEF SInv, FInv, TypeInv, LocalsOK
<1> QED BY <1>1, <1>2 DEF SInv, AllValid

\* An error makes another Reconcile follow, or the update of the status will.
LEMMA FailAccounted ==
  ASSUME SInv, pc # "idle", Fail, UNCHANGED << app, appCacheCurrent >>,
         \A o \in Objects : news[o] = "app" => news'[o] = "app"
  PROVE  Accounted'
<1> SUFFICES ASSUME ~Pending' PROVE Accounted'
  BY DEF Accounted
<1>1. ~queued'
  BY DEF Pending
<1>2. pc' = "errorStatus" /\ UNCHANGED << queued, copyCurrent >>
  BY <1>1 DEF Fail, Return, localVars
<1>3. ~Pending
  BY <1>2, PendingStays
<1>4. copyCurrent
  BY <1>3, CopyIsApp
<1> QED BY <1>2, <1>4 DEF Accounted

\* When the object at the head of the list is right, so is everything off the list.
LEMMA DoneAccounted ==
  ASSUME SInv, stage > 0, Working, NEW o \in Objects, NEW result, DoneWith(o, result),
         IF ensure # << >> THEN o = Head(ensure) ELSE o \in stale,
         UNCHANGED << app, appCacheCurrent, latest >>, ~Pending', ~Pending,
         \A p \in Objects : news[p] = "app" => news'[p] = "app",
         \A p \in Objects \ {o} : store'[p] = store[p],
         Right(o)',
         (Kind = "Deployment" /\ ensure # << >>) => result = store'[o]
  PROVE  Accounted'
<1>1. pc' = "get" /\ UNCHANGED << queued, copy, copyCurrent, stage >> /\ Kind' = Kind /\ want' = result
  BY DEF DoneWith, Kind
<1>2. copyCurrent /\ copy = app /\ pc # "idle"
  BY CopyIsApp DEF Working
<1>3. Progress
  BY <1>2 DEF SInv, Accounted, Working
<1>4. o \in Objects /\ o \in Names(Kind)
  BY ItemKind DEF SInv, Names
<1>5. \A p \in Objects \ {o} : Right(p)' <=> Right(p)
  BY RightStays
<1>6. ASSUME NEW i \in 1..Len(Stages), i < stage, NEW p \in Names(Stages[i]) PROVE Right(p)'
  <2>1. Right(p)
    BY <1>3, <1>6 DEF Progress
  <2> QED BY <1>5, <2>1 DEF Names
<1>7. ASSUME NEW p \in Names(Kind) PROVE Right(p)' \/ ToDo(p)'
  <2>1. CASE p = o
    BY <2>1
  <2>2. CASE p # o /\ Right(p)
    BY <1>5, <2>2 DEF Names
  <2>3. CASE p # o /\ ToDo(p)
    <3>1. CASE p \in stale
      BY <2>3, <3>1 DEF DoneWith, ToDo
    <3>2. CASE \E i \in DOMAIN ensure : ensure[i] = p
      <4>1. ensure \in Seq(Objects \cup {NotClusterRole})
        BY DEF SInv, FInv, TypeInv, LocalsOK
      <4>2. PICK i \in DOMAIN ensure : ensure[i] = p
        BY <3>2
      <4>3. ensure # << >> /\ i # 1 /\ ensure' = Tail(ensure)
        BY <2>3, <4>1, <4>2 DEF DoneWith
      <4> QED BY <4>1, <4>2, <4>3, TailParts DEF ToDo
    <3> QED BY <2>3, <3>1, <3>2 DEF ToDo
  <2> QED BY <1>3, <2>1, <2>2, <2>3 DEF Progress
<1>8. (Kind = "Deployment" /\ ensure' = << >>) => \A p \in Names("Deployment") : result = store'[p]
  <2> SUFFICES ASSUME Kind = "Deployment", ensure' = << >> PROVE \A p \in Names("Deployment") : result = store'[p]
    OBVIOUS
  <2>1. Stages[stage] = "Deployment" /\ copy.spec \in Specs
    BY StageKind DEF SInv
  <2>2. stale = {}
    BY <2>1 DEF SInv, FInv, TypeInv, Control, LastStage, Working
  <2>3. ensure # << >>
    BY <2>2
  <2>4. PICK d \in Objects : Names("Deployment") \subseteq {d}
    BY <2>1, OneDeployment
  <2>5. Names("Deployment") \subseteq {o}
    BY <1>4, <2>4
  <2> QED BY <2>3, <2>5
<1>9. Progress'
  BY <1>1, <1>6, <1>7, <1>8 DEF Progress, Working, Names
<1> QED BY <1>1, <1>2, <1>9 DEF Accounted

\* A read that fails does, too.
LEMMA ReadErrorAccounted ==
  ASSUME SInv, ReadError
  PROVE  Accounted'
<1>1. /\ Return(TRUE) \/ (Fail /\ pc # "idle")
      /\ UNCHANGED << app, appCacheCurrent, news >>
  BY ReadErrorFails DEF appVars, objVars
<1>2. CASE Return(TRUE)
  BY <1>2 DEF Return, Accounted, Pending
<1> QED BY <1>1, <1>2, FailAccounted

\* Progress on an object leads to nothing being lost: the step from its first reading to the
\* call that is to be made for it.
LEMMA OnwardAccounted ==
  ASSUME SInv, stage > 0, Working, Working', pc' # "get",
         UNCHANGED << app, latest, store, copy, copyCurrent, stage, ensure, stale >>,
         ~Pending, ~Pending',
         pc' \in {"create", "patch"} => want' = Mutated(item', before', copy', latest'),
         pc' = "patch" => Basis'
  PROVE  Accounted'
<1>1. copyCurrent /\ pc' # "idle" /\ pc' # "finalStatus" /\ pc # "idle" /\ pc # "errorStatus"
      /\ Kind' = Kind
  BY CopyIsApp DEF Working, Kind
<1>2. Progress
  BY <1>1 DEF SInv, Accounted
<1>3. \A p \in Objects : Right(p)' <=> Right(p)
  BY SameRight
<1>4. ASSUME NEW i \in 1..Len(Stages), i < stage, NEW p \in Names(Stages[i]) PROVE Right(p)'
  BY <1>2, <1>3, <1>4 DEF Progress, Names
<1>5. ASSUME NEW p \in Names(Kind) PROVE Right(p)' \/ ToDo(p)'
  <2>1. Right(p) \/ ToDo(p)
    BY <1>2 DEF Progress
  <2> QED BY <1>3, <2>1 DEF Names, ToDo
<1>6. Progress'
  BY <1>1, <1>4, <1>5 DEF Progress, Names
<1> QED BY <1>1, <1>6 DEF Accounted

\* Reading an object: it is left alone when it is somebody else's, or not wanted and gone.
LEMMA GetAccounted ==
  ASSUME SInv, CronJobsKept, NEW o \in Objects, Get(o)
  PROVE  Accounted'
<1> SUFFICES ASSUME ~Pending' PROVE Accounted'
  BY DEF Accounted
<1>1. UNCHANGED << app, appCacheCurrent, store, news, latest >>
  BY DEF Get, appVars, objVars
<1>2. pc = "get" /\ Working
  BY DEF Get, Working
<1>3. IF ensure # << >> THEN o = Head(ensure) ELSE o \in stale
  BY DEF Get
<1>4. CASE Fail
  BY <1>1, <1>2, <1>4, FailAccounted
<1>5. CASE ~Fail /\ ensure = << >> /\ cache[o] = NoObj /\ DoneWith(o, NoObj)
  <2>1. UNCHANGED << queued, copyCurrent, stage >> /\ pc' = "get"
    BY <1>5 DEF DoneWith
  <2>2. ~Pending
    BY <1>1, <2>1, PendingStays
  <2>3. copyCurrent /\ copy = app
    BY <1>2, <2>2, CopyIsApp
  <2>4. CASE stage = 0
    BY <2>1, <2>3, <2>4 DEF Accounted
  <2>5. CASE stage > 0
    <3>1. o \in Names(Kind) /\ o \notin Wanted(app.spec, Kind) /\ Kind \in Kinds
      BY <1>2, <1>3, <1>5, <2>3, <2>5, ItemKind, StageKind DEF SInv
    <3>2. Fresh(Kind)
      BY DEF Get
    <3>3. ~OwnedByApp(store[o])
      BY <1>5, <2>2, <3>1, <3>2, CacheTells DEF OwnedByApp
    <3>4. Right(o)
      BY <3>1, <3>3 DEF Right, Names
    <3>5. Right(o)'
      BY <1>1, <3>4, RightStays
    <3> QED BY <1>1, <1>2, <1>3, <1>5, <2>2, <2>5, <3>5, DoneAccounted
  <2> QED BY <2>4, <2>5 DEF SInv, FInv, TypeInv, LocalsOK
<1>6. CASE /\ pc' = IF ensure # << >> THEN "mutate" ELSE "delete"
           /\ UNCHANGED << queued, copy, copyCurrent, stage, ensure, stale >>
  <2>1. ~Pending
    BY <1>1, <1>6, PendingStays
  <2>2. copyCurrent
    BY <1>2, <2>1, CopyIsApp
  <2>3. CASE stage = 0
    BY <1>6, <2>2, <2>3 DEF Accounted
  <2>4. CASE stage > 0
    <3>1. Working' /\ pc' \in {"mutate", "delete"}
      BY <1>6 DEF Working
    <3> QED BY <1>1, <1>2, <1>6, <2>1, <2>4, <3>1, OnwardAccounted
  <2> QED BY <2>3, <2>4 DEF SInv, FInv, TypeInv, LocalsOK
<1> QED BY <1>4, <1>5, <1>6 DEF Get

\* Preparing an object: when there is nothing to change it is right.
LEMMA MutateAccounted ==
  ASSUME SInv, CronJobsKept, Mutate
  PROVE  Accounted'
<1> SUFFICES ASSUME ~Pending' PROVE Accounted'
  BY DEF Accounted
<1> DEFINE obj == IF cache[item] = NoObj THEN before ELSE cache[item]
           new == Mutated(item, obj, copy, latest)
<1>1. UNCHANGED << app, appCacheCurrent, store, news, latest >>
  BY DEF Mutate, appVars, objVars
<1>2. pc = "mutate" /\ Working /\ stage > 0
  BY DEF Mutate, Working, SInv, FInv, TypeInv, Control
<1>3. ensure # << >> /\ item = Head(ensure) /\ item \in Objects
  BY <1>2 DEF SInv, Agenda, FInv, TypeInv, Control
<1>4. CASE Fail
  BY <1>1, <1>2, <1>4, FailAccounted
<1>5. CASE ~Fail
  <2>1. IF new = cache[item]
        THEN DoneWith(item, new)
        ELSE /\ pc' = IF cache[item] = NoObj THEN "create" ELSE "patch"
             /\ before' = obj
             /\ want' = new
             /\ UNCHANGED << queued, copy, copyCurrent, stage, ensure, stale, item >>
    BY <1>5 DEF Mutate
  <2>2. queued' = queued
    BY <2>1 DEF DoneWith
  <2>3. ~Pending
    BY <1>1, <2>2, PendingStays
  <2>4. copy = app /\ app \in Applications /\ Kind \in Kinds
    BY <1>2, <2>3, CopyIsApp, StageKind DEF SInv
  <2>5. item \in Names(Kind) /\ item \in Wanted(app.spec, Kind) /\ item.kind = Kind
    BY <1>2, <1>3, <2>4, ItemKind DEF SInv, Names
  <2>6. Fresh(Kind)
    BY DEF Mutate
  <2>7. \/ cache[item] = store[item]
        \/ Kind \in Watched /\ ~OwnedByApp(cache[item]) /\ ~OwnedByApp(store[item])
    BY <2>3, <2>4, <2>5, <2>6, CacheTells
  <2>8. obj \in Stored \cup {NoObj} /\ latest \in Nat
    BY <1>3 DEF SInv, FInv, TypeInv, SharedOK, LocalsOK
  <2>9. OwnedByApp(new)
    BY <1>3, <2>4, <2>8, MutatedTwice
  <2>10. CASE new = cache[item]
    <3>1. cache[item] = store[item]
      BY <2>7, <2>9, <2>10
    <3>2. new # NoObj
      BY <2>9 DEF OwnedByApp
    <3>3. obj = store[item] /\ store[item] = Mutated(item, store[item], app, latest)
      BY <2>4, <2>10, <3>1, <3>2
    <3>4. Right(item)
      BY <2>5, <2>9, <2>10, <3>1, <3>3 DEF Right, UpToDate
    <3>5. PICK o \in Objects, result \in Stored : o = item /\ result = store[item]
      BY <1>3, <2>10, <3>1, <3>2 DEF SInv, FInv, TypeInv, SharedOK
    <3>6. Right(o)'
      BY <1>1, <3>4, <3>5, RightStays
    <3>7. DoneWith(o, result) /\ result = store'[o]
      BY <1>1, <2>1, <2>10, <3>1, <3>5
    <3> QED BY <1>1, <1>2, <1>3, <2>3, <3>5, <3>6, <3>7, DoneAccounted
  <2>11. CASE new # cache[item]
    <3> HIDE DEF new, obj
    <3>1. /\ pc' = IF cache[item] = NoObj THEN "create" ELSE "patch"
          /\ before' = obj
          /\ want' = new
          /\ UNCHANGED << queued, copy, copyCurrent, stage, ensure, stale, item >>
      BY <2>1, <2>11
    <3>2. want' = Mutated(item', before', copy', latest')
      BY <1>1, <3>1 DEF new
    <3>3. ASSUME pc' = "patch" PROVE Basis'
      <4>1. before' = cache[item]
        BY <3>1, <3>3 DEF obj
      <4>2. item' = item /\ store' = store
        BY <1>1, <3>1
      <4>3. \/ store'[item'] = before'
            \/ item'.kind \in Watched /\ ~OwnedByApp(before') /\ ~OwnedByApp(store'[item'])
        BY <2>5, <2>7, <4>1, <4>2
      <4> QED BY <4>3 DEF Basis, OwnedByApp
    <3>4. Working' /\ pc' # "get"
      BY <3>1 DEF Working
    <3> QED BY <1>1, <1>2, <2>3, <3>1, <3>2, <3>3, <3>4, OnwardAccounted
  <2> QED BY <2>10, <2>11
<1> QED BY <1>4, <1>5

\* A call that is accepted leaves the object right, or another Reconcile comes.
LEMMA WrittenRight ==
  ASSUME SInv, stage > 0, ~Pending, ~Pending', UNCHANGED << app, latest >>,
         NEW o \in Objects, o = item, NEW result, Write(o, result),
         \/ Create /\ store[o] = NoObj /\ before = NoObj /\ result = want
         \/ Patch /\ store[o] # NoObj /\ result = MergePatch(store[o], before, want)
         \/ Delete /\ result = NoObj
  PROVE  /\ Right(o)'
         /\ IF ensure # << >> THEN o = Head(ensure) ELSE o \in stale
<1>1. Working /\ pc # "idle"
  BY DEF Create, Patch, Delete, Working
<1>2. copy = app /\ app \in Applications /\ Kind \in Kinds
  BY <1>1, CopyIsApp, StageKind DEF SInv
<1>3. IF ensure # << >> THEN o = Head(ensure) ELSE o \in stale
  BY DEF Create, Patch, Delete, SInv, Agenda, FInv, TypeInv, Control
<1>4. o \in Names(Kind) /\ (o \in Wanted(app.spec, Kind) <=> ensure # << >>) /\ o.kind = Kind
  BY <1>1, <1>2, <1>3, ItemKind DEF SInv, Names
<1>5. store'[o] = result
  BY WriteTells DEF SInv, FInv
<1>6. store[o] \in Stored \cup {NoObj} /\ latest \in Nat
  BY DEF SInv, FInv, TypeInv, SharedOK
<1>7. CASE Delete /\ result = NoObj
  <2>1. ensure = << >>
    BY <1>7 DEF Delete, SInv, FInv, TypeInv, Control
  <2> QED BY <1>3, <1>4, <1>5, <1>7, <2>1 DEF Right, OwnedByApp
<1>8. CASE (Create /\ store[o] = NoObj /\ before = NoObj /\ result = want)
           \/ (Patch /\ store[o] # NoObj /\ result = MergePatch(store[o], before, want))
  <2>1. pc \in {"create", "patch"}
    BY <1>8 DEF Create, Patch
  <2>2. before \in Stored \cup {NoObj} /\ want \in Stored /\ ensure # << >>
    BY <2>1 DEF SInv, FInv, TypeInv, LocalsOK, Control
  <2>3. Progress
    BY <2>1 DEF SInv, Accounted
  <2>4. want = Mutated(o, before, app, latest)
    BY <1>2, <2>1, <2>3 DEF Progress
  <2>5. /\ want = Mutated(o, want, app, latest)
        /\ OwnedByApp(want)
        /\ before # NoObj => want.avail = before.avail
    BY <1>2, <1>6, <2>2, <2>4, MutatedTwice
  <2>6. result = want
    <3>1. CASE Create /\ result = want
      BY <3>1
    <3>2. CASE Patch /\ store[o] # NoObj /\ result = MergePatch(store[o], before, want)
      <4>1. before \in Stored /\ Basis /\ store[o] \in Stored
        BY <1>6, <2>3, <3>2 DEF Patch, Progress, SInv, FInv, TypeInv, Control
      <4>2. CASE store[o] = before
        <5>1. before # NoObj
          BY <4>1, SentinelAssumption
        <5> QED BY <2>2, <2>5, <3>2, <4>1, <4>2, <5>1, PatchOfSame
      <4>3. CASE o.kind \in Watched /\ ~OwnedByApp(before) /\ ~OwnedByApp(store[o])
        <5>1. OwnedByApp(result)
          BY <2>2, <2>5, <3>2, <4>1, <4>3, PatchAdopts
        <5>2. news'[o] = "app"
          BY <4>3, <5>1, WriteTells DEF SInv, FInv
        <5> QED BY <4>3, <5>2 DEF Pending
      <4> QED BY <3>2, <4>1, <4>2, <4>3 DEF Basis
    <3> QED BY <1>8, <3>1, <3>2
  <2>7. o \in Wanted(app'.spec, o.kind)
    BY <1>4, <2>2
  <2>8. UpToDate(o, app)'
    BY <1>5, <2>5, <2>6 DEF UpToDate, OwnedByApp
  <2> QED BY <1>3, <2>7, <2>8 DEF Right
<1> QED BY <1>7, <1>8

\* Writing an object: it is right afterwards, or another Reconcile comes.
LEMMA WritesAccounted ==
  ASSUME SInv, Create \/ Patch \/ Delete
  PROVE  Accounted'
<1> SUFFICES ASSUME ~Pending' PROVE Accounted'
  BY DEF Accounted
<1>1. pc # "idle" /\ Working
  BY DEF Create, Patch, Delete, Working
<1>2. PICK o \in Objects : o = item
  BY DEF Create, Patch, Delete, SInv, FInv, TypeInv, Control
<1>3. PICK accepted, result :
         /\ Call(accepted, result)
         /\ accepted =>
              \/ Create /\ store[o] = NoObj /\ before = NoObj /\ result = want
              \/ Patch /\ store[o] # NoObj /\ result = MergePatch(store[o], before, want)
              \/ Delete /\ result = NoObj
  <2>1. CASE Create
    BY <1>2, <2>1 DEF Create, Delete
  <2>2. CASE Patch
    BY <1>2, <2>2 DEF Create, Patch, Delete
  <2>3. CASE Delete
    BY <1>2, <2>3 DEF Create, Delete
  <2> QED BY <2>1, <2>2, <2>3
<1>4. UNCHANGED << app, appCacheCurrent, latest >>
  BY <1>3 DEF Call, appVars
<1>5. \/ UNCHANGED << store, news >> /\ Fail
      \/ accepted /\ Write(o, result) /\ (Fail \/ DoneWith(o, result))
  BY <1>2, <1>3 DEF Call
<1>6. \A p \in Objects : news[p] = "app" => news'[p] = "app"
  BY <1>5, WriteTells DEF SInv, FInv
<1>7. CASE Fail
  BY <1>1, <1>4, <1>6, <1>7, FailAccounted
<1>8. CASE accepted /\ Write(o, result) /\ DoneWith(o, result)
  <2>1. UNCHANGED << queued, copyCurrent, stage >> /\ pc' = "get"
    BY <1>8 DEF DoneWith
  <2>2. ~Pending
    BY <1>4, <1>6, <2>1, PendingStays
  <2>3. copyCurrent
    BY <1>1, <2>2, CopyIsApp
  <2>4. CASE stage = 0
    BY <2>1, <2>3, <2>4 DEF Accounted
  <2>5. CASE stage > 0
    <3>1. Right(o)' /\ IF ensure # << >> THEN o = Head(ensure) ELSE o \in stale
      BY <1>2, <1>3, <1>4, <1>8, <2>2, <2>5, WrittenRight
    <3>2. \A p \in Objects \ {o} : store'[p] = store[p]
      BY <1>8, WriteTells DEF SInv, FInv
    <3>3. store'[o] = result
      BY <1>8, WriteTells DEF SInv, FInv
    <3> QED BY <1>1, <1>4, <1>6, <1>8, <2>2, <2>5, <3>1, <3>2, <3>3, DoneAccounted
  <2> QED BY <2>4, <2>5 DEF SInv, FInv, TypeInv, LocalsOK
<1> QED BY <1>5, <1>7, <1>8

\* The steps of users, informers, the image watcher and a restart make another Reconcile
\* come, or change nothing it is about.
LEMMA ElsewhereAccounted ==
  ASSUME SInv,
         \/ (\E s \in Specs : CreateApp(s) \/ EditApp(s)) \/ DeleteApp
         \/ Publish \/ Resync \/ Restart \/ SyncApp
         \/ (\E o \in Objects : SyncObject(o)) \/ UNCHANGED vars
  PROVE  Accounted'
<1> SUFFICES ASSUME ~Pending' PROVE Accounted'
  BY DEF Accounted
<1>1. ~queued' /\ appCacheCurrent'
  BY DEF Pending
<1>2. \/ \E o \in Objects : SyncObject(o)
      \/ UNCHANGED vars
  BY <1>1 DEF CreateApp, EditApp, DeleteApp, AppWritten, Publish, Resync, Restart, Return, SyncApp
<1>3. UNCHANGED << app, appCacheCurrent, store, latest, workerVars >>
  BY <1>2 DEF SyncObject, vars, appVars, objVars
<1>4. ~Pending
  <2>1. CASE UNCHANGED vars
    BY <2>1 DEF vars, appVars, objVars, Pending
  <2>2. ASSUME NEW o \in Objects, SyncObject(o) PROVE ~Pending
    <3>1. ~queued /\ ~(o.kind \in Watched /\ news[o] = "app")
      BY <1>1, <2>2 DEF SyncObject
    <3>2. \A p \in Objects \ {o} : news'[p] = news[p]
      BY <2>2 DEF SyncObject, SInv, FInv, TypeInv, SharedOK
    <3>3. appCacheCurrent
      BY <1>1, <1>3
    <3> QED BY <3>1, <3>2, <3>3 DEF Pending
  <2> QED BY <1>2, <2>1, <2>2
<1>5. Settled' <=> Settled
  BY <1>3 DEF Settled, UpToDate, OwnedByApp
<1>6. Progress' <=> Progress
  BY <1>3 DEF Progress, Basis, Working, Kind, ToDo, Right, UpToDate, OwnedByApp, workerVars, localVars
<1> QED BY <1>3, <1>4, <1>5, <1>6 DEF SInv, Accounted, workerVars, localVars

\* Where no other Reconcile is coming, others have changed nothing that is right.
LEMMA OthersKeep ==
  ASSUME SInv, CronJobsKept, NEW o \in Objects, Meddle(o) \/ Report(o) \/ CollectGarbage(o),
         ~Pending', app \in Applications, NEW p \in Objects, Right(p)
  PROVE  Right(p)' /\ (p \in Wanted(app.spec, p.kind) => store'[p] = store[p])
<1>1. UNCHANGED << app, latest >>
  BY DEF Meddle, Report, CollectGarbage, appVars
<1>2. PICK new : Write(o, new) /\ (OwnedByApp(new) => OwnedByApp(store[o]))
  BY OthersGrantNothing DEF SInv, FInv
<1>3. /\ \A q \in Objects \ {o} : store'[q] = store[q]
      /\ store'[o] = new
      /\ (new # store[o] /\ OwnedByApp(store[o])) => news'[o] = "app"
  BY <1>2, WriteTells DEF SInv, FInv
<1>4. CASE p # o \/ new = store[o]
  <2>1. store'[p] = store[p]
    BY <1>3, <1>4
  <2> QED BY <1>1, <2>1, RightStays
<1>5. CASE p = o /\ new # store[o] /\ ~OwnedByApp(store[o])
  <2>1. p \notin Wanted(app.spec, p.kind)
    BY <1>5 DEF Right, UpToDate
  <2>2. ~OwnedByApp(store'[p])
    BY <1>2, <1>3, <1>5
  <2> QED BY <1>1, <2>1, <2>2 DEF Right, OwnedByApp
<1>6. CASE p = o /\ new # store[o] /\ OwnedByApp(store[o])
  <2>1. o.kind = "CronJob"
    BY <1>3, <1>6, ObjectAssumption DEF Pending, Watched
  <2>2. CollectGarbage(o)
    BY <2>1 DEF Meddle, Report, CronJobsKept
  <2>3. p \in Wanted(app.spec, p.kind) /\ store[o] = Mutated(o, store[o], app, latest)
    BY <1>6 DEF Right, UpToDate
  <2>4. store[o].owner = OwnerFor(o, app)
    <3>1. store[o] \in Stored \cup {NoObj} /\ latest \in Nat
      BY DEF SInv, FInv, TypeInv, SharedOK
    <3> QED BY <2>3, <3>1, MutatedTwice
  <2>5. app.uid = store[o].owner.uid
    BY <2>1, <2>4 DEF OwnerFor, ClusterScoped
  <2>6. app # NoApp
    BY SentinelAssumption
  <2> QED BY <2>2, <2>5, <2>6 DEF CollectGarbage, Garbage
<1> QED BY <1>4, <1>5, <1>6

\* What others do makes another Reconcile come, or changes nothing that is right.
LEMMA OthersAccounted ==
  ASSUME SInv, CronJobsKept, NEW o \in Objects, Meddle(o) \/ Report(o) \/ CollectGarbage(o)
  PROVE  Accounted'
<1> SUFFICES ASSUME ~Pending' PROVE Accounted'
  BY DEF Accounted
<1>1. UNCHANGED << app, appCacheCurrent, queued, latest, workerVars >>
  BY DEF Meddle, Report, CollectGarbage, appVars
<1>2. PICK new : Write(o, new) /\ (OwnedByApp(new) => OwnedByApp(store[o]))
  BY OthersGrantNothing DEF SInv, FInv
<1>3. /\ \A p \in Objects : news[p] = "app" => news'[p] = "app"
      /\ \A p \in Objects \ {o} : store'[p] = store[p]
      /\ store'[o] = new
      /\ (new # store[o] /\ OwnedByApp(store[o])) => news'[o] = "app"
  BY <1>2, WriteTells DEF SInv, FInv
<1>4. ~Pending
  BY <1>1, <1>3, PendingStays
<1>5. (pc = "idle" /\ app # NoApp) => Settled'
  <2> SUFFICES ASSUME pc = "idle", app # NoApp PROVE Settled'
    OBVIOUS
  <2>1. app \in Applications /\ Settled
    BY <1>4 DEF SInv, Accounted, FInv, TypeInv, SharedOK
  <2>2. app.spec \in Specs
    BY <2>1 DEF Applications
  <2>3. \A k \in Supported : k \in Kinds /\ Wanted(app.spec, k) \subseteq Names(k)
    BY <2>2, StagesAssumption, WantedNames DEF Supported
  <2>4. \A k \in Supported : \A p \in Names(k) : Right(p)
    BY <2>1, <2>3 DEF Settled, Right, Names
  <2>5. \A k \in Supported : \A p \in Names(k) : Right(p)'
    BY <2>1, <2>4, OthersKeep DEF Names
  <2>6. "Deployment" \in Supported
    BY StagesAssumption DEF Supported
  <2>7. \A p \in Wanted(app.spec, "Deployment") : store'[p] = store[p]
    BY <2>1, <2>3, <2>4, <2>6, OthersKeep DEF Names
  <2>8. \A k \in Supported :
           /\ \A p \in Wanted(app.spec, k) : UpToDate(p, app)'
           /\ \A p \in Names(k) \ Wanted(app.spec, k) : ~OwnedByApp(store'[p])
    BY <1>1, <2>3, <2>5 DEF Right, Names, OwnedByApp
  <2> QED BY <1>1, <2>1, <2>7, <2>8 DEF Settled, OwnedByApp
<1>6. (stage > 0 /\ pc # "errorStatus") => Progress'
  <2> SUFFICES ASSUME stage > 0, pc # "errorStatus" PROVE Progress'
    OBVIOUS
  <2>1. /\ Progress /\ copy = app /\ app \in Applications /\ Kind \in Kinds /\ app.spec \in Specs
        /\ pc # "idle"
    BY <1>4, CopyIsApp, StageKind DEF SInv, Accounted, FInv, TypeInv, Control
  <2>2. \A p \in Objects : Right(p) => Right(p)'
    BY <2>1, OthersKeep
  <2>3. \A i \in 1..Len(Stages) : (i < stage \/ pc = "finalStatus") =>
           \A p \in Names(Stages[i]) : Right(p)'
    BY <2>1, <2>2 DEF Progress, Names
  <2>4. Working => \A p \in Names(Kind) : Right(p)' \/ ToDo(p)
    BY <2>1, <2>2 DEF Progress, Names
  <2>5. (pc = "finalStatus" \/ (pc = "get" /\ Kind = "Deployment" /\ ensure = << >>)) =>
           \A p \in Names("Deployment") : want = store'[p]
    <3> SUFFICES ASSUME pc = "finalStatus" \/ (pc = "get" /\ Kind = "Deployment" /\ ensure = << >>),
                        NEW p \in Names("Deployment")
                 PROVE  want = store'[p]
      OBVIOUS
    <3>1. PICK d \in Objects : app.spec.wants["Deployment"] = << d >> /\ Names("Deployment") \subseteq {d}
      BY <2>1, OneDeployment
    <3>2. p = d /\ p \in Objects /\ p.kind = "Deployment"
      BY <3>1 DEF Names
    <3>3. p \in Wanted(app.spec, p.kind)
      BY <3>1, <3>2 DEF Wanted
    <3>4. Right(p)
      <4>1. CASE pc = "finalStatus"
        BY <2>1, <4>1, StagesAssumption DEF Progress
      <4>2. CASE pc = "get" /\ Kind = "Deployment" /\ ensure = << >>
        <5>1. stale = {}
          BY <4>2, StageKind DEF SInv, FInv, TypeInv, Control, LastStage
        <5> QED BY <2>1, <4>2, <5>1 DEF Progress, Working, ToDo
      <4> QED BY <4>1, <4>2
    <3>5. store'[p] = store[p]
      BY <2>1, <3>2, <3>3, <3>4, OthersKeep
    <3> QED BY <2>1, <3>5 DEF Progress
  <2>6. pc = "patch" => Basis'
    <3> SUFFICES ASSUME pc = "patch" PROVE Basis'
      OBVIOUS
    <3>1. PICK p \in Objects : p = item
      BY DEF SInv, FInv, TypeInv, Control
    <3>2. Basis /\ item' = item /\ before' = before
      BY <1>1, <2>1 DEF Progress, workerVars, localVars
    <3>3. CASE p # o \/ new = store[o]
      <4>1. store'[p] = store[p]
        BY <1>3, <3>3
      <4> QED BY <3>1, <3>2, <4>1 DEF Basis, OwnedByApp
    <3>4. CASE p = o /\ new # store[o] /\ o.kind \in Watched
      <4>1. ~OwnedByApp(store[o]) /\ ~OwnedByApp(new)
        BY <1>2, <1>3, <3>4 DEF Pending
      <4>2. ~OwnedByApp(before)
        BY <3>1, <3>2, <3>4, <4>1 DEF Basis
      <4> QED BY <1>3, <3>1, <3>2, <3>4, <4>1, <4>2 DEF Basis, OwnedByApp
    <3>5. CASE p = o /\ o.kind \notin Watched
      <4>1. CollectGarbage(o)
        BY <3>5, ObjectAssumption DEF Watched, Meddle, Report, CronJobsKept
      <4>2. store'[o] = NoObj
        BY <4>1, WriteTells DEF CollectGarbage, SInv, FInv
      <4> QED BY <3>1, <3>2, <3>5, <4>2 DEF Basis
    <3> QED BY <3>3, <3>4, <3>5
  <2> QED BY <1>1, <2>1, <2>3, <2>4, <2>5, <2>6 DEF Progress, Working, Kind, ToDo, workerVars, localVars
<1> QED BY <1>1, <1>4, <1>5, <1>6 DEF SInv, Accounted, workerVars, localVars

-----------------------------------------------------------------------------
(***************************************************************************)
(* The theorem                                                             *)
(***************************************************************************)

\* At first there is no Application, and nothing is known of one.
LEMMA InitSettled == Init => SInv
<1> SUFFICES ASSUME Init PROVE SInv
  OBVIOUS
<1>1. TypeInv
  BY InitType
<1>2. FinalizerHeld
  BY DEF Init, FinalizerHeld, Cleaning, Live
<1>3. Synced /\ NewsTold /\ Marked
  BY DEF Init, Synced, NewsTold, Marked
<1>4. Agenda /\ AllValid /\ Accounted
  BY DEF Init, Agenda, Working, AllValid, Accounted
<1> QED BY <1>1, <1>2, <1>3, <1>4 DEF SInv, FInv

\* Every step accounts for what it does.
LEMMA NextSettled ==
  ASSUME RolesValid, CronJobsKept, SInv, [Next]_vars
  PROVE  SInv'
<1>1. FInv'
  BY NextHeld DEF SInv
<1>2. Synced' /\ NewsTold' /\ Marked' /\ Agenda' /\ AllValid'
  BY NextTold, NextMarked, NextAgenda, NextValid DEF SInv, FInv
<1> SUFFICES Accounted'
  BY <1>1, <1>2 DEF SInv
<1>3. CASE Reconcile
  <2>1. CASE Begin
    BY <2>1, BeginAccounted
  <2>2. CASE InitStatus \/ AddFinalizer \/ RemoveFinalizer \/ FinalStatus \/ ErrorStatus
    BY <2>2, OwnUpdatesAccounted
  <2>3. CASE ListGrants \/ ListStage
    BY <2>3, ListAccounted
  <2>4. CASE NextStage
    BY <2>4, NextStageAccounted
  <2>5. CASE SkipRole
    BY <2>5, NoSkip
  <2>6. ASSUME NEW o \in Objects, Get(o) PROVE Accounted'
    BY <2>6, GetAccounted
  <2>7. CASE Mutate
    BY <2>7, MutateAccounted
  <2>8. CASE Create \/ Patch \/ Delete
    BY <2>8, WritesAccounted
  <2>9. CASE ReadError
    BY <2>9, ReadErrorAccounted
  <2> QED BY <1>3, <2>1, <2>2, <2>3, <2>4, <2>5, <2>6, <2>7, <2>8, <2>9 DEF Reconcile
<1>4. CASE Environment \/ UNCHANGED vars
  <2>1. ASSUME NEW o \in Objects, Meddle(o) \/ Report(o) \/ CollectGarbage(o) PROVE Accounted'
    BY <2>1, OthersAccounted
  <2>2. CASE \/ (\E s \in Specs : CreateApp(s) \/ EditApp(s)) \/ DeleteApp
             \/ Publish \/ Resync \/ Restart \/ SyncApp
             \/ (\E o \in Objects : SyncObject(o)) \/ UNCHANGED vars
    BY <2>2, ElsewhereAccounted
  <2> QED BY <1>4, <2>1, <2>2 DEF Environment, OtherSpecs
<1> QED BY <1>3, <1>4 DEF Next

\* When the controller has come to rest, it has nothing left to do: whatever the objects,
\* the specs and the order in which calls fail, caches lag and the controller dies.  Roles
\* have to be valid, or a stage ends early and says nothing; and CronJobs have to be left
\* alone and seen at once, for their events do not queue a request.
THEOREM RestIsSettled ==
  ASSUME RolesValid, CronJobsKept
  PROVE  Spec => []AtRestMeansSettled
<1>1. Init => SInv
  BY InitSettled
<1>2. SInv /\ [Next]_vars => SInv'
  BY NextSettled
<1>3. SInv => AtRestMeansSettled
  BY DEF SInv, Accounted, AtRestMeansSettled, Quiet, Pending
<1> QED BY <1>1, <1>2, <1>3, PTL DEF Spec

=============================================================================
