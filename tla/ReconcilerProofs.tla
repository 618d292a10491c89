-------------------------- MODULE ReconcilerProofs --------------------------
(***************************************************************************)
(* Theorems about Reconciler, for every set of objects and specs, every    *)
(* sequence of stages and every budget of events.                          *)
(*                                                                         *)
(* The argument: Control ties the program counter of Reconcile to its      *)
(* locals, LastStage says that the Deployment's stage ends with one in     *)
(* want, and Versions that an equal resourceVersion means an equal         *)
(* Application; with them (TypeInv) TypeOK is inductive.  FinalizerHeld    *)
(* says that a cached or copied Application that holds the finalizer and   *)
(* is not being deleted cannot have lost it in the API server, because     *)
(* only the worker removes the finalizer and only after its cache has      *)
(* shown the deletion.  Every write of a stage is therefore made under     *)
(* the finalizer.  CleanupInv follows the deletion: what is still to be    *)
(* deleted is in stale.                                                    *)
(***************************************************************************)
EXTENDS Reconciler, TLAPS

\* Types of what the API server, the caches and the environment hold.
SharedOK ==
  /\ app \in Applications \cup {NoApp}
  /\ appCache \in Applications \cup {NoApp}
  /\ appCacheCurrent \in BOOLEAN
  /\ store \in [Objects -> Stored \cup {NoObj}]
  /\ cache \in [Objects -> Stored \cup {NoObj}]
  /\ news \in [Objects -> {"none", "other", "app"}]
  /\ latest \in Nat
  /\ left \in [Events -> Nat]
  /\ nextUid \in Nat

\* Types of the queue and of Reconcile's locals.
LocalsOK ==
  /\ queued \in BOOLEAN
  /\ pc \in PCs
  /\ copy \in Applications \cup {NoApp}
  /\ copyCurrent \in BOOLEAN
  /\ stage \in 0..Len(Stages)
  /\ ensure \in Seq(Objects \cup {NotClusterRole})
  /\ stale \in SUBSET Objects
  /\ item \in Objects \cup {NoObj}
  /\ before \in Stored \cup {NoObj}
  /\ want \in Stored \cup {NoObj}

\* In the Deployment's stage there is one object to handle, or it has been handled.
LastStage ==
  /\ (pc = "get" /\ stage > 0 /\ Stages[stage] = "Deployment") =>
        /\ stale = {}
        /\ (ensure = << >> /\ want \in Stored) \/ \E d \in Objects : ensure = << d >>
  /\ (pc \in {"mutate", "create", "patch"} /\ Stages[stage] = "Deployment") =>
        /\ stale = {}
        /\ \E d \in Objects : ensure = << d >>
  /\ (pc = "delete" /\ stage > 0) => Stages[stage] # "Deployment"

\* The program counter and the locals of Reconcile fit together.
Control ==
  /\ copy = NoApp <=> pc = "idle"
  /\ pc \in {"list", "mutate", "create", "patch", "finalStatus", "errorStatus"} => stage > 0
  /\ pc \in {"idle", "initStatus", "addFinalizer", "cleanup", "removeFinalizer"} => stage = 0
  /\ stage = 0 => ensure = << >>
  /\ pc \in {"mutate", "create", "patch", "delete"} => item \in Objects
  /\ pc \in {"mutate", "create", "patch"} => ensure # << >>
  /\ pc = "delete" => ensure = << >>
  /\ pc \in {"create", "patch", "finalStatus"} => want \in Stored
  /\ pc = "patch" => before \in Stored
  /\ LastStage

\* A copy with the resourceVersion of the Application is the Application.
Versions ==
  /\ copyCurrent => pc # "idle" /\ copy = app
  /\ appCacheCurrent => appCache = app

\* The inductive invariant behind TypeOK.
TypeInv == SharedOK /\ LocalsOK /\ Control /\ Versions

-----------------------------------------------------------------------------
(***************************************************************************)
(* The operators the actions are built from                                *)
(***************************************************************************)

\* A mutator run on an object, or on nothing, leaves an object.
LEMMA MutatedType ==
  ASSUME NEW o \in Objects, NEW obj \in Stored \cup {NoObj},
         NEW a \in Applications, NEW image \in Nat
  PROVE  Mutated(o, obj, a, image) \in Stored
<1>1. OwnerFor(o, a) \in Owners
  BY DEF OwnerFor, Owners, Applications
<1>2. 0 \in Revs /\ a.spec.rev \in Revs
  BY DEF Revs, Applications
<1>3. ImageFor(o, image) \in Nat
  BY DEF ImageFor
<1>4. DEFINE old == IF obj = NoObj
                    THEN [owner |-> OwnerFor(o, a), rev |-> 0, image |-> 0, avail |-> "none"]
                    ELSE obj
<1>5. old \in Stored
  BY <1>1, <1>2 DEF Stored
<1>6. \A r \in Revs : RevFor(o, a.spec, r) \in Revs
  BY <1>2 DEF RevFor
<1>7. Mutated(o, obj, a, image) =
        [old EXCEPT !.owner = OwnerFor(o, a), !.rev = RevFor(o, a.spec, @),
                    !.image = ImageFor(o, image)]
  BY DEF Mutated
<1>8. old.rev \in Revs /\ RevFor(o, a.spec, old.rev) \in Revs
  BY <1>5, <1>6 DEF Stored
<1> HIDE DEF old
<1>9. QED
  BY <1>1, <1>3, <1>5, <1>7, <1>8 DEF Stored

\* A merge patch of an object by the difference of two objects is an object.
LEMMA MergePatchType ==
  ASSUME NEW obj \in Stored, NEW from \in Stored, NEW to \in Stored
  PROVE  MergePatch(obj, from, to) \in Stored
BY DEF MergePatch, Stored

\* Writing an object, or its absence, to the API server keeps the types.
LEMMA WriteType ==
  ASSUME TypeOK, NEW o \in Objects, NEW new \in Stored \cup {NoObj}, Write(o, new)
  PROVE  /\ store' \in [Objects -> Stored \cup {NoObj}]
         /\ news' \in [Objects -> {"none", "other", "app"}]
BY DEF TypeOK, Write

\* Spending from the budget leaves a budget.
LEMMA SpendType ==
  ASSUME TypeOK, NEW e \in Events, Spend(e)
  PROVE  left' \in [Events -> Nat]
<1>1. left \in [Events -> Nat] /\ left[e] > 0 /\ left["any"] > 0
  BY DEF TypeOK, Spend
<1>2. ASSUME NEW k \in Events
      PROVE  (IF k \in {e, "any"} THEN left[k] - 1 ELSE left[k]) \in Nat
  <2>1. CASE k = e
    BY <1>1, <2>1
  <2>2. CASE k = "any"
    BY <1>1, <1>2, <2>2
  <2> QED
    BY <1>1, <2>1, <2>2
<1> QED
  BY <1>2 DEF Spend

\* The inductive invariant includes the type invariant.
LEMMA TypeInvTypes == TypeInv => TypeOK
BY DEF TypeInv, SharedOK, LocalsOK, TypeOK

\* The initial state.
LEMMA InitType == Init => TypeInv
<1> SUFFICES ASSUME Init PROVE TypeInv
  OBVIOUS
<1>1. Len(Stages) \in Nat
  BY StagesAssumption
<1>2. LocalsOK
  <2>1. ensure \in Seq(Objects \cup {NotClusterRole})
    BY DEF Init
  <2>2. stage \in 0..Len(Stages)
    BY <1>1 DEF Init
  <2>3. pc \in PCs /\ stale \in SUBSET Objects
    BY DEF Init, PCs
  <2>4. QED
    BY <2>1, <2>2, <2>3 DEF Init, LocalsOK
<1>3. SharedOK
  <2>1. left \in [Events -> Nat]
    BY BudgetAssumption DEF Init
  <2>2. /\ store \in [Objects -> Stored \cup {NoObj}]
        /\ cache \in [Objects -> Stored \cup {NoObj}]
        /\ news \in [Objects -> {"none", "other", "app"}]
    BY DEF Init
  <2>3. latest \in Nat /\ nextUid \in Nat
    BY DEF Init
  <2>4. QED
    BY <2>1, <2>2, <2>3 DEF Init, SharedOK
<1>4. Control /\ Versions
  BY DEF Init, Control, LastStage, Versions
<1>5. QED
  BY <1>2, <1>3, <1>4 DEF TypeInv

-----------------------------------------------------------------------------
(***************************************************************************)
(* The ways an action of Reconcile ends                                    *)
(***************************************************************************)

\* Reconcile's return leaves the worker idle with typed locals.
LEMMA ReturnType ==
  ASSUME TypeInv, NEW r \in BOOLEAN, Return(r)
  PROVE  LocalsOK' /\ Control' /\ ~copyCurrent'
<1>1. Len(Stages) \in Nat
  BY StagesAssumption
<1>2. ensure' \in Seq(Objects \cup {NotClusterRole}) /\ stage' \in 0..Len(Stages)
  BY <1>1 DEF Return
<1>3. pc' \in PCs /\ queued' \in BOOLEAN /\ stale' \in SUBSET Objects
  BY DEF Return, PCs, TypeInv, LocalsOK
<1>4. LocalsOK'
  BY <1>2, <1>3 DEF Return, LocalsOK
<1>5. Control' /\ ~copyCurrent'
  BY DEF Return, Control, LastStage
<1>6. QED
  BY <1>4, <1>5

\* An error ends the cleanup or leads a stage to its error status.
LEMMA FailType ==
  ASSUME TypeInv, Fail,
         pc \in {"cleanup", "list", "get", "mutate", "create", "patch", "delete"},
         app' = app, appCache' = appCache, appCacheCurrent' = appCacheCurrent
  PROVE  LocalsOK' /\ Control' /\ Versions'
<1>1. CASE stage = 0
  BY <1>1, ReturnType DEF Fail, TypeInv, Versions
<1>2. CASE stage # 0
  <2>1. pc' = "errorStatus" /\ UNCHANGED << queued, localVars >>
    BY <1>2 DEF Fail
  <2>2. LocalsOK'
    BY <2>1 DEF localVars, TypeInv, LocalsOK, PCs
  <2>3. Control'
    BY <1>2, <2>1 DEF localVars, TypeInv, LocalsOK, Control, LastStage
  <2>4. Versions'
    BY <2>1 DEF localVars, TypeInv, Versions
  <2>5. QED
    BY <2>2, <2>3, <2>4
<1>3. QED
  BY <1>1, <1>2

\* When an object is dealt with, Reconcile is back in the loop of its stage; the last
\* stage then has its Deployment in want.
LEMMA DoneWithType ==
  ASSUME TypeInv, pc \in {"get", "mutate", "create", "patch", "delete"},
         NEW o \in Objects, NEW result \in Stored \cup {NoObj}, DoneWith(o, result),
         ensure # << >> => result \in Stored,
         (ensure = << >> /\ stage > 0) => Stages[stage] # "Deployment",
         app' = app, appCache' = appCache, appCacheCurrent' = appCacheCurrent
  PROVE  LocalsOK' /\ Control' /\ Versions'
<1>1. ensure' \in Seq(Objects \cup {NotClusterRole}) /\ stale' \in SUBSET Objects
  BY DEF DoneWith, TypeInv, LocalsOK
<1>2. LocalsOK'
  BY <1>1 DEF DoneWith, TypeInv, LocalsOK, PCs
<1>3. LastStage'
  <2>1. SUFFICES ASSUME stage > 0, Stages[stage] = "Deployment"
                 PROVE  stale' = {} /\ ensure' = << >> /\ want' \in Stored
    BY DEF DoneWith, LastStage
  <2>2. pc # "delete"
    BY <2>1 DEF TypeInv, Control, LastStage
  <2>3. ensure # << >> /\ stale = {}
    BY <2>1, <2>2 DEF TypeInv, Control, LastStage
  <2>4. PICK d \in Objects : ensure = << d >>
    BY <2>1, <2>2, <2>3 DEF TypeInv, Control, LastStage
  <2>5. QED
    BY <2>3, <2>4 DEF DoneWith
<1>4. Control'
  BY <1>3 DEF DoneWith, TypeInv, Control
<1>5. Versions'
  BY DEF DoneWith, TypeInv, Versions
<1>6. QED
  BY <1>2, <1>4, <1>5

\* Reconcile's own updates of the Application, accepted, refused or lost, end it.
LEMMA UpdateAppType ==
  ASSUME TypeInv, NEW new, NEW r \in BOOLEAN, UpdateApp(new, r),
         copyCurrent => new \in Applications \cup {NoApp}
  PROVE  TypeInv'
<1>1. /\ app' \in Applications \cup {NoApp}
      /\ appCacheCurrent' \in BOOLEAN
      /\ appCacheCurrent' => appCache' = app'
  <2>1. appCache' = appCache
    BY DEF UpdateApp
  <2>2. app \in Applications \cup {NoApp} /\ appCacheCurrent \in BOOLEAN
    BY DEF TypeInv, SharedOK
  <2>3. appCacheCurrent => appCache = app
    BY DEF TypeInv, Versions
  <2>4. CASE UNCHANGED << app, appCacheCurrent >>
    BY <2>1, <2>2, <2>3, <2>4
  <2>5. CASE copyCurrent /\ app' = new /\ appCacheCurrent' = (appCacheCurrent /\ new = app)
    BY <2>1, <2>2, <2>3, <2>5
  <2>6. QED
    BY <2>4, <2>5 DEF UpdateApp
<1>2. left' \in [Events -> Nat]
  BY SpendType, TypeInvTypes DEF UpdateApp, TypeInv, SharedOK, Events
<1>3. SharedOK'
  BY <1>1, <1>2 DEF UpdateApp, objVars, TypeInv, SharedOK
<1>4. LocalsOK' /\ Control' /\ ~copyCurrent'
  BY ReturnType DEF UpdateApp
<1>5. QED
  BY <1>1, <1>3, <1>4 DEF TypeInv, Versions

\* What an API call about an object leaves behind, taken or not.
LEMMA CallType ==
  ASSUME TypeInv, pc \in {"create", "patch", "delete"}, NEW accepted, NEW result,
         Call(accepted, result),
         accepted => /\ result \in Stored \cup {NoObj}
                     /\ ensure # << >> => result \in Stored,
         ensure = << >> => pc = "delete"
  PROVE  TypeInv'
<1>1. item \in Objects
  BY DEF TypeInv, Control
<1>2. /\ store' \in [Objects -> Stored \cup {NoObj}]
      /\ news' \in [Objects -> {"none", "other", "app"}]
  BY <1>1, WriteType, TypeInvTypes DEF Call, TypeInv, SharedOK
<1>3. left' \in [Events -> Nat]
  BY SpendType, TypeInvTypes DEF Call, TypeInv, SharedOK, Events
<1>4. UNCHANGED appVars
  BY DEF Call
<1>5. SharedOK'
  BY <1>2, <1>3, <1>4 DEF Call, appVars, TypeInv, SharedOK
<1>6. CASE Fail
  BY <1>4, <1>5, <1>6, FailType DEF appVars, TypeInv
<1>7. CASE accepted /\ DoneWith(item, result)
  <2>1. (ensure = << >> /\ stage > 0) => Stages[stage] # "Deployment"
    BY DEF TypeInv, Control, LastStage
  <2>2. QED
    BY <1>1, <1>4, <1>5, <1>7, <2>1, DoneWithType DEF appVars, TypeInv
<1>8. QED
  BY <1>6, <1>7 DEF Call

-----------------------------------------------------------------------------
(***************************************************************************)
(* Every step keeps TypeInv                                                *)
(***************************************************************************)

\* Taking the request (Begin) keeps the invariant.
LEMMA BeginType == ASSUME TypeInv, Begin PROVE TypeInv'
<1>1. Len(Stages) \in Nat /\ Len(Stages) >= 1
  BY StagesAssumption
<1>2. stage' \in 0..Len(Stages)
  BY <1>1 DEF Begin
<1>3. /\ pc' \in {"idle", "initStatus", "list", "addFinalizer", "cleanup"}
      /\ appCache = NoApp => pc' = "idle"
  BY DEF Begin, Entry
<1>4. copy' \in Applications \cup {NoApp} /\ (copy' = NoApp <=> pc' = "idle")
  BY <1>3, SentinelAssumption DEF Begin, TypeInv, SharedOK
<1>5. ensure = << >>
  BY DEF Begin, TypeInv, Control
<1>6. LocalsOK'
  BY <1>2, <1>3, <1>4 DEF Begin, TypeInv, LocalsOK, SharedOK, PCs
<1>7. Control'
  BY <1>3, <1>4, <1>5 DEF Begin, TypeInv, Control, LastStage
<1>8. Versions'
  BY DEF Begin, appVars, TypeInv, Versions
<1>9. SharedOK'
  BY DEF Begin, appVars, objVars, TypeInv, SharedOK
<1>10. QED
  BY <1>6, <1>7, <1>8, <1>9 DEF TypeInv

\* The five updates of the Application that Reconcile makes keep the invariant.
LEMMA OwnUpdatesType ==
  ASSUME TypeInv, InitStatus \/ AddFinalizer \/ RemoveFinalizer \/ FinalStatus \/ ErrorStatus
  PROVE  TypeInv'
<1>1. copyCurrent => app \in Applications
  BY DEF TypeInv, Versions, Control, SharedOK
<1>2. CASE InitStatus
  BY <1>1, <1>2, UpdateAppType DEF InitStatus, Applications
<1>3. CASE AddFinalizer
  BY <1>1, <1>3, UpdateAppType DEF AddFinalizer, Applications
<1>4. CASE RemoveFinalizer
  BY <1>4, UpdateAppType DEF RemoveFinalizer
<1>5. CASE FinalStatus
  <2>1. want \in Stored
    BY <1>5 DEF FinalStatus, TypeInv, Control
  <2>2. copyCurrent =>
          [app EXCEPT !.image = want.image,
                      !.ready = IF want.avail = "none" THEN @ ELSE want.avail] \in Applications
    BY <1>1, <2>1 DEF Applications, Stored
  <2>3. QED
    BY <1>5, <2>2, UpdateAppType DEF FinalStatus
<1>6. CASE ErrorStatus
  BY <1>1, <1>6, UpdateAppType DEF ErrorStatus, Applications
<1>7. QED
  BY <1>2, <1>3, <1>4, <1>5, <1>6

\* What a spec wants of a kind is a sequence of objects and invalid roles.
LEMMA SpecType ==
  ASSUME NEW s \in Specs, NEW k \in Kinds
  PROVE  s.wants[k] \in Seq(Objects \cup {NotClusterRole})
BY SpecAssumption

\* A spec wants one Deployment, and there is no other.
LEMMA OneDeployment ==
  ASSUME NEW s \in Specs
  PROVE  \E d \in Objects : s.wants["Deployment"] = << d >> /\ Names("Deployment") \subseteq {d}
BY SpecAssumption DEF Names

\* Listing what a stage or the cleanup has to handle keeps the invariant.
LEMMA ListType == ASSUME TypeInv, ListGrants \/ ListStage PROVE TypeInv'
<1>1. CASE ListGrants
  <2>1. stage = 0 /\ copy # NoApp
    BY <1>1 DEF ListGrants, TypeInv, Control
  <2>2. LocalsOK'
    BY <1>1 DEF ListGrants, OwnedInCache, TypeInv, LocalsOK, PCs
  <2>3. Control'
    BY <1>1, <2>1 DEF ListGrants, TypeInv, Control, LastStage
  <2>4. SharedOK' /\ Versions'
    BY <1>1, <2>1 DEF ListGrants, appVars, objVars, TypeInv, SharedOK, Versions, Control
  <2>5. QED
    BY <2>2, <2>3, <2>4 DEF TypeInv
<1>2. CASE ListStage
  <2>1. stage > 0 /\ copy \in Applications
    BY <1>2 DEF ListStage, TypeInv, Control, LocalsOK
  <2>2. Kind = Stages[stage] /\ Kind \in Kinds
    BY <2>1, StagesAssumption DEF Kind, TypeInv, LocalsOK
  <2>3. copy.spec \in Specs
    BY <2>1 DEF Applications
  <2>4. ensure' \in Seq(Objects \cup {NotClusterRole})
    BY <1>2, <2>2, <2>3, SpecType DEF ListStage
  <2>5. stale' \in SUBSET Objects
    BY <1>2 DEF ListStage, OwnedInCache, Names
  <2>6. LocalsOK'
    BY <1>2, <2>4, <2>5 DEF ListStage, TypeInv, LocalsOK, PCs
  <2>7. ASSUME Kind = "Deployment"
        PROVE  stale' = {} /\ \E d \in Objects : ensure' = << d >>
    <3>1. PICK d \in Objects :
             copy.spec.wants["Deployment"] = << d >> /\ Names("Deployment") \subseteq {d}
      BY <2>3, OneDeployment
    <3>2. ensure' = << d >>
      BY <1>2, <2>7, <3>1 DEF ListStage
    <3>3. stale' = Names("Deployment") \ { ensure'[i] : i \in DOMAIN ensure' }
      BY <1>2, <2>7 DEF ListStage, Listed
    <3>4. d \in { ensure'[i] : i \in DOMAIN ensure' }
      BY <3>2
    <3>5. QED
      BY <3>1, <3>2, <3>3, <3>4
  <2>8. Control'
    BY <1>2, <2>1, <2>2, <2>7 DEF ListStage, TypeInv, Control, LastStage
  <2>9. SharedOK' /\ Versions'
    BY <1>2 DEF ListStage, appVars, objVars, TypeInv, SharedOK, Versions
  <2>10. QED
    BY <2>6, <2>8, <2>9 DEF TypeInv
<1>3. QED
  BY <1>1, <1>2

\* Going on to the next stage, the final status or the finalizer keeps the invariant.
LEMMA NextStageType == ASSUME TypeInv, NextStage PROVE TypeInv'
<1>1. Len(Stages) \in Nat /\ stage \in 0..Len(Stages)
  BY StagesAssumption DEF TypeInv, LocalsOK
<1>2. stage' \in 0..Len(Stages) /\ pc' \in {"removeFinalizer", "finalStatus", "list"}
  BY <1>1 DEF NextStage
<1>3. LocalsOK'
  BY <1>2 DEF NextStage, TypeInv, LocalsOK, PCs
<1>4. pc' = "finalStatus" => want \in Stored
  <2>1. pc' = "finalStatus" => stage > 0 /\ Stages[stage] = "Deployment"
    BY <1>1, StagesAssumption DEF NextStage
  <2>2. QED
    BY <2>1 DEF NextStage, TypeInv, Control, LastStage
<1>5. Control'
  BY <1>1, <1>2, <1>4 DEF NextStage, TypeInv, Control, LastStage
<1>6. SharedOK' /\ Versions'
  BY <1>2 DEF NextStage, appVars, objVars, TypeInv, SharedOK, Versions
<1>7. QED
  BY <1>3, <1>5, <1>6 DEF TypeInv

\* Giving up on an invalid role keeps the invariant.
LEMMA SkipRoleType == ASSUME TypeInv, SkipRole PROVE TypeInv'
<1>1. LocalsOK'
  BY DEF SkipRole, TypeInv, LocalsOK
<1>2. ~(stage > 0 /\ Stages[stage] = "Deployment")
  <2>1. SUFFICES ASSUME NEW d \in Objects, ensure = << d >> PROVE FALSE
    BY DEF SkipRole, TypeInv, Control, LastStage
  <2>2. QED
    BY <2>1, SentinelAssumption DEF SkipRole
<1>3. Control'
  BY <1>2 DEF SkipRole, TypeInv, Control, LastStage
<1>4. SharedOK' /\ Versions'
  BY DEF SkipRole, appVars, objVars, TypeInv, SharedOK, Versions
<1>5. QED
  BY <1>1, <1>3, <1>4 DEF TypeInv

\* A read that fails ends the Reconcile or leads to an error, and touches nothing else.
LEMMA ReadErrorFails ==
  ASSUME ReadError
  PROVE  /\ Return(TRUE) \/ (Fail /\ pc \in {"cleanup", "list", "get", "mutate"})
         /\ UNCHANGED << appVars, objVars, latest >>
BY DEF ReadError

\* A read that fails keeps the invariant.
LEMMA ReadErrorType == ASSUME TypeInv, ReadError PROVE TypeInv'
<1>1. /\ Return(TRUE) \/ (Fail /\ pc \in {"cleanup", "list", "get", "mutate"})
      /\ UNCHANGED << appVars, objVars, latest >>
  BY ReadErrorFails
<1>2. left' \in [Events -> Nat]
  BY SpendType, TypeInvTypes DEF ReadError, TypeInv, SharedOK, Events
<1>3. SharedOK'
  BY <1>1, <1>2 DEF appVars, objVars, TypeInv, SharedOK
<1>4. CASE Return(TRUE)
  <2>1. LocalsOK' /\ Control' /\ ~copyCurrent'
    BY <1>4, ReturnType
  <2> QED
    BY <1>1, <1>3, <2>1 DEF appVars, TypeInv, Versions
<1>5. CASE Fail /\ pc \in {"cleanup", "list", "get", "mutate"}
  BY <1>1, <1>3, <1>5, FailType DEF appVars, TypeInv
<1> QED
  BY <1>1, <1>4, <1>5

\* reconcileResource's first read keeps the invariant.
LEMMA GetType == ASSUME TypeInv, NEW o \in Objects, Get(o) PROVE TypeInv'
<1>1. SharedOK' /\ UNCHANGED << app, appCache, appCacheCurrent >>
  BY DEF Get, appVars, objVars, TypeInv, SharedOK
<1>2. CASE Fail
  BY <1>1, <1>2, FailType DEF Get, TypeInv
<1>3. (ensure = << >> /\ stage > 0) => Stages[stage] # "Deployment"
  BY DEF Get, TypeInv, Control, LastStage
<1>4. CASE ensure = << >> /\ DoneWith(o, NoObj)
  BY <1>1, <1>3, <1>4, DoneWithType DEF Get, TypeInv
<1>5. CASE /\ pc' = IF ensure # << >> THEN "mutate" ELSE "delete"
           /\ item' = o
           /\ before' = cache[o]
           /\ UNCHANGED << queued, copy, copyCurrent, stage, ensure, stale, want >>
  <2>1. LocalsOK'
    BY <1>5 DEF TypeInv, SharedOK, LocalsOK, PCs
  <2>2. ensure # << >> => stage > 0
    BY DEF TypeInv, Control, LocalsOK
  <2>3. LastStage'
    BY <1>3, <1>5, <2>2 DEF Get, TypeInv, Control, LastStage
  <2>4. Control'
    BY <1>5, <2>2, <2>3 DEF Get, TypeInv, Control
  <2>5. Versions'
    BY <1>1, <1>5 DEF TypeInv, Versions
  <2>6. QED
    BY <1>1, <2>1, <2>4, <2>5 DEF TypeInv
<1>6. QED
  BY <1>2, <1>4, <1>5 DEF Get

\* CreateOrPatch's read and the mutator keep the invariant.
LEMMA MutateType == ASSUME TypeInv, Mutate PROVE TypeInv'
<1>1. item \in Objects /\ ensure # << >> /\ stage > 0 /\ copy \in Applications
  BY DEF Mutate, TypeInv, Control, LocalsOK
<1>2. left' \in [Events -> Nat]
  BY SpendType, TypeInvTypes DEF Mutate, TypeInv, SharedOK, Events
<1>3. UNCHANGED << appVars, objVars, latest >>
  BY DEF Mutate
<1>4. SharedOK'
  BY <1>2, <1>3 DEF appVars, objVars, TypeInv, SharedOK
<1>5. CASE Fail
  BY <1>3, <1>4, <1>5, FailType DEF Mutate, appVars, TypeInv
<1>6. ASSUME ~Fail PROVE TypeInv'
  <2> DEFINE obj == IF cache[item] = NoObj THEN before ELSE cache[item]
             new == Mutated(item, obj, copy, latest)
  <2>0. obj \in Stored \cup {NoObj} /\ (cache[item] # NoObj => obj \in Stored)
    BY <1>1 DEF TypeInv, SharedOK, LocalsOK
  <2>1. new \in Stored
    BY <1>1, <2>0, MutatedType DEF TypeInv, SharedOK
  <2>2. CASE new = cache[item] /\ DoneWith(item, new)
    BY <1>1, <1>3, <1>4, <2>1, <2>2, DoneWithType DEF Mutate, appVars, TypeInv
  <2>3. CASE /\ pc' = IF cache[item] = NoObj THEN "create" ELSE "patch"
             /\ before' = obj
             /\ want' = new
             /\ UNCHANGED << queued, copy, copyCurrent, stage, ensure, stale, item >>
    <3> HIDE DEF new, obj
    <3>2. LocalsOK'
      BY <2>0, <2>1, <2>3 DEF TypeInv, LocalsOK, PCs
    <3>3. LastStage'
      BY <2>3 DEF Mutate, TypeInv, Control, LastStage
    <3>4. Control'
      BY <1>1, <2>0, <2>1, <2>3, <3>3 DEF Mutate, TypeInv, Control
    <3>5. Versions'
      BY <1>3, <2>3 DEF appVars, TypeInv, Versions
    <3>6. QED
      BY <1>4, <3>2, <3>4, <3>5 DEF TypeInv
  <2>4. QED
    BY <1>6, <2>2, <2>3 DEF Mutate
<1>7. QED
  BY <1>5, <1>6

\* The calls to the API about objects keep the invariant.
LEMMA WritesType == ASSUME TypeInv, Create \/ Patch \/ Delete PROVE TypeInv'
<1>1. CASE Create
  <2>1. want \in Stored /\ ensure # << >>
    BY <1>1 DEF Create, TypeInv, Control
  <2>2. QED
    BY <1>1, <2>1, CallType DEF Create
<1>2. CASE Patch
  <2>1. want \in Stored /\ before \in Stored /\ ensure # << >> /\ item \in Objects
    BY <1>2 DEF Patch, TypeInv, Control
  <2>2. store[item] # NoObj => store[item] \in Stored
    BY <2>1 DEF TypeInv, SharedOK
  <2>3. store[item] # NoObj => MergePatch(store[item], before, want) \in Stored
    BY <2>1, <2>2, MergePatchType
  <2>4. QED
    BY <1>2, <2>1, <2>3, CallType DEF Patch
<1>3. CASE Delete
  <2>1. ensure = << >>
    BY <1>3 DEF Delete, TypeInv, Control
  <2>2. QED
    BY <1>3, <2>1, CallType DEF Delete
<1>4. QED
  BY <1>1, <1>2, <1>3

\* Somebody else's write to the Application makes cache and copy old, no more.
LEMMA AppWrittenType ==
  ASSUME TypeInv, NEW new \in Applications \cup {NoApp}, AppWritten(new),
         left' \in [Events -> Nat], nextUid' \in Nat
  PROVE  TypeInv'
<1>1. SharedOK'
  BY DEF AppWritten, objVars, TypeInv, SharedOK
<1>2. LocalsOK' /\ Versions'
  BY DEF AppWritten, TypeInv, LocalsOK, Versions
<1>3. Control'
  BY DEF AppWritten, TypeInv, Control, LastStage
<1>4. QED
  BY <1>1, <1>2, <1>3 DEF TypeInv

\* Users creating, editing and deleting the Application keep the invariant.
LEMMA UsersType ==
  ASSUME TypeInv, (\E s \in Specs : CreateApp(s) \/ EditApp(s)) \/ DeleteApp
  PROVE  TypeInv'
<1>1. ASSUME NEW s \in Specs, CreateApp(s) PROVE TypeInv'
  <2>1. [uid |-> nextUid, spec |-> s, deleting |-> FALSE, finalizer |-> FALSE,
         ready |-> "none", image |-> 0] \in Applications
    BY DEF Applications, TypeInv, SharedOK
  <2>2. nextUid' \in Nat
    BY <1>1 DEF CreateApp, TypeInv, SharedOK
  <2>3. QED
    BY <1>1, <2>1, <2>2, AppWrittenType, SpendType, TypeInvTypes DEF CreateApp, Events
<1>2. ASSUME NEW s \in Specs, EditApp(s) PROVE TypeInv'
  <2>1. [app EXCEPT !.spec = s] \in Applications
    BY <1>2 DEF EditApp, Applications, TypeInv, SharedOK
  <2>2. QED
    BY <1>2, <2>1, AppWrittenType, SpendType, TypeInvTypes DEF EditApp, Events, TypeInv, SharedOK
<1>3. CASE DeleteApp
  <2>1. (IF app.finalizer THEN [app EXCEPT !.deleting = TRUE] ELSE NoApp)
           \in Applications \cup {NoApp}
    BY <1>3 DEF DeleteApp, Applications, TypeInv, SharedOK
  <2>2. QED
    BY <1>3, <2>1, AppWrittenType, SpendType, TypeInvTypes DEF DeleteApp, Events, TypeInv, SharedOK
<1>4. QED
  BY <1>1, <1>2, <1>3

\* The steps of others on objects, and the informers'.
LEMMA ElsewhereType ==
  ASSUME TypeInv, UNCHANGED << app, appCacheCurrent, appCache, workerVars >>, SharedOK',
         queued' \in BOOLEAN
  PROVE  TypeInv'
<1>1. LocalsOK' /\ Versions'
  BY DEF workerVars, localVars, TypeInv, LocalsOK, Versions
<1>2. Control'
  BY DEF workerVars, localVars, TypeInv, Control, LastStage
<1>3. QED
  BY <1>1, <1>2 DEF TypeInv

\* Third parties, the deployment controller, the collector and the object informers
\* keep the invariant.
LEMMA ObjectsType ==
  ASSUME TypeInv, NEW o \in Objects, Meddle(o) \/ Report(o) \/ CollectGarbage(o) \/ SyncObject(o)
  PROVE  TypeInv'
<1>1. store[o] \in Stored \cup {NoObj}
  BY DEF TypeInv, SharedOK
<1>2. Drifted \in Revs
  BY DEF Revs
<1>3. ASSUME NEW new \in Stored \cup {NoObj}, Write(o, new), left' \in [Events -> Nat],
             UNCHANGED << appVars, cache, queued, latest, workerVars >>
      PROVE  TypeInv'
  <2>1. SharedOK'
    BY <1>3, WriteType, TypeInvTypes DEF appVars, TypeInv, SharedOK
  <2>2. QED
    BY <1>3, <2>1, ElsewhereType DEF appVars, TypeInv, LocalsOK
<1>4. ASSUME NEW e \in Events, Spend(e) PROVE left' \in [Events -> Nat]
  BY <1>4, SpendType, TypeInvTypes
<1>5. CASE Meddle(o)
  <2>1. \A by \in {"other", "nobody"} :
           [owner |-> [by |-> by, uid |-> 0], rev |-> Drifted, image |-> 0, avail |-> "none"]
              \in Stored
    BY <1>2 DEF Stored, Owners
  <2>2. store[o] # NoObj => [store[o] EXCEPT !.rev = Drifted] \in Stored
    BY <1>1, <1>2 DEF Stored
  <2>3. PICK new \in Stored \cup {NoObj} : Write(o, new)
    BY <1>5, <2>1, <2>2 DEF Meddle
  <2>4. QED
    BY <1>3, <1>4, <1>5, <2>3 DEF Meddle, Events
<1>6. CASE Report(o)
  <2>1. PICK a \in {"True", "False"} : Write(o, [store[o] EXCEPT !.avail = a])
    BY <1>6 DEF Report
  <2>2. [store[o] EXCEPT !.avail = a] \in Stored
    BY <1>1, <1>6 DEF Report, Stored
  <2>3. QED
    BY <1>3, <1>4, <1>6, <2>1, <2>2 DEF Report, Events
<1>7. CASE CollectGarbage(o)
  BY <1>3, <1>7 DEF CollectGarbage, TypeInv, SharedOK
<1>8. CASE SyncObject(o)
  <2>1. SharedOK'
    BY <1>1, <1>8 DEF SyncObject, appVars, TypeInv, SharedOK
  <2>2. queued' \in BOOLEAN
    BY <1>8 DEF SyncObject, TypeInv, LocalsOK
  <2>3. QED
    BY <1>8, <2>1, <2>2, ElsewhereType DEF SyncObject, appVars
<1>9. QED
  BY <1>5, <1>6, <1>7, <1>8

\* New images, resyncs, the Application's informer and restarts keep the invariant.
LEMMA ControllerType ==
  ASSUME TypeInv, Publish \/ Resync \/ SyncApp \/ Restart
  PROVE  TypeInv'
<1>1. ASSUME NEW e \in Events, Spend(e) PROVE left' \in [Events -> Nat]
  BY <1>1, SpendType, TypeInvTypes
<1>2. CASE Publish
  <2>1. SharedOK'
    BY <1>1, <1>2 DEF Publish, appVars, objVars, TypeInv, SharedOK, Events
  <2>2. QED
    BY <1>2, <2>1, ElsewhereType DEF Publish, appVars
<1>3. CASE Resync
  <2>1. SharedOK'
    BY <1>1, <1>3 DEF Resync, appVars, objVars, TypeInv, SharedOK, Events
  <2>2. QED
    BY <1>3, <2>1, ElsewhereType DEF Resync, appVars
<1>4. CASE SyncApp
  <2>1. SharedOK' /\ Versions'
    BY <1>4 DEF SyncApp, objVars, workerVars, localVars, TypeInv, SharedOK, Versions
  <2>2. LocalsOK'
    BY <1>4 DEF SyncApp, workerVars, localVars, TypeInv, LocalsOK
  <2>3. Control'
    BY <1>4 DEF SyncApp, workerVars, localVars, TypeInv, Control, LastStage
  <2>4. QED
    BY <2>1, <2>2, <2>3 DEF TypeInv
<1>5. CASE Restart
  <2>1. left' \in [Events -> Nat]
    BY <1>1, <1>5 DEF Restart, Events
  <2>2. SharedOK'
    BY <1>5, <2>1 DEF Restart, TypeInv, SharedOK
  <2>3. LocalsOK' /\ Control' /\ ~copyCurrent'
    BY <1>5, ReturnType DEF Restart
  <2>4. QED
    BY <1>5, <2>2, <2>3 DEF Restart, TypeInv, Versions
<1>6. QED
  BY <1>2, <1>3, <1>4, <1>5

\* A stuttering step keeps the invariant.
LEMMA StutterType == ASSUME TypeInv, UNCHANGED vars PROVE TypeInv'
<1>1. SharedOK' /\ queued' \in BOOLEAN
  BY DEF vars, appVars, objVars, TypeInv, SharedOK, LocalsOK
<1>2. QED
  BY <1>1, ElsewhereType DEF vars, appVars

\* Every step keeps the invariant.
LEMMA NextType == ASSUME TypeInv, [Next]_vars PROVE TypeInv'
<1>1. CASE Reconcile
  BY <1>1, BeginType, ReadErrorType, OwnUpdatesType, ListType, NextStageType, SkipRoleType, GetType,
     MutateType, WritesType DEF Reconcile
<1>2. CASE Environment
  BY <1>2, UsersType, ObjectsType, ControllerType DEF Environment, OtherSpecs
<1>3. QED
  BY <1>1, <1>2, StutterType DEF Next

\* The typed invariant holds in every reachable state.
LEMMA TypeInvariant == Spec => []TypeInv
BY InitType, NextType, PTL DEF Spec

\* Every variable keeps its type, whatever users, third parties, the informers and
\* crashes do around Reconcile.
THEOREM TypeCorrect == Spec => []TypeOK
BY TypeInvariant, TypeInvTypes, PTL

-----------------------------------------------------------------------------
(***************************************************************************)
(* The finalizer                                                           *)
(***************************************************************************)

\* An Application seen with the finalizer and without a deletion: if it is not the
\* one in the API server, or has lost the finalizer there, the view is impossible.
Live(a) == a # NoApp /\ a.finalizer /\ ~a.deleting

\* The API server has this incarnation of a, with the finalizer.
Held(a) == app # NoApp /\ app.uid = a.uid /\ app.finalizer

\* Where Reconcile is on its way to remove the finalizer.
Cleaning ==
  \/ pc \in {"cleanup", "removeFinalizer"}
  \/ pc \in {"get", "delete"} /\ stage = 0

\* Nobody can see the incarnation of a without its deletion.
Doomed(b, a) == b = NoApp \/ b.uid # a.uid \/ b.deleting

\* What the cache and the copy show of the finalizer and of the deletion is true enough of
\* the API server to act upon.
FinalizerHeld ==
  /\ Live(appCache) => Held(appCache)
  /\ stage > 0 => Live(copy) /\ Held(copy)
  /\ Cleaning => copy.deleting /\ Doomed(appCache, copy) /\ Doomed(app, copy)
  /\ (appCache # NoApp /\ appCache.deleting) => Doomed(app, appCache)
  /\ app # NoApp => app.uid < nextUid
  /\ appCache # NoApp => appCache.uid < nextUid
  /\ copy # NoApp => copy.uid < nextUid

\* The inductive invariant behind WritesOnlyUnderFinalizer.
FInv == TypeInv /\ FinalizerHeld

\* A step that leaves the Application and the view of it alone, and either keeps the
\* copy and its purpose or ends the Reconcile.
Inside ==
  /\ UNCHANGED << app, appCache, nextUid >>
  /\ \/ copy' = copy /\ (stage' > 0 => stage > 0) /\ (Cleaning' => Cleaning)
     \/ copy' = NoApp /\ stage' = 0 /\ pc' = "idle"

\* A step inside one Reconcile keeps FinalizerHeld.
LEMMA InsideHeld == ASSUME FInv, Inside PROVE FinalizerHeld'
BY DEF Inside, FInv, FinalizerHeld, Cleaning, Live, Held, Doomed

\* After its return Reconcile has no copy and no stage.
LEMMA ReturnEnds == ASSUME NEW r, Return(r) PROVE copy' = NoApp /\ stage' = 0 /\ pc' = "idle"
BY DEF Return

\* An error is a step inside one Reconcile.
LEMMA FailInside ==
  ASSUME FInv, Fail, UNCHANGED << app, appCache, nextUid >>
  PROVE  Inside
<1>1. CASE stage = 0
  BY <1>1, ReturnEnds DEF Fail, Inside
<1>2. CASE stage # 0
  BY <1>2 DEF Fail, localVars, Inside, Cleaning
<1>3. QED
  BY <1>1, <1>2

\* So is being done with an object ...
LEMMA DoneWithInside ==
  ASSUME FInv, NEW o, NEW result, DoneWith(o, result), UNCHANGED << app, appCache, nextUid >>,
         pc \in {"get", "mutate", "create", "patch", "delete"}
  PROVE  Inside
<1>1. copy' = copy /\ stage' = stage /\ pc' = "get"
  BY DEF DoneWith
<1>2. stage = 0 => pc \in {"get", "delete"}
  BY DEF FInv, TypeInv, Control
<1>3. QED
  BY <1>1, <1>2 DEF Inside, Cleaning

\* ... and every step of a stage's loop ...
LEMMA ListInside == ASSUME FInv, ListGrants \/ ListStage \/ NextStage \/ SkipRole PROVE Inside
<1>1. CASE ListGrants
  BY <1>1 DEF ListGrants, appVars, Inside, Cleaning
<1>2. CASE ListStage
  <2>1. stage > 0
    BY <1>2 DEF ListStage, FInv, TypeInv, Control
  <2>2. QED
    BY <1>2, <2>1 DEF ListStage, appVars, Inside, Cleaning, FInv, TypeInv, LocalsOK
<1>3. CASE NextStage
  BY <1>3 DEF NextStage, appVars, Inside, Cleaning, FInv, TypeInv, LocalsOK
<1>4. CASE SkipRole
  BY <1>4 DEF SkipRole, appVars, Inside, Cleaning
<1>5. QED
  BY <1>1, <1>2, <1>3, <1>4

\* ... and every step of reconcileResource.
LEMMA ResourceInside ==
  ASSUME FInv, ReadError \/ (\E o \in Objects : Get(o)) \/ Mutate \/ Create \/ Patch \/ Delete
  PROVE  Inside
<1>1. ASSUME NEW o \in Objects, Get(o) PROVE Inside
  <2>1. UNCHANGED << app, appCache, nextUid >>
    BY <1>1 DEF Get, appVars
  <2>2. CASE Fail
    BY <2>1, <2>2, FailInside
  <2>3. CASE DoneWith(o, NoObj)
    BY <1>1, <2>1, <2>3, DoneWithInside DEF Get
  <2>4. CASE ~Fail /\ ~DoneWith(o, NoObj)
    BY <1>1, <2>1, <2>4 DEF Get, Inside, Cleaning
  <2>5. QED
    BY <2>2, <2>3, <2>4
<1>2. CASE Mutate
  <2>1. UNCHANGED << app, appCache, nextUid >>
    BY <1>2 DEF Mutate, appVars
  <2>2. CASE Fail
    BY <2>1, <2>2, FailInside
  <2>3. CASE ~Fail
    <3> DEFINE obj == IF cache[item] = NoObj THEN before ELSE cache[item]
               new == Mutated(item, obj, copy, latest)
    <3>1. CASE DoneWith(item, new)
      BY <1>2, <2>1, <3>1, DoneWithInside DEF Mutate
    <3>2. CASE ~DoneWith(item, new)
      <4>1. copy' = copy /\ stage' = stage /\ pc' \in {"create", "patch"}
        BY <1>2, <2>3, <3>2 DEF Mutate
      <4>2. QED
        BY <2>1, <4>1 DEF Inside, Cleaning
    <3>3. QED
      BY <3>1, <3>2
  <2>4. QED
    BY <2>2, <2>3
<1>3. CASE Create \/ Patch \/ Delete
  <2>1. PICK accepted, result : Call(accepted, result)
    BY <1>3 DEF Create, Patch, Delete
  <2>2. UNCHANGED << app, appCache, nextUid >> /\ (Fail \/ DoneWith(item, result))
    BY <2>1 DEF Call, appVars
  <2>3. pc \in {"create", "patch", "delete"}
    BY <1>3 DEF Create, Patch, Delete
  <2>4. QED
    BY <2>2, <2>3, FailInside, DoneWithInside
<1>4. CASE ReadError
  <2>1. UNCHANGED << app, appCache, nextUid >> /\ (Return(TRUE) \/ Fail)
    BY <1>4, ReadErrorFails DEF appVars
  <2> QED
    BY <2>1, FailInside, ReturnEnds DEF Inside
<1>5. QED
  BY <1>1, <1>2, <1>3, <1>4

\* Steps that touch neither the Application nor the worker count as inside, too.
LEMMA ElsewhereInside ==
  ASSUME FInv,
         \/ \E o \in Objects : Meddle(o) \/ Report(o) \/ CollectGarbage(o) \/ SyncObject(o)
         \/ Publish \/ Resync \/ UNCHANGED vars
  PROVE  Inside
<1>1. UNCHANGED << appVars, workerVars >>
  BY DEF Meddle, Report, CollectGarbage, SyncObject, Publish, Resync, vars
<1>2. QED
  BY <1>1 DEF appVars, workerVars, localVars, Inside, Cleaning

\* Reconcile starts from a cached Application, for which FinalizerHeld holds already.
LEMMA BeginHeld == ASSUME FInv, Begin PROVE FinalizerHeld'
<1>1. UNCHANGED << app, appCache, nextUid >> /\ pc = "idle"
  BY DEF Begin, appVars
<1>2. \/ pc' = "idle" /\ copy' = NoApp /\ stage' = 0
      \/ pc' \in {"initStatus", "addFinalizer"} /\ copy' = appCache /\ stage' = 0
      \/ pc' = "cleanup" /\ copy' = appCache /\ stage' = 0 /\ appCache.deleting
      \/ pc' = "list" /\ copy' = appCache /\ stage' = 1 /\ Live(appCache)
  BY DEF Begin, Entry, Live
<1>3. CASE pc' = "idle" /\ copy' = NoApp /\ stage' = 0
  BY <1>1, <1>3, InsideHeld DEF Inside
<1>4. CASE pc' \in {"initStatus", "addFinalizer"} /\ copy' = appCache /\ stage' = 0
  BY <1>1, <1>4 DEF FInv, FinalizerHeld, Cleaning, Live, Held, Doomed
<1>5. CASE pc' = "cleanup" /\ copy' = appCache /\ stage' = 0 /\ appCache.deleting
  <2>1. appCache # NoApp
    BY <1>1, <1>5 DEF Begin, Entry
  <2>2. QED
    BY <1>1, <1>5, <2>1 DEF FInv, FinalizerHeld, Cleaning, Live, Held, Doomed
<1>6. CASE pc' = "list" /\ copy' = appCache /\ stage' = 1 /\ Live(appCache)
  <2>1. ~Cleaning'
    BY <1>6 DEF Cleaning
  <2>2. Held(appCache)
    BY <1>6 DEF FInv, FinalizerHeld
  <2>3. QED
    BY <1>1, <1>6, <2>1, <2>2 DEF FInv, FinalizerHeld, Live, Held, Doomed
<1>7. QED
  BY <1>2, <1>3, <1>4, <1>5, <1>6

\* The worker's updates change the Application only when the copy is up to date.
LEMMA UpdateHeld ==
  ASSUME FInv, NEW new, NEW r, UpdateApp(new, r),
         copyCurrent => \/ /\ new = NoApp
                           /\ Cleaning
                        \/ /\ new # NoApp
                           /\ new.uid = app.uid
                           /\ new.deleting = app.deleting
                           /\ app.finalizer => new.finalizer
  PROVE  FinalizerHeld'
<1>1. copy' = NoApp /\ stage' = 0 /\ pc' = "idle"
  BY ReturnEnds DEF UpdateApp
<1>2. UNCHANGED << appCache, nextUid >>
  BY DEF UpdateApp
<1>3. CASE UNCHANGED app
  BY <1>1, <1>2, <1>3, InsideHeld DEF Inside
<1>4. CASE copyCurrent /\ app' = new
  <2>1. copy = app /\ app # NoApp
    BY <1>4 DEF FInv, TypeInv, Versions, Control
  <2>2. CASE new = NoApp /\ Cleaning
    <3>1. ~Live(appCache)
      BY <2>1, <2>2 DEF FInv, FinalizerHeld, Live, Held, Doomed
    <3>2. QED
      BY <1>1, <1>2, <1>4, <2>2, <3>1 DEF FInv, FinalizerHeld, Cleaning, Live, Held, Doomed
  <2>3. CASE /\ new # NoApp
             /\ new.uid = app.uid
             /\ new.deleting = app.deleting
             /\ app.finalizer => new.finalizer
    BY <1>1, <1>2, <1>4, <2>1, <2>3 DEF FInv, FinalizerHeld, Cleaning, Live, Held, Doomed
  <2>4. QED
    BY <1>4, <2>2, <2>3
<1>5. QED
  BY <1>3, <1>4 DEF UpdateApp

\* Reconcile's own updates keep FinalizerHeld: only one removes the finalizer, and it
\* does so from a copy that is marked for deletion.
LEMMA OwnUpdatesHeld ==
  ASSUME FInv, InitStatus \/ AddFinalizer \/ RemoveFinalizer \/ FinalStatus \/ ErrorStatus
  PROVE  FinalizerHeld'
<1>1. copyCurrent => app \in Applications
  BY DEF FInv, TypeInv, Versions, Control, SharedOK
<1>2. CASE InitStatus
  <2> DEFINE new == [app EXCEPT !.ready = "Unknown"]
  <2>1. copyCurrent => /\ new # NoApp /\ new.uid = app.uid /\ new.deleting = app.deleting
                       /\ app.finalizer => new.finalizer
    BY <1>1, SentinelAssumption DEF Applications
  <2>2. QED
    BY <1>2, <2>1, UpdateHeld DEF InitStatus
<1>3. CASE AddFinalizer
  <2> DEFINE new == [app EXCEPT !.finalizer = TRUE]
  <2>1. copyCurrent => /\ new # NoApp /\ new.uid = app.uid /\ new.deleting = app.deleting
                       /\ app.finalizer => new.finalizer
    BY <1>1, SentinelAssumption DEF Applications
  <2>2. QED
    BY <1>3, <2>1, UpdateHeld DEF AddFinalizer
<1>4. CASE RemoveFinalizer
  BY <1>4, UpdateHeld DEF RemoveFinalizer, Cleaning
<1>5. CASE FinalStatus
  <2> DEFINE new == [app EXCEPT !.image = want.image,
                                !.ready = IF want.avail = "none" THEN @ ELSE want.avail]
  <2>1. want \in Stored
    BY <1>5 DEF FinalStatus, FInv, TypeInv, Control
  <2>2. copyCurrent => /\ new # NoApp /\ new.uid = app.uid /\ new.deleting = app.deleting
                       /\ app.finalizer => new.finalizer
    BY <1>1, <2>1, SentinelAssumption DEF Applications, Stored
  <2>3. QED
    BY <1>5, <2>2, UpdateHeld DEF FinalStatus
<1>6. CASE ErrorStatus
  <2> DEFINE new == [app EXCEPT !.ready = "False"]
  <2>1. copyCurrent => /\ new # NoApp /\ new.uid = app.uid /\ new.deleting = app.deleting
                       /\ app.finalizer => new.finalizer
    BY <1>1, SentinelAssumption DEF Applications
  <2>2. QED
    BY <1>6, <2>1, UpdateHeld DEF ErrorStatus
<1>7. QED
  BY <1>2, <1>3, <1>4, <1>5, <1>6

\* Users keep FinalizerHeld: a deletion marks an Application that has the finalizer, and a
\* new incarnation has a new uid.
LEMMA UsersHeld ==
  ASSUME FInv, (\E s \in Specs : CreateApp(s) \/ EditApp(s)) \/ DeleteApp
  PROVE  FinalizerHeld'
<1>1. UNCHANGED << appCache, pc, copy, stage >>
  BY DEF CreateApp, EditApp, DeleteApp, AppWritten
<1>2. Cleaning' <=> Cleaning
  BY <1>1 DEF Cleaning
<1>3. /\ nextUid \in Nat
      /\ app \in Applications \cup {NoApp}
      /\ appCache \in Applications \cup {NoApp}
      /\ copy \in Applications \cup {NoApp}
      /\ Cleaning => copy # NoApp
      /\ stage > 0 => copy # NoApp
  BY DEF FInv, TypeInv, SharedOK, LocalsOK, Control, Cleaning
<1>4. ASSUME NEW s \in Specs, CreateApp(s) PROVE FinalizerHeld'
  <2> DEFINE new == [uid |-> nextUid, spec |-> s, deleting |-> FALSE, finalizer |-> FALSE,
                     ready |-> "none", image |-> 0]
  <2>1. app = NoApp /\ app' = new /\ nextUid' = nextUid + 1
    BY <1>4 DEF CreateApp, AppWritten
  <2>2. new \in Applications
    BY <1>3 DEF Applications
  <2>3. new # NoApp /\ new.uid = nextUid
    BY <2>2, SentinelAssumption
  <2> HIDE DEF new
  <2>4. appCache # NoApp => appCache.uid \in Nat /\ appCache.uid < nextUid
    BY <1>3 DEF FInv, FinalizerHeld, Applications
  <2>5. copy # NoApp => copy.uid \in Nat /\ copy.uid < nextUid
    BY <1>3 DEF FInv, FinalizerHeld, Applications
  <2>6. ~Live(appCache) /\ ~(stage > 0)
    BY <2>1 DEF FInv, FinalizerHeld, Held
  <2>7. Cleaning => Doomed(app', copy)
    BY <1>3, <2>1, <2>3, <2>5 DEF Doomed
  <2>8. (appCache # NoApp /\ appCache.deleting) => Doomed(app', appCache)
    BY <1>3, <2>1, <2>3, <2>4 DEF Doomed
  <2>9. /\ app'.uid < nextUid'
        /\ appCache # NoApp => appCache.uid < nextUid'
        /\ copy # NoApp => copy.uid < nextUid'
    BY <1>3, <2>1, <2>3, <2>4, <2>5
  <2>10. QED
    BY <1>1, <1>2, <2>6, <2>7, <2>8, <2>9 DEF FInv, FinalizerHeld, Live, Held, Doomed
<1>5. ASSUME NEW s \in Specs, EditApp(s) PROVE FinalizerHeld'
  <2>1. /\ app # NoApp /\ app' = [app EXCEPT !.spec = s] /\ nextUid' = nextUid
    BY <1>5 DEF EditApp, AppWritten
  <2>2. /\ app' # NoApp /\ app'.uid = app.uid
        /\ app'.deleting = app.deleting /\ app'.finalizer = app.finalizer
    BY <1>3, <2>1, SentinelAssumption DEF Applications
  <2>3. QED
    BY <1>1, <1>2, <2>1, <2>2 DEF FInv, FinalizerHeld, Live, Held, Doomed
<1>6. CASE DeleteApp /\ app.finalizer
  <2>1. app # NoApp /\ app' = [app EXCEPT !.deleting = TRUE] /\ nextUid' = nextUid
    BY <1>6 DEF DeleteApp, AppWritten
  <2>2. /\ app' # NoApp /\ app'.uid = app.uid
        /\ app'.deleting /\ app'.finalizer = app.finalizer
    BY <1>3, <2>1, SentinelAssumption DEF Applications
  <2>3. QED
    BY <1>1, <1>2, <2>1, <2>2 DEF FInv, FinalizerHeld, Live, Held, Doomed
<1>7. CASE DeleteApp /\ ~app.finalizer
  <2>1. app' = NoApp /\ nextUid' = nextUid
    BY <1>7 DEF DeleteApp, AppWritten
  <2>2. ~Live(appCache) /\ ~(stage > 0)
    BY <1>7 DEF FInv, FinalizerHeld, Held
  <2>3. QED
    BY <1>1, <1>2, <2>1, <2>2 DEF FInv, FinalizerHeld, Live, Held, Doomed
<1>8. QED
  BY <1>4, <1>5, <1>6, <1>7

\* A cache that catches up shows the Application as it is.
LEMMA CacheHeld == ASSUME FInv, SyncApp \/ Restart PROVE FinalizerHeld'
<1>1. appCache' = app /\ UNCHANGED << app, nextUid >>
  BY DEF SyncApp, Restart
<1>2. \/ UNCHANGED << pc, copy, stage >>
      \/ copy' = NoApp /\ stage' = 0 /\ pc' = "idle"
  BY ReturnEnds DEF SyncApp, Restart, workerVars, localVars
<1>3. QED
  BY <1>1, <1>2 DEF FInv, FinalizerHeld, Cleaning, Live, Held, Doomed

\* Every step keeps FInv.
LEMMA NextHeld == ASSUME FInv, [Next]_vars PROVE FInv'
<1>1. TypeInv'
  BY NextType DEF FInv
<1>2. FinalizerHeld'
  <2>1. CASE Reconcile
    BY <2>1, BeginHeld, OwnUpdatesHeld, ListInside, ResourceInside, InsideHeld DEF Reconcile
  <2>2. CASE Environment \/ UNCHANGED vars
    BY <2>2, UsersHeld, CacheHeld, ElsewhereInside, InsideHeld DEF Environment, OtherSpecs
  <2>3. QED
    BY <2>1, <2>2 DEF Next
<1>3. QED
  BY <1>1, <1>2 DEF FInv

\* FInv holds in every reachable state.
LEMMA FinalizerInvariant == Spec => []FInv
<1>1. Init => FInv
  <2>1. Init => FinalizerHeld
    BY DEF Init, FinalizerHeld, Cleaning, Live
  <2>2. QED
    BY <2>1, InitType DEF FInv
<1>2. QED
  BY <1>1, NextHeld, PTL DEF Spec

\* Whatever Reconcile creates or patches, the Application it works for still exists and
\* holds the finalizer, however old the cached copy it started from.
THEOREM WritesUnderFinalizer == Spec => WritesOnlyUnderFinalizer
<1>1. ASSUME FInv, pc \in {"create", "patch"}
      PROVE  app # NoApp /\ app.finalizer /\ app.uid = copy.uid
  <2>1. stage > 0
    BY <1>1 DEF FInv, TypeInv, Control
  <2>2. QED
    BY <1>1, <2>1 DEF FInv, FinalizerHeld, Held
<1>2. FInv => [ (pc \in {"create", "patch"} /\ pc' # pc /\ store' # store)
                  => app # NoApp /\ app.finalizer /\ app.uid = copy.uid ]_vars
  BY <1>1
<1>3. QED
  BY <1>2, FinalizerInvariant, PTL DEF WritesOnlyUnderFinalizer

-----------------------------------------------------------------------------
(***************************************************************************)
(* Cluster-wide grants                                                     *)
(***************************************************************************)

\* Nothing holds the Application back: a grant found now would be orphaned.
Unprotected == app = NoApp \/ ~app.finalizer

\* A cache entry with no event outstanding is the object.
Synced == \A o \in Objects : news[o] = "none" => cache[o] = store[o]

\* While the finalizer cleans up, every grant still in the API server is in stale.
CleanupInv ==
  /\ Synced
  /\ Unprotected => Granted = {}
  /\ (stage = 0 /\ pc \in {"get", "delete"}) => Granted \subseteq stale
  /\ pc = "removeFinalizer" => Granted = {}

\* The inductive invariant behind NoOrphanedGrants.
GInv == FInv /\ CleanupInv

\* A write leaves news wherever the cache is now behind.
LEMMA WriteSynced ==
  ASSUME TypeInv, Synced, NEW o \in Objects, NEW new, Write(o, new), cache' = cache
  PROVE  Synced'
<1> SUFFICES ASSUME NEW p \in Objects, news'[p] = "none" PROVE cache'[p] = store'[p]
  BY DEF Synced
<1>1. store \in [Objects -> Stored \cup {NoObj}] /\ news \in [Objects -> {"none", "other", "app"}]
  BY DEF TypeInv, SharedOK
<1>2. CASE p # o
  BY <1>1, <1>2 DEF Write, Synced
<1>3. CASE p = o /\ new = store[o]
  BY <1>1, <1>3 DEF Write, Synced
<1>4. CASE p = o /\ new # store[o]
  BY <1>1, <1>4 DEF Write
<1>5. QED
  BY <1>2, <1>3, <1>4

\* A write grants nothing unless what it writes is a grant.
LEMMA WriteGrants ==
  ASSUME TypeInv, NEW o \in Objects, NEW new, Write(o, new)
  PROVE  /\ Granted' \subseteq Granted \cup {o}
         /\ ~(ClusterScoped(o) /\ OwnedByApp(new)) => Granted' = Granted \ {o}
<1>1. store \in [Objects -> Stored \cup {NoObj}]
  BY DEF TypeInv, SharedOK
<1>2. store' = [store EXCEPT ![o] = new]
  BY DEF Write
<1>3. QED
  BY <1>1, <1>2 DEF Granted, OwnedByApp

\* A step that grants nothing, unprotects nothing, and leaves Reconcile where it is or ends it.
LEMMA QuietStep ==
  ASSUME GInv, Synced', Granted' \subseteq Granted, Unprotected' => Unprotected \/ Granted' = {},
         UNCHANGED << pc, stage, stale >> \/ pc' \in {"idle", "errorStatus"}
  PROVE  CleanupInv'
BY DEF GInv, CleanupInv

\* A step that writes no object changes no grant.
LEMMA NoWrite ==
  ASSUME GInv, UNCHANGED objVars
  PROVE  Synced' /\ Granted' = Granted
BY DEF GInv, CleanupInv, objVars, Synced, Granted, OwnedByApp

\* Updates of the Application, Reconcile's own and the users', keep CleanupInv: the
\* finalizer goes when no grant is left.
LEMMA AppStepsGrants ==
  ASSUME GInv,
         \/ InitStatus \/ AddFinalizer \/ RemoveFinalizer \/ FinalStatus \/ ErrorStatus
         \/ \E s \in Specs : CreateApp(s) \/ EditApp(s)
         \/ DeleteApp
  PROVE  CleanupInv'
<1>1. UNCHANGED objVars
  BY DEF InitStatus, AddFinalizer, RemoveFinalizer, FinalStatus, ErrorStatus, UpdateApp,
         CreateApp, EditApp, DeleteApp, AppWritten
<1>2. Synced' /\ Granted' = Granted
  BY <1>1, NoWrite
<1>3. UNCHANGED << pc, stage, stale >> \/ pc' = "idle"
  BY DEF InitStatus, AddFinalizer, RemoveFinalizer, FinalStatus, ErrorStatus, UpdateApp, Return,
         CreateApp, EditApp, DeleteApp, AppWritten
<1>4. app \in Applications \cup {NoApp} /\ (copyCurrent => app # NoApp)
  BY DEF GInv, FInv, TypeInv, SharedOK, Versions, Control
<1>5. Unprotected' => Unprotected \/ Granted' = {}
  <2>1. CASE RemoveFinalizer
    BY <1>2, <2>1 DEF RemoveFinalizer, GInv, CleanupInv
  <2>2. CASE InitStatus
    BY <1>4, <2>2, SentinelAssumption DEF InitStatus, UpdateApp, Unprotected, Applications
  <2>3. CASE AddFinalizer
    BY <1>4, <2>3, SentinelAssumption DEF AddFinalizer, UpdateApp, Unprotected, Applications
  <2>4. CASE FinalStatus
    <3>1. want \in Stored
      BY <2>4 DEF FinalStatus, GInv, FInv, TypeInv, Control
    <3> DEFINE new == [app EXCEPT !.image = want.image,
                                  !.ready = IF want.avail = "none" THEN @ ELSE want.avail]
    <3>2. app # NoApp => new # NoApp /\ new.finalizer = app.finalizer
      BY <1>4, <3>1, SentinelAssumption DEF Applications, Stored
    <3>3. UpdateApp(new, FALSE)
      BY <2>4 DEF FinalStatus
    <3>4. UNCHANGED app \/ (copyCurrent /\ app' = new)
      BY <3>3 DEF UpdateApp
    <3> HIDE DEF new
    <3>5. QED
      BY <1>4, <3>2, <3>4 DEF Unprotected
  <2>5. CASE ErrorStatus
    BY <1>4, <2>5, SentinelAssumption DEF ErrorStatus, UpdateApp, Unprotected, Applications
  <2>6. ASSUME NEW s \in Specs, CreateApp(s) PROVE Unprotected
    BY <2>6 DEF CreateApp, Unprotected
  <2>7. ASSUME NEW s \in Specs, EditApp(s), Unprotected' PROVE Unprotected
    <3>1. app # NoApp /\ app' = [app EXCEPT !.spec = s]
      BY <2>7 DEF EditApp, AppWritten
    <3>2. app' # NoApp /\ app'.finalizer = app.finalizer
      BY <1>4, <3>1, SentinelAssumption DEF Applications
    <3>3. QED
      BY <2>7, <3>2 DEF Unprotected
  <2>8. ASSUME DeleteApp, Unprotected' PROVE Unprotected
    <3>1. app # NoApp /\ app' = IF app.finalizer THEN [app EXCEPT !.deleting = TRUE] ELSE NoApp
      BY <2>8 DEF DeleteApp, AppWritten
    <3>2. app.finalizer => app' # NoApp /\ app'.finalizer
      BY <1>4, <3>1, SentinelAssumption DEF Applications
    <3>3. QED
      BY <2>8, <3>2 DEF Unprotected
  <2>9. QED
    BY <2>1, <2>2, <2>3, <2>4, <2>5, <2>6, <2>7, <2>8
<1>6. QED
  BY <1>2, <1>3, <1>5, QuietStep

\* With a cache that keeps up, the cleanup lists every grant there is.
LEMMA ListGrantsAll ==
  ASSUME GInv, "ClusterRoleBinding" \notin LaggingKinds, ListGrants \/ ListStage \/ NextStage \/ SkipRole
  PROVE  CleanupInv'
<1>1. UNCHANGED << app, objVars >>
  BY DEF ListGrants, ListStage, NextStage, SkipRole, appVars
<1>2. Synced' /\ Granted' = Granted /\ (Unprotected' <=> Unprotected)
  BY <1>1, NoWrite DEF Unprotected
<1>3. CASE ListGrants
  <2>1. \A o \in Objects : o.kind = "ClusterRoleBinding" => cache[o] = store[o]
    BY <1>3 DEF ListGrants, Fresh, GInv, CleanupInv, Synced
  <2>2. Granted \subseteq stale'
    BY <1>3, <2>1 DEF ListGrants, OwnedInCache, Granted, ClusterScoped, OwnedByApp
  <2>3. pc' = "get"
    BY <1>3 DEF ListGrants
  <2>4. QED
    BY <1>2, <2>2, <2>3 DEF GInv, CleanupInv
<1>4. CASE ListStage
  <2>1. stage' > 0 /\ pc' = "get"
    BY <1>4 DEF ListStage, GInv, FInv, TypeInv, Control
  <2>2. stage' # 0
    BY <2>1
  <2>3. QED
    BY <1>2, <2>1, <2>2 DEF GInv, CleanupInv
<1>5. CASE NextStage
  <2>1. pc' = "removeFinalizer" => Granted = {}
    BY <1>5 DEF NextStage, GInv, CleanupInv
  <2>2. pc' \notin {"get", "delete"}
    BY <1>5 DEF NextStage
  <2>3. QED
    BY <1>2, <2>1, <2>2 DEF GInv, CleanupInv
<1>6. CASE SkipRole
  <2>1. stage' # 0 /\ pc' = "get"
    BY <1>6 DEF SkipRole, GInv, FInv, TypeInv, Control
  <2>2. QED
    BY <1>2, <2>1 DEF GInv, CleanupInv
<1>7. QED
  BY <1>3, <1>4, <1>5, <1>6

\* Reconcile is done with o in the cleanup only when o is not in the API server.
LEMMA DoneWithGrants ==
  ASSUME GInv, NEW o, NEW result, DoneWith(o, result), Synced', UNCHANGED app,
         Granted' \subseteq Granted \/ ~Unprotected,
         stage = 0 => Granted' \subseteq Granted \ {o},
         pc \in {"get", "mutate", "create", "patch", "delete"}
  PROVE  CleanupInv'
<1>1. stage' = stage /\ pc' = "get"
  BY DEF DoneWith
<1>2. stage = 0 => ensure = << >> /\ pc \in {"get", "delete"}
  BY DEF GInv, FInv, TypeInv, Control
<1>3. stage = 0 => Granted' \subseteq stale'
  BY <1>2 DEF DoneWith, GInv, CleanupInv
<1>4. Unprotected' => Granted' = {}
  BY DEF GInv, CleanupInv, Unprotected
<1>5. QED
  BY <1>1, <1>3, <1>4 DEF CleanupInv

\* An error keeps CleanupInv: the cleanup starts again from its list.
LEMMA FailGrants ==
  ASSUME GInv, Fail, Synced', UNCHANGED app, Granted' \subseteq Granted \/ ~Unprotected
  PROVE  CleanupInv'
<1>1. pc' \in {"idle", "errorStatus"}
  BY DEF Fail, Return
<1>2. Unprotected' => Granted' = {}
  BY DEF GInv, CleanupInv, Unprotected
<1>3. QED
  BY <1>1, <1>2 DEF CleanupInv

\* The steps of reconcileResource keep CleanupInv: grants are written only under the
\* finalizer.
LEMMA ResourceGrants ==
  ASSUME GInv, "ClusterRoleBinding" \notin LaggingKinds,
         ReadError \/ (\E o \in Objects : Get(o)) \/ Mutate \/ Create \/ Patch \/ Delete
  PROVE  CleanupInv'
<1>1. ASSUME NEW o \in Objects, Get(o) PROVE CleanupInv'
  <2>1. UNCHANGED app /\ Synced' /\ Granted' = Granted
    BY <1>1, NoWrite DEF Get, appVars
  <2>2. CASE Fail
    BY <2>1, <2>2, FailGrants
  <2>3. CASE DoneWith(o, NoObj) /\ cache[o] = NoObj
    <3>1. ASSUME stage = 0 PROVE o \notin Granted
      <4>1. Kind = "ClusterRoleBinding"
        BY <3>1 DEF Kind
      <4>2. o.kind = "ClusterRoleBinding" => store[o] = NoObj
        BY <1>1, <2>3, <4>1 DEF Get, Fresh, GInv, CleanupInv, Synced
      <4>3. QED
        BY <4>2 DEF Granted, ClusterScoped, OwnedByApp
    <3>2. QED
      BY <1>1, <2>1, <2>3, <3>1, DoneWithGrants DEF Get
  <2>4. CASE ~Fail /\ ~(DoneWith(o, NoObj) /\ cache[o] = NoObj)
    <3>1. UNCHANGED << stage, stale >> /\ pc' \in {"mutate", "delete"} /\ pc = "get"
      BY <1>1, <2>4 DEF Get
    <3>2. QED
      BY <2>1, <3>1 DEF GInv, CleanupInv, Unprotected
  <2>5. QED
    BY <2>2, <2>3, <2>4
<1>2. CASE Mutate
  <2>1. UNCHANGED app /\ Synced' /\ Granted' = Granted
    BY <1>2, NoWrite DEF Mutate, appVars
  <2>2. stage # 0
    BY <1>2 DEF Mutate, GInv, FInv, TypeInv, Control
  <2>3. CASE Fail
    BY <2>1, <2>3, FailGrants
  <2>4. CASE ~Fail
    <3> DEFINE obj == IF cache[item] = NoObj THEN before ELSE cache[item]
               new == Mutated(item, obj, copy, latest)
    <3>1. CASE DoneWith(item, new)
      BY <1>2, <2>1, <2>2, <3>1, DoneWithGrants DEF Mutate
    <3>2. CASE ~DoneWith(item, new)
      <4>1. stage' = stage /\ pc' \in {"create", "patch"}
        BY <1>2, <2>4, <3>2 DEF Mutate
      <4>2. QED
        BY <2>1, <2>2, <4>1 DEF GInv, CleanupInv, Unprotected
    <3>3. QED
      BY <3>1, <3>2
  <2>5. QED
    BY <2>3, <2>4
<1>3. CASE Create \/ Patch \/ Delete
  <2>1. PICK accepted, result : Call(accepted, result) /\ (Delete => result = NoObj)
    BY <1>3 DEF Create, Patch, Delete
  <2>2. item \in Objects /\ pc \in {"create", "patch", "delete"}
    BY <1>3 DEF Create, Patch, Delete, GInv, FInv, TypeInv, Control
  <2>3. Create \/ Patch => stage # 0 /\ ~Unprotected
    BY DEF Create, Patch, GInv, FInv, FinalizerHeld, Held, TypeInv, Control, Unprotected
  <2>4. UNCHANGED << app, cache >>
    BY <2>1 DEF Call, appVars
  <2>5. Synced'
    <3>1. CASE UNCHANGED << store, news >>
      BY <2>4, <3>1, NoWrite DEF objVars
    <3>2. CASE Write(item, result)
      BY <2>2, <2>4, <3>2, WriteSynced DEF GInv, FInv, CleanupInv
    <3>3. QED
      BY <2>1, <3>1, <3>2 DEF Call
  <2>6. CASE UNCHANGED << store, news >> /\ Fail
    <3>1. Granted' = Granted
      BY <2>4, <2>6, NoWrite DEF objVars
    <3>2. QED
      BY <2>4, <2>5, <2>6, <3>1, FailGrants
  <2>7. CASE Write(item, result)
    <3>1. Granted' \subseteq Granted \ {item} \/ (~Unprotected /\ stage # 0)
      BY <1>3, <2>1, <2>2, <2>3, <2>7, WriteGrants DEF GInv, FInv, OwnedByApp
    <3>2. CASE Fail
      BY <2>4, <2>5, <3>1, <3>2, FailGrants
    <3>3. CASE DoneWith(item, result)
      BY <2>2, <2>4, <2>5, <3>1, <3>3, DoneWithGrants
    <3>4. QED
      BY <2>1, <2>7, <3>2, <3>3 DEF Call
  <2>8. QED
    BY <2>1, <2>6, <2>7 DEF Call
<1>4. CASE ReadError
  <2>1. UNCHANGED app /\ Synced' /\ Granted' = Granted
    BY <1>4, ReadErrorFails, NoWrite DEF appVars
  <2>2. CASE Return(TRUE)
    <3>1. pc' = "idle"
      BY <2>2 DEF Return
    <3> QED
      BY <2>1, <3>1 DEF GInv, CleanupInv, Unprotected
  <2>3. CASE Fail
    BY <2>1, <2>3, FailGrants
  <2> QED
    BY <1>4, <2>2, <2>3, ReadErrorFails
<1>5. QED
  BY <1>1, <1>2, <1>3, <1>4

\* Third parties, the deployment controller and the garbage collector write one object,
\* and never one that is the Application's unless it was.
LEMMA OthersGrantNothing ==
  ASSUME TypeInv, NEW o \in Objects, Meddle(o) \/ Report(o) \/ CollectGarbage(o)
  PROVE  \E new : Write(o, new) /\ (OwnedByApp(new) => OwnedByApp(store[o]))
<1>1. store[o] \in Stored \cup {NoObj}
  BY DEF TypeInv, SharedOK
<1>2. store[o] # NoObj => [store[o] EXCEPT !.rev = Drifted].owner = store[o].owner
  BY <1>1 DEF Stored
<1>3. ~OwnedByApp(NoObj)
  BY DEF OwnedByApp
<1>4. \A by \in {"other", "nobody"} :
         ~OwnedByApp([owner |-> [by |-> by, uid |-> 0], rev |-> Drifted,
                      image |-> 0, avail |-> "none"])
  BY DEF OwnedByApp
<1>5. CASE Meddle(o)
  <2>1. CASE \E by \in {"other", "nobody"} :
               Write(o, [owner |-> [by |-> by, uid |-> 0], rev |-> Drifted,
                         image |-> 0, avail |-> "none"])
    BY <1>4, <2>1
  <2>2. CASE Write(o, NoObj)
    BY <1>3, <2>2
  <2>3. CASE store[o] # NoObj /\ Write(o, [store[o] EXCEPT !.rev = Drifted])
    BY <1>2, <2>3 DEF OwnedByApp
  <2>4. QED
    BY <1>5, <2>1, <2>2, <2>3 DEF Meddle
<1>6. CASE Report(o)
  <2>1. PICK a \in {"True", "False"} : Write(o, [store[o] EXCEPT !.avail = a])
    BY <1>6 DEF Report
  <2>2. store[o] # NoObj /\ [store[o] EXCEPT !.avail = a].owner = store[o].owner
    BY <1>1, <1>6 DEF Report, Stored
  <2>3. QED
    BY <2>1, <2>2 DEF OwnedByApp
<1>7. CASE CollectGarbage(o)
  BY <1>3, <1>7 DEF CollectGarbage
<1>8. QED
  BY <1>5, <1>6, <1>7

\* Nobody else makes grants in the Application's name.
LEMMA ElsewhereGrants ==
  ASSUME GInv,
         \/ \E o \in Objects : Meddle(o) \/ Report(o) \/ CollectGarbage(o) \/ SyncObject(o)
         \/ Begin \/ Publish \/ Resync \/ SyncApp \/ Restart \/ UNCHANGED vars
  PROVE  CleanupInv'
<1>1. UNCHANGED app
  BY DEF Meddle, Report, CollectGarbage, SyncObject, Begin, Publish, Resync, SyncApp, Restart,
         vars, appVars
<1>2. ASSUME NEW o \in Objects, NEW new, Write(o, new), OwnedByApp(new) => OwnedByApp(store[o]),
             UNCHANGED << cache, workerVars >>
      PROVE  CleanupInv'
  <2>1. Granted' \subseteq Granted
    BY <1>2, WriteGrants DEF GInv, FInv, Granted
  <2>2. Synced'
    BY <1>2, WriteSynced DEF GInv, FInv, CleanupInv
  <2>3. QED
    BY <1>1, <1>2, <2>1, <2>2, QuietStep DEF workerVars, localVars, Unprotected
<1>3. ASSUME NEW o \in Objects, Meddle(o) \/ Report(o) \/ CollectGarbage(o) PROVE CleanupInv'
  <2>1. PICK new : Write(o, new) /\ (OwnedByApp(new) => OwnedByApp(store[o]))
    BY <1>3, OthersGrantNothing DEF GInv, FInv
  <2>2. UNCHANGED << cache, workerVars >>
    BY <1>3 DEF Meddle, Report, CollectGarbage
  <2>3. QED
    BY <1>2, <2>1, <2>2
<1>4. ASSUME NEW o \in Objects, SyncObject(o) PROVE CleanupInv'
  <2>1. Synced'
    BY <1>4 DEF SyncObject, GInv, FInv, TypeInv, SharedOK, CleanupInv, Synced
  <2>2. Granted' = Granted
    BY <1>4 DEF SyncObject, Granted, OwnedByApp
  <2>3. QED
    BY <1>1, <1>4, <2>1, <2>2, QuietStep DEF SyncObject, workerVars, localVars, Unprotected
<1>5. CASE Restart
  <2>1. Synced'
    BY <1>5 DEF Restart, Synced
  <2>2. Granted' = Granted
    BY <1>5 DEF Restart, Granted, OwnedByApp
  <2>3. QED
    BY <1>1, <1>5, <2>1, <2>2, QuietStep DEF Restart, Return, Unprotected
<1>6. CASE Begin
  <2>1. Synced' /\ Granted' = Granted
    BY <1>6, NoWrite DEF Begin
  <2>2. pc' \in {"idle", "initStatus", "list", "addFinalizer", "cleanup"}
    BY <1>6 DEF Begin, Entry
  <2>3. QED
    BY <1>1, <2>1, <2>2 DEF GInv, CleanupInv, Unprotected
<1>7. CASE Publish \/ Resync \/ SyncApp \/ UNCHANGED vars
  <2>1. Synced' /\ Granted' = Granted
    BY <1>7, NoWrite DEF Publish, Resync, SyncApp, vars
  <2>2. QED
    BY <1>1, <1>7, <2>1, QuietStep DEF Publish, Resync, SyncApp, vars, workerVars, localVars, Unprotected
<1>8. QED
  BY <1>3, <1>4, <1>5, <1>6, <1>7

\* Every step keeps GInv.
LEMMA NextGrants ==
  ASSUME GInv, "ClusterRoleBinding" \notin LaggingKinds, [Next]_vars
  PROVE  GInv'
<1>1. FInv'
  BY NextHeld DEF GInv
<1>2. CleanupInv'
  BY AppStepsGrants, ListGrantsAll, ResourceGrants, ElsewhereGrants DEF Next, Reconcile, Environment, OtherSpecs
<1>3. QED
  BY <1>1, <1>2 DEF GInv

\* No ClusterRoleBinding outlives its Application, provided the cache that the cleanup
\* lists is up to date when it is read.  (Without the proviso it is false: LagOrphan.)
THEOREM GrantsRemoved ==
  ASSUME "ClusterRoleBinding" \notin LaggingKinds
  PROVE  Spec => []NoOrphanedGrants
<1>1. Init => GInv
  <2>1. Init => FInv
    BY InitType DEF Init, FInv, FinalizerHeld, Cleaning, Live
  <2>2. Init => CleanupInv
    BY DEF Init, CleanupInv, Synced, Granted, OwnedByApp
  <2>3. QED
    BY <2>1, <2>2 DEF GInv
<1>2. GInv /\ [Next]_vars => GInv'
  BY NextGrants
<1>3. GInv => NoOrphanedGrants
  BY DEF GInv, CleanupInv, Unprotected, Granted, NoOrphanedGrants
<1>4. QED
  BY <1>1, <1>2, <1>3, PTL DEF Spec

-----------------------------------------------------------------------------
(***************************************************************************)
(* Refinement of AccessGrants                                              *)
(***************************************************************************)

\* The API server marks only an Application that somebody holds back.
Marked == app # NoApp /\ app.deleting => app.finalizer

\* The inductive invariant behind GrantsFollowProtocol.
AInv == GInv /\ Marked

\* An update of the Application that changes none of what Life looks at.
LEMMA SameLife ==
  ASSUME app # NoApp, app' # NoApp, app'.finalizer = app.finalizer, app'.deleting = app.deleting
  PROVE  Life' = Life
BY DEF Life

\* One step of the protocol, or none.
AccessStep == [Access!Next]_(Access!vars)

\* A step that changes neither the Application nor the objects is none.
LEMMA NoAccess == ASSUME UNCHANGED << app, store >> PROVE AccessStep
<1>1. Life' = Life /\ Granted' = Granted
  BY DEF Life, Granted, OwnedByApp
<1> QED
  BY <1>1 DEF AccessStep, Access!vars

\* A write to an object grants, revokes or does neither, and only to one that is held.
LEMMA WriteAccess ==
  ASSUME AInv, AInv', NEW o \in Objects, NEW new, Write(o, new), UNCHANGED app
  PROVE  AccessStep
<1>1. Life' = Life
  BY DEF Life
<1>2. store' = [store EXCEPT ![o] = new] /\ store \in [Objects -> Stored \cup {NoObj}]
  BY DEF Write, AInv, GInv, FInv, TypeInv, SharedOK
<1>3. \A p \in Objects \ {o} : store'[p] = store[p]
  BY <1>2
<1>4. CASE Granted' = Granted
  BY <1>1, <1>4 DEF AccessStep, Access!vars
<1>5. CASE Granted' # Granted
  <2>1. ClusterScoped(o)
    BY <1>3, <1>5 DEF Granted, OwnedByApp
  <2>2. Granted' = Granted \cup {o} \/ Granted' = Granted \ {o}
    BY <1>3 DEF Granted, OwnedByApp
  <2>3. Unprotected' = Unprotected
    BY DEF Unprotected
  <2>4. ~Unprotected
    BY <1>5, <2>3 DEF AInv, GInv, CleanupInv
  <2>5. Life \in {"protected", "leaving"}
    BY <2>4 DEF Unprotected, Life
  <2> QED
    BY <1>1, <2>1, <2>2, <2>5
    DEF AccessStep, Access!Next, Access!Grant, Access!Revoke, Access!Held
<1> QED
  BY <1>4, <1>5

\* The worker's updates, of an Application that keeps its finalizer and its deletion mark.
LEMMA UpdateAccess ==
  ASSUME AInv, NEW new, NEW r, UpdateApp(new, r),
         app # NoApp => new # NoApp /\ new.finalizer = app.finalizer /\ new.deleting = app.deleting
  PROVE  AccessStep /\ Marked'
<1>1. Granted' = Granted
  BY NoWrite DEF UpdateApp, AInv
<1>2. CASE UNCHANGED app
  BY <1>1, <1>2 DEF Life, AccessStep, Access!vars, AInv, Marked
<1>3. CASE copyCurrent /\ app' = new
  <2>1. app # NoApp
    BY <1>3 DEF AInv, GInv, FInv, TypeInv, Versions, Control
  <2> QED
    BY <1>1, <1>3, <2>1, SameLife DEF AccessStep, Access!vars, AInv, Marked
<1> QED
  BY <1>2, <1>3 DEF UpdateApp

\* Reconcile's own updates: one protects the Application, one lets it go.
LEMMA OwnUpdatesAccess ==
  ASSUME AInv, InitStatus \/ AddFinalizer \/ RemoveFinalizer \/ FinalStatus \/ ErrorStatus
  PROVE  AccessStep /\ Marked'
<1>1. app # NoApp => app \in Applications
  BY DEF AInv, GInv, FInv, TypeInv, SharedOK
<1>2. CASE InitStatus
  <2> DEFINE new == [app EXCEPT !.ready = "Unknown"]
  <2>1. app # NoApp => new # NoApp /\ new.finalizer = app.finalizer /\ new.deleting = app.deleting
    BY <1>1, SentinelAssumption DEF Applications
  <2> QED
    BY <1>2, <2>1, UpdateAccess DEF InitStatus
<1>3. CASE ErrorStatus
  <2> DEFINE new == [app EXCEPT !.ready = "False"]
  <2>1. app # NoApp => new # NoApp /\ new.finalizer = app.finalizer /\ new.deleting = app.deleting
    BY <1>1, SentinelAssumption DEF Applications
  <2> QED
    BY <1>3, <2>1, UpdateAccess DEF ErrorStatus
<1>4. CASE FinalStatus
  <2> DEFINE new == [app EXCEPT !.image = want.image,
                                !.ready = IF want.avail = "none" THEN @ ELSE want.avail]
  <2>1. want \in Stored
    BY <1>4 DEF FinalStatus, AInv, GInv, FInv, TypeInv, Control
  <2>2. app # NoApp => new # NoApp /\ new.finalizer = app.finalizer /\ new.deleting = app.deleting
    BY <1>1, <2>1, SentinelAssumption DEF Applications, Stored
  <2> QED
    BY <1>4, <2>2, UpdateAccess DEF FinalStatus
<1>5. CASE AddFinalizer
  <2> DEFINE new == [app EXCEPT !.finalizer = TRUE]
  <2>1. Granted' = Granted
    BY <1>5, NoWrite DEF AddFinalizer, UpdateApp, AInv
  <2>2. CASE UNCHANGED app
    BY <2>1, <2>2 DEF Life, AccessStep, Access!vars, AInv, Marked
  <2>3. CASE copyCurrent /\ app' = new
    <3>1. app # NoApp
      BY <2>3 DEF AInv, GInv, FInv, TypeInv, Versions, Control
    <3>2. app' # NoApp /\ app'.finalizer /\ app'.deleting = app.deleting
      BY <1>1, <2>3, <3>1, SentinelAssumption DEF Applications
    <3>3. Life' = IF app.deleting THEN "leaving" ELSE "protected"
      BY <3>2 DEF Life
    <3>4. CASE app.finalizer
      BY <2>1, <3>1, <3>2, <3>3, <3>4 DEF Life, AccessStep, Access!vars, Marked
    <3>5. CASE ~app.finalizer
      <4>1. Life = "unprotected" /\ Life' = "protected"
        BY <3>1, <3>3, <3>5 DEF Life, AInv, Marked
      <4> QED
        BY <2>1, <3>2, <4>1 DEF AccessStep, Access!Next, Access!Protect, Access!Live, Marked
    <3> QED
      BY <3>4, <3>5
  <2> QED
    BY <1>5, <2>2, <2>3 DEF AddFinalizer, UpdateApp
<1>6. CASE RemoveFinalizer
  <2>1. Granted' = Granted /\ Granted = {}
    BY <1>6, NoWrite DEF RemoveFinalizer, UpdateApp, AInv, GInv, CleanupInv
  <2>2. CASE UNCHANGED app
    BY <2>1, <2>2 DEF Life, AccessStep, Access!vars, AInv, Marked
  <2>3. CASE copyCurrent /\ app' = NoApp
    <3>1. app # NoApp /\ app.deleting
      BY <1>6, <2>3 DEF RemoveFinalizer, AInv, GInv, FInv, TypeInv, Versions, Control,
                        FinalizerHeld, Cleaning
    <3>2. Life = "leaving" /\ Life' = "absent"
      BY <2>3, <3>1 DEF Life, AInv, Marked
    <3> QED
      BY <2>1, <2>3, <3>2 DEF AccessStep, Access!Next, Access!Release, Access!Live, Marked
  <2> QED
    BY <1>6, <2>2, <2>3 DEF RemoveFinalizer, UpdateApp
<1> QED
  BY <1>2, <1>3, <1>4, <1>5, <1>6

\* Users create, mark and, while nothing holds it, delete the Application.
LEMMA UsersAccess ==
  ASSUME AInv, (\E s \in Specs : CreateApp(s) \/ EditApp(s)) \/ DeleteApp
  PROVE  AccessStep /\ Marked'
<1>1. Granted' = Granted
  BY NoWrite DEF CreateApp, EditApp, DeleteApp, AppWritten, AInv
<1>2. app # NoApp => app \in Applications
  BY DEF AInv, GInv, FInv, TypeInv, SharedOK
<1>3. ASSUME NEW s \in Specs, CreateApp(s) PROVE AccessStep /\ Marked'
  <2> DEFINE new == [uid |-> nextUid, spec |-> s, deleting |-> FALSE, finalizer |-> FALSE,
                     ready |-> "none", image |-> 0]
  <2>1. app = NoApp /\ app' = new
    BY <1>3 DEF CreateApp, AppWritten
  <2>2. new \in Applications
    BY DEF Applications, AInv, GInv, FInv, TypeInv, SharedOK
  <2>3. app' # NoApp /\ ~app'.finalizer /\ ~app'.deleting
    BY <2>1, <2>2, SentinelAssumption
  <2>4. Life = "absent" /\ Life' = "unprotected"
    BY <2>1, <2>3 DEF Life
  <2> QED
    BY <1>1, <2>3, <2>4 DEF AccessStep, Access!Next, Access!Create, Access!Live, Marked
<1>4. ASSUME NEW s \in Specs, EditApp(s) PROVE AccessStep /\ Marked'
  <2>1. app # NoApp /\ app' = [app EXCEPT !.spec = s]
    BY <1>4 DEF EditApp, AppWritten
  <2>2. app' # NoApp /\ app'.finalizer = app.finalizer /\ app'.deleting = app.deleting
    BY <1>2, <2>1, SentinelAssumption DEF Applications
  <2> QED
    BY <1>1, <2>1, <2>2, SameLife DEF AccessStep, Access!vars, AInv, Marked
<1>5. CASE DeleteApp /\ app.finalizer
  <2>1. app # NoApp /\ ~app.deleting /\ app' = [app EXCEPT !.deleting = TRUE]
    BY <1>5 DEF DeleteApp, AppWritten
  <2>2. app' # NoApp /\ app'.finalizer = app.finalizer /\ app'.deleting
    BY <1>2, <2>1, SentinelAssumption DEF Applications
  <2>3. Life = "protected" /\ Life' = "leaving"
    BY <1>5, <2>1, <2>2 DEF Life
  <2> QED
    BY <1>1, <1>5, <2>2, <2>3 DEF AccessStep, Access!Next, Access!Mark, Access!Live, Marked
<1>6. CASE DeleteApp /\ ~app.finalizer
  <2>1. app # NoApp /\ app' = NoApp
    BY <1>6 DEF DeleteApp, AppWritten
  <2>2. Life = "unprotected" /\ Life' = "absent"
    BY <1>6, <2>1 DEF Life
  <2> QED
    BY <1>1, <2>1, <2>2 DEF AccessStep, Access!Next, Access!Vanish, Access!Live, Marked
<1> QED
  BY <1>3, <1>4, <1>5, <1>6

\* Every other step leaves the Application alone and writes at most one object.
LEMMA OtherSteps ==
  ASSUME AInv,
         \/ Begin \/ ReadError \/ ListGrants \/ ListStage \/ NextStage \/ SkipRole
         \/ (\E o \in Objects : Get(o)) \/ Mutate \/ Create \/ Patch \/ Delete
         \/ Publish \/ Resync \/ Restart \/ SyncApp \/ UNCHANGED vars
         \/ \E o \in Objects : Meddle(o) \/ Report(o) \/ CollectGarbage(o) \/ SyncObject(o)
  PROVE  UNCHANGED app /\ (UNCHANGED store \/ \E o \in Objects : \E new : Write(o, new))
<1>1. CASE \/ Begin \/ ReadError \/ ListGrants \/ ListStage \/ NextStage \/ SkipRole
           \/ (\E o \in Objects : Get(o)) \/ Mutate
           \/ Publish \/ Resync \/ Restart \/ SyncApp \/ UNCHANGED vars
           \/ \E o \in Objects : SyncObject(o)
  BY <1>1 DEF Begin, ReadError, ListGrants, ListStage, NextStage, SkipRole, Get, Mutate, Publish, Resync,
              Restart, SyncApp, SyncObject, appVars, objVars, vars
<1>2. CASE Create \/ Patch \/ Delete
  <2>1. PICK accepted, result : Call(accepted, result)
    BY <1>2 DEF Create, Patch, Delete
  <2>2. item \in Objects
    BY <1>2 DEF Create, Patch, Delete, AInv, GInv, FInv, TypeInv, Control
  <2> QED
    BY <2>1, <2>2 DEF Call, appVars
<1>3. ASSUME NEW o \in Objects, Meddle(o) \/ Report(o) \/ CollectGarbage(o)
      PROVE  UNCHANGED app /\ \E new : Write(o, new)
  BY <1>3 DEF Meddle, Report, CollectGarbage, appVars
<1> QED
  BY <1>1, <1>2, <1>3

\* Reconciler implements AccessGrants: in all its interleavings with users, third parties,
\* stale caches, failures and crashes it grants cluster-wide rights only to an Application
\* held by the finalizer, and lets it go only with no right left, provided the cache that
\* the cleanup lists is up to date when it is read.
THEOREM GrantsImplemented ==
  ASSUME "ClusterRoleBinding" \notin LaggingKinds
  PROVE  Spec => GrantsFollowProtocol
<1>1. Init => AInv
  <2>1. Init => FInv
    BY InitType DEF Init, FInv, FinalizerHeld, Cleaning, Live
  <2>2. Init => CleanupInv /\ Marked
    BY DEF Init, CleanupInv, Synced, Granted, OwnedByApp, Marked
  <2> QED
    BY <2>1, <2>2 DEF AInv, GInv
<1>2. Init => Access!Init
  BY DEF Init, Access!Init, Life, Granted, OwnedByApp
<1>3. ASSUME AInv, [Next]_vars PROVE AInv' /\ AccessStep
  <2>1. GInv'
    BY <1>3, NextGrants DEF AInv
  <2>2. CASE InitStatus \/ AddFinalizer \/ RemoveFinalizer \/ FinalStatus \/ ErrorStatus
    BY <1>3, <2>1, <2>2, OwnUpdatesAccess DEF AInv
  <2>3. CASE (\E s \in Specs : CreateApp(s) \/ EditApp(s)) \/ DeleteApp
    BY <1>3, <2>1, <2>3, UsersAccess DEF AInv
  <2>4. CASE /\ ~(InitStatus \/ AddFinalizer \/ RemoveFinalizer \/ FinalStatus \/ ErrorStatus)
             /\ ~((\E s \in Specs : CreateApp(s) \/ EditApp(s)) \/ DeleteApp)
    <3>1. UNCHANGED app /\ (UNCHANGED store \/ \E o \in Objects : \E new : Write(o, new))
      BY <1>3, <2>4, OtherSteps DEF Next, Reconcile, Environment, OtherSpecs
    <3>2. AInv'
      BY <1>3, <2>1, <3>1 DEF AInv, Marked
    <3> QED
      BY <1>3, <3>1, <3>2, NoAccess, WriteAccess
  <2> QED
    BY <2>2, <2>3, <2>4
<1> QED
  BY <1>1, <1>2, <1>3, PTL DEF Spec, GrantsFollowProtocol, Access!Spec, AccessStep
=============================================================================
