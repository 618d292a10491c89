---------------------------- MODULE WorkloadProofs ----------------------------
(***************************************************************************)
(* In which order Reconciler gets there: service accounts and role         *)
(* bindings are in place before the Deployment is written, for every set   *)
(* of objects and specs, every sequence of stages and every budget.        *)
(*                                                                         *)
(* A stage leaves every object that the copy's spec wants of its kind with *)
(* this incarnation of the Application as its owner.  Later stages write   *)
(* other kinds, and the garbage collector takes only what an Application   *)
(* owned that is gone: this one is held by its finalizer.                  *)
(***************************************************************************)
EXTENDS SettledProofs

AccessKinds == {"ServiceAccount", "RoleBinding", "ClusterRoleBinding"}

\* The object is there, made for the Application that the copy shows.
InPlace(o) == OwnedByApp(store[o]) /\ (ClusterScoped(o) \/ store[o].owner.uid = copy.uid)

\* The stages that are done have put the accounts and bindings of the copy's spec in place,
\* and so has this one those that are not on its list any more.
AccessInPlace ==
  (stage > 0 /\ pc # "errorStatus") =>
    /\ \A i \in 1..Len(Stages) : (i < stage /\ Stages[i] \in AccessKinds) =>
          \A o \in Wanted(copy.spec, Stages[i]) : InPlace(o)
    /\ (Working /\ Kind \in AccessKinds) =>
          /\ \A o \in Wanted(copy.spec, Kind) : InPlace(o) \/ \E i \in DOMAIN ensure : ensure[i] = o
          /\ pc \in {"create", "patch"} => want.owner = OwnerFor(item, copy)
          /\ pc = "patch" => store[item] \in {before, NoObj}

\* An invalid role is the last on the list.
InvalidLast == \A i \in DOMAIN ensure : ensure[i] = NotClusterRole => i = Len(ensure)

\* The inductive invariant behind AccessBeforeWorkload.
WInv == FInv /\ Synced /\ NewsTold /\ Agenda /\ InvalidLast /\ AccessInPlace

\* No spec has a role after one that is invalid.
RolesLast ==
  \A s \in Specs, k \in Kinds : \A i \in DOMAIN s.wants[k] :
     s.wants[k][i] = NotClusterRole => i = Len(s.wants[k])

\* Nobody else touches accounts and bindings, and their caches are up to date when read.
AccessKept ==
  /\ \A o \in Meddled : o.kind \notin AccessKinds
  /\ LaggingKinds \cap AccessKinds = {}

-----------------------------------------------------------------------------
(***************************************************************************)
(* The list                                                                *)
(***************************************************************************)

\* Roles that are last in the specs are last on the list.
LEMMA NextInvalidLast ==
  ASSUME RolesLast, TypeInv, InvalidLast, [Next]_vars
  PROVE  InvalidLast'
<1>1. ensure \in Seq(Objects \cup {NotClusterRole})
  BY DEF TypeInv, LocalsOK
<1>2. CASE ensure' \in {ensure, << >>}
  BY <1>2 DEF InvalidLast
<1>3. CASE ensure # << >> /\ ensure' = Tail(ensure)
  <2> SUFFICES ASSUME NEW i \in DOMAIN ensure', ensure'[i] = NotClusterRole
               PROVE  i = Len(ensure')
    BY DEF InvalidLast
  <2>1. /\ Len(Tail(ensure)) = Len(ensure) - 1 /\ Tail(ensure) \in Seq(Objects \cup {NotClusterRole})
        /\ i + 1 \in DOMAIN ensure /\ ensure'[i] = ensure[i + 1]
    BY <1>1, <1>3, TailParts
  <2>2. i + 1 = Len(ensure)
    BY <2>1 DEF InvalidLast
  <2>3. i \in Nat
    BY <1>3, <2>1
  <2> QED BY <1>1, <1>3, <2>1, <2>2, <2>3
<1>4. CASE \E s \in Specs, k \in Kinds : ensure' = s.wants[k]
  BY <1>4 DEF RolesLast, InvalidLast
<1> QED BY <1>2, <1>3, <1>4, ListMoves

\* No kind has two stages, and the Deployment's is the last.
LEMMA StagesDiffer ==
  /\ \A i, j \in 1..Len(Stages) : i # j => Stages[i] # Stages[j]
  /\ \A i \in 1..Len(Stages) : Stages[i] = "Deployment" => i = Len(Stages)
<1>1. ASSUME NEW i \in 1..Len(Stages), NEW j \in 1..Len(Stages), i < j, Stages[i] = Stages[j]
      PROVE  FALSE
  <2>1. Stages[i] \in Kinds
    BY StagesAssumption
  <2>2. PICK m \in 1..9 : Stages[i] = ReconcileOrder[m]
    BY <2>1 DEF Kinds
  <2>3. m < m
    BY <1>1, <2>2, StagesAssumption
  <2> QED BY <2>3
<1>2. \A i, j \in 1..Len(Stages) : i # j => Stages[i] # Stages[j]
  BY <1>1
<1>3. Len(Stages) \in 1..Len(Stages)
  BY StagesAssumption
<1> QED BY <1>2, <1>3, StagesAssumption

-----------------------------------------------------------------------------
(***************************************************************************)
(* Accounts and bindings                                                   *)
(***************************************************************************)

\* A step that leaves the stage, its list and the objects of accounts and bindings alone,
\* and prepares no object of these kinds.
LEMMA SameInPlace ==
  ASSUME FInv, AccessInPlace, UNCHANGED << copy, stage, ensure, store >>, pc # "errorStatus",
         Working' => Working,
         pc' \in {"create", "patch"} => pc' = pc /\ UNCHANGED << item, before, want >>
  PROVE  AccessInPlace'
<1>1. Kind' = Kind
  BY DEF Kind
<1> QED BY <1>1 DEF AccessInPlace, InPlace, OwnedByApp

\* Being done with the object at the head of the list, which is in place.
LEMMA DoneInPlace ==
  ASSUME FInv, Agenda, AccessInPlace, stage > 0, Working, NEW o \in Objects, NEW result,
         DoneWith(o, result), IF ensure # << >> THEN o = Head(ensure) ELSE o \in stale,
         \A p \in Objects \ {o} : store'[p] = store[p],
         (Kind \in AccessKinds /\ ensure # << >>) =>
            OwnedByApp(store'[o]) /\ (ClusterScoped(o) \/ store'[o].owner.uid = copy.uid)
  PROVE  AccessInPlace'
<1>1. /\ pc' = "get" /\ UNCHANGED << copy, stage >> /\ Kind' = Kind
      /\ pc # "errorStatus"
  BY DEF DoneWith, Kind, Working
<1>2. o \in Names(Kind) /\ (o \in Wanted(copy.spec, Kind) <=> ensure # << >>)
      /\ stage \in 1..Len(Stages) /\ Kind = Stages[stage] /\ copy.spec \in Specs
  BY ItemKind, StageKind
<1>3. \A p \in Objects \ {o} : InPlace(p)' <=> InPlace(p)
  BY <1>1 DEF InPlace, OwnedByApp
<1>4. ASSUME NEW i \in 1..Len(Stages), i < stage, Stages[i] \in AccessKinds,
             NEW p \in Wanted(copy.spec, Stages[i])
      PROVE  InPlace(p)'
  <2>1. InPlace(p)
    BY <1>1, <1>4 DEF AccessInPlace
  <2>2. Stages[i] \in Kinds
    BY StagesAssumption
  <2>3. p \in Names(Stages[i])
    BY <1>2, <2>2, WantedNames
  <2>4. Stages[i] # Stages[stage]
    BY <1>2, <1>4, StagesDiffer
  <2>5. p \in Objects \ {o}
    BY <1>2, <2>3, <2>4 DEF Names
  <2> QED BY <1>3, <2>1, <2>5
<1>5. ASSUME Kind \in AccessKinds, NEW p \in Wanted(copy.spec, Kind)
      PROVE  InPlace(p)' \/ \E i \in DOMAIN ensure' : ensure'[i] = p
  <2>1. ensure \in Seq(Objects \cup {NotClusterRole}) /\ p \in Objects
    BY DEF FInv, TypeInv, LocalsOK, Wanted
  <2>2. InPlace(p) \/ \E i \in DOMAIN ensure : ensure[i] = p
    BY <1>1, <1>5 DEF AccessInPlace
  <2>3. CASE p = o
    BY <1>1, <1>2, <1>5, <2>3 DEF InPlace
  <2>4. CASE p # o /\ InPlace(p)
    BY <1>3, <2>1, <2>4
  <2>5. CASE p # o /\ \E i \in DOMAIN ensure : ensure[i] = p
    <3>1. PICK i \in DOMAIN ensure : ensure[i] = p
      BY <2>5
    <3>2. ensure # << >> /\ i # 1 /\ ensure' = Tail(ensure)
      BY <2>1, <2>5, <3>1 DEF DoneWith
    <3> QED BY <2>1, <3>1, <3>2, TailParts
  <2> QED BY <2>2, <2>3, <2>4, <2>5
<1> QED BY <1>1, <1>4, <1>5 DEF AccessInPlace

\* After an error nothing has to be in place.
LEMMA FailInPlace == ASSUME Fail PROVE AccessInPlace'
<1>1. pc' = "errorStatus" \/ stage' = 0
  BY DEF Fail, Return
<1> QED BY <1>1 DEF AccessInPlace

\* The stages' own steps.
LEMMA StagesInPlace ==
  ASSUME FInv, Agenda, InvalidLast, AccessInPlace,
         Begin \/ ListGrants \/ ListStage \/ NextStage \/ SkipRole
  PROVE  AccessInPlace'
<1>1. CASE Begin
  BY <1>1 DEF Begin, AccessInPlace, Working, Entry
<1>2. CASE ListGrants
  BY <1>2 DEF ListGrants, FInv, TypeInv, Control, AccessInPlace
<1>3. CASE ListStage
  <2>1. Kind' = Kind /\ UNCHANGED << copy, stage, store >> /\ pc # "errorStatus" /\ pc' = "get"
    BY <1>3 DEF ListStage, Kind, objVars
  <2>2. \A o \in Wanted(copy.spec, Kind) : \E i \in DOMAIN ensure' : ensure'[i] = o
    BY <1>3 DEF ListStage, Wanted
  <2> QED BY <2>1, <2>2 DEF AccessInPlace, InPlace, OwnedByApp
<1>4. CASE NextStage
  <2>1. UNCHANGED << copy, store >> /\ pc = "get" /\ ensure = << >> /\ ~Working'
    BY <1>4 DEF NextStage, objVars, Working
  <2>2. CASE stage = 0
    BY <1>4, <2>2 DEF NextStage, AccessInPlace
  <2>3. CASE stage > 0
    <3>1. stage \in 1..Len(Stages) /\ Kind = Stages[stage] /\ Len(Stages) \in Nat
      BY <2>3, StageKind, StagesAssumption
    <3>2. Kind \in AccessKinds => \A o \in Wanted(copy.spec, Kind) : InPlace(o)
      BY <2>1, <2>3 DEF AccessInPlace, Working
    <3>3. \A i \in 1..Len(Stages) : (i <= stage /\ Stages[i] \in AccessKinds) =>
             \A o \in Wanted(copy.spec, Stages[i]) : InPlace(o)
      BY <2>1, <2>3, <3>1, <3>2 DEF AccessInPlace
    <3>4. stage' \in {stage, stage + 1}
      BY <1>4 DEF NextStage
    <3>5. \A i \in 1..Len(Stages) : i < stage' => i <= stage
      BY <3>1, <3>4
    <3> QED BY <2>1, <3>3, <3>5 DEF AccessInPlace, InPlace, OwnedByApp
  <2> QED BY <2>2, <2>3 DEF FInv, TypeInv, LocalsOK
<1>5. CASE SkipRole
  <2>1. /\ UNCHANGED << copy, store, stage, pc >> /\ pc = "get" /\ Kind' = Kind
        /\ ensure # << >> /\ Head(ensure) = NotClusterRole
    BY <1>5 DEF SkipRole, objVars, Kind
  <2>2. ensure \in Seq(Objects \cup {NotClusterRole})
    BY DEF FInv, TypeInv, LocalsOK
  <2>3. 1 \in DOMAIN ensure /\ ensure[1] = NotClusterRole
    BY <2>1, <2>2
  <2>4. Len(ensure) = 1
    BY <2>3 DEF InvalidLast
  <2>5. \A i \in DOMAIN ensure : ensure[i] = NotClusterRole
    BY <2>2, <2>3, <2>4
  <2>6. \A o \in Wanted(copy.spec, Kind) : o # NotClusterRole
    BY SentinelAssumption DEF Wanted
  <2> QED BY <2>1, <2>5, <2>6 DEF AccessInPlace, InPlace, OwnedByApp, Working
<1> QED BY <1>1, <1>2, <1>3, <1>4, <1>5

\* The first steps of reconcileResource.
LEMMA ReadsInPlace ==
  ASSUME AccessKept, FInv, Synced, Agenda, AccessInPlace, (\E o \in Objects : Get(o)) \/ Mutate
  PROVE  AccessInPlace'
<1>1. UNCHANGED << store, news >>
  BY DEF Get, Mutate, objVars
<1>2. ASSUME NEW o \in Objects, Get(o) PROVE AccessInPlace'
  <2>1. pc = "get" /\ Working
    BY <1>2 DEF Get, Working
  <2>2. CASE Fail
    BY <2>2, FailInPlace
  <2>3. CASE stage = 0 /\ ~Fail
    <3>1. stage' = 0
      BY <1>2, <2>3 DEF Get, DoneWith
    <3> QED BY <3>1 DEF AccessInPlace
  <2>4. CASE stage > 0 /\ ensure = << >> /\ DoneWith(o, NoObj)
    BY <1>1, <1>2, <2>1, <2>4, DoneInPlace DEF Get
  <2>5. CASE /\ pc' = IF ensure # << >> THEN "mutate" ELSE "delete"
             /\ UNCHANGED << copy, stage, ensure >>
    BY <1>1, <2>1, <2>5, SameInPlace
  <2> QED BY <1>2, <2>2, <2>3, <2>4, <2>5 DEF Get, FInv, TypeInv, LocalsOK
<1>3. CASE Mutate
  <2> DEFINE obj == IF cache[item] = NoObj THEN before ELSE cache[item]
             new == Mutated(item, obj, copy, latest)
  <2>1. pc = "mutate" /\ Working /\ stage > 0 /\ ensure # << >> /\ item = Head(ensure)
    BY <1>3 DEF Mutate, Working, FInv, TypeInv, Control, Agenda
  <2>2. CASE Fail
    BY <2>2, FailInPlace
  <2>3. CASE ~Fail
    <3>1. IF new = cache[item]
          THEN DoneWith(item, new)
          ELSE /\ pc' \in {"create", "patch"}
               /\ pc' = "patch" => cache[item] # NoObj
               /\ before' = obj /\ want' = new
               /\ UNCHANGED << copy, stage, ensure, item >>
      BY <1>3, <2>3 DEF Mutate
    <3>2. PICK o \in Objects : o = item
      BY <2>1 DEF FInv, TypeInv, Control
    <3>3. copy \in Applications /\ o.kind = Kind
      BY <2>1, <3>2, ItemKind, StageKind DEF Names
    <3>4. obj \in Stored \cup {NoObj} /\ latest \in Nat
      BY <3>2 DEF FInv, TypeInv, SharedOK, LocalsOK
    <3>5. new.owner = OwnerFor(o, copy) /\ OwnedByApp(new)
      BY <3>2, <3>3, <3>4, MutatedTwice
    <3>6. Kind \in AccessKinds => cache[item] = store[item]
      <4>1. Fresh(Kind)
        BY <1>3 DEF Mutate
      <4> QED BY <3>2, <3>3, <4>1 DEF AccessKept, Fresh, Synced
    <3>7. CASE new = cache[item]
      <4>1. PICK result \in Stored \cup {NoObj} : result = cache[item]
        BY <3>2 DEF FInv, TypeInv, SharedOK
      <4>2. DoneWith(o, result)
        BY <3>1, <3>2, <3>7, <4>1
      <4>3. Kind \in AccessKinds =>
               OwnedByApp(store'[o]) /\ (ClusterScoped(o) \/ store'[o].owner.uid = copy.uid)
        BY <1>1, <3>2, <3>5, <3>6, <3>7 DEF OwnerFor, OwnedByApp
      <4> QED BY <1>1, <2>1, <3>2, <4>2, <4>3, DoneInPlace
    <3>8. CASE new # cache[item]
      <4> HIDE DEF obj, new
      <4>1. /\ pc' \in {"create", "patch"}
            /\ pc' = "patch" => cache[item] # NoObj
            /\ before' = obj /\ want' = new
            /\ UNCHANGED << copy, stage, ensure, item >>
        BY <3>1, <3>8
      <4>2. want'.owner = OwnerFor(item', copy')
        BY <3>2, <3>5, <4>1 DEF OwnerFor
      <4>3. (pc' = "patch" /\ Kind \in AccessKinds) => store'[item'] = before'
        BY <1>1, <3>6, <4>1 DEF obj
      <4>4. Kind' = Kind
        BY <4>1 DEF Kind
      <4> QED BY <1>1, <2>1, <4>1, <4>2, <4>3, <4>4 DEF AccessInPlace, InPlace, OwnedByApp, Working
    <3> QED BY <3>7, <3>8
  <2> QED BY <2>2, <2>3
<1> QED BY <1>2, <1>3

\* A patch leaves the owner that was meant, when the owner was as it was read.
LEMMA PatchOwner ==
  ASSUME NEW from \in Stored, NEW to \in Stored
  PROVE  MergePatch(from, from, to).owner = to.owner
BY DEF MergePatch, Stored

\* The calls of reconcileResource: one that is accepted leaves the object in place.
LEMMA WritesInPlace ==
  ASSUME FInv, Agenda, AccessInPlace, Create \/ Patch \/ Delete
  PROVE  AccessInPlace'
<1>1. Working /\ pc \in {"create", "patch", "delete"}
  BY DEF Create, Patch, Delete, Working
<1>2. PICK o \in Objects : o = item
  BY DEF Create, Patch, Delete, FInv, TypeInv, Control
<1>3. PICK accepted, result :
         /\ Call(accepted, result)
         /\ accepted =>
              \/ Create /\ result = want
              \/ Patch /\ store[o] # NoObj /\ result = MergePatch(store[o], before, want)
              \/ Delete
  <2>1. CASE Create
    BY <2>1 DEF Create
  <2>2. CASE Patch
    BY <1>2, <2>2 DEF Patch
  <2>3. CASE Delete
    BY <2>3 DEF Delete
  <2> QED BY <2>1, <2>2, <2>3
<1>4. Fail \/ (accepted /\ Write(o, result) /\ DoneWith(o, result))
  BY <1>2, <1>3 DEF Call
<1>5. CASE Fail
  BY <1>5, FailInPlace
<1>6. CASE accepted /\ Write(o, result) /\ DoneWith(o, result)
  <2>1. CASE stage = 0
    <3>1. stage' = 0
      BY <1>6, <2>1 DEF DoneWith
    <3> QED BY <3>1 DEF AccessInPlace
  <2>2. CASE stage > 0
    <3>1. IF ensure # << >> THEN o = Head(ensure) ELSE o \in stale
      BY <1>1, <1>2 DEF Agenda, FInv, TypeInv, Control
    <3>2. store'[o] = result /\ \A p \in Objects \ {o} : store'[p] = store[p]
      BY <1>6, WriteTells DEF FInv
    <3>3. ASSUME Kind \in AccessKinds, ensure # << >>
          PROVE  OwnedByApp(store'[o]) /\ (ClusterScoped(o) \/ store'[o].owner.uid = copy.uid)
      <4>1. pc \in {"create", "patch"}
        BY <1>1, <3>3 DEF FInv, TypeInv, Control
      <4>2. want \in Stored /\ want.owner = OwnerFor(o, copy)
        BY <1>1, <1>2, <2>2, <3>3, <4>1 DEF AccessInPlace, FInv, TypeInv, Control
      <4>3. result \in Stored /\ result.owner = OwnerFor(o, copy)
        <5>1. CASE Create /\ result = want
          BY <4>2, <5>1
        <5>2. CASE Patch /\ store[o] # NoObj /\ result = MergePatch(store[o], before, want)
          <6>1. store[o] = before /\ before \in Stored
            BY <1>1, <1>2, <2>2, <3>3, <5>2 DEF Patch, AccessInPlace, FInv, TypeInv, Control
          <6> QED BY <4>2, <5>2, <6>1, PatchOwner, MergePatchType
        <5>3. ~Delete
          BY <4>1 DEF Delete
        <5> QED BY <1>3, <1>6, <5>1, <5>2, <5>3
      <4> QED BY <3>2, <4>3, SentinelAssumption DEF OwnerFor, OwnedByApp
    <3> QED BY <1>1, <1>6, <2>2, <3>1, <3>2, <3>3, DoneInPlace
  <2> QED BY <2>1, <2>2 DEF FInv, TypeInv, LocalsOK
<1> QED BY <1>4, <1>5, <1>6

\* Nobody takes away what is in place for an Application that is held.
LEMMA OthersLeaveAccess ==
  ASSUME AccessKept, FInv, Agenda, AccessInPlace,
         NEW o \in Objects, Meddle(o) \/ Report(o) \/ CollectGarbage(o)
  PROVE  AccessInPlace'
<1>1. UNCHANGED << pc, copy, stage, ensure, item, before, want >> /\ Kind' = Kind /\ Working' = Working
  BY DEF Meddle, Report, CollectGarbage, workerVars, localVars, Kind, Working
<1> SUFFICES ASSUME stage > 0, pc # "errorStatus" PROVE AccessInPlace'
  BY <1>1 DEF AccessInPlace
<1>2. PICK new : Write(o, new)
  BY OthersGrantNothing DEF FInv
<1>3. \A p \in Objects \ {o} : store'[p] = store[p]
  BY <1>2, WriteTells DEF FInv
<1>4. ASSUME o.kind \in AccessKinds PROVE CollectGarbage(o) /\ store'[o] = NoObj
  <2>1. CollectGarbage(o)
    BY <1>4 DEF AccessKept, AccessKinds, Meddle, Report
  <2> QED BY <2>1, WriteTells DEF CollectGarbage, FInv
<1>5. app # NoApp /\ app.uid = copy.uid
  BY DEF FInv, FinalizerHeld, Held
<1>6. ASSUME NEW p \in Objects, p.kind \in AccessKinds, InPlace(p)
      PROVE  InPlace(p)'
  <2>1. p # o
    BY <1>4, <1>5, <1>6 DEF CollectGarbage, Garbage, InPlace
  <2> QED BY <1>1, <1>3, <1>6, <2>1 DEF InPlace, OwnedByApp
<1>7. copy.spec \in Specs /\ Kind \in Kinds
  BY StageKind
<1>8. ASSUME NEW k \in Kinds, k \in AccessKinds, NEW p \in Wanted(copy.spec, k), InPlace(p)
      PROVE  InPlace(p)'
  BY <1>6, <1>7, <1>8, WantedNames DEF Names
<1>9. \A i \in 1..Len(Stages) : (i < stage /\ Stages[i] \in AccessKinds) =>
         \A p \in Wanted(copy.spec, Stages[i]) : InPlace(p)'
  BY <1>8, StagesAssumption DEF AccessInPlace
<1>10. ASSUME Working, Kind \in AccessKinds
       PROVE  \A p \in Wanted(copy.spec, Kind) : InPlace(p)' \/ \E i \in DOMAIN ensure : ensure[i] = p
  BY <1>7, <1>8, <1>10 DEF AccessInPlace
<1>11. ASSUME pc = "patch", Kind \in AccessKinds PROVE store'[item] \in {before, NoObj}
  <2>1. PICK p \in Objects : p = item
    BY <1>11 DEF FInv, TypeInv, Control
  <2>2. ensure # << >> /\ p = Head(ensure) /\ Working
    BY <1>11, <2>1 DEF Agenda, FInv, TypeInv, Control, Working
  <2>3. store[p] \in {before, NoObj}
    BY <1>11, <2>1, <2>2 DEF AccessInPlace
  <2>4. p # o \/ store'[p] = NoObj
    BY <1>4, <1>11, <2>2, ItemKind DEF Names
  <2> QED BY <1>3, <2>1, <2>3, <2>4
<1> QED BY <1>1, <1>9, <1>10, <1>11 DEF AccessInPlace, Working

\* All other steps leave the worker and the objects alone, or end the Reconcile.
LEMMA ElsewhereInPlace ==
  ASSUME FInv, AccessInPlace,
         \/ InitStatus \/ AddFinalizer \/ RemoveFinalizer \/ FinalStatus \/ ErrorStatus
         \/ (\E s \in Specs : CreateApp(s) \/ EditApp(s)) \/ DeleteApp
         \/ Publish \/ Resync \/ Restart \/ SyncApp
         \/ (\E o \in Objects : SyncObject(o)) \/ UNCHANGED vars
  PROVE  AccessInPlace'
<1>1. CASE \/ InitStatus \/ AddFinalizer \/ RemoveFinalizer \/ FinalStatus \/ ErrorStatus
           \/ Restart
  <2>1. stage' = 0
    BY <1>1 DEF InitStatus, AddFinalizer, RemoveFinalizer, FinalStatus, ErrorStatus, UpdateApp,
       Restart, Return
  <2> QED BY <2>1 DEF AccessInPlace
<1>2. CASE UNCHANGED << store, pc, copy, stage, ensure, item, before, want >>
  BY <1>2 DEF AccessInPlace, InPlace, OwnedByApp, Working, Kind
<1>3. CASE \/ (\E s \in Specs : CreateApp(s) \/ EditApp(s)) \/ DeleteApp
           \/ Publish \/ Resync \/ SyncApp
           \/ (\E o \in Objects : SyncObject(o)) \/ UNCHANGED vars
  BY <1>2, <1>3 DEF CreateApp, EditApp, DeleteApp, AppWritten, Publish, Resync, SyncApp,
     SyncObject, vars, objVars, workerVars, localVars
<1> QED BY <1>1, <1>3

-----------------------------------------------------------------------------
(***************************************************************************)
(* The theorem                                                             *)
(***************************************************************************)

\* Every step keeps in place what is.
LEMMA NextWorkload ==
  ASSUME RolesLast, AccessKept, WInv, [Next]_vars
  PROVE  WInv'
<1>1. FInv' /\ Synced' /\ NewsTold' /\ Agenda' /\ InvalidLast'
  BY NextHeld, NextTold, NextAgenda, NextInvalidLast DEF WInv, FInv
<1> SUFFICES AccessInPlace'
  BY <1>1 DEF WInv
<1>2. CASE Begin \/ ListGrants \/ ListStage \/ NextStage \/ SkipRole
  BY <1>2, StagesInPlace DEF WInv
<1>3. CASE (\E o \in Objects : Get(o)) \/ Mutate
  BY <1>3, ReadsInPlace DEF WInv
<1>4. CASE Create \/ Patch \/ Delete
  BY <1>4, WritesInPlace DEF WInv
<1>5. ASSUME NEW o \in Objects, Meddle(o) \/ Report(o) \/ CollectGarbage(o)
      PROVE  AccessInPlace'
  BY <1>5, OthersLeaveAccess DEF WInv
<1>6. CASE \/ InitStatus \/ AddFinalizer \/ RemoveFinalizer \/ FinalStatus \/ ErrorStatus
           \/ (\E s \in Specs : CreateApp(s) \/ EditApp(s)) \/ DeleteApp
           \/ Publish \/ Resync \/ Restart \/ SyncApp
           \/ (\E o \in Objects : SyncObject(o)) \/ UNCHANGED vars
  BY <1>6, ElsewhereInPlace DEF WInv
<1>7. CASE ReadError
  <2>1. Return(TRUE) \/ Fail
    BY <1>7, ReadErrorFails
  <2>2. CASE Return(TRUE)
    <3>1. stage' = 0
      BY <2>2 DEF Return
    <3> QED BY <3>1 DEF AccessInPlace
  <2>3. CASE Fail
    BY <2>3, FailInPlace
  <2> QED BY <2>1, <2>2, <2>3
<1> QED BY <1>2, <1>3, <1>4, <1>5, <1>6, <1>7 DEF Next, Reconcile, Environment, OtherSpecs

\* The Deployment is written only when the accounts and bindings that its spec asks for are
\* in place, however stale other caches are and whatever fails on the way; provided that
\* nobody else touches them, that they are seen at once, and that no role follows an invalid
\* one, at which the stage ends.
THEOREM AccessFirst ==
  ASSUME RolesLast, AccessKept
  PROVE  Spec => AccessBeforeWorkload
<1>1. Init => WInv
  <2>1. Init => TypeInv
    BY InitType
  <2> QED BY <2>1 DEF Init, WInv, FInv, FinalizerHeld, Cleaning, Live, Synced, NewsTold, Agenda,
                      Working, InvalidLast, AccessInPlace
<1>2. WInv /\ [Next]_vars => WInv'
  BY NextWorkload
<1>3. WInv => ((pc \in {"create", "patch"} /\ Kind = "Deployment" /\ pc' # pc /\ store' # store)
        => \A k \in Supported \cap {"ServiceAccount", "RoleBinding", "ClusterRoleBinding"} :
              \A o \in Wanted(copy.spec, k) : OwnedByApp(store[o]))
  <2> SUFFICES ASSUME WInv, pc \in {"create", "patch"}, Kind = "Deployment",
                      NEW k \in Supported \cap AccessKinds, NEW o \in Wanted(copy.spec, k)
               PROVE  OwnedByApp(store[o])
    BY DEF AccessKinds
  <2>1. stage > 0 /\ pc # "errorStatus"
    BY DEF WInv, FInv, TypeInv, Control
  <2>2. stage = Len(Stages)
    BY <2>1, StageKind, StagesDiffer DEF WInv
  <2>3. PICK i \in 1..Len(Stages) : k = Stages[i]
    BY StagesAssumption DEF Supported
  <2>4. i # Len(Stages)
    BY <2>3, StagesAssumption DEF AccessKinds
  <2>5. i < stage
    BY <2>2, <2>4, StagesAssumption
  <2> QED BY <2>1, <2>3, <2>5 DEF WInv, AccessInPlace, InPlace
<1>4. QED
  BY <1>1, <1>2, <1>3, PTL DEF Spec, AccessBeforeWorkload

=============================================================================
