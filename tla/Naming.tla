------------------------------- MODULE Naming -------------------------------
(***************************************************************************)
(* The names of an Application's objects (internal/controller/names.go).   *)
(*                                                                         *)
(* A name is the sequence of the words between its dashes, so that putting *)
(* names together with dashes is concatenation.  Which names are the same  *)
(* is what Reconciler assumes of its Objects: two that an Application      *)
(* wants are never one, while two Applications may meet on a name.         *)
(***************************************************************************)
EXTENDS Sequences, SequenceTheorems, TLAPS

CONSTANT Words    \* what may stand between two dashes

DashedNames == Seq(Words \cup {"role", "clusterrole", "loadbalancer"})

Applications == [namespace : DashedNames, name : DashedNames]

RoleRefs == [kind : {"Role", "ClusterRole"}, name : DashedNames]

\* strings.ToLower
Lower(kind) == IF kind = "Role" THEN "role" ELSE "clusterrole"

\* Also the names of ServiceAccount, Service, PodMonitor and IngressRoute.
DeploymentName(a) == [namespace |-> a.namespace, name |-> a.name]

LBServiceName(a) == [namespace |-> a.namespace, name |-> a.name \o << "loadbalancer" >>]

RoleBindingName(a, r) ==
  [namespace |-> a.namespace, name |-> a.name \o (<< Lower(r.kind) >> \o r.name)]

\* ClusterRoleBindings are in no namespace, so the Application's is part of the name.
ClusterRoleBindingName(a, r) ==
  [namespace |-> << >>, name |-> a.namespace \o (a.name \o (<< Lower(r.kind) >> \o r.name))]

CronJobName(a, job) == [namespace |-> a.namespace, name |-> a.name \o job]

-----------------------------------------------------------------------------
\* Names that are the same after the same beginning are the same.
LEMMA CancelLeft == \A s, t, v \in DashedNames : s \o t = s \o v => t = v
BY ConcatSimplifications DEF DashedNames

\* What a reference to a role is called tells its kind and its name.
LEMMA RoleWords ==
  ASSUME NEW r \in RoleRefs, NEW s \in RoleRefs,
         << Lower(r.kind) >> \o r.name = << Lower(s.kind) >> \o s.name
  PROVE  r = s
<1> DEFINE R == << Lower(r.kind) >>
           S == << Lower(s.kind) >>
<1>1. /\ R \in DashedNames /\ r.name \in DashedNames
      /\ S \in DashedNames /\ s.name \in DashedNames
      /\ Len(R) = 1 /\ Len(S) = 1 /\ R[1] = Lower(r.kind) /\ S[1] = Lower(s.kind)
  BY DEF RoleRefs, DashedNames, Lower
<1>2. Len(r.name) \in Nat /\ Len(s.name) \in Nat
  BY <1>1 DEF DashedNames
<1>3. (R \o r.name)[1] = R[1] /\ (S \o s.name)[1] = S[1]
  BY <1>1, <1>2, ConcatProperties DEF DashedNames
<1>4. Lower(r.kind) = Lower(s.kind)
  BY <1>1, <1>3
<1>5. R = S
  BY <1>4
<1>6. r.name = s.name
  BY <1>1, <1>5, CancelLeft DEF DashedNames
<1>7. r.kind = s.kind
  BY <1>4 DEF Lower, RoleRefs
<1> QED BY <1>6, <1>7 DEF RoleRefs

\* Two objects of one kind that one Application wants have different names, and so do its
\* two Services (simpleNamer): Reconcile never writes one object for two purposes.
THEOREM OwnNamesDiffer ==
  ASSUME NEW a \in Applications, NEW r \in RoleRefs, NEW s \in RoleRefs,
         NEW j \in DashedNames, NEW k \in DashedNames
  PROVE  /\ RoleBindingName(a, r) = RoleBindingName(a, s) => r = s
         /\ ClusterRoleBindingName(a, r) = ClusterRoleBindingName(a, s) => r = s
         /\ CronJobName(a, j) = CronJobName(a, k) => j = k
         /\ LBServiceName(a) # DeploymentName(a)
<1> DEFINE role(x) == << Lower(x.kind) >> \o x.name
<1>1. /\ a.namespace \in DashedNames /\ a.name \in DashedNames
      /\ << "loadbalancer" >> \in DashedNames /\ << "loadbalancer" >> # << >>
  BY DEF Applications, DashedNames
<1>2. \A x \in RoleRefs : role(x) \in DashedNames
  <2> SUFFICES ASSUME NEW x \in RoleRefs PROVE role(x) \in DashedNames
    OBVIOUS
  <2>1. << Lower(x.kind) >> \in DashedNames /\ x.name \in DashedNames
    BY DEF RoleRefs, DashedNames, Lower
  <2> QED BY <2>1, ConcatProperties DEF DashedNames
<1>3. role(r) = role(s) => r = s
  BY RoleWords
<1>4. role(r) \in DashedNames /\ role(s) \in DashedNames
  BY <1>2
<1> HIDE DEF role
<1>5. a.name \o role(r) = a.name \o role(s) => role(r) = role(s)
  BY <1>1, <1>4, CancelLeft DEF DashedNames
<1>6. a.name \o role(r) \in DashedNames /\ a.name \o role(s) \in DashedNames
  BY <1>1, <1>4, ConcatProperties DEF DashedNames
<1>7. a.namespace \o (a.name \o role(r)) = a.namespace \o (a.name \o role(s))
        => a.name \o role(r) = a.name \o role(s)
  BY <1>1, <1>6, CancelLeft DEF DashedNames
<1>8. a.name \o j = a.name \o k => j = k
  BY <1>1, CancelLeft DEF DashedNames
<1>9. a.name \o << "loadbalancer" >> # a.name
  BY <1>1, ConcatSimplifications DEF DashedNames
<1>10. RoleBindingName(a, r) = RoleBindingName(a, s) => r = s
  BY <1>3, <1>5 DEF RoleBindingName, role
<1>11. ClusterRoleBindingName(a, r) = ClusterRoleBindingName(a, s) => r = s
  BY <1>3, <1>5, <1>7 DEF ClusterRoleBindingName, role
<1>12. CronJobName(a, j) = CronJobName(a, k) => j = k
  BY <1>8 DEF CronJobName
<1>13. LBServiceName(a) # DeploymentName(a)
  BY <1>9 DEF LBServiceName, DeploymentName
<1> QED BY <1>10, <1>11, <1>12, <1>13

\* Two Applications, however, may want one name for two ClusterRoleBindings: those of an
\* Application "y-z" in the namespace "x" are called like those of "z" in "x-y".  The
\* second to come meets "is not owned by the Application" for ever (reconcileResource).
THEOREM ClusterNamesCollide ==
  ASSUME NEW x \in DashedNames, NEW y \in DashedNames, NEW z \in DashedNames, NEW r \in RoleRefs
  PROVE  ClusterRoleBindingName([namespace |-> x, name |-> y \o z], r)
           = ClusterRoleBindingName([namespace |-> x \o y, name |-> z], r)
<1> DEFINE role == << Lower(r.kind) >> \o r.name
<1>1. << Lower(r.kind) >> \in DashedNames /\ r.name \in DashedNames
  BY DEF RoleRefs, DashedNames, Lower
<1>2. role \in DashedNames
  BY <1>1, ConcatProperties DEF DashedNames
<1> HIDE DEF role
<1>3. z \o role \in DashedNames
  BY <1>2, ConcatProperties DEF DashedNames
<1>4. (y \o z) \o role = y \o (z \o role)
  BY <1>2, ConcatAssociative DEF DashedNames
<1>5. (x \o y) \o (z \o role) = x \o (y \o (z \o role))
  BY <1>3, ConcatAssociative DEF DashedNames
<1> QED BY <1>4, <1>5 DEF ClusterRoleBindingName, role

\* And the load balancer's Service of one is the Service of another that is called so.
THEOREM ServiceNamesCollide ==
  ASSUME NEW a \in Applications
  PROVE  LBServiceName(a) =
           DeploymentName([namespace |-> a.namespace, name |-> a.name \o << "loadbalancer" >>])
BY DEF LBServiceName, DeploymentName

=============================================================================
