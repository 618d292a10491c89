---------------------------- MODULE MCReconciler ----------------------------
(***************************************************************************)
(* Instances of Reconciler for TLC.  Each run takes a slice of the kinds,  *)
(* a few specs and a budget of events.                                     *)
(***************************************************************************)
EXTENDS Reconciler, TLC

Obj(k, n) == [kind |-> k, name |-> n]

sa   == Obj("ServiceAccount", "app")
rb   == Obj("RoleBinding", "reader")
crb1 == Obj("ClusterRoleBinding", "viewer")
crb2 == Obj("ClusterRoleBinding", "editor")
ing  == Obj("IngressRoute", "app")
cj   == Obj("CronJob", "nightly")
dep  == Obj("Deployment", "app")

\* A spec of revision r that wants the Deployment and what w names.
WithWants(r, w, bad) ==
  [rev |-> r,
   wants |-> [k \in Kinds |-> IF k = "Deployment" THEN << dep >>
                              ELSE IF k \in DOMAIN w THEN w[k] ELSE << >>],
   malformed |-> bad]

\* At most as many events as w says, and n in all.
AtMost(n, w) == w @@ "any" :> n @@ [e \in Events |-> 0]
Times(w) == AtMost(20, w)

-----------------------------------------------------------------------------
\* Stages: an object of each way a stage treats its kind, cluster-wide grants among them;
\* specs that want and do not want each, one with an invalid role and one malformed; two
\* incarnations, the garbage of the first, a failure and a crash.
StageObjects == {sa, crb1, ing, dep}
StageStages  == << "ServiceAccount", "ClusterRoleBinding", "IngressRoute", "Deployment" >>
StageSpecs   == { WithWants(1, "ServiceAccount" :> << sa >> @@ "IngressRoute" :> << ing >>, {}),
                  WithWants(2, "ServiceAccount" :> << sa >>
                                 @@ "ClusterRoleBinding" :> << crb1, NotClusterRole >>, {}),
                  WithWants(3, "ServiceAccount" :> << sa >> @@ "IngressRoute" :> << ing >>,
                               {"IngressRoute"}) }
StageBudget  == AtMost(5, [create |-> 2, edit |-> 1, delete |-> 1, fault |-> 1,
                           restart |-> 1, resync |-> 1])

-----------------------------------------------------------------------------
\* Drift: bindings, CronJobs and the Deployment under interference, with stale caches,
\* new images, status reports, failures and a crash.  Nobody meddles with CronJobs, which
\* the controller does not watch.
DriftObjects == {rb, cj, dep}
DriftMeddled == {rb, dep}
DriftStages  == << "RoleBinding", "CronJob", "Deployment" >>
DriftSpecs   == { WithWants(1, "RoleBinding" :> << rb >> @@ "CronJob" :> << cj >>, {}),
                  WithWants(2, << >>, {}) }
DriftBudget  == AtMost(4, [create |-> 1, edit |-> 1, meddle |-> 1, publish |-> 1,
                           report |-> 1, fault |-> 1, restart |-> 1])

-----------------------------------------------------------------------------
\* The lives of an Application and its cluster role bindings.
GrantObjects == {crb1, crb2, dep}
GrantStages  == << "ClusterRoleBinding", "Deployment" >>
GrantSpecs   == { WithWants(1, "ClusterRoleBinding" :> << crb1 >>, {}),
                  WithWants(2, "ClusterRoleBinding" :> << crb2 >>, {}) }

\* Ends: the lives of an Application, everything lagging, one of everything going wrong.
EndsObjects == {crb1, dep}
EndsSpecs   == { WithWants(1, "ClusterRoleBinding" :> << crb1 >>, {}), WithWants(2, << >>, {}) }
EndsBudget  == Times([create |-> 2, delete |-> 1, meddle |-> 1, fault |-> 1])

\* Roles: a ClusterRoleBinding is wanted first, then replaced by an invalid role.
RoleSpecs  == { WithWants(1, "ClusterRoleBinding" :> << crb1 >>, {}),
                WithWants(2, "ClusterRoleBinding" :> << NotClusterRole >>, {}) }
RoleBudget == Times([create |-> 1, edit |-> 1])

\* Lag: an Application created and deleted once, its ClusterRoleBinding cache behind.
LagBudget == Times([create |-> 1, delete |-> 1])

\* Foreign: somebody else's binding appears under a name the Application uses.
ForeignBudget == Times([create |-> 1, edit |-> 1, meddle |-> 2])
=============================================================================
