---------------------------- MODULE AccessGrants ----------------------------
(***************************************************************************)
(* What an Application promises about the cluster-wide rights granted for  *)
(* it, whoever grants them and however (internal/controller/               *)
(* application_controller.go, the finalizer).                              *)
(*                                                                         *)
(* Rights are granted only to an Application that cannot vanish: it is     *)
(* protected first, and it leaves only when nothing is granted any more.   *)
(* Reconciler implements this (see GrantsFollowProtocol there).            *)
(***************************************************************************)
CONSTANT Bindings    \* the cluster-wide bindings there may be

VARIABLES
  life,              \* of the Application
  granted            \* the bindings that exist for it

vars == << life, granted >>

Lives == {"absent", "unprotected", "protected", "leaving"}

Held == life \in {"protected", "leaving"}

Init == life = "absent" /\ granted = {}

Live(from, to) == life = from /\ life' = to /\ UNCHANGED granted

\* Somebody creates the Application; it may go at once while nothing protects it.
Create == Live("absent", "unprotected")
Vanish == Live("unprotected", "absent")

\* The controller protects it; from then on a deletion only marks it.
Protect == Live("unprotected", "protected")
Mark    == Live("protected", "leaving")

\* The controller grants, also while an Application that was just marked is leaving; the
\* controller and third parties revoke.
Grant(b)  == Held /\ granted' = granted \cup {b} /\ UNCHANGED life
Revoke(b) == Held /\ granted' = granted \ {b} /\ UNCHANGED life

\* The controller lets it go.
Release == granted = {} /\ Live("leaving", "absent")

Next ==
  \/ Create \/ Vanish \/ Protect \/ Mark \/ Release
  \/ \E b \in Bindings : Grant(b) \/ Revoke(b)

Spec == Init /\ [][Next]_vars

=============================================================================
