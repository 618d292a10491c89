--------------------------- MODULE MCImageWatcher ---------------------------
(***************************************************************************)
(* Instances of ImageWatcher for TLC: one or two Applications, one or two  *)
(* repositories, and budgets of events.                                    *)
(***************************************************************************)
EXTENDS ImageWatcher, TLC

Image(r, s) == [repo |-> r, schedule |-> s]

\* At most n events in all, of each kind as many as w says.
AtMost(n, w) == ("any" :> n) @@ w @@ [e \in Events |-> 0]

Times(w) == AtMost(20, w)

\* Two repositories, two schedules: an edit changes both, and one spec takes the default.
TurnSpecs == { Image("web", "hourly"), Image("db", NoSchedule) }

\* Updates: an Application with a CronJob appears, before or after the manager has started;
\* then two of these: it is edited, an image is pushed, with or without a call of the
\* webhook, a listing or a lookup fails, the process restarts.
UpdateBudget ==
  AtMost(3, [create |-> 1, edit |-> 1, publish |-> 2, fault |-> 1, restart |-> 1])

\* Lifecycle: two Applications, with the same spec or not, of which one is removed, or one
\* that is removed and made again; the process restarts.
LifeBudget == Times([create |-> 2, delete |-> 1, restart |-> 1])

\* KeptSchedule: an edit that keeps the schedule.
KeptSpecs  == { Image("web", "hourly"), Image("db", "hourly") }
KeptBudget == Times([create |-> 1, edit |-> 1, publish |-> 1])

\* DeadHandle: a schedule gocron refuses is written and taken back.
WrongSpecs  == { Image("web", "hourly"), Image("web", "hurly") }
WrongBudget == Times([create |-> 1, edit |-> 2])

=============================================================================
