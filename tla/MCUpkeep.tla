------------------------------- MODULE MCUpkeep --------------------------------
(* Projects for Upkeep, each small in one direction.  A day has four         *)
(* minutes, a month two days, a week three.                                  *)
EXTENDS Upkeep

\* "code" is an agent's and wants a description and the input 1, "script" is not.
MCTypes == [t \in {"code", "script"} |->
  IF t = "code" THEN [agent |-> TRUE, declared |-> {1, 2}, required |-> {1}]
                ELSE [agent |-> FALSE, declared |-> {}, required |-> {}]]

Wild == [f \in Fields |-> {}]
\* The second minute of a day's first hour; every minute of the second hour of the
\* month's second day or the week's first.
Daily == [Wild EXCEPT !.minute = {At(1)}, !.hour = {At(0)}]
Either == [Wild EXCEPT !.hour = {Span(1, 1)}, !.monthDay = {At(2)}, !.weekDay = {Every(3)}]
Wrong == [Wild EXCEPT !.hour = {Span(1, 0)}]

File(s, cron) == [name |-> s, cron |-> cron, enabled |-> TRUE, type |-> "script",
                  described |-> FALSE, needs |-> 0, inputs |-> {}]
Edit(s, file) == [stem |-> s, file |-> file]
Code(s) == [File(s, Daily) EXCEPT !.type = "code", !.described = TRUE, !.needs = 3, !.inputs = {1}]

Project == [linked |-> TRUE, github |-> TRUE, landings |-> {}, pushes |-> {},
            methods |-> {"squash"}, releases |-> 0, drains |-> 0, crashes |-> 0,
            failures |-> 0, edits |-> <<>>, times |-> 0]

\* A release of one job's work beside another job, a push and a restart.
Releasing ==
  [Project EXCEPT !.landings = {1, 2}, !.pushes = {4}, !.releases = 1, !.crashes = 1]
\* Two releases, with failing calls.
Again ==
  [Project EXCEPT !.landings = {1}, !.methods = {"merge"}, !.releases = 2, !.failures = 1]
\* An origin that takes branches only.
Plain ==
  [Project EXCEPT !.github = FALSE, !.landings = {1, 2}, !.pushes = {4}, !.releases = 2]

\* Schedules of a project without an origin, over two days: failing calls and a
\* restart, and two of them, one of which comes with a landing.
Calendar ==
  [Project EXCEPT !.linked = FALSE, !.crashes = 1, !.failures = 1, !.times = 6,
     !.edits = 0 :> Edit(1, File(1, Daily))]
Two ==
  [Project EXCEPT !.linked = FALSE, !.landings = {1}, !.times = 9,
     !.edits = 0 :> Edit(1, File(1, Either)) @@ 1 :> Edit(2, Code(2))]

\* Files that come, change and go with landings and with what others push.
Moving ==
  [Project EXCEPT !.pushes = {1, 3}, !.landings = {2}, !.releases = 1, !.times = 2,
     !.edits = 0 :> Edit(1, File(1, Wrong)) @@ 1 :> Edit(1, File(1, Daily))
               @@ 2 :> Edit(2, File(2, Daily)) @@ 3 :> Edit(1, None)]
Drained ==
  [Project EXCEPT !.pushes = {1}, !.drains = 1, !.times = 2, !.failures = 1,
     !.edits = 0 :> Edit(1, File(1, Either)) @@ 1 :> Edit(1, File(1, Daily))]

MCPlans == {Releasing, Again, Plain, Calendar, Two, Moving, Drained}
================================================================================
