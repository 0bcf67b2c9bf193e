-------------------------------- MODULE Upkeep ---------------------------------
(***************************************************************************)
(* A linked project and its schedules: what lands or is taken over from    *)
(* the origin changes the schedule files at the head of the integration    *)
(* branch, and the table follows at a landing, at a start, and with every  *)
(* RefreshTicks-th tick.                                                   *)
(***************************************************************************)
EXTENDS Origin, Schedules

\* A plan also says:
\*   edits     edits[c]: [stem, file], the schedule file change c writes (None
\*             removes it); a greater change is a later one
\*   times     last minute of the clock
ASSUME EditsAssumption == \A p \in Plans : IsFiniteSet(DOMAIN p.edits)

vars == <<plan, projectVars, scheduleVars>>

\* The schedule files at a branch.
Editing(branch, s) == {c \in Changes(branch) \cap DOMAIN plan.edits : plan.edits[c].stem = s}
FilesAt(branch) ==
  LET stems  == {plan.edits[c].stem : c \in DOMAIN plan.edits}
      Newest(s) == plan.edits[Max(Editing(branch, s))].file
  IN [s \in {r \in stems : Editing(branch, r) # {} /\ Newest(r) # None} |-> Newest(s)]

-----------------------------------------------------------------------------
Init ==
  /\ plan \in Plans
  /\ OriginInit
  /\ now = 0
  /\ table = Refreshed(<<>>, FilesAt(integration))
  /\ ticks = 0
  /\ jobs = <<>>

Alone == UNCHANGED <<plan, scheduleVars>>

\* finish_landing reads the schedules again; a read that fails loads nothing.
JobLands ==
  /\ Land
  /\ \/ table' = Refreshed(table, FilesAt(integration')) /\ UNCHANGED spent
     \/ table' = <<>> /\ Spend("failures")
  /\ UNCHANGED <<plan, now, ticks, jobs>>

\* A tick of run_scans.  A drain stops it before it counts.
Table(count, unread) ==
  CASE ~RefreshDue(count) -> table
    [] unread -> <<>>
    [] OTHER -> Refreshed(table, FilesAt(integration))
Tick ==
  /\ Idle /\ ~draining
  /\ LET count == (ticks + 1) % RefreshTicks IN
     \E unread \in {FALSE, RefreshDue(count)} :
     \E tbl \in {Table(count, unread)} : \E decided \in {Decisions(tbl)} :
       /\ ticks' = count
       /\ \/ \E outcome \in Outcomes(decided) :
               /\ Scan(tbl, decided, outcome)
               /\ IF ~unread /\ \A s \in DOMAIN outcome : outcome[s] = "Live"
                  THEN UNCHANGED spent
                  ELSE Spend("failures")
          \/ ScanAborts(tbl, decided) /\ Spend("failures")
  /\ UNCHANGED <<plan, originVars, repoVars, coreVars, op>>

Handles ==
  /\ \/ ReleaseFetch \/ ReleaseCount \/ ReleasePin \/ ReleasePush \/ ReleasePr \/ ReleaseOpen
     \/ SyncFetch \/ SyncAsk \/ SyncReset \/ SyncSettle
  /\ Alone
Fails == CallFails /\ Alone

Asked ==
  /\ \/ Release
     \/ Sync
     \/ Drain
     \/ \E j \in plan.landings : Enqueue(j)
  /\ Alone
GateOver == GateEnds /\ Alone

Outside ==
  /\ \/ \E n \in DOMAIN prs :
          \/ \E method \in plan.methods : MergePr(n, method)
          \/ ClosePr(n)
          \/ MergeBranch(n)
     \/ \E c \in plan.pushes : PushMain(c)
  /\ Alone

JobMoves ==
  /\ Idle
  /\ \E i \in DOMAIN jobs : ReleaseByHand(i) \/ \E state \in Terminal : Ends(i, state)
  /\ UNCHANGED <<plan, projectVars>>
TimePasses ==
  /\ now < plan.times
  /\ Passes
  /\ UNCHANGED <<plan, projectVars>>

\* A start loads the table anew: what it remembered is gone.
Starts ==
  /\ Restarts
  /\ table' = Refreshed(<<>>, FilesAt(integration))
  /\ ticks' = 0
  /\ UNCHANGED <<plan, now, jobs>>
Crash == Starts /\ Spend("crashes")
DrainedRestart == draining /\ Idle /\ Starts /\ UNCHANGED spent

Next ==
  \/ JobLands \/ GateOver \/ Handles \/ Fails \/ Asked \/ Outside
  \/ Tick \/ JobMoves \/ TimePasses
  \/ Crash \/ DrainedRestart

Spec == Init /\ [][Next]_vars

\* Handlers go on; a tick and the end of a drain wait in the actor's mailbox, so
\* they are served however many other requests are.
Fairness == WF_vars(Handles) /\ SF_vars(Tick) /\ SF_vars(DrainedRestart)
FairSpec == Spec /\ Fairness

-----------------------------------------------------------------------------
\* What has landed is on the integration branch or on the origin's main branch,
\* whatever is merged, closed or pushed there and whichever call fails; without
\* pull requests, where any move of main is taken for the merge, it is at least
\* in the pin of a release (origin_release's gate guard and hold, origin_sync's
\* reset).
WorkIsKept ==
  \A c \in landed :
    \/ c \in Changes(integration) \cup Changes(main)
    \/ ~plan.github /\ \E n \in DOMAIN pins : c \in Changes(pins[n])

\* Of each schedule one job is live at a time, and each is for the newest
\* occurrence that came after the one before it was over: none fires twice, and
\* none that passed while a job was live fires late (decide_one's anchor).
SchedulesFireOnce ==
  \A i \in DOMAIN jobs :
    LET job == jobs[i]
        c   == Parsed(job.file.cron)
    IN /\ job.occurrence <= job.created
       /\ Matches(c, job.occurrence)
       /\ \A t \in job.occurrence + 1 .. job.created : ~Matches(c, t)
       /\ \A k \in 1 .. i - 1 :
            jobs[k].schedule = job.schedule =>
              /\ jobs[k].state \in Terminal
              /\ jobs[k].completed <= job.created
              /\ jobs[k].completed < job.occurrence

\* The table comes to agree with the head of the integration branch, however the
\* branch has moved, and then nothing that is due is left lying: a schedule is
\* blocked by its own job or has fired (the refresh backstop, the tick).
InStep == LET files == Load(FilesAt(integration)) IN
  DOMAIN table = DOMAIN files /\ \A s \in DOMAIN table : table[s].file = files[s]
NothingDue(s) ==
  LET latest == LatestScheduledJob(s)
      after  == Max({now - Lookback * MinutesPerDay,
                     IF latest = NoJob THEN table[s].since
                     ELSE IF latest.state \in Terminal THEN latest.completed ELSE now})
  IN \/ ~table[s].file.enabled
     \/ latest # NoJob /\ latest.state \notin Terminal
     \/ \A t \in after + 1 .. now : ~Matches(Parsed(table[s].file.cron), t)
SchedulesKeepUp ==
  <>[](InStep /\ \A s \in DOMAIN table : NothingDue(s))
================================================================================
