------------------------------- MODULE Schedules -------------------------------
(***************************************************************************)
(* A project's recurring schedules: the table loaded from the files at the *)
(* head of the default branch, the anchor rule that decides what is due,   *)
(* and the jobs that it fires.  What the head's files are is Upkeep's.     *)
(***************************************************************************)
EXTENDS Cron, Sequences, Functions, SequencesExt

CONSTANTS
    JobTypes,      \* JobTypes[t]: [agent, declared, required], the types at the head
    Epoch,         \* CONFIG_SCHEMA_EPOCH
    InputsEpoch,   \* SCHEDULE_INPUTS_SCHEMA_EPOCH
    SchedulesMax,  \* SCHEDULES_MAX
    RefreshTicks   \* SCHEDULE_REFRESH_TICKS

VARIABLES
    now,     \* the clock, in minutes
    table,   \* loaded schedules: [file, since, skipped]
    ticks,   \* schedule_ticks, modulo RefreshTicks
    jobs     \* jobs of schedules: [schedule, occurrence, created, completed, state, file]

scheduleVars == <<now, table, ticks, jobs>>

-----------------------------------------------------------------------------
(* Loading.  A file is [name, cron, enabled, type, described, needs, inputs],*)
(* `inputs' the set of inputs it supplies, under its stem, a number.        *)

\* Schedule::validate and requires_dispatcher
FileOk(stem, file) ==
  /\ file.name = stem
  /\ Parses(file.cron)
  /\ file.inputs # {} => file.needs >= InputsEpoch
  /\ file.needs <= Epoch
\* target_job_type and validate_against_target
TargetOk(file) ==
  /\ file.type \in DOMAIN JobTypes
  /\ JobTypes[file.type].agent => file.described
  /\ file.inputs \subseteq JobTypes[file.type].declared
  /\ JobTypes[file.type].required \subseteq file.inputs

\* The first SchedulesMax files, and of these the valid ones.
Load(files) ==
  LET admitted == {s \in DOMAIN files : Cardinality({r \in DOMAIN files : r < s}) < SchedulesMax}
  IN Restrict(files, {s \in admitted : FileOk(s, files[s]) /\ TargetOk(files[s])})

\* merge: what is still there keeps its memory, whatever has changed in it.
Merge(old, loaded) ==
  [s \in DOMAIN loaded |->
     IF s \in DOMAIN old
     THEN [old[s] EXCEPT !.file = loaded[s]]
     ELSE [file |-> loaded[s], since |-> now, skipped |-> Never]]

Refreshed(old, files) == Merge(old, Load(files))

-----------------------------------------------------------------------------
(* What is due.                                                             *)

Terminal == {"Done", "Revoked"}
JobsOf(s) == {i \in DOMAIN jobs : jobs[i].schedule = s}

NoJob == [state |-> "none"]
OldestScheduledJob(s) == IF JobsOf(s) = {} THEN NoJob ELSE jobs[Min(JobsOf(s))]
\* By creation, which is the order of `jobs'.
LatestScheduledJob(s) == IF JobsOf(s) = {} THEN NoJob ELSE jobs[Max(JobsOf(s))]

\* An occurrence counts only after this.
Anchor(entry, latest) ==
  IF latest = NoJob THEN entry.since
  ELSE IF latest.state \in Terminal THEN latest.completed
  ELSE latest.created

\* decide_one: nothing, or the occurrence and whether it fires or is skipped.
Decision(tbl, s) ==
  LET entry   == tbl[s]
      latest  == LatestScheduledJob(s)
      verdict == IF latest # NoJob /\ latest.state \notin Terminal THEN "Skip" ELSE "Fire"
      at      == LatestOccurrence(Parsed(entry.file.cron), now, Anchor(entry, latest))
  IN IF \/ ~entry.file.enabled
        \/ at = Never
        \/ verdict = "Skip" /\ entry.skipped = at
     THEN [verdict |-> "nothing"]
     ELSE [occurrence |-> at, verdict |-> verdict]

Decisions(tbl) == [s \in DOMAIN tbl |-> Decision(tbl, s)]
Deciding(decided, verdict) == {s \in DOMAIN decided : decided[s].verdict = verdict}

-----------------------------------------------------------------------------
(* The tick.                                                                *)

Created(tbl, decided, s, state) ==
  [schedule |-> s, occurrence |-> decided[s].occurrence, created |-> now,
   completed |-> Never, state |-> state, file |-> tbl[s].file]

\* fire_schedule ends "Live"; "Frozen" when publishing the creation or the release
\* fails; "none" when nothing could be written.  Which of several due schedules goes
\* first shows in the ids of their jobs only.
Outcomes(decided) == [Deciding(decided, "Fire") -> {"Live", "Frozen", "none"}]
Fired(tbl, decided, outcome) ==
  LET firing == SetToSeq({s \in DOMAIN outcome : outcome[s] # "none"})
  IN jobs \o [i \in DOMAIN firing |-> Created(tbl, decided, firing[i], outcome[firing[i]])]

Skipped(tbl, decided) ==
  [s \in DOMAIN tbl |->
     IF decided[s].verdict = "Skip"
     THEN [tbl[s] EXCEPT !.skipped = decided[s].occurrence]
     ELSE tbl[s]]

NeverDue(count) == FALSE
RefreshDue(count) == count = 0

\* scan_schedules over a table.  A skip that cannot be published ends the scan
\* before anything fires or is noted.
Scan(tbl, decided, outcome) ==
  /\ table' = Skipped(tbl, decided)
  /\ jobs' = Fired(tbl, decided, outcome)
  /\ UNCHANGED now
ScanAborts(tbl, decided) ==
  /\ Deciding(decided, "Skip") # {}
  /\ table' = tbl
  /\ UNCHANGED <<now, jobs>>

-----------------------------------------------------------------------------
(* The jobs and the clock, from outside.                                    *)

\* An operator releases a job whose release failed.
ReleaseByHand(i) ==
  /\ jobs[i].state = "Frozen"
  /\ jobs' = [jobs EXCEPT ![i].state = "Live"]
  /\ UNCHANGED <<now, table, ticks>>

Ends(i, state) ==
  /\ jobs[i].state = "Live" \/ (jobs[i].state = "Frozen" /\ state = "Revoked")
  /\ jobs' = [jobs EXCEPT ![i].state = state, ![i].completed = now]
  /\ UNCHANGED <<now, table, ticks>>

Passes ==
  /\ now' = now + 1
  /\ UNCHANGED <<table, ticks, jobs>>
================================================================================
