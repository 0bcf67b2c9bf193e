------------------------------ MODULE HostTasks ------------------------------
(***************************************************************************)
(* The tasks of one worker node.  A host task is a process group rooted in *)
(* a directory: the launch creates the directory, starts a shell that      *)
(* wraps the command, and writes meta.json; the wrapper writes exit_code   *)
(* when the command returns, and a reaper of the daemon writes it when the *)
(* wrapper never got there.  The directory is all that survives the        *)
(* daemon, and every answer is derived from it.  A container task is the   *)
(* container engine's, which knows it by its labels.                       *)
(*                                                                         *)
(* The module has the state and the operations on it; Worker composes them *)
(* with the launch handler, the self-refresh and the GC roots.             *)
(***************************************************************************)
EXTENDS Integers, FiniteSets

CONSTANTS Plans     \* the nodes to explore (see Worker)

VARIABLES plan,     \* the node under study, fixed by Init
          dir,      \* the task directory, or the container: "none", "there", "gone"
          meta,     \* host tasks whose meta.json is written
          code,     \* exit_code: "none", "own" (the command's) or "lost" (-1)
          command,  \* the command: "none", "runs", "over"
          wrapper,  \* the shell around it: "none", "runs", "writes", "over"
          recycled, \* tasks whose pid belongs to another process by now
          live,     \* HostBackend.live, in the daemon's memory
          reap,     \* the reaper of each task: "none", "waits", "leaves"
          timers    \* tasks whose SIGKILL is pending

taskVars == <<dir, meta, code, command, wrapper, recycled>>
memoryVars == <<live, reap, timers>>
hostVars == <<taskVars, memoryVars>>

Tasks == DOMAIN plan.tasks
Host(t) == plan.tasks[t].host
Stubborn(t) == plan.tasks[t].stubborn       \* ignores SIGTERM
Present(t) == dir[t] = "there"

\* status: the written code, then this daemon's live set, then the pid, which is
\* the task's only while its start time still matches.
ByPidAlone(t) ==
  IF t \in meta /\ (wrapper[t] \in {"runs", "writes"} \/ t \in recycled) THEN "running" ELSE "exited"
ByPid(t) == IF t \in meta /\ wrapper[t] \in {"runs", "writes"} THEN "running" ELSE "exited"
LiveOnly(t) == IF code[t] = "none" /\ t \in live THEN "running" ELSE "exited"
HostStatus(t) == IF code[t] # "none" THEN "exited"
                 ELSE IF t \in live THEN "running" ELSE ByPid(t)

Status(t) ==
  IF ~Present(t) THEN "none"
  ELSE IF Host(t) THEN HostStatus(t)
  ELSE IF command[t] = "runs" THEN "running" ELSE "exited"

HostWork == {t \in Tasks : Host(t) /\ Status(t) = "running"}

-----------------------------------------------------------------------------
(* The processes.                                                           *)

CommandEnds(t) ==
  /\ command[t] = "runs"
  /\ command' = [command EXCEPT ![t] = "over"]
  /\ wrapper' = IF wrapper[t] = "runs" THEN [wrapper EXCEPT ![t] = "writes"] ELSE wrapper
  /\ UNCHANGED <<plan, dir, meta, code, recycled, memoryVars>>

WrapperWrites(t) ==
  /\ wrapper[t] = "writes"
  /\ wrapper' = [wrapper EXCEPT ![t] = "over"]
  /\ code' = IF Present(t) THEN [code EXCEPT ![t] = "own"] ELSE code
  /\ UNCHANGED <<plan, dir, meta, command, recycled, memoryVars>>

\* The system gives the pid of a dead wrapper to another process.
Recycle(t) ==
  /\ plan.recycles /\ wrapper[t] = "over" /\ reap[t] # "waits" /\ t \notin recycled
  /\ recycled' = recycled \cup {t}
  /\ UNCHANGED <<plan, dir, meta, code, command, wrapper, memoryVars>>

\* spawn_reaper: after the wrapper is gone the code is written if nobody wrote
\* it, and only then the task leaves the live set.
ReaperWrites(t) ==
  /\ reap[t] = "waits" /\ wrapper[t] = "over"
  /\ reap' = [reap EXCEPT ![t] = "leaves"]
  /\ code' = IF Present(t) /\ code[t] = "none" THEN [code EXCEPT ![t] = "lost"] ELSE code
  /\ UNCHANGED <<plan, dir, meta, command, wrapper, recycled, live, timers>>

ReaperLeaves(t) ==
  /\ reap[t] = "leaves"
  /\ reap' = [reap EXCEPT ![t] = "none"]
  /\ live' = live \ {t}
  /\ UNCHANGED <<plan, taskVars, timers>>

-----------------------------------------------------------------------------
(* HostBackend.launch, under its mutex: admission and the directories, the   *)
(* process, its meta.json.                                                  *)

AdmitsByLive == \A t \in live : ~Host(t)
Admits == HostWork = {}
CreateDir(t) ==
  /\ dir' = [dir EXCEPT ![t] = "there"]
  /\ UNCHANGED <<plan, meta, code, command, wrapper, recycled, memoryVars>>

\* spawn_task; a directory that was removed meanwhile, or a file that cannot be
\* written into it, starts nothing.
Spawns(t) == Present(t) /\ t \notin plan.broken
Spawn(t) ==
  /\ Spawns(t)
  /\ command' = [command EXCEPT ![t] = "runs"]
  /\ wrapper' = [wrapper EXCEPT ![t] = "runs"]
  /\ UNCHANGED <<plan, dir, meta, code, recycled, memoryVars>>

WriteMeta(t) ==
  /\ Present(t)
  /\ meta' = meta \cup {t}
  /\ live' = live \cup {t}
  /\ reap' = [reap EXCEPT ![t] = "waits"]
  /\ UNCHANGED <<plan, dir, code, command, wrapper, recycled, timers>>

\* A container starts in one call, under its labels.
StartContainer(t) ==
  /\ dir' = [dir EXCEPT ![t] = "there"]
  /\ command' = [command EXCEPT ![t] = "runs"]
  /\ UNCHANGED <<plan, meta, code, wrapper, recycled, memoryVars>>

-----------------------------------------------------------------------------
(* kill and remove.                                                         *)

\* SIGTERM to the process group: the shell has no trap and dies of it, whatever
\* the command does.  SIGKILL follows unless a code is written by then.
Kill(t) ==
  /\ Present(t)
  /\ IF Host(t)
     THEN /\ t \in meta /\ code[t] = "none"
          /\ command' = IF Stubborn(t) THEN command ELSE [command EXCEPT ![t] = "over"]
          /\ wrapper' = [wrapper EXCEPT ![t] = "over"]
          /\ timers' = timers \cup {t}
     ELSE /\ command' = [command EXCEPT ![t] = "over"]
          /\ UNCHANGED <<wrapper, timers>>
  /\ UNCHANGED <<plan, dir, meta, code, recycled, live, reap>>

Escalate(t) ==
  /\ t \in timers
  /\ timers' = timers \ {t}
  /\ IF Present(t) /\ code[t] # "none"
     THEN UNCHANGED <<command, wrapper>>
     ELSE /\ command' = [command EXCEPT ![t] = "over"]
          /\ wrapper' = [wrapper EXCEPT ![t] = "over"]
  /\ UNCHANGED <<plan, dir, meta, code, recycled, live, reap>>

\* The tree is renamed away before it is deleted, so late writers miss it.
Detach(t) ==
  /\ dir' = [dir EXCEPT ![t] = IF @ = "there" THEN "gone" ELSE @]
  /\ UNCHANGED <<plan, meta, code, command, wrapper, recycled, memoryVars>>

\* The daemon ends: its memory is lost.  Host tasks live on in scopes of their
\* own, or die with the daemon's where the node has no scopes.
Dies(t) == Host(t) /\ ~plan.scoped /\ wrapper[t] # "none"
DaemonEnds ==
  /\ live' = {} /\ timers' = {}
  /\ reap' = [t \in Tasks |-> "none"]
  /\ command' = [t \in Tasks |-> IF Dies(t) THEN "over" ELSE command[t]]
  /\ wrapper' = [t \in Tasks |-> IF Dies(t) THEN "over" ELSE wrapper[t]]
  /\ UNCHANGED <<plan, dir, meta, code, recycled>>

HostInit ==
  /\ plan \in Plans
  /\ dir = [t \in Tasks |-> "none"]
  /\ meta = {}
  /\ code = [t \in Tasks |-> "none"]
  /\ command = [t \in Tasks |-> "none"]
  /\ wrapper = [t \in Tasks |-> "none"]
  /\ recycled = {}
  /\ live = {}
  /\ reap = [t \in Tasks |-> "none"]
  /\ timers = {}
=============================================================================
