-------------------------------- MODULE Fleet --------------------------------
(***************************************************************************)
(* Placing containers on the fleet.  A launch is decided on the actor; a   *)
(* command's placement is awaited there, an agent's runs on a task of its  *)
(* own.  Placement holds one lock while it asks every node for its load,   *)
(* chooses, and reserves; the launch RPC follows outside the lock.  A      *)
(* launch that finds no slot is parked as Pending in the launch queue,     *)
(* which the actor drains after every message.                             *)
(*                                                                         *)
(* A task stands for one launch of one job of its own.  What its end means *)
(* for the job is Execution's subject; here a task ends "done" or          *)
(* "failed" and is never launched again, except the publish command, which *)
(* a restart launches anew.                                                *)
(***************************************************************************)
EXTENDS NodeCapacity, Queues, SequencesExt

VARIABLES task,      \* the record: state, container (the node it runs on)
          queue,     \* launch_queue
          joined,    \* the tasks in the order of their queued_at
          late,      \* tasks whose wait is over launch_queue_max_wait
          boxes,     \* the containers each node runs
          watch,     \* tasks whose exit somebody waits for
          place,     \* the placements under way
          lock,      \* place_lock: a task, or Free
          reserved,  \* FleetNode.reserved
          turn,      \* what the actor is doing
          msgs,      \* messages of launches and containers to the actor
          crashes

launchVars == <<task, queue, joined, late, boxes, watch, place, lock, reserved,
                turn, msgs, crashes>>
vars == <<capVars, launchVars>>

Tasks == DOMAIN plan.tasks
Phase(t) == plan.tasks[t].phase             \* "work", "eval" or "wrapup"
Agent(t) == plan.tasks[t].agent
Pin(t) == plan.tasks[t].pin                 \* a node, or Nowhere
Nowhere == 0
Free == 0
Serves(n, t) == n \in plan.tasks[t].able    \* mode, environment and limits
Class(t) == IF Phase(t) = "work" THEN 2 ELSE 1
Queued(t) == Contains(queue, t)

NoLoad == [running |-> -1, free |-> 0]
NoPlace == [stage |-> "none", todo |-> {}, reply |-> <<>>, loads |-> <<>>,
            node |-> Nowhere, result |-> "none"]
Back(result) == [NoPlace EXCEPT !.stage = "back", !.result = result]
Idle == [kind |-> "idle", task |-> Free, resumed |-> FALSE, left |-> 0]
Draining(left) == [Idle EXCEPT !.kind = IF left = 0 THEN "idle" ELSE "drain", !.left = left]
Placing(t, resumed, left) == [kind |-> "place", task |-> t, resumed |-> resumed, left |-> left]
Listening == turn.kind = "idle"
\* Every message is followed by one pass over the queue it leaves behind.
ThenDrain == turn' = Draining(Len(queue'))

-----------------------------------------------------------------------------
(* The queue.                                                               *)

\* Finishing launches go before the first work launch; a launch goes to the end
\* otherwise.
EnqueueLast(q, t) == Append(q, t)
Enqueue(q, t) == InsertBefore(q, {u \in Tasks : Class(u) > Class(t)}, t)

\* defer_launch: parked as Pending, with the queued_at of the first time.
Defer(t) ==
  /\ task' = [task EXCEPT ![t] = [state |-> "pending", at |-> Nowhere]]
  /\ queue' = Enqueue(queue, t)
  /\ joined' = IF Contains(joined, t) THEN joined ELSE Append(joined, t)

\* expire_queued_launch: the task fails and the job escalates.
ExpireAll(ts) ==
  task' = [t \in Tasks |-> IF t \in ts /\ task[t].state = "pending"
                           THEN [state |-> "failed", at |-> Nowhere] ELSE task[t]]

\* The wait runs from the first queued_at, whatever happens in between.
Outwait(t) ==
  /\ plan.impatient /\ t \notin late /\ Contains(joined, t)
  /\ task[t].state \in {"pending", "running"} /\ task[t].at = Nowhere
  /\ late' = late \cup {t}
  /\ UNCHANGED <<capVars, task, queue, joined, boxes, watch, place, lock, reserved,
                 turn, msgs, crashes>>

-----------------------------------------------------------------------------
(* Placement.                                                               *)

StartPlacing(t) == place' = [place EXCEPT ![t] = [NoPlace EXCEPT !.stage = "wait"]]
placeRest == <<task, queue, joined, late, turn, msgs, crashes>>

\* The lock is taken and the node list is snapshotted.
TakeLock(t) ==
  /\ place[t].stage = "wait" /\ lock = Free
  /\ lock' = t
  /\ place' = [place EXCEPT ![t].stage = "probe",
                            ![t].todo = {n \in Nodes : Joined(n)},
                            ![t].loads = [n \in Nodes |-> NoLoad]]
  /\ UNCHANGED <<capVars, placeRest, boxes, watch, reserved>>

Next1(t) == CHOOSE n \in place[t].todo : \A m \in place[t].todo : n <= m
Probed(t, n, load) == [place EXCEPT ![t].todo = @ \ {n}, ![t].reply = <<>>,
                                    ![t].loads = [@ EXCEPT ![n] = load]]
Running(n) == Cardinality(boxes[n])

\* A worker that is not schedulable is skipped without an RPC; one that does not
\* answer is out of service.  A docker endpoint that does not answer fails the
\* whole placement.
SkipNode(t) ==
  /\ place[t].stage = "probe" /\ place[t].todo # {} /\ place[t].reply = <<>>
  /\ LET n == Next1(t)
         asked == Worker(n) => fleet[n].sched
     IN /\ asked => ~cell[n].up
        /\ IF Worker(n)
           THEN /\ place' = Probed(t, n, NoLoad)
                /\ fleet' = IF asked THEN [fleet EXCEPT ![n].serving = FALSE] ELSE fleet
                /\ UNCHANGED lock
           ELSE /\ place' = [place EXCEPT ![t] = Back("error")]
                /\ lock' = Free
                /\ UNCHANGED fleet
  /\ UNCHANGED <<plan, daemonVars, luck, announces, roster, heard, operatorVars, ledgerVars,
                 placeRest, boxes, watch, reserved>>

\* The node counts its containers and answers.
Ping(t) ==
  /\ place[t].stage = "probe" /\ place[t].todo # {} /\ place[t].reply = <<>>
  /\ LET n == Next1(t)
     IN /\ cell[n].up /\ (Worker(n) => fleet[n].sched)
        /\ place' = [place EXCEPT ![t].reply =
                       <<[slots |-> cell[n].slots, mark |-> Mark(n), running |-> Running(n)]>>]
  /\ UNCHANGED <<capVars, placeRest, boxes, watch, lock, reserved>>

\* The reply arrives: the observation is taken unconditionally, and only now are
\* the reservations read.
ReadLoad(t) ==
  /\ place[t].stage = "probe" /\ place[t].reply # <<>>
  /\ LET n == Next1(t)
         r == place[t].reply[1]
     IN /\ place' = Probed(t, n, [running |-> r.running + reserved[n],
                                  free |-> r.slots - r.running - reserved[n]])
        /\ fleet' = IF Worker(n)
                    THEN [fleet EXCEPT ![n] = [Ingest(@, r.slots, r.mark, TRUE)
                                                 EXCEPT !.serving = TRUE]]
                    ELSE fleet
  /\ UNCHANGED <<plan, daemonVars, luck, announces, roster, heard, operatorVars, ledgerVars,
                 placeRest, boxes, watch, lock, reserved>>

Live(t) == {n \in Nodes : place[t].loads[n] # NoLoad}
HasAnyRoom(t, n) == place[t].loads[n].free >= 0
HasRoom(t, n) == place[t].loads[n].free > 0

\* PLACEMENT_POLICY=busyness: fewest running, then most free, then the name.
Busier(a, b) == \/ a.running > b.running
                \/ a.running = b.running /\ a.free < b.free
Preferred(t, n, m) ==
  LET a == place[t].loads[n]
      b == place[t].loads[m]
  IN Busier(b, a) \/ (a = b /\ n <= m)

\* choose_placement: a pin never falls back; a fleet nobody of which serves the
\* launch is a full one.
Misplaced(t) ==
  LET p == Pin(t)
  IN p # Nowhere /\ (~Joined(p) \/ (p \in Live(t) /\ ~Serves(p, t)))
Candidates(t) ==
  {n \in Live(t) : Serves(n, t) /\ HasRoom(t, n) /\ Pin(t) \in {Nowhere, n}}

Choose(t) ==
  /\ place[t].stage = "probe" /\ place[t].todo = {}
  /\ \/ /\ Misplaced(t)
        /\ place' = [place EXCEPT ![t] = Back("error")]
        /\ UNCHANGED reserved
     \/ /\ ~Misplaced(t) /\ Candidates(t) = {}
        /\ place' = [place EXCEPT ![t] = Back("full")]
        /\ UNCHANGED reserved
     \/ /\ ~Misplaced(t)
        /\ \E n \in Candidates(t) :
             /\ \A m \in Candidates(t) : Preferred(t, n, m)
             /\ place' = [place EXCEPT ![t] = [NoPlace EXCEPT !.stage = "launch", !.node = n]]
             /\ reserved' = [reserved EXCEPT ![n] = @ + 1]
  /\ lock' = Free
  /\ UNCHANGED <<capVars, placeRest, boxes, watch>>

\* The launch RPC at the node.  A refreshing daemon answers NoCapacity; a reply
\* may be lost after the container started.
Outcomes(t, n) ==
  IF ~cell[n].up THEN {"error"}
  ELSE {"ok"} \cup (plan.faults \cap {"full"})
              \cup (IF t \in plan.fragile THEN {"error"} ELSE {})
              \cup (IF "lost" \in plan.faults /\ luck > 0 THEN {"lost"} ELSE {})

LaunchRpc(t) ==
  /\ place[t].stage = "launch"
  /\ LET n == place[t].node
     IN \E how \in Outcomes(t, n) :
          /\ boxes' = IF how \in {"ok", "lost"} THEN [boxes EXCEPT ![n] = @ \cup {t}] ELSE boxes
          /\ luck' = IF how = "lost" THEN luck - 1 ELSE luck
          /\ place' = [place EXCEPT ![t].stage = "back",
                                    ![t].result = IF how = "lost" THEN "error" ELSE how]
  /\ UNCHANGED <<plan, daemonVars, announces, viewVars, operatorVars, ledgerVars,
                 placeRest, watch, lock, reserved>>

Release(t) ==
  /\ place' = [place EXCEPT ![t] = NoPlace]
  /\ reserved' = IF place[t].node = Nowhere THEN reserved
                 ELSE [reserved EXCEPT ![place[t].node] = @ - 1]

Say(what, t) == msgs' = msgs \cup {<<what, t>>}

\* The launch returns to an agent's run, which reports to the actor.
AgentPlaced(t) ==
  /\ place[t].stage = "back" /\ Agent(t)
  /\ Release(t)
  /\ CASE place[t].result = "ok"    -> /\ msgs' = msgs \cup {<<"started", t, place[t].node>>}
                                       /\ watch' = watch \cup {t}
       [] place[t].result = "full"  -> Say("deferred", t) /\ UNCHANGED watch
       [] place[t].result = "error" -> Say("unlaunched", t) /\ UNCHANGED watch
  /\ UNCHANGED <<capVars, task, queue, joined, late, boxes, lock, turn, crashes>>

\* It returns to the actor, which waited for it: the first launch of a command
\* (place_or_defer_launch) or one resumed from the queue (launch_resumed).
Dropped(t) == queue
Requeued(t) == Enqueue(queue, t)
CommandPlaced ==
  /\ turn.kind = "place" /\ place[turn.task].stage = "back"
  /\ LET t == turn.task
     IN /\ Release(t)
        /\ CASE place[t].result = "ok" ->
                  /\ task' = [task EXCEPT ![t] = [state |-> "running", at |-> place[t].node]]
                  /\ watch' = watch \cup {t}
                  /\ joined' = Retain(joined, Tasks \ {t})
                  /\ late' = late \ {t}
                  /\ UNCHANGED <<queue, msgs>>
             [] place[t].result = "full" ->
                  /\ IF turn.resumed
                     THEN /\ queue' = Requeued(t)
                          /\ UNCHANGED <<task, joined>>
                     ELSE Defer(t)
                  /\ UNCHANGED <<watch, late, msgs>>
             [] place[t].result = "error" ->
                  /\ Say("unlaunched", t)
                  /\ UNCHANGED <<task, queue, joined, late, watch>>
        /\ turn' = IF ~turn.resumed THEN Draining(Len(queue'))
                   ELSE IF place[t].result = "full" THEN Idle
                   ELSE Draining(turn.left)
  /\ UNCHANGED <<capVars, boxes, lock, crashes>>

-----------------------------------------------------------------------------
(* The actor.                                                               *)

\* A handler decides a launch: an agent's runs on its own, a command's is
\* awaited.
Begin(t) ==
  /\ Listening /\ task[t].state = "new"
  /\ task' = [task EXCEPT ![t] = [state |-> "running", at |-> Nowhere]]
  /\ StartPlacing(t)
  /\ UNCHANGED queue
  /\ IF Agent(t) THEN ThenDrain ELSE turn' = Placing(t, FALSE, 0)
  /\ UNCHANGED <<capVars, joined, late, boxes, watch, lock, reserved, msgs, crashes>>

\* One entry of a drain.  An entry that outwaited the queue expires when it is
\* reached, and not only when the scan sees it.
OverdueIgnored(t) == FALSE
Overdue(t) == t \in late

DrainOne ==
  /\ turn.kind = "drain"
  /\ LET t == Head(queue)
         pending == task[t].state = "pending"
     IN /\ queue' = Tail(queue)
        /\ CASE Overdue(t) ->
                  /\ ExpireAll({t})
                  /\ turn' = Draining(turn.left - 1)
                  /\ UNCHANGED place
             [] ~Overdue(t) /\ ~pending ->
                  /\ turn' = Draining(turn.left - 1)
                  /\ UNCHANGED <<task, place>>
             [] ~Overdue(t) /\ pending /\ Agent(t) ->
                  /\ task' = [task EXCEPT ![t].state = "running"]
                  /\ StartPlacing(t)
                  /\ turn' = Idle
             [] ~Overdue(t) /\ pending /\ ~Agent(t) ->
                  /\ StartPlacing(t)
                  /\ turn' = Placing(t, TRUE, turn.left - 1)
                  /\ UNCHANGED task
  /\ UNCHANGED <<capVars, joined, late, boxes, watch, lock, reserved, msgs, crashes>>

handled == <<joined, late, boxes, place, lock, reserved, crashes>>

\* TaskExited: a container ended, or a launch failed.  An exit is acted on while
\* the task is Running; an evaluator's also while it is Pending, because its
\* round only asks whether the slot is open.
Accepts(t) == task[t].state = "running" \/ (task[t].state = "pending" /\ Phase(t) = "eval")
Over(t, what) == [state |-> IF what = "exit" THEN "done" ELSE "failed", at |-> Nowhere]
HandleExit(t, what) ==
  /\ Listening /\ <<what, t>> \in msgs
  /\ msgs' = msgs \ {<<what, t>>}
  /\ task' = IF Accepts(t) THEN [task EXCEPT ![t] = Over(t, what)] ELSE task
  /\ watch' = watch \ {t}
  /\ UNCHANGED queue /\ ThenDrain
  /\ UNCHANGED <<capVars, handled>>

\* TaskContainerStarted records the id, whatever became of the task.
HandleStarted(t, n) ==
  /\ Listening /\ <<"started", t, n>> \in msgs
  /\ msgs' = msgs \ {<<"started", t, n>>}
  /\ task' = IF task[t].at = Nowhere THEN [task EXCEPT ![t].at = n] ELSE task
  /\ UNCHANGED <<queue, watch>> /\ ThenDrain
  /\ UNCHANGED <<capVars, handled>>

\* LaunchDeferred: parked unless the task ended meanwhile.
HandleDeferred(t) ==
  /\ Listening /\ <<"deferred", t>> \in msgs
  /\ msgs' = msgs \ {<<"deferred", t>>}
  /\ IF task[t].state = "running" THEN Defer(t) ELSE UNCHANGED <<task, queue, joined>>
  /\ ThenDrain
  /\ UNCHANGED <<capVars, watch, late, boxes, place, lock, reserved, crashes>>

\* A message of the capacity protocol.
HandleCapacity ==
  /\ Listening
  /\ \/ \E a \in announces : HearAnnounce(a)
     \/ \E p \in pushes : CapacityPushed(p)
     \/ \E n \in Nodes, s \in plan.sizes : SetNodeCapacity(n, s)
  /\ UNCHANGED queue /\ ThenDrain
  /\ UNCHANGED <<task, msgs, watch, handled>>

\* The scan: overdue entries, heartbeats, intent.
Scan ==
  /\ Listening
  /\ CapacityScan
  /\ LET overdue == {t \in late : Queued(t)}
     IN /\ ExpireAll(overdue)
        /\ queue' = Retain(queue, Tasks \ overdue)
  /\ ThenDrain
  /\ UNCHANGED <<msgs, watch, handled>>

\* The job is revoked: its task is failed and its container killed.
Revoke(t) ==
  /\ Listening /\ t \in plan.revocable /\ task[t].state \in {"running", "pending"}
  /\ task' = [task EXCEPT ![t] = [state |-> "failed", at |-> Nowhere]]
  /\ boxes' = IF task[t].at = Nowhere THEN boxes
              ELSE [boxes EXCEPT ![task[t].at] = @ \ {t}]
  /\ UNCHANGED queue /\ ThenDrain
  /\ UNCHANGED <<capVars, joined, late, watch, place, lock, reserved, msgs, crashes>>

-----------------------------------------------------------------------------
(* The nodes, and the end of the dispatcher.                                *)

\* A container ends and the node tells; whoever waits for it reports the exit.
\* One that ends before its launch returned is reported right after that.
BoxEnds(t, n) ==
  /\ t \in boxes[n] /\ t \notin plan.endless
  /\ cell[n].up /\ place[t].stage # "back"
  /\ boxes' = [boxes EXCEPT ![n] = @ \ {t}]
  /\ IF t \in watch THEN Say("exit", t) ELSE UNCHANGED msgs
  /\ UNCHANGED <<capVars, task, queue, joined, late, watch, place, lock, reserved,
                 turn, crashes>>

\* What a restart makes of a task (recover_work, recover_evaluation,
\* recover_wrapup_command): a queued launch stays queued, a container that
\* still runs is watched again, anything else is over.
Alive(t) == task[t].at # Nowhere /\ cell[task[t].at].up /\ t \in boxes[task[t].at]
Recovered(t) ==
  CASE task[t].state = "running" /\ Alive(t) -> task[t]
    [] task[t].state \in {"running", "pending"} /\ ~Alive(t) /\ Phase(t) = "wrapup" ->
         [state |-> "new", at |-> Nowhere]
    [] task[t].state = "running" /\ ~Alive(t) /\ Phase(t) # "wrapup" ->
         [state |-> "failed", at |-> Nowhere]
    [] OTHER -> task[t]

\* The queue is rebuilt and sorted by queued_at; containers no live task owns
\* are killed on the nodes that answer.  A launch on the wire may still happen.
Restart ==
  /\ crashes < plan.crashes /\ CapacityRestart
  /\ crashes' = crashes + 1
  /\ task' = [t \in Tasks |-> Recovered(t)]
  /\ queue' = Retain(joined, {t \in Tasks : task'[t].state = "pending"})
  /\ joined' = queue'
  /\ late' = {t \in late : Contains(queue', t)}
  /\ \E ghosts \in SUBSET {t \in Tasks : place[t].stage = "launch" /\ cell[place[t].node].up} :
       boxes' = [n \in Nodes |->
                   {t \in boxes[n] : task'[t].state = "running" \/ ~cell[n].up}
                   \cup {t \in ghosts : place[t].node = n}]
  /\ watch' = {t \in Tasks : task'[t].state = "running"}
  /\ place' = [t \in Tasks |-> NoPlace]
  /\ lock' = Free
  /\ reserved' = [n \in Nodes |-> 0]
  /\ msgs' = {}
  /\ ThenDrain

-----------------------------------------------------------------------------
Init ==
  /\ CapacityInit
  /\ task = [t \in Tasks |-> [state |-> "new", at |-> Nowhere]]
  /\ queue = <<>>
  /\ joined = <<>>
  /\ late = {}
  /\ boxes = [n \in Nodes |-> {}]
  /\ watch = {}
  /\ place = [t \in Tasks |-> NoPlace]
  /\ lock = Free
  /\ reserved = [n \in Nodes |-> 0]
  /\ turn = Idle
  /\ msgs = {}
  /\ crashes = 0

Daemons ==
  \/ \E n \in Nodes : StartDaemon(n) \/ StopDaemon(n) \/ DockerReturns(n) \/ Announce(n) \/ Lapse(n)
  \/ \E a \in announces : LoseAnnounce(a)
  \/ \E p \in pushes : SetSlots(p) \/ PushFails(p)
Wire == Daemons /\ UNCHANGED launchVars

Placement(t) ==
  TakeLock(t) \/ SkipNode(t) \/ Ping(t) \/ ReadLoad(t) \/ Choose(t) \/ LaunchRpc(t) \/ AgentPlaced(t)

Handle(t) ==
  \/ \E what \in {"exit", "unlaunched"} : HandleExit(t, what)
  \/ \E n \in Nodes : HandleStarted(t, n)
  \/ HandleDeferred(t)

Next ==
  \/ Wire
  \/ \E t \in Tasks : Placement(t) \/ Begin(t) \/ Handle(t) \/ Outwait(t) \/ Revoke(t)
  \/ \E t \in Tasks, n \in Nodes : BoxEnds(t, n)
  \/ CommandPlaced \/ DrainOne \/ HandleCapacity \/ Scan \/ Restart

Spec == Init /\ [][Next]_vars

\* The actor takes its messages in order and every turn of it ends, so each
\* message is handled in the end although it is often busy; the scan comes back
\* with the ticker.  Announces repeat, RPCs answer or time out, a wait grows.
\* Daemons need not come back, and a container may run for ever.
AllTasks == UNION {DOMAIN p.tasks : p \in Plans}
AllWorkers == UNION {p.nodes \ p.docker : p \in Plans}
Hear(n) == \E a \in announces : a.node = n /\ HearAnnounce(a)
Answer(n) == \E p \in pushes : p.node = n /\ CapacityPushed(p)
Serve(n) == \E p \in pushes : p.node = n /\ (SetSlots(p) \/ PushFails(p))
OnTurn(A) == HandleCapacity /\ A
FairSpec ==
  /\ Spec
  /\ WF_vars(CommandPlaced) /\ WF_vars(DrainOne) /\ SF_vars(Scan)
  /\ WF_vars(\E t \in Tasks : Outwait(t))
  /\ \A t \in AllTasks : SF_vars(t \in Tasks /\ (Placement(t) \/ Handle(t)))
  /\ \A n \in AllWorkers : /\ WF_vars(n \in Nodes /\ Announce(n) /\ UNCHANGED launchVars)
                           /\ WF_vars(n \in Nodes /\ Serve(n) /\ UNCHANGED launchVars)
                           /\ SF_vars(n \in Nodes /\ OnTurn(Hear(n)))
                           /\ SF_vars(n \in Nodes /\ OnTurn(Answer(n)))

-----------------------------------------------------------------------------
(* Properties.                                                              *)

\* The watermark means what it says: an observation that carries the daemon's
\* current mark carries its current number, and none is ahead of the daemon
\* (Capacity::set_slots moves the generation with every adoption, and one lock
\* covers the pair).
WatermarkIsHonest ==
  \A n \in Nodes : Worker(n) /\ fleet[n].seen =>
    /\ AtLeast(Mark(n), fleet[n].mark)
    /\ fleet[n].mark = Mark(n) => fleet[n].slots = cell[n].slots

\* A parked launch is never forgotten: while a task is Pending it is queued
\* exactly once, or the actor has it in hand, or its failure is on the way to
\* the actor.
InHand(t) == turn.kind = "place" /\ turn.task = t
Entries(t) == Cardinality({i \in DOMAIN queue : queue[i] = t})
PendingIsHeld ==
  \A t \in Tasks : task[t].state = "pending" =>
    Entries(t) + (IF InHand(t) THEN 1 ELSE 0)
               + (IF <<"unlaunched", t>> \in msgs THEN 1 ELSE 0) = 1

\* Finishing launches are ahead of work in the queue, in whatever order they were
\* parked, taken and parked again (Core::enqueue_launch).  Reconciliation sorts by
\* age alone, so the property is about the time before a restart.
QueueIsClassed ==
  crashes = 0 => \A i, j \in DOMAIN queue :
    i < j => Class(queue[i]) <= Class(queue[j])

\* Commands are placed one at a time by the actor, so where agents do not
\* compete with them, and nobody lowers a node's number under the containers it
\* runs, no node is given more than its slots.
Steady == plan.asks = 0 /\ \A n \in Nodes : \A b, c \in plan.boots[n] : b = c
CommandsFit ==
  (\A t \in Tasks : ~Agent(t)) /\ Steady =>
    \A n \in Nodes : Running(n) <= cell[n].slots

\* A parked launch does not wait for ever: once it outwaited the queue it gets its
\* container or fails, also an agent's that is tried again and again and is never in
\* the queue when the scan looks (expire_queued_launch).
Waiting(t) ==
  Contains(joined, t) /\ task[t].at = Nowhere /\ task[t].state \in {"running", "pending"}
ParkedMovesOn == []<>(\A t \in late : ~Waiting(t))

\* The fleet comes to rest on what is true: a daemon that stays up is
\* schedulable under the number it has, and that number is the operator's
\* unless the node refuses it.
Agreed(n) ==
  /\ Joined(n) /\ fleet[n].sched /\ fleet[n].slots = cell[n].slots /\ roster[n] = "up"
  /\ intent[n] # Silent /\ intent[n] <= plan.ceil[n] => cell[n].slots = intent[n]
FleetConverges == <>[](\A n \in Nodes : Worker(n) /\ cell[n].up => Agreed(n))
=============================================================================
