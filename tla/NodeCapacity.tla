---------------------------- MODULE NodeCapacity ----------------------------
(***************************************************************************)
(* One number per node: how many containers it runs at a time.  The worker *)
(* daemon owns it (the cell of worker/src/capacity.rs) and reports it over *)
(* two transports, an announce that may be lost or overtaken and the reply *)
(* to a ping.  The dispatcher keeps the last observation it accepted, the  *)
(* operator's intent, and a ledger of what it pushed to the node; the scan *)
(* re-asserts the intent until the node reports it.                        *)
(*                                                                         *)
(* The module has the state and the operations.  Fleet composes them with  *)
(* placement and the launch queue, because every handler of the dispatcher *)
(* runs on one actor and is followed by a drain of that queue.             *)
(***************************************************************************)
EXTENDS Integers, FiniteSets

CONSTANTS Plans,    \* the fleets to explore (see Fleet)
          MaxGen    \* bound: generations one daemon may count up to

ASSUME MaxGenAssumption == MaxGen \in Nat

\* A fleet has numbered nodes; each has a ceiling and numbers it may boot with.
ASSUME PlansAssumption ==
  \A p \in Plans :
    /\ p.nodes \in SUBSET (Nat \ {0})
    /\ p.asks \in Nat
    /\ \A n \in p.nodes : /\ p.ceil[n] \in Nat
                          /\ p.boots[n] \in SUBSET Nat /\ p.boots[n] # {}

VARIABLES plan,       \* the fleet under study, fixed by Init
          cell,       \* the daemons: up, slots, epoch and generation
          starts,     \* daemon starts so far, which is also the clock of the epochs
          luck,       \* faults still to come: lost messages and replies
          announces,  \* announces on the wire
          fleet,      \* FleetBackend.nodes: what was observed of each node
          roster,     \* Core.fleet_roster: "absent", "up" or "down"
          heard,      \* announced_workers: "never", "fresh" or "stale"
          asks,       \* operator requests so far
          intent,     \* the persisted ask per node
          ledger,     \* capacity_pushes: what was pushed, and the answer
          pushes      \* set_slots requests and replies on the wire

daemonVars == <<cell, starts>>
ledgerVars == <<ledger, pushes>>
operatorVars == <<asks, intent>>
viewVars == <<fleet, roster, heard>>
capVars == <<plan, cell, starts, luck, announces, fleet, roster, heard,
             asks, intent, ledger, pushes>>

Nodes == plan.nodes
Worker(n) == n \notin plan.docker
Silent == -1                          \* no ask, no push, no report
AtLeast(m, w) == m[1] > w[1] \/ (m[1] = w[1] /\ m[2] >= w[2])
Mark(n) == <<cell[n].epoch, cell[n].gen>>
Report(n) == [node |-> n, slots |-> cell[n].slots, mark |-> Mark(n)]

Unknown == [slots |-> Silent, mark |-> <<0, 0>>, seen |-> FALSE,
            sched |-> FALSE, serving |-> FALSE]
Joined(n) == fleet[n] # Unknown
NewNode(slots) == [slots |-> slots, mark |-> <<0, 0>>, seen |-> FALSE,
                   sched |-> TRUE, serving |-> TRUE]
NotPushed == [slots |-> Silent, flying |-> FALSE, refused |-> FALSE]

-----------------------------------------------------------------------------
(* The daemon.                                                              *)

\* WORKER_SLOTS is clamped to the ceiling; the epoch is the node's own clock.
Clamped(n, b) == IF b < plan.ceil[n] THEN b ELSE plan.ceil[n]
StartDaemon(n) ==
  /\ Worker(n) /\ ~cell[n].up /\ starts < plan.starts
  /\ starts' = starts + 1
  /\ \E b \in plan.boots[n] :
       cell' = [cell EXCEPT ![n] = [up |-> TRUE, epoch |-> starts + 2, gen |-> 0,
                                    slots |-> Clamped(n, b)]]
  /\ UNCHANGED <<plan, luck, announces, viewVars, operatorVars, ledgerVars>>

StopDaemon(n) ==
  /\ cell[n].up /\ starts < plan.starts
  /\ cell' = [cell EXCEPT ![n].up = FALSE]
  /\ UNCHANGED <<plan, starts, luck, announces, viewVars, operatorVars, ledgerVars>>

\* The endpoint of a docker node comes and goes too; it counts as a start.
DockerReturns(n) ==
  /\ ~Worker(n) /\ ~cell[n].up
  /\ cell' = [cell EXCEPT ![n].up = TRUE]
  /\ starts' = starts + 1
  /\ UNCHANGED <<plan, luck, announces, viewVars, operatorVars, ledgerVars>>

Announce(n) ==
  /\ Worker(n) /\ cell[n].up
  /\ Report(n) \notin announces /\ Cardinality(announces) < plan.wire
  /\ announces' = announces \cup {Report(n)}
  /\ UNCHANGED <<plan, daemonVars, luck, viewVars, operatorVars, ledgerVars>>

LoseAnnounce(a) ==
  /\ a \in announces /\ luck > 0
  /\ announces' = announces \ {a}
  /\ luck' = luck - 1
  /\ UNCHANGED <<plan, daemonVars, viewVars, operatorVars, ledgerVars>>

\* What an adoption leaves in the cell: the generation moves with every one.
\* At MaxGen a re-push of the number in force stops counting.
AdoptQuietly(n, slots) == [cell[n] EXCEPT !.slots = slots]
Adopt(n, slots) ==
  [cell[n] EXCEPT !.slots = slots,
                  !.gen = IF @ = MaxGen THEN @ ELSE @ + 1]

Refuses(p) == p.slots > plan.ceil[p.node]

\* set_slots at the daemon: refuse above the ceiling, else adopt and announce
\* at once (announce_now; the announce itself may still be lost).
SetSlots(p) ==
  /\ p \in pushes /\ p.answer = "none" /\ cell[p.node].up
  /\ cell[p.node].gen < MaxGen \/ cell[p.node].slots = p.slots
  /\ LET n == p.node
         refuses == Refuses(p)
     IN /\ cell' = IF refuses THEN cell ELSE [cell EXCEPT ![n] = Adopt(n, p.slots)]
        /\ announces' = IF refuses THEN announces ELSE
                        announces \cup {[node |-> n, slots |-> cell'[n].slots,
                                         mark |-> <<cell'[n].epoch, cell'[n].gen>>]}
        /\ \E lost \in {FALSE} \cup (IF luck > 0 THEN {TRUE} ELSE {}) :
             /\ luck' = IF lost THEN luck - 1 ELSE luck
             /\ pushes' = (pushes \ {p}) \cup
                  IF p.orphan THEN {}
                  ELSE {[p EXCEPT !.answer = IF lost THEN "failed"
                                             ELSE IF refuses THEN "refused" ELSE "accepted"]}
  /\ UNCHANGED <<plan, starts, viewVars, operatorVars, ledger>>

\* The request never arrives: nobody serves it, or it is lost.
PushFails(p) ==
  /\ p \in pushes /\ p.answer = "none"
  /\ ~cell[p.node].up \/ luck > 0
  /\ luck' = IF cell[p.node].up THEN luck - 1 ELSE luck
  /\ pushes' = (pushes \ {p}) \cup
               IF p.orphan THEN {} ELSE {[p EXCEPT !.answer = "failed"]}
  /\ UNCHANGED <<plan, daemonVars, announces, viewVars, operatorVars, ledger>>

-----------------------------------------------------------------------------
(* Observation: one rule for both transports.                               *)

Applies(f, mark, pinged) == pinged \/ AtLeast(mark, f.mark)

Ingest(f, slots, mark, pinged) ==
  IF Applies(f, mark, pinged) THEN [f EXCEPT !.slots = slots, !.mark = mark, !.seen = TRUE]
                              ELSE f

-----------------------------------------------------------------------------
(* Intent and the ledger.  Re-assert names the nodes to push to now, given  *)
(* the fleet and roster the caller just computed.                           *)

Pending(n) == ledger[n].slots = intent[n]
ShouldPush(n, f, holds) ==
  /\ intent[n] # Silent
  /\ ~(f.seen /\ f.slots = intent[n])
  /\ holds
  /\ ~(Pending(n) /\ (ledger[n].refused \/ ledger[n].flying))

FreshId(n) ==
  CHOOSE k \in 0..Cardinality(pushes) : \A p \in pushes : p.node = n => p.id # k

Request(n, slots) ==
  [node |-> n, slots |-> slots, id |-> FreshId(n), answer |-> "none", orphan |-> FALSE]

Push(ns) ==
  /\ ledger' = [n \in Nodes |-> IF n \in ns
                                THEN [slots |-> intent'[n], flying |-> TRUE, refused |-> FALSE]
                                ELSE ledger[n]]
  /\ pushes' = pushes \cup {Request(n, intent'[n]) : n \in ns}

\* set_node_capacity: unknown nodes and docker endpoints are refused.  The ask
\* is durable before it is pushed, and the push does not wait for another that
\* is still in flight.
SetNodeCapacity(n, slots) ==
  /\ asks < plan.asks /\ Worker(n) /\ roster[n] # "absent"
  /\ asks' = asks + 1
  /\ intent' = [intent EXCEPT ![n] = slots]
  /\ Push({n})
  /\ UNCHANGED <<plan, daemonVars, luck, announces, viewVars>>

\* Msg::CapacityPushed.  An answer about another number than the ledger's is
\* ignored; nothing here touches the observation.
CapacityPushed(p) ==
  /\ p \in pushes /\ p.answer # "none"
  /\ pushes' = pushes \ {p}
  /\ ledger' = IF ledger[p.node].slots # p.slots THEN ledger
               ELSE [ledger EXCEPT ![p.node].flying = FALSE,
                                   ![p.node].refused = @ \/ p.answer = "refused"]
  /\ UNCHANGED <<plan, daemonVars, luck, announces, viewVars, operatorVars>>

-----------------------------------------------------------------------------
(* Handlers of the dispatcher that read a report.                           *)

\* register_worker on a node the fleet already has: what is observed, and
\* whether the caller is told that capacity changed.
ReadmitLost(f, a) == [Ingest(f, a.slots, a.mark, FALSE) EXCEPT !.serving = TRUE]
Readmitted(f, a) ==
  LET in == Ingest(f, a.slots, a.mark, FALSE)
      moved == in.slots # f.slots
  IN [in EXCEPT !.sched = moved => @, !.serving = TRUE]

Registered(n, a) ==
  IF Joined(n) THEN Readmitted(fleet[n], a)
               ELSE Ingest(NewNode(a.slots), a.slots, a.mark, FALSE)
Changed(n, f) == ~Joined(n) \/ f.slots # fleet[n].slots \/ ~fleet[n].sched

\* on_worker_announce: heartbeat, registration, roster, and a push at once when
\* the observation moved.
HearAnnounce(a) ==
  /\ a \in announces
  /\ announces' = announces \ {a}
  /\ LET n == a.node
         f == Registered(n, a)
     IN /\ heard' = [heard EXCEPT ![n] = "fresh"]
        /\ fleet' = [fleet EXCEPT ![n] = f]
        /\ roster' = [roster EXCEPT ![n] = "up"]
        /\ UNCHANGED operatorVars
        /\ Push(IF Changed(n, f) /\ ShouldPush(n, f, TRUE) THEN {n} ELSE {})
  /\ UNCHANGED <<plan, daemonVars, luck>>

\* The time since the last announce passes worker_heartbeat_timeout: the daemon
\* is down, or its announces were lost.
Lapse(n) ==
  /\ heard[n] = "fresh"
  /\ cell[n].up => luck > 0
  /\ luck' = IF cell[n].up THEN luck - 1 ELSE luck
  /\ heard' = [heard EXCEPT ![n] = "stale"]
  /\ UNCHANGED <<plan, daemonVars, announces, fleet, roster, operatorVars, ledgerVars>>

\* The two halves of a scan tick that concern capacity: lapsed nodes stop being
\* schedulable, then every diverged intent is pushed again.
CapacityScan ==
  LET lapsed == {n \in Nodes \ plan.seeds : heard[n] = "stale"}
  IN /\ fleet' = [n \in Nodes |-> IF n \in lapsed THEN [fleet[n] EXCEPT !.sched = FALSE]
                                                  ELSE fleet[n]]
     /\ roster' = [n \in Nodes |-> IF n \in lapsed THEN "down" ELSE roster[n]]
     /\ UNCHANGED operatorVars
     /\ Push({n \in Nodes : ShouldPush(n, fleet[n], roster[n] # "absent")})
     /\ UNCHANGED <<plan, daemonVars, luck, announces, heard>>

\* A node as the dispatcher's boot leaves it: the seeds only, each pinged once.
Booted(n, seed) ==
  IF n \notin plan.seeds THEN Unknown
  ELSE IF ~Worker(n) THEN NewNode(plan.ceil[n])
  ELSE IF cell[n].up THEN Ingest(NewNode(seed), cell[n].slots, Mark(n), TRUE)
  ELSE [NewNode(seed) EXCEPT !.serving = FALSE]

\* startup_check: somebody must answer, and have slots unless it is a worker.
BootsUp == plan.seeds = {} \/ \E n \in plan.seeds :
             cell[n].up /\ (Worker(n) \/ plan.ceil[n] > 0)

\* A restart of the dispatcher keeps the intent and forgets the rest; requests
\* on the wire may still be served, and nobody waits for the answer.
CapacityRestart ==
  /\ BootsUp
  /\ fleet' = [n \in Nodes |-> Booted(n, plan.seedSlots)]
  /\ roster' = [n \in Nodes |-> IF n \in plan.seeds THEN "up" ELSE "absent"]
  /\ heard' = [n \in Nodes |-> "never"]
  /\ ledger' = [n \in Nodes |-> NotPushed]
  /\ pushes' = {[p EXCEPT !.orphan = TRUE] : p \in {q \in pushes : q.answer = "none"}}
  /\ UNCHANGED <<plan, daemonVars, luck, announces, operatorVars>>

FirstBoot(n) == CHOOSE b \in plan.boots[n] : \A c \in plan.boots[n] : b <= c

CapacityInit ==
  /\ plan \in Plans
  /\ cell = [n \in Nodes |-> [up |-> TRUE, epoch |-> 1, gen |-> 0,
                              slots |-> IF Worker(n) THEN Clamped(n, FirstBoot(n))
                                                     ELSE plan.ceil[n]]]
  /\ starts = 0
  /\ luck = plan.luck
  /\ announces = {}
  /\ fleet = [n \in Nodes |-> Booted(n, plan.seedSlots)]
  /\ roster = [n \in Nodes |-> IF n \in plan.seeds THEN "up" ELSE "absent"]
  /\ heard = [n \in Nodes |-> "never"]
  /\ asks = 0
  /\ intent = [n \in Nodes |-> Silent]
  /\ ledger = [n \in Nodes |-> NotPushed]
  /\ pushes = {}
=============================================================================
