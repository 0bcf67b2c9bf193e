----------------------------- MODULE Fleet_proofs -----------------------------
(***************************************************************************)
(* Theorems about Fleet and the capacity protocol of NodeCapacity under    *)
(* it, for every fleet, every set of tasks and every bound.                *)
(***************************************************************************)
EXTENDS Fleet, Queues_proofs

-----------------------------------------------------------------------------
(* What a report about a daemon whose cell is c claims.  Reports are on the *)
(* wire, in the observation, and in the reply a placement waits for.        *)

Honest(c, slots, mark) ==
  /\ mark[1] \in Int /\ mark[2] \in Int
  /\ AtLeast(<<c.epoch, c.gen>>, mark)
  /\ mark = <<c.epoch, c.gen>> => slots = c.slots

\* Cell d is what a later step may have made of cell c: its mark moves forward,
\* and a mark that stayed stands for the number it stood for.
Counts(c) == c.epoch \in Int /\ c.gen \in Int
Later(c, d) ==
  /\ Counts(c) /\ Counts(d)
  /\ AtLeast(<<d.epoch, d.gen>>, <<c.epoch, c.gen>>)
  /\ d.epoch = c.epoch /\ d.gen = c.gen => d.slots = c.slots

CellFields == {"up", "epoch", "gen", "slots"}
CellCounts ==
  /\ starts \in Int
  /\ DOMAIN cell = Nodes
  /\ \A n \in Nodes : /\ DOMAIN cell[n] = CellFields /\ Counts(cell[n])
                      /\ cell[n].epoch <= starts + 1 /\ cell[n].gen <= MaxGen

AnnouncesHonest ==
  \A a \in announces : a.node \in Nodes => Honest(cell[a.node], a.slots, a.mark)

ViewFields == {"slots", "mark", "seen", "sched", "serving"}
FleetHonest ==
  /\ DOMAIN fleet = Nodes
  /\ \A n \in Nodes :
       /\ DOMAIN fleet[n] = ViewFields
       /\ Worker(n) /\ fleet[n].seen => Honest(cell[n], fleet[n].slots, fleet[n].mark)

PlaceFields == {"stage", "todo", "reply", "loads", "node", "result"}
RepliesHonest ==
  /\ DOMAIN place = Tasks
  /\ \A t \in Tasks :
       /\ DOMAIN place[t] = PlaceFields
       /\ place[t].stage # "probe" => place[t].reply = <<>>
       /\ place[t].reply # <<>> /\ Next1(t) \in Nodes =>
            Honest(cell[Next1(t)], place[t].reply[1].slots, place[t].reply[1].mark)

WInv == CellCounts /\ AnnouncesHonest /\ FleetHonest /\ RepliesHonest

-----------------------------------------------------------------------------
(* Reports stay honest while daemons start, stop and adopt numbers.         *)

LEMMA HonestLasts ==
  ASSUME NEW c, NEW d, NEW slots, NEW mark, Later(c, d), Honest(c, slots, mark)
  PROVE  Honest(d, slots, mark)
BY DEF Later, Counts, Honest, AtLeast

LEMMA ReportIsHonest ==
  ASSUME NEW c, Counts(c)
  PROVE  Honest(c, c.slots, <<c.epoch, c.gen>>)
BY DEF Counts, Honest, AtLeast

\* A step that only moves cells forward, and neither announces, observes nor
\* answers.
Forward == plan' = plan /\ \A n \in Nodes : Later(cell[n], cell'[n])

LEMMA ForwardKeeps ==
  ASSUME WInv, Forward, CellCounts', UNCHANGED <<fleet, place>>,
         \A a \in announces' : a \in announces \/
            (a.node \in Nodes => Honest(cell'[a.node], a.slots, a.mark))
  PROVE  WInv'
<1>1. Nodes' = Nodes /\ Tasks' = Tasks
  BY DEF Forward, Nodes, Tasks
<1>2. AnnouncesHonest'
  BY <1>1, HonestLasts DEF WInv, AnnouncesHonest, Forward
<1>3. FleetHonest'
  BY <1>1, HonestLasts DEF WInv, FleetHonest, Forward, Worker
<1>4. RepliesHonest'
  <2>1. \A t \in Tasks : Next1(t)' = Next1(t)
    BY DEF Next1
  <2> QED
    BY <1>1, <2>1, HonestLasts DEF WInv, RepliesHonest, Forward
<1> QED
  BY <1>2, <1>3, <1>4 DEF WInv

LEMMA StartDaemonKeeps == ASSUME WInv, NEW n \in Nodes, StartDaemon(n), UNCHANGED launchVars PROVE WInv'
<1>1. PICK s : cell' = [cell EXCEPT ![n] = [up |-> TRUE, epoch |-> starts + 2, gen |-> 0, slots |-> s]]
  BY DEF StartDaemon
<1>2. plan' = plan /\ starts' = starts + 1 /\ UNCHANGED <<announces, fleet, place>>
  BY DEF StartDaemon, viewVars, launchVars
<1>3. CellCounts' /\ Forward
  BY <1>1, <1>2, MaxGenAssumption
     DEF WInv, CellCounts, Forward, Later, Counts, AtLeast, CellFields, Nodes
<1> QED
  BY <1>2, <1>3, ForwardKeeps

LEMMA StopDaemonKeeps == ASSUME WInv, NEW n \in Nodes, StopDaemon(n), UNCHANGED launchVars PROVE WInv'
<1>1. plan' = plan /\ UNCHANGED <<starts, announces, fleet, place>>
  BY DEF StopDaemon, viewVars, launchVars
<1>2. cell' = [cell EXCEPT ![n].up = FALSE]
  BY DEF StopDaemon
<1>3. CellCounts' /\ Forward
  BY <1>1, <1>2 DEF WInv, CellCounts, Forward, Later, Counts, AtLeast, CellFields, Nodes
<1> QED
  BY <1>1, <1>3, ForwardKeeps

LEMMA DockerReturnsKeeps ==
  ASSUME WInv, NEW n \in Nodes, DockerReturns(n), UNCHANGED launchVars PROVE WInv'
<1>1. plan' = plan /\ starts' = starts + 1 /\ UNCHANGED <<announces, fleet, place>>
  BY DEF DockerReturns, viewVars, launchVars
<1>2. cell' = [cell EXCEPT ![n].up = TRUE]
  BY DEF DockerReturns
<1>3. CellCounts' /\ Forward
  BY <1>1, <1>2 DEF WInv, CellCounts, Forward, Later, Counts, AtLeast, CellFields, Nodes
<1> QED
  BY <1>1, <1>3, ForwardKeeps

\* Steps that leave the cells alone.
LEMMA SameIsForward ==
  ASSUME WInv, UNCHANGED <<plan, cell>> PROVE Forward
BY DEF WInv, CellCounts, Forward, Later, Counts, AtLeast

LEMMA AnnounceKeeps ==
  ASSUME WInv, NEW n \in Nodes, Announce(n), UNCHANGED launchVars PROVE WInv'
<1>1. UNCHANGED <<plan, cell, starts, fleet, place>> /\ announces' = announces \cup {Report(n)}
  BY DEF Announce, daemonVars, viewVars, launchVars
<1>2. CellCounts'
  BY <1>1 DEF WInv, CellCounts, Nodes
<1>3. Honest(cell[n], cell[n].slots, Mark(n))
  BY ReportIsHonest DEF WInv, CellCounts, Mark
<1> QED
  BY <1>1, <1>2, <1>3, ForwardKeeps, SameIsForward DEF Report

\* An adoption moves the generation, except at the bound, where only the number
\* in force is adopted again.
LEMMA SetSlotsKeeps ==
  ASSUME WInv, NEW p \in pushes, SetSlots(p), UNCHANGED launchVars PROVE WInv'
<1> DEFINE n == p.node
           c == [cell EXCEPT ![n] = Adopt(n, p.slots)]
<1>1. UNCHANGED <<plan, starts, fleet, place>>
  BY DEF SetSlots, viewVars, launchVars
<1>2. CASE Refuses(p)
  <2>1. UNCHANGED <<cell, announces>>
    BY <1>2 DEF SetSlots
  <2>2. CellCounts'
    BY <1>1, <2>1 DEF WInv, CellCounts, Nodes
  <2> QED
    BY <1>1, <2>1, <2>2, ForwardKeeps, SameIsForward
<1>3. CASE ~Refuses(p)
  <2>1. /\ cell' = c
        /\ announces' = announces \cup {[node |-> n, slots |-> cell'[n].slots,
                                         mark |-> <<cell'[n].epoch, cell'[n].gen>>]}
        /\ cell[n].gen < MaxGen \/ cell[n].slots = p.slots
    BY <1>3 DEF SetSlots
  <2>2. CellCounts' /\ Forward
    BY <1>1, <2>1, MaxGenAssumption
       DEF WInv, CellCounts, Adopt, Forward, Later, Counts, AtLeast, CellFields, Nodes
  <2>3. n \in Nodes => Honest(cell'[n], cell'[n].slots, <<cell'[n].epoch, cell'[n].gen>>)
    BY <2>2, ReportIsHonest DEF Forward, Later
  <2> QED
    BY <1>1, <2>1, <2>2, <2>3, ForwardKeeps
<1> QED
  BY <1>2, <1>3

\* The rest of what happens on the wire loses messages.
LEMMA WireKeeps == ASSUME WInv, Wire PROVE WInv'
<1>1. CASE \E n \in Nodes : StartDaemon(n) \/ StopDaemon(n) \/ DockerReturns(n) \/ Announce(n)
  BY <1>1, StartDaemonKeeps, StopDaemonKeeps, DockerReturnsKeeps, AnnounceKeeps DEF Wire
<1>2. CASE (\E n \in Nodes : Lapse(n)) \/ (\E a \in announces : LoseAnnounce(a))
             \/ (\E p \in pushes : PushFails(p))
  <2>1. UNCHANGED <<plan, cell, starts, fleet, place>> /\ announces' \subseteq announces
    BY <1>2 DEF Wire, Lapse, LoseAnnounce, PushFails, daemonVars, viewVars, launchVars
  <2>2. CellCounts'
    BY <2>1 DEF WInv, CellCounts, Nodes
  <2> QED
    BY <2>1, <2>2, ForwardKeeps, SameIsForward
<1>3. CASE \E p \in pushes : SetSlots(p)
  BY <1>3, SetSlotsKeeps DEF Wire
<1> QED
  BY <1>1, <1>2, <1>3 DEF Wire, Daemons

-----------------------------------------------------------------------------
(* Observations: what an ingested report makes of a node's entry.           *)

Saw(n, f) ==
  /\ DOMAIN f = ViewFields
  /\ Worker(n) /\ f.seen => Honest(cell[n], f.slots, f.mark)

LEMMA IngestSees ==
  ASSUME NEW n, NEW f, NEW slots, NEW mark, NEW pinged, Saw(n, f), Honest(cell[n], slots, mark)
  PROVE  Saw(n, Ingest(f, slots, mark, pinged))
BY DEF Saw, Ingest, ViewFields

\* A step of the dispatcher: the cells stay, announces are at most taken, every
\* entry of the fleet is as honest as before or was observed just now.
LEMMA ObservationKeeps ==
  ASSUME WInv, UNCHANGED <<plan, cell, starts>>, announces' \subseteq announces,
         DOMAIN fleet' = Nodes, \A n \in Nodes : fleet'[n] = fleet[n] \/ Saw(n, fleet'[n]),
         RepliesHonest'
  PROVE  WInv'
<1>1. Nodes' = Nodes
  BY DEF Nodes
<1>2. CellCounts' /\ AnnouncesHonest'
  BY <1>1 DEF WInv, CellCounts, AnnouncesHonest
<1>3. FleetHonest'
  BY <1>1 DEF WInv, FleetHonest, Saw, Worker
<1> QED
  BY <1>2, <1>3 DEF WInv

\* Nothing is ever claimed for a reply that is not there.
LEMMA RepliesStay ==
  ASSUME WInv, UNCHANGED <<plan, cell>>, DOMAIN place' = Tasks,
         \A t \in Tasks :
           \/ place'[t] = place[t]
           \/ DOMAIN place'[t] = PlaceFields /\ place'[t].reply = <<>>
  PROVE  RepliesHonest'
<1>1. Tasks' = Tasks /\ Nodes' = Nodes
  BY DEF Tasks, Nodes
<1>2. ASSUME NEW t \in Tasks, place'[t] = place[t] PROVE Next1(t)' = Next1(t)
  BY <1>2 DEF Next1
<1> QED
  BY <1>1, <1>2 DEF WInv, RepliesHonest

LEMMA HearKeeps ==
  ASSUME WInv, NEW a \in announces, HearAnnounce(a), UNCHANGED place PROVE WInv'
<1> DEFINE n == a.node
           f == Registered(n, a)
<1>1. /\ UNCHANGED <<plan, cell, starts>> /\ announces' \subseteq announces
      /\ fleet' = [fleet EXCEPT ![n] = f]
  BY DEF HearAnnounce, daemonVars
<1>2. n \in Nodes => Saw(n, f)
  <2>1. SUFFICES ASSUME n \in Nodes PROVE Saw(n, f)
    OBVIOUS
  <2>2. Honest(cell[n], a.slots, a.mark)
    BY <2>1 DEF WInv, AnnouncesHonest
  <2>3. CASE Joined(n)
    <3>1. Saw(n, Ingest(fleet[n], a.slots, a.mark, FALSE))
      BY <2>1, <2>2, IngestSees DEF WInv, FleetHonest, Saw
    <3> QED
      BY <2>3, <3>1 DEF Registered, Readmitted, Saw, ViewFields
  <2>4. CASE ~Joined(n)
    <3>1. Saw(n, NewNode(a.slots))
      BY DEF Saw, NewNode, ViewFields
    <3> QED
      BY <2>2, <2>4, <3>1, IngestSees DEF Registered
  <2> QED
    BY <2>3, <2>4
<1>3. RepliesHonest'
  BY <1>1, RepliesStay DEF WInv, RepliesHonest
<1> QED
  BY <1>1, <1>2, <1>3, ObservationKeeps DEF WInv, FleetHonest

LEMMA HandleCapacityKeeps == ASSUME WInv, HandleCapacity PROVE WInv'
<1>1. UNCHANGED place
  BY DEF HandleCapacity, handled
<1>2. CASE \E a \in announces : HearAnnounce(a)
  BY <1>1, <1>2, HearKeeps
<1>3. CASE (\E p \in pushes : CapacityPushed(p))
             \/ (\E n \in Nodes, s \in plan.sizes : SetNodeCapacity(n, s))
  <2>1. UNCHANGED <<plan, cell, starts, announces, fleet>>
    BY <1>3 DEF CapacityPushed, SetNodeCapacity, daemonVars, viewVars
  <2>2. RepliesHonest'
    BY <1>1, <2>1, RepliesStay DEF WInv, RepliesHonest
  <2> QED
    BY <2>1, <2>2, ObservationKeeps DEF WInv, FleetHonest
<1> QED
  BY <1>2, <1>3 DEF HandleCapacity

LEMMA ScanKeeps == ASSUME WInv, Scan PROVE WInv'
<1>1. UNCHANGED <<plan, cell, starts, announces, place>>
  BY DEF Scan, CapacityScan, handled, daemonVars
<1>2. /\ DOMAIN fleet' = Nodes
      /\ \A n \in Nodes : fleet'[n] = fleet[n] \/ fleet'[n] = [fleet[n] EXCEPT !.sched = FALSE]
  BY DEF Scan, CapacityScan
<1>3. \A n \in Nodes : Saw(n, fleet[n])
  BY DEF WInv, FleetHonest, Saw
<1>4. \A n \in Nodes : Saw(n, fleet'[n])
  BY <1>2, <1>3 DEF Saw, ViewFields
<1>5. RepliesHonest'
  BY <1>1, RepliesStay DEF WInv, RepliesHonest
<1> QED
  BY <1>1, <1>2, <1>4, <1>5, ObservationKeeps

LEMMA BootedSees ==
  ASSUME WInv, NEW n \in Nodes, NEW seed PROVE Saw(n, Booted(n, seed))
<1>1. Honest(cell[n], cell[n].slots, Mark(n))
  BY ReportIsHonest DEF WInv, CellCounts, Mark
<1>2. Saw(n, Unknown) /\ \A s : Saw(n, NewNode(s))
  BY DEF Saw, Unknown, NewNode, ViewFields
<1>3. Saw(n, Ingest(NewNode(seed), cell[n].slots, Mark(n), TRUE))
  BY <1>1, <1>2, IngestSees
<1>4. Saw(n, [NewNode(seed) EXCEPT !.serving = FALSE])
  BY <1>2 DEF Saw, NewNode, ViewFields
<1> QED
  BY <1>2, <1>3, <1>4 DEF Booted

LEMMA RestartKeeps == ASSUME WInv, Restart PROVE WInv'
<1>1. /\ UNCHANGED <<plan, cell, starts, announces>>
      /\ fleet' = [n \in Nodes |-> Booted(n, plan.seedSlots)]
      /\ place' = [t \in Tasks |-> NoPlace]
  BY DEF Restart, CapacityRestart, daemonVars
<1>2. RepliesHonest'
  BY <1>1, RepliesStay DEF NoPlace, PlaceFields
<1> QED
  BY <1>1, <1>2, BootedSees, ObservationKeeps

-----------------------------------------------------------------------------
(* Placement: a ping is answered with the cell as it is, and its reply may  *)
(* be read much later.                                                      *)

LEMMA PingKeeps == ASSUME WInv, NEW t \in Tasks, Ping(t) PROVE WInv'
<1> DEFINE n == Next1(t)
           r == [slots |-> cell[n].slots, mark |-> Mark(n), running |-> Running(n)]
<1>1. UNCHANGED <<plan, cell, starts, announces, fleet>> /\ place' = [place EXCEPT ![t].reply = <<r>>]
      /\ place[t].stage = "probe"
  BY DEF Ping, capVars
<1>2. Tasks' = Tasks /\ Nodes' = Nodes
  BY <1>1 DEF Tasks, Nodes
<1>3. \A u \in Tasks : Next1(u)' = Next1(u)
  BY <1>1 DEF WInv, RepliesHonest, Next1, PlaceFields
<1>4. n \in Nodes => Honest(cell[n], r.slots, r.mark)
  BY ReportIsHonest DEF WInv, CellCounts, Mark
<1>5. RepliesHonest'
  BY <1>1, <1>2, <1>3, <1>4 DEF WInv, RepliesHonest, PlaceFields
<1> QED
  BY <1>1, <1>5, ObservationKeeps DEF WInv, FleetHonest

LEMMA ReadLoadKeeps == ASSUME WInv, NEW t \in Tasks, ReadLoad(t) PROVE WInv'
<1> DEFINE n == Next1(t)
           r == place[t].reply[1]
           seen == [Ingest(fleet[n], r.slots, r.mark, TRUE) EXCEPT !.serving = TRUE]
<1>1. /\ UNCHANGED <<plan, cell, starts, announces>> /\ place[t].reply # <<>>
      /\ fleet' = IF Worker(n) THEN [fleet EXCEPT ![n] = seen] ELSE fleet
  BY DEF ReadLoad, daemonVars
<1>2. n \in Nodes => Saw(n, seen)
  <2>1. SUFFICES ASSUME n \in Nodes PROVE Saw(n, seen)
    OBVIOUS
  <2>2. Saw(n, Ingest(fleet[n], r.slots, r.mark, TRUE))
    BY <1>1, <2>1, IngestSees DEF WInv, RepliesHonest, FleetHonest, Saw
  <2> QED
    BY <2>2 DEF Saw, ViewFields
<1>3. \E load : place' = Probed(t, n, load)
  BY DEF ReadLoad
<1>4. RepliesHonest'
  BY ZenonT(60), <1>1, <1>3, RepliesStay DEF WInv, RepliesHonest, Probed, PlaceFields
<1> QED
  BY <1>1, <1>2, <1>4, ObservationKeeps DEF WInv, FleetHonest

LEMMA SkipNodeKeeps == ASSUME WInv, NEW t \in Tasks, SkipNode(t) PROVE WInv'
<1> DEFINE n == Next1(t)
<1>1. /\ UNCHANGED <<plan, cell, starts, announces>>
      /\ fleet' = fleet \/ fleet' = [fleet EXCEPT ![n].serving = FALSE]
      /\ \/ place' = Probed(t, n, NoLoad)
         \/ place' = [place EXCEPT ![t] = Back("error")]
  BY DEF SkipNode, daemonVars
<1>2. RepliesHonest'
  BY <1>1, RepliesStay DEF WInv, RepliesHonest, Probed, Back, NoPlace, PlaceFields
<1>3. \A m \in Nodes : fleet'[m] = fleet[m] \/ Saw(m, fleet'[m])
  BY <1>1 DEF WInv, FleetHonest, Saw, ViewFields
<1>4. DOMAIN fleet' = Nodes
  BY <1>1 DEF WInv, FleetHonest
<1> QED
  BY <1>1, <1>2, <1>3, <1>4, ObservationKeeps

\* Every other step touches neither the protocol nor a reply: it begins, moves on
\* or ends a placement.
LEMMA AsideKeeps ==
  ASSUME WInv, UNCHANGED <<plan, cell, starts, announces, fleet>>, DOMAIN place' = Tasks,
         \A t \in Tasks :
           \/ place'[t] = place[t]
           \/ DOMAIN place'[t] = PlaceFields /\ place'[t].reply = <<>>
  PROVE  WInv'
BY RepliesStay, ObservationKeeps DEF WInv, FleetHonest

LEMMA PlacementKeeps == ASSUME WInv, NEW t \in Tasks, Placement(t) PROVE WInv'
<1>1. CASE TakeLock(t) \/ Choose(t) \/ LaunchRpc(t) \/ AgentPlaced(t)
  <2>1. UNCHANGED <<plan, cell, starts, announces, fleet>>
    BY <1>1 DEF TakeLock, Choose, LaunchRpc, AgentPlaced, capVars, daemonVars, viewVars
  <2>2. DOMAIN place' = Tasks /\ \A u \in Tasks : u # t => place'[u] = place[u]
    BY <1>1 DEF WInv, RepliesHonest, TakeLock, Choose, LaunchRpc, AgentPlaced, Release
  <2>3. DOMAIN place'[t] = PlaceFields /\ place'[t].reply = <<>>
    <3>1. CASE TakeLock(t) \/ LaunchRpc(t)
      BY ZenonT(60), <3>1 DEF WInv, RepliesHonest, TakeLock, LaunchRpc, PlaceFields
    <3>2. CASE Choose(t) \/ AgentPlaced(t)
      <4>1. \/ place'[t] = NoPlace
            \/ \E n : place'[t] = [NoPlace EXCEPT !.stage = "launch", !.node = n]
            \/ \E r : place'[t] = Back(r)
        BY <3>2 DEF WInv, RepliesHonest, Choose, AgentPlaced, Release
      <4>2. \A n, r : LET a == [NoPlace EXCEPT !.stage = "launch", !.node = n]
                     IN /\ DOMAIN a = PlaceFields /\ a.reply = <<>>
                        /\ DOMAIN Back(r) = PlaceFields /\ Back(r).reply = <<>>
        BY DEF Back, NoPlace, PlaceFields
      <4>3. DOMAIN NoPlace = PlaceFields /\ NoPlace.reply = <<>>
        BY DEF NoPlace, PlaceFields
      <4> QED
        BY <4>1, <4>2, <4>3
    <3> QED
      BY <1>1, <3>1, <3>2
  <2> QED
    BY <2>1, <2>2, <2>3, AsideKeeps
<1> QED
  BY <1>1, PingKeeps, ReadLoadKeeps, SkipNodeKeeps DEF Placement

LEMMA ActorKeeps ==
  ASSUME WInv, CommandPlaced \/ DrainOne \/ \E t \in Tasks : Begin(t) PROVE WInv'
<1>1. UNCHANGED <<plan, cell, starts, announces, fleet>>
  BY DEF CommandPlaced, DrainOne, Begin, capVars
<1>2. \E t : place' = place \/ place' = [place EXCEPT ![t] = NoPlace]
               \/ place' = [place EXCEPT ![t] = [NoPlace EXCEPT !.stage = "wait"]]
  BY DEF CommandPlaced, DrainOne, Begin, Release, StartPlacing
<1> QED
  BY <1>1, <1>2, AsideKeeps DEF WInv, RepliesHonest, NoPlace, PlaceFields

-----------------------------------------------------------------------------
LEMMA WInit == Init => WInv
<1> SUFFICES ASSUME Init PROVE WInv
  OBVIOUS
<1>1. /\ starts = 0 /\ announces = {}
      /\ fleet = [n \in Nodes |-> Booted(n, plan.seedSlots)]
      /\ place = [t \in Tasks |-> NoPlace]
  BY DEF Init, CapacityInit
<1>2. \E s : cell = [n \in Nodes |-> [up |-> TRUE, epoch |-> 1, gen |-> 0, slots |-> s[n]]]
  <2> WITNESS [n \in Nodes |-> cell[n].slots]
  <2> QED
    BY DEF Init, CapacityInit
<1>3. CellCounts
  BY <1>1, <1>2, MaxGenAssumption DEF CellCounts, Counts, CellFields
<1>4. AnnouncesHonest /\ RepliesHonest
  BY <1>1 DEF AnnouncesHonest, RepliesHonest, NoPlace, PlaceFields
<1>5. FleetHonest
  <2>1. \A n \in Nodes : Saw(n, Booted(n, plan.seedSlots))
    <3> TAKE n \in Nodes
    <3>1. Honest(cell[n], cell[n].slots, Mark(n))
      BY <1>3, ReportIsHonest DEF CellCounts, Mark
    <3>2. Saw(n, Unknown) /\ \A s : Saw(n, NewNode(s))
      BY DEF Saw, Unknown, NewNode, ViewFields
    <3>3. Saw(n, Ingest(NewNode(plan.seedSlots), cell[n].slots, Mark(n), TRUE))
      BY <3>1, <3>2, IngestSees
    <3>4. Saw(n, [NewNode(plan.seedSlots) EXCEPT !.serving = FALSE])
      BY <3>2 DEF Saw, NewNode, ViewFields
    <3> QED
      BY <3>2, <3>3, <3>4 DEF Booted
  <2> QED
    BY <1>1, <2>1 DEF FleetHonest, Saw
<1> QED
  BY <1>3, <1>4, <1>5 DEF WInv

LEMMA WNext == WInv /\ [Next]_vars => WInv'
<1> SUFFICES ASSUME WInv, [Next]_vars PROVE WInv'
  OBVIOUS
<1>1. CASE \E t \in Tasks : Handle(t) \/ Outwait(t) \/ Revoke(t)
  <2>1. UNCHANGED <<plan, cell, starts, announces, fleet, place>>
    BY <1>1 DEF Handle, HandleExit, HandleStarted, HandleDeferred, Outwait, Revoke, capVars, handled
  <2> QED
    BY <2>1, AsideKeeps DEF WInv, RepliesHonest
<1>2. CASE \E t \in Tasks, n \in Nodes : BoxEnds(t, n)
  <2>1. UNCHANGED <<plan, cell, starts, announces, fleet, place>>
    BY <1>2 DEF BoxEnds, capVars
  <2> QED
    BY <2>1, AsideKeeps DEF WInv, RepliesHonest
<1>3. CASE UNCHANGED vars
  BY <1>3, AsideKeeps DEF WInv, RepliesHonest, vars, capVars, daemonVars, viewVars, launchVars
<1> QED
  BY <1>1, <1>2, <1>3, WireKeeps, PlacementKeeps, ActorKeeps, HandleCapacityKeeps, ScanKeeps,
     RestartKeeps DEF Next

\* An observation that carries the daemon's current mark carries its current
\* number and none is ahead of the daemon, however announces are lost, overtaken
\* and delayed, pings answered long before they are read, daemons restarted and
\* numbers pushed: for every fleet and every bound of the generations.
THEOREM WatermarkCorrect == Spec => []WatermarkIsHonest
<1>1. WInv => WatermarkIsHonest
  BY DEF WInv, FleetHonest, CellCounts, Honest, Mark, WatermarkIsHonest
<1> QED
  BY <1>1, WInit, WNext, PTL DEF Spec

-----------------------------------------------------------------------------
(* The launch queue.                                                        *)

Distinct(q) == \A i, j \in 1..Len(q) : q[i] = q[j] => i = j
Classed(q) == \A i, j \in 1..Len(q) : i < j => Class(q[i]) <= Class(q[j])

States == {"new", "pending", "running", "done", "failed"}
Stages == {"none", "wait", "probe", "launch", "back"}
QueuesTyped ==
  /\ queue \in Seq(Tasks) /\ Distinct(queue)
  /\ joined \in Seq(Tasks) /\ Distinct(joined)
TasksTyped ==
  /\ DOMAIN task = Tasks
  /\ \A t \in Tasks : DOMAIN task[t] = {"state", "at"} /\ task[t].state \in States
PlacesTyped ==
  /\ DOMAIN place = Tasks
  /\ \A t \in Tasks : /\ DOMAIN place[t] = PlaceFields
                      /\ place[t].stage \in Stages
                      /\ place[t].stage = "back" => place[t].result \in {"ok", "full", "error"}
QueueTyped == QueuesTyped /\ TasksTyped /\ PlacesTyped

\* A drain never looks for more entries than there are, and only commands are
\* awaited.
TurnTyped ==
  /\ DOMAIN turn = {"kind", "task", "resumed", "left"}
  /\ turn.kind \in {"idle", "drain", "place"} /\ turn.left \in Nat
  /\ turn.kind = "drain" => turn.left > 0 /\ turn.left <= Len(queue)
  /\ turn.kind = "place" =>
       /\ turn.task \in Tasks /\ ~Agent(turn.task) /\ turn.resumed \in BOOLEAN
       /\ turn.resumed => turn.left <= Len(queue)

\* Where the launch of a task is: in the queue, being placed, or on its way back
\* to the actor as a message; at one of these at a time.
Placed(t) == place[t].stage # "none"
Failing(t) == <<"unlaunched", t>> \in msgs
Deferring(t) == <<"deferred", t>> \in msgs
LaunchIsAt(t) ==
  /\ Contains(queue, t) => /\ ~Placed(t) /\ ~Failing(t) /\ ~Deferring(t)
                           /\ task[t].state \notin {"new", "running"}
  /\ Placed(t) => ~Failing(t) /\ ~Deferring(t)
  /\ Failing(t) => ~Deferring(t)
  /\ task[t].state = "new" => ~Placed(t) /\ ~Failing(t) /\ ~Deferring(t)
  /\ task[t].state = "pending" =>
       /\ Contains(joined, t)
       /\ Agent(t) => Contains(queue, t)
       /\ Phase(t) = "eval" => Contains(queue, t) \/ Placed(t) \/ Failing(t)
  /\ Deferring(t) => Agent(t)
  /\ InHand(t) <=> ~Agent(t) /\ Placed(t)
  /\ InHand(t) => task[t].state = IF turn.resumed THEN "pending" ELSE "running"
QInv == QueueTyped /\ TurnTyped /\ \A t \in Tasks : LaunchIsAt(t)

\* What inserting, popping and retaining do to a queue of launches.
LEMMA EnqueueKeeps ==
  ASSUME NEW q \in Seq(Tasks), Distinct(q), NEW t \in Tasks, ~Contains(q, t)
  PROVE  /\ Enqueue(q, t) \in Seq(Tasks) /\ Distinct(Enqueue(q, t))
         /\ Len(Enqueue(q, t)) = Len(q) + 1
         /\ \A u : Contains(Enqueue(q, t), u) <=> Contains(q, u) \/ u = t
<1> DEFINE S == {u \in Tasks : Class(u) > Class(t)}
           p == FirstIn(q, S)
           r == Enqueue(q, t)
<1>1. /\ p \in 1..Len(q) + 1 /\ r \in Seq(Tasks) /\ Len(r) = Len(q) + 1
      /\ \A i \in 1..Len(r) : r[i] = IF i < p THEN q[i] ELSE IF i = p THEN t ELSE q[i - 1]
  BY InsertProperties DEF Enqueue
<1> HIDE DEF p, r
<1>2. Len(q) \in Nat
  OBVIOUS
<1>3. \A i \in 1..Len(r) : (i < p => i \in 1..Len(q)) /\ (i > p => i - 1 \in 1..Len(q))
  BY <1>1, <1>2
<1>4. \A u : Contains(r, u) <=> Contains(q, u) \/ u = t
  <2> TAKE u
  <2>1. Contains(r, u) => Contains(q, u) \/ u = t
    BY <1>1, <1>2, <1>3 DEF Contains
  <2>2. u = t => Contains(r, u)
    BY <1>1, <1>2 DEF Contains
  <2>3. ASSUME NEW i \in 1..Len(q), q[i] = u PROVE Contains(r, u)
    <3>1. i < p => i \in 1..Len(r) /\ r[i] = u
      BY <1>1, <1>2, <2>3
    <3>2. ~(i < p) => i + 1 \in 1..Len(r) /\ r[i + 1] = u
      BY <1>1, <1>2, <2>3
    <3> QED
      BY <3>1, <3>2 DEF Contains
  <2> QED
    BY <2>1, <2>2, <2>3 DEF Contains
<1>5. Distinct(r)
  <2>1. \A i \in 1..Len(q) : q[i] # t
    BY DEF Contains
  <2> DEFINE at(i) == IF i < p THEN i ELSE i - 1
  <2>2. \A i \in 1..Len(r) : i # p => at(i) \in 1..Len(q) /\ r[i] = q[at(i)]
    BY <1>1, <1>3
  <2>3. \A i, j \in 1..Len(r) : i # p /\ j # p /\ at(i) = at(j) => i = j
    BY <1>1, <1>2
  <2> SUFFICES ASSUME NEW i \in 1..Len(r), NEW j \in 1..Len(r), r[i] = r[j] PROVE i = j
    BY DEF Distinct
  <2>4. i = p <=> j = p
    <3>1. r[p] = t
      BY <1>1, <1>2
    <3>2. \A k \in 1..Len(r) : k # p => r[k] # t
      BY <2>1, <2>2
    <3> QED
      BY <3>1, <3>2
  <2>5. CASE i # p /\ j # p
    <3>1. q[at(i)] = q[at(j)] /\ at(i) \in 1..Len(q) /\ at(j) \in 1..Len(q)
      BY <2>2, <2>5
    <3> QED
      BY <2>3, <2>5, <3>1 DEF Distinct
  <2> QED
    BY <2>4, <2>5
<1> QED
  BY <1>1, <1>4, <1>5 DEF r

LEMMA PopKeeps ==
  ASSUME NEW q \in Seq(Tasks), Distinct(q), Len(q) > 0
  PROVE  /\ Head(q) \in Tasks /\ Contains(q, Head(q))
         /\ Tail(q) \in Seq(Tasks) /\ Distinct(Tail(q)) /\ Len(Tail(q)) = Len(q) - 1
         /\ \A u : Contains(Tail(q), u) <=> Contains(q, u) /\ u # Head(q)
<1>1. /\ Head(q) = q[1] /\ Head(q) \in Tasks /\ Tail(q) \in Seq(Tasks)
      /\ Len(q) \in Nat /\ Len(Tail(q)) = Len(q) - 1
      /\ \A i \in 1..Len(q) - 1 : Tail(q)[i] = q[i + 1]
  OBVIOUS
<1>2. Distinct(Tail(q))
  BY <1>1 DEF Distinct
<1>3. Contains(q, Head(q))
  BY <1>1 DEF Contains
<1>4. ASSUME NEW u PROVE Contains(Tail(q), u) <=> Contains(q, u) /\ u # Head(q)
  <2>1. ASSUME NEW i \in 1..Len(q) - 1, Tail(q)[i] = u PROVE Contains(q, u) /\ u # Head(q)
    <3>1. i + 1 \in 1..Len(q) /\ 1 \in 1..Len(q) /\ i + 1 # 1 /\ q[i + 1] = u
      BY <1>1, <2>1
    <3> QED
      BY <1>1, <3>1 DEF Contains, Distinct
  <2>2. ASSUME NEW i \in 1..Len(q), q[i] = u, u # Head(q) PROVE Contains(Tail(q), u)
    <3>1. i - 1 \in 1..Len(q) - 1 /\ Tail(q)[i - 1] = q[i]
      BY <1>1, <2>2
    <3> QED
      BY <1>1, <2>2, <3>1 DEF Contains
  <2> QED
    BY <1>1, <2>1, <2>2 DEF Contains
<1> QED
  BY <1>1, <1>2, <1>3, <1>4

LEMMA RetainKeeps ==
  ASSUME NEW q \in Seq(Tasks), Distinct(q), NEW S
  PROVE  /\ Retain(q, S) \in Seq(Tasks) /\ Distinct(Retain(q, S)) /\ Len(Retain(q, S)) <= Len(q)
         /\ \A u : Contains(Retain(q, S), u) <=> Contains(q, u) /\ u \in S
<1> DEFINE r == Retain(q, S)
           nth(k) == Nth(Where(q, S), k)
<1>1. /\ r \in Seq(Tasks) /\ Len(r) <= Len(q)
      /\ \A k \in 1..Len(r) : nth(k) \in 1..Len(q) /\ r[k] = q[nth(k)] /\ r[k] \in S
      /\ \A k, l \in 1..Len(r) : k < l => nth(k) < nth(l)
      /\ \A i \in 1..Len(q) : q[i] \in S => \E k \in 1..Len(r) : nth(k) = i
  BY RetainProperties
<1> HIDE DEF r, nth
<1>2. Len(r) \in Nat /\ Len(q) \in Nat
  BY <1>1
<1>3. Distinct(r)
  <2> SUFFICES ASSUME NEW k \in 1..Len(r), NEW l \in 1..Len(r), r[k] = r[l] PROVE k = l
    BY DEF Distinct
  <2>1. nth(k) = nth(l)
    BY <1>1 DEF Distinct
  <2> QED
    BY <1>1, <1>2, <2>1
<1>4. \A u : Contains(r, u) <=> Contains(q, u) /\ u \in S
  BY <1>1, <1>2 DEF Contains
<1> QED
  BY <1>1, <1>3, <1>4 DEF r

LEMMA AppendKeeps ==
  ASSUME NEW q \in Seq(Tasks), Distinct(q), NEW t \in Tasks, ~Contains(q, t)
  PROVE  /\ Append(q, t) \in Seq(Tasks) /\ Distinct(Append(q, t))
         /\ \A u : Contains(Append(q, t), u) <=> Contains(q, u) \/ u = t
<1> DEFINE r == Append(q, t)
<1>1. /\ r \in Seq(Tasks) /\ Len(q) \in Nat /\ Len(r) = Len(q) + 1
      /\ \A i \in 1..Len(q) : r[i] = q[i]
      /\ r[Len(q) + 1] = t
  OBVIOUS
<1> HIDE DEF r
<1>2. \A i \in 1..Len(r) : i \in 1..Len(q) \/ i = Len(q) + 1
  BY <1>1
<1>3. Distinct(r)
  BY <1>1, <1>2 DEF Distinct, Contains
<1>4. \A u : Contains(r, u) <=> Contains(q, u) \/ u = t
  BY <1>1, <1>2 DEF Contains
<1> QED
  BY <1>1, <1>3, <1>4 DEF r

\* The plan stays, and with it what the tasks are.
LEMMA PlanStays ==
  ASSUME plan' = plan
  PROVE  /\ Tasks' = Tasks /\ Nodes' = Nodes
         /\ \A t : Agent(t)' = Agent(t) /\ Phase(t)' = Phase(t)
BY DEF Tasks, Nodes, Agent, Phase

LEMMA DrainingIs ==
  ASSUME NEW n \in Nat
  PROVE  /\ DOMAIN Draining(n) = {"kind", "task", "resumed", "left"}
         /\ Draining(n).kind = IF n = 0 THEN "idle" ELSE "drain"
         /\ Draining(n).left = n
BY DEF Draining, Idle

\* The end of a handler: the actor looks at the queue it leaves behind.
LEMMA TurnEnds ==
  ASSUME plan' = plan, QueueTyped',
         turn' = Idle \/ \E n \in Nat : n <= Len(queue') /\ turn' = Draining(n)
  PROVE  TurnTyped' /\ \A t : ~InHand(t)'
<1>1. CASE turn' = Idle
  BY <1>1 DEF Idle, TurnTyped, InHand
<1>2. CASE \E n \in Nat : n <= Len(queue') /\ turn' = Draining(n)
  <2>1. PICK n \in Nat : n <= Len(queue') /\ turn' = Draining(n)
    BY <1>2
  <2> QED
    BY <2>1, DrainingIs DEF TurnTyped, InHand
<1> QED
  BY <1>1, <1>2

LEMMA ThenDrainEnds ==
  ASSUME plan' = plan, QueueTyped', ThenDrain
  PROVE  TurnTyped' /\ \A t : ~InHand(t)'
<1>1. Len(queue') \in Nat /\ Len(queue') <= Len(queue')
  BY DEF QueueTyped, QueuesTyped, TasksTyped, PlacesTyped
<1> QED
  BY <1>1, TurnEnds DEF ThenDrain

queueVars == <<plan, task, queue, joined, place, turn, msgs>>

LEMMA ElsewhereKeepsQ == ASSUME QInv, UNCHANGED queueVars PROVE QInv'
BY PlanStays DEF QInv, QueueTyped, QueuesTyped, TasksTyped, PlacesTyped, TurnTyped, LaunchIsAt, queueVars, Placed, Failing, Deferring,
   InHand, Agent, Phase, Tasks

\* A placement under way moves on.
LEMMA PlacingKeepsQ ==
  ASSUME QInv, NEW t \in Tasks, UNCHANGED <<plan, task, queue, joined, turn, msgs>>,
         place' = [place EXCEPT ![t] = place'[t]],
         Placed(t), place'[t].stage \in Stages \ {"none"}, DOMAIN place'[t] = PlaceFields,
         place'[t].stage = "back" => place'[t].result \in {"ok", "full", "error"}
  PROVE  QInv'
<1>1. Tasks' = Tasks /\ \A u : Agent(u)' = Agent(u) /\ Phase(u)' = Phase(u)
  BY PlanStays
<1>2. /\ DOMAIN place' = Tasks /\ \A u \in Tasks : u # t => place'[u] = place[u]
      /\ \A u \in Tasks : Placed(u)' = Placed(u)
  BY DEF QInv, QueueTyped, QueuesTyped, TasksTyped, PlacesTyped, Placed
<1>3. QueueTyped'
  BY <1>1, <1>2 DEF QInv, QueueTyped, QueuesTyped, TasksTyped, PlacesTyped
<1>4. TurnTyped'
  BY <1>1 DEF QInv, TurnTyped
<1>5. \A u \in Tasks : LaunchIsAt(u)'
  BY ZenonT(60), <1>1, <1>2 DEF QInv, LaunchIsAt, Failing, Deferring, InHand
<1> QED
  BY <1>1, <1>3, <1>4, <1>5 DEF QInv

LEMMA StepsOfPlacementKeepQ ==
  ASSUME QInv, NEW t \in Tasks,
         TakeLock(t) \/ SkipNode(t) \/ Ping(t) \/ ReadLoad(t) \/ Choose(t) \/ LaunchRpc(t)
  PROVE  QInv'
<1>1. UNCHANGED <<plan, task, queue, joined, turn, msgs>>
  BY DEF TakeLock, SkipNode, Ping, ReadLoad, Choose, LaunchRpc, placeRest, capVars
<1>2. Placed(t)
  BY DEF TakeLock, SkipNode, Ping, ReadLoad, Choose, LaunchRpc, Placed
<1>3. DOMAIN place = Tasks /\ DOMAIN place[t] = PlaceFields
  BY DEF QInv, QueueTyped, QueuesTyped, TasksTyped, PlacesTyped
<1>4. ASSUME NEW how \in {"ok", "full", "error", "lost"}
      PROVE  (IF how = "lost" THEN "error" ELSE how) \in {"ok", "full", "error"}
  OBVIOUS
<1> DEFINE Fits(p) == /\ p.stage \in Stages \ {"none"} /\ DOMAIN p = PlaceFields
                      /\ p.stage = "back" => p.result \in {"ok", "full", "error"}
<1>5. \A n : Fits(Back("error")) /\ Fits(Back("full"))
             /\ Fits([NoPlace EXCEPT !.stage = "launch", !.node = n])
  BY DEF Back, NoPlace, PlaceFields, Stages
<1>6. place' = [place EXCEPT ![t] = place'[t]] /\ Fits(place'[t])
  <2>1. CASE TakeLock(t) \/ Ping(t)
    BY ZenonT(60), <1>3, <2>1 DEF TakeLock, Ping, PlaceFields, Stages
  <2>2. CASE ReadLoad(t)
    BY <1>3, <2>2 DEF ReadLoad, Probed, PlaceFields, Stages
  <2>3. CASE SkipNode(t)
    <3>1. /\ place[t].stage = "probe"
          /\ \/ place' = Probed(t, Next1(t), NoLoad)
             \/ place' = [place EXCEPT ![t] = Back("error")]
      BY <2>3 DEF SkipNode
    <3>2. CASE place' = Probed(t, Next1(t), NoLoad)
      BY <1>3, <3>1, <3>2 DEF Probed, PlaceFields, Stages
    <3> QED
      BY <1>3, <1>5, <3>1, <3>2
  <2>4. CASE Choose(t)
    <3>1. \/ place' = [place EXCEPT ![t] = Back("error")]
          \/ place' = [place EXCEPT ![t] = Back("full")]
          \/ \E n : place' = [place EXCEPT ![t] = [NoPlace EXCEPT !.stage = "launch", !.node = n]]
      BY <2>4 DEF Choose
    <3> QED
      BY <1>3, <1>5, <3>1
  <2>5. CASE LaunchRpc(t)
    <3>1. PICK how \in {"ok", "full", "error", "lost"} :
            place' = [place EXCEPT ![t].stage = "back",
                                   ![t].result = IF how = "lost" THEN "error" ELSE how]
      BY <2>5 DEF LaunchRpc, Outcomes
    <3> QED
      BY <1>3, <1>4, <3>1 DEF PlaceFields, Stages
  <2> QED
    BY <2>1, <2>2, <2>3, <2>4, <2>5
<1> QED
  BY <1>1, <1>2, <1>6, PlacingKeepsQ

\* Facts that every step below needs.
LEMMA NoPlaceIsNone ==
  /\ DOMAIN NoPlace = PlaceFields /\ NoPlace.stage = "none"
  /\ DOMAIN [NoPlace EXCEPT !.stage = "wait"] = PlaceFields
  /\ [NoPlace EXCEPT !.stage = "wait"].stage = "wait"
BY DEF NoPlace, PlaceFields

LEMMA AgentPlacedKeepsQ == ASSUME QInv, NEW t \in Tasks, AgentPlaced(t) PROVE QInv'
<1>1. /\ UNCHANGED <<plan, task, queue, joined, turn>>
      /\ place' = [place EXCEPT ![t] = NoPlace]
      /\ Agent(t) /\ Placed(t) /\ place[t].result \in {"ok", "full", "error"}
  BY DEF AgentPlaced, Release, capVars, Placed, QInv, QueueTyped, QueuesTyped, TasksTyped, PlacesTyped
<1>2. Tasks' = Tasks /\ \A u : Agent(u)' = Agent(u) /\ Phase(u)' = Phase(u)
  BY <1>1, PlanStays
<1>3. \E n : \/ msgs' = msgs \cup {<<"started", t, n>>}
             \/ msgs' = msgs \cup {<<"deferred", t>>}
             \/ msgs' = msgs \cup {<<"unlaunched", t>>}
  BY <1>1 DEF AgentPlaced, Say
<1>4. /\ \A u \in Tasks : u # t => place'[u] = place[u]
      /\ place'[t] = NoPlace /\ DOMAIN place' = Tasks
  BY <1>1 DEF QInv, QueueTyped, QueuesTyped, TasksTyped, PlacesTyped
<1>5. QueueTyped'
  BY <1>1, <1>2, <1>4, NoPlaceIsNone DEF QInv, QueueTyped, QueuesTyped, TasksTyped, PlacesTyped, Stages
<1>6. TurnTyped'
  BY <1>1, <1>2 DEF QInv, TurnTyped
<1>7. ASSUME NEW u \in Tasks, u # t PROVE LaunchIsAt(u)'
  <2>1. Failing(u)' = Failing(u) /\ Deferring(u)' = Deferring(u) /\ Placed(u)' = Placed(u)
    BY <1>3, <1>4, <1>7 DEF Failing, Deferring, Placed
  <2> QED
    BY <1>1, <1>2, <2>1 DEF QInv, LaunchIsAt, InHand
<1>8. LaunchIsAt(t)'
  <2>1. ~Placed(t)' /\ ~(Failing(t)' /\ Deferring(t)')
    BY <1>1, <1>3, <1>4, NoPlaceIsNone DEF QInv, LaunchIsAt, Placed, Failing, Deferring
  <2>2. ~Contains(queue, t) /\ task[t].state # "new" /\ task[t].state # "pending" /\ ~InHand(t)
    BY <1>1 DEF QInv, LaunchIsAt
  <2> QED
    BY <1>1, <1>2, <2>1, <2>2 DEF QInv, LaunchIsAt, InHand
<1> QED
  BY <1>2, <1>5, <1>6, <1>7, <1>8 DEF QInv

\* A launch is parked.  It is nowhere else then.
LEMMA DeferKeeps ==
  ASSUME QInv, plan' = plan, NEW t \in Tasks, Defer(t), ~Contains(queue, t), UNCHANGED place
  PROVE  /\ QueueTyped' /\ Contains(joined', t)
         /\ \A u : Contains(queue', u) <=> Contains(queue, u) \/ u = t
         /\ \A u : Contains(joined, u) => Contains(joined', u)
         /\ task'[t].state = "pending" /\ \A u \in Tasks : u # t => task'[u] = task[u]
<1>1. Tasks' = Tasks
  BY PlanStays
<1>2. /\ queue' \in Seq(Tasks) /\ Distinct(queue')
      /\ \A u : Contains(queue', u) <=> Contains(queue, u) \/ u = t
  BY EnqueueKeeps DEF Defer, QInv, QueueTyped, QueuesTyped, TasksTyped, PlacesTyped, Distinct
<1>3. /\ joined' \in Seq(Tasks) /\ Distinct(joined')
      /\ \A u : Contains(joined', u) <=> Contains(joined, u) \/ u = t
  BY AppendKeeps DEF Defer, QInv, QueueTyped, QueuesTyped, TasksTyped, PlacesTyped, Distinct
<1>4. /\ DOMAIN task' = Tasks /\ task'[t] = [state |-> "pending", at |-> Nowhere]
      /\ \A u \in Tasks : u # t => task'[u] = task[u]
  BY DEF Defer, QInv, QueueTyped, QueuesTyped, TasksTyped, PlacesTyped
<1>5. \A u \in Tasks : DOMAIN task'[u] = {"state", "at"} /\ task'[u].state \in States
  BY <1>4 DEF QInv, QueueTyped, QueuesTyped, TasksTyped, PlacesTyped, States
<1>6. QueueTyped'
  BY <1>1, <1>2, <1>3, <1>4, <1>5 DEF QInv, QueueTyped, QueuesTyped, TasksTyped, PlacesTyped
<1> QED
  BY <1>2, <1>3, <1>4, <1>6

LEMMA BeginKeepsQ == ASSUME QInv, NEW t \in Tasks, Begin(t) PROVE QInv'
<1>1. /\ UNCHANGED <<plan, queue, joined, msgs>> /\ Listening /\ task[t].state = "new"
      /\ task' = [task EXCEPT ![t] = [state |-> "running", at |-> Nowhere]]
      /\ place' = [place EXCEPT ![t] = [NoPlace EXCEPT !.stage = "wait"]]
  BY DEF Begin, StartPlacing, capVars
<1>2. Tasks' = Tasks /\ \A u : Agent(u)' = Agent(u) /\ Phase(u)' = Phase(u)
  BY <1>1, PlanStays
<1>3. /\ DOMAIN task' = Tasks /\ task'[t] = [state |-> "running", at |-> Nowhere]
      /\ DOMAIN place' = Tasks /\ place'[t] = [NoPlace EXCEPT !.stage = "wait"]
      /\ \A u \in Tasks : u # t => task'[u] = task[u] /\ place'[u] = place[u]
  BY <1>1 DEF QInv, QueueTyped, QueuesTyped, TasksTyped, PlacesTyped
<1>4. QueueTyped'
  BY <1>1, <1>2, <1>3, NoPlaceIsNone DEF QInv, QueueTyped, QueuesTyped, TasksTyped, PlacesTyped, States, Stages
<1>5. /\ TurnTyped'
      /\ \A u : InHand(u)' <=> u = t /\ ~Agent(t)
      /\ ~Agent(t) => turn'.resumed = FALSE
  <2>1. CASE Agent(t)
    BY <1>1, <1>4, <2>1, ThenDrainEnds DEF Begin
  <2>2. CASE ~Agent(t)
    <3>1. turn' = [kind |-> "place", task |-> t, resumed |-> FALSE, left |-> 0]
      BY <2>2 DEF Begin, Placing
    <3> QED
      BY <1>2, <2>2, <3>1 DEF TurnTyped, InHand
  <2> QED
    BY <2>1, <2>2
<1>6. \A u : ~InHand(u)
  BY <1>1 DEF InHand, Listening
<1>7. ASSUME NEW u \in Tasks, u # t PROVE LaunchIsAt(u)'
  BY <1>1, <1>2, <1>3, <1>5, <1>6, <1>7 DEF QInv, LaunchIsAt, Placed, Failing, Deferring
<1>8. LaunchIsAt(t)'
  <2>1. ~Contains(queue, t) /\ ~Failing(t) /\ ~Deferring(t)
    BY <1>1 DEF QInv, LaunchIsAt
  <2> QED
    BY <1>1, <1>2, <1>3, <1>5, <2>1, NoPlaceIsNone DEF LaunchIsAt, Placed, Failing, Deferring
<1> QED
  BY <1>2, <1>4, <1>5, <1>7, <1>8 DEF QInv

LEMMA CommandPlacedKeepsQ == ASSUME QInv, CommandPlaced PROVE QInv'
<1> DEFINE c == turn.task
<1>1. /\ c \in Tasks /\ ~Agent(c) /\ turn.resumed \in BOOLEAN /\ turn.left \in Nat
      /\ turn.resumed => turn.left <= Len(queue)
      /\ \A u : InHand(u) <=> u = c
  BY DEF CommandPlaced, QInv, TurnTyped, InHand
<1>2. /\ plan' = plan /\ place' = [place EXCEPT ![c] = NoPlace]
      /\ place[c].result \in {"ok", "full", "error"} /\ Placed(c)
  BY <1>1 DEF CommandPlaced, Release, capVars, QInv, QueueTyped, QueuesTyped, TasksTyped, PlacesTyped, Placed
<1>3. /\ DOMAIN place' = Tasks /\ place'[c] = NoPlace
      /\ \A u \in Tasks : u # c => place'[u] = place[u]
  BY <1>1, <1>2 DEF QInv, QueueTyped, QueuesTyped, TasksTyped, PlacesTyped
<1>4. Tasks' = Tasks /\ \A u : Agent(u)' = Agent(u) /\ Phase(u)' = Phase(u)
  BY <1>2, PlanStays
<1>5. /\ ~Contains(queue, c) /\ ~Failing(c) /\ ~Deferring(c)
      /\ task[c].state = IF turn.resumed THEN "pending" ELSE "running"
      /\ task[c].state = "pending" => Contains(joined, c)
  BY <1>1, <1>2 DEF QInv, LaunchIsAt
<1>6. \A u : Contains(queue', u) => Contains(queue, u) \/ u = c
  <2>1. CASE queue' = queue
    BY <2>1
  <2>2. CASE queue' = Enqueue(queue, c)
    BY <1>1, <1>5, <2>2, EnqueueKeeps DEF QInv, QueueTyped, QueuesTyped, TasksTyped, PlacesTyped, Distinct
  <2> QED
    BY <1>2, <2>1, <2>2 DEF CommandPlaced, Defer, Requeued
\* The three ways a placement ends.
<1>7. CASE place[c].result = "ok"
  <2>1. /\ task' = [task EXCEPT ![c] = [state |-> "running", at |-> place[c].node]]
        /\ joined' = Retain(joined, Tasks \ {c}) /\ UNCHANGED <<queue, msgs>>
        /\ turn' = Draining(IF turn.resumed THEN turn.left ELSE Len(queue'))
    BY <1>1, <1>7 DEF CommandPlaced
  <2>2. /\ joined' \in Seq(Tasks) /\ Distinct(joined')
        /\ \A u : Contains(joined', u) <=> Contains(joined, u) /\ u \in Tasks \ {c}
    BY <2>1, RetainKeeps DEF QInv, QueueTyped, QueuesTyped, TasksTyped, PlacesTyped
  <2>3. /\ DOMAIN task' = Tasks /\ task'[c] = [state |-> "running", at |-> place[c].node]
        /\ \A u \in Tasks : u # c => task'[u] = task[u]
    BY <1>1, <2>1 DEF QInv, QueueTyped, QueuesTyped, TasksTyped, PlacesTyped
  <2>4. QueueTyped'
    BY <1>3, <1>4, <2>1, <2>2, <2>3, NoPlaceIsNone DEF QInv, QueueTyped, QueuesTyped, TasksTyped, PlacesTyped, States, Stages
  <2>5. TurnTyped' /\ \A u : ~InHand(u)'
    <3>1. Len(queue') \in Nat
      BY <2>4 DEF QueueTyped, QueuesTyped, TasksTyped, PlacesTyped
    <3>2. \E n \in Nat : n <= Len(queue') /\ turn' = Draining(n)
      BY <1>1, <2>1, <3>1
    <3> QED
      BY <1>2, <2>4, <3>2, TurnEnds
  <2>6. ASSUME NEW u \in Tasks PROVE LaunchIsAt(u)'
    <3>1. CASE u = c
      BY <1>3, <1>4, <1>5, <2>1, <2>3, <2>5, <3>1, NoPlaceIsNone
         DEF LaunchIsAt, Placed, Failing, Deferring
    <3>2. CASE u # c
      BY <1>1, <1>3, <1>4, <2>1, <2>2, <2>3, <2>5, <3>2
         DEF QInv, LaunchIsAt, Placed, Failing, Deferring
    <3> QED
      BY <3>1, <3>2
  <2> QED
    BY <1>4, <2>4, <2>5, <2>6 DEF QInv
<1>8. CASE place[c].result = "error"
  <2>1. /\ UNCHANGED <<task, queue, joined>> /\ msgs' = msgs \cup {<<"unlaunched", c>>}
        /\ turn' = Draining(IF turn.resumed THEN turn.left ELSE Len(queue'))
    BY <1>1, <1>8 DEF CommandPlaced, Say
  <2>2. QueueTyped'
    BY <1>3, <1>4, <2>1, NoPlaceIsNone DEF QInv, QueueTyped, QueuesTyped, TasksTyped, PlacesTyped, Stages
  <2>3. TurnTyped' /\ \A u : ~InHand(u)'
    <3>1. Len(queue') \in Nat
      BY <2>2 DEF QueueTyped, QueuesTyped, TasksTyped, PlacesTyped
    <3>2. \E n \in Nat : n <= Len(queue') /\ turn' = Draining(n)
      BY <1>1, <2>1, <3>1
    <3> QED
      BY <1>2, <2>2, <3>2, TurnEnds
  <2>4. ASSUME NEW u \in Tasks PROVE LaunchIsAt(u)'
    <3>1. CASE u = c
      BY <1>1, <1>3, <1>4, <1>5, <2>1, <2>3, <3>1, NoPlaceIsNone
         DEF LaunchIsAt, Placed, Failing, Deferring
    <3>2. CASE u # c
      <4>1. Failing(u)' = Failing(u) /\ Deferring(u)' = Deferring(u) /\ Placed(u)' = Placed(u)
        BY <1>3, <2>1, <3>2 DEF Failing, Deferring, Placed
      <4> QED
        BY <1>1, <1>4, <2>1, <2>3, <3>2, <4>1 DEF QInv, LaunchIsAt
    <3> QED
      BY <3>1, <3>2
  <2> QED
    BY <1>4, <2>2, <2>3, <2>4 DEF QInv
<1>9. CASE place[c].result = "full"
  <2>1. /\ msgs' = msgs /\ queue' = Enqueue(queue, c)
        /\ IF turn.resumed THEN UNCHANGED <<task, joined>> ELSE Defer(c)
        /\ turn' = IF turn.resumed THEN Idle ELSE Draining(Len(queue'))
    BY <1>1, <1>9 DEF CommandPlaced, Requeued, Defer
  <2>2. /\ queue' \in Seq(Tasks) /\ Distinct(queue')
        /\ \A u : Contains(queue', u) <=> Contains(queue, u) \/ u = c
    BY <1>1, <1>5, <2>1, EnqueueKeeps DEF QInv, QueueTyped, QueuesTyped, TasksTyped, PlacesTyped, Distinct
  <2>3. /\ joined' \in Seq(Tasks) /\ Distinct(joined') /\ Contains(joined', c)
        /\ \A u : Contains(joined, u) => Contains(joined', u)
    <3>1. CASE turn.resumed
      BY <1>5, <2>1, <3>1 DEF QInv, QueueTyped, QueuesTyped, TasksTyped, PlacesTyped
    <3>2. CASE ~turn.resumed
      <4>1. joined' = IF Contains(joined, c) THEN joined ELSE Append(joined, c)
        BY <2>1, <3>2 DEF Defer
      <4> QED
        BY <1>1, <4>1, AppendKeeps DEF QInv, QueueTyped, QueuesTyped, TasksTyped, PlacesTyped
    <3> QED
      BY <3>1, <3>2
  <2>4. /\ DOMAIN task' = Tasks /\ DOMAIN task'[c] = {"state", "at"}
        /\ task'[c].state = "pending"
        /\ \A u \in Tasks : u # c => task'[u] = task[u]
    BY <1>1, <1>5, <2>1 DEF QInv, QueueTyped, QueuesTyped, TasksTyped, PlacesTyped, Defer
  <2>5. QueueTyped'
    <3>1. \A u \in Tasks : DOMAIN task'[u] = {"state", "at"} /\ task'[u].state \in States
      BY <2>4 DEF QInv, QueueTyped, QueuesTyped, TasksTyped, PlacesTyped, States
    <3>3. /\ queue' \in Seq(Tasks) /\ Distinct(queue')
          /\ joined' \in Seq(Tasks) /\ Distinct(joined')
          /\ DOMAIN task' = Tasks /\ DOMAIN place' = Tasks
      BY <1>3, <2>2, <2>3, <2>4
    <3>4. Tasks' = Tasks
      BY <1>4
    <3>5. TasksTyped'
      BY <3>1, <3>3, <3>4 DEF TasksTyped
    <3>6. PlacesTyped'
      BY <1>3, <3>4, NoPlaceIsNone DEF QInv, QueueTyped, PlacesTyped, Stages
    <3>7. QueuesTyped'
      BY <3>3, <3>4 DEF QueuesTyped
    <3> QED
      BY <3>5, <3>6, <3>7 DEF QueueTyped
  <2>6. TurnTyped' /\ \A u : ~InHand(u)'
    <3>1. Len(queue') \in Nat
      BY <2>2
    <3>2. turn' = Idle \/ \E n \in Nat : n <= Len(queue') /\ turn' = Draining(n)
      BY <1>1, <2>1, <3>1
    <3> QED
      BY <1>2, <2>5, <3>2, TurnEnds
  <2>7. ASSUME NEW u \in Tasks PROVE LaunchIsAt(u)'
    <3>1. CASE u = c
      BY <1>1, <1>3, <1>4, <1>5, <2>1, <2>2, <2>3, <2>4, <2>6, <3>1, NoPlaceIsNone
         DEF LaunchIsAt, Placed, Failing, Deferring
    <3>2. CASE u # c
      BY <1>1, <1>3, <1>4, <2>1, <2>2, <2>3, <2>4, <2>6, <3>2
         DEF QInv, LaunchIsAt, Placed, Failing, Deferring
    <3> QED
      BY <3>1, <3>2
  <2> QED
    BY <1>4, <2>5, <2>6, <2>7 DEF QInv
<1> QED
  BY <1>2, <1>7, <1>8, <1>9
\* A handler that leaves the queue and the placements alone: tasks end or stay as
\* they were, messages are taken, and an evaluator whose failed launch is taken
\* note of is not Pending any more.
LEMMA HandledKeepsQ ==
  ASSUME QInv, UNCHANGED <<plan, queue, joined, place>>, Listening, ThenDrain,
         msgs' \subseteq msgs, DOMAIN task' = Tasks,
         \A u \in Tasks : /\ DOMAIN task'[u] = {"state", "at"}
                          /\ \/ task'[u].state = task[u].state
                             \/ task'[u].state \in {"done", "failed"}
                          /\ Phase(u) = "eval" /\ task'[u].state = "pending" /\ Failing(u)
                               => Failing(u)'
  PROVE  QInv'
<1>1. Tasks' = Tasks /\ \A u : Agent(u)' = Agent(u) /\ Phase(u)' = Phase(u)
  BY PlanStays
<1>2. Tasks' = Tasks
  BY <1>1
<1>3. QueueTyped'
  <2>1. TasksTyped'
    BY <1>2 DEF QInv, QueueTyped, TasksTyped, States
  <2>2. QueuesTyped' /\ PlacesTyped'
    BY <1>2 DEF QInv, QueueTyped, QueuesTyped, PlacesTyped
  <2> QED
    BY <2>1, <2>2 DEF QueueTyped
<1>4. TurnTyped' /\ \A u : ~InHand(u)'
  BY <1>3, ThenDrainEnds
<1>5. \A u : ~InHand(u)
  BY DEF InHand, Listening
<1>6. ASSUME NEW u \in Tasks PROVE LaunchIsAt(u)'
  <2>1. /\ Placed(u)' = Placed(u) /\ (Failing(u)' => Failing(u)) /\ (Deferring(u)' => Deferring(u))
        /\ LaunchIsAt(u)
    BY DEF Placed, Failing, Deferring, QInv
  <2> QED
    BY <1>1, <1>4, <1>5, <2>1 DEF LaunchIsAt
<1> QED
  BY <1>2, <1>3, <1>4, <1>6 DEF QInv

\* The task a handler settles: the record of one task is replaced.
LEMMA SettledIs ==
  ASSUME QInv, NEW t \in Tasks, NEW r, DOMAIN r = {"state", "at"},
         r.state = task[t].state \/ r.state \in {"done", "failed"},
         task' = [task EXCEPT ![t] = r]
  PROVE  /\ DOMAIN task' = Tasks /\ task'[t] = r
         /\ \A u \in Tasks : /\ DOMAIN task'[u] = {"state", "at"}
                             /\ \/ task'[u].state = task[u].state
                                \/ task'[u].state \in {"done", "failed"}
BY DEF QInv, QueueTyped, TasksTyped

LEMMA HandleExitKeepsQ ==
  ASSUME QInv, NEW t \in Tasks, NEW what \in {"exit", "unlaunched"}, HandleExit(t, what)
  PROVE  QInv'
<1>1. /\ UNCHANGED <<plan, queue, joined, place>> /\ Listening /\ ThenDrain
      /\ msgs' = msgs \ {<<what, t>>}
      /\ task' = IF Accepts(t) THEN [task EXCEPT ![t] = Over(t, what)] ELSE task
  BY DEF HandleExit, capVars, handled
<1>2. DOMAIN Over(t, what) = {"state", "at"} /\ Over(t, what).state \in {"done", "failed"}
  BY DEF Over
<1>3. /\ DOMAIN task' = Tasks
      /\ \A u \in Tasks : /\ DOMAIN task'[u] = {"state", "at"}
                          /\ \/ task'[u].state = task[u].state
                             \/ task'[u].state \in {"done", "failed"}
  BY <1>1, <1>2, SettledIs DEF QInv, QueueTyped, TasksTyped
<1>4. ASSUME NEW u \in Tasks, Phase(u) = "eval", task'[u].state = "pending", Failing(u)
      PROVE  Failing(u)'
  <2>1. u # t
    <3> SUFFICES ASSUME u = t PROVE FALSE
      OBVIOUS
    <3>1. CASE Accepts(t)
      BY <1>1, <1>2, <1>4, <3>1 DEF QInv, QueueTyped, TasksTyped
    <3>2. CASE ~Accepts(t)
      BY <1>1, <1>4, <3>2 DEF Accepts
    <3> QED
      BY <3>1, <3>2
  <2> QED
    BY <1>1, <1>4, <2>1 DEF Failing
<1> QED
  BY <1>1, <1>3, <1>4, HandledKeepsQ

LEMMA HandleStartedKeepsQ ==
  ASSUME QInv, NEW t \in Tasks, NEW n \in Nodes, HandleStarted(t, n) PROVE QInv'
<1>1. /\ UNCHANGED <<plan, queue, joined, place>> /\ Listening /\ ThenDrain
      /\ msgs' = msgs \ {<<"started", t, n>>}
      /\ task' = task \/ task' = [task EXCEPT ![t].at = n]
  BY DEF HandleStarted, capVars, handled
<1>2. /\ DOMAIN task' = Tasks
      /\ \A u \in Tasks : DOMAIN task'[u] = {"state", "at"} /\ task'[u].state = task[u].state
  BY <1>1 DEF QInv, QueueTyped, TasksTyped
<1>3. \A u : Failing(u)' = Failing(u)
  BY <1>1 DEF Failing
<1> QED
  BY <1>1, <1>2, <1>3, HandledKeepsQ

LEMMA RevokeKeepsQ == ASSUME QInv, NEW t \in Tasks, Revoke(t) PROVE QInv'
<1> DEFINE r == [state |-> "failed", at |-> Nowhere]
<1>1. /\ UNCHANGED <<plan, queue, joined, place, msgs>> /\ Listening /\ ThenDrain
      /\ task' = [task EXCEPT ![t] = r]
  BY DEF Revoke, capVars
<1>2. DOMAIN r = {"state", "at"} /\ r.state \in {"done", "failed"}
  OBVIOUS
<1> HIDE DEF r
<1>3. /\ DOMAIN task' = Tasks
      /\ \A u \in Tasks : /\ DOMAIN task'[u] = {"state", "at"}
                          /\ \/ task'[u].state = task[u].state
                             \/ task'[u].state \in {"done", "failed"}
  BY <1>1, <1>2, SettledIs
<1>4. \A u : Failing(u)' = Failing(u)
  BY <1>1 DEF Failing
<1> QED
  BY <1>1, <1>3, <1>4, HandledKeepsQ

LEMMA HandleCapacityKeepsQ == ASSUME QInv, HandleCapacity PROVE QInv'
<1>1. UNCHANGED <<plan, queue, joined, place, msgs, task>> /\ Listening /\ ThenDrain
  BY DEF HandleCapacity, HearAnnounce, CapacityPushed, SetNodeCapacity, handled
<1>2. \A u : Failing(u)' = Failing(u)
  BY <1>1 DEF Failing
<1> QED
  BY <1>1, <1>2, HandledKeepsQ DEF QInv, QueueTyped, TasksTyped
LEMMA HandleDeferredKeepsQ == ASSUME QInv, NEW t \in Tasks, HandleDeferred(t) PROVE QInv'
<1>1. /\ UNCHANGED <<plan, place>> /\ Listening /\ ThenDrain /\ Deferring(t)
      /\ msgs' = msgs \ {<<"deferred", t>>}
  BY DEF HandleDeferred, capVars, Deferring
<1>2. Tasks' = Tasks /\ \A u : Agent(u)' = Agent(u) /\ Phase(u)' = Phase(u)
  BY <1>1, PlanStays
<1>3. CASE task[t].state # "running"
  <2>1. UNCHANGED <<task, queue, joined>>
    BY <1>3 DEF HandleDeferred
  <2>2. \A u : Failing(u)' = Failing(u)
    BY <1>1 DEF Failing
  <2> QED
    BY <1>1, <2>1, <2>2, HandledKeepsQ DEF QInv, QueueTyped, TasksTyped
<1>4. CASE task[t].state = "running"
  <2>1. Defer(t) /\ ~Contains(queue, t) /\ ~Placed(t) /\ ~Failing(t)
    BY <1>1, <1>4 DEF HandleDeferred, QInv, LaunchIsAt
  <2>2. /\ QueueTyped' /\ Contains(joined', t)
        /\ \A u : Contains(queue', u) <=> Contains(queue, u) \/ u = t
        /\ \A u : Contains(joined, u) => Contains(joined', u)
        /\ task'[t].state = "pending" /\ \A u \in Tasks : u # t => task'[u] = task[u]
    BY <1>1, <2>1, DeferKeeps
  <2>3. TurnTyped' /\ \A u : ~InHand(u)'
    BY <1>1, <2>2, ThenDrainEnds
  <2>4. \A u : ~InHand(u)
    BY <1>1 DEF InHand, Listening
  <2>5. \A u \in Tasks : /\ Placed(u)' = Placed(u) /\ Failing(u)' = Failing(u)
                         /\ Deferring(u)' = (Deferring(u) /\ u # t)
    BY <1>1 DEF Placed, Failing, Deferring
  <2>6. ASSUME NEW u \in Tasks PROVE LaunchIsAt(u)'
    <3>1. CASE u = t
      BY <1>1, <1>2, <2>1, <2>2, <2>3, <2>4, <2>5, <3>1 DEF QInv, LaunchIsAt
    <3>2. CASE u # t
      BY <1>1, <1>2, <2>2, <2>3, <2>4, <2>5, <3>2 DEF QInv, LaunchIsAt
    <3> QED
      BY <3>1, <3>2
  <2> QED
    BY <1>2, <2>2, <2>3, <2>6 DEF QInv
<1> QED
  BY <1>3, <1>4

\* The scan expires what outwaited the queue and takes it out.
LEMMA ScanKeepsQ == ASSUME QInv, Scan PROVE QInv'
<1> DEFINE overdue == {t \in late : Queued(t)}
<1>1. /\ UNCHANGED <<plan, place, msgs, joined>> /\ Listening /\ ThenDrain
      /\ ExpireAll(overdue) /\ queue' = Retain(queue, Tasks \ overdue)
  BY DEF Scan, CapacityScan, handled
<1>2. Tasks' = Tasks /\ \A u : Agent(u)' = Agent(u) /\ Phase(u)' = Phase(u)
  BY <1>1, PlanStays
<1>3. /\ queue' \in Seq(Tasks) /\ Distinct(queue')
      /\ \A u : Contains(queue', u) <=> Contains(queue, u) /\ u \in Tasks \ overdue
  BY <1>1, RetainKeeps DEF QInv, QueueTyped, QueuesTyped
<1>4. /\ DOMAIN task' = Tasks
      /\ \A u \in Tasks :
           IF u \in overdue /\ task[u].state = "pending"
           THEN task'[u] = [state |-> "failed", at |-> Nowhere] ELSE task'[u] = task[u]
  BY <1>1 DEF ExpireAll
<1> HIDE DEF overdue
<1>5. QueueTyped'
  <2>1. Tasks' = Tasks
    BY <1>2
  <2>2. TasksTyped'
    BY <1>4, <2>1 DEF QInv, QueueTyped, TasksTyped, States
  <2>3. QueuesTyped' /\ PlacesTyped'
    BY <1>1, <1>3, <2>1 DEF QInv, QueueTyped, QueuesTyped, PlacesTyped
  <2> QED
    BY <2>2, <2>3 DEF QueueTyped
<1>6. TurnTyped' /\ \A u : ~InHand(u)'
  BY <1>1, <1>5, ThenDrainEnds
<1>7. \A u : ~InHand(u)
  BY <1>1 DEF InHand, Listening
<1>8. ASSUME NEW u \in Tasks PROVE LaunchIsAt(u)'
  <2>1. /\ Placed(u)' = Placed(u) /\ Failing(u)' = Failing(u) /\ Deferring(u)' = Deferring(u)
        /\ LaunchIsAt(u)
    BY <1>1 DEF Placed, Failing, Deferring, QInv
  <2> QED
    <3>1. CASE u \in overdue /\ task[u].state = "pending"
      <4>1. task'[u].state = "failed" /\ ~Contains(queue', u)
        BY <1>3, <1>4, <3>1
      <4> QED
        BY <1>1, <1>2, <1>6, <1>7, <2>1, <4>1 DEF LaunchIsAt
    <3>2. CASE ~(u \in overdue /\ task[u].state = "pending")
      <4>1. task'[u] = task[u]
        BY <1>4, <3>2
      <4> QED
        BY <1>1, <1>2, <1>3, <1>6, <1>7, <2>1, <3>2, <4>1 DEF LaunchIsAt
    <3> QED
      BY <3>1, <3>2
<1> QED
  BY <1>2, <1>5, <1>6, <1>8 DEF QInv

\* One entry of the queue is taken: it has expired or its task is over, and goes,
\* or it is placed.
LEMMA DrainOneKeepsQ == ASSUME QInv, DrainOne PROVE QInv'
<1> DEFINE t == Head(queue)
<1>1. UNCHANGED <<plan, joined, msgs>> /\ queue' = Tail(queue) /\ turn.kind = "drain"
  BY DEF DrainOne, capVars
<1>2. /\ turn.left \in Nat /\ turn.left > 0 /\ turn.left <= Len(queue) /\ Len(queue) \in Nat
      /\ Len(queue) > 0
  BY <1>1 DEF QInv, TurnTyped, QueueTyped, QueuesTyped
<1>3. /\ t \in Tasks /\ Contains(queue, t)
      /\ queue' \in Seq(Tasks) /\ Distinct(queue') /\ Len(queue') = Len(queue) - 1
      /\ \A u : Contains(queue', u) <=> Contains(queue, u) /\ u # t
  BY <1>1, <1>2, PopKeeps DEF QInv, QueueTyped, QueuesTyped
<1>4. Tasks' = Tasks /\ \A u : Agent(u)' = Agent(u) /\ Phase(u)' = Phase(u)
  BY <1>1, PlanStays
<1>5. /\ ~Placed(t) /\ ~Failing(t) /\ ~Deferring(t)
      /\ task[t].state \notin {"new", "running"}
      /\ \A u : ~InHand(u)
  BY <1>1, <1>3 DEF QInv, LaunchIsAt, InHand
<1>6. /\ turn.left - 1 \in Nat /\ turn.left - 1 <= Len(queue')
  BY <1>2, <1>3
<1>7. \A u \in Tasks : Failing(u)' = Failing(u) /\ Deferring(u)' = Deferring(u)
  BY <1>1 DEF Failing, Deferring
<1> HIDE DEF t
<1>8. Tasks' = Tasks
  BY <1>4
<1>9. QueuesTyped'
  BY <1>1, <1>3, <1>8 DEF QInv, QueueTyped, QueuesTyped
\* The entry goes.
<1>10. ASSUME UNCHANGED place, turn' = Draining(turn.left - 1), task'[t].state \notin {"pending", "new"},
              DOMAIN task' = Tasks, DOMAIN task'[t] = {"state", "at"}, task'[t].state \in States,
              \A u \in Tasks : u # t => task'[u] = task[u]
       PROVE  QInv'
  <2>1. QueueTyped'
    <3>1. TasksTyped'
      BY <1>8, <1>10 DEF QInv, QueueTyped, TasksTyped
    <3>2. PlacesTyped'
      BY <1>8, <1>10 DEF QInv, QueueTyped, PlacesTyped
    <3> QED
      BY <1>9, <3>1, <3>2 DEF QueueTyped
  <2>2. TurnTyped' /\ \A u : ~InHand(u)'
    BY <1>1, <1>6, <1>10, <2>1, TurnEnds
  <2>3. ASSUME NEW u \in Tasks PROVE LaunchIsAt(u)'
    <3>1. Placed(u)' = Placed(u) /\ LaunchIsAt(u)
      BY <1>10 DEF Placed, QInv
    <3> QED
      BY <1>1, <1>3, <1>4, <1>5, <1>7, <1>10, <2>2, <3>1 DEF LaunchIsAt
  <2> QED
    BY <1>4, <2>1, <2>2, <2>3 DEF QInv
<1>11. CASE Overdue(t)
  <2>1. UNCHANGED place /\ ExpireAll({t}) /\ turn' = Draining(turn.left - 1)
    BY <1>11 DEF DrainOne, t
  <2>2. /\ DOMAIN task' = Tasks
        /\ \A u \in Tasks : IF u = t /\ task[u].state = "pending"
                            THEN task'[u] = [state |-> "failed", at |-> Nowhere]
                            ELSE task'[u] = task[u]
    BY <2>1 DEF ExpireAll
  <2>3. /\ DOMAIN task'[t] = {"state", "at"} /\ task'[t].state \in States
        /\ task'[t].state \notin {"pending", "new"}
    BY <1>3, <1>5, <2>2 DEF QInv, QueueTyped, TasksTyped, States
  <2> QED
    BY <1>10, <2>1, <2>2, <2>3
<1>12. CASE ~Overdue(t) /\ task[t].state # "pending"
  <2>1. UNCHANGED <<place, task>> /\ turn' = Draining(turn.left - 1)
    BY <1>12 DEF DrainOne, t
  <2> QED
    BY <1>3, <1>5, <1>10, <1>12, <2>1 DEF QInv, QueueTyped, TasksTyped
\* Its launch is tried.
<1>13. ASSUME StartPlacing(t), task[t].state = "pending",
              task'[t].state = IF Agent(t) THEN "running" ELSE "pending",
              DOMAIN task' = Tasks, DOMAIN task'[t] = {"state", "at"},
              \A u \in Tasks : u # t => task'[u] = task[u],
              turn' = IF Agent(t) THEN Idle ELSE Placing(t, TRUE, turn.left - 1)
       PROVE  QInv'
  <2>1. /\ DOMAIN place' = Tasks /\ place'[t] = [NoPlace EXCEPT !.stage = "wait"]
        /\ \A u \in Tasks : u # t => place'[u] = place[u]
    BY <1>3, <1>13 DEF StartPlacing, QInv, QueueTyped, PlacesTyped
  <2>2. QueueTyped'
    <3>1. TasksTyped'
      BY <1>8, <1>13 DEF QInv, QueueTyped, TasksTyped, States
    <3>2. PlacesTyped'
      BY <1>8, <2>1, NoPlaceIsNone DEF QInv, QueueTyped, PlacesTyped, Stages
    <3> QED
      BY <1>9, <3>1, <3>2 DEF QueueTyped
  <2>3. /\ TurnTyped' /\ \A u : InHand(u)' <=> u = t /\ ~Agent(t)
        /\ ~Agent(t) => turn'.resumed = TRUE
    <3>1. CASE Agent(t)
      BY <1>1, <1>13, <2>2, <3>1, TurnEnds
    <3>2. CASE ~Agent(t)
      <4>1. turn' = [kind |-> "place", task |-> t, resumed |-> TRUE, left |-> turn.left - 1]
        BY <1>13, <3>2 DEF Placing
      <4> QED
        BY <1>3, <1>4, <1>6, <3>2, <4>1 DEF TurnTyped, InHand
    <3> QED
      BY <3>1, <3>2
  <2>4. ASSUME NEW u \in Tasks, u # t PROVE LaunchIsAt(u)'
    <3>1. Placed(u)' = Placed(u) /\ LaunchIsAt(u)
      BY <2>1, <2>4 DEF Placed, QInv
    <3> QED
      BY <1>1, <1>3, <1>4, <1>5, <1>7, <1>13, <2>3, <2>4, <3>1 DEF LaunchIsAt
  <2>5. ASSUME NEW u \in Tasks, u = t PROVE LaunchIsAt(u)'
    <3>1. Placed(u)' /\ LaunchIsAt(u)
      BY <1>3, <2>1, <2>5, NoPlaceIsNone DEF Placed, QInv
    <3> QED
      BY <1>1, <1>3, <1>4, <1>5, <1>7, <1>13, <2>3, <2>5, <3>1 DEF LaunchIsAt
  <2> QED
    BY <1>4, <2>2, <2>3, <2>4, <2>5 DEF QInv
<1>14. CASE ~Overdue(t) /\ task[t].state = "pending"
  <2>1. CASE Agent(t)
    <3>1. /\ StartPlacing(t) /\ task' = [task EXCEPT ![t].state = "running"] /\ turn' = Idle
      BY <1>14, <2>1 DEF DrainOne, t
    <3> QED
      BY <1>3, <1>13, <1>14, <2>1, <3>1 DEF QInv, QueueTyped, TasksTyped
  <2>2. CASE ~Agent(t)
    <3>1. /\ StartPlacing(t) /\ task' = task /\ turn' = Placing(t, TRUE, turn.left - 1)
      BY <1>14, <2>2 DEF DrainOne, t
    <3> QED
      BY <1>3, <1>13, <1>14, <2>2, <3>1 DEF QInv, QueueTyped, TasksTyped
  <2> QED
    BY <2>1, <2>2
<1> QED
  BY <1>11, <1>12, <1>14
\* A restart keeps what is Pending, as the queue, and forgets every placement.
LEMMA RestartKeepsQ == ASSUME QInv, Restart PROVE QInv'
<1> DEFINE parked == {t \in Tasks : task'[t].state = "pending"}
<1>1. /\ plan' = plan /\ ThenDrain /\ msgs' = {}
      /\ task' = [t \in Tasks |-> Recovered(t)] /\ place' = [t \in Tasks |-> NoPlace]
      /\ queue' = Retain(joined, parked) /\ joined' = queue'
  BY DEF Restart, CapacityRestart
<1>2. Tasks' = Tasks /\ \A u : Agent(u)' = Agent(u) /\ Phase(u)' = Phase(u)
  BY <1>1, PlanStays
<1>3. Tasks' = Tasks
  BY <1>2
<1>4. ASSUME NEW u \in Tasks
      PROVE  /\ DOMAIN task'[u] = {"state", "at"} /\ task'[u].state \in States
             /\ task'[u].state = "pending" => Contains(joined, u)
             /\ task'[u] = Recovered(u)
  <2>1. DOMAIN task[u] = {"state", "at"} /\ task[u].state \in States /\ LaunchIsAt(u)
    BY DEF QInv, QueueTyped, TasksTyped
  <2>2. task'[u] = Recovered(u)
    BY <1>1
  <2>3. Recovered(u) = task[u] \/ Recovered(u) = [state |-> "new", at |-> Nowhere]
          \/ Recovered(u) = [state |-> "failed", at |-> Nowhere]
    BY <2>1 DEF Recovered, States
  <2>4. CASE Recovered(u) = task[u]
    BY <2>1, <2>2, <2>4 DEF LaunchIsAt
  <2>5. CASE Recovered(u) = [state |-> "new", at |-> Nowhere]
    BY <2>2, <2>5 DEF States
  <2>6. CASE Recovered(u) = [state |-> "failed", at |-> Nowhere]
    BY <2>2, <2>6 DEF States
  <2> QED
    BY <2>2, <2>3, <2>4, <2>5, <2>6
<1>5. /\ queue' \in Seq(Tasks) /\ Distinct(queue')
      /\ \A u : Contains(queue', u) <=> Contains(joined, u) /\ u \in parked
  BY <1>1, RetainKeeps DEF QInv, QueueTyped, QueuesTyped
<1>6. QueueTyped'
  <2>1. TasksTyped'
    BY <1>1, <1>3, <1>4 DEF TasksTyped
  <2>2. PlacesTyped'
    BY <1>1, <1>3, NoPlaceIsNone DEF PlacesTyped, Stages
  <2>3. QueuesTyped'
    BY <1>1, <1>3, <1>5 DEF QueuesTyped
  <2> QED
    BY <2>1, <2>2, <2>3 DEF QueueTyped
<1>7. TurnTyped' /\ \A u : ~InHand(u)'
  BY <1>1, <1>6, ThenDrainEnds
<1>8. ASSUME NEW u \in Tasks PROVE LaunchIsAt(u)'
  <2>1. ~Placed(u)' /\ ~Failing(u)' /\ ~Deferring(u)'
    BY <1>1, NoPlaceIsNone DEF Placed, Failing, Deferring
  <2>2. task'[u].state = "pending" <=> Contains(queue', u)
    BY <1>4, <1>5
  <2> QED
    BY <1>1, <1>7, <2>1, <2>2 DEF LaunchIsAt
<1> QED
  BY <1>3, <1>6, <1>7, <1>8 DEF QInv

\* No step changes the fleet under study.
LEMMA NextKeepsPlan == [Next]_vars => plan' = plan
<1> SUFFICES ASSUME [Next]_vars PROVE plan' = plan
  OBVIOUS
<1>1. CASE Wire
  BY <1>1 DEF Wire, Daemons, StartDaemon, StopDaemon, DockerReturns, Announce, Lapse, LoseAnnounce,
     SetSlots, PushFails
<1>2. CASE \E t \in Tasks : Placement(t)
  BY <1>2 DEF Placement, TakeLock, SkipNode, Ping, ReadLoad, Choose, LaunchRpc, AgentPlaced, capVars
<1>3. CASE \E t \in Tasks : Begin(t) \/ Handle(t) \/ Outwait(t) \/ Revoke(t)
  BY <1>3 DEF Begin, Handle, HandleExit, HandleStarted, HandleDeferred, Outwait, Revoke, capVars
<1>4. CASE \E t \in Tasks, n \in Nodes : BoxEnds(t, n)
  BY <1>4 DEF BoxEnds, capVars
<1>5. CASE CommandPlaced \/ DrainOne
  BY <1>5 DEF CommandPlaced, DrainOne, capVars
<1>6. CASE HandleCapacity
  BY <1>6 DEF HandleCapacity, HearAnnounce, CapacityPushed, SetNodeCapacity
<1>7. CASE Scan \/ Restart
  BY <1>7 DEF Scan, CapacityScan, Restart, CapacityRestart
<1>8. CASE UNCHANGED vars
  BY <1>8 DEF vars, capVars
<1> QED
  BY <1>1, <1>2, <1>3, <1>4, <1>5, <1>6, <1>7, <1>8 DEF Next

LEMMA QInit == Init => QInv
<1> SUFFICES ASSUME Init PROVE QInv
  OBVIOUS
<1>1. /\ queue = <<>> /\ joined = <<>> /\ msgs = {} /\ turn = Idle
      /\ task = [t \in Tasks |-> [state |-> "new", at |-> Nowhere]]
      /\ place = [t \in Tasks |-> NoPlace]
  BY DEF Init
<1>2. \A u : ~Contains(queue, u)
  BY <1>1 DEF Contains
<1>3. QueueTyped
  <2>1. QueuesTyped
    BY <1>1 DEF QueuesTyped, Distinct
  <2>2. TasksTyped
    BY <1>1 DEF TasksTyped, States
  <2>3. PlacesTyped
    BY <1>1, NoPlaceIsNone DEF PlacesTyped, Stages
  <2> QED
    BY <2>1, <2>2, <2>3 DEF QueueTyped
<1>4. TurnTyped /\ \A u : ~InHand(u)
  BY <1>1 DEF TurnTyped, Idle, InHand
<1>5. ASSUME NEW u \in Tasks PROVE LaunchIsAt(u)
  <2>1. ~Placed(u) /\ ~Failing(u) /\ ~Deferring(u) /\ task[u].state = "new"
    BY <1>1, NoPlaceIsNone DEF Placed, Failing, Deferring
  <2> QED
    BY <1>2, <1>4, <2>1 DEF LaunchIsAt
<1> QED
  BY <1>3, <1>4, <1>5 DEF QInv

LEMMA QNext == QInv /\ [Next]_vars => QInv'
<1> SUFFICES ASSUME QInv, [Next]_vars PROVE QInv'
  OBVIOUS
<1>1. CASE Wire
  BY <1>1, NextKeepsPlan, ElsewhereKeepsQ DEF Next, Wire, launchVars, queueVars
<1>2. CASE \E t \in Tasks : Placement(t)
  BY <1>2, StepsOfPlacementKeepQ, AgentPlacedKeepsQ DEF Placement
<1>3. CASE \E t \in Tasks : Handle(t)
  BY <1>3, HandleExitKeepsQ, HandleStartedKeepsQ, HandleDeferredKeepsQ DEF Handle
<1>4. CASE \E t \in Tasks : Outwait(t)
  BY <1>4, ElsewhereKeepsQ DEF Outwait, capVars, queueVars
<1>5. CASE \E t \in Tasks, n \in Nodes : BoxEnds(t, n)
  <2>1. PICK t \in Tasks, n \in Nodes : BoxEnds(t, n)
    BY <1>5
  <2>2. UNCHANGED <<plan, task, queue, joined, place, turn>>
        /\ (msgs' = msgs \/ msgs' = msgs \cup {<<"exit", t>>})
    BY <2>1 DEF BoxEnds, capVars, Say
  <2>3. Tasks' = Tasks /\ \A u : Agent(u)' = Agent(u) /\ Phase(u)' = Phase(u)
    BY <2>2, PlanStays
  <2>4. \A u : Failing(u)' = Failing(u) /\ Deferring(u)' = Deferring(u)
    BY <2>2 DEF Failing, Deferring
  <2> QED
    BY <2>2, <2>3, <2>4 DEF QInv, QueueTyped, QueuesTyped, TasksTyped, PlacesTyped, TurnTyped,
       LaunchIsAt, Placed, InHand
<1>6. CASE UNCHANGED vars
  BY <1>6, ElsewhereKeepsQ DEF vars, capVars, launchVars, queueVars
<1> QED
  BY <1>1, <1>2, <1>3, <1>4, <1>5, <1>6, BeginKeepsQ, RevokeKeepsQ, CommandPlacedKeepsQ,
     DrainOneKeepsQ, HandleCapacityKeepsQ, ScanKeepsQ, RestartKeepsQ DEF Next

\* How often a launch is in the queue.
LEMMA EntriesIs ==
  ASSUME QInv, NEW t
  PROVE  Entries(t) = IF Contains(queue, t) THEN 1 ELSE 0
<1> DEFINE E == {i \in DOMAIN queue : queue[i] = t}
<1>1. DOMAIN queue = 1..Len(queue)
  BY DEF QInv, QueueTyped, QueuesTyped
<1>2. CASE Contains(queue, t)
  <2>1. PICK i \in 1..Len(queue) : queue[i] = t
    BY <1>2 DEF Contains
  <2>2. E = {i}
    BY <1>1, <2>1 DEF QInv, QueueTyped, QueuesTyped, Distinct
  <2> QED
    BY <1>2, <2>2, FS_Singleton DEF Entries
<1>3. CASE ~Contains(queue, t)
  <2>1. E = {}
    BY <1>1, <1>3 DEF Contains
  <2> QED
    BY <1>3, <2>1, FS_EmptySet DEF Entries
<1> QED
  BY <1>2, <1>3

\* A launch is at one place at a time: in the queue, being placed, or in a message
\* about its failure or its deferral.  A task that is not over is never launched
\* twice, however placements, drains, scans, revokes and restarts interleave.
AtOnePlace ==
  \A t \in Tasks :
    Entries(t) + (IF Placed(t) THEN 1 ELSE 0) + (IF Failing(t) THEN 1 ELSE 0)
               + (IF Deferring(t) THEN 1 ELSE 0) <= 1

\* No launch is in two places at once, in any fleet.
THEOREM LaunchesAtOnePlace == Spec => []AtOnePlace
<1>1. QInv => AtOnePlace
  BY EntriesIs DEF QInv, LaunchIsAt, AtOnePlace
<1> QED
  BY <1>1, QInit, QNext, PTL DEF Spec

\* The launches a restart or a failed placement cannot lose: an agent's, which is
\* Pending only in the queue, and an evaluator's, whose failure the actor takes note
\* of while it is Pending.
AllHeld == \A t \in Tasks : Agent(t) \/ Phase(t) = "eval"

\* A parked agent or evaluator is never forgotten: while it is Pending it is queued
\* exactly once, or in the actor's hand, or its failure is on the way.
THEOREM ParkedIsHeld ==
  ASSUME \A p \in Plans : \A t \in DOMAIN p.tasks : p.tasks[t].agent \/ p.tasks[t].phase = "eval"
  PROVE  Spec => []PendingIsHeld
<1>1. Init => plan \in Plans
  BY DEF Init, CapacityInit
<1>2. Init => AllHeld
  BY <1>1 DEF AllHeld, Tasks, Agent, Phase
<1>3. AllHeld /\ [Next]_vars => AllHeld'
  <2> SUFFICES ASSUME AllHeld, [Next]_vars PROVE AllHeld'
    OBVIOUS
  <2>1. plan' = plan
    BY NextKeepsPlan
  <2> QED
    BY <2>1 DEF AllHeld, Tasks, Agent, Phase
<1>4. QInv /\ AllHeld => PendingIsHeld
  BY EntriesIs DEF QInv, LaunchIsAt, PendingIsHeld, AllHeld, Failing
<1> QED
  BY <1>2, <1>3, <1>4, QInit, QNext, PTL DEF Spec
-----------------------------------------------------------------------------
(* The order of the queue.                                                  *)

\* A launch inserted before the first one of a higher class leaves the queue in the
\* order of the classes; what is popped or taken out leaves the rest in order.
LEMMA EnqueueClassed ==
  ASSUME NEW q \in Seq(Tasks), Classed(q), NEW t \in Tasks
  PROVE  Classed(Enqueue(q, t))
<1> DEFINE S == {u \in Tasks : Class(u) > Class(t)}
           p == FirstIn(q, S)
           r == InsertBefore(q, S, t)
<1>0. Enqueue(q, t) = r
  BY DEF Enqueue
<1> HIDE DEF S
<1>1. /\ p \in 1..Len(q) + 1 /\ r \in Seq(Tasks) /\ Len(r) = Len(q) + 1
      /\ p <= Len(q) => q[p] \in S
      /\ \A i \in 1..Len(q) : i < p => q[i] \notin S
      /\ \A i \in 1..Len(r) : r[i] = IF i < p THEN q[i] ELSE IF i = p THEN t ELSE q[i - 1]
  BY InsertProperties
<1>2. Len(q) \in Nat /\ \A i \in 1..Len(q) : q[i] \in Tasks
  OBVIOUS
<1>3. \A u : Class(u) \in Int
  BY DEF Class
<1>4. \A i \in 1..Len(q) : i < p => Class(q[i]) <= Class(t)
  BY <1>1, <1>2, <1>3 DEF S
<1>5. \A i \in 1..Len(q) : i >= p => Class(t) <= Class(q[i])
  <2> SUFFICES ASSUME NEW i \in 1..Len(q), i >= p PROVE Class(t) <= Class(q[i])
    OBVIOUS
  <2>1. p \in 1..Len(q) /\ Class(t) < Class(q[p])
    BY <1>1, <1>2, <1>3 DEF S
  <2>2. Class(q[p]) <= Class(q[i])
    BY <1>1, <1>2, <1>3, <2>1 DEF Classed
  <2> QED
    BY <1>3, <2>1, <2>2
<1> HIDE DEF p, r
<1>6. ASSUME NEW i \in 1..Len(r), NEW j \in 1..Len(r), i < j PROVE Class(r[i]) <= Class(r[j])
  <2>1. CASE j < p
    <3>1. i \in 1..Len(q) /\ j \in 1..Len(q) /\ r[i] = q[i] /\ r[j] = q[j]
      BY <1>1, <1>2, <1>6, <2>1
    <3> QED
      BY <1>6, <3>1 DEF Classed
  <2>2. CASE j = p
    <3>1. i \in 1..Len(q) /\ i < p /\ r[i] = q[i] /\ r[j] = t
      BY <1>1, <1>2, <1>6, <2>2
    <3> QED
      BY <1>4, <3>1
  <2>3. CASE j > p
    <3>1. j - 1 \in 1..Len(q) /\ j - 1 >= p /\ r[j] = q[j - 1]
      BY <1>1, <1>2, <2>3
    <3>2. CASE i < p
      <4>1. i \in 1..Len(q) /\ r[i] = q[i]
        BY <1>1, <1>2, <3>2
      <4> QED
        BY <1>3, <1>4, <1>5, <3>1, <3>2, <4>1
    <3>3. CASE i = p
      <4>1. r[i] = t
        BY <1>1, <3>3
      <4> QED
        BY <1>5, <3>1, <4>1
    <3>4. CASE i > p
      <4>1. i - 1 \in 1..Len(q) /\ i - 1 < j - 1 /\ r[i] = q[i - 1]
        BY <1>1, <1>2, <1>6, <3>4
      <4> QED
        BY <3>1, <4>1 DEF Classed
    <3> QED
      BY <1>1, <3>2, <3>3, <3>4
  <2> QED
    BY <1>1, <2>1, <2>2, <2>3
<1> QED
  BY <1>0, <1>6 DEF Classed, r

LEMMA TailClassed ==
  ASSUME NEW q \in Seq(Tasks), Classed(q), Len(q) > 0 PROVE Classed(Tail(q))
<1>1. Len(Tail(q)) = Len(q) - 1 /\ \A i \in 1..Len(q) - 1 : Tail(q)[i] = q[i + 1]
  OBVIOUS
<1> QED
  BY <1>1 DEF Classed

LEMMA RetainClassed ==
  ASSUME NEW q \in Seq(Tasks), Classed(q), NEW S PROVE Classed(Retain(q, S))
<1> DEFINE r == Retain(q, S)
           nth(k) == Nth(Where(q, S), k)
<1>1. /\ r \in Seq(Tasks)
      /\ \A k \in 1..Len(r) : nth(k) \in 1..Len(q) /\ r[k] = q[nth(k)]
      /\ \A k, l \in 1..Len(r) : k < l => nth(k) < nth(l)
  BY RetainProperties
<1> HIDE DEF r, nth
<1>2. ASSUME NEW k \in 1..Len(r), NEW l \in 1..Len(r), k < l PROVE Class(r[k]) <= Class(r[l])
  <2>1. nth(k) \in 1..Len(q) /\ nth(l) \in 1..Len(q) /\ nth(k) < nth(l)
        /\ r[k] = q[nth(k)] /\ r[l] = q[nth(l)]
    BY <1>1, <1>2
  <2> QED
    BY <2>1 DEF Classed
<1> QED
  BY <1>2 DEF Classed, r

\* What becomes of the queue in a step that is not a restart.
LEMMA QueueSteps ==
  ASSUME QInv, [Next]_vars
  PROVE  \/ crashes' = crashes + 1
         \/ /\ crashes' = crashes
            /\ \/ queue' = queue
               \/ \E t \in Tasks : queue' = Enqueue(queue, t)
               \/ Len(queue) > 0 /\ queue' = Tail(queue)
               \/ \E S : queue' = Retain(queue, S)
<1>1. CASE Wire
  BY <1>1 DEF Wire, launchVars
<1>2. CASE \E t \in Tasks : Placement(t)
  BY ZenonT(60), <1>2 DEF Placement, TakeLock, SkipNode, Ping, ReadLoad, Choose, LaunchRpc, AgentPlaced, placeRest
<1>3. CASE \E t \in Tasks : Begin(t) \/ Outwait(t) \/ Revoke(t)
  BY <1>3 DEF Begin, Outwait, Revoke
<1>4. CASE \E t \in Tasks : Handle(t)
  BY <1>4 DEF Handle, HandleExit, HandleStarted, HandleDeferred, Defer, handled
<1>5. CASE \E t \in Tasks, n \in Nodes : BoxEnds(t, n)
  BY <1>5 DEF BoxEnds
<1>6. CASE CommandPlaced
  <2>1. turn.task \in Tasks /\ place[turn.task].result \in {"ok", "full", "error"}
    BY <1>6 DEF CommandPlaced, QInv, QueueTyped, PlacesTyped, TurnTyped
  <2> QED
    BY <1>6, <2>1 DEF CommandPlaced, Requeued, Defer
<1>7. CASE DrainOne
  BY <1>7 DEF DrainOne, QInv, QueueTyped, QueuesTyped, TurnTyped
<1>8. CASE HandleCapacity
  BY <1>8 DEF HandleCapacity, handled
<1>9. CASE Scan
  BY <1>9 DEF Scan, handled
<1>10. CASE Restart
  BY <1>10 DEF Restart
<1>11. CASE UNCHANGED vars
  BY <1>11 DEF vars, launchVars
<1> QED
  BY <1>1, <1>2, <1>3, <1>4, <1>5, <1>6, <1>7, <1>8, <1>9, <1>10, <1>11 DEF Next

OrderInv == crashes \in Nat /\ (crashes = 0 => Classed(queue))

\* Until a restart, finishing launches stay ahead of work in the queue, whatever is
\* parked, taken, parked again, expired and revoked in between.
THEOREM ClassesKept == Spec => []QueueIsClassed
<1>1. Init => OrderInv
  BY DEF Init, OrderInv, Classed
<1>2. QInv /\ OrderInv /\ [Next]_vars => OrderInv'
  <2> SUFFICES ASSUME QInv, OrderInv, [Next]_vars PROVE OrderInv'
    OBVIOUS
  <2>1. CASE crashes' = crashes + 1
    BY <2>1 DEF OrderInv
  <2>2. CASE crashes' = crashes /\ crashes # 0
    BY <2>2 DEF OrderInv
  <2>3. CASE crashes' = crashes /\ crashes = 0
    <3>1. queue \in Seq(Tasks) /\ Classed(queue)
      BY <2>3 DEF QInv, QueueTyped, QueuesTyped, OrderInv
    <3>2. \A u : Class(u)' = Class(u)
      BY NextKeepsPlan DEF Class, Phase
    <3>3. \/ queue' = queue
          \/ \E t \in Tasks : queue' = Enqueue(queue, t)
          \/ Len(queue) > 0 /\ queue' = Tail(queue)
          \/ \E S : queue' = Retain(queue, S)
      BY <2>3, QueueSteps DEF OrderInv
    <3>4. \A i, j \in 1..Len(queue') : i < j => Class(queue'[i]) <= Class(queue'[j])
      <4>1. CASE queue' = queue
        BY <3>1, <4>1 DEF Classed
      <4>2. CASE \E t \in Tasks : queue' = Enqueue(queue, t)
        BY <3>1, <4>2, EnqueueClassed DEF Classed
      <4>3. CASE Len(queue) > 0 /\ queue' = Tail(queue)
        BY <3>1, <4>3, TailClassed DEF Classed
      <4>4. CASE \E S : queue' = Retain(queue, S)
        BY <3>1, <4>4, RetainClassed DEF Classed
      <4> QED
        BY <3>3, <4>1, <4>2, <4>3, <4>4
    <3> QED
      BY <2>3, <3>2, <3>4 DEF OrderInv, Classed
  <2> QED
    BY <2>1, <2>2, <2>3, QueueSteps
<1>3. QInv /\ OrderInv => QueueIsClassed
  BY DEF QInv, QueueTyped, QueuesTyped, OrderInv, Classed, QueueIsClassed
<1> QED
  BY <1>1, <1>2, <1>3, QInit, QNext, PTL DEF Spec
-----------------------------------------------------------------------------
(* Where only commands run and no number changes, placement is serial: what *)
(* it counted on a node can only have shrunk when it launches there.        *)

AllCommands == \A t \in Tasks : ~Agent(t)
SlotsOf(n) == IF Worker(n) THEN Clamped(n, FirstBoot(n)) ELSE plan.ceil[n]

\* Nobody asks for another number, so none is pushed, and every daemon boots with
\* the one it had.
Still ==
  /\ plan \in Plans /\ asks = 0 /\ pushes = {} /\ intent = [n \in Nodes |-> Silent]
  /\ \A a \in announces : a.node \in Nodes
  /\ \A n \in Nodes : cell[n].slots = SlotsOf(n)
BoxesFit ==
  /\ DOMAIN boxes = Nodes
  /\ \A n \in Nodes : IsFiniteSet(boxes[n]) /\ Running(n) <= SlotsOf(n)
\* A reservation is held for the node of the placement under way and no other.
Reserves ==
  /\ DOMAIN reserved = Nodes
  /\ \A n \in Nodes : reserved[n] = IF \E t \in Tasks : place[t].node = n THEN 1 ELSE 0
\* What a placement was told still bounds what its node runs.
LoadsFit(t) ==
  LET p == place[t] IN
  /\ p.todo \subseteq Nodes /\ DOMAIN p.loads = Nodes
  /\ \A n \in Nodes : p.loads[n] # NoLoad =>
       p.loads[n].free \in Int /\ p.loads[n].free <= SlotsOf(n) - Running(n)
  /\ p.reply # <<>> => /\ p.todo # {}
                       /\ p.reply[1].slots = SlotsOf(Next1(t))
                       /\ p.reply[1].running \in Int
                       /\ Running(Next1(t)) <= p.reply[1].running
PlaceFits(t) ==
  /\ place[t].stage \in {"none", "wait", "probe"} => place[t].node = Nowhere
  /\ place[t].stage = "launch" => /\ place[t].node \in Nodes
                                  /\ Running(place[t].node) < SlotsOf(place[t].node)
  /\ place[t].stage = "back" => place[t].node \in Nodes \cup {Nowhere}
  /\ place[t].stage = "probe" => LoadsFit(t)
LaunchesFit == BoxesFit /\ Reserves /\ \A t \in Tasks : PlaceFits(t)
FitInv == Still /\ LaunchesFit

\* The numbers of a plan in which nothing changes them.
LEMMA SlotsAre ==
  ASSUME plan \in Plans, Steady
  PROVE  /\ Nodes \subseteq Nat /\ Nowhere \notin Nodes
         /\ \A n \in Nodes : SlotsOf(n) \in Nat
         /\ \A n \in Nodes : \A b \in plan.boots[n] : b = FirstBoot(n)
<1>1. Nodes \in SUBSET (Nat \ {0})
  BY PlansAssumption DEF Nodes
<1>2. \A n \in Nodes : plan.ceil[n] \in Nat /\ plan.boots[n] \in SUBSET Nat /\ plan.boots[n] # {}
  BY PlansAssumption DEF Nodes
<1>3. ASSUME NEW n \in Nodes
      PROVE  FirstBoot(n) \in Nat /\ \A b \in plan.boots[n] : b = FirstBoot(n)
  <2>1. PICK c \in plan.boots[n] : TRUE
    BY <1>2
  <2>2. \A b \in plan.boots[n] : b = c
    BY DEF Steady
  <2>3. c \in Nat /\ \A b \in plan.boots[n] : c <= b
    BY <1>2, <2>2
  <2>4. FirstBoot(n) \in plan.boots[n]
    BY <2>1, <2>3 DEF FirstBoot
  <2> QED
    BY <2>2, <2>3, <2>4
<1>4. \A n \in Nodes : SlotsOf(n) \in Nat
  BY <1>2, <1>3 DEF SlotsOf, Clamped
<1> QED
  BY <1>1, <1>3, <1>4 DEF Nowhere

LEMMA SlotsStay ==
  ASSUME plan' = plan
  PROVE  /\ \A n : SlotsOf(n)' = SlotsOf(n) /\ Worker(n)' = Worker(n)
         /\ Nodes' = Nodes /\ Tasks' = Tasks
BY DEF SlotsOf, Worker, Clamped, FirstBoot, Nodes, Tasks

\* Nothing is pushed where nobody asked.
LEMMA NothingToPush ==
  ASSUME Still, intent' = intent, NEW ns, ns \in SUBSET {n \in Nodes : intent[n] # Silent}, Push(ns)
  PROVE  pushes' = {}
<1>1. ns = {}
  BY DEF Still
<1> QED
  BY <1>1 DEF Push, Still

LEMMA StaysStill ==
  ASSUME WInv, Still, Steady, [Next]_vars
  PROVE  Still'
<1>1. plan' = plan
  BY NextKeepsPlan
<1>2. /\ \A n : SlotsOf(n)' = SlotsOf(n)
      /\ Nodes' = Nodes
  BY <1>1, SlotsStay
<1>3. \A n \in Nodes : \A b \in plan.boots[n] : Clamped(n, b) = Clamped(n, FirstBoot(n))
  BY SlotsAre DEF Still
<1>4. DOMAIN cell = Nodes /\ \A n \in Nodes : DOMAIN cell[n] = CellFields
  BY DEF WInv, CellCounts
<1> DEFINE CellsStay == \A n \in Nodes : cell'[n].slots = cell[n].slots
<1>5. ASSUME UNCHANGED <<asks, intent>>, pushes' = {}, CellsStay,
             \A a \in announces' : a \in announces \/ a.node \in Nodes
      PROVE  Still'
  BY <1>1, <1>2, <1>5 DEF Still
<1>6. CASE UNCHANGED <<asks, intent, pushes, cell, announces>>
  BY <1>5, <1>6 DEF Still
<1>7. CASE Wire
  <2>1. CASE \E n \in Nodes : StartDaemon(n)
    <3>1. PICK n \in Nodes : StartDaemon(n)
      BY <2>1
    <3>2. Worker(n) /\ UNCHANGED <<asks, intent, pushes, announces>>
      BY <3>1 DEF StartDaemon, operatorVars, ledgerVars
    <3>3. PICK b \in plan.boots[n] :
            cell' = [cell EXCEPT ![n] = [up |-> TRUE, epoch |-> starts + 2, gen |-> 0,
                                         slots |-> Clamped(n, b)]]
      BY <3>1 DEF StartDaemon
    <3>4. Clamped(n, b) = SlotsOf(n)
      BY <1>3, <3>2 DEF SlotsOf
    <3>5. CellsStay
      BY <1>4, <3>3, <3>4 DEF Still
    <3> QED
      BY <1>5, <3>2, <3>5 DEF Still
  <2>2. CASE \E n \in Nodes : StopDaemon(n) \/ DockerReturns(n)
    <3>1. UNCHANGED <<asks, intent, pushes, announces>>
      BY <2>2 DEF StopDaemon, DockerReturns, operatorVars, ledgerVars
    <3>2. CellsStay
      BY <1>4, <2>2 DEF StopDaemon, DockerReturns, CellFields
    <3> QED
      BY <1>5, <3>1, <3>2 DEF Still
  <2>3. CASE \E n \in Nodes : Announce(n) \/ Lapse(n)
    BY <1>5, <2>3 DEF Announce, Lapse, Report, daemonVars, operatorVars, ledgerVars, Still
  <2>4. CASE \E a \in announces : LoseAnnounce(a)
    BY <1>5, <2>4 DEF LoseAnnounce, daemonVars, operatorVars, ledgerVars, Still
  <2>5. CASE \E p \in pushes : SetSlots(p) \/ PushFails(p)
    BY <2>5 DEF Still
  <2> QED
    BY <1>7, <2>1, <2>2, <2>3, <2>4, <2>5 DEF Wire, Daemons
<1>8. CASE HandleCapacity
  <2>1. CASE \E a \in announces : HearAnnounce(a)
    <3>1. PICK a \in announces : HearAnnounce(a)
      BY <2>1
    <3>2. UNCHANGED <<asks, intent, cell>> /\ announces' \subseteq announces /\ a.node \in Nodes
      BY <3>1 DEF HearAnnounce, daemonVars, operatorVars, Still
    <3>3. \E ns \in SUBSET {n \in Nodes : intent[n] # Silent} : Push(ns)
      BY <3>1, <3>2 DEF HearAnnounce, ShouldPush
    <3> QED
      BY <1>5, <3>2, <3>3, NothingToPush
  <2>2. CASE \E n \in Nodes, s \in plan.sizes : SetNodeCapacity(n, s)
    <3>1. asks < plan.asks /\ asks = 0 /\ plan.asks = 0
      BY <2>2 DEF SetNodeCapacity, Still, Steady
    <3> QED
      BY <3>1
  <2> QED
    BY <1>8, <2>1, <2>2 DEF HandleCapacity, Still
<1>9. CASE Scan
  <2>1. UNCHANGED <<asks, intent, cell, announces>>
    BY <1>9 DEF Scan, CapacityScan, daemonVars, operatorVars
  <2>2. \E ns \in SUBSET {n \in Nodes : intent[n] # Silent} : Push(ns)
    BY <1>9 DEF Scan, CapacityScan, ShouldPush
  <2> QED
    BY <1>5, <2>1, <2>2, NothingToPush
<1>10. CASE Restart
  <2>1. UNCHANGED <<asks, intent, cell, announces>>
        /\ pushes' = {[p EXCEPT !.orphan = TRUE] : p \in {q \in pushes : q.answer = "none"}}
    BY <1>10 DEF Restart, CapacityRestart, daemonVars, operatorVars
  <2>2. pushes' = {}
    BY <2>1 DEF Still
  <2> QED
    BY <1>5, <2>1, <2>2
<1>11. CASE \E t \in Tasks : Placement(t)
  BY <1>6, <1>11 DEF Placement, TakeLock, SkipNode, Ping, ReadLoad, Choose, LaunchRpc, AgentPlaced,
     capVars, daemonVars, operatorVars, ledgerVars
<1>12. CASE \E t \in Tasks : Begin(t) \/ Handle(t) \/ Outwait(t) \/ Revoke(t)
  BY <1>6, <1>12 DEF Begin, Handle, HandleExit, HandleStarted, HandleDeferred, Outwait, Revoke, capVars
<1>13. CASE CommandPlaced \/ DrainOne \/ UNCHANGED vars \/ \E t \in Tasks, n \in Nodes : BoxEnds(t, n)
  BY <1>6, <1>13 DEF CommandPlaced, DrainOne, BoxEnds, capVars, vars
<1> QED
  BY <1>7, <1>8, <1>9, <1>10, <1>11, <1>12, <1>13 DEF Next
\* Running counts a finite set; fewer containers are fewer.
LEMMA RunningCounts ==
  ASSUME BoxesFit, NEW n \in Nodes
  PROVE  Running(n) \in Nat
BY FS_CardinalityType DEF BoxesFit, Running

LEMMA FewerRun ==
  ASSUME BoxesFit, plan' = plan, NEW n \in Nodes, boxes'[n] \subseteq boxes[n]
  PROVE  IsFiniteSet(boxes'[n]) /\ Running(n)' \in Nat /\ Running(n)' <= Running(n)
<1>1. IsFiniteSet(boxes[n])
  BY DEF BoxesFit
<1>2. IsFiniteSet(boxes'[n]) /\ Cardinality(boxes'[n]) <= Cardinality(boxes[n])
  BY <1>1, FS_Subset
<1> QED
  BY <1>2, FS_CardinalityType DEF Running

\* The node a placement asks next is one it has not asked yet.
LEMMA NextIsOne ==
  ASSUME NEW t, place[t].todo \subseteq Nat, place[t].todo # {}
  PROVE  Next1(t) \in place[t].todo
BY Least DEF Next1

\* Containers end, or are killed, and no placement moves.
LEMMA ShrinkFits ==
  ASSUME Still, Steady, LaunchesFit, plan' = plan, DOMAIN boxes' = Nodes,
         \A n \in Nodes : boxes'[n] \subseteq boxes[n], UNCHANGED <<reserved, place>>
  PROVE  LaunchesFit'
<1>1. /\ \A n : SlotsOf(n)' = SlotsOf(n)
      /\ Nodes' = Nodes /\ Tasks' = Tasks
  BY SlotsStay
<1>2. \A n \in Nodes : SlotsOf(n) \in Int
  BY SlotsAre DEF Still
<1>3. \A n \in Nodes : /\ IsFiniteSet(boxes'[n]) /\ Running(n)' \in Nat /\ Running(n) \in Nat
                       /\ Running(n)' <= Running(n)
  BY FewerRun, RunningCounts DEF LaunchesFit
<1>4. BoxesFit'
  BY <1>1, <1>2, <1>3 DEF LaunchesFit, BoxesFit
<1>5. Reserves'
  BY <1>1 DEF LaunchesFit, Reserves
<1>6. ASSUME NEW t \in Tasks PROVE PlaceFits(t)'
  <2>1. Next1(t)' = Next1(t)
    BY DEF Next1
  <2>2. LoadsFit(t) => LoadsFit(t)'
    <3> SUFFICES ASSUME LoadsFit(t) PROVE LoadsFit(t)'
      OBVIOUS
    <3>1. place[t].reply # <<>> => Next1(t) \in Nodes
      <4>1. Nodes \subseteq Nat
        BY SlotsAre DEF Still
      <4> QED
        BY <4>1, NextIsOne DEF LoadsFit
    <3> QED
      BY <1>1, <1>2, <1>3, <2>1, <3>1 DEF LoadsFit
  <2>3. PlaceFits(t)
    BY DEF LaunchesFit
  <2>4. place[t].stage = "launch" =>
          (place[t].node \in Nodes /\ Running(place[t].node) < SlotsOf(place[t].node))'
    <3> DEFINE n == place[t].node
    <3> SUFFICES ASSUME place[t].stage = "launch" PROVE (n \in Nodes /\ Running(n) < SlotsOf(n))'
      OBVIOUS
    <3>1. n' = n /\ n \in Nodes /\ Running(n) < SlotsOf(n)
      BY <2>3 DEF PlaceFits
    <3>2. PICK m \in Nodes : m = n
      BY <3>1
    <3>3. Running(m)' <= Running(m) /\ Running(m)' \in Nat /\ Running(m) \in Nat
      BY <1>3
    <3>4. SlotsOf(m)' = SlotsOf(m) /\ SlotsOf(m) \in Int
      BY <1>1, <1>2
    <3>5. Running(m)' < SlotsOf(m)'
      BY <3>1, <3>2, <3>3, <3>4
    <3> QED
      BY <1>1, <3>1, <3>2, <3>5
  <2> QED
    BY <1>1, <2>2, <2>3, <2>4 DEF PlaceFits
<1> QED
  BY <1>1, <1>4, <1>5, <1>6 DEF LaunchesFit

\* One placement moves on, and neither takes nor gives back a slot.
LEMMA MoveFits ==
  ASSUME Still, LaunchesFit, plan' = plan, UNCHANGED <<boxes, reserved>>, NEW t \in Tasks,
         DOMAIN place' = Tasks, \A u \in Tasks : u # t => place'[u] = place[u],
         place'[t].node = place[t].node, PlaceFits(t)'
  PROVE  LaunchesFit'
<1>1. /\ \A n : SlotsOf(n)' = SlotsOf(n) /\ Running(n)' = Running(n)
      /\ Nodes' = Nodes /\ Tasks' = Tasks
  BY SlotsStay DEF Running
<1>2. BoxesFit'
  BY <1>1 DEF LaunchesFit, BoxesFit
<1>3. \A u \in Tasks : place'[u].node = place[u].node
  OBVIOUS
<1>4. Reserves'
  BY <1>1, <1>3 DEF LaunchesFit, Reserves
<1>5. ASSUME NEW u \in Tasks PROVE PlaceFits(u)'
  <2>1. CASE u = t
    BY <2>1
  <2>2. CASE u # t
    <3>1. place'[u] = place[u] /\ Next1(u)' = Next1(u)
      BY <2>2 DEF Next1
    <3>2. PlaceFits(u)
      BY DEF LaunchesFit
    <3>3. LoadsFit(u)' = LoadsFit(u)
      BY <1>1, <3>1 DEF LoadsFit
    <3> QED
      BY <1>1, <3>1, <3>2, <3>3 DEF PlaceFits
  <2> QED
    BY <2>1, <2>2
<1> QED
  BY <1>1, <1>2, <1>4, <1>5 DEF LaunchesFit

\* Commands are placed one at a time.
LEMMA OnlyOne ==
  ASSUME QInv, AllCommands, NEW t \in Tasks, Placed(t), NEW u \in Tasks, u # t
  PROVE  place[u].stage = "none"
BY DEF QInv, LaunchIsAt, AllCommands, InHand, Placed

\* A load is asked for, answered, read or given up.
LEMMA ProbingFits ==
  ASSUME WInv, QInv, Still, Steady, LaunchesFit, plan' = plan, NEW t \in Tasks,
         TakeLock(t) \/ SkipNode(t) \/ Ping(t) \/ ReadLoad(t)
  PROVE  LaunchesFit'
<1>1. /\ UNCHANGED <<boxes, reserved>>
      /\ place[t].stage \in {"wait", "probe"} /\ place[t].node = Nowhere
      /\ place[t].stage = "probe" => LoadsFit(t)
  BY DEF TakeLock, SkipNode, Ping, ReadLoad, LaunchesFit, PlaceFits
<1>2. DOMAIN place = Tasks /\ DOMAIN place[t] = PlaceFields
  BY DEF QInv, QueueTyped, PlacesTyped
<1>3. /\ \A n : SlotsOf(n)' = SlotsOf(n) /\ Running(n)' = Running(n)
      /\ Nodes' = Nodes
  BY <1>1, SlotsStay DEF Running
<1>4. Nodes \subseteq Nat /\ \A n \in Nodes : SlotsOf(n) \in Int /\ Running(n) \in Nat
  BY SlotsAre, RunningCounts DEF Still, LaunchesFit
<1>5. place[t].stage = "probe" /\ place[t].todo # {} => Next1(t) \in place[t].todo
  BY <1>1, <1>4, NextIsOne DEF LoadsFit
\* Whatever the step, its placement goes on asking, or has failed.
<1>6. ASSUME DOMAIN place' = Tasks, \A u \in Tasks : u # t => place'[u] = place[u],
             place'[t].node = Nowhere, place'[t].stage = "probe", LoadsFit(t)'
      PROVE  LaunchesFit'
  <2>1. PlaceFits(t)'
    BY <1>6 DEF PlaceFits
  <2> QED
    BY <1>1, <1>6, <2>1, MoveFits
<1>7. CASE TakeLock(t)
  <2>1. place' = [place EXCEPT ![t].stage = "probe",
                               ![t].todo = {n \in Nodes : Joined(n)},
                               ![t].loads = [n \in Nodes |-> NoLoad]]
        /\ place[t].stage = "wait"
    BY <1>7 DEF TakeLock
  <2>2. /\ DOMAIN place' = Tasks /\ \A u \in Tasks : u # t => place'[u] = place[u]
        /\ place'[t].node = Nowhere /\ place'[t].stage = "probe"
        /\ place'[t].todo \subseteq Nodes /\ place'[t].loads = [n \in Nodes |-> NoLoad]
        /\ place'[t].reply = place[t].reply
    BY <1>1, <1>2, <2>1 DEF PlaceFields
  <2>3. place[t].reply = <<>>
    BY <2>1 DEF WInv, RepliesHonest
  <2>4. LoadsFit(t)'
    BY <1>3, <2>2, <2>3 DEF LoadsFit
  <2> QED
    BY <1>6, <2>2, <2>4
\* The load of a node that did not answer stays unknown; the others stay.
<1>8. ASSUME NEW load, place' = Probed(t, Next1(t), load), place[t].stage = "probe", place[t].todo # {},
             load = NoLoad \/ (/\ load.free \in Int
                               /\ load.free <= SlotsOf(Next1(t)) - Running(Next1(t)))
      PROVE  LaunchesFit'
  <2> DEFINE n == Next1(t)
  <2>1. /\ DOMAIN place' = Tasks /\ \A u \in Tasks : u # t => place'[u] = place[u]
        /\ place'[t].node = Nowhere /\ place'[t].stage = "probe"
        /\ place'[t].todo = place[t].todo \ {n} /\ place'[t].reply = <<>>
        /\ place'[t].loads = [place[t].loads EXCEPT ![n] = load]
    BY <1>1, <1>2, <1>8 DEF Probed, PlaceFields
  <2>2. LoadsFit(t)
    BY <1>1, <1>8
  <2>3. LoadsFit(t)'
    BY <1>3, <1>4, <1>8, <2>1, <2>2 DEF LoadsFit
  <2> QED
    BY <1>6, <2>1, <2>3
<1>9. CASE SkipNode(t)
  <2>1. /\ place[t].stage = "probe" /\ place[t].todo # {}
        /\ \/ place' = Probed(t, Next1(t), NoLoad)
           \/ place' = [place EXCEPT ![t] = Back("error")]
    BY <1>9 DEF SkipNode
  <2>2. CASE place' = Probed(t, Next1(t), NoLoad)
    BY <1>8, <2>1, <2>2
  <2>3. CASE place' = [place EXCEPT ![t] = Back("error")]
    <3>1. /\ DOMAIN place' = Tasks /\ place'[t] = Back("error")
          /\ \A u \in Tasks : u # t => place'[u] = place[u]
      BY <1>2, <2>3
    <3>2. place'[t].node = Nowhere /\ place'[t].stage = "back"
      BY <3>1 DEF Back, NoPlace
    <3>3. PlaceFits(t)'
      BY <3>2 DEF PlaceFits
    <3> QED
      BY <1>1, <3>1, <3>2, <3>3, MoveFits
  <2> QED
    BY <2>1, <2>2, <2>3
<1>10. CASE Ping(t)
  <2> DEFINE n == Next1(t)
             r == [slots |-> cell[n].slots, mark |-> Mark(n), running |-> Running(n)]
  <2>1. place[t].stage = "probe" /\ place[t].todo # {} /\ place' = [place EXCEPT ![t].reply = <<r>>]
    BY <1>10 DEF Ping
  <2>2. n \in Nodes /\ LoadsFit(t)
    BY <1>1, <1>5, <2>1 DEF LoadsFit
  <2>3. r.slots = SlotsOf(n) /\ r.running = Running(n)
    BY <2>2 DEF Still
  <2> HIDE DEF r
  <2>4. /\ DOMAIN place' = Tasks /\ \A u \in Tasks : u # t => place'[u] = place[u]
        /\ place'[t].node = Nowhere /\ place'[t].stage = "probe"
        /\ place'[t].todo = place[t].todo /\ place'[t].reply = <<r>>
        /\ place'[t].loads = place[t].loads
    BY <1>1, <1>2, <2>1 DEF PlaceFields
  <2>5. Next1(t)' = n
    BY <2>4 DEF Next1
  <2>6. place'[t].reply[1] = r
    BY <2>4
  <2>7. LoadsFit(t)'
    BY <1>3, <1>4, <2>1, <2>2, <2>3, <2>4, <2>5, <2>6 DEF LoadsFit
  <2> QED
    BY <1>6, <2>4, <2>7
<1>11. CASE ReadLoad(t)
  <2> DEFINE n == Next1(t)
             r == place[t].reply[1]
             load == [running |-> r.running + reserved[n], free |-> r.slots - r.running - reserved[n]]
  <2>1. place[t].stage = "probe" /\ place[t].reply # <<>> /\ place' = Probed(t, n, load)
    BY <1>11 DEF ReadLoad
  <2>2. /\ place[t].todo # {} /\ n \in Nodes /\ r.slots = SlotsOf(n)
        /\ r.running \in Int /\ Running(n) <= r.running
    BY <1>1, <1>5, <2>1 DEF LoadsFit
  <2>3. reserved[n] \in Nat
    BY <2>2 DEF LaunchesFit, Reserves
  <2>4. load.free = r.slots - r.running - reserved[n]
    OBVIOUS
  <2> HIDE DEF load, r, n
  <2>5. SlotsOf(n) \in Int /\ Running(n) \in Nat
    BY <1>4, <2>2
  <2>6. load.free \in Int /\ load.free <= SlotsOf(n) - Running(n)
    BY <2>2, <2>3, <2>4, <2>5
  <2> QED
    BY <1>8, <2>1, <2>2, <2>6 DEF n
<1> QED
  BY <1>7, <1>9, <1>10, <1>11

\* A node is chosen: it has a free slot by the count of a while ago, and nothing has
\* been launched there since.
LEMMA ChooseFits ==
  ASSUME QInv, Still, Steady, LaunchesFit, AllCommands, plan' = plan, NEW t \in Tasks, Choose(t)
  PROVE  LaunchesFit'
<1>1. /\ UNCHANGED boxes /\ place[t].stage = "probe" /\ place[t].node = Nowhere /\ LoadsFit(t)
      /\ Placed(t)
  BY DEF Choose, LaunchesFit, PlaceFits, Placed
<1>2. DOMAIN place = Tasks
  BY DEF QInv, QueueTyped, PlacesTyped
<1>3. /\ \A n : SlotsOf(n)' = SlotsOf(n) /\ Running(n)' = Running(n)
      /\ Nodes' = Nodes /\ Tasks' = Tasks
  BY <1>1, SlotsStay DEF Running
<1>4. /\ Nodes \subseteq Nat /\ Nowhere \notin Nodes
      /\ \A n \in Nodes : SlotsOf(n) \in Int /\ Running(n) \in Nat
  BY SlotsAre, RunningCounts DEF Still, LaunchesFit
<1>5. ASSUME NEW why, place' = [place EXCEPT ![t] = Back(why)], UNCHANGED reserved
      PROVE  LaunchesFit'
  <2>1. /\ DOMAIN place' = Tasks /\ place'[t] = Back(why)
        /\ \A u \in Tasks : u # t => place'[u] = place[u]
    BY <1>2, <1>5
  <2>2. place'[t].node = Nowhere /\ place'[t].stage = "back"
    BY <2>1 DEF Back, NoPlace
  <2>3. PlaceFits(t)'
    BY <2>2 DEF PlaceFits
  <2> QED
    BY <1>1, <1>5, <2>1, <2>2, <2>3, MoveFits
<1>6. ASSUME NEW n \in Candidates(t),
             place' = [place EXCEPT ![t] = [NoPlace EXCEPT !.stage = "launch", !.node = n]],
             reserved' = [reserved EXCEPT ![n] = @ + 1]
      PROVE  LaunchesFit'
  <2>1. n \in Nodes /\ place[t].loads[n] # NoLoad /\ place[t].loads[n].free > 0
    BY <1>6 DEF Candidates, Live, HasRoom
  <2>2. Running(n) < SlotsOf(n)
    BY <1>1, <1>4, <2>1 DEF LoadsFit
  <2>3. /\ DOMAIN place' = Tasks /\ \A u \in Tasks : u # t => place'[u] = place[u]
        /\ place'[t].stage = "launch" /\ place'[t].node = n
    BY <1>2, <1>6 DEF NoPlace
  <2>4. \A u \in Tasks : u # t => place[u].stage = "none" /\ place[u].node = Nowhere
    BY <1>1, OnlyOne DEF LaunchesFit, PlaceFits
  <2>5. \A u \in Tasks : PlaceFits(u)'
    BY <1>3, <2>1, <2>2, <2>3, <2>4 DEF PlaceFits
  <2>6. BoxesFit'
    BY <1>1, <1>3 DEF LaunchesFit, BoxesFit
  <2>7. DOMAIN reserved = Nodes /\ \A m \in Nodes : reserved[m] = 0
    BY <1>1, <1>4, <2>4 DEF LaunchesFit, Reserves
  <2>8. DOMAIN reserved' = Nodes /\ \A m \in Nodes : reserved'[m] = IF m = n THEN 1 ELSE 0
    BY <1>6, <2>1, <2>7
  <2>9. \A m \in Nodes : (\E u \in Tasks : place'[u].node = m) <=> m = n
    BY <1>4, <2>3, <2>4
  <2>10. Reserves'
    BY <1>3, <2>8, <2>9 DEF Reserves
  <2> QED
    BY <1>3, <2>5, <2>6, <2>10 DEF LaunchesFit
<1> QED
  BY <1>5, <1>6 DEF Choose
LEMMA OneMore ==
  ASSUME NEW S, IsFiniteSet(S), NEW x
  PROVE  /\ IsFiniteSet(S \cup {x})
         /\ Cardinality(S) \in Nat /\ Cardinality(S \cup {x}) \in Nat
         /\ Cardinality(S \cup {x}) <= Cardinality(S) + 1
<1>1. /\ IsFiniteSet(S \cup {x})
      /\ Cardinality(S \cup {x}) = IF x \in S THEN Cardinality(S) ELSE Cardinality(S) + 1
  BY FS_AddElement
<1>2. Cardinality(S) \in Nat
  BY FS_CardinalityType
<1> QED
  BY <1>1, <1>2

\* The launch takes the slot that was free.
LEMMA LaunchFits ==
  ASSUME QInv, Still, Steady, LaunchesFit, AllCommands, plan' = plan, NEW t \in Tasks, LaunchRpc(t)
  PROVE  LaunchesFit'
<1> DEFINE n == place[t].node
<1>1. PICK how : /\ boxes' = IF how \in {"ok", "lost"} THEN [boxes EXCEPT ![n] = @ \cup {t}] ELSE boxes
                 /\ place' = [place EXCEPT ![t].stage = "back",
                                           ![t].result = IF how = "lost" THEN "error" ELSE how]
  BY DEF LaunchRpc
<1>2. reserved' = reserved /\ place[t].stage = "launch" /\ Placed(t)
  BY DEF LaunchRpc, Placed
<1>3. DOMAIN place = Tasks /\ DOMAIN place[t] = PlaceFields
  BY DEF QInv, QueueTyped, PlacesTyped
<1>4. /\ DOMAIN place' = Tasks /\ \A u \in Tasks : u # t => place'[u] = place[u]
      /\ place'[t].node = n /\ place'[t].stage = "back"
  BY <1>1, <1>3 DEF PlaceFields
<1>5. n \in Nodes /\ Running(n) < SlotsOf(n)
  BY <1>2 DEF LaunchesFit, PlaceFits
<1> HIDE DEF n
<1>6. /\ \A m : SlotsOf(m)' = SlotsOf(m)
      /\ Nodes' = Nodes /\ Tasks' = Tasks
  BY SlotsStay
<1>7. \A m \in Nodes : SlotsOf(m) \in Int
  BY SlotsAre DEF Still
<1>8. DOMAIN boxes = Nodes /\ \A m \in Nodes : IsFiniteSet(boxes[m]) /\ Running(m) <= SlotsOf(m)
  BY DEF LaunchesFit, BoxesFit
<1>9. BoxesFit'
  <2>1. CASE boxes' = boxes
    BY <1>6, <1>8, <2>1 DEF BoxesFit, Running
  <2>2. CASE boxes' = [boxes EXCEPT ![n] = @ \cup {t}]
    <3>1. DOMAIN boxes' = Nodes /\ boxes'[n] = boxes[n] \cup {t}
          /\ \A m \in Nodes : m # n => boxes'[m] = boxes[m]
      BY <1>5, <1>8, <2>2
    <3>2. IsFiniteSet(boxes'[n]) /\ Cardinality(boxes'[n]) <= Cardinality(boxes[n]) + 1
          /\ Cardinality(boxes[n]) \in Nat /\ Cardinality(boxes'[n]) \in Nat
      BY <1>5, <1>8, <3>1, OneMore
    <3>3. Cardinality(boxes'[n]) <= SlotsOf(n)
      BY <1>5, <1>7, <3>2 DEF Running
    <3>4. ASSUME NEW m \in Nodes PROVE IsFiniteSet(boxes'[m]) /\ Running(m)' <= SlotsOf(m)
      <4>1. CASE m = n
        BY <3>2, <3>3, <4>1 DEF Running
      <4>2. CASE m # n
        BY <1>8, <3>1, <4>2 DEF Running
      <4> QED
        BY <4>1, <4>2
    <3> QED
      BY <1>6, <3>1, <3>4 DEF BoxesFit
  <2> QED
    BY <1>1, <2>1, <2>2
<1>10. \A u \in Tasks : place'[u].node = place[u].node
  BY <1>4 DEF n
<1>11. Reserves'
  BY <1>2, <1>6, <1>10 DEF LaunchesFit, Reserves
<1>12. ASSUME NEW u \in Tasks PROVE PlaceFits(u)'
  <2>1. CASE u = t
    BY <1>4, <1>5, <1>6, <2>1 DEF PlaceFits
  <2>2. CASE u # t
    <3>1. place'[u].stage = "none" /\ place'[u].node = Nowhere
      BY <1>2, <1>4, <2>2, OnlyOne DEF LaunchesFit, PlaceFits
    <3> QED
      BY <3>1 DEF PlaceFits
  <2> QED
    BY <2>1, <2>2
<1> QED
  BY <1>6, <1>9, <1>11, <1>12 DEF LaunchesFit

\* The placement is over, and gives its reservation back.
LEMMA PlacedFits ==
  ASSUME QInv, Still, Steady, LaunchesFit, AllCommands, plan' = plan, CommandPlaced
  PROVE  LaunchesFit'
<1>1. PICK t \in Tasks : t = turn.task
  BY DEF CommandPlaced, QInv, TurnTyped
<1>2. Release(t) /\ place[t].stage = "back" /\ Placed(t) /\ boxes' = boxes
  BY <1>1 DEF CommandPlaced, Placed
<1>3. /\ DOMAIN place' = Tasks /\ \A u \in Tasks : u # t => place'[u] = place[u]
      /\ place'[t] = NoPlace
  BY <1>2 DEF Release, QInv, QueueTyped, PlacesTyped
<1>4. place'[t].stage = "none" /\ place'[t].node = Nowhere
  BY <1>3 DEF NoPlace
<1>5. /\ \A n : SlotsOf(n)' = SlotsOf(n) /\ Running(n)' = Running(n)
      /\ Nodes' = Nodes /\ Tasks' = Tasks
  BY <1>2, SlotsStay DEF Running
<1>6. Nowhere \notin Nodes
  BY SlotsAre DEF Still
<1>7. \A u \in Tasks : u # t => place[u].stage = "none" /\ place[u].node = Nowhere
  BY <1>2, OnlyOne DEF LaunchesFit, PlaceFits
<1>8. BoxesFit'
  BY <1>2, <1>5 DEF LaunchesFit, BoxesFit
<1>9. \A u \in Tasks : place'[u].stage = "none" /\ place'[u].node = Nowhere
  BY <1>3, <1>4, <1>7
<1>10. \A u \in Tasks : PlaceFits(u)'
  BY <1>9 DEF PlaceFits
<1>11. DOMAIN reserved = Nodes /\ \A n \in Nodes : reserved[n] = IF n = place[t].node THEN 1 ELSE 0
  BY <1>6, <1>7 DEF LaunchesFit, Reserves
<1>12. place[t].node \in Nodes \cup {Nowhere}
  BY <1>2 DEF LaunchesFit, PlaceFits
<1>13. DOMAIN reserved' = Nodes /\ \A n \in Nodes : reserved'[n] = 0
  <2>1. CASE place[t].node = Nowhere
    BY <1>2, <1>6, <1>11, <2>1 DEF Release
  <2>2. CASE place[t].node # Nowhere
    <3>1. reserved' = [reserved EXCEPT ![place[t].node] = @ - 1] /\ place[t].node \in Nodes
      BY <1>2, <1>12, <2>2 DEF Release
    <3> QED
      BY <1>11, <3>1
  <2> QED
    BY <2>1, <2>2
<1>14. Reserves'
  BY <1>5, <1>6, <1>9, <1>13 DEF Reserves
<1> QED
  BY <1>5, <1>8, <1>10, <1>14 DEF LaunchesFit

\* A placement begins.
LEMMA StartFits ==
  ASSUME QInv, Still, LaunchesFit, plan' = plan, NEW t \in Tasks, ~Placed(t), StartPlacing(t),
         UNCHANGED <<boxes, reserved>>
  PROVE  LaunchesFit'
<1>1. /\ DOMAIN place' = Tasks /\ \A u \in Tasks : u # t => place'[u] = place[u]
      /\ place'[t] = [NoPlace EXCEPT !.stage = "wait"]
  BY DEF StartPlacing, QInv, QueueTyped, PlacesTyped
<1>2. place'[t].stage = "wait" /\ place'[t].node = Nowhere
  BY <1>1 DEF NoPlace
<1>3. place[t].node = Nowhere
  BY DEF Placed, LaunchesFit, PlaceFits
<1>4. PlaceFits(t)'
  BY <1>2 DEF PlaceFits
<1> QED
  BY <1>1, <1>2, <1>3, <1>4, MoveFits

\* A restart may let the one launch on the wire happen.
LEMMA RestartFits ==
  ASSUME QInv, Still, Steady, LaunchesFit, AllCommands, plan' = plan, Restart
  PROVE  LaunchesFit'
<1>1. PICK ghosts \in SUBSET {t \in Tasks : place[t].stage = "launch" /\ cell[place[t].node].up} :
       boxes' = [n \in Nodes |->
                   {t \in boxes[n] : task'[t].state = "running" \/ ~cell[n].up}
                   \cup {t \in ghosts : place[t].node = n}]
  BY DEF Restart
<1>2. /\ \A n : SlotsOf(n)' = SlotsOf(n)
      /\ Nodes' = Nodes /\ Tasks' = Tasks
  BY SlotsStay
<1>3. /\ Nowhere \notin Nodes
      /\ \A n \in Nodes : SlotsOf(n) \in Int
  BY SlotsAre DEF Still
<1>4. ASSUME NEW n \in Nodes
      PROVE  IsFiniteSet(boxes'[n]) /\ Cardinality(boxes'[n]) <= SlotsOf(n)
  <2>1. IsFiniteSet(boxes[n]) /\ Cardinality(boxes[n]) \in Nat /\ Cardinality(boxes[n]) <= SlotsOf(n)
    BY FS_CardinalityType DEF LaunchesFit, BoxesFit, Running
  <2>2. CASE {t \in ghosts : place[t].node = n} = {}
    <3>1. boxes'[n] \subseteq boxes[n]
      BY <1>1, <2>2
    <3>2. IsFiniteSet(boxes'[n]) /\ Cardinality(boxes'[n]) <= Cardinality(boxes[n])
          /\ Cardinality(boxes'[n]) \in Nat
      BY <2>1, <3>1, FS_Subset, FS_CardinalityType
    <3> QED
      BY <1>3, <2>1, <3>2
  <2>3. CASE {t \in ghosts : place[t].node = n} # {}
    <3>1. PICK t \in Tasks : t \in ghosts /\ place[t].node = n /\ place[t].stage = "launch"
      BY <2>3
    <3>2. \A u \in ghosts : u = t
      BY <3>1, OnlyOne DEF Placed
    <3>3. boxes'[n] \subseteq boxes[n] \cup {t}
      BY <1>1, <3>2
    <3>4. /\ IsFiniteSet(boxes[n] \cup {t}) /\ Cardinality(boxes[n] \cup {t}) \in Nat
          /\ Cardinality(boxes[n] \cup {t}) <= Cardinality(boxes[n]) + 1
      BY <2>1, OneMore
    <3>5. IsFiniteSet(boxes'[n]) /\ Cardinality(boxes'[n]) \in Nat
          /\ Cardinality(boxes'[n]) <= Cardinality(boxes[n] \cup {t})
      BY <3>3, <3>4, FS_Subset, FS_CardinalityType
    <3>6. Cardinality(boxes[n]) < SlotsOf(n)
      BY <3>1 DEF LaunchesFit, PlaceFits, Running
    <3> QED
      BY <1>3, <2>1, <3>4, <3>5, <3>6
  <2> QED
    BY <2>2, <2>3
<1>5. BoxesFit'
  BY <1>1, <1>2, <1>4 DEF BoxesFit, Running
<1>6. place' = [t \in Tasks |-> NoPlace] /\ reserved' = [n \in Nodes |-> 0]
  BY DEF Restart
<1>7. \A u \in Tasks : place'[u].stage = "none" /\ place'[u].node = Nowhere
  BY <1>6 DEF NoPlace
<1>8. Reserves'
  BY <1>2, <1>3, <1>6, <1>7 DEF Reserves
<1>9. \A u \in Tasks : PlaceFits(u)'
  BY <1>7 DEF PlaceFits
<1> QED
  BY <1>2, <1>5, <1>8, <1>9 DEF LaunchesFit

LEMMA FitNext ==
  ASSUME WInv, QInv, AllCommands, Steady, FitInv, [Next]_vars
  PROVE  FitInv'
<1>1. plan' = plan /\ Still'
  BY NextKeepsPlan, StaysStill DEF FitInv
<1>2. Still /\ LaunchesFit
  BY DEF FitInv
<1>3. DOMAIN boxes = Nodes
  BY <1>2 DEF LaunchesFit, BoxesFit
<1>4. LaunchesFit'
  <2>1. CASE UNCHANGED <<boxes, reserved, place>>
    BY <1>1, <1>2, <1>3, <2>1, ShrinkFits
  <2>2. CASE Wire \/ HandleCapacity \/ Scan \/ UNCHANGED vars
    BY <2>1, <2>2 DEF Wire, HandleCapacity, Scan, vars, launchVars, handled
  <2>3. CASE \E t \in Tasks : Handle(t) \/ Outwait(t)
    BY <2>1, <2>3 DEF Handle, HandleExit, HandleStarted, HandleDeferred, Outwait, handled
  <2>4. CASE \E t \in Tasks : Placement(t)
    <3>1. PICK t \in Tasks : Placement(t)
      BY <2>4
    <3>2. ~AgentPlaced(t)
      BY DEF AgentPlaced, AllCommands
    <3> QED
      BY <1>1, <1>2, <3>1, <3>2, ProbingFits, ChooseFits, LaunchFits DEF Placement
  <2>5. CASE \E t \in Tasks : Begin(t)
    <3>1. PICK t \in Tasks : Begin(t)
      BY <2>5
    <3>2. StartPlacing(t) /\ UNCHANGED <<boxes, reserved>> /\ ~Placed(t)
      BY <3>1 DEF Begin, QInv, LaunchIsAt
    <3> QED
      BY <1>1, <1>2, <3>2, StartFits
  <2>6. CASE DrainOne
    <3>1. UNCHANGED <<boxes, reserved>> /\ (place' = place \/ StartPlacing(Head(queue)))
      BY <2>6 DEF DrainOne
    <3>2. Head(queue) \in Tasks /\ Contains(queue, Head(queue))
      BY <2>6, PopKeeps DEF DrainOne, QInv, TurnTyped, QueueTyped, QueuesTyped
    <3>3. ~Placed(Head(queue))
      BY <3>2 DEF QInv, LaunchIsAt
    <3> QED
      BY <1>1, <1>2, <2>1, <3>1, <3>2, <3>3, StartFits
  <2>7. CASE \E t \in Tasks : Revoke(t)
    <3>1. /\ UNCHANGED <<reserved, place>> /\ DOMAIN boxes' = Nodes
          /\ \A n \in Nodes : boxes'[n] \subseteq boxes[n]
      BY <1>3, <2>7 DEF Revoke
    <3> QED
      BY <1>1, <1>2, <3>1, ShrinkFits
  <2>8. CASE \E t \in Tasks, n \in Nodes : BoxEnds(t, n)
    <3>1. /\ UNCHANGED <<reserved, place>> /\ DOMAIN boxes' = Nodes
          /\ \A n \in Nodes : boxes'[n] \subseteq boxes[n]
      BY <1>3, <2>8 DEF BoxEnds
    <3> QED
      BY <1>1, <1>2, <3>1, ShrinkFits
  <2> QED
    BY <1>1, <1>2, <2>2, <2>3, <2>4, <2>5, <2>6, <2>7, <2>8, PlacedFits, RestartFits DEF Next
<1> QED
  BY <1>1, <1>4 DEF FitInv

LEMMA FitInit == Init /\ Steady => FitInv
<1> SUFFICES ASSUME Init, Steady PROVE FitInv
  OBVIOUS
<1>1. /\ plan \in Plans /\ asks = 0 /\ pushes = {} /\ intent = [n \in Nodes |-> Silent]
      /\ announces = {} /\ boxes = [n \in Nodes |-> {}] /\ reserved = [n \in Nodes |-> 0]
      /\ place = [t \in Tasks |-> NoPlace]
  BY DEF Init, CapacityInit
<1>2. \A n \in Nodes : cell[n].slots = SlotsOf(n)
  BY DEF Init, CapacityInit, SlotsOf
<1>3. Still
  BY <1>1, <1>2 DEF Still
<1>4. Nowhere \notin Nodes
  BY <1>1, SlotsAre
<1>5. \A n \in Nodes : 0 <= SlotsOf(n)
  BY <1>1, SlotsAre
<1>6. BoxesFit
  BY <1>1, <1>5, FS_EmptySet DEF BoxesFit, Running
<1>7. \A t \in Tasks : place[t].stage = "none" /\ place[t].node = Nowhere
  BY <1>1 DEF NoPlace
<1> QED
  BY <1>1, <1>3, <1>4, <1>6, <1>7 DEF FitInv, LaunchesFit, Reserves, PlaceFits

\* Where commands do not compete with agents and nobody lowers a node's number under
\* what it runs, no node is given more than its slots: for every such fleet, with
\* any number of tasks, nodes, daemon restarts and dispatcher restarts.
THEOREM NoNodeOverfull == Spec => []CommandsFit
<1> DEFINE Inv == AllCommands /\ Steady => FitInv
<1>1. Init => Inv
  BY FitInit
<1>2. WInv /\ QInv /\ Inv /\ [Next]_vars => Inv'
  <2> SUFFICES ASSUME WInv, QInv, Inv, [Next]_vars, AllCommands', Steady' PROVE FitInv'
    OBVIOUS
  <2>1. AllCommands /\ Steady
    BY NextKeepsPlan DEF AllCommands, Steady, Tasks, Agent, Nodes
  <2> QED
    BY <2>1, FitNext
<1>3. Inv => CommandsFit
  BY DEF FitInv, Still, LaunchesFit, BoxesFit, AllCommands, CommandsFit
<1> QED
  BY <1>1, <1>2, <1>3, WInit, WNext, QInit, QNext, PTL DEF Spec
================================================================================
