--------------------------- MODULE Execution_proofs ---------------------------
(***************************************************************************)
(* Theorems about Execution, for every kind of job, every bound on its tasks *)
(* and every set of faults: the shape of the log, the slice and the chores, *)
(* and that the slots of a round are the latest tasks of their evaluators. *)
(***************************************************************************)
EXTENDS Execution, SequenceTheorems, FiniteSetTheorems, WellFoundedInduction, TLAPS

Ops == {"enter", "attempt", "place", "stamp", "unclaim", "evaluate", "launch", "slots", "settle",
        "finalize", "escalate", "inbox", "retry", "prework", "revoke", "recover", "attach",
        "rebuild", "sweep"}
Names == DOMAIN EvType
Reasons == {"work", "loss", "infra", "abort", "rework", "contract", "deadline"}
Chores == [op : Ops, cycle : Nat, n : Nat, of : Names \cup Reasons \cup {"none", "all"}]
Boxes == {"none", "up"} \cup Ended
TaskRecords ==
    [phase : {"Work", "Evaluation", "Escalation"}, about : Names \cup Reasons \cup {"none"},
     cycle : Nat \ {0}, attempt : Nat, st : {"Pending", "Running", "Done", "Failed"},
     cid : BOOLEAN, loss : BOOLEAN,
     verdict : {"none", "pass", "fail", "abort", "acted", "closed"}, by : Nat, tip : Nat]

\* What may be in `todo' before a chore.
Before(op) ==
    CASE op \in {"launch", "slots", "rebuild"} -> {"place", "stamp", "launch"}
      [] op = "settle" -> {"place", "stamp", "launch", "rebuild"}
      [] op \in {"attach", "sweep"} -> Ops \ {"sweep"}
      [] OTHER -> {}
InOrder == \A i, j \in DOMAIN todo : i < j => todo[i].op \in Before(todo[j].op)

\* What a chore finds when its turn comes.
ChoreTyped(c) ==
    /\ c.op \in {"place", "stamp", "attach"} => c.n \in Tasks
    /\ c.op = "place" => log[c.n].st = "Running"
    /\ c.op = "attach" => log[c.n].phase # "Escalation"
    /\ c.op = "escalate" => c.n \in {0} \cup Tasks /\ c.of \in Reasons
    /\ c.op = "launch" => c.of \in Evaluators
    /\ c.op = "slots" => \/ c.of = "all" /\ c.n \in 1..Len(Stages)
                         \/ c.of \in Evaluators
    /\ c.op = "rebuild" => slice # None /\ c.cycle = slice.cycle /\ Stages # <<>>
    /\ c.op \in {"evaluate", "launch", "settle"} => slice # None
    /\ c.op = "slots" => Rounding
    /\ c.op \in {"launch", "slots", "rebuild", "settle"} => job = "Evaluation"
    /\ c.op \in {"enter", "finalize"} => ~Rounding
    /\ c.op = "enter" => c.cycle # 0 /\ job # "Stalled" /\ (job = "Ready" => c.cycle = 1)
    /\ c.op = "attempt" => c.cycle # 0
    /\ c.op = "retry" => job = "Escalated"
    /\ c.op = "prework" => job = "Stalled"
    /\ c.op \notin {"enter", "inbox", "prework", "revoke", "recover", "sweep"} =>
          job \notin {"Ready", "Stalled"}

KindTyped == kind \in Kinds /\ approval \in BOOLEAN

JobTyped ==
    /\ job \in {"Ready", "Work", "Evaluation", "WrapUp", "Escalated", "Stalled", "Revoked"}
    /\ tip \in Nat /\ claim \in BOOLEAN /\ draining \in BOOLEAN /\ crashes \in Nat
    /\ esc.failing \in {0} \cup Tasks /\ esc.why \in Names \cup Reasons \cup {"none"}

\* Only a task for a human is Pending, and closed by an operator.
TaskTyped(r) ==
    /\ r.by \in {0} \cup Tasks
    /\ r.phase = "Evaluation" =>
          /\ r.about \in Evaluators
          /\ EvType[r.about] # "human" => r.st # "Pending" /\ r.verdict \notin {"acted", "closed"}

LogTyped ==
    /\ log \in Seq(TaskRecords)
    /\ box \in Seq(Boxes) /\ Len(box) = Len(log)
    /\ watched \subseteq Tasks
    /\ \A t \in Tasks : TaskTyped(log[t])

SliceTyped ==
    /\ slice \in {None} \cup Slices(Evaluators)
    /\ slice # None => slice.sub \in {0} \cup Tasks /\ slice.cycle # 0
    /\ Rounding => job = "Evaluation" /\ slice.round.stage \in 1..Len(Stages)

\* A job that has not started has nothing but the escalations of its start.
Unstarted ==
    job \in {"Ready", "Stalled"} =>
        slice = None /\ \A t \in Tasks : log[t].phase = "Escalation" /\ log[t].cycle = 1

Left == {todo[i] : i \in DOMAIN todo}
TodoTyped ==
    /\ todo \in Seq(Chores) /\ InOrder
    /\ \A x \in Left : ChoreTyped(x)

TypeOK == KindTyped /\ JobTyped /\ LogTyped /\ SliceTyped /\ Unstarted /\ TodoTyped

-----------------------------------------------------------------------------
(* Sequences, the latest task and the last cycle. *)

LEMMA Least ==
    ASSUME NEW A \in SUBSET Nat, A # {}
    PROVE  \E i \in A : \A k \in A : i <= k
<1>1. PICK i \in A : \A k \in A : ~(<<k, i>> \in OpToRel(<, Nat))
  BY WFMin, NatLessThanWellFounded
<1>2. \A k \in A : ~(k < i)
  BY <1>1 DEF OpToRel
<1> QED
  BY <1>2

LEMMA Greatest ==
    ASSUME NEW S \in SUBSET Nat, S # {}, NEW top \in Nat, \A x \in S : x <= top
    PROVE  Max(S) \in S /\ \A x \in S : x <= Max(S)
<1> DEFINE below == {top - x : x \in S}
<1>1. below \in SUBSET Nat /\ below # {}
  <2>1. \A x \in S : x \in Nat /\ x <= top
    OBVIOUS
  <2>2. \A x \in S : top - x \in Nat
    BY <2>1
  <2> QED
    BY <2>2
<1>2. PICK i \in below : \A j \in below : i <= j
  <2> HIDE DEF below
  <2> QED
    BY <1>1, Least
<1>3. PICK m \in S : i = top - m
  BY <1>2
<1>4. \A x \in S : m >= x
  <2>1. \A x \in S : top - x \in below /\ x \in Nat /\ m \in Nat
    OBVIOUS
  <2>2. \A x \in S : top - m <= top - x
    BY <1>2, <1>3, <2>1
  <2> QED
    BY <2>1, <2>2
<1>5. \E x \in S : \A y \in S : x >= y
  BY <1>3, <1>4
<1>6. Max(S) \in S /\ \A y \in S : Max(S) >= y
  BY <1>5 DEF Max
<1> QED
  <2>1. \A y \in S : y \in Nat /\ Max(S) \in Nat
    BY <1>6
  <2> QED
    BY <1>6, <2>1

\* The latest of some tasks is the greatest; there is none of no task.
LEMMA LatestIs ==
    ASSUME NEW n \in Nat, NEW ts \in SUBSET (1..n)
    PROVE  /\ ts = {} => Latest(ts) = 0
           /\ ts # {} => Latest(ts) \in ts /\ \A u \in ts : u <= Latest(ts)
           /\ Latest(ts) \in 0..n
           /\ Latest(ts) # 0 => Latest(ts) \in ts
<1>1. CASE ts = {}
  BY <1>1 DEF Latest
<1>2. CASE ts # {}
  <2>1. ts \in SUBSET Nat /\ \A x \in ts : x <= n
    OBVIOUS
  <2>2. Max(ts) \in ts /\ \A x \in ts : x <= Max(ts)
    BY <1>2, <2>1, Greatest
  <2>3. Latest(ts) = Max(ts)
    BY <1>2 DEF Latest
  <2>4. Latest(ts) \in 1..n
    BY <2>2, <2>3
  <2> QED
    BY <1>2, <2>2, <2>3, <2>4
<1> QED
  BY <1>1, <1>2

\* The members of a sequence of naturals have a bound.
LEMMA Bounded ==
    ASSUME NEW n \in Nat, NEW f, \A t \in 1..n : f[t] \in Nat
    PROVE  \E b \in Nat : \A t \in 1..n : f[t] <= b
<1> DEFINE bad == {m \in 0..n : ~\E b \in Nat : \A t \in 1..m : f[t] <= b}
<1>1. CASE bad = {}
  <2>1. n \in 0..n
    OBVIOUS
  <2> QED
    BY <1>1, <2>1
<1>2. CASE bad # {}
  <2>1. bad \in SUBSET Nat
    OBVIOUS
  <2>2. PICK m \in bad : \A k \in bad : m <= k
    <3> HIDE DEF bad
    <3> QED
      BY <1>2, <2>1, Least
  <2>3. m # 0
    <3>1. \A t \in 1..0 : f[t] <= 0
      OBVIOUS
    <3> QED
      BY <3>1
  <2>4. m - 1 \in 0..n /\ m - 1 \notin bad
    <3>1. m \in 0..n
      OBVIOUS
    <3> HIDE DEF bad
    <3> QED
      BY <2>2, <2>3, <3>1
  <2>5. PICK b \in Nat : \A t \in 1..(m - 1) : f[t] <= b
    BY <2>4
  <2>6. m \in 1..n /\ f[m] \in Nat
    BY <2>3
  <2>7. PICK c \in Nat : b <= c /\ f[m] <= c
    <3>1. CASE b <= f[m]
      BY <2>6, <3>1
    <3>2. CASE f[m] <= b
      BY <3>2
    <3> QED
      BY <2>6, <3>1, <3>2
  <2>8. \A t \in 1..m : f[t] <= c
    <3> SUFFICES ASSUME NEW t \in 1..m PROVE f[t] <= c
      OBVIOUS
    <3>1. CASE t = m
      BY <2>7, <3>1
    <3>2. CASE t # m
      <4>1. t \in 1..(m - 1) /\ t \in 1..n
        BY <2>6, <3>2
      <4>2. f[t] <= b /\ f[t] \in Nat
        BY <2>5, <4>1
      <4> QED
        BY <2>7, <4>2
    <3> QED
      BY <3>1, <3>2
  <2> QED
    BY <2>2, <2>8
<1> QED
  BY <1>1, <1>2

-----------------------------------------------------------------------------
(* The job type. *)

LEMMA StagesAre ==
    ASSUME KindTyped
    PROVE  /\ Stages \in Seq(SUBSET Names) /\ kind.stages \in Seq(SUBSET Names)
           /\ Len(Stages) = Len(kind.stages) + (IF approval THEN 1 ELSE 0)
           /\ \A i \in 1..Len(kind.stages) : Stages[i] = kind.stages[i]
           /\ approval => Stages[Len(Stages)] = {Approval}
<1>1. kind.stages \in Seq(SUBSET Names) /\ Approval \in Names
  BY KindsAssumption DEF KindTyped, Names
<1>2. <<{Approval}>> \in Seq(SUBSET Names) /\ <<>> \in Seq(SUBSET Names)
      /\ Len(<<{Approval}>>) = 1 /\ <<{Approval}>>[1] = {Approval}
  BY <1>1
<1>3. CASE approval
  <2>1. Stages = kind.stages \o <<{Approval}>>
    BY <1>3 DEF Stages, WithApproval
  <2>2. Len(kind.stages) \in Nat
    BY <1>1, LenProperties
  <2> QED
    BY <1>1, <1>2, <1>3, <2>1, <2>2, ConcatProperties
<1>4. CASE ~approval
  <2>1. Stages = kind.stages \o <<>>
    BY <1>4 DEF Stages, WithApproval
  <2>2. Stages = kind.stages
    BY <1>1, <2>1, ConcatEmptySeq
  <2>3. Len(kind.stages) \in Nat
    BY <1>1, LenProperties
  <2> QED
    BY <1>1, <1>4, <2>2, <2>3
<1> QED
  BY <1>3, <1>4

LEMMA EvaluatorsAre ==
    ASSUME KindTyped
    PROVE  /\ Evaluators \subseteq Names /\ IsFiniteSet(Evaluators)
           /\ Names \cap {"all", "none"} = {}
           /\ \A i \in 1..Len(Stages) : Stages[i] \subseteq Evaluators /\ IsFiniteSet(Stages[i])
           /\ Len(Stages) \in Nat /\ DOMAIN Stages = 1..Len(Stages)
           /\ \A i, j \in 1..Len(Stages) : i # j => Stages[i] \cap Stages[j] = {}
<1>1. Stages \in Seq(SUBSET Names)
  BY StagesAre
<1>2. Len(Stages) \in Nat /\ DOMAIN Stages = 1..Len(Stages)
  BY <1>1, LenProperties
<1>3. \A i \in DOMAIN Stages : Stages[i] \subseteq Names
  BY <1>1, <1>2, ElementOfSeq
<1>4. Evaluators \subseteq Names
  BY <1>3, Zenon DEF Evaluators
<1>5. \A i \in DOMAIN Stages : Stages[i] \subseteq Evaluators
  BY Zenon DEF Evaluators
<1>6. IsFiniteSet(Names)
  BY EvaluatorsAssumption DEF Names
<1>7. IsFiniteSet(Evaluators) /\ \A i \in DOMAIN Stages : IsFiniteSet(Stages[i])
  BY <1>3, <1>4, <1>6, FS_Subset
<1>8. Names \cap {"all", "none"} = {}
  BY EvaluatorsAssumption DEF Names
<1>9. ASSUME NEW i \in 1..Len(Stages), NEW j \in 1..Len(Stages), i < j
      PROVE  Stages[i] \cap Stages[j] = {}
  <2>1. kind \in Kinds /\ kind.stages \in Seq(SUBSET Names) /\ Len(kind.stages) \in Nat
    BY StagesAre, LenProperties DEF KindTyped
  <2>2. DOMAIN kind.stages = 1..Len(kind.stages)
    BY <2>1, LenProperties
  <2>3. \A m, n \in DOMAIN kind.stages : m # n => kind.stages[m] \cap kind.stages[n] = {}
    BY <2>1, EvaluatorsAssumption
  <2>4. Approval \notin UNION {kind.stages[m] : m \in DOMAIN kind.stages}
    BY <2>1, KindsAssumption DEF ValidJobType
  <2>5. \A m \in DOMAIN kind.stages : Approval \notin kind.stages[m]
    BY <2>4, Zenon
  <2>9. /\ Len(Stages) = Len(kind.stages) + (IF approval THEN 1 ELSE 0)
        /\ approval => Stages[Len(Stages)] = {Approval}
        /\ \A m \in 1..Len(kind.stages) : Stages[m] = kind.stages[m]
    BY StagesAre
  <2>6. i \in 1..Len(kind.stages)
    <3>1. i \in Nat /\ j \in Nat /\ j <= Len(Stages) /\ i < j
      BY <1>2, <1>9
    <3>2. Len(Stages) <= Len(kind.stages) + 1
      BY <2>1, <2>9
    <3> QED
      BY <1>2, <2>1, <3>1, <3>2
  <2>10. i \in Nat /\ j \in Nat /\ i # j /\ 1 <= j /\ j <= Len(Stages)
    BY <1>2, <1>9
  <2>7. CASE j \in 1..Len(kind.stages)
    BY <2>10, <2>1, <2>2, <2>3, <2>6, <2>7, <2>9
  <2>8. CASE j \notin 1..Len(kind.stages)
    <3>3. j > Len(kind.stages)
      BY <2>1, <2>8, <2>10
    <3>4. approval /\ j = Len(kind.stages) + 1
      <4>1. CASE approval
        BY <2>1, <2>9, <2>10, <3>3, <4>1
      <4>2. CASE ~approval
        <5>1. Len(Stages) = Len(kind.stages)
          BY <2>1, <2>9, <4>2
        <5> QED
          BY <2>1, <2>10, <3>3, <5>1
      <4> QED
        BY <4>1, <4>2
    <3>1. approval /\ j = Len(Stages) /\ Stages[j] = {Approval}
      BY <2>9, <3>4
    <3>2. Stages[i] = kind.stages[i] /\ Approval \notin kind.stages[i]
      BY <2>2, <2>5, <2>6, <2>9
    <3> QED
      BY <3>1, <3>2
  <2> QED
    BY <2>7, <2>8
<1>10. \A i, j \in 1..Len(Stages) : i # j => Stages[i] \cap Stages[j] = {}
  <2> SUFFICES ASSUME NEW i \in 1..Len(Stages), NEW j \in 1..Len(Stages), i # j
               PROVE  Stages[i] \cap Stages[j] = {}
    OBVIOUS
  <2>1. i < j \/ j < i
    BY <1>2
  <2> QED
    BY <1>9, <2>1
<1> QED
  BY <1>2, <1>4, <1>5, <1>7, <1>8, <1>10

LEMMA TasksAre ==
    ASSUME LogTyped
    PROVE  /\ Tasks = 1..Len(log) /\ Len(log) \in Nat
           /\ \A t \in Tasks : log[t] \in TaskRecords /\ box[t] \in Boxes
BY LenProperties, ElementOfSeq DEF LogTyped, Tasks

\* The last cycle is at least that of every task.
LEMMA TopCycleIs ==
    ASSUME LogTyped
    PROVE  /\ TopCycle \in Nat \ {0}
           /\ \A t \in Tasks : log[t].cycle <= TopCycle
           /\ TopCycle = 1 \/ \E t \in Tasks : log[t].cycle = TopCycle
<1> DEFINE cycles == {log[t].cycle : t \in Tasks}
<1>1. \A t \in Tasks : log[t].cycle \in Nat \ {0}
  BY TasksAre DEF TaskRecords
<1>2. PICK b \in Nat : \A t \in Tasks : log[t].cycle <= b
  <2> DEFINE f == [t \in Tasks |-> log[t].cycle]
  <2>1. \A t \in 1..Len(log) : f[t] \in Nat
    BY <1>1, TasksAre
  <2>2. \E b \in Nat : \A t \in 1..Len(log) : f[t] <= b
    BY <2>1, TasksAre, Bounded
  <2> QED
    BY <2>2, TasksAre
<1>3. {1} \cup cycles \in SUBSET Nat /\ \A x \in {1} \cup cycles : x <= b + 1
  BY <1>1, <1>2
<1>4. b + 1 \in Nat /\ {1} \cup cycles # {}
  OBVIOUS
<1>5. TopCycle \in {1} \cup cycles /\ \A x \in {1} \cup cycles : x <= TopCycle
  <2>1. TopCycle = Max({1} \cup cycles)
    BY DEF TopCycle
  <2> HIDE DEF cycles
  <2> QED
    BY <1>3, <1>4, <2>1, Greatest
<1> QED
  BY <1>1, <1>5

LEMMA LineageIs ==
    ASSUME LogTyped, NEW phase, NEW c, NEW about
    PROVE  /\ Lineage(phase, c, about) \subseteq 1..Len(log)
           /\ Latest(Lineage(phase, c, about)) \in {0} \cup Tasks
           /\ Latest(Lineage(phase, c, about)) # 0 =>
                Latest(Lineage(phase, c, about)) \in Lineage(phase, c, about)
           /\ Lineage(phase, c, about) # {} =>
                /\ Latest(Lineage(phase, c, about)) # 0
                /\ \A u \in Lineage(phase, c, about) : u <= Latest(Lineage(phase, c, about))
<1>1. Lineage(phase, c, about) \in SUBSET (1..Len(log))
  BY TasksAre DEF Lineage
<1>2. Len(log) \in Nat /\ Tasks = 1..Len(log)
  BY TasksAre
<1> HIDE DEF Lineage
<1> QED
  BY <1>1, <1>2, LatestIs

-----------------------------------------------------------------------------
(* The chores. *)

\* The chores after the first.
Rest == {todo[k] : k \in 2..Len(todo)}

LEMMA HeadIs ==
    ASSUME TodoTyped, ~Idle
    PROVE  /\ Len(todo) \in Nat \ {0} /\ DOMAIN todo = 1..Len(todo)
           /\ Head(todo) = todo[1] /\ todo[1] \in Chores /\ todo[1] \in Left
           /\ \A x \in Rest : x \in Left /\ x \in Chores /\ todo[1].op \in Before(x.op)
           /\ \A k \in 2..Len(todo) : todo[k] \in Chores /\ todo[1].op \in Before(todo[k].op)
<1>1. todo \in Seq(Chores) /\ todo # <<>>
  BY DEF TodoTyped, Idle
<1>2. Len(todo) \in Nat \ {0} /\ DOMAIN todo = 1..Len(todo)
  BY <1>1, EmptySeq, LenProperties
<1>3. Head(todo) = todo[1]
  BY <1>1
<1>4. \A k \in 1..Len(todo) : todo[k] \in Chores
  BY <1>1, ElementOfSeq
<1>5. 1 \in 1..Len(todo) /\ \A k \in 2..Len(todo) : k \in 1..Len(todo) /\ 1 < k
  BY <1>2
<1> QED
  BY <1>2, <1>3, <1>4, <1>5 DEF TodoTyped, InOrder, Left, Rest

\* What is left is the new chores, and then the old ones.
LEMMA ThenIs ==
    ASSUME TodoTyped, NEW c \in Seq(Chores), Then(c)
    PROVE  /\ todo' \in Seq(Chores) /\ DOMAIN todo' = 1..Len(todo') /\ DOMAIN c = 1..Len(c)
           /\ Len(todo') \in Nat /\ Len(c) \in Nat /\ Len(c) <= Len(todo')
           /\ \A k \in 1..Len(c) : todo'[k] = c[k]
           /\ \A k \in Len(c) + 1..Len(todo') :
                /\ ~Idle /\ k - Len(c) + 1 \in 2..Len(todo)
                /\ todo'[k] = todo[k - Len(c) + 1]
           /\ Idle => Len(todo') = Len(c)
           /\ ~Idle => Len(todo') = Len(c) + Len(todo) - 1
<1> DEFINE r == IF Idle THEN <<>> ELSE Tail(todo)
<1>1. r \in Seq(Chores) /\ Len(r) \in Nat
      /\ (Idle => Len(r) = 0)
      /\ (~Idle => Len(r) = Len(todo) - 1)
      /\ \A k \in 1..Len(r) : ~Idle /\ r[k] = todo[k + 1]
  <2>1. CASE Idle
    BY <2>1
  <2>2. CASE ~Idle
    BY <2>2, HeadTailProperties, LenProperties DEF Idle, TodoTyped
  <2> QED
    BY <2>1, <2>2
<1>2. todo' = c \o r
  BY DEF Then
<1> HIDE DEF r
<1>3. /\ todo' \in Seq(Chores) /\ Len(todo') = Len(c) + Len(r)
      /\ \A i \in 1..Len(c) + Len(r) : todo'[i] = IF i <= Len(c) THEN c[i] ELSE r[i - Len(c)]
  BY <1>1, <1>2, ConcatProperties
<1>4. Len(c) \in Nat /\ Len(todo) \in Nat
  BY LenProperties DEF TodoTyped
<1>5. ASSUME NEW k \in Len(c) + 1..Len(todo')
      PROVE  /\ ~Idle /\ k - Len(c) + 1 \in 2..Len(todo)
             /\ todo'[k] = todo[k - Len(c) + 1]
  <2>1. k - Len(c) \in 1..Len(r) /\ k \in 1..Len(c) + Len(r) /\ ~(k <= Len(c))
    BY <1>3, <1>4, <1>1
  <2>2. todo'[k] = r[k - Len(c)]
    BY <1>3, <2>1
  <2>3. ~Idle /\ Len(r) = Len(todo) - 1 /\ r[k - Len(c)] = todo[k - Len(c) + 1]
    BY <1>1, <2>1
  <2>4. k \in Int /\ k - Len(c) + 1 \in 2..Len(todo)
    BY <1>4, <2>1, <2>3
  <2> QED
    BY <2>2, <2>3, <2>4
<1>6. Len(c) <= Len(todo') /\ Len(todo') \in Nat
  BY <1>1, <1>3, <1>4
<1>7. \A k \in 1..Len(c) : todo'[k] = c[k]
  BY <1>1, <1>3, <1>4
<1>8. DOMAIN todo' = 1..Len(todo') /\ DOMAIN c = 1..Len(c)
  BY <1>3, LenProperties
<1>9. (Idle => Len(todo') = Len(c)) /\ (~Idle => Len(todo') = Len(c) + Len(todo) - 1)
  BY <1>1, <1>3, <1>4
<1> QED
  BY <1>3, <1>4, <1>5, <1>6, <1>7, <1>8, <1>9

\* The chores left keep their order and find what they expect if the new ones
\* fit where the one that is over was, and nothing is taken from the others.
LEMMA ThenTyped ==
    ASSUME TodoTyped, NEW c \in Seq(Chores), Then(c),
           \A i, j \in DOMAIN c : i < j => c[i].op \in Before(c[j].op),
           \A x \in ToSet(c) : ChoreTyped(x)',
           ~Idle => \A i \in DOMAIN c : \A o \in Ops :
                      todo[1].op \in Before(o) => c[i].op \in Before(o),
           ~Idle => \A x \in Rest : ChoreTyped(x)'
    PROVE  TodoTyped'
<1>1. \A k \in 1..Len(todo') :
        \/ k \in DOMAIN c /\ todo'[k] = c[k]
        \/ /\ ~Idle /\ k - Len(c) + 1 \in 2..Len(todo)
           /\ k > Len(c) /\ todo'[k] = todo[k - Len(c) + 1]
  <2>1. /\ Len(todo') \in Nat /\ Len(c) \in Nat /\ DOMAIN c = 1..Len(c)
        /\ \A k \in 1..Len(c) : todo'[k] = c[k]
        /\ \A k \in Len(c) + 1..Len(todo') :
             /\ ~Idle /\ k - Len(c) + 1 \in 2..Len(todo)
             /\ todo'[k] = todo[k - Len(c) + 1]
    BY ThenIs
  <2>2. \A k \in 1..Len(todo') : k \in 1..Len(c) \/ (k \in Len(c) + 1..Len(todo') /\ k > Len(c))
    BY <2>1
  <2> QED
    BY <2>1, <2>2
<1>2. DOMAIN todo' = 1..Len(todo') /\ Len(todo') \in Nat /\ Len(c) \in Nat /\ DOMAIN c = 1..Len(c)
  BY ThenIs
<1>3. todo' \in Seq(Chores)
  BY ThenIs
<1>4. ASSUME NEW i \in DOMAIN todo', NEW j \in DOMAIN todo', i < j
      PROVE  todo'[i].op \in Before(todo'[j].op)
  <2>1. CASE j \in DOMAIN c /\ todo'[j] = c[j]
    <3>1. i \in DOMAIN c /\ todo'[i] = c[i]
      BY <1>1, <1>2, <1>4, <2>1
    <3> QED
      BY <1>4, <2>1, <3>1
  <2>2. CASE /\ ~Idle /\ j - Len(c) + 1 \in 2..Len(todo)
             /\ j > Len(c) /\ todo'[j] = todo[j - Len(c) + 1]
    <3> DEFINE y == j - Len(c) + 1
    <3>1. todo[y] \in Chores /\ todo[1].op \in Before(todo[y].op) /\ todo[y].op \in Ops
      BY <2>2, HeadIs DEF Chores
    <3>2. CASE i \in DOMAIN c /\ todo'[i] = c[i]
      BY <2>2, <3>1, <3>2
    <3>3. CASE /\ i - Len(c) + 1 \in 2..Len(todo) /\ todo'[i] = todo[i - Len(c) + 1]
      <4> DEFINE x == i - Len(c) + 1
      <4>1. x \in DOMAIN todo /\ y \in DOMAIN todo /\ x < y
        BY <1>2, <1>4, <2>2, <3>3, HeadIs
      <4>2. todo[x].op \in Before(todo[y].op)
        BY <4>1 DEF TodoTyped, InOrder
      <4> QED
        BY <2>2, <3>3, <4>2
    <3> QED
      BY <1>1, <1>2, <3>2, <3>3
  <2> QED
    BY <1>1, <1>2, <2>1, <2>2
<1>5. \A x \in Left' : ChoreTyped(x)'
  <2> SUFFICES ASSUME NEW k \in DOMAIN todo', NEW x, x = todo'[k] PROVE ChoreTyped(x)'
    BY DEF Left
  <2>1. CASE k \in DOMAIN c /\ todo'[k] = c[k]
    BY <2>1 DEF ToSet
  <2>2. CASE ~Idle /\ k - Len(c) + 1 \in 2..Len(todo) /\ todo'[k] = todo[k - Len(c) + 1]
    <3>1. x \in Rest
      BY <2>2 DEF Rest
    <3> QED
      BY <2>2, <3>1
  <2> QED
    BY <1>1, <1>2, <2>1, <2>2
<1>6. InOrder'
  BY <1>4 DEF InOrder, Before
<1> QED
  BY <1>3, <1>5, <1>6 DEF TodoTyped

-----------------------------------------------------------------------------
(* What the steps have in common. *)

LEMMA SameStages ==
    ASSUME kind' = kind, approval' = approval
    PROVE  Stages' = Stages /\ Evaluators' = Evaluators
BY DEF Stages, WithApproval, Evaluators

\* The log only grows, and a task stays what it is.
Grows ==
    /\ Tasks \subseteq Tasks'
    /\ \A t \in Tasks : log'[t].phase = log[t].phase

\* Behind a chore that launches nothing there is at most the rest of a restart.
LEMMA RestQuiet ==
    ASSUME TypeOK, ~Idle, todo[1].op \notin {"place", "stamp", "launch", "rebuild"}, Grows,
           job' \in {"Ready", "Stalled"} => job \in {"Ready", "Stalled"}
    PROVE  \A x \in Rest : x.op \in {"attach", "sweep"} /\ ChoreTyped(x)'
<1> SUFFICES ASSUME NEW x \in Rest
             PROVE  x.op \in {"attach", "sweep"} /\ ChoreTyped(x)'
  OBVIOUS
<1>1. x \in Left /\ x \in Chores /\ todo[1].op \in Before(x.op) /\ todo[1] \in Chores
  BY HeadIs DEF TypeOK
<1>2. x.op \in {"attach", "sweep"}
  BY <1>1 DEF Before, Chores, Ops
<1>3. ChoreTyped(x)
  BY <1>1 DEF TypeOK, TodoTyped
<1>4. CASE x.op = "sweep"
  BY <1>4 DEF ChoreTyped
<1>5. CASE x.op = "attach"
  <2>1. x.n \in Tasks /\ log[x.n].phase # "Escalation" /\ job \notin {"Ready", "Stalled"}
    BY <1>3, <1>5 DEF ChoreTyped
  <2>2. x.n \in Tasks' /\ log'[x.n].phase # "Escalation" /\ job' \notin {"Ready", "Stalled"}
    BY <2>1 DEF Grows
  <2> QED
    BY <1>5, <2>2 DEF ChoreTyped
<1> QED
  BY <1>2, <1>4, <1>5

\* The launches of a stage change nothing that the chores behind them wait for.
LEMMA RestBusy ==
    ASSUME TypeOK, ~Idle, todo[1].op \in {"place", "stamp", "launch", "rebuild"}, Grows,
           kind' = kind, approval' = approval, job' = job,
           slice # None => slice' # None /\ slice'.cycle = slice.cycle,
           todo[1].op # "rebuild" => slice' = slice
    PROVE  \A x \in Rest : ChoreTyped(x)'
<1> SUFFICES ASSUME NEW x \in Rest
             PROVE  ChoreTyped(x)'
  OBVIOUS
<1>1. x \in Left /\ x \in Chores /\ todo[1].op \in Before(x.op) /\ todo[1] \in Chores
  BY HeadIs DEF TypeOK
<1>2. x.op \in {"launch", "slots", "rebuild", "settle", "attach", "sweep"}
      /\ (todo[1].op = "rebuild" => x.op \in {"settle", "attach", "sweep"})
  BY <1>1 DEF Before, Chores, Ops
<1>3. ChoreTyped(x)
  BY <1>1 DEF TypeOK, TodoTyped
<1>4. Stages' = Stages /\ Evaluators' = Evaluators
  BY SameStages
<1>5. CASE x.op = "sweep"
  BY <1>5 DEF ChoreTyped
<1>6. CASE x.op = "attach"
  <2>1. x.n \in Tasks' /\ log'[x.n].phase # "Escalation" /\ job' \notin {"Ready", "Stalled"}
    BY <1>3, <1>6 DEF ChoreTyped, Grows
  <2> QED
    BY <1>6, <2>1 DEF ChoreTyped
<1>7. CASE x.op = "settle"
  BY <1>3, <1>7 DEF ChoreTyped
<1>8. CASE x.op \in {"launch", "rebuild"}
  BY <1>3, <1>4, <1>8 DEF ChoreTyped
<1>9. CASE x.op = "slots"
  <2>1. Rounding' = Rounding
    BY <1>2, <1>9 DEF Rounding
  <2> QED
    BY <1>3, <1>4, <1>9, <2>1 DEF ChoreTyped
<1> QED
  BY <1>2, <1>5, <1>6, <1>7, <1>8, <1>9

\* One entry of the log is rewritten.
LEMMA SetTask ==
    ASSUME LogTyped, Evaluators' = Evaluators, NEW t \in Tasks, NEW r \in TaskRecords,
           TaskTyped(r), r.phase = log[t].phase, r.about = log[t].about,
           log' = [log EXCEPT ![t] = r],
           box' \in Seq(Boxes), Len(box') = Len(box), watched' \subseteq Tasks
    PROVE  LogTyped' /\ Grows /\ Tasks' = Tasks /\ Len(log') = Len(log)
           /\ log'[t] = r /\ \A u \in Tasks \ {t} : log'[u] = log[u]
<1>1. Tasks = 1..Len(log) /\ log \in Seq(TaskRecords)
  BY TasksAre DEF LogTyped
<1>2. /\ log' \in Seq(TaskRecords) /\ Len(log') = Len(log)
      /\ \A u \in Tasks : log'[u] = IF u = t THEN r ELSE log[u]
  BY <1>1, ExceptSeq
<1>3. Tasks' = Tasks
  BY <1>1, <1>2, LenProperties DEF Tasks
<1> QED
  BY <1>2, <1>3 DEF LogTyped, Grows, TaskTyped

\* One is added.
LEMMA AddTask ==
    ASSUME LogTyped, Evaluators' = Evaluators, NEW r \in TaskRecords, Create(r), r.by = 0,
           TaskTyped(r), watched' = watched
    PROVE  LogTyped' /\ Grows /\ Len(log') = Len(log) + 1 /\ Tasks' = Tasks \cup {Len(log) + 1}
           /\ Len(log) + 1 \notin Tasks /\ Len(log) \in Nat /\ box'[Len(log) + 1] = "none"
           /\ log'[Len(log) + 1] = r
           /\ \A u \in Tasks : log'[u] = log[u] /\ box'[u] = box[u]
<1>1. Tasks = 1..Len(log) /\ log \in Seq(TaskRecords) /\ Len(log) \in Nat
      /\ box \in Seq(Boxes) /\ Len(box) = Len(log)
  BY TasksAre DEF LogTyped
<1>2. /\ log' \in Seq(TaskRecords) /\ Len(log') = Len(log) + 1 /\ log'[Len(log) + 1] = r
      /\ \A u \in 1..Len(log) : log'[u] = log[u]
  BY <1>1, AppendProperties DEF Create
<1>3. /\ box' \in Seq(Boxes) /\ Len(box') = Len(log) + 1 /\ box'[Len(log) + 1] = "none"
      /\ \A u \in 1..Len(log) : box'[u] = box[u]
  <2>1. "none" \in Boxes
    BY DEF Boxes
  <2> QED
    BY <1>1, <2>1, AppendProperties DEF Create
<1>4. Tasks' = 1..Len(log) + 1
  BY <1>2, LenProperties DEF Tasks
<1>5. Tasks' = Tasks \cup {Len(log) + 1} /\ Len(log) + 1 \notin Tasks
  BY <1>1, <1>4
<1> QED
  BY <1>1, <1>2, <1>3, <1>5 DEF LogTyped, Grows, TaskTyped

\* The log is left alone.
LEMMA KeepLog ==
    ASSUME LogTyped, Evaluators' = Evaluators, log' = log,
           box' \in Seq(Boxes), Len(box') = Len(box), watched' \subseteq Tasks
    PROVE  LogTyped' /\ Grows /\ Tasks' = Tasks
BY DEF LogTyped, Grows, Tasks, TaskTyped

\* Some entries change, none what it is.
LEMMA MapLog ==
    ASSUME LogTyped, Evaluators' = Evaluators, NEW g, log' = [t \in Tasks |-> g[t]],
           \A t \in Tasks : /\ g[t] \in TaskRecords /\ g[t].phase = log[t].phase
                            /\ TaskTyped(g[t]),
           box' \in Seq(Boxes), Len(box') = Len(box), watched' \subseteq Tasks
    PROVE  LogTyped' /\ Grows /\ Tasks' = Tasks /\ Len(log') = Len(log)
<1>1. Tasks = 1..Len(log) /\ Len(log) \in Nat
  BY TasksAre
<1>2. log' \in [1..Len(log) -> TaskRecords]
  BY <1>1
<1>3. log' \in Seq(TaskRecords) /\ Len(log') = Len(log)
  BY <1>1, <1>2
<1>4. Tasks' = Tasks
  BY <1>1, <1>3, LenProperties DEF Tasks
<1> QED
  BY <1>1, <1>3, <1>4 DEF LogTyped, Grows, TaskTyped

LEMMA KilledBoxes ==
    ASSUME LogTyped, NEW ts
    PROVE  /\ Kill(ts) \in Seq(Boxes) /\ Len(Kill(ts)) = Len(box)
           /\ \A t \in Tasks : Kill(ts)[t] = IF t \in ts /\ box[t] = "up" THEN "silent" ELSE box[t]
<1>1. Tasks = 1..Len(log) /\ Len(log) \in Nat /\ \A t \in Tasks : box[t] \in Boxes
  BY TasksAre
<1>2. Kill(ts) \in [1..Len(log) -> Boxes]
  BY <1>1 DEF Kill, Boxes, Ended
<1> QED
  BY <1>1, <1>2 DEF Kill, LogTyped

LEMMA SetBox ==
    ASSUME LogTyped, NEW t \in Tasks, NEW b \in Boxes
    PROVE  [box EXCEPT ![t] = b] \in Seq(Boxes) /\ Len([box EXCEPT ![t] = b]) = Len(box)
           /\ \A u \in Tasks : [box EXCEPT ![t] = b][u] = IF u = t THEN b ELSE box[u]
<1>1. Tasks = 1..Len(box) /\ box \in Seq(Boxes)
  BY TasksAre DEF LogTyped
<1> QED
  BY <1>1, ExceptSeq

\* The chores of one chore.
LEMMA OneChore ==
    ASSUME NEW op \in Ops, NEW c \in Nat, NEW n \in Nat,
           NEW of \in Names \cup Reasons \cup {"none", "all"}
    PROVE  /\ Do(op, c, n, of) \in Seq(Chores) /\ Len(Do(op, c, n, of)) = 1
           /\ DOMAIN Do(op, c, n, of) = 1..1
           /\ Do(op, c, n, of)[1] = [op |-> op, cycle |-> c, n |-> n, of |-> of]
           /\ ToSet(Do(op, c, n, of)) = {[op |-> op, cycle |-> c, n |-> n, of |-> of]}
<1>1. [op |-> op, cycle |-> c, n |-> n, of |-> of] \in Chores
  BY DEF Chores
<1>2. Do(op, c, n, of) = <<[op |-> op, cycle |-> c, n |-> n, of |-> of]>>
  BY DEF Do
<1> QED
  BY <1>1, <1>2 DEF ToSet

\* A chore that leaves one more, or nothing.
LEMMA ThenOne ==
    ASSUME TodoTyped, NEW op \in Ops, NEW c \in Nat, NEW n \in Nat,
           NEW of \in Names \cup Reasons \cup {"none", "all"}, Then(Do(op, c, n, of)),
           NEW x, x = [op |-> op, cycle |-> c, n |-> n, of |-> of], ChoreTyped(x)',
           op # "sweep",
           ~Idle => \A y \in Rest : ChoreTyped(y)',
           ~Idle => todo[1].op \notin {"place", "stamp", "launch", "rebuild"} \/ op \in {"place", "stamp"}
    PROVE  TodoTyped'
<1>1. /\ Do(op, c, n, of) \in Seq(Chores) /\ DOMAIN Do(op, c, n, of) = 1..1
      /\ Do(op, c, n, of)[1] = x /\ ToSet(Do(op, c, n, of)) = {x} /\ x.op = op
  BY OneChore
<1>2. ~Idle => \A o \in Ops : todo[1].op \in Before(o) => op \in Before(o)
  BY DEF Before, Ops
<1>3. PICK l : l = Do(op, c, n, of)
  OBVIOUS
<1>4. /\ l \in Seq(Chores) /\ DOMAIN l = 1..1 /\ l[1] = x /\ ToSet(l) = {x}
      /\ Then(l)
  BY <1>1, <1>3
<1>5. \A i, j \in DOMAIN l : i < j => l[i].op \in Before(l[j].op)
  BY <1>4
<1>6. \A y \in ToSet(l) : ChoreTyped(y)'
  BY <1>4
<1>7. ~Idle => \A i \in DOMAIN l : \A o \in Ops : todo[1].op \in Before(o) => l[i].op \in Before(o)
  BY <1>1, <1>2, <1>4
<1> QED
  BY <1>4, <1>5, <1>6, <1>7, ThenTyped

LEMMA ThenNone ==
    ASSUME TodoTyped, Then(<<>>), ~Idle => \A y \in Rest : ChoreTyped(y)'
    PROVE  TodoTyped'
<1>1. <<>> \in Seq(Chores) /\ DOMAIN <<>> = {} /\ ToSet(<<>>) = {}
  BY DEF ToSet
<1> QED
  BY <1>1, ThenTyped

\* The slice is kept, or dropped.
LEMMA KeepSlice ==
    ASSUME SliceTyped, slice' = slice, Evaluators' = Evaluators, Stages' = Stages,
           Tasks \subseteq Tasks', Rounding => job' = "Evaluation"
    PROVE  SliceTyped'
BY DEF SliceTyped, Rounding

LEMMA DropSlice ==
    ASSUME slice' = None
    PROVE  SliceTyped' /\ ~Rounding'
BY DEF SliceTyped, Rounding

-----------------------------------------------------------------------------
(* The end of a task. *)

Same(t, r) ==
    /\ r.phase = log[t].phase /\ r.about = log[t].about /\ r.cycle = log[t].cycle
    /\ r.attempt = log[t].attempt /\ r.cid = log[t].cid /\ r.tip = log[t].tip
    /\ TaskTyped(r)

\* What the end of an attempt at the work leads to,
WorkHandled(t, r) ==
    /\ log[t].phase = "Work" /\ slice' = slice /\ (Idle => log[t].st = "Running")
    /\ \/ r.st = "Done" /\ r.loss = log[t].loss /\ Then(Do("evaluate", 0, 0, "none"))
       \/ r.st = "Failed" /\ \E n \in Nat : Then(Do("attempt", log[t].cycle, n, "none"))
       \/ r.st = "Failed" /\ \E why \in {"work", "loss"} : Then(Do("escalate", 0, t, why))

\* that of an evaluator the round waits for,
SlotHandled(t, r) ==
    /\ log[t].phase = "Evaluation" /\ Rounding /\ slice.round.slot[log[t].about].task = t
    /\ r.st = "Failed" /\ slice' = slice /\ (Idle => OpenSlot(t))
    /\ \/ \E n \in Nat : Then(Relaunch(log[t].about, n))
       \/ Then(Do("escalate", 0, t, "loss"))
SlotClosed(t, r) ==
    /\ OpenSlot(t)
    /\ \E out \in {"infra", "pass", "fail", "abort"} :
         /\ SlotIs(t, out)
         /\ IF out = "infra" THEN r.st = "Failed" ELSE r.st = "Done" /\ r.verdict = out

\* and that of one it does not wait for.
NobodyWaits(t, r) ==
    /\ log[t].phase = "Evaluation" /\ r.st = "Failed" /\ slice' = slice /\ Then(<<>>) /\ ~Idle
    /\ ~(Rounding /\ slice.round.slot[log[t].about].task = t)

Handled(t) ==
    \/ UNCHANGED <<log, slice>> /\ Then(<<>>)
    \/ /\ slice # None
       /\ \E r \in TaskRecords :
            /\ log' = [log EXCEPT ![t] = r] /\ Same(t, r)
            /\ WorkHandled(t, r) \/ SlotHandled(t, r) \/ SlotClosed(t, r) \/ NobodyWaits(t, r)

LEMMA BudgetsAre ==
    ASSUME KindTyped
    PROVE  /\ {WorkRetries, EvalRetries, ReworkBudget, RelaunchCap} \subseteq Nat
           /\ \A ev \in Names : EvType[ev] \in {"agent", "command", "human"}
<1>1. kind \in Kinds
  BY DEF KindTyped
<1>2. {kind.workRetries, kind.evalRetries, kind.reworks, kind.cap, kind.tasks,
       kind.pushes, kind.crashes} \subseteq Nat
  BY <1>1, KindsAssumption
<1> QED
  BY <1>2, EvaluatorsAssumption DEF WorkRetries, EvalRetries, ReworkBudget, RelaunchCap, Names

LEMMA RetryIs ==
    ASSUME KindTyped, LogTyped, NEW t \in Tasks
    PROVE  \/ \E n \in Nat : RetryWork(t) = Do("attempt", log[t].cycle, n, "none")
           \/ RetryWork(t) = Do("escalate", 0, t, "work")
<1>1. log[t].attempt + 1 \in Nat
  BY TasksAre DEF TaskRecords
<1> QED
  BY <1>1 DEF RetryWork

LEMMA WorkExitHandled ==
    ASSUME TypeOK, NEW t \in Tasks, NEW how, log[t].phase = "Work", WorkExited(t, how)
    PROVE  Handled(t)
<1> DEFINE by == IF log[t].by # 0 THEN log[t].by ELSE slice.sub
<1>1. log[t] \in TaskRecords /\ TaskTyped(log[t]) /\ log \in Seq(TaskRecords) /\ t \in DOMAIN log
  BY TasksAre DEF TypeOK, LogTyped, Tasks
<1>2. CASE UNCHANGED <<log, slice>> /\ Then(<<>>)
  BY <1>2 DEF Handled
<1>3. CASE /\ slice # None
           /\ log' = [log EXCEPT ![t].st = "Done", ![t].by = by]
           /\ slice' = slice /\ Then(Do("evaluate", 0, 0, "none")) /\ log[t].st = "Running"
  <2> DEFINE r == [log[t] EXCEPT !.st = "Done", !.by = by]
  <2>1. slice.sub \in {0} \cup Tasks /\ by \in {0} \cup Tasks /\ by \in Nat
    <3>1. slice.sub \in {0} \cup Tasks /\ Tasks \subseteq Nat
      BY <1>3, TasksAre DEF TypeOK, SliceTyped
    <3> QED
      BY <1>1, <3>1 DEF TaskTyped
  <2>2. log' = [log EXCEPT ![t] = r]
    BY <1>1, <1>3
  <2>3. r \in TaskRecords /\ r.st = "Done" /\ r.loss = log[t].loss
    BY <1>1, <2>1 DEF TaskRecords
  <2>4. Same(t, r)
    BY <1>1, <2>1 DEF Same, TaskTyped, TaskRecords
  <2> HIDE DEF r, by
  <2>5. WorkHandled(t, r)
    BY <1>3, <2>3 DEF WorkHandled
  <2> QED
    BY <1>3, <2>2, <2>3, <2>4, <2>5 DEF Handled
<1>4. CASE /\ slice # None /\ log' = [log EXCEPT ![t].st = "Failed"]
           /\ slice' = slice /\ Then(RetryWork(t)) /\ log[t].st = "Running"
  <2> DEFINE r == [log[t] EXCEPT !.st = "Failed"]
  <2>2. log' = [log EXCEPT ![t] = r]
    BY <1>1, <1>4
  <2>3. r \in TaskRecords /\ r.st = "Failed"
    BY <1>1 DEF TaskRecords
  <2>4. Same(t, r)
    BY <1>1 DEF Same, TaskTyped, TaskRecords
  <2> HIDE DEF r
  <2>5. WorkHandled(t, r)
    BY <1>4, <2>3, RetryIs DEF WorkHandled, TypeOK
  <2> QED
    BY <1>4, <2>2, <2>3, <2>4, <2>5 DEF Handled
<1> QED
  BY <1>2, <1>3, <1>4 DEF WorkExited

LEMMA EvalExitHandled ==
    ASSUME TypeOK, NEW t \in Tasks, NEW how, EvalExited(t, how)
    PROVE  Handled(t)
<1> DEFINE ev == log[t].about
           n == log[t].attempt
           refused == how = "refused" /\ EvType[ev] = "command"
           verdict == IF EvType[ev] = "agent" THEN log[t].verdict
                      ELSE IF how = "ok" THEN "pass" ELSE IF how = "bad" THEN "fail" ELSE "none"
<1>1. log[t] \in TaskRecords /\ TaskTyped(log[t]) /\ log \in Seq(TaskRecords) /\ t \in DOMAIN log
  BY TasksAre DEF TypeOK, LogTyped, Tasks
<1>2. CASE ~OpenSlot(t)
  BY <1>2 DEF EvalExited, Handled
<1>3. CASE OpenSlot(t)
  <2>1. log[t].phase = "Evaluation" /\ Rounding /\ slice.round.slot[ev].task = t /\ slice # None
    BY <1>3 DEF OpenSlot, Rounding
  <2>2. n + 1 \in Nat /\ n \in Nat /\ verdict \in {"none", "pass", "fail", "abort"}
    BY <1>1, <2>1 DEF TaskRecords, TaskTyped
  <2>3. CASE refused /\ n <= EvalRetries
    <3> DEFINE r == [log[t] EXCEPT !.st = "Failed"]
    <3>1. /\ log' = [log EXCEPT ![t].st = "Failed"] /\ slice' = slice
          /\ Then(Relaunch(ev, n + 1))
      BY <1>3, <2>3 DEF EvalExited
    <3>2. log' = [log EXCEPT ![t] = r]
      BY <1>1, <3>1
    <3>3. r \in TaskRecords /\ r.st = "Failed" /\ Same(t, r)
      BY <1>1 DEF TaskRecords, Same, TaskTyped
    <3> HIDE DEF r, refused
    <3>4. SlotHandled(t, r)
      BY <1>3, <2>1, <2>2, <3>1, <3>3 DEF SlotHandled
    <3> QED
      BY <2>1, <3>2, <3>3, <3>4 DEF Handled
  <2>4. CASE refused /\ ~(n <= EvalRetries)
    <3> DEFINE r == [log[t] EXCEPT !.st = "Failed"]
    <3>1. log' = [log EXCEPT ![t].st = "Failed"] /\ SlotIs(t, "infra")
      BY <1>3, <2>4 DEF EvalExited
    <3>2. log' = [log EXCEPT ![t] = r]
      BY <1>1, <3>1
    <3>3. r \in TaskRecords /\ r.st = "Failed" /\ Same(t, r)
      BY <1>1 DEF TaskRecords, Same, TaskTyped
    <3> HIDE DEF r, refused
    <3>4. SlotClosed(t, r)
      BY <1>3, <3>1, <3>3 DEF SlotClosed
    <3> QED
      BY <2>1, <3>2, <3>3, <3>4 DEF Handled
  <2>5. CASE ~refused /\ verdict = "none"
    <3> DEFINE r == [log[t] EXCEPT !.st = "Failed", !.loss = TRUE]
    <3>1. /\ log' = [log EXCEPT ![t].st = "Failed", ![t].loss = TRUE] /\ slice' = slice
          /\ Then(LostOr(t, Relaunch(ev, n)))
      BY <1>3, <2>5 DEF EvalExited
    <3>2. log' = [log EXCEPT ![t] = r]
      BY <1>1, <3>1
    <3>3. r \in TaskRecords /\ r.st = "Failed" /\ Same(t, r)
      BY <1>1 DEF TaskRecords, Same, TaskTyped
    <3>5. Then(Do("escalate", 0, t, "loss")) \/ Then(Relaunch(ev, n))
      BY <3>1 DEF LostOr
    <3> HIDE DEF r, refused, verdict
    <3>4. SlotHandled(t, r)
      BY <1>3, <2>1, <2>2, <3>1, <3>3, <3>5 DEF SlotHandled
    <3> QED
      BY <2>1, <3>2, <3>3, <3>4 DEF Handled
  <2>6. CASE ~refused /\ verdict # "none"
    <3> DEFINE r == [log[t] EXCEPT !.st = "Done", !.verdict = verdict]
    <3>1. log' = [log EXCEPT ![t].st = "Done", ![t].verdict = verdict] /\ SlotIs(t, verdict)
      BY <1>3, <2>6 DEF EvalExited
    <3>6. verdict \in {"pass", "fail", "abort"}
      BY <2>2, <2>6
    <3> HIDE DEF refused, verdict
    <3>2. log' = [log EXCEPT ![t] = r]
      BY <1>1, <3>1
    <3>3. r \in TaskRecords /\ r.st = "Done" /\ r.verdict = verdict /\ Same(t, r)
      BY <1>1, <3>6 DEF TaskRecords, Same, TaskTyped
    <3> HIDE DEF r
    <3>4. SlotClosed(t, r)
      BY <1>3, <3>1, <3>3, <3>6 DEF SlotClosed
    <3> QED
      BY <2>1, <3>2, <3>3, <3>4 DEF Handled
  <2> QED
    BY <2>3, <2>4, <2>5, <2>6
<1> QED
  BY <1>2, <1>3

LEMMA ExitHandled ==
    ASSUME TypeOK, NEW t \in Tasks, NEW how, TaskExited(t, how)
    PROVE  Handled(t)
BY WorkExitHandled, EvalExitHandled DEF TaskExited

LEMMA LossHandled ==
    ASSUME TypeOK, NEW t \in Tasks, log[t].phase # "Escalation", InfraLost(t), ~Idle
    PROVE  Handled(t)
<1> DEFINE r == [log[t] EXCEPT !.st = "Failed", !.loss = TRUE]
<1>1. log[t] \in TaskRecords /\ TaskTyped(log[t]) /\ log \in Seq(TaskRecords) /\ t \in DOMAIN log
  BY TasksAre DEF TypeOK, LogTyped, Tasks
<1>2. CASE slice = None
  BY <1>2 DEF InfraLost, Handled
<1>3. CASE slice # None
  <2>1. /\ log' = [log EXCEPT ![t].st = "Failed", ![t].loss = TRUE] /\ slice' = slice
        /\ Then(IF log[t].phase = "Work"
                  THEN LostOr(t, Do("attempt", log[t].cycle, log[t].attempt, "none"))
                ELSE IF Rounding /\ slice.round.slot[log[t].about].task = t
                  THEN LostOr(t, Relaunch(log[t].about, log[t].attempt))
                ELSE <<>>)
    BY <1>3 DEF InfraLost
  <2>2. log' = [log EXCEPT ![t] = r]
    BY <1>1, <2>1
  <2>3. r \in TaskRecords /\ r.st = "Failed" /\ Same(t, r)
    BY <1>1 DEF TaskRecords, Same, TaskTyped
  <2>4. log[t].attempt \in Nat /\ log[t].phase \in {"Work", "Evaluation"}
    BY <1>1 DEF TaskRecords
  <2> HIDE DEF r
  <2>5. CASE log[t].phase = "Work"
    <3>1. \/ Then(Do("escalate", 0, t, "loss"))
          \/ Then(Do("attempt", log[t].cycle, log[t].attempt, "none"))
      BY <2>1, <2>5 DEF LostOr
    <3>2. WorkHandled(t, r)
      BY <2>1, <2>3, <2>4, <2>5, <3>1 DEF WorkHandled
    <3> QED
      BY <1>3, <2>2, <2>3, <3>2 DEF Handled
  <2>6. CASE log[t].phase = "Evaluation" /\ Rounding /\ slice.round.slot[log[t].about].task = t
    <3>1. \/ Then(Do("escalate", 0, t, "loss"))
          \/ Then(Relaunch(log[t].about, log[t].attempt))
      BY <2>1, <2>6 DEF LostOr
    <3>2. SlotHandled(t, r)
      BY <2>1, <2>3, <2>4, <2>6, <3>1 DEF SlotHandled
    <3> QED
      BY <1>3, <2>2, <2>3, <3>2 DEF Handled
  <2>7. CASE log[t].phase = "Evaluation" /\ ~(Rounding /\ slice.round.slot[log[t].about].task = t)
    <3>1. NobodyWaits(t, r)
      BY <2>1, <2>3, <2>7 DEF NobodyWaits
    <3> QED
      BY <1>3, <2>2, <2>3, <3>1 DEF Handled
  <2> QED
    BY <2>4, <2>5, <2>6, <2>7
<1> QED
  BY <1>2, <1>3

LEMMA SliceIs ==
    ASSUME KindTyped, SliceTyped, slice # None
    PROVE  /\ slice \in Slices(Evaluators)
           /\ slice.cycle \in Nat \ {0} /\ slice.reworks \in Nat /\ slice.sub \in Nat
           /\ Rounding => /\ slice.round \in Rounds(Evaluators)
                          /\ slice.round.stage \in Nat
                          /\ \A ev \in Evaluators : /\ slice.round.slot[ev].task \in Nat
                                                    /\ slice.round.slot[ev].out \in Outcomes
BY DEF SliceTyped, Slices, Rounds, Rounding

LEMMA NoneIsNot ==
    ASSUME KindTyped
    PROVE  None \notin Slices(Evaluators) /\ None \notin Rounds(Evaluators)
BY EvaluatorsAre, NoneAssumption DEF Names

\* What a slot knows of its task changes.
LEMMA SlotSet ==
    ASSUME KindTyped, SliceTyped, Rounding, NEW ev \in Evaluators, NEW out \in Outcomes,
           slice' = [slice EXCEPT !.round.slot[ev].out = out], Evaluators' = Evaluators
    PROVE  /\ slice' \in Slices(Evaluators) /\ slice' # None /\ Rounding'
           /\ slice'.cycle = slice.cycle /\ slice'.reworks = slice.reworks /\ slice'.sub = slice.sub
           /\ slice'.round.stage = slice.round.stage
           /\ slice'.round.slot[ev] = [task |-> slice.round.slot[ev].task, out |-> out]
           /\ \A e \in Evaluators \ {ev} : slice'.round.slot[e] = slice.round.slot[e]
<1>1. slice \in Slices(Evaluators) /\ slice.round \in Rounds(Evaluators)
  BY SliceIs DEF Rounding
<1> DEFINE slot == [slice.round.slot EXCEPT ![ev] = [task |-> slice.round.slot[ev].task, out |-> out]]
           round == [slice.round EXCEPT !.slot = slot]
<1>2. slice.round.slot \in [Evaluators -> [task : Nat, out : Outcomes]]
  BY <1>1 DEF Rounds
<1>3. [slice.round.slot[ev] EXCEPT !.out = out] = [task |-> slice.round.slot[ev].task, out |-> out]
  BY <1>2
<1>4. slot \in [Evaluators -> [task : Nat, out : Outcomes]]
  BY <1>2
<1>5. round \in Rounds(Evaluators)
  BY <1>1, <1>4 DEF Rounds
<1>6. slice' = [slice EXCEPT !.round = round]
  BY <1>1, <1>3
<1>7. slice' \in Slices(Evaluators) /\ slice'.round = round
  BY <1>1, <1>5, <1>6 DEF Slices
<1>8. slice' # None /\ Rounding'
  BY <1>5, <1>7, NoneIsNot DEF Rounding
<1>9. slice'.cycle = slice.cycle /\ slice'.reworks = slice.reworks /\ slice'.sub = slice.sub
  BY <1>1, <1>6 DEF Slices
<1>10. round.stage = slice.round.stage /\ round.slot = slot
  BY <1>1 DEF Rounds
<1>11. /\ slot[ev] = [task |-> slice.round.slot[ev].task, out |-> out]
       /\ \A e \in Evaluators \ {ev} : slot[e] = slice.round.slot[e]
  BY <1>2
<1> HIDE DEF slot, round
<1>12. slice'.round.slot = slot /\ slice'.round.stage = slice.round.stage
  BY <1>7, <1>10
<1> QED
  BY <1>7, <1>8, <1>9, <1>11, <1>12

\* Another task of an evaluator, for which the round waits.
LEMMA RelaunchIs ==
    ASSUME KindTyped, NEW ev \in Evaluators, NEW n \in Nat
    PROVE  /\ Relaunch(ev, n) \in Seq(Chores) /\ DOMAIN Relaunch(ev, n) = 1..2
           /\ Len(Relaunch(ev, n)) = 2
           /\ Relaunch(ev, n)[1] = [op |-> "launch", cycle |-> 0, n |-> n, of |-> ev]
           /\ Relaunch(ev, n)[2] = [op |-> "slots", cycle |-> 0, n |-> 0, of |-> ev]
<1>1. ev \in Names /\ 0 \in Nat
  BY EvaluatorsAre
<1>2. /\ [op |-> "launch", cycle |-> 0, n |-> n, of |-> ev] \in Chores
      /\ [op |-> "slots", cycle |-> 0, n |-> 0, of |-> ev] \in Chores
  BY <1>1 DEF Chores, Ops
<1> DEFINE first == Do("launch", 0, n, ev)
           next == Do("slots", 0, 0, ev)
<1>3. /\ first \in Seq(Chores) /\ Len(first) = 1
      /\ first[1] = [op |-> "launch", cycle |-> 0, n |-> n, of |-> ev]
  BY <1>1, OneChore DEF Ops
<1>4. /\ next \in Seq(Chores) /\ Len(next) = 1
      /\ next[1] = [op |-> "slots", cycle |-> 0, n |-> 0, of |-> ev]
  BY <1>1, OneChore DEF Ops
<1>5. Relaunch(ev, n) = first \o next
  BY DEF Relaunch
<1> HIDE DEF first, next
<1>6. /\ first \o next \in Seq(Chores) /\ Len(first \o next) = Len(first) + Len(next)
      /\ \A i \in 1..Len(first) + Len(next) :
           (first \o next)[i] = IF i <= Len(first) THEN first[i] ELSE next[i - Len(first)]
  <2> HIDE DEF Chores
  <2>1. first \in Seq(Chores) /\ next \in Seq(Chores)
    BY <1>3, <1>4
  <2> QED
    BY <2>1, ConcatProperties
<1>7. (first \o next)[1] = first[1] /\ (first \o next)[2] = next[1]
  BY <1>3, <1>4, <1>6
<1>8. Len(first \o next) = 2 /\ DOMAIN (first \o next) = 1..2
  BY <1>3, <1>4, <1>6, LenProperties
<1> QED
  BY <1>3, <1>4, <1>5, <1>6, <1>7, <1>8

LEMMA HandledTyped ==
    ASSUME TypeOK, NEW t \in Tasks, Handled(t), kind' = kind, approval' = approval, job' = job,
           box' \in Seq(Boxes), Len(box') = Len(box), watched' \subseteq Tasks,
           Idle \/ todo[1].op = "attach"
    PROVE  LogTyped' /\ SliceTyped' /\ Unstarted' /\ TodoTyped' /\ Tasks' = Tasks
<1>1. Evaluators' = Evaluators /\ Stages' = Stages /\ KindTyped /\ LogTyped /\ SliceTyped
      /\ TodoTyped /\ Unstarted
  BY SameStages DEF TypeOK
<1>2. CASE UNCHANGED <<log, slice>> /\ Then(<<>>)
  <2>1. LogTyped' /\ Grows /\ Tasks' = Tasks
    BY <1>1, <1>2, KeepLog
  <2>2. SliceTyped'
    BY <1>1, <1>2, <2>1, KeepSlice DEF SliceTyped
  <2>3. Unstarted'
    BY <1>1, <1>2, <2>1 DEF Unstarted
  <2>4. ~Idle => \A y \in Rest : ChoreTyped(y)'
    BY <2>1, RestQuiet
  <2> QED
    BY <1>1, <1>2, <2>1, <2>2, <2>3, <2>4, ThenNone
<1>3. ASSUME slice # None, NEW r \in TaskRecords, log' = [log EXCEPT ![t] = r], Same(t, r),
             WorkHandled(t, r) \/ SlotHandled(t, r) \/ SlotClosed(t, r) \/ NobodyWaits(t, r)
      PROVE  LogTyped' /\ SliceTyped' /\ Unstarted' /\ TodoTyped' /\ Tasks' = Tasks
  <2>1. LogTyped' /\ Grows /\ Tasks' = Tasks
    BY <1>1, <1>3, SetTask DEF Same
  <2>2. job \notin {"Ready", "Stalled"} /\ Unstarted'
    BY <1>1, <1>3 DEF Unstarted
  <2>3. ~Idle => \A y \in Rest : ChoreTyped(y)'
    BY <2>1, RestQuiet
  <2>4. ~Idle => todo[1].op \notin {"place", "stamp", "launch", "rebuild"}
    OBVIOUS
  <2>5. log[t] \in TaskRecords /\ TaskTyped(log[t]) /\ t \in Nat
    BY <1>1, TasksAre DEF LogTyped
  <2>6. CASE slice' = slice
    <3>1. SliceTyped' /\ Rounding' = Rounding
      BY <1>1, <2>1, <2>6, KeepSlice DEF SliceTyped, Rounding
    <3>2. CASE Then(<<>>)
      BY <1>1, <2>1, <2>2, <2>3, <3>1, <3>2, ThenNone
    <3>3. CASE Then(Do("evaluate", 0, 0, "none"))
      <4>1. PICK x : x = [op |-> "evaluate", cycle |-> 0, n |-> 0, of |-> "none"]
        OBVIOUS
      <4>2. ChoreTyped(x)'
        BY <1>3, <2>2, <2>6, <4>1 DEF ChoreTyped
      <4> QED
        BY <1>1, <2>1, <2>2, <2>3, <2>4, <3>1, <3>3, <4>1, <4>2, ThenOne DEF Ops
    <3>4. ASSUME NEW n \in Nat, Then(Do("attempt", log[t].cycle, n, "none"))
          PROVE  TodoTyped'
      <4>1. PICK x : x = [op |-> "attempt", cycle |-> log[t].cycle, n |-> n, of |-> "none"]
        OBVIOUS
      <4>2. log[t].cycle \in Nat \ {0}
        BY <2>5 DEF TaskRecords
      <4>3. ChoreTyped(x)'
        BY <1>3, <2>2, <4>1, <4>2 DEF ChoreTyped
      <4> QED
        BY <1>1, <2>3, <2>4, <3>4, <4>1, <4>2, <4>3, ThenOne DEF Ops
    <3>5. ASSUME NEW why \in {"work", "loss"}, Then(Do("escalate", 0, t, why))
          PROVE  TodoTyped'
      <4>1. PICK x : x = [op |-> "escalate", cycle |-> 0, n |-> t, of |-> why]
        OBVIOUS
      <4>2. ChoreTyped(x)'
        BY <1>3, <2>1, <2>2, <4>1 DEF ChoreTyped, Reasons
      <4> QED
        BY <1>1, <2>3, <2>4, <2>5, <3>5, <4>1, <4>2, ThenOne DEF Ops, Reasons
    <3>6. ASSUME SlotHandled(t, r), NEW n \in Nat, Then(Relaunch(log[t].about, n))
          PROVE  TodoTyped'
      <4>1. PICK ev \in Evaluators : ev = log[t].about
        BY <2>5, <3>6 DEF SlotHandled, TaskTyped
      <4>2. PICK l : l = Relaunch(ev, n)
        OBVIOUS
      <4>3. /\ l \in Seq(Chores) /\ DOMAIN l = 1..2 /\ l[1].op = "launch" /\ l[2].op = "slots"
            /\ l[1].of = ev /\ l[2].of = ev
            /\ ToSet(l) = {l[1], l[2]}
        <5>1. /\ l \in Seq(Chores) /\ DOMAIN l = 1..2
              /\ l[1] = [op |-> "launch", cycle |-> 0, n |-> n, of |-> ev]
              /\ l[2] = [op |-> "slots", cycle |-> 0, n |-> 0, of |-> ev]
          BY <1>1, <4>2, RelaunchIs
        <5> QED
          BY <5>1 DEF ToSet
      <4>4. Rounding /\ job = "Evaluation"
        BY <1>1, <3>6 DEF SlotHandled, SliceTyped
      <4>5. ASSUME NEW x, x = l[1] PROVE ChoreTyped(x)'
        BY <1>1, <1>3, <2>6, <4>3, <4>4, <4>5 DEF ChoreTyped
      <4>6. ASSUME NEW x, x = l[2] PROVE ChoreTyped(x)'
        BY <1>1, <3>1, <4>3, <4>4, <4>6 DEF ChoreTyped
      <4>7. \A x \in ToSet(l) : ChoreTyped(x)'
        BY <4>3, <4>5, <4>6
      <4>8. \A i, j \in DOMAIN l : i < j => l[i].op \in Before(l[j].op)
        BY <4>3 DEF Before
      <4>9. ~Idle => \A i \in DOMAIN l : \A o \in Ops :
              todo[1].op \in Before(o) => l[i].op \in Before(o)
        BY <4>3 DEF Before, Ops
      <4> QED
        BY <1>1, <2>3, <3>6, <4>1, <4>2, <4>3, <4>7, <4>8, <4>9, ThenTyped
    <3> QED
      <4>1. CASE WorkHandled(t, r)
        BY <2>1, <2>2, <3>1, <3>3, <3>4, <3>5, <4>1 DEF WorkHandled
      <4>2. CASE SlotHandled(t, r)
        BY <2>1, <2>2, <3>1, <3>5, <3>6, <4>2 DEF SlotHandled
      <4>3. CASE NobodyWaits(t, r)
        BY <2>1, <2>2, <3>1, <3>2, <4>3 DEF NobodyWaits
      <4>4. CASE SlotClosed(t, r)
        <5>1. TodoTyped'
          <6>1. PICK out \in {"infra", "pass", "fail", "abort"} : SlotIs(t, out)
            BY <4>4 DEF SlotClosed
          <6>2. Then(Do("settle", 0, 0, "none")) /\ job = "Evaluation"
            BY <1>1, <4>4, <6>1 DEF SlotIs, SlotClosed, OpenSlot, SliceTyped
          <6>3. PICK x : x = [op |-> "settle", cycle |-> 0, n |-> 0, of |-> "none"]
            OBVIOUS
          <6>4. ChoreTyped(x)'
            BY <1>3, <2>6, <6>2, <6>3 DEF ChoreTyped
          <6> QED
            BY <1>1, <2>3, <2>4, <6>2, <6>3, <6>4, ThenOne DEF Ops
        <5> QED
          BY <2>1, <2>2, <3>1, <5>1
      <4> QED
        BY <1>3, <4>1, <4>2, <4>3, <4>4
  <2>7. CASE SlotClosed(t, r)
    <3>1. PICK out \in {"infra", "pass", "fail", "abort"} : SlotIs(t, out)
      BY <2>7 DEF SlotClosed
    <3>2. log[t].about \in Evaluators /\ Rounding /\ job = "Evaluation"
      BY <1>1, <2>5, <2>7 DEF SlotClosed, OpenSlot, TaskTyped, SliceTyped
    <3>3. slice' = [slice EXCEPT !.round.slot[log[t].about].out = out]
          /\ Then(Do("settle", 0, 0, "none")) /\ out \in Outcomes
      BY <3>1 DEF SlotIs, Outcomes
    <3>4. /\ slice' \in Slices(Evaluators) /\ slice' # None /\ Rounding'
          /\ slice'.cycle = slice.cycle /\ slice'.sub = slice.sub
          /\ slice'.round.stage = slice.round.stage
      BY <1>1, <3>2, <3>3, SlotSet
    <3>5. SliceTyped'
      BY <1>1, <1>3, <2>1, <3>2, <3>4 DEF SliceTyped
    <3>6. PICK x : x = [op |-> "settle", cycle |-> 0, n |-> 0, of |-> "none"]
      OBVIOUS
    <3>7. ChoreTyped(x)'
      BY <3>2, <3>4, <3>6 DEF ChoreTyped
    <3>8. TodoTyped'
      BY <1>1, <2>3, <2>4, <3>3, <3>6, <3>7, ThenOne DEF Ops
    <3> QED
      BY <2>1, <2>2, <3>5, <3>8
  <2> QED
    BY <1>3, <2>6, <2>7 DEF WorkHandled, SlotHandled, NobodyWaits
<1> QED
  BY <1>2, <1>3 DEF Handled

-----------------------------------------------------------------------------
(* Lists of chores. *)

Ordered(l) == \A i, j \in DOMAIN l : i < j => l[i].op \in Before(l[j].op)

LEMMA ThenList ==
    ASSUME TodoTyped, NEW l \in Seq(Chores), Then(l), Ordered(l),
           \A x \in ToSet(l) : ChoreTyped(x)' /\ x.op # "sweep",
           ~Idle => \A y \in Rest : ChoreTyped(y)',
           ~Idle => todo[1].op \notin {"place", "stamp", "launch", "rebuild"}
    PROVE  TodoTyped'
<1>1. ~Idle => \A o \in Ops, p \in Ops : todo[1].op \in Before(o) /\ p # "sweep" => p \in Before(o)
  BY DEF Before, Ops
<1>2. \A i \in DOMAIN l : l[i] \in ToSet(l) /\ l[i].op \in Ops
  <2>1. \A i \in DOMAIN l : l[i] \in Chores
    BY LenProperties, ElementOfSeq
  <2> QED
    BY <2>1 DEF ToSet, Chores
<1>3. ~Idle => \A i \in DOMAIN l : \A o \in Ops : todo[1].op \in Before(o) => l[i].op \in Before(o)
  BY <1>1, <1>2
<1> QED
  BY <1>3, ThenTyped DEF Ordered

LEMMA Joined ==
    ASSUME NEW a \in Seq(Chores), NEW b \in Seq(Chores)
    PROVE  /\ a \o b \in Seq(Chores) /\ Len(a \o b) = Len(a) + Len(b)
           /\ \A x \in ToSet(a \o b) : x \in ToSet(a) \/ x \in ToSet(b)
           /\ \A x \in ToSet(a) \cup ToSet(b) : x \in ToSet(a \o b)
           /\ Ordered(a) /\ Ordered(b)
                /\ (\A x \in ToSet(a), y \in ToSet(b) : x.op \in Before(y.op))
              => Ordered(a \o b)
<1> HIDE DEF Chores
<1>1. /\ a \o b \in Seq(Chores) /\ Len(a \o b) = Len(a) + Len(b)
      /\ \A i \in 1..Len(a) + Len(b) :
           (a \o b)[i] = IF i <= Len(a) THEN a[i] ELSE b[i - Len(a)]
  BY ConcatProperties
<1>2. PICK l : l = a \o b
  OBVIOUS
<1>3. /\ DOMAIN a = 1..Len(a) /\ DOMAIN b = 1..Len(b) /\ DOMAIN l = 1..Len(l)
      /\ Len(a) \in Nat /\ Len(b) \in Nat /\ Len(l) = Len(a) + Len(b)
  BY <1>1, <1>2, LenProperties
<1>4. ASSUME NEW i \in DOMAIN l
      PROVE  \/ i \in DOMAIN a /\ l[i] = a[i]
             \/ i > Len(a) /\ i - Len(a) \in DOMAIN b /\ l[i] = b[i - Len(a)]
  <2>1. CASE i <= Len(a)
    <3>1. i \in DOMAIN a /\ l[i] = a[i]
      BY <1>1, <1>2, <1>3, <2>1
    <3> QED
      BY <3>1
  <2>2. CASE ~(i <= Len(a))
    <3>1. i > Len(a) /\ i - Len(a) \in DOMAIN b
      BY <1>3, <2>2
    <3>2. l[i] = b[i - Len(a)]
      BY <1>1, <1>2, <1>3, <2>2
    <3> QED
      BY <3>1, <3>2
  <2> QED
    BY <2>1, <2>2
<1>5. \A i \in DOMAIN a : i \in DOMAIN l /\ l[i] = a[i]
  BY <1>1, <1>2, <1>3
<1>6. \A i \in DOMAIN b : i + Len(a) \in DOMAIN l /\ l[i + Len(a)] = b[i]
  <2> SUFFICES ASSUME NEW i \in DOMAIN b PROVE i + Len(a) \in DOMAIN l /\ l[i + Len(a)] = b[i]
    OBVIOUS
  <2>1. i + Len(a) \in 1..Len(a) + Len(b) /\ ~(i + Len(a) <= Len(a)) /\ (i + Len(a)) - Len(a) = i
    BY <1>3
  <2> QED
    BY <1>1, <1>2, <1>3, <2>1
<1>7. \A x \in ToSet(l) : x \in ToSet(a) \/ x \in ToSet(b)
  BY <1>4 DEF ToSet
<1>8. \A x \in ToSet(a) \cup ToSet(b) : x \in ToSet(l)
  BY <1>5, <1>6 DEF ToSet
<1>9. ASSUME Ordered(a), Ordered(b), \A x \in ToSet(a), y \in ToSet(b) : x.op \in Before(y.op)
      PROVE  Ordered(l)
  <2> SUFFICES ASSUME NEW i \in DOMAIN l, NEW j \in DOMAIN l, i < j
               PROVE  l[i].op \in Before(l[j].op)
    BY DEF Ordered
  <2>1. CASE i \in DOMAIN a /\ l[i] = a[i] /\ j \in DOMAIN a /\ l[j] = a[j]
    BY <1>9, <2>1 DEF Ordered
  <2>2. CASE i \in DOMAIN a /\ l[i] = a[i] /\ j - Len(a) \in DOMAIN b /\ l[j] = b[j - Len(a)]
    <3>1. l[i] \in ToSet(a) /\ l[j] \in ToSet(b)
      BY <2>2 DEF ToSet
    <3> QED
      BY <1>9, <3>1
  <2>3. CASE /\ i - Len(a) \in DOMAIN b /\ l[i] = b[i - Len(a)]
             /\ j - Len(a) \in DOMAIN b /\ l[j] = b[j - Len(a)]
    <3>1. i - Len(a) < j - Len(a)
      BY <1>3
    <3>2. PICK p, q : p = i - Len(a) /\ q = j - Len(a)
      OBVIOUS
    <3>3. p \in DOMAIN b /\ q \in DOMAIN b /\ p < q /\ l[i] = b[p] /\ l[j] = b[q]
      BY <2>3, <3>1, <3>2
    <3> QED
      BY <1>9, <3>3 DEF Ordered
  <2>4. ~(i > Len(a) /\ j \in DOMAIN a)
    BY <1>3
  <2> QED
    BY <1>4, <2>1, <2>2, <2>3, <2>4
<1> QED
  BY <1>1, <1>2, <1>7, <1>8, <1>9

\* One chore is a list, and so is none.
LEMMA Single ==
    ASSUME NEW l, NEW x \in Chores, l = <<x>>
    PROVE  l \in Seq(Chores) /\ ToSet(l) = {x} /\ Ordered(l) /\ Len(l) = 1
<1>1. l \in Seq(Chores) /\ Len(l) = 1 /\ l[1] = x /\ DOMAIN l = 1..1
  OBVIOUS
<1> QED
  BY <1>1 DEF ToSet, Ordered

LEMMA NoChore ==
    <<>> \in Seq(Chores) /\ ToSet(<<>>) = {} /\ Ordered(<<>>) /\ Len(<<>>) = 0
<1>1. DOMAIN <<>> = {}
  OBVIOUS
<1> QED
  BY <1>1 DEF ToSet, Ordered

LEMMA ListOf ==
    ASSUME NEW T, IsFiniteSet(T)
    PROVE  /\ Cardinality(T) \in Nat
           /\ SetToSeq(T) \in [1..Cardinality(T) -> T]
           /\ \A s \in T : \E i \in 1..Cardinality(T) : SetToSeq(T)[i] = s
<1> DEFINE n == Cardinality(T)
<1>2. n \in Nat /\ ExistsBijection(1..n, T)
  BY FS_CardinalityType
<1>3. PICK g : g \in Bijection(1..n, T)
  BY <1>2 DEF ExistsBijection
<1>4. \E f \in [1..n -> T] : IsInjective(f)
  BY <1>3 DEF Bijection, Injection
<1>5. SetToSeq(T) \in [1..n -> T] /\ IsInjective(SetToSeq(T))
  BY <1>4 DEF SetToSeq
<1> DEFINE f == SetToSeq(T)
<1> HIDE DEF n
<1>7. \A s \in T : \E i \in 1..n : f[i] = s
  <2>1. f \in Injection(1..n, T)
    BY <1>5 DEF Injection, IsInjective
  <2>2. IsFiniteSet(1..n) /\ Cardinality(1..n) = n
    BY <1>2, FS_Interval
  <2>3. f \in Surjection(1..n, T)
    BY <2>1, <2>2, FS_Injection, FS_Surjection DEF n
  <2> QED
    BY <2>3 DEF Surjection
<1> QED
  BY <1>2, <1>5, <1>7 DEF n

LEMMA LaunchesAre ==
    ASSUME NEW evs \in SUBSET Names, IsFiniteSet(evs), NEW n \in Nat
    PROVE  /\ Launches(evs, n) \in Seq(Chores) /\ Ordered(Launches(evs, n))
           /\ \A x \in ToSet(Launches(evs, n)) :
                \E ev \in evs : x = [op |-> "launch", cycle |-> 0, n |-> n, of |-> ev]
           /\ \A ev \in evs :
                [op |-> "launch", cycle |-> 0, n |-> n, of |-> ev] \in ToSet(Launches(evs, n))
<1> DEFINE m == Cardinality(evs)
           f == SetToSeq(evs)
           l == Launches(evs, n)
<1>1. m \in Nat /\ f \in [1..m -> evs] /\ \A ev \in evs : \E i \in 1..m : f[i] = ev
  BY ListOf
<1>2. l = [i \in 1..m |-> [op |-> "launch", cycle |-> 0, n |-> n, of |-> f[i]]]
  BY DEF Launches
<1> HIDE DEF m, f, l
<1>3. DOMAIN l = 1..m
      /\ \A i \in 1..m : f[i] \in evs /\ l[i] = [op |-> "launch", cycle |-> 0, n |-> n, of |-> f[i]]
  BY <1>1, <1>2
<1>4. \A i \in 1..m : l[i] \in Chores
  BY <1>3 DEF Chores, Ops
<1>5. l \in Seq(Chores)
  <2>1. l \in [1..m -> Chores]
    BY <1>2, <1>3, <1>4
  <2> QED
    BY <1>1, <2>1
<1>6. \A i \in 1..m : l[i].op = "launch"
  BY <1>3
<1>7. Ordered(l)
  BY <1>3, <1>6 DEF Ordered, Before
<1>8. \A x \in ToSet(l) : \E ev \in evs : x = [op |-> "launch", cycle |-> 0, n |-> n, of |-> ev]
  BY <1>3 DEF ToSet
<1>9. \A ev \in evs : [op |-> "launch", cycle |-> 0, n |-> n, of |-> ev] \in ToSet(l)
  BY <1>1, <1>3 DEF ToSet
<1> QED
  BY <1>5, <1>7, <1>8, <1>9 DEF l

LEMMA AttachesAre ==
    ASSUME NEW ts \in SUBSET Nat, IsFiniteSet(ts)
    PROVE  /\ Attaches(ts) \in Seq(Chores) /\ Ordered(Attaches(ts))
           /\ \A x \in ToSet(Attaches(ts)) :
                \E t \in ts : x = [op |-> "attach", cycle |-> 0, n |-> t, of |-> "none"]
<1> DEFINE m == Cardinality(ts)
           f == SetToSeq(ts)
           l == Attaches(ts)
<1>1. m \in Nat /\ f \in [1..m -> ts]
  BY ListOf
<1>2. l = [i \in 1..m |-> [op |-> "attach", cycle |-> 0, n |-> f[i], of |-> "none"]]
  BY DEF Attaches
<1> HIDE DEF m, f, l
<1>3. DOMAIN l = 1..m
      /\ \A i \in 1..m : f[i] \in ts /\ l[i] = [op |-> "attach", cycle |-> 0, n |-> f[i], of |-> "none"]
  BY <1>1, <1>2
<1>4. \A i \in 1..m : l[i] \in Chores
  <2> SUFFICES ASSUME NEW i \in 1..m PROVE l[i] \in Chores
    OBVIOUS
  <2>1. PICK t \in Nat : l[i] = [op |-> "attach", cycle |-> 0, n |-> t, of |-> "none"]
    BY <1>3
  <2> QED
    BY <2>1 DEF Chores, Ops
<1>5. l \in Seq(Chores)
  <2>1. l \in [1..m -> Chores]
    BY <1>2, <1>3, <1>4
  <2> QED
    BY <1>1, <2>1
<1>6. \A i \in 1..m : l[i].op = "attach"
  BY <1>3
<1>7. Ordered(l)
  BY <1>3, <1>6 DEF Ordered, Before, Ops
<1>8. \A x \in ToSet(l) : \E t \in ts : x = [op |-> "attach", cycle |-> 0, n |-> t, of |-> "none"]
  BY <1>3 DEF ToSet
<1> QED
  BY <1>5, <1>7, <1>8 DEF l

\* A stage is launched, and then waited for.
LEMMA LaunchStageIs ==
    ASSUME KindTyped, NEW i \in 1..Len(Stages)
    PROVE  /\ LaunchStage(i) \in Seq(Chores) /\ Ordered(LaunchStage(i))
           /\ \A x \in ToSet(LaunchStage(i)) :
                \/ \E ev \in Stages[i] : x = [op |-> "launch", cycle |-> 0, n |-> 1, of |-> ev]
                \/ x = [op |-> "slots", cycle |-> 0, n |-> i, of |-> "all"]
<1> DEFINE a == Launches(Stages[i], 1)
           b == Do("slots", 0, i, "all")
<1>1. Stages[i] \subseteq Names /\ IsFiniteSet(Stages[i]) /\ i \in Nat
  BY EvaluatorsAre
<1>2. /\ a \in Seq(Chores) /\ Ordered(a)
      /\ \A x \in ToSet(a) :
           \E ev \in Stages[i] : x = [op |-> "launch", cycle |-> 0, n |-> 1, of |-> ev]
  BY <1>1, LaunchesAre
<1>3. /\ b \in Seq(Chores) /\ ToSet(b) = {[op |-> "slots", cycle |-> 0, n |-> i, of |-> "all"]}
      /\ DOMAIN b = 1..1
  <2>1. PICK x : x = [op |-> "slots", cycle |-> 0, n |-> i, of |-> "all"]
    OBVIOUS
  <2>2. b = <<x>> /\ x \in Chores
    BY <1>1, <2>1 DEF Do, Chores, Ops
  <2>3. b \in Seq(Chores) /\ ToSet(b) = {x} /\ DOMAIN b = 1..1
    <3> HIDE DEF b
    <3>1. b \in Seq(Chores) /\ ToSet(b) = {x}
      BY <2>2, Single
    <3> QED
      BY <2>2, <3>1
  <2> QED
    BY <2>1, <2>3
<1>4. Ordered(b)
  BY <1>3 DEF Ordered
<1>5. LaunchStage(i) = a \o b
  BY DEF LaunchStage
<1> HIDE DEF a, b
<1>6. \A x \in ToSet(a), y \in ToSet(b) : x.op = "launch" /\ y.op = "slots"
  BY <1>2, <1>3
<1>7. \A x \in ToSet(a), y \in ToSet(b) : x.op \in Before(y.op)
  BY <1>6 DEF Before
<1> QED
  BY <1>2, <1>3, <1>4, <1>5, <1>7, Joined

-----------------------------------------------------------------------------
(* The slice. *)

LEMMA RebuiltIs ==
    ASSUME KindTyped, LogTyped
    PROVE  /\ Rebuilt \in Slices(Evaluators) /\ Rebuilt # None
           /\ Rebuilt.cycle = TopCycle /\ TopCycle \in Nat \ {0} /\ Rebuilt.round = None
           /\ Rebuilt.sub \in {0} \cup Tasks /\ Rebuilt.reworks = 0
<1> DEFINE last == Latest(WorkTasks(TopCycle))
           sub == IF last = 0 THEN 0 ELSE log[last].by
<1>1. TopCycle \in Nat \ {0}
  BY TopCycleIs
<1>2. last \in {0} \cup Tasks
  BY LineageIs DEF WorkTasks
<1>3. sub \in {0} \cup Tasks
  <2>1. \A t \in Tasks : log[t].by \in {0} \cup Tasks
    BY DEF LogTyped, TaskTyped
  <2> QED
    BY <1>2, <2>1
<1>4. Rebuilt = [cycle |-> TopCycle, reworks |-> 0, sub |-> sub, round |-> None]
  BY DEF Rebuilt
<1>5. sub \in Nat
  BY <1>3, TasksAre
<1> HIDE DEF last, sub
<1>6. Rebuilt \in Slices(Evaluators)
  BY <1>1, <1>4, <1>5 DEF Slices
<1> QED
  BY <1>1, <1>3, <1>4, <1>6, NoneIsNot

LEMMA EnsuredIs ==
    ASSUME KindTyped, LogTyped, SliceTyped
    PROVE  /\ Ensured \in Slices(Evaluators) /\ Ensured # None
           /\ Ensured.cycle \in Nat \ {0}
           /\ Ensured.sub \in {0} \cup Tasks
           /\ slice # None => Ensured = slice
           /\ slice = None => Ensured.cycle = TopCycle /\ Ensured.round = None
           /\ Ensured.round # None => Ensured = slice /\ Rounding
<1>1. CASE slice = None
  BY <1>1, RebuiltIs DEF Ensured
<1>2. CASE slice # None
  BY <1>2, SliceIs DEF Ensured, SliceTyped, Rounding
<1> QED
  BY <1>1, <1>2

\* A slice with another round.
LEMMA RoundSet ==
    ASSUME KindTyped, SliceTyped, slice # None, NEW round \in {None} \cup Rounds(Evaluators)
    PROVE  /\ [slice EXCEPT !.round = round] \in Slices(Evaluators)
           /\ [slice EXCEPT !.round = round] # None
           /\ [slice EXCEPT !.round = round].round = round
           /\ [slice EXCEPT !.round = round].cycle = slice.cycle
           /\ [slice EXCEPT !.round = round].sub = slice.sub
           /\ [slice EXCEPT !.round = round].reworks = slice.reworks
<1>1. slice \in Slices(Evaluators)
  BY SliceIs
<1>2. PICK l : l = [slice EXCEPT !.round = round]
  OBVIOUS
<1>3. /\ l \in Slices(Evaluators) /\ l.round = round /\ l.cycle = slice.cycle
      /\ l.sub = slice.sub /\ l.reworks = slice.reworks
  BY <1>1, <1>2 DEF Slices
<1>4. l # None
  BY <1>3, NoneIsNot
<1> QED
  BY <1>2, <1>3, <1>4

LEMMA EmptyRoundIs ==
    ASSUME KindTyped
    PROVE  /\ EmptyRound \in Rounds(Evaluators) /\ EmptyRound # None /\ EmptyRound.stage = 1
           /\ \A ev \in Evaluators : EmptyRound.slot[ev] = [task |-> 0, out |-> "none"]
<1>1. EmptyRound \in Rounds(Evaluators)
  BY DEF EmptyRound, Rounds, Outcomes
<1> QED
  BY <1>1, NoneIsNot DEF EmptyRound

\* The round read from the log waits for the latest tasks of its last stage.
LEMMA RoundFromLogIs ==
    ASSUME KindTyped, LogTyped, Stages # <<>>, NEW c \in Nat
    PROVE  /\ RoundFromLog(c) \in Rounds(Evaluators) /\ RoundFromLog(c) # None
           /\ RoundFromLog(c).stage \in 1..Len(Stages)
           /\ \A ev \in Evaluators :
                LET slot == RoundFromLog(c).slot[ev]
                    last == Latest(Lineage("Evaluation", c, ev))
                IN  /\ slot.out # "none" => slot.task = last
                    /\ ev \in Stages[RoundFromLog(c).stage] => slot.task = last
                    /\ slot.out = "open" => /\ last # 0 /\ last \in Tasks
                                            /\ log[last].st \notin {"Done", "Failed"}
                                            /\ ev \in Stages[RoundFromLog(c).stage]
           /\ \A ev \in Stages[RoundFromLog(c).stage] :
                LET slot == RoundFromLog(c).slot[ev]
                    last == Latest(Lineage("Evaluation", c, ev))
                IN  last # 0 /\ log[last].st \notin {"Done", "Failed"} => slot.out = "open"
           /\ \A i \in 1..Len(Stages) : \A ev \in Stages[i] :
                Latest(Lineage("Evaluation", c, ev)) # 0 => i <= RoundFromLog(c).stage
<1> DEFINE last(ev) == Latest(Lineage("Evaluation", c, ev))
           begun == {i \in DOMAIN Stages : \E ev \in Stages[i] : last(ev) # 0}
           stage == Max({1} \cup begun)
           out(ev) ==
             IF last(ev) = 0 THEN "infra"
             ELSE IF log[last(ev)].st = "Done"
                    THEN CASE log[last(ev)].verdict = "acted"  -> "pass"
                           [] log[last(ev)].verdict = "closed" -> "fail"
                           [] OTHER -> log[last(ev)].verdict
             ELSE IF log[last(ev)].st = "Failed" \/ ev \notin Stages[stage] THEN "infra" ELSE "open"
           ran == UNION {Stages[i] : i \in 1..stage}
           slot == [ev \in Evaluators |-> IF ev \in ran THEN [task |-> last(ev), out |-> out(ev)]
                                          ELSE [task |-> 0, out |-> "none"]]
<1>1. RoundFromLog(c) = [stage |-> stage, slot |-> slot]
  BY Zenon DEF RoundFromLog
<1>2. /\ Len(Stages) \in Nat /\ DOMAIN Stages = 1..Len(Stages) /\ Len(Stages) >= 1
      /\ \A i \in 1..Len(Stages) : Stages[i] \subseteq Evaluators
  <2>1. Stages \in Seq(SUBSET Names)
    BY StagesAre
  <2>2. Len(Stages) # 0
    BY <2>1, EmptySeq
  <2> QED
    BY <2>2, EvaluatorsAre
<1>3. \A ev \in Evaluators : last(ev) \in {0} \cup Tasks /\ last(ev) \in Nat
  BY LineageIs, TasksAre
<1>4. stage \in 1..Len(Stages) /\ \A i \in begun : i <= stage
  <2>1. {1} \cup begun \in SUBSET Nat /\ {1} \cup begun # {}
        /\ (\A x \in {1} \cup begun : x <= Len(Stages)) /\ {1} \cup begun \subseteq 1..Len(Stages)
    BY <1>2
  <2>2. PICK S : S = {1} \cup begun
    OBVIOUS
  <2>3. Max(S) \in S /\ \A x \in S : x <= Max(S)
    BY <1>2, <2>1, <2>2, Greatest
  <2> QED
    BY <2>1, <2>2, <2>3
<1> HIDE DEF stage
<1>5. \A ev \in Evaluators : out(ev) \in Outcomes
  <2> SUFFICES ASSUME NEW ev \in Evaluators PROVE out(ev) \in Outcomes
    OBVIOUS
  <2>1. CASE last(ev) = 0
    BY <2>1 DEF Outcomes
  <2>2. CASE last(ev) \in Tasks
    <3>1. log[last(ev)].verdict \in {"none", "pass", "fail", "abort", "acted", "closed"}
      BY <2>2, TasksAre DEF TaskRecords
    <3>2. PICK v, s : v = log[last(ev)].verdict /\ s = log[last(ev)].st
      OBVIOUS
    <3> HIDE DEF last
    <3> QED
      BY <3>1 DEF Outcomes
  <2> QED
    BY <1>3, <2>1, <2>2
<1>6. \A ev \in Evaluators : out(ev) = "open" =>
        /\ last(ev) # 0 /\ log[last(ev)].st \notin {"Done", "Failed"} /\ ev \in Stages[stage]
  <2> SUFFICES ASSUME NEW ev \in Evaluators, out(ev) = "open"
               PROVE  /\ last(ev) # 0 /\ log[last(ev)].st \notin {"Done", "Failed"}
                      /\ ev \in Stages[stage]
    OBVIOUS
  <2>1. last(ev) # 0
    OBVIOUS
  <2>2. log[last(ev)].verdict \in {"none", "pass", "fail", "abort", "acted", "closed"}
    BY <1>3, <2>1, TasksAre DEF TaskRecords
  <2> HIDE DEF last
  <2> QED
    BY <2>1, <2>2
<1>7. \A ev \in Evaluators : last(ev) # 0 /\ log[last(ev)].st \notin {"Done", "Failed"}
        /\ ev \in Stages[stage] => out(ev) = "open"
  OBVIOUS
<1> HIDE DEF out, last
<1>8. \A ev \in Stages[stage] : ev \in ran
  <2>1. stage \in 1..stage
    BY <1>2, <1>4
  <2> QED
    BY <2>1, Zenon DEF ran
<1> HIDE DEF ran
<1>9. /\ slot \in [Evaluators -> [task : Nat, out : Outcomes]]
      /\ \A ev \in Evaluators : slot[ev] = IF ev \in ran THEN [task |-> last(ev), out |-> out(ev)]
                                           ELSE [task |-> 0, out |-> "none"]
  BY <1>3, <1>5 DEF Outcomes
<1> HIDE DEF slot
<1>10. RoundFromLog(c) \in Rounds(Evaluators) /\ RoundFromLog(c).stage = stage
       /\ RoundFromLog(c).slot = slot
  BY <1>1, <1>2, <1>4, <1>9 DEF Rounds
<1>11. \A ev \in Evaluators :
         /\ slot[ev].out # "none" => slot[ev].task = last(ev)
         /\ ev \in Stages[stage] => slot[ev].task = last(ev)
         /\ slot[ev].out = "open" => /\ last(ev) # 0 /\ last(ev) \in Tasks
                                     /\ log[last(ev)].st \notin {"Done", "Failed"}
                                     /\ ev \in Stages[stage]
  BY <1>3, <1>6, <1>8, <1>9
<1>12. \A ev \in Stages[stage] :
         last(ev) # 0 /\ log[last(ev)].st \notin {"Done", "Failed"} => slot[ev].out = "open"
  BY <1>2, <1>4, <1>7, <1>8, <1>9
<1>13. \A i \in 1..Len(Stages) : \A ev \in Stages[i] : last(ev) # 0 => i <= stage
  BY <1>2, <1>4 DEF begun
<1> QED
  BY <1>4, <1>10, <1>11, <1>12, <1>13, NoneIsNot DEF last

-----------------------------------------------------------------------------
(* The steps. *)

LEMMA SameLog ==
    ASSUME TypeOK, kind' = kind, approval' = approval, log' = log, box' = box, watched' \subseteq Tasks
    PROVE  LogTyped' /\ Grows /\ Tasks' = Tasks /\ Evaluators' = Evaluators /\ Stages' = Stages
           /\ KindTyped'
<1>1. Evaluators' = Evaluators /\ Stages' = Stages
  BY SameStages
<1>2. box \in Seq(Boxes) /\ Len(box) = Len(log) /\ LogTyped
  BY DEF TypeOK, LogTyped
<1> QED
  BY <1>1, <1>2, KeepLog DEF TypeOK, KindTyped

\* The chores are those of a list, and no other.
LEMMA NewList ==
    ASSUME NEW l \in Seq(Chores), todo' = l, Ordered(l), \A x \in ToSet(l) : ChoreTyped(x)'
    PROVE  TodoTyped'
<1>1. todo' \in Seq(Chores)
  OBVIOUS
<1>2. InOrder'
  BY DEF InOrder, Ordered, Before
<1>3. \A x \in Left' : ChoreTyped(x)'
  BY DEF Left, ToSet
<1> QED
  BY <1>1, <1>2, <1>3 DEF TodoTyped

LEMMA NewOne ==
    ASSUME NEW x \in Chores, todo' = <<x>>, ChoreTyped(x)'
    PROVE  TodoTyped'
<1>1. PICK l : l = <<x>>
  OBVIOUS
<1>2. l \in Seq(Chores) /\ ToSet(l) = {x} /\ Ordered(l)
  BY <1>1, Single
<1> QED
  BY <1>1, <1>2, NewList

LEMMA NoneLeft ==
    ASSUME todo' = <<>>
    PROVE  TodoTyped'
BY NoChore, NewList

\* Nothing that a chore waits for changes.
LEMMA SameTodo ==
    ASSUME TypeOK, UNCHANGED <<kind, approval, log, slice, job, todo>>
    PROVE  TodoTyped'
<1>1. TodoTyped /\ Stages' = Stages /\ Evaluators' = Evaluators
  BY SameStages DEF TypeOK
<1>2. Rounding' = Rounding /\ Tasks' = Tasks
  BY DEF Rounding, Tasks
<1>3. ASSUME NEW x \in Left, ChoreTyped(x) PROVE ChoreTyped(x)'
  BY <1>1, <1>2, <1>3 DEF ChoreTyped
<1>4. Left' = Left
  BY DEF Left
<1>5. InOrder'
  BY <1>1 DEF InOrder, TodoTyped
<1> QED
  BY <1>1, <1>3, <1>4, <1>5 DEF TodoTyped

\* The chore in hand is one of those left.
LEMMA InHand ==
    ASSUME TypeOK, NEW op, Doing(op)
    PROVE  /\ ~Idle /\ Head(todo) = todo[1] /\ todo[1] \in Chores /\ todo[1].op = op
           /\ todo[1].cycle \in Nat /\ todo[1].n \in Nat
           /\ todo[1].of \in Names \cup Reasons \cup {"none", "all"} /\ op \in Ops
           /\ \A x : x = todo[1] => ChoreTyped(x)
<1>1. ~Idle /\ Head(todo).op = op
  BY DEF Doing
<1>2. Head(todo) = todo[1] /\ todo[1] \in Chores /\ todo[1] \in Left
  BY <1>1, HeadIs DEF TypeOK
<1>3. ChoreTyped(todo[1])
  BY <1>2 DEF TypeOK, TodoTyped
<1> QED
  BY <1>1, <1>2, <1>3 DEF Chores

LEMMA NewTaskIs ==
    ASSUME JobTyped, LogTyped,
           NEW phase \in {"Work", "Evaluation", "Escalation"},
           NEW about \in Names \cup Reasons \cup {"none"}, NEW c \in Nat \ {0}, NEW n \in Nat,
           NEW st \in {"Pending", "Running"},
           phase = "Evaluation" => about \in Evaluators /\ (EvType[about] # "human" => st = "Running")
    PROVE  /\ NewTask(phase, about, c, n, st) \in TaskRecords
           /\ TaskTyped(NewTask(phase, about, c, n, st))
           /\ NewTask(phase, about, c, n, st) =
                [phase |-> phase, about |-> about, cycle |-> c, attempt |-> n, st |-> st,
                 cid |-> FALSE, loss |-> FALSE, verdict |-> "none", by |-> 0,
                 tip |-> IF phase = "Evaluation" THEN tip ELSE 0]
<1>1. tip \in Nat
  BY DEF JobTyped
<1>2. PICK r : r = NewTask(phase, about, c, n, st)
  OBVIOUS
<1>3. r \in TaskRecords
  BY <1>1, <1>2 DEF NewTask, TaskRecords
<1>4. /\ r.by = 0 /\ r.phase = phase /\ r.about = about /\ r.cycle = c /\ r.attempt = n /\ r.st = st
      /\ r.cid = FALSE /\ r.loss = FALSE /\ r.verdict = "none"
      /\ phase = "Evaluation" => r.tip = tip
  BY <1>2 DEF NewTask
<1>5. TaskTyped(r)
  BY <1>4 DEF TaskTyped
<1> QED
  BY <1>2, <1>3, <1>5 DEF NewTask

LEMMA EnterWorkTyped ==
    ASSUME TypeOK, EnterWork
    PROVE  TypeOK'
<1>1. LogTyped' /\ Grows /\ Tasks' = Tasks /\ Evaluators' = Evaluators /\ Stages' = Stages /\ KindTyped'
  BY SameLog DEF EnterWork, TypeOK, LogTyped
<1>2. /\ ~Idle /\ todo[1].op = "enter" /\ todo[1].cycle \in Nat /\ todo[1].cycle # 0
      /\ Head(todo) = todo[1]
  <2>1. /\ ~Idle /\ todo[1].op = "enter" /\ todo[1].cycle \in Nat /\ Head(todo) = todo[1]
        /\ ChoreTyped(todo[1])
    BY InHand DEF EnterWork
  <2> QED
    BY <2>1 DEF ChoreTyped
<1>3. JobTyped' /\ job' = "Work"
  BY <1>1 DEF EnterWork, TypeOK, JobTyped
<1>4. slice # None => slice.reworks \in Nat
  BY SliceIs DEF TypeOK
<1>5. PICK s : s = [cycle |-> todo[1].cycle, reworks |-> IF slice = None THEN 0 ELSE slice.reworks,
                    sub |-> 0, round |-> None]
  OBVIOUS
<1>6. slice' = s /\ s \in Slices(Evaluators) /\ s.sub = 0 /\ s.cycle # 0 /\ s.round = None
  BY <1>2, <1>4, <1>5 DEF EnterWork, Slices
<1>7. SliceTyped'
  BY <1>1, <1>6 DEF SliceTyped, Rounding
<1>8. \A x \in Rest : ChoreTyped(x)'
  BY <1>1, <1>2, <1>3, RestQuiet
<1>9. PICK x : x = [op |-> "attempt", cycle |-> todo[1].cycle, n |-> 1, of |-> "none"]
  OBVIOUS
<1>10. ChoreTyped(x)'
  BY <1>2, <1>3, <1>9 DEF ChoreTyped
<1>11. TodoTyped'
  <2>1. Then(Do("attempt", todo[1].cycle, 1, "none")) /\ TodoTyped /\ "attempt" \in Ops
    BY <1>2 DEF EnterWork, TypeOK, Ops
  <2> QED
    BY <1>2, <1>8, <1>9, <1>10, <2>1, ThenOne
<1>12. Unstarted'
  BY <1>3 DEF Unstarted
<1> QED
  BY <1>1, <1>3, <1>7, <1>11, <1>12 DEF TypeOK

LEMMA EnterRefusedTyped ==
    ASSUME TypeOK, EnterRefused
    PROVE  TypeOK'
<1>1. LogTyped' /\ Grows /\ Tasks' = Tasks /\ Evaluators' = Evaluators /\ Stages' = Stages /\ KindTyped'
  BY SameLog DEF EnterRefused, TypeOK, LogTyped
<1>2. ~Idle /\ todo[1].op = "enter" /\ ~Rounding
  <2>1. ~Idle /\ todo[1].op = "enter" /\ ChoreTyped(todo[1])
    BY InHand DEF EnterRefused
  <2> QED
    BY <2>1 DEF ChoreTyped
<1>3. JobTyped' /\ (job' \in {"Ready", "Stalled"} => job = "Ready")
  BY <1>1 DEF EnterRefused, TypeOK, JobTyped, Reasons
<1>4. SliceTyped'
  BY <1>1, <1>2, KeepSlice DEF EnterRefused, TypeOK
<1>5. \A x \in Rest : ChoreTyped(x)'
  BY <1>1, <1>2, <1>3, RestQuiet
<1>6. PICK x : x = [op |-> "inbox", cycle |-> 0, n |-> 0, of |-> "none"]
  OBVIOUS
<1>7. ChoreTyped(x)'
  BY <1>6 DEF ChoreTyped
<1>8. TodoTyped'
  <2>1. Then(Do("inbox", 0, 0, "none")) /\ TodoTyped /\ "inbox" \in Ops
    BY DEF EnterRefused, TypeOK, Ops
  <2> QED
    BY <1>2, <1>5, <1>6, <1>7, <2>1, ThenOne
<1>9. Unstarted'
  BY <1>1, <1>3 DEF Unstarted, EnterRefused, TypeOK
<1> QED
  BY <1>1, <1>3, <1>4, <1>8, <1>9 DEF TypeOK

LEMMA StartAttemptTyped ==
    ASSUME TypeOK, StartAttempt
    PROVE  TypeOK'
<1>1. KindTyped /\ JobTyped /\ LogTyped /\ SliceTyped /\ TodoTyped
      /\ KindTyped' /\ Evaluators' = Evaluators /\ Stages' = Stages
  BY SameStages DEF TypeOK, StartAttempt, KindTyped
<1>2. /\ ~Idle /\ todo[1].op = "attempt" /\ todo[1].cycle \in Nat \ {0} /\ todo[1].n \in Nat
      /\ Head(todo) = todo[1] /\ job \notin {"Ready", "Stalled"}
  <2>1. /\ ~Idle /\ todo[1].op = "attempt" /\ todo[1].cycle \in Nat /\ Head(todo) = todo[1]
        /\ todo[1].n \in Nat /\ ChoreTyped(todo[1])
    BY InHand DEF StartAttempt
  <2> QED
    BY <2>1 DEF ChoreTyped
<1>3. Unstarted'
  BY <1>2 DEF Unstarted, StartAttempt
<1>4. CASE draining \/ slice = None
  <2>1. UNCHANGED <<log, box>> /\ Then(<<>>)
    BY <1>4 DEF StartAttempt
  <2>2. LogTyped' /\ Grows /\ Tasks' = Tasks
    BY <2>1, SameLog DEF StartAttempt, TypeOK, LogTyped
  <2>3. SliceTyped' /\ JobTyped'
    BY <1>1, <2>2, KeepSlice DEF StartAttempt, SliceTyped, JobTyped
  <2>4. \A x \in Rest : ChoreTyped(x)'
    BY <1>2, <2>2, RestQuiet DEF StartAttempt
  <2>5. TodoTyped'
    BY <1>1, <2>1, <2>4, ThenNone
  <2> QED
    BY <1>1, <1>3, <2>2, <2>3, <2>5 DEF TypeOK
<1>5. CASE ~(draining \/ slice = None)
  <2> DEFINE parked == WorkType = "human" \/ claim
             st == IF parked THEN "Pending" ELSE "Running"
  <2>1. PICK r : r = NewTask("Work", "none", todo[1].cycle, todo[1].n, st)
    OBVIOUS
  <2>2. /\ Create(r)
        /\ Then(IF claim THEN Do("unclaim", 0, 0, "none")
                ELSE IF parked THEN <<>> ELSE Do("place", 0, Len(log) + 1, "none"))
    BY <1>2, <1>5, <2>1 DEF StartAttempt
  <2>3. r \in TaskRecords /\ TaskTyped(r) /\ r.by = 0 /\ r.st = st
    <3>1. PICK p \in {"Pending", "Running"}, c \in Nat \ {0}, n \in Nat :
             p = st /\ c = todo[1].cycle /\ n = todo[1].n
      BY <1>2
    <3> HIDE DEF st
    <3>2. "Work" \in {"Work", "Evaluation", "Escalation"} /\ "none" \in Names \cup Reasons \cup {"none"}
      OBVIOUS
    <3>3. /\ NewTask("Work", "none", c, n, p) \in TaskRecords
          /\ TaskTyped(NewTask("Work", "none", c, n, p))
          /\ NewTask("Work", "none", c, n, p) =
                [phase |-> "Work", about |-> "none", cycle |-> c, attempt |-> n, st |-> p,
                 cid |-> FALSE, loss |-> FALSE, verdict |-> "none", by |-> 0, tip |-> 0]
      BY <1>1, <3>2, NewTaskIs
    <3> QED
      BY <2>1, <3>1, <3>3
  <2>4. /\ LogTyped' /\ Grows /\ Tasks' = Tasks \cup {Len(log) + 1} /\ Len(log) \in Nat
        /\ log'[Len(log) + 1] = r
    BY <1>1, <2>2, <2>3, AddTask DEF StartAttempt
  <2>5. SliceTyped' /\ JobTyped'
    BY <1>1, <2>4, KeepSlice DEF StartAttempt, SliceTyped, JobTyped
  <2>6. \A x \in Rest : ChoreTyped(x)'
    BY <1>2, <2>4, RestQuiet DEF StartAttempt
  <2>7. CASE claim
    <3>1. PICK x : x = [op |-> "unclaim", cycle |-> 0, n |-> 0, of |-> "none"]
      OBVIOUS
    <3>2. ChoreTyped(x)'
      BY <1>2, <3>1 DEF ChoreTyped, StartAttempt
    <3>3. Then(Do("unclaim", 0, 0, "none")) /\ "unclaim" \in Ops
      BY <2>2, <2>7 DEF Ops
    <3> QED
      BY <1>1, <1>2, <1>3, <2>4, <2>5, <2>6, <3>1, <3>2, <3>3, ThenOne DEF TypeOK
  <2>8. CASE ~claim /\ parked
    <3>1. Then(<<>>)
      BY <2>2, <2>8
    <3> QED
      BY <1>1, <1>3, <2>4, <2>5, <2>6, <3>1, ThenNone DEF TypeOK
  <2>9. CASE ~claim /\ ~parked
    <3>1. PICK x : x = [op |-> "place", cycle |-> 0, n |-> Len(log) + 1, of |-> "none"]
      OBVIOUS
    <3>2. x.n \in Tasks' /\ log'[x.n].st = "Running" /\ x.op = "place"
      BY <2>3, <2>4, <2>9, <3>1
    <3>3. ChoreTyped(x)'
      BY <1>2, <3>2 DEF ChoreTyped, StartAttempt
    <3>4. Then(Do("place", 0, Len(log) + 1, "none")) /\ "place" \in Ops /\ Len(log) + 1 \in Nat
      BY <2>2, <2>4, <2>9 DEF Ops
    <3> QED
      BY <1>1, <1>2, <1>3, <2>4, <2>5, <2>6, <3>1, <3>3, <3>4, ThenOne DEF TypeOK
  <2> QED
    BY <2>7, <2>8, <2>9
<1> QED
  BY <1>4, <1>5

LEMMA UnclaimTyped ==
    ASSUME TypeOK, Unclaim
    PROVE  TypeOK'
<1>1. LogTyped' /\ Grows /\ Tasks' = Tasks /\ Evaluators' = Evaluators /\ Stages' = Stages /\ KindTyped'
  BY SameLog DEF Unclaim, TypeOK, LogTyped
<1>2. ~Idle /\ todo[1].op = "unclaim"
  BY InHand DEF Unclaim
<1>3. JobTyped' /\ Unstarted'
  BY <1>1 DEF Unclaim, TypeOK, JobTyped, Unstarted
<1>4. SliceTyped'
  BY <1>1, KeepSlice DEF Unclaim, TypeOK, SliceTyped
<1>5. \A x \in Rest : ChoreTyped(x)'
  BY <1>1, <1>2, RestQuiet DEF Unclaim
<1>6. TodoTyped'
  BY <1>5, ThenNone DEF Unclaim, TypeOK
<1> QED
  BY <1>1, <1>3, <1>4, <1>6 DEF TypeOK

LEMMA PlaceTyped ==
    ASSUME TypeOK, Place
    PROVE  TypeOK'
<1>1. KindTyped /\ JobTyped /\ LogTyped /\ SliceTyped /\ TodoTyped /\ Unstarted
      /\ KindTyped' /\ Evaluators' = Evaluators /\ Stages' = Stages
  BY SameStages DEF TypeOK, Place, KindTyped
<1>2. /\ ~Idle /\ todo[1].op = "place" /\ todo[1].n \in Tasks /\ todo[1].n \in Nat
      /\ Head(todo) = todo[1] /\ job \notin {"Ready", "Stalled"}
  <2>1. /\ ~Idle /\ todo[1].op = "place" /\ Head(todo) = todo[1] /\ ChoreTyped(todo[1])
        /\ todo[1].n \in Nat
    BY InHand DEF Place
  <2> QED
    BY <2>1 DEF ChoreTyped
<1>3. PICK t, placed : /\ t = todo[1].n /\ placed \in {"up", "refused"}
                       /\ box' = [box EXCEPT ![t] = placed] /\ watched' = watched \cup {t}
                       /\ Then(IF placed = "up" /\ TypeOf(t) = "command"
                                 THEN Do("stamp", 0, t, "none") ELSE <<>>)
  BY <1>2 DEF Place
<1>4. t \in Tasks /\ t \in Nat /\ placed \in Boxes
  BY <1>2, <1>3 DEF Boxes, Ended
<1>5. LogTyped' /\ Grows /\ Tasks' = Tasks
  <2>1. box' \in Seq(Boxes) /\ Len(box') = Len(box)
    BY <1>1, <1>3, <1>4, SetBox
  <2>2. watched' \subseteq Tasks /\ log' = log
    BY <1>1, <1>3, <1>4 DEF LogTyped, Place
  <2> QED
    BY <1>1, <2>1, <2>2, KeepLog
<1>6. SliceTyped' /\ JobTyped' /\ Unstarted'
  BY <1>1, <1>5, KeepSlice DEF Place, SliceTyped, JobTyped, Unstarted
<1>7. \A x \in Rest : ChoreTyped(x)'
  BY <1>1, <1>2, <1>5, RestBusy DEF Place
<1>8. CASE Then(<<>>)
  BY <1>1, <1>5, <1>6, <1>7, <1>8, ThenNone DEF TypeOK
<1>9. CASE Then(Do("stamp", 0, t, "none"))
  <2>1. PICK x : x = [op |-> "stamp", cycle |-> 0, n |-> t, of |-> "none"]
    OBVIOUS
  <2>2. ChoreTyped(x)'
    BY <1>2, <1>4, <1>5, <2>1 DEF ChoreTyped, Place
  <2>3. "stamp" \in Ops
    BY DEF Ops
  <2> QED
    BY <1>1, <1>4, <1>5, <1>6, <1>7, <1>9, <2>1, <2>2, <2>3, ThenOne DEF TypeOK
<1> QED
  BY <1>3, <1>8, <1>9

LEMMA PlaceFailsTyped ==
    ASSUME TypeOK, PlaceFails
    PROVE  TypeOK'
<1>1. LogTyped' /\ Grows /\ Tasks' = Tasks /\ Evaluators' = Evaluators /\ Stages' = Stages /\ KindTyped'
  BY SameLog DEF PlaceFails, TypeOK, LogTyped
<1>3. JobTyped' /\ Unstarted'
  BY <1>1 DEF PlaceFails, TypeOK, JobTyped, Unstarted
<1>4. SliceTyped'
  BY <1>1, KeepSlice DEF PlaceFails, TypeOK, SliceTyped
<1>6. TodoTyped'
  BY NoneLeft DEF PlaceFails
<1> QED
  BY <1>1, <1>3, <1>4, <1>6 DEF TypeOK

LEMMA StampTyped ==
    ASSUME TypeOK, Stamp
    PROVE  TypeOK'
<1>1. KindTyped /\ JobTyped /\ LogTyped /\ SliceTyped /\ TodoTyped /\ Unstarted
      /\ KindTyped' /\ Evaluators' = Evaluators /\ Stages' = Stages
  BY SameStages DEF TypeOK, Stamp, KindTyped
<1>2. /\ ~Idle /\ todo[1].op = "stamp" /\ todo[1].n \in Tasks
      /\ Head(todo) = todo[1] /\ job \notin {"Ready", "Stalled"}
  <2>1. /\ ~Idle /\ todo[1].op = "stamp" /\ Head(todo) = todo[1] /\ ChoreTyped(todo[1])
    BY InHand DEF Stamp
  <2> QED
    BY <2>1 DEF ChoreTyped
<1>3. PICK t \in Tasks : t = todo[1].n
  BY <1>2
<1>4. log[t] \in TaskRecords /\ TaskTyped(log[t]) /\ log \in Seq(TaskRecords) /\ t \in DOMAIN log
  BY <1>1, TasksAre DEF LogTyped, Tasks
<1> DEFINE r == [log[t] EXCEPT !.cid = TRUE]
<1>5. log' = [log EXCEPT ![t] = r]
  BY <1>2, <1>3, <1>4 DEF Stamp
<1>6. r \in TaskRecords /\ TaskTyped(r) /\ r.phase = log[t].phase /\ r.about = log[t].about
  BY <1>4 DEF TaskRecords, TaskTyped
<1> HIDE DEF r
<1>7. box' \in Seq(Boxes) /\ Len(box') = Len(box) /\ watched' \subseteq Tasks
  BY <1>1 DEF LogTyped, Stamp
<1>8. LogTyped' /\ Grows /\ Tasks' = Tasks
  BY <1>1, <1>5, <1>6, <1>7, SetTask
<1>9. SliceTyped' /\ JobTyped' /\ Unstarted'
  BY <1>1, <1>2, <1>8, KeepSlice DEF Stamp, SliceTyped, JobTyped, Unstarted
<1>10. \A x \in Rest : ChoreTyped(x)'
  BY <1>1, <1>2, <1>8, RestBusy DEF Stamp
<1>11. TodoTyped'
  BY <1>1, <1>10, ThenNone DEF Stamp
<1> QED
  BY <1>1, <1>8, <1>9, <1>11 DEF TypeOK

LEMMA EnterEvaluationTyped ==
    ASSUME TypeOK, EnterEvaluation
    PROVE  TypeOK'
<1>1. LogTyped' /\ Grows /\ Tasks' = Tasks /\ Evaluators' = Evaluators /\ Stages' = Stages /\ KindTyped'
  BY SameLog DEF EnterEvaluation, TypeOK, LogTyped
<1>2. ~Idle /\ todo[1].op = "evaluate" /\ slice # None /\ job \notin {"Ready", "Stalled"}
  <2>1. ~Idle /\ todo[1].op = "evaluate" /\ ChoreTyped(todo[1])
    BY InHand DEF EnterEvaluation
  <2> QED
    BY <2>1 DEF ChoreTyped
<1>3. JobTyped' /\ Unstarted' /\ job' \notin {"Ready", "Stalled"}
  BY <1>1, <1>2 DEF EnterEvaluation, TypeOK, JobTyped, Unstarted
<1>4. KindTyped /\ SliceTyped /\ TodoTyped
  BY DEF TypeOK
<1>5. \A x \in Rest : ChoreTyped(x)'
  BY <1>1, <1>2, <1>3, RestQuiet
<1>6. CASE draining
  <2>1. SliceTyped' /\ Then(<<>>)
    BY <1>1, <1>4, <1>6, KeepSlice DEF EnterEvaluation, SliceTyped
  <2> QED
    BY <1>1, <1>3, <1>4, <1>5, <2>1, ThenNone DEF TypeOK
<1>7. CASE ~draining
  <2> DEFINE round == IF Stages = <<>> THEN None ELSE EmptyRound
  <2>1. /\ job' = "Evaluation" /\ slice' = [slice EXCEPT !.round = round]
        /\ Then(IF Stages = <<>> THEN Do("finalize", 0, 0, "none") ELSE LaunchStage(1))
    BY <1>2, <1>7 DEF EnterEvaluation
  <2>2. round \in {None} \cup Rounds(Evaluators)
    BY <1>4, EmptyRoundIs
  <2> HIDE DEF round
  <2>3. /\ slice' \in Slices(Evaluators) /\ slice' # None /\ slice'.round = round
        /\ slice'.cycle = slice.cycle /\ slice'.sub = slice.sub
    BY <1>2, <1>4, <2>1, <2>2, RoundSet
  <2>4. CASE Stages = <<>>
    <3>1. round = None /\ Then(Do("finalize", 0, 0, "none"))
      BY <2>1, <2>4 DEF round
    <3>2. SliceTyped' /\ ~Rounding'
      BY <1>1, <1>2, <1>4, <2>3, <3>1 DEF SliceTyped, Rounding
    <3>3. PICK x : x = [op |-> "finalize", cycle |-> 0, n |-> 0, of |-> "none"]
      OBVIOUS
    <3>4. ChoreTyped(x)'
      BY <1>3, <3>2, <3>3 DEF ChoreTyped
    <3>5. "finalize" \in Ops
      BY DEF Ops
    <3> QED
      BY <1>1, <1>2, <1>3, <1>4, <1>5, <3>1, <3>2, <3>3, <3>4, <3>5, ThenOne DEF TypeOK
  <2>5. CASE Stages # <<>>
    <3>1. round = EmptyRound /\ Then(LaunchStage(1))
      BY <2>1, <2>5 DEF round
    <3>2. 1 \in 1..Len(Stages)
      <4>1. Stages \in Seq(SUBSET Names)
        BY <1>4, StagesAre
      <4> QED
        BY <2>5, <4>1, EmptySeq, LenProperties
    <3>3. Rounding' /\ slice'.round.stage = 1
      BY <1>4, <2>3, <3>1, EmptyRoundIs DEF Rounding
    <3>4. SliceTyped'
      BY <1>1, <1>2, <1>4, <2>1, <2>3, <3>2, <3>3 DEF SliceTyped
    <3>5. PICK l : l = LaunchStage(1)
      OBVIOUS
    <3>6. /\ l \in Seq(Chores) /\ Ordered(l)
          /\ \A x \in ToSet(l) :
                \/ \E ev \in Stages[1] : x = [op |-> "launch", cycle |-> 0, n |-> 1, of |-> ev]
                \/ x = [op |-> "slots", cycle |-> 0, n |-> 1, of |-> "all"]
      BY <1>4, <3>2, <3>5, LaunchStageIs
    <3>7. Stages[1] \subseteq Evaluators
      BY <1>4, <3>2, EvaluatorsAre
    <3>8. \A x \in ToSet(l) : ChoreTyped(x)' /\ x.op # "sweep"
      <4> SUFFICES ASSUME NEW x \in ToSet(l) PROVE ChoreTyped(x)' /\ x.op # "sweep"
        OBVIOUS
      <4>1. CASE \E ev \in Stages[1] : x = [op |-> "launch", cycle |-> 0, n |-> 1, of |-> ev]
        <5>1. x.op = "launch" /\ x.of \in Evaluators'
          BY <1>1, <3>7, <4>1
        <5> QED
          BY <2>1, <2>3, <5>1 DEF ChoreTyped
      <4>2. CASE x = [op |-> "slots", cycle |-> 0, n |-> 1, of |-> "all"]
        <5>1. x.op = "slots" /\ x.of = "all" /\ x.n \in 1..Len(Stages')
          BY <1>1, <3>2, <4>2
        <5> QED
          BY <2>1, <3>3, <5>1 DEF ChoreTyped
      <4> QED
        BY <3>6, <4>1, <4>2
    <3>9. TodoTyped'
      BY <1>2, <1>4, <1>5, <3>1, <3>5, <3>6, <3>8, ThenList
    <3> QED
      BY <1>1, <1>3, <3>4, <3>9 DEF TypeOK
  <2> QED
    BY <2>4, <2>5
<1> QED
  BY <1>6, <1>7

LEMMA LaunchEvaluatorTyped ==
    ASSUME TypeOK, LaunchEvaluator
    PROVE  TypeOK'
<1>1. KindTyped /\ JobTyped /\ LogTyped /\ SliceTyped /\ TodoTyped /\ Unstarted
      /\ KindTyped' /\ Evaluators' = Evaluators /\ Stages' = Stages
  BY SameStages DEF TypeOK, LaunchEvaluator, KindTyped
<1>2. /\ ~Idle /\ todo[1].op = "launch" /\ todo[1].n \in Nat /\ todo[1].of \in Evaluators
      /\ Head(todo) = todo[1] /\ job = "Evaluation" /\ slice # None
  <2>1. /\ ~Idle /\ todo[1].op = "launch" /\ Head(todo) = todo[1] /\ ChoreTyped(todo[1])
        /\ todo[1].n \in Nat
    BY InHand DEF LaunchEvaluator
  <2> QED
    BY <2>1 DEF ChoreTyped
<1>3. PICK ev \in Evaluators : ev = todo[1].of
  BY <1>2
<1> DEFINE st == IF EvType[ev] = "human" THEN "Pending" ELSE "Running"
<1>4. PICK r : r = NewTask("Evaluation", ev, slice.cycle, todo[1].n, st)
  OBVIOUS
<1>5. /\ Create(r)
      /\ Then(IF EvType[ev] = "human" THEN <<>> ELSE Do("place", 0, Len(log) + 1, "none"))
  BY <1>2, <1>3, <1>4 DEF LaunchEvaluator
<1>6. r \in TaskRecords /\ TaskTyped(r) /\ r.by = 0 /\ r.st = st
  <2>1. PICK p \in {"Pending", "Running"}, c \in Nat \ {0}, n \in Nat :
           p = st /\ c = slice.cycle /\ n = todo[1].n
    BY <1>1, <1>2, SliceIs
  <2>2. ev \in Names \cup Reasons \cup {"none"} /\ (EvType[ev] # "human" => p = "Running")
        /\ "Evaluation" \in {"Work", "Evaluation", "Escalation"}
    BY <1>1, <2>1, EvaluatorsAre
  <2> HIDE DEF st
  <2>3. /\ NewTask("Evaluation", ev, c, n, p) \in TaskRecords
        /\ TaskTyped(NewTask("Evaluation", ev, c, n, p))
        /\ NewTask("Evaluation", ev, c, n, p) =
              [phase |-> "Evaluation", about |-> ev, cycle |-> c, attempt |-> n, st |-> p,
               cid |-> FALSE, loss |-> FALSE, verdict |-> "none", by |-> 0, tip |-> tip]
    BY <1>1, <2>2, NewTaskIs
  <2> QED
    BY <1>4, <2>1, <2>3
<1>7. /\ LogTyped' /\ Grows /\ Tasks' = Tasks \cup {Len(log) + 1} /\ Len(log) \in Nat
      /\ log'[Len(log) + 1] = r
  BY <1>1, <1>5, <1>6, AddTask DEF LaunchEvaluator
<1>8. SliceTyped' /\ JobTyped' /\ Unstarted'
  BY <1>1, <1>2, <1>7, KeepSlice DEF LaunchEvaluator, SliceTyped, JobTyped, Unstarted
<1>9. \A x \in Rest : ChoreTyped(x)'
  BY <1>1, <1>2, <1>7, RestBusy DEF LaunchEvaluator
<1>10. CASE EvType[ev] = "human"
  <2>1. Then(<<>>)
    BY <1>5, <1>10
  <2> QED
    BY <1>1, <1>7, <1>8, <1>9, <2>1, ThenNone DEF TypeOK
<1>11. CASE EvType[ev] # "human"
  <2>1. PICK x : x = [op |-> "place", cycle |-> 0, n |-> Len(log) + 1, of |-> "none"]
    OBVIOUS
  <2>2. x.n \in Tasks' /\ log'[x.n].st = "Running" /\ x.op = "place"
    BY <1>6, <1>7, <1>11, <2>1
  <2>3. ChoreTyped(x)'
    BY <1>2, <2>2 DEF ChoreTyped, LaunchEvaluator
  <2>4. Then(Do("place", 0, Len(log) + 1, "none")) /\ "place" \in Ops /\ Len(log) + 1 \in Nat
    BY <1>5, <1>7, <1>11 DEF Ops
  <2> QED
    BY <1>1, <1>2, <1>7, <1>8, <1>9, <2>1, <2>3, <2>4, ThenOne DEF TypeOK
<1> QED
  BY <1>10, <1>11

LEMMA InstallSlotsIs ==
    ASSUME TypeOK, InstallSlots
    PROVE  /\ ~Idle /\ todo[1].op = "slots" /\ Rounding /\ job = "Evaluation"
           /\ slice' \in Slices(Evaluators) /\ slice' # None /\ Rounding'
           /\ slice'.cycle = slice.cycle /\ slice'.sub = slice.sub /\ slice'.reworks = slice.reworks
           /\ todo[1].of = "all" => todo[1].n \in 1..Len(Stages)
           /\ todo[1].of # "all" => todo[1].of \in Evaluators
           /\ slice'.round.stage = IF todo[1].of = "all" THEN todo[1].n ELSE slice.round.stage
           /\ \A ev \in Evaluators :
                slice'.round.slot[ev] =
                  IF ev \in (IF todo[1].of = "all" THEN Stages[todo[1].n] ELSE {todo[1].of})
                    THEN [task |-> Latest(Lineage("Evaluation", slice.cycle, ev)), out |-> "open"]
                    ELSE slice.round.slot[ev]
<1>1. KindTyped /\ LogTyped /\ SliceTyped
  BY DEF TypeOK
<1>2. /\ ~Idle /\ todo[1].op = "slots" /\ Head(todo) = todo[1] /\ Rounding /\ job = "Evaluation"
      /\ (todo[1].of = "all" => todo[1].n \in 1..Len(Stages))
      /\ (todo[1].of # "all" => todo[1].of \in Evaluators)
  <2>1. /\ ~Idle /\ todo[1].op = "slots" /\ Head(todo) = todo[1] /\ ChoreTyped(todo[1])
    BY InHand DEF InstallSlots
  <2>2. Evaluators \cap {"all"} = {}
    BY <1>1, EvaluatorsAre
  <2> QED
    BY <2>1, <2>2 DEF ChoreTyped
<1> DEFINE evs == IF todo[1].of = "all" THEN Stages[todo[1].n] ELSE {todo[1].of}
           stage == IF todo[1].of = "all" THEN todo[1].n ELSE slice.round.stage
           last(ev) == Latest(Lineage("Evaluation", slice.cycle, ev))
           slot == [ev \in Evaluators |-> IF ev \in evs THEN [task |-> last(ev), out |-> "open"]
                                          ELSE slice.round.slot[ev]]
           round == [stage |-> stage, slot |-> slot]
<1>3. slice \in Slices(Evaluators) /\ slice.round \in Rounds(Evaluators) /\ slice # None
  BY <1>1, <1>2, SliceIs DEF Rounding
<1>4. slice' = [slice EXCEPT !.round.stage = IF todo[1].of = "all" THEN todo[1].n ELSE @,
                             !.round.slot = [ev \in Evaluators |->
                                IF ev \in evs THEN [task |-> last(ev), out |-> "open"] ELSE @[ev]]]
  BY <1>2 DEF InstallSlots
<1>5. slice' = [slice EXCEPT !.round = round]
  <2> DEFINE mid == [slice EXCEPT !.round.stage = stage]
             new(s) == [ev \in Evaluators |->
                          IF ev \in evs THEN [task |-> last(ev), out |-> "open"] ELSE s[ev]]
  <2>1. slice' = [mid EXCEPT !.round.slot = new(@)]
    BY <1>4
  <2>2. slot = new(slice.round.slot)
    OBVIOUS
  <2> HIDE DEF evs, last, slot, new, stage
  <2>3. mid \in [cycle : Nat, reworks : Nat, sub : Nat, round : {mid.round}]
        /\ mid.cycle = slice.cycle /\ mid.reworks = slice.reworks /\ mid.sub = slice.sub
        /\ mid.round = [stage |-> stage, slot |-> slice.round.slot]
    BY <1>3 DEF Slices, Rounds
  <2> HIDE DEF mid
  <2>4. [mid.round EXCEPT !.slot = new(@)] = round
    BY <2>2, <2>3
  <2>5. slice' = [mid EXCEPT !.round = round]
    BY <2>1, <2>4
  <2> QED
    BY <1>3, <2>3, <2>5 DEF Slices
<1>6. stage \in Nat
  BY <1>2, <1>3, EvaluatorsAre, <1>1 DEF Rounds
<1>7. \A ev \in Evaluators : last(ev) \in Nat /\ slice.round.slot[ev] \in [task : Nat, out : Outcomes]
  <2>1. slice.round.slot \in [Evaluators -> [task : Nat, out : Outcomes]]
    BY <1>3 DEF Rounds
  <2>2. \A ev \in Evaluators : last(ev) \in {0} \cup Tasks /\ Tasks \subseteq Nat
    BY <1>1, LineageIs, TasksAre
  <2> QED
    BY <2>1, <2>2
<1> HIDE DEF last, evs, stage
<1>8. /\ slot \in [Evaluators -> [task : Nat, out : Outcomes]]
      /\ \A ev \in Evaluators : slot[ev] = IF ev \in evs THEN [task |-> last(ev), out |-> "open"]
                                           ELSE slice.round.slot[ev]
  BY <1>7 DEF Outcomes
<1> HIDE DEF slot
<1>9. round \in Rounds(Evaluators) /\ round.stage = stage /\ round.slot = slot
  BY <1>6, <1>8 DEF Rounds
<1> HIDE DEF round
<1>10. /\ slice' \in Slices(Evaluators) /\ slice' # None /\ slice'.round = round
       /\ slice'.cycle = slice.cycle /\ slice'.sub = slice.sub /\ slice'.reworks = slice.reworks
  BY <1>1, <1>3, <1>5, <1>9, RoundSet
<1>11. Rounding'
  BY <1>1, <1>9, <1>10, NoneIsNot DEF Rounding
<1> QED
  BY <1>2, <1>8, <1>9, <1>10, <1>11 DEF stage, evs, last

LEMMA InstallSlotsTyped ==
    ASSUME TypeOK, InstallSlots
    PROVE  TypeOK'
<1>1. LogTyped' /\ Grows /\ Tasks' = Tasks /\ Evaluators' = Evaluators /\ Stages' = Stages /\ KindTyped'
  BY SameLog DEF InstallSlots, TypeOK, LogTyped
<1>2. KindTyped /\ SliceTyped /\ TodoTyped
  BY DEF TypeOK
<1>3. JobTyped' /\ Unstarted'
  BY <1>1, InstallSlotsIs DEF InstallSlots, TypeOK, JobTyped, Unstarted
<1>4. SliceTyped'
  <2>1. slice.round.stage \in 1..Len(Stages) /\ slice.sub \in {0} \cup Tasks /\ slice.cycle # 0
    BY <1>2, InstallSlotsIs DEF SliceTyped, Rounding
  <2>2. slice'.round.stage \in 1..Len(Stages) /\ job' = "Evaluation"
    BY <2>1, InstallSlotsIs DEF InstallSlots
  <2> QED
    BY <1>1, <2>1, <2>2, InstallSlotsIs DEF SliceTyped
<1>5. \A x \in Rest : ChoreTyped(x)'
  BY <1>1, InstallSlotsIs, RestQuiet DEF InstallSlots
<1>6. TodoTyped'
  BY <1>2, <1>5, ThenNone DEF InstallSlots
<1> QED
  BY <1>1, <1>3, <1>4, <1>6 DEF TypeOK

\* The verdict of a round: it is escalated, handed over or reworked.
LEMMA ReduceIs ==
    \/ \E why \in {"infra", "abort", "rework"} : Reduce = Do("escalate", 0, 0, why)
    \/ Reduce = Do("finalize", 0, 0, "none")
    \/ Reduce = Do("enter", slice.cycle + 1, 0, "none")
BY Zenon DEF Reduce

LEMMA SettleTyped ==
    ASSUME TypeOK, Settle
    PROVE  TypeOK'
<1>1. LogTyped' /\ Grows /\ Tasks' = Tasks /\ Evaluators' = Evaluators /\ Stages' = Stages /\ KindTyped'
  BY SameLog DEF Settle, TypeOK, LogTyped
<1>2. KindTyped /\ SliceTyped /\ TodoTyped
  BY DEF TypeOK
<1>3. ~Idle /\ todo[1].op = "settle" /\ slice # None /\ job = "Evaluation" /\ job' = job
  <2>1. ~Idle /\ todo[1].op = "settle" /\ ChoreTyped(todo[1])
    BY InHand DEF Settle
  <2> QED
    BY <2>1 DEF ChoreTyped, Settle
<1>4. JobTyped' /\ Unstarted'
  BY <1>1, <1>3 DEF Settle, TypeOK, JobTyped, Unstarted
<1>5. \A x \in Rest : ChoreTyped(x)'
  BY <1>1, <1>3, RestQuiet
<1>6. CASE UNCHANGED slice /\ Then(<<>>)
  <2>1. SliceTyped'
    BY <1>1, <1>2, <1>3, <1>6, KeepSlice
  <2> QED
    BY <1>1, <1>2, <1>4, <1>5, <1>6, <2>1, ThenNone DEF TypeOK
<1>7. CASE /\ Rounding /\ slice.round.stage < Len(Stages)
           /\ UNCHANGED slice /\ Then(LaunchStage(slice.round.stage + 1))
  <2>1. SliceTyped' /\ Rounding'
    BY <1>1, <1>2, <1>3, <1>7, KeepSlice DEF Rounding
  <2>2. PICK i \in 1..Len(Stages) : i = slice.round.stage + 1
    <3>1. slice.round.stage \in 1..Len(Stages) /\ Len(Stages) \in Nat
      BY <1>2, <1>7, EvaluatorsAre DEF SliceTyped
    <3> QED
      BY <1>7, <3>1
  <2>3. PICK l : l = LaunchStage(i)
    OBVIOUS
  <2>4. /\ l \in Seq(Chores) /\ Ordered(l)
        /\ \A x \in ToSet(l) :
              \/ \E ev \in Stages[i] : x = [op |-> "launch", cycle |-> 0, n |-> 1, of |-> ev]
              \/ x = [op |-> "slots", cycle |-> 0, n |-> i, of |-> "all"]
    BY <1>2, <2>3, LaunchStageIs
  <2>5. Stages[i] \subseteq Evaluators
    BY <1>2, EvaluatorsAre
  <2>6. \A x \in ToSet(l) : ChoreTyped(x)' /\ x.op # "sweep"
    <3> SUFFICES ASSUME NEW x \in ToSet(l) PROVE ChoreTyped(x)' /\ x.op # "sweep"
      OBVIOUS
    <3>1. CASE \E ev \in Stages[i] : x = [op |-> "launch", cycle |-> 0, n |-> 1, of |-> ev]
      <4>1. x.op = "launch" /\ x.of \in Evaluators'
        BY <1>1, <2>5, <3>1
      <4> QED
        BY <1>3, <1>7, <4>1 DEF ChoreTyped
    <3>2. CASE x = [op |-> "slots", cycle |-> 0, n |-> i, of |-> "all"]
      <4>1. x.op = "slots" /\ x.of = "all" /\ x.n \in 1..Len(Stages')
        BY <1>1, <3>2
      <4> QED
        BY <1>3, <2>1, <4>1 DEF ChoreTyped
    <3> QED
      BY <2>4, <3>1, <3>2
  <2>7. TodoTyped'
    BY <1>2, <1>3, <1>5, <1>7, <2>2, <2>3, <2>4, <2>6, ThenList
  <2> QED
    BY <1>1, <1>4, <2>1, <2>7 DEF TypeOK
<1>8. CASE /\ slice' = [slice EXCEPT !.round = None,
                                     !.reworks = IF Reduce[1].op = "enter" THEN @ + 1 ELSE @]
           /\ Then(Reduce)
  <2>1. /\ slice' \in Slices(Evaluators) /\ slice'.round = None
        /\ slice'.cycle = slice.cycle /\ slice'.sub = slice.sub
    <3>1. slice \in Slices(Evaluators)
      BY <1>2, <1>3, SliceIs
    <3>2. PICK b : b = (Reduce[1].op = "enter")
      OBVIOUS
    <3>3. slice' = [slice EXCEPT !.round = None, !.reworks = IF b THEN @ + 1 ELSE @]
      BY <1>8, <3>2
    <3>4. PICK n \in Nat : n = IF b THEN slice.reworks + 1 ELSE slice.reworks
      BY <3>1 DEF Slices
    <3>5. slice' = [slice EXCEPT !.round = None, !.reworks = n]
      BY <3>3, <3>4
    <3> QED
      BY <3>1, <3>5 DEF Slices
  <2>2. SliceTyped' /\ ~Rounding'
    BY <1>1, <1>2, <1>3, <2>1 DEF SliceTyped, Rounding
  <2>3. ASSUME NEW why \in {"infra", "abort", "rework"}, Reduce = Do("escalate", 0, 0, why)
        PROVE  TodoTyped'
    <3>1. PICK x : x = [op |-> "escalate", cycle |-> 0, n |-> 0, of |-> why]
      OBVIOUS
    <3>2. ChoreTyped(x)'
      BY <1>3, <3>1 DEF ChoreTyped, Reasons
    <3>3. "escalate" \in Ops /\ why \in Names \cup Reasons \cup {"none", "all"}
          /\ Then(Do("escalate", 0, 0, why))
      BY <1>8, <2>3 DEF Ops, Reasons
    <3> QED
      BY <1>2, <1>3, <1>5, <3>1, <3>2, <3>3, ThenOne
  <2>4. ASSUME Reduce = Do("finalize", 0, 0, "none") PROVE TodoTyped'
    <3>1. PICK x : x = [op |-> "finalize", cycle |-> 0, n |-> 0, of |-> "none"]
      OBVIOUS
    <3>2. ChoreTyped(x)'
      BY <1>3, <2>2, <3>1 DEF ChoreTyped
    <3>3. "finalize" \in Ops /\ Then(Do("finalize", 0, 0, "none"))
      BY <1>8, <2>4 DEF Ops
    <3>4. todo[1].op \notin {"place", "stamp", "launch", "rebuild"}
      BY <1>3
    <3> QED
      BY <1>2, <1>5, <3>1, <3>2, <3>3, <3>4, ThenOne
  <2>5. ASSUME Reduce = Do("enter", slice.cycle + 1, 0, "none") PROVE TodoTyped'
    <3>1. PICK c \in Nat \ {0} : c = slice.cycle + 1
      BY <1>2, <1>3, SliceIs
    <3>2. PICK x : x = [op |-> "enter", cycle |-> c, n |-> 0, of |-> "none"]
      OBVIOUS
    <3>3. ChoreTyped(x)'
      BY <1>3, <2>2, <3>1, <3>2 DEF ChoreTyped
    <3>4. "enter" \in Ops /\ Then(Do("enter", c, 0, "none"))
      BY <1>8, <2>5, <3>1 DEF Ops
    <3>5. todo[1].op \notin {"place", "stamp", "launch", "rebuild"}
      BY <1>3
    <3> QED
      BY <1>2, <1>5, <3>2, <3>3, <3>4, <3>5, ThenOne
  <2> QED
    BY <1>1, <1>4, <2>2, <2>3, <2>4, <2>5, ReduceIs DEF TypeOK
<1> QED
  BY <1>6, <1>7, <1>8 DEF Settle, Settled

LEMMA FinalizeTyped ==
    ASSUME TypeOK, Finalize
    PROVE  TypeOK'
<1>1. LogTyped' /\ Grows /\ Tasks' = Tasks /\ Evaluators' = Evaluators /\ Stages' = Stages /\ KindTyped'
  BY SameLog DEF Finalize, TypeOK, LogTyped
<1>2. ~Idle /\ todo[1].op = "finalize" /\ ~Rounding
  <2>1. ~Idle /\ todo[1].op = "finalize" /\ ChoreTyped(todo[1])
    BY InHand DEF Finalize
  <2> QED
    BY <2>1 DEF ChoreTyped
<1>3. JobTyped' /\ Unstarted' /\ job' = "WrapUp"
  BY <1>1 DEF Finalize, TypeOK, JobTyped, Unstarted
<1>4. SliceTyped'
  BY <1>1, <1>2, KeepSlice DEF Finalize, TypeOK
<1>5. \A x \in Rest : ChoreTyped(x)'
  BY <1>1, <1>2, <1>3, RestQuiet
<1>6. TodoTyped'
  BY <1>5, ThenNone DEF Finalize, TypeOK
<1> QED
  BY <1>1, <1>3, <1>4, <1>6 DEF TypeOK

LEMMA EscalateTyped ==
    ASSUME TypeOK, Escalate
    PROVE  TypeOK'
<1>1. LogTyped' /\ Grows /\ Tasks' = Tasks /\ Evaluators' = Evaluators /\ Stages' = Stages /\ KindTyped'
  BY SameLog DEF Escalate, TypeOK, LogTyped
<1>2. /\ ~Idle /\ todo[1].op = "escalate" /\ Head(todo) = todo[1] /\ todo[1].n \in {0} \cup Tasks
      /\ job \notin {"Ready", "Stalled"} /\ todo[1].of \in Reasons
  <2>1. ~Idle /\ todo[1].op = "escalate" /\ Head(todo) = todo[1] /\ ChoreTyped(todo[1])
    BY InHand DEF Escalate
  <2> QED
    BY <2>1 DEF ChoreTyped
<1>3. SliceTyped' /\ KindTyped /\ TodoTyped /\ JobTyped
  BY DropSlice DEF Escalate, TypeOK
<1>4. CASE job \in {"Work", "Evaluation"}
  <2>1. /\ job' = "Escalated" /\ esc' = [why |-> todo[1].of, failing |-> todo[1].n]
        /\ Then(Do("inbox", 0, 0, "none"))
    BY <1>2, <1>4 DEF Escalate
  <2>2. todo[1].of \in Names \cup Reasons \cup {"none"}
    BY <1>2
  <2>3. JobTyped' /\ Unstarted'
    BY <1>1, <1>2, <1>3, <2>1, <2>2 DEF JobTyped, Unstarted, Escalate
  <2>4. \A x \in Rest : ChoreTyped(x)'
    BY <1>1, <1>2, <2>1, RestQuiet
  <2>5. PICK x : x = [op |-> "inbox", cycle |-> 0, n |-> 0, of |-> "none"]
    OBVIOUS
  <2>6. ChoreTyped(x)' /\ "inbox" \in Ops
    BY <2>5 DEF ChoreTyped, Ops
  <2>7. TodoTyped'
    BY <1>2, <1>3, <2>1, <2>4, <2>5, <2>6, ThenOne
  <2> QED
    BY <1>1, <1>3, <2>3, <2>7 DEF TypeOK
<1>5. CASE job \notin {"Work", "Evaluation"}
  <2>1. UNCHANGED <<job, esc>> /\ todo' = <<>>
    BY <1>5 DEF Escalate
  <2>2. JobTyped' /\ Unstarted'
    BY <1>1, <1>2, <1>3, <2>1 DEF JobTyped, Unstarted, Escalate
  <2> QED
    BY <1>1, <1>3, <2>1, <2>2, NoneLeft DEF TypeOK
<1> QED
  BY <1>4, <1>5

LEMMA FillInboxTyped ==
    ASSUME TypeOK, FillInbox
    PROVE  TypeOK'
<1>1. KindTyped /\ JobTyped /\ LogTyped /\ SliceTyped /\ TodoTyped /\ Unstarted
      /\ KindTyped' /\ Evaluators' = Evaluators /\ Stages' = Stages
  BY SameStages DEF TypeOK, FillInbox, KindTyped
<1>2. ~Idle /\ todo[1].op = "inbox"
  BY InHand DEF FillInbox
<1>3. PICK r : r = NewTask("Escalation", esc.why, TopCycle, 1, "Pending")
  OBVIOUS
<1>4. Create(r)
  BY <1>3 DEF FillInbox
<1>5. r \in TaskRecords /\ TaskTyped(r) /\ r.by = 0 /\ r.phase = "Escalation" /\ r.cycle = TopCycle
  <2>1. PICK why \in Names \cup Reasons \cup {"none"}, c \in Nat \ {0} : why = esc.why /\ c = TopCycle
    BY <1>1, TopCycleIs DEF JobTyped
  <2>2. /\ "Escalation" \in {"Work", "Evaluation", "Escalation"} /\ 1 \in Nat
        /\ "Pending" \in {"Pending", "Running"}
    OBVIOUS
  <2>3. /\ NewTask("Escalation", why, c, 1, "Pending") \in TaskRecords
        /\ TaskTyped(NewTask("Escalation", why, c, 1, "Pending"))
        /\ NewTask("Escalation", why, c, 1, "Pending") =
              [phase |-> "Escalation", about |-> why, cycle |-> c, attempt |-> 1, st |-> "Pending",
               cid |-> FALSE, loss |-> FALSE, verdict |-> "none", by |-> 0, tip |-> 0]
    BY <1>1, <2>2, NewTaskIs
  <2> QED
    BY <1>3, <2>1, <2>3
<1>6. /\ LogTyped' /\ Grows /\ Tasks' = Tasks \cup {Len(log) + 1} /\ Len(log) \in Nat
      /\ log'[Len(log) + 1] = r /\ \A u \in Tasks : log'[u] = log[u]
  BY <1>1, <1>4, <1>5, AddTask DEF FillInbox
<1>7. SliceTyped' /\ JobTyped'
  BY <1>1, <1>6, KeepSlice DEF FillInbox, SliceTyped, JobTyped
<1>8. Unstarted'
  <2>1. ASSUME job \in {"Ready", "Stalled"} PROVE TopCycle = 1
    BY <1>1, <2>1, TopCycleIs DEF Unstarted
  <2>2. ASSUME job' \in {"Ready", "Stalled"}
        PROVE  slice' = None /\ \A t \in Tasks' : log'[t].phase = "Escalation" /\ log'[t].cycle = 1
    <3>1. job \in {"Ready", "Stalled"} /\ slice' = slice
      BY <2>2 DEF FillInbox
    <3>2. slice = None /\ \A t \in Tasks : log[t].phase = "Escalation" /\ log[t].cycle = 1
      BY <1>1, <3>1 DEF Unstarted
    <3> QED
      BY <1>5, <1>6, <2>1, <3>1, <3>2
  <2> QED
    BY <2>2 DEF Unstarted
<1>9. \A x \in Rest : ChoreTyped(x)'
  BY <1>2, <1>6, RestQuiet DEF FillInbox
<1>10. TodoTyped'
  BY <1>1, <1>9, ThenNone DEF FillInbox
<1> QED
  BY <1>1, <1>6, <1>7, <1>8, <1>10 DEF TypeOK

\* The attempt that a Retry makes is the next.
LEMMA NextAttempt ==
    ASSUME LogTyped, NEW c
    PROVE  Max({0} \cup {log[t].attempt : t \in WorkTasks(c)}) \in Nat
           /\ \A t \in WorkTasks(c) : log[t].attempt <= Max({0} \cup {log[u].attempt : u \in WorkTasks(c)})
<1> DEFINE S == {0} \cup {log[t].attempt : t \in WorkTasks(c)}
<1>1. \A t \in Tasks : log[t].attempt \in Nat
  BY TasksAre DEF TaskRecords
<1>2. PICK b \in Nat : \A t \in Tasks : log[t].attempt <= b
  <2> DEFINE f == [t \in Tasks |-> log[t].attempt]
  <2>1. \A t \in 1..Len(log) : f[t] \in Nat
    BY <1>1, TasksAre
  <2>2. \E b \in Nat : \A t \in 1..Len(log) : f[t] <= b
    BY <2>1, TasksAre, Bounded
  <2> QED
    BY <2>2, TasksAre
<1>3. WorkTasks(c) \subseteq Tasks
  BY DEF WorkTasks, Lineage
<1>4. S \in SUBSET Nat /\ S # {} /\ \A x \in S : x <= b
  BY <1>1, <1>2, <1>3
<1>5. \A t \in WorkTasks(c) : log[t].attempt \in S
  OBVIOUS
<1> HIDE DEF S
<1>6. Max(S) \in S /\ \A x \in S : x <= Max(S)
  BY <1>4, Greatest
<1>7. Max(S) \in Nat /\ \A t \in WorkTasks(c) : log[t].attempt <= Max(S)
  BY <1>4, <1>5, <1>6
<1> QED
  BY <1>7 DEF S

LEMMA RetryTyped ==
    ASSUME TypeOK, Retry
    PROVE  TypeOK'
<1>1. LogTyped' /\ Grows /\ Tasks' = Tasks /\ Evaluators' = Evaluators /\ Stages' = Stages /\ KindTyped'
  BY SameLog DEF Retry, TypeOK, LogTyped
<1>2. KindTyped /\ SliceTyped /\ TodoTyped /\ LogTyped
  BY DEF TypeOK
<1>3. ~Idle /\ todo[1].op = "retry" /\ job = "Escalated"
  <2>1. ~Idle /\ todo[1].op = "retry" /\ ChoreTyped(todo[1])
    BY InHand DEF Retry
  <2> QED
    BY <2>1 DEF ChoreTyped
<1>4. job' \in {"Escalated", "Work"} /\ slice' = Ensured
  BY <1>3 DEF Retry
<1>5. JobTyped' /\ Unstarted'
  BY <1>1, <1>4 DEF Retry, TypeOK, JobTyped, Unstarted
<1>6. SliceTyped' /\ slice' # None
  <2>1. ~Rounding
    BY <1>2, <1>3 DEF SliceTyped
  <2> QED
    BY <1>1, <1>2, <1>4, <2>1, EnsuredIs DEF SliceTyped, Rounding
<1>7. \A x \in Rest : ChoreTyped(x)'
  BY <1>1, <1>3, <1>4, RestQuiet
<1>8. ASSUME Then(Do("evaluate", 0, 0, "none")) PROVE TodoTyped'
  <2>1. PICK x : x = [op |-> "evaluate", cycle |-> 0, n |-> 0, of |-> "none"]
    OBVIOUS
  <2>2. ChoreTyped(x)' /\ "evaluate" \in Ops
    BY <1>4, <1>6, <2>1 DEF ChoreTyped, Ops
  <2> QED
    BY <1>2, <1>3, <1>7, <1>8, <2>1, <2>2, ThenOne
<1>9. ASSUME NEW c \in Nat \ {0}, NEW n \in Nat, Then(Do("attempt", c, n, "none")) PROVE TodoTyped'
  <2>1. PICK x : x = [op |-> "attempt", cycle |-> c, n |-> n, of |-> "none"]
    OBVIOUS
  <2>2. ChoreTyped(x)' /\ "attempt" \in Ops
    BY <1>4, <1>9, <2>1 DEF ChoreTyped, Ops
  <2> QED
    BY <1>2, <1>3, <1>7, <1>9, <2>1, <2>2, ThenOne
<1>10. CASE RetryPhase
  BY <1>1, <1>5, <1>6, <1>8, <1>10 DEF Retry, TypeOK
<1>11. CASE ~RetryPhase
  <2>1. PICK c \in Nat \ {0} : c = Ensured.cycle
    BY <1>2, EnsuredIs
  <2>2. PICK m \in Nat : m = Max({0} \cup {log[t].attempt : t \in WorkTasks(c)})
    BY <1>2, NextAttempt
  <2>3. PICK n \in Nat : n = m + 1
    OBVIOUS
  <2>4. Then(Do("attempt", c, n, "none"))
    BY <1>11, <2>1, <2>2, <2>3 DEF Retry
  <2> QED
    BY <1>1, <1>5, <1>6, <1>9, <2>4 DEF TypeOK
<1> QED
  BY <1>10, <1>11

LEMMA PreworkRetryTyped ==
    ASSUME TypeOK, PreworkRetry
    PROVE  TypeOK'
<1>1. LogTyped' /\ Grows /\ Tasks' = Tasks /\ Evaluators' = Evaluators /\ Stages' = Stages /\ KindTyped'
  BY SameLog DEF PreworkRetry, TypeOK, LogTyped
<1>2. KindTyped /\ SliceTyped /\ TodoTyped /\ LogTyped /\ Unstarted
  BY DEF TypeOK
<1>3. ~Idle /\ todo[1].op = "prework" /\ job = "Stalled"
  <2>1. ~Idle /\ todo[1].op = "prework" /\ ChoreTyped(todo[1])
    BY InHand DEF PreworkRetry
  <2> QED
    BY <2>1 DEF ChoreTyped
<1>4. job' \in {"Ready", "Stalled"} /\ slice' = slice /\ slice = None /\ log' = log
  BY <1>2, <1>3 DEF PreworkRetry, Unstarted
<1>5. JobTyped' /\ Unstarted' /\ SliceTyped'
  BY <1>1, <1>2, <1>3, <1>4, DropSlice DEF PreworkRetry, TypeOK, JobTyped, Unstarted
<1>6. \A x \in Rest : ChoreTyped(x)'
  BY <1>1, <1>3, <1>4, RestQuiet
<1>7. CASE Then(<<>>)
  BY <1>1, <1>2, <1>5, <1>6, <1>7, ThenNone DEF TypeOK
<1>8. CASE Then(Do("inbox", 0, 0, "none"))
  <2>1. PICK x : x = [op |-> "inbox", cycle |-> 0, n |-> 0, of |-> "none"]
    OBVIOUS
  <2>2. ChoreTyped(x)' /\ "inbox" \in Ops
    BY <2>1 DEF ChoreTyped, Ops
  <2>3. TodoTyped'
    BY <1>2, <1>3, <1>6, <1>8, <2>1, <2>2, ThenOne
  <2> QED
    BY <1>1, <1>5, <2>3 DEF TypeOK
<1> QED
  BY <1>7, <1>8 DEF PreworkRetry

\* The inbox of the job is closed, and nothing else changes of the log.
LEMMA InboxClosed ==
    ASSUME KindTyped, LogTyped, Evaluators' = Evaluators,
           log' = [t \in Tasks |-> IF Pending(t)
                     THEN [log[t] EXCEPT !.st = "Done", !.verdict = "closed"] ELSE log[t]],
           box' \in Seq(Boxes), Len(box') = Len(box), watched' \subseteq Tasks
    PROVE  LogTyped' /\ Grows /\ Tasks' = Tasks /\ Len(log') = Len(log)
           /\ \A t \in Tasks : log'[t] = IF Pending(t)
                THEN [log[t] EXCEPT !.st = "Done", !.verdict = "closed"] ELSE log[t]
<1> DEFINE g == [t \in Tasks |-> IF Pending(t)
                  THEN [log[t] EXCEPT !.st = "Done", !.verdict = "closed"] ELSE log[t]]
<1>1. ASSUME NEW t \in Tasks
      PROVE  /\ g[t] \in TaskRecords /\ g[t].phase = log[t].phase /\ TaskTyped(g[t])
  <2>1. log[t] \in TaskRecords /\ TaskTyped(log[t])
    BY TasksAre DEF LogTyped
  <2>2. CASE Pending(t)
    <3>1. PICK r : r = [log[t] EXCEPT !.st = "Done", !.verdict = "closed"]
      OBVIOUS
    <3>2. r \in TaskRecords /\ r.phase = log[t].phase /\ r.about = log[t].about /\ r.by = log[t].by
      BY <2>1, <3>1 DEF TaskRecords
    <3>3. TaskTyped(r)
      BY <2>1, <2>2, <3>2 DEF TaskTyped, Pending
    <3>4. g[t] = r
      BY <2>2, <3>1
    <3> QED
      BY <3>2, <3>3, <3>4
  <2>3. CASE ~Pending(t)
    BY <2>1, <2>3
  <2> QED
    BY <2>2, <2>3
<1>2. log' = [t \in Tasks |-> g[t]]
  OBVIOUS
<1>3. \A t \in Tasks : log'[t] = IF Pending(t)
        THEN [log[t] EXCEPT !.st = "Done", !.verdict = "closed"] ELSE log[t]
  OBVIOUS
<1> HIDE DEF g
<1>4. LogTyped' /\ Grows /\ Tasks' = Tasks /\ Len(log') = Len(log)
  BY <1>1, <1>2, MapLog
<1> QED
  BY <1>3, <1>4

LEMMA RevokeJobTyped ==
    ASSUME TypeOK, RevokeJob
    PROVE  TypeOK'
<1>1. KindTyped /\ JobTyped /\ LogTyped /\ SliceTyped /\ TodoTyped /\ Unstarted
      /\ KindTyped' /\ Evaluators' = Evaluators /\ Stages' = Stages
  BY SameStages DEF TypeOK, RevokeJob, KindTyped
<1>2. ~Idle /\ Head(todo) = todo[1] /\ todo[1].op = "revoke"
  BY InHand DEF RevokeJob
<1>3. box' \in Seq(Boxes) /\ Len(box') = Len(box) /\ watched' \subseteq Tasks /\ slice' = None
  <2>1. box' = Kill(Stamped) /\ watched' = watched /\ slice' = None
    BY DEF RevokeJob
  <2> QED
    BY <1>1, <2>1, KilledBoxes DEF LogTyped
<1>4. SliceTyped'
  BY <1>3, DropSlice
<1>5. CASE \E t \in Tasks : Pending(t)
  <2>1. /\ log' = [t \in Tasks |-> IF Pending(t)
                     THEN [log[t] EXCEPT !.st = "Done", !.verdict = "closed"] ELSE log[t]]
        /\ UNCHANGED <<job, todo>>
    BY <1>5 DEF RevokeJob
  <2>2. LogTyped' /\ Grows /\ Tasks' = Tasks
        /\ \A t \in Tasks : log'[t] = IF Pending(t)
             THEN [log[t] EXCEPT !.st = "Done", !.verdict = "closed"] ELSE log[t]
    BY <1>1, <1>3, <2>1, InboxClosed
  <2>3. \A t \in Tasks : log'[t].phase = log[t].phase /\ log'[t].cycle = log[t].cycle
    <3>1. \A t \in Tasks : log[t] \in TaskRecords
      BY <1>1, TasksAre
    <3> QED
      BY <2>2, <3>1 DEF TaskRecords
  <2>4. JobTyped' /\ Unstarted'
    BY <1>1, <1>3, <2>1, <2>2, <2>3 DEF RevokeJob, JobTyped, Unstarted
  <2>5. \A x \in Rest : ChoreTyped(x)'
    BY <1>2, <2>1, <2>2, RestQuiet
  <2>6. TodoTyped'
    <3>1. Left' = Left /\ InOrder'
      BY <1>1, <2>1 DEF Left, InOrder, TodoTyped
    <3>2. \A x \in Left : x = todo[1] \/ x \in Rest
      <4>1. DOMAIN todo = 1..Len(todo) /\ Len(todo) \in Nat \ {0}
        BY <1>1, <1>2, HeadIs
      <4>2. \A i \in DOMAIN todo : i = 1 \/ i \in 2..Len(todo)
        BY <4>1
      <4> QED
        BY <4>2 DEF Left, Rest
    <3>3. ASSUME NEW x, x = todo[1] PROVE ChoreTyped(x)'
      BY <1>2, <3>3 DEF ChoreTyped
    <3> QED
      BY <1>1, <2>1, <2>5, <3>1, <3>2, <3>3 DEF TodoTyped
  <2> QED
    BY <1>1, <1>4, <2>2, <2>4, <2>6 DEF TypeOK
<1>6. CASE ~(\E t \in Tasks : Pending(t))
  <2>1. job' = "Revoked" /\ log' = log /\ Then(<<>>)
    BY <1>6 DEF RevokeJob
  <2>2. LogTyped' /\ Grows /\ Tasks' = Tasks
    BY <1>1, <1>3, <2>1, KeepLog
  <2>3. JobTyped' /\ Unstarted'
    BY <1>1, <2>1, <2>2 DEF RevokeJob, JobTyped, Unstarted
  <2>4. \A x \in Rest : ChoreTyped(x)'
    BY <1>2, <2>1, <2>2, RestQuiet
  <2>5. TodoTyped'
    BY <1>1, <2>1, <2>4, ThenNone
  <2> QED
    BY <1>1, <1>4, <2>2, <2>3, <2>5 DEF TypeOK
<1> QED
  BY <1>5, <1>6

LEMMA RebuildTyped ==
    ASSUME TypeOK, Rebuild
    PROVE  TypeOK'
<1>1. LogTyped' /\ Grows /\ Tasks' = Tasks /\ Evaluators' = Evaluators /\ Stages' = Stages /\ KindTyped'
  BY SameLog DEF Rebuild, TypeOK, LogTyped
<1>2. KindTyped /\ SliceTyped /\ TodoTyped /\ LogTyped
  BY DEF TypeOK
<1>3. /\ ~Idle /\ todo[1].op = "rebuild" /\ Head(todo) = todo[1] /\ todo[1].cycle \in Nat
      /\ slice # None /\ todo[1].cycle = slice.cycle /\ Stages # <<>> /\ job = "Evaluation"
  <2>1. ~Idle /\ todo[1].op = "rebuild" /\ Head(todo) = todo[1] /\ ChoreTyped(todo[1])
        /\ todo[1].cycle \in Nat
    BY InHand DEF Rebuild
  <2> QED
    BY <2>1 DEF ChoreTyped
<1>4. PICK round : round = RoundFromLog(todo[1].cycle)
  OBVIOUS
<1>5. round \in Rounds(Evaluators) /\ round # None /\ round.stage \in 1..Len(Stages)
  BY <1>2, <1>3, <1>4, RoundFromLogIs
<1>6. slice' = [slice EXCEPT !.round = round]
  BY <1>3, <1>4 DEF Rebuild
<1>7. /\ slice' \in Slices(Evaluators) /\ slice' # None /\ slice'.round = round
      /\ slice'.cycle = slice.cycle /\ slice'.sub = slice.sub
  BY <1>2, <1>3, <1>5, <1>6, RoundSet
<1>8. SliceTyped' /\ job' = job
  BY <1>1, <1>2, <1>3, <1>5, <1>7 DEF SliceTyped, Rounding, Rebuild
<1>9. JobTyped' /\ Unstarted'
  BY <1>1, <1>3, <1>8 DEF Rebuild, TypeOK, JobTyped, Unstarted
<1>10. \A x \in Rest : ChoreTyped(x)'
  BY <1>1, <1>3, <1>7, <1>8, RestBusy DEF Rebuild
<1>11. TodoTyped'
  BY <1>2, <1>10, ThenNone DEF Rebuild
<1> QED
  BY <1>1, <1>8, <1>9, <1>11 DEF TypeOK

LEMMA SweepTyped ==
    ASSUME TypeOK, Sweep
    PROVE  TypeOK'
<1>1. KindTyped /\ JobTyped /\ LogTyped /\ SliceTyped /\ TodoTyped /\ Unstarted
      /\ KindTyped' /\ Evaluators' = Evaluators /\ Stages' = Stages
  BY SameStages DEF TypeOK, Sweep, KindTyped
<1>2. ~Idle /\ todo[1].op = "sweep"
  BY InHand DEF Sweep
<1>3. box' \in Seq(Boxes) /\ Len(box') = Len(box) /\ watched' \subseteq Tasks
  <2>1. box' = Kill({t \in Tasks : log[t].st # "Running"}) \/ box' = box
    BY DEF Sweep
  <2>2. watched' = watched
    BY DEF Sweep
  <2> QED
    BY <1>1, <2>1, <2>2, KilledBoxes DEF LogTyped
<1>4. LogTyped' /\ Grows /\ Tasks' = Tasks
  BY <1>1, <1>3, KeepLog DEF Sweep
<1>5. SliceTyped' /\ JobTyped' /\ Unstarted'
  BY <1>1, <1>4, KeepSlice DEF Sweep, SliceTyped, JobTyped, Unstarted
<1>6. \A x \in Rest : ChoreTyped(x)'
  BY <1>2, <1>4, RestQuiet DEF Sweep
<1>7. TodoTyped'
  BY <1>1, <1>6, ThenNone DEF Sweep
<1> QED
  BY <1>1, <1>4, <1>5, <1>7 DEF TypeOK

\* What is left of an evaluation: the tasks never created are launched, the round
\* is read from the log, and what runs is attached to, or the round is settled.
LEMMA RecoverEvaluationIs ==
    ASSUME KindTyped, LogTyped, Stages # <<>>, NEW c \in Nat,
           NEW l, l = RecoverEvaluation(c)
    PROVE  /\ l \in Seq(Chores) /\ Ordered(l)
           /\ \A x \in ToSet(l) :
                \/ \E ev \in Stages[RoundFromLog(c).stage] :
                     /\ x = [op |-> "launch", cycle |-> 0, n |-> 1, of |-> ev]
                     /\ Latest(Lineage("Evaluation", c, ev)) = 0
                \/ x = [op |-> "rebuild", cycle |-> c, n |-> 0, of |-> "none"]
                \/ \E ev \in Stages[RoundFromLog(c).stage] : \E t \in Tasks :
                     /\ x = [op |-> "attach", cycle |-> 0, n |-> t, of |-> "none"]
                     /\ t = Latest(Lineage("Evaluation", c, ev)) /\ log[t].st = "Running"
                     /\ log[t].phase = "Evaluation" /\ log[t].cycle = c /\ log[t].about = ev
                \/ x = [op |-> "settle", cycle |-> 0, n |-> 0, of |-> "none"]
           /\ \A ev \in Stages[RoundFromLog(c).stage] :
                Latest(Lineage("Evaluation", c, ev)) = 0 =>
                  [op |-> "launch", cycle |-> 0, n |-> 1, of |-> ev] \in ToSet(l)
           /\ [op |-> "rebuild", cycle |-> c, n |-> 0, of |-> "none"] \in ToSet(l)
<1> DEFINE last(ev) == Latest(Lineage("Evaluation", c, ev))
           evs == Stages[RoundFromLog(c).stage]
           new == {ev \in evs : last(ev) = 0}
           live == {e \in evs : last(e) # 0 /\ log[last(e)].st = "Running"}
           running == {last(ev) : ev \in live}
           over == \A ev \in evs : last(ev) # 0 /\ log[last(ev)].st \in {"Done", "Failed"}
           q1 == Launches(new, 1)
           q2 == Do("rebuild", c, 0, "none")
           q3 == Attaches(running)
           q4 == IF over THEN Do("settle", 0, 0, "none") ELSE <<>>
<1>1. l = q1 \o q2 \o q3 \o q4
  BY Zenon DEF RecoverEvaluation
<1>2. evs \subseteq Evaluators /\ evs \subseteq Names /\ IsFiniteSet(evs)
  <2>1. RoundFromLog(c).stage \in 1..Len(Stages)
    BY RoundFromLogIs
  <2>2. PICK i \in 1..Len(Stages) : i = RoundFromLog(c).stage
    BY <2>1
  <2>3. Stages[i] \subseteq Evaluators /\ Evaluators \subseteq Names /\ IsFiniteSet(Stages[i])
    BY EvaluatorsAre
  <2> QED
    BY <2>2, <2>3
<1>3. \A ev \in evs : last(ev) \in {0} \cup Tasks
        /\ (last(ev) # 0 => last(ev) \in Lineage("Evaluation", c, ev))
  BY LineageIs
<1> HIDE DEF last, evs
<1>4. new \subseteq evs /\ live \subseteq evs
  OBVIOUS
<1>5. running \subseteq Tasks /\ running \subseteq Nat /\ IsFiniteSet(running)
  <2>1. running \subseteq Tasks
    BY <1>3
  <2>2. Tasks = 1..Len(log) /\ Len(log) \in Nat
    BY TasksAre
  <2>3. IsFiniteSet(1..Len(log)) /\ 1..Len(log) \subseteq Nat
    BY <2>2, FS_Interval
  <2> HIDE DEF running
  <2>4. IsFiniteSet(running)
    BY <2>1, <2>2, <2>3, FS_Subset
  <2> QED
    BY <2>1, <2>2, <2>3, <2>4
<1>6. \A t \in running : \E ev \in evs :
        /\ t = last(ev) /\ log[t].st = "Running" /\ log[t].phase = "Evaluation"
        /\ log[t].cycle = c /\ log[t].about = ev
  BY <1>3 DEF Lineage
<1>7. over => running = {}
  <2>1. over => live = {}
    OBVIOUS
  <2> HIDE DEF over, live
  <2> QED
    BY <2>1
<1>8. \A ev \in new : last(ev) = 0
  OBVIOUS
<1>9. \A ev \in evs : last(ev) = 0 => ev \in new
  OBVIOUS
<1> HIDE DEF new, live, running, over
<1>10. /\ q1 \in Seq(Chores) /\ Ordered(q1)
       /\ \A x \in ToSet(q1) : \E ev \in new : x = [op |-> "launch", cycle |-> 0, n |-> 1, of |-> ev]
       /\ \A ev \in new : [op |-> "launch", cycle |-> 0, n |-> 1, of |-> ev] \in ToSet(q1)
  <2>1. new \in SUBSET Names /\ IsFiniteSet(new) /\ 1 \in Nat
    BY <1>2, <1>4, FS_Subset
  <2> QED
    BY <2>1, LaunchesAre
<1>11. /\ q2 \in Seq(Chores) /\ Ordered(q2)
       /\ ToSet(q2) = {[op |-> "rebuild", cycle |-> c, n |-> 0, of |-> "none"]}
  <2>1. PICK x : x = [op |-> "rebuild", cycle |-> c, n |-> 0, of |-> "none"]
    OBVIOUS
  <2>2. q2 = <<x>> /\ x \in Chores
    BY <2>1 DEF Do, Chores, Ops
  <2> HIDE DEF q2
  <2>3. q2 \in Seq(Chores) /\ ToSet(q2) = {x} /\ Ordered(q2)
    BY <2>2, Single
  <2> QED
    BY <2>1, <2>3
<1>12. /\ q3 \in Seq(Chores) /\ Ordered(q3)
       /\ \A x \in ToSet(q3) :
            \E t \in running : x = [op |-> "attach", cycle |-> 0, n |-> t, of |-> "none"]
  BY <1>5, AttachesAre
<1>13. /\ q4 \in Seq(Chores) /\ Ordered(q4)
       /\ \A x \in ToSet(q4) : over /\ x = [op |-> "settle", cycle |-> 0, n |-> 0, of |-> "none"]
  <2>1. CASE over
    <3>1. PICK x : x = [op |-> "settle", cycle |-> 0, n |-> 0, of |-> "none"]
      OBVIOUS
    <3>2. q4 = <<x>> /\ x \in Chores
      BY <2>1, <3>1 DEF Do, Chores, Ops
    <3> HIDE DEF q4
    <3>3. q4 \in Seq(Chores) /\ ToSet(q4) = {x} /\ Ordered(q4)
      BY <3>2, Single
    <3> QED
      BY <2>1, <3>1, <3>3
  <2>2. CASE ~over
    <3>1. q4 = <<>>
      BY <2>2
    <3> HIDE DEF q4
    <3> QED
      BY <3>1, NoChore
  <2> QED
    BY <2>1, <2>2
<1> HIDE DEF q1, q2, q3, q4
<1>14. PICK a : a = q1 \o q2
  OBVIOUS
<1>15. \A x \in ToSet(q1), y \in ToSet(q2) : x.op = "launch" /\ y.op = "rebuild"
  BY <1>10, <1>11
<1>16. /\ a \in Seq(Chores) /\ Ordered(a)
       /\ \A x \in ToSet(a) : x \in ToSet(q1) \/ x \in ToSet(q2)
       /\ \A x \in ToSet(q1) \cup ToSet(q2) : x \in ToSet(a)
  <2>1. \A x \in ToSet(q1), y \in ToSet(q2) : x.op \in Before(y.op)
    BY <1>15 DEF Before
  <2> QED
    BY <1>10, <1>11, <1>14, <2>1, Joined
<1>17. PICK b : b = a \o q3
  OBVIOUS
<1>18. /\ b \in Seq(Chores) /\ Ordered(b)
       /\ \A x \in ToSet(b) : x \in ToSet(a) \/ x \in ToSet(q3)
       /\ \A x \in ToSet(a) \cup ToSet(q3) : x \in ToSet(b)
  <2>1. \A x \in ToSet(a), y \in ToSet(q3) : x.op \in {"launch", "rebuild"} /\ y.op = "attach"
    BY <1>12, <1>15, <1>10, <1>11, <1>16
  <2>2. \A x \in ToSet(a), y \in ToSet(q3) : x.op \in Before(y.op)
    BY <2>1 DEF Before, Ops
  <2> QED
    BY <1>12, <1>16, <1>17, <2>2, Joined
<1>19. /\ b \o q4 \in Seq(Chores) /\ Ordered(b \o q4)
       /\ \A x \in ToSet(b \o q4) : x \in ToSet(b) \/ x \in ToSet(q4)
       /\ \A x \in ToSet(b) \cup ToSet(q4) : x \in ToSet(b \o q4)
  <2>1. ASSUME NEW x \in ToSet(b), NEW y \in ToSet(q4)
        PROVE  x.op \in {"launch", "rebuild"} /\ y.op = "settle"
    <3>1. over /\ y.op = "settle"
      BY <1>13
    <3>2. \A z \in ToSet(q3) : FALSE
      BY <1>7, <1>12, <3>1
    <3> QED
      BY <1>10, <1>11, <1>16, <1>18, <3>1, <3>2
  <2>2. \A x \in ToSet(b), y \in ToSet(q4) : x.op \in Before(y.op)
    BY <2>1 DEF Before
  <2> QED
    BY <1>13, <1>18, <2>2, Joined
<1>20. l = b \o q4
  BY <1>1, <1>14, <1>17
<1>21. \A x \in ToSet(l) : x \in ToSet(q1) \/ x \in ToSet(q2) \/ x \in ToSet(q3) \/ x \in ToSet(q4)
  BY <1>16, <1>18, <1>19, <1>20
<1>22. \A x \in ToSet(q1) \cup ToSet(q2) : x \in ToSet(l)
  BY <1>16, <1>18, <1>19, <1>20
<1>23. ASSUME NEW x \in ToSet(l)
       PROVE  \/ \E ev \in evs : /\ x = [op |-> "launch", cycle |-> 0, n |-> 1, of |-> ev]
                                 /\ last(ev) = 0
              \/ x = [op |-> "rebuild", cycle |-> c, n |-> 0, of |-> "none"]
              \/ \E ev \in evs : \E t \in Tasks :
                   /\ x = [op |-> "attach", cycle |-> 0, n |-> t, of |-> "none"]
                   /\ t = last(ev) /\ log[t].st = "Running" /\ log[t].phase = "Evaluation"
                   /\ log[t].cycle = c /\ log[t].about = ev
              \/ x = [op |-> "settle", cycle |-> 0, n |-> 0, of |-> "none"]
  <2>1. CASE x \in ToSet(q1)
    <3>1. PICK ev \in new : x = [op |-> "launch", cycle |-> 0, n |-> 1, of |-> ev]
      BY <1>10, <2>1
    <3> QED
      BY <1>4, <1>8, <3>1
  <2>2. CASE x \in ToSet(q2)
    BY <1>11, <2>2
  <2>3. CASE x \in ToSet(q3)
    <3>1. PICK t \in running : x = [op |-> "attach", cycle |-> 0, n |-> t, of |-> "none"]
      BY <1>12, <2>3
    <3>2. t \in Tasks
      BY <1>5
    <3> QED
      BY <1>6, <3>1, <3>2
  <2>4. CASE x \in ToSet(q4)
    BY <1>13, <2>4
  <2> QED
    BY <1>21, <2>1, <2>2, <2>3, <2>4
<1>24. \A ev \in evs : last(ev) = 0 => [op |-> "launch", cycle |-> 0, n |-> 1, of |-> ev] \in ToSet(l)
  BY <1>9, <1>10, <1>22
<1>25. [op |-> "rebuild", cycle |-> c, n |-> 0, of |-> "none"] \in ToSet(l)
  BY <1>11, <1>22
<1>26. l \in Seq(Chores) /\ Ordered(l)
  BY <1>19, <1>20
<1> QED
  BY <1>23, <1>24, <1>25, <1>26 DEF evs, last

\* What a restart leads to.
LEMMA RecoverIs ==
    ASSUME TypeOK, Recover
    PROVE  \/ Then(<<>>)
           \/ job \in {"Escalated", "Stalled"} /\ Then(Do("inbox", 0, 0, "none"))
           \/ /\ job = "Work" /\ slice' = Rebuilt
              /\ \/ \E n \in Nat : Then(Do("attempt", TopCycle, n, "none"))
                 \/ \E t \in Tasks : Then(Do("escalate", 0, t, "work"))
                 \/ \E t \in Tasks : /\ Then(Do("attach", 0, t, "none"))
                                     /\ log[t].phase = "Work" /\ log[t].st = "Running"
                                     /\ log[t].cycle = TopCycle /\ t = Latest(WorkTasks(TopCycle))
                 \/ Then(Do("evaluate", 0, 0, "none"))
           \/ /\ job = "Evaluation" /\ slice' = Rebuilt
              /\ \/ Stages = <<>> /\ Then(Do("finalize", 0, 0, "none"))
                 \/ Stages # <<>> /\ Then(RecoverEvaluation(TopCycle))
<1>1. KindTyped /\ LogTyped
  BY DEF TypeOK
<1>2. Rebuilt.cycle = TopCycle
  BY <1>1, RebuiltIs
<1>3. CASE job = "Work"
  <2> DEFINE last == Latest(WorkTasks(TopCycle))
  <2>1. slice' = Rebuilt /\ Then(RecoverWork(TopCycle))
    BY <1>2, <1>3 DEF Recover
  <2>2. last \in {0} \cup Tasks /\ (last # 0 => last \in WorkTasks(TopCycle))
    BY <1>1, LineageIs DEF WorkTasks
  <2> HIDE DEF last
  <2>3. CASE last = 0
    <3>1. RecoverWork(TopCycle) = Do("attempt", TopCycle, 1, "none")
      BY <2>3 DEF RecoverWork, last
    <3> QED
      BY <1>3, <2>1, <3>1
  <2>4. CASE last # 0
    <3>1. PICK t \in Tasks : t = last
      BY <2>2, <2>4
    <3>2. log[t] \in TaskRecords /\ log[t].phase = "Work" /\ log[t].cycle = TopCycle
      BY <1>1, <2>2, <2>4, <3>1, TasksAre DEF WorkTasks, Lineage
    <3>3. RecoverWork(TopCycle) =
            CASE log[t].st = "Pending" -> <<>>
              [] log[t].st = "Running" -> Do("attach", 0, t, "none")
              [] log[t].st = "Done"    -> Do("evaluate", 0, 0, "none")
              [] log[t].st = "Failed"  -> RetryWork(t)
      BY <2>4, <3>1, Zenon DEF RecoverWork, last
    <3>4. log[t].st \in {"Pending", "Running", "Done", "Failed"}
      BY <3>2 DEF TaskRecords
    <3>5. CASE log[t].st = "Pending"
      BY <2>1, <3>3, <3>5
    <3>6. CASE log[t].st = "Running"
      <4>1. RecoverWork(TopCycle) = Do("attach", 0, t, "none")
        BY <3>3, <3>6
      <4> QED
        BY <1>3, <2>1, <3>1, <3>2, <3>6, <4>1 DEF last
    <3>7. CASE log[t].st = "Done"
      <4>1. RecoverWork(TopCycle) = Do("evaluate", 0, 0, "none")
        BY <3>3, <3>7
      <4> QED
        BY <1>3, <2>1, <4>1
    <3>8. CASE log[t].st = "Failed"
      <4>1. RecoverWork(TopCycle) = RetryWork(t)
        BY <3>3, <3>8
      <4> QED
        BY <1>1, <1>3, <2>1, <3>2, <4>1, RetryIs
    <3> QED
      BY <3>4, <3>5, <3>6, <3>7, <3>8
  <2> QED
    BY <2>3, <2>4
<1>4. CASE job = "Evaluation"
  <2>1. slice' = Rebuilt /\ Then(RecoverEvaluation(TopCycle))
    BY <1>2, <1>4 DEF Recover
  <2>2. Stages = <<>> => RecoverEvaluation(TopCycle) = Do("finalize", 0, 0, "none")
    BY Zenon DEF RecoverEvaluation
  <2> QED
    BY <1>4, <2>1, <2>2
<1>5. CASE job \notin {"Work", "Evaluation"}
  <2> DEFINE inbox == \E t \in Tasks : log[t].phase = "Escalation" /\ Pending(t)
  <2>1. CASE job \in {"Escalated", "Stalled"} /\ ~inbox
    <3>1. Then(Do("inbox", 0, 0, "none"))
      BY <1>5, <2>1 DEF Recover
    <3> QED
      BY <2>1, <3>1
  <2>2. CASE ~(job \in {"Escalated", "Stalled"} /\ ~inbox)
    BY <1>5, <2>2 DEF Recover
  <2> QED
    BY <2>1, <2>2
<1> QED
  BY <1>3, <1>4, <1>5

LEMMA RecoverTyped ==
    ASSUME TypeOK, Recover
    PROVE  TypeOK'
<1>1. LogTyped' /\ Grows /\ Tasks' = Tasks /\ Evaluators' = Evaluators /\ Stages' = Stages /\ KindTyped'
  BY SameLog DEF Recover, TypeOK, LogTyped
<1>2. KindTyped /\ SliceTyped /\ TodoTyped /\ LogTyped
  BY DEF TypeOK
<1>3. ~Idle /\ todo[1].op = "recover" /\ job' = job /\ log' = log
  BY InHand DEF Recover
<1>4. SliceTyped' /\ ~Rounding'
  <2>1. slice' = Rebuilt \/ slice' = None
    BY DEF Recover
  <2>2. CASE slice' = Rebuilt
    BY <1>1, <1>2, <2>2, RebuiltIs DEF SliceTyped, Rounding
  <2> QED
    BY <2>1, <2>2, DropSlice
<1>5. JobTyped'
  BY <1>1 DEF Recover, TypeOK, JobTyped
<1>6. Unstarted'
  <2>1. job \in {"Ready", "Stalled"} => slice' = None
    BY DEF Recover
  <2> QED
    BY <1>1, <1>3, <2>1 DEF Unstarted, TypeOK
<1>7. \A x \in Rest : ChoreTyped(x)'
  BY <1>1, <1>3, RestQuiet
<1>8. todo[1].op \notin {"place", "stamp", "launch", "rebuild"}
  BY <1>3
<1>9. ASSUME Then(<<>>) PROVE TodoTyped'
  BY <1>2, <1>7, <1>9, ThenNone
<1>10. ASSUME Then(Do("inbox", 0, 0, "none")) PROVE TodoTyped'
  <2>1. PICK x : x = [op |-> "inbox", cycle |-> 0, n |-> 0, of |-> "none"]
    OBVIOUS
  <2>2. ChoreTyped(x)' /\ "inbox" \in Ops
    BY <2>1 DEF ChoreTyped, Ops
  <2> QED
    BY <1>2, <1>7, <1>8, <1>10, <2>1, <2>2, ThenOne
<1>11. ASSUME job = "Work", NEW n \in Nat, Then(Do("attempt", TopCycle, n, "none")) PROVE TodoTyped'
  <2>1. PICK c \in Nat \ {0} : c = TopCycle
    BY <1>2, TopCycleIs
  <2>2. PICK x : x = [op |-> "attempt", cycle |-> c, n |-> n, of |-> "none"]
    OBVIOUS
  <2>3. ChoreTyped(x)' /\ "attempt" \in Ops
    BY <1>3, <1>11, <2>2 DEF ChoreTyped, Ops
  <2>4. Then(Do("attempt", c, n, "none"))
    BY <1>11, <2>1
  <2> QED
    BY <1>2, <1>7, <1>8, <2>2, <2>3, <2>4, ThenOne
<1>12. ASSUME job = "Work", NEW t \in Tasks, Then(Do("escalate", 0, t, "work")) PROVE TodoTyped'
  <2>1. PICK x : x = [op |-> "escalate", cycle |-> 0, n |-> t, of |-> "work"]
    OBVIOUS
  <2>2. ChoreTyped(x)' /\ "escalate" \in Ops /\ t \in Nat
    BY <1>1, <1>2, <1>3, <1>12, <2>1, TasksAre DEF ChoreTyped, Ops, Reasons
  <2>3. "work" \in Names \cup Reasons \cup {"none", "all"}
    BY DEF Reasons
  <2> QED
    BY <1>2, <1>7, <1>8, <1>12, <2>1, <2>2, <2>3, ThenOne
<1>13. ASSUME job = "Work", NEW t \in Tasks, Then(Do("attach", 0, t, "none")), log[t].phase = "Work"
       PROVE  TodoTyped'
  <2>1. PICK x : x = [op |-> "attach", cycle |-> 0, n |-> t, of |-> "none"]
    OBVIOUS
  <2>2. ChoreTyped(x)' /\ "attach" \in Ops /\ t \in Nat
    BY <1>1, <1>2, <1>3, <1>13, <2>1, TasksAre DEF ChoreTyped, Ops
  <2> QED
    BY <1>2, <1>7, <1>8, <1>13, <2>1, <2>2, ThenOne
<1>14. ASSUME job = "Work", slice' = Rebuilt, Then(Do("evaluate", 0, 0, "none")) PROVE TodoTyped'
  <2>1. PICK x : x = [op |-> "evaluate", cycle |-> 0, n |-> 0, of |-> "none"]
    OBVIOUS
  <2>2. ChoreTyped(x)' /\ "evaluate" \in Ops
    BY <1>2, <1>3, <1>14, <2>1, RebuiltIs DEF ChoreTyped, Ops
  <2> QED
    BY <1>2, <1>7, <1>8, <1>14, <2>1, <2>2, ThenOne
<1>15. ASSUME job = "Evaluation", Then(Do("finalize", 0, 0, "none")) PROVE TodoTyped'
  <2>1. PICK x : x = [op |-> "finalize", cycle |-> 0, n |-> 0, of |-> "none"]
    OBVIOUS
  <2>2. ChoreTyped(x)' /\ "finalize" \in Ops
    BY <1>3, <1>4, <1>15, <2>1 DEF ChoreTyped, Ops
  <2> QED
    BY <1>2, <1>7, <1>8, <1>15, <2>1, <2>2, ThenOne
<1>16. ASSUME job = "Evaluation", slice' = Rebuilt, Stages # <<>>, Then(RecoverEvaluation(TopCycle))
       PROVE  TodoTyped'
  <2>1. PICK c \in Nat \ {0} : c = TopCycle
    BY <1>2, TopCycleIs
  <2>2. PICK l : l = RecoverEvaluation(c)
    OBVIOUS
  <2>3. /\ l \in Seq(Chores) /\ Ordered(l)
        /\ \A x \in ToSet(l) :
             \/ \E ev \in Stages[RoundFromLog(c).stage] :
                  /\ x = [op |-> "launch", cycle |-> 0, n |-> 1, of |-> ev]
                  /\ Latest(Lineage("Evaluation", c, ev)) = 0
             \/ x = [op |-> "rebuild", cycle |-> c, n |-> 0, of |-> "none"]
             \/ \E ev \in Stages[RoundFromLog(c).stage] : \E t \in Tasks :
                  /\ x = [op |-> "attach", cycle |-> 0, n |-> t, of |-> "none"]
                  /\ t = Latest(Lineage("Evaluation", c, ev)) /\ log[t].st = "Running"
                  /\ log[t].phase = "Evaluation" /\ log[t].cycle = c /\ log[t].about = ev
             \/ x = [op |-> "settle", cycle |-> 0, n |-> 0, of |-> "none"]
    BY <1>2, <1>16, <2>1, <2>2, RecoverEvaluationIs
  <2>4. Stages[RoundFromLog(c).stage] \subseteq Evaluators
    <3>1. RoundFromLog(c).stage \in 1..Len(Stages)
      BY <1>2, <1>16, RoundFromLogIs
    <3> QED
      BY <1>2, <3>1, EvaluatorsAre
  <2>5. slice' # None /\ slice'.cycle = c
    BY <1>2, <1>16, <2>1, RebuiltIs
  <2>6. \A x \in ToSet(l) : ChoreTyped(x)' /\ x.op # "sweep"
    <3> SUFFICES ASSUME NEW x \in ToSet(l) PROVE ChoreTyped(x)' /\ x.op # "sweep"
      OBVIOUS
    <3>1. CASE \E ev \in Stages[RoundFromLog(c).stage] :
                 x = [op |-> "launch", cycle |-> 0, n |-> 1, of |-> ev]
      <4>1. x.op = "launch" /\ x.of \in Evaluators'
        BY <1>1, <2>4, <3>1
      <4> QED
        BY <1>3, <1>16, <2>5, <4>1 DEF ChoreTyped
    <3>2. CASE x = [op |-> "rebuild", cycle |-> c, n |-> 0, of |-> "none"]
      BY <1>1, <1>3, <1>16, <2>5, <3>2 DEF ChoreTyped
    <3>3. ASSUME NEW t \in Tasks, x = [op |-> "attach", cycle |-> 0, n |-> t, of |-> "none"],
                 log[t].phase = "Evaluation"
          PROVE  ChoreTyped(x)' /\ x.op # "sweep"
      BY <1>1, <1>3, <1>16, <3>3 DEF ChoreTyped
    <3>4. CASE x = [op |-> "settle", cycle |-> 0, n |-> 0, of |-> "none"]
      BY <1>3, <1>16, <2>5, <3>4 DEF ChoreTyped
    <3> QED
      BY <2>3, <3>1, <3>2, <3>3, <3>4
  <2> QED
    BY <1>2, <1>7, <1>8, <1>16, <2>1, <2>2, <2>3, <2>6, ThenList
<1>17. TodoTyped'
  BY <1>9, <1>10, <1>11, <1>12, <1>13, <1>14, <1>15, <1>16, RecoverIs
<1> QED
  BY <1>1, <1>4, <1>5, <1>6, <1>17 DEF TypeOK

\* The rest of the state is as it was when a task ends.
LEMMA HandledOK ==
    ASSUME TypeOK, NEW t \in Tasks, Handled(t), kind' = kind, approval' = approval,
           UNCHANGED <<job, tip, claim, esc, draining, crashes>>,
           box' \in Seq(Boxes), Len(box') = Len(box), watched' \subseteq Tasks,
           Idle \/ todo[1].op = "attach"
    PROVE  TypeOK'
<1>1. LogTyped' /\ SliceTyped' /\ Unstarted' /\ TodoTyped' /\ Tasks' = Tasks
  BY HandledTyped
<1>2. KindTyped' /\ JobTyped'
  BY <1>1 DEF TypeOK, KindTyped, JobTyped
<1> QED
  BY <1>1, <1>2 DEF TypeOK

\* The container that a restart finds, or does not find, is that of the task.
LEMMA AttachIs ==
    ASSUME TypeOK, Attach
    PROVE  \E t \in Tasks :
             /\ t = todo[1].n /\ Handled(t) /\ watched' \in {watched, watched \cup {t}}
             /\ log[t].phase # "Escalation"
<1>1. /\ ~Idle /\ todo[1].op = "attach" /\ Head(todo) = todo[1] /\ todo[1].n \in Tasks
      /\ log[todo[1].n].phase # "Escalation"
  <2>1. ~Idle /\ todo[1].op = "attach" /\ Head(todo) = todo[1] /\ ChoreTyped(todo[1])
    BY InHand DEF Attach
  <2> QED
    BY <2>1 DEF ChoreTyped
<1>2. PICK t \in Tasks : t = todo[1].n
  BY <1>1
<1>3. \/ InfraLost(t) /\ UNCHANGED watched
      \/ watched' = watched \cup {t} /\ UNCHANGED <<log, slice>> /\ Then(<<>>)
      \/ TaskExited(t, box[t]) /\ UNCHANGED watched
      \/ TaskExited(t, "silent") /\ UNCHANGED watched
  BY <1>1, <1>2 DEF Attach
<1>4. \/ Handled(t) /\ UNCHANGED watched
      \/ Handled(t) /\ watched' = watched \cup {t}
  <2>1. CASE InfraLost(t) /\ UNCHANGED watched
    BY <1>1, <1>2, <2>1, LossHandled
  <2>2. CASE watched' = watched \cup {t} /\ UNCHANGED <<log, slice>> /\ Then(<<>>)
    BY <2>2 DEF Handled
  <2>3. CASE TaskExited(t, box[t]) /\ UNCHANGED watched
    BY <2>3, ExitHandled
  <2>4. CASE TaskExited(t, "silent") /\ UNCHANGED watched
    BY <2>4, ExitHandled
  <2> QED
    BY <1>3, <2>1, <2>2, <2>3, <2>4
<1> QED
  BY <1>1, <1>2, <1>4

LEMMA AttachTyped ==
    ASSUME TypeOK, Attach
    PROVE  TypeOK'
<1>1. PICK t \in Tasks : Handled(t) /\ watched' \in {watched, watched \cup {t}}
  BY AttachIs
<1>2. watched' \subseteq Tasks /\ box' = box /\ box' \in Seq(Boxes)
  BY <1>1 DEF TypeOK, LogTyped, Attach
<1>3. UNCHANGED <<kind, approval, job, tip, claim, esc, draining, crashes>>
  BY DEF Attach
<1>4. todo[1].op = "attach"
  BY InHand DEF Attach
<1> QED
  BY <1>1, <1>2, <1>3, <1>4, HandledOK

LEMMA ExitTyped ==
    ASSUME TypeOK, NEW t \in Tasks, Exit(t)
    PROVE  TypeOK'
<1>1. watched' \subseteq Tasks /\ box' \in Seq(Boxes) /\ Len(box') = Len(box)
  <2>1. "gone" \in Boxes /\ LogTyped
    BY DEF Boxes, Ended, TypeOK
  <2>2. box' = [box EXCEPT ![t] = "gone"] /\ watched' = watched \ {t}
    BY DEF Exit
  <2> QED
    BY <2>1, <2>2, SetBox DEF LogTyped
<1>2. Handled(t)
  BY ExitHandled DEF Exit
<1>3. UNCHANGED <<kind, approval, job, tip, claim, esc, draining, crashes>> /\ Idle
  BY DEF Exit, Listening
<1> QED
  BY <1>1, <1>2, <1>3, HandledOK

LEMMA TimeoutScanTyped ==
    ASSUME TypeOK, NEW t \in Tasks, TimeoutScan(t)
    PROVE  TypeOK'
<1>1. watched' \subseteq Tasks /\ box' \in Seq(Boxes) /\ Len(box') = Len(box)
  <2>1. LogTyped /\ watched' = watched
    BY DEF TypeOK, TimeoutScan
  <2>2. box' = Kill({t}) \/ box' = box
    BY DEF TimeoutScan
  <2> QED
    BY <2>1, <2>2, KilledBoxes DEF LogTyped
<1>2. Handled(t)
  BY ExitHandled DEF TimeoutScan
<1>3. UNCHANGED <<kind, approval, job, tip, claim, esc, draining, crashes>> /\ Idle
  BY DEF TimeoutScan, Listening
<1> QED
  BY <1>1, <1>2, <1>3, HandledOK

LEMMA StartJobTyped ==
    ASSUME TypeOK, StartJob
    PROVE  TypeOK'
<1>1. LogTyped' /\ Grows /\ Tasks' = Tasks /\ Evaluators' = Evaluators /\ Stages' = Stages /\ KindTyped'
  BY SameLog DEF StartJob, TypeOK, LogTyped
<1>2. JobTyped' /\ Unstarted' /\ job' = "Ready"
  BY <1>1 DEF StartJob, TypeOK, JobTyped, Unstarted
<1>3. SliceTyped' /\ ~Rounding'
  BY DropSlice DEF StartJob, TypeOK, Unstarted
<1>4. PICK x : x = [op |-> "enter", cycle |-> 1, n |-> 0, of |-> "none"]
  OBVIOUS
<1>5. x \in Chores /\ todo' = <<x>>
  BY <1>4 DEF Chores, Ops, StartJob, Do
<1>6. ChoreTyped(x)'
  BY <1>2, <1>3, <1>4 DEF ChoreTyped
<1>7. TodoTyped'
  BY <1>5, <1>6, NewOne
<1> QED
  BY <1>1, <1>2, <1>3, <1>7 DEF TypeOK

LEMMA ContainerStartedTyped ==
    ASSUME TypeOK, NEW t \in Tasks, ContainerStarted(t)
    PROVE  TypeOK'
<1>1. KindTyped /\ JobTyped /\ LogTyped /\ SliceTyped /\ TodoTyped /\ Unstarted
      /\ KindTyped' /\ Evaluators' = Evaluators /\ Stages' = Stages
  BY SameStages DEF TypeOK, ContainerStarted, KindTyped
<1>2. log[t] \in TaskRecords /\ TaskTyped(log[t]) /\ log \in Seq(TaskRecords) /\ t \in DOMAIN log
  BY <1>1, TasksAre DEF LogTyped, Tasks
<1> DEFINE r == [log[t] EXCEPT !.cid = TRUE]
<1>3. log' = [log EXCEPT ![t] = r]
  BY <1>2 DEF ContainerStarted
<1>4. r \in TaskRecords /\ TaskTyped(r) /\ r.phase = log[t].phase /\ r.about = log[t].about
      /\ r.cycle = log[t].cycle
  BY <1>2 DEF TaskRecords, TaskTyped
<1> HIDE DEF r
<1>5. box' = box /\ UNCHANGED <<slice, watched, draining, todo>>
  BY DEF ContainerStarted, memory
<1>6. LogTyped' /\ Grows /\ Tasks' = Tasks /\ log'[t] = r /\ \A u \in Tasks \ {t} : log'[u] = log[u]
  BY <1>1, <1>3, <1>4, <1>5, SetTask DEF LogTyped
<1>7. SliceTyped' /\ JobTyped' /\ Unstarted'
  BY <1>1, <1>4, <1>5, <1>6, KeepSlice DEF ContainerStarted, SliceTyped, JobTyped, Unstarted
<1>8. TodoTyped'
  BY <1>5, NoneLeft DEF ContainerStarted, Listening, Idle
<1> QED
  BY <1>1, <1>6, <1>7, <1>8 DEF TypeOK

LEMMA SubmitResultTyped ==
    ASSUME TypeOK, NEW t \in Tasks, SubmitResult(t)
    PROVE  TypeOK'
<1>1. KindTyped /\ JobTyped /\ LogTyped /\ SliceTyped /\ TodoTyped /\ Unstarted
      /\ KindTyped' /\ Evaluators' = Evaluators /\ Stages' = Stages
  BY SameStages DEF TypeOK, SubmitResult, KindTyped
<1>2. t \in Nat /\ slice # None /\ job \notin {"Ready", "Stalled"}
  BY <1>1, TasksAre DEF SubmitResult, Unstarted
<1> DEFINE running == Latest({u \in WorkTasks(slice.cycle) : log[u].st = "Running"})
<1>3. running \in {0} \cup Tasks
  <2>1. {u \in WorkTasks(slice.cycle) : log[u].st = "Running"} \in SUBSET (1..Len(log))
    BY <1>1, TasksAre DEF WorkTasks, Lineage
  <2>2. PICK S \in SUBSET (1..Len(log)) : S = {u \in WorkTasks(slice.cycle) : log[u].st = "Running"}
    BY <2>1
  <2>3. Latest(S) \in 0..Len(log) /\ (Latest(S) # 0 => Latest(S) \in S)
    BY <1>1, TasksAre, LatestIs
  <2> QED
    BY <1>1, <2>2, <2>3, TasksAre
<1>4. box' = box /\ UNCHANGED <<job, watched, draining, todo>>
  BY DEF SubmitResult
<1>5. log' = IF running = 0 THEN log ELSE [log EXCEPT ![running].by = t]
  BY DEF SubmitResult
<1> HIDE DEF running
<1>6. LogTyped' /\ Grows /\ Tasks' = Tasks
  <2>1. CASE running = 0
    BY <1>1, <1>4, <1>5, <2>1, KeepLog DEF LogTyped
  <2>2. CASE running # 0
    <3>1. PICK u \in Tasks : u = running
      BY <1>3, <2>2
    <3>2. log[u] \in TaskRecords /\ TaskTyped(log[u]) /\ log \in Seq(TaskRecords) /\ u \in DOMAIN log
      BY <1>1, TasksAre DEF LogTyped, Tasks
    <3> DEFINE r == [log[u] EXCEPT !.by = t]
    <3>3. log' = [log EXCEPT ![u] = r]
      BY <1>5, <2>2, <3>1, <3>2
    <3>4. r \in TaskRecords /\ TaskTyped(r) /\ r.phase = log[u].phase /\ r.about = log[u].about
      BY <1>2, <3>2 DEF TaskRecords, TaskTyped
    <3> HIDE DEF r
    <3> QED
      BY <1>1, <1>4, <3>3, <3>4, SetTask DEF LogTyped
  <2> QED
    BY <2>1, <2>2
<1>7. SliceTyped'
  <2>1. slice \in Slices(Evaluators)
    BY <1>1, <1>2, SliceIs
  <2>2. slice' = [slice EXCEPT !.sub = t]
    BY DEF SubmitResult
  <2>3. /\ slice' \in Slices(Evaluators) /\ slice'.sub = t
        /\ slice'.cycle = slice.cycle /\ slice'.round = slice.round
    BY <1>2, <2>1, <2>2 DEF Slices
  <2> QED
    BY <1>1, <1>2, <1>4, <1>6, <2>3 DEF SliceTyped, Rounding
<1>8. JobTyped' /\ Unstarted'
  BY <1>1, <1>2, <1>4, <1>6 DEF SubmitResult, JobTyped, Unstarted
<1>9. TodoTyped'
  BY <1>4, NoneLeft DEF SubmitResult, Listening, Idle
<1> QED
  BY <1>1, <1>6, <1>7, <1>8, <1>9 DEF TypeOK

\* A verdict or an answer is recorded.
LEMMA AnswerIs ==
    ASSUME TypeOK, kind' = kind, approval' = approval, NEW t \in Tasks,
           NEW st \in {"Done", "Failed"}, NEW v \in {"pass", "fail", "abort", "acted", "closed"},
           v \in {"acted", "closed"} => log[t].st = "Pending",
           log' = [log EXCEPT ![t].st = st, ![t].verdict = v], box' = box, watched' = watched
    PROVE  /\ LogTyped' /\ Grows /\ Tasks' = Tasks /\ Len(log') = Len(log)
           /\ Evaluators' = Evaluators /\ Stages' = Stages /\ KindTyped'
           /\ log'[t] = [log[t] EXCEPT !.st = st, !.verdict = v]
           /\ \A u \in Tasks \ {t} : log'[u] = log[u]
           /\ \A u \in Tasks : log'[u].phase = log[u].phase /\ log'[u].cycle = log[u].cycle
                               /\ log'[u].about = log[u].about /\ log'[u].attempt = log[u].attempt
<1>1. KindTyped /\ LogTyped /\ KindTyped' /\ Evaluators' = Evaluators /\ Stages' = Stages
  BY SameStages DEF TypeOK, KindTyped
<1>2. log[t] \in TaskRecords /\ TaskTyped(log[t]) /\ log \in Seq(TaskRecords) /\ t \in DOMAIN log
  BY <1>1, TasksAre DEF LogTyped, Tasks
<1> DEFINE r == [log[t] EXCEPT !.st = st, !.verdict = v]
<1>3. log' = [log EXCEPT ![t] = r]
  BY <1>2
<1>4. r \in TaskRecords /\ r.phase = log[t].phase /\ r.about = log[t].about /\ r.by = log[t].by
      /\ r.cycle = log[t].cycle /\ r.attempt = log[t].attempt /\ r.st = st /\ r.verdict = v
  BY <1>2 DEF TaskRecords
<1>5. TaskTyped(r)
  BY <1>2, <1>4 DEF TaskTyped
<1>6. PICK q : q = r
  OBVIOUS
<1> HIDE DEF r
<1>7. /\ LogTyped' /\ Grows /\ Tasks' = Tasks /\ Len(log') = Len(log)
      /\ log'[t] = r /\ \A u \in Tasks \ {t} : log'[u] = log[u]
  BY <1>1, <1>3, <1>4, <1>5, SetTask DEF LogTyped
<1>8. \A u \in Tasks : log'[u].phase = log[u].phase /\ log'[u].cycle = log[u].cycle
                       /\ log'[u].about = log[u].about /\ log'[u].attempt = log[u].attempt
  BY <1>4, <1>7
<1> QED
  BY <1>1, <1>7, <1>8 DEF r

LEMMA SubmitEvalTyped ==
    ASSUME TypeOK, NEW t \in Tasks, SubmitEval(t)
    PROVE  TypeOK'
<1>1. PICK v \in {"pass", "fail", "abort"} : log' = [log EXCEPT ![t].st = "Done", ![t].verdict = v]
  BY DEF SubmitEval
<1>2. UNCHANGED <<kind, approval, job, box, tip, claim, esc, slice, watched, draining, todo, crashes>>
  BY DEF SubmitEval, memory
<1>3. /\ LogTyped' /\ Grows /\ Tasks' = Tasks
      /\ Evaluators' = Evaluators /\ Stages' = Stages /\ KindTyped'
      /\ \A u \in Tasks : log'[u].phase = log[u].phase /\ log'[u].cycle = log[u].cycle
  BY <1>1, <1>2, AnswerIs
<1>4. SliceTyped' /\ JobTyped' /\ Unstarted'
  BY <1>2, <1>3, KeepSlice DEF TypeOK, SliceTyped, JobTyped, Unstarted
<1>5. TodoTyped'
  BY <1>2, NoneLeft DEF SubmitEval, Listening, Idle
<1> QED
  BY <1>3, <1>4, <1>5 DEF TypeOK

\* A handler that begins, with one chore.
LEMMA Begins ==
    ASSUME Idle, NEW x, NEW op, NEW c, NEW n, NEW of, Then(Do(op, c, n, of)),
           x = [op |-> op, cycle |-> c, n |-> n, of |-> of]
    PROVE  todo' = <<x>>
<1>1. todo' = Do(op, c, n, of) \o <<>>
  BY DEF Then
<1>2. Do(op, c, n, of) = <<x>>
  BY DEF Do
<1> QED
  BY <1>1, <1>2

LEMMA ResolveEscalationTyped ==
    ASSUME TypeOK, NEW t \in Tasks, ResolveEscalation(t)
    PROVE  TypeOK'
<1>1. UNCHANGED <<kind, approval, job, box, tip, claim, esc, watched, draining, crashes>>
      /\ log' = [log EXCEPT ![t].st = "Done", ![t].verdict = "acted"] /\ Pending(t)
      /\ Idle /\ job \in {"Escalated", "Stalled"}
  BY DEF ResolveEscalation, Close, Listening
<1>2. KindTyped /\ LogTyped /\ SliceTyped /\ Unstarted
  BY DEF TypeOK
<1>3. /\ LogTyped' /\ Grows /\ Tasks' = Tasks
      /\ Evaluators' = Evaluators /\ Stages' = Stages /\ KindTyped'
      /\ \A u \in Tasks : log'[u].phase = log[u].phase /\ log'[u].cycle = log[u].cycle
  BY <1>1, AnswerIs DEF Pending
<1>4. JobTyped'
  BY <1>1, <1>3 DEF TypeOK, JobTyped
<1>5. ASSUME slice' = slice PROVE SliceTyped' /\ Unstarted'
  BY <1>1, <1>2, <1>3, <1>5, KeepSlice DEF SliceTyped, Unstarted
<1>6. CASE job = "Escalated" /\ UNCHANGED slice /\ Then(Do("retry", 0, 0, "none"))
  <2>1. PICK x : x = [op |-> "retry", cycle |-> 0, n |-> 0, of |-> "none"]
    OBVIOUS
  <2>2. ChoreTyped(x)' /\ x \in Chores
    BY <1>1, <1>6, <2>1 DEF ChoreTyped, Ops, Chores
  <2>3. TodoTyped'
    BY <1>1, <1>6, <2>1, <2>2, Begins, NewOne
  <2> QED
    BY <1>3, <1>4, <1>5, <1>6, <2>3 DEF TypeOK
<1>7. CASE job = "Stalled" /\ UNCHANGED slice /\ Then(Do("prework", 0, 0, "none"))
  <2>1. PICK x : x = [op |-> "prework", cycle |-> 0, n |-> 0, of |-> "none"]
    OBVIOUS
  <2>2. ChoreTyped(x)' /\ x \in Chores
    BY <1>1, <1>7, <2>1 DEF ChoreTyped, Ops, Chores
  <2>3. TodoTyped'
    BY <1>1, <1>7, <2>1, <2>2, Begins, NewOne
  <2> QED
    BY <1>3, <1>4, <1>5, <1>7, <2>3 DEF TypeOK
<1>8. CASE job = "Escalated" /\ slice' = Ensured /\ Then(Do("evaluate", 0, 0, "none"))
  <2>1. PICK x : x = [op |-> "evaluate", cycle |-> 0, n |-> 0, of |-> "none"]
    OBVIOUS
  <2>2. SliceTyped' /\ slice' # None
    <3>1. ~Rounding
      BY <1>2, <1>8 DEF SliceTyped
    <3> QED
      BY <1>1, <1>2, <1>3, <1>8, <3>1, EnsuredIs DEF SliceTyped, Rounding
  <2>3. ChoreTyped(x)' /\ x \in Chores
    BY <1>1, <1>8, <2>1, <2>2 DEF ChoreTyped, Ops, Chores
  <2>4. TodoTyped'
    BY <1>1, <1>8, <2>1, <2>3, Begins, NewOne
  <2>5. Unstarted'
    BY <1>1, <1>8 DEF Unstarted
  <2> QED
    BY <1>3, <1>4, <2>2, <2>4, <2>5 DEF TypeOK
<1>9. CASE UNCHANGED slice /\ Then(Do("revoke", 0, 0, "none"))
  <2>1. PICK x : x = [op |-> "revoke", cycle |-> 0, n |-> 0, of |-> "none"]
    OBVIOUS
  <2>2. ChoreTyped(x)' /\ x \in Chores
    BY <1>1, <2>1 DEF ChoreTyped, Ops, Chores
  <2>3. TodoTyped'
    BY <1>1, <1>9, <2>1, <2>2, Begins, NewOne
  <2> QED
    BY <1>3, <1>4, <1>5, <1>9, <2>3 DEF TypeOK
<1> QED
  BY <1>1, <1>6, <1>7, <1>8, <1>9 DEF ResolveEscalation

LEMMA ResolveWorkTyped ==
    ASSUME TypeOK, NEW t \in Tasks, ResolveWork(t)
    PROVE  TypeOK'
<1>1. UNCHANGED <<kind, approval, job, box, tip, claim, esc, watched, draining, crashes>>
      /\ Idle /\ job = "Work" /\ slice' = Ensured
  BY DEF ResolveWork, Listening
<1>2. KindTyped /\ LogTyped /\ SliceTyped
  BY DEF TypeOK
<1>3. PICK st \in {"Done", "Failed"}, v \in {"pass", "fail"} :
        /\ log' = [log EXCEPT ![t].st = st, ![t].verdict = v]
        /\ Then(Do("evaluate", 0, 0, "none")) \/ Then(RetryWork(t))
  BY DEF ResolveWork, Close
<1>4. /\ LogTyped' /\ Grows /\ Tasks' = Tasks
      /\ Evaluators' = Evaluators /\ Stages' = Stages /\ KindTyped'
  BY <1>1, <1>3, AnswerIs
<1>5. JobTyped' /\ Unstarted'
  BY <1>1, <1>4 DEF TypeOK, JobTyped, Unstarted
<1>6. SliceTyped' /\ slice' # None
  <2>1. ~Rounding
    BY <1>1, <1>2 DEF SliceTyped
  <2> QED
    BY <1>1, <1>2, <1>4, <2>1, EnsuredIs DEF SliceTyped, Rounding
<1>7. ASSUME Then(Do("evaluate", 0, 0, "none")) PROVE TodoTyped'
  <2>1. PICK x : x = [op |-> "evaluate", cycle |-> 0, n |-> 0, of |-> "none"]
    OBVIOUS
  <2>2. ChoreTyped(x)' /\ x \in Chores
    BY <1>1, <1>6, <2>1 DEF ChoreTyped, Ops, Chores
  <2> QED
    BY <1>1, <1>7, <2>1, <2>2, Begins, NewOne
<1>8. ASSUME NEW n \in Nat, Then(Do("attempt", log[t].cycle, n, "none")) PROVE TodoTyped'
  <2>1. PICK c \in Nat \ {0} : c = log[t].cycle
    BY <1>2, TasksAre DEF TaskRecords
  <2>2. PICK x : x = [op |-> "attempt", cycle |-> c, n |-> n, of |-> "none"]
    OBVIOUS
  <2>3. ChoreTyped(x)' /\ x \in Chores
    BY <1>1, <2>2 DEF ChoreTyped, Ops, Chores
  <2> QED
    BY <1>1, <1>8, <2>1, <2>2, <2>3, Begins, NewOne
<1>9. ASSUME Then(Do("escalate", 0, t, "work")) PROVE TodoTyped'
  <2>1. PICK x : x = [op |-> "escalate", cycle |-> 0, n |-> t, of |-> "work"]
    OBVIOUS
  <2>2. t \in Nat
    BY <1>2, TasksAre
  <2>3. ChoreTyped(x)' /\ x \in Chores
    BY <1>1, <1>4, <2>1, <2>2 DEF ChoreTyped, Ops, Chores, Reasons
  <2> QED
    BY <1>1, <1>9, <2>1, <2>3, Begins, NewOne
<1>10. TodoTyped'
  BY <1>2, <1>3, <1>7, <1>8, <1>9, RetryIs
<1> QED
  BY <1>4, <1>5, <1>6, <1>10 DEF TypeOK

LEMMA ResolveEvalTyped ==
    ASSUME TypeOK, NEW t \in Tasks, ResolveEval(t)
    PROVE  TypeOK'
<1>1. UNCHANGED <<kind, approval, job, box, tip, claim, esc, watched, draining, crashes>>
      /\ Idle /\ job = "Evaluation"
  BY DEF ResolveEval, Listening
<1>2. KindTyped /\ LogTyped /\ SliceTyped
  BY DEF TypeOK
<1>3. PICK v \in {"pass", "fail", "abort"} :
        /\ log' = [log EXCEPT ![t].st = "Done", ![t].verdict = v]
        /\ IF OpenSlot(t) THEN SlotIs(t, v) ELSE UNCHANGED <<slice, todo>>
  BY DEF ResolveEval, Close
<1>4. CASE OpenSlot(t)
  <2>1. log[t] \in TaskRecords /\ TaskTyped(log[t]) /\ log \in Seq(TaskRecords) /\ t \in DOMAIN log
    BY <1>2, TasksAre DEF LogTyped, Tasks
  <2> DEFINE r == [log[t] EXCEPT !.st = "Done", !.verdict = v]
  <2>2. log' = [log EXCEPT ![t] = r]
    BY <1>3, <2>1
  <2>3. r \in TaskRecords /\ Same(t, r) /\ r.st = "Done" /\ r.verdict = v
    BY <2>1 DEF TaskRecords, Same, TaskTyped
  <2> HIDE DEF r
  <2>4. SlotClosed(t, r) /\ slice # None
    BY <1>3, <1>4, <2>3 DEF SlotClosed, OpenSlot, Rounding
  <2>5. Handled(t)
    BY <2>2, <2>3, <2>4 DEF Handled
  <2>6. box' \in Seq(Boxes) /\ Len(box') = Len(box) /\ watched' \subseteq Tasks
    BY <1>1, <1>2 DEF LogTyped
  <2> QED
    BY <1>1, <2>5, <2>6, HandledOK
<1>5. CASE ~OpenSlot(t)
  <2>1. UNCHANGED <<slice, todo>>
    BY <1>3, <1>5
  <2>2. /\ LogTyped' /\ Grows /\ Tasks' = Tasks
        /\ Evaluators' = Evaluators /\ Stages' = Stages /\ KindTyped'
    BY <1>1, <1>3, AnswerIs
  <2>3. SliceTyped' /\ JobTyped' /\ Unstarted'
    BY <1>1, <1>2, <2>1, <2>2, KeepSlice DEF TypeOK, SliceTyped, JobTyped, Unstarted
  <2>4. TodoTyped'
    BY <1>1, <2>1, NoneLeft DEF Idle
  <2> QED
    BY <2>2, <2>3, <2>4 DEF TypeOK
<1> QED
  BY <1>4, <1>5

\* The claim, the branch and the drain are what nothing else depends on.
LEMMA AsideTyped ==
    ASSUME TypeOK, UNCHANGED <<kind, approval, job, log, esc, slice, watched, todo>>,
           tip' \in Nat, claim' \in BOOLEAN, draining' \in BOOLEAN, crashes' \in Nat,
           box' \in Seq(Boxes), Len(box') = Len(box)
    PROVE  TypeOK'
<1>1. KindTyped /\ JobTyped /\ LogTyped /\ SliceTyped /\ TodoTyped /\ Unstarted
      /\ KindTyped' /\ Evaluators' = Evaluators /\ Stages' = Stages
  BY SameStages DEF TypeOK, KindTyped
<1>2. LogTyped' /\ Grows /\ Tasks' = Tasks
  BY <1>1, KeepLog DEF LogTyped
<1>3. SliceTyped' /\ JobTyped' /\ Unstarted'
  BY <1>1, <1>2, KeepSlice DEF SliceTyped, JobTyped, Unstarted
<1>4. TodoTyped'
  BY SameTodo
<1> QED
  BY <1>1, <1>2, <1>3, <1>4 DEF TypeOK

LEMMA AsideSteps ==
    ASSUME TypeOK,
           \/ ClaimJob \/ UnclaimJob \/ Push \/ Drain
           \/ \E t \in Tasks : BoxEnds(t) \/ Vanish(t)
    PROVE  TypeOK'
<1>1. /\ tip \in Nat /\ claim \in BOOLEAN /\ draining \in BOOLEAN /\ crashes \in Nat
      /\ box \in Seq(Boxes) /\ LogTyped
  BY DEF TypeOK, JobTyped, LogTyped
<1>2. CASE ClaimJob
  BY <1>1, <1>2, AsideTyped DEF ClaimJob, memory
<1>3. CASE UnclaimJob
  BY <1>1, <1>3, AsideTyped DEF UnclaimJob, memory
<1>4. CASE Push
  BY <1>1, <1>4, AsideTyped DEF Push, memory
<1>5. CASE Drain
  BY <1>1, <1>5, AsideTyped DEF Drain
<1>6. ASSUME NEW t \in Tasks, BoxEnds(t) \/ Vanish(t)
      PROVE  TypeOK'
  <2>1. PICK b \in Boxes : box' = [box EXCEPT ![t] = b]
    BY <1>6 DEF BoxEnds, Vanish, Boxes, Ended, Endings
  <2>2. box' \in Seq(Boxes) /\ Len(box') = Len(box)
    BY <1>1, <2>1, SetBox
  <2>3. UNCHANGED <<kind, approval, job, log, esc, slice, watched, todo, tip, claim, draining, crashes>>
    BY <1>6 DEF BoxEnds, Vanish, memory
  <2> QED
    BY <1>1, <2>2, <2>3, AsideTyped
<1> QED
  BY <1>2, <1>3, <1>4, <1>5, <1>6

LEMMA SetRequireApprovalTyped ==
    ASSUME TypeOK, SetRequireApproval
    PROVE  TypeOK'
<1>1. /\ UNCHANGED <<kind, job, log, box, tip, claim, esc, slice, watched, draining, todo, crashes>>
      /\ approval' = ~approval /\ Idle /\ job \in {"Ready", "Stalled"}
  BY DEF SetRequireApproval, memory, Listening
<1>2. slice = None /\ \A t \in Tasks : log[t].phase = "Escalation" /\ log[t].cycle = 1
  BY <1>1 DEF TypeOK, Unstarted
<1>3. Tasks' = Tasks
  BY <1>1 DEF Tasks
<1>4. KindTyped' /\ JobTyped' /\ Unstarted'
  BY <1>1, <1>3 DEF TypeOK, KindTyped, JobTyped, Unstarted
<1>5. LogTyped'
  BY <1>1, <1>2, <1>3 DEF TypeOK, LogTyped, TaskTyped
<1>6. SliceTyped'
  BY <1>1, <1>2, DropSlice
<1>7. TodoTyped'
  BY <1>1, NoneLeft DEF Idle
<1> QED
  BY <1>4, <1>5, <1>6, <1>7 DEF TypeOK

LEMMA RevokeTyped ==
    ASSUME TypeOK, Revoke
    PROVE  TypeOK'
<1>1. LogTyped' /\ Grows /\ Tasks' = Tasks /\ Evaluators' = Evaluators /\ Stages' = Stages /\ KindTyped'
  BY SameLog DEF Revoke, TypeOK, LogTyped
<1>2. SliceTyped' /\ JobTyped' /\ Unstarted'
  BY <1>1, KeepSlice DEF Revoke, TypeOK, SliceTyped, JobTyped, Unstarted
<1>3. PICK x : x = [op |-> "revoke", cycle |-> 0, n |-> 0, of |-> "none"]
  OBVIOUS
<1>4. ChoreTyped(x)' /\ x \in Chores /\ todo' = <<x>>
  BY <1>3 DEF ChoreTyped, Ops, Chores, Revoke, Do
<1>5. TodoTyped'
  BY <1>4, NewOne
<1> QED
  BY <1>1, <1>2, <1>5 DEF TypeOK

LEMMA DeadlineScanTyped ==
    ASSUME TypeOK, DeadlineScan
    PROVE  TypeOK'
<1>1. KindTyped /\ JobTyped /\ LogTyped /\ SliceTyped /\ TodoTyped /\ Unstarted
      /\ KindTyped' /\ Evaluators' = Evaluators /\ Stages' = Stages
  BY SameStages DEF TypeOK, DeadlineScan, KindTyped
<1>2. box' \in Seq(Boxes) /\ Len(box') = Len(box)
  BY <1>1, KilledBoxes DEF DeadlineScan
<1>3. LogTyped' /\ Grows /\ Tasks' = Tasks
  BY <1>1, <1>2, KeepLog DEF DeadlineScan, LogTyped
<1>4. SliceTyped'
  BY DropSlice DEF DeadlineScan
<1>5. JobTyped' /\ Unstarted'
  BY <1>1, <1>3 DEF DeadlineScan, JobTyped, Unstarted, Reasons
<1>6. PICK x : x = [op |-> "inbox", cycle |-> 0, n |-> 0, of |-> "none"]
  OBVIOUS
<1>7. ChoreTyped(x)' /\ x \in Chores /\ todo' = <<x>>
  BY <1>6 DEF ChoreTyped, Ops, Chores, DeadlineScan, Do
<1>8. TodoTyped'
  BY <1>7, NewOne
<1> QED
  BY <1>1, <1>3, <1>4, <1>5, <1>8 DEF TypeOK

\* A restart changes nothing of a task but whether its id is known.
LEMMA RestartIs ==
    ASSUME TypeOK, Restart
    PROVE  /\ KindTyped' /\ LogTyped' /\ Grows /\ Tasks' = Tasks /\ Len(log') = Len(log)
           /\ Evaluators' = Evaluators /\ Stages' = Stages
           /\ \A t \in Tasks : log'[t] = log[t] \/ log'[t] = [log[t] EXCEPT !.cid = TRUE]
<1>1. KindTyped /\ LogTyped /\ KindTyped' /\ Evaluators' = Evaluators /\ Stages' = Stages
  BY SameStages DEF TypeOK, Restart, KindTyped
<1> DEFINE stamps(t) == draining /\ Idle /\ log[t].st = "Running" /\ box[t] = "up"
           g == [t \in Tasks |-> IF stamps(t) THEN [log[t] EXCEPT !.cid = TRUE] ELSE log[t]]
<1>2. log' = g /\ box' = box /\ watched' = {}
  BY DEF Restart
<1>3. ASSUME NEW t \in Tasks
      PROVE  /\ g[t] \in TaskRecords /\ g[t].phase = log[t].phase /\ TaskTyped(g[t])
             /\ g[t] = log[t] \/ g[t] = [log[t] EXCEPT !.cid = TRUE]
  <2>1. log[t] \in TaskRecords /\ TaskTyped(log[t])
    BY <1>1, TasksAre DEF LogTyped
  <2>2. PICK r : r = [log[t] EXCEPT !.cid = TRUE]
    OBVIOUS
  <2>3. r \in TaskRecords /\ r.phase = log[t].phase /\ r.about = log[t].about /\ r.by = log[t].by
        /\ r.st = log[t].st /\ r.verdict = log[t].verdict
    BY <2>1, <2>2 DEF TaskRecords
  <2>4. TaskTyped(r)
    BY <2>1, <2>3 DEF TaskTyped
  <2>5. g[t] = r \/ g[t] = log[t]
    BY <2>2
  <2> HIDE DEF g
  <2> QED
    BY <2>1, <2>2, <2>3, <2>4, <2>5
<1>4. log' = [t \in Tasks |-> g[t]]
  BY <1>2
<1> HIDE DEF g
<1>5. LogTyped' /\ Grows /\ Tasks' = Tasks /\ Len(log') = Len(log)
  BY <1>1, <1>2, <1>3, <1>4, MapLog DEF LogTyped
<1> QED
  BY <1>1, <1>2, <1>3, <1>5

LEMMA RestartTyped ==
    ASSUME TypeOK, Restart
    PROVE  TypeOK'
<1>1. \A t \in Tasks : log'[t].phase = log[t].phase /\ log'[t].cycle = log[t].cycle
  <2>1. \A t \in Tasks : log[t] \in TaskRecords
    BY TasksAre DEF TypeOK
  <2> QED
    BY <2>1, RestartIs DEF TaskRecords
<1>2. SliceTyped'
  BY DropSlice DEF Restart
<1>3. JobTyped' /\ Unstarted'
  <2>1. /\ job' = job /\ tip' = tip /\ claim' = claim /\ esc' = esc /\ slice' = None
        /\ draining' = FALSE /\ crashes' = crashes + 1
    BY DEF Restart
  <2>2. JobTyped /\ Unstarted /\ Tasks' = Tasks
    BY RestartIs DEF TypeOK
  <2>3. JobTyped'
    <3>1. draining' \in BOOLEAN /\ claim' \in BOOLEAN
      BY <2>1, <2>2 DEF JobTyped
    <3>2. tip' \in Nat /\ crashes' \in Nat
      BY <2>1, <2>2 DEF JobTyped
    <3>3. /\ esc'.failing \in {0} \cup Tasks' /\ esc'.why \in Names \cup Reasons \cup {"none"}
          /\ job' \in {"Ready", "Work", "Evaluation", "WrapUp", "Escalated", "Stalled", "Revoked"}
      BY <2>1, <2>2 DEF JobTyped
    <3> QED
      BY <3>1, <3>2, <3>3 DEF JobTyped
  <2>4. Unstarted'
    BY <1>1, <2>1, <2>2 DEF Unstarted
  <2> QED
    BY <2>3, <2>4
<1>4. PICK x, y : /\ x = [op |-> "recover", cycle |-> 0, n |-> 0, of |-> "none"]
                  /\ y = [op |-> "sweep", cycle |-> 0, n |-> 0, of |-> "none"]
  OBVIOUS
<1>5. x \in Chores /\ y \in Chores /\ ChoreTyped(x)' /\ ChoreTyped(y)'
  BY <1>4 DEF ChoreTyped, Ops, Chores
<1>6. PICK a, b : a = <<x>> /\ b = <<y>>
  OBVIOUS
<1>7. a \in Seq(Chores) /\ ToSet(a) = {x} /\ Ordered(a)
  BY <1>5, <1>6, Single
<1>8. b \in Seq(Chores) /\ ToSet(b) = {y} /\ Ordered(b)
  BY <1>5, <1>6, Single
<1>9. x.op \in Before(y.op)
  BY <1>4 DEF Before, Ops
<1>10. PICK l : l = a \o b
  OBVIOUS
<1>11. l \in Seq(Chores) /\ Ordered(l) /\ \A z \in ToSet(l) : z \in ToSet(a) \/ z \in ToSet(b)
  BY <1>7, <1>8, <1>9, <1>10, Joined
<1>12. todo' = l
  BY <1>4, <1>6, <1>10 DEF Restart, Do
<1>13. TodoTyped'
  BY <1>5, <1>7, <1>8, <1>11, <1>12, NewList
<1> QED
  BY <1>2, <1>3, <1>13, RestartIs DEF TypeOK

-----------------------------------------------------------------------------
LEMMA InitTyped ==
    ASSUME Init
    PROVE  TypeOK
<1>1. log = <<>> /\ box = <<>> /\ Tasks = {}
  BY DEF Init, Tasks
<1>2. KindTyped /\ JobTyped
  BY DEF Init, KindTyped, JobTyped
<1>3. LogTyped
  BY <1>1 DEF Init, LogTyped
<1>4. SliceTyped /\ Unstarted
  BY <1>1 DEF Init, SliceTyped, Unstarted, Rounding
<1>5. TodoTyped
  <2>1. todo = <<>> /\ Left = {}
    BY DEF Init, Left
  <2> QED
    BY <2>1 DEF TodoTyped, InOrder
<1> QED
  BY <1>2, <1>3, <1>4, <1>5 DEF TypeOK

LEMMA NextTyped ==
    ASSUME TypeOK, Next
    PROVE  TypeOK'
<1>1. CASE Handle
  BY <1>1, EnterWorkTyped, EnterRefusedTyped, StartAttemptTyped, UnclaimTyped, PlaceTyped,
     PlaceFailsTyped, StampTyped, EnterEvaluationTyped, LaunchEvaluatorTyped, InstallSlotsTyped,
     SettleTyped, FinalizeTyped, EscalateTyped, FillInboxTyped, RetryTyped, PreworkRetryTyped,
     RevokeJobTyped, RecoverTyped, AttachTyped, RebuildTyped, SweepTyped DEF Handle
<1>2. CASE StartJob
  BY <1>2, StartJobTyped
<1>3. CASE Scan
  BY <1>3, DeadlineScanTyped, TimeoutScanTyped DEF Scan
<1>4. CASE Report
  BY <1>4, ExitTyped, ContainerStartedTyped, SubmitResultTyped, SubmitEvalTyped DEF Report
<1>5. CASE Operate
  BY <1>5, ResolveEscalationTyped, ResolveWorkTyped, ResolveEvalTyped, AsideSteps,
     SetRequireApprovalTyped, RevokeTyped DEF Operate
<1>6. CASE Containers
  BY <1>6, AsideSteps DEF Containers
<1>7. CASE Drain
  BY <1>7, AsideSteps
<1>8. CASE Restart
  BY <1>8, RestartTyped
<1> QED
  BY <1>1, <1>2, <1>3, <1>4, <1>5, <1>6, <1>7, <1>8 DEF Next

LEMMA StutterTyped ==
    ASSUME TypeOK, UNCHANGED vars
    PROVE  TypeOK'
<1>1. UNCHANGED <<kind, approval, job, log, esc, slice, watched, todo, tip, claim, draining, crashes, box>>
  BY DEF vars, memory
<1>2. box \in Seq(Boxes) /\ JobTyped
  BY DEF TypeOK, LogTyped
<1> QED
  BY <1>1, <1>2, AsideTyped DEF JobTyped

\* TypeCorrect: what the state of an execution always is: the log, the slice and
\* its round have the shape that the code gives them, and every chore that is left
\* finds what it needs when its turn comes (exec.rs, eval.rs, reconcile.rs).
THEOREM TypeCorrect == Spec => []TypeOK
<1>1. Init => TypeOK
  BY InitTyped
<1>2. TypeOK /\ [Next]_vars => TypeOK'
  BY NextTyped, StutterTyped
<1> QED
  BY <1>1, <1>2, PTL DEF Spec

-----------------------------------------------------------------------------
(* What a step does to the chores and to the log. *)

\* The chores after the one in hand, and what is left of them all.
After == IF Idle THEN {} ELSE Rest
Has(op) == \E x \in Left : x.op = op
Busy == ~Idle /\ todo[1].op \in {"place", "stamp", "launch", "rebuild"}

LEMMA AfterIs ==
    ASSUME TodoTyped
    PROVE  /\ Idle => Left = {} /\ After = {}
           /\ ~Idle => Left = {todo[1]} \cup After /\ todo[1] \in Chores
           /\ After \subseteq Left /\ Left \subseteq Chores
           /\ \A x \in After : ~Idle /\ todo[1].op \in Before(x.op)
           /\ ~Busy => \A x \in After : x.op \in {"attach", "sweep"}
           /\ \A x \in After : x.op \in {"launch", "slots", "rebuild", "settle", "attach", "sweep"}
<1>1. CASE Idle
  <2>1. Left = {} /\ After = {}
    BY <1>1 DEF Left, After, Idle
  <2> QED
    BY <1>1, <2>1
<1>2. CASE ~Idle
  <2>1. /\ Len(todo) \in Nat \ {0} /\ DOMAIN todo = 1..Len(todo)
        /\ todo[1] \in Chores /\ todo[1] \in Left
        /\ \A x \in Rest : x \in Left /\ x \in Chores /\ todo[1].op \in Before(x.op)
    BY <1>2, HeadIs
  <2>2. After = Rest
    BY <1>2 DEF After
  <2>3. \A x \in Left : x = todo[1] \/ x \in Rest
    <3>1. \A k \in 1..Len(todo) : k = 1 \/ k \in 2..Len(todo)
      BY <2>1
    <3> QED
      BY <2>1, <3>1 DEF Left, Rest
  <2>4. \A x \in Rest : x.op \in Ops
    BY <2>1 DEF Chores
  <2>5. todo[1].op \in Ops
    BY <2>1 DEF Chores
  <2>6. \A x \in Rest : x.op \in {"launch", "slots", "rebuild", "settle", "attach", "sweep"}
    BY <2>1, <2>4 DEF Before, Ops
  <2>7. ~Busy => \A x \in Rest : x.op \in {"attach", "sweep"}
    BY <1>2, <2>1, <2>4, <2>5 DEF Before, Ops, Busy
  <2>8. Left = {todo[1]} \cup Rest /\ Left \subseteq Chores
    BY <2>1, <2>3
  <2> QED
    BY <1>2, <2>1, <2>2, <2>6, <2>7, <2>8
<1> QED
  BY <1>1, <1>2

LEMMA ThenLeft ==
    ASSUME TodoTyped, NEW c \in Seq(Chores), Then(c)
    PROVE  Left' = ToSet(c) \cup After
<1>1. /\ DOMAIN todo' = 1..Len(todo') /\ DOMAIN c = 1..Len(c)
      /\ \A k \in 1..Len(c) : todo'[k] = c[k]
      /\ \A k \in Len(c) + 1..Len(todo') :
           /\ ~Idle /\ k - Len(c) + 1 \in 2..Len(todo)
           /\ todo'[k] = todo[k - Len(c) + 1]
  BY ThenIs
<1>2. /\ Len(todo') \in Nat /\ Len(c) \in Nat /\ Len(c) <= Len(todo')
      /\ ~Idle => Len(todo') = Len(c) + Len(todo) - 1
  BY ThenIs
<1>3. PICK m \in Nat, n \in Nat : m = Len(c) /\ n = Len(todo') /\ m <= n
  BY <1>2
<1>4. ASSUME NEW x \in Left' PROVE x \in ToSet(c) \cup After
  <2>1. PICK k \in 1..n : x = todo'[k]
    BY <1>1, <1>3, <1>4 DEF Left
  <2>2. CASE k <= m
    <3>1. k \in 1..m
      BY <2>2
    <3> QED
      BY <1>1, <1>3, <2>1, <3>1 DEF ToSet
  <2>3. CASE ~(k <= m)
    <3>1. k \in m + 1..n
      BY <2>3
    <3>2. ~Idle /\ k - m + 1 \in 2..Len(todo) /\ x = todo[k - m + 1]
      BY <1>1, <1>3, <2>1, <3>1
    <3> QED
      BY <3>2 DEF After, Rest
  <2> QED
    BY <2>2, <2>3
<1>5. ASSUME NEW x \in ToSet(c) PROVE x \in Left'
  <2>1. PICK k \in 1..m : x = c[k]
    BY <1>1, <1>3, <1>5 DEF ToSet
  <2>2. k \in 1..n
    BY <1>3
  <2>3. todo'[k] = x
    BY <1>1, <1>3, <2>1
  <2> QED
    BY <1>1, <1>3, <2>2, <2>3 DEF Left
<1>6. ASSUME NEW x \in After PROVE x \in Left'
  <2>1. ~Idle /\ Len(todo) \in Nat \ {0} /\ After = Rest
    BY <1>6, HeadIs DEF After
  <2>2. PICK k \in 2..Len(todo) : x = todo[k]
    BY <1>6, <2>1 DEF Rest
  <2>3. k \in Int /\ 2 <= k /\ n = m + Len(todo) - 1 /\ k <= Len(todo)
    BY <1>2, <1>3, <2>1, <2>2
  <2>4. PICK i : i = k - 1 + m
    OBVIOUS
  <2>5. i \in m + 1..n /\ i \in 1..n /\ i - m + 1 = k
    BY <2>1, <2>3, <2>4
  <2>6. todo'[i] = x
    BY <1>1, <1>3, <2>2, <2>5
  <2> QED
    BY <1>1, <1>3, <2>5, <2>6 DEF Left
<1> QED
  BY <1>4, <1>5, <1>6

LEMMA LeftOne ==
    ASSUME TodoTyped, NEW op \in Ops, NEW c \in Nat, NEW n \in Nat,
           NEW of \in Names \cup Reasons \cup {"none", "all"}, Then(Do(op, c, n, of))
    PROVE  Left' = {[op |-> op, cycle |-> c, n |-> n, of |-> of]} \cup After
<1>1. PICK x : x = [op |-> op, cycle |-> c, n |-> n, of |-> of]
  OBVIOUS
<1>2. PICK l : l = <<x>>
  OBVIOUS
<1>3. l \in Seq(Chores) /\ ToSet(l) = {x}
  <2>1. x \in Chores
    BY <1>1 DEF Chores
  <2> QED
    BY <1>2, <2>1, Single
<1>4. Then(l)
  BY <1>1, <1>2 DEF Do
<1> QED
  BY <1>1, <1>3, <1>4, ThenLeft

LEMMA LeftNone ==
    ASSUME TodoTyped, Then(<<>>)
    PROVE  Left' = After
<1>1. <<>> \in Seq(Chores) /\ ToSet(<<>>) = {}
  BY NoChore
<1> QED
  BY <1>1, ThenLeft

LEMMA NothingLeft ==
    ASSUME todo' = <<>>
    PROVE  Left' = {} /\ Idle'
  BY DEF Left, Idle

\* A chore that is handed over to an idle actor.
LEMMA LeftBegins ==
    ASSUME NEW x, todo' = <<x>>
    PROVE  Left' = {x}
  BY DEF Left

\* The configuration is not changed, and so the stages are not.
Fixed == kind' = kind /\ approval' = approval /\ Stages' = Stages /\ Evaluators' = Evaluators

\* The tasks are the same, but for their containers' ids and who wrote of them.
Alike(r, s) ==
    /\ r.phase = s.phase /\ r.about = s.about /\ r.cycle = s.cycle /\ r.attempt = s.attempt
    /\ r.st = s.st /\ r.loss = s.loss /\ r.verdict = s.verdict /\ r.tip = s.tip
SameTasks ==
    Tasks' = Tasks /\ Len(log') = Len(log) /\ \A t \in Tasks : Alike(log'[t], log[t])

\* One more task, and what is known of those before.
Adds(r) ==
    /\ Tasks' = Tasks \cup {Len(log) + 1} /\ Len(log') = Len(log) + 1 /\ Len(log) \in Nat
    /\ Len(log) + 1 \notin Tasks
    /\ log'[Len(log) + 1] = r /\ box'[Len(log) + 1] = "none"
    /\ \A t \in Tasks : log'[t] = log[t] /\ box'[t] = box[t]

LEMMA LogIsSame ==
    ASSUME log' = log
    PROVE  SameTasks
  BY DEF SameTasks, Tasks, Alike

LEMMA StagesFixed ==
    ASSUME kind' = kind, approval' = approval
    PROVE  Fixed
  BY SameStages DEF Fixed

\* The tasks of a line are the same when the records are.
LEMMA SameLines ==
    ASSUME SameTasks, NEW phase, NEW c, NEW about
    PROVE  Lineage(phase, c, about)' = Lineage(phase, c, about)
           /\ Latest(Lineage(phase, c, about))' = Latest(Lineage(phase, c, about))
<1>1. Lineage(phase, c, about)' = Lineage(phase, c, about)
  BY DEF SameTasks, Alike, Lineage
<1> QED
  BY <1>1 DEF Latest

-----------------------------------------------------------------------------
(* What each chore does. *)

\* Nothing changes but the job, its slice and the chores.
Calm ==
    /\ Fixed /\ SameTasks /\ box' = box
    /\ tip' = tip /\ draining' = draining /\ crashes' = crashes

LEMMA CalmIs ==
    ASSUME UNCHANGED <<kind, approval, log, box, tip, draining, crashes>>
    PROVE  Calm
  BY LogIsSame, StagesFixed DEF Calm

LEMMA StageLaunched ==
    ASSUME KindTyped, TodoTyped, NEW i \in 1..Len(Stages), Then(LaunchStage(i))
    PROVE  /\ \A x \in Left' : \/ x.op = "launch" /\ x.of \in Stages[i]
                               \/ x = [op |-> "slots", cycle |-> 0, n |-> i, of |-> "all"]
                               \/ x \in After
           /\ \A ev \in Stages[i] : \E x \in Left' : x.op = "launch" /\ x.of = ev
           /\ \E x \in Left' : x = [op |-> "slots", cycle |-> 0, n |-> i, of |-> "all"]
           /\ After \subseteq Left'
<1>1. Stages[i] \in SUBSET Names /\ IsFiniteSet(Stages[i]) /\ Len(Stages) \in Nat
  BY EvaluatorsAre
<1>2. PICK a, b, x : /\ x = [op |-> "slots", cycle |-> 0, n |-> i, of |-> "all"]
                     /\ a = Launches(Stages[i], 1) /\ b = <<x>>
  OBVIOUS
<1>3. /\ a \in Seq(Chores) /\ Ordered(a)
      /\ \A y \in ToSet(a) :
            \E ev \in Stages[i] : y = [op |-> "launch", cycle |-> 0, n |-> 1, of |-> ev]
      /\ \A ev \in Stages[i] : [op |-> "launch", cycle |-> 0, n |-> 1, of |-> ev] \in ToSet(a)
  BY <1>1, <1>2, LaunchesAre
<1>4. b \in Seq(Chores) /\ ToSet(b) = {x}
  <2>1. x \in Chores
    BY <1>1, <1>2 DEF Chores, Ops
  <2> QED
    BY <1>2, <2>1, Single
<1>5. PICK l : l = a \o b
  OBVIOUS
<1>6. l \in Seq(Chores) /\ (\A y \in ToSet(l) : y \in ToSet(a) \/ y \in ToSet(b))
      /\ \A y \in ToSet(a) \cup ToSet(b) : y \in ToSet(l)
  BY <1>3, <1>4, <1>5, Joined
<1>7. Then(l)
  BY <1>2, <1>5 DEF LaunchStage, Do
<1>8. Left' = ToSet(l) \cup After
  BY <1>6, <1>7, ThenLeft
<1>9. \A y \in ToSet(a) : y.op = "launch" /\ y.of \in Stages[i]
  BY <1>3
<1>10. \A ev \in Stages[i] : \E y \in ToSet(a) : y.op = "launch" /\ y.of = ev
  BY <1>3
<1> QED
  BY <1>2, <1>4, <1>6, <1>8, <1>9, <1>10

LEMMA Relaunched ==
    ASSUME KindTyped, TodoTyped, NEW ev \in Evaluators, NEW n \in Nat, Then(Relaunch(ev, n))
    PROVE  Left' = {[op |-> "launch", cycle |-> 0, n |-> n, of |-> ev],
                    [op |-> "slots", cycle |-> 0, n |-> 0, of |-> ev]} \cup After
<1>1. PICK l : l = Relaunch(ev, n)
  OBVIOUS
<1>2. /\ l \in Seq(Chores) /\ DOMAIN l = 1..2
      /\ l[1] = [op |-> "launch", cycle |-> 0, n |-> n, of |-> ev]
      /\ l[2] = [op |-> "slots", cycle |-> 0, n |-> 0, of |-> ev]
  BY <1>1, RelaunchIs
<1>3. Left' = ToSet(l) \cup After
  BY <1>1, <1>2, ThenLeft
<1>4. ToSet(l) = {l[1], l[2]}
  <2>1. 1..2 = {1, 2}
    OBVIOUS
  <2> QED
    BY <1>2, <2>1 DEF ToSet
<1> QED
  BY <1>2, <1>3, <1>4

LEMMA EnterWorkIs ==
    ASSUME TypeOK, EnterWork
    PROVE  /\ ~Idle /\ todo[1].op = "enter" /\ Calm
           /\ job' = "Work" /\ slice' # None /\ slice'.cycle = todo[1].cycle /\ ~Rounding'
           /\ Left' = {[op |-> "attempt", cycle |-> todo[1].cycle, n |-> 1, of |-> "none"]} \cup After
<1>1. /\ ~Idle /\ Head(todo) = todo[1] /\ todo[1].op = "enter" /\ todo[1].cycle \in Nat
  BY InHand DEF EnterWork
<1>2. Calm /\ job' = "Work"
  BY CalmIs DEF EnterWork
<1>3. Left' = {[op |-> "attempt", cycle |-> todo[1].cycle, n |-> 1, of |-> "none"]} \cup After
  <2>1. PICK c \in Nat : c = todo[1].cycle
    BY <1>1
  <2>2. Then(Do("attempt", c, 1, "none"))
    BY <1>1, <2>1 DEF EnterWork
  <2>3. "attempt" \in Ops /\ 1 \in Nat /\ "none" \in Names \cup Reasons \cup {"none", "all"}
    BY DEF Ops
  <2> QED
    BY <2>1, <2>2, <2>3, LeftOne DEF TypeOK
<1>4. slice'.cycle = todo[1].cycle /\ slice'.round = None
  BY <1>1 DEF EnterWork
<1>5. slice' # None
  <2>1. SliceTyped' /\ KindTyped'
    BY EnterWorkTyped DEF TypeOK
  <2>2. KindTyped
    BY DEF TypeOK
  <2>3. PICK s : s = [cycle |-> todo[1].cycle, reworks |-> IF slice = None THEN 0 ELSE slice.reworks,
                      sub |-> 0, round |-> None]
    OBVIOUS
  <2>4. slice' = s
    BY <1>1, <2>3 DEF EnterWork
  <2>5. s.reworks \in Nat
    BY <2>3, SliceIs DEF TypeOK
  <2>6. s \in Slices(Evaluators)
    BY <1>1, <2>3, <2>5 DEF Slices
  <2> QED
    BY <2>2, <2>4, <2>6, NoneIsNot
<1> QED
  BY <1>1, <1>2, <1>3, <1>4, <1>5 DEF Rounding

LEMMA EnterRefusedIs ==
    ASSUME TypeOK, EnterRefused
    PROVE  /\ ~Idle /\ todo[1].op = "enter" /\ Calm
           /\ job' \in {"Escalated", "Stalled"} /\ slice' = slice
           /\ Left' = {[op |-> "inbox", cycle |-> 0, n |-> 0, of |-> "none"]} \cup After
<1>1. ~Idle /\ todo[1].op = "enter"
  BY InHand DEF EnterRefused
<1>2. Calm /\ slice' = slice /\ job' \in {"Escalated", "Stalled"}
  BY CalmIs DEF EnterRefused
<1>3. "inbox" \in Ops /\ 0 \in Nat /\ "none" \in Names \cup Reasons \cup {"none", "all"}
  BY DEF Ops
<1>4. Left' = {[op |-> "inbox", cycle |-> 0, n |-> 0, of |-> "none"]} \cup After
  BY <1>3, LeftOne DEF EnterRefused, TypeOK
<1> QED
  BY <1>1, <1>2, <1>4

LEMMA UnclaimIs ==
    ASSUME TypeOK, Unclaim
    PROVE  ~Idle /\ todo[1].op = "unclaim" /\ Calm /\ job' = job /\ slice' = slice /\ Left' = After
  BY InHand, CalmIs, LeftNone DEF Unclaim, TypeOK

LEMMA PlaceFailsIs ==
    ASSUME TypeOK, PlaceFails
    PROVE  ~Idle /\ todo[1].op = "place" /\ Calm /\ job' = job /\ slice' = slice /\ Left' = {}
           /\ "setup" \in Faults
  BY InHand, CalmIs, NothingLeft DEF PlaceFails

LEMMA PlaceIs ==
    ASSUME TypeOK, Place
    PROVE  /\ ~Idle /\ todo[1].op = "place" /\ todo[1].n \in Tasks
           /\ Fixed /\ SameTasks /\ tip' = tip /\ draining' = draining /\ crashes' = crashes
           /\ job' = job /\ slice' = slice
           /\ box'[todo[1].n] \in {"up", "refused"}
           /\ \A t \in Tasks : t # todo[1].n => box'[t] = box[t]
           /\ After \subseteq Left' /\ \A x \in Left' : x \in After \/ x.op = "stamp"
<1>1. /\ ~Idle /\ Head(todo) = todo[1] /\ todo[1].op = "place" /\ todo[1].n \in Nat
      /\ todo[1] \in Left
  BY InHand, HeadIs DEF Place, TypeOK
<1>2. todo[1].n \in Tasks
  BY <1>1 DEF TypeOK, TodoTyped, ChoreTyped
<1>3. PICK n \in Tasks : n = todo[1].n /\ n \in Nat
  BY <1>1, <1>2
<1>4. Fixed /\ SameTasks
  BY LogIsSame, StagesFixed DEF Place
<1>5. PICK placed \in {"up", "refused"} :
         /\ box' = [box EXCEPT ![n] = placed]
         /\ Then(Do("stamp", 0, n, "none")) \/ Then(<<>>)
  BY <1>1, <1>3 DEF Place
<1>6. LogTyped /\ TodoTyped
  BY DEF TypeOK
<1>7. box'[n] = placed /\ \A t \in Tasks : t # n => box'[t] = box[t]
  <2>1. placed \in Boxes
    BY DEF Boxes, Ended
  <2> QED
    BY <1>5, <1>6, <2>1, SetBox
<1>8. "stamp" \in Ops /\ 0 \in Nat /\ "none" \in Names \cup Reasons \cup {"none", "all"}
  BY DEF Ops
<1>9. \/ Left' = {[op |-> "stamp", cycle |-> 0, n |-> n, of |-> "none"]} \cup After
      \/ Left' = After
  BY <1>3, <1>5, <1>6, <1>8, LeftOne, LeftNone
<1>10. After \subseteq Left' /\ \A x \in Left' : x \in After \/ x.op = "stamp"
  BY <1>9
<1> QED
  BY <1>1, <1>3, <1>4, <1>7, <1>10 DEF Place

LEMMA StampIs ==
    ASSUME TypeOK, Stamp
    PROVE  /\ ~Idle /\ todo[1].op = "stamp" /\ Fixed /\ SameTasks /\ box' = box /\ tip' = tip
           /\ draining' = draining /\ crashes' = crashes /\ job' = job /\ slice' = slice
           /\ Left' = After
<1>1. /\ ~Idle /\ Head(todo) = todo[1] /\ todo[1].op = "stamp" /\ todo[1] \in Left
  BY InHand, HeadIs DEF Stamp, TypeOK
<1>2. PICK n \in Tasks : n = todo[1].n
  BY <1>1 DEF TypeOK, TodoTyped, ChoreTyped
<1>3. log' = [log EXCEPT ![n].cid = TRUE] /\ Fixed /\ Left' = After
  BY <1>1, <1>2, StagesFixed, LeftNone DEF Stamp, TypeOK
<1>4. SameTasks
  <2>1. log \in Seq(TaskRecords) /\ DOMAIN log = Tasks /\ \A t \in Tasks : log[t] \in TaskRecords
    BY TasksAre DEF TypeOK, LogTyped, Tasks
  <2>2. PICK r : r = [log[n] EXCEPT !.cid = TRUE]
    OBVIOUS
  <2>3. Alike(r, log[n]) /\ r \in TaskRecords
    <3>1. PICK s \in TaskRecords : s = log[n]
      BY <2>1
    <3>2. r = [s EXCEPT !.cid = TRUE]
      BY <2>2, <3>1
    <3>3. Alike(r, s) /\ r \in TaskRecords
      BY <3>2 DEF Alike, TaskRecords
    <3> QED
      BY <3>1, <3>3
  <2>4. log' = [log EXCEPT ![n] = r]
    BY <1>3, <2>1, <2>2
  <2>5. Tasks' = Tasks /\ Len(log') = Len(log)
    BY <2>1, <2>3, <2>4, ExceptSeq DEF Tasks
  <2>6. log'[n] = r /\ \A t \in Tasks : t # n => log'[t] = log[t]
    BY <2>1, <2>4
  <2> QED
    BY <2>3, <2>5, <2>6 DEF SameTasks, Alike
<1> QED
  BY <1>1, <1>3, <1>4 DEF Stamp

\* The evaluation begins, unless the dispatcher drains.
LEMMA EnterEvaluationIs ==
    ASSUME TypeOK, EnterEvaluation
    PROVE  /\ ~Idle /\ todo[1].op = "evaluate" /\ Calm /\ slice # None
           /\ \/ draining /\ job' = job /\ slice' = slice /\ Left' = After
              \/ /\ job' = "Evaluation" /\ slice' # None /\ slice'.cycle = slice.cycle
                 /\ Stages = <<>> /\ ~Rounding'
                 /\ Left' = {[op |-> "finalize", cycle |-> 0, n |-> 0, of |-> "none"]} \cup After
              \/ /\ job' = "Evaluation" /\ slice' # None /\ slice'.cycle = slice.cycle
                 /\ 1 \in 1..Len(Stages) /\ Then(LaunchStage(1))
                 /\ Rounding' /\ slice'.round.stage = 1
                 /\ \A ev \in Evaluators : slice'.round.slot[ev].out = "none"
<1>1. ~Idle /\ todo[1].op = "evaluate" /\ todo[1] \in Left
  BY InHand, HeadIs DEF EnterEvaluation, TypeOK
<1>2. KindTyped /\ SliceTyped /\ TodoTyped /\ slice # None
  BY <1>1 DEF TypeOK, TodoTyped, ChoreTyped
<1>3. Calm
  BY CalmIs DEF EnterEvaluation
<1>4. ASSUME ~draining
      PROVE  /\ job' = "Evaluation"
             /\ slice' = [slice EXCEPT !.round = IF Stages = <<>> THEN None ELSE EmptyRound]
             /\ Then(IF Stages = <<>> THEN Do("finalize", 0, 0, "none") ELSE LaunchStage(1))
  BY <1>2, <1>4 DEF EnterEvaluation
<1>5. CASE draining
  <2>1. job' = job /\ slice' = slice /\ Then(<<>>)
    BY <1>5 DEF EnterEvaluation
  <2> QED
    BY <1>1, <1>2, <1>3, <1>5, <2>1, LeftNone
<1>6. CASE ~draining /\ Stages = <<>>
  <2>1. "finalize" \in Ops /\ 0 \in Nat /\ "none" \in Names \cup Reasons \cup {"none", "all"}
    BY DEF Ops
  <2>2. Left' = {[op |-> "finalize", cycle |-> 0, n |-> 0, of |-> "none"]} \cup After
    BY <1>2, <1>4, <1>6, <2>1, LeftOne
  <2>3. slice' = [slice EXCEPT !.round = None]
    BY <1>4, <1>6
  <2>4. slice' # None /\ slice'.round = None /\ slice'.cycle = slice.cycle
    BY <1>2, <2>3, RoundSet
  <2> QED
    BY <1>1, <1>2, <1>3, <1>4, <1>6, <2>2, <2>4 DEF Rounding
<1>7. CASE ~draining /\ Stages # <<>>
  <2>1. PICK round : round = EmptyRound
    OBVIOUS
  <2>2. /\ round \in Rounds(Evaluators) /\ round # None /\ round.stage = 1
        /\ \A ev \in Evaluators : round.slot[ev] = [task |-> 0, out |-> "none"]
    BY <1>2, <2>1, EmptyRoundIs
  <2>3. slice' = [slice EXCEPT !.round = round]
    BY <1>4, <1>7, <2>1
  <2>4. slice' # None /\ slice'.round = round /\ slice'.cycle = slice.cycle
    BY <1>2, <2>2, <2>3, RoundSet
  <2>5. Stages \in Seq(SUBSET Names)
    BY <1>2, StagesAre
  <2>6. 1 \in 1..Len(Stages)
    BY <1>7, <2>5, EmptySeq, LenProperties
  <2>7. \A ev \in Evaluators : slice'.round.slot[ev].out = "none"
    BY <2>2, <2>4
  <2>8. Rounding' /\ slice'.round.stage = 1
    BY <2>2, <2>4 DEF Rounding
  <2> QED
    BY <1>1, <1>2, <1>3, <1>4, <1>7, <2>4, <2>6, <2>7, <2>8
<1> QED
  BY <1>5, <1>6, <1>7

LEMMA FinalizeIs ==
    ASSUME TypeOK, Finalize
    PROVE  /\ ~Idle /\ todo[1].op = "finalize" /\ Calm /\ job' = "WrapUp" /\ slice' = slice
           /\ Left' = After
  BY InHand, CalmIs, LeftNone DEF Finalize, TypeOK

LEMMA EscalateIs ==
    ASSUME TypeOK, Escalate
    PROVE  /\ ~Idle /\ todo[1].op = "escalate" /\ Calm /\ slice' = None
           /\ \/ /\ job \in {"Work", "Evaluation"} /\ job' = "Escalated"
                 /\ Left' = {[op |-> "inbox", cycle |-> 0, n |-> 0, of |-> "none"]} \cup After
              \/ job \notin {"Work", "Evaluation"} /\ job' = job /\ Left' = {}
<1>1. ~Idle /\ todo[1].op = "escalate"
  BY InHand DEF Escalate
<1>2. Calm /\ slice' = None
  BY CalmIs DEF Escalate
<1>3. CASE job \in {"Work", "Evaluation"}
  <2>1. "inbox" \in Ops /\ 0 \in Nat /\ "none" \in Names \cup Reasons \cup {"none", "all"}
    BY DEF Ops
  <2>2. job' = "Escalated" /\ Then(Do("inbox", 0, 0, "none"))
    BY <1>3 DEF Escalate
  <2>3. Left' = {[op |-> "inbox", cycle |-> 0, n |-> 0, of |-> "none"]} \cup After
    BY <2>1, <2>2, LeftOne DEF TypeOK
  <2> QED
    BY <1>1, <1>2, <1>3, <2>2, <2>3
<1>4. CASE job \notin {"Work", "Evaluation"}
  <2>1. job' = job /\ todo' = <<>>
    BY <1>4 DEF Escalate
  <2> QED
    BY <1>1, <1>2, <1>4, <2>1, NothingLeft
<1> QED
  BY <1>3, <1>4

LEMMA RebuildIs ==
    ASSUME TypeOK, Rebuild
    PROVE  /\ ~Idle /\ todo[1].op = "rebuild" /\ Calm /\ job' = job /\ Left' = After
           /\ slice # None /\ slice' # None /\ slice'.cycle = slice.cycle /\ Stages # <<>>
           /\ Rounding' /\ slice'.round = RoundFromLog(slice.cycle) /\ slice.cycle \in Nat
<1>1. ~Idle /\ Head(todo) = todo[1] /\ todo[1].op = "rebuild" /\ todo[1] \in Left
  BY InHand, HeadIs DEF Rebuild, TypeOK
<1>2. KindTyped /\ LogTyped /\ SliceTyped /\ TodoTyped /\ slice # None /\ todo[1].cycle = slice.cycle
      /\ Stages # <<>>
  BY <1>1 DEF TypeOK, TodoTyped, ChoreTyped
<1>3. PICK c \in Nat : c = slice.cycle
  BY <1>2, SliceIs
<1>4. PICK round : round = RoundFromLog(c)
  OBVIOUS
<1>5. round \in Rounds(Evaluators) /\ round # None
  BY <1>2, <1>3, <1>4, RoundFromLogIs
<1>6. slice' = [slice EXCEPT !.round = round]
  BY <1>1, <1>2, <1>3, <1>4 DEF Rebuild
<1>7. slice' # None /\ slice'.round = round /\ slice'.cycle = slice.cycle
  BY <1>2, <1>5, <1>6, RoundSet
<1>8. Calm /\ job' = job /\ Left' = After
  BY <1>2, CalmIs, LeftNone DEF Rebuild
<1> QED
  BY <1>1, <1>2, <1>3, <1>4, <1>5, <1>7, <1>8 DEF Rounding

LEMMA SweepIs ==
    ASSUME TypeOK, Sweep
    PROVE  /\ ~Idle /\ todo[1].op = "sweep" /\ Fixed /\ SameTasks /\ tip' = tip
           /\ draining' = draining /\ crashes' = crashes /\ job' = job /\ slice' = slice
           /\ Left' = {}
           /\ \A t \in Tasks : box'[t] = box[t] \/ (box'[t] = "silent" /\ box[t] = "up")
           /\ "unreachable" \notin Faults =>
                \A t \in Tasks : box'[t] = "up" => log[t].st = "Running"
<1>1. ~Idle /\ todo[1].op = "sweep"
  BY InHand DEF Sweep
<1>2. LogTyped /\ TodoTyped
  BY DEF TypeOK
<1>3. Left' = {}
  <2>1. \A x \in After : x.op # "sweep" => x.op \in Ops \ {"sweep"}
    BY <1>2, AfterIs DEF Chores
  <2>2. After = {}
    BY <1>1, <1>2, AfterIs DEF Before
  <2> QED
    BY <1>2, <2>2, LeftNone DEF Sweep
<1>4. Fixed /\ SameTasks
  BY LogIsSame, StagesFixed DEF Sweep
<1>5. CASE box' = box /\ "unreachable" \in Faults
  BY <1>1, <1>3, <1>4, <1>5 DEF Sweep
<1>6. CASE box' = Kill({t \in Tasks : log[t].st # "Running"})
  <2>1. PICK ts : ts = {t \in Tasks : log[t].st # "Running"}
    OBVIOUS
  <2>2. \A t \in Tasks : box'[t] = IF t \in ts /\ box[t] = "up" THEN "silent" ELSE box[t]
    BY <1>2, <1>6, <2>1, KilledBoxes
  <2> QED
    BY <1>1, <1>3, <1>4, <2>1, <2>2 DEF Sweep
<1> QED
  BY <1>5, <1>6 DEF Sweep

LEMMA StartAttemptIs ==
    ASSUME TypeOK, StartAttempt
    PROVE  /\ ~Idle /\ todo[1].op = "attempt" /\ Fixed /\ job' = job /\ slice' = slice
           /\ tip' = tip /\ draining' = draining /\ crashes' = crashes
           /\ \/ Calm /\ Left' = After
              \/ /\ slice # None
                 /\ \E r \in TaskRecords :
                      /\ Adds(r) /\ r.phase = "Work" /\ r.about = "none" /\ r.cycle = todo[1].cycle
                      /\ r.st \in {"Pending", "Running"} /\ ~r.loss
                      /\ After \subseteq Left'
                      /\ \A x \in Left' : x \in After \/ x.op = "unclaim" \/ x.op = "place"
                      /\ (\E x \in Left' : x.op = "place") => r.st = "Running"
<1>1. KindTyped /\ JobTyped /\ LogTyped /\ TodoTyped /\ Fixed
      /\ \A x \in After : x.op \in {"launch", "slots", "rebuild", "settle", "attach", "sweep"}
  BY StagesFixed, AfterIs DEF TypeOK, StartAttempt
<1>2. /\ ~Idle /\ todo[1].op = "attempt" /\ todo[1].cycle \in Nat \ {0} /\ todo[1].n \in Nat
      /\ Head(todo) = todo[1]
  <2>1. /\ ~Idle /\ todo[1].op = "attempt" /\ todo[1].cycle \in Nat /\ Head(todo) = todo[1]
        /\ todo[1].n \in Nat /\ ChoreTyped(todo[1])
    BY InHand DEF StartAttempt
  <2> QED
    BY <2>1 DEF ChoreTyped
<1>3. UNCHANGED <<job, slice, tip, draining, crashes, watched, kind, approval>>
  BY DEF StartAttempt
<1>4. CASE draining \/ slice = None
  <2>1. UNCHANGED <<log, box>> /\ Then(<<>>)
    BY <1>4 DEF StartAttempt
  <2>2. Calm
    BY <1>3, <2>1, CalmIs
  <2>3. Left' = After
    BY <1>1, <2>1, LeftNone
  <2> QED
    BY <1>1, <1>2, <1>3, <2>2, <2>3
<1>5. CASE ~(draining \/ slice = None)
  <2> DEFINE parked == WorkType = "human" \/ claim
             st == IF parked THEN "Pending" ELSE "Running"
  <2>1. PICK r : r = NewTask("Work", "none", todo[1].cycle, todo[1].n, st)
    OBVIOUS
  <2>2. /\ Create(r)
        /\ Then(IF claim THEN Do("unclaim", 0, 0, "none")
                ELSE IF parked THEN <<>> ELSE Do("place", 0, Len(log) + 1, "none"))
    BY <1>2, <1>5, <2>1 DEF StartAttempt
  <2>3. /\ r \in TaskRecords /\ TaskTyped(r) /\ r.by = 0 /\ r.st = st /\ r.phase = "Work"
        /\ r.about = "none" /\ r.cycle = todo[1].cycle /\ ~r.loss
    <3>1. PICK p \in {"Pending", "Running"}, c \in Nat \ {0}, n \in Nat :
             p = st /\ c = todo[1].cycle /\ n = todo[1].n
      BY <1>2
    <3> HIDE DEF st
    <3>2. "Work" \in {"Work", "Evaluation", "Escalation"} /\ "none" \in Names \cup Reasons \cup {"none"}
      OBVIOUS
    <3>3. /\ NewTask("Work", "none", c, n, p) \in TaskRecords
          /\ TaskTyped(NewTask("Work", "none", c, n, p))
          /\ NewTask("Work", "none", c, n, p) =
                [phase |-> "Work", about |-> "none", cycle |-> c, attempt |-> n, st |-> p,
                 cid |-> FALSE, loss |-> FALSE, verdict |-> "none", by |-> 0, tip |-> 0]
      BY <1>1, <3>2, NewTaskIs
    <3> QED
      BY <2>1, <3>1, <3>3
  <2>4. Adds(r)
    BY <1>1, <1>3, <2>2, <2>3, AddTask DEF Adds, Fixed
  <2>5. Len(log) + 1 \in Nat /\ 0 \in Nat /\ {"unclaim", "place"} \subseteq Ops
        /\ "none" \in Names \cup Reasons \cup {"none", "all"}
    BY <2>4 DEF Adds, Ops
  <2>6. /\ After \subseteq Left' /\ \A x \in Left' : x \in After \/ x.op = "unclaim" \/ x.op = "place"
        /\ (\E x \in Left' : x.op = "place") => r.st = "Running"
    <3>1. CASE claim
      <4>1. Left' = {[op |-> "unclaim", cycle |-> 0, n |-> 0, of |-> "none"]} \cup After
        BY <1>1, <2>2, <2>5, <3>1, LeftOne
      <4> QED
        BY <1>1, <4>1
    <3>2. CASE ~claim /\ parked
      <4>1. Left' = After
        BY <1>1, <2>2, <3>2, LeftNone
      <4> QED
        BY <1>1, <4>1
    <3>3. CASE ~claim /\ ~parked
      <4>1. Then(Do("place", 0, Len(log) + 1, "none"))
        BY <2>2, <3>3
      <4>2. Left' = {[op |-> "place", cycle |-> 0, n |-> Len(log) + 1, of |-> "none"]} \cup After
        BY <1>1, <2>5, <4>1, LeftOne
      <4> QED
        BY <2>3, <3>3, <4>2
    <3> QED
      BY <3>1, <3>2, <3>3
  <2>7. r.st \in {"Pending", "Running"} /\ slice # None
    BY <1>5, <2>3
  <2> QED
    BY <1>1, <1>2, <1>3, <2>3, <2>4, <2>6, <2>7
<1> QED
  BY <1>4, <1>5

LEMMA LaunchEvaluatorIs ==
    ASSUME TypeOK, LaunchEvaluator
    PROVE  /\ ~Idle /\ todo[1].op = "launch" /\ Fixed /\ job = "Evaluation" /\ job' = job
           /\ slice' = slice /\ slice # None /\ todo[1].of \in Evaluators
           /\ tip' = tip /\ draining' = draining /\ crashes' = crashes
           /\ \E r \in TaskRecords :
                /\ Adds(r) /\ r.phase = "Evaluation" /\ r.about = todo[1].of
                /\ r.cycle = slice.cycle /\ r.tip = tip /\ ~r.loss
                /\ \/ EvType[todo[1].of] = "human" /\ r.st = "Pending" /\ Then(<<>>) /\ Left' = After
                   \/ /\ EvType[todo[1].of] # "human" /\ r.st = "Running"
                      /\ Then(Do("place", 0, Len(log) + 1, "none"))
                      /\ Left' = {[op |-> "place", cycle |-> 0, n |-> Len(log) + 1, of |-> "none"]}
                                 \cup After
<1>1. KindTyped /\ JobTyped /\ LogTyped /\ SliceTyped /\ TodoTyped /\ Fixed
  BY StagesFixed DEF TypeOK, LaunchEvaluator
<1>2. /\ ~Idle /\ todo[1].op = "launch" /\ todo[1].n \in Nat /\ todo[1].of \in Evaluators
      /\ Head(todo) = todo[1] /\ job = "Evaluation" /\ slice # None
  <2>1. /\ ~Idle /\ todo[1].op = "launch" /\ Head(todo) = todo[1] /\ ChoreTyped(todo[1])
        /\ todo[1].n \in Nat
    BY InHand DEF LaunchEvaluator
  <2> QED
    BY <2>1 DEF ChoreTyped
<1>3. PICK ev \in Evaluators : ev = todo[1].of
  BY <1>2
<1> DEFINE st == IF EvType[ev] = "human" THEN "Pending" ELSE "Running"
<1>4. PICK r : r = NewTask("Evaluation", ev, slice.cycle, todo[1].n, st)
  OBVIOUS
<1>5. /\ Create(r)
      /\ Then(IF EvType[ev] = "human" THEN <<>> ELSE Do("place", 0, Len(log) + 1, "none"))
  BY <1>2, <1>3, <1>4 DEF LaunchEvaluator
<1>6. /\ r \in TaskRecords /\ TaskTyped(r) /\ r.by = 0 /\ r.st = st /\ r.phase = "Evaluation"
      /\ r.about = ev /\ r.cycle = slice.cycle /\ r.tip = tip /\ ~r.loss
  <2>1. PICK p \in {"Pending", "Running"}, c \in Nat \ {0}, n \in Nat :
           p = st /\ c = slice.cycle /\ n = todo[1].n
    BY <1>1, <1>2, SliceIs
  <2>2. ev \in Names \cup Reasons \cup {"none"} /\ (EvType[ev] # "human" => p = "Running")
        /\ "Evaluation" \in {"Work", "Evaluation", "Escalation"}
    BY <1>1, <2>1, EvaluatorsAre
  <2> HIDE DEF st
  <2>3. /\ NewTask("Evaluation", ev, c, n, p) \in TaskRecords
        /\ TaskTyped(NewTask("Evaluation", ev, c, n, p))
        /\ NewTask("Evaluation", ev, c, n, p) =
              [phase |-> "Evaluation", about |-> ev, cycle |-> c, attempt |-> n, st |-> p,
               cid |-> FALSE, loss |-> FALSE, verdict |-> "none", by |-> 0, tip |-> tip]
    BY <1>1, <2>2, NewTaskIs
  <2> QED
    BY <1>4, <2>1, <2>3
<1>7. UNCHANGED <<job, slice, tip, draining, crashes, watched, kind, approval>>
  BY DEF LaunchEvaluator
<1>8. Adds(r)
  BY <1>1, <1>5, <1>6, <1>7, AddTask DEF Adds, Fixed
<1>9. Len(log) + 1 \in Nat /\ 0 \in Nat /\ "place" \in Ops
      /\ "none" \in Names \cup Reasons \cup {"none", "all"}
  BY <1>8 DEF Adds, Ops
<1>10. CASE EvType[ev] = "human"
  <2>1. Then(<<>>) /\ Left' = After
    BY <1>1, <1>5, <1>10, LeftNone
  <2> QED
    BY <1>1, <1>2, <1>3, <1>6, <1>7, <1>8, <1>10, <2>1
<1>11. CASE EvType[ev] # "human"
  <2>1. Then(Do("place", 0, Len(log) + 1, "none"))
    BY <1>5, <1>11
  <2>2. Left' = {[op |-> "place", cycle |-> 0, n |-> Len(log) + 1, of |-> "none"]} \cup After
    BY <1>1, <1>9, <2>1, LeftOne
  <2> QED
    BY <1>1, <1>2, <1>3, <1>6, <1>7, <1>8, <1>11, <2>1, <2>2
<1> QED
  BY <1>10, <1>11

LEMMA FillInboxIs ==
    ASSUME TypeOK, FillInbox
    PROVE  /\ ~Idle /\ todo[1].op = "inbox" /\ Fixed /\ job' = job /\ slice' = slice
           /\ tip' = tip /\ draining' = draining /\ crashes' = crashes /\ Left' = After
           /\ \E r \in TaskRecords : /\ Adds(r) /\ r.phase = "Escalation" /\ r.cycle = TopCycle
                                     /\ r.st = "Pending" /\ r.verdict = "none" /\ ~r.loss
<1>1. KindTyped /\ JobTyped /\ LogTyped /\ TodoTyped /\ Fixed
  BY StagesFixed DEF TypeOK, FillInbox
<1>2. ~Idle /\ todo[1].op = "inbox" /\ Left' = After
  BY <1>1, InHand, LeftNone DEF FillInbox
<1>3. PICK r : r = NewTask("Escalation", esc.why, TopCycle, 1, "Pending")
  OBVIOUS
<1>4. Create(r)
  BY <1>3 DEF FillInbox
<1>5. /\ r \in TaskRecords /\ TaskTyped(r) /\ r.by = 0 /\ r.phase = "Escalation"
      /\ r.cycle = TopCycle /\ r.st = "Pending" /\ r.verdict = "none" /\ ~r.loss
  <2>1. PICK why \in Names \cup Reasons \cup {"none"}, c \in Nat \ {0} : why = esc.why /\ c = TopCycle
    BY <1>1, TopCycleIs DEF JobTyped
  <2>2. /\ "Escalation" \in {"Work", "Evaluation", "Escalation"} /\ 1 \in Nat
        /\ "Pending" \in {"Pending", "Running"}
    OBVIOUS
  <2>3. /\ NewTask("Escalation", why, c, 1, "Pending") \in TaskRecords
        /\ TaskTyped(NewTask("Escalation", why, c, 1, "Pending"))
        /\ NewTask("Escalation", why, c, 1, "Pending") =
              [phase |-> "Escalation", about |-> why, cycle |-> c, attempt |-> 1, st |-> "Pending",
               cid |-> FALSE, loss |-> FALSE, verdict |-> "none", by |-> 0, tip |-> 0]
    BY <1>1, <2>2, NewTaskIs
  <2> QED
    BY <1>3, <2>1, <2>3
<1>6. UNCHANGED <<job, slice, tip, draining, crashes, watched, kind, approval>>
  BY DEF FillInbox
<1>7. Adds(r)
  BY <1>1, <1>4, <1>5, <1>6, AddTask DEF Adds, Fixed
<1> QED
  BY <1>1, <1>2, <1>5, <1>6, <1>7

LEMMA InstallSlotsCalm ==
    ASSUME TypeOK, InstallSlots
    PROVE  Calm /\ job' = job /\ Left' = After
  BY CalmIs, LeftNone DEF InstallSlots, TypeOK

LEMMA ReduceCases ==
    \/ \E why \in {"infra", "abort", "rework"} : Reduce = Do("escalate", 0, 0, why)
    \/ /\ Reduce = Do("finalize", 0, 0, "none")
       /\ Outs((UNION {Stages[i] : i \in 1..slice.round.stage}) \cap Required) \subseteq {"pass"}
    \/ Reduce = Do("enter", slice.cycle + 1, 0, "none")
BY Zenon DEF Reduce

LEMMA SettleIs ==
    ASSUME TypeOK, Settle
    PROVE  /\ ~Idle /\ todo[1].op = "settle" /\ Calm /\ job = "Evaluation" /\ job' = job
           /\ slice # None /\ slice' # None /\ slice'.cycle = slice.cycle
           /\ \/ slice' = slice /\ Left' = After
              \/ /\ Settled /\ slice' = slice /\ slice.round.stage + 1 \in 1..Len(Stages)
                 /\ Then(LaunchStage(slice.round.stage + 1))
              \/ /\ Settled /\ ~(StagePassed /\ slice.round.stage < Len(Stages)) /\ ~Rounding'
                 /\ \/ \E why \in {"infra", "abort", "rework"} :
                         Left' = {[op |-> "escalate", cycle |-> 0, n |-> 0, of |-> why]} \cup After
                    \/ /\ Left' = {[op |-> "finalize", cycle |-> 0, n |-> 0, of |-> "none"]} \cup After
                       /\ Outs((UNION {Stages[i] : i \in 1..slice.round.stage}) \cap Required)
                            \subseteq {"pass"}
                    \/ Left' = {[op |-> "enter", cycle |-> slice.cycle + 1, n |-> 0, of |-> "none"]}
                               \cup After
<1>1. ~Idle /\ todo[1].op = "settle" /\ slice # None /\ job = "Evaluation"
  <2>1. ~Idle /\ todo[1].op = "settle" /\ ChoreTyped(todo[1])
    BY InHand DEF Settle
  <2> QED
    BY <2>1 DEF ChoreTyped
<1>2. KindTyped /\ SliceTyped /\ TodoTyped
  BY DEF TypeOK
<1>3. Calm /\ job' = job
  BY CalmIs DEF Settle
<1>4. CASE UNCHANGED slice /\ Then(<<>>)
  BY <1>1, <1>2, <1>3, <1>4, LeftNone
<1>5. CASE /\ Settled /\ StagePassed /\ slice.round.stage < Len(Stages)
           /\ UNCHANGED slice /\ Then(LaunchStage(slice.round.stage + 1))
  <2>1. slice.round.stage \in 1..Len(Stages) /\ Len(Stages) \in Nat
    BY <1>2, <1>5, EvaluatorsAre DEF SliceTyped, Settled
  <2>2. slice.round.stage + 1 \in 1..Len(Stages)
    BY <1>5, <2>1
  <2> QED
    BY <1>1, <1>3, <1>5, <2>2
<1>6. CASE /\ Settled /\ ~(StagePassed /\ slice.round.stage < Len(Stages))
           /\ slice' = [slice EXCEPT !.round = None,
                                     !.reworks = IF Reduce[1].op = "enter" THEN @ + 1 ELSE @]
           /\ Then(Reduce)
  <2>1. /\ slice' \in Slices(Evaluators) /\ slice'.round = None
        /\ slice'.cycle = slice.cycle /\ slice'.sub = slice.sub
    <3>1. slice \in Slices(Evaluators)
      BY <1>1, <1>2, SliceIs
    <3>2. PICK b : b = (Reduce[1].op = "enter")
      OBVIOUS
    <3>3. slice' = [slice EXCEPT !.round = None, !.reworks = IF b THEN @ + 1 ELSE @]
      BY <1>6, <3>2
    <3>4. PICK n \in Nat : n = IF b THEN slice.reworks + 1 ELSE slice.reworks
      BY <3>1 DEF Slices
    <3>5. slice' = [slice EXCEPT !.round = None, !.reworks = n]
      BY <3>3, <3>4
    <3> QED
      BY <3>1, <3>5 DEF Slices
  <2>2. slice' # None /\ ~Rounding'
    BY <1>2, <2>1, NoneIsNot DEF Rounding
  <2>3. {"escalate", "finalize", "enter"} \subseteq Ops /\ 0 \in Nat
        /\ {"none", "infra", "abort", "rework"} \subseteq Names \cup Reasons \cup {"none", "all"}
    BY DEF Ops, Reasons
  <2>4. ASSUME NEW why \in {"infra", "abort", "rework"}, Reduce = Do("escalate", 0, 0, why)
        PROVE  Left' = {[op |-> "escalate", cycle |-> 0, n |-> 0, of |-> why]} \cup After
    <3>1. Then(Do("escalate", 0, 0, why)) /\ why \in Names \cup Reasons \cup {"none", "all"}
      BY <1>6, <2>3, <2>4
    <3> QED
      BY <1>2, <2>3, <3>1, LeftOne
  <2>5. ASSUME Reduce = Do("finalize", 0, 0, "none")
        PROVE  Left' = {[op |-> "finalize", cycle |-> 0, n |-> 0, of |-> "none"]} \cup After
    <3>1. Then(Do("finalize", 0, 0, "none"))
      BY <1>6, <2>5
    <3> QED
      BY <1>2, <2>3, <3>1, LeftOne
  <2>6. ASSUME Reduce = Do("enter", slice.cycle + 1, 0, "none")
        PROVE  Left' = {[op |-> "enter", cycle |-> slice.cycle + 1, n |-> 0, of |-> "none"]} \cup After
    <3>1. PICK c \in Nat : c = slice.cycle + 1
      BY <1>1, <1>2, SliceIs
    <3>2. Then(Do("enter", c, 0, "none"))
      BY <1>6, <2>6, <3>1
    <3> QED
      BY <1>2, <2>3, <3>1, <3>2, LeftOne
  <2> QED
    BY <1>1, <1>3, <1>6, <2>1, <2>2, <2>4, <2>5, <2>6, ReduceCases
<1> QED
  BY <1>4, <1>5, <1>6 DEF Settle

LEMMA RetriedIs ==
    ASSUME TypeOK, Retry
    PROVE  /\ ~Idle /\ todo[1].op = "retry" /\ Calm /\ job = "Escalated"
           /\ slice' # None /\ ~Rounding' /\ slice' = Ensured
           /\ \/ /\ job' = job
                 /\ Left' = {[op |-> "evaluate", cycle |-> 0, n |-> 0, of |-> "none"]} \cup After
              \/ /\ job' = "Work"
                 /\ \E n \in Nat : Left' =
                      {[op |-> "attempt", cycle |-> slice'.cycle, n |-> n, of |-> "none"]} \cup After
<1>1. KindTyped /\ SliceTyped /\ TodoTyped /\ LogTyped
  BY DEF TypeOK
<1>2. ~Idle /\ todo[1].op = "retry" /\ job = "Escalated"
  <2>1. ~Idle /\ todo[1].op = "retry" /\ ChoreTyped(todo[1])
    BY InHand DEF Retry
  <2> QED
    BY <2>1 DEF ChoreTyped
<1>3. Calm /\ slice' = Ensured
  BY CalmIs DEF Retry
<1>4. slice' # None /\ ~Rounding'
  <2>1. ~Rounding
    BY <1>1, <1>2 DEF SliceTyped
  <2> QED
    BY <1>1, <1>3, <2>1, EnsuredIs DEF Rounding
<1>5. {"evaluate", "attempt"} \subseteq Ops /\ 0 \in Nat
      /\ "none" \in Names \cup Reasons \cup {"none", "all"}
  BY DEF Ops
<1>6. CASE RetryPhase
  <2>1. job' = job /\ Then(Do("evaluate", 0, 0, "none"))
    BY <1>6 DEF Retry
  <2>2. Left' = {[op |-> "evaluate", cycle |-> 0, n |-> 0, of |-> "none"]} \cup After
    BY <1>1, <1>5, <2>1, LeftOne
  <2> QED
    BY <1>2, <1>3, <1>4, <2>1, <2>2
<1>7. CASE ~RetryPhase
  <2>1. PICK c \in Nat : c = Ensured.cycle
    BY <1>1, EnsuredIs
  <2>2. PICK m \in Nat : m = Max({0} \cup {log[t].attempt : t \in WorkTasks(c)})
    BY <1>1, NextAttempt
  <2>3. PICK n \in Nat : n = m + 1
    OBVIOUS
  <2>4. Then(Do("attempt", c, n, "none")) /\ job' = "Work"
    BY <1>7, <2>1, <2>2, <2>3 DEF Retry
  <2>5. Left' = {[op |-> "attempt", cycle |-> c, n |-> n, of |-> "none"]} \cup After
    BY <1>1, <1>5, <2>4, LeftOne
  <2> QED
    BY <1>2, <1>3, <1>4, <2>1, <2>4, <2>5
<1> QED
  BY <1>6, <1>7

LEMMA PreworkRetryIs ==
    ASSUME TypeOK, PreworkRetry
    PROVE  /\ ~Idle /\ todo[1].op = "prework" /\ Calm /\ job = "Stalled" /\ slice' = slice
           /\ \/ job' = "Ready" /\ Left' = After
              \/ /\ job' = job
                 /\ Left' = {[op |-> "inbox", cycle |-> 0, n |-> 0, of |-> "none"]} \cup After
<1>1. ~Idle /\ todo[1].op = "prework" /\ job = "Stalled"
  <2>1. ~Idle /\ todo[1].op = "prework" /\ ChoreTyped(todo[1])
    BY InHand DEF PreworkRetry
  <2> QED
    BY <2>1 DEF ChoreTyped
<1>2. Calm /\ slice' = slice /\ TodoTyped
  BY CalmIs DEF PreworkRetry, TypeOK
<1>3. "inbox" \in Ops /\ 0 \in Nat /\ "none" \in Names \cup Reasons \cup {"none", "all"}
  BY DEF Ops
<1>4. CASE job' = "Ready" /\ Then(<<>>)
  BY <1>1, <1>2, <1>4, LeftNone
<1>5. CASE job' = job /\ Then(Do("inbox", 0, 0, "none"))
  <2>1. Left' = {[op |-> "inbox", cycle |-> 0, n |-> 0, of |-> "none"]} \cup After
    BY <1>2, <1>3, <1>5, LeftOne
  <2> QED
    BY <1>1, <1>2, <1>5, <2>1
<1> QED
  BY <1>4, <1>5 DEF PreworkRetry

LEMMA RevokeJobIs ==
    ASSUME TypeOK, RevokeJob
    PROVE  /\ ~Idle /\ todo[1].op = "revoke" /\ Fixed /\ slice' = None /\ tip' = tip
           /\ draining' = draining /\ crashes' = crashes
           /\ Tasks' = Tasks /\ Len(log') = Len(log)
           /\ \A t \in Tasks : box'[t] = box[t] \/ (box'[t] = "silent" /\ box[t] = "up")
           /\ \/ /\ job' = job /\ Left' = Left
                 /\ \A t \in Tasks : log'[t] = IF Pending(t)
                      THEN [log[t] EXCEPT !.st = "Done", !.verdict = "closed"] ELSE log[t]
              \/ /\ job' = "Revoked" /\ Left' = After /\ log' = log
                 /\ \A t \in Tasks : ~Pending(t)
<1>1. ~Idle /\ todo[1].op = "revoke"
  BY InHand DEF RevokeJob
<1>2. Fixed /\ slice' = None /\ tip' = tip /\ draining' = draining /\ crashes' = crashes
      /\ watched' = watched /\ box' = Kill(Stamped)
  BY StagesFixed DEF RevokeJob
<1>3. KindTyped /\ LogTyped /\ TodoTyped
  BY DEF TypeOK
<1>4. PICK ts : ts = Stamped
  OBVIOUS
<1>5. /\ box' \in Seq(Boxes) /\ Len(box') = Len(box)
      /\ \A t \in Tasks : box'[t] = IF t \in ts /\ box[t] = "up" THEN "silent" ELSE box[t]
  BY <1>2, <1>3, <1>4, KilledBoxes
<1>6. CASE \E t \in Tasks : Pending(t)
  <2>1. /\ log' = [t \in Tasks |-> IF Pending(t)
                     THEN [log[t] EXCEPT !.st = "Done", !.verdict = "closed"] ELSE log[t]]
        /\ job' = job /\ todo' = todo
    BY <1>6 DEF RevokeJob
  <2>2. /\ Tasks' = Tasks /\ Len(log') = Len(log)
        /\ \A t \in Tasks : log'[t] = IF Pending(t)
             THEN [log[t] EXCEPT !.st = "Done", !.verdict = "closed"] ELSE log[t]
    BY <1>2, <1>3, <1>5, <2>1, InboxClosed DEF Fixed, LogTyped
  <2>3. Left' = Left
    BY <2>1 DEF Left
  <2> QED
    BY <1>1, <1>2, <1>5, <2>1, <2>2, <2>3
<1>7. CASE ~\E t \in Tasks : Pending(t)
  <2>1. job' = "Revoked" /\ log' = log /\ Then(<<>>)
    BY <1>7 DEF RevokeJob
  <2>2. Left' = After /\ Tasks' = Tasks
    BY <1>3, <2>1, LeftNone DEF Tasks
  <2> QED
    BY <1>1, <1>2, <1>5, <1>7, <2>1, <2>2
<1> QED
  BY <1>6, <1>7

LEMMA StartJobIs ==
    ASSUME TypeOK, StartJob
    PROVE  /\ Idle /\ Calm /\ job = "Ready" /\ job' = job /\ slice' = slice /\ slice = None
           /\ Left' = {[op |-> "enter", cycle |-> 1, n |-> 0, of |-> "none"]}
<1>1. Idle /\ job = "Ready" /\ job' = job /\ slice' = slice /\ slice = None /\ Calm
  BY CalmIs DEF StartJob, Listening, TypeOK, Unstarted
<1>2. todo' = <<[op |-> "enter", cycle |-> 1, n |-> 0, of |-> "none"]>>
  BY DEF StartJob, Do
<1> QED
  BY <1>1, <1>2, LeftBegins

LEMMA RevokeIs ==
    ASSUME TypeOK, Revoke
    PROVE  /\ Idle /\ Calm /\ job # "Revoked" /\ job' = job /\ slice' = slice
           /\ Left' = {[op |-> "revoke", cycle |-> 0, n |-> 0, of |-> "none"]}
<1>1. Idle /\ job # "Revoked" /\ job' = job /\ slice' = slice /\ Calm
  BY CalmIs DEF Revoke, Listening
<1>2. todo' = <<[op |-> "revoke", cycle |-> 0, n |-> 0, of |-> "none"]>>
  BY DEF Revoke, Do
<1> QED
  BY <1>1, <1>2, LeftBegins

LEMMA DeadlineScanIs ==
    ASSUME TypeOK, DeadlineScan
    PROVE  /\ Idle /\ "deadline" \in Faults /\ Fixed /\ SameTasks /\ tip' = tip
           /\ draining' = draining /\ crashes' = crashes /\ slice' = None
           /\ job # "Revoked" /\ job' \in {"Escalated", "Stalled"}
           /\ Left' = {[op |-> "inbox", cycle |-> 0, n |-> 0, of |-> "none"]}
           /\ \A t \in Tasks : box'[t] = box[t] \/ (box'[t] = "silent" /\ box[t] = "up")
<1>1. /\ Idle /\ "deadline" \in Faults /\ tip' = tip /\ draining' = draining /\ crashes' = crashes
      /\ slice' = None /\ job # "Revoked" /\ job' \in {"Escalated", "Stalled"}
      /\ box' = Kill(Stamped)
  BY DEF DeadlineScan, Listening
<1>2. Fixed /\ SameTasks
  BY LogIsSame, StagesFixed DEF DeadlineScan
<1>3. todo' = <<[op |-> "inbox", cycle |-> 0, n |-> 0, of |-> "none"]>>
  BY DEF DeadlineScan, Do
<1>4. \A t \in Tasks : box'[t] = box[t] \/ (box'[t] = "silent" /\ box[t] = "up")
  <2>1. PICK ts : ts = Stamped
    OBVIOUS
  <2>2. \A t \in Tasks : box'[t] = IF t \in ts /\ box[t] = "up" THEN "silent" ELSE box[t]
    BY <1>1, <2>1, KilledBoxes DEF TypeOK
  <2> QED
    BY <2>2
<1> QED
  BY <1>1, <1>2, <1>3, <1>4, LeftBegins

LEMMA RestartLeft ==
    ASSUME TypeOK, Restart
    PROVE  /\ Fixed /\ SameTasks /\ box' = box /\ tip' = tip /\ job' = job /\ slice' = None
           /\ draining' = FALSE /\ crashes \in Nat /\ crashes' = crashes + 1
           /\ Left' = {[op |-> "recover", cycle |-> 0, n |-> 0, of |-> "none"],
                       [op |-> "sweep", cycle |-> 0, n |-> 0, of |-> "none"]}
<1>1. /\ box' = box /\ tip' = tip /\ job' = job /\ slice' = None /\ draining' = FALSE
      /\ crashes' = crashes + 1 /\ crashes \in Nat /\ Fixed
  BY StagesFixed DEF Restart, TypeOK, JobTyped
<1>2. SameTasks
  <2>1. \A t \in Tasks : log[t] \in TaskRecords
    BY TasksAre DEF TypeOK
  <2>2. /\ Tasks' = Tasks /\ Len(log') = Len(log)
        /\ \A t \in Tasks : log'[t] = log[t] \/ log'[t] = [log[t] EXCEPT !.cid = TRUE]
    BY RestartIs
  <2>3. \A t \in Tasks : Alike(log'[t], log[t])
    <3> SUFFICES ASSUME NEW t \in Tasks PROVE Alike(log'[t], log[t])
      OBVIOUS
    <3>1. PICK r : r = log'[t]
      OBVIOUS
    <3>2. r = log[t] \/ r = [log[t] EXCEPT !.cid = TRUE]
      BY <2>2, <3>1
    <3>3. Alike(r, log[t])
      BY <2>1, <3>2 DEF Alike, TaskRecords
    <3> QED
      BY <3>1, <3>3
  <2> QED
    BY <2>2, <2>3 DEF SameTasks
<1>3. PICK x, y : /\ x = [op |-> "recover", cycle |-> 0, n |-> 0, of |-> "none"]
                  /\ y = [op |-> "sweep", cycle |-> 0, n |-> 0, of |-> "none"]
  OBVIOUS
<1>4. x \in Chores /\ y \in Chores
  BY <1>3 DEF Chores, Ops
<1>5. PICK a, b, l : a = <<x>> /\ b = <<y>> /\ l = a \o b
  OBVIOUS
<1>6. a \in Seq(Chores) /\ ToSet(a) = {x} /\ b \in Seq(Chores) /\ ToSet(b) = {y}
  BY <1>4, <1>5, Single
<1>7. /\ \A z \in ToSet(l) : z \in ToSet(a) \/ z \in ToSet(b)
      /\ \A z \in ToSet(a) \cup ToSet(b) : z \in ToSet(l)
  BY <1>5, <1>6, Joined
<1>8. ToSet(l) = {x, y}
  BY <1>6, <1>7
<1>9. todo' = l
  BY <1>3, <1>5 DEF Restart, Do
<1>10. Left' = {x, y}
  BY <1>8, <1>9 DEF Left, ToSet
<1> QED
  BY <1>1, <1>2, <1>3, <1>10

\* What is recovered of a job at work is what its last attempt asks for.
LEMMA RecoverWorkIs ==
    ASSUME KindTyped, LogTyped, NEW c \in Nat, NEW l, l = RecoverWork(c)
    PROVE  LET last == Latest(WorkTasks(c)) IN
           \/ l = <<>> /\ last \in Tasks /\ log[last].st = "Pending"
           \/ /\ l = Do("attach", 0, last, "none") /\ last \in Tasks
              /\ log[last].phase = "Work" /\ log[last].cycle = c /\ log[last].st = "Running"
           \/ /\ last # 0 => log[last].st \in {"Done", "Failed"}
              /\ \/ \E n \in Nat : l = Do("attempt", c, n, "none")
                 \/ \E t \in Tasks : l = Do("escalate", 0, t, "work")
                 \/ l = Do("evaluate", 0, 0, "none")
<1> DEFINE last == Latest(WorkTasks(c))
<1>1. last \in {0} \cup Tasks /\ (last # 0 => last \in WorkTasks(c))
  BY LineageIs DEF WorkTasks
<1> HIDE DEF last
<1>2. CASE last = 0
  <2>1. l = Do("attempt", c, 1, "none")
    BY <1>2 DEF RecoverWork, last
  <2> QED
    BY <1>2, <2>1 DEF last
<1>3. CASE last # 0
  <2>1. PICK t \in Tasks : t = last
    BY <1>1, <1>3
  <2>2. log[t] \in TaskRecords /\ log[t].phase = "Work" /\ log[t].cycle = c
    BY <1>1, <1>3, <2>1, TasksAre DEF WorkTasks, Lineage
  <2>3. l = CASE log[t].st = "Pending" -> <<>>
              [] log[t].st = "Running" -> Do("attach", 0, t, "none")
              [] log[t].st = "Done"    -> Do("evaluate", 0, 0, "none")
              [] log[t].st = "Failed"  -> RetryWork(t)
    BY <1>3, <2>1, Zenon DEF RecoverWork, last
  <2>4. log[t].st \in {"Pending", "Running", "Done", "Failed"}
    BY <2>2 DEF TaskRecords
  <2>5. CASE log[t].st = "Pending"
    BY <2>1, <2>3, <2>5 DEF last
  <2>6. CASE log[t].st = "Running"
    <3>1. l = Do("attach", 0, t, "none")
      BY <2>3, <2>6
    <3> QED
      BY <2>1, <2>2, <2>6, <3>1 DEF last
  <2>7. CASE log[t].st = "Done"
    <3>1. l = Do("evaluate", 0, 0, "none")
      BY <2>3, <2>7
    <3> QED
      BY <2>1, <2>7, <3>1 DEF last
  <2>8. CASE log[t].st = "Failed"
    <3>1. l = RetryWork(t)
      BY <2>3, <2>8
    <3>2. \/ \E n \in Nat : l = Do("attempt", c, n, "none")
          \/ l = Do("escalate", 0, t, "work")
      BY <2>2, <3>1, RetryIs
    <3> QED
      BY <2>1, <2>8, <3>2 DEF last
  <2> QED
    BY <2>4, <2>5, <2>6, <2>7, <2>8
<1> QED
  BY <1>2, <1>3

\* What the end of task t is, as its task, the slice and what is left to do
\* tell it: nothing, the end of an attempt, a slot that is tried again, one that
\* is closed, or the end of a task no slot waits for.
TaskKept == log' = log /\ slice' = slice /\ Left' = After
WorkEnded(t) ==
    /\ slice # None /\ slice' = slice
    /\ log[t].phase = "Work" /\ (Idle => log[t].st = "Running")
    /\ \/ /\ log'[t].st = "Done"
          /\ Left' = {[op |-> "evaluate", cycle |-> 0, n |-> 0, of |-> "none"]} \cup After
       \/ /\ log'[t].st = "Failed"
          /\ \E n \in Nat : Left' =
               {[op |-> "attempt", cycle |-> log[t].cycle, n |-> n, of |-> "none"]} \cup After
       \/ /\ log'[t].st = "Failed"
          /\ \E why \in {"work", "loss"} : Left' =
               {[op |-> "escalate", cycle |-> 0, n |-> t, of |-> why]} \cup After
SlotAgain(t) ==
    /\ slice # None /\ slice' = slice
    /\ log[t].phase = "Evaluation" /\ Rounding /\ slice.round.slot[log[t].about].task = t
    /\ log'[t].st = "Failed" /\ (Idle => OpenSlot(t))
    /\ \/ \E n \in Nat : Left' =
            {[op |-> "launch", cycle |-> 0, n |-> n, of |-> log[t].about],
             [op |-> "slots", cycle |-> 0, n |-> 0, of |-> log[t].about]} \cup After
       \/ Left' = {[op |-> "escalate", cycle |-> 0, n |-> t, of |-> "loss"]} \cup After
SlotEnded(t) ==
    /\ slice # None /\ OpenSlot(t)
    /\ slice' # None /\ Rounding' /\ slice'.cycle = slice.cycle
    /\ slice'.round.stage = slice.round.stage
    /\ \E out \in {"infra", "pass", "fail", "abort"} :
         /\ slice'.round.slot[log[t].about] = [task |-> t, out |-> out]
         /\ IF out = "infra" THEN log'[t].st = "Failed"
            ELSE log'[t].st = "Done" /\ log'[t].verdict = out
    /\ \A ev \in Evaluators \ {log[t].about} : slice'.round.slot[ev] = slice.round.slot[ev]
    /\ Left' = {[op |-> "settle", cycle |-> 0, n |-> 0, of |-> "none"]} \cup After
SlotNone(t) ==
    /\ slice # None /\ slice' = slice
    /\ log[t].phase = "Evaluation" /\ log'[t].st = "Failed" /\ Left' = After /\ ~Idle
    /\ ~(Rounding /\ slice.round.slot[log[t].about].task = t)
TaskEnds(t) ==
    /\ Fixed /\ Tasks' = Tasks /\ Len(log') = Len(log)
    /\ \A u \in Tasks \ {t} : log'[u] = log[u]
    /\ log'[t] \in TaskRecords /\ Same(t, log'[t])
    /\ TaskKept \/ WorkEnded(t) \/ SlotAgain(t) \/ SlotEnded(t) \/ SlotNone(t)

\* It is one of those that every end of a task leads to.
LEMMA HandledIs ==
    ASSUME TypeOK, NEW t \in Tasks, Handled(t), kind' = kind, approval' = approval
    PROVE  TaskEnds(t)
<1>1. KindTyped /\ LogTyped /\ SliceTyped /\ TodoTyped
  BY DEF TypeOK
<1>2. Fixed
  BY StagesFixed
<1>3. log[t] \in TaskRecords /\ TaskTyped(log[t]) /\ log \in Seq(TaskRecords) /\ t \in DOMAIN log
  BY TasksAre DEF TypeOK, LogTyped, Tasks
<1>4. CASE UNCHANGED <<log, slice>> /\ Then(<<>>)
  <2>1. TaskKept
    BY <1>1, <1>4, LeftNone DEF TaskKept
  <2>2. Same(t, log[t])
    BY <1>3 DEF Same
  <2>3. log'[t] = log[t] /\ Tasks' = Tasks /\ Len(log') = Len(log)
    BY <1>4 DEF Tasks
  <2>4. \A u \in Tasks \ {t} : log'[u] = log[u]
    BY <1>4
  <2>5. Same(t, log'[t]) /\ log'[t] \in TaskRecords
    BY <1>3, <2>2, <2>3
  <2> QED
    BY <1>2, <2>1, <2>3, <2>4, <2>5 DEF TaskEnds
<1>5. ASSUME slice # None, NEW r \in TaskRecords,
             log' = [log EXCEPT ![t] = r], Same(t, r),
             WorkHandled(t, r) \/ SlotHandled(t, r) \/ SlotClosed(t, r) \/ NobodyWaits(t, r)
      PROVE  TaskEnds(t)
  <2>1. Tasks' = Tasks /\ Len(log') = Len(log) /\ log'[t] = r /\ \A u \in Tasks \ {t} : log'[u] = log[u]
    BY <1>3, <1>5 DEF Tasks
  <2>2. {"evaluate", "attempt", "escalate", "settle"} \subseteq Ops /\ t \in Nat
        /\ {"none", "work", "loss"} \subseteq Names \cup Reasons \cup {"none", "all"}
        /\ log[t].cycle \in Nat /\ 0 \in Nat
    <3>1. t \in Nat
      BY <1>1, TasksAre
    <3> QED
      BY <1>3, <3>1 DEF Ops, Reasons, TaskRecords
  <2>3. CASE WorkHandled(t, r)
    <3>1. ASSUME r.st = "Done", Then(Do("evaluate", 0, 0, "none")) PROVE WorkEnded(t)
      <4>1. Left' = {[op |-> "evaluate", cycle |-> 0, n |-> 0, of |-> "none"]} \cup After
        BY <1>1, <2>2, <3>1, LeftOne
      <4> QED
        BY <1>5, <2>1, <2>3, <3>1, <4>1 DEF WorkEnded, WorkHandled
    <3>2. ASSUME r.st = "Failed", NEW n \in Nat, Then(Do("attempt", log[t].cycle, n, "none"))
          PROVE  WorkEnded(t)
      <4>1. PICK c \in Nat : c = log[t].cycle
        BY <2>2
      <4>2. Left' = {[op |-> "attempt", cycle |-> c, n |-> n, of |-> "none"]} \cup After
        BY <1>1, <2>2, <3>2, <4>1, LeftOne
      <4> QED
        BY <1>5, <2>1, <2>3, <3>2, <4>1, <4>2 DEF WorkEnded, WorkHandled
    <3>3. ASSUME r.st = "Failed", NEW why \in {"work", "loss"}, Then(Do("escalate", 0, t, why))
          PROVE  WorkEnded(t)
      <4>1. why \in Names \cup Reasons \cup {"none", "all"}
        BY <2>2
      <4>2. Left' = {[op |-> "escalate", cycle |-> 0, n |-> t, of |-> why]} \cup After
        BY <1>1, <2>2, <3>3, <4>1, LeftOne
      <4> QED
        BY <1>5, <2>1, <2>3, <3>3, <4>2 DEF WorkEnded, WorkHandled
    <3>4. WorkEnded(t)
      BY <2>3, <3>1, <3>2, <3>3 DEF WorkHandled
    <3> QED
      BY <1>2, <1>5, <2>1, <3>4 DEF TaskEnds
  <2>4. CASE SlotHandled(t, r)
    <3>0. log[t].about \in Evaluators
      BY <1>3, <2>4 DEF SlotHandled, TaskTyped
    <3>1. ASSUME NEW n \in Nat, Then(Relaunch(log[t].about, n)) PROVE SlotAgain(t)
      <4>1. PICK ev \in Evaluators : ev = log[t].about
        BY <3>0
      <4>2. Left' = {[op |-> "launch", cycle |-> 0, n |-> n, of |-> ev],
                     [op |-> "slots", cycle |-> 0, n |-> 0, of |-> ev]} \cup After
        BY <1>1, <3>1, <4>1, Relaunched
      <4> QED
        BY <1>5, <2>1, <2>4, <4>1, <4>2 DEF SlotAgain, SlotHandled
    <3>2. ASSUME Then(Do("escalate", 0, t, "loss")) PROVE SlotAgain(t)
      <4>1. Left' = {[op |-> "escalate", cycle |-> 0, n |-> t, of |-> "loss"]} \cup After
        BY <1>1, <2>2, <3>2, LeftOne
      <4> QED
        BY <1>5, <2>1, <2>4, <4>1 DEF SlotAgain, SlotHandled
    <3>3. SlotAgain(t)
      BY <2>4, <3>1, <3>2 DEF SlotHandled
    <3> QED
      BY <1>2, <1>5, <2>1, <3>3 DEF TaskEnds
  <2>5. CASE SlotClosed(t, r)
    <3>1. PICK out \in {"infra", "pass", "fail", "abort"} :
            /\ SlotIs(t, out)
            /\ IF out = "infra" THEN r.st = "Failed" ELSE r.st = "Done" /\ r.verdict = out
      BY <2>5 DEF SlotClosed
    <3>2. OpenSlot(t) /\ Rounding /\ log[t].about \in Evaluators
      BY <1>3, <2>5 DEF SlotClosed, OpenSlot, TaskTyped
    <3>3. PICK ev \in Evaluators : ev = log[t].about
      BY <3>2
    <3>4. slice.round.slot[ev].task = t /\ out \in Outcomes
      BY <3>2, <3>3 DEF OpenSlot, Outcomes
    <3>5. /\ slice' # None /\ Rounding' /\ slice'.cycle = slice.cycle
          /\ slice'.round.stage = slice.round.stage
          /\ slice'.round.slot[ev] = [task |-> t, out |-> out]
          /\ \A e \in Evaluators \ {ev} : slice'.round.slot[e] = slice.round.slot[e]
      <4>1. slice' = [slice EXCEPT !.round.slot[ev].out = out] /\ Evaluators' = Evaluators
        BY <1>2, <3>1, <3>3 DEF SlotIs, Fixed
      <4> QED
        BY <1>1, <3>2, <3>4, <4>1, SlotSet
    <3>6. Left' = {[op |-> "settle", cycle |-> 0, n |-> 0, of |-> "none"]} \cup After
      <4>1. Then(Do("settle", 0, 0, "none"))
        BY <3>1 DEF SlotIs
      <4> QED
        BY <1>1, <2>2, <4>1, LeftOne
    <3>7. SlotEnded(t)
      BY <1>5, <2>1, <3>1, <3>2, <3>3, <3>5, <3>6 DEF SlotEnded
    <3> QED
      BY <1>2, <1>5, <2>1, <3>7 DEF TaskEnds
  <2>6. CASE NobodyWaits(t, r)
    <3>1. Left' = After
      BY <1>1, <2>6, LeftNone DEF NobodyWaits
    <3>2. SlotNone(t)
      BY <1>5, <2>1, <2>6, <3>1 DEF SlotNone, NobodyWaits
    <3> QED
      BY <1>2, <1>5, <2>1, <3>2 DEF TaskEnds
  <2> QED
    BY <1>5, <2>3, <2>4, <2>5, <2>6
<1> QED
  BY <1>4, <1>5 DEF Handled

\* What a restart finds is what the task log says.
LEMMA RecoverLeft ==
    ASSUME TypeOK, Recover
    PROVE  /\ ~Idle /\ todo[1].op = "recover" /\ Calm /\ job' = job /\ ~Rounding'
           /\ job \in {"Work", "Evaluation"} => slice' # None /\ slice'.cycle = TopCycle
           /\ job \notin {"Work", "Evaluation"} => slice' = None
           /\ \/ /\ Left' = After /\ job # "Evaluation"
                 /\ job = "Work" => \E t \in Tasks : t = Latest(WorkTasks(TopCycle)) /\ Pending(t)
                 /\ job \in {"Escalated", "Stalled"} =>
                      \E t \in Tasks : log[t].phase = "Escalation" /\ Pending(t)
              \/ /\ job \in {"Escalated", "Stalled"}
                 /\ Left' = {[op |-> "inbox", cycle |-> 0, n |-> 0, of |-> "none"]} \cup After
                 /\ ~\E t \in Tasks : log[t].phase = "Escalation" /\ Pending(t)
              \/ /\ job = "Work"
                 /\ \E t \in Tasks :
                      /\ t = Latest(WorkTasks(TopCycle))
                      /\ log[t].phase = "Work" /\ log[t].cycle = TopCycle /\ log[t].st = "Running"
                      /\ Left' = {[op |-> "attach", cycle |-> 0, n |-> t, of |-> "none"]} \cup After
              \/ /\ job = "Work"
                 /\ Latest(WorkTasks(TopCycle)) # 0 =>
                      log[Latest(WorkTasks(TopCycle))].st \in {"Done", "Failed"}
                 /\ \/ \E n \in Nat : Left' =
                         {[op |-> "attempt", cycle |-> TopCycle, n |-> n, of |-> "none"]} \cup After
                    \/ \E t \in Tasks : Left' =
                         {[op |-> "escalate", cycle |-> 0, n |-> t, of |-> "work"]} \cup After
                    \/ Left' = {[op |-> "evaluate", cycle |-> 0, n |-> 0, of |-> "none"]} \cup After
              \/ /\ job = "Evaluation" /\ Stages = <<>>
                 /\ Left' = {[op |-> "finalize", cycle |-> 0, n |-> 0, of |-> "none"]} \cup After
              \/ job = "Evaluation" /\ Stages # <<>> /\ Then(RecoverEvaluation(TopCycle))
<1>1. KindTyped /\ LogTyped /\ TodoTyped
  BY DEF TypeOK
<1>2. ~Idle /\ todo[1].op = "recover" /\ job' = job /\ Calm
  BY InHand, CalmIs DEF Recover
<1>3. /\ Rebuilt # None /\ Rebuilt.cycle = TopCycle /\ Rebuilt.round = None
      /\ slice' = IF job \in {"Work", "Evaluation"} THEN Rebuilt ELSE None
  BY <1>1, RebuiltIs DEF Recover
<1>4. /\ ~Rounding' /\ (job \in {"Work", "Evaluation"} => slice' # None /\ slice'.cycle = TopCycle)
      /\ (job \notin {"Work", "Evaluation"} => slice' = None)
  BY <1>3 DEF Rounding
<1>5. PICK c \in Nat : c = TopCycle
  BY <1>1, TopCycleIs
<1>6. /\ {"attempt", "escalate", "evaluate", "attach", "inbox", "finalize"} \subseteq Ops
      /\ 0 \in Nat /\ Tasks \subseteq Nat
      /\ {"none", "work"} \subseteq Names \cup Reasons \cup {"none", "all"}
  BY <1>1, TasksAre DEF Ops, Reasons
<1>7. CASE job = "Work"
  <2>1. PICK l : l = RecoverWork(c)
    OBVIOUS
  <2>2. Then(l)
    BY <1>3, <1>5, <1>7, <2>1 DEF Recover
  <2>3. PICK last : last = Latest(WorkTasks(c))
    OBVIOUS
  <2>4. \/ l = <<>> /\ last \in Tasks /\ log[last].st = "Pending"
        \/ /\ l = Do("attach", 0, last, "none") /\ last \in Tasks
           /\ log[last].phase = "Work" /\ log[last].cycle = c /\ log[last].st = "Running"
        \/ /\ last # 0 => log[last].st \in {"Done", "Failed"}
           /\ \/ \E n \in Nat : l = Do("attempt", c, n, "none")
              \/ \E t \in Tasks : l = Do("escalate", 0, t, "work")
              \/ l = Do("evaluate", 0, 0, "none")
    BY <1>1, <2>1, <2>3, RecoverWorkIs
  <2>5. CASE l = <<>> /\ last \in Tasks /\ log[last].st = "Pending"
    <3>1. Left' = After
      BY <1>1, <2>2, <2>5, LeftNone
    <3> QED
      BY <1>2, <1>4, <1>5, <1>7, <2>3, <2>5, <3>1 DEF Pending
  <2>6. CASE /\ l = Do("attach", 0, last, "none") /\ last \in Tasks
             /\ log[last].phase = "Work" /\ log[last].cycle = c /\ log[last].st = "Running"
    <3>1. Then(Do("attach", 0, last, "none")) /\ last \in Nat
      BY <1>6, <2>2, <2>6
    <3>2. Left' = {[op |-> "attach", cycle |-> 0, n |-> last, of |-> "none"]} \cup After
      BY <1>1, <1>6, <3>1, LeftOne
    <3> QED
      BY <1>2, <1>4, <1>5, <1>7, <2>3, <2>6, <3>2
  <2>7. CASE /\ last # 0 => log[last].st \in {"Done", "Failed"}
             /\ \/ \E n \in Nat : l = Do("attempt", c, n, "none")
                \/ \E t \in Tasks : l = Do("escalate", 0, t, "work")
                \/ l = Do("evaluate", 0, 0, "none")
    <3>1. ASSUME NEW n \in Nat, l = Do("attempt", c, n, "none")
          PROVE  Left' = {[op |-> "attempt", cycle |-> c, n |-> n, of |-> "none"]} \cup After
      <4>1. Then(Do("attempt", c, n, "none"))
        BY <2>2, <3>1
      <4> QED
        BY <1>1, <1>6, <4>1, LeftOne
    <3>2. ASSUME NEW t \in Tasks, l = Do("escalate", 0, t, "work")
          PROVE  Left' = {[op |-> "escalate", cycle |-> 0, n |-> t, of |-> "work"]} \cup After
      <4>1. Then(Do("escalate", 0, t, "work")) /\ t \in Nat
        BY <1>6, <2>2, <3>2
      <4> QED
        BY <1>1, <1>6, <4>1, LeftOne
    <3>3. ASSUME l = Do("evaluate", 0, 0, "none")
          PROVE  Left' = {[op |-> "evaluate", cycle |-> 0, n |-> 0, of |-> "none"]} \cup After
      <4>1. Then(Do("evaluate", 0, 0, "none"))
        BY <2>2, <3>3
      <4> QED
        BY <1>1, <1>6, <4>1, LeftOne
    <3>4. \/ \E n \in Nat : Left' =
               {[op |-> "attempt", cycle |-> c, n |-> n, of |-> "none"]} \cup After
          \/ \E t \in Tasks : Left' =
               {[op |-> "escalate", cycle |-> 0, n |-> t, of |-> "work"]} \cup After
          \/ Left' = {[op |-> "evaluate", cycle |-> 0, n |-> 0, of |-> "none"]} \cup After
      BY <2>7, <3>1, <3>2, <3>3
    <3> QED
      BY <1>2, <1>4, <1>5, <1>7, <2>3, <2>7, <3>4
  <2> QED
    BY <2>4, <2>5, <2>6, <2>7
<1>8. CASE job = "Evaluation"
  <2>1. Then(RecoverEvaluation(TopCycle))
    BY <1>3, <1>8 DEF Recover
  <2>2. CASE Stages = <<>>
    <3>1. RecoverEvaluation(TopCycle) = Do("finalize", 0, 0, "none")
      BY <2>2, Zenon DEF RecoverEvaluation
    <3>2. Then(Do("finalize", 0, 0, "none"))
      BY <2>1, <3>1
    <3>3. Left' = {[op |-> "finalize", cycle |-> 0, n |-> 0, of |-> "none"]} \cup After
      BY <1>1, <1>6, <3>2, LeftOne
    <3> QED
      BY <1>2, <1>4, <1>8, <2>2, <3>3
  <2> QED
    BY <1>2, <1>4, <1>8, <2>1, <2>2
<1>9. CASE job \notin {"Work", "Evaluation"}
  <2> DEFINE inbox == \E t \in Tasks : log[t].phase = "Escalation" /\ Pending(t)
  <2>1. CASE job \in {"Escalated", "Stalled"} /\ ~inbox
    <3>1. Then(Do("inbox", 0, 0, "none"))
      BY <1>9, <2>1 DEF Recover
    <3>2. Left' = {[op |-> "inbox", cycle |-> 0, n |-> 0, of |-> "none"]} \cup After
      BY <1>1, <1>6, <3>1, LeftOne
    <3> QED
      BY <1>2, <1>4, <1>9, <2>1, <3>2
  <2>2. CASE ~(job \in {"Escalated", "Stalled"} /\ ~inbox)
    <3>1. Then(<<>>)
      BY <1>9, <2>2 DEF Recover
    <3>2. Left' = After
      BY <1>1, <3>1, LeftNone
    <3> QED
      BY <1>2, <1>4, <1>9, <2>2, <3>2
  <2> QED
    BY <2>1, <2>2
<1> QED
  BY <1>7, <1>8, <1>9

\* What else changes when a task ends: the container, never the job.
Unmoved == job' = job /\ tip' = tip /\ draining' = draining /\ crashes' = crashes

LEMMA AttachEnds ==
    ASSUME TypeOK, Attach
    PROVE  /\ ~Idle /\ todo[1].op = "attach" /\ todo[1].n \in Tasks
           /\ log[todo[1].n].phase # "Escalation"
           /\ TaskEnds(todo[1].n) /\ Unmoved /\ box' = box
<1>1. PICK t \in Tasks : t = todo[1].n /\ Handled(t) /\ log[t].phase # "Escalation"
  BY AttachIs
<1>2. ~Idle /\ todo[1].op = "attach" /\ kind' = kind /\ approval' = approval /\ box' = box /\ Unmoved
  BY InHand DEF Attach, Unmoved
<1>3. TaskEnds(t)
  BY <1>1, <1>2, HandledIs
<1> QED
  BY <1>1, <1>2, <1>3

LEMMA ExitEnds ==
    ASSUME TypeOK, NEW t \in Tasks, Exit(t)
    PROVE  /\ Idle /\ job \notin {"WrapUp", "Revoked"} /\ TaskEnds(t) /\ Unmoved
           /\ box[t] \in Ended /\ \A u \in Tasks : box'[u] = IF u = t THEN "gone" ELSE box[u]
<1>1. /\ Idle /\ job \notin {"WrapUp", "Revoked"} /\ box[t] \in Ended
      /\ kind' = kind /\ approval' = approval /\ Unmoved
  BY DEF Exit, Listening, Unmoved
<1>2. TaskEnds(t)
  <2>1. Handled(t)
    BY ExitHandled DEF Exit
  <2> QED
    BY <1>1, <2>1, HandledIs
<1>3. \A u \in Tasks : box'[u] = IF u = t THEN "gone" ELSE box[u]
  <2>1. "gone" \in Boxes /\ LogTyped
    BY DEF Boxes, Ended, TypeOK
  <2>2. box' = [box EXCEPT ![t] = "gone"]
    BY DEF Exit
  <2> QED
    BY <2>1, <2>2, SetBox
<1> QED
  BY <1>1, <1>2, <1>3

LEMMA TimeoutEnds ==
    ASSUME TypeOK, NEW t \in Tasks, TimeoutScan(t)
    PROVE  /\ Idle /\ job \notin {"WrapUp", "Revoked"} /\ TaskEnds(t) /\ Unmoved
           /\ slice # None /\ log[t].st = "Running"
           /\ \A u \in Tasks : box'[u] = box[u] \/ (u = t /\ box[u] = "up" /\ box'[u] = "silent")
           /\ box'[t] = "up" => "unstamped" \in Faults
<1>1. /\ Idle /\ job \notin {"WrapUp", "Revoked"} /\ slice # None /\ log[t].st = "Running"
      /\ kind' = kind /\ approval' = approval /\ Unmoved
  BY DEF TimeoutScan, Listening, Unmoved
<1>2. TaskEnds(t)
  <2>1. Handled(t)
    BY ExitHandled DEF TimeoutScan
  <2> QED
    BY <1>1, <2>1, HandledIs
<1>3. PICK ts : ts = {t}
  OBVIOUS
<1>4. \A u \in Tasks : Kill(ts)[u] = IF u \in ts /\ box[u] = "up" THEN "silent" ELSE box[u]
  BY KilledBoxes DEF TypeOK
<1>5. CASE log[t].cid
  <2>1. box' = Kill(ts)
    BY <1>3, <1>5 DEF TimeoutScan
  <2>2. \A u \in Tasks : box'[u] = IF u = t /\ box[u] = "up" THEN "silent" ELSE box[u]
    BY <1>3, <1>4, <2>1
  <2> QED
    BY <1>1, <1>2, <2>2
<1>6. CASE ~log[t].cid
  <2>1. box' = box /\ (box[t] # "up" \/ "unstamped" \in Faults)
    BY <1>6 DEF TimeoutScan
  <2> QED
    BY <1>1, <1>2, <2>1
<1> QED
  BY <1>5, <1>6

\* The tasks and the branch are as they were; what is in hand is still in hand.
Still == Fixed /\ SameTasks /\ Unmoved /\ Left' = Left

LEMMA ContainerStartedIs ==
    ASSUME TypeOK, NEW t \in Tasks, ContainerStarted(t)
    PROVE  Idle /\ Still /\ box' = box /\ slice' = slice
<1>1. /\ Idle /\ box' = box /\ slice' = slice /\ Unmoved /\ Fixed /\ Left' = Left
  BY StagesFixed DEF ContainerStarted, Listening, memory, Unmoved, Left
<1>2. log[t] \in TaskRecords /\ log \in Seq(TaskRecords) /\ t \in DOMAIN log
      /\ log' = [log EXCEPT ![t].cid = TRUE]
  BY TasksAre DEF TypeOK, LogTyped, Tasks, ContainerStarted
<1>3. Tasks' = Tasks /\ Len(log') = Len(log)
  BY <1>2 DEF Tasks
<1>4. \A u \in Tasks : Alike(log'[u], log[u])
  <2> SUFFICES ASSUME NEW u \in Tasks PROVE Alike(log'[u], log[u])
    OBVIOUS
  <2>1. log[u] \in TaskRecords
    BY TasksAre DEF TypeOK
  <2>2. PICK r : r = log'[u]
    OBVIOUS
  <2>3. r = log[u] \/ r = [log[u] EXCEPT !.cid = TRUE]
    BY <1>2, <2>2 DEF Tasks
  <2>4. Alike(r, log[u])
    BY <2>1, <2>3 DEF Alike, TaskRecords
  <2> QED
    BY <2>2, <2>4
<1> QED
  BY <1>1, <1>3, <1>4 DEF Still, SameTasks

LEMMA SubmitResultIs ==
    ASSUME TypeOK, NEW t \in Tasks, SubmitResult(t)
    PROVE  /\ Idle /\ Still /\ box' = box /\ slice # None /\ slice' # None
           /\ slice'.cycle = slice.cycle /\ slice'.round = slice.round
<1>1. /\ Idle /\ box' = box /\ slice # None /\ Unmoved /\ Fixed /\ Left' = Left
  BY StagesFixed DEF SubmitResult, Listening, Unmoved, Left
<1> DEFINE running == Latest({u \in WorkTasks(slice.cycle) : log[u].st = "Running"})
<1>2. log' = IF running = 0 THEN log ELSE [log EXCEPT ![running].by = t]
  BY DEF SubmitResult
<1>3. PICK u : u = running
  OBVIOUS
<1> HIDE DEF running
<1>4. log \in Seq(TaskRecords) /\ (log' = log \/ log' = [log EXCEPT ![u].by = t])
  BY <1>2, <1>3 DEF TypeOK, LogTyped
<1>5. Tasks' = Tasks /\ Len(log') = Len(log)
  BY <1>4 DEF Tasks
<1>6. \A v \in Tasks : Alike(log'[v], log[v])
  <2> SUFFICES ASSUME NEW v \in Tasks PROVE Alike(log'[v], log[v])
    OBVIOUS
  <2>1. log[v] \in TaskRecords
    BY TasksAre DEF TypeOK
  <2>2. PICK r : r = log'[v]
    OBVIOUS
  <2>3. r = log[v] \/ r = [log[v] EXCEPT !.by = t]
    BY <1>4, <2>2 DEF Tasks
  <2>4. Alike(r, log[v])
    BY <2>1, <2>3 DEF Alike, TaskRecords
  <2> QED
    BY <2>2, <2>4
<1>7. slice' # None /\ slice'.cycle = slice.cycle /\ slice'.round = slice.round
  <2>1. slice \in Slices(Evaluators) /\ t \in Nat
    BY <1>1, SliceIs, TasksAre DEF TypeOK
  <2>2. slice' = [slice EXCEPT !.sub = t]
    BY DEF SubmitResult
  <2>3. slice' \in Slices(Evaluators) /\ slice'.cycle = slice.cycle /\ slice'.round = slice.round
    BY <2>1, <2>2 DEF Slices
  <2> QED
    BY <2>3, NoneIsNot DEF TypeOK
<1> QED
  BY <1>1, <1>5, <1>6, <1>7 DEF Still, SameTasks

\* One task gets a state and a verdict, and that is all there is to the log.
Answered(t, st, v) ==
    /\ Tasks' = Tasks /\ Len(log') = Len(log) /\ \A u \in Tasks \ {t} : log'[u] = log[u]
    /\ log'[t] = [log[t] EXCEPT !.st = st, !.verdict = v]
    /\ log'[t].phase = log[t].phase /\ log'[t].about = log[t].about
    /\ log'[t].cycle = log[t].cycle /\ log'[t].attempt = log[t].attempt
    /\ log'[t].tip = log[t].tip /\ log'[t].loss = log[t].loss
    /\ log'[t].st = st /\ log'[t].verdict = v

LEMMA AnsweredIs ==
    ASSUME TypeOK, NEW t \in Tasks, NEW st, NEW v,
           log' = [log EXCEPT ![t].st = st, ![t].verdict = v]
    PROVE  Answered(t, st, v)
<1>1. log[t] \in TaskRecords /\ log \in Seq(TaskRecords) /\ t \in DOMAIN log
  BY TasksAre DEF TypeOK, LogTyped, Tasks
<1>2. Tasks' = Tasks /\ Len(log') = Len(log) /\ \A u \in Tasks \ {t} : log'[u] = log[u]
  BY <1>1 DEF Tasks
<1>3. log'[t] = [log[t] EXCEPT !.st = st, !.verdict = v]
  BY <1>1
<1>4. PICK r : r = log'[t]
  OBVIOUS
<1>5. r = [log[t] EXCEPT !.st = st, !.verdict = v]
  BY <1>3, <1>4
<1>6. /\ r.phase = log[t].phase /\ r.about = log[t].about /\ r.cycle = log[t].cycle
      /\ r.attempt = log[t].attempt /\ r.tip = log[t].tip /\ r.loss = log[t].loss
      /\ r.st = st /\ r.verdict = v
  BY <1>1, <1>5 DEF TaskRecords
<1> QED
  BY <1>2, <1>3, <1>4, <1>6 DEF Answered

LEMMA SubmitEvalIs ==
    ASSUME TypeOK, NEW t \in Tasks, SubmitEval(t)
    PROVE  /\ Idle /\ job \notin {"WrapUp", "Revoked"} /\ Fixed /\ Unmoved /\ Left' = Left
           /\ box' = box /\ slice' = slice
           /\ log[t].phase = "Evaluation" /\ EvType[log[t].about] = "agent" /\ log[t].st # "Done"
           /\ box[t] \notin {"none", "refused"}
           /\ \E v \in {"pass", "fail", "abort"} : Answered(t, "Done", v)
<1>1. /\ Idle /\ job \notin {"WrapUp", "Revoked"} /\ Fixed /\ Unmoved /\ Left' = Left
      /\ box' = box /\ slice' = slice
  BY StagesFixed DEF SubmitEval, Listening, memory, Unmoved, Left
<1>2. log[t].phase = "Evaluation" /\ log[t].st # "Done" /\ box[t] \notin {"none", "refused"}
  BY DEF SubmitEval, Arrives
<1>3. EvType[log[t].about] = "agent"
  BY <1>2 DEF SubmitEval, TypeOf
<1>4. PICK v \in {"pass", "fail", "abort"} : log' = [log EXCEPT ![t].st = "Done", ![t].verdict = v]
  BY DEF SubmitEval
<1>5. Answered(t, "Done", v)
  BY <1>4, AnsweredIs
<1> QED
  BY <1>1, <1>2, <1>3, <1>5

LEMMA ResolveEscalationIs ==
    ASSUME TypeOK, NEW t \in Tasks, ResolveEscalation(t)
    PROVE  /\ Idle /\ Fixed /\ Unmoved /\ box' = box /\ Pending(t) /\ job \in {"Escalated", "Stalled"}
           /\ Answered(t, "Done", "acted") /\ ~Rounding /\ ~Rounding'
           /\ \/ job = "Escalated" /\ slice' = slice
                 /\ Left' = {[op |-> "retry", cycle |-> 0, n |-> 0, of |-> "none"]}
              \/ job = "Stalled" /\ slice' = slice
                 /\ Left' = {[op |-> "prework", cycle |-> 0, n |-> 0, of |-> "none"]}
              \/ /\ job = "Escalated" /\ slice' # None
                 /\ slice # None => slice' = slice
                 /\ slice = None => slice'.cycle = TopCycle
                 /\ Left' = {[op |-> "evaluate", cycle |-> 0, n |-> 0, of |-> "none"]}
              \/ slice' = slice
                 /\ Left' = {[op |-> "revoke", cycle |-> 0, n |-> 0, of |-> "none"]}
<1>1. /\ Idle /\ Fixed /\ Unmoved /\ box' = box /\ Pending(t) /\ job \in {"Escalated", "Stalled"}
      /\ log' = [log EXCEPT ![t].st = "Done", ![t].verdict = "acted"]
  BY StagesFixed DEF ResolveEscalation, Listening, Unmoved, Close
<1>2. Answered(t, "Done", "acted")
  BY <1>1, AnsweredIs
<1>3. ~Rounding
  BY <1>1 DEF TypeOK, SliceTyped
<1>4. ASSUME slice' = slice PROVE ~Rounding'
  BY <1>3, <1>4 DEF Rounding
<1>5. ASSUME NEW op, Then(Do(op, 0, 0, "none"))
      PROVE  Left' = {[op |-> op, cycle |-> 0, n |-> 0, of |-> "none"]}
  <2>1. todo' = <<[op |-> op, cycle |-> 0, n |-> 0, of |-> "none"]>>
    BY <1>1, <1>5, Begins
  <2> QED
    BY <2>1, LeftBegins
<1>6. CASE job = "Escalated" /\ UNCHANGED slice /\ Then(Do("retry", 0, 0, "none"))
  BY <1>1, <1>2, <1>3, <1>4, <1>5, <1>6
<1>7. CASE job = "Stalled" /\ UNCHANGED slice /\ Then(Do("prework", 0, 0, "none"))
  BY <1>1, <1>2, <1>3, <1>4, <1>5, <1>7
<1>8. CASE job = "Escalated" /\ slice' = Ensured /\ Then(Do("evaluate", 0, 0, "none"))
  <2>1. /\ Ensured # None /\ (slice # None => Ensured = slice)
        /\ (slice = None => Ensured.cycle = TopCycle)
        /\ (Ensured.round # None => Rounding)
    BY EnsuredIs DEF TypeOK
  <2>2. ~Rounding'
    BY <1>3, <1>8, <2>1 DEF Rounding
  <2> QED
    BY <1>1, <1>2, <1>3, <1>5, <1>8, <2>1, <2>2
<1>9. CASE UNCHANGED slice /\ Then(Do("revoke", 0, 0, "none"))
  BY <1>1, <1>2, <1>3, <1>4, <1>5, <1>9
<1> QED
  BY <1>1, <1>6, <1>7, <1>8, <1>9 DEF ResolveEscalation

LEMMA ResolveWorkIs ==
    ASSUME TypeOK, NEW t \in Tasks, ResolveWork(t)
    PROVE  /\ Idle /\ Fixed /\ Unmoved /\ box' = box /\ Pending(t) /\ job = "Work"
           /\ slice' # None /\ ~Rounding /\ ~Rounding'
           /\ slice # None => slice' = slice
           /\ slice = None => slice'.cycle = TopCycle
           /\ \/ /\ Answered(t, "Done", "pass")
                 /\ Left' = {[op |-> "evaluate", cycle |-> 0, n |-> 0, of |-> "none"]}
              \/ /\ Answered(t, "Failed", "fail")
                 /\ \/ \E n \in Nat : Left' =
                         {[op |-> "attempt", cycle |-> log[t].cycle, n |-> n, of |-> "none"]}
                    \/ Left' = {[op |-> "escalate", cycle |-> 0, n |-> t, of |-> "work"]}
<1>1. /\ Idle /\ Fixed /\ Unmoved /\ box' = box /\ Pending(t) /\ job = "Work" /\ slice' = Ensured
  BY StagesFixed DEF ResolveWork, Listening, Unmoved
<1>2. KindTyped /\ LogTyped /\ SliceTyped /\ ~Rounding
  BY <1>1 DEF TypeOK, SliceTyped
<1>3. /\ slice' # None /\ (slice # None => slice' = slice) /\ (slice = None => slice'.cycle = TopCycle)
      /\ ~Rounding'
  <2>1. /\ Ensured # None /\ (slice # None => Ensured = slice)
        /\ (slice = None => Ensured.cycle = TopCycle)
        /\ (Ensured.round # None => Rounding)
    BY <1>2, EnsuredIs
  <2> QED
    BY <1>1, <1>2, <2>1 DEF Rounding
<1>4. ASSUME NEW op, NEW c, NEW n, NEW of, Then(Do(op, c, n, of))
      PROVE  Left' = {[op |-> op, cycle |-> c, n |-> n, of |-> of]}
  <2>1. todo' = <<[op |-> op, cycle |-> c, n |-> n, of |-> of]>>
    BY <1>1, <1>4, Begins
  <2> QED
    BY <2>1, LeftBegins
<1>5. CASE Close(t, "Done", "pass") /\ Then(Do("evaluate", 0, 0, "none"))
  <2>1. Answered(t, "Done", "pass")
    BY <1>5, AnsweredIs DEF Close
  <2> QED
    BY <1>1, <1>2, <1>3, <1>4, <1>5, <2>1
<1>6. CASE Close(t, "Failed", "fail") /\ Then(RetryWork(t))
  <2>1. Answered(t, "Failed", "fail")
    BY <1>6, AnsweredIs DEF Close
  <2>2. \/ \E n \in Nat : Then(Do("attempt", log[t].cycle, n, "none"))
        \/ Then(Do("escalate", 0, t, "work"))
    BY <1>2, <1>6, RetryIs
  <2>3. \/ \E n \in Nat : Left' =
             {[op |-> "attempt", cycle |-> log[t].cycle, n |-> n, of |-> "none"]}
        \/ Left' = {[op |-> "escalate", cycle |-> 0, n |-> t, of |-> "work"]}
    BY <1>4, <2>2
  <2> QED
    BY <1>1, <1>2, <1>3, <2>1, <2>3
<1> QED
  BY <1>5, <1>6 DEF ResolveWork

\* An answer to an evaluation is for the slot that waits for it, or for none.
LEMMA ResolveEvalIs ==
    ASSUME TypeOK, NEW t \in Tasks, ResolveEval(t)
    PROVE  /\ Idle /\ Fixed /\ Unmoved /\ box' = box /\ Pending(t) /\ job = "Evaluation"
           /\ \E v \in {"pass", "fail", "abort"} :
                /\ Answered(t, "Done", v)
                /\ \/ OpenSlot(t) /\ TaskEnds(t) /\ SlotEnded(t)
                   \/ ~OpenSlot(t) /\ slice' = slice /\ Left' = Left
<1>1. /\ Idle /\ Fixed /\ Unmoved /\ box' = box /\ Pending(t) /\ job = "Evaluation"
      /\ kind' = kind /\ approval' = approval
  BY StagesFixed DEF ResolveEval, Listening, Unmoved
<1>2. PICK v \in {"pass", "fail", "abort"} :
        /\ log' = [log EXCEPT ![t].st = "Done", ![t].verdict = v]
        /\ IF OpenSlot(t) THEN SlotIs(t, v) ELSE UNCHANGED <<slice, todo>>
  BY DEF ResolveEval, Close
<1>3. Answered(t, "Done", v)
  BY <1>2, AnsweredIs
<1>4. CASE OpenSlot(t)
  <2>1. log[t] \in TaskRecords /\ TaskTyped(log[t]) /\ log \in Seq(TaskRecords) /\ t \in DOMAIN log
    BY TasksAre DEF TypeOK, LogTyped, Tasks
  <2> DEFINE r == [log[t] EXCEPT !.st = "Done", !.verdict = v]
  <2>2. log' = [log EXCEPT ![t] = r]
    BY <1>2, <2>1
  <2>3. r \in TaskRecords /\ Same(t, r) /\ r.st = "Done" /\ r.verdict = v
    BY <2>1 DEF TaskRecords, Same, TaskTyped
  <2> HIDE DEF r
  <2>4. SlotClosed(t, r) /\ slice # None
    BY <1>2, <1>4, <2>3 DEF SlotClosed, OpenSlot, Rounding
  <2>5. Handled(t)
    BY <2>2, <2>3, <2>4 DEF Handled
  <2>6. TaskEnds(t)
    BY <1>1, <2>5, HandledIs
  <2>7. SlotEnded(t)
    <3>1. KindTyped /\ SliceTyped /\ TodoTyped /\ Rounding /\ log[t].phase = "Evaluation"
      BY <1>4 DEF TypeOK, OpenSlot
    <3>2. PICK ev \in Evaluators : ev = log[t].about
      BY <2>1, <3>1 DEF TaskTyped
    <3>3. slice.round.slot[ev].task = t /\ v \in Outcomes /\ slice # None
      BY <1>4, <3>1, <3>2 DEF OpenSlot, Outcomes, Rounding
    <3>4. /\ slice' # None /\ Rounding' /\ slice'.cycle = slice.cycle
          /\ slice'.round.stage = slice.round.stage
          /\ slice'.round.slot[ev] = [task |-> t, out |-> v]
          /\ \A e \in Evaluators \ {ev} : slice'.round.slot[e] = slice.round.slot[e]
      <4>1. slice' = [slice EXCEPT !.round.slot[ev].out = v] /\ Evaluators' = Evaluators
        BY <1>1, <1>2, <1>4, <3>2 DEF SlotIs, Fixed
      <4> QED
        BY <3>1, <3>3, <4>1, SlotSet
    <3>5. Left' = {[op |-> "settle", cycle |-> 0, n |-> 0, of |-> "none"]} \cup After
      <4>1. Then(Do("settle", 0, 0, "none")) /\ "settle" \in Ops /\ 0 \in Nat
            /\ "none" \in Names \cup Reasons \cup {"none", "all"}
        BY <1>2, <1>4 DEF SlotIs, Ops
      <4> QED
        BY <3>1, <4>1, LeftOne
    <3> QED
      BY <1>3, <1>4, <3>2, <3>3, <3>4, <3>5 DEF SlotEnded, Answered
  <2> QED
    BY <1>1, <1>3, <1>4, <2>6, <2>7
<1>5. CASE ~OpenSlot(t)
  <2>1. slice' = slice /\ Left' = Left
    BY <1>2, <1>5 DEF Left
  <2> QED
    BY <1>1, <1>3, <1>5, <2>1
<1> QED
  BY <1>4, <1>5

\* What happens beside the actor: claims, commits, containers, the drain.
Aside ==
    \/ ClaimJob \/ UnclaimJob \/ Push \/ Drain
    \/ \E t \in Tasks : BoxEnds(t) \/ Vanish(t)
    \/ UNCHANGED vars

LEMMA AsideIs ==
    ASSUME TypeOK, Aside
    PROVE  /\ Fixed /\ SameTasks /\ log' = log /\ job' = job /\ slice' = slice /\ todo' = todo
           /\ Left' = Left /\ crashes' = crashes
           /\ draining' \in BOOLEAN /\ (draining => draining')
           /\ \A t \in Tasks : \/ box'[t] = box[t]
                               \/ box[t] \notin {"none", "refused"} /\ box'[t] \in Ended
           /\ \/ tip' = tip
              \/ /\ tip' = tip + 1 /\ box' = box /\ draining' = draining /\ tip \in Nat
                 /\ \/ \E t \in Tasks : log[t].phase = "Work" /\ (box[t] = "up" \/ Pending(t))
                    \/ Idle /\ job = "Escalated"
<1>1. tip \in Nat /\ draining \in BOOLEAN /\ LogTyped
  BY DEF TypeOK, JobTyped
<1>2. /\ Fixed /\ SameTasks /\ log' = log /\ job' = job /\ slice' = slice /\ todo' = todo
      /\ Left' = Left /\ crashes' = crashes
  <2>1. /\ kind' = kind /\ approval' = approval /\ log' = log /\ job' = job /\ slice' = slice
        /\ todo' = todo /\ crashes' = crashes
    BY DEF Aside, ClaimJob, UnclaimJob, Push, Drain, BoxEnds, Vanish, vars, memory
  <2> QED
    BY <2>1, StagesFixed, LogIsSame DEF Left
<1>3. ASSUME tip' = tip + 1, box' = box, draining' = draining,
             \/ \E t \in Tasks : log[t].phase = "Work" /\ (box[t] = "up" \/ Pending(t))
             \/ Idle /\ job = "Escalated"
      PROVE  /\ draining' \in BOOLEAN /\ (draining => draining')
             /\ \A t \in Tasks : \/ box'[t] = box[t]
                                 \/ box[t] \notin {"none", "refused"} /\ box'[t] \in Ended
             /\ \/ tip' = tip
                \/ /\ tip' = tip + 1 /\ box' = box /\ draining' = draining /\ tip \in Nat
                   /\ \/ \E t \in Tasks : log[t].phase = "Work" /\ (box[t] = "up" \/ Pending(t))
                      \/ Idle /\ job = "Escalated"
  BY <1>1, <1>3
<1>4. CASE Push
  <2>1. /\ tip' = tip + 1 /\ box' = box /\ draining' = draining
        /\ \/ \E t \in Tasks : log[t].phase = "Work" /\ (box[t] = "up" \/ Pending(t))
           \/ Idle /\ job = "Escalated"
    BY <1>4 DEF Push, memory
  <2> QED
    BY <1>2, <1>3, <2>1
<1>5. CASE ClaimJob \/ UnclaimJob \/ Drain \/ UNCHANGED vars
  <2>1. box' = box /\ tip' = tip /\ draining' \in BOOLEAN /\ (draining => draining')
    BY <1>1, <1>5 DEF ClaimJob, UnclaimJob, Drain, vars, memory
  <2> QED
    BY <1>2, <2>1
<1>6. ASSUME NEW t \in Tasks, BoxEnds(t) \/ Vanish(t)
      PROVE  /\ draining' = draining /\ tip' = tip
             /\ \A u \in Tasks : \/ box'[u] = box[u]
                                 \/ box[u] \notin {"none", "refused"} /\ box'[u] \in Ended
  <2>1. PICK b \in Ended : box' = [box EXCEPT ![t] = b] /\ box[t] \notin {"none", "refused"}
    BY <1>6 DEF BoxEnds, Vanish, Ended, Endings
  <2>2. b \in Boxes
    BY DEF Boxes
  <2>3. \A u \in Tasks : box'[u] = IF u = t THEN b ELSE box[u]
    BY <1>1, <2>1, <2>2, SetBox
  <2> QED
    BY <1>6, <2>1, <2>3 DEF BoxEnds, Vanish, memory
<1> QED
  BY <1>1, <1>2, <1>4, <1>5, <1>6 DEF Aside

LEMMA ApprovalIs ==
    ASSUME TypeOK, SetRequireApproval
    PROVE  /\ Idle /\ Left = {} /\ Left' = {} /\ job \in {"Ready", "Stalled"} /\ Unmoved
           /\ slice = None /\ slice' = None /\ log' = log /\ SameTasks /\ box' = box
           /\ kind' = kind
<1>1. /\ Idle /\ job \in {"Ready", "Stalled"} /\ Unmoved /\ log' = log /\ box' = box /\ kind' = kind
      /\ slice' = slice /\ todo' = todo
  BY DEF SetRequireApproval, Listening, Unmoved, memory
<1>2. slice = None
  BY <1>1 DEF TypeOK, Unstarted
<1>3. Left' = Left
  BY <1>1 DEF Left
<1> QED
  BY <1>1, <1>2, <1>3, AfterIs, LogIsSame DEF TypeOK

-----------------------------------------------------------------------------
(* The inbox. *)

HealOps == {"inbox", "retry", "prework", "revoke", "evaluate", "recover"}

\* What is going to open an escalation task, or to take the job out of its state.
Healing == \E x \in Left : x.op \in HealOps
HasInbox == \E t \in Tasks : log[t].phase = "Escalation" /\ Pending(t)

\* A parked job has its escalation task, or a chore sees to it: but for a drain.
InboxKept ==
    job \in {"Escalated", "Stalled"} => draining \/ Healing \/ HasInbox

LEMMA HealsAtTheHead ==
    ASSUME TodoTyped, Healing
    PROVE  ~Idle /\ todo[1].op \in HealOps
<1>1. PICK x \in Left : x.op \in HealOps
  BY DEF Healing
<1>2. x \notin After
  BY <1>1, AfterIs DEF HealOps
<1> QED
  BY <1>1, <1>2, AfterIs

\* A step that heals nothing, and leaves the tasks of the inbox alone.
LEMMA InboxStays ==
    ASSUME TypeOK, InboxKept, Idle \/ todo[1].op \notin HealOps,
           draining => draining', job' \in {"Escalated", "Stalled"} => job \in {"Escalated", "Stalled"},
           \A t \in Tasks : log[t].phase = "Escalation" /\ Pending(t) =>
             t \in Tasks' /\ log'[t].phase = "Escalation" /\ log'[t].st = "Pending"
    PROVE  InboxKept'
<1>1. ~Healing
  BY HealsAtTheHead DEF TypeOK
<1>2. HasInbox => HasInbox'
  BY DEF HasInbox, Pending
<1> QED
  BY <1>1, <1>2 DEF InboxKept

LEMMA InboxAlike ==
    ASSUME TypeOK, InboxKept, Idle \/ todo[1].op \notin HealOps,
           draining => draining', job' = job, SameTasks
    PROVE  InboxKept'
BY InboxStays DEF SameTasks, Alike, Pending

LEMMA InboxAfterEnd ==
    ASSUME TypeOK, InboxKept, NEW t \in Tasks, TaskEnds(t), Idle \/ todo[1].op \notin HealOps,
           Unmoved
    PROVE  InboxKept'
<1>1. log[t].phase = "Escalation" => log' = log
  BY DEF TaskEnds, TaskKept, WorkEnded, SlotAgain, SlotEnded, SlotNone, OpenSlot
<1>2. \A u \in Tasks : log[u].phase = "Escalation" => u \in Tasks' /\ log'[u] = log[u]
  BY <1>1 DEF TaskEnds
<1> QED
  BY <1>2, InboxStays DEF Unmoved, Pending

LEMMA InboxAdds ==
    ASSUME TypeOK, InboxKept, NEW r, Adds(r), Idle \/ todo[1].op \notin HealOps,
           draining' = draining, job' = job
    PROVE  InboxKept'
BY InboxStays DEF Adds, Pending

LEMMA InboxHeals ==
    ASSUME NEW x, x \in Left', x.op \in HealOps
    PROVE  InboxKept'
BY DEF InboxKept, Healing

LEMMA InboxFirst ==
    ASSUME NEW op \in HealOps, NEW others,
           Left' = {[op |-> op, cycle |-> 0, n |-> 0, of |-> "none"]} \cup others
    PROVE  InboxKept'
<1>1. PICK x : x = [op |-> op, cycle |-> 0, n |-> 0, of |-> "none"]
  OBVIOUS
<1>2. x \in Left' /\ x.op = op
  BY <1>1
<1> QED
  BY <1>2, InboxHeals

LEMMA InboxNext ==
    ASSUME TypeOK, InboxKept, [Next]_vars
    PROVE  InboxKept'
<1>0. {"inbox", "retry", "prework", "revoke", "evaluate", "recover"} \subseteq HealOps
  BY DEF HealOps
<1>1. CASE EnterWork
  BY <1>1, EnterWorkIs DEF InboxKept
<1>2. CASE EnterRefused
  BY <1>0, <1>2, EnterRefusedIs, InboxFirst
<1>3. CASE StartAttempt
  BY <1>3, StartAttemptIs, InboxAlike, InboxAdds DEF HealOps, Calm
<1>4. CASE Unclaim
  BY <1>4, UnclaimIs, InboxAlike DEF HealOps, Calm
<1>5. CASE Place
  BY <1>5, PlaceIs, InboxAlike DEF HealOps
<1>6. CASE PlaceFails
  BY <1>6, PlaceFailsIs, InboxAlike DEF HealOps, Calm
<1>7. CASE Stamp
  BY <1>7, StampIs, InboxAlike DEF HealOps
<1>8. CASE EnterEvaluation
  <2>1. draining' = draining /\ (draining \/ job' = "Evaluation")
    BY <1>8, EnterEvaluationIs DEF Calm
  <2> QED
    BY <2>1 DEF InboxKept
<1>9. CASE LaunchEvaluator
  BY <1>9, LaunchEvaluatorIs DEF InboxKept
<1>10. CASE InstallSlots
  BY <1>10, InstallSlotsIs, InstallSlotsCalm, InboxAlike DEF HealOps, Calm
<1>11. CASE Settle
  BY <1>11, SettleIs, InboxAlike DEF HealOps, Calm
<1>12. CASE Finalize
  BY <1>12, FinalizeIs DEF InboxKept
<1>13. CASE Escalate
  <2>1. CASE job \in {"Work", "Evaluation"}
    BY <1>0, <1>13, <2>1, EscalateIs, InboxFirst
  <2>2. CASE job \notin {"Work", "Evaluation"}
    BY <1>13, <2>2, EscalateIs, InboxAlike DEF HealOps, Calm
  <2> QED
    BY <2>1, <2>2
<1>14. CASE FillInbox
  <2>1. PICK r : Adds(r) /\ r.phase = "Escalation" /\ r.st = "Pending"
    BY <1>14, FillInboxIs
  <2>2. Len(log) + 1 \in Tasks' /\ log'[Len(log) + 1] = r
    BY <2>1 DEF Adds
  <2>3. HasInbox'
    BY <2>1, <2>2 DEF HasInbox, Pending
  <2> QED
    BY <2>3 DEF InboxKept
<1>15. CASE Retry
  <2>1. \/ job' = "Work"
        \/ Left' = {[op |-> "evaluate", cycle |-> 0, n |-> 0, of |-> "none"]} \cup After
    BY <1>15, RetriedIs
  <2>2. ASSUME Left' = {[op |-> "evaluate", cycle |-> 0, n |-> 0, of |-> "none"]} \cup After
        PROVE  InboxKept'
    BY <1>0, <2>2, InboxFirst
  <2> QED
    BY <2>1, <2>2 DEF InboxKept
<1>16. CASE PreworkRetry
  <2>1. \/ job' = "Ready"
        \/ Left' = {[op |-> "inbox", cycle |-> 0, n |-> 0, of |-> "none"]} \cup After
    BY <1>16, PreworkRetryIs
  <2>2. ASSUME Left' = {[op |-> "inbox", cycle |-> 0, n |-> 0, of |-> "none"]} \cup After
        PROVE  InboxKept'
    BY <1>0, <2>2, InboxFirst
  <2> QED
    BY <2>1, <2>2 DEF InboxKept
<1>17. CASE RevokeJob
  <2>1. ~Idle /\ todo[1].op = "revoke" /\ todo[1] \in Left
    BY <1>17, RevokeJobIs, AfterIs DEF TypeOK
  <2>2. Left' = Left \/ job' = "Revoked"
    BY <1>17, RevokeJobIs
  <2>3. ASSUME Left' = Left PROVE InboxKept'
    BY <2>1, <2>3, InboxHeals DEF HealOps
  <2> QED
    BY <2>2, <2>3 DEF InboxKept
<1>18. CASE Recover
  <2>1. CASE job \notin {"Escalated", "Stalled"}
    BY <1>18, <2>1, RecoverLeft DEF InboxKept
  <2>2. CASE job \in {"Escalated", "Stalled"} /\ HasInbox
    <3>1. SameTasks
      BY <1>18, RecoverLeft DEF Calm
    <3>2. HasInbox'
      BY <2>2, <3>1 DEF HasInbox, Pending, SameTasks, Alike
    <3> QED
      BY <3>2 DEF InboxKept
  <2>3. CASE job \in {"Escalated", "Stalled"} /\ ~HasInbox
    <3>1. Left' = {[op |-> "inbox", cycle |-> 0, n |-> 0, of |-> "none"]} \cup After
      BY <1>18, <2>3, RecoverLeft DEF HasInbox
    <3> QED
      BY <1>0, <3>1, InboxFirst
  <2> QED
    BY <2>1, <2>2, <2>3
<1>19. CASE Attach
  BY <1>19, AttachEnds, InboxAfterEnd DEF HealOps
<1>20. CASE Rebuild
  BY <1>20, RebuildIs, InboxAlike DEF HealOps, Calm
<1>21. CASE Sweep
  BY <1>21, SweepIs, InboxAlike DEF HealOps
<1>22. CASE StartJob
  BY <1>22, StartJobIs DEF InboxKept
<1>23. CASE DeadlineScan
  <2>1. PICK op \in HealOps : Left' = {[op |-> op, cycle |-> 0, n |-> 0, of |-> "none"]}
    BY <1>0, <1>23, DeadlineScanIs
  <2>2. Left' = {[op |-> op, cycle |-> 0, n |-> 0, of |-> "none"]} \cup {}
    BY <2>1
  <2> QED
    BY <2>2, InboxFirst
<1>24. ASSUME NEW t \in Tasks, TimeoutScan(t) PROVE InboxKept'
  BY <1>24, TimeoutEnds, InboxAfterEnd
<1>25. ASSUME NEW t \in Tasks, Exit(t) PROVE InboxKept'
  BY <1>25, ExitEnds, InboxAfterEnd
<1>26. ASSUME NEW t \in Tasks, ContainerStarted(t) PROVE InboxKept'
  BY <1>26, ContainerStartedIs, InboxAlike DEF Still, Unmoved
<1>27. ASSUME NEW t \in Tasks, SubmitResult(t) PROVE InboxKept'
  BY <1>27, SubmitResultIs, InboxAlike DEF Still, Unmoved
<1>28. ASSUME NEW t \in Tasks, SubmitEval(t) PROVE InboxKept'
  <2>1. Idle /\ Unmoved /\ log[t].phase = "Evaluation" /\ Tasks' = Tasks
        /\ \A u \in Tasks \ {t} : log'[u] = log[u]
    BY <1>28, SubmitEvalIs DEF Answered
  <2>2. \A u \in Tasks : log[u].phase = "Escalation" => log'[u] = log[u]
    BY <2>1
  <2> QED
    BY <2>1, <2>2, InboxStays DEF Unmoved, Pending
<1>29. ASSUME NEW t \in Tasks, ResolveEscalation(t) PROVE InboxKept'
  <2>1. PICK op \in HealOps : Left' = {[op |-> op, cycle |-> 0, n |-> 0, of |-> "none"]}
    BY <1>0, <1>29, ResolveEscalationIs
  <2>2. Left' = {[op |-> op, cycle |-> 0, n |-> 0, of |-> "none"]} \cup {}
    BY <2>1
  <2> QED
    BY <2>2, InboxFirst
<1>30. ASSUME NEW t \in Tasks, ResolveWork(t) PROVE InboxKept'
  BY <1>30, ResolveWorkIs DEF InboxKept, Unmoved
<1>31. ASSUME NEW t \in Tasks, ResolveEval(t) PROVE InboxKept'
  BY <1>31, ResolveEvalIs DEF InboxKept, Unmoved
<1>32. CASE SetRequireApproval
  BY <1>32, ApprovalIs, InboxAlike DEF Unmoved
<1>33. CASE Revoke
  <2>1. PICK op \in HealOps : Left' = {[op |-> op, cycle |-> 0, n |-> 0, of |-> "none"]}
    BY <1>0, <1>33, RevokeIs
  <2>2. Left' = {[op |-> op, cycle |-> 0, n |-> 0, of |-> "none"]} \cup {}
    BY <2>1
  <2> QED
    BY <2>2, InboxFirst
<1>34. CASE Restart
  <2>1. Left' = {[op |-> "recover", cycle |-> 0, n |-> 0, of |-> "none"],
                 [op |-> "sweep", cycle |-> 0, n |-> 0, of |-> "none"]}
    BY <1>34, RestartLeft
  <2>2. Left' = {[op |-> "recover", cycle |-> 0, n |-> 0, of |-> "none"]}
                \cup {[op |-> "sweep", cycle |-> 0, n |-> 0, of |-> "none"]}
    BY <2>1
  <2> QED
    BY <1>0, <2>2, InboxFirst
<1>35. CASE Aside
  <2>1. /\ Left' = Left /\ SameTasks /\ job' = job /\ (draining => draining')
    BY <1>35, AsideIs
  <2>2. (Healing => Healing') /\ (HasInbox => HasInbox')
    BY <2>1 DEF Healing, HasInbox, Pending, SameTasks, Alike
  <2> QED
    BY <2>1, <2>2 DEF InboxKept
<1> QED
  BY <1>1, <1>2, <1>3, <1>4, <1>5, <1>6, <1>7, <1>8, <1>9, <1>10, <1>11, <1>12, <1>13, <1>14,
     <1>15, <1>16, <1>17, <1>18, <1>19, <1>20, <1>21, <1>22, <1>23, <1>24, <1>25, <1>26, <1>27,
     <1>28, <1>29, <1>30, <1>31, <1>32, <1>33, <1>34, <1>35
     DEF Next, Handle, Scan, Report, Operate, Containers, Aside

\* A revocation is carried out alone; a revoked job is not taken up again, and
\* has nothing in the inbox.
RevokedKept ==
    /\ Has("revoke") => \A x \in Left : x.op = "revoke"
    /\ job = "Revoked" => /\ \A x \in Left : x.op \in {"recover", "sweep"}
                          /\ \A t \in Tasks : ~Pending(t)

LEMMA NoRevokeAfter ==
    ASSUME TodoTyped
    PROVE  \A x \in After : x.op # "revoke"
BY AfterIs

LEMMA NotRevoked ==
    ASSUME TypeOK, RevokedKept, ~Idle, todo[1].op \notin {"recover", "sweep"}
    PROVE  job # "Revoked"
BY AfterIs DEF RevokedKept, TypeOK

LEMMA RevokedGoesOn ==
    ASSUME job' # "Revoked", \A x \in Left' : x.op # "revoke"
    PROVE  RevokedKept'
BY DEF RevokedKept, Has

LEMMA RevokedStays ==
    ASSUME RevokedKept, SameTasks, job' = job, Left' = Left
    PROVE  RevokedKept'
<1>1. Has("revoke") => \A x \in Left' : x.op = "revoke"
  BY DEF RevokedKept
<1>2. Has("revoke")' <=> Has("revoke")
  BY DEF Has
<1>3. job' = "Revoked" => /\ \A x \in Left' : x.op \in {"recover", "sweep"}
                          /\ \A t \in Tasks' : ~Pending(t)'
  BY DEF RevokedKept, SameTasks, Alike, Pending
<1> QED
  BY <1>1, <1>2, <1>3 DEF RevokedKept

LEMMA RevokedAfterEnd ==
    ASSUME TypeOK, NEW t \in Tasks, TaskEnds(t), job # "Revoked", job' = job,
           Idle => \A x \in Left : x.op # "revoke"
    PROVE  RevokedKept'
<1>1. \A x \in After : x.op # "revoke"
  BY NoRevokeAfter DEF TypeOK
<1>2. \A x \in Left' : x.op # "revoke"
  <2>1. CASE TaskKept
    BY <1>1, <2>1 DEF TaskKept
  <2>2. CASE WorkEnded(t)
    BY <1>1, <2>2 DEF WorkEnded
  <2>3. CASE SlotAgain(t)
    BY <1>1, <2>3 DEF SlotAgain
  <2>4. CASE SlotEnded(t)
    BY <1>1, <2>4 DEF SlotEnded
  <2>5. CASE SlotNone(t)
    BY <1>1, <2>5 DEF SlotNone
  <2> QED
    BY <2>1, <2>2, <2>3, <2>4, <2>5 DEF TaskEnds
<1> QED
  BY <1>2, RevokedGoesOn

LEMMA RevokedNext ==
    ASSUME TypeOK, RevokedKept, [Next]_vars
    PROVE  RevokedKept'
<1>0. TodoTyped /\ (\A x \in After : x.op # "revoke") /\ (Idle => Left = {})
  BY NoRevokeAfter, AfterIs DEF TypeOK
<1> DEFINE R == job' # "Revoked" /\ \A x \in Left' : x.op # "revoke"
<1>1. CASE EnterWork
  <2>1. R
    BY <1>0, <1>1, EnterWorkIs
  <2> QED
    BY <2>1, RevokedGoesOn
<1>2. CASE EnterRefused
  <2>1. R
    BY <1>0, <1>2, EnterRefusedIs
  <2> QED
    BY <2>1, RevokedGoesOn
<1>3. CASE StartAttempt
  <2>1. ~Idle /\ todo[1].op = "attempt" /\ job' = job
    BY <1>3, StartAttemptIs
  <2>2. \A x \in Left' : x \in After \/ x.op \in {"unclaim", "place"}
    BY <1>3, StartAttemptIs
  <2>3. R
    BY <1>0, <2>1, <2>2, NotRevoked
  <2> QED
    BY <2>3, RevokedGoesOn
<1>4. CASE Unclaim
  <2>1. R
    BY <1>0, <1>4, UnclaimIs, NotRevoked
  <2> QED
    BY <2>1, RevokedGoesOn
<1>5. CASE Place
  <2>1. R
    BY <1>0, <1>5, PlaceIs, NotRevoked
  <2> QED
    BY <2>1, RevokedGoesOn
<1>6. CASE PlaceFails
  <2>1. R
    BY <1>0, <1>6, PlaceFailsIs, NotRevoked
  <2> QED
    BY <2>1, RevokedGoesOn
<1>7. CASE Stamp
  <2>1. R
    BY <1>0, <1>7, StampIs, NotRevoked
  <2> QED
    BY <2>1, RevokedGoesOn
<1>8. CASE EnterEvaluation
  <2>1. ~Idle /\ todo[1].op = "evaluate" /\ job' \in {job, "Evaluation"}
    BY <1>8, EnterEvaluationIs
  <2>2. \A x \in Left' : x.op # "revoke"
    <3>1. ASSUME 1 \in 1..Len(Stages), Then(LaunchStage(1)) PROVE \A x \in Left' : x.op # "revoke"
      BY <1>0, <3>1, StageLaunched DEF TypeOK
    <3> QED
      BY <1>0, <1>8, <3>1, EnterEvaluationIs
  <2> QED
    BY <2>1, <2>2, NotRevoked, RevokedGoesOn
<1>9. CASE LaunchEvaluator
  <2>1. job' = "Evaluation" /\ \A x \in Left' : x.op = "place" \/ x \in After
    BY <1>9, LaunchEvaluatorIs
  <2> QED
    BY <1>0, <2>1, RevokedGoesOn
<1>10. CASE InstallSlots
  <2>1. R
    BY <1>0, <1>10, InstallSlotsIs, InstallSlotsCalm
  <2> QED
    BY <2>1, RevokedGoesOn
<1>11. CASE Settle
  <2>1. job' = "Evaluation"
    BY <1>11, SettleIs
  <2>2. \A x \in Left' : x.op # "revoke"
    <3>1. ASSUME slice.round.stage + 1 \in 1..Len(Stages), Then(LaunchStage(slice.round.stage + 1))
          PROVE \A x \in Left' : x.op # "revoke"
      BY <1>0, <3>1, StageLaunched DEF TypeOK
    <3> QED
      BY <1>0, <1>11, <3>1, SettleIs
  <2> QED
    BY <2>1, <2>2, RevokedGoesOn
<1>12. CASE Finalize
  <2>1. R
    BY <1>0, <1>12, FinalizeIs
  <2> QED
    BY <2>1, RevokedGoesOn
<1>13. CASE Escalate
  <2>1. R
    BY <1>0, <1>13, EscalateIs, NotRevoked
  <2> QED
    BY <2>1, RevokedGoesOn
<1>14. CASE FillInbox
  <2>1. R
    BY <1>0, <1>14, FillInboxIs, NotRevoked
  <2> QED
    BY <2>1, RevokedGoesOn
<1>15. CASE Retry
  <2>1. job' # "Revoked"
    BY <1>15, RetriedIs
  <2>2. \A x \in Left' : x.op \in {"evaluate", "attempt"} \/ x \in After
    BY <1>15, RetriedIs
  <2> QED
    BY <1>0, <2>1, <2>2, RevokedGoesOn
<1>16. CASE PreworkRetry
  <2>1. R
    BY <1>0, <1>16, PreworkRetryIs
  <2> QED
    BY <2>1, RevokedGoesOn
<1>17. CASE RevokeJob
  <2>1. ~Idle /\ todo[1].op = "revoke" /\ job # "Revoked"
    BY <1>17, RevokeJobIs, NotRevoked
  <2>2. Has("revoke") /\ \A x \in Left : x.op = "revoke"
    BY <1>0, <2>1, AfterIs DEF Has, RevokedKept
  <2>3. CASE job' = job /\ Left' = Left
    BY <2>1, <2>2, <2>3 DEF RevokedKept
  <2>4. CASE job' = "Revoked" /\ Left' = After /\ log' = log /\ \A t \in Tasks : ~Pending(t)
    <3>1. Left' = {}
      BY <1>0, <2>2, <2>4, AfterIs
    <3>2. \A t \in Tasks' : ~Pending(t)'
      BY <2>4 DEF Pending, Tasks
    <3> QED
      BY <3>1, <3>2 DEF RevokedKept, Has
  <2> QED
    BY <1>17, <2>3, <2>4, RevokeJobIs
<1>18. CASE Recover
  <2>1. ~Idle /\ todo[1].op = "recover" /\ job' = job /\ SameTasks
    BY <1>18, RecoverLeft DEF Calm
  <2>2. CASE job = "Revoked"
    <3>1. Left' = After
      BY <1>18, <2>2, RecoverLeft
    <3>2. After \subseteq Left
      BY <1>0, AfterIs
    <3>3. \A t \in Tasks' : ~Pending(t)'
      BY <2>1, <2>2 DEF RevokedKept, SameTasks, Alike, Pending
    <3> QED
      BY <1>0, <2>2, <3>1, <3>2, <3>3 DEF RevokedKept, Has
  <2>3. CASE job # "Revoked"
    <3>1. ASSUME Stages # <<>>, Then(RecoverEvaluation(TopCycle)) PROVE \A x \in Left' : x.op # "revoke"
      <4>1. PICK c \in Nat : c = TopCycle
        BY TopCycleIs DEF TypeOK
      <4>2. PICK l : l = RecoverEvaluation(c)
        OBVIOUS
      <4>3. l \in Seq(Chores) /\ \A x \in ToSet(l) : x.op \in {"launch", "rebuild", "attach", "settle"}
        <5>1. KindTyped /\ LogTyped
          BY DEF TypeOK
        <5>2. /\ l \in Seq(Chores)
              /\ \A x \in ToSet(l) :
                   \/ \E ev \in Stages[RoundFromLog(c).stage] :
                        /\ x = [op |-> "launch", cycle |-> 0, n |-> 1, of |-> ev]
                        /\ Latest(Lineage("Evaluation", c, ev)) = 0
                   \/ x = [op |-> "rebuild", cycle |-> c, n |-> 0, of |-> "none"]
                   \/ \E ev \in Stages[RoundFromLog(c).stage] : \E t \in Tasks :
                        /\ x = [op |-> "attach", cycle |-> 0, n |-> t, of |-> "none"]
                        /\ t = Latest(Lineage("Evaluation", c, ev)) /\ log[t].st = "Running"
                        /\ log[t].phase = "Evaluation" /\ log[t].cycle = c /\ log[t].about = ev
                   \/ x = [op |-> "settle", cycle |-> 0, n |-> 0, of |-> "none"]
          BY <3>1, <4>2, <5>1, RecoverEvaluationIs
        <5> QED
          BY <5>2
      <4>4. Left' = ToSet(l) \cup After
        BY <1>0, <3>1, <4>1, <4>2, <4>3, ThenLeft
      <4> QED
        BY <1>0, <4>3, <4>4
    <3>2. \A x \in Left' : x.op # "revoke"
      BY <1>0, <1>18, <3>1, RecoverLeft
    <3> QED
      BY <2>1, <2>3, <3>2, RevokedGoesOn
  <2> QED
    BY <2>2, <2>3
<1>19. CASE Attach
  <2>1. PICK t \in Tasks : t = todo[1].n /\ TaskEnds(t)
    BY <1>19, AttachEnds
  <2>2. ~Idle /\ job' = job /\ job # "Revoked"
    BY <1>19, AttachEnds, NotRevoked DEF Unmoved
  <2> QED
    BY <2>1, <2>2, RevokedAfterEnd
<1>20. CASE Rebuild
  <2>1. R
    BY <1>0, <1>20, RebuildIs, NotRevoked
  <2> QED
    BY <2>1, RevokedGoesOn
<1>21. CASE Sweep
  <2>1. job' = job /\ Left' = {} /\ SameTasks
    BY <1>21, SweepIs
  <2>2. job' = "Revoked" => \A t \in Tasks' : ~Pending(t)'
    BY <2>1 DEF RevokedKept, SameTasks, Alike, Pending
  <2> QED
    BY <2>1, <2>2 DEF RevokedKept, Has
<1>22. CASE StartJob
  <2>1. R
    BY <1>22, StartJobIs
  <2> QED
    BY <2>1, RevokedGoesOn
<1>23. CASE DeadlineScan
  <2>1. R
    BY <1>23, DeadlineScanIs
  <2> QED
    BY <2>1, RevokedGoesOn
<1>24. ASSUME NEW t \in Tasks, TimeoutScan(t) PROVE RevokedKept'
  BY <1>0, <1>24, TimeoutEnds, RevokedAfterEnd DEF Unmoved
<1>25. ASSUME NEW t \in Tasks, Exit(t) PROVE RevokedKept'
  BY <1>0, <1>25, ExitEnds, RevokedAfterEnd DEF Unmoved
<1>26. ASSUME NEW t \in Tasks, ContainerStarted(t) PROVE RevokedKept'
  BY <1>26, ContainerStartedIs, RevokedStays DEF Still, Unmoved
<1>27. ASSUME NEW t \in Tasks, SubmitResult(t) PROVE RevokedKept'
  BY <1>27, SubmitResultIs, RevokedStays DEF Still, Unmoved
<1>28. ASSUME NEW t \in Tasks, SubmitEval(t) PROVE RevokedKept'
  <2>1. R
    BY <1>0, <1>28, SubmitEvalIs DEF Unmoved
  <2> QED
    BY <2>1, RevokedGoesOn
<1>29. ASSUME NEW t \in Tasks, ResolveEscalation(t) PROVE RevokedKept'
  <2>1. job' \in {"Escalated", "Stalled"}
    BY <1>29, ResolveEscalationIs DEF Unmoved
  <2>2. PICK op : Left' = {[op |-> op, cycle |-> 0, n |-> 0, of |-> "none"]}
    BY <1>29, ResolveEscalationIs
  <2>3. \A x \in Left' : x.op = op
    BY <2>2
  <2> QED
    BY <2>1, <2>3 DEF RevokedKept, Has
<1>30. ASSUME NEW t \in Tasks, ResolveWork(t) PROVE RevokedKept'
  <2>1. job' = "Work"
    BY <1>30, ResolveWorkIs DEF Unmoved
  <2>2. \A x \in Left' : x.op # "revoke"
    BY <1>30, ResolveWorkIs
  <2> QED
    BY <2>1, <2>2, RevokedGoesOn
<1>31. ASSUME NEW t \in Tasks, ResolveEval(t) PROVE RevokedKept'
  <2>1. job' = "Evaluation" /\ Idle
    BY <1>31, ResolveEvalIs DEF Unmoved
  <2>2. Left' = Left \/ Left' = {[op |-> "settle", cycle |-> 0, n |-> 0, of |-> "none"]} \cup After
    BY <1>31, ResolveEvalIs DEF SlotEnded
  <2> QED
    BY <1>0, <2>1, <2>2, RevokedGoesOn
<1>32. CASE SetRequireApproval
  BY <1>32, ApprovalIs, RevokedStays DEF Unmoved
<1>33. CASE Revoke
  BY <1>33, RevokeIs DEF RevokedKept, Has
<1>34. CASE Restart
  <2>1. job' = job /\ SameTasks
    BY <1>34, RestartLeft
  <2>2. \A x \in Left' : x.op \in {"recover", "sweep"}
    BY <1>34, RestartLeft
  <2>3. job' = "Revoked" => \A t \in Tasks' : ~Pending(t)'
    BY <2>1 DEF RevokedKept, SameTasks, Alike, Pending
  <2> QED
    BY <2>2, <2>3 DEF RevokedKept, Has
<1>35. CASE Aside
  BY <1>35, AsideIs, RevokedStays
<1> QED
  BY <1>1, <1>2, <1>3, <1>4, <1>5, <1>6, <1>7, <1>8, <1>9, <1>10, <1>11, <1>12, <1>13, <1>14,
     <1>15, <1>16, <1>17, <1>18, <1>19, <1>20, <1>21, <1>22, <1>23, <1>24, <1>25, <1>26, <1>27,
     <1>28, <1>29, <1>30, <1>31, <1>32, <1>33, <1>34, <1>35
     DEF Next, Handle, Scan, Report, Operate, Containers, Aside

-----------------------------------------------------------------------------
(* The slots of a round. *)

SlotOps == {"launch", "slots", "rebuild"}

\* The tasks of an evaluator in the cycle of the slice.
LineOf(ev) == Lineage("Evaluation", slice.cycle, ev)
Covers(x) == IF x.of = "all" THEN Stages[x.n] ELSE {x.of}

\* The slot of an evaluator is about to be written.
Stale(ev) == \E x \in Left : x.op = "rebuild" \/ (x.op = "slots" /\ ev \in Covers(x))

\* A launch is followed by what writes its slot, and the slot is written for a
\* task that is there, or will be.
LaunchesCovered == \A x \in Left : x.op = "launch" => Stale(x.of)
SlotsFilled ==
    \A x \in Left : x.op = "slots" => \A ev \in Covers(x) :
        \/ LineOf(ev) # {} /\ log[Latest(LineOf(ev))].st # "Failed"
        \/ \E y \in Left : y.op = "launch" /\ y.of = ev
SlotTrue(ev) ==
    LET slot == slice.round.slot[ev] IN
    slot.out # "none" =>
        /\ slot.task = Latest(LineOf(ev))
        /\ slot.out = "open" => LineOf(ev) # {} /\ (log[slot.task].st # "Failed" \/ Has("escalate"))
SlotsTrue ==
    Rounding /\ "setup" \notin Faults => \A ev \in Evaluators : Stale(ev) \/ SlotTrue(ev)
SlotsKept == LaunchesCovered /\ SlotsFilled /\ SlotsTrue

\* The tasks of the evaluations are as they were.
LinesKept ==
    \A c, ev : /\ Lineage("Evaluation", c, ev)' = Lineage("Evaluation", c, ev)
               /\ Latest(Lineage("Evaluation", c, ev))' = Latest(Lineage("Evaluation", c, ev))
LinesSame ==
    \A ev : LineOf(ev)' = LineOf(ev) /\ Latest(LineOf(ev))' = Latest(LineOf(ev))

LEMMA LinesSameIs ==
    ASSUME LinesKept, slice'.cycle = slice.cycle
    PROVE  LinesSame
<1>1. PICK c : c = slice.cycle
  OBVIOUS
<1>2. \A ev : LineOf(ev) = Lineage("Evaluation", c, ev)
  BY <1>1 DEF LineOf
<1>3. \A ev : LineOf(ev)' = Lineage("Evaluation", c, ev)'
  BY <1>1 DEF LineOf, Lineage
<1>4. \A ev : Latest(LineOf(ev))' = Latest(Lineage("Evaluation", c, ev))'
  BY <1>3 DEF Latest
<1> QED
  BY <1>2, <1>3, <1>4 DEF LinesKept, LinesSame

LEMMA LinesFrom ==
    ASSUME \A c, ev : Lineage("Evaluation", c, ev)' = Lineage("Evaluation", c, ev)
    PROVE  LinesKept
<1>1. \A c, ev : Latest(Lineage("Evaluation", c, ev))' = Latest(Lineage("Evaluation", c, ev))
  BY DEF Latest
<1> QED
  BY <1>1 DEF LinesKept

LEMMA LinesAlike ==
    ASSUME SameTasks
    PROVE  LinesKept
BY SameLines DEF LinesKept

LEMMA LinesAdd ==
    ASSUME NEW r, Adds(r), r.phase # "Evaluation"
    PROVE  LinesKept
<1>1. ASSUME NEW c, NEW ev
      PROVE  Lineage("Evaluation", c, ev)' = Lineage("Evaluation", c, ev)
  BY DEF Lineage, Adds
<1> QED
  BY <1>1, LinesFrom

LEMMA LinesOne ==
    ASSUME NEW t \in Tasks, Tasks' = Tasks, \A u \in Tasks \ {t} : log'[u] = log[u],
           log'[t].phase = log[t].phase, log'[t].cycle = log[t].cycle, log'[t].about = log[t].about
    PROVE  LinesKept
<1>1. \A u \in Tasks : /\ log'[u].phase = log[u].phase /\ log'[u].cycle = log[u].cycle
                       /\ log'[u].about = log[u].about
  OBVIOUS
<1>2. ASSUME NEW c, NEW ev
      PROVE  Lineage("Evaluation", c, ev)' = Lineage("Evaluation", c, ev)
  BY <1>1 DEF Lineage
<1> QED
  BY <1>2, LinesFrom

LEMMA LinesEnd ==
    ASSUME NEW t \in Tasks, TaskEnds(t)
    PROVE  LinesKept
BY LinesOne DEF TaskEnds, Same

\* The latest task of an evaluator that has one is its own.
LEMMA LatestOf ==
    ASSUME LogTyped, NEW ev, LineOf(ev) # {}
    PROVE  /\ Latest(LineOf(ev)) \in Tasks /\ log[Latest(LineOf(ev))].phase = "Evaluation"
           /\ log[Latest(LineOf(ev))].about = ev /\ log[Latest(LineOf(ev))].cycle = slice.cycle
<1>1. PICK c : c = slice.cycle
  OBVIOUS
<1>2. PICK l : l = Latest(Lineage("Evaluation", c, ev))
  OBVIOUS
<1>3. l \in Lineage("Evaluation", c, ev)
  BY <1>1, <1>2, LineageIs DEF LineOf
<1> QED
  BY <1>1, <1>2, <1>3 DEF LineOf, Lineage

\* Nothing is said of slots where there are none.
LEMMA NoSlots ==
    ASSUME ~Rounding', \A x \in Left' : x.op \notin {"launch", "slots"}
    PROVE  SlotsKept'
BY DEF SlotsKept, LaunchesCovered, SlotsFilled, SlotsTrue

\* A step that neither launches, nor writes a slot, nor fails a task.
LEMMA SlotsStay ==
    ASSUME TypeOK, SlotsKept, Fixed, LinesKept, Tasks \subseteq Tasks',
           slice'.cycle = slice.cycle, slice'.round = slice.round, Rounding' => Rounding,
           \A t \in Tasks : log[t].phase = "Evaluation" /\ log[t].st # "Failed" => log'[t].st # "Failed",
           \A x : x.op \in SlotOps => (x \in Left' <=> x \in Left),
           Has("escalate") => Has("escalate")'
    PROVE  SlotsKept'
<1>1. LinesSame
  BY LinesSameIs
<1>2. \A ev : Stale(ev) <=> Stale(ev)'
  BY DEF Stale, Covers, SlotOps, Fixed
<1>3. LogTyped /\ kind' = kind
  BY DEF TypeOK, Fixed
<1>4. LaunchesCovered'
  BY <1>2 DEF SlotsKept, LaunchesCovered, SlotOps
<1>5. ASSUME NEW ev, LineOf(ev) # {}, log[Latest(LineOf(ev))].st # "Failed"
      PROVE  LineOf(ev)' # {} /\ log'[Latest(LineOf(ev))'].st # "Failed"
  <2>1. PICK l \in Tasks : l = Latest(LineOf(ev)) /\ log[l].phase = "Evaluation"
    BY <1>3, <1>5, LatestOf
  <2>2. log'[l].st # "Failed" /\ Latest(LineOf(ev))' = l /\ LineOf(ev)' # {}
    BY <1>1, <1>5, <2>1 DEF LinesSame
  <2> QED
    BY <2>2
<1>6. SlotsFilled'
  <2> SUFFICES ASSUME NEW x \in Left', x.op = "slots", NEW ev \in Covers(x)'
               PROVE  \/ LineOf(ev)' # {} /\ log'[Latest(LineOf(ev))'].st # "Failed"
                      \/ \E y \in Left' : y.op = "launch" /\ y.of = ev
    BY DEF SlotsFilled
  <2>1. x \in Left /\ ev \in Covers(x)
    BY DEF SlotOps, Covers, Fixed
  <2>2. CASE LineOf(ev) # {} /\ log[Latest(LineOf(ev))].st # "Failed"
    BY <1>5, <2>2
  <2>3. CASE \E y \in Left : y.op = "launch" /\ y.of = ev
    BY <2>3 DEF SlotOps
  <2> QED
    BY <2>1, <2>2, <2>3 DEF SlotsKept, SlotsFilled
<1>7. SlotsTrue'
  <2> SUFFICES ASSUME Rounding', "setup" \notin Faults', NEW ev \in Evaluators', ~Stale(ev)'
               PROVE  SlotTrue(ev)'
    BY DEF SlotsTrue
  <2>1. Rounding /\ "setup" \notin Faults /\ ev \in Evaluators /\ ~Stale(ev)
    BY <1>2, <1>3 DEF Faults, Fixed
  <2>2. SlotTrue(ev)
    BY <2>1 DEF SlotsKept, SlotsTrue
  <2>3. PICK s : s = slice.round.slot[ev]
    OBVIOUS
  <2>4. slice'.round.slot[ev] = s
    BY <2>3
  <2>5. ASSUME s.out # "none" PROVE s.task = Latest(LineOf(ev))'
    BY <1>1, <2>2, <2>3, <2>5 DEF SlotTrue, LinesSame
  <2>6. ASSUME s.out = "open" PROVE LineOf(ev)' # {} /\ (log'[s.task].st # "Failed" \/ Has("escalate")')
    <3>1. s.task = Latest(LineOf(ev)) /\ LineOf(ev) # {} /\ (log[s.task].st # "Failed" \/ Has("escalate"))
      BY <2>2, <2>3, <2>6 DEF SlotTrue
    <3>2. LineOf(ev)' # {}
      BY <1>1, <3>1 DEF LinesSame
    <3>3. log[s.task].st # "Failed" => log'[s.task].st # "Failed"
      BY <1>3, <3>1, LatestOf
    <3> QED
      BY <3>1, <3>2, <3>3
  <2> QED
    BY <2>4, <2>5, <2>6 DEF SlotTrue
<1> QED
  BY <1>4, <1>6, <1>7 DEF SlotsKept

\* Most steps have no launch and no slot before them, and none after.
Quiet == \A x \in Left : x.op \notin SlotOps
LEMMA QuietIs ==
    ASSUME TodoTyped, Idle \/ (~Busy /\ todo[1].op \notin SlotOps)
    PROVE  Quiet /\ (\A x \in After : x.op \notin SlotOps)
           /\ ((Idle \/ todo[1].op # "escalate") => ~Has("escalate"))
BY AfterIs DEF Quiet, SlotOps, Has

LEMMA SlotsQuiet ==
    ASSUME TypeOK, SlotsKept, Fixed, LinesKept, Tasks \subseteq Tasks',
           slice'.cycle = slice.cycle, slice'.round = slice.round, Rounding' => Rounding,
           \A t \in Tasks : log[t].phase = "Evaluation" /\ log[t].st # "Failed" => log'[t].st # "Failed",
           Quiet, Quiet', ~Has("escalate")
    PROVE  SlotsKept'
<1>1. \A x : x.op \in SlotOps => (x \in Left' <=> x \in Left)
  BY DEF Quiet
<1> QED
  BY <1>1, SlotsStay

\* As it is, a slot is true.
LEMMA SlotsAreTrue ==
    ASSUME TypeOK, SlotsKept, Quiet, ~Has("escalate"), Rounding, "setup" \notin Faults,
           NEW ev \in Evaluators, NEW s, s = slice.round.slot[ev], s.out # "none"
    PROVE  /\ s.task = Latest(LineOf(ev))
           /\ s.out = "open" => /\ LineOf(ev) # {} /\ s.task \in Tasks
                                /\ log[s.task].st # "Failed" /\ log[s.task].phase = "Evaluation"
                                /\ log[s.task].about = ev
<1>1. ~Stale(ev)
  BY DEF Stale, Quiet, SlotOps
<1>2. SlotTrue(ev)
  BY <1>1 DEF SlotsKept, SlotsTrue
<1>3. s.task = Latest(LineOf(ev)) /\ (s.out = "open" => LineOf(ev) # {} /\ log[s.task].st # "Failed")
  BY <1>2 DEF SlotTrue
<1> QED
  BY <1>3, LatestOf DEF TypeOK

\* A stage is launched: its slots are written after its launches.
LEMMA SlotsLaunched ==
    ASSUME TypeOK, Fixed, NEW i \in 1..Len(Stages), Then(LaunchStage(i)),
           \A x \in After : x.op \notin SlotOps,
           Rounding' /\ "setup" \notin Faults =>
             \A ev \in Evaluators : ev \notin Stages[i] => SlotTrue(ev)'
    PROVE  SlotsKept'
<1>1. /\ \A x \in Left' : \/ x.op = "launch" /\ x.of \in Stages[i]
                          \/ x = [op |-> "slots", cycle |-> 0, n |-> i, of |-> "all"]
                          \/ x \in After
      /\ \A ev \in Stages[i] : \E x \in Left' : x.op = "launch" /\ x.of = ev
      /\ \E x \in Left' : x = [op |-> "slots", cycle |-> 0, n |-> i, of |-> "all"]
  BY StageLaunched DEF TypeOK
<1>2. Stages' = Stages /\ Evaluators' = Evaluators /\ Faults' = Faults
  BY DEF Fixed, Faults
<1>3. PICK y : y \in Left' /\ y = [op |-> "slots", cycle |-> 0, n |-> i, of |-> "all"]
  BY <1>1
<1>4. y.op = "slots" /\ Covers(y)' = Stages[i]
  BY <1>2, <1>3 DEF Covers
<1>5. \A ev \in Stages[i] : Stale(ev)'
  BY <1>3, <1>4 DEF Stale
<1>6. LaunchesCovered'
  BY <1>1, <1>5 DEF LaunchesCovered, SlotOps
<1>7. SlotsFilled'
  <2> SUFFICES ASSUME NEW x \in Left', x.op = "slots", NEW ev \in Covers(x)'
               PROVE  \E z \in Left' : z.op = "launch" /\ z.of = ev
    BY DEF SlotsFilled
  <2>1. x = y
    BY <1>1, <1>3 DEF SlotOps
  <2> QED
    BY <1>1, <1>4, <2>1
<1>8. SlotsTrue'
  BY <1>2, <1>5 DEF SlotsTrue
<1> QED
  BY <1>6, <1>7, <1>8 DEF SlotsKept

\* The end of a task is for the slot that waits for it.
LEMMA SlotsAfterEnd ==
    ASSUME TypeOK, SlotsKept, NEW t \in Tasks, TaskEnds(t), Idle \/ todo[1].op = "attach"
    PROVE  SlotsKept'
<1>1. TodoTyped /\ LogTyped /\ SliceTyped /\ KindTyped
  BY DEF TypeOK
<1>2. Quiet /\ (\A x \in After : x.op \notin SlotOps) /\ ~Has("escalate")
  BY <1>1, QuietIs DEF Busy, SlotOps
<1>3. /\ Fixed /\ LinesKept /\ Tasks' = Tasks /\ \A u \in Tasks \ {t} : log'[u] = log[u]
      /\ Stages' = Stages /\ Evaluators' = Evaluators /\ Faults' = Faults
  BY LinesEnd DEF TaskEnds, Fixed, Faults
<1>4. log[t].phase = "Evaluation" => log[t].about \in Evaluators
  BY <1>1, TasksAre DEF LogTyped, TaskTyped
<1>5. CASE TaskKept
  <2>1. Quiet'
    BY <1>2, <1>5 DEF TaskKept, Quiet
  <2>2. slice'.cycle = slice.cycle /\ slice'.round = slice.round /\ (Rounding' => Rounding) /\ log' = log
    BY <1>5 DEF TaskKept, Rounding
  <2> QED
    BY <1>2, <1>3, <2>1, <2>2, SlotsQuiet
<1>6. CASE WorkEnded(t)
  <2>1. Quiet'
    <3>1. \A x \in Left' : x.op \in {"evaluate", "attempt", "escalate"} \/ x \in After
      BY <1>6 DEF WorkEnded
    <3> QED
      BY <1>2, <3>1 DEF Quiet, SlotOps
  <2>2. slice'.cycle = slice.cycle /\ slice'.round = slice.round /\ (Rounding' => Rounding)
    BY <1>6 DEF WorkEnded, Rounding
  <2>3. \A u \in Tasks : log[u].phase = "Evaluation" => log'[u] = log[u]
    BY <1>3, <1>6 DEF WorkEnded
  <2> QED
    BY <1>2, <1>3, <2>1, <2>2, <2>3, SlotsQuiet
<1>7. ASSUME slice' = slice, NEW ev \in Evaluators, NEW s, s = slice.round.slot[ev],
             s.out = "open" => s.task # t, Rounding, "setup" \notin Faults
      PROVE  SlotTrue(ev)'
  <2>1. LinesSame
    BY <1>3, <1>7, LinesSameIs
  <2>2. s.out # "none" =>
          /\ s.task = Latest(LineOf(ev))
          /\ s.out = "open" => LineOf(ev) # {} /\ s.task \in Tasks /\ log[s.task].st # "Failed"
    BY <1>2, <1>7, SlotsAreTrue
  <2>3. s.out = "open" => log'[s.task] = log[s.task]
    BY <1>3, <1>7, <2>2
  <2>4. slice'.round.slot[ev] = s
    BY <1>7
  <2> QED
    BY <2>1, <2>2, <2>3, <2>4 DEF SlotTrue, LinesSame
<1>8. CASE SlotAgain(t)
  <2>1. /\ slice # None /\ slice' = slice /\ log[t].phase = "Evaluation" /\ Rounding
        /\ slice.round.slot[log[t].about].task = t /\ log'[t].st = "Failed"
    BY <1>8 DEF SlotAgain
  <2>2. PICK about \in Evaluators : about = log[t].about
    BY <1>4, <2>1
  <2>3. ASSUME NEW ev \in Evaluators, ev # about, "setup" \notin Faults PROVE SlotTrue(ev)'
    <3>1. PICK s : s = slice.round.slot[ev]
      OBVIOUS
    <3>2. s.out = "open" => s.task # t
      BY <1>2, <2>1, <2>2, <2>3, <3>1, SlotsAreTrue
    <3> QED
      BY <1>7, <2>1, <2>3, <3>1, <3>2
  <2>4. ASSUME NEW n \in Nat, Left' =
            {[op |-> "launch", cycle |-> 0, n |-> n, of |-> about],
             [op |-> "slots", cycle |-> 0, n |-> 0, of |-> about]} \cup After
        PROVE  SlotsKept'
    <3>1. PICK x, y : /\ x = [op |-> "launch", cycle |-> 0, n |-> n, of |-> about]
                      /\ y = [op |-> "slots", cycle |-> 0, n |-> 0, of |-> about]
      OBVIOUS
    <3>2. about # "all"
      BY <1>1, <2>2, EvaluatorsAre
    <3>3. x \in Left' /\ y \in Left' /\ y.op = "slots" /\ Covers(y)' = {about}
          /\ x.op = "launch" /\ x.of = about
      BY <2>4, <3>1, <3>2 DEF Covers
    <3>4. \A z \in Left' : z \in {x, y} \/ z.op \notin SlotOps
      BY <1>2, <2>4, <3>1
    <3>5. Stale(about)'
      BY <3>3 DEF Stale
    <3>6. LaunchesCovered'
      BY <3>3, <3>4, <3>5 DEF LaunchesCovered, SlotOps
    <3>7. SlotsFilled'
      BY <3>3, <3>4 DEF SlotsFilled, SlotOps
    <3>8. SlotsTrue'
      BY <1>3, <2>3, <3>5 DEF SlotsTrue
    <3> QED
      BY <3>6, <3>7, <3>8 DEF SlotsKept
  <2>5. ASSUME Left' = {[op |-> "escalate", cycle |-> 0, n |-> t, of |-> "loss"]} \cup After
        PROVE  SlotsKept'
    <3>1. PICK x : x = [op |-> "escalate", cycle |-> 0, n |-> t, of |-> "loss"]
      OBVIOUS
    <3>2. Has("escalate")' /\ \A z \in Left' : z.op \notin SlotOps
      BY <1>2, <2>5, <3>1 DEF Has, SlotOps
    <3>3. ASSUME "setup" \notin Faults PROVE SlotTrue(about)'
      <4>1. PICK s : s = slice.round.slot[about]
        OBVIOUS
      <4>2. s.out # "none" => s.task = Latest(LineOf(about)) /\ (s.out = "open" => LineOf(about) # {})
        BY <1>2, <2>1, <2>2, <3>3, <4>1, SlotsAreTrue
      <4>3. LinesSame
        BY <1>3, <2>1, LinesSameIs
      <4>4. slice'.round.slot[about] = s
        BY <2>1, <4>1
      <4> QED
        BY <3>2, <4>2, <4>3, <4>4 DEF SlotTrue, LinesSame
    <3>4. SlotsTrue'
      <4> SUFFICES ASSUME Rounding', "setup" \notin Faults, NEW ev \in Evaluators PROVE SlotTrue(ev)'
        BY <1>3 DEF SlotsTrue
      <4> QED
        BY <2>3, <3>3
    <3>5. LaunchesCovered' /\ SlotsFilled'
      BY <3>2 DEF LaunchesCovered, SlotsFilled, SlotOps
    <3> QED
      BY <3>4, <3>5 DEF SlotsKept
  <2> QED
    BY <1>8, <2>2, <2>4, <2>5 DEF SlotAgain
<1>9. CASE SlotEnded(t)
  <2>1. /\ slice # None /\ OpenSlot(t) /\ Rounding /\ log[t].phase = "Evaluation"
        /\ slice'.cycle = slice.cycle
        /\ Left' = {[op |-> "settle", cycle |-> 0, n |-> 0, of |-> "none"]} \cup After
    BY <1>9 DEF SlotEnded, OpenSlot
  <2>2. PICK about \in Evaluators : about = log[t].about
    BY <1>4, <2>1
  <2>3. PICK out \in {"infra", "pass", "fail", "abort"} :
          slice'.round.slot[about] = [task |-> t, out |-> out]
    BY <1>9, <2>2 DEF SlotEnded
  <2>4. \A z \in Left' : z.op \notin SlotOps
    BY <1>2, <2>1 DEF SlotOps
  <2>5. LinesSame
    BY <1>3, <2>1, LinesSameIs
  <2>6. ASSUME "setup" \notin Faults PROVE SlotTrue(about)'
    <3>1. PICK s : s = slice.round.slot[about]
      OBVIOUS
    <3>2. s = [task |-> t, out |-> "open"] /\ s.out # "none" /\ s.task = t
      BY <2>1, <2>2, <3>1 DEF OpenSlot
    <3>3. t = Latest(LineOf(about))
      BY <1>2, <2>1, <2>6, <3>1, <3>2, SlotsAreTrue
    <3> QED
      BY <2>3, <2>5, <3>3 DEF SlotTrue, LinesSame
  <2>7. ASSUME NEW ev \in Evaluators, ev # about, "setup" \notin Faults PROVE SlotTrue(ev)'
    <3>1. PICK s : s = slice.round.slot[ev]
      OBVIOUS
    <3>2. slice'.round.slot[ev] = s
      BY <1>9, <2>2, <2>7, <3>1 DEF SlotEnded
    <3>3. s.out # "none" =>
            /\ s.task = Latest(LineOf(ev))
            /\ s.out = "open" => /\ LineOf(ev) # {} /\ s.task \in Tasks
                                 /\ log[s.task].st # "Failed" /\ log[s.task].about = ev
      BY <1>2, <2>1, <2>7, <3>1, SlotsAreTrue
    <3>4. s.out = "open" => log'[s.task] = log[s.task]
      BY <1>3, <2>2, <2>7, <3>3
    <3> QED
      BY <2>5, <3>2, <3>3, <3>4 DEF SlotTrue, LinesSame
  <2>8. LaunchesCovered' /\ SlotsFilled'
    BY <2>4 DEF LaunchesCovered, SlotsFilled, SlotOps
  <2>9. SlotsTrue'
    <3> SUFFICES ASSUME "setup" \notin Faults, NEW ev \in Evaluators PROVE SlotTrue(ev)'
      BY <1>3 DEF SlotsTrue
    <3> QED
      BY <2>6, <2>7
  <2> QED
    BY <2>8, <2>9 DEF SlotsKept
<1>10. CASE SlotNone(t)
  <2>1. /\ slice # None /\ slice' = slice /\ log[t].phase = "Evaluation" /\ Left' = After
        /\ ~(Rounding /\ slice.round.slot[log[t].about].task = t)
    BY <1>10 DEF SlotNone
  <2>2. PICK about \in Evaluators : about = log[t].about
    BY <1>4, <2>1
  <2>3. LaunchesCovered' /\ SlotsFilled'
    BY <1>2, <2>1 DEF LaunchesCovered, SlotsFilled, SlotOps
  <2>4. SlotsTrue'
    <3> SUFFICES ASSUME Rounding', "setup" \notin Faults, NEW ev \in Evaluators PROVE SlotTrue(ev)'
      BY <1>3 DEF SlotsTrue
    <3>1. Rounding
      BY <2>1 DEF Rounding
    <3>2. PICK s : s = slice.round.slot[ev]
      OBVIOUS
    <3>3. s.out = "open" => s.task # t
      BY <1>2, <2>1, <2>2, <3>1, <3>2, SlotsAreTrue
    <3> QED
      BY <1>7, <2>1, <3>1, <3>2, <3>3
  <2> QED
    BY <2>3, <2>4 DEF SlotsKept
<1> QED
  BY <1>5, <1>6, <1>8, <1>9, <1>10 DEF TaskEnds

\* The slot of an evaluator that has just been launched is about to be written.
LEMMA SlotsAfterLaunch ==
    ASSUME TypeOK, SlotsKept, LaunchEvaluator
    PROVE  SlotsKept'
<1>1. /\ ~Idle /\ todo[1].op = "launch" /\ Fixed /\ slice' = slice /\ slice # None
      /\ todo[1].of \in Evaluators
  BY LaunchEvaluatorIs
<1>2. PICK new \in Evaluators : new = todo[1].of
  BY <1>1
<1>3. PICK r \in TaskRecords :
        /\ Adds(r) /\ r.phase = "Evaluation" /\ r.about = new /\ r.cycle = slice.cycle
        /\ r.st \in {"Pending", "Running"}
        /\ Left' = After \/ \E x : x.op = "place" /\ Left' = {x} \cup After
  <2>1. PICK r \in TaskRecords :
          /\ Adds(r) /\ r.phase = "Evaluation" /\ r.about = todo[1].of /\ r.cycle = slice.cycle
          /\ \/ r.st = "Pending" /\ Left' = After
             \/ /\ r.st = "Running"
                /\ Left' = {[op |-> "place", cycle |-> 0, n |-> Len(log) + 1, of |-> "none"]}
                           \cup After
    BY LaunchEvaluatorIs
  <2>2. PICK x : x = [op |-> "place", cycle |-> 0, n |-> Len(log) + 1, of |-> "none"]
    OBVIOUS
  <2>3. x.op = "place" /\ (Left' = After \/ Left' = {x} \cup After)
    BY <2>1, <2>2
  <2> QED
    BY <1>2, <2>1, <2>3
<1>4. Left = {todo[1]} \cup After /\ TodoTyped /\ LogTyped
  BY <1>1, AfterIs DEF TypeOK
<1>5. \A x : x.op \in SlotOps => (x \in Left' <=> x \in After)
  BY <1>3 DEF SlotOps
<1>6. Stages' = Stages /\ Evaluators' = Evaluators /\ Faults' = Faults
  BY <1>1 DEF Fixed, Faults
<1>7. \A ev : Stale(ev) <=> Stale(ev)'
  BY <1>1, <1>4, <1>5, <1>6 DEF Stale, Covers, SlotOps
<1>8. LaunchesCovered'
  BY <1>4, <1>5, <1>7 DEF SlotsKept, LaunchesCovered, SlotOps
<1>9. PICK c, k : c = slice.cycle /\ k = Len(log) + 1
  OBVIOUS
<1>10. /\ Tasks = 1..Len(log) /\ Len(log) \in Nat /\ Tasks' = Tasks \cup {k} /\ k \notin Tasks
       /\ log'[k] = r /\ \A t \in Tasks : log'[t] = log[t]
  BY <1>3, <1>4, <1>9, TasksAre DEF Adds
<1>11. \A ev : ev # new => LineOf(ev)' = LineOf(ev) /\ Latest(LineOf(ev))' = Latest(LineOf(ev))
  <2> SUFFICES ASSUME NEW ev, ev # new
               PROVE  LineOf(ev)' = LineOf(ev) /\ Latest(LineOf(ev))' = Latest(LineOf(ev))
    OBVIOUS
  <2>1. LineOf(ev)' = LineOf(ev)
    BY <1>1, <1>3, <1>10 DEF LineOf, Lineage
  <2> QED
    BY <2>1 DEF Latest
<1>12. LineOf(new)' # {} /\ Latest(LineOf(new))' = k
  <2>1. PICK S : S = LineOf(new)'
    OBVIOUS
  <2>2. k \in S /\ S \subseteq 1..k /\ k \in Nat
    BY <1>1, <1>3, <1>9, <1>10, <2>1 DEF LineOf, Lineage
  <2>3. Latest(S) = k
    <3>1. PICK m : m = Latest(S)
      OBVIOUS
    <3>2. m \in S /\ k <= m
      BY <2>2, <3>1, LatestIs
    <3>3. m \in 1..k
      BY <2>2, <3>2
    <3> QED
      BY <2>2, <3>1, <3>2, <3>3
  <2>4. Latest(LineOf(new))' = Latest(S)
    BY <2>1 DEF Latest
  <2> QED
    BY <2>1, <2>2, <2>3, <2>4
<1>13. SlotsFilled'
  <2> SUFFICES ASSUME NEW x \in Left', x.op = "slots", NEW ev \in Covers(x)'
               PROVE  \/ LineOf(ev)' # {} /\ log'[Latest(LineOf(ev))'].st # "Failed"
                      \/ \E y \in Left' : y.op = "launch" /\ y.of = ev
    BY DEF SlotsFilled
  <2>1. x \in Left /\ ev \in Covers(x)
    BY <1>4, <1>5, <1>6 DEF SlotOps, Covers
  <2>2. CASE ev = new
    BY <1>3, <1>10, <1>12, <2>2
  <2>3. CASE ev # new /\ LineOf(ev) # {} /\ log[Latest(LineOf(ev))].st # "Failed"
    <3>1. Latest(LineOf(ev)) \in Tasks
      BY <1>4, <2>3, LatestOf
    <3> QED
      BY <1>10, <1>11, <2>3, <3>1
  <2>4. CASE ev # new /\ \E y \in Left : y.op = "launch" /\ y.of = ev
    <3>1. PICK y \in Left : y.op = "launch" /\ y.of = ev
      BY <2>4
    <3>2. y \in After
      BY <1>2, <1>4, <2>4, <3>1
    <3> QED
      BY <1>5, <3>1, <3>2 DEF SlotOps
  <2> QED
    BY <2>1, <2>2, <2>3, <2>4 DEF SlotsKept, SlotsFilled
<1>14. SlotsTrue'
  <2> SUFFICES ASSUME Rounding', "setup" \notin Faults, NEW ev \in Evaluators, ~Stale(ev)'
               PROVE  SlotTrue(ev)'
    BY <1>6 DEF SlotsTrue
  <2>1. Rounding /\ ~Stale(ev)
    BY <1>1, <1>7 DEF Rounding
  <2>2. SlotTrue(ev) /\ ev # new
    <3>1. Stale(new)
      BY <1>1, <1>2, <1>4 DEF SlotsKept, LaunchesCovered
    <3> QED
      BY <2>1, <3>1 DEF SlotsKept, SlotsTrue
  <2>3. PICK s : s = slice.round.slot[ev]
    OBVIOUS
  <2>4. slice'.round.slot[ev] = s
    BY <1>1, <2>3
  <2>5. ~Has("escalate")
    BY <1>1, <1>4, AfterIs DEF Has
  <2>6. s.out # "none" =>
          /\ s.task = Latest(LineOf(ev))
          /\ s.out = "open" => LineOf(ev) # {} /\ log[s.task].st # "Failed"
    BY <2>2, <2>3, <2>5 DEF SlotTrue
  <2>7. s.out = "open" => s.task \in Tasks
    BY <1>4, <2>6, LatestOf
  <2>8. s.out = "open" => log'[s.task].st # "Failed"
    BY <1>10, <2>6, <2>7
  <2> QED
    BY <1>11, <2>2, <2>4, <2>6, <2>8 DEF SlotTrue
<1> QED
  BY <1>8, <1>13, <1>14 DEF SlotsKept

LEMMA SlotsInstalled ==
    ASSUME TypeOK, SlotsKept, InstallSlots
    PROVE  SlotsKept'
<1>1. /\ ~Idle /\ todo[1].op = "slots" /\ Rounding /\ slice'.cycle = slice.cycle
      /\ Fixed /\ SameTasks /\ Left' = After
  BY InstallSlotsIs, InstallSlotsCalm DEF Calm
<1>2. PICK evs : evs = IF todo[1].of = "all" THEN Stages[todo[1].n] ELSE {todo[1].of}
  OBVIOUS
<1>3. \A ev \in Evaluators :
        slice'.round.slot[ev] =
          IF ev \in evs THEN [task |-> Latest(LineOf(ev)), out |-> "open"]
          ELSE slice.round.slot[ev]
  BY <1>2, InstallSlotsIs DEF LineOf
<1>4. Left = {todo[1]} \cup After /\ TodoTyped /\ LogTyped /\ \A x \in After : x.op \notin SlotOps \cup {"escalate"}
  BY <1>1, AfterIs DEF TypeOK, Busy, SlotOps
<1>5. LinesSame
  BY <1>1, LinesAlike, LinesSameIs
<1>6. LaunchesCovered' /\ SlotsFilled'
  BY <1>1, <1>4 DEF LaunchesCovered, SlotsFilled, SlotOps
<1>7. Evaluators' = Evaluators /\ Faults' = Faults
  BY <1>1 DEF Fixed, Faults
<1>8. ASSUME NEW ev \in Evaluators, ev \in evs PROVE SlotTrue(ev)'
  <2>1. todo[1] \in Left /\ ev \in Covers(todo[1])
    BY <1>2, <1>4, <1>8 DEF Covers
  <2>2. LineOf(ev) # {} /\ log[Latest(LineOf(ev))].st # "Failed"
    <3>1. ~\E y \in Left : y.op = "launch" /\ y.of = ev
      BY <1>1, <1>4 DEF SlotOps
    <3> QED
      BY <1>1, <2>1, <3>1 DEF SlotsKept, SlotsFilled
  <2>3. PICK l \in Tasks : l = Latest(LineOf(ev))
    BY <1>4, <2>2, LatestOf
  <2>4. log'[l].st # "Failed"
    BY <1>1, <2>2, <2>3 DEF SameTasks, Alike
  <2>5. slice'.round.slot[ev] = [task |-> l, out |-> "open"]
    BY <1>3, <1>8, <2>3
  <2> QED
    BY <1>5, <2>2, <2>3, <2>4, <2>5 DEF SlotTrue, LinesSame
<1>9. ASSUME NEW ev \in Evaluators, ev \notin evs, "setup" \notin Faults PROVE SlotTrue(ev)'
  <2>1. ~Stale(ev)
    BY <1>1, <1>2, <1>4, <1>9 DEF Stale, Covers, SlotOps
  <2>2. SlotTrue(ev) /\ ~Has("escalate")
    BY <1>1, <1>4, <1>9, <2>1 DEF SlotsKept, SlotsTrue, Has
  <2>3. PICK s : s = slice.round.slot[ev]
    OBVIOUS
  <2>4. slice'.round.slot[ev] = s
    BY <1>3, <1>9, <2>3
  <2>5. s.out # "none" =>
          /\ s.task = Latest(LineOf(ev))
          /\ s.out = "open" => LineOf(ev) # {} /\ log[s.task].st # "Failed"
    BY <2>2, <2>3 DEF SlotTrue
  <2>6. s.out = "open" => log'[s.task].st # "Failed"
    BY <1>1, <1>4, <2>5, LatestOf DEF SameTasks, Alike
  <2> QED
    BY <1>5, <2>4, <2>5, <2>6 DEF SlotTrue, LinesSame
<1>10. SlotsTrue'
  BY <1>7, <1>8, <1>9 DEF SlotsTrue
<1> QED
  BY <1>6, <1>10 DEF SlotsKept

\* The round a restart reads from the log is true.
LEMMA SlotsRebuilt ==
    ASSUME TypeOK, Rebuild
    PROVE  SlotsKept'
<1>1. /\ ~Idle /\ todo[1].op = "rebuild" /\ Fixed /\ SameTasks /\ Left' = After
      /\ slice'.cycle = slice.cycle /\ Stages # <<>>
      /\ slice'.round = RoundFromLog(slice.cycle) /\ slice.cycle \in Nat
  BY RebuildIs DEF Calm
<1>2. KindTyped /\ LogTyped /\ TodoTyped
  BY DEF TypeOK
<1>3. \A x \in After : x.op \notin SlotOps
  BY <1>1, <1>2, AfterIs DEF Before, SlotOps
<1>4. LaunchesCovered' /\ SlotsFilled'
  BY <1>1, <1>3 DEF LaunchesCovered, SlotsFilled, SlotOps
<1>5. LinesSame
  BY <1>1, LinesAlike, LinesSameIs
<1>6. ASSUME NEW ev \in Evaluators PROVE SlotTrue(ev)'
  <2>1. PICK c \in Nat : c = slice.cycle
    BY <1>1
  <2>2. PICK s : s = RoundFromLog(c).slot[ev]
    OBVIOUS
  <2>3. slice'.round.slot[ev] = s
    BY <1>1, <2>1, <2>2
  <2>4. /\ s.out # "none" => s.task = Latest(Lineage("Evaluation", c, ev))
        /\ s.out = "open" => /\ Latest(Lineage("Evaluation", c, ev)) # 0
                             /\ Latest(Lineage("Evaluation", c, ev)) \in Tasks
                             /\ log[Latest(Lineage("Evaluation", c, ev))].st \notin {"Done", "Failed"}
    BY <1>1, <1>2, <2>2, RoundFromLogIs
  <2>5. PICK l : l = Latest(LineOf(ev))
    OBVIOUS
  <2>6. l = Latest(Lineage("Evaluation", c, ev)) /\ LineOf(ev) = Lineage("Evaluation", c, ev)
    BY <2>1, <2>5 DEF LineOf
  <2>7. s.out = "open" => LineOf(ev) # {} /\ log'[l].st # "Failed"
    <3>1. s.out = "open" => l \in Tasks /\ l # 0 /\ log[l].st # "Failed"
      BY <2>4, <2>6
    <3>2. LineOf(ev) = {} => l = 0
      BY <2>5 DEF Latest
    <3> QED
      BY <1>1, <3>1, <3>2 DEF SameTasks, Alike
  <2>8. s.out # "none" => s.task = l
    BY <2>4, <2>6
  <2>9. LineOf(ev)' = LineOf(ev) /\ Latest(LineOf(ev))' = l
    BY <1>5, <2>5 DEF LinesSame
  <2> QED
    BY <2>3, <2>7, <2>8, <2>9 DEF SlotTrue
<1>7. SlotsTrue'
  BY <1>1, <1>6 DEF SlotsTrue, Fixed
<1> QED
  BY <1>4, <1>7 DEF SlotsKept

\* What a restart launches is seen when the round is rebuilt.
LEMMA SlotsRecovered ==
    ASSUME TypeOK, Recover
    PROVE  SlotsKept'
<1>1. ~Rounding' /\ ~Idle /\ todo[1].op = "recover"
  BY RecoverLeft
<1>2. TodoTyped /\ KindTyped /\ LogTyped /\ \A x \in After : x.op \notin SlotOps
  BY <1>1, AfterIs DEF TypeOK, Busy, SlotOps
<1>3. CASE Stages # <<>> /\ Then(RecoverEvaluation(TopCycle))
  <2>1. PICK c \in Nat : c = TopCycle
    BY <1>2, TopCycleIs
  <2>2. PICK l : l = RecoverEvaluation(c)
    OBVIOUS
  <2>3. /\ l \in Seq(Chores)
        /\ \A x \in ToSet(l) :
             \/ \E ev \in Stages[RoundFromLog(c).stage] :
                  /\ x = [op |-> "launch", cycle |-> 0, n |-> 1, of |-> ev]
                  /\ Latest(Lineage("Evaluation", c, ev)) = 0
             \/ x = [op |-> "rebuild", cycle |-> c, n |-> 0, of |-> "none"]
             \/ \E ev \in Stages[RoundFromLog(c).stage] : \E t \in Tasks :
                  /\ x = [op |-> "attach", cycle |-> 0, n |-> t, of |-> "none"]
                  /\ t = Latest(Lineage("Evaluation", c, ev)) /\ log[t].st = "Running"
                  /\ log[t].phase = "Evaluation" /\ log[t].cycle = c /\ log[t].about = ev
             \/ x = [op |-> "settle", cycle |-> 0, n |-> 0, of |-> "none"]
        /\ [op |-> "rebuild", cycle |-> c, n |-> 0, of |-> "none"] \in ToSet(l)
    BY <1>2, <1>3, <2>2, RecoverEvaluationIs
  <2>4. \A x \in ToSet(l) : x.op # "slots"
    BY <2>3
  <2>5. Left' = ToSet(l) \cup After
    BY <1>2, <1>3, <2>1, <2>2, <2>3, ThenLeft
  <2>6. PICK y \in Left' : y.op = "rebuild"
    BY <2>3, <2>5
  <2>7. LaunchesCovered'
    BY <2>6 DEF LaunchesCovered, Stale
  <2>8. \A x \in Left' : x.op # "slots"
    BY <1>2, <2>4, <2>5 DEF SlotOps
  <2> QED
    BY <1>1, <2>7, <2>8 DEF SlotsKept, SlotsFilled, SlotsTrue
<1>4. CASE ~(Stages # <<>> /\ Then(RecoverEvaluation(TopCycle)))
  <2>1. \A x \in Left' : x \in After \/ x.op \in {"inbox", "attach", "attempt", "escalate", "evaluate", "finalize"}
    BY <1>4, RecoverLeft
  <2>2. \A x \in Left' : x.op \notin {"launch", "slots"}
    BY <1>2, <2>1 DEF SlotOps
  <2> QED
    BY <1>1, <2>2, NoSlots
<1> QED
  BY <1>3, <1>4

\* A step that is calm, with no launch and no slot in it.
LEMMA SlotsCalm ==
    ASSUME TypeOK, SlotsKept, Fixed, SameTasks, slice' = slice,
           Idle \/ (~Busy /\ todo[1].op \notin SlotOps \cup {"escalate"}),
           \A x \in Left' : x \in After \/ x.op \notin SlotOps
    PROVE  SlotsKept'
<1>1. Quiet /\ (\A x \in After : x.op \notin SlotOps) /\ ~Has("escalate")
  BY QuietIs DEF TypeOK, SlotOps
<1>2. Quiet'
  BY <1>1 DEF Quiet
<1>3. LinesKept /\ Tasks' = Tasks
  BY LinesAlike DEF SameTasks
<1>4. \A t \in Tasks : log[t].st # "Failed" => log'[t].st # "Failed"
  BY DEF SameTasks, Alike
<1>5. slice'.cycle = slice.cycle /\ slice'.round = slice.round /\ (Rounding' => Rounding)
  BY DEF Rounding
<1> QED
  BY <1>1, <1>2, <1>3, <1>4, <1>5, SlotsQuiet

LEMMA SlotsAdd ==
    ASSUME TypeOK, SlotsKept, Fixed, NEW r, Adds(r), r.phase # "Evaluation", slice' = slice,
           Idle \/ (~Busy /\ todo[1].op \notin SlotOps \cup {"escalate"}),
           \A x \in Left' : x \in After \/ x.op \notin SlotOps
    PROVE  SlotsKept'
<1>1. Quiet /\ (\A x \in After : x.op \notin SlotOps) /\ ~Has("escalate")
  BY QuietIs DEF TypeOK, SlotOps
<1>2. Quiet'
  BY <1>1 DEF Quiet
<1>3. LinesKept /\ Tasks \subseteq Tasks' /\ \A t \in Tasks : log'[t] = log[t]
  BY LinesAdd DEF Adds
<1>4. slice'.cycle = slice.cycle /\ slice'.round = slice.round /\ (Rounding' => Rounding)
  BY DEF Rounding
<1> QED
  BY <1>1, <1>2, <1>3, <1>4, SlotsQuiet

\* The container of a task is placed, or its id recorded.
LEMMA SlotsPlaced ==
    ASSUME TypeOK, SlotsKept, Fixed, SameTasks, slice' = slice, ~Idle,
           todo[1].op \in {"place", "stamp"}, After \subseteq Left',
           \A x \in Left' : x \in After \/ x.op = "stamp"
    PROVE  SlotsKept'
<1>1. Left = {todo[1]} \cup After
  BY AfterIs DEF TypeOK
<1>2. \A x : x.op \in SlotOps => (x \in Left' <=> x \in Left)
  BY <1>1 DEF SlotOps
<1>3. ~Has("escalate")
  BY <1>1, AfterIs DEF TypeOK, Has
<1>4. LinesKept /\ Tasks' = Tasks
  BY LinesAlike DEF SameTasks
<1>5. \A t \in Tasks : log[t].st # "Failed" => log'[t].st # "Failed"
  BY DEF SameTasks, Alike
<1>6. slice'.cycle = slice.cycle /\ slice'.round = slice.round /\ (Rounding' => Rounding)
  BY DEF Rounding
<1> QED
  BY <1>2, <1>3, <1>4, <1>5, <1>6, SlotsStay

\* A verdict is recorded, and no slot knows of it.
LEMMA SlotsAnswered ==
    ASSUME TypeOK, SlotsKept, Fixed, NEW t \in Tasks, NEW v, Answered(t, "Done", v),
           slice' = slice, Idle, Left' = Left
    PROVE  SlotsKept'
<1>1. Quiet /\ ~Has("escalate")
  BY QuietIs DEF TypeOK
<1>2. Quiet'
  BY <1>1 DEF Quiet
<1>3. LinesKept /\ Tasks' = Tasks
  BY LinesOne DEF Answered
<1>4. \A u \in Tasks : log[u].st # "Failed" => log'[u].st # "Failed"
  BY DEF Answered
<1>5. slice'.cycle = slice.cycle /\ slice'.round = slice.round /\ (Rounding' => Rounding)
  BY DEF Rounding
<1> QED
  BY <1>1, <1>2, <1>3, <1>4, <1>5, SlotsQuiet

LEMMA SlotsNext ==
    ASSUME TypeOK, SlotsKept, [Next]_vars
    PROVE  SlotsKept'
<1>0. /\ TodoTyped /\ KindTyped /\ (Idle => Left = {} /\ After = {})
      /\ (~Busy => \A x \in After : x.op \in {"attach", "sweep"})
  BY AfterIs DEF TypeOK
<1>1. CASE EnterWork
  <2>1. \A x \in Left' : x.op \notin {"launch", "slots"}
    BY <1>0, <1>1, EnterWorkIs DEF Busy
  <2> QED
    BY <1>1, <2>1, EnterWorkIs, NoSlots
<1>2. CASE EnterRefused
  <2>1. ~Rounding'
    <3>1. ChoreTyped(todo[1])
      BY <1>2, InHand DEF EnterRefused
    <3> QED
      BY <1>2, <3>1, EnterRefusedIs DEF ChoreTyped, Rounding
  <2>2. \A x \in Left' : x.op \notin {"launch", "slots"}
    BY <1>0, <1>2, EnterRefusedIs DEF Busy
  <2> QED
    BY <2>1, <2>2, NoSlots
<1>3. CASE StartAttempt
  <2>1. ~Idle /\ todo[1].op = "attempt" /\ ~Busy /\ Fixed /\ slice' = slice
    BY <1>3, StartAttemptIs DEF Busy
  <2>2. CASE Calm /\ Left' = After
    BY <2>1, <2>2, SlotsCalm DEF Calm, SlotOps
  <2>3. CASE ~(Calm /\ Left' = After)
    <3>1. PICK r : /\ Adds(r) /\ r.phase = "Work"
                   /\ \A x \in Left' : x \in After \/ x.op = "unclaim" \/ x.op = "place"
      BY <1>3, <2>3, StartAttemptIs
    <3> QED
      BY <2>1, <3>1, SlotsAdd DEF SlotOps
  <2> QED
    BY <2>2, <2>3
<1>4. CASE Unclaim
  BY <1>4, UnclaimIs, SlotsCalm DEF Busy, SlotOps, Calm
<1>5. CASE Place
  BY <1>5, PlaceIs, SlotsPlaced
<1>6. CASE PlaceFails
  <2>1. Left' = {} /\ "setup" \in Faults'
    BY <1>6, PlaceFailsIs DEF Calm, Fixed, Faults
  <2> QED
    BY <2>1 DEF SlotsKept, LaunchesCovered, SlotsFilled, SlotsTrue
<1>7. CASE Stamp
  BY <1>7, StampIs, SlotsPlaced
<1>8. CASE EnterEvaluation
  <2>1. ~Idle /\ todo[1].op = "evaluate" /\ ~Busy /\ Fixed /\ SameTasks
    BY <1>8, EnterEvaluationIs DEF Busy, Calm
  <2>2. CASE slice' = slice /\ Left' = After
    BY <2>1, <2>2, SlotsCalm DEF SlotOps
  <2>3. CASE /\ ~Rounding'
             /\ Left' = {[op |-> "finalize", cycle |-> 0, n |-> 0, of |-> "none"]} \cup After
    <3>1. \A x \in Left' : x.op \notin {"launch", "slots"}
      BY <1>0, <2>1, <2>3
    <3> QED
      BY <2>3, <3>1, NoSlots
  <2>4. CASE /\ 1 \in 1..Len(Stages) /\ Then(LaunchStage(1))
             /\ \A ev \in Evaluators : slice'.round.slot[ev].out = "none"
    <3>1. \A ev \in Evaluators : SlotTrue(ev)'
      BY <2>4 DEF SlotTrue
    <3>2. \A x \in After : x.op \notin SlotOps
      BY <1>0, <2>1 DEF SlotOps
    <3> QED
      BY <2>1, <2>4, <3>1, <3>2, SlotsLaunched
  <2> QED
    BY <1>8, <2>2, <2>3, <2>4, EnterEvaluationIs
<1>9. CASE LaunchEvaluator
  BY <1>9, SlotsAfterLaunch
<1>10. CASE InstallSlots
  BY <1>10, SlotsInstalled
<1>11. CASE Settle
  <2>1. ~Idle /\ todo[1].op = "settle" /\ ~Busy /\ Fixed /\ SameTasks
    BY <1>11, SettleIs DEF Busy, Calm
  <2>2. Quiet /\ (\A x \in After : x.op \notin SlotOps) /\ ~Has("escalate")
    BY <1>0, <2>1, QuietIs DEF SlotOps
  <2>3. CASE slice' = slice /\ Left' = After
    BY <2>1, <2>3, SlotsCalm DEF SlotOps
  <2>4. CASE /\ Settled /\ slice' = slice /\ slice.round.stage + 1 \in 1..Len(Stages)
             /\ Then(LaunchStage(slice.round.stage + 1))
    <3>1. LinesSame
      BY <2>1, <2>4, LinesAlike, LinesSameIs
    <3>2. ASSUME NEW ev \in Evaluators, "setup" \notin Faults PROVE SlotTrue(ev)'
      <4>1. PICK s : s = slice.round.slot[ev]
        OBVIOUS
      <4>2. s.out # "none" =>
              /\ s.task = Latest(LineOf(ev))
              /\ s.out = "open" => LineOf(ev) # {} /\ s.task \in Tasks /\ log[s.task].st # "Failed"
        BY <2>2, <2>4, <3>2, <4>1, SlotsAreTrue DEF Settled
      <4>3. s.out = "open" => log'[s.task].st # "Failed"
        BY <2>1, <4>2 DEF SameTasks, Alike
      <4>4. slice'.round.slot[ev] = s
        BY <2>4, <4>1
      <4> QED
        BY <3>1, <4>2, <4>3, <4>4 DEF SlotTrue, LinesSame
    <3>3. PICK i \in 1..Len(Stages) : i = slice.round.stage + 1 /\ Then(LaunchStage(i))
      BY <2>4
    <3> QED
      BY <2>1, <2>2, <3>2, <3>3, SlotsLaunched
  <2>5. CASE ~Rounding' /\ \A x \in Left' : x \in After \/ x.op \in {"escalate", "finalize", "enter"}
    <3>1. \A x \in Left' : x.op \notin {"launch", "slots"}
      BY <2>2, <2>5 DEF SlotOps
    <3> QED
      BY <2>5, <3>1, NoSlots
  <2>6. \/ slice' = slice /\ Left' = After
        \/ /\ Settled /\ slice' = slice /\ slice.round.stage + 1 \in 1..Len(Stages)
           /\ Then(LaunchStage(slice.round.stage + 1))
        \/ ~Rounding' /\ \A x \in Left' : x \in After \/ x.op \in {"escalate", "finalize", "enter"}
    BY <1>11, SettleIs
  <2> QED
    BY <2>3, <2>4, <2>5, <2>6
<1>12. CASE Finalize
  <2>1. ~Rounding'
    <3>1. ChoreTyped(todo[1])
      BY <1>12, InHand DEF Finalize
    <3> QED
      BY <1>12, <3>1, FinalizeIs DEF ChoreTyped, Rounding
  <2>2. \A x \in Left' : x.op \notin {"launch", "slots"}
    BY <1>0, <1>12, FinalizeIs DEF Busy
  <2> QED
    BY <2>1, <2>2, NoSlots
<1>13. CASE Escalate
  <2>1. \A x \in Left' : x.op \notin {"launch", "slots"}
    BY <1>0, <1>13, EscalateIs DEF Busy
  <2>2. ~Rounding'
    BY <1>13, EscalateIs DEF Rounding
  <2> QED
    BY <2>1, <2>2, NoSlots
<1>14. CASE FillInbox
  <2>1. ~Idle /\ todo[1].op = "inbox" /\ ~Busy /\ Fixed /\ slice' = slice /\ Left' = After
    BY <1>14, FillInboxIs DEF Busy
  <2>2. PICK r : Adds(r) /\ r.phase = "Escalation"
    BY <1>14, FillInboxIs
  <2> QED
    BY <2>1, <2>2, SlotsAdd DEF SlotOps
<1>15. CASE Retry
  <2>1. ~Rounding' /\ ~Busy
    BY <1>15, RetriedIs DEF Busy
  <2>2. \A x \in Left' : x.op \in {"evaluate", "attempt"} \/ x \in After
    BY <1>15, RetriedIs
  <2>3. \A x \in Left' : x.op \notin {"launch", "slots"}
    BY <1>0, <2>1, <2>2
  <2> QED
    BY <2>1, <2>3, NoSlots
<1>16. CASE PreworkRetry
  <2>1. ~Idle /\ todo[1].op = "prework" /\ ~Busy /\ Fixed /\ SameTasks /\ slice' = slice
    BY <1>16, PreworkRetryIs DEF Busy, Calm
  <2>2. \A x \in Left' : x \in After \/ x.op = "inbox"
    BY <1>16, PreworkRetryIs
  <2> QED
    BY <2>1, <2>2, SlotsCalm DEF SlotOps
<1>17. CASE RevokeJob
  <2>1. ~Idle /\ todo[1].op = "revoke" /\ ~Busy /\ slice' = None /\ Left' \in {Left, After}
    BY <1>17, RevokeJobIs DEF Busy
  <2>2. Left = {todo[1]} \cup After
    BY <1>0, <2>1, AfterIs
  <2>3. \A x \in Left' : x.op \notin {"launch", "slots"}
    BY <1>0, <2>1, <2>2
  <2>4. ~Rounding'
    BY <2>1 DEF Rounding
  <2> QED
    BY <2>3, <2>4, NoSlots
<1>18. CASE Recover
  BY <1>18, SlotsRecovered
<1>19. CASE Attach
  BY <1>19, AttachEnds, SlotsAfterEnd
<1>20. CASE Rebuild
  BY <1>20, SlotsRebuilt
<1>21. CASE Sweep
  BY <1>21, SweepIs, SlotsCalm DEF Busy, SlotOps
<1>22. CASE StartJob
  <2>1. ~Rounding' /\ \A x \in Left' : x.op \notin {"launch", "slots"}
    BY <1>22, StartJobIs DEF Rounding
  <2> QED
    BY <2>1, NoSlots
<1>23. CASE DeadlineScan
  <2>1. ~Rounding' /\ \A x \in Left' : x.op \notin {"launch", "slots"}
    BY <1>23, DeadlineScanIs DEF Rounding
  <2> QED
    BY <2>1, NoSlots
<1>24. ASSUME NEW t \in Tasks, TimeoutScan(t) PROVE SlotsKept'
  BY <1>24, TimeoutEnds, SlotsAfterEnd
<1>25. ASSUME NEW t \in Tasks, Exit(t) PROVE SlotsKept'
  BY <1>25, ExitEnds, SlotsAfterEnd
<1>26. ASSUME NEW t \in Tasks, ContainerStarted(t) PROVE SlotsKept'
  BY <1>0, <1>26, ContainerStartedIs, SlotsCalm DEF Still
<1>27. ASSUME NEW t \in Tasks, SubmitResult(t) PROVE SlotsKept'
  <2>1. /\ Idle /\ Fixed /\ SameTasks /\ Left' = Left /\ slice # None
        /\ slice'.cycle = slice.cycle /\ slice'.round = slice.round
    BY <1>27, SubmitResultIs DEF Still
  <2>2. Quiet /\ ~Has("escalate") /\ Quiet'
    BY <1>0, <2>1, QuietIs DEF Quiet
  <2>3. LinesKept /\ Tasks' = Tasks
    BY <2>1, LinesAlike DEF SameTasks
  <2>4. \A u \in Tasks : log[u].st # "Failed" => log'[u].st # "Failed"
    BY <2>1 DEF SameTasks, Alike
  <2>5. Rounding' => Rounding
    BY <2>1 DEF Rounding
  <2> QED
    BY <2>1, <2>2, <2>3, <2>4, <2>5, SlotsQuiet
<1>28. ASSUME NEW t \in Tasks, SubmitEval(t) PROVE SlotsKept'
  BY <1>28, SubmitEvalIs, SlotsAnswered
<1>29. ASSUME NEW t \in Tasks, ResolveEscalation(t) PROVE SlotsKept'
  <2>1. ~Rounding' /\ \A x \in Left' : x.op \notin {"launch", "slots"}
    BY <1>29, ResolveEscalationIs
  <2> QED
    BY <2>1, NoSlots
<1>30. ASSUME NEW t \in Tasks, ResolveWork(t) PROVE SlotsKept'
  <2>1. ~Rounding' /\ \A x \in Left' : x.op \notin {"launch", "slots"}
    BY <1>30, ResolveWorkIs
  <2> QED
    BY <2>1, NoSlots
<1>31. ASSUME NEW t \in Tasks, ResolveEval(t) PROVE SlotsKept'
  BY <1>31, ResolveEvalIs, SlotsAnswered, SlotsAfterEnd
<1>32. CASE SetRequireApproval
  <2>1. ~Rounding' /\ Left' = {}
    BY <1>32, ApprovalIs DEF Rounding
  <2> QED
    BY <2>1, NoSlots
<1>33. CASE Revoke
  <2>1. Idle /\ Fixed /\ SameTasks /\ slice' = slice /\ \A x \in Left' : x.op = "revoke"
    BY <1>33, RevokeIs DEF Calm
  <2> QED
    BY <2>1, SlotsCalm DEF SlotOps
<1>34. CASE Restart
  <2>1. ~Rounding' /\ \A x \in Left' : x.op \notin {"launch", "slots"}
    BY <1>34, RestartLeft DEF Rounding
  <2> QED
    BY <2>1, NoSlots
<1>35. CASE Aside
  <2>1. /\ Fixed /\ SameTasks /\ log' = log /\ slice' = slice /\ Left' = Left
    BY <1>35, AsideIs
  <2>2. LinesKept /\ Tasks' = Tasks
    BY <2>1, LinesAlike DEF SameTasks
  <2>3. (Rounding' => Rounding) /\ (Has("escalate") => Has("escalate")')
    BY <2>1 DEF Rounding, Has
  <2>4. \A x : x.op \in SlotOps => (x \in Left' <=> x \in Left)
    BY <2>1
  <2>5. /\ slice'.cycle = slice.cycle /\ slice'.round = slice.round
        /\ \A u \in Tasks : log[u].st # "Failed" => log'[u].st # "Failed"
    BY <2>1
  <2> QED
    BY <2>1, <2>2, <2>3, <2>4, <2>5, SlotsStay
<1> QED
  BY <1>1, <1>2, <1>3, <1>4, <1>5, <1>6, <1>7, <1>8, <1>9, <1>10, <1>11, <1>12, <1>13, <1>14,
     <1>15, <1>16, <1>17, <1>18, <1>19, <1>20, <1>21, <1>22, <1>23, <1>24, <1>25, <1>26, <1>27,
     <1>28, <1>29, <1>30, <1>31, <1>32, <1>33, <1>34, <1>35
     DEF Next, Handle, Scan, Report, Operate, Containers, Aside

\* The slots of a round are the latest tasks of their evaluators, and an open
\* one has a task that is not over: whatever the round is rebuilt from, and
\* whatever a relaunch leaves behind.
THEOREM SlotsAlwaysTrue == Spec => []SlotsAreLatest
<1>1. Init => SlotsKept
  BY NothingLeft DEF Init, SlotsKept, LaunchesCovered, SlotsFilled, SlotsTrue, Rounding, Left
<1>2. TypeOK /\ SlotsKept /\ [Next]_vars => SlotsKept'
  BY SlotsNext
<1>3. TypeOK /\ SlotsKept => SlotsAreLatest
  <2> SUFFICES ASSUME TypeOK, SlotsKept, Idle, Rounding, "setup" \notin Faults, NEW ev \in Evaluators
               PROVE  LET slot == slice.round.slot[ev] IN
                      /\ slot.task = IF slot.out = "none" THEN slot.task ELSE
                                       Latest(Lineage("Evaluation", slice.cycle, ev))
                      /\ slot.out = "open" => log[slot.task].st # "Failed"
    BY DEF SlotsAreLatest
  <2>1. Quiet /\ ~Has("escalate")
    BY QuietIs DEF TypeOK
  <2>2. PICK s : s = slice.round.slot[ev]
    OBVIOUS
  <2>3. s.out # "none" => s.task = Latest(LineOf(ev)) /\ (s.out = "open" => log[s.task].st # "Failed")
    BY <2>1, <2>2, SlotsAreTrue
  <2> QED
    BY <2>2, <2>3 DEF LineOf
<1> QED
  BY <1>1, <1>2, <1>3, TypeCorrect, PTL DEF Spec
==============================================================================
