----------------------------- MODULE Upkeep_proofs -----------------------------
(***************************************************************************)
(* That no landed work is lost, for every project of Upkeep: whatever it   *)
(* lands, however often it releases, and whatever others do to the origin; *)
(* and that no occurrence of a schedule fires twice or late.               *)
(***************************************************************************)
EXTENDS Upkeep, FiniteSetTheorems, WellFoundedInduction, TLAPS

-----------------------------------------------------------------------------
(* The inductive invariant.                                                 *)

ReleaseStages == {"fetch", "count", "pin", "push", "pr", "open"}
SyncStages == {"sync", "ask", "reset", "merged", "closed"}
Numbers    == 1 .. plan.releases
Number     == record.release.number

\* What the records and the branches of releases look like.
Shapes ==
  /\ plan.releases \in Nat
  /\ branches = [n \in Numbers |-> branches[n]]
  /\ prs = [n \in Numbers |-> prs[n]]
  /\ pins = [n \in Numbers |-> pins[n]]
  /\ record = [counter |-> record.counter, release |-> record.release]
  /\ \/ record.release = None
     \/ record.release =
          [number |-> Number, base |-> record.release.base, status |-> record.release.status]
  /\ spent \in [{"releases", "drains", "crashes", "failures"} -> Nat]
  /\ \/ op = [at |-> "idle"]
     \/ op.at \in ReleaseStages /\ op = [at |-> op.at, base |-> op.base, number |-> op.number]
     \/ op.at \in SyncStages /\ op = [at |-> op.at, base |-> op.base]

\* A release number is taken once, and nothing bears it before.
Counted ==
  /\ record.counter \in Nat /\ record.counter <= spent.releases
  /\ spent.releases <= plan.releases
  /\ op.at \in {"fetch", "count"} =>
       (op.number = record.counter + 1 /\ op.number <= spent.releases)
  /\ op.at \in {"pin", "push", "pr", "open"} =>
       (op.number = record.counter /\ op.number \in Numbers)
  /\ \A n \in Numbers :
       /\ n > record.counter => (pins[n] = {} /\ prs[n] = "none")
       /\ (op.at \in {"pin", "push", "pr"} /\ n = op.number) => prs[n] = "none"
       /\ (op.at = "pin" /\ n = op.number) => pins[n] = {}
  /\ IsOpen => Number \in Numbers

\* No gate is open while a release is, or is made.
Quiet ==
  /\ IsOpen => (held /\ gate = None)
  /\ op.at \in ReleaseStages => (gate = None /\ ~IsOpen)
  /\ op.at \in {"ask", "reset", "merged", "closed"} => IsOpen

\* A sync resets to what main held, and after the merge.
Asking ==
  /\ op.at \in {"ask", "reset"} => op.base \subseteq main
  /\ op.at = "reset" => (plan.github => prs[Number] = "merged")
  /\ \A n \in Numbers : prs[n] = "merged" => Changes(branches[n]) \subseteq Changes(main)

\* A release covers the integration branch, from its pin on.
Covered ==
  /\ op.at \in {"push", "pr", "open"} => pins[op.number] = integration
  /\ op.at \in {"pr", "open"} => branches[op.number] = integration
  /\ IsOpen => /\ Changes(integration) \subseteq Changes(main) \cup Changes(branches[Number])
               /\ Changes(integration) \subseteq Changes(main) \cup Changes(pins[Number])

IInv == Shapes /\ Counted /\ Quiet /\ Asking /\ Covered /\ WorkIsKept

-----------------------------------------------------------------------------
(* Branches.                                                                *)

LEMMA ChangesOfMore ==
  ASSUME NEW a, NEW b, a \subseteq b
  PROVE  Changes(a) \subseteq Changes(b)
BY DEF Changes

LEMMA ChangesOfCommit ==
  ASSUME NEW b, NEW id, NEW changes
  PROVE  /\ b \subseteq Commit(b, id, changes)
         /\ Changes(Commit(b, id, changes)) = Changes(b) \cup changes
<1> DEFINE new == [id |-> id, changes |-> changes]
<1>1. Commit(b, id, changes) = b \cup {new}
  BY DEF Commit
<1>2. new.changes = changes
  OBVIOUS
<1> HIDE DEF new
<1> QED
  BY <1>1, <1>2 DEF Changes

LEMMA ChangesOfMerge ==
  ASSUME NEW b, NEW n, NEW other
  PROVE  /\ b \subseteq MergeOf(b, n, other)
         /\ Changes(MergeOf(b, n, other)) = Changes(b) \cup Changes(other)
<1>1. Changes(b \cup other) = Changes(b) \cup Changes(other)
  BY DEF Changes
<1>2. /\ b \cup other \subseteq MergeOf(b, n, other)
      /\ Changes(MergeOf(b, n, other)) = Changes(b \cup other) \cup {}
  BY ChangesOfCommit, Zenon DEF MergeOf
<1> QED
  BY <1>1, <1>2

-----------------------------------------------------------------------------
(* What leaves releases alone.                                              *)

LEMMA SpendShape ==
  ASSUME NEW what \in {"releases", "drains", "crashes", "failures"},
         Spend(what), spent \in [{"releases", "drains", "crashes", "failures"} -> Nat]
  PROVE  /\ spent' \in [{"releases", "drains", "crashes", "failures"} -> Nat]
         /\ spent'["releases"] = IF what = "releases" THEN spent["releases"] + 1 ELSE spent["releases"]
         /\ what = "releases" => spent["releases"] < plan.releases
BY DEF Spend

\* A handler that goes no further, or none at all: nothing is in between.
Aside ==
  /\ UNCHANGED <<plan, main, branches, prs, integration, pins, landed, record, held, gate>>
  /\ op' = op \/ op' = [at |-> "idle"]
  /\ spent' = spent \/ Spend("failures") \/ Spend("drains") \/ Spend("crashes")

LEMMA AsideKeeps == ASSUME IInv, Aside PROVE IInv'
<1>1. /\ spent' \in [{"releases", "drains", "crashes", "failures"} -> Nat]
      /\ spent'["releases"] = spent["releases"]
  BY SpendShape DEF Aside, IInv, Shapes
<1>2. Shapes'
  BY <1>1 DEF Aside, IInv, Shapes, Numbers, Number, ReleaseStages, SyncStages
<1>3. Counted'
  <2>1. /\ UNCHANGED <<plan, prs, pins, record, Numbers, Number, IsOpen>>
        /\ op' = op \/ op'.at = "idle"
    BY DEF Aside, Numbers, Number, IsOpen
  <2> QED
    BY <1>1, <2>1 DEF IInv, Counted
<1>4. Quiet' /\ Asking' /\ Covered' /\ WorkIsKept'
  BY DEF Aside, IInv, Quiet, Asking, Covered, WorkIsKept, Numbers, Number, IsOpen, Changes,
     ReleaseStages
<1> QED
  BY <1>2, <1>3, <1>4 DEF IInv

-----------------------------------------------------------------------------
(* The landing queue.                                                       *)

\* The queue stands while it is held.
LEMMA PumpedStands ==
  ASSUME NEW waiting, NEW stopped, NEW head, Pumped(waiting, None, stopped, head), stopped
  PROVE  gate' = None
BY DEF Pumped

\* Between handlers the queue may do what it likes as long as no release is open.
LEMMA QueueKeeps ==
  ASSUME IInv, Idle,
         UNCHANGED <<plan, main, branches, prs, pins, record, held, op>>,
         spent' = spent \/ Spend("failures"),
         IsOpen => (gate' = None /\ UNCHANGED integration),
         WorkIsKept'
  PROVE  IInv'
<1>1. /\ spent' \in [{"releases", "drains", "crashes", "failures"} -> Nat]
      /\ spent'["releases"] = spent["releases"]
  BY SpendShape DEF IInv, Shapes
<1>2. Shapes'
  BY <1>1 DEF IInv, Shapes, Numbers, Number
<1>3. Counted'
  BY <1>1 DEF IInv, Shapes, Counted, Numbers, Number, IsOpen
<1>4. Quiet' /\ Asking' /\ Covered'
  BY DEF Idle, IInv, Quiet, Asking, Covered, Numbers, Number, IsOpen, Changes, ReleaseStages
<1> QED
  BY <1>2, <1>3, <1>4 DEF IInv

LEMMA EnqueueKeeps == ASSUME IInv, NEW j, Enqueue(j), UNCHANGED plan PROVE IInv'
<1>1. IsOpen => gate' = None
  BY PumpedStands DEF Enqueue, IInv, Quiet
<1>2. WorkIsKept'
  BY DEF Enqueue, originVars, repoVars, IInv, WorkIsKept, Changes
<1> QED
  BY <1>1, <1>2, QueueKeeps DEF Enqueue, originVars, repoVars

LEMMA GateEndsKeeps == ASSUME IInv, GateEnds, UNCHANGED plan PROVE IInv'
<1>1. ~IsOpen
  BY DEF GateEnds, IInv, Quiet
<1>2. WorkIsKept'
  BY DEF GateEnds, originVars, repoVars, IInv, WorkIsKept, Changes
<1> QED
  BY <1>1, <1>2, QueueKeeps DEF GateEnds, originVars, repoVars

LEMMA LandKeeps ==
  ASSUME IInv, Land, UNCHANGED plan, spent' = spent \/ Spend("failures")
  PROVE  IInv'
<1>1. ~IsOpen
  BY DEF Land, IInv, Quiet
<1>2. /\ Changes(integration') = Changes(integration) \cup {gate.job}
      /\ landed' = landed \cup {gate.job}
      /\ UNCHANGED <<main, pins>>
  BY ChangesOfCommit DEF Land, originVars
<1>3. WorkIsKept'
  BY <1>2 DEF IInv, WorkIsKept, Changes
<1> QED
  BY <1>1, <1>3, QueueKeeps DEF Land, originVars

-----------------------------------------------------------------------------
(* A release.                                                               *)

LEMMA OpShape ==
  ASSUME Shapes
  PROVE  /\ op.at \in ReleaseStages =>
              op = [at |-> op.at, base |-> op.base, number |-> op.number]
         /\ op.at \in SyncStages => op = [at |-> op.at, base |-> op.base]
BY DEF Shapes, ReleaseStages, SyncStages

LEMMA ReleaseKeeps == ASSUME IInv, Release, UNCHANGED plan PROVE IInv'
<1>1. /\ op' = [at |-> "fetch", base |-> None, number |-> record.counter + 1]
      /\ UNCHANGED <<plan, main, branches, prs, pins, integration, landed, record, held, gate>>
      /\ UNCHANGED <<Numbers, Number, IsOpen>>
      /\ ~IsOpen /\ gate = None
  BY DEF Release, ReleaseAllowed, originVars, repoVars, coreVars, Numbers, Number, IsOpen
<1>0. op'.at = "fetch" /\ op'.number = record.counter + 1
  BY <1>1
<1>2. /\ spent' \in [{"releases", "drains", "crashes", "failures"} -> Nat]
      /\ spent'["releases"] = spent["releases"] + 1
      /\ spent["releases"] < plan.releases
  BY SpendShape DEF Release, IInv, Shapes
<1>3. Shapes'
  BY <1>1, <1>2 DEF IInv, Shapes, Numbers, Number, originVars, repoVars, coreVars, ReleaseStages
<1>4. Counted'
  <2>1. spent["releases"] \in Nat /\ plan.releases \in Nat
    BY DEF IInv, Shapes
  <2> QED
    BY <1>0, <1>1, <1>2, <2>1 DEF IInv, Counted
<1>5. Quiet' /\ Asking' /\ Covered' /\ WorkIsKept'
  BY <1>0, <1>1 DEF IInv, Quiet, Asking, Covered, WorkIsKept, Changes
<1> QED
  BY <1>3, <1>4, <1>5 DEF IInv

LEMMA ReleaseFetchKeeps == ASSUME IInv, ReleaseFetch, UNCHANGED plan PROVE IInv'
<1>1. CASE ~Beyond(main, integration)
  BY <1>1, AsideKeeps DEF ReleaseFetch, Returns, Aside, originVars, coreVars
<1>2. CASE Beyond(main, integration)
  <2>1. op = [at |-> "fetch", base |-> op.base, number |-> op.number]
    BY OpShape DEF ReleaseFetch, IInv, ReleaseStages
  <2>2. op' = [at |-> "count", base |-> main, number |-> op.number]
    BY <1>2, <2>1 DEF ReleaseFetch
  <2>3. /\ op.at = "fetch" /\ op'.at = "count" /\ op'.number = op.number
        /\ UNCHANGED <<plan, main, branches, prs, pins, integration, landed, record, held, gate>>
        /\ UNCHANGED <<Numbers, Number, IsOpen, spent>>
    BY <2>2 DEF ReleaseFetch, originVars, coreVars, Numbers, Number, IsOpen
  <2>4. Shapes'
    BY <2>2, <2>3 DEF IInv, Shapes, ReleaseStages
  <2>5. Counted' /\ Quiet' /\ Asking' /\ Covered' /\ WorkIsKept'
    BY <2>3 DEF IInv, Counted, Quiet, Asking, Covered, WorkIsKept, Changes, ReleaseStages
  <2> QED
    BY <2>4, <2>5 DEF IInv
<1> QED
  BY <1>1, <1>2

LEMMA ReleaseCountKeeps == ASSUME IInv, ReleaseCount, UNCHANGED plan PROVE IInv'
<1>1. op = [at |-> "count", base |-> op.base, number |-> op.number]
  BY OpShape DEF ReleaseCount, IInv, ReleaseStages
<1>2. op' = [at |-> "pin", base |-> op.base, number |-> op.number]
  BY <1>1 DEF ReleaseCount, Goes
<1>3. /\ op.number = record.counter + 1 /\ op.number <= spent.releases /\ ~IsOpen
      /\ record.counter \in Nat /\ spent.releases \in Nat /\ plan.releases \in Nat
  BY DEF ReleaseCount, IInv, Counted, Quiet, ReleaseStages, Shapes
<1>4. /\ record' = [counter |-> op.number, release |-> record.release]
      /\ record'.counter = op.number /\ record'.release = record.release
  BY DEF ReleaseCount, IInv, Shapes
<1>5. /\ op.at = "count" /\ op'.at = "pin" /\ op'.number = op.number
      /\ UNCHANGED <<plan, main, branches, prs, pins, integration, landed, held, gate>>
      /\ UNCHANGED <<Numbers, Number, IsOpen, spent>>
  BY <1>2, <1>4 DEF ReleaseCount, originVars, repoVars, Numbers, Number, IsOpen
<1>6. Shapes'
  BY <1>2, <1>4, <1>5 DEF IInv, Shapes, ReleaseStages
<1>7. Counted'
  BY <1>3, <1>4, <1>5 DEF IInv, Counted, Numbers
<1>8. Quiet' /\ Asking' /\ Covered' /\ WorkIsKept'
  BY <1>3, <1>5 DEF IInv, Quiet, Asking, Covered, WorkIsKept, Changes, ReleaseStages
<1> QED
  BY <1>6, <1>7, <1>8 DEF IInv

LEMMA ReleasePinKeeps == ASSUME IInv, ReleasePin, UNCHANGED plan PROVE IInv'
<1>1. op = [at |-> "pin", base |-> op.base, number |-> op.number]
  BY OpShape DEF ReleasePin, IInv, ReleaseStages
<1>2. op' = [at |-> "push", base |-> op.base, number |-> op.number]
  BY <1>1 DEF ReleasePin, Goes
<1>3. op.number = record.counter /\ op.number \in Numbers /\ ~IsOpen /\ pins[op.number] = {}
  BY DEF ReleasePin, IInv, Counted, Quiet, ReleaseStages
<1>4. /\ pins' = [n \in Numbers |-> IF n = op.number THEN integration ELSE pins[n]]
      /\ \A n \in Numbers : pins'[n] = IF n = op.number THEN integration ELSE pins[n]
  BY DEF ReleasePin, IInv, Shapes
<1>5. /\ op.at = "pin" /\ op'.at = "push" /\ op'.number = op.number
      /\ UNCHANGED <<plan, main, branches, prs, integration, landed, record, held, gate>>
      /\ UNCHANGED <<Numbers, Number, IsOpen, spent>>
  BY <1>2 DEF ReleasePin, originVars, coreVars, Numbers, Number, IsOpen
<1>6. Shapes'
  BY <1>2, <1>4, <1>5 DEF IInv, Shapes, ReleaseStages
<1>7. Counted'
  <2>1. \A n \in Numbers : n > record.counter => n # op.number
    BY <1>3 DEF IInv, Counted, Shapes, Numbers
  <2>2. \A n \in Numbers : n > record.counter => pins'[n] = pins[n]
    BY <1>4, <2>1
  <2> QED
    BY <1>3, <1>5, <2>2 DEF IInv, Counted
<1>8. Quiet' /\ Asking' /\ Covered'
  BY <1>3, <1>4, <1>5 DEF IInv, Quiet, Asking, Covered, ReleaseStages
<1>9. WorkIsKept'
  <2>1. DOMAIN pins = Numbers /\ DOMAIN pins' = Numbers
    BY <1>4 DEF IInv, Shapes
  <2>2. Changes({}) = {}
    BY DEF Changes
  <2>3. \A n \in Numbers : Changes(pins[n]) \subseteq Changes(pins'[n])
    BY <1>3, <1>4, <2>2
  <2> QED
    BY <1>5, <2>1, <2>3 DEF IInv, WorkIsKept
<1> QED
  BY <1>6, <1>7, <1>8, <1>9 DEF IInv

LEMMA ReleasePushKeeps == ASSUME IInv, ReleasePush, UNCHANGED plan PROVE IInv'
<1> DEFINE next == IF plan.github THEN "pr" ELSE "open"
<1>1. op = [at |-> "push", base |-> op.base, number |-> op.number]
  BY OpShape DEF ReleasePush, IInv, ReleaseStages
<1>2. op' = [at |-> next, base |-> op.base, number |-> op.number]
  BY <1>1 DEF ReleasePush, Goes
<1>3. /\ op.number = record.counter /\ op.number \in Numbers /\ ~IsOpen
      /\ prs[op.number] = "none" /\ pins[op.number] = integration
  BY DEF ReleasePush, IInv, Counted, Quiet, Covered, ReleaseStages
<1>4. /\ branches' = [n \in Numbers |-> IF n = op.number THEN integration ELSE branches[n]]
      /\ \A n \in Numbers : branches'[n] = IF n = op.number THEN integration ELSE branches[n]
  BY DEF ReleasePush, IInv, Shapes
<1>5. /\ op.at = "push" /\ op'.at \in {"pr", "open"} /\ op'.number = op.number
      /\ UNCHANGED <<plan, main, pins, prs, integration, landed, record, held, gate>>
      /\ UNCHANGED <<Numbers, Number, IsOpen, spent>>
  BY <1>2 DEF ReleasePush, repoVars, coreVars, Numbers, Number, IsOpen
<1>6. Shapes'
  BY <1>2, <1>4, <1>5 DEF IInv, Shapes, ReleaseStages
<1>7. Counted' /\ Quiet' /\ WorkIsKept'
  BY <1>3, <1>5 DEF IInv, Counted, Quiet, WorkIsKept, Changes, ReleaseStages
<1>8. Asking'
  <2>1. \A n \in Numbers : prs[n] = "merged" => branches'[n] = branches[n]
    BY <1>3, <1>4
  <2> QED
    BY <1>5, <2>1 DEF IInv, Asking
<1>9. Covered'
  BY <1>3, <1>4, <1>5 DEF Covered
<1> QED
  BY <1>6, <1>7, <1>8, <1>9 DEF IInv

LEMMA ReleasePrKeeps == ASSUME IInv, ReleasePr, UNCHANGED plan PROVE IInv'
<1>1. op = [at |-> "pr", base |-> op.base, number |-> op.number]
  BY OpShape DEF ReleasePr, IInv, ReleaseStages
<1>2. \/ op' = [at |-> "open", base |-> op.base, number |-> op.number]
      \/ op' = [at |-> "idle"]
  BY <1>1 DEF ReleasePr, Goes, Returns
<1>3. /\ op.number = record.counter /\ op.number \in Numbers /\ ~IsOpen /\ gate = None
      /\ pins[op.number] = integration /\ branches[op.number] = integration
  BY DEF ReleasePr, IInv, Counted, Quiet, Covered, ReleaseStages
<1>4. /\ prs' = [n \in Numbers |-> IF n = op.number THEN "open" ELSE prs[n]]
      /\ \A n \in Numbers : prs'[n] = IF n = op.number THEN "open" ELSE prs[n]
  BY DEF ReleasePr, IInv, Shapes
<1>5. /\ spent' \in [{"releases", "drains", "crashes", "failures"} -> Nat]
      /\ spent'["releases"] = spent["releases"]
  BY SpendShape DEF ReleasePr, IInv, Shapes
<1>6. /\ op.at = "pr" /\ (op'.at = "idle" \/ (op'.at = "open" /\ op'.number = op.number))
      /\ UNCHANGED <<plan, main, branches, pins, integration, landed, record, held, gate>>
      /\ UNCHANGED <<Numbers, Number, IsOpen>>
  BY <1>2 DEF ReleasePr, repoVars, coreVars, Numbers, Number, IsOpen
<1>7. Shapes'
  BY <1>2, <1>4, <1>5, <1>6 DEF IInv, Shapes, ReleaseStages
<1>8. Counted'
  <2>1. \A n \in Numbers : n > record.counter => n # op.number
    BY <1>3 DEF IInv, Counted, Shapes, Numbers
  <2>2. \A n \in Numbers : n > record.counter => prs'[n] = prs[n]
    BY <1>4, <2>1
  <2> QED
    BY <1>3, <1>5, <1>6, <2>2 DEF IInv, Counted
<1>9. Quiet' /\ Covered' /\ WorkIsKept'
  BY <1>3, <1>6 DEF IInv, Quiet, Covered, WorkIsKept, Changes, ReleaseStages
<1>10. Asking'
  BY <1>4, <1>6 DEF IInv, Asking, Changes
<1> QED
  BY <1>7, <1>8, <1>9, <1>10 DEF IInv

LEMMA ReleaseOpenKeeps == ASSUME IInv, ReleaseOpen, UNCHANGED plan PROVE IInv'
<1>1. op' = [at |-> "idle"] /\ op'.at = "idle" /\ op.at = "open"
  BY DEF ReleaseOpen, Returns
<1>2. /\ op.number = record.counter /\ op.number \in Numbers /\ gate = None
      /\ pins[op.number] = integration /\ branches[op.number] = integration
  BY <1>1 DEF IInv, Counted, Quiet, Covered, ReleaseStages
<1>3. record' = [counter |-> record.counter,
                 release |-> [number |-> op.number, base |-> op.base, status |-> "Open"]]
  BY DEF ReleaseOpen, IInv, Shapes
<1>4. /\ record'.counter = record.counter /\ Number' = op.number
      /\ record'.release =
           [number |-> Number', base |-> record'.release.base, status |-> record'.release.status]
  BY <1>3 DEF Number
<1>5. /\ UNCHANGED <<plan, main, branches, prs, pins, integration, landed, gate, spent, Numbers>>
      /\ held' = TRUE
  BY DEF ReleaseOpen, originVars, repoVars, Numbers
<1>6. Shapes'
  BY <1>1, <1>3, <1>4, <1>5 DEF IInv, Shapes
<1>7. Counted'
  BY <1>1, <1>2, <1>4, <1>5 DEF IInv, Counted
<1>8. Quiet' /\ Asking' /\ Covered' /\ WorkIsKept'
  BY <1>1, <1>2, <1>4, <1>5
  DEF IInv, Quiet, Asking, Covered, WorkIsKept, Changes, ReleaseStages
<1> QED
  BY <1>6, <1>7, <1>8 DEF IInv

-----------------------------------------------------------------------------
(* A sync.                                                                  *)

LEMMA SyncKeeps == ASSUME IInv, Sync, UNCHANGED plan PROVE IInv'
<1>1. op' = [at |-> "sync", base |-> None] /\ op'.at = "sync"
  BY DEF Sync
<1>2. /\ UNCHANGED <<plan, main, branches, prs, pins, integration, landed, record, held, gate>>
      /\ UNCHANGED <<Numbers, Number, IsOpen, spent>>
  BY DEF Sync, originVars, repoVars, coreVars, Numbers, Number, IsOpen
<1>3. Shapes'
  BY <1>1, <1>2 DEF IInv, Shapes, SyncStages
<1>4. Counted' /\ Quiet' /\ Asking' /\ Covered' /\ WorkIsKept'
  BY <1>1, <1>2 DEF IInv, Counted, Quiet, Asking, Covered, WorkIsKept, Changes, ReleaseStages
<1> QED
  BY <1>3, <1>4 DEF IInv

\* A sync goes on with the release open, having changed nothing yet.
LEMMA AsksKeeps ==
  ASSUME IInv, NEW at \in {"ask", "reset", "closed"}, op.at \in {"sync", "ask"}, IsOpen,
         op' = [at |-> at, base |-> op'.base],
         at # "closed" => op'.base \subseteq main,
         (at = "reset" /\ plan.github) => prs[Number] = "merged",
         UNCHANGED <<plan, main, branches, prs, pins, integration, landed, record, held, gate, spent>>
  PROVE  IInv'
<1>1. op'.at = at
  OBVIOUS
<1>2. UNCHANGED <<Numbers, Number, IsOpen>>
  BY DEF Numbers, Number, IsOpen
<1>3. Shapes'
  BY <1>1, <1>2 DEF IInv, Shapes, SyncStages
<1>4. Counted' /\ Quiet' /\ Asking' /\ Covered' /\ WorkIsKept'
  BY <1>1, <1>2 DEF IInv, Counted, Quiet, Asking, Covered, WorkIsKept, Changes, ReleaseStages
<1> QED
  BY <1>3, <1>4 DEF IInv

LEMMA SyncFetchKeeps == ASSUME IInv, SyncFetch, UNCHANGED plan PROVE IInv'
<1>1. op = [at |-> "sync", base |-> op.base] /\ op.at = "sync"
  BY OpShape DEF SyncFetch, IInv, SyncStages
<1>2. CASE IsOpen
  <2>1. /\ UNCHANGED <<plan, main, branches, prs, pins, integration, landed, record, held, gate>>
        /\ UNCHANGED spent
    BY <1>2 DEF SyncFetch, originVars, coreVars
  <2>2. CASE op' = [at |-> "ask", base |-> main] /\ plan.github
    <3>1. op' = [at |-> "ask", base |-> op'.base] /\ op'.base = main
      BY <2>2
    <3> QED
      BY <1>1, <1>2, <2>1, <3>1, AsksKeeps
  <2>3. CASE op' = [at |-> "reset", base |-> main] /\ ~plan.github
    <3>1. op' = [at |-> "reset", base |-> op'.base] /\ op'.base = main
      BY <2>3
    <3> QED
      BY <1>1, <1>2, <2>1, <2>3, <3>1, AsksKeeps
  <2>4. CASE Returns
    BY <2>1, <2>4, AsideKeeps DEF Aside, Returns
  <2> QED
    BY <1>2, <2>2, <2>3, <2>4 DEF SyncFetch
<1>3. CASE ~IsOpen
  <2>1. /\ op' = [at |-> "idle"] /\ op'.at = "idle"
        /\ UNCHANGED <<plan, main, branches, prs, pins, landed, record, held, gate>>
        /\ UNCHANGED <<Numbers, Number, IsOpen, spent>>
        /\ integration' = integration \/ (integration' = main /\ integration \subseteq main)
    BY <1>3
    DEF SyncFetch, Returns, Follows, Beyond, originVars, coreVars, Numbers, Number, IsOpen
  <2>2. Shapes'
    BY <2>1 DEF IInv, Shapes
  <2>3. Counted' /\ Quiet' /\ Asking' /\ Covered'
    BY <1>3, <2>1 DEF IInv, Counted, Quiet, Asking, Covered, Changes, ReleaseStages
  <2>4. Changes(integration) \subseteq Changes(integration') \cup Changes(main')
    BY <2>1, ChangesOfMore
  <2>5. WorkIsKept'
    BY <2>1, <2>4 DEF IInv, WorkIsKept, Changes
  <2> QED
    BY <2>2, <2>3, <2>5 DEF IInv
<1> QED
  BY <1>2, <1>3

LEMMA SyncAskKeeps == ASSUME IInv, SyncAsk, UNCHANGED plan PROVE IInv'
<1>1. op = [at |-> "ask", base |-> op.base] /\ op.at = "ask" /\ IsOpen /\ op.base \subseteq main
  BY OpShape DEF SyncAsk, IInv, SyncStages, Quiet, Asking
<1>2. /\ UNCHANGED <<plan, main, branches, prs, pins, integration, landed, record, held, gate>>
      /\ UNCHANGED spent
  BY DEF SyncAsk, originVars, repoVars, coreVars
<1>3. CASE Goes("reset") /\ prs[Number] = "merged"
  <2>1. op' = [at |-> "reset", base |-> op'.base] /\ op'.base = op.base
    BY <1>1, <1>3 DEF Goes
  <2> QED
    BY <1>1, <1>2, <1>3, <2>1, AsksKeeps
<1>4. CASE Goes("closed")
  <2>1. op' = [at |-> "closed", base |-> op'.base]
    BY <1>1, <1>4 DEF Goes
  <2> QED
    BY <1>1, <1>2, <2>1, AsksKeeps
<1>5. CASE Returns
  BY <1>2, <1>5, AsideKeeps DEF Aside, Returns
<1> QED
  BY <1>3, <1>4, <1>5 DEF SyncAsk, Number

\* Where the release counts: what the reset takes from the integration branch,
\* main or the release's pin has.
LEMMA SyncResetKeeps == ASSUME IInv, SyncReset, UNCHANGED plan PROVE IInv'
<1>1. op = [at |-> "reset", base |-> op.base] /\ op.at = "reset" /\ IsOpen
  BY OpShape DEF SyncReset, IInv, SyncStages, Quiet
<1>2. op' = [at |-> "merged", base |-> op.base] /\ op'.at = "merged"
  BY <1>1 DEF SyncReset, Goes
<1>3. /\ UNCHANGED <<plan, main, branches, prs, pins, landed, record, held, gate>>
      /\ UNCHANGED <<Numbers, Number, IsOpen, spent>>
      /\ integration' = op.base /\ op.base \subseteq main
      /\ Number \in Numbers
      /\ plan.github => prs[Number] = "merged"
  BY <1>1
  DEF SyncReset, originVars, coreVars, Numbers, Number, IsOpen, IInv, Asking, Counted
<1>4. Shapes'
  BY <1>2, <1>3 DEF IInv, Shapes, SyncStages
<1>5. Counted' /\ Quiet' /\ Asking'
  BY <1>1, <1>2, <1>3 DEF IInv, Counted, Quiet, Asking, Changes, ReleaseStages
<1>6. Covered'
  <2>1. Changes(integration') \subseteq Changes(main')
    BY <1>3, ChangesOfMore
  <2> QED
    BY <1>2, <2>1 DEF Covered
<1>7. WorkIsKept'
  <2>1. DOMAIN pins' = Numbers /\ UNCHANGED <<plan, main, pins, landed>>
    BY <1>3 DEF IInv, Shapes
  <2>2. CASE plan.github
    <3>1. Changes(integration) \subseteq Changes(main)
      BY <1>1, <1>3, <2>2 DEF IInv, Asking, Covered
    <3> QED
      BY <2>1, <2>2, <3>1 DEF IInv, WorkIsKept, Changes
  <2>3. CASE ~plan.github
    <3>1. \A c \in landed : \/ c \in Changes(main)
                            \/ \E n \in DOMAIN pins : c \in Changes(pins[n])
      BY <1>1, <1>3, <2>1, <2>3 DEF IInv, Covered, WorkIsKept
    <3> QED
      BY <2>1, <2>3, <3>1 DEF WorkIsKept, Changes
  <2> QED
    BY <2>2, <2>3
<1> QED
  BY <1>4, <1>5, <1>6, <1>7 DEF IInv

LEMMA SyncSettleKeeps == ASSUME IInv, SyncSettle, UNCHANGED plan PROVE IInv'
<1> DEFINE status == IF op.at = "merged" THEN "Merged" ELSE "Closed"
<1>1. op' = [at |-> "idle"] /\ op'.at = "idle" /\ IsOpen
  BY DEF SyncSettle, Returns, IInv, Quiet
<1>2. record.release =
        [number |-> Number, base |-> record.release.base, status |-> record.release.status]
  BY <1>1 DEF IInv, Shapes, IsOpen
<1>3. record' =
        [counter |-> record.counter,
         release |-> [number |-> Number, base |-> record.release.base, status |-> status]]
  <2>1. record' = [record EXCEPT !.release.status = status]
    BY DEF SyncSettle
  <2>2. record = [counter |-> record.counter, release |-> record.release]
    BY DEF IInv, Shapes
  <2> QED
    BY <1>2, <2>1, <2>2
<1>4. /\ record'.counter = record.counter /\ ~IsOpen'
      /\ record'.release =
           [number |-> Number', base |-> record'.release.base, status |-> record'.release.status]
  BY <1>3 DEF Number, IsOpen
<1>5. UNCHANGED <<plan, main, branches, prs, pins, integration, landed, spent, Numbers>>
  BY DEF SyncSettle, originVars, repoVars, Numbers
<1>6. Shapes'
  BY <1>1, <1>3, <1>4, <1>5 DEF IInv, Shapes
<1>7. Counted'
  BY <1>1, <1>4, <1>5 DEF IInv, Counted
<1>8. Quiet' /\ Asking' /\ Covered' /\ WorkIsKept'
  BY <1>1, <1>4, <1>5 DEF IInv, Quiet, Asking, Covered, WorkIsKept, Changes, ReleaseStages
<1> QED
  BY <1>6, <1>7, <1>8 DEF IInv

-----------------------------------------------------------------------------
(* The origin.  Its main branch only grows.                                 *)

LEMMA OriginKeeps ==
  ASSUME IInv, main \subseteq main',
         prs' = [n \in Numbers |-> prs'[n]],
         \A n \in Numbers :
           \/ prs'[n] = prs[n]
           \/ /\ prs[n] = "open" /\ prs'[n] \in {"merged", "closed"}
              /\ prs'[n] = "merged" => Changes(branches[n]) \subseteq Changes(main'),
         UNCHANGED <<plan, branches, pins, integration, landed, record, held, gate, op, spent>>
  PROVE  IInv'
<1>1. UNCHANGED <<Numbers, Number, IsOpen>>
  BY DEF Numbers, Number, IsOpen
<1>2. Changes(main) \subseteq Changes(main')
  BY ChangesOfMore
<1>3. Shapes'
  BY <1>1 DEF IInv, Shapes
<1>4. Counted'
  BY <1>1 DEF IInv, Counted
<1>5. Quiet' /\ Covered' /\ WorkIsKept'
  BY <1>1, <1>2 DEF IInv, Quiet, Covered, WorkIsKept, Changes
<1>6. Asking'
  <2>1. op.at = "reset" => Number \in Numbers
    BY DEF IInv, Counted, Quiet
  <2> QED
    BY <1>1, <1>2, <2>1 DEF IInv, Asking, Changes
<1> QED
  BY <1>3, <1>4, <1>5, <1>6 DEF IInv

LEMMA MergePrKeeps ==
  ASSUME IInv, NEW m \in Numbers, NEW method, MergePr(m, method), UNCHANGED plan
  PROVE  IInv'
<1>1. /\ main \subseteq main'
      /\ Changes(branches[m]) \subseteq Changes(main')
  <2>1. CASE method = "squash"
    BY <2>1, ChangesOfCommit DEF MergePr
  <2>2. CASE method # "squash"
    BY <2>2, ChangesOfMerge DEF MergePr
  <2> QED
    BY <2>1, <2>2
<1>2. /\ prs' = [n \in Numbers |-> prs'[n]]
      /\ \A n \in Numbers : prs'[n] = IF n = m THEN "merged" ELSE prs[n]
      /\ prs[m] = "open"
  BY DEF MergePr, IInv, Shapes
<1> QED
  BY <1>1, <1>2, OriginKeeps DEF MergePr, repoVars, coreVars

LEMMA ClosePrKeeps ==
  ASSUME IInv, NEW m \in Numbers, ClosePr(m), UNCHANGED plan
  PROVE  IInv'
<1>1. /\ prs' = [n \in Numbers |-> prs'[n]]
      /\ \A n \in Numbers : prs'[n] = IF n = m THEN "closed" ELSE prs[n]
      /\ prs[m] = "open"
  BY DEF ClosePr, IInv, Shapes
<1> QED
  BY <1>1, OriginKeeps DEF ClosePr, repoVars, coreVars

LEMMA MergeBranchKeeps ==
  ASSUME IInv, NEW m \in Numbers, MergeBranch(m), UNCHANGED plan
  PROVE  IInv'
<1>1. main \subseteq main'
  BY ChangesOfMerge DEF MergeBranch
<1>2. prs' = [n \in Numbers |-> prs'[n]] /\ UNCHANGED prs
  BY DEF MergeBranch, IInv, Shapes
<1> QED
  BY <1>1, <1>2, OriginKeeps DEF MergeBranch, repoVars, coreVars

LEMMA PushMainKeeps == ASSUME IInv, NEW c, PushMain(c), UNCHANGED plan PROVE IInv'
<1>1. main \subseteq main'
  BY ChangesOfCommit DEF PushMain
<1>2. prs' = [n \in Numbers |-> prs'[n]] /\ UNCHANGED prs
  BY DEF PushMain, IInv, Shapes
<1> QED
  BY <1>1, <1>2, OriginKeeps DEF PushMain, repoVars, coreVars

-----------------------------------------------------------------------------
(* A restart.                                                               *)

LEMMA RestartsKeeps ==
  ASSUME IInv, Restarts, UNCHANGED <<plan, landed>>, spent' = spent \/ Spend("crashes")
  PROVE  IInv'
<1>1. /\ spent' \in [{"releases", "drains", "crashes", "failures"} -> Nat]
      /\ spent'["releases"] = spent["releases"]
  BY SpendShape DEF IInv, Shapes
<1>2. /\ op' = [at |-> "idle"] /\ op'.at = "idle" /\ held' = IsOpen
      /\ UNCHANGED <<main, branches, prs, pins, integration, record>>
      /\ UNCHANGED <<Numbers, Number, IsOpen>>
  BY DEF Restarts, Returns, originVars, repoVars, Numbers, Number, IsOpen
<1>3. IsOpen => gate' = None
  BY PumpedStands DEF Restarts
<1>4. Shapes'
  BY <1>1, <1>2 DEF IInv, Shapes
<1>5. Counted' /\ Quiet' /\ Asking' /\ Covered' /\ WorkIsKept'
  BY <1>1, <1>2, <1>3
  DEF IInv, Counted, Quiet, Asking, Covered, WorkIsKept, Changes, ReleaseStages
<1> QED
  BY <1>4, <1>5 DEF IInv

-----------------------------------------------------------------------------
(* The theorem.                                                             *)

LEMMA InitHolds == Init => IInv
<1> SUFFICES ASSUME Init PROVE IInv
  OBVIOUS
<1>1. /\ plan.releases \in Nat
      /\ op = [at |-> "idle"] /\ op.at = "idle"
      /\ record = [counter |-> 0, release |-> None]
      /\ record.counter = 0 /\ record.release = None /\ ~IsOpen
  BY PlansAssumption DEF Init, OriginInit, IsOpen
<1>2. Shapes
  BY <1>1 DEF Init, OriginInit, Shapes, Numbers
<1>3. Counted
  BY <1>1 DEF Init, OriginInit, Counted, Numbers
<1>4. Quiet /\ Asking /\ Covered
  BY <1>1 DEF Init, OriginInit, Quiet, Asking, Covered, ReleaseStages, Numbers
<1>5. WorkIsKept
  <2>1. Changes(integration) = Changes(Base) \cup {0} /\ landed = {0}
    BY ChangesOfCommit DEF Init, OriginInit
  <2> QED
    BY <2>1 DEF WorkIsKept
<1> QED
  BY <1>2, <1>3, <1>4, <1>5 DEF IInv

LEMMA StepKeeps == IInv /\ [Next]_vars => IInv'
<1> SUFFICES ASSUME IInv, [Next]_vars PROVE IInv'
  OBVIOUS
<1>1. CASE JobLands
  BY <1>1, LandKeeps DEF JobLands
<1>2. CASE GateOver
  BY <1>2, GateEndsKeeps DEF GateOver, Alone
<1>3. CASE Handles
  BY <1>3, ReleaseFetchKeeps, ReleaseCountKeeps, ReleasePinKeeps, ReleasePushKeeps,
     ReleasePrKeeps, ReleaseOpenKeeps, SyncFetchKeeps, SyncAskKeeps, SyncResetKeeps,
     SyncSettleKeeps
  DEF Handles, Alone
<1>4. CASE Fails
  BY <1>4, AsideKeeps DEF Fails, Alone, CallFails, Returns, Aside, originVars, repoVars, coreVars
<1>5. CASE Asked
  <2>1. CASE Drain
    BY <1>5, <2>1, AsideKeeps DEF Asked, Alone, Drain, Aside, originVars, repoVars
  <2> QED
    BY <1>5, <2>1, ReleaseKeeps, SyncKeeps, EnqueueKeeps DEF Asked, Alone
<1>6. CASE Outside
  <2>1. DOMAIN prs = Numbers
    BY DEF IInv, Shapes
  <2> QED
    BY <1>6, <2>1, MergePrKeeps, ClosePrKeeps, MergeBranchKeeps, PushMainKeeps
    DEF Outside, Alone
<1>7. CASE Tick
  BY <1>7, AsideKeeps DEF Tick, Aside, originVars, repoVars, coreVars
<1>8. CASE JobMoves \/ TimePasses
  BY <1>8, AsideKeeps
  DEF JobMoves, TimePasses, Aside, projectVars, originVars, repoVars, coreVars
<1>9. CASE Crash \/ DrainedRestart
  BY <1>9, RestartsKeeps DEF Crash, DrainedRestart, Starts, Restarts, repoVars
<1>10. CASE UNCHANGED vars
  BY <1>10, AsideKeeps DEF vars, Aside, projectVars, originVars, repoVars, coreVars
<1> QED
  BY <1>1, <1>2, <1>3, <1>4, <1>5, <1>6, <1>7, <1>8, <1>9, <1>10 DEF Next

\* What has landed is never lost, however many releases, landings, pushes, failing
\* calls and restarts there are, and in whatever order.
THEOREM LandedWorkIsKept == Spec => []WorkIsKept
<1>1. IInv => WorkIsKept
  BY DEF IInv
<1> QED
  BY InitHolds, StepKeeps, <1>1, PTL DEF Spec
-----------------------------------------------------------------------------
(* The calendar: the search for the newest occurrence.                      *)

LEMMA DivMod ==
  ASSUME NEW m \in Nat \ {0}, NEW t \in Int
  PROVE  t \div m \in Int /\ (t \div m) * m <= t /\ t < (t \div m + 1) * m
OBVIOUS

LEMMA Stretch ==
  ASSUME NEW m \in Nat \ {0}, NEW a \in Int, NEW b \in Int, a < b
  PROVE  (a + 1) * m <= b * m
OBVIOUS

\* Minute t is in day d between the day's first minute and its last.
LEMMA InDay ==
  ASSUME NEW m \in Nat \ {0}, NEW t \in Int, NEW d \in Int, d * m <= t, t <= (d + 1) * m - 1
  PROVE  t \div m = d
<1>1. ~(t \div m < d) /\ ~(d < t \div m)
  BY DivMod, Stretch
<1> QED
  BY <1>1, DivMod

LEMMA DaysInOrder ==
  ASSUME NEW m \in Nat \ {0}, NEW t \in Int, NEW u \in Int, t <= u
  PROVE  t \div m <= u \div m
<1>1. ~(u \div m < t \div m)
  BY DivMod, Stretch
<1> QED
  BY <1>1, DivMod

\* Fewer than n days of minutes span at most n days.
LEMMA DaysApart ==
  ASSUME NEW m \in Nat \ {0}, NEW t \in Int, NEW u \in Int, NEW n \in Nat, u - n * m < t
  PROVE  u \div m - t \div m <= n
<1> DEFINE a == u \div m
           b == t \div m
<1>1. a \in Int /\ b \in Int /\ a * m <= u /\ t < (b + 1) * m
  BY DivMod
<1>2. ~(b + n < a)
  <2> SUFFICES ASSUME b + n < a PROVE FALSE
    OBVIOUS
  <2>1. (b + n + 1) * m <= a * m
    <3>1. b + n \in Int
      BY <1>1
    <3> HIDE DEF a, b
    <3> QED
      BY <1>1, <3>1, Stretch
  <2>2. (b + n + 1) * m = (b + 1) * m + n * m
    <3> HIDE DEF a, b
    <3> QED
      BY <1>1
  <2>3. n * m \in Int /\ a * m \in Int /\ (b + 1) * m \in Int
    <3> HIDE DEF a, b
    <3> QED
      BY <1>1
  <2> HIDE DEF a, b
  <2> QED
    BY <1>1, <2>1, <2>2, <2>3
<1> HIDE DEF a, b
<1>3. a - b <= n
  BY <1>1, <1>2
<1> QED
  BY <1>3 DEF a, b

\* A set of integers that is bounded above has a greatest element.
LEMMA Greatest ==
  ASSUME NEW S \in SUBSET Int, S # {}, NEW top \in Int, \A x \in S : x <= top
  PROVE  Max(S) \in S /\ \A x \in S : x <= Max(S)
<1> DEFINE below == {top - x : x \in S}
<1>1. below \in SUBSET Nat /\ below # {}
  <2>1. \A x \in S : x \in Int /\ x <= top
    OBVIOUS
  <2>2. \A x \in S : top - x \in Nat
    BY <2>1
  <2> QED
    BY <2>2
<1>2. PICK i \in below : \A j \in below : ~(<<j, i>> \in OpToRel(<, Nat))
  <2> HIDE DEF below
  <2> QED
    BY <1>1, WFMin, NatLessThanWellFounded
<1>3. PICK x \in S : i = top - x
  BY DEF below
<1>4. \A y \in S : x >= y
  <2> SUFFICES ASSUME NEW y \in S PROVE x >= y
    OBVIOUS
  <2>1. top - y \in below /\ i \in Nat /\ top - y \in Nat
    BY <1>1
  <2>2. ~(top - y < i)
    <3> HIDE DEF below
    <3> QED
      BY <1>2, <2>1 DEF OpToRel
  <2> QED
    BY <1>3, <2>2
<1>5. \E z \in S : \A y \in S : z >= y
  BY <1>4
<1>6. Max(S) \in S /\ \A y \in S : Max(S) >= y
  BY <1>5 DEF Max
<1> QED
  BY <1>6

LEMMA GreaterOfTwo ==
  ASSUME NEW a \in Int, NEW b \in Int
  PROVE  Max({a, b}) \in {a, b} /\ a <= Max({a, b}) /\ b <= Max({a, b})
<1> DEFINE S == {a, b}
<1>1. S \in SUBSET Int /\ S # {} /\ \E top \in Int : \A x \in S : x <= top
  <2>1. CASE a <= b
    BY <2>1
  <2>2. CASE b <= a
    BY <2>2
  <2> QED
    BY <2>1, <2>2
<1>2. a \in S /\ b \in S
  OBVIOUS
<1> HIDE DEF S
<1>3. Max(S) \in S /\ \A x \in S : x <= Max(S)
  BY <1>1, Greatest
<1> QED
  BY <1>2, <1>3 DEF S

LEMMA MinutesInDay == MinutesPerDay \in Nat \ {0} /\ Lookback \in Nat
<1>1. /\ MinutesPerHour \in Nat \ {0} /\ HoursPerDay \in Nat \ {0} /\ Lookback \in Nat \ {0}
  BY CalendarAssumption
<1> QED
  BY <1>1 DEF MinutesPerDay

\* A day matches by its date alone.
LEMMA DayMatches ==
  ASSUME NEW c, NEW t, NEW u, Day(t) = Day(u)
  PROVE  MatchesDay(c, t) <=> MatchesDay(c, u)
BY DEF MatchesDay, Hits, Shows

\* The backward search, day by day, finds the newest matching minute in (after, at], or
\* none in the window of Lookback days.
LEMMA NewestOccurrence ==
  ASSUME NEW c, NEW at \in Int, NEW after \in Int, LatestOccurrence(c, at, after) # Never
  PROVE  LET o == LatestOccurrence(c, at, after)
         IN /\ o \in Int /\ after < o /\ o <= at
            /\ Matches(c, o)
            /\ \A t \in o + 1 .. at : ~Matches(c, t)
<1> DEFINE M == MinutesPerDay
           floor == Max({after, at - Lookback * M})
           days == {d \in DaysBack(at, floor) :
                      MatchesDay(c, d * M) /\ MinutesOf(c, d, at, floor) # {}}
           last == Max(days)
           o == LatestOccurrence(c, at, after)
<1>1. M \in Nat \ {0} /\ Lookback \in Nat /\ Lookback * M \in Int
  BY MinutesInDay
<1>2. floor \in Int /\ after <= floor /\ at - Lookback * M <= floor
  <2> DEFINE b == at - Lookback * M
  <2>1. b \in Int
    <3> HIDE DEF M
    <3> QED
      BY <1>1
  <2> HIDE DEF b, M
  <2>2. Max({after, b}) \in {after, b} /\ after <= Max({after, b}) /\ b <= Max({after, b})
    BY <2>1, GreaterOfTwo
  <2> QED
    BY <2>1, <2>2 DEF b
<1>3. o = IF days = {} THEN Never ELSE Max(MinutesOf(c, last, at, floor))
  BY DEF LatestOccurrence
<1>4. days # {}
  BY <1>3
<1> HIDE DEF M, floor
<1>5. Day(at) \in Int /\ Day(floor) \in Int
  BY <1>1, <1>2, DivMod DEF Day, M
<1>6. last \in days /\ \A d \in days : d <= last
  <2>1. days \in SUBSET Int /\ \A d \in days : d <= Day(at)
    BY <1>5 DEF DaysBack
  <2> HIDE DEF days
  <2> QED
    BY <1>4, <1>5, <2>1, Greatest
<1>7. last \in Int /\ MatchesDay(c, last * M) /\ MinutesOf(c, last, at, floor) # {}
  <2> HIDE DEF last, o
  <2>1. last \in DaysBack(at, floor) /\ MatchesDay(c, last * M) /\ MinutesOf(c, last, at, floor) # {}
    BY <1>6
  <2> QED
    BY <1>5, <2>1 DEF DaysBack
<1> HIDE DEF days, last
<1> DEFINE minutes == MinutesOf(c, last, at, floor)
<1>8. /\ \A t \in minutes : t \in Int /\ last * M <= t /\ t <= (last + 1) * M - 1 /\ floor < t /\ t <= at
                            /\ Hits(c, "minute", t) /\ Hits(c, "hour", t)
  <2>1. last * M \in Int /\ (last + 1) * M - 1 \in Int
    BY <1>1, <1>7
  <2> QED
    BY <2>1 DEF MinutesOf, M
<1>9. o \in minutes /\ \A t \in minutes : t <= o
  <2>1. minutes \in SUBSET Int /\ minutes # {} /\ \A t \in minutes : t <= at
    BY <1>7, <1>8
  <2>2. o = Max(minutes)
    BY <1>3, <1>4
  <2> HIDE DEF minutes, o
  <2> QED
    BY <2>1, <2>2, Greatest
<1>10. Matches(c, o)
  <2>1. o \in Int /\ Day(o) = last /\ Day(last * M) = last
    <3>1. o \in Int /\ last * M <= o /\ o <= (last + 1) * M - 1
      BY <1>8, <1>9
    <3>2. last * M \in Int /\ last * M <= last * M /\ last * M <= (last + 1) * M - 1
      BY <1>1, <1>7
    <3> HIDE DEF o
    <3> QED
      BY <1>1, <1>7, <3>1, <3>2, InDay DEF Day, M
  <2>2. MatchesDay(c, o)
    BY <1>7, <2>1, DayMatches
  <2> QED
    BY <1>8, <1>9, <2>2 DEF Matches
<1> HIDE DEF o
<1>11. ASSUME NEW t \in o + 1 .. at, Matches(c, t) PROVE FALSE
  <2>1. o \in Int /\ t \in Int /\ o < t /\ t <= at /\ floor < t
    BY <1>2, <1>8, <1>9
  <2> DEFINE d == Day(t)
  <2>2. d \in Int /\ d * M <= t /\ t <= (d + 1) * M - 1
    <3>1. d \in Int /\ d * M <= t /\ t < (d + 1) * M
      BY <1>1, <2>1, DivMod DEF Day, M
    <3>2. (d + 1) * M \in Int
      BY <1>1, <3>1
    <3> HIDE DEF d
    <3> QED
      BY <2>1, <3>1, <3>2
  <2>3. Day(floor) <= d /\ d <= Day(at) /\ Day(at) - d <= Lookback
    <3>1. at - Lookback * M < t
      BY <1>1, <1>2, <2>1
    <3> QED
      BY <1>1, <1>2, <2>1, <3>1, DaysInOrder, DaysApart DEF Day, M
  <2>4. Day(d * M) = d
    <3>1. d * M \in Int /\ d * M <= d * M /\ d * M <= (d + 1) * M - 1
      BY <1>1, <2>2
    <3> HIDE DEF d
    <3> QED
      BY <1>1, <2>2, <3>1, InDay DEF Day, M
  <2>5. t \in MinutesOf(c, d, at, floor)
    <3>1. d * M \in Int /\ (d + 1) * M - 1 \in Int
      BY <1>1, <2>2
    <3> QED
      BY <1>11, <2>1, <2>2, <3>1 DEF MinutesOf, Matches, M
  <2>6. d \in days
    <3>1. MatchesDay(c, d * M)
      BY <1>11, <2>4, DayMatches DEF Matches
    <3> QED
      BY <1>5, <2>2, <2>3, <2>5, <3>1 DEF days, DaysBack
  <2>7. d <= last
    BY <1>6, <2>6
  <2>8. CASE d = last
    BY <1>9, <2>1, <2>5, <2>8
  <2>9. CASE d < last
    <3>1. (d + 1) * M <= last * M
      BY <1>1, <1>7, <2>2, <2>9, Stretch
    <3>2. last * M <= o /\ (d + 1) * M \in Int /\ last * M \in Int
      BY <1>1, <1>7, <1>8, <1>9, <2>2
    <3> HIDE DEF d
    <3> QED
      BY <2>1, <2>2, <3>1, <3>2
  <2> QED
    BY <1>7, <2>2, <2>7, <2>8, <2>9
<1> QED
  BY <1>2, <1>8, <1>9, <1>10, <1>11 DEF o
-----------------------------------------------------------------------------
(* The jobs of the schedules.                                               *)

JobFields == {"schedule", "occurrence", "created", "completed", "state", "file"}
JobOk(job) ==
  /\ DOMAIN job = JobFields
  /\ job.occurrence \in Int /\ job.created \in Int /\ job.created <= now
  /\ job.state \in {"Live", "Frozen"} \cup Terminal
  /\ job.state \in Terminal =>
       (job.completed \in Int /\ job.created <= job.completed /\ job.completed <= now)

TableOk(tbl) ==
  /\ IsFiniteSet(DOMAIN tbl)
  /\ \A s \in DOMAIN tbl : DOMAIN tbl[s] = {"file", "since", "skipped"} /\ tbl[s].since \in Int

\* What SchedulesFireOnce says of one job, and of one and an earlier one.
OnTime(job) ==
  /\ job.occurrence <= job.created
  /\ Matches(Parsed(job.file.cron), job.occurrence)
  /\ \A t \in job.occurrence + 1 .. job.created : ~Matches(Parsed(job.file.cron), t)
After(old, job) ==
  old.schedule = job.schedule =>
    /\ old.state \in Terminal
    /\ old.completed <= job.created
    /\ old.completed < job.occurrence

JobsInv ==
  /\ now \in Int
  /\ jobs \in Seq({jobs[i] : i \in DOMAIN jobs})
  /\ \A i \in DOMAIN jobs : JobOk(jobs[i]) /\ OnTime(jobs[i])
  /\ \A i \in DOMAIN jobs : \A k \in 1 .. i - 1 : After(jobs[k], jobs[i])
FireInv == plan \in Plans /\ JobsInv /\ TableOk(table)

LEMMA JobIndex ==
  ASSUME JobsInv
  PROVE  Len(jobs) \in Nat /\ DOMAIN jobs = 1 .. Len(jobs)
BY DEF JobsInv

\* Some order of a finite set has each of its elements once.
LEMMA Ordered ==
  ASSUME NEW F, IsFiniteSet(F)
  PROVE  /\ Cardinality(F) \in Nat
         /\ SetToSeq(F) \in [1 .. Cardinality(F) -> F]
         /\ \A i, j \in 1 .. Cardinality(F) : SetToSeq(F)[i] = SetToSeq(F)[j] => i = j
<1> DEFINE n == Cardinality(F)
<1>1. n \in Nat /\ ExistsBijection(1 .. n, F)
  BY FS_CardinalityType
<1>2. \E f \in [1 .. n -> F] : IsInjective(f)
  BY <1>1 DEF ExistsBijection, Bijection, Injection
<1>3. SetToSeq(F) \in [1 .. n -> F] /\ IsInjective(SetToSeq(F))
  BY <1>2 DEF SetToSeq
<1> QED
  BY <1>1, <1>3 DEF IsInjective

\* A schedule that fires has its newest occurrence after its last job was over.
LEMMA FiringIsDue ==
  ASSUME JobsInv, NEW tbl, TableOk(tbl), NEW s \in DOMAIN tbl, Decision(tbl, s).verdict = "Fire"
  PROVE  LET at == Decision(tbl, s).occurrence
             c  == Parsed(tbl[s].file.cron)
         IN /\ at \in Int /\ at <= now /\ Matches(c, at)
            /\ \A t \in at + 1 .. now : ~Matches(c, t)
            /\ \A k \in DOMAIN jobs : jobs[k].schedule = s =>
                 jobs[k].state \in Terminal /\ jobs[k].completed <= now /\ jobs[k].completed < at
<1> DEFINE latest == LatestScheduledJob(s)
           after == Anchor(tbl[s], latest)
           c == Parsed(tbl[s].file.cron)
           at == LatestOccurrence(c, now, after)
<1>1. /\ Decision(tbl, s).occurrence = at /\ at # Never
      /\ latest = NoJob \/ latest.state \in Terminal
  BY DEF Decision
<1>2. JobsOf(s) \in SUBSET Int /\ Len(jobs) \in Int /\ \A k \in JobsOf(s) : k <= Len(jobs)
  BY JobIndex DEF JobsOf
<1>3. now \in Int /\ tbl[s].since \in Int
  BY DEF JobsInv, TableOk
<1>4. CASE JobsOf(s) = {}
  <2>1. latest = NoJob
    BY <1>4 DEF LatestScheduledJob
  <2>2. after \in Int
    BY <1>3, <2>1 DEF Anchor
  <2>3. \A k \in DOMAIN jobs : jobs[k].schedule # s
    BY <1>4 DEF JobsOf
  <2> HIDE DEF after, latest
  <2> QED
    BY <1>1, <1>3, <2>2, <2>3, NewestOccurrence
<1>5. CASE JobsOf(s) # {}
  <2> DEFINE m == Max(JobsOf(s))
  <2>1. m \in JobsOf(s) /\ \A k \in JobsOf(s) : k <= m
    BY <1>2, <1>5, Greatest
  <2>2. latest = jobs[m]
    BY <1>5 DEF LatestScheduledJob
  <2>3. m \in DOMAIN jobs /\ jobs[m].schedule = s
    BY <2>1 DEF JobsOf
  <2> HIDE DEF m
  <2>4. JobOk(jobs[m]) /\ OnTime(jobs[m])
    BY <2>3 DEF JobsInv
  <2>5. latest # NoJob /\ latest.state \in Terminal
    BY <1>1, <2>2, <2>4 DEF JobOk, NoJob, Terminal
  <2>6. after = jobs[m].completed /\ after \in Int
    BY <2>2, <2>4, <2>5 DEF Anchor, JobOk
  <2> HIDE DEF after, latest
  <2>7. at \in Int /\ after < at /\ at <= now /\ Matches(c, at) /\ \A t \in at + 1 .. now : ~Matches(c, t)
    BY <1>1, <1>3, <2>6, NewestOccurrence
  <2>8. ASSUME NEW k \in DOMAIN jobs, jobs[k].schedule = s
        PROVE  jobs[k].state \in Terminal /\ jobs[k].completed <= now /\ jobs[k].completed < at
    <3>1. k \in JobsOf(s) /\ k <= m /\ k \in Int /\ m \in Int /\ 1 <= k
      BY <1>2, <2>1, <2>8, JobIndex DEF JobsOf
    <3>2. CASE k = m
      BY <2>2, <2>4, <2>5, <2>6, <2>7, <3>2 DEF JobOk
    <3>3. CASE k < m
      <4>1. k \in 1 .. m - 1
        BY <3>1, <3>3
      <4>2. After(jobs[k], jobs[m])
        BY <2>3, <4>1 DEF JobsInv
      <4>3. JobOk(jobs[k])
        BY <2>8 DEF JobsInv
      <4>4. jobs[k].state \in Terminal /\ jobs[k].completed <= jobs[m].created /\ jobs[k].completed \in Int
        BY <2>3, <2>8, <4>2, <4>3 DEF After, JobOk
      <4>5. /\ jobs[m].created \in Int /\ jobs[m].completed \in Int
            /\ jobs[m].created <= jobs[m].completed /\ jobs[m].completed <= now
        BY <2>2, <2>4, <2>5 DEF JobOk
      <4> HIDE DEF at
      <4> QED
        BY <1>3, <2>6, <2>7, <4>4, <4>5
    <3> QED
      BY <3>1, <3>2, <3>3
  <2> QED
    BY <1>1, <2>7, <2>8
<1> QED
  BY <1>4, <1>5

LEMMA TickFires ==
  ASSUME JobsInv, NEW tbl, TableOk(tbl), NEW outcome \in Outcomes(Decisions(tbl)),
         jobs' = Fired(tbl, Decisions(tbl), outcome), now' = now
  PROVE  JobsInv'
<1> DEFINE decided == Decisions(tbl)
           F == {s \in DOMAIN outcome : outcome[s] # "none"}
           n == Cardinality(F)
           firing == SetToSeq(F)
           new == [i \in 1 .. n |-> Created(tbl, decided, firing[i], outcome[firing[i]])]
           len == Len(jobs)
           S == {jobs[i] : i \in DOMAIN jobs} \cup {new[i] : i \in 1 .. n}
<1>1. /\ DOMAIN outcome = Deciding(decided, "Fire") /\ DOMAIN decided = DOMAIN tbl
      /\ \A s \in DOMAIN tbl : decided[s] = Decision(tbl, s)
      /\ \A s \in DOMAIN outcome : outcome[s] \in {"Live", "Frozen", "none"}
  BY DEF Outcomes, Decisions
<1>2. /\ F \subseteq DOMAIN tbl
      /\ \A s \in F : decided[s] = Decision(tbl, s) /\ decided[s].verdict = "Fire"
                      /\ outcome[s] \in {"Live", "Frozen"}
  BY <1>1 DEF Deciding
<1>3. IsFiniteSet(F)
  BY <1>2, FS_Subset DEF TableOk
<1> HIDE DEF F
<1>4. /\ n \in Nat /\ firing \in [1 .. n -> F]
      /\ \A i, j \in 1 .. n : firing[i] = firing[j] => i = j
  BY <1>3, Ordered
<1>5. len \in Nat /\ DOMAIN jobs = 1 .. len
  BY JobIndex
<1>6. jobs' = jobs \o new
  <2>1. DOMAIN firing = 1 .. n
    BY <1>4
  <2> QED
    BY <2>1 DEF Fired, F
<1> HIDE DEF n, firing, decided
<1>7. \A i \in 1 .. n :
        /\ new[i].schedule = firing[i] /\ new[i].occurrence = decided[firing[i]].occurrence
        /\ new[i].created = now /\ new[i].state \in {"Live", "Frozen"}
        /\ new[i].file = tbl[firing[i]].file /\ DOMAIN new[i] = JobFields
        /\ firing[i] \in F
  BY <1>2, <1>4 DEF Created, JobFields
<1> HIDE DEF new
<1>8. /\ jobs \in Seq(S) /\ new \in Seq(S) /\ Len(new) = n
  <2>1. jobs \in Seq(S)
    BY DEF JobsInv
  <2>2. new \in [1 .. n -> S]
    BY DEF new
  <2> QED
    BY <1>4, <2>1, <2>2
<1> HIDE DEF S
<1>9. /\ jobs' \in Seq(S) /\ Len(jobs') = len + n /\ DOMAIN jobs' = 1 .. len + n
      /\ \A i \in 1 .. len : jobs'[i] = jobs[i]
      /\ \A i \in 1 .. n : jobs'[len + i] = new[i]
  <2>1. /\ jobs \o new \in Seq(S) /\ Len(jobs \o new) = Len(jobs) + Len(new)
        /\ DOMAIN (jobs \o new) = 1 .. Len(jobs) + Len(new)
        /\ \A i \in 1 .. Len(jobs) : (jobs \o new)[i] = jobs[i]
        /\ \A i \in 1 .. Len(new) : (jobs \o new)[Len(jobs) + i] = new[i]
    BY <1>8
  <2> QED
    BY <1>6, <1>8, <2>1, Zenon
<1>10. \A i \in 1 .. len + n : i \in 1 .. len \/ (i - len \in 1 .. n /\ jobs'[i] = new[i - len])
  <2> SUFFICES ASSUME NEW i \in 1 .. len + n, i \notin 1 .. len
               PROVE  i - len \in 1 .. n /\ jobs'[i] = new[i - len]
    OBVIOUS
  <2>1. i - len \in 1 .. n /\ len + (i - len) = i
    BY <1>4, <1>5
  <2> QED
    BY <1>9, <2>1
<1> HIDE DEF len
<1>11. ASSUME NEW i \in 1 .. n
       PROVE  /\ JobOk(new[i]) /\ OnTime(new[i])
              /\ \A k \in DOMAIN jobs : After(jobs[k], new[i])
  <2>1. firing[i] \in DOMAIN tbl /\ Decision(tbl, firing[i]).verdict = "Fire"
        /\ new[i].occurrence = Decision(tbl, firing[i]).occurrence
    BY <1>2, <1>7
  <2>2. /\ new[i].occurrence \in Int /\ new[i].occurrence <= now
        /\ Matches(Parsed(new[i].file.cron), new[i].occurrence)
        /\ \A t \in new[i].occurrence + 1 .. now : ~Matches(Parsed(new[i].file.cron), t)
        /\ \A k \in DOMAIN jobs : jobs[k].schedule = new[i].schedule =>
             /\ jobs[k].state \in Terminal /\ jobs[k].completed <= now
             /\ jobs[k].completed < new[i].occurrence
    BY <1>7, <2>1, FiringIsDue
  <2>3. now \in Int /\ new[i].state \notin Terminal
    BY <1>7 DEF JobsInv, Terminal
  <2> QED
    BY <1>7, <2>2, <2>3 DEF JobOk, OnTime, After
<1>12. \A i \in 1 .. n : \A k \in 1 .. i - 1 : k \in 1 .. n /\ ~(new[k].schedule = new[i].schedule)
  <2> SUFFICES ASSUME NEW i \in 1 .. n, NEW k \in 1 .. i - 1
               PROVE  k \in 1 .. n /\ ~(new[k].schedule = new[i].schedule)
    OBVIOUS
  <2>1. k \in 1 .. n /\ k # i
    BY <1>4
  <2> QED
    BY <1>4, <1>7, <2>1
<1>13. ASSUME NEW i \in DOMAIN jobs'
       PROVE  /\ JobOk(jobs'[i]) /\ OnTime(jobs'[i])
              /\ \A k \in 1 .. i - 1 : After(jobs'[k], jobs'[i])
  <2>1. CASE i \in 1 .. len
    <3>1. jobs'[i] = jobs[i] /\ \A k \in 1 .. i - 1 : jobs'[k] = jobs[k]
      BY <1>5, <1>9, <2>1
    <3> QED
      BY <1>5, <2>1, <3>1 DEF JobsInv
  <2>2. CASE i \notin 1 .. len
    <3> DEFINE j == i - len
    <3>1. j \in 1 .. n /\ jobs'[i] = new[j]
      BY <1>9, <1>10, <1>13, <2>2
    <3>2. ASSUME NEW k \in 1 .. i - 1 PROVE After(jobs'[k], new[j])
      <4>1. CASE k \in 1 .. len
        BY <1>5, <1>9, <1>11, <3>1, <4>1
      <4>2. CASE k \notin 1 .. len
        <5>1. k - len \in 1 .. n /\ jobs'[k] = new[k - len] /\ k - len \in 1 .. j - 1
          <6>1. k \in 1 .. len + n
            BY <1>4, <1>5, <1>9, <1>13
          <6>2. k - len \in 1 .. n /\ jobs'[k] = new[k - len]
            BY <1>10, <4>2, <6>1
          <6>3. k - len < i - len
            BY <1>5, <1>9, <1>13
          <6> QED
            BY <1>4, <3>1, <6>2, <6>3
        <5> HIDE DEF j
        <5> QED
          BY <1>12, <3>1, <5>1 DEF After
      <4> QED
        BY <4>1, <4>2
    <3> QED
      BY <1>11, <3>1, <3>2
  <2> QED
    BY <2>1, <2>2
<1>14. jobs' \in Seq({jobs'[i] : i \in DOMAIN jobs'})
  <2>1. jobs' \in [1 .. len + n -> {jobs'[i] : i \in DOMAIN jobs'}] /\ len + n \in Nat
    BY <1>4, <1>5, <1>9
  <2> QED
    BY <2>1
<1>15. \A i \in DOMAIN jobs' : JobOk(jobs[i])' /\ OnTime(jobs[i])'
  BY <1>13 DEF JobOk, OnTime
<1>16. \A i \in DOMAIN jobs' : \A k \in 1 .. i - 1 : After(jobs[k], jobs[i])'
  BY <1>13 DEF After
<1>17. now' \in Int
  BY DEF JobsInv
<1> QED
  BY <1>14, <1>15, <1>16, <1>17 DEF JobsInv
LEMMA Listed ==
  ASSUME NEW n \in Nat, NEW S, NEW f \in [1 .. n -> S]
  PROVE  f \in Seq(S)
OBVIOUS

\* A job that is not over changes its state: no later one is of its schedule.
LEMMA JobChanges ==
  ASSUME JobsInv, now' = now, NEW i \in DOMAIN jobs, NEW job,
         jobs[i].state \notin Terminal,
         jobs' = [jobs EXCEPT ![i] = job], JobOk(job),
         job.schedule = jobs[i].schedule, job.occurrence = jobs[i].occurrence,
         job.created = jobs[i].created, job.file = jobs[i].file
  PROVE  JobsInv'
<1>1. /\ DOMAIN jobs' = DOMAIN jobs /\ DOMAIN jobs = 1 .. Len(jobs) /\ Len(jobs) \in Nat
      /\ jobs'[i] = job /\ \A k \in DOMAIN jobs : k # i => jobs'[k] = jobs[k]
  BY JobIndex
<1>2. jobs' \in Seq({jobs'[k] : k \in DOMAIN jobs'})
  <2> DEFINE n == Len(jobs)
             S == {jobs'[k] : k \in DOMAIN jobs'}
  <2>1. jobs' \in [1 .. n -> S] /\ n \in Nat
    BY <1>1
  <2> HIDE DEF n, S
  <2>2. jobs' \in Seq(S)
    BY <2>1, Listed, Zenon
  <2> QED
    BY <2>2 DEF S
<1>3. \A k \in DOMAIN jobs' : JobOk(jobs[k])' /\ OnTime(jobs[k])'
  BY <1>1 DEF JobsInv, JobOk, OnTime
<1>4. ASSUME NEW k \in DOMAIN jobs', NEW l \in 1 .. k - 1 PROVE After(jobs[l], jobs[k])'
  <2>1. k \in DOMAIN jobs /\ l \in DOMAIN jobs /\ After(jobs[l], jobs[k]) /\ k # l
    BY <1>1, <1>4 DEF JobsInv
  <2>2. CASE k = i
    BY <1>1, <2>1, <2>2 DEF After
  <2>3. CASE l = i
    BY <1>1, <2>1, <2>3 DEF After
  <2> QED
    BY <1>1, <2>1, <2>2, <2>3 DEF After
<1> QED
  BY <1>2, <1>3, <1>4 DEF JobsInv

LEMMA JobMovesKeep ==
  ASSUME JobsInv, NEW i \in DOMAIN jobs,
         ReleaseByHand(i) \/ \E state \in Terminal : Ends(i, state)
  PROVE  JobsInv'
<1>1. JobOk(jobs[i]) /\ now \in Int
  BY DEF JobsInv
<1>2. CASE ReleaseByHand(i)
  <2> DEFINE job == [jobs[i] EXCEPT !.state = "Live"]
  <2>1. jobs' = [jobs EXCEPT ![i] = job] /\ now' = now /\ jobs[i].state \notin Terminal
    BY <1>2 DEF ReleaseByHand, Terminal
  <2>2. /\ JobOk(job) /\ job.schedule = jobs[i].schedule /\ job.occurrence = jobs[i].occurrence
        /\ job.created = jobs[i].created /\ job.file = jobs[i].file
    BY <1>1 DEF JobOk, JobFields, Terminal
  <2> HIDE DEF job
  <2> QED
    BY <2>1, <2>2, JobChanges
<1>3. CASE \E state \in Terminal : Ends(i, state)
  <2>1. PICK state \in Terminal : Ends(i, state)
    BY <1>3
  <2> DEFINE job == [jobs[i] EXCEPT !.state = state, !.completed = now]
  <2>2. jobs' = [jobs EXCEPT ![i] = job] /\ now' = now /\ jobs[i].state \notin Terminal
    BY <2>1 DEF Ends, Terminal
  <2>3. /\ JobOk(job) /\ job.schedule = jobs[i].schedule /\ job.occurrence = jobs[i].occurrence
        /\ job.created = jobs[i].created /\ job.file = jobs[i].file
    BY <1>1 DEF JobOk, JobFields
  <2> HIDE DEF job
  <2> QED
    BY <2>2, <2>3, JobChanges
<1> QED
  BY <1>2, <1>3

\* The clock moves, or nothing of this does.
LEMMA LaterJobs ==
  ASSUME JobsInv, jobs' = jobs, now' \in Int, now <= now'
  PROVE  JobsInv'
<1>1. \A i \in DOMAIN jobs : JobOk(jobs[i])'
  <2> SUFFICES ASSUME NEW i \in DOMAIN jobs PROVE JobOk(jobs[i])'
    OBVIOUS
  <2>1. JobOk(jobs[i]) /\ now \in Int
    BY DEF JobsInv
  <2> QED
    BY <2>1 DEF JobOk
<1> QED
  BY <1>1 DEF JobsInv, OnTime, After

-----------------------------------------------------------------------------
(* The table.                                                               *)

LEMMA EmptyTable == TableOk(<<>>)
<1>1. DOMAIN <<>> = {}
  OBVIOUS
<1> QED
  BY <1>1, FS_EmptySet DEF TableOk

LEMMA FilesAreFinite ==
  ASSUME plan \in Plans, NEW branch
  PROVE  IsFiniteSet(DOMAIN FilesAt(branch))
<1>1. IsFiniteSet(DOMAIN plan.edits)
  BY EditsAssumption
<1> DEFINE S == DOMAIN plan.edits
           stems == {plan.edits[c].stem : c \in S}
           f == [c \in S |-> plan.edits[c].stem]
<1>2. IsFiniteSet(stems)
  <2>1. f \in Surjection(S, stems)
    BY DEF Surjection
  <2> HIDE DEF f, stems
  <2> QED
    BY <1>1, <2>1, FS_Surjection
<1>3. DOMAIN FilesAt(branch) \subseteq stems
  BY DEF FilesAt
<1> HIDE DEF stems
<1> QED
  BY <1>2, <1>3, FS_Subset

LEMMA RefreshedIsOk ==
  ASSUME now \in Int, NEW old, TableOk(old), NEW files, IsFiniteSet(DOMAIN files)
  PROVE  TableOk(Refreshed(old, files))
<1> DEFINE loaded == Load(files)
           new == Refreshed(old, files)
<1>1. DOMAIN loaded \subseteq DOMAIN files
  BY DEF Load, Restrict
<1>2. DOMAIN new = DOMAIN loaded
  BY DEF Refreshed, Merge
<1>3. IsFiniteSet(DOMAIN new)
  BY <1>1, <1>2, FS_Subset
<1>4. ASSUME NEW s \in DOMAIN new
      PROVE  DOMAIN new[s] = {"file", "since", "skipped"} /\ new[s].since \in Int
  <2>1. new[s] = IF s \in DOMAIN old
                 THEN [old[s] EXCEPT !.file = loaded[s]]
                 ELSE [file |-> loaded[s], since |-> now, skipped |-> Never]
    BY <1>2, <1>4 DEF Refreshed, Merge
  <2> HIDE DEF loaded, new
  <2>2. CASE s \in DOMAIN old
    BY <2>1, <2>2 DEF TableOk
  <2>3. CASE s \notin DOMAIN old
    BY <2>1, <2>3
  <2> QED
    BY <2>2, <2>3
<1> HIDE DEF new
<1> QED
  BY <1>3, <1>4 DEF TableOk, new

LEMMA SkippedIsOk ==
  ASSUME NEW tbl, TableOk(tbl), NEW decided
  PROVE  TableOk(Skipped(tbl, decided))
<1>1. DOMAIN Skipped(tbl, decided) = DOMAIN tbl
  BY DEF Skipped
<1>2. ASSUME NEW s \in DOMAIN tbl
      PROVE  /\ DOMAIN Skipped(tbl, decided)[s] = {"file", "since", "skipped"}
             /\ Skipped(tbl, decided)[s].since \in Int
  BY DEF Skipped, TableOk
<1> QED
  BY <1>1, <1>2 DEF TableOk

-----------------------------------------------------------------------------
(* The steps.                                                               *)

LEMMA FireInvInit == Init => FireInv
<1> SUFFICES ASSUME Init PROVE FireInv
  OBVIOUS
<1>1. plan \in Plans /\ now = 0 /\ jobs = <<>> /\ table = Refreshed(<<>>, FilesAt(integration))
  BY DEF Init
<1>2. TableOk(table)
  BY <1>1, EmptyTable, FilesAreFinite, RefreshedIsOk
<1>3. now \in Int /\ DOMAIN jobs = {} /\ jobs \in Seq({jobs[i] : i \in DOMAIN jobs})
  BY <1>1
<1>4. JobsInv
  BY <1>3 DEF JobsInv
<1> QED
  BY <1>1, <1>2, <1>4 DEF FireInv

LEMMA FireInvTick == ASSUME FireInv, Tick PROVE FireInv'
<1>1. PICK count, unread :
        /\ Idle
        /\ \E tbl \in {Table(count, unread)} : \E decided \in {Decisions(tbl)} :
             \/ \E outcome \in Outcomes(decided) : Scan(tbl, decided, outcome)
             \/ ScanAborts(tbl, decided)
  BY DEF Tick
<1> DEFINE tbl == Table(count, unread)
           decided == Decisions(tbl)
<1>2. TableOk(tbl)
  BY EmptyTable, FilesAreFinite, RefreshedIsOk DEF Table, FireInv, JobsInv
<1>3. plan' = plan /\ now' = now
  BY DEF Tick, Scan, ScanAborts
<1> HIDE DEF tbl
<1>4. CASE ScanAborts(tbl, decided)
  <2>1. TableOk(table)' /\ jobs' = jobs
    BY <1>2, <1>4 DEF ScanAborts, TableOk
  <2>2. JobsInv'
    BY <1>3, <2>1, LaterJobs DEF FireInv, JobsInv
  <2> QED
    BY <1>3, <2>1, <2>2 DEF FireInv
<1>5. ASSUME NEW outcome \in Outcomes(decided), Scan(tbl, decided, outcome) PROVE FireInv'
  <2>1. table' = Skipped(tbl, decided) /\ jobs' = Fired(tbl, decided, outcome)
    BY <1>5 DEF Scan
  <2>2. TableOk(table)'
    BY <1>2, <2>1, SkippedIsOk DEF TableOk
  <2>3. JobsInv'
    BY <1>2, <1>3, <2>1, TickFires DEF FireInv
  <2> QED
    BY <1>3, <2>2, <2>3 DEF FireInv
<1> QED
  BY <1>1, <1>4, <1>5 DEF tbl

LEMMA FireInvLoads ==
  ASSUME FireInv, UNCHANGED <<plan, now, jobs>>,
         \/ table' = <<>>
         \/ \E old \in {table, <<>>} : \E branch : table' = Refreshed(old, FilesAt(branch))
  PROVE  FireInv'
<1>1. TableOk(table')
  BY EmptyTable, FilesAreFinite, RefreshedIsOk DEF FireInv, JobsInv
<1>2. JobsInv'
  BY LaterJobs DEF FireInv, JobsInv
<1> QED
  BY <1>1, <1>2 DEF FireInv, TableOk

LEMMA FireInvNext == FireInv /\ [Next]_vars => FireInv'
<1> SUFFICES ASSUME FireInv, [Next]_vars PROVE FireInv'
  OBVIOUS
<1>1. CASE JobLands
  BY <1>1, FireInvLoads DEF JobLands
<1>2. CASE Tick
  BY <1>2, FireInvTick
<1>3. CASE JobMoves
  <2>1. JobsInv' /\ plan' = plan /\ table' = table
    BY <1>3, JobMovesKeep DEF JobMoves, FireInv, ReleaseByHand, Ends
  <2> QED
    BY <2>1 DEF FireInv, TableOk
<1>4. CASE TimePasses
  <2>1. now' = now + 1 /\ UNCHANGED <<plan, table, jobs>> /\ now \in Int
    BY <1>4 DEF TimePasses, Passes, FireInv, JobsInv
  <2>2. JobsInv'
    BY <2>1, LaterJobs DEF FireInv
  <2> QED
    BY <2>1, <2>2 DEF FireInv, TableOk
<1>5. CASE Crash \/ DrainedRestart
  <2>1. Starts
    BY <1>5 DEF Crash, DrainedRestart
  <2>2. UNCHANGED <<plan, now, jobs>> /\ table' = Refreshed(<<>>, FilesAt(integration))
    BY <2>1 DEF Starts
  <2> QED
    BY <2>2, FireInvLoads
<1>6. CASE GateOver \/ Handles \/ Fails \/ Asked \/ Outside \/ UNCHANGED vars
  <2>1. UNCHANGED <<plan, now, table, jobs>>
    BY <1>6 DEF GateOver, Handles, Fails, Asked, Outside, Alone, scheduleVars, vars
  <2> QED
    BY <2>1, LaterJobs DEF FireInv, JobsInv, TableOk
<1> QED
  BY <1>1, <1>2, <1>3, <1>4, <1>5, <1>6 DEF Next

\* No occurrence of a schedule fires twice, none fires while a job of the schedule is
\* live or for a time before its end, and each job is for the newest occurrence there
\* was when it was created (decide_one, the anchor rule and the backward search for
\* the latest occurrence), for every calendar, set of schedule files and history of
\* edits, crashes and failing calls.
THEOREM SchedulesFire == Spec => []SchedulesFireOnce
<1>1. FireInv => SchedulesFireOnce
  BY DEF FireInv, JobsInv, OnTime, After, SchedulesFireOnce
<1> QED
  BY <1>1, FireInvInit, FireInvNext, PTL DEF Spec
================================================================================
