------------------------------ MODULE MCJobGraph ------------------------------
(***************************************************************************)
(* Instances of JobGraph for TLC.  The dependencies an author may choose   *)
(* include circles between ordinary jobs, which a release has to refuse.   *)
(***************************************************************************)
EXTENDS JobGraph

CONSTANTS x, y, z, b, c

Plan(dependencies, groups, faults, bounds) ==
    [jobs |-> DOMAIN dependencies, deps |-> dependencies, members |-> groups,
     faults |-> faults, edits |-> bounds[1], crashes |-> bounds[2]]
NoDeps == {{}}
NoGroups == [j \in {} |-> {}]

\* Three jobs that may depend on each other in either direction.
Plain == x :> {{}, {y}} @@ y :> {{}, {z}} @@ z :> {{x}}
Stalling == Plan(Plain, NoGroups, {"stall"}, <<3, 1>>)
Failing == Plan(Plain, NoGroups, {"start", "write", "stall"}, <<2, 1>>)

\* Two members, one of which may depend on z or on the other; z comes before the
\* batch.
Batch == Plan(x :> {{z}} @@ y :> {{x}} @@ z :> NoDeps @@ b :> NoDeps, b :> {{x, y}, {x}},
              {}, <<2, 0>>)

\* z waits for a member, and the batch waits for nothing.
Fan == Plan(x :> NoDeps @@ y :> {{x}} @@ z :> {{y}} @@ b :> NoDeps, b :> {{x, y}, {x}},
            {}, <<1, 0>>)

\* Two batches that may list the same job.
Two == Plan(x :> NoDeps @@ y :> NoDeps @@ z :> NoDeps @@ b :> NoDeps @@ c :> NoDeps,
            b :> {{x, y}} @@ c :> {{y, z}, {y}}, {}, <<2, 0>>)

\* A batch, and a restart that may leave it with members it has not absorbed.
Torn == Plan(x :> NoDeps @@ y :> NoDeps @@ b :> NoDeps, b :> {{x, y}}, {}, <<0, 1>>)

\* Chains of ordinary jobs, and two restarts.
Chain == Plan(x :> NoDeps @@ y :> {{x}, {}} @@ z :> {{y}, {x, y}}, NoGroups, {"stall"}, <<1, 2>>)

AllPlans == {Stalling, Failing, Batch, Fan, Two, Torn, Chain}
================================================================================
