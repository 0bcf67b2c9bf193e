------------------------------ MODULE MCExecution ------------------------------
(***************************************************************************)
(* Instances of Execution for TLC: the kinds of jobs of each run.          *)
(***************************************************************************)
EXTENDS Execution

Types == [ev \in {"ci", "review", "human", Approval} |->
            CASE ev = "ci" -> "command" [] ev = "review" -> "agent" [] OTHER -> "human"]

Kind(work, stages, required, budgets, faults, bounds) ==
    [work |-> work, stages |-> stages, required |-> required,
     workRetries |-> budgets[1], evalRetries |-> budgets[2],
     reworks |-> budgets[3], cap |-> budgets[4], faults |-> faults,
     tasks |-> bounds[1], pushes |-> bounds[2], crashes |-> bounds[3]]

\* Two stages of evaluators, a rework, and commits that arrive at any time.
Rounds2 == Kind("agent", <<{"ci"}, {"review"}>>, {"ci", "review"}, <<1, 0, 1, 1>>, {}, <<5, 1, 0>>)

\* Submissions that arrive late or twice, of work and of a review that are retried.
Late == Kind("agent", <<{"review"}>>, {"review"}, <<1, 0, 0, 1>>, {"late"}, <<4, 0, 0>>)

\* A restart between any two writes, and containers that are refused.
Restarted == Kind("command", <<{"ci"}>>, {"ci"}, <<1, 1, 0, 1>>, {"launch"}, <<4, 0, 1>>)

\* Containers that vanish before and after a restart.
Lost == Kind("command", <<{"review"}>>, {"review"}, <<1, 1, 0, 1>>, {"vanish"}, <<4, 0, 1>>)

\* Claims, revokes and resolutions beside launch-time refusals.
People == Kind("agent", <<{"ci"}>>, {"ci"}, <<0, 0, 1, 0>>, {"claim", "operator", "contract"},
               <<4, 1, 0>>)

\* Human work beside an automatic evaluator and a human one, with a restart.
Human == Kind("human", <<{"ci", "human"}>>, {"human"}, <<0, 0, 1, 1>>, {"operator"}, <<5, 1, 1>>)

\* Human work, its evaluation and a restart.
ByHand == Kind("human", <<{"ci"}>>, {"ci"}, <<0, 0, 1, 1>>, {"operator"}, <<5, 1, 1>>)

\* A sign-off that is asked for before the job starts, or while it is stalled.
Approved == Kind("agent", <<{"ci"}>>, {"ci"}, <<0, 0, 1, 0>>, {"approval", "contract"}, <<5, 1, 0>>)

\* The faults left, with a restart and without.
Faulty == Kind("agent", <<{"ci"}>>, {"ci"}, <<0, 0, 0, 0>>,
               {"setup", "contract", "vanish", "unreachable", "unstamped", "deadline", "drain"},
               <<3, 0, 1>>)
Unset == Kind("agent", <<{"ci"}>>, {"ci"}, <<1, 1, 0, 1>>, {"setup", "vanish"}, <<4, 0, 0>>)

SafetyKinds == {Rounds2, Late, Restarted, Lost, People, Human, ByHand, Approved, Faulty, Unset}

\* A command, its review, a drain and a restart.
LiveKinds == {Kind("command", <<{"review"}>>, {"review"}, <<1, 0, 0, 0>>, {"drain"}, <<4, 0, 1>>)}
================================================================================
