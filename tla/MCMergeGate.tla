------------------------------ MODULE MCMergeGate ------------------------------
(***************************************************************************)
(* Instances of MergeGate for TLC.  Two evaluators in two stages: a build  *)
(* and a test, so that a failed build is a compile failure and a failed    *)
(* test is not.                                                            *)
(***************************************************************************)
EXTENDS MergeGate

CONSTANTS a, b, build, test

Symmetry == Permutations({a, b})

MCStage == build :> 1 @@ test :> 2
================================================================================
