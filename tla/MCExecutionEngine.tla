-------------------------- MODULE MCExecutionEngine --------------------------
(***************************************************************************)
(* The instance of ExecutionEngine that TLC checks.                         *)
(***************************************************************************)
EXTENDS ExecutionEngine, TLC

\* The default limit of the Executor, and the one with which
\* test_run_pauses_on_cost_exceeded makes it refuse a step.
DefaultLimit == {10}
BothLimits == {10, -1}

\* Workers and pods are interchangeable, and so are the requests not yet made.
Symmetry == Permutations(Workers) \cup Permutations(Calls) \cup Permutations(Pods)
==============================================================================
