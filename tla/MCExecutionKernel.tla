-------------------------- MODULE MCExecutionKernel --------------------------
(* Instances of ExecutionKernel for TLC: a pair of parallel inspections, and *)
(* such a pair with a third attempt, which depends on one of the two.        *)
EXTENDS ExecutionKernel, TLC

CONSTANTS a1, a2, a3, e1, e2

NoDeps == [a \in Attempts |-> {}]
AfterFirst == [a \in Attempts |-> IF a = a3 THEN {a1} ELSE {}]

Symmetry == Permutations(Executions)
=============================================================================
