--------------------------- MODULE MCWorkflowLease --------------------------
(***************************************************************************)
(* TLC instances of WorkflowLease: task t1 depends on d1.  Runners are     *)
(* interchangeable.                                                        *)
(***************************************************************************)
EXTENDS WorkflowLease, TLC

CONSTANTS t1, d1

\* The task_dependencies rows of the gate instance.
DepsOnD1 == [t \in Task |-> IF t = t1 THEN {d1} ELSE {}]

NoDeps == [t \in Task |-> {}]

HolderSymmetry == Permutations(Holder)
=============================================================================
