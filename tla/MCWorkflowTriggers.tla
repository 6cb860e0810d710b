------------------------- MODULE MCWorkflowTriggers -------------------------
(* Model-checking instances of the workflow triggers. *)
EXTENDS WorkflowTriggers, TLC

CONSTANTS i1, i2

\* Every plan.
AllPlans == Plan

\* Runs are interchangeable, and so are ingredients; sound for safety.
Symmetry == Permutations(Runs) \cup Permutations(Ingredients)
=============================================================================
