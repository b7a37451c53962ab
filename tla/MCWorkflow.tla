------------------------------ MODULE MCWorkflow ------------------------------
(* Instances of Workflow for TLC.                                           *)
EXTENDS Workflow, TLC

RowSymmetry == Permutations(Incidents) \cup Permutations(Cases) \cup Permutations(Requests)
=============================================================================
