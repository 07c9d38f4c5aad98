---------------------------- MODULE MCDeployment ----------------------------
(* Small instances of Deployment for TLC. *)
EXTENDS Deployment, TLC

(* Workers and deployments are interchangeable. *)
Symmetry == Permutations(Workers) \cup Permutations(Deps)

(* RepairsCounted, ResourcesAccounted and EndedStaysEnded say nothing of what
   follows a row written over: the run about them stops there. *)
NothingOverwritten == ~overwritten
=============================================================================
