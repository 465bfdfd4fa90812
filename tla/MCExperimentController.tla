----------------------- MODULE MCExperimentController -----------------------
(***************************************************************************)
(* ExperimentController for TLC.  No step tells two workloads apart.       *)
(***************************************************************************)
EXTENDS ExperimentController, TLC

WorkloadSymmetry == Permutations(Workloads)
=============================================================================
