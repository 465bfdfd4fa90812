------------------------- MODULE MCExperimentStore -------------------------
(***************************************************************************)
(* ExperimentStore for TLC.  The runs are interchangeable.                 *)
(***************************************************************************)
EXTENDS ExperimentStore

RunSymmetry == Permutations(Runs)
=============================================================================
