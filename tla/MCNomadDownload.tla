---------------------------- MODULE MCNomadDownload ----------------------------
(* Instances of NomadDownload for TLC. *)
EXTENDS NomadDownload, TLC

\* Downloads and keys are interchangeable, where no liveness is checked.
Symmetry == Permutations(Downloads) \cup Permutations(Keys)
=============================================================================
