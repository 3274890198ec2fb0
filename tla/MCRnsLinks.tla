------------------------------ MODULE MCRnsLinks ------------------------------
(* Instances of RnsLinks for TLC. *)
EXTENDS RnsLinks, TLC

\* Jobs and keys are interchangeable, and the run states no liveness property.
Symmetry == Permutations(Jobs) \cup Permutations(Keys)
=============================================================================
