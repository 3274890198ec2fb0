--------------------------- MODULE MCAsyncDispatch ---------------------------
(* Instances of AsyncDispatch for TLC. *)
EXTENDS AsyncDispatch, TLC

\* The coroutines are interchangeable.
CoroSymmetry == Permutations(Coros)
=============================================================================
