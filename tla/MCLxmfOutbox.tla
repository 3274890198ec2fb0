---------------------------- MODULE MCLxmfOutbox ----------------------------
(* Instances of LxmfOutbox for TLC. *)
EXTENDS LxmfOutbox, TLC

\* The calls of send_message are interchangeable.
SendSymmetry == Permutations(Sends)
=============================================================================
