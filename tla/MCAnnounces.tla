------------------------------ MODULE MCAnnounces ------------------------------
(***************************************************************************)
(* PeerSets and AnnounceJournal for TLC.  They share no variable, and what  *)
(* the first one decides is left open in the second, so each is explored    *)
(* with the other one at rest: `part` says which.                           *)
(***************************************************************************)
EXTENDS PeerSets, AnnounceJournal, TLC

VARIABLE part
vars == <<setVars, journalVars, part>>

Init == SetsInit /\ JournalInit /\ part \in {"sets", "journal"}

Next ==
  \/ part = "sets" /\ SetsNext /\ UNCHANGED <<journalVars, part>>
  \/ part = "journal" /\ JournalNext /\ UNCHANGED <<setVars, part>>

Spec == Init /\ [][Next]_vars

TypeOK == SetsTypeOK /\ JournalTypeOK

\* The threads are interchangeable.
Symmetry == Permutations(Jobs)
=============================================================================
