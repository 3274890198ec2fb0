--------------------------------- MODULE MCRrc ---------------------------------
(***************************************************************************)
(* RrcSession and RrcRooms for TLC.  They share no variable: what a session *)
(* does to a room is a line that comes up or goes down.  Each is explored   *)
(* with the other one at rest: `part` says which.                           *)
(***************************************************************************)
EXTENDS RrcSession, RrcRooms

\* Either messages are sent and one thing goes wrong, or none is and three do.
MCBudgets == {[msgs |-> Msgs, troubles |-> 1], [msgs |-> {}, troubles |-> 3]}

VARIABLE part

MCvars == <<vars, roomVars, part>>

\* The one at rest starts in one way only, and messages are sent in a room, with
\* others in it, that was kept from an earlier session.
MCInit ==
  /\ Init /\ RoomsInit
  /\ \/ /\ part = "session"
        /\ inRoom = FALSE /\ company = FALSE /\ budget.msgs = {}
     \/ /\ part = "rooms"
        /\ budget.msgs # {} => inRoom /\ company
        /\ plan = CHOOSE p \in Plans : TRUE

MCNext ==
  \/ part = "session" /\ Next /\ UNCHANGED <<roomVars, part>>
  \/ part = "rooms" /\ RoomsNext /\ UNCHANGED <<vars, part>>

MCSpec == MCInit /\ [][MCNext]_MCvars

MCTypeOK == TypeOK /\ RoomsTypeOK
=============================================================================
