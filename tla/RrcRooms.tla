------------------------------ MODULE RrcRooms ------------------------------
(***************************************************************************)
(* One room of an RRC hub as the client and the hub see it                 *)
(* (src/meshchatx/src/backend/rrc/manager.py and server.py): joining and   *)
(* leaving, the delivery state of the messages the client sends, and what  *)
(* happens to both when a link drops and another one is welcomed.          *)
(*                                                                         *)
(* The wire is two sets of packets: they are handled by a thread each, and *)
(* the hub sends what it has computed after it let go of its lock, so any  *)
(* order is possible; a packet can be lost.  A connection is here one      *)
(* number, welcomed when it comes up: RrcSession is about the rest of it.  *)
(***************************************************************************)
EXTENDS Naturals, FiniteSets

CONSTANTS Msgs,        \* the messages the client may send
          MaxLines,    \* bound: connections
          MaxTries,    \* bound: how often one message is sent
          Budgets      \* bounds: what a behaviour may use up, one for each kind

ASSUME RoomsAssumption ==
  /\ IsFiniteSet(Msgs)
  /\ MaxLines \in Nat /\ MaxTries \in Nat \ {0}
\* The messages it sends, and how many joins, parts, moves of others, losses
\* and refusals there are.
ASSUME BudgetsAssumption == Budgets \subseteq [msgs : SUBSET Msgs, troubles : Nat]

Lines == 1 .. MaxLines
Retriers == {"pass", "user"}

VARIABLES line,      \* the client's connection, 0 when it has none
          lines,     \* connections so far
          inRoom,    \* the room is in RRCHub.rooms
          joining,   \* ... in _pending_joins
          parting,   \* ... in _pending_parts
          row,       \* message -> delivery of its row
          awaiting,  \* _pending_delivery
          autoRetry,      \* message -> "no", "may" (_auto_retryable), "done" (_auto_retried)
          due,       \* rows the rejoin pass still has to look at
          retrying,  \* <<who, message>>: a retry_message past its check
          rejoinTimer,     \* _rejoin_retry_timer is armed
          sessions,  \* the hub's sessions
          members,   \* those in the room
          company,   \* other members are in the room
          relayed,   \* message -> how often the hub relayed it
          tries,     \* message -> how often the client sent it
          up, down,  \* the packets under way
          budget,    \* what is left, for the bounds only
          causes     \* what the properties accept as an explanation

clientVars == <<line, lines, inRoom, joining, parting, row, awaiting, autoRetry, due,
                retrying, rejoinTimer, tries>>
hubVars == <<sessions, members, company, relayed>>
wire == <<up, down>>
counts == <<budget, causes>>
roomVars == <<clientVars, hubVars, wire, counts>>

-----------------------------------------------------------------------------
Packet(l, what, arg) == [over |-> l, is |-> what, of |-> arg]

Sends(packets) == up' = up \cup packets

Delivers(p, packets) ==
  /\ up' = up \ {p}
  /\ down' = down \cup {q \in packets : q.over = line}

Trouble ==
  /\ budget.troubles > 0
  /\ budget' = [budget EXCEPT !.troubles = @ - 1]

\* Something that tells whether the hub has relayed a message is under way.
Telling == \E p \in up \cup down : p.is \in {"msg", "echo", "sync", "seen"}

\* A JOIN or PART of ours, or its answer, is under way.
Unanswered == \E p \in up \cup down : p.is \in {"join", "joined", "part", "parted", "error"}

Because(cause, holds) == causes' = causes \cup (IF holds THEN {cause} ELSE {})

\* The rows of a room whose buffer is dropped are gone with it.
Dropped == [m \in Msgs |-> IF row[m] = "none" THEN "none" ELSE "gone"]

\* Row m gets the state d, if it still exists.
Becomes(m, d) == row' = [row EXCEPT ![m] = IF @ = "gone" THEN @ ELSE d]

MayRetry(m) == [autoRetry EXCEPT ![m] = IF @ = "done" THEN @ ELSE "may"]

(***************************************************************************)
(* The connection                                                          *)
(***************************************************************************)
\* Mutant: the rooms are not joined again.
LineUpIdle ==
  /\ line = 0 /\ lines < MaxLines
  /\ lines' = lines + 1
  /\ line' = lines + 1
  /\ sessions' = sessions \cup {lines + 1}
  /\ UNCHANGED <<inRoom, joining, parting, row, awaiting, autoRetry, due, retrying,
                 rejoinTimer, tries, members, company, relayed, wire, counts>>

\* WELCOME: the rooms that are kept are joined again.
LineUp ==
  /\ line = 0 /\ lines < MaxLines
  /\ lines' = lines + 1
  /\ line' = lines + 1
  /\ sessions' = sessions \cup {lines + 1}
  /\ joining' = inRoom
  /\ Sends(IF inRoom THEN {Packet(lines + 1, "join", 0)} ELSE {})
  /\ UNCHANGED <<inRoom, parting, row, awaiting, autoRetry, due, retrying, rejoinTimer, tries,
                 members, company, relayed, down, counts>>

\* _on_closed: every send that waits for its echo has failed.
LineDown ==
  /\ line # 0
  /\ line' = 0
  /\ joining' = FALSE /\ parting' = FALSE
  /\ row' = [m \in Msgs |-> IF m \in awaiting /\ row[m] # "gone" THEN "failed" ELSE row[m]]
  /\ autoRetry' = [m \in Msgs |-> IF m \in awaiting THEN MayRetry(m)[m] ELSE autoRetry[m]]
  /\ awaiting' = {}
  /\ rejoinTimer' = FALSE
  /\ down' = {p \in down : p.over # line}
  /\ Because("early", due # {})
  /\ UNCHANGED <<lines, inRoom, due, retrying, tries, hubVars, up, budget>>

\* The hub's side of a connection that is down.
HubCloses(l) ==
  /\ l \in sessions \ {line}
  /\ sessions' = sessions \ {l}
  /\ members' = members \ {l}
  /\ up' = {p \in up : p.over # l}
  /\ UNCHANGED <<clientVars, company, relayed, down, counts>>

Loses ==
  /\ Trouble
  /\ \/ \E p \in up : up' = up \ {p} /\ UNCHANGED down
     \/ \E p \in down : down' = down \ {p} /\ UNCHANGED up
  /\ causes' = causes \cup {"lost"}
  /\ UNCHANGED <<clientVars, hubVars>>

(***************************************************************************)
(* What the user does                                                      *)
(***************************************************************************)
Join ==
  /\ line # 0 /\ Trouble
  /\ joining' = TRUE
  /\ Sends({Packet(line, "join", budget.troubles)})
  /\ Because("crossed", Unanswered)
  /\ UNCHANGED <<line, lines, inRoom, parting, row, awaiting, autoRetry, due, retrying, rejoinTimer,
                 tries, hubVars, down>>

Part ==
  /\ Trouble
  /\ parting' = TRUE
  /\ Sends(IF line # 0 THEN {Packet(line, "part", budget.troubles)} ELSE {})
  /\ inRoom' = FALSE
  /\ row' = Dropped
  /\ Because("crossed", Unanswered)
  /\ UNCHANGED <<line, lines, joining, awaiting, autoRetry, due, retrying, rejoinTimer, tries,
                 hubVars, down>>

SendMessage(m) ==
  /\ line # 0 /\ row[m] = "none" /\ m \in budget.msgs
  /\ row' = [row EXCEPT ![m] = "sending"]
  /\ awaiting' = awaiting \cup {m}
  /\ tries' = [tries EXCEPT ![m] = 1]
  /\ Sends({Packet(line, "msg", <<m, 1>>)})
  /\ UNCHANGED <<line, lines, inRoom, joining, parting, autoRetry, due, retrying, rejoinTimer,
                 hubVars, down, counts>>

\* No echo came in time.
Sweep(m) ==
  /\ m \in awaiting
  /\ awaiting' = awaiting \ {m}
  /\ Becomes(m, "failed")
  /\ autoRetry' = MayRetry(m)
  /\ UNCHANGED <<line, lines, inRoom, joining, parting, due, retrying, rejoinTimer, tries,
                 hubVars, wire, counts>>

(***************************************************************************)
(* Sending again                                                           *)
(***************************************************************************)
RetryMessage(m) ==
  /\ row[m] = "failed"
  /\ <<"user", m>> \notin retrying
  /\ retrying' = retrying \cup {<<"user", m>>}
  /\ Because("asked", TRUE)
  /\ UNCHANGED <<line, lines, inRoom, joining, parting, row, awaiting, autoRetry, due, rejoinTimer,
                 tries, hubVars, wire, budget>>

RejoinRetryPass ==
  /\ rejoinTimer
  /\ rejoinTimer' = FALSE
  /\ due' = IF line = 0 THEN due ELSE {m \in Msgs : row[m] \notin {"none", "gone"}}
  /\ UNCHANGED <<line, lines, inRoom, joining, parting, row, awaiting, autoRetry, retrying,
                 tries, hubVars, wire, counts>>

RetryFailedForRoom(m) ==
  /\ m \in due
  /\ due' = due \ {m}
  /\ IF row[m] = "failed" /\ autoRetry[m] = "may"
       THEN /\ autoRetry' = [autoRetry EXCEPT ![m] = "done"]
            /\ retrying' = retrying \cup {<<"pass", m>>}
            /\ Because("early", Telling)
       ELSE UNCHANGED <<autoRetry, retrying, causes>>
  /\ UNCHANGED <<line, lines, inRoom, joining, parting, row, awaiting, rejoinTimer, tries,
                 hubVars, wire, budget>>

\* The second half of retry_message, which does not look at the row again.
RetrySends(w, m) ==
  /\ <<w, m>> \in retrying
  /\ tries[m] < MaxTries
  /\ retrying' = retrying \ {<<w, m>>}
  /\ IF line # 0
       THEN /\ Becomes(m, "sending")
            /\ awaiting' = awaiting \cup {m}
            /\ tries' = [tries EXCEPT ![m] = @ + 1]
            /\ Sends({Packet(line, "msg", <<m, tries[m] + 1>>)})
            /\ UNCHANGED autoRetry
       ELSE /\ Becomes(m, "failed")
            /\ awaiting' = awaiting \ {m}
            /\ autoRetry' = MayRetry(m)
            /\ UNCHANGED <<tries, up>>
  /\ UNCHANGED <<line, lines, inRoom, joining, parting, due, rejoinTimer, hubVars, down, counts>>

(***************************************************************************)
(* The hub                                                                 *)
(***************************************************************************)
HubJoin(p) ==
  /\ p \in up /\ p.is = "join" /\ p.over \in sessions
  /\ members' = members \cup {p.over}
  /\ Delivers(p, {Packet(p.over, "joined", p.of)})
  /\ UNCHANGED <<clientVars, sessions, company, relayed, counts>>

\* An ACL refusal of a JOIN, or the control rate of the hub.
HubRefuses(p) ==
  /\ p \in up /\ p.over \in sessions /\ Trouble
  /\ \E fatal \in BOOLEAN :
       /\ fatal => p.is = "join"
       /\ Delivers(p, {Packet(p.over, "error", fatal)})
  /\ causes' = causes \cup {"refused"}
  /\ UNCHANGED <<clientVars, hubVars>>

HubPart(p) ==
  /\ p \in up /\ p.is = "part" /\ p.over \in sessions
  /\ members' = members \ {p.over}
  /\ Delivers(p, {Packet(p.over, IF p.over \in members THEN "parted" ELSE "error",
                         IF p.over \in members THEN p.of ELSE FALSE)})
  /\ UNCHANGED <<clientVars, sessions, company, relayed, counts>>

\* The fan-out is the sender's echo; a sender outside the room gets a receipt.
HubMessage(p) ==
  /\ p \in up /\ p.is = "msg" /\ p.over \in sessions
  /\ IF members = {} /\ ~company
       THEN /\ Delivers(p, {Packet(p.over, "error", FALSE)})
            /\ UNCHANGED relayed
       ELSE /\ relayed' = [relayed EXCEPT ![p.of[1]] = @ + 1]
            /\ Delivers(p, IF p.over \in members THEN {Packet(p.over, "echo", p.of)}
                                                 ELSE {Packet(p.over, "seen", {p.of[1]})})
  /\ UNCHANGED <<clientVars, sessions, members, company, counts>>

HubSync(p) ==
  LET found == {m \in p.of : relayed[m] > 0} IN
  /\ p \in up /\ p.is = "sync" /\ p.over \in sessions
  /\ Delivers(p, IF found = {} THEN {} ELSE {Packet(p.over, "seen", found)})
  /\ Because("early", \E q \in up : q.is = "msg")
  /\ UNCHANGED <<clientVars, hubVars, budget>>

\* Others come and go: the client is told with the packets that answer its own.
OthersMove ==
  /\ Trouble
  /\ company' = ~company
  /\ down' = down \cup {Packet(l, IF company THEN "went" ELSE "came", budget.troubles) : l \in members \cap {line}}
  /\ UNCHANGED <<clientVars, sessions, members, relayed, up, causes>>

(***************************************************************************)
(* What the client hears                                                   *)
(***************************************************************************)
\* Mutant: the hub is not asked which of the failed sends it has relayed.
HandleJoinedMute(p) ==
  /\ p \in down /\ p.is \in {"joined", "came"}
  /\ down' = down \ {p}
  /\ joining' = FALSE
  /\ inRoom' = (inRoom \/ joining)
  /\ rejoinTimer' = (rejoinTimer \/ joining)
  /\ Because("mistaken", joining /\ p.is = "came")
  /\ UNCHANGED <<line, lines, parting, row, awaiting, autoRetry, due, retrying, tries, hubVars,
                 up, budget>>

\* JOINED is taken for the answer to our own JOIN whenever one is pending.
HandleJoined(p) ==
  LET failed == {m \in Msgs : row[m] = "failed"} IN
  /\ p \in down /\ p.is \in {"joined", "came"}
  /\ down' = down \ {p}
  /\ joining' = FALSE
  /\ inRoom' = (inRoom \/ joining)
  /\ IF joining
       THEN /\ rejoinTimer' = TRUE
            /\ Sends(IF failed = {} \/ line = 0 THEN {} ELSE {Packet(line, "sync", failed)})
       ELSE UNCHANGED <<rejoinTimer, up>>
  /\ Because("mistaken", joining /\ p.is = "came")
  /\ UNCHANGED <<line, lines, parting, row, awaiting, autoRetry, due, retrying, tries, hubVars,
                 budget>>

\* So is PARTED.
HandleParted(p) ==
  /\ p \in down /\ p.is \in {"parted", "went"}
  /\ down' = down \ {p}
  /\ parting' = FALSE
  /\ inRoom' = (inRoom /\ ~parting)
  /\ Because("mistaken", parting /\ p.is = "went")
  /\ UNCHANGED <<line, lines, joining, row, awaiting, autoRetry, due, retrying, rejoinTimer, tries,
                 hubVars, up, budget>>

\* An error ends whatever is pending for the room; a fatal one, of a JOIN that
\* is pending, leaves the room.
HandleError(p) ==
  LET leaves == p.of /\ joining IN
  /\ p \in down /\ p.is = "error"
  /\ down' = down \ {p}
  /\ joining' = FALSE /\ parting' = FALSE
  /\ inRoom' = (inRoom /\ ~leaves)
  /\ row' = IF leaves THEN Dropped ELSE row
  /\ Because("error", joining \/ parting)
  /\ UNCHANGED <<line, lines, awaiting, autoRetry, due, retrying, rejoinTimer, tries, hubVars, up,
                 budget>>

\* Mutant: a confirmed message is still waited for.
ConfirmedStill(ms) ==
  /\ row' = [m \in Msgs |-> IF m \in ms /\ (row[m] = "failed" \/ (m \in awaiting /\ row[m] # "gone"))
                              THEN "sent" ELSE row[m]]
  /\ UNCHANGED awaiting

\* The proof that the hub has relayed the messages ms: an echo or T_SEEN.
Confirmed(ms) ==
  /\ awaiting' = awaiting \ ms
  /\ row' = [m \in Msgs |-> IF m \in ms /\ (row[m] = "failed" \/ (m \in awaiting /\ row[m] # "gone"))
                              THEN "sent" ELSE row[m]]

HandleEcho(p) ==
  /\ p \in down /\ p.is \in {"echo", "seen"}
  /\ down' = down \ {p}
  /\ Confirmed(IF p.is = "echo" THEN {p.of[1]} ELSE p.of)
  /\ UNCHANGED <<line, lines, inRoom, joining, parting, autoRetry, due, retrying, rejoinTimer, tries,
                 hubVars, up, counts>>

-----------------------------------------------------------------------------
RoomsInit ==
  /\ line = 0 /\ lines = 0
  /\ inRoom \in BOOLEAN /\ joining = FALSE /\ parting = FALSE
  /\ row = [m \in Msgs |-> "none"] /\ awaiting = {}
  /\ autoRetry = [m \in Msgs |-> "no"]
  /\ due = {} /\ retrying = {} /\ rejoinTimer = FALSE
  /\ sessions = {} /\ members = {} /\ company \in BOOLEAN
  /\ relayed = [m \in Msgs |-> 0] /\ tries = [m \in Msgs |-> 0]
  /\ up = {} /\ down = {}
  /\ budget \in Budgets /\ causes = {}

RoomsNext ==
  \/ LineUp \/ LineDown \/ Loses \/ Join \/ Part \/ OthersMove \/ RejoinRetryPass
  \/ \E l \in Lines : HubCloses(l)
  \/ \E m \in Msgs : SendMessage(m) \/ Sweep(m) \/ RetryMessage(m) \/ RetryFailedForRoom(m)
  \/ \E w \in Retriers, m \in Msgs : RetrySends(w, m)
  \/ \E p \in up : HubJoin(p) \/ HubRefuses(p) \/ HubPart(p) \/ HubMessage(p) \/ HubSync(p)
  \/ \E p \in down : HandleJoined(p) \/ HandleParted(p) \/ HandleError(p) \/ HandleEcho(p)

RoomsSpec == RoomsInit /\ [][RoomsNext]_roomVars

-----------------------------------------------------------------------------
RoomsTypeOK ==
  /\ line \in 0 .. MaxLines /\ lines \in 0 .. MaxLines
  /\ inRoom \in BOOLEAN /\ joining \in BOOLEAN /\ parting \in BOOLEAN /\ rejoinTimer \in BOOLEAN
  /\ row \in [Msgs -> {"none", "sending", "sent", "failed", "gone"}]
  /\ awaiting \subseteq Msgs /\ due \subseteq Msgs
  /\ autoRetry \in [Msgs -> {"no", "may", "done"}]
  /\ retrying \subseteq Retriers \X Msgs
  /\ members \subseteq sessions /\ sessions \subseteq Lines
  /\ budget \in [msgs : SUBSET Msgs, troubles : Nat]
  /\ relayed \in [Msgs -> 0 .. MaxTries] /\ tries \in [Msgs -> 0 .. MaxTries]

AtRest == line # 0 /\ up = {} /\ down = {}

\* Once nothing is under way, the client shows the room as joined exactly when the
\* hub counts it in, unless a packet was lost or refused, an error or somebody
\* else's JOINED or PARTED was taken for the answer to our own request, or the user
\* asked again before the answer came (_handle_joined, _handle_parted, _handle_error,
\* _on_welcome; _handle_join, _handle_part and _on_close of the hub).
RoomAgrees == AtRest => (inRoom <=> line \in members) \/ causes \ {"asked", "early"} # {}

\* The hub relays a message twice only if the user asked for it, a packet was lost
\* or refused, or the retry pass ran while the hub's receipt was still to come: rows
\* the hub confirms are restored to sent and never resent, which avoids relaying a
\* second copy (manager.py, _handle_joined, _request_delivery_sync, _rejoin_retry_pass).
SecondCopyExplained ==
  \A m \in Msgs : relayed[m] > 1 => causes \cap {"asked", "early", "lost", "refused"} # {}

\* A message shown as sent is never shown as failed or sending again, but by a
\* retry_message that had looked at its row before it was confirmed.
SentIsKept ==
  [][\A m \in Msgs : row[m] = "sent" /\ row'[m] \notin {"sent", "gone"}
        => \E w \in Retriers : <<w, m>> \in retrying]_roomVars
=============================================================================
