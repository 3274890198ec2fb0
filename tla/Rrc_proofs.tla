------------------------------- MODULE Rrc_proofs -------------------------------
(***************************************************************************)
(* What RrcRooms and RrcSession keep, for any number of messages,           *)
(* connections, attempts, threads, disconnects and packets that go wrong.   *)
(*                                                                          *)
(* Rows and wire:   what a row shows is what the tables of the client say   *)
(*                  (RowsOk); packets belong to connections that were made  *)
(*                  (WireOk); what the hub relayed and the copies under way *)
(*                  are no more than the client sent (Relays).              *)
(* The room:        as long as nothing that RoomAgrees excuses happened,    *)
(*                  one move is under way at most, and each of its stages   *)
(*                  fixes what the client shows and what the hub counts     *)
(*                  (RoomOk): agreement alone is lost while a JOIN travels. *)
(* Second copies:   one copy of a message at most is out or was relayed,    *)
(*                  and a failed row that the retry pass may still look at  *)
(*                  is one the client is about to hear of (OnceOk).         *)
(* The session:     its properties speak of a hub at rest.  SessionInv says *)
(*                  the same of a hub that is not: who still has to close   *)
(*                  the link, put the status right or ask for a retry.      *)
(***************************************************************************)
EXTENDS MCRrc, FiniteSetTheorems, TLAPS

RowStates == {"none", "sending", "sent", "failed", "gone"}

\* A row that waits for its echo shows it, as long as it exists.
RowsOk ==
  /\ row \in [Msgs -> RowStates]
  /\ autoRetry \in [Msgs -> {"no", "may", "done"}]
  /\ awaiting \subseteq Msgs /\ due \subseteq Msgs /\ retrying \subseteq Retriers \X Msgs
  /\ \A m \in Msgs : /\ m \in awaiting => row[m] \in {"sending", "gone"}
                     /\ row[m] = "sending" => m \in awaiting

LEMMA RowsStart == RoomsInit => RowsOk
  BY DEF RoomsInit, RowsOk, RowStates

LEMMA RowsStep == ASSUME RowsOk, [RoomsNext]_roomVars PROVE RowsOk'
<1> USE DEF RowsOk, RowStates, Retriers
<1>1. CASE LineUp \/ Loses \/ Join \/ OthersMove \/ RejoinRetryPass
  BY <1>1 DEF LineUp, Loses, Join, OthersMove, RejoinRetryPass, clientVars
<1>2. CASE LineDown
  <2>1. /\ row' = [m \in Msgs |-> IF m \in awaiting /\ row[m] # "gone" THEN "failed" ELSE row[m]]
        /\ awaiting' = {} /\ UNCHANGED <<due, retrying>>
    BY <1>2 DEF LineDown
  <2>2. autoRetry' \in [Msgs -> {"no", "may", "done"}]
    <3>1. \A m \in Msgs : MayRetry(m)[m] \in {"no", "may", "done"}
      BY DEF MayRetry
    <3>2. autoRetry' = [m \in Msgs |-> IF m \in awaiting THEN MayRetry(m)[m] ELSE autoRetry[m]]
      BY <1>2 DEF LineDown
    <3> QED BY <3>1, <3>2
  <2>3. row' \in [Msgs -> RowStates]
    BY <2>1
  <2>4. \A m \in Msgs : row'[m] # "sending"
    BY <2>1
  <2> QED BY <2>1, <2>2, <2>3, <2>4
<1>3. CASE Part
  BY <1>3 DEF Part, Dropped
<1>4. ASSUME NEW l \in Lines, HubCloses(l) PROVE RowsOk'
  BY <1>4 DEF HubCloses, clientVars
<1>5. ASSUME NEW m \in Msgs, SendMessage(m) \/ Sweep(m) \/ RetryMessage(m) \/ RetryFailedForRoom(m)
      PROVE  RowsOk'
  <2>1. CASE SendMessage(m)
    BY <2>1 DEF SendMessage
  <2>2. CASE Sweep(m)
    BY <2>2 DEF Sweep, Becomes, MayRetry
  <2>3. CASE RetryMessage(m)
    BY <2>3 DEF RetryMessage
  <2>4. CASE RetryFailedForRoom(m)
    BY <2>4 DEF RetryFailedForRoom
  <2> QED BY <1>5, <2>1, <2>2, <2>3, <2>4
<1>6. ASSUME NEW w \in Retriers, NEW m \in Msgs, RetrySends(w, m) PROVE RowsOk'
  BY <1>6 DEF RetrySends, Becomes, MayRetry
<1>7. ASSUME NEW p \in up, HubJoin(p) \/ HubRefuses(p) \/ HubPart(p) \/ HubMessage(p) \/ HubSync(p)
      PROVE  RowsOk'
  BY <1>7 DEF HubJoin, HubRefuses, HubPart, HubMessage, HubSync, clientVars
<1>8. ASSUME NEW p \in down, HandleJoined(p) \/ HandleParted(p) PROVE RowsOk'
  BY <1>8 DEF HandleJoined, HandleParted
<1>9. ASSUME NEW p \in down, HandleError(p) PROVE RowsOk'
  BY <1>9 DEF HandleError, Dropped
<1>10. ASSUME NEW p \in down, HandleEcho(p) PROVE RowsOk'
  BY <1>10 DEF HandleEcho, Confirmed
<1>11. CASE UNCHANGED roomVars
  BY <1>11 DEF roomVars, clientVars
<1> QED BY <1>1, <1>2, <1>3, <1>4, <1>5, <1>6, <1>7, <1>8, <1>9, <1>10, <1>11 DEF RoomsNext

\* A message shown as sent is never shown as failed or sending again, but by a
\* retry_message that had looked at its row before it was confirmed (manager.py,
\* _sweep_pending_delivery and _on_closed fail only what waits for its echo).
THEOREM SentRowsAreKept == RoomsSpec => SentIsKept
<1>1. ASSUME RowsOk, [RoomsNext]_roomVars
      PROVE  [\A m \in Msgs : row[m] = "sent" /\ row'[m] \notin {"sent", "gone"}
                => \E w \in Retriers : <<w, m>> \in retrying]_roomVars
  <2> SUFFICES ASSUME RoomsNext, NEW m \in Msgs, row[m] = "sent", row'[m] \notin {"sent", "gone"}
               PROVE  \E w \in Retriers : <<w, m>> \in retrying
    BY <1>1
  <2> USE <1>1 DEF RowsOk, RowStates
  <2>1. CASE LineUp \/ Loses \/ Join \/ OthersMove \/ RejoinRetryPass \/ LineDown \/ Part
    BY <2>1 DEF LineUp, Loses, Join, OthersMove, RejoinRetryPass, clientVars, LineDown, Part, Dropped
  <2>2. ASSUME NEW l \in Lines, HubCloses(l) PROVE FALSE
    BY <2>2 DEF HubCloses, clientVars
  <2>3. ASSUME NEW n \in Msgs, SendMessage(n) \/ Sweep(n) \/ RetryMessage(n) \/ RetryFailedForRoom(n)
        PROVE  FALSE
    BY <2>3 DEF SendMessage, Sweep, RetryMessage, RetryFailedForRoom, Becomes
  <2>4. ASSUME NEW w \in Retriers, NEW n \in Msgs, RetrySends(w, n)
        PROVE  <<w, m>> \in retrying
    <3>1. m = n
      BY <2>4 DEF RetrySends, Becomes
    <3> QED BY <2>4, <3>1 DEF RetrySends
  <2>5. ASSUME NEW p \in up, HubJoin(p) \/ HubRefuses(p) \/ HubPart(p) \/ HubMessage(p) \/ HubSync(p)
        PROVE  FALSE
    BY <2>5 DEF HubJoin, HubRefuses, HubPart, HubMessage, HubSync, clientVars
  <2>6. ASSUME NEW p \in down,
               HandleJoined(p) \/ HandleParted(p) \/ HandleError(p) \/ HandleEcho(p)
        PROVE  FALSE
    BY <2>6 DEF HandleJoined, HandleParted, HandleError, HandleEcho, Dropped, Confirmed
  <2> QED BY <2>1, <2>2, <2>3, <2>4, <2>5, <2>6 DEF RoomsNext
<1> QED BY <1>1, RowsStart, RowsStep, PTL DEF RoomsSpec, SentIsKept

--------------------------------------------------------------------------------
(* The wire *)

\* A packet belongs to a connection that was made, nothing arrives over one that
\* is down, and the two sides say different things.
Said == {"join", "part", "msg", "sync"}
Heard == {"joined", "parted", "error", "echo", "seen", "came", "went"}

Ends == /\ lines \in 0 .. MaxLines /\ line \in 0 .. lines
        /\ sessions \subseteq 1 .. lines /\ members \subseteq sessions
        /\ line = 0 => ~joining

Flags == /\ inRoom \in BOOLEAN /\ joining \in BOOLEAN
         /\ parting \in BOOLEAN /\ rejoinTimer \in BOOLEAN

Packets == /\ \A p \in up : p.over \in 1 .. lines /\ p.is \in Said
           /\ \A p \in down : p.over = line /\ line # 0 /\ p.is \in Heard

WireOk == Ends /\ Flags /\ Packets

LEMMA LinesAreNat == MaxLines \in Nat
  BY RoomsAssumption DEF RoomsAssumption

LEMMA WireStart == RoomsInit => WireOk
<1> SUFFICES ASSUME RoomsInit PROVE WireOk
  OBVIOUS
<1>1. Ends
  BY LinesAreNat DEF RoomsInit, Ends
<1>2. Flags /\ Packets
  BY DEF RoomsInit, Flags, Packets
<1> QED BY <1>1, <1>2 DEF WireOk

LEMMA EndsStep == ASSUME WireOk, [RoomsNext]_roomVars PROVE Ends'
<1>0. lines \in Nat /\ MaxLines \in Nat
  BY LinesAreNat DEF WireOk, Ends
<1> USE <1>0 DEF WireOk, Ends, Flags
<1>1. CASE LineUp
  <2>1. /\ lines' = lines + 1 /\ line' = lines + 1 /\ lines < MaxLines
        /\ sessions' = sessions \cup {lines + 1} /\ members' = members
    BY <1>1 DEF LineUp
  <2>2. lines' \in 0 .. MaxLines /\ line' \in 0 .. lines' /\ line' # 0
    BY <2>1
  <2>3. sessions' \subseteq 1 .. lines'
    BY <2>1
  <2> QED BY <2>1, <2>2, <2>3
<1>2. CASE LineDown
  <2>1. UNCHANGED <<lines, sessions, members>> /\ line' = 0 /\ ~joining'
    BY <1>2 DEF LineDown, hubVars
  <2> QED BY <2>1
<1>3. CASE Loses \/ OthersMove \/ Part \/ RejoinRetryPass
  <2>1. UNCHANGED <<lines, line, sessions, members, joining>>
    BY <1>3 DEF Loses, OthersMove, Part, RejoinRetryPass, clientVars, hubVars
  <2> QED BY <2>1
<1>4. CASE Join
  <2>1. UNCHANGED <<lines, line, sessions, members>> /\ line # 0
    BY <1>4 DEF Join, hubVars
  <2> QED BY <2>1
<1>5. ASSUME NEW l \in Lines, HubCloses(l) PROVE Ends'
  BY <1>5 DEF HubCloses, clientVars
<1>6. ASSUME NEW m \in Msgs, SendMessage(m) \/ Sweep(m) \/ RetryMessage(m) \/ RetryFailedForRoom(m)
      PROVE  Ends'
  <2>1. UNCHANGED <<lines, line, sessions, members, joining>>
    BY <1>6 DEF SendMessage, Sweep, RetryMessage, RetryFailedForRoom, hubVars
  <2> QED BY <2>1
<1>7. ASSUME NEW w \in Retriers, NEW m \in Msgs, RetrySends(w, m) PROVE Ends'
  BY <1>7 DEF RetrySends, hubVars
<1>8. ASSUME NEW p \in up, HubJoin(p) \/ HubRefuses(p) \/ HubPart(p) \/ HubMessage(p) \/ HubSync(p)
      PROVE  Ends'
  <2>1. UNCHANGED <<lines, line, sessions, joining>> /\ members' \subseteq sessions
    BY <1>8 DEF HubJoin, HubRefuses, HubPart, HubMessage, HubSync, clientVars, hubVars
  <2> QED BY <2>1
<1>9. ASSUME NEW p \in down, HandleJoined(p) \/ HandleParted(p) \/ HandleError(p) \/ HandleEcho(p)
      PROVE  Ends'
  <2>1. UNCHANGED <<lines, line, sessions, members>> /\ (joining' => joining)
    BY <1>9 DEF HandleJoined, HandleParted, HandleError, HandleEcho, hubVars
  <2> QED BY <2>1
<1>10. CASE UNCHANGED roomVars
  BY <1>10 DEF roomVars, clientVars, hubVars
<1> QED BY <1>1, <1>2, <1>3, <1>4, <1>5, <1>6, <1>7, <1>8, <1>9, <1>10 DEF RoomsNext

LEMMA FlagsStep == ASSUME WireOk, [RoomsNext]_roomVars PROVE Flags'
<1> USE DEF WireOk, Flags
<1>1. CASE LineUp \/ LineDown \/ Loses \/ Join \/ Part \/ OthersMove \/ RejoinRetryPass
  BY <1>1 DEF LineUp, LineDown, Loses, Join, Part, OthersMove, RejoinRetryPass, clientVars
<1>2. ASSUME NEW m \in Msgs, SendMessage(m) \/ Sweep(m) \/ RetryMessage(m) \/ RetryFailedForRoom(m)
      PROVE  Flags'
  BY <1>2 DEF SendMessage, Sweep, RetryMessage, RetryFailedForRoom
<1>3. ASSUME NEW w \in Retriers, NEW m \in Msgs, RetrySends(w, m) PROVE Flags'
  BY <1>3 DEF RetrySends
<1>4. ASSUME NEW p \in up, HubJoin(p) \/ HubRefuses(p) \/ HubPart(p) \/ HubMessage(p) \/ HubSync(p)
      PROVE  Flags'
  BY <1>4 DEF HubJoin, HubRefuses, HubPart, HubMessage, HubSync, clientVars
<1>5. ASSUME NEW p \in down, HandleJoined(p) \/ HandleParted(p) \/ HandleError(p) \/ HandleEcho(p)
      PROVE  Flags'
  BY <1>5 DEF HandleJoined, HandleParted, HandleError, HandleEcho
<1>6. ASSUME NEW l \in Lines, HubCloses(l) PROVE Flags'
  BY <1>6 DEF HubCloses, clientVars
<1>7. CASE UNCHANGED roomVars
  BY <1>7 DEF roomVars, clientVars
<1> QED BY <1>1, <1>2, <1>3, <1>4, <1>5, <1>6, <1>7 DEF RoomsNext

\* What the hub answers, and to whom.
LEMMA Answers ==
  ASSUME NEW p \in up, HubJoin(p) \/ HubRefuses(p) \/ HubPart(p) \/ HubMessage(p) \/ HubSync(p)
  PROVE  \E packets :
           /\ Delivers(p, packets) /\ p.over \in sessions
           /\ \A q \in packets : q.over = p.over /\ q.is \in Heard
<1>1. CASE HubJoin(p)
  BY <1>1 DEF HubJoin, Packet, Heard
<1>2. CASE HubRefuses(p)
  BY <1>2 DEF HubRefuses, Packet, Heard
<1>3. CASE HubPart(p)
  <2>1. \E is, of : Delivers(p, {Packet(p.over, is, of)}) /\ is \in {"parted", "error"}
    BY <1>3 DEF HubPart
  <2>2. p.over \in sessions
    BY <1>3 DEF HubPart
  <2> QED BY <2>1, <2>2 DEF Packet, Heard
<1>4. CASE HubMessage(p)
  <2>1. \E packets : /\ Delivers(p, packets) /\ p.over \in sessions
                     /\ packets \in {{Packet(p.over, "error", FALSE)},
                                      {Packet(p.over, "echo", p.of)},
                                      {Packet(p.over, "seen", {p.of[1]})}}
    BY <1>4 DEF HubMessage
  <2> QED BY <2>1 DEF Packet, Heard
<1>5. CASE HubSync(p)
  BY <1>5 DEF HubSync, Packet, Heard
<1> QED BY <1>1, <1>2, <1>3, <1>4, <1>5

LEMMA PacketsStep == ASSUME WireOk, [RoomsNext]_roomVars PROVE Packets'
<1>0. lines \in Nat
  BY DEF WireOk, Ends
<1> USE <1>0 DEF WireOk, Packets, Said, Heard
<1>1. CASE LineUp
  <2>1. lines' = lines + 1 /\ line = 0 /\ down' = down
    BY <1>1 DEF LineUp
  <2>2. \A p \in up' : p \in up \/ (p.over = lines + 1 /\ p.is = "join")
    BY <1>1 DEF LineUp, Sends, Packet
  <2> QED BY <2>1, <2>2
<1>2. CASE LineDown \/ Loses \/ RejoinRetryPass
  BY <1>2 DEF LineDown, Loses, RejoinRetryPass, clientVars, wire
<1>3. CASE Join \/ Part
  <2>1. UNCHANGED <<lines, line, down>>
    BY <1>3 DEF Join, Part
  <2>2. \A p \in up' : p \in up \/ (line # 0 /\ p.over = line /\ p.is \in {"join", "part"})
    BY <1>3 DEF Join, Part, Sends, Packet
  <2> QED BY <2>1, <2>2 DEF Ends
<1>4. CASE OthersMove
  <2>1. UNCHANGED <<lines, line, up>>
    BY <1>4 DEF OthersMove, clientVars
  <2>2. \A p \in down' : p \in down \/ (p.over \in members \cap {line} /\ p.is \in {"came", "went"})
    BY <1>4 DEF OthersMove, Packet
  <2> QED BY <2>1, <2>2 DEF Ends
<1>5. ASSUME NEW l \in Lines, HubCloses(l) PROVE Packets'
  BY <1>5 DEF HubCloses, clientVars
<1>6. ASSUME NEW m \in Msgs, SendMessage(m) \/ Sweep(m) \/ RetryMessage(m) \/ RetryFailedForRoom(m)
      PROVE  Packets'
  <2>1. UNCHANGED <<lines, line, down>>
    BY <1>6 DEF SendMessage, Sweep, RetryMessage, RetryFailedForRoom, wire
  <2>2. up' = up \/ (line # 0 /\ \E what : up' = up \cup {Packet(line, "msg", what)})
    <3>1. CASE SendMessage(m)
      BY <3>1 DEF SendMessage, Sends
    <3>2. CASE Sweep(m) \/ RetryMessage(m) \/ RetryFailedForRoom(m)
      BY <3>2 DEF Sweep, RetryMessage, RetryFailedForRoom, wire
    <3> QED BY <1>6, <3>1, <3>2
  <2>3. \A p \in up' : p \in up \/ (line # 0 /\ p.over = line /\ p.is = "msg")
    BY <2>2 DEF Packet
  <2> QED BY <2>1, <2>3 DEF Ends
<1>7. ASSUME NEW w \in Retriers, NEW m \in Msgs, RetrySends(w, m) PROVE Packets'
  <2>1. UNCHANGED <<lines, line, down>>
    BY <1>7 DEF RetrySends
  <2>2. \A p \in up' : p \in up \/ (line # 0 /\ p.over = line /\ p.is = "msg")
    BY <1>7 DEF RetrySends, Sends, Packet
  <2> QED BY <2>1, <2>2 DEF Ends
<1>8. ASSUME NEW p \in up, HubJoin(p) \/ HubRefuses(p) \/ HubPart(p) \/ HubMessage(p) \/ HubSync(p)
      PROVE  Packets'
  <2>1. PICK packets : /\ Delivers(p, packets) /\ p.over \in sessions
                       /\ \A q \in packets : q.over = p.over /\ q.is \in Heard
    BY <1>8, Answers
  <2>2. UNCHANGED <<lines, line>>
    BY <1>8 DEF HubJoin, HubRefuses, HubPart, HubMessage, HubSync, clientVars
  <2>3. \A q \in down' : q \in down \/ (q \in packets /\ q.over = line)
    BY <2>1 DEF Delivers
  <2>4. up' \subseteq up
    BY <2>1 DEF Delivers
  <2>5. line \in 0 .. lines /\ p.over # 0
    BY DEF Ends
  <2> QED BY <2>1, <2>2, <2>3, <2>4, <2>5
<1>9. ASSUME NEW p \in down, HandleJoined(p) \/ HandleParted(p) \/ HandleError(p) \/ HandleEcho(p)
      PROVE  Packets'
  <2>1. UNCHANGED <<lines, line>> /\ down' \subseteq down
    BY <1>9 DEF HandleJoined, HandleParted, HandleError, HandleEcho
  <2>2. \A q \in up' : q \in up \/ (line # 0 /\ q.over = line /\ q.is = "sync")
    BY <1>9 DEF HandleJoined, HandleParted, HandleError, HandleEcho, Sends, Packet
  <2> QED BY <2>1, <2>2 DEF Ends
<1>10. CASE UNCHANGED roomVars
  BY <1>10 DEF roomVars, clientVars, wire
<1> QED BY <1>1, <1>2, <1>3, <1>4, <1>5, <1>6, <1>7, <1>8, <1>9, <1>10 DEF RoomsNext

LEMMA WireStep == ASSUME WireOk, [RoomsNext]_roomVars PROVE WireOk'
  BY EndsStep, FlagsStep, PacketsStep DEF WireOk

--------------------------------------------------------------------------------
(* The room *)

Moves == {"join", "joined", "part", "parted"}

\* A move of the client over its connection, or the answer to it, is under way.
Underway(kinds) == \E p \in up \cup down : p.over = line /\ p.is \in kinds

Calm == causes \subseteq {"asked", "early"}

\* As long as nothing is lost and the client asks one thing at a time: there is one
\* move under way at most, a JOIN is awaited exactly while there is one, a room that
\* is being left is not shown, and but for a move under way both sides agree.
OneMove == \A p, q \in up \cup down :
  p.over = line /\ q.over = line /\ p.is \in Moves /\ q.is \in Moves => p = q
RoomOk == Calm /\ line # 0 =>
  /\ OneMove
  /\ joining <=> Underway({"join", "joined"})
  /\ (\E p \in down : p.is = "joined") => line \in members
  /\ Underway({"part", "parted"}) => ~inRoom
  /\ \/ inRoom <=> line \in members
     \/ \E p \in up : p.over = line /\ p.is \in {"join", "part"}
     \/ \E p \in down : p.is = "joined"

\* A step that touches nothing of this.
Still ==
  /\ UNCHANGED <<line, inRoom, joining>>
  /\ line \in members' <=> line \in members
  /\ \A p : p.over = line /\ p.is \in Moves => (p \in up' <=> p \in up) /\ (p \in down' <=> p \in down)

LEMMA StillRoom == ASSUME RoomOk, WireOk, WireOk', Still, Calm, line # 0 PROVE RoomOk'
<1> USE DEF Still, RoomOk, WireOk, Packets, Moves
<1>1. OneMove'
  BY DEF OneMove
<1>2. Underway({"join", "joined"})' <=> Underway({"join", "joined"})
  BY DEF Underway
<1>3. Underway({"part", "parted"})' <=> Underway({"part", "parted"})
  BY DEF Underway
<1>4. (\E p \in down' : p.is = "joined") <=> (\E p \in down : p.is = "joined")
  OBVIOUS
<1>5. (\E p \in up' : p.over = line /\ p.is \in {"join", "part"})
        <=> (\E p \in up : p.over = line /\ p.is \in {"join", "part"})
  OBVIOUS
<1> HIDE DEF WireOk, Packets, Moves
<1> QED BY <1>1, <1>2, <1>3, <1>4, <1>5

LEMMA CausesGrow == ASSUME [RoomsNext]_roomVars PROVE causes \subseteq causes'
<1>1. CASE LineUp \/ LineDown \/ Loses \/ Join \/ Part \/ OthersMove \/ RejoinRetryPass
  BY <1>1 DEF LineUp, LineDown, Loses, Join, Part, OthersMove, RejoinRetryPass, counts, Because
<1>2. ASSUME NEW l \in Lines, HubCloses(l) PROVE causes \subseteq causes'
  BY <1>2 DEF HubCloses, counts
<1>3. ASSUME NEW m \in Msgs, SendMessage(m) \/ Sweep(m) \/ RetryMessage(m) \/ RetryFailedForRoom(m)
      PROVE  causes \subseteq causes'
  BY <1>3 DEF SendMessage, Sweep, RetryMessage, RetryFailedForRoom, counts, Because
<1>4. ASSUME NEW w \in Retriers, NEW m \in Msgs, RetrySends(w, m) PROVE causes \subseteq causes'
  BY <1>4 DEF RetrySends, counts
<1>5. ASSUME NEW p \in up, HubJoin(p) \/ HubRefuses(p) \/ HubPart(p) \/ HubMessage(p) \/ HubSync(p)
      PROVE  causes \subseteq causes'
  BY <1>5 DEF HubJoin, HubRefuses, HubPart, HubMessage, HubSync, counts, Because
<1>6. ASSUME NEW p \in down, HandleJoined(p) \/ HandleParted(p) \/ HandleError(p) \/ HandleEcho(p)
      PROVE  causes \subseteq causes'
  BY <1>6 DEF HandleJoined, HandleParted, HandleError, HandleEcho, counts, Because
<1>7. CASE UNCHANGED roomVars
  BY <1>7 DEF roomVars, counts
<1> QED BY <1>1, <1>2, <1>3, <1>4, <1>5, <1>6, <1>7 DEF RoomsNext

LEMMA RoomStart == RoomsInit => RoomOk
  BY DEF RoomsInit, RoomOk

\* LineUp, Join and Part: nothing else is under way.
LEMMA RoomAsked ==
  ASSUME RoomOk, WireOk, WireOk', Calm', line' # 0, LineUp \/ Join \/ Part
  PROVE  RoomOk'
<1>0. lines \in Nat /\ line \in Nat
  BY DEF WireOk, Ends
<1>1. CASE LineUp
  <2>1. \A p \in up \cup down : p.over # line'
    BY <1>1, <1>0 DEF LineUp, WireOk, Packets
  <2>2. /\ UNCHANGED <<inRoom, members, down>> /\ joining' = inRoom
        /\ line' \notin members
    BY <1>1, <1>0 DEF LineUp, WireOk, Ends
  <2>3. up' = IF inRoom THEN up \cup {Packet(line', "join", 0)} ELSE up
    BY <1>1 DEF LineUp, Sends
  <2>4. CASE ~inRoom
    <3>1. \A p \in up' \cup down' : p.over # line'
      BY <2>1, <2>2, <2>3, <2>4
    <3>2. OneMove' /\ ~Underway({"join", "joined"})' /\ ~Underway({"part", "parted"})'
      BY <3>1 DEF OneMove, Underway
    <3>3. ~\E p \in down' : p.is = "joined"
      BY <3>1 DEF WireOk, Packets
    <3> QED BY <2>2, <2>4, <3>2, <3>3 DEF RoomOk
  <2>5. CASE inRoom
    <3>1. Packet(line', "join", 0).over = line' /\ Packet(line', "join", 0).is = "join"
      BY DEF Packet
    <3>2. up' = up \cup {Packet(line', "join", 0)}
      BY <2>3, <2>5
    <3> HIDE DEF Packet
    <3>3. OneMove'
      BY <2>1, <2>2, <3>2 DEF OneMove
    <3>4. Underway({"join", "joined"})' /\ ~Underway({"part", "parted"})'
      BY <2>1, <2>2, <3>1, <3>2 DEF Underway
    <3>5. ~\E p \in down' : p.is = "joined"
      BY <2>1, <2>2 DEF WireOk, Packets
    <3>6. \E p \in up' : p.over = line' /\ p.is \in {"join", "part"}
      BY <3>1, <3>2
    <3> QED BY <2>2, <2>5, <3>3, <3>4, <3>5, <3>6 DEF RoomOk
  <2> QED BY <2>4, <2>5
<1>2. CASE Join \/ Part
  <2>1. ~Unanswered
    BY <1>2 DEF Join, Part, Because, Calm
  <2>2. \A p \in up \cup down : p.is \notin Moves
    BY <2>1 DEF Unanswered, Moves
  <2>3. UNCHANGED <<line, members, down>> /\ line # 0
    BY <1>2 DEF Join, Part, hubVars
  <2>4. PICK what \in {"join", "part"}, arg \in {budget.troubles} :
          /\ up' = up \cup {Packet(line, what, arg)}
          /\ what = "join" => joining'
          /\ what = "part" => ~inRoom' /\ joining' = joining
    BY <1>2, <2>3 DEF Join, Part, Sends
  <2>5. Calm
    BY <1>2 DEF Join, Part, Because, Calm
  <2>6. joining => what = "join"
    BY <2>2, <2>3, <2>5 DEF RoomOk, Underway, Moves
  <2>7. Packet(line, what, arg).over = line /\ Packet(line, what, arg).is = what
    BY DEF Packet
  <2> HIDE DEF Packet
  <2>8. OneMove'
    BY <2>2, <2>3, <2>4 DEF OneMove
  <2>9. /\ Underway({"join", "joined"})' <=> what = "join"
        /\ Underway({"part", "parted"})' <=> what = "part"
    BY <2>2, <2>3, <2>4, <2>7 DEF Underway, Moves
  <2>10. \E p \in up' : p.over = line' /\ p.is \in {"join", "part"}
    BY <2>3, <2>4, <2>7
  <2>11. ~\E p \in down' : p.is = "joined"
    BY <2>2, <2>3 DEF Moves
  <2> QED BY <2>3, <2>4, <2>5, <2>6, <2>8, <2>9, <2>10, <2>11 DEF RoomOk
<1> QED BY <1>1, <1>2

\* The hub has taken a move of the client's: its answer is what is under way now.
LEMMA RoomTaken ==
  ASSUME RoomOk, WireOk, WireOk', Calm, line # 0, NEW p \in up, p.over = line,
         HubJoin(p) \/ HubPart(p)
  PROVE  RoomOk'
<1> DEFINE Mine(q) == q.over = line /\ q.is \in Moves
<1>1. /\ UNCHANGED <<line, inRoom, joining>> /\ up' = up \ {p}
      /\ p.is \in {"join", "part"}
  BY DEF HubJoin, HubPart, Delivers, clientVars
<1>2. \A q \in up \cup down : Mine(q) => q = p
  BY <1>1 DEF RoomOk, OneMove, Moves
<1>3. p \notin down
  BY <1>1 DEF WireOk, Packets, Heard
<1>4. \A q \in up' \cup down : ~Mine(q)
  BY <1>1, <1>2, <1>3
<1>5. CASE HubJoin(p)
  <2>1. down' = down \cup {Packet(line, "joined", p.of)} /\ line \in members' /\ p.is = "join"
    BY <1>5 DEF HubJoin, Delivers, Packet
  <2>2. Packet(line, "joined", p.of).over = line /\ Packet(line, "joined", p.of).is = "joined"
    BY DEF Packet
  <2> HIDE DEF Packet
  <2>3. OneMove'
    BY <1>1, <1>4, <2>1 DEF OneMove
  <2>4. Underway({"join", "joined"})' /\ ~Underway({"part", "parted"})'
    BY <1>1, <1>4, <2>1, <2>2 DEF Underway, Moves
  <2>5. joining
    BY <1>1, <2>1 DEF RoomOk, Underway
  <2>6. \E q \in down' : q.is = "joined"
    BY <2>1, <2>2
  <2> QED BY <1>1, <2>1, <2>3, <2>4, <2>5, <2>6 DEF RoomOk
<1>6. CASE HubPart(p)
  <2>1. p.is = "part" /\ line \notin members'
    BY <1>6 DEF HubPart
  <2>0. \E is, of : Delivers(p, {Packet(line, is, of)}) /\ is \in {"parted", "error"}
    BY <1>6 DEF HubPart
  <2>2. PICK is, of : Delivers(p, {Packet(line, is, of)}) /\ is \in {"parted", "error"}
    BY <2>0
  <2> DEFINE a == Packet(line, is, of)
  <2>3. /\ a.over = line /\ a.is \in {"parted", "error"}
        /\ down' = down \cup {a}
    BY <2>2 DEF Packet, Delivers
  <2> HIDE DEF a
  <2>4. OneMove'
    BY <1>1, <1>4, <2>3 DEF OneMove
  <2>5. ~Underway({"join", "joined"})'
    BY <1>1, <1>4, <2>3 DEF Underway, Moves
  <2>6. ~inRoom
    BY <1>1, <2>1 DEF RoomOk, Underway
  <2>7. ~Underway({"join", "joined"})
    BY <1>1, <1>2, <2>1 DEF Underway, Moves
  <2>8. ~joining
    BY <2>7 DEF RoomOk
  <2>9. ~\E q \in down' : q.is = "joined"
    BY <1>4, <2>3 DEF WireOk, Packets, Moves
  <2> QED BY <1>1, <2>1, <2>4, <2>5, <2>6, <2>8, <2>9 DEF RoomOk
<1> QED BY <1>5, <1>6

\* The answer to the client's own move has come.
LEMMA RoomHeard ==
  ASSUME RoomOk, WireOk, WireOk', Calm, NEW p \in down,
         \/ HandleJoined(p) /\ p.is = "joined"
         \/ HandleParted(p) /\ p.is = "parted"
  PROVE  RoomOk'
<1> DEFINE Mine(q) == q.over = line /\ q.is \in Moves
<1>0. line # 0 /\ p.over = line /\ p.is \notin Said
  BY DEF WireOk, Packets, Said, Heard
<1>1. /\ UNCHANGED <<line, members>> /\ down' = down \ {p} /\ p.is \in {"joined", "parted"}
  BY DEF HandleJoined, HandleParted, hubVars
<1>2. \A q \in up \cup down : Mine(q) => q = p
  BY <1>0, <1>1 DEF RoomOk, OneMove, Moves
<1>3. p \notin up
  BY <1>0 DEF WireOk, Packets
<1>4. \A q \in up' : q \in up \/ q.is = "sync"
  BY DEF HandleJoined, HandleParted, Sends, Packet
<1>5. \A q \in up' \cup down' : ~Mine(q)
  BY <1>1, <1>2, <1>3, <1>4 DEF Moves
<1>6. /\ OneMove' /\ ~Underway({"join", "joined"})' /\ ~Underway({"part", "parted"})'
      /\ ~\E q \in down' : q.is = "joined"
  <2>1. OneMove' /\ ~Underway({"join", "joined"})' /\ ~Underway({"part", "parted"})'
    BY <1>1, <1>5 DEF OneMove, Underway, Moves
  <2>2. ~\E q \in down' : q.is = "joined"
    BY <1>1, <1>5 DEF WireOk, Packets, Moves
  <2> QED BY <2>1, <2>2
<1>7. ~joining' /\ (inRoom' <=> line \in members')
  <2>1. CASE HandleJoined(p) /\ p.is = "joined"
    <3>1. Underway({"join", "joined"})
      BY <1>0, <2>1 DEF Underway
    <3>2. joining /\ line \in members
      BY <1>0, <2>1, <3>1 DEF RoomOk
    <3> QED BY <1>1, <2>1, <3>2 DEF HandleJoined
  <2>2. CASE HandleParted(p) /\ p.is = "parted"
    <3>1. Underway({"part", "parted"}) /\ ~Underway({"join", "joined"})
      BY <1>0, <1>2, <2>2 DEF Underway, Moves
    <3>2. ~inRoom /\ ~joining
      BY <1>0, <3>1 DEF RoomOk
    <3>3. /\ ~\E q \in up : q.over = line /\ q.is \in {"join", "part"}
          /\ ~\E q \in down : q.is = "joined"
      BY <1>2, <1>3, <2>2 DEF WireOk, Packets, Moves
    <3>4. line \notin members
      BY <1>0, <3>2, <3>3 DEF RoomOk
    <3> QED BY <1>1, <2>2, <3>2, <3>4 DEF HandleParted
  <2> QED BY <2>1, <2>2
<1> QED BY <1>1, <1>6, <1>7 DEF RoomOk

LEMMA RoomStep == ASSUME WireOk, RoomOk, [RoomsNext]_roomVars PROVE RoomOk'
<1>1. WireOk'
  BY WireStep
<1>2. SUFFICES ASSUME Calm', line' # 0 PROVE RoomOk'
  BY DEF RoomOk
<1>3. Calm
  BY <1>2, CausesGrow DEF Calm
<1>4. line # 0 => (Still => RoomOk')
  BY <1>1, <1>3, StillRoom
<1>5. CASE LineUp \/ Join \/ Part
  BY <1>1, <1>2, <1>5, RoomAsked
<1>6. CASE LineDown \/ Loses
  BY <1>2, <1>6 DEF LineDown, Loses, Calm
<1>7. CASE OthersMove \/ RejoinRetryPass
  <2>1. UNCHANGED <<line, inRoom, joining, members, up>>
    BY <1>7 DEF OthersMove, RejoinRetryPass, clientVars, hubVars, wire
  <2>2. \A p : p.over = line /\ p.is \in Moves => (p \in down' <=> p \in down)
    BY <1>7 DEF OthersMove, RejoinRetryPass, wire, Packet, Moves
  <2> QED BY <1>2, <1>4, <2>1, <2>2 DEF Still
<1>8. ASSUME NEW l \in Lines, HubCloses(l) PROVE RoomOk'
  BY <1>2, <1>4, <1>8 DEF HubCloses, clientVars, Still
<1>9. ASSUME NEW m \in Msgs, SendMessage(m) \/ Sweep(m) \/ RetryMessage(m) \/ RetryFailedForRoom(m)
      PROVE  RoomOk'
  <2>1. UNCHANGED <<line, inRoom, joining, members, down>>
    BY <1>9 DEF SendMessage, Sweep, RetryMessage, RetryFailedForRoom, hubVars, wire
  <2>2. up' = up \/ (\E what : up' = up \cup {Packet(line, "msg", what)})
    <3>1. CASE SendMessage(m)
      BY <3>1 DEF SendMessage, Sends
    <3>2. CASE Sweep(m) \/ RetryMessage(m) \/ RetryFailedForRoom(m)
      BY <3>2 DEF Sweep, RetryMessage, RetryFailedForRoom, wire
    <3> QED BY <1>9, <3>1, <3>2
  <2>3. \A p : p.over = line /\ p.is \in Moves => (p \in up' <=> p \in up)
    BY <2>2 DEF Packet, Moves
  <2> QED BY <1>2, <1>4, <2>1, <2>3 DEF Still
<1>10. ASSUME NEW w \in Retriers, NEW m \in Msgs, RetrySends(w, m) PROVE RoomOk'
  <2>1. UNCHANGED <<line, inRoom, joining, members, down>>
    BY <1>10 DEF RetrySends, hubVars
  <2>2. \A p : p.over = line /\ p.is \in Moves => (p \in up' <=> p \in up)
    BY <1>10 DEF RetrySends, Sends, Packet, Moves
  <2> QED BY <1>2, <1>4, <2>1, <2>2 DEF Still
<1>11. ASSUME NEW p \in up, HubJoin(p) \/ HubRefuses(p) \/ HubPart(p) \/ HubMessage(p) \/ HubSync(p)
       PROVE  RoomOk'
  <2>1. UNCHANGED <<line, inRoom, joining>> /\ up' = up \ {p}
    BY <1>11 DEF HubJoin, HubRefuses, HubPart, HubMessage, HubSync, clientVars, Delivers
  <2>2. CASE HubRefuses(p)
    BY <1>2, <2>2 DEF HubRefuses, Calm
  <2>3. CASE p.over = line /\ (HubJoin(p) \/ HubPart(p))
    BY <1>1, <1>2, <1>3, <2>1, <2>3, RoomTaken
  <2>4. CASE p.over # line /\ (HubJoin(p) \/ HubPart(p))
    <3>1. \E is, of : Delivers(p, {Packet(p.over, is, of)})
      BY <2>4 DEF HubJoin, HubPart
    <3>4. down' = down
      BY <2>4, <3>1 DEF Delivers, Packet
    <3>2. line \in members' <=> line \in members
      BY <2>4 DEF HubJoin, HubPart
    <3>3. Still
      BY <2>1, <2>4, <3>4, <3>2 DEF Still
    <3> QED BY <1>2, <1>4, <2>1, <3>3
  <2>5. CASE HubMessage(p) \/ HubSync(p)
    <3>1. p.is \in {"msg", "sync"} /\ members' = members
      BY <2>5 DEF HubMessage, HubSync, hubVars
    <3>2. \A q \in down' : q \in down \/ q.is \in {"error", "echo", "seen"}
      <4>1. CASE HubSync(p)
        BY <4>1 DEF HubSync, Delivers, Packet
      <4>2. CASE HubMessage(p)
        <5>1. \E is, of : Delivers(p, {Packet(p.over, is, of)}) /\ is \in {"error", "echo", "seen"}
          BY <4>2 DEF HubMessage
        <5> QED BY <5>1 DEF Delivers, Packet
      <4> QED BY <2>5, <4>1, <4>2
    <3>3. down \subseteq down'
      BY <2>5 DEF HubMessage, HubSync, Delivers
    <3>4. Still
      BY <2>1, <3>1, <3>2, <3>3 DEF Still, Moves
    <3> QED BY <1>2, <1>4, <2>1, <3>4
  <2> QED BY <1>11, <2>2, <2>3, <2>4, <2>5
<1>12. ASSUME NEW p \in down, HandleJoined(p) \/ HandleParted(p) \/ HandleError(p) \/ HandleEcho(p)
       PROVE  RoomOk'
  <2>1. CASE \/ HandleJoined(p) /\ p.is = "joined"
             \/ HandleParted(p) /\ p.is = "parted"
    BY <1>1, <1>3, <2>1, RoomHeard
  <2>2. CASE \/ HandleJoined(p) /\ p.is = "came"
             \/ HandleParted(p) /\ p.is = "went"
             \/ HandleError(p) \/ HandleEcho(p)
    <3>1. UNCHANGED <<line, members>> /\ down' = down \ {p} /\ p.is \notin Moves
      BY <2>2 DEF HandleJoined, HandleParted, HandleError, HandleEcho, hubVars, Moves
    <3>2. UNCHANGED <<up, inRoom, joining>>
      <4>1. CASE HandleJoined(p) /\ p.is = "came"
        <5>1. ~joining
          BY <1>2, <4>1 DEF HandleJoined, Because, Calm
        <5> QED BY <4>1, <5>1 DEF HandleJoined, WireOk, Flags
      <4>2. CASE HandleParted(p) /\ p.is = "went"
        <5>1. ~parting
          BY <1>2, <4>2 DEF HandleParted, Because, Calm
        <5> QED BY <4>2, <5>1 DEF HandleParted, WireOk, Flags
      <4>3. CASE HandleError(p)
        <5>1. ~joining /\ ~parting
          BY <1>2, <4>3 DEF HandleError, Because, Calm
        <5> QED BY <4>3, <5>1 DEF HandleError, WireOk, Flags
      <4>4. CASE HandleEcho(p)
        BY <4>4 DEF HandleEcho
      <4> QED BY <2>2, <4>1, <4>2, <4>3, <4>4
    <3>3. Still
      BY <3>1, <3>2 DEF Still
    <3> QED BY <1>2, <1>4, <3>1, <3>3
  <2>3. p.is \in {"joined", "came"} \/ ~HandleJoined(p)
    BY DEF HandleJoined
  <2>4. p.is \in {"parted", "went"} \/ ~HandleParted(p)
    BY DEF HandleParted
  <2> QED BY <1>12, <2>1, <2>2, <2>3, <2>4
<1>13. CASE UNCHANGED roomVars
  BY <1>2, <1>4, <1>13 DEF roomVars, clientVars, hubVars, wire, Still
<1> QED
  BY <1>5, <1>6, <1>7, <1>8, <1>9, <1>10, <1>11, <1>12, <1>13 DEF RoomsNext

\* Once nothing is under way, the client shows the room as joined exactly when the
\* hub counts it in, unless a packet was lost or refused, an error or somebody
\* else's JOINED or PARTED was taken for the answer to our own request, or the user
\* asked again before the answer came (_handle_joined, _handle_parted, _handle_error,
\* _on_welcome; _handle_join, _handle_part and _on_close of the hub): for any number
\* of connections, messages and moves.
THEOREM TheRoomAgrees == RoomsSpec => []RoomAgrees
<1>1. RoomsInit => WireOk /\ RoomOk
  BY WireStart, RoomStart
<1>2. WireOk /\ RoomOk /\ [RoomsNext]_roomVars => (WireOk /\ RoomOk)'
  BY WireStep, RoomStep
<1>3. WireOk /\ RoomOk => RoomAgrees
  <2> SUFFICES ASSUME WireOk, RoomOk, AtRest, causes \ {"asked", "early"} = {}
               PROVE  inRoom <=> line \in members
    BY DEF RoomAgrees
  <2>1. Calm
    BY DEF Calm
  <2> QED BY <2>1 DEF RoomOk, AtRest
<1> QED BY <1>1, <1>2, <1>3, PTL DEF RoomsSpec

--------------------------------------------------------------------------------
(* Second copies *)

Clean == causes \cap {"asked", "early", "lost", "refused"} = {}

\* The packet p carries message m.
Copy(p, m) == p.is = "msg" /\ p.of[1] = m

\* The client is about to hear that the hub has relayed m; the hub is asked whether
\* it has.
Tells(p, m) == \/ p.is = "echo" /\ p.of[1] = m
               \/ p.is = "seen" /\ m \in p.of
ToldOf(m) == \E p \in down : Tells(p, m)
AskedAbout(m) == \E p \in up : p.over = line /\ p.is = "sync" /\ m \in p.of

\* Rows are going to be looked at, or are being looked at, for a resend.
Pending == rejoinTimer \/ due # {}

Copies(m) == \E p \in up : Copy(p, m)

\* One copy of m at most is out, or has been relayed.  While rows are being looked at,
\* a failed one that was relayed, or whose copy runs over an older connection, is one
\* the client is about to hear of, or has asked about.
Once(m) ==
  /\ relayed[m] <= 1
  /\ \A p, q \in up : Copy(p, m) /\ Copy(q, m) => p = q
  /\ Copies(m) => relayed[m] = 0
  /\ <<"pass", m>> \in retrying \/ row[m] = "none" => relayed[m] = 0 /\ ~Copies(m)
  /\ <<"pass", m>> \in retrying => row[m] # "none"
  /\ row[m] = "sent" \/ ToldOf(m) => relayed[m] = 1
  /\ \A p \in up : Copy(p, m) /\ row[m] = "sending" => p.over = line
  /\ relayed[m] = 1 /\ row[m] = "sending" => ToldOf(m)
  /\ Pending /\ row[m] = "failed" /\ relayed[m] = 1 => ToldOf(m) \/ AskedAbout(m)
  /\ \A p \in up : Pending /\ row[m] = "failed" /\ Copy(p, m) => p.over = line \/ AskedAbout(m)

Idle == line = 0 => ~Pending /\ \A m \in Msgs : row[m] # "sending"
Unasked == \A m \in Msgs : <<"user", m>> \notin retrying
OnceOk == Clean => Unasked /\ Idle /\ \A m \in Msgs : Once(m)

Counted == relayed \in [Msgs -> Nat]

LEMMA OnceStart == RoomsInit => Counted /\ OnceOk
<1> SUFFICES ASSUME RoomsInit PROVE Counted /\ OnceOk
  OBVIOUS
<1>1. Counted /\ Unasked /\ Idle
  BY DEF RoomsInit, Counted, Unasked, Idle, Pending
<1>2. ASSUME NEW m \in Msgs PROVE Once(m)
  BY DEF RoomsInit, Once, Copies, ToldOf, Pending
<1> QED BY <1>1, <1>2 DEF OnceOk

LEMMA CountedStep == ASSUME Counted, [RoomsNext]_roomVars PROVE Counted'
<1>1. ASSUME NEW p \in up, HubMessage(p) PROVE Counted'
  <2>1. relayed' = relayed \/ relayed' = [relayed EXCEPT ![p.of[1]] = @ + 1]
    BY <1>1 DEF HubMessage
  <2> QED BY <2>1 DEF Counted
<1>2. relayed' = relayed \/ \E p \in up : HubMessage(p)
  <2>1. CASE LineUp \/ LineDown \/ Loses \/ Join \/ Part \/ OthersMove \/ RejoinRetryPass
    BY <2>1 DEF LineUp, LineDown, Loses, Join, Part, OthersMove, RejoinRetryPass, hubVars
  <2>2. ASSUME NEW l \in Lines, HubCloses(l) PROVE relayed' = relayed
    BY <2>2 DEF HubCloses
  <2>3. ASSUME NEW m \in Msgs, SendMessage(m) \/ Sweep(m) \/ RetryMessage(m) \/ RetryFailedForRoom(m)
        PROVE  relayed' = relayed
    BY <2>3 DEF SendMessage, Sweep, RetryMessage, RetryFailedForRoom, hubVars
  <2>4. ASSUME NEW w \in Retriers, NEW m \in Msgs, RetrySends(w, m) PROVE relayed' = relayed
    BY <2>4 DEF RetrySends, hubVars
  <2>5. ASSUME NEW p \in up, HubJoin(p) \/ HubRefuses(p) \/ HubPart(p) \/ HubSync(p)
        PROVE  relayed' = relayed
    BY <2>5 DEF HubJoin, HubRefuses, HubPart, HubSync, hubVars
  <2>6. ASSUME NEW p \in down, HandleJoined(p) \/ HandleParted(p) \/ HandleError(p) \/ HandleEcho(p)
        PROVE  relayed' = relayed
    BY <2>6 DEF HandleJoined, HandleParted, HandleError, HandleEcho, hubVars
  <2>7. CASE UNCHANGED roomVars
    BY <2>7 DEF roomVars, hubVars
  <2> QED BY <2>1, <2>2, <2>3, <2>4, <2>5, <2>6, <2>7 DEF RoomsNext
<1> QED BY <1>1, <1>2 DEF Counted

LEMMA CopyOf ==
  ASSUME NEW l, NEW n, NEW k, NEW m
  PROVE  /\ Packet(l, "msg", <<n, k>>).over = l
         /\ Copy(Packet(l, "msg", <<n, k>>), m) <=> n = m
  BY DEF Packet, Copy

\* A step that leaves message m alone, and keeps what the client is about to hear or
\* has asked.
Spares(m) ==
  /\ line' = line /\ relayed'[m] = relayed[m] /\ row'[m] = row[m]
  /\ <<"pass", m>> \in retrying' => <<"pass", m>> \in retrying
  /\ \A p \in up' : Copy(p, m) => p \in up
  /\ ToldOf(m)' <=> ToldOf(m)
  /\ AskedAbout(m) => AskedAbout(m)'
  /\ Pending' => Pending

LEMMA SparesOnce == ASSUME NEW m \in Msgs, Once(m), Spares(m) PROVE Once(m)'
<1>1. Copies(m)' => Copies(m)
  BY DEF Spares, Copies
<1> QED BY <1>1 DEF Spares, Once

\* Packets that neither carry a message nor tell of one.
LEMMA NoCopies ==
  ASSUME NEW m \in Msgs, NEW A, NEW B,
         \A p \in A \cup B : p.is \notin {"msg", "echo", "seen"},
         up' \subseteq up \cup A,
         \A p \in up : p.over = line /\ p.is = "sync" => p \in up',
         \A p : p \in down' /\ p \notin B => p \in down,
         \A p \in down : Tells(p, m) => p \in down'
  PROVE  /\ \A p \in up' : Copy(p, m) => p \in up
         /\ ToldOf(m)' <=> ToldOf(m)
         /\ line' = line => (AskedAbout(m) => AskedAbout(m)')
<1>1. \A p \in up' : Copy(p, m) => p \in up
  BY DEF Copy
<1>2. ToldOf(m)' <=> ToldOf(m)
  BY DEF ToldOf, Tells
<1>3. line' = line => (AskedAbout(m) => AskedAbout(m)')
  BY DEF AskedAbout
<1> QED BY <1>1, <1>2, <1>3

\* The steps of the client's connection, its user and its timers.
LEMMA OnceClient ==
  ASSUME RowsOk, WireOk, Counted, Clean, Clean', Unasked, Idle, NEW m \in Msgs, Once(m),
         LineUp \/ LineDown \/ Loses \/ Join \/ Part \/ OthersMove \/ RejoinRetryPass
  PROVE  Once(m)'
<1>1. CASE LineUp
  <2>1. /\ UNCHANGED <<relayed, row, retrying, down, rejoinTimer, due>> /\ line = 0
    BY <1>1 DEF LineUp
  <2>2. ~Pending /\ ~Pending' /\ row[m] # "sending" /\ (ToldOf(m)' <=> ToldOf(m))
    BY <2>1 DEF Idle, Pending, ToldOf
  <2>3. \A p \in up' : p \in up \/ p.is = "join"
    BY <1>1 DEF LineUp, Sends, Packet
  <2>4. \A p \in up' : Copy(p, m) => p \in up
    BY <2>3 DEF Copy
  <2>5. Copies(m)' => Copies(m)
    BY <2>4 DEF Copies
  <2> QED BY <2>1, <2>2, <2>4, <2>5 DEF Once
<1>2. CASE LineDown
  <2>1. /\ UNCHANGED <<relayed, retrying, up, due>> /\ rejoinTimer' = FALSE
        /\ due = {}
    BY <1>2 DEF LineDown, hubVars, Because, Clean
  <2>2. row'[m] = IF m \in awaiting /\ row[m] # "gone" THEN "failed" ELSE row[m]
    BY <1>2 DEF LineDown
  <2>3. ~ToldOf(m)'
    BY <1>2 DEF LineDown, WireOk, Packets, ToldOf
  <2>4. ~Pending'
    BY <2>1 DEF Pending
  <2>5. row'[m] # "sending" /\ (row'[m] = "none" <=> row[m] = "none")
        /\ (row'[m] = "sent" => row[m] = "sent")
    BY <2>2 DEF RowsOk
  <2>6. Copies(m)' <=> Copies(m)
    BY <2>1 DEF Copies
  <2> QED BY <2>1, <2>3, <2>4, <2>5, <2>6 DEF Once
<1>3. CASE Loses
  BY <1>3 DEF Loses, Clean
<1>4. CASE Part
  <2>1. /\ UNCHANGED <<line, relayed, retrying, rejoinTimer, due, down>>
        /\ row'[m] = IF row[m] = "none" THEN "none" ELSE "gone"
    BY <1>4 DEF Part, hubVars, Dropped
  <2>2. \A p \in up' : p \in up \/ p.is = "part"
    BY <1>4 DEF Part, Sends, Packet
  <2>3. \A p \in up' : Copy(p, m) => p \in up
    BY <2>2 DEF Copy
  <2>4. (Copies(m)' => Copies(m)) /\ (ToldOf(m)' <=> ToldOf(m))
    BY <2>1, <2>3 DEF Copies, ToldOf
  <2> QED BY <2>1, <2>3, <2>4 DEF Once
<1>5. CASE Join
  <2>1. UNCHANGED <<line, relayed, row, retrying, rejoinTimer, due, down>>
    BY <1>5 DEF Join, hubVars
  <2>2. up' = up \cup {Packet(line, "join", budget.troubles)}
    BY <1>5 DEF Join, Sends
  <2>3. Packet(line, "join", budget.troubles).is = "join"
    BY DEF Packet
  <2>4. Spares(m)
    BY <2>1, <2>2, <2>3, NoCopies DEF Spares, Pending
  <2> QED BY <2>4, SparesOnce
<1>6. CASE OthersMove
  <2>1. UNCHANGED <<line, relayed, row, retrying, rejoinTimer, due, up>>
    BY <1>6 DEF OthersMove, clientVars
  <2>2. \A p \in down' : p \in down \/ p.is \in {"came", "went"}
    BY <1>6 DEF OthersMove, Packet
  <2>3. down \subseteq down'
    BY <1>6 DEF OthersMove
  <2>4. ToldOf(m)' <=> ToldOf(m)
    BY <2>2, <2>3 DEF ToldOf, Tells
  <2>5. Spares(m)
    BY <2>1, <2>4 DEF Spares, Pending, AskedAbout
  <2> QED BY <2>5, SparesOnce
<1>7. CASE RejoinRetryPass
  <2>1. UNCHANGED <<line, relayed, row, retrying, up, down>> /\ rejoinTimer
    BY <1>7 DEF RejoinRetryPass, hubVars, wire
  <2>2. Spares(m)
    BY <2>1 DEF Spares, Pending, AskedAbout, ToldOf
  <2> QED BY <2>2, SparesOnce
<1> QED BY <1>1, <1>2, <1>3, <1>4, <1>5, <1>6, <1>7

\* A message is sent, waited for, and sent again.
LEMMA OnceSends ==
  ASSUME RowsOk, WireOk, Counted, Clean, Clean', Unasked, Idle, NEW m \in Msgs, Once(m),
         NEW n \in Msgs,
         SendMessage(n) \/ Sweep(n) \/ RetryMessage(n) \/ RetryFailedForRoom(n)
           \/ \E w \in Retriers : RetrySends(w, n)
  PROVE  Once(m)'
<1>0. UNCHANGED <<line, relayed, down, rejoinTimer>>
  BY DEF SendMessage, Sweep, RetryMessage, RetryFailedForRoom, RetrySends, hubVars, wire
<1>1. Pending' => Pending
  BY DEF SendMessage, Sweep, RetryMessage, RetryFailedForRoom, RetrySends, Pending
<1>2. ToldOf(m)' <=> ToldOf(m)
  BY <1>0 DEF ToldOf
<1>3. ~RetryMessage(n)
  BY DEF RetryMessage, Because, Clean
<1>4. up' = up \/ \E k : up' = up \cup {Packet(line, "msg", <<n, k>>)}
  <2>1. CASE SendMessage(n)
    BY <2>1 DEF SendMessage, Sends
  <2>2. CASE Sweep(n) \/ RetryFailedForRoom(n)
    BY <2>2 DEF Sweep, RetryFailedForRoom, wire
  <2>3. CASE \E w \in Retriers : RetrySends(w, n)
    BY <2>3 DEF RetrySends, Sends
  <2> QED BY <1>3, <2>1, <2>2, <2>3
<1>5. AskedAbout(m) => AskedAbout(m)'
  BY <1>0, <1>4 DEF AskedAbout
<1>6. CASE m # n
  <2>1. row'[m] = row[m]
    BY <1>6 DEF SendMessage, Sweep, RetryMessage, RetryFailedForRoom, RetrySends, Becomes, RowsOk
  <2>2. <<"pass", m>> \in retrying' => <<"pass", m>> \in retrying
    <3>1. retrying' \subseteq retrying \cup {<<"pass", n>>}
      BY <1>3 DEF SendMessage, Sweep, RetryFailedForRoom, RetrySends
    <3> QED BY <1>6, <3>1
  <2>3. \A p \in up' : Copy(p, m) => p \in up
    <3>1. ASSUME NEW k, up' = up \cup {Packet(line, "msg", <<n, k>>)}
          PROVE  \A p \in up' : Copy(p, m) => p \in up
      BY <1>6, <3>1, CopyOf
    <3> QED BY <1>4, <3>1
  <2>4. Spares(m)
    BY <1>0, <1>1, <1>2, <1>5, <2>1, <2>2, <2>3 DEF Spares
  <2> QED BY <2>4, SparesOnce
<1>7. ASSUME m = n, SendMessage(n) PROVE Once(m)'
  <2>1. row[m] = "none" /\ row'[m] = "sending" /\ retrying' = retrying
    BY <1>7 DEF SendMessage, RowsOk
  <2>2. relayed[m] = 0 /\ ~Copies(m) /\ <<"pass", m>> \notin retrying /\ ~ToldOf(m)
    BY <2>1 DEF Once
  <2>3. up' = up \cup {Packet(line, "msg", <<m, 1>>)}
    BY <1>7 DEF SendMessage, Sends
  <2>4. \A p \in up' : Copy(p, m) => p = Packet(line, "msg", <<m, 1>>)
    BY <2>2, <2>3 DEF Copies
  <2>5. \A p \in up' : Copy(p, m) => p.over = line
    BY <2>4, CopyOf
  <2> QED BY <1>0, <1>2, <2>1, <2>2, <2>4, <2>5 DEF Once
<1>8. ASSUME m = n, Sweep(n) PROVE Once(m)'
  <2>1. /\ UNCHANGED <<retrying, up>> /\ m \in awaiting
        /\ row'[m] = IF row[m] = "gone" THEN "gone" ELSE "failed"
    BY <1>8 DEF Sweep, Becomes, RowsOk, wire
  <2>2. row[m] \in {"sending", "gone"}
    BY <2>1 DEF RowsOk
  <2>3. Copies(m)' <=> Copies(m)
    BY <2>1 DEF Copies
  <2> QED BY <1>0, <1>1, <1>2, <1>5, <2>1, <2>2, <2>3 DEF Once
<1>9. ASSUME m = n, RetryFailedForRoom(n) PROVE Once(m)'
  <2>1. UNCHANGED <<row, up>> /\ m \in due
    BY <1>9 DEF RetryFailedForRoom, wire
  <2>2. Copies(m)' <=> Copies(m)
    BY <2>1 DEF Copies
  <2>3. CASE retrying' = retrying
    BY <1>0, <1>1, <1>2, <1>5, <2>1, <2>2, <2>3 DEF Once
  <2>4. CASE retrying' # retrying
    <3>1. row[m] = "failed" /\ ~Telling
      BY <1>9, <2>4 DEF RetryFailedForRoom, Because, Clean
    <3>2. ~Copies(m) /\ ~ToldOf(m) /\ ~AskedAbout(m)
      BY <3>1 DEF Telling, Copies, Copy, ToldOf, Tells, AskedAbout
    <3>3. relayed[m] = 0
      BY <2>1, <3>1, <3>2 DEF Once, Pending, Counted
    <3> QED BY <1>0, <1>2, <2>1, <2>2, <3>1, <3>2, <3>3 DEF Once, Copies
  <2> QED BY <2>3, <2>4
<1>10. ASSUME m = n, NEW w \in Retriers, RetrySends(w, n) PROVE Once(m)'
  <2>1. /\ <<"pass", m>> \in retrying /\ retrying' = retrying \ {<<"pass", m>>}
    BY <1>10 DEF RetrySends, Retriers, Unasked
  <2>2. relayed[m] = 0 /\ ~Copies(m) /\ row[m] # "none" /\ ~ToldOf(m)
    BY <2>1 DEF Once
  <2>3. CASE line = 0
    <3>1. up' = up /\ row'[m] \in {"gone", "failed"} /\ ~Pending
      BY <1>10, <2>3 DEF RetrySends, Becomes, RowsOk, Idle
    <3>2. ~Copies(m)'
      BY <2>2, <3>1 DEF Copies
    <3> QED BY <1>0, <1>1, <1>2, <2>1, <2>2, <3>1, <3>2 DEF Once, Copies
  <2>4. CASE line # 0
    <3>1. /\ up' = up \cup {Packet(line, "msg", <<m, tries[m] + 1>>)}
          /\ row'[m] \in {"gone", "sending"}
      BY <1>10, <2>4 DEF RetrySends, Becomes, RowsOk, Sends
    <3>2. \A p \in up' : Copy(p, m) => p = Packet(line, "msg", <<m, tries[m] + 1>>)
      BY <2>2, <3>1 DEF Copies
    <3>3. \A p \in up' : Copy(p, m) => p.over = line
      BY <3>2, CopyOf
    <3> QED BY <1>0, <1>2, <2>1, <2>2, <3>1, <3>2, <3>3 DEF Once
  <2> QED BY <2>3, <2>4
<1> QED BY <1>3, <1>6, <1>7, <1>8, <1>9, <1>10

\* What the hub does.
LEMMA OnceHub ==
  ASSUME RowsOk, WireOk, Counted, Clean, Clean', Unasked, Idle, NEW m \in Msgs, Once(m),
         NEW p \in up, HubJoin(p) \/ HubRefuses(p) \/ HubPart(p) \/ HubMessage(p) \/ HubSync(p)
  PROVE  Once(m)'
<1>1. /\ UNCHANGED <<line, row, retrying, rejoinTimer, due>> /\ up' = up \ {p}
      /\ down \subseteq down' /\ ~HubRefuses(p)
  BY DEF HubJoin, HubRefuses, HubPart, HubMessage, HubSync, clientVars, Delivers, Clean
<1>2. /\ Pending' <=> Pending
      /\ \A q \in up' : Copy(q, m) => q \in up
      /\ Copies(m)' => Copies(m)
      /\ ToldOf(m) => ToldOf(m)'
      /\ p.is # "sync" => (AskedAbout(m) => AskedAbout(m)')
  BY <1>1 DEF Pending, Copies, ToldOf, AskedAbout
<1>3. CASE HubJoin(p) \/ HubPart(p)
  <2>1. p.is \in {"join", "part"} /\ relayed' = relayed
    BY <1>3 DEF HubJoin, HubPart
  <2>2. \E is, of : Delivers(p, {Packet(p.over, is, of)}) /\ is \in {"joined", "parted", "error"}
    BY <1>3 DEF HubJoin, HubPart
  <2>3. \A q \in down' : q \in down \/ q.is \in {"joined", "parted", "error"}
    BY <2>2 DEF Delivers, Packet
  <2>4. ToldOf(m)' <=> ToldOf(m)
    BY <1>2, <2>3 DEF ToldOf, Tells
  <2>5. Spares(m)
    BY <1>1, <1>2, <2>1, <2>4 DEF Spares
  <2> QED BY <2>5, SparesOnce
<1>4. CASE HubMessage(p)
  <2>1. p.is = "msg"
    BY <1>4 DEF HubMessage
  <2>2. CASE ~Copy(p, m)
    <3>1. p.of[1] # m
      BY <2>1, <2>2 DEF Copy
    <3>2. relayed'[m] = relayed[m]
      BY <1>4, <3>1 DEF HubMessage, Counted
    <3>3. \E a \in {Packet(p.over, "error", FALSE), Packet(p.over, "echo", p.of),
                    Packet(p.over, "seen", {p.of[1]})} : Delivers(p, {a})
      BY <1>4 DEF HubMessage
    <3>4. \A a \in {Packet(p.over, "error", FALSE), Packet(p.over, "echo", p.of),
                    Packet(p.over, "seen", {p.of[1]})} : ~Tells(a, m)
      BY <3>1 DEF Tells, Packet
    <3>5. ToldOf(m)' <=> ToldOf(m)
      BY <1>2, <3>3, <3>4 DEF ToldOf, Delivers
    <3>6. Spares(m)
      BY <1>1, <1>2, <2>1, <3>2, <3>5 DEF Spares
    <3> QED BY <3>6, SparesOnce
  <2>3. CASE Copy(p, m)
    <3>1. /\ relayed[m] = 0 /\ <<"pass", m>> \notin retrying /\ row[m] # "none"
          /\ row[m] # "sent" /\ ~ToldOf(m)
      BY <2>3 DEF Once, Copies
    <3>2. ~Copies(m)'
      BY <1>1, <2>3 DEF Once, Copies
    <3>3. p.of[1] = m
      BY <2>3 DEF Copy
    <3>4. CASE relayed' = relayed
      <4>1. members = {} /\ ~company
        BY <1>4, <3>3, <3>4 DEF HubMessage, Counted
      <4>2. Delivers(p, {Packet(p.over, "error", FALSE)})
        BY <1>4, <4>1 DEF HubMessage
      <4>3. ~ToldOf(m)'
        BY <3>1, <4>2 DEF ToldOf, Delivers, Tells, Packet
      <4> QED BY <1>1, <3>1, <3>2, <3>4, <4>3 DEF Once, Copies
    <3>5. CASE relayed' # relayed
      <4>1. relayed'[m] = 1
        BY <1>4, <3>1, <3>3, <3>5 DEF HubMessage, Counted
      <4>2. \E a \in {Packet(p.over, "echo", p.of), Packet(p.over, "seen", {p.of[1]})} :
              Delivers(p, {a})
        BY <1>4, <3>5 DEF HubMessage
      <4>3. \A a \in {Packet(p.over, "echo", p.of), Packet(p.over, "seen", {p.of[1]})} :
              Tells(a, m) /\ a.over = p.over
        BY <3>3 DEF Tells, Packet
      <4>4. p.over = line => ToldOf(m)'
        BY <4>2, <4>3 DEF ToldOf, Delivers
      <4>5. row[m] = "sending" => p.over = line
        BY <2>3 DEF Once
      <4>6. Pending /\ row[m] = "failed" => p.over = line \/ AskedAbout(m)
        BY <2>3 DEF Once
      <4> QED BY <1>1, <1>2, <2>1, <3>1, <3>2, <4>1, <4>4, <4>5, <4>6 DEF Once, Copies
    <3> QED BY <3>4, <3>5
  <2> QED BY <2>2, <2>3
<1>5. CASE HubSync(p)
  <2>1. p.is = "sync" /\ relayed' = relayed /\ \A q \in up : q.is # "msg"
    BY <1>5 DEF HubSync, hubVars, Because, Clean
  <2>2. ~Copies(m) /\ ~Copies(m)'
    BY <1>1, <2>1 DEF Copies, Copy
  <2> DEFINE found == {n \in p.of : relayed[n] > 0}
  <2>3. Delivers(p, IF found = {} THEN {} ELSE {Packet(p.over, "seen", found)})
    BY <1>5 DEF HubSync
  <2>4. Packet(p.over, "seen", found).over = p.over
        /\ (Tells(Packet(p.over, "seen", found), m) <=> m \in found)
    BY DEF Packet, Tells
  <2>5. m \in found => m \in p.of /\ relayed[m] = 1
    BY DEF Once, Counted
  <2>6. relayed[m] = 1 /\ m \in p.of => m \in found
    OBVIOUS
  <2> HIDE DEF found
  <2>7. ToldOf(m)' => ToldOf(m) \/ m \in found
    BY <2>3, <2>4 DEF ToldOf, Delivers
  <2>8. m \in found /\ p.over = line => ToldOf(m)'
    BY <2>3, <2>4 DEF ToldOf, Delivers
  <2>9. AskedAbout(m) => AskedAbout(m)' \/ (p.over = line /\ m \in p.of)
    BY <1>1 DEF AskedAbout
  <2> QED BY <1>1, <1>2, <2>1, <2>2, <2>5, <2>6, <2>7, <2>8, <2>9 DEF Once, Copies
<1> QED BY <1>1, <1>3, <1>4, <1>5

\* What the client hears.
LEMMA OnceHears ==
  ASSUME RowsOk, WireOk, Counted, Clean, Clean', Unasked, Idle, NEW m \in Msgs, Once(m),
         NEW p \in down, HandleJoined(p) \/ HandleParted(p) \/ HandleError(p) \/ HandleEcho(p)
  PROVE  Once(m)'
<1>1. UNCHANGED <<line, relayed, retrying, due>> /\ down' = down \ {p} /\ line # 0
  BY DEF HandleJoined, HandleParted, HandleError, HandleEcho, hubVars, WireOk, Packets
<1>2. \A q \in up' : q \in up \/ q.is = "sync"
  BY DEF HandleJoined, HandleParted, HandleError, HandleEcho, Sends, Packet
<1>3. \A q \in up' : Copy(q, m) => q \in up
  BY <1>2 DEF Copy
<1>4. Copies(m)' => Copies(m)
  BY <1>3 DEF Copies
<1>5. up \subseteq up'
  BY DEF HandleJoined, HandleParted, HandleError, HandleEcho, Sends
<1>6. AskedAbout(m) => AskedAbout(m)'
  BY <1>1, <1>5 DEF AskedAbout
<1>7. ToldOf(m)' => ToldOf(m)
  BY <1>1 DEF ToldOf
<1>8. CASE ~HandleEcho(p)
  <2>1. ~Tells(p, m)
    BY <1>8 DEF HandleJoined, HandleParted, HandleError, Tells
  <2>2. ToldOf(m)' <=> ToldOf(m)
    BY <1>1, <2>1 DEF ToldOf
  <2>3. row'[m] = row[m] \/ row'[m] = IF row[m] = "none" THEN "none" ELSE "gone"
    BY <1>8 DEF HandleJoined, HandleParted, HandleError, Dropped
  <2>4. CASE Pending' => Pending
    BY <1>1, <1>3, <1>4, <1>6, <2>2, <2>3, <2>4 DEF Once
  <2>5. CASE Pending' /\ ~Pending
    <3>1. HandleJoined(p) /\ joining
      BY <1>1, <1>8, <2>5 DEF HandleJoined, HandleParted, HandleError, Pending
    <3>2. row' = row
      BY <3>1 DEF HandleJoined
    <3> DEFINE failed == {n \in Msgs : row[n] = "failed"}
    <3>3. row[m] = "failed" => up' = up \cup {Packet(line, "sync", failed)}
      BY <1>1, <3>1 DEF HandleJoined, Sends
    <3>4. /\ Packet(line, "sync", failed).over = line /\ Packet(line, "sync", failed).is = "sync"
          /\ row[m] = "failed" => m \in Packet(line, "sync", failed).of
      BY DEF Packet
    <3> HIDE DEF failed
    <3>5. row[m] = "failed" => AskedAbout(m)'
      BY <1>1, <3>3, <3>4 DEF AskedAbout
    <3> QED BY <1>1, <1>3, <1>4, <2>2, <3>2, <3>5 DEF Once
  <2> QED BY <2>4, <2>5
<1>9. CASE HandleEcho(p)
  <2> DEFINE ms == IF p.is = "echo" THEN {p.of[1]} ELSE p.of
  <2>1. UNCHANGED <<rejoinTimer, up>> /\ Confirmed(ms)
    BY <1>9 DEF HandleEcho
  <2>2. Tells(p, m) <=> m \in ms
    BY <1>9 DEF HandleEcho, Tells
  <2> HIDE DEF ms
  <2>3. Pending' <=> Pending
    BY <1>1, <2>1 DEF Pending
  <2>4. CASE m \notin ms
    <3>1. row'[m] = row[m]
      BY <2>1, <2>4 DEF Confirmed
    <3>2. ToldOf(m)' <=> ToldOf(m)
      BY <1>1, <2>2, <2>4 DEF ToldOf
    <3>3. Spares(m)
      BY <1>1, <1>3, <1>6, <2>3, <3>1, <3>2 DEF Spares
    <3> QED BY <3>3, SparesOnce
  <2>5. CASE m \in ms
    <3>1. ToldOf(m)
      BY <2>2, <2>5 DEF ToldOf
    <3>2. relayed[m] = 1 /\ ~Copies(m) /\ <<"pass", m>> \notin retrying /\ row[m] # "none"
      BY <3>1 DEF Once
    <3>3. row'[m] \in {"sent", "gone"}
      BY <2>1, <2>5, <3>2 DEF Confirmed, RowsOk, RowStates
    <3> QED BY <1>1, <1>4, <3>2, <3>3 DEF Once, Copies
  <2> QED BY <2>4, <2>5
<1> QED BY <1>8, <1>9

\* No user asks, and nothing is looked at without a connection.
LEMMA IdleStep ==
  ASSUME RowsOk, WireOk, Clean, Clean', Unasked, Idle, [RoomsNext]_roomVars
  PROVE  Unasked' /\ Idle'
<1>1. CASE LineUp \/ Loses \/ Join \/ OthersMove \/ RejoinRetryPass
  BY <1>1 DEF LineUp, Loses, Join, OthersMove, RejoinRetryPass, clientVars, Clean, WireOk, Ends,
              Idle, Pending, Unasked
<1>2. CASE LineDown
  <2>1. UNCHANGED <<due, retrying>> /\ ~rejoinTimer' /\ due = {}
    BY <1>2 DEF LineDown, Because, Clean
  <2>2. \A m \in Msgs : row'[m] # "sending"
    BY <1>2 DEF LineDown, RowsOk
  <2> QED BY <2>1, <2>2 DEF Idle, Pending, Unasked
<1>3. CASE Part
  BY <1>3 DEF Part, Dropped, Idle, Pending, Unasked
<1>4. ASSUME NEW l \in Lines, HubCloses(l) PROVE Unasked' /\ Idle'
  BY <1>4 DEF HubCloses, clientVars, Idle, Pending, Unasked
<1>5. ASSUME NEW m \in Msgs, SendMessage(m) \/ Sweep(m) \/ RetryMessage(m) \/ RetryFailedForRoom(m)
      PROVE  Unasked' /\ Idle'
  <2>1. CASE SendMessage(m)
    BY <2>1 DEF SendMessage, Idle, Pending, Unasked
  <2>2. CASE Sweep(m)
    BY <2>2 DEF Sweep, Becomes, RowsOk, Idle, Pending, Unasked
  <2>3. CASE RetryMessage(m)
    BY <2>3 DEF RetryMessage, Because, Clean
  <2>4. CASE RetryFailedForRoom(m)
    <3>1. UNCHANGED <<line, row, rejoinTimer>> /\ m \in due /\ due' \subseteq due
          /\ retrying' \subseteq retrying \cup {<<"pass", m>>}
      BY <2>4 DEF RetryFailedForRoom
    <3> QED BY <3>1 DEF Idle, Pending, Unasked
  <2> QED BY <1>5, <2>1, <2>2, <2>3, <2>4
<1>6. ASSUME NEW w \in Retriers, NEW m \in Msgs, RetrySends(w, m) PROVE Unasked' /\ Idle'
  <2>1. UNCHANGED <<line, due, rejoinTimer>> /\ retrying' \subseteq retrying
    BY <1>6 DEF RetrySends
  <2>2. Unasked'
    BY <2>1 DEF Unasked
  <2>3. line = 0 => \A n \in Msgs : row'[n] = row[n] \/ row'[n] = "failed"
    BY <1>6 DEF RetrySends, Becomes, RowsOk
  <2>4. Idle'
    BY <2>1, <2>3 DEF Idle, Pending
  <2> QED BY <2>2, <2>4
<1>7. ASSUME NEW p \in up, HubJoin(p) \/ HubRefuses(p) \/ HubPart(p) \/ HubMessage(p) \/ HubSync(p)
      PROVE  Unasked' /\ Idle'
  <2>1. UNCHANGED <<line, row, due, rejoinTimer, retrying>>
    BY <1>7 DEF HubJoin, HubRefuses, HubPart, HubMessage, HubSync, clientVars
  <2> QED BY <2>1 DEF Idle, Pending, Unasked
<1>8. ASSUME NEW p \in down, HandleJoined(p) \/ HandleParted(p) \/ HandleError(p) \/ HandleEcho(p)
      PROVE  Unasked' /\ Idle'
  <2>1. line' # 0 /\ retrying' = retrying
    BY <1>8 DEF HandleJoined, HandleParted, HandleError, HandleEcho, WireOk, Packets
  <2> QED BY <2>1 DEF Idle, Unasked
<1>9. CASE UNCHANGED roomVars
  BY <1>9 DEF roomVars, clientVars, Idle, Pending, Unasked
<1> QED BY <1>1, <1>2, <1>3, <1>4, <1>5, <1>6, <1>7, <1>8, <1>9 DEF RoomsNext

LEMMA OnceStep ==
  ASSUME RowsOk, WireOk, Counted, OnceOk, [RoomsNext]_roomVars
  PROVE  OnceOk'
<1>1. SUFFICES ASSUME Clean' PROVE OnceOk'
  BY DEF OnceOk
<1>2. Clean /\ Unasked /\ Idle /\ \A m \in Msgs : Once(m)
  BY <1>1, CausesGrow DEF Clean, OnceOk
<1>3. Unasked' /\ Idle'
  BY <1>1, <1>2, IdleStep
<1>4. ASSUME NEW m \in Msgs PROVE Once(m)'
  <2>1. Once(m)
    BY <1>2
  <2>2. CASE LineUp \/ LineDown \/ Loses \/ Join \/ Part \/ OthersMove \/ RejoinRetryPass
    BY <1>1, <1>2, <2>1, <2>2, OnceClient
  <2>3. ASSUME NEW l \in Lines, HubCloses(l) PROVE Once(m)'
    <3>1. /\ UNCHANGED <<line, relayed, row, retrying, rejoinTimer, due, down>>
          /\ up' = {q \in up : q.over # l} /\ l # line
      BY <2>3 DEF HubCloses, clientVars
    <3>2. Spares(m)
      BY <3>1 DEF Spares, AskedAbout, ToldOf, Pending
    <3> QED BY <2>1, <3>2, SparesOnce
  <2>4. ASSUME NEW n \in Msgs,
               SendMessage(n) \/ Sweep(n) \/ RetryMessage(n) \/ RetryFailedForRoom(n)
                 \/ \E w \in Retriers : RetrySends(w, n)
        PROVE  Once(m)'
    BY <1>1, <1>2, <2>1, <2>4, OnceSends
  <2>5. ASSUME NEW p \in up,
               HubJoin(p) \/ HubRefuses(p) \/ HubPart(p) \/ HubMessage(p) \/ HubSync(p)
        PROVE  Once(m)'
    BY <1>1, <1>2, <2>1, <2>5, OnceHub
  <2>6. ASSUME NEW p \in down,
               HandleJoined(p) \/ HandleParted(p) \/ HandleError(p) \/ HandleEcho(p)
        PROVE  Once(m)'
    BY <1>1, <1>2, <2>1, <2>6, OnceHears
  <2>7. CASE UNCHANGED roomVars
    <3>1. Spares(m)
      BY <2>7 DEF roomVars, clientVars, hubVars, wire, Spares, AskedAbout, ToldOf, Pending
    <3> QED BY <2>1, <3>1, SparesOnce
  <2> QED BY <2>2, <2>3, <2>4, <2>5, <2>6, <2>7 DEF RoomsNext
<1> QED BY <1>3, <1>4 DEF OnceOk

\* The hub relays a message twice only if the user asked for it, a packet was lost
\* or refused, or the retry pass ran while the hub's receipt was still to come: rows
\* the hub confirms are restored to sent and never resent, which avoids relaying a
\* second copy (manager.py, _handle_joined, _request_delivery_sync, _rejoin_retry_pass).
THEOREM NoSecondCopy == RoomsSpec => []SecondCopyExplained
<1> DEFINE Inv == RowsOk /\ WireOk /\ Counted /\ OnceOk
<1>1. RoomsInit => Inv
  BY RowsStart, WireStart, OnceStart
<1>2. Inv /\ [RoomsNext]_roomVars => Inv'
  BY RowsStep, WireStep, CountedStep, OnceStep
<1>3. Inv => SecondCopyExplained
  <2> SUFFICES ASSUME Inv, NEW m \in Msgs, relayed[m] > 1, Clean PROVE FALSE
    BY DEF SecondCopyExplained, Clean
  <2>1. relayed[m] <= 1 /\ relayed[m] \in Nat
    BY DEF OnceOk, Once, Counted
  <2> QED BY <2>1
<1> QED BY <1>1, <1>2, <1>3, PTL DEF RoomsSpec

--------------------------------------------------------------------------------
(* Copies of a message, and the types of the rooms *)

\* The sends of message m that are on their way to the hub.
OnTheWay(m) == {k \in 1 .. tries[m] : \E p \in up : p.is = "msg" /\ p.of = <<m, k>>}

\* Every send is a copy of its own, and the hub relays it once at most.
Tried ==
  /\ relayed \in [Msgs -> Nat] /\ tries \in [Msgs -> 0 .. MaxTries]
  /\ \A m \in Msgs : row[m] = "none" => tries[m] = 0
  /\ \A p \in up : p.is = "msg" => \E m \in Msgs : \E k \in 1 .. tries[m] : p.of = <<m, k>>
  /\ \A p, q \in up : p.is = "msg" /\ q.is = "msg" /\ p.of = q.of => p = q

Relays == Tried /\ \A m \in Msgs : relayed[m] + Cardinality(OnTheWay(m)) <= tries[m]

LEMMA TriesAreNat == MaxTries \in Nat \ {0}
  BY RoomsAssumption DEF RoomsAssumption

\* They are finitely many.
LEMMA FewOnTheWay ==
  ASSUME Tried, NEW m \in Msgs
  PROVE  IsFiniteSet(OnTheWay(m)) /\ Cardinality(OnTheWay(m)) \in Nat
<1>1. tries[m] \in Nat
  BY TriesAreNat DEF Tried
<1>2. IsFiniteSet(1 .. tries[m])
  BY <1>1, FS_Interval
<1>3. IsFiniteSet(OnTheWay(m))
  BY <1>2, FS_Subset DEF OnTheWay
<1> QED BY <1>3, FS_CardinalityType

LEMMA RelaysStart == RoomsInit => Relays
<1> SUFFICES ASSUME RoomsInit PROVE Relays
  OBVIOUS
<1>1. Tried
  BY TriesAreNat DEF RoomsInit, Tried
<1>2. ASSUME NEW m \in Msgs PROVE relayed[m] + Cardinality(OnTheWay(m)) <= tries[m]
  <2>1. OnTheWay(m) = {}
    BY <1>2 DEF RoomsInit, OnTheWay
  <2> QED BY <2>1, FS_EmptySet DEF RoomsInit
<1> QED BY <1>1, <1>2 DEF Relays

\* A step that sends and relays nothing.
LEMMA RelaysFewer ==
  ASSUME Relays, UNCHANGED <<relayed, tries>>,
         \A m \in Msgs : row'[m] = "none" => row[m] = "none",
         \A p \in up' : p.is = "msg" => p \in up
  PROVE  Relays'
<1>1. Tried /\ Tried'
  BY DEF Relays, Tried
<1>2. ASSUME NEW m \in Msgs PROVE relayed'[m] + Cardinality(OnTheWay(m)') <= tries'[m]
  <2>1. OnTheWay(m)' \subseteq OnTheWay(m)
    BY DEF OnTheWay
  <2>2. IsFiniteSet(OnTheWay(m)) /\ Cardinality(OnTheWay(m)) \in Nat
    BY <1>1, FewOnTheWay
  <2>3. Cardinality(OnTheWay(m)') <= Cardinality(OnTheWay(m)) /\ Cardinality(OnTheWay(m)') \in Nat
    BY <2>1, <2>2, FS_Subset, FS_CardinalityType
  <2>4. relayed[m] \in Nat /\ tries[m] \in Nat /\ relayed[m] + Cardinality(OnTheWay(m)) <= tries[m]
    BY TriesAreNat DEF Relays, Tried
  <2> QED BY <2>2, <2>3, <2>4
<1> QED BY <1>1, <1>2 DEF Relays

\* A step that sends message n once more.
LEMMA RelaysSend ==
  ASSUME Relays, NEW n \in Msgs, tries[n] < MaxTries, relayed' = relayed, NEW l,
         tries' = [tries EXCEPT ![n] = @ + 1],
         \A m \in Msgs : row'[m] = "none" => row[m] = "none" /\ m # n,
         up' = up \cup {Packet(l, "msg", <<n, tries[n] + 1>>)}
  PROVE  Relays'
<1>0. /\ Tried /\ tries \in [Msgs -> 0 .. MaxTries] /\ relayed \in [Msgs -> Nat]
      /\ tries[n] \in Nat /\ MaxTries \in Nat
  BY TriesAreNat DEF Relays, Tried
<1> DEFINE new == Packet(l, "msg", <<n, tries[n] + 1>>)
<1>1. new.is = "msg" /\ new.of = <<n, tries[n] + 1>> /\ up' = up \cup {new}
  BY DEF Packet
<1> HIDE DEF new
<1>2. \A p \in up : p.is = "msg" => p.of # new.of
  <2> SUFFICES ASSUME NEW p \in up, p.is = "msg", p.of = <<n, tries[n] + 1>> PROVE FALSE
    BY <1>1
  <2>1. PICK m \in Msgs : \E k \in 1 .. tries[m] : p.of = <<m, k>>
    BY <1>0 DEF Tried
  <2> QED BY <1>0, <2>1
<1>3. Tried'
  <2>1. tries' \in [Msgs -> 0 .. MaxTries] /\ relayed' \in [Msgs -> Nat]
    BY <1>0
  <2>2. \A m \in Msgs : row'[m] = "none" => tries'[m] = 0
    BY <1>0 DEF Tried
  <2>3. \A m \in Msgs : 1 .. tries[m] \subseteq 1 .. tries'[m]
    BY <1>0
  <2>4. \A p \in up' : p.is = "msg" => \E m \in Msgs : \E k \in 1 .. tries'[m] : p.of = <<m, k>>
    <3>1. ASSUME NEW p \in up, p.is = "msg"
          PROVE  \E m \in Msgs : \E k \in 1 .. tries'[m] : p.of = <<m, k>>
      BY <1>0, <2>3, <3>1 DEF Tried
    <3>2. tries[n] + 1 \in 1 .. tries'[n]
      BY <1>0
    <3> QED BY <1>1, <3>1, <3>2
  <2>5. \A p, q \in up' : p.is = "msg" /\ q.is = "msg" /\ p.of = q.of => p = q
    BY <1>0, <1>1, <1>2 DEF Tried
  <2> QED BY <2>1, <2>2, <2>4, <2>5 DEF Tried
<1>4. ASSUME NEW m \in Msgs PROVE relayed'[m] + Cardinality(OnTheWay(m)') <= tries'[m]
  <2>0. /\ IsFiniteSet(OnTheWay(m)) /\ Cardinality(OnTheWay(m)) \in Nat
        /\ relayed[m] \in Nat /\ tries[m] \in Nat /\ relayed[m] + Cardinality(OnTheWay(m)) <= tries[m]
    BY <1>0, FewOnTheWay DEF Relays
  <2>1. CASE m # n
    <3>1. tries'[m] = tries[m] /\ \A k : new.of # <<m, k>>
      BY <1>0, <1>1, <2>1
    <3>2. OnTheWay(m)' = OnTheWay(m)
      BY <1>1, <3>1 DEF OnTheWay
    <3> QED BY <2>0, <3>1, <3>2
  <2>2. CASE m = n
    <3>1. tries'[m] = tries[m] + 1
      BY <1>0, <2>2
    <3>2. OnTheWay(m)' \subseteq OnTheWay(m) \cup {tries[m] + 1}
      BY <1>1, <2>0, <2>2, <3>1 DEF OnTheWay
    <3>3. /\ IsFiniteSet(OnTheWay(m) \cup {tries[m] + 1})
          /\ Cardinality(OnTheWay(m) \cup {tries[m] + 1}) \in Nat
          /\ Cardinality(OnTheWay(m) \cup {tries[m] + 1}) <= Cardinality(OnTheWay(m)) + 1
      <4>1. /\ IsFiniteSet(OnTheWay(m) \cup {tries[m] + 1})
            /\ Cardinality(OnTheWay(m) \cup {tries[m] + 1}) \in {Cardinality(OnTheWay(m)), Cardinality(OnTheWay(m)) + 1}
        BY <2>0, FS_AddElement
      <4> QED BY <2>0, <4>1
    <3>4. /\ Cardinality(OnTheWay(m)') <= Cardinality(OnTheWay(m) \cup {tries[m] + 1})
          /\ Cardinality(OnTheWay(m)') \in Nat
      BY <3>2, <3>3, FS_Subset, FS_CardinalityType
    <3> QED BY <2>0, <3>1, <3>3, <3>4
  <2> QED BY <2>1, <2>2
<1> QED BY <1>3, <1>4 DEF Relays

\* A step in which the hub relays the copy p.
LEMMA RelaysRelay ==
  ASSUME Relays, NEW p \in up, p.is = "msg", UNCHANGED <<tries, row>>,
         relayed' = [relayed EXCEPT ![p.of[1]] = @ + 1], up' = up \ {p}
  PROVE  Relays'
<1>0. Tried /\ tries \in [Msgs -> 0 .. MaxTries] /\ relayed \in [Msgs -> Nat] /\ MaxTries \in Nat
  BY TriesAreNat DEF Relays, Tried
<1>1. PICK n \in Msgs : \E k \in 1 .. tries[n] : p.of = <<n, k>>
  BY <1>0 DEF Tried
<1>2. PICK k \in 1 .. tries[n] : p.of = <<n, k>>
  BY <1>1
<1>3. relayed' = [relayed EXCEPT ![n] = @ + 1]
  BY <1>2
<1>4. Tried'
  BY <1>0, <1>3 DEF Tried
<1>5. ASSUME NEW m \in Msgs PROVE relayed'[m] + Cardinality(OnTheWay(m)') <= tries'[m]
  <2>0. /\ IsFiniteSet(OnTheWay(m)) /\ Cardinality(OnTheWay(m)) \in Nat
        /\ relayed[m] \in Nat /\ tries[m] \in Nat /\ relayed[m] + Cardinality(OnTheWay(m)) <= tries[m]
    BY <1>0, FewOnTheWay DEF Relays
  <2>1. CASE m # n
    <3>1. relayed'[m] = relayed[m] /\ OnTheWay(m)' \subseteq OnTheWay(m)
      BY <1>0, <1>3, <2>1 DEF OnTheWay
    <3>2. Cardinality(OnTheWay(m)') <= Cardinality(OnTheWay(m)) /\ Cardinality(OnTheWay(m)') \in Nat
      BY <2>0, <3>1, FS_Subset, FS_CardinalityType
    <3> QED BY <2>0, <3>1, <3>2
  <2>2. CASE m = n
    <3>1. relayed'[m] = relayed[m] + 1
      BY <1>0, <1>3, <2>2
    <3>2. k \in OnTheWay(m)
      BY <1>2, <2>2 DEF OnTheWay
    <3>3. k \notin OnTheWay(m)'
      BY <1>0, <1>2, <2>2 DEF OnTheWay, Tried
    <3>4. OnTheWay(m)' \subseteq OnTheWay(m) \ {k}
      BY <3>3 DEF OnTheWay
    <3>5. /\ IsFiniteSet(OnTheWay(m) \ {k})
          /\ Cardinality(OnTheWay(m) \ {k}) = Cardinality(OnTheWay(m)) - 1
      BY <2>0, <3>2, FS_RemoveElement
    <3>6. /\ Cardinality(OnTheWay(m)') <= Cardinality(OnTheWay(m) \ {k})
          /\ Cardinality(OnTheWay(m)') \in Nat
      BY <3>4, <3>5, FS_Subset, FS_CardinalityType
    <3> QED BY <2>0, <3>1, <3>5, <3>6
  <2> QED BY <2>1, <2>2
<1> QED BY <1>4, <1>5 DEF Relays

LEMMA RelaysStep == ASSUME RowsOk, Relays, [RoomsNext]_roomVars PROVE Relays'
<1>0. row \in [Msgs -> RowStates] /\ tries \in [Msgs -> 0 .. MaxTries]
  BY DEF RowsOk, Relays, Tried
<1> DEFINE Rows == \A m \in Msgs : row'[m] = "none" => row[m] = "none"
           Copied == \A p \in up' : p.is = "msg" => p \in up
           Frame == UNCHANGED <<relayed, tries>> /\ Rows /\ Copied
<1>f. Frame => Relays'
  BY RelaysFewer
<1>1. CASE LineUp \/ Loses \/ RejoinRetryPass \/ Join \/ OthersMove
  <2>1. UNCHANGED <<relayed, tries, row>>
    BY <1>1 DEF LineUp, Loses, Join, OthersMove, RejoinRetryPass, clientVars, hubVars
  <2>2. Copied
    BY <1>1 DEF LineUp, Loses, Join, OthersMove, RejoinRetryPass, wire, Sends, Packet
  <2> QED BY <1>f, <2>1, <2>2
<1>2. CASE LineDown
  <2>1. UNCHANGED <<relayed, tries, up>> /\ Rows
    BY <1>0, <1>2 DEF LineDown, hubVars
  <2> QED BY <1>f, <2>1
<1>3. CASE Part
  <2>1. UNCHANGED <<relayed, tries>> /\ Rows
    BY <1>0, <1>3 DEF Part, Dropped, hubVars
  <2>2. Copied
    BY <1>3 DEF Part, Sends, Packet
  <2> QED BY <1>f, <2>1, <2>2
<1>4. ASSUME NEW l \in Lines, HubCloses(l) PROVE Relays'
  BY <1>f, <1>4 DEF HubCloses, clientVars
<1>5. ASSUME NEW m \in Msgs, SendMessage(m) PROVE Relays'
  <2>1. tries[m] = 0 /\ tries[m] < MaxTries
    BY <1>5, TriesAreNat DEF SendMessage, Relays, Tried
  <2>2. /\ relayed' = relayed /\ tries' = [tries EXCEPT ![m] = @ + 1]
        /\ up' = up \cup {Packet(line, "msg", <<m, tries[m] + 1>>)}
    BY <1>0, <1>5, <2>1 DEF SendMessage, Sends, hubVars
  <2>3. \A n \in Msgs : row'[n] = "none" => row[n] = "none" /\ n # m
    BY <1>0, <1>5 DEF SendMessage
  <2> QED BY <2>1, <2>2, <2>3, RelaysSend
<1>6. ASSUME NEW m \in Msgs, Sweep(m) \/ RetryMessage(m) \/ RetryFailedForRoom(m) PROVE Relays'
  <2>1. UNCHANGED <<relayed, tries, up>> /\ Rows
    BY <1>0, <1>6 DEF Sweep, RetryMessage, RetryFailedForRoom, Becomes, hubVars, wire
  <2> QED BY <1>f, <2>1
<1>7. ASSUME NEW w \in Retriers, NEW m \in Msgs, RetrySends(w, m) PROVE Relays'
  <2>1. CASE line # 0
    <3>1. /\ relayed' = relayed /\ tries' = [tries EXCEPT ![m] = @ + 1] /\ tries[m] < MaxTries
          /\ up' = up \cup {Packet(line, "msg", <<m, tries[m] + 1>>)}
      BY <1>7, <2>1 DEF RetrySends, Sends, hubVars
    <3>2. \A n \in Msgs : row'[n] = "none" => row[n] = "none" /\ n # m
      BY <1>0, <1>7, <2>1 DEF RetrySends, Becomes
    <3> QED BY <3>1, <3>2, RelaysSend
  <2>2. CASE line = 0
    <3>1. UNCHANGED <<relayed, tries, up>> /\ Rows
      BY <1>0, <1>7, <2>2 DEF RetrySends, Becomes, hubVars
    <3> QED BY <1>f, <3>1
  <2> QED BY <2>1, <2>2
<1>8. ASSUME NEW p \in up, HubJoin(p) \/ HubRefuses(p) \/ HubPart(p) \/ HubSync(p) PROVE Relays'
  <2>1. UNCHANGED <<relayed, tries, row>>
    BY <1>8 DEF HubJoin, HubRefuses, HubPart, HubSync, clientVars, hubVars
  <2>2. up' = up \ {p}
    BY <1>8 DEF HubJoin, HubRefuses, HubPart, HubSync, Delivers
  <2> QED BY <1>f, <2>1, <2>2
<1>9. ASSUME NEW p \in up, HubMessage(p) PROVE Relays'
  <2>1. UNCHANGED <<tries, row>> /\ up' = up \ {p} /\ p.is = "msg"
    BY <1>9 DEF HubMessage, Delivers, clientVars
  <2>2. relayed' = relayed \/ relayed' = [relayed EXCEPT ![p.of[1]] = @ + 1]
    BY <1>9 DEF HubMessage
  <2> QED BY <1>f, <2>1, <2>2, RelaysRelay
<1>10. ASSUME NEW p \in down, HandleJoined(p) \/ HandleParted(p) \/ HandleError(p) \/ HandleEcho(p)
       PROVE  Relays'
  <2>1. UNCHANGED <<relayed, tries>>
    BY <1>10 DEF HandleJoined, HandleParted, HandleError, HandleEcho, hubVars
  <2>2. Rows
    BY <1>0, <1>10 DEF HandleJoined, HandleParted, HandleError, HandleEcho, Dropped, Confirmed
  <2>3. Copied
    BY <1>10 DEF HandleJoined, HandleParted, HandleError, HandleEcho, Sends, Packet
  <2> QED BY <1>f, <2>1, <2>2, <2>3
<1>11. CASE UNCHANGED roomVars
  BY <1>f, <1>11 DEF roomVars, clientVars, hubVars, wire
<1> QED BY <1>1, <1>2, <1>3, <1>4, <1>5, <1>6, <1>7, <1>8, <1>9, <1>10, <1>11 DEF RoomsNext

\* What is left of the bounds.
Left == budget \in [msgs : SUBSET Msgs, troubles : Nat]

LEMMA LeftStep == ASSUME Left, [RoomsNext]_roomVars PROVE Left'
<1>1. Trouble => Left'
  BY DEF Left, Trouble
<1>2. Trouble \/ budget' = budget
  <2>1. CASE LineUp \/ LineDown \/ Loses \/ Join \/ Part \/ OthersMove \/ RejoinRetryPass
    BY <2>1 DEF LineUp, LineDown, Loses, Join, Part, OthersMove, RejoinRetryPass, counts
  <2>2. ASSUME NEW l \in Lines, HubCloses(l) PROVE budget' = budget
    BY <2>2 DEF HubCloses, counts
  <2>3. ASSUME NEW m \in Msgs, SendMessage(m) \/ Sweep(m) \/ RetryMessage(m) \/ RetryFailedForRoom(m)
        PROVE  budget' = budget
    BY <2>3 DEF SendMessage, Sweep, RetryMessage, RetryFailedForRoom, counts
  <2>4. ASSUME NEW w \in Retriers, NEW m \in Msgs, RetrySends(w, m) PROVE budget' = budget
    BY <2>4 DEF RetrySends, counts
  <2>5. ASSUME NEW p \in up, HubJoin(p) \/ HubRefuses(p) \/ HubPart(p) \/ HubMessage(p) \/ HubSync(p)
        PROVE  Trouble \/ budget' = budget
    BY <2>5 DEF HubJoin, HubRefuses, HubPart, HubMessage, HubSync, counts
  <2>6. ASSUME NEW p \in down, HandleJoined(p) \/ HandleParted(p) \/ HandleError(p) \/ HandleEcho(p)
        PROVE  budget' = budget
    BY <2>6 DEF HandleJoined, HandleParted, HandleError, HandleEcho, counts
  <2>7. CASE UNCHANGED roomVars
    BY <2>7 DEF roomVars, counts
  <2> QED BY <2>1, <2>2, <2>3, <2>4, <2>5, <2>6, <2>7 DEF RoomsNext
<1> QED BY <1>1, <1>2 DEF Left

RoomsInv == RowsOk /\ WireOk /\ Relays /\ Left

LEMMA RoomsInvStart == RoomsInit => RoomsInv
<1>1. RoomsInit => Left
  BY BudgetsAssumption DEF BudgetsAssumption, RoomsInit, Left
<1> QED BY <1>1, RowsStart, WireStart, RelaysStart DEF RoomsInv

LEMMA RoomsInvStep == ASSUME RoomsInv, [RoomsNext]_roomVars PROVE RoomsInv'
  BY RowsStep, WireStep, RelaysStep, LeftStep DEF RoomsInv

LEMMA RoomsInvTypes == ASSUME RoomsInv PROVE RoomsTypeOK
<1>1. /\ line \in 0 .. MaxLines /\ lines \in 0 .. MaxLines
      /\ members \subseteq sessions /\ sessions \subseteq Lines
  BY LinesAreNat DEF RoomsInv, WireOk, Ends, Lines
<1>2. relayed \in [Msgs -> 0 .. MaxTries] /\ tries \in [Msgs -> 0 .. MaxTries]
  <2>1. Tried
    BY DEF RoomsInv, Relays
  <2>2. ASSUME NEW m \in Msgs PROVE relayed[m] \in 0 .. MaxTries
    <3>1. Cardinality(OnTheWay(m)) \in Nat
      BY <2>1, FewOnTheWay
    <3> QED BY <2>1, <3>1, TriesAreNat DEF RoomsInv, Relays, Tried
  <2> QED BY <2>1, <2>2 DEF Tried
<1> QED BY <1>1, <1>2 DEF RoomsInv, RoomsTypeOK, RowsOk, RowStates, WireOk, Flags, Left

--------------------------------------------------------------------------------
(* The session: threads, moves and types *)

\* A thread of an attempt is neither the user nor a timer nor an announce.
LEMMA ThreadNames ==
  /\ User \in Threads /\ Timer \in Threads /\ Announce \in Threads
  /\ User # Timer /\ User # Announce /\ Timer # Announce
  /\ \A r \in Roles, e \in Attempts :
       /\ <<r, e>> \in Threads
       /\ <<r, e>> # User /\ <<r, e>> # Timer /\ <<r, e>> # Announce
  /\ \A r, q \in Roles, e, f \in Attempts : <<r, e>> = <<q, f>> => r = q /\ e = f
  BY DEF Threads, User, Timer, Announce, Roles

\* Attempts are numbered from 1, and None is none of them.
LEMMA AttemptNumbers ==
  /\ MaxConnects \in Nat /\ None = 0 /\ None \notin Attempts
  /\ \A e : e \in Attempts <=> e \in 0 .. MaxConnects /\ e # 0
  BY MaxConnectsAssumption DEF Attempts, None

LEMMA AfterIsStep == \A t : After(t) \in {"clear", "failed", "off", "idle"}
  BY DEF After

\* A connect() changes nothing, or starts the next attempt.
LEMMA ConnectsTo ==
  ASSUME NEW t \in Threads, NEW reset \in BOOLEAN, Connects(t, reset),
         epoch \in 0 .. MaxConnects, at \in [Threads -> Steps], t # <<"worker", epoch + 1>>
  PROVE  \/ /\ Live(status) /\ at' = [at EXCEPT ![t] = "idle"]
            /\ UNCHANGED <<status, manual, retried, timer, epoch, history>>
         \/ /\ ~Live(status) /\ epoch + 1 \in Attempts /\ epoch' = epoch + 1
            /\ manual' = FALSE /\ retried' \in BOOLEAN /\ timer' = "none" /\ status' = "connecting"
            /\ at' \in [Threads -> Steps]
            /\ at'[t] = "idle" /\ at'[<<"worker", epoch + 1>>] = "waiting"
            /\ \A u \in Threads : u # t /\ u # <<"worker", epoch + 1>> => at'[u] = at[u]
            /\ history \ (Fresh \cup {"off", "overridden"}) \subseteq history'
            /\ history' \subseteq history \cup {"overridden"}
            /\ history' \cap Fresh = {}
            /\ t = Timer => ("off" \in history => "off" \in history')
                   /\ (manual \/ "overridden" \in history => "overridden" \in history')
            /\ t = User => "off" \notin history'
<1>1. CASE Live(status)
  BY <1>1 DEF Connects, Goes
<1>2. CASE ~Live(status)
  <2>1. epoch + 1 \in Attempts
    BY <1>2, AttemptNumbers DEF Connects
  <2>2. <<"worker", epoch + 1>> \in Threads
    BY <2>1, ThreadNames DEF Roles
  <2>3. /\ epoch' = epoch + 1 /\ manual' = FALSE /\ timer' = "none" /\ status' = "connecting"
        /\ retried' = (retried /\ ~reset)
    BY <1>2 DEF Connects
  <2>4. at' = [at EXCEPT ![t] = "idle", ![<<"worker", epoch + 1>>] = "waiting"]
    BY <1>2 DEF Connects
  <2>5. /\ at' \in [Threads -> Steps]
        /\ at'[t] = "idle" /\ at'[<<"worker", epoch + 1>>] = "waiting"
        /\ \A u \in Threads : u # t /\ u # <<"worker", epoch + 1>> => at'[u] = at[u]
    BY <2>2, <2>4 DEF Steps
  <2>6. history' = (history \ (IF t = User THEN Fresh \cup {"off", "overridden"} ELSE Fresh))
                      \cup (IF t = Timer /\ manual THEN {"overridden"} ELSE {})
    BY <1>2 DEF Connects
  <2>7. /\ history \ (Fresh \cup {"off", "overridden"}) \subseteq history'
        /\ history' \subseteq history \cup {"overridden"}
        /\ history' \cap Fresh = {}
    BY <2>6 DEF Fresh
  <2>8. t = Timer => /\ "off" \in history => "off" \in history'
                     /\ manual \/ "overridden" \in history => "overridden" \in history'
    BY <2>6, ThreadNames DEF Fresh
  <2>9. t = User => "off" \notin history'
    BY <2>6, ThreadNames
  <2> QED BY <1>2, <2>1, <2>3, <2>5, <2>7, <2>8, <2>9
<1> QED BY <1>1, <1>2

\* Thread t, and it alone, goes on at step s with link c.
OnlyMoves(t, s, c) ==
  /\ at'[t] = s /\ cut'[t] = c
  /\ \A u \in Threads : u # t => at'[u] = at[u] /\ cut'[u] = cut[u]

\* A thread that tears a link down goes on to the callback, or past it.
LEMMA TearsDownTo ==
  ASSUME TypeOK, NEW t \in Threads, NEW l \in Attempts, TearsDown(t, l)
  PROVE  /\ ln' = [ln EXCEPT ![l] = "closed"]
         /\ at' \in [Threads -> Steps] /\ cut' \in [Threads -> 0 .. MaxConnects]
         /\ \/ OnlyMoves(t, "closing", l)
            \/ ln[l] = "closed" /\ OnlyMoves(t, After(t), IF After(t) = "idle" THEN None ELSE l)
<1>1. PICK s \in {"closing"} \cup (IF ln[l] = "closed" THEN {After(t)} ELSE {}) :
        /\ at' = [at EXCEPT ![t] = s]
        /\ cut' = [cut EXCEPT ![t] = IF s = "idle" THEN None ELSE l]
  BY DEF TearsDown, Goes
<1>2. s \in Steps
  BY <1>1, AfterIsStep DEF Steps
<1>3. l \in 0 .. MaxConnects /\ None \in 0 .. MaxConnects
  BY AttemptNumbers
<1>4. at' \in [Threads -> Steps] /\ cut' \in [Threads -> 0 .. MaxConnects]
  BY <1>1, <1>2, <1>3 DEF TypeOK
<1>5. OnlyMoves(t, s, IF s = "idle" THEN None ELSE l)
  BY <1>1 DEF TypeOK, OnlyMoves
<1>6. s = "closing" \/ (ln[l] = "closed" /\ s = After(t))
  BY <1>1
<1>7. ln' = [ln EXCEPT ![l] = "closed"]
  BY DEF TearsDown
<1> QED BY <1>4, <1>5, <1>6, <1>7

\* What the closed callback leaves behind, and where its thread goes on.
LEMMA OnClosedTo ==
  ASSUME TypeOK, NEW t \in Threads, OnClosed(t)
  PROVE  /\ at[t] = "closing" /\ stopHello' = TRUE
         /\ history' = history \cup (IF cut[t] # epoch THEN {"hushed"} ELSE {})
         /\ at' \in [Threads -> Steps] /\ cut' \in [Threads -> 0 .. MaxConnects]
         /\ UNCHANGED <<bounds, retry, net, status>>
         /\ \/ /\ Ignored(cut[t])
               /\ OnlyMoves(t, After(t), IF After(t) = "idle" THEN None ELSE cut[t])
               /\ UNCHANGED <<link, lastClosed, expected, welcomed>>
            \/ /\ ~Ignored(cut[t])
               /\ OnlyMoves(t, IF Retries(cut[t]) THEN "tailRetry" ELSE "tailPlain", cut[t])
               /\ lastClosed' = cut[t] /\ link' = None /\ welcomed' = FALSE
               /\ expected' = IF expected = cut[t] THEN None ELSE expected
<1> DEFINE s == IF Ignored(cut[t]) THEN After(t)
                ELSE IF Retries(cut[t]) THEN "tailRetry" ELSE "tailPlain"
<1>1. GoesOn(t, s)
  BY DEF OnClosed
<1>2. s \in Steps
  BY AfterIsStep DEF Steps
<1>3. None \in 0 .. MaxConnects
  BY AttemptNumbers
<1>4. at' \in [Threads -> Steps] /\ cut' \in [Threads -> 0 .. MaxConnects]
  BY <1>1, <1>2, <1>3 DEF TypeOK, GoesOn, Goes
<1>5. OnlyMoves(t, s, IF s = "idle" THEN None ELSE cut[t])
  BY <1>1 DEF TypeOK, OnlyMoves, GoesOn, Goes
<1>6. /\ at[t] = "closing" /\ stopHello' = TRUE
      /\ history' = history \cup (IF cut[t] # epoch THEN {"hushed"} ELSE {})
      /\ UNCHANGED <<bounds, retry, net, status>>
  BY DEF OnClosed
<1>7. CASE Ignored(cut[t])
  <2>1. UNCHANGED <<link, lastClosed, expected, welcomed>>
    BY <1>7 DEF OnClosed
  <2>2. s = After(t)
    BY <1>7
  <2> QED BY <1>4, <1>5, <1>6, <1>7, <2>1, <2>2
<1>8. CASE ~Ignored(cut[t])
  <2>1. /\ lastClosed' = cut[t] /\ link' = None /\ welcomed' = FALSE
        /\ expected' = IF expected = cut[t] THEN None ELSE expected
    BY <1>8 DEF OnClosed
  <2>2. s = (IF Retries(cut[t]) THEN "tailRetry" ELSE "tailPlain") /\ s # "idle"
    BY <1>8
  <2>3. OnlyMoves(t, IF Retries(cut[t]) THEN "tailRetry" ELSE "tailPlain", cut[t])
    BY <1>5, <2>2
  <2> HIDE DEF s
  <2> QED BY <1>4, <1>6, <1>8, <2>1, <2>3
<1> QED BY <1>7, <1>8

\* Every step keeps the types.
LEMMA SessionTypesStep == ASSUME TypeOK, [Next]_vars PROVE TypeOK'
<1> USE AttemptNumbers, ThreadNames DEF TypeOK
<1> USE DEF Steps, hub, bounds, retry, session, net, Goes, GoesOn
<1>1. CASE UserConnect
  <2>1. Connects(User, TRUE) /\ User # <<"worker", epoch + 1>>
    BY <1>1 DEF UserConnect, User
  <2>2. at' \in [Threads -> Steps]
    BY <2>1, ConnectsTo
  <2>3. UNCHANGED <<bounds, session, net, auto, loose, cut>>
    BY <1>1 DEF UserConnect
  <2>4. /\ epoch' \in 0 .. MaxConnects /\ manual' \in BOOLEAN /\ retried' \in BOOLEAN
        /\ timer' \in {"none", "armed", "fired"} /\ status' \in {"off", "connecting", "connected", "failed"}
    BY <2>1, ConnectsTo
  <2> QED BY <2>2, <2>3, <2>4
<1>2. CASE Disconnect
  <2>1. /\ stops' \in 0 .. MaxStops /\ stopHello' = TRUE /\ manual' = TRUE /\ retried' = FALSE
        /\ timer' = "none" /\ link' = None
        /\ UNCHANGED <<plan, status, auto, loose, epoch, lastClosed, expected, welcomed, greeted>>
    BY <1>2, BoundsAssumption DEF Disconnect
  <2>2. CASE link = None
    BY <1>2, <2>1, <2>2 DEF Disconnect
  <2>3. CASE link # None
    <3>1. TearsDown(User, link) /\ link \in Attempts
      BY <1>2, <2>3 DEF Disconnect
    <3>2. /\ ln' \in [Attempts -> {"none", "pending", "active", "closed"}]
          /\ at' \in [Threads -> Steps] /\ cut' \in [Threads -> 0 .. MaxConnects]
      BY <3>1, TearsDownTo
    <3>3. {link', lastClosed', expected'} \subseteq 0 .. MaxConnects
      BY <2>1
    <3> QED BY <2>1, <3>2, <3>3
  <2> QED BY <2>2, <2>3
<1>3. CASE Disconnected
  BY <1>3 DEF Disconnected
<1>4. CASE SetAutoReconnect
  BY <1>4 DEF SetAutoReconnect
<1>5. CASE TimerFires
  BY <1>5 DEF TimerFires
<1>6. CASE FireReconnect
  BY <1>6 DEF FireReconnect
<1>7. CASE TimerConnect
  <2>1. Connects(Timer, FALSE) /\ Timer # <<"worker", epoch + 1>>
    BY <1>7 DEF TimerConnect, Timer
  <2>2. at' \in [Threads -> Steps]
    BY <2>1, ConnectsTo
  <2>3. UNCHANGED <<bounds, session, net, auto, loose, cut>>
    BY <1>7 DEF TimerConnect
  <2>4. /\ epoch' \in 0 .. MaxConnects /\ manual' \in BOOLEAN /\ retried' \in BOOLEAN
        /\ timer' \in {"none", "armed", "fired"} /\ status' \in {"off", "connecting", "connected", "failed"}
    BY <2>1, ConnectsTo
  <2> QED BY <2>2, <2>3, <2>4
<1>8. CASE NoteAnnounce
  BY <1>8 DEF NoteAnnounce
<1>9. ASSUME NEW e \in Attempts, WorkerCancelled(e) PROVE TypeOK'
  BY <1>9 DEF WorkerCancelled, Roles
<1>10. ASSUME NEW e \in Attempts, WorkerFails(e) PROVE TypeOK'
  BY <1>10 DEF WorkerFails, Roles
<1>11. ASSUME NEW e \in Attempts, WorkerChecks(e) PROVE TypeOK'
  BY <1>11 DEF WorkerChecks, Roles
<1>12. ASSUME NEW e \in Attempts, WorkerBuilds(e) PROVE TypeOK'
  BY <1>12 DEF WorkerBuilds, Roles
<1>13. ASSUME NEW e \in Attempts, WorkerOvertaken(e) PROVE TypeOK'
  BY <1>13 DEF WorkerOvertaken, Roles
<1>14. ASSUME NEW e \in Attempts, WorkerRegisters(e) PROVE TypeOK'
  BY <1>14 DEF WorkerRegisters, Registers, Roles
<1>15. ASSUME NEW e \in Attempts, WorkerLoopback(e) PROVE TypeOK'
  <2>1. /\ ln' = [ln EXCEPT ![e] = "active"] /\ link' = e /\ expected' = None
        /\ stopHello' = FALSE /\ status' = "connecting"
        /\ at' = [at EXCEPT ![<<"worker", e>>] = "idle", ![<<"hello", e>>] = "looping"]
        /\ UNCHANGED <<bounds, retry, lastClosed, welcomed, greeted, cut>>
    BY <1>15 DEF WorkerLoopback, Registers
  <2>2. at' \in [Threads -> Steps]
    BY <2>1
  <2>3. ln' \in [Attempts -> {"none", "pending", "active", "closed"}]
    BY <2>1
  <2>4. {link', lastClosed', expected'} \subseteq 0 .. MaxConnects
    BY <2>1
  <2> QED BY <2>1, <2>2, <2>3, <2>4
<1>16. ASSUME NEW e \in Attempts, Establish(e) PROVE TypeOK'
  BY <1>16 DEF Establish, Roles
<1>17. ASSUME NEW e \in Attempts, OnEstablished(e) PROVE TypeOK'
  BY <1>17 DEF OnEstablished, Roles
<1>18. ASSUME NEW e \in Attempts, IdentifyFails(e) PROVE TypeOK'
  BY <1>18, AfterIsStep DEF IdentifyFails, TearsDown, Roles
<1>19. ASSUME NEW e \in Attempts, LinkCloses(e) PROVE TypeOK'
  BY <1>19 DEF LinkCloses, Roles
<1>20. ASSUME NEW e \in Attempts, DogRests(e) PROVE TypeOK'
  BY <1>20 DEF DogRests, Roles
<1>21. ASSUME NEW e \in Attempts, DogBites(e) PROVE TypeOK'
  BY <1>21, AfterIsStep DEF DogBites, TearsDown, Roles
<1>22. ASSUME NEW e \in Attempts, DogFails(e) PROVE TypeOK'
  BY <1>22 DEF DogFails, Roles
<1>23. ASSUME NEW e \in Attempts, HelloStops(e) PROVE TypeOK'
  BY <1>23 DEF HelloStops, Roles
<1>24. ASSUME NEW e \in Attempts, HelloSends(e) PROVE TypeOK'
  BY <1>24 DEF HelloSends, LinkActive, Roles
<1>25. ASSUME NEW e \in Attempts, HelloLost(e) PROVE TypeOK'
  BY <1>25 DEF HelloLost, LinkActive, LinkOpen, Open, Roles
<1>26. ASSUME NEW e \in Attempts, WelcomeTimeout(e) PROVE TypeOK'
  BY <1>26 DEF WelcomeTimeout, Roles
<1>27. ASSUME NEW e \in Attempts, FailMarks(e) PROVE TypeOK'
  BY <1>27, AfterIsStep DEF FailMarks, TearsDown, Roles
<1>28. ASSUME NEW e \in Attempts, FailClears(e) PROVE TypeOK'
  BY <1>28 DEF FailClears, Roles
<1>29. ASSUME NEW e \in Attempts, WelcomeArrives(e) PROVE TypeOK'
  BY <1>29 DEF WelcomeArrives, Roles
<1>30. ASSUME NEW e \in Attempts, Welcome(e) PROVE TypeOK'
  BY <1>30 DEF Welcome, Roles
<1>31. ASSUME NEW e \in Attempts, Connected(e) PROVE TypeOK'
  BY <1>31 DEF Connected, Roles
<1>32. ASSUME NEW t \in Threads, OnClosed(t) PROVE TypeOK'
  <2>1. /\ at' \in [Threads -> Steps] /\ cut' \in [Threads -> 0 .. MaxConnects]
        /\ stopHello' \in BOOLEAN /\ UNCHANGED <<bounds, retry, net, status>>
    BY <1>32, OnClosedTo
  <2>2. /\ link' \in 0 .. MaxConnects /\ lastClosed' \in 0 .. MaxConnects
        /\ expected' \in 0 .. MaxConnects /\ welcomed' \in BOOLEAN
    <3>1. /\ cut[t] \in 0 .. MaxConnects /\ link \in 0 .. MaxConnects /\ lastClosed \in 0 .. MaxConnects
          /\ expected \in 0 .. MaxConnects /\ welcomed \in BOOLEAN /\ None \in 0 .. MaxConnects
      OBVIOUS
    <3> QED BY <1>32, <3>1, OnClosedTo
  <2> QED BY <2>1, <2>2
<1>33. ASSUME NEW t \in Threads, OnClosedTail(t) PROVE TypeOK'
  BY <1>33, AfterIsStep DEF OnClosedTail
<1>34. ASSUME NEW t \in Threads, ScheduleReconnect(t) PROVE TypeOK'
  BY <1>34, AfterIsStep DEF ScheduleReconnect
<1>35. ASSUME NEW t \in Threads, MaybeSchedule(t) PROVE TypeOK'
  BY <1>35, AfterIsStep DEF MaybeSchedule
<1>36. CASE UNCHANGED vars
  BY <1>36 DEF vars
<1> QED
  BY <1>1, <1>2, <1>3, <1>4, <1>5, <1>6, <1>7, <1>8, <1>9, <1>10, <1>11, <1>12, <1>13, <1>14,
       <1>15, <1>16, <1>17, <1>18, <1>19, <1>20, <1>21, <1>22, <1>23, <1>24, <1>25, <1>26, <1>27,
       <1>28, <1>29, <1>30, <1>31, <1>32, <1>33, <1>34, <1>35, <1>36 DEF Next, Attempt, Closing

\* What the threads of each role do, attempt by attempt.
Worker == [e \in Attempts |-> at[<<"worker", e>>]]
Rns    == [e \in Attempts |-> at[<<"rns", e>>]]
Closer == [e \in Attempts |-> at[<<"close", e>>]]
Dog    == [e \in Attempts |-> at[<<"dog", e>>]]
Hello  == [e \in Attempts |-> at[<<"hello", e>>]]
Fail   == [e \in Attempts |-> at[<<"fail", e>>]]
Answer == [e \in Attempts |-> at[<<"packet", e>>]]

\* The threads of attempt e in roles r and q, and they alone, go on at steps s and z.
BothMove(e, r, s, q, z) ==
  /\ at'[<<r, e>>] = s /\ at'[<<q, e>>] = z /\ cut' = cut
  /\ \A v \in Threads : v # <<r, e>> /\ v # <<q, e>> => at'[v] = at[v]

LEMMA RoleNames == /\ {"worker", "rns", "close", "dog", "hello", "fail", "packet"} = Roles
                   /\ "worker" \in Roles /\ "rns" \in Roles /\ "close" \in Roles /\ "dog" \in Roles
                   /\ "hello" \in Roles /\ "fail" \in Roles /\ "packet" \in Roles
  BY DEF Roles

\* What the move of one thread is for each role.
LEMMA RoleMoves ==
  ASSUME TypeOK, NEW r \in Roles, NEW e \in Attempts, NEW s, NEW c, OnlyMoves(<<r, e>>, s, c)
  PROVE  /\ Worker' = IF r = "worker" THEN [Worker EXCEPT ![e] = s] ELSE Worker
         /\ Rns' = IF r = "rns" THEN [Rns EXCEPT ![e] = s] ELSE Rns
         /\ Closer' = IF r = "close" THEN [Closer EXCEPT ![e] = s] ELSE Closer
         /\ Dog' = IF r = "dog" THEN [Dog EXCEPT ![e] = s] ELSE Dog
         /\ Hello' = IF r = "hello" THEN [Hello EXCEPT ![e] = s] ELSE Hello
         /\ Fail' = IF r = "fail" THEN [Fail EXCEPT ![e] = s] ELSE Fail
         /\ Answer' = IF r = "packet" THEN [Answer EXCEPT ![e] = s] ELSE Answer
         /\ UNCHANGED <<at[User], at[Timer], at[Announce]>>
<1>1. \A q \in Roles, f \in Attempts : at'[<<q, f>>] = IF q = r /\ f = e THEN s ELSE at[<<q, f>>]
  BY ThreadNames DEF OnlyMoves
<1>2. UNCHANGED <<at[User], at[Timer], at[Announce]>>
  BY ThreadNames DEF OnlyMoves
<1>3. Worker' = IF r = "worker" THEN [Worker EXCEPT ![e] = s] ELSE Worker
  <2>1. \A f \in Attempts : at'[<<"worker", f>>] = IF "worker" = r /\ f = e THEN s ELSE at[<<"worker", f>>]
    BY <1>1, RoleNames
  <2> QED BY <2>1 DEF Worker
<1>4. Rns' = IF r = "rns" THEN [Rns EXCEPT ![e] = s] ELSE Rns
  <2>1. \A f \in Attempts : at'[<<"rns", f>>] = IF "rns" = r /\ f = e THEN s ELSE at[<<"rns", f>>]
    BY <1>1, RoleNames
  <2> QED BY <2>1 DEF Rns
<1>5. Closer' = IF r = "close" THEN [Closer EXCEPT ![e] = s] ELSE Closer
  <2>1. \A f \in Attempts : at'[<<"close", f>>] = IF "close" = r /\ f = e THEN s ELSE at[<<"close", f>>]
    BY <1>1, RoleNames
  <2> QED BY <2>1 DEF Closer
<1>6. Dog' = IF r = "dog" THEN [Dog EXCEPT ![e] = s] ELSE Dog
  <2>1. \A f \in Attempts : at'[<<"dog", f>>] = IF "dog" = r /\ f = e THEN s ELSE at[<<"dog", f>>]
    BY <1>1, RoleNames
  <2> QED BY <2>1 DEF Dog
<1>7. Hello' = IF r = "hello" THEN [Hello EXCEPT ![e] = s] ELSE Hello
  <2>1. \A f \in Attempts : at'[<<"hello", f>>] = IF "hello" = r /\ f = e THEN s ELSE at[<<"hello", f>>]
    BY <1>1, RoleNames
  <2> QED BY <2>1 DEF Hello
<1>8. Fail' = IF r = "fail" THEN [Fail EXCEPT ![e] = s] ELSE Fail
  <2>1. \A f \in Attempts : at'[<<"fail", f>>] = IF "fail" = r /\ f = e THEN s ELSE at[<<"fail", f>>]
    BY <1>1, RoleNames
  <2> QED BY <2>1 DEF Fail
<1>9. Answer' = IF r = "packet" THEN [Answer EXCEPT ![e] = s] ELSE Answer
  <2>1. \A f \in Attempts : at'[<<"packet", f>>] = IF "packet" = r /\ f = e THEN s ELSE at[<<"packet", f>>]
    BY <1>1, RoleNames
  <2> QED BY <2>1 DEF Answer
<1> QED BY <1>2, <1>3, <1>4, <1>5, <1>6, <1>7, <1>8, <1>9

\* What the moves of two threads are for each role.
RolesMove(e, r, s, x, y) ==
  /\ \A q \in Roles :
              [f \in Attempts |-> at'[<<q, f>>]] =
                 IF q = r THEN [[f \in Attempts |-> at[<<q, f>>]] EXCEPT ![e] = s]
                 ELSE IF q = x THEN [[f \in Attempts |-> at[<<q, f>>]] EXCEPT ![e] = y]
                 ELSE [f \in Attempts |-> at[<<q, f>>]]
  /\ UNCHANGED <<at[User], at[Timer], at[Announce]>>

LEMMA BothViews ==
  ASSUME TypeOK, NEW r \in Roles, NEW e \in Attempts, NEW s, NEW x \in Roles, NEW y, r # x,
         BothMove(e, r, s, x, y)
  PROVE  RolesMove(e, r, s, x, y)
<1>1. \A q \in Roles, f \in Attempts :
        at'[<<q, f>>] = IF f # e THEN at[<<q, f>>] ELSE IF q = r THEN s ELSE IF q = x THEN y ELSE at[<<q, f>>]
  <2>1. ASSUME NEW q \in Roles, NEW f \in Attempts, f # e \/ (q # r /\ q # x)
        PROVE  at'[<<q, f>>] = at[<<q, f>>]
    <3>1. <<q, f>> \in Threads /\ <<q, f>> # <<r, e>> /\ <<q, f>> # <<x, e>>
      BY <2>1, ThreadNames
    <3> QED BY <3>1 DEF BothMove
  <2>2. at'[<<r, e>>] = s /\ at'[<<x, e>>] = y
    BY DEF BothMove
  <2> QED BY <2>1, <2>2
<1>2. UNCHANGED <<at[User], at[Timer], at[Announce]>>
  BY ThreadNames DEF BothMove
<1> QED BY <1>1, <1>2 DEF RolesMove

LEMMA TwoChange ==
  ASSUME TypeOK, NEW r \in Roles, NEW e \in Attempts, NEW s, NEW x \in Roles, NEW y, r # x,
         at' = [at EXCEPT ![<<r, e>>] = s, ![<<x, e>>] = y], cut' = cut
  PROVE  BothMove(e, r, s, x, y)
<1>1. <<r, e>> \in Threads /\ <<x, e>> \in Threads /\ <<r, e>> # <<x, e>>
  BY ThreadNames
<1> QED BY <1>1 DEF TypeOK, BothMove

\* What each step finds, changes, and leaves alone: the fields, the thread that takes it
\* and, role by role, where everybody is afterwards.
LEMMA WorkerCancelledDoes ==
  ASSUME TypeOK, NEW e \in Attempts, WorkerCancelled(e)
  PROVE  /\ Worker[e] = "waiting" /\ manual
         /\ status' = "off"
         /\ UNCHANGED <<manual, auto, retried, timer, loose, epoch, link, lastClosed, expected,
                        stopHello, welcomed, ln, greeted, history>>
         /\ OnlyMoves(<<"worker", e>>, "idle", cut[<<"worker", e>>])
         /\ Worker' = [Worker EXCEPT ![e] = "idle"]
         /\ UNCHANGED <<Rns, Closer, Dog, Hello, Fail, Answer, at[User], at[Timer], at[Announce]>>
<1>1. /\ Worker[e] = "waiting" /\ manual
      /\ status' = "off"
      /\ UNCHANGED <<manual, auto, retried, timer, loose, epoch, link, lastClosed, expected,
                     stopHello, welcomed, ln, greeted, history>>
      /\ OnlyMoves(<<"worker", e>>, "idle", cut[<<"worker", e>>])
  BY ThreadNames, RoleNames DEF WorkerCancelled, TypeOK, Goes, OnlyMoves, hub, bounds, retry,
       session, net, Worker
<1> QED BY <1>1, RoleMoves, RoleNames

LEMMA WorkerFailsDoes ==
  ASSUME TypeOK, NEW e \in Attempts, WorkerFails(e)
  PROVE  /\ Worker[e] = "waiting"
         /\ status' = "failed"
         /\ UNCHANGED <<manual, auto, retried, timer, loose, epoch, link, lastClosed, expected,
                        stopHello, welcomed, ln, greeted, history>>
         /\ OnlyMoves(<<"worker", e>>, "maybe", cut[<<"worker", e>>])
         /\ Worker' = [Worker EXCEPT ![e] = "maybe"]
         /\ UNCHANGED <<Rns, Closer, Dog, Hello, Fail, Answer, at[User], at[Timer], at[Announce]>>
<1>1. /\ Worker[e] = "waiting"
      /\ status' = "failed"
      /\ UNCHANGED <<manual, auto, retried, timer, loose, epoch, link, lastClosed, expected,
                     stopHello, welcomed, ln, greeted, history>>
      /\ OnlyMoves(<<"worker", e>>, "maybe", cut[<<"worker", e>>])
  BY ThreadNames, RoleNames DEF WorkerFails, TypeOK, Goes, OnlyMoves, hub, bounds, retry, session,
       net, Worker
<1> QED BY <1>1, RoleMoves, RoleNames

LEMMA WorkerChecksDoes ==
  ASSUME TypeOK, NEW e \in Attempts, WorkerChecks(e)
  PROVE  /\ Worker[e] = "waiting"
         /\ UNCHANGED <<status, manual, auto, retried, timer, loose, epoch, link, lastClosed,
                        expected, stopHello, welcomed, ln, greeted, history>>
         /\ OnlyMoves(<<"worker", e>>, "checked", cut[<<"worker", e>>])
         /\ Worker' = [Worker EXCEPT ![e] = "checked"]
         /\ UNCHANGED <<Rns, Closer, Dog, Hello, Fail, Answer, at[User], at[Timer], at[Announce]>>
<1>1. /\ Worker[e] = "waiting"
      /\ UNCHANGED <<status, manual, auto, retried, timer, loose, epoch, link, lastClosed,
                     expected, stopHello, welcomed, ln, greeted, history>>
      /\ OnlyMoves(<<"worker", e>>, "checked", cut[<<"worker", e>>])
  BY ThreadNames, RoleNames DEF WorkerChecks, TypeOK, Goes, OnlyMoves, hub, bounds, retry, session,
       net, Worker
<1> QED BY <1>1, RoleMoves, RoleNames

LEMMA WorkerBuildsDoes ==
  ASSUME TypeOK, NEW e \in Attempts, WorkerBuilds(e)
  PROVE  /\ Worker[e] = "checked"
         /\ stopHello' = FALSE
         /\ ln' = [ln EXCEPT ![e] = "pending"]
         /\ UNCHANGED <<status, manual, auto, retried, timer, loose, epoch, link, lastClosed,
                        expected, welcomed, greeted, history>>
         /\ OnlyMoves(<<"worker", e>>, "built", cut[<<"worker", e>>])
         /\ Worker' = [Worker EXCEPT ![e] = "built"]
         /\ UNCHANGED <<Rns, Closer, Dog, Hello, Fail, Answer, at[User], at[Timer], at[Announce]>>
<1>1. /\ Worker[e] = "checked"
      /\ stopHello' = FALSE
      /\ ln' = [ln EXCEPT ![e] = "pending"]
      /\ UNCHANGED <<status, manual, auto, retried, timer, loose, epoch, link, lastClosed,
                     expected, welcomed, greeted, history>>
      /\ OnlyMoves(<<"worker", e>>, "built", cut[<<"worker", e>>])
  BY ThreadNames, RoleNames DEF WorkerBuilds, TypeOK, Goes, OnlyMoves, hub, bounds, retry, session,
       net, Worker
<1> QED BY <1>1, RoleMoves, RoleNames

LEMMA WorkerOvertakenDoes ==
  ASSUME TypeOK, NEW e \in Attempts, WorkerOvertaken(e)
  PROVE  /\ Worker[e] = "built" /\ e # epoch
         /\ ln' = [ln EXCEPT ![e] = "closed"]
         /\ UNCHANGED <<status, manual, auto, retried, timer, loose, epoch, link, lastClosed,
                        expected, stopHello, welcomed, greeted, history>>
         /\ OnlyMoves(<<"worker", e>>, "closing", e)
         /\ Worker' = [Worker EXCEPT ![e] = "closing"]
         /\ UNCHANGED <<Rns, Closer, Dog, Hello, Fail, Answer, at[User], at[Timer], at[Announce]>>
<1>1. /\ Worker[e] = "built" /\ e # epoch
      /\ ln' = [ln EXCEPT ![e] = "closed"]
      /\ UNCHANGED <<status, manual, auto, retried, timer, loose, epoch, link, lastClosed,
                     expected, stopHello, welcomed, greeted, history>>
      /\ OnlyMoves(<<"worker", e>>, "closing", e)
  BY ThreadNames, RoleNames DEF WorkerOvertaken, TypeOK, Goes, OnlyMoves, hub, bounds, retry,
       session, net, Worker
<1> QED BY <1>1, RoleMoves, RoleNames

LEMMA WorkerRegistersDoes ==
  ASSUME TypeOK, NEW e \in Attempts, WorkerRegisters(e)
  PROVE  /\ Worker[e] = "built" /\ e = epoch
         /\ link' = e /\ expected' = None
         /\ history' = (IF stopHello' THEN history ELSE history \ {"hushed"})
                        \cup (IF manual \/ e # epoch THEN {"late"} ELSE {})
                        \cup (IF LinkOpen THEN {"replaced"} ELSE {})
         /\ UNCHANGED <<status, manual, auto, retried, timer, loose, epoch, lastClosed, stopHello,
                        welcomed, ln, greeted>>
         /\ BothMove(e, "worker", "idle", "dog", "watching")
         /\ Worker' = [Worker EXCEPT ![e] = "idle"]
         /\ Dog' = [Dog EXCEPT ![e] = "watching"]
         /\ UNCHANGED <<Rns, Closer, Hello, Fail, Answer, at[User], at[Timer], at[Announce]>>
<1>1. /\ Worker[e] = "built" /\ e = epoch
      /\ link' = e /\ expected' = None
      /\ history' = (IF stopHello' THEN history ELSE history \ {"hushed"})
                        \cup (IF manual \/ e # epoch THEN {"late"} ELSE {})
                        \cup (IF LinkOpen THEN {"replaced"} ELSE {})
      /\ UNCHANGED <<status, manual, auto, retried, timer, loose, epoch, lastClosed, stopHello,
                     welcomed, ln, greeted>>
      /\ at' = [at EXCEPT ![<<"worker", e>>] = "idle", ![<<"dog", e>>] = "watching"] /\ cut' = cut
  BY DEF WorkerRegisters, TypeOK, Goes, BothMove, hub, bounds, retry, session, net, Worker, Registers
<1>2. BothMove(e, "worker", "idle", "dog", "watching")
  BY <1>1, TwoChange, RoleNames
<1>3. RolesMove(e, "worker", "idle", "dog", "watching")
  BY <1>2, BothViews, RoleNames
<1>4. Worker' = [Worker EXCEPT ![e] = "idle"]
  BY <1>3, RoleNames DEF RolesMove, Worker, Rns, Closer, Dog, Hello, Fail, Answer
<1>5. Dog' = [Dog EXCEPT ![e] = "watching"]
  BY <1>3, RoleNames DEF RolesMove, Worker, Rns, Closer, Dog, Hello, Fail, Answer
<1>6. UNCHANGED <<Rns, Closer, Hello, Fail, Answer, at[User], at[Timer], at[Announce]>>
  BY <1>3, RoleNames DEF RolesMove, Worker, Rns, Closer, Dog, Hello, Fail, Answer
<1> QED BY <1>1, <1>2, <1>4, <1>5, <1>6

LEMMA WorkerLoopbackDoes ==
  ASSUME TypeOK, NEW e \in Attempts, WorkerLoopback(e)
  PROVE  /\ Worker[e] = "waiting"
         /\ ln' = [ln EXCEPT ![e] = "active"]
         /\ stopHello' = FALSE /\ link' = e /\ expected' = None /\ status' = "connecting"
         /\ history' = (IF stopHello' THEN history ELSE history \ {"hushed"})
                        \cup (IF manual \/ e # epoch THEN {"late"} ELSE {})
                        \cup (IF LinkOpen THEN {"replaced"} ELSE {})
         /\ UNCHANGED <<manual, auto, retried, timer, loose, epoch, lastClosed, welcomed, greeted>>
         /\ BothMove(e, "worker", "idle", "hello", "looping")
         /\ Worker' = [Worker EXCEPT ![e] = "idle"]
         /\ Hello' = [Hello EXCEPT ![e] = "looping"]
         /\ UNCHANGED <<Rns, Closer, Dog, Fail, Answer, at[User], at[Timer], at[Announce]>>
<1>1. /\ Worker[e] = "waiting"
      /\ ln' = [ln EXCEPT ![e] = "active"]
      /\ stopHello' = FALSE /\ link' = e /\ expected' = None /\ status' = "connecting"
      /\ history' = (IF stopHello' THEN history ELSE history \ {"hushed"})
                        \cup (IF manual \/ e # epoch THEN {"late"} ELSE {})
                        \cup (IF LinkOpen THEN {"replaced"} ELSE {})
      /\ UNCHANGED <<manual, auto, retried, timer, loose, epoch, lastClosed, welcomed, greeted>>
      /\ at' = [at EXCEPT ![<<"worker", e>>] = "idle", ![<<"hello", e>>] = "looping"] /\ cut' = cut
  BY DEF WorkerLoopback, TypeOK, Goes, BothMove, hub, bounds, retry, session, net, Worker, Registers
<1>2. BothMove(e, "worker", "idle", "hello", "looping")
  BY <1>1, TwoChange, RoleNames
<1>3. RolesMove(e, "worker", "idle", "hello", "looping")
  BY <1>2, BothViews, RoleNames
<1>4. Worker' = [Worker EXCEPT ![e] = "idle"]
  BY <1>3, RoleNames DEF RolesMove, Worker, Rns, Closer, Dog, Hello, Fail, Answer
<1>5. Hello' = [Hello EXCEPT ![e] = "looping"]
  BY <1>3, RoleNames DEF RolesMove, Worker, Rns, Closer, Dog, Hello, Fail, Answer
<1>6. UNCHANGED <<Rns, Closer, Dog, Fail, Answer, at[User], at[Timer], at[Announce]>>
  BY <1>3, RoleNames DEF RolesMove, Worker, Rns, Closer, Dog, Hello, Fail, Answer
<1> QED BY <1>1, <1>2, <1>4, <1>5, <1>6

LEMMA EstablishDoes ==
  ASSUME TypeOK, NEW e \in Attempts, Establish(e)
  PROVE  /\ ln[e] = "pending" /\ Worker[e] = "idle"
         /\ ln' = [ln EXCEPT ![e] = "active"]
         /\ UNCHANGED <<status, manual, auto, retried, timer, loose, epoch, link, lastClosed,
                        expected, stopHello, welcomed, greeted, history>>
         /\ OnlyMoves(<<"rns", e>>, "established", cut[<<"rns", e>>])
         /\ Rns' = [Rns EXCEPT ![e] = "established"]
         /\ UNCHANGED <<Worker, Closer, Dog, Hello, Fail, Answer, at[User], at[Timer], at[Announce]>>
<1>1. /\ ln[e] = "pending" /\ Worker[e] = "idle"
      /\ ln' = [ln EXCEPT ![e] = "active"]
      /\ UNCHANGED <<status, manual, auto, retried, timer, loose, epoch, link, lastClosed,
                     expected, stopHello, welcomed, greeted, history>>
      /\ OnlyMoves(<<"rns", e>>, "established", cut[<<"rns", e>>])
  BY ThreadNames, RoleNames DEF Establish, TypeOK, Goes, OnlyMoves, hub, bounds, retry, session,
       net, Worker
<1> QED BY <1>1, RoleMoves, RoleNames

LEMMA OnEstablishedDoes ==
  ASSUME TypeOK, NEW e \in Attempts, OnEstablished(e)
  PROVE  /\ Rns[e] = "established"
         /\ status' = "connecting"
         /\ history' = history \cup (IF link # e THEN {"stale"} ELSE {})
         /\ UNCHANGED <<manual, auto, retried, timer, loose, epoch, link, lastClosed, expected,
                        stopHello, welcomed, ln, greeted>>
         /\ BothMove(e, "rns", "idle", "hello", "looping")
         /\ Rns' = [Rns EXCEPT ![e] = "idle"]
         /\ Hello' = [Hello EXCEPT ![e] = "looping"]
         /\ UNCHANGED <<Worker, Closer, Dog, Fail, Answer, at[User], at[Timer], at[Announce]>>
<1>1. /\ Rns[e] = "established"
      /\ status' = "connecting"
      /\ history' = history \cup (IF link # e THEN {"stale"} ELSE {})
      /\ UNCHANGED <<manual, auto, retried, timer, loose, epoch, link, lastClosed, expected,
                     stopHello, welcomed, ln, greeted>>
      /\ at' = [at EXCEPT ![<<"rns", e>>] = "idle", ![<<"hello", e>>] = "looping"] /\ cut' = cut
  BY DEF OnEstablished, TypeOK, Goes, BothMove, hub, bounds, retry, session, net, Rns
<1>2. BothMove(e, "rns", "idle", "hello", "looping")
  BY <1>1, TwoChange, RoleNames
<1>3. RolesMove(e, "rns", "idle", "hello", "looping")
  BY <1>2, BothViews, RoleNames
<1>4. Rns' = [Rns EXCEPT ![e] = "idle"]
  BY <1>3, RoleNames DEF RolesMove, Worker, Rns, Closer, Dog, Hello, Fail, Answer
<1>5. Hello' = [Hello EXCEPT ![e] = "looping"]
  BY <1>3, RoleNames DEF RolesMove, Worker, Rns, Closer, Dog, Hello, Fail, Answer
<1>6. UNCHANGED <<Worker, Closer, Dog, Fail, Answer, at[User], at[Timer], at[Announce]>>
  BY <1>3, RoleNames DEF RolesMove, Worker, Rns, Closer, Dog, Hello, Fail, Answer
<1> QED BY <1>1, <1>2, <1>4, <1>5, <1>6

LEMMA LinkClosesDoes ==
  ASSUME TypeOK, NEW e \in Attempts, LinkCloses(e)
  PROVE  /\ Open(e) /\ Worker[e] = "idle"
         /\ ln' = [ln EXCEPT ![e] = "closed"]
         /\ UNCHANGED <<status, manual, auto, retried, timer, loose, epoch, link, lastClosed,
                        expected, stopHello, welcomed, greeted, history>>
         /\ OnlyMoves(<<"close", e>>, "closing", e)
         /\ Closer' = [Closer EXCEPT ![e] = "closing"]
         /\ UNCHANGED <<Worker, Rns, Dog, Hello, Fail, Answer, at[User], at[Timer], at[Announce]>>
<1>1. /\ Open(e) /\ Worker[e] = "idle"
      /\ ln' = [ln EXCEPT ![e] = "closed"]
      /\ UNCHANGED <<status, manual, auto, retried, timer, loose, epoch, link, lastClosed,
                     expected, stopHello, welcomed, greeted, history>>
      /\ OnlyMoves(<<"close", e>>, "closing", e)
  BY ThreadNames, RoleNames DEF LinkCloses, TypeOK, Goes, OnlyMoves, hub, bounds, retry, session,
       net, Worker
<1> QED BY <1>1, RoleMoves, RoleNames

LEMMA DogRestsDoes ==
  ASSUME TypeOK, NEW e \in Attempts, DogRests(e)
  PROVE  /\ Dog[e] = "watching"
         /\ UNCHANGED <<status, manual, auto, retried, timer, loose, epoch, link, lastClosed,
                        expected, stopHello, welcomed, ln, greeted, history>>
         /\ OnlyMoves(<<"dog", e>>, "idle", cut[<<"dog", e>>])
         /\ Dog' = [Dog EXCEPT ![e] = "idle"]
         /\ UNCHANGED <<Worker, Rns, Closer, Hello, Fail, Answer, at[User], at[Timer], at[Announce]>>
<1>1. /\ Dog[e] = "watching"
      /\ UNCHANGED <<status, manual, auto, retried, timer, loose, epoch, link, lastClosed,
                     expected, stopHello, welcomed, ln, greeted, history>>
      /\ OnlyMoves(<<"dog", e>>, "idle", cut[<<"dog", e>>])
  BY ThreadNames, RoleNames DEF DogRests, TypeOK, Goes, OnlyMoves, hub, bounds, retry, session, net, Dog
<1> QED BY <1>1, RoleMoves, RoleNames

LEMMA DogFailsDoes ==
  ASSUME TypeOK, NEW e \in Attempts, DogFails(e)
  PROVE  /\ Dog[e] = "failed"
         /\ status' = "failed"
         /\ UNCHANGED <<manual, auto, retried, timer, loose, epoch, link, lastClosed, expected,
                        stopHello, welcomed, ln, greeted, history>>
         /\ OnlyMoves(<<"dog", e>>, "maybe", None)
         /\ Dog' = [Dog EXCEPT ![e] = "maybe"]
         /\ UNCHANGED <<Worker, Rns, Closer, Hello, Fail, Answer, at[User], at[Timer], at[Announce]>>
<1>1. /\ Dog[e] = "failed"
      /\ status' = "failed"
      /\ UNCHANGED <<manual, auto, retried, timer, loose, epoch, link, lastClosed, expected,
                     stopHello, welcomed, ln, greeted, history>>
      /\ OnlyMoves(<<"dog", e>>, "maybe", None)
  BY ThreadNames, RoleNames DEF DogFails, TypeOK, Goes, OnlyMoves, hub, bounds, retry, session, net, Dog
<1> QED BY <1>1, RoleMoves, RoleNames

LEMMA HelloStopsDoes ==
  ASSUME TypeOK, NEW e \in Attempts, HelloStops(e)
  PROVE  /\ Hello[e] = "looping" /\ (stopHello \/ welcomed)
         /\ UNCHANGED <<status, manual, auto, retried, timer, loose, epoch, link, lastClosed,
                        expected, stopHello, welcomed, ln, greeted, history>>
         /\ OnlyMoves(<<"hello", e>>, "idle", cut[<<"hello", e>>])
         /\ Hello' = [Hello EXCEPT ![e] = "idle"]
         /\ UNCHANGED <<Worker, Rns, Closer, Dog, Fail, Answer, at[User], at[Timer], at[Announce]>>
<1>1. /\ Hello[e] = "looping" /\ (stopHello \/ welcomed)
      /\ UNCHANGED <<status, manual, auto, retried, timer, loose, epoch, link, lastClosed,
                     expected, stopHello, welcomed, ln, greeted, history>>
      /\ OnlyMoves(<<"hello", e>>, "idle", cut[<<"hello", e>>])
  BY ThreadNames, RoleNames DEF HelloStops, TypeOK, Goes, OnlyMoves, hub, bounds, retry, session,
       net, Hello
<1> QED BY <1>1, RoleMoves, RoleNames

LEMMA HelloLostDoes ==
  ASSUME TypeOK, NEW e \in Attempts, HelloLost(e)
  PROVE  /\ Hello[e] = "looping" /\ ~LinkActive
         /\ history' = history \cup (IF LinkOpen THEN {"revived"} ELSE {})
         /\ UNCHANGED <<status, manual, auto, retried, timer, loose, epoch, link, lastClosed,
                        expected, stopHello, welcomed, ln, greeted>>
         /\ OnlyMoves(<<"hello", e>>, IF status = "connecting" THEN "closing" ELSE "idle", IF status = "connecting" THEN link ELSE None)
         /\ Hello' = [Hello EXCEPT ![e] = IF status = "connecting" THEN "closing" ELSE "idle"]
         /\ UNCHANGED <<Worker, Rns, Closer, Dog, Fail, Answer, at[User], at[Timer], at[Announce]>>
<1>1. /\ Hello[e] = "looping" /\ ~LinkActive
      /\ history' = history \cup (IF LinkOpen THEN {"revived"} ELSE {})
      /\ UNCHANGED <<status, manual, auto, retried, timer, loose, epoch, link, lastClosed,
                     expected, stopHello, welcomed, ln, greeted>>
      /\ OnlyMoves(<<"hello", e>>, IF status = "connecting" THEN "closing" ELSE "idle", IF status = "connecting" THEN link ELSE None)
  BY ThreadNames, RoleNames DEF HelloLost, TypeOK, Goes, OnlyMoves, hub, bounds, retry, session,
       net, Hello
<1> QED BY <1>1, RoleMoves, RoleNames

LEMMA WelcomeTimeoutDoes ==
  ASSUME TypeOK, NEW e \in Attempts, WelcomeTimeout(e)
  PROVE  /\ Hello[e] = "looping"
         /\ status' = "failed" /\ history' = history \cup {"timedOut"}
         /\ UNCHANGED <<manual, auto, retried, timer, loose, epoch, link, lastClosed, expected,
                        stopHello, welcomed, ln, greeted>>
         /\ BothMove(e, "hello", "idle", "fail", "mark")
         /\ Hello' = [Hello EXCEPT ![e] = "idle"]
         /\ Fail' = [Fail EXCEPT ![e] = "mark"]
         /\ UNCHANGED <<Worker, Rns, Closer, Dog, Answer, at[User], at[Timer], at[Announce]>>
<1>1. /\ Hello[e] = "looping"
      /\ status' = "failed" /\ history' = history \cup {"timedOut"}
      /\ UNCHANGED <<manual, auto, retried, timer, loose, epoch, link, lastClosed, expected,
                     stopHello, welcomed, ln, greeted>>
      /\ at' = [at EXCEPT ![<<"hello", e>>] = "idle", ![<<"fail", e>>] = "mark"] /\ cut' = cut
  BY DEF WelcomeTimeout, TypeOK, Goes, BothMove, hub, bounds, retry, session, net, Hello, Notes
<1>2. BothMove(e, "hello", "idle", "fail", "mark")
  BY <1>1, TwoChange, RoleNames
<1>3. RolesMove(e, "hello", "idle", "fail", "mark")
  BY <1>2, BothViews, RoleNames
<1>4. Hello' = [Hello EXCEPT ![e] = "idle"]
  BY <1>3, RoleNames DEF RolesMove, Worker, Rns, Closer, Dog, Hello, Fail, Answer
<1>5. Fail' = [Fail EXCEPT ![e] = "mark"]
  BY <1>3, RoleNames DEF RolesMove, Worker, Rns, Closer, Dog, Hello, Fail, Answer
<1>6. UNCHANGED <<Worker, Rns, Closer, Dog, Answer, at[User], at[Timer], at[Announce]>>
  BY <1>3, RoleNames DEF RolesMove, Worker, Rns, Closer, Dog, Hello, Fail, Answer
<1> QED BY <1>1, <1>2, <1>4, <1>5, <1>6

LEMMA FailClearsDoes ==
  ASSUME TypeOK, NEW e \in Attempts, FailClears(e)
  PROVE  /\ Fail[e] = "clear"
         /\ link' = IF link = cut[<<"fail", e>>] THEN None ELSE link
         /\ history' = history \cup (IF status # "failed" THEN {"givenUp"} ELSE {})
         /\ UNCHANGED <<status, manual, auto, retried, timer, loose, epoch, lastClosed, expected,
                        stopHello, welcomed, ln, greeted>>
         /\ OnlyMoves(<<"fail", e>>, IF status = "failed" THEN "maybe" ELSE "idle", None)
         /\ Fail' = [Fail EXCEPT ![e] = IF status = "failed" THEN "maybe" ELSE "idle"]
         /\ UNCHANGED <<Worker, Rns, Closer, Dog, Hello, Answer, at[User], at[Timer], at[Announce]>>
<1>1. /\ Fail[e] = "clear"
      /\ link' = IF link = cut[<<"fail", e>>] THEN None ELSE link
      /\ history' = history \cup (IF status # "failed" THEN {"givenUp"} ELSE {})
      /\ UNCHANGED <<status, manual, auto, retried, timer, loose, epoch, lastClosed, expected,
                     stopHello, welcomed, ln, greeted>>
      /\ OnlyMoves(<<"fail", e>>, IF status = "failed" THEN "maybe" ELSE "idle", None)
  BY ThreadNames, RoleNames DEF FailClears, TypeOK, Goes, OnlyMoves, hub, bounds, retry, session,
       net, Fail
<1> QED BY <1>1, RoleMoves, RoleNames

LEMMA WelcomeArrivesDoes ==
  ASSUME TypeOK, NEW e \in Attempts, WelcomeArrives(e)
  PROVE  /\ Answer[e] = "idle" /\ e \in greeted
         /\ greeted' = greeted \ {e}
         /\ UNCHANGED <<status, manual, auto, retried, timer, loose, epoch, link, lastClosed,
                        expected, stopHello, welcomed, ln, history>>
         /\ OnlyMoves(<<"packet", e>>, "arrived", cut[<<"packet", e>>])
         /\ Answer' = [Answer EXCEPT ![e] = "arrived"]
         /\ UNCHANGED <<Worker, Rns, Closer, Dog, Hello, Fail, at[User], at[Timer], at[Announce]>>
<1>1. /\ Answer[e] = "idle" /\ e \in greeted
      /\ greeted' = greeted \ {e}
      /\ UNCHANGED <<status, manual, auto, retried, timer, loose, epoch, link, lastClosed,
                     expected, stopHello, welcomed, ln, history>>
      /\ OnlyMoves(<<"packet", e>>, "arrived", cut[<<"packet", e>>])
  BY ThreadNames, RoleNames DEF WelcomeArrives, TypeOK, Goes, OnlyMoves, hub, bounds, retry,
       session, net, Answer
<1> QED BY <1>1, RoleMoves, RoleNames

LEMMA WelcomeDoes ==
  ASSUME TypeOK, NEW e \in Attempts, Welcome(e)
  PROVE  /\ Answer[e] = "arrived"
         /\ welcomed' = TRUE
         /\ UNCHANGED <<status, manual, auto, retried, timer, loose, epoch, link, lastClosed,
                        expected, stopHello, ln, greeted, history>>
         /\ OnlyMoves(<<"packet", e>>, "answered", cut[<<"packet", e>>])
         /\ Answer' = [Answer EXCEPT ![e] = "answered"]
         /\ UNCHANGED <<Worker, Rns, Closer, Dog, Hello, Fail, at[User], at[Timer], at[Announce]>>
<1>1. /\ Answer[e] = "arrived"
      /\ welcomed' = TRUE
      /\ UNCHANGED <<status, manual, auto, retried, timer, loose, epoch, link, lastClosed,
                     expected, stopHello, ln, greeted, history>>
      /\ OnlyMoves(<<"packet", e>>, "answered", cut[<<"packet", e>>])
  BY ThreadNames, RoleNames DEF Welcome, TypeOK, Goes, OnlyMoves, hub, bounds, retry, session, net,
       Answer
<1> QED BY <1>1, RoleMoves, RoleNames

LEMMA ConnectedDoes ==
  ASSUME TypeOK, NEW e \in Attempts, Connected(e)
  PROVE  /\ Answer[e] = "answered"
         /\ retried' = FALSE /\ status' = "connected"
         /\ history' = history \cup (IF link # e THEN {"stale"} ELSE {})
         /\ UNCHANGED <<manual, auto, timer, loose, epoch, link, lastClosed, expected, stopHello,
                        welcomed, ln, greeted>>
         /\ OnlyMoves(<<"packet", e>>, "idle", cut[<<"packet", e>>])
         /\ Answer' = [Answer EXCEPT ![e] = "idle"]
         /\ UNCHANGED <<Worker, Rns, Closer, Dog, Hello, Fail, at[User], at[Timer], at[Announce]>>
<1>1. /\ Answer[e] = "answered"
      /\ retried' = FALSE /\ status' = "connected"
      /\ history' = history \cup (IF link # e THEN {"stale"} ELSE {})
      /\ UNCHANGED <<manual, auto, timer, loose, epoch, link, lastClosed, expected, stopHello,
                     welcomed, ln, greeted>>
      /\ OnlyMoves(<<"packet", e>>, "idle", cut[<<"packet", e>>])
  BY ThreadNames, RoleNames DEF Connected, TypeOK, Goes, OnlyMoves, hub, bounds, retry, session,
       net, Answer
<1> QED BY <1>1, RoleMoves, RoleNames

\* A connect() that starts an attempt moves its worker, and nobody else.
LEMMA WorkerStarts ==
  ASSUME TypeOK, epoch + 1 \in Attempts, NEW t \in {User, Timer},
         at' = [at EXCEPT ![t] = "idle", ![<<"worker", epoch + 1>>] = "waiting"]
  PROVE  /\ Worker' = [Worker EXCEPT ![epoch + 1] = "waiting"]
         /\ UNCHANGED <<Rns, Closer, Dog, Hello, Fail, Answer>>
         /\ at'[t] = "idle"
         /\ \A u \in Threads : u # t /\ u # <<"worker", epoch + 1>> => at'[u] = at[u]
<1>1. t \in Threads /\ <<"worker", epoch + 1>> \in Threads /\ t # <<"worker", epoch + 1>>
  BY ThreadNames, RoleNames
<1>2. /\ at'[t] = "idle" /\ at'[<<"worker", epoch + 1>>] = "waiting"
      /\ \A u \in Threads : u # t /\ u # <<"worker", epoch + 1>> => at'[u] = at[u]
  BY <1>1 DEF TypeOK
<1>3. ASSUME NEW q \in Roles, NEW f \in Attempts, q # "worker" \/ f # epoch + 1
      PROVE  at'[<<q, f>>] = at[<<q, f>>]
  <2>1. <<q, f>> \in Threads /\ <<q, f>> # <<"worker", epoch + 1>> /\ <<q, f>> # t
    BY <1>3, ThreadNames, RoleNames
  <2> QED BY <2>1, <1>2
<1>4. Worker' = [Worker EXCEPT ![epoch + 1] = "waiting"]
  <2>1. \A f \in Attempts : at'[<<"worker", f>>] = IF f = epoch + 1 THEN "waiting" ELSE at[<<"worker", f>>]
    BY <1>2, <1>3, RoleNames
  <2> QED BY <2>1 DEF Worker
<1>5. \A q \in Roles : q # "worker" => \A f \in Attempts : at'[<<q, f>>] = at[<<q, f>>]
  BY <1>3
<1>6. Rns' = Rns
  <2>1. \A f \in Attempts : at'[<<"rns", f>>] = at[<<"rns", f>>]
    BY <1>5, RoleNames
  <2> QED BY <2>1 DEF Rns
<1>7. Closer' = Closer
  <2>1. \A f \in Attempts : at'[<<"close", f>>] = at[<<"close", f>>]
    BY <1>5, RoleNames
  <2> QED BY <2>1 DEF Closer
<1>8. Dog' = Dog
  <2>1. \A f \in Attempts : at'[<<"dog", f>>] = at[<<"dog", f>>]
    BY <1>5, RoleNames
  <2> QED BY <2>1 DEF Dog
<1>9. Hello' = Hello
  <2>1. \A f \in Attempts : at'[<<"hello", f>>] = at[<<"hello", f>>]
    BY <1>5, RoleNames
  <2> QED BY <2>1 DEF Hello
<1>10. Fail' = Fail
  <2>1. \A f \in Attempts : at'[<<"fail", f>>] = at[<<"fail", f>>]
    BY <1>5, RoleNames
  <2> QED BY <2>1 DEF Fail
<1>11. Answer' = Answer
  <2>1. \A f \in Attempts : at'[<<"packet", f>>] = at[<<"packet", f>>]
    BY <1>5, RoleNames
  <2> QED BY <2>1 DEF Answer
<1> QED BY <1>2, <1>4, <1>6, <1>7, <1>8, <1>9, <1>10, <1>11

LEMMA UserConnectDoes ==
  ASSUME TypeOK, UserConnect
  PROVE  /\ ~Live(status) /\ at[User] = "idle"
         /\ epoch + 1 \in Attempts /\ epoch' = epoch + 1
         /\ manual' = FALSE /\ timer' = "none" /\ status' = "connecting"
         /\ history' = history \ (Fresh \cup {"off", "overridden"})
         /\ UNCHANGED <<auto, loose, link, lastClosed, expected, stopHello, welcomed, ln, greeted, cut>>
         /\ Worker' = [Worker EXCEPT ![epoch + 1] = "waiting"]
         /\ UNCHANGED <<Rns, Closer, Dog, Hello, Fail, Answer, at[User], at[Timer], at[Announce]>>
         /\ \A u \in Threads : u # <<"worker", epoch + 1>> => at'[u] = at[u]
<1>1. /\ ~Live(status) /\ at[User] = "idle"
      /\ epoch' = epoch + 1 /\ epoch < MaxConnects
      /\ manual' = FALSE /\ timer' = "none" /\ status' = "connecting"
      /\ history' = history \ (Fresh \cup {"off", "overridden"})
      /\ UNCHANGED <<auto, loose, link, lastClosed, expected, stopHello, welcomed, ln, greeted, cut>>
      /\ at' = [at EXCEPT ![User] = "idle", ![<<"worker", epoch + 1>>] = "waiting"]
  BY ThreadNames DEF UserConnect, Connects, session, net
<1>2. epoch + 1 \in Attempts
  BY <1>1, AttemptNumbers DEF TypeOK
<1>3. /\ Worker' = [Worker EXCEPT ![epoch + 1] = "waiting"]
      /\ UNCHANGED <<Rns, Closer, Dog, Hello, Fail, Answer>>
      /\ at'[User] = "idle"
      /\ \A u \in Threads : u # User /\ u # <<"worker", epoch + 1>> => at'[u] = at[u]
  BY <1>1, <1>2, WorkerStarts
<1>4. UNCHANGED <<at[User], at[Timer], at[Announce]>>
  <2>1. Timer # <<"worker", epoch + 1>> /\ Announce # <<"worker", epoch + 1>>
    BY <1>2, ThreadNames, RoleNames
  <2> QED BY <2>1, <1>1, <1>3, ThreadNames
<1>5. \A u \in Threads : u # <<"worker", epoch + 1>> => at'[u] = at[u]
  BY <1>3, <1>4
<1> QED BY <1>1, <1>2, <1>3, <1>4, <1>5

LEMMA TimerConnectDoes ==
  ASSUME TypeOK, TimerConnect
  PROVE  /\ at[Timer] = "connect" /\ at'[Timer] = "idle"
         /\ UNCHANGED <<auto, loose, link, lastClosed, expected, stopHello, welcomed, ln, greeted, cut>>
         /\ UNCHANGED <<Rns, Closer, Dog, Hello, Fail, Answer, at[User], at[Announce]>>
         /\ \/ /\ Live(status)
               /\ UNCHANGED <<status, manual, timer, epoch, history, Worker>>
               /\ \A u \in Threads : u # Timer => at'[u] = at[u]
            \/ /\ ~Live(status) /\ epoch + 1 \in Attempts /\ epoch' = epoch + 1
               /\ manual' = FALSE /\ timer' = "none" /\ status' = "connecting"
               /\ history' = (history \ Fresh) \cup (IF manual THEN {"overridden"} ELSE {})
               /\ Worker' = [Worker EXCEPT ![epoch + 1] = "waiting"]
               /\ \A u \in Threads : u # Timer /\ u # <<"worker", epoch + 1>> => at'[u] = at[u]
<1>1. /\ at[Timer] = "connect" /\ Connects(Timer, FALSE)
      /\ UNCHANGED <<auto, loose, link, lastClosed, expected, stopHello, welcomed, ln, greeted, cut>>
  BY DEF TimerConnect, session, net
<1>2. CASE Live(status)
  <2>1. /\ at' = [at EXCEPT ![Timer] = "idle"]
        /\ UNCHANGED <<status, manual, timer, epoch, history>>
    BY <1>1, <1>2 DEF Connects, Goes
  <2>2. at'[Timer] = "idle" /\ \A u \in Threads : u # Timer => at'[u] = at[u]
    BY <2>1, ThreadNames DEF TypeOK
  <2>3. UNCHANGED <<at[User], at[Announce]>>
    BY <2>2, ThreadNames
  <2>4. \A q \in Roles, f \in Attempts : at'[<<q, f>>] = at[<<q, f>>]
    BY <2>2, ThreadNames
  <2>5. UNCHANGED Worker
    BY <2>4, RoleNames DEF Worker
  <2>6. UNCHANGED <<Rns, Closer, Dog>>
    BY <2>4, RoleNames DEF Rns, Closer, Dog
  <2>7. UNCHANGED <<Hello, Fail, Answer>>
    BY <2>4, RoleNames DEF Hello, Fail, Answer
  <2> QED BY <1>1, <1>2, <2>1, <2>2, <2>3, <2>5, <2>6, <2>7
<1>3. CASE ~Live(status)
  <2>1. /\ epoch' = epoch + 1 /\ epoch < MaxConnects
        /\ manual' = FALSE /\ timer' = "none" /\ status' = "connecting"
        /\ history' = (history \ Fresh) \cup (IF manual THEN {"overridden"} ELSE {})
        /\ at' = [at EXCEPT ![Timer] = "idle", ![<<"worker", epoch + 1>>] = "waiting"]
    BY <1>1, <1>3, ThreadNames DEF Connects
  <2>2. epoch + 1 \in Attempts
    BY <2>1, AttemptNumbers DEF TypeOK
  <2>3. /\ Worker' = [Worker EXCEPT ![epoch + 1] = "waiting"]
        /\ UNCHANGED <<Rns, Closer, Dog, Hello, Fail, Answer>>
        /\ at'[Timer] = "idle"
        /\ \A u \in Threads : u # Timer /\ u # <<"worker", epoch + 1>> => at'[u] = at[u]
    BY <2>1, <2>2, WorkerStarts
  <2>4. UNCHANGED <<at[User], at[Announce]>>
    <3>1. User # <<"worker", epoch + 1>> /\ Announce # <<"worker", epoch + 1>>
      BY <2>2, ThreadNames, RoleNames
    <3> QED BY <3>1, <2>3, ThreadNames
  <2> QED BY <1>1, <1>3, <2>1, <2>2, <2>3, <2>4
<1> QED BY <1>2, <1>3

\* The user, the timer and an announce move by themselves.
LEMMA LoneMoves ==
  ASSUME TypeOK, NEW t \in {User, Timer, Announce}, NEW s, NEW c, OnlyMoves(t, s, c)
  PROVE  /\ UNCHANGED <<Worker, Rns, Closer, Dog, Hello, Fail, Answer>>
         /\ \A u \in {User, Timer, Announce} : at'[u] = IF u = t THEN s ELSE at[u]
<1>1. \A q \in Roles, f \in Attempts : at'[<<q, f>>] = at[<<q, f>>]
  BY ThreadNames DEF OnlyMoves
<1>2. UNCHANGED Worker
  BY <1>1, RoleNames DEF Worker
<1>3. UNCHANGED <<Rns, Closer, Dog>>
  BY <1>1, RoleNames DEF Rns, Closer, Dog
<1>4. UNCHANGED <<Hello, Fail, Answer>>
  BY <1>1, RoleNames DEF Hello, Fail, Answer
<1>5. \A u \in {User, Timer, Announce} : at'[u] = IF u = t THEN s ELSE at[u]
  BY ThreadNames DEF OnlyMoves
<1> QED BY <1>2, <1>3, <1>4, <1>5

\* What the user, the timer and an announce do.
LEMMA DisconnectDoes ==
  ASSUME TypeOK, Disconnect
  PROVE  /\ at[User] = "idle"
         /\ stopHello' = TRUE /\ manual' = TRUE /\ timer' = "none" /\ link' = None
         /\ history' = (history \ {"stale"}) \cup {"off"}
         /\ UNCHANGED <<status, auto, loose, epoch, lastClosed, expected, welcomed, greeted>>
         /\ UNCHANGED <<Worker, Rns, Closer, Dog, Hello, Fail, Answer, at[Timer], at[Announce]>>
         /\ at'[User] # "idle"
         /\ \/ link = None /\ ln' = ln /\ OnlyMoves(User, "off", cut[User])
            \/ /\ link \in Attempts /\ ln' = [ln EXCEPT ![link] = "closed"]
               /\ \/ OnlyMoves(User, "closing", link)
                  \/ ln[link] = "closed" /\ OnlyMoves(User, "off", link)
<1>1. /\ at[User] = "idle"
      /\ stopHello' = TRUE /\ manual' = TRUE /\ timer' = "none" /\ link' = None
      /\ history' = (history \ {"stale"}) \cup {"off"}
      /\ UNCHANGED <<status, auto, loose, epoch, lastClosed, expected, welcomed, greeted>>
  BY DEF Disconnect
<1>2. User \in {User, Timer, Announce}
  OBVIOUS
<1>3. CASE link = None
  <2>1. ln' = ln /\ cut' = cut /\ at' = [at EXCEPT ![User] = "off"]
    BY <1>3 DEF Disconnect, Goes
  <2>2. OnlyMoves(User, "off", cut[User])
    BY <2>1, ThreadNames DEF OnlyMoves, TypeOK
  <2> QED BY <1>1, <1>2, <1>3, <2>1, <2>2, LoneMoves, ThreadNames
<1>4. CASE link # None
  <2>1. TearsDown(User, link) /\ link \in Attempts
    BY <1>4, AttemptNumbers DEF Disconnect, TypeOK
  <2>2. After(User) = "off"
    BY DEF After, User
  <2>3. /\ ln' = [ln EXCEPT ![link] = "closed"]
        /\ \/ OnlyMoves(User, "closing", link)
           \/ ln[link] = "closed" /\ OnlyMoves(User, "off", link)
    BY <2>1, <2>2, TearsDownTo, ThreadNames
  <2>4. CASE OnlyMoves(User, "closing", link)
    BY <1>1, <1>2, <2>1, <2>3, <2>4, LoneMoves, ThreadNames
  <2>5. CASE ln[link] = "closed" /\ OnlyMoves(User, "off", link)
    BY <1>1, <1>2, <2>1, <2>3, <2>5, LoneMoves, ThreadNames
  <2> QED BY <2>3, <2>4, <2>5
<1> QED BY <1>3, <1>4

LEMMA DisconnectedDoes ==
  ASSUME TypeOK, Disconnected
  PROVE  /\ at[User] = "off" /\ status' = "off"
         /\ OnlyMoves(User, "idle", None)
         /\ UNCHANGED <<manual, auto, retried, timer, loose, epoch, link, lastClosed, expected,
                        stopHello, welcomed, ln, greeted, history>>
         /\ UNCHANGED <<Worker, Rns, Closer, Dog, Hello, Fail, Answer, at[Timer], at[Announce]>>
<1>1. /\ at[User] = "off" /\ status' = "off"
      /\ OnlyMoves(User, "idle", None)
      /\ UNCHANGED <<manual, auto, retried, timer, loose, epoch, link, lastClosed, expected,
                     stopHello, welcomed, ln, greeted, history>>
  BY ThreadNames DEF Disconnected, TypeOK, Goes, OnlyMoves, bounds, retry, session, net
<1>2. User \in {User, Timer, Announce}
  OBVIOUS
<1> QED BY <1>1, <1>2, LoneMoves, ThreadNames

LEMMA SetAutoReconnectDoes ==
  ASSUME TypeOK, SetAutoReconnect
  PROVE  /\ at[User] = "idle" /\ history' = history \cup {"switched"}
         /\ UNCHANGED <<status, manual, retried, loose, epoch, link, lastClosed, expected,
                        stopHello, welcomed, ln, greeted, at, cut>>
         /\ UNCHANGED <<Worker, Rns, Closer, Dog, Hello, Fail, Answer>>
<1>1. /\ at[User] = "idle" /\ history' = history \cup {"switched"}
      /\ UNCHANGED <<status, manual, retried, loose, epoch, link, lastClosed, expected, stopHello,
                     welcomed, ln, greeted, at, cut>>
  BY DEF SetAutoReconnect, session, net
<1> QED BY <1>1 DEF Worker, Rns, Closer, Dog, Hello, Fail, Answer

LEMMA TimerFiresDoes ==
  ASSUME TypeOK, TimerFires
  PROVE  /\ timer = "armed" /\ timer' = "fired" /\ loose' = 1
         /\ UNCHANGED <<status, manual, auto, retried, epoch, link, lastClosed, expected,
                        stopHello, welcomed, ln, greeted, history, at, cut>>
         /\ UNCHANGED <<Worker, Rns, Closer, Dog, Hello, Fail, Answer>>
<1>1. /\ timer = "armed" /\ timer' = "fired" /\ loose' = 1
      /\ UNCHANGED <<status, manual, auto, retried, epoch, link, lastClosed, expected, stopHello,
                     welcomed, ln, greeted, history, at, cut>>
  BY DEF TimerFires, session, net
<1> QED BY <1>1 DEF Worker, Rns, Closer, Dog, Hello, Fail, Answer

LEMMA FireReconnectDoes ==
  ASSUME TypeOK, FireReconnect
  PROVE  /\ loose = 1 /\ at[Timer] = "idle" /\ timer' = "none"
         /\ loose' = IF timer = "armed" THEN 1 ELSE 0
         /\ OnlyMoves(Timer, IF manual \/ ~auto THEN "idle" ELSE "connect", cut[Timer])
         /\ UNCHANGED <<status, manual, auto, retried, epoch, link, lastClosed, expected,
                        stopHello, welcomed, ln, greeted, history>>
         /\ UNCHANGED <<Worker, Rns, Closer, Dog, Hello, Fail, Answer, at[User], at[Announce]>>
<1>1. /\ loose = 1 /\ at[Timer] = "idle" /\ timer' = "none"
      /\ loose' = IF timer = "armed" THEN 1 ELSE 0
      /\ OnlyMoves(Timer, IF manual \/ ~auto THEN "idle" ELSE "connect", cut[Timer])
      /\ UNCHANGED <<status, manual, auto, retried, epoch, link, lastClosed, expected, stopHello,
                     welcomed, ln, greeted, history>>
  BY ThreadNames DEF FireReconnect, TypeOK, Goes, OnlyMoves, session, net
<1>2. Timer \in {User, Timer, Announce}
  OBVIOUS
<1> QED BY <1>1, <1>2, LoneMoves, ThreadNames

LEMMA NoteAnnounceDoes ==
  ASSUME TypeOK, NoteAnnounce
  PROVE  /\ ~Live(status) /\ at[Announce] = "idle"
         /\ OnlyMoves(Announce, IF timer # "none" THEN "schedule" ELSE "idle", cut[Announce])
         /\ UNCHANGED <<status, manual, auto, timer, loose, epoch, link, lastClosed, expected,
                        stopHello, welcomed, ln, greeted, history>>
         /\ UNCHANGED <<Worker, Rns, Closer, Dog, Hello, Fail, Answer, at[User], at[Timer]>>
<1>1. /\ ~Live(status) /\ at[Announce] = "idle"
      /\ OnlyMoves(Announce, IF timer # "none" THEN "schedule" ELSE "idle", cut[Announce])
      /\ UNCHANGED <<status, manual, auto, timer, loose, epoch, link, lastClosed, expected,
                     stopHello, welcomed, ln, greeted, history>>
  BY ThreadNames DEF NoteAnnounce, TypeOK, Goes, OnlyMoves, session, net
<1>2. Announce \in {User, Timer, Announce}
  OBVIOUS
<1> QED BY <1>1, <1>2, LoneMoves, ThreadNames

LEMMA HelloSendsDoes ==
  ASSUME TypeOK, NEW e \in Attempts, HelloSends(e)
  PROVE  /\ Hello[e] = "looping" /\ link \in Attempts /\ ln[link] = "active"
         /\ greeted' = greeted \cup {link}
         /\ UNCHANGED <<status, manual, auto, retried, timer, loose, epoch, link, lastClosed,
                        expected, stopHello, welcomed, ln, at, cut, history>>
         /\ UNCHANGED <<Worker, Rns, Closer, Dog, Hello, Fail, Answer>>
<1>1. /\ Hello[e] = "looping" /\ link \in Attempts /\ ln[link] = "active"
      /\ greeted' = greeted \cup {link}
      /\ UNCHANGED <<status, manual, auto, retried, timer, loose, epoch, link, lastClosed,
                     expected, stopHello, welcomed, ln, at, cut, history>>
  BY DEF HelloSends, LinkActive, hub, bounds, retry, session, Hello
<1> QED BY <1>1 DEF Worker, Rns, Closer, Dog, Hello, Fail, Answer

\* Where the threads of each role go on after the callback.
LEMMA AfterOf ==
  \A e : /\ After(<<"worker", e>>) = "idle" /\ After(<<"rns", e>>) = "idle" /\ After(<<"close", e>>) = "idle"
         /\ After(<<"hello", e>>) = "idle" /\ After(<<"packet", e>>) = "idle"
         /\ After(<<"dog", e>>) = "failed" /\ After(<<"fail", e>>) = "clear"
  BY DEF After

\* The three steps that tear a link down on their own account.
LEMMA IdentifyFailsDoes ==
  ASSUME TypeOK, NEW e \in Attempts, IdentifyFails(e)
  PROVE  /\ Rns[e] = "established"
         /\ ln' = [ln EXCEPT ![e] = "closed"]
         /\ UNCHANGED <<status, manual, auto, retried, timer, loose, epoch, link, lastClosed,
                        expected, stopHello, welcomed, greeted, history>>
         /\ UNCHANGED <<Worker, Closer, Dog, Hello, Fail, Answer, at[User], at[Timer], at[Announce]>>
         /\ \/ OnlyMoves(<<"rns", e>>, "closing", e) /\ Rns' = [Rns EXCEPT ![e] = "closing"]
            \/ /\ OnlyMoves(<<"rns", e>>, "idle", None) /\ Rns' = [Rns EXCEPT ![e] = "idle"]
               /\ ln[e] = "closed"
<1>1. /\ Rns[e] = "established" /\ TearsDown(<<"rns", e>>, e)
      /\ UNCHANGED <<status, manual, auto, retried, timer, loose, epoch, link, lastClosed,
                     expected, stopHello, welcomed, greeted, history>>
  BY DEF IdentifyFails, hub, bounds, retry, session, Rns
<1>2. <<"rns", e>> \in Threads
  BY ThreadNames, RoleNames
<1>3. /\ ln' = [ln EXCEPT ![e] = "closed"]
      /\ \/ OnlyMoves(<<"rns", e>>, "closing", e)
         \/ ln[e] = "closed" /\ OnlyMoves(<<"rns", e>>, "idle", None)
  BY <1>1, <1>2, TearsDownTo, AfterOf
<1>4. CASE OnlyMoves(<<"rns", e>>, "closing", e)
  BY <1>1, <1>3, <1>4, RoleMoves, RoleNames
<1>5. CASE ln[e] = "closed" /\ OnlyMoves(<<"rns", e>>, "idle", None)
  BY <1>1, <1>3, <1>5, RoleMoves, RoleNames
<1> QED BY <1>3, <1>4, <1>5

LEMMA DogBitesDoes ==
  ASSUME TypeOK, NEW e \in Attempts, DogBites(e)
  PROVE  /\ Dog[e] = "watching" /\ ln[e] = "pending" /\ link = e /\ expected' = e
         /\ ln' = [ln EXCEPT ![e] = "closed"]
         /\ UNCHANGED <<status, manual, auto, retried, timer, loose, epoch, link, lastClosed,
                        stopHello, welcomed, greeted, history>>
         /\ OnlyMoves(<<"dog", e>>, "closing", e)
         /\ Dog' = [Dog EXCEPT ![e] = "closing"]
         /\ UNCHANGED <<Worker, Rns, Closer, Hello, Fail, Answer, at[User], at[Timer], at[Announce]>>
<1>1. /\ Dog[e] = "watching" /\ ln[e] = "pending" /\ link = e /\ expected' = e
      /\ TearsDown(<<"dog", e>>, e)
      /\ UNCHANGED <<status, manual, auto, retried, timer, loose, epoch, link, lastClosed,
                     stopHello, welcomed, greeted, history>>
  BY DEF DogBites, bounds, retry, Dog
<1>2. <<"dog", e>> \in Threads
  BY ThreadNames, RoleNames
<1>3. ln' = [ln EXCEPT ![e] = "closed"] /\ OnlyMoves(<<"dog", e>>, "closing", e)
  BY <1>1, <1>2, TearsDownTo
<1> QED BY <1>1, <1>3, RoleMoves, RoleNames

LEMMA FailMarksDoes ==
  ASSUME TypeOK, NEW e \in Attempts, FailMarks(e)
  PROVE  /\ Fail[e] = "mark" /\ expected' = link
         /\ UNCHANGED <<status, manual, auto, retried, timer, loose, epoch, link, lastClosed,
                        stopHello, welcomed, greeted, history>>
         /\ UNCHANGED <<Worker, Rns, Closer, Dog, Hello, Answer, at[User], at[Timer], at[Announce]>>
         /\ \/ /\ link = None /\ ln' = ln
               /\ OnlyMoves(<<"fail", e>>, "clear", cut[<<"fail", e>>]) /\ Fail' = [Fail EXCEPT ![e] = "clear"]
            \/ /\ link \in Attempts /\ ln' = [ln EXCEPT ![link] = "closed"]
               /\ OnlyMoves(<<"fail", e>>, "closing", link) /\ Fail' = [Fail EXCEPT ![e] = "closing"]
            \/ /\ link \in Attempts /\ ln' = [ln EXCEPT ![link] = "closed"] /\ ln[link] = "closed"
               /\ OnlyMoves(<<"fail", e>>, "clear", link) /\ Fail' = [Fail EXCEPT ![e] = "clear"]
<1>1. /\ Fail[e] = "mark" /\ expected' = link
      /\ UNCHANGED <<status, manual, auto, retried, timer, loose, epoch, link, lastClosed,
                     stopHello, welcomed, greeted, history>>
  BY DEF FailMarks, bounds, retry, Fail
<1>2. <<"fail", e>> \in Threads
  BY ThreadNames, RoleNames
<1>3. CASE link = None
  <2>1. ln' = ln /\ cut' = cut /\ at' = [at EXCEPT ![<<"fail", e>>] = "clear"]
    BY <1>3 DEF FailMarks, Goes
  <2>2. OnlyMoves(<<"fail", e>>, "clear", cut[<<"fail", e>>])
    BY <1>2, <2>1 DEF OnlyMoves, TypeOK
  <2> QED BY <1>1, <1>3, <2>1, <2>2, RoleMoves, RoleNames
<1>4. CASE link # None
  <2>1. TearsDown(<<"fail", e>>, link) /\ link \in Attempts
    BY <1>4, AttemptNumbers DEF FailMarks, TypeOK
  <2>2. /\ ln' = [ln EXCEPT ![link] = "closed"]
        /\ \/ OnlyMoves(<<"fail", e>>, "closing", link)
           \/ ln[link] = "closed" /\ OnlyMoves(<<"fail", e>>, "clear", link)
    BY <1>2, <2>1, TearsDownTo, AfterOf
  <2>3. CASE OnlyMoves(<<"fail", e>>, "closing", link)
    BY <1>1, <2>1, <2>2, <2>3, RoleMoves, RoleNames
  <2>4. CASE ln[link] = "closed" /\ OnlyMoves(<<"fail", e>>, "clear", link)
    BY <1>1, <2>1, <2>2, <2>4, RoleMoves, RoleNames
  <2> QED BY <2>2, <2>3, <2>4
<1> QED BY <1>3, <1>4

\* What a move of any one thread is, role by role.
MovesTo(t, s) ==
  /\ \A e \in Attempts :
       /\ Worker'[e] = (IF t = <<"worker", e>> THEN s ELSE Worker[e]) /\ (t = <<"worker", e>> => Worker[e] = at[t])
       /\ Rns'[e] = (IF t = <<"rns", e>> THEN s ELSE Rns[e]) /\ (t = <<"rns", e>> => Rns[e] = at[t])
       /\ Closer'[e] = (IF t = <<"close", e>> THEN s ELSE Closer[e]) /\ (t = <<"close", e>> => Closer[e] = at[t])
       /\ Dog'[e] = (IF t = <<"dog", e>> THEN s ELSE Dog[e]) /\ (t = <<"dog", e>> => Dog[e] = at[t])
       /\ Hello'[e] = (IF t = <<"hello", e>> THEN s ELSE Hello[e]) /\ (t = <<"hello", e>> => Hello[e] = at[t])
       /\ Fail'[e] = (IF t = <<"fail", e>> THEN s ELSE Fail[e]) /\ (t = <<"fail", e>> => Fail[e] = at[t])
       /\ Answer'[e] = (IF t = <<"packet", e>> THEN s ELSE Answer[e]) /\ (t = <<"packet", e>> => Answer[e] = at[t])
  /\ at'[User] = IF t = User THEN s ELSE at[User]
  /\ at'[Timer] = IF t = Timer THEN s ELSE at[Timer]
  /\ at'[Announce] = IF t = Announce THEN s ELSE at[Announce]

LEMMA AnyMoves ==
  ASSUME TypeOK, NEW t \in Threads, NEW s, NEW c, OnlyMoves(t, s, c)
  PROVE  MovesTo(t, s)
<1>1. \A q \in Roles, e \in Attempts : at'[<<q, e>>] = IF t = <<q, e>> THEN s ELSE at[<<q, e>>]
  BY ThreadNames DEF OnlyMoves
<1>2. \A e \in Attempts : Worker'[e] = (IF t = <<"worker", e>> THEN s ELSE Worker[e]) /\ (t = <<"worker", e>> => Worker[e] = at[t])
  <2>1. \A e \in Attempts : at'[<<"worker", e>>] = IF t = <<"worker", e>> THEN s ELSE at[<<"worker", e>>]
    BY <1>1, RoleNames
  <2> QED BY <2>1 DEF Worker
<1>3. \A e \in Attempts : Rns'[e] = (IF t = <<"rns", e>> THEN s ELSE Rns[e]) /\ (t = <<"rns", e>> => Rns[e] = at[t])
  <2>1. \A e \in Attempts : at'[<<"rns", e>>] = IF t = <<"rns", e>> THEN s ELSE at[<<"rns", e>>]
    BY <1>1, RoleNames
  <2> QED BY <2>1 DEF Rns
<1>4. \A e \in Attempts : Closer'[e] = (IF t = <<"close", e>> THEN s ELSE Closer[e]) /\ (t = <<"close", e>> => Closer[e] = at[t])
  <2>1. \A e \in Attempts : at'[<<"close", e>>] = IF t = <<"close", e>> THEN s ELSE at[<<"close", e>>]
    BY <1>1, RoleNames
  <2> QED BY <2>1 DEF Closer
<1>5. \A e \in Attempts : Dog'[e] = (IF t = <<"dog", e>> THEN s ELSE Dog[e]) /\ (t = <<"dog", e>> => Dog[e] = at[t])
  <2>1. \A e \in Attempts : at'[<<"dog", e>>] = IF t = <<"dog", e>> THEN s ELSE at[<<"dog", e>>]
    BY <1>1, RoleNames
  <2> QED BY <2>1 DEF Dog
<1>6. \A e \in Attempts : Hello'[e] = (IF t = <<"hello", e>> THEN s ELSE Hello[e]) /\ (t = <<"hello", e>> => Hello[e] = at[t])
  <2>1. \A e \in Attempts : at'[<<"hello", e>>] = IF t = <<"hello", e>> THEN s ELSE at[<<"hello", e>>]
    BY <1>1, RoleNames
  <2> QED BY <2>1 DEF Hello
<1>7. \A e \in Attempts : Fail'[e] = (IF t = <<"fail", e>> THEN s ELSE Fail[e]) /\ (t = <<"fail", e>> => Fail[e] = at[t])
  <2>1. \A e \in Attempts : at'[<<"fail", e>>] = IF t = <<"fail", e>> THEN s ELSE at[<<"fail", e>>]
    BY <1>1, RoleNames
  <2> QED BY <2>1 DEF Fail
<1>8. \A e \in Attempts : Answer'[e] = (IF t = <<"packet", e>> THEN s ELSE Answer[e]) /\ (t = <<"packet", e>> => Answer[e] = at[t])
  <2>1. \A e \in Attempts : at'[<<"packet", e>>] = IF t = <<"packet", e>> THEN s ELSE at[<<"packet", e>>]
    BY <1>1, RoleNames
  <2> QED BY <2>1 DEF Answer
<1>9.  /\ at'[User] = IF t = User THEN s ELSE at[User]
       /\ at'[Timer] = IF t = Timer THEN s ELSE at[Timer]
       /\ at'[Announce] = IF t = Announce THEN s ELSE at[Announce]
  BY ThreadNames DEF OnlyMoves
<1> QED BY <1>2, <1>3, <1>4, <1>5, <1>6, <1>7, <1>8, <1>9 DEF MovesTo

\* The steps of a thread that closes a link or asks for a retry.
Midway == {"closing", "tailRetry", "tailPlain", "schedule", "maybe"}

\* The steps of the closed callback and of the retry move their thread alone, from one
\* step midway to another or out.
LEMMA ClosingDoes ==
  ASSUME TypeOK, NEW t \in Threads, Closing(t)
  PROVE  /\ at[t] \in Midway
         /\ UNCHANGED <<manual, auto, epoch, loose, ln, greeted>>
         /\ timer' = timer \/ timer' = "armed"
         /\ status' \in {status, "off"}
         /\ \E s \in Midway \cup {After(t), "idle"}, c \in {cut[t], None} :
              OnlyMoves(t, s, c) /\ MovesTo(t, s)
<1>1. CASE OnClosed(t)
  <2>1. /\ at[t] = "closing"
        /\ UNCHANGED <<bounds, retry, net, status>>
        /\ \/ OnlyMoves(t, After(t), IF After(t) = "idle" THEN None ELSE cut[t])
           \/ OnlyMoves(t, IF Retries(cut[t]) THEN "tailRetry" ELSE "tailPlain", cut[t])
    BY <1>1, OnClosedTo
  <2>2. PICK s \in Midway \cup {After(t), "idle"}, c \in {cut[t], None} : OnlyMoves(t, s, c)
    BY <2>1 DEF Midway
  <2>3. MovesTo(t, s)
    BY <2>2, AnyMoves
  <2> QED BY <2>1, <2>2, <2>3 DEF Midway, retry, net
<1>2. CASE OnClosedTail(t)
  <2>1. /\ at[t] \in {"tailRetry", "tailPlain"} /\ status' = "off"
        /\ GoesOn(t, IF at[t] = "tailRetry" THEN "schedule" ELSE After(t))
        /\ UNCHANGED <<manual, auto, epoch, loose, timer, ln, greeted>>
    BY <1>2 DEF OnClosedTail, retry, net
  <2>2. PICK s \in Midway \cup {After(t), "idle"} : GoesOn(t, s)
    BY <2>1 DEF Midway
  <2>3. OnlyMoves(t, s, IF s = "idle" THEN None ELSE cut[t])
    BY <2>2 DEF GoesOn, Goes, OnlyMoves, TypeOK
  <2>4. MovesTo(t, s)
    BY <2>3, AnyMoves
  <2> QED BY <2>1, <2>3, <2>4 DEF Midway
<1>3. CASE ScheduleReconnect(t)
  <2>1. /\ at[t] = "schedule" /\ status' = "off" /\ timer' = "armed"
        /\ GoesOn(t, IF cut[t] = None THEN "idle" ELSE After(t))
        /\ UNCHANGED <<manual, auto, epoch, loose, ln, greeted>>
    BY <1>3 DEF ScheduleReconnect, net
  <2>2. PICK s \in {After(t), "idle"} : GoesOn(t, s)
    BY <2>1
  <2>3. OnlyMoves(t, s, IF s = "idle" THEN None ELSE cut[t])
    BY <2>2 DEF GoesOn, Goes, OnlyMoves, TypeOK
  <2>4. MovesTo(t, s)
    BY <2>3, AnyMoves
  <2> QED BY <2>1, <2>3, <2>4 DEF Midway
<1>4. CASE MaybeSchedule(t)
  <2>1. /\ at[t] = "maybe"
        /\ Goes(t, IF manual \/ ~auto \/ link # None THEN "idle" ELSE "schedule")
        /\ UNCHANGED <<status, timer, manual, auto, epoch, loose, ln, greeted, cut>>
    BY <1>4 DEF MaybeSchedule, hub, retry, net
  <2>2. PICK s \in {"schedule", "idle"} : Goes(t, s)
    BY <2>1
  <2>3. OnlyMoves(t, s, cut[t])
    BY <2>1, <2>2 DEF Goes, OnlyMoves, TypeOK
  <2>4. MovesTo(t, s)
    BY <2>3, AnyMoves
  <2> QED BY <2>1, <2>3, <2>4 DEF Midway
<1> QED BY <1>1, <1>2, <1>3, <1>4 DEF Closing

--------------------------------------------------------------------------------
(* The session: links, workers and the threads that know them *)

\* An attempt makes its link, its worker hands it over or gives it up, and only then
\* does anybody else know it.  These facts need none of those further down.

LEMMA ViewTypes ==
  ASSUME TypeOK
  PROVE  /\ Worker \in [Attempts -> Steps] /\ Rns \in [Attempts -> Steps] /\ Closer \in [Attempts -> Steps]
         /\ Dog \in [Attempts -> Steps] /\ Hello \in [Attempts -> Steps] /\ Fail \in [Attempts -> Steps]
         /\ Answer \in [Attempts -> Steps]
         /\ ln \in [Attempts -> {"none", "pending", "active", "closed"}]
         /\ epoch \in 0 .. MaxConnects /\ link \in 0 .. MaxConnects /\ lastClosed \in 0 .. MaxConnects
         /\ expected \in 0 .. MaxConnects
         /\ greeted \subseteq Attempts /\ cut \in [Threads -> 0 .. MaxConnects]
  BY ThreadNames, RoleNames DEF TypeOK, Worker, Rns, Closer, Dog, Hello, Fail, Answer

\* A step that changes nothing changes no view.
LEMMA SameViews ==
  ASSUME UNCHANGED at
  PROVE  UNCHANGED <<Worker, Rns, Closer, Dog, Hello, Fail, Answer>>
  BY DEF Worker, Rns, Closer, Dog, Hello, Fail, Answer

\* The link of attempt e was made, and handed over or given up by its worker.
Started(e) == ln[e] # "none" /\ Worker[e] # "built"

\* What a worker's step says of the link of its attempt.
Workers ==
  \A e \in Attempts :
    /\ e > epoch => ln[e] = "none" /\ Worker[e] = "idle"
    /\ Worker[e] \in {"waiting", "checked"} => ln[e] = "none"
    /\ Worker[e] = "built" => ln[e] = "pending"

\* The session knows no link but one that started; a timer or a user is no worker.
LinksKnown ==
  \A e \in Attempts : link = e \/ lastClosed = e \/ e \in greeted => Started(e)

\* A thread of an attempt has something to do only once there is a link.
RolesKnown ==
  \A e \in Attempts :
    /\ Answer[e] # "idle" \/ Dog[e] # "idle" => Started(e)
    /\ Rns[e] # "idle" \/ Hello[e] # "idle" \/ Fail[e] # "idle" => Started(e) /\ ln[e] # "pending"
    /\ Closer[e] # "idle" => ln[e] = "closed"
    /\ Rns[e] = "established" => Hello[e] = "idle" /\ Fail[e] = "idle"
    /\ Hello[e] # "idle" => Fail[e] = "idle"

\* A thread closes no link but one that started.
CutsKnown == \A t \in Threads : cut[t] # None => Started(cut[t])

\* A link only goes on, from none to pending or active, and to closed.
Advance ==
  \A e \in Attempts :
    /\ Started(e) => Started(e)'
    /\ Started(e) /\ ln[e] # "pending" => ln'[e] # "pending"
    /\ ln[e] = "closed" => ln'[e] = "closed"

\* Links and workers go on together.
LEMMA WorkersStep ==
  ASSUME TypeOK, Workers, LinksKnown, RolesKnown, [Next]_vars
  PROVE  Workers' /\ Advance
<1>0. /\ Worker \in [Attempts -> Steps] /\ ln \in [Attempts -> {"none", "pending", "active", "closed"}]
      /\ epoch \in Nat /\ \A e \in Attempts : e \in Nat /\ e # None
  BY ViewTypes, AttemptNumbers
<1> USE <1>0 DEF Workers, Started, Advance
<1>1. CASE UserConnect
  <2>1. /\ epoch' = epoch + 1 /\ epoch + 1 \in Attempts /\ ln' = ln
        /\ Worker' = [Worker EXCEPT ![epoch + 1] = "waiting"]
    BY <1>1, UserConnectDoes
  <2> QED BY <2>1
<1>2. CASE Disconnect
  <2>1. epoch' = epoch /\ Worker' = Worker /\ (ln' = ln \/ (link \in Attempts /\ ln' = [ln EXCEPT ![link] = "closed"]))
    BY <1>2, DisconnectDoes
  <2> QED BY <2>1 DEF LinksKnown
<1>3. CASE Disconnected
  BY <1>3, DisconnectedDoes
<1>4. CASE SetAutoReconnect
  BY <1>4, SetAutoReconnectDoes
<1>5. CASE TimerFires
  BY <1>5, TimerFiresDoes
<1>6. CASE FireReconnect
  BY <1>6, FireReconnectDoes
<1>7. CASE TimerConnect
  <2>1. /\ ln' = ln
        /\ \/ epoch' = epoch /\ Worker' = Worker
           \/ /\ epoch' = epoch + 1 /\ epoch + 1 \in Attempts
              /\ Worker' = [Worker EXCEPT ![epoch + 1] = "waiting"]
    BY <1>7, TimerConnectDoes
  <2> QED BY <2>1
<1>8. CASE NoteAnnounce
  BY <1>8, NoteAnnounceDoes
<1>9. ASSUME NEW e \in Attempts, WorkerCancelled(e) PROVE Workers' /\ Advance
  <2>1. epoch' = epoch /\ ln' = ln /\ Worker[e] = "waiting" /\ Worker' = [Worker EXCEPT ![e] = "idle"]
    BY <1>9, WorkerCancelledDoes
  <2> QED BY <2>1
<1>10. ASSUME NEW e \in Attempts, WorkerFails(e) PROVE Workers' /\ Advance
  <2>1. epoch' = epoch /\ ln' = ln /\ Worker[e] = "waiting" /\ Worker' = [Worker EXCEPT ![e] = "maybe"]
    BY <1>10, WorkerFailsDoes
  <2> QED BY <2>1
<1>11. ASSUME NEW e \in Attempts, WorkerChecks(e) PROVE Workers' /\ Advance
  <2>1. /\ epoch' = epoch /\ ln' = ln /\ Worker[e] = "waiting"
        /\ Worker' = [Worker EXCEPT ![e] = "checked"]
    BY <1>11, WorkerChecksDoes
  <2> QED BY <2>1
<1>12. ASSUME NEW e \in Attempts, WorkerBuilds(e) PROVE Workers' /\ Advance
  <2>1. /\ epoch' = epoch /\ ln' = [ln EXCEPT ![e] = "pending"] /\ Worker[e] = "checked"
        /\ Worker' = [Worker EXCEPT ![e] = "built"]
    BY <1>12, WorkerBuildsDoes
  <2> QED BY <2>1
<1>13. ASSUME NEW e \in Attempts, WorkerOvertaken(e) PROVE Workers' /\ Advance
  <2>1. /\ epoch' = epoch /\ ln' = [ln EXCEPT ![e] = "closed"] /\ Worker[e] = "built"
        /\ Worker' = [Worker EXCEPT ![e] = "closing"]
    BY <1>13, WorkerOvertakenDoes
  <2> QED BY <2>1
<1>14. ASSUME NEW e \in Attempts, WorkerRegisters(e) PROVE Workers' /\ Advance
  <2>1. epoch' = epoch /\ ln' = ln /\ Worker[e] = "built" /\ Worker' = [Worker EXCEPT ![e] = "idle"]
    BY <1>14, WorkerRegistersDoes
  <2> QED BY <2>1
<1>15. ASSUME NEW e \in Attempts, WorkerLoopback(e) PROVE Workers' /\ Advance
  <2>1. /\ epoch' = epoch /\ ln' = [ln EXCEPT ![e] = "active"] /\ Worker[e] = "waiting"
        /\ Worker' = [Worker EXCEPT ![e] = "idle"]
    BY <1>15, WorkerLoopbackDoes
  <2> QED BY <2>1
<1>16. ASSUME NEW e \in Attempts, Establish(e) PROVE Workers' /\ Advance
  <2>1. /\ epoch' = epoch /\ ln[e] = "pending" /\ ln' = [ln EXCEPT ![e] = "active"]
        /\ Worker[e] = "idle" /\ Worker' = Worker
    BY <1>16, EstablishDoes
  <2> QED BY <2>1
<1>17. ASSUME NEW e \in Attempts, OnEstablished(e) PROVE Workers' /\ Advance
  <2>1. epoch' = epoch /\ ln' = ln /\ Worker' = Worker
    BY <1>17, OnEstablishedDoes
  <2> QED BY <2>1
<1>18. ASSUME NEW e \in Attempts, IdentifyFails(e) PROVE Workers' /\ Advance
  <2>1. /\ epoch' = epoch /\ ln' = [ln EXCEPT ![e] = "closed"] /\ Rns[e] = "established"
        /\ Worker' = Worker
    BY <1>18, IdentifyFailsDoes
  <2>2. Started(e)
    BY <2>1 DEF RolesKnown
  <2> QED BY <2>1, <2>2
<1>19. ASSUME NEW e \in Attempts, LinkCloses(e) PROVE Workers' /\ Advance
  <2>1. /\ epoch' = epoch /\ Open(e) /\ ln' = [ln EXCEPT ![e] = "closed"]
        /\ Worker[e] = "idle" /\ Worker' = Worker
    BY <1>19, LinkClosesDoes
  <2> QED BY <2>1 DEF Open
<1>20. ASSUME NEW e \in Attempts, DogRests(e) PROVE Workers' /\ Advance
  <2>1. epoch' = epoch /\ ln' = ln /\ Worker' = Worker
    BY <1>20, DogRestsDoes
  <2> QED BY <2>1
<1>21. ASSUME NEW e \in Attempts, DogBites(e) PROVE Workers' /\ Advance
  <2>1. epoch' = epoch /\ ln' = [ln EXCEPT ![e] = "closed"] /\ link = e /\ Worker' = Worker
    BY <1>21, DogBitesDoes
  <2>2. Started(e)
    BY <2>1 DEF LinksKnown
  <2> QED BY <2>1, <2>2
<1>22. ASSUME NEW e \in Attempts, DogFails(e) PROVE Workers' /\ Advance
  <2>1. epoch' = epoch /\ ln' = ln /\ Worker' = Worker
    BY <1>22, DogFailsDoes
  <2> QED BY <2>1
<1>23. ASSUME NEW e \in Attempts, HelloStops(e) PROVE Workers' /\ Advance
  <2>1. epoch' = epoch /\ ln' = ln /\ Worker' = Worker
    BY <1>23, HelloStopsDoes
  <2> QED BY <2>1
<1>24. ASSUME NEW e \in Attempts, HelloSends(e) PROVE Workers' /\ Advance
  <2>1. epoch' = epoch /\ ln' = ln /\ Worker' = Worker
    BY <1>24, HelloSendsDoes
  <2> QED BY <2>1
<1>25. ASSUME NEW e \in Attempts, HelloLost(e) PROVE Workers' /\ Advance
  <2>1. epoch' = epoch /\ ln' = ln /\ Worker' = Worker
    BY <1>25, HelloLostDoes
  <2> QED BY <2>1
<1>26. ASSUME NEW e \in Attempts, WelcomeTimeout(e) PROVE Workers' /\ Advance
  <2>1. epoch' = epoch /\ ln' = ln /\ Worker' = Worker
    BY <1>26, WelcomeTimeoutDoes
  <2> QED BY <2>1
<1>27. ASSUME NEW e \in Attempts, FailMarks(e) PROVE Workers' /\ Advance
  <2>1. epoch' = epoch /\ Worker' = Worker /\ (ln' = ln \/ (link \in Attempts /\ ln' = [ln EXCEPT ![link] = "closed"]))
    BY <1>27, FailMarksDoes
  <2> QED BY <2>1 DEF LinksKnown
<1>28. ASSUME NEW e \in Attempts, FailClears(e) PROVE Workers' /\ Advance
  <2>1. epoch' = epoch /\ ln' = ln /\ Worker' = Worker
    BY <1>28, FailClearsDoes
  <2> QED BY <2>1
<1>29. ASSUME NEW e \in Attempts, WelcomeArrives(e) PROVE Workers' /\ Advance
  <2>1. epoch' = epoch /\ ln' = ln /\ Worker' = Worker
    BY <1>29, WelcomeArrivesDoes
  <2> QED BY <2>1
<1>30. ASSUME NEW e \in Attempts, Welcome(e) PROVE Workers' /\ Advance
  <2>1. epoch' = epoch /\ ln' = ln /\ Worker' = Worker
    BY <1>30, WelcomeDoes
  <2> QED BY <2>1
<1>31. ASSUME NEW e \in Attempts, Connected(e) PROVE Workers' /\ Advance
  <2>1. epoch' = epoch /\ ln' = ln /\ Worker' = Worker
    BY <1>31, ConnectedDoes
  <2> QED BY <2>1
<1>32. ASSUME NEW t \in Threads, Closing(t) PROVE Workers' /\ Advance
  <2>1. /\ UNCHANGED <<epoch, ln>> /\ at[t] \in Midway
        /\ \E s \in Midway \cup {After(t), "idle"} : MovesTo(t, s)
    BY <1>32, ClosingDoes
  <2>2. PICK s \in Midway \cup {After(t), "idle"} : MovesTo(t, s)
    BY <2>1
  <2>3. s \in Midway \cup {"idle", "clear", "failed", "off"}
    BY AfterIsStep
  <2>4. \A e \in Attempts : Worker'[e] = Worker[e] \/ (Worker[e] \in Midway /\ Worker'[e] \in Midway \cup {"idle", "clear", "failed", "off"})
    BY <2>1, <2>2, <2>3 DEF MovesTo
  <2> QED BY <2>1, <2>4 DEF Midway
<1>33. CASE UNCHANGED vars
  BY <1>33, SameViews DEF vars, hub, bounds, retry, session, net
<1> QED
  BY <1>1, <1>2, <1>3, <1>4, <1>5, <1>6, <1>7, <1>8, <1>9, <1>10, <1>11, <1>12, <1>13, <1>14,
       <1>15, <1>16, <1>17, <1>18, <1>19, <1>20, <1>21, <1>22, <1>23, <1>24, <1>25, <1>26, <1>27,
       <1>28, <1>29, <1>30, <1>31, <1>32, <1>33 DEF Next, Attempt

LEMMA LinksKnownStep ==
  ASSUME TypeOK, Workers, LinksKnown, CutsKnown, Advance, [Next]_vars
  PROVE  LinksKnown'
<1>0. /\ Worker \in [Attempts -> Steps] /\ ln \in [Attempts -> {"none", "pending", "active", "closed"}]
      /\ None \notin Attempts /\ \A t \in Threads : cut[t] \in Attempts \cup {None}
  BY ViewTypes, AttemptNumbers
<1> USE <1>0 DEF LinksKnown, Advance
<1>1. CASE UserConnect
  <2>1. link' \in {link, None} /\ lastClosed' = lastClosed /\ greeted' \subseteq greeted
    BY <1>1, UserConnectDoes
  <2> QED BY <2>1
<1>2. CASE Disconnect
  <2>1. link' \in {link, None} /\ lastClosed' = lastClosed /\ greeted' \subseteq greeted
    BY <1>2, DisconnectDoes
  <2> QED BY <2>1
<1>3. CASE Disconnected
  <2>1. link' \in {link, None} /\ lastClosed' = lastClosed /\ greeted' \subseteq greeted
    BY <1>3, DisconnectedDoes
  <2> QED BY <2>1
<1>4. CASE SetAutoReconnect
  <2>1. link' \in {link, None} /\ lastClosed' = lastClosed /\ greeted' \subseteq greeted
    BY <1>4, SetAutoReconnectDoes
  <2> QED BY <2>1
<1>5. CASE TimerFires
  <2>1. link' \in {link, None} /\ lastClosed' = lastClosed /\ greeted' \subseteq greeted
    BY <1>5, TimerFiresDoes
  <2> QED BY <2>1
<1>6. CASE FireReconnect
  <2>1. link' \in {link, None} /\ lastClosed' = lastClosed /\ greeted' \subseteq greeted
    BY <1>6, FireReconnectDoes
  <2> QED BY <2>1
<1>7. CASE TimerConnect
  <2>1. link' \in {link, None} /\ lastClosed' = lastClosed /\ greeted' \subseteq greeted
    BY <1>7, TimerConnectDoes
  <2> QED BY <2>1
<1>8. CASE NoteAnnounce
  <2>1. link' \in {link, None} /\ lastClosed' = lastClosed /\ greeted' \subseteq greeted
    BY <1>8, NoteAnnounceDoes
  <2> QED BY <2>1
<1>9. ASSUME NEW e \in Attempts, WorkerCancelled(e) PROVE LinksKnown'
  <2>1. link' \in {link, None} /\ lastClosed' = lastClosed /\ greeted' \subseteq greeted
    BY <1>9, WorkerCancelledDoes
  <2> QED BY <2>1
<1>10. ASSUME NEW e \in Attempts, WorkerFails(e) PROVE LinksKnown'
  <2>1. link' \in {link, None} /\ lastClosed' = lastClosed /\ greeted' \subseteq greeted
    BY <1>10, WorkerFailsDoes
  <2> QED BY <2>1
<1>11. ASSUME NEW e \in Attempts, WorkerChecks(e) PROVE LinksKnown'
  <2>1. link' \in {link, None} /\ lastClosed' = lastClosed /\ greeted' \subseteq greeted
    BY <1>11, WorkerChecksDoes
  <2> QED BY <2>1
<1>12. ASSUME NEW e \in Attempts, WorkerBuilds(e) PROVE LinksKnown'
  <2>1. link' \in {link, None} /\ lastClosed' = lastClosed /\ greeted' \subseteq greeted
    BY <1>12, WorkerBuildsDoes
  <2> QED BY <2>1
<1>13. ASSUME NEW e \in Attempts, WorkerOvertaken(e) PROVE LinksKnown'
  <2>1. link' \in {link, None} /\ lastClosed' = lastClosed /\ greeted' \subseteq greeted
    BY <1>13, WorkerOvertakenDoes
  <2> QED BY <2>1
<1>14. ASSUME NEW e \in Attempts, WorkerRegisters(e) PROVE LinksKnown'
  <2>1. /\ link' = e /\ lastClosed' = lastClosed /\ greeted' = greeted
        /\ ln' = ln /\ Worker[e] = "built" /\ Worker' = [Worker EXCEPT ![e] = "idle"]
    BY <1>14, WorkerRegistersDoes
  <2> QED BY <2>1 DEF Started, Workers
<1>15. ASSUME NEW e \in Attempts, WorkerLoopback(e) PROVE LinksKnown'
  <2>1. /\ link' = e /\ lastClosed' = lastClosed /\ greeted' = greeted
        /\ ln' = [ln EXCEPT ![e] = "active"] /\ Worker' = [Worker EXCEPT ![e] = "idle"]
    BY <1>15, WorkerLoopbackDoes
  <2> QED BY <2>1 DEF Started, Workers
<1>16. ASSUME NEW e \in Attempts, Establish(e) PROVE LinksKnown'
  <2>1. link' \in {link, None} /\ lastClosed' = lastClosed /\ greeted' \subseteq greeted
    BY <1>16, EstablishDoes
  <2> QED BY <2>1
<1>17. ASSUME NEW e \in Attempts, OnEstablished(e) PROVE LinksKnown'
  <2>1. link' \in {link, None} /\ lastClosed' = lastClosed /\ greeted' \subseteq greeted
    BY <1>17, OnEstablishedDoes
  <2> QED BY <2>1
<1>18. ASSUME NEW e \in Attempts, IdentifyFails(e) PROVE LinksKnown'
  <2>1. link' \in {link, None} /\ lastClosed' = lastClosed /\ greeted' \subseteq greeted
    BY <1>18, IdentifyFailsDoes
  <2> QED BY <2>1
<1>19. ASSUME NEW e \in Attempts, LinkCloses(e) PROVE LinksKnown'
  <2>1. link' \in {link, None} /\ lastClosed' = lastClosed /\ greeted' \subseteq greeted
    BY <1>19, LinkClosesDoes
  <2> QED BY <2>1
<1>20. ASSUME NEW e \in Attempts, DogRests(e) PROVE LinksKnown'
  <2>1. link' \in {link, None} /\ lastClosed' = lastClosed /\ greeted' \subseteq greeted
    BY <1>20, DogRestsDoes
  <2> QED BY <2>1
<1>21. ASSUME NEW e \in Attempts, DogBites(e) PROVE LinksKnown'
  <2>1. link' \in {link, None} /\ lastClosed' = lastClosed /\ greeted' \subseteq greeted
    BY <1>21, DogBitesDoes
  <2> QED BY <2>1
<1>22. ASSUME NEW e \in Attempts, DogFails(e) PROVE LinksKnown'
  <2>1. link' \in {link, None} /\ lastClosed' = lastClosed /\ greeted' \subseteq greeted
    BY <1>22, DogFailsDoes
  <2> QED BY <2>1
<1>23. ASSUME NEW e \in Attempts, HelloStops(e) PROVE LinksKnown'
  <2>1. link' \in {link, None} /\ lastClosed' = lastClosed /\ greeted' \subseteq greeted
    BY <1>23, HelloStopsDoes
  <2> QED BY <2>1
<1>24. ASSUME NEW e \in Attempts, HelloSends(e) PROVE LinksKnown'
  <2>1. link' = link /\ lastClosed' = lastClosed /\ greeted' = greeted \cup {link}
    BY <1>24, HelloSendsDoes
  <2> QED BY <2>1
<1>25. ASSUME NEW e \in Attempts, HelloLost(e) PROVE LinksKnown'
  <2>1. link' \in {link, None} /\ lastClosed' = lastClosed /\ greeted' \subseteq greeted
    BY <1>25, HelloLostDoes
  <2> QED BY <2>1
<1>26. ASSUME NEW e \in Attempts, WelcomeTimeout(e) PROVE LinksKnown'
  <2>1. link' \in {link, None} /\ lastClosed' = lastClosed /\ greeted' \subseteq greeted
    BY <1>26, WelcomeTimeoutDoes
  <2> QED BY <2>1
<1>27. ASSUME NEW e \in Attempts, FailMarks(e) PROVE LinksKnown'
  <2>1. link' \in {link, None} /\ lastClosed' = lastClosed /\ greeted' \subseteq greeted
    BY <1>27, FailMarksDoes
  <2> QED BY <2>1
<1>28. ASSUME NEW e \in Attempts, FailClears(e) PROVE LinksKnown'
  <2>1. link' \in {link, None} /\ lastClosed' = lastClosed /\ greeted' \subseteq greeted
    BY <1>28, FailClearsDoes
  <2> QED BY <2>1
<1>29. ASSUME NEW e \in Attempts, WelcomeArrives(e) PROVE LinksKnown'
  <2>1. link' \in {link, None} /\ lastClosed' = lastClosed /\ greeted' \subseteq greeted
    BY <1>29, WelcomeArrivesDoes
  <2> QED BY <2>1
<1>30. ASSUME NEW e \in Attempts, Welcome(e) PROVE LinksKnown'
  <2>1. link' \in {link, None} /\ lastClosed' = lastClosed /\ greeted' \subseteq greeted
    BY <1>30, WelcomeDoes
  <2> QED BY <2>1
<1>31. ASSUME NEW e \in Attempts, Connected(e) PROVE LinksKnown'
  <2>1. link' \in {link, None} /\ lastClosed' = lastClosed /\ greeted' \subseteq greeted
    BY <1>31, ConnectedDoes
  <2> QED BY <2>1
<1>32. ASSUME NEW t \in Threads, OnClosed(t) PROVE LinksKnown'
  <2>1. link' \in {link, None} /\ lastClosed' \in {lastClosed, cut[t]} /\ greeted' = greeted
    BY <1>32, OnClosedTo DEF net
  <2> QED BY <2>1 DEF CutsKnown
<1>33. ASSUME NEW t \in Threads, OnClosedTail(t) PROVE LinksKnown'
  <2>1. link' = link /\ lastClosed' = lastClosed /\ greeted' = greeted
    BY <1>33 DEF OnClosedTail, hub, session, net
  <2> QED BY <2>1
<1>34. ASSUME NEW t \in Threads, ScheduleReconnect(t) PROVE LinksKnown'
  <2>1. link' = link /\ lastClosed' = lastClosed /\ greeted' = greeted
    BY <1>34 DEF ScheduleReconnect, hub, session, net
  <2> QED BY <2>1
<1>35. ASSUME NEW t \in Threads, MaybeSchedule(t) PROVE LinksKnown'
  <2>1. link' = link /\ lastClosed' = lastClosed /\ greeted' = greeted
    BY <1>35 DEF MaybeSchedule, hub, session, net
  <2> QED BY <2>1
<1>36. CASE UNCHANGED vars
  <2>1. link' = link /\ lastClosed' = lastClosed /\ greeted' = greeted
    BY <1>36 DEF vars, hub, session
  <2> QED BY <2>1
<1> QED
  BY <1>1, <1>2, <1>3, <1>4, <1>5, <1>6, <1>7, <1>8, <1>9, <1>10, <1>11, <1>12, <1>13, <1>14,
       <1>15, <1>16, <1>17, <1>18, <1>19, <1>20, <1>21, <1>22, <1>23, <1>24, <1>25, <1>26, <1>27,
       <1>28, <1>29, <1>30, <1>31, <1>32, <1>33, <1>34, <1>35, <1>36 DEF Next, Attempt, Closing

LEMMA CutsKnownStep ==
  ASSUME TypeOK, Workers, LinksKnown, RolesKnown, CutsKnown, Advance, [Next]_vars
  PROVE  CutsKnown'
<1>0. /\ Worker \in [Attempts -> Steps] /\ ln \in [Attempts -> {"none", "pending", "active", "closed"}]
      /\ None \notin Attempts /\ \A t \in Threads : cut[t] \in Attempts \cup {None}
      /\ link \in Attempts \cup {None}
  BY ViewTypes, AttemptNumbers
<1> USE <1>0 DEF CutsKnown, Advance
<1>1. CASE UserConnect
  <2>1. \A u \in Threads : cut'[u] \in {cut[u], None}
    BY <1>1, UserConnectDoes DEF OnlyMoves, BothMove
  <2> QED BY <2>1
<1>2. CASE Disconnect
  <2>1. \A u \in Threads : cut'[u] \in {cut[u], None, link}
    BY <1>2, DisconnectDoes DEF OnlyMoves
  <2> QED BY <2>1 DEF LinksKnown
<1>3. CASE Disconnected
  <2>1. \A u \in Threads : cut'[u] \in {cut[u], None}
    BY <1>3, DisconnectedDoes DEF OnlyMoves, BothMove
  <2> QED BY <2>1
<1>4. CASE SetAutoReconnect
  <2>1. \A u \in Threads : cut'[u] \in {cut[u], None}
    BY <1>4, SetAutoReconnectDoes DEF OnlyMoves, BothMove
  <2> QED BY <2>1
<1>5. CASE TimerFires
  <2>1. \A u \in Threads : cut'[u] \in {cut[u], None}
    BY <1>5, TimerFiresDoes DEF OnlyMoves, BothMove
  <2> QED BY <2>1
<1>6. CASE FireReconnect
  <2>1. \A u \in Threads : cut'[u] \in {cut[u], None}
    BY <1>6, FireReconnectDoes DEF OnlyMoves, BothMove
  <2> QED BY <2>1
<1>7. CASE TimerConnect
  <2>1. \A u \in Threads : cut'[u] \in {cut[u], None}
    BY <1>7, TimerConnectDoes DEF OnlyMoves, BothMove
  <2> QED BY <2>1
<1>8. CASE NoteAnnounce
  <2>1. \A u \in Threads : cut'[u] \in {cut[u], None}
    BY <1>8, NoteAnnounceDoes DEF OnlyMoves, BothMove
  <2> QED BY <2>1
<1>9. ASSUME NEW e \in Attempts, WorkerCancelled(e) PROVE CutsKnown'
  <2>1. \A u \in Threads : cut'[u] \in {cut[u], None}
    BY <1>9, WorkerCancelledDoes DEF OnlyMoves, BothMove
  <2> QED BY <2>1
<1>10. ASSUME NEW e \in Attempts, WorkerFails(e) PROVE CutsKnown'
  <2>1. \A u \in Threads : cut'[u] \in {cut[u], None}
    BY <1>10, WorkerFailsDoes DEF OnlyMoves, BothMove
  <2> QED BY <2>1
<1>11. ASSUME NEW e \in Attempts, WorkerChecks(e) PROVE CutsKnown'
  <2>1. \A u \in Threads : cut'[u] \in {cut[u], None}
    BY <1>11, WorkerChecksDoes DEF OnlyMoves, BothMove
  <2> QED BY <2>1
<1>12. ASSUME NEW e \in Attempts, WorkerBuilds(e) PROVE CutsKnown'
  <2>1. \A u \in Threads : cut'[u] \in {cut[u], None}
    BY <1>12, WorkerBuildsDoes DEF OnlyMoves, BothMove
  <2> QED BY <2>1
<1>13. ASSUME NEW e \in Attempts, WorkerOvertaken(e) PROVE CutsKnown'
  <2>1. ln' = [ln EXCEPT ![e] = "closed"] /\ Worker' = [Worker EXCEPT ![e] = "closing"]
    BY <1>13, WorkerOvertakenDoes
  <2>2. OnlyMoves(<<"worker", e>>, "closing", e)
    BY <1>13, WorkerOvertakenDoes
  <2>3. \A u \in Threads : cut'[u] \in {cut[u], None, e}
    BY <2>2 DEF OnlyMoves
  <2> QED BY <2>1, <2>3 DEF Started
<1>14. ASSUME NEW e \in Attempts, WorkerRegisters(e) PROVE CutsKnown'
  <2>1. \A u \in Threads : cut'[u] \in {cut[u], None}
    BY <1>14, WorkerRegistersDoes DEF OnlyMoves, BothMove
  <2> QED BY <2>1
<1>15. ASSUME NEW e \in Attempts, WorkerLoopback(e) PROVE CutsKnown'
  <2>1. \A u \in Threads : cut'[u] \in {cut[u], None}
    BY <1>15, WorkerLoopbackDoes DEF OnlyMoves, BothMove
  <2> QED BY <2>1
<1>16. ASSUME NEW e \in Attempts, Establish(e) PROVE CutsKnown'
  <2>1. \A u \in Threads : cut'[u] \in {cut[u], None}
    BY <1>16, EstablishDoes DEF OnlyMoves, BothMove
  <2> QED BY <2>1
<1>17. ASSUME NEW e \in Attempts, OnEstablished(e) PROVE CutsKnown'
  <2>1. \A u \in Threads : cut'[u] \in {cut[u], None}
    BY <1>17, OnEstablishedDoes DEF OnlyMoves, BothMove
  <2> QED BY <2>1
<1>18. ASSUME NEW e \in Attempts, IdentifyFails(e) PROVE CutsKnown'
  <2>1. Rns[e] = "established"
    BY <1>18, IdentifyFailsDoes
  <2>2. OnlyMoves(<<"rns", e>>, "closing", e) \/ OnlyMoves(<<"rns", e>>, "idle", None)
    BY <1>18, IdentifyFailsDoes
  <2>3. \A u \in Threads : cut'[u] \in {cut[u], None, e}
    BY <2>2 DEF OnlyMoves
  <2> QED BY <2>1, <2>3 DEF RolesKnown
<1>19. ASSUME NEW e \in Attempts, LinkCloses(e) PROVE CutsKnown'
  <2>1. Open(e) /\ Worker[e] = "idle"
    BY <1>19, LinkClosesDoes
  <2>2. OnlyMoves(<<"close", e>>, "closing", e)
    BY <1>19, LinkClosesDoes
  <2>3. \A u \in Threads : cut'[u] \in {cut[u], None, e}
    BY <2>2 DEF OnlyMoves
  <2> QED BY <2>1, <2>3 DEF Started, Open
<1>20. ASSUME NEW e \in Attempts, DogRests(e) PROVE CutsKnown'
  <2>1. \A u \in Threads : cut'[u] \in {cut[u], None}
    BY <1>20, DogRestsDoes DEF OnlyMoves, BothMove
  <2> QED BY <2>1
<1>21. ASSUME NEW e \in Attempts, DogBites(e) PROVE CutsKnown'
  <2>1. link = e
    BY <1>21, DogBitesDoes
  <2>2. OnlyMoves(<<"dog", e>>, "closing", e)
    BY <1>21, DogBitesDoes
  <2>3. \A u \in Threads : cut'[u] \in {cut[u], None, e}
    BY <2>2 DEF OnlyMoves
  <2> QED BY <2>1, <2>3 DEF LinksKnown
<1>22. ASSUME NEW e \in Attempts, DogFails(e) PROVE CutsKnown'
  <2>1. \A u \in Threads : cut'[u] \in {cut[u], None}
    BY <1>22, DogFailsDoes DEF OnlyMoves, BothMove
  <2> QED BY <2>1
<1>23. ASSUME NEW e \in Attempts, HelloStops(e) PROVE CutsKnown'
  <2>1. \A u \in Threads : cut'[u] \in {cut[u], None}
    BY <1>23, HelloStopsDoes DEF OnlyMoves, BothMove
  <2> QED BY <2>1
<1>24. ASSUME NEW e \in Attempts, HelloSends(e) PROVE CutsKnown'
  <2>1. \A u \in Threads : cut'[u] \in {cut[u], None}
    BY <1>24, HelloSendsDoes DEF OnlyMoves, BothMove
  <2> QED BY <2>1
<1>25. ASSUME NEW e \in Attempts, HelloLost(e) PROVE CutsKnown'
  <2>1. \A u \in Threads : cut'[u] \in {cut[u], None, link}
    BY <1>25, HelloLostDoes DEF OnlyMoves
  <2> QED BY <2>1 DEF LinksKnown
<1>26. ASSUME NEW e \in Attempts, WelcomeTimeout(e) PROVE CutsKnown'
  <2>1. \A u \in Threads : cut'[u] \in {cut[u], None}
    BY <1>26, WelcomeTimeoutDoes DEF OnlyMoves, BothMove
  <2> QED BY <2>1
<1>27. ASSUME NEW e \in Attempts, FailMarks(e) PROVE CutsKnown'
  <2>1. \A u \in Threads : cut'[u] \in {cut[u], None, link}
    BY <1>27, FailMarksDoes DEF OnlyMoves
  <2> QED BY <2>1 DEF LinksKnown
<1>28. ASSUME NEW e \in Attempts, FailClears(e) PROVE CutsKnown'
  <2>1. \A u \in Threads : cut'[u] \in {cut[u], None}
    BY <1>28, FailClearsDoes DEF OnlyMoves, BothMove
  <2> QED BY <2>1
<1>29. ASSUME NEW e \in Attempts, WelcomeArrives(e) PROVE CutsKnown'
  <2>1. \A u \in Threads : cut'[u] \in {cut[u], None}
    BY <1>29, WelcomeArrivesDoes DEF OnlyMoves, BothMove
  <2> QED BY <2>1
<1>30. ASSUME NEW e \in Attempts, Welcome(e) PROVE CutsKnown'
  <2>1. \A u \in Threads : cut'[u] \in {cut[u], None}
    BY <1>30, WelcomeDoes DEF OnlyMoves, BothMove
  <2> QED BY <2>1
<1>31. ASSUME NEW e \in Attempts, Connected(e) PROVE CutsKnown'
  <2>1. \A u \in Threads : cut'[u] \in {cut[u], None}
    BY <1>31, ConnectedDoes DEF OnlyMoves, BothMove
  <2> QED BY <2>1
<1>32. ASSUME NEW t \in Threads, Closing(t) PROVE CutsKnown'
  <2>1. \A u \in Threads : cut'[u] \in {cut[u], None}
    BY <1>32, ClosingDoes DEF OnlyMoves
  <2> QED BY <2>1
<1>33. CASE UNCHANGED vars
  <2>1. \A u \in Threads : cut'[u] = cut[u]
    BY <1>33 DEF vars
  <2> QED BY <2>1
<1> QED
  BY <1>1, <1>2, <1>3, <1>4, <1>5, <1>6, <1>7, <1>8, <1>9, <1>10, <1>11, <1>12, <1>13, <1>14,
       <1>15, <1>16, <1>17, <1>18, <1>19, <1>20, <1>21, <1>22, <1>23, <1>24, <1>25, <1>26, <1>27,
       <1>28, <1>29, <1>30, <1>31, <1>32, <1>33 DEF Next, Attempt

LEMMA RolesKnownStep ==
  ASSUME TypeOK, Workers, LinksKnown, RolesKnown, Advance, [Next]_vars
  PROVE  RolesKnown'
<1>0. /\ Worker \in [Attempts -> Steps] /\ ln \in [Attempts -> {"none", "pending", "active", "closed"}]
      /\ Rns \in [Attempts -> Steps] /\ Closer \in [Attempts -> Steps]
      /\ Dog \in [Attempts -> Steps] /\ Hello \in [Attempts -> Steps] /\ Fail \in [Attempts -> Steps]
      /\ Answer \in [Attempts -> Steps]
      /\ None \notin Attempts
  BY ViewTypes, AttemptNumbers
<1> USE <1>0 DEF RolesKnown, Advance
<1>1. CASE UserConnect
  <2>1. /\ UNCHANGED <<Rns, Closer, Dog, Hello, Fail, Answer>>
    BY <1>1, UserConnectDoes
  <2> QED BY <2>1
<1>2. CASE Disconnect
  <2>1. /\ UNCHANGED <<Rns, Closer, Dog, Hello, Fail, Answer>>
    BY <1>2, DisconnectDoes
  <2> QED BY <2>1
<1>3. CASE Disconnected
  <2>1. /\ UNCHANGED <<Rns, Closer, Dog, Hello, Fail, Answer>>
    BY <1>3, DisconnectedDoes
  <2> QED BY <2>1
<1>4. CASE SetAutoReconnect
  <2>1. /\ UNCHANGED <<Rns, Closer, Dog, Hello, Fail, Answer>>
    BY <1>4, SetAutoReconnectDoes
  <2> QED BY <2>1
<1>5. CASE TimerFires
  <2>1. /\ UNCHANGED <<Rns, Closer, Dog, Hello, Fail, Answer>>
    BY <1>5, TimerFiresDoes
  <2> QED BY <2>1
<1>6. CASE FireReconnect
  <2>1. /\ UNCHANGED <<Rns, Closer, Dog, Hello, Fail, Answer>>
    BY <1>6, FireReconnectDoes
  <2> QED BY <2>1
<1>7. CASE TimerConnect
  <2>1. /\ UNCHANGED <<Rns, Closer, Dog, Hello, Fail, Answer>>
    BY <1>7, TimerConnectDoes
  <2> QED BY <2>1
<1>8. CASE NoteAnnounce
  <2>1. /\ UNCHANGED <<Rns, Closer, Dog, Hello, Fail, Answer>>
    BY <1>8, NoteAnnounceDoes
  <2> QED BY <2>1
<1>9. ASSUME NEW e \in Attempts, WorkerCancelled(e) PROVE RolesKnown'
  <2>1. /\ UNCHANGED <<Rns, Closer, Dog, Hello, Fail, Answer>>
    BY <1>9, WorkerCancelledDoes
  <2> QED BY <2>1
<1>10. ASSUME NEW e \in Attempts, WorkerFails(e) PROVE RolesKnown'
  <2>1. /\ UNCHANGED <<Rns, Closer, Dog, Hello, Fail, Answer>>
    BY <1>10, WorkerFailsDoes
  <2> QED BY <2>1
<1>11. ASSUME NEW e \in Attempts, WorkerChecks(e) PROVE RolesKnown'
  <2>1. /\ UNCHANGED <<Rns, Closer, Dog, Hello, Fail, Answer>>
    BY <1>11, WorkerChecksDoes
  <2> QED BY <2>1
<1>12. ASSUME NEW e \in Attempts, WorkerBuilds(e) PROVE RolesKnown'
  <2>1. /\ UNCHANGED <<Rns, Closer, Dog, Hello, Fail, Answer>>
    BY <1>12, WorkerBuildsDoes
  <2> QED BY <2>1
<1>13. ASSUME NEW e \in Attempts, WorkerOvertaken(e) PROVE RolesKnown'
  <2>1. /\ UNCHANGED <<Rns, Closer, Dog, Hello, Fail, Answer>>
    BY <1>13, WorkerOvertakenDoes
  <2> QED BY <2>1
<1>14. ASSUME NEW e \in Attempts, WorkerRegisters(e) PROVE RolesKnown'
  <2>1. /\ ln' = ln
        /\ Worker[e] = "built"
        /\ Worker' = [Worker EXCEPT ![e] = "idle"]
        /\ Dog' = [Dog EXCEPT ![e] = "watching"]
        /\ UNCHANGED <<Rns, Closer, Hello, Fail, Answer>>
    BY <1>14, WorkerRegistersDoes
  <2> QED BY <2>1 DEF Workers, Started
<1>15. ASSUME NEW e \in Attempts, WorkerLoopback(e) PROVE RolesKnown'
  <2>1. /\ ln' = [ln EXCEPT ![e] = "active"]
        /\ Worker[e] = "waiting"
        /\ Worker' = [Worker EXCEPT ![e] = "idle"]
        /\ Hello' = [Hello EXCEPT ![e] = "looping"]
        /\ UNCHANGED <<Rns, Closer, Dog, Fail, Answer>>
    BY <1>15, WorkerLoopbackDoes
  <2> QED BY <2>1 DEF Workers, Started
<1>16. ASSUME NEW e \in Attempts, Establish(e) PROVE RolesKnown'
  <2>1. /\ ln[e] = "pending"
        /\ ln' = [ln EXCEPT ![e] = "active"]
        /\ Worker[e] = "idle"
        /\ Worker' = Worker
        /\ Rns' = [Rns EXCEPT ![e] = "established"]
        /\ UNCHANGED <<Closer, Dog, Hello, Fail, Answer>>
    BY <1>16, EstablishDoes
  <2> QED BY <2>1 DEF Started
<1>17. ASSUME NEW e \in Attempts, OnEstablished(e) PROVE RolesKnown'
  <2>1. /\ Rns[e] = "established"
        /\ Rns' = [Rns EXCEPT ![e] = "idle"]
        /\ Hello' = [Hello EXCEPT ![e] = "looping"]
        /\ UNCHANGED <<Closer, Dog, Fail, Answer>>
    BY <1>17, OnEstablishedDoes
  <2> QED BY <2>1
<1>18. ASSUME NEW e \in Attempts, IdentifyFails(e) PROVE RolesKnown'
  <2>1. /\ Rns[e] = "established" /\ UNCHANGED <<Closer, Dog, Hello, Fail, Answer>>
        /\ Rns' = [Rns EXCEPT ![e] = "closing"] \/ Rns' = [Rns EXCEPT ![e] = "idle"]
    BY <1>18, IdentifyFailsDoes
  <2> QED BY <2>1
<1>19. ASSUME NEW e \in Attempts, LinkCloses(e) PROVE RolesKnown'
  <2>1. /\ ln' = [ln EXCEPT ![e] = "closed"]
        /\ Closer' = [Closer EXCEPT ![e] = "closing"]
        /\ UNCHANGED <<Rns, Dog, Hello, Fail, Answer>>
    BY <1>19, LinkClosesDoes
  <2> QED BY <2>1
<1>20. ASSUME NEW e \in Attempts, DogRests(e) PROVE RolesKnown'
  <2>1. /\ Dog[e] = "watching"
        /\ Dog' = [Dog EXCEPT ![e] = "idle"]
        /\ UNCHANGED <<Rns, Closer, Hello, Fail, Answer>>
    BY <1>20, DogRestsDoes
  <2> QED BY <2>1
<1>21. ASSUME NEW e \in Attempts, DogBites(e) PROVE RolesKnown'
  <2>1. /\ Dog[e] = "watching"
        /\ Dog' = [Dog EXCEPT ![e] = "closing"]
        /\ UNCHANGED <<Rns, Closer, Hello, Fail, Answer>>
    BY <1>21, DogBitesDoes
  <2> QED BY <2>1
<1>22. ASSUME NEW e \in Attempts, DogFails(e) PROVE RolesKnown'
  <2>1. /\ Dog[e] = "failed"
        /\ Dog' = [Dog EXCEPT ![e] = "maybe"]
        /\ UNCHANGED <<Rns, Closer, Hello, Fail, Answer>>
    BY <1>22, DogFailsDoes
  <2> QED BY <2>1
<1>23. ASSUME NEW e \in Attempts, HelloStops(e) PROVE RolesKnown'
  <2>1. /\ Hello[e] = "looping"
        /\ Hello' = [Hello EXCEPT ![e] = "idle"]
        /\ UNCHANGED <<Rns, Closer, Dog, Fail, Answer>>
    BY <1>23, HelloStopsDoes
  <2> QED BY <2>1
<1>24. ASSUME NEW e \in Attempts, HelloSends(e) PROVE RolesKnown'
  <2>1. /\ UNCHANGED <<Rns, Closer, Dog, Hello, Fail, Answer>>
    BY <1>24, HelloSendsDoes
  <2> QED BY <2>1
<1>25. ASSUME NEW e \in Attempts, HelloLost(e) PROVE RolesKnown'
  <2>1. /\ Hello[e] = "looping"
        /\ Hello' = [Hello EXCEPT ![e] = IF status = "connecting" THEN "closing" ELSE "idle"]
        /\ UNCHANGED <<Rns, Closer, Dog, Fail, Answer>>
    BY <1>25, HelloLostDoes
  <2> QED BY <2>1
<1>26. ASSUME NEW e \in Attempts, WelcomeTimeout(e) PROVE RolesKnown'
  <2>1. /\ Hello[e] = "looping"
        /\ Hello' = [Hello EXCEPT ![e] = "idle"]
        /\ Fail' = [Fail EXCEPT ![e] = "mark"]
        /\ UNCHANGED <<Rns, Closer, Dog, Answer>>
    BY <1>26, WelcomeTimeoutDoes
  <2> QED BY <2>1
<1>27. ASSUME NEW e \in Attempts, FailMarks(e) PROVE RolesKnown'
  <2>1. /\ Fail[e] = "mark" /\ UNCHANGED <<Rns, Closer, Dog, Hello, Answer>>
        /\ Fail' = [Fail EXCEPT ![e] = "closing"] \/ Fail' = [Fail EXCEPT ![e] = "clear"]
    BY <1>27, FailMarksDoes
  <2> QED BY <2>1
<1>28. ASSUME NEW e \in Attempts, FailClears(e) PROVE RolesKnown'
  <2>1. /\ Fail[e] = "clear"
        /\ Fail' = [Fail EXCEPT ![e] = IF status = "failed" THEN "maybe" ELSE "idle"]
        /\ UNCHANGED <<Rns, Closer, Dog, Hello, Answer>>
    BY <1>28, FailClearsDoes
  <2> QED BY <2>1
<1>29. ASSUME NEW e \in Attempts, WelcomeArrives(e) PROVE RolesKnown'
  <2>1. /\ e \in greeted
        /\ Answer' = [Answer EXCEPT ![e] = "arrived"]
        /\ UNCHANGED <<Rns, Closer, Dog, Hello, Fail>>
    BY <1>29, WelcomeArrivesDoes
  <2> QED BY <2>1 DEF LinksKnown
<1>30. ASSUME NEW e \in Attempts, Welcome(e) PROVE RolesKnown'
  <2>1. /\ Answer[e] = "arrived"
        /\ Answer' = [Answer EXCEPT ![e] = "answered"]
        /\ UNCHANGED <<Rns, Closer, Dog, Hello, Fail>>
    BY <1>30, WelcomeDoes
  <2> QED BY <2>1
<1>31. ASSUME NEW e \in Attempts, Connected(e) PROVE RolesKnown'
  <2>1. /\ Answer[e] = "answered"
        /\ Answer' = [Answer EXCEPT ![e] = "idle"]
        /\ UNCHANGED <<Rns, Closer, Dog, Hello, Fail>>
    BY <1>31, ConnectedDoes
  <2> QED BY <2>1
<1>32. ASSUME NEW t \in Threads, Closing(t) PROVE RolesKnown'
  <2>1. /\ at[t] \in Midway
        /\ \E s \in Midway \cup {After(t), "idle"} : MovesTo(t, s)
    BY <1>32, ClosingDoes
  <2>2. PICK s \in Midway \cup {After(t), "idle"} : MovesTo(t, s)
    BY <2>1
  <2>3. s \in Midway \cup {"idle", "clear", "failed", "off"} /\ at[t] # "idle" /\ s # "established"
    BY <2>1, AfterIsStep DEF Midway
  <2>4. \A e \in Attempts :
          /\ Answer[e] = "idle" => Answer'[e] = "idle"
          /\ Dog[e] = "idle" => Dog'[e] = "idle"
          /\ Rns[e] = "idle" => Rns'[e] = "idle"
    BY <2>2, <2>3 DEF MovesTo
  <2>5. \A e \in Attempts :
          /\ Hello[e] = "idle" => Hello'[e] = "idle"
          /\ Fail[e] = "idle" => Fail'[e] = "idle"
          /\ Closer[e] = "idle" => Closer'[e] = "idle"
    BY <2>2, <2>3 DEF MovesTo
  <2>6. \A e \in Attempts : Rns'[e] = "established" => Rns[e] = "established"
    BY <2>2, <2>3 DEF MovesTo
  <2> QED BY <2>4, <2>5, <2>6
<1>33. CASE UNCHANGED vars
  <2>1. UNCHANGED <<Rns, Closer, Dog, Hello, Fail, Answer>>
    BY <1>33, SameViews DEF vars
  <2> QED BY <2>1
<1> QED
  BY <1>1, <1>2, <1>3, <1>4, <1>5, <1>6, <1>7, <1>8, <1>9, <1>10, <1>11, <1>12, <1>13, <1>14,
       <1>15, <1>16, <1>17, <1>18, <1>19, <1>20, <1>21, <1>22, <1>23, <1>24, <1>25, <1>26, <1>27,
       <1>28, <1>29, <1>30, <1>31, <1>32, <1>33 DEF Next, Attempt

--------------------------------------------------------------------------------
(* What lasts, and who stays where it is *)

\* An excuse that lasts is never wiped out, and a thread in the middle of closing a
\* link is moved by its own steps only.

\* What no later connect or disconnect wipes out.
Lasting == {"late", "replaced", "revived"}

\* Nothing wipes out what lasts.
LEMMA LastingStays ==
  ASSUME TypeOK, [Next]_vars
  PROVE  \A what \in Lasting : what \in history => what \in history'
<1> USE DEF Lasting
<1>1. CASE UserConnect
  <2>1. history \ (Fresh \cup {"off", "overridden"}) \subseteq history'
    BY <1>1, UserConnectDoes
  <2> QED BY <2>1 DEF Fresh
<1>2. CASE Disconnect
  <2>1. history \ {"stale"} \subseteq history'
    BY <1>2, DisconnectDoes
  <2> QED BY <2>1
<1>3. CASE Disconnected
  <2>1. history' = history
    BY <1>3, DisconnectedDoes
  <2> QED BY <2>1
<1>4. CASE SetAutoReconnect
  <2>1. history \subseteq history'
    BY <1>4, SetAutoReconnectDoes
  <2> QED BY <2>1
<1>5. CASE TimerFires
  <2>1. history' = history
    BY <1>5, TimerFiresDoes
  <2> QED BY <2>1
<1>6. CASE FireReconnect
  <2>1. history' = history
    BY <1>6, FireReconnectDoes
  <2> QED BY <2>1
<1>7. CASE TimerConnect
  <2>1. history \ (Fresh \cup {"off", "overridden"}) \subseteq history'
    BY <1>7, TimerConnectDoes
  <2> QED BY <2>1 DEF Fresh
<1>8. CASE NoteAnnounce
  <2>1. history' = history
    BY <1>8, NoteAnnounceDoes
  <2> QED BY <2>1
<1>9. ASSUME NEW e \in Attempts, WorkerCancelled(e)
      PROVE  \A what \in Lasting : what \in history => what \in history'
  <2>1. history' = history
    BY <1>9, WorkerCancelledDoes
  <2> QED BY <2>1
<1>10. ASSUME NEW e \in Attempts, WorkerFails(e)
      PROVE  \A what \in Lasting : what \in history => what \in history'
  <2>1. history' = history
    BY <1>10, WorkerFailsDoes
  <2> QED BY <2>1
<1>11. ASSUME NEW e \in Attempts, WorkerChecks(e)
      PROVE  \A what \in Lasting : what \in history => what \in history'
  <2>1. history' = history
    BY <1>11, WorkerChecksDoes
  <2> QED BY <2>1
<1>12. ASSUME NEW e \in Attempts, WorkerBuilds(e)
      PROVE  \A what \in Lasting : what \in history => what \in history'
  <2>1. history' = history
    BY <1>12, WorkerBuildsDoes
  <2> QED BY <2>1
<1>13. ASSUME NEW e \in Attempts, WorkerOvertaken(e)
      PROVE  \A what \in Lasting : what \in history => what \in history'
  <2>1. history' = history
    BY <1>13, WorkerOvertakenDoes
  <2> QED BY <2>1
<1>14. ASSUME NEW e \in Attempts, WorkerRegisters(e)
      PROVE  \A what \in Lasting : what \in history => what \in history'
  <2>1. history \ {"hushed"} \subseteq history'
    BY <1>14, WorkerRegistersDoes
  <2> QED BY <2>1
<1>15. ASSUME NEW e \in Attempts, WorkerLoopback(e)
      PROVE  \A what \in Lasting : what \in history => what \in history'
  <2>1. history \ {"hushed"} \subseteq history'
    BY <1>15, WorkerLoopbackDoes
  <2> QED BY <2>1
<1>16. ASSUME NEW e \in Attempts, Establish(e)
      PROVE  \A what \in Lasting : what \in history => what \in history'
  <2>1. history' = history
    BY <1>16, EstablishDoes
  <2> QED BY <2>1
<1>17. ASSUME NEW e \in Attempts, OnEstablished(e)
      PROVE  \A what \in Lasting : what \in history => what \in history'
  <2>1. history \subseteq history'
    BY <1>17, OnEstablishedDoes
  <2> QED BY <2>1
<1>18. ASSUME NEW e \in Attempts, IdentifyFails(e)
      PROVE  \A what \in Lasting : what \in history => what \in history'
  <2>1. history' = history
    BY <1>18, IdentifyFailsDoes
  <2> QED BY <2>1
<1>19. ASSUME NEW e \in Attempts, LinkCloses(e)
      PROVE  \A what \in Lasting : what \in history => what \in history'
  <2>1. history' = history
    BY <1>19, LinkClosesDoes
  <2> QED BY <2>1
<1>20. ASSUME NEW e \in Attempts, DogRests(e)
      PROVE  \A what \in Lasting : what \in history => what \in history'
  <2>1. history' = history
    BY <1>20, DogRestsDoes
  <2> QED BY <2>1
<1>21. ASSUME NEW e \in Attempts, DogBites(e)
      PROVE  \A what \in Lasting : what \in history => what \in history'
  <2>1. history' = history
    BY <1>21, DogBitesDoes
  <2> QED BY <2>1
<1>22. ASSUME NEW e \in Attempts, DogFails(e)
      PROVE  \A what \in Lasting : what \in history => what \in history'
  <2>1. history' = history
    BY <1>22, DogFailsDoes
  <2> QED BY <2>1
<1>23. ASSUME NEW e \in Attempts, HelloStops(e)
      PROVE  \A what \in Lasting : what \in history => what \in history'
  <2>1. history' = history
    BY <1>23, HelloStopsDoes
  <2> QED BY <2>1
<1>24. ASSUME NEW e \in Attempts, HelloSends(e)
      PROVE  \A what \in Lasting : what \in history => what \in history'
  <2>1. history' = history
    BY <1>24, HelloSendsDoes
  <2> QED BY <2>1
<1>25. ASSUME NEW e \in Attempts, HelloLost(e)
      PROVE  \A what \in Lasting : what \in history => what \in history'
  <2>1. history \subseteq history'
    BY <1>25, HelloLostDoes
  <2> QED BY <2>1
<1>26. ASSUME NEW e \in Attempts, WelcomeTimeout(e)
      PROVE  \A what \in Lasting : what \in history => what \in history'
  <2>1. history \subseteq history'
    BY <1>26, WelcomeTimeoutDoes
  <2> QED BY <2>1
<1>27. ASSUME NEW e \in Attempts, FailMarks(e)
      PROVE  \A what \in Lasting : what \in history => what \in history'
  <2>1. history' = history
    BY <1>27, FailMarksDoes
  <2> QED BY <2>1
<1>28. ASSUME NEW e \in Attempts, FailClears(e)
      PROVE  \A what \in Lasting : what \in history => what \in history'
  <2>1. history \subseteq history'
    BY <1>28, FailClearsDoes
  <2> QED BY <2>1
<1>29. ASSUME NEW e \in Attempts, WelcomeArrives(e)
      PROVE  \A what \in Lasting : what \in history => what \in history'
  <2>1. history' = history
    BY <1>29, WelcomeArrivesDoes
  <2> QED BY <2>1
<1>30. ASSUME NEW e \in Attempts, Welcome(e)
      PROVE  \A what \in Lasting : what \in history => what \in history'
  <2>1. history' = history
    BY <1>30, WelcomeDoes
  <2> QED BY <2>1
<1>31. ASSUME NEW e \in Attempts, Connected(e)
      PROVE  \A what \in Lasting : what \in history => what \in history'
  <2>1. history \subseteq history'
    BY <1>31, ConnectedDoes
  <2> QED BY <2>1
<1>32. ASSUME NEW t \in Threads, Closing(t)
      PROVE  \A what \in Lasting : what \in history => what \in history'
  BY <1>32 DEF Closing, OnClosed, OnClosedTail, ScheduleReconnect, MaybeSchedule
<1>33. CASE UNCHANGED vars
  BY <1>33 DEF vars
<1> QED
  BY <1>1, <1>2, <1>3, <1>4, <1>5, <1>6, <1>7, <1>8, <1>9, <1>10, <1>11, <1>12, <1>13, <1>14,
       <1>15, <1>16, <1>17, <1>18, <1>19, <1>20, <1>21, <1>22, <1>23, <1>24, <1>25, <1>26, <1>27,
       <1>28, <1>29, <1>30, <1>31, <1>32, <1>33 DEF Next, Attempt

\* Thread u takes the step that its giving up of a link has come to.
GoesAhead(u) ==
  \E e \in Attempts :
    \/ u = <<"fail", e>> /\ (FailMarks(e) \/ FailClears(e))
    \/ u = <<"dog", e>> /\ DogFails(e)

\* Nobody else moves a thread that is midway or about to clear the link it gave
\* up: a thread starts what it does at a step that is not one of those.
LEMMA MidwayStays ==
  ASSUME TypeOK, Workers, LinksKnown, RolesKnown, [Next]_vars,
         NEW u \in Threads, at[u] \in Midway \cup {"mark", "clear", "failed"}, ~Closing(u), ~GoesAhead(u)
  PROVE  at'[u] = at[u] /\ cut'[u] = cut[u]
<1> DEFINE Stays == at'[u] = at[u] /\ cut'[u] = cut[u]
<1>0. at[u] \notin {"idle", "waiting", "checked", "built", "established", "watching", "looping",
                    "off", "connect", "arrived", "answered"}
  BY DEF Midway
<1>00. /\ None \notin Attempts /\ ln \in [Attempts -> {"none", "pending", "active", "closed"}]
       /\ epoch \in Nat /\ \A e \in Attempts : e \in Nat
  BY ViewTypes, AttemptNumbers
<1>000. \A q \in Roles, e \in Attempts : <<q, e>> \in Threads
  BY ThreadNames
<1>1. CASE UserConnect
  <2>1. /\ epoch + 1 \in Attempts /\ cut' = cut
        /\ \A v \in Threads : v # <<"worker", epoch + 1>> => at'[v] = at[v]
    BY <1>1, UserConnectDoes
  <2>2. Worker[epoch + 1] = "idle"
    BY <2>1, <1>00 DEF Workers
  <2>3. at[<<"worker", epoch + 1>>] = "idle"
    BY <2>1, <2>2 DEF Worker
  <2> QED BY <2>1, <2>3, <1>0
<1>2. CASE Disconnect
  <2>1. at[User] = "idle" /\ \A v \in Threads : v # User => at'[v] = at[v] /\ cut'[v] = cut[v]
    BY <1>2, DisconnectDoes DEF OnlyMoves
  <2> QED BY <2>1, <1>0
<1>3. CASE Disconnected
  <2>1. at[User] = "off" /\ \A v \in Threads : v # User => at'[v] = at[v] /\ cut'[v] = cut[v]
    BY <1>3, DisconnectedDoes DEF OnlyMoves
  <2> QED BY <2>1, <1>0
<1>4. CASE SetAutoReconnect
  BY <1>4, SetAutoReconnectDoes
<1>5. CASE TimerFires
  BY <1>5, TimerFiresDoes
<1>6. CASE FireReconnect
  <2>1. at[Timer] = "idle" /\ \A v \in Threads : v # Timer => at'[v] = at[v] /\ cut'[v] = cut[v]
    BY <1>6, FireReconnectDoes DEF OnlyMoves
  <2> QED BY <2>1, <1>0
<1>7. CASE TimerConnect
  <2>1. /\ cut' = cut /\ at[Timer] = "connect"
        /\ \/ \A v \in Threads : v # Timer => at'[v] = at[v]
           \/ /\ epoch + 1 \in Attempts
              /\ \A v \in Threads : v # Timer /\ v # <<"worker", epoch + 1>> => at'[v] = at[v]
    BY <1>7, TimerConnectDoes
  <2>2. ASSUME epoch + 1 \in Attempts PROVE at[<<"worker", epoch + 1>>] = "idle"
    <3>1. Worker[epoch + 1] = "idle"
      BY <2>2, <1>00 DEF Workers
    <3> QED BY <2>2, <3>1 DEF Worker
  <2> QED BY <2>1, <2>2, <1>0
<1>8. CASE NoteAnnounce
  <2>1. at[Announce] = "idle" /\ \A v \in Threads : v # Announce => at'[v] = at[v] /\ cut'[v] = cut[v]
    BY <1>8, NoteAnnounceDoes DEF OnlyMoves
  <2> QED BY <2>1, <1>0
<1>9. ASSUME NEW e \in Attempts, WorkerCancelled(e) PROVE Stays
  <2>2. Worker[e] = "waiting"
    BY <1>9, WorkerCancelledDoes
  <2>3. at[<<"worker", e>>] = "waiting"
    BY <2>2 DEF Worker
  <2>4. u # <<"worker", e>>
    BY <2>3, <1>0
  <2>5. \E s, c : OnlyMoves(<<"worker", e>>, s, c)
    BY <1>9, WorkerCancelledDoes
  <2>6. \A v \in Threads : v \notin {<<"worker", e>>} => at'[v] = at[v] /\ cut'[v] = cut[v]
    BY <2>5 DEF OnlyMoves
  <2> QED BY <2>4, <2>6
<1>10. ASSUME NEW e \in Attempts, WorkerFails(e) PROVE Stays
  <2>2. Worker[e] = "waiting"
    BY <1>10, WorkerFailsDoes
  <2>3. at[<<"worker", e>>] = "waiting"
    BY <2>2 DEF Worker
  <2>4. u # <<"worker", e>>
    BY <2>3, <1>0
  <2>5. \E s, c : OnlyMoves(<<"worker", e>>, s, c)
    BY <1>10, WorkerFailsDoes
  <2>6. \A v \in Threads : v \notin {<<"worker", e>>} => at'[v] = at[v] /\ cut'[v] = cut[v]
    BY <2>5 DEF OnlyMoves
  <2> QED BY <2>4, <2>6
<1>11. ASSUME NEW e \in Attempts, WorkerChecks(e) PROVE Stays
  <2>2. Worker[e] = "waiting"
    BY <1>11, WorkerChecksDoes
  <2>3. at[<<"worker", e>>] = "waiting"
    BY <2>2 DEF Worker
  <2>4. u # <<"worker", e>>
    BY <2>3, <1>0
  <2>5. \E s, c : OnlyMoves(<<"worker", e>>, s, c)
    BY <1>11, WorkerChecksDoes
  <2>6. \A v \in Threads : v \notin {<<"worker", e>>} => at'[v] = at[v] /\ cut'[v] = cut[v]
    BY <2>5 DEF OnlyMoves
  <2> QED BY <2>4, <2>6
<1>12. ASSUME NEW e \in Attempts, WorkerBuilds(e) PROVE Stays
  <2>2. Worker[e] = "checked"
    BY <1>12, WorkerBuildsDoes
  <2>3. at[<<"worker", e>>] = "checked"
    BY <2>2 DEF Worker
  <2>4. u # <<"worker", e>>
    BY <2>3, <1>0
  <2>5. \E s, c : OnlyMoves(<<"worker", e>>, s, c)
    BY <1>12, WorkerBuildsDoes
  <2>6. \A v \in Threads : v \notin {<<"worker", e>>} => at'[v] = at[v] /\ cut'[v] = cut[v]
    BY <2>5 DEF OnlyMoves
  <2> QED BY <2>4, <2>6
<1>13. ASSUME NEW e \in Attempts, WorkerOvertaken(e) PROVE Stays
  <2>2. Worker[e] = "built"
    BY <1>13, WorkerOvertakenDoes
  <2>3. at[<<"worker", e>>] = "built"
    BY <2>2 DEF Worker
  <2>4. u # <<"worker", e>>
    BY <2>3, <1>0
  <2>5. \E s, c : OnlyMoves(<<"worker", e>>, s, c)
    BY <1>13, WorkerOvertakenDoes
  <2>6. \A v \in Threads : v \notin {<<"worker", e>>} => at'[v] = at[v] /\ cut'[v] = cut[v]
    BY <2>5 DEF OnlyMoves
  <2> QED BY <2>4, <2>6
<1>14. ASSUME NEW e \in Attempts, WorkerRegisters(e) PROVE Stays
  <2>1. Worker[e] = "built"
    BY <1>14, WorkerRegistersDoes
  <2>2. Worker[e] = "built" /\ Dog[e] = "idle"
    BY <2>1, <1>00 DEF Workers, RolesKnown, Started
  <2>3. at[<<"worker", e>>] = "built" /\ at[<<"dog", e>>] = "idle"
    BY <2>2 DEF Worker, Dog
  <2>4. u # <<"worker", e>> /\ u # <<"dog", e>>
    BY <2>3, <1>0
  <2>5. \E s, z : BothMove(e, "worker", s, "dog", z)
    BY <1>14, WorkerRegistersDoes
  <2>6. \A v \in Threads : v \notin {<<"worker", e>>, <<"dog", e>>} => at'[v] = at[v] /\ cut'[v] = cut[v]
    BY <2>5 DEF BothMove
  <2> QED BY <2>4, <2>6
<1>15. ASSUME NEW e \in Attempts, WorkerLoopback(e) PROVE Stays
  <2>1. Worker[e] = "waiting"
    BY <1>15, WorkerLoopbackDoes
  <2>2. Worker[e] = "waiting" /\ Hello[e] = "idle"
    BY <2>1, <1>00 DEF Workers, RolesKnown, Started
  <2>3. at[<<"worker", e>>] = "waiting" /\ at[<<"hello", e>>] = "idle"
    BY <2>2 DEF Worker, Hello
  <2>4. u # <<"worker", e>> /\ u # <<"hello", e>>
    BY <2>3, <1>0
  <2>5. \E s, z : BothMove(e, "worker", s, "hello", z)
    BY <1>15, WorkerLoopbackDoes
  <2>6. \A v \in Threads : v \notin {<<"worker", e>>, <<"hello", e>>} => at'[v] = at[v] /\ cut'[v] = cut[v]
    BY <2>5 DEF BothMove
  <2> QED BY <2>4, <2>6
<1>16. ASSUME NEW e \in Attempts, Establish(e) PROVE Stays
  <2>1. ln[e] = "pending"
    BY <1>16, EstablishDoes
  <2>2. Rns[e] = "idle"
    BY <2>1, <1>00 DEF RolesKnown
  <2>3. at[<<"rns", e>>] = "idle"
    BY <2>2 DEF Rns
  <2>4. u # <<"rns", e>>
    BY <2>3, <1>0
  <2>5. \E s, c : OnlyMoves(<<"rns", e>>, s, c)
    BY <1>16, EstablishDoes
  <2>6. \A v \in Threads : v \notin {<<"rns", e>>} => at'[v] = at[v] /\ cut'[v] = cut[v]
    BY <2>5 DEF OnlyMoves
  <2> QED BY <2>4, <2>6
<1>17. ASSUME NEW e \in Attempts, OnEstablished(e) PROVE Stays
  <2>1. Rns[e] = "established"
    BY <1>17, OnEstablishedDoes
  <2>2. Rns[e] = "established" /\ Hello[e] = "idle"
    BY <2>1, <1>00 DEF RolesKnown
  <2>3. at[<<"rns", e>>] = "established" /\ at[<<"hello", e>>] = "idle"
    BY <2>2 DEF Rns, Hello
  <2>4. u # <<"rns", e>> /\ u # <<"hello", e>>
    BY <2>3, <1>0
  <2>5. \E s, z : BothMove(e, "rns", s, "hello", z)
    BY <1>17, OnEstablishedDoes
  <2>6. \A v \in Threads : v \notin {<<"rns", e>>, <<"hello", e>>} => at'[v] = at[v] /\ cut'[v] = cut[v]
    BY <2>5 DEF BothMove
  <2> QED BY <2>4, <2>6
<1>18. ASSUME NEW e \in Attempts, IdentifyFails(e) PROVE Stays
  <2>2. Rns[e] = "established"
    BY <1>18, IdentifyFailsDoes
  <2>3. at[<<"rns", e>>] = "established"
    BY <2>2 DEF Rns
  <2>4. u # <<"rns", e>>
    BY <2>3, <1>0
  <2>5. \E s, c : OnlyMoves(<<"rns", e>>, s, c)
    BY <1>18, IdentifyFailsDoes
  <2>6. \A v \in Threads : v \notin {<<"rns", e>>} => at'[v] = at[v] /\ cut'[v] = cut[v]
    BY <2>5 DEF OnlyMoves
  <2> QED BY <2>4, <2>6
<1>19. ASSUME NEW e \in Attempts, LinkCloses(e) PROVE Stays
  <2>1. Open(e)
    BY <1>19, LinkClosesDoes
  <2>2. Closer[e] = "idle"
    BY <2>1, <1>00 DEF RolesKnown, Open
  <2>3. at[<<"close", e>>] = "idle"
    BY <2>2 DEF Closer
  <2>4. u # <<"close", e>>
    BY <2>3, <1>0
  <2>5. \E s, c : OnlyMoves(<<"close", e>>, s, c)
    BY <1>19, LinkClosesDoes
  <2>6. \A v \in Threads : v \notin {<<"close", e>>} => at'[v] = at[v] /\ cut'[v] = cut[v]
    BY <2>5 DEF OnlyMoves
  <2> QED BY <2>4, <2>6
<1>20. ASSUME NEW e \in Attempts, DogRests(e) PROVE Stays
  <2>2. Dog[e] = "watching"
    BY <1>20, DogRestsDoes
  <2>3. at[<<"dog", e>>] = "watching"
    BY <2>2 DEF Dog
  <2>4. u # <<"dog", e>>
    BY <2>3, <1>0
  <2>5. \E s, c : OnlyMoves(<<"dog", e>>, s, c)
    BY <1>20, DogRestsDoes
  <2>6. \A v \in Threads : v \notin {<<"dog", e>>} => at'[v] = at[v] /\ cut'[v] = cut[v]
    BY <2>5 DEF OnlyMoves
  <2> QED BY <2>4, <2>6
<1>21. ASSUME NEW e \in Attempts, DogBites(e) PROVE Stays
  <2>1. Dog[e] = "watching" /\ OnlyMoves(<<"dog", e>>, "closing", e)
    BY <1>21, DogBitesDoes
  <2>2. u # <<"dog", e>>
    BY <2>1, <1>0 DEF Dog
  <2> QED BY <2>1, <2>2 DEF OnlyMoves
<1>22. ASSUME NEW e \in Attempts, DogFails(e) PROVE Stays
  <2>1. u # <<"dog", e>>
    BY <1>22 DEF GoesAhead
  <2>5. \E s, c : OnlyMoves(<<"dog", e>>, s, c)
    BY <1>22, DogFailsDoes
  <2>6. \A v \in Threads : v # <<"dog", e>> => at'[v] = at[v] /\ cut'[v] = cut[v]
    BY <2>5 DEF OnlyMoves
  <2> QED BY <2>1, <2>6
<1>23. ASSUME NEW e \in Attempts, HelloStops(e) PROVE Stays
  <2>2. Hello[e] = "looping"
    BY <1>23, HelloStopsDoes
  <2>3. at[<<"hello", e>>] = "looping"
    BY <2>2 DEF Hello
  <2>4. u # <<"hello", e>>
    BY <2>3, <1>0
  <2>5. \E s, c : OnlyMoves(<<"hello", e>>, s, c)
    BY <1>23, HelloStopsDoes
  <2>6. \A v \in Threads : v \notin {<<"hello", e>>} => at'[v] = at[v] /\ cut'[v] = cut[v]
    BY <2>5 DEF OnlyMoves
  <2> QED BY <2>4, <2>6
<1>24. ASSUME NEW e \in Attempts, HelloSends(e) PROVE Stays
  BY <1>24, HelloSendsDoes
<1>25. ASSUME NEW e \in Attempts, HelloLost(e) PROVE Stays
  <2>2. Hello[e] = "looping"
    BY <1>25, HelloLostDoes
  <2>3. at[<<"hello", e>>] = "looping"
    BY <2>2 DEF Hello
  <2>4. u # <<"hello", e>>
    BY <2>3, <1>0
  <2>5. \E s, c : OnlyMoves(<<"hello", e>>, s, c)
    BY <1>25, HelloLostDoes
  <2>6. \A v \in Threads : v \notin {<<"hello", e>>} => at'[v] = at[v] /\ cut'[v] = cut[v]
    BY <2>5 DEF OnlyMoves
  <2> QED BY <2>4, <2>6
<1>26. ASSUME NEW e \in Attempts, WelcomeTimeout(e) PROVE Stays
  <2>1. Hello[e] = "looping"
    BY <1>26, WelcomeTimeoutDoes
  <2>2. Hello[e] = "looping" /\ Fail[e] = "idle"
    BY <2>1, <1>00 DEF RolesKnown
  <2>3. at[<<"hello", e>>] = "looping" /\ at[<<"fail", e>>] = "idle"
    BY <2>2 DEF Hello, Fail
  <2>4. u # <<"hello", e>> /\ u # <<"fail", e>>
    BY <2>3, <1>0
  <2>5. \E s, z : BothMove(e, "hello", s, "fail", z)
    BY <1>26, WelcomeTimeoutDoes
  <2>6. \A v \in Threads : v \notin {<<"hello", e>>, <<"fail", e>>} => at'[v] = at[v] /\ cut'[v] = cut[v]
    BY <2>5 DEF BothMove
  <2> QED BY <2>4, <2>6
<1>27. ASSUME NEW e \in Attempts, FailMarks(e) PROVE Stays
  <2>1. u # <<"fail", e>>
    BY <1>27 DEF GoesAhead
  <2>5. \E s, c : OnlyMoves(<<"fail", e>>, s, c)
    BY <1>27, FailMarksDoes
  <2>6. \A v \in Threads : v # <<"fail", e>> => at'[v] = at[v] /\ cut'[v] = cut[v]
    BY <2>5 DEF OnlyMoves
  <2> QED BY <2>1, <2>6
<1>28. ASSUME NEW e \in Attempts, FailClears(e) PROVE Stays
  <2>1. u # <<"fail", e>>
    BY <1>28 DEF GoesAhead
  <2>5. \E s, c : OnlyMoves(<<"fail", e>>, s, c)
    BY <1>28, FailClearsDoes
  <2>6. \A v \in Threads : v # <<"fail", e>> => at'[v] = at[v] /\ cut'[v] = cut[v]
    BY <2>5 DEF OnlyMoves
  <2> QED BY <2>1, <2>6
<1>29. ASSUME NEW e \in Attempts, WelcomeArrives(e) PROVE Stays
  <2>2. Answer[e] = "idle"
    BY <1>29, WelcomeArrivesDoes
  <2>3. at[<<"packet", e>>] = "idle"
    BY <2>2 DEF Answer
  <2>4. u # <<"packet", e>>
    BY <2>3, <1>0
  <2>5. \E s, c : OnlyMoves(<<"packet", e>>, s, c)
    BY <1>29, WelcomeArrivesDoes
  <2>6. \A v \in Threads : v \notin {<<"packet", e>>} => at'[v] = at[v] /\ cut'[v] = cut[v]
    BY <2>5 DEF OnlyMoves
  <2> QED BY <2>4, <2>6
<1>30. ASSUME NEW e \in Attempts, Welcome(e) PROVE Stays
  <2>2. Answer[e] = "arrived"
    BY <1>30, WelcomeDoes
  <2>3. at[<<"packet", e>>] = "arrived"
    BY <2>2 DEF Answer
  <2>4. u # <<"packet", e>>
    BY <2>3, <1>0
  <2>5. \E s, c : OnlyMoves(<<"packet", e>>, s, c)
    BY <1>30, WelcomeDoes
  <2>6. \A v \in Threads : v \notin {<<"packet", e>>} => at'[v] = at[v] /\ cut'[v] = cut[v]
    BY <2>5 DEF OnlyMoves
  <2> QED BY <2>4, <2>6
<1>31. ASSUME NEW e \in Attempts, Connected(e) PROVE Stays
  <2>2. Answer[e] = "answered"
    BY <1>31, ConnectedDoes
  <2>3. at[<<"packet", e>>] = "answered"
    BY <2>2 DEF Answer
  <2>4. u # <<"packet", e>>
    BY <2>3, <1>0
  <2>5. \E s, c : OnlyMoves(<<"packet", e>>, s, c)
    BY <1>31, ConnectedDoes
  <2>6. \A v \in Threads : v \notin {<<"packet", e>>} => at'[v] = at[v] /\ cut'[v] = cut[v]
    BY <2>5 DEF OnlyMoves
  <2> QED BY <2>4, <2>6
<1>32. ASSUME NEW t \in Threads, Closing(t) PROVE Stays
  <2>1. t # u /\ \E s, c : OnlyMoves(t, s, c)
    BY <1>32, ClosingDoes
  <2> QED BY <2>1 DEF OnlyMoves
<1>33. CASE UNCHANGED vars
  BY <1>33 DEF vars
<1> QED
  BY <1>1, <1>2, <1>3, <1>4, <1>5, <1>6, <1>7, <1>8, <1>9, <1>10, <1>11, <1>12, <1>13, <1>14,
       <1>15, <1>16, <1>17, <1>18, <1>19, <1>20, <1>21, <1>22, <1>23, <1>24, <1>25, <1>26, <1>27,
       <1>28, <1>29, <1>30, <1>31, <1>32, <1>33 DEF Next, Attempt

--------------------------------------------------------------------------------
(* A session ends with its own link *)

\* What all the invariants below rest on.
Base == TypeOK /\ Workers /\ LinksKnown /\ RolesKnown /\ CutsKnown

LEMMA BaseStep == ASSUME Base, [Next]_vars PROVE Base' /\ Advance
<1>1. TypeOK /\ Workers /\ LinksKnown /\ RolesKnown /\ CutsKnown
  BY DEF Base
<1>2. TypeOK'
  BY <1>1, SessionTypesStep
<1>3. Workers' /\ Advance
  BY <1>1, WorkersStep
<1>4. LinksKnown'
  BY <1>1, <1>3, LinksKnownStep
<1>5. RolesKnown'
  BY <1>1, <1>3, RolesKnownStep
<1>6. CutsKnown'
  BY <1>1, <1>3, CutsKnownStep
<1> QED BY <1>2, <1>3, <1>4, <1>5, <1>6 DEF Base

LEMMA BaseFacts ==
  ASSUME Base
  PROVE  /\ TypeOK /\ Workers /\ LinksKnown /\ RolesKnown /\ CutsKnown
         /\ Worker \in [Attempts -> Steps] /\ ln \in [Attempts -> {"none", "pending", "active", "closed"}]
         /\ None \notin Attempts /\ \A t \in Threads : cut[t] \in Attempts \cup {None}
         /\ link \in Attempts \cup {None} /\ lastClosed \in Attempts \cup {None}
         /\ expected \in Attempts \cup {None} /\ epoch \in Attempts \cup {None}
         /\ greeted \subseteq Attempts
<1>1. TypeOK /\ Workers /\ LinksKnown /\ RolesKnown /\ CutsKnown
  BY DEF Base
<1> QED BY <1>1, ViewTypes, AttemptNumbers

\* Who closes a link closed it, but for a HELLO loop that came back to life.
CutsClosed ==
  \A t \in Threads : cut[t] # None =>
    \/ ln[cut[t]] = "closed"
    \/ "revived" \in history /\ \E e \in Attempts : t = <<"hello", e>>

LEMMA CutsClosedStep ==
  ASSUME Base, CutsClosed, [Next]_vars
  PROVE  CutsClosed'
<1>0. /\ TypeOK /\ Workers /\ LinksKnown /\ RolesKnown /\ CutsKnown
      /\ ln \in [Attempts -> {"none", "pending", "active", "closed"}]
      /\ None \notin Attempts /\ \A t \in Threads : cut[t] \in Attempts \cup {None}
      /\ link \in Attempts \cup {None}
  BY BaseFacts
<1>00. Advance /\ ("revived" \in history => "revived" \in history')
  BY <1>0, BaseStep, LastingStays DEF Lasting
<1>000. TypeOK
  BY <1>0
<1> USE <1>0, <1>00 DEF CutsClosed, Advance
<1>1. CASE UserConnect
  <2>1. \A u \in Threads : cut'[u] \in {cut[u], None}
    BY <1>1, UserConnectDoes DEF OnlyMoves, BothMove
  <2> QED BY <2>1
<1>2. CASE Disconnect
  <2>1. \/ \A u \in Threads : cut'[u] \in {cut[u], None}
        \/ /\ link \in Attempts /\ ln' = [ln EXCEPT ![link] = "closed"]
           /\ \A u \in Threads : cut'[u] \in {cut[u], None, link}
    BY <1>2, DisconnectDoes DEF OnlyMoves
  <2> QED BY <2>1
<1>3. CASE Disconnected
  <2>1. \A u \in Threads : cut'[u] \in {cut[u], None}
    BY <1>3, DisconnectedDoes DEF OnlyMoves, BothMove
  <2> QED BY <2>1
<1>4. CASE SetAutoReconnect
  <2>1. \A u \in Threads : cut'[u] \in {cut[u], None}
    BY <1>4, SetAutoReconnectDoes DEF OnlyMoves, BothMove
  <2> QED BY <2>1
<1>5. CASE TimerFires
  <2>1. \A u \in Threads : cut'[u] \in {cut[u], None}
    BY <1>5, TimerFiresDoes DEF OnlyMoves, BothMove
  <2> QED BY <2>1
<1>6. CASE FireReconnect
  <2>1. \A u \in Threads : cut'[u] \in {cut[u], None}
    BY <1>6, FireReconnectDoes DEF OnlyMoves, BothMove
  <2> QED BY <2>1
<1>7. CASE TimerConnect
  <2>1. \A u \in Threads : cut'[u] \in {cut[u], None}
    BY <1>7, TimerConnectDoes DEF OnlyMoves, BothMove
  <2> QED BY <2>1
<1>8. CASE NoteAnnounce
  <2>1. \A u \in Threads : cut'[u] \in {cut[u], None}
    BY <1>8, NoteAnnounceDoes DEF OnlyMoves, BothMove
  <2> QED BY <2>1
<1>9. ASSUME NEW e \in Attempts, WorkerCancelled(e) PROVE CutsClosed'
  <2>1. \A u \in Threads : cut'[u] \in {cut[u], None}
    BY <1>9, WorkerCancelledDoes DEF OnlyMoves, BothMove
  <2> QED BY <2>1
<1>10. ASSUME NEW e \in Attempts, WorkerFails(e) PROVE CutsClosed'
  <2>1. \A u \in Threads : cut'[u] \in {cut[u], None}
    BY <1>10, WorkerFailsDoes DEF OnlyMoves, BothMove
  <2> QED BY <2>1
<1>11. ASSUME NEW e \in Attempts, WorkerChecks(e) PROVE CutsClosed'
  <2>1. \A u \in Threads : cut'[u] \in {cut[u], None}
    BY <1>11, WorkerChecksDoes DEF OnlyMoves, BothMove
  <2> QED BY <2>1
<1>12. ASSUME NEW e \in Attempts, WorkerBuilds(e) PROVE CutsClosed'
  <2>1. \A u \in Threads : cut'[u] \in {cut[u], None}
    BY <1>12, WorkerBuildsDoes DEF OnlyMoves, BothMove
  <2> QED BY <2>1
<1>13. ASSUME NEW e \in Attempts, WorkerOvertaken(e) PROVE CutsClosed'
  <2>1. ln' = [ln EXCEPT ![e] = "closed"] /\ (OnlyMoves(<<"worker", e>>, "closing", e))
    BY <1>13, WorkerOvertakenDoes
  <2>2. \A u \in Threads : cut'[u] \in {cut[u], None, e}
    BY <2>1 DEF OnlyMoves
  <2> QED BY <2>1, <2>2
<1>14. ASSUME NEW e \in Attempts, WorkerRegisters(e) PROVE CutsClosed'
  <2>1. \A u \in Threads : cut'[u] \in {cut[u], None}
    BY <1>14, WorkerRegistersDoes DEF OnlyMoves, BothMove
  <2> QED BY <2>1
<1>15. ASSUME NEW e \in Attempts, WorkerLoopback(e) PROVE CutsClosed'
  <2>1. \A u \in Threads : cut'[u] \in {cut[u], None}
    BY <1>15, WorkerLoopbackDoes DEF OnlyMoves, BothMove
  <2> QED BY <2>1
<1>16. ASSUME NEW e \in Attempts, Establish(e) PROVE CutsClosed'
  <2>1. \A u \in Threads : cut'[u] \in {cut[u], None}
    BY <1>16, EstablishDoes DEF OnlyMoves, BothMove
  <2> QED BY <2>1
<1>17. ASSUME NEW e \in Attempts, OnEstablished(e) PROVE CutsClosed'
  <2>1. \A u \in Threads : cut'[u] \in {cut[u], None}
    BY <1>17, OnEstablishedDoes DEF OnlyMoves, BothMove
  <2> QED BY <2>1
<1>18. ASSUME NEW e \in Attempts, IdentifyFails(e) PROVE CutsClosed'
  <2>1. ln' = [ln EXCEPT ![e] = "closed"] /\ (OnlyMoves(<<"rns", e>>, "closing", e) \/ OnlyMoves(<<"rns", e>>, "idle", None))
    BY <1>18, IdentifyFailsDoes
  <2>2. \A u \in Threads : cut'[u] \in {cut[u], None, e}
    BY <2>1 DEF OnlyMoves
  <2> QED BY <2>1, <2>2
<1>19. ASSUME NEW e \in Attempts, LinkCloses(e) PROVE CutsClosed'
  <2>1. ln' = [ln EXCEPT ![e] = "closed"] /\ (OnlyMoves(<<"close", e>>, "closing", e))
    BY <1>19, LinkClosesDoes
  <2>2. \A u \in Threads : cut'[u] \in {cut[u], None, e}
    BY <2>1 DEF OnlyMoves
  <2> QED BY <2>1, <2>2
<1>20. ASSUME NEW e \in Attempts, DogRests(e) PROVE CutsClosed'
  <2>1. \A u \in Threads : cut'[u] \in {cut[u], None}
    BY <1>20, DogRestsDoes DEF OnlyMoves, BothMove
  <2> QED BY <2>1
<1>21. ASSUME NEW e \in Attempts, DogBites(e) PROVE CutsClosed'
  <2>1. ln' = [ln EXCEPT ![e] = "closed"] /\ (OnlyMoves(<<"dog", e>>, "closing", e))
    BY <1>21, DogBitesDoes
  <2>2. \A u \in Threads : cut'[u] \in {cut[u], None, e}
    BY <2>1 DEF OnlyMoves
  <2> QED BY <2>1, <2>2
<1>22. ASSUME NEW e \in Attempts, DogFails(e) PROVE CutsClosed'
  <2>1. \A u \in Threads : cut'[u] \in {cut[u], None}
    BY <1>22, DogFailsDoes DEF OnlyMoves, BothMove
  <2> QED BY <2>1
<1>23. ASSUME NEW e \in Attempts, HelloStops(e) PROVE CutsClosed'
  <2>1. \A u \in Threads : cut'[u] \in {cut[u], None}
    BY <1>23, HelloStopsDoes DEF OnlyMoves, BothMove
  <2> QED BY <2>1
<1>24. ASSUME NEW e \in Attempts, HelloSends(e) PROVE CutsClosed'
  <2>1. \A u \in Threads : cut'[u] \in {cut[u], None}
    BY <1>24, HelloSendsDoes DEF OnlyMoves, BothMove
  <2> QED BY <2>1
<1>25. ASSUME NEW e \in Attempts, HelloLost(e) PROVE CutsClosed'
  <2>1. /\ ~LinkActive /\ ln' = ln /\ history' = history \cup (IF LinkOpen THEN {"revived"} ELSE {})
        /\ \A u \in Threads : cut'[u] \in {cut[u], None} \/ (u = <<"hello", e>> /\ cut'[u] = link)
    BY <1>25, HelloLostDoes DEF OnlyMoves
  <2>2. link # None => ln[link] = "closed" \/ LinkOpen
    <3>1. link # None => link \in Attempts /\ ln[link] # "none"
      BY DEF LinksKnown, Started
    <3> QED BY <3>1 DEF LinkOpen, Open
  <2> QED BY <2>1, <2>2
<1>26. ASSUME NEW e \in Attempts, WelcomeTimeout(e) PROVE CutsClosed'
  <2>1. \A u \in Threads : cut'[u] \in {cut[u], None}
    BY <1>26, WelcomeTimeoutDoes DEF OnlyMoves, BothMove
  <2> QED BY <2>1
<1>27. ASSUME NEW e \in Attempts, FailMarks(e) PROVE CutsClosed'
  <2>1. \/ \A u \in Threads : cut'[u] \in {cut[u], None}
        \/ /\ link \in Attempts /\ ln' = [ln EXCEPT ![link] = "closed"]
           /\ \A u \in Threads : cut'[u] \in {cut[u], None, link}
    BY <1>27, FailMarksDoes DEF OnlyMoves
  <2> QED BY <2>1
<1>28. ASSUME NEW e \in Attempts, FailClears(e) PROVE CutsClosed'
  <2>1. \A u \in Threads : cut'[u] \in {cut[u], None}
    BY <1>28, FailClearsDoes DEF OnlyMoves, BothMove
  <2> QED BY <2>1
<1>29. ASSUME NEW e \in Attempts, WelcomeArrives(e) PROVE CutsClosed'
  <2>1. \A u \in Threads : cut'[u] \in {cut[u], None}
    BY <1>29, WelcomeArrivesDoes DEF OnlyMoves, BothMove
  <2> QED BY <2>1
<1>30. ASSUME NEW e \in Attempts, Welcome(e) PROVE CutsClosed'
  <2>1. \A u \in Threads : cut'[u] \in {cut[u], None}
    BY <1>30, WelcomeDoes DEF OnlyMoves, BothMove
  <2> QED BY <2>1
<1>31. ASSUME NEW e \in Attempts, Connected(e) PROVE CutsClosed'
  <2>1. \A u \in Threads : cut'[u] \in {cut[u], None}
    BY <1>31, ConnectedDoes DEF OnlyMoves, BothMove
  <2> QED BY <2>1
<1>32. ASSUME NEW t \in Threads, Closing(t) PROVE CutsClosed'
  <2>1. \A u \in Threads : cut'[u] \in {cut[u], None}
    BY <1>32, ClosingDoes DEF OnlyMoves
  <2> QED BY <2>1
<1>33. CASE UNCHANGED vars
  <2>1. \A u \in Threads : cut'[u] = cut[u]
    BY <1>33 DEF vars
  <2> QED BY <2>1
<1> QED
  BY <1>1, <1>2, <1>3, <1>4, <1>5, <1>6, <1>7, <1>8, <1>9, <1>10, <1>11, <1>12, <1>13, <1>14,
       <1>15, <1>16, <1>17, <1>18, <1>19, <1>20, <1>21, <1>22, <1>23, <1>24, <1>25, <1>26, <1>27,
       <1>28, <1>29, <1>30, <1>31, <1>32, <1>33 DEF Next, Attempt

\* SessionEnds of one step.
LEMMA SessionEndsStep ==
  ASSUME Base, CutsClosed, [Next]_vars, welcomed, ~welcomed'
  PROVE  ~LinkOpen \/ Happened({"revived"})
<1>0. /\ TypeOK /\ Workers /\ LinksKnown /\ RolesKnown /\ CutsKnown
      /\ None \notin Attempts /\ \A t \in Threads : cut[t] \in Attempts \cup {None}
      /\ link \in Attempts \cup {None}
  BY BaseFacts
<1> DEFINE Goal == ~LinkOpen \/ Happened({"revived"})
<1> USE <1>0
<1>1. CASE UserConnect
  BY <1>1, UserConnectDoes
<1>2. CASE Disconnect
  BY <1>2, DisconnectDoes
<1>3. CASE Disconnected
  BY <1>3, DisconnectedDoes
<1>4. CASE SetAutoReconnect
  BY <1>4, SetAutoReconnectDoes
<1>5. CASE TimerFires
  BY <1>5, TimerFiresDoes
<1>6. CASE FireReconnect
  BY <1>6, FireReconnectDoes
<1>7. CASE TimerConnect
  BY <1>7, TimerConnectDoes
<1>8. CASE NoteAnnounce
  BY <1>8, NoteAnnounceDoes
<1>9. ASSUME NEW e \in Attempts, WorkerCancelled(e) PROVE Goal
  BY <1>9, WorkerCancelledDoes
<1>10. ASSUME NEW e \in Attempts, WorkerFails(e) PROVE Goal
  BY <1>10, WorkerFailsDoes
<1>11. ASSUME NEW e \in Attempts, WorkerChecks(e) PROVE Goal
  BY <1>11, WorkerChecksDoes
<1>12. ASSUME NEW e \in Attempts, WorkerBuilds(e) PROVE Goal
  BY <1>12, WorkerBuildsDoes
<1>13. ASSUME NEW e \in Attempts, WorkerOvertaken(e) PROVE Goal
  BY <1>13, WorkerOvertakenDoes
<1>14. ASSUME NEW e \in Attempts, WorkerRegisters(e) PROVE Goal
  BY <1>14, WorkerRegistersDoes
<1>15. ASSUME NEW e \in Attempts, WorkerLoopback(e) PROVE Goal
  BY <1>15, WorkerLoopbackDoes
<1>16. ASSUME NEW e \in Attempts, Establish(e) PROVE Goal
  BY <1>16, EstablishDoes
<1>17. ASSUME NEW e \in Attempts, OnEstablished(e) PROVE Goal
  BY <1>17, OnEstablishedDoes
<1>18. ASSUME NEW e \in Attempts, IdentifyFails(e) PROVE Goal
  BY <1>18, IdentifyFailsDoes
<1>19. ASSUME NEW e \in Attempts, LinkCloses(e) PROVE Goal
  BY <1>19, LinkClosesDoes
<1>20. ASSUME NEW e \in Attempts, DogRests(e) PROVE Goal
  BY <1>20, DogRestsDoes
<1>21. ASSUME NEW e \in Attempts, DogBites(e) PROVE Goal
  BY <1>21, DogBitesDoes
<1>22. ASSUME NEW e \in Attempts, DogFails(e) PROVE Goal
  BY <1>22, DogFailsDoes
<1>23. ASSUME NEW e \in Attempts, HelloStops(e) PROVE Goal
  BY <1>23, HelloStopsDoes
<1>24. ASSUME NEW e \in Attempts, HelloSends(e) PROVE Goal
  BY <1>24, HelloSendsDoes
<1>25. ASSUME NEW e \in Attempts, HelloLost(e) PROVE Goal
  BY <1>25, HelloLostDoes
<1>26. ASSUME NEW e \in Attempts, WelcomeTimeout(e) PROVE Goal
  BY <1>26, WelcomeTimeoutDoes
<1>27. ASSUME NEW e \in Attempts, FailMarks(e) PROVE Goal
  BY <1>27, FailMarksDoes
<1>28. ASSUME NEW e \in Attempts, FailClears(e) PROVE Goal
  BY <1>28, FailClearsDoes
<1>29. ASSUME NEW e \in Attempts, WelcomeArrives(e) PROVE Goal
  BY <1>29, WelcomeArrivesDoes
<1>30. ASSUME NEW e \in Attempts, Welcome(e) PROVE Goal
  BY <1>30, WelcomeDoes
<1>31. ASSUME NEW e \in Attempts, Connected(e) PROVE Goal
  BY <1>31, ConnectedDoes
<1>32. ASSUME NEW t \in Threads, OnClosed(t) PROVE Goal
  <2>1. ~Ignored(cut[t])
    BY <1>32, OnClosedTo
  <2>2. link = None \/ cut[t] = link
    BY <2>1 DEF Ignored
  <2> QED BY <2>2 DEF CutsClosed, LinkOpen, Open, Happened
<1>33. ASSUME NEW t \in Threads, OnClosedTail(t) PROVE Goal
  BY <1>33 DEF OnClosedTail, hub, session
<1>34. ASSUME NEW t \in Threads, ScheduleReconnect(t) PROVE Goal
  BY <1>34 DEF ScheduleReconnect, hub, session
<1>35. ASSUME NEW t \in Threads, MaybeSchedule(t) PROVE Goal
  BY <1>35 DEF MaybeSchedule, hub, session
<1>36. CASE UNCHANGED vars
  BY <1>36 DEF vars, hub, session
<1> QED
  BY <1>1, <1>2, <1>3, <1>4, <1>5, <1>6, <1>7, <1>8, <1>9, <1>10, <1>11, <1>12, <1>13, <1>14,
       <1>15, <1>16, <1>17, <1>18, <1>19, <1>20, <1>21, <1>22, <1>23, <1>24, <1>25, <1>26, <1>27,
       <1>28, <1>29, <1>30, <1>31, <1>32, <1>33, <1>34, <1>35, <1>36 DEF Next, Attempt, Closing

--------------------------------------------------------------------------------
(* No link is lost sight of *)

\* An open link is the session's, or its worker has it still.
OpenSeen ==
  \A e \in Attempts : Open(e) => link = e \/ Worker[e] = "built" \/ Happened({"replaced", "revived"})

\* So an excuse that lasts stays one.
LEMMA HappenedStays ==
  ASSUME TypeOK, [Next]_vars
  PROVE  \A what \in SUBSET Lasting : Happened(what) => Happened(what)'
  BY LastingStays DEF Happened

LEMMA NextIsMore == ASSUME TypeOK PROVE epoch + 1 > epoch /\ epoch \in Nat
  BY AttemptNumbers DEF TypeOK

LEMMA OpenSeenStep ==
  ASSUME Base, CutsClosed, OpenSeen, [Next]_vars
  PROVE  OpenSeen'
<1>0. /\ TypeOK /\ Workers /\ LinksKnown /\ RolesKnown /\ CutsKnown
      /\ Worker \in [Attempts -> Steps] /\ ln \in [Attempts -> {"none", "pending", "active", "closed"}]
      /\ None \notin Attempts /\ \A t \in Threads : cut[t] \in Attempts \cup {None}
      /\ link \in Attempts \cup {None}
  BY BaseFacts
<1>00. Advance
  BY BaseStep
<1>000. Happened({"replaced", "revived"}) => Happened({"replaced", "revived"})'
  BY <1>0, HappenedStays DEF Lasting
<1>0000. \A t \in Threads : cut[t] # None => ~Open(cut[t]) \/ Happened({"replaced", "revived"})
  BY DEF CutsClosed, Open, Happened
<1> USE <1>0, <1>00, <1>000, <1>0000 DEF OpenSeen, Open
<1>1. CASE UserConnect
  <2>1. /\ link' = link /\ ln' = ln /\ epoch + 1 \in Attempts
        /\ Worker' = [Worker EXCEPT ![epoch + 1] = "waiting"]
    BY <1>1, UserConnectDoes
  <2>2. epoch + 1 > epoch
    BY NextIsMore
  <2> QED BY <2>1, <2>2 DEF Workers
<1>2. CASE Disconnect
  <2>1. /\ Worker' = Worker
        /\ (link = None /\ ln' = ln) \/ (link \in Attempts /\ ln' = [ln EXCEPT ![link] = "closed"])
    BY <1>2, DisconnectDoes
  <2> QED BY <2>1
<1>3. CASE Disconnected
  <2>1. link' = link /\ ln' = ln /\ Worker' = Worker
    BY <1>3, DisconnectedDoes
  <2> QED BY <2>1
<1>4. CASE SetAutoReconnect
  <2>1. link' = link /\ ln' = ln /\ Worker' = Worker
    BY <1>4, SetAutoReconnectDoes
  <2> QED BY <2>1
<1>5. CASE TimerFires
  <2>1. link' = link /\ ln' = ln /\ Worker' = Worker
    BY <1>5, TimerFiresDoes
  <2> QED BY <2>1
<1>6. CASE FireReconnect
  <2>1. link' = link /\ ln' = ln /\ Worker' = Worker
    BY <1>6, FireReconnectDoes
  <2> QED BY <2>1
<1>7. CASE TimerConnect
  <2>1. /\ link' = link /\ ln' = ln
        /\ \/ Worker' = Worker
           \/ /\ epoch + 1 \in Attempts
              /\ Worker' = [Worker EXCEPT ![epoch + 1] = "waiting"]
    BY <1>7, TimerConnectDoes
  <2>2. epoch + 1 > epoch
    BY NextIsMore
  <2> QED BY <2>1, <2>2 DEF Workers
<1>8. CASE NoteAnnounce
  <2>1. link' = link /\ ln' = ln /\ Worker' = Worker
    BY <1>8, NoteAnnounceDoes
  <2> QED BY <2>1
<1>9. ASSUME NEW e \in Attempts, WorkerCancelled(e) PROVE OpenSeen'
  <2>1. link' = link /\ ln' = ln /\ Worker[e] = "waiting" /\ Worker' = [Worker EXCEPT ![e] = "idle"]
    BY <1>9, WorkerCancelledDoes
  <2> QED BY <2>1
<1>10. ASSUME NEW e \in Attempts, WorkerFails(e) PROVE OpenSeen'
  <2>1. link' = link /\ ln' = ln /\ Worker[e] = "waiting" /\ Worker' = [Worker EXCEPT ![e] = "maybe"]
    BY <1>10, WorkerFailsDoes
  <2> QED BY <2>1
<1>11. ASSUME NEW e \in Attempts, WorkerChecks(e) PROVE OpenSeen'
  <2>1. link' = link /\ ln' = ln /\ Worker[e] = "waiting" /\ Worker' = [Worker EXCEPT ![e] = "checked"]
    BY <1>11, WorkerChecksDoes
  <2> QED BY <2>1
<1>12. ASSUME NEW e \in Attempts, WorkerBuilds(e) PROVE OpenSeen'
  <2>1. /\ link' = link /\ ln' = [ln EXCEPT ![e] = "pending"] /\ Worker[e] = "checked"
        /\ Worker' = [Worker EXCEPT ![e] = "built"]
    BY <1>12, WorkerBuildsDoes
  <2> QED BY <2>1
<1>13. ASSUME NEW e \in Attempts, WorkerOvertaken(e) PROVE OpenSeen'
  <2>1. /\ link' = link /\ ln' = [ln EXCEPT ![e] = "closed"] /\ Worker[e] = "built"
        /\ Worker' = [Worker EXCEPT ![e] = "closing"]
    BY <1>13, WorkerOvertakenDoes
  <2> QED BY <2>1
<1>14. ASSUME NEW e \in Attempts, WorkerRegisters(e) PROVE OpenSeen'
  <2>1. link' = e /\ ln' = ln /\ Worker' = [Worker EXCEPT ![e] = "idle"]
    BY <1>14, WorkerRegistersDoes
  <2>2. LinkOpen => Happened({"replaced", "revived"})'
    <3>1. history' = (IF stopHello' THEN history ELSE history \ {"hushed"})
                       \cup (IF manual \/ e # epoch THEN {"late"} ELSE {})
                       \cup (IF LinkOpen THEN {"replaced"} ELSE {})
      BY <1>14, WorkerRegistersDoes
    <3>2. LinkOpen => "replaced" \in history'
      BY <3>1
    <3> QED BY <3>2 DEF Happened
  <2> QED BY <2>1, <2>2 DEF LinkOpen
<1>15. ASSUME NEW e \in Attempts, WorkerLoopback(e) PROVE OpenSeen'
  <2>1. link' = e /\ ln' = [ln EXCEPT ![e] = "active"] /\ Worker' = [Worker EXCEPT ![e] = "idle"]
    BY <1>15, WorkerLoopbackDoes
  <2>2. LinkOpen => Happened({"replaced", "revived"})'
    <3>1. history' = (IF stopHello' THEN history ELSE history \ {"hushed"})
                       \cup (IF manual \/ e # epoch THEN {"late"} ELSE {})
                       \cup (IF LinkOpen THEN {"replaced"} ELSE {})
      BY <1>15, WorkerLoopbackDoes
    <3>2. LinkOpen => "replaced" \in history'
      BY <3>1
    <3> QED BY <3>2 DEF Happened
  <2> QED BY <2>1, <2>2 DEF LinkOpen
<1>16. ASSUME NEW e \in Attempts, Establish(e) PROVE OpenSeen'
  <2>1. link' = link /\ ln[e] = "pending" /\ ln' = [ln EXCEPT ![e] = "active"] /\ Worker' = Worker
    BY <1>16, EstablishDoes
  <2> QED BY <2>1
<1>17. ASSUME NEW e \in Attempts, OnEstablished(e) PROVE OpenSeen'
  <2>1. link' = link /\ ln' = ln /\ Worker' = Worker
    BY <1>17, OnEstablishedDoes
  <2> QED BY <2>1
<1>18. ASSUME NEW e \in Attempts, IdentifyFails(e) PROVE OpenSeen'
  <2>1. link' = link /\ ln' = [ln EXCEPT ![e] = "closed"] /\ Worker' = Worker
    BY <1>18, IdentifyFailsDoes
  <2> QED BY <2>1
<1>19. ASSUME NEW e \in Attempts, LinkCloses(e) PROVE OpenSeen'
  <2>1. link' = link /\ ln' = [ln EXCEPT ![e] = "closed"] /\ Worker' = Worker
    BY <1>19, LinkClosesDoes
  <2> QED BY <2>1
<1>20. ASSUME NEW e \in Attempts, DogRests(e) PROVE OpenSeen'
  <2>1. link' = link /\ ln' = ln /\ Worker' = Worker
    BY <1>20, DogRestsDoes
  <2> QED BY <2>1
<1>21. ASSUME NEW e \in Attempts, DogBites(e) PROVE OpenSeen'
  <2>1. link' = link /\ ln' = [ln EXCEPT ![e] = "closed"] /\ Worker' = Worker
    BY <1>21, DogBitesDoes
  <2> QED BY <2>1
<1>22. ASSUME NEW e \in Attempts, DogFails(e) PROVE OpenSeen'
  <2>1. link' = link /\ ln' = ln /\ Worker' = Worker
    BY <1>22, DogFailsDoes
  <2> QED BY <2>1
<1>23. ASSUME NEW e \in Attempts, HelloStops(e) PROVE OpenSeen'
  <2>1. link' = link /\ ln' = ln /\ Worker' = Worker
    BY <1>23, HelloStopsDoes
  <2> QED BY <2>1
<1>24. ASSUME NEW e \in Attempts, HelloSends(e) PROVE OpenSeen'
  <2>1. link' = link /\ ln' = ln /\ Worker' = Worker
    BY <1>24, HelloSendsDoes
  <2> QED BY <2>1
<1>25. ASSUME NEW e \in Attempts, HelloLost(e) PROVE OpenSeen'
  <2>1. link' = link /\ ln' = ln /\ Worker' = Worker
    BY <1>25, HelloLostDoes
  <2> QED BY <2>1
<1>26. ASSUME NEW e \in Attempts, WelcomeTimeout(e) PROVE OpenSeen'
  <2>1. link' = link /\ ln' = ln /\ Worker' = Worker
    BY <1>26, WelcomeTimeoutDoes
  <2> QED BY <2>1
<1>27. ASSUME NEW e \in Attempts, FailMarks(e) PROVE OpenSeen'
  <2>1. link' = link /\ Worker' = Worker /\ (ln' = ln \/ (link \in Attempts /\ ln' = [ln EXCEPT ![link] = "closed"]))
    BY <1>27, FailMarksDoes
  <2> QED BY <2>1
<1>28. ASSUME NEW e \in Attempts, FailClears(e) PROVE OpenSeen'
  <2>1. /\ link' = (IF link = cut[<<"fail", e>>] THEN None ELSE link) /\ Worker' = Worker /\ ln' = ln
        /\ <<"fail", e>> \in Threads
    BY <1>28, FailClearsDoes, ThreadNames, RoleNames
  <2> QED BY <2>1
<1>29. ASSUME NEW e \in Attempts, WelcomeArrives(e) PROVE OpenSeen'
  <2>1. link' = link /\ ln' = ln /\ Worker' = Worker
    BY <1>29, WelcomeArrivesDoes
  <2> QED BY <2>1
<1>30. ASSUME NEW e \in Attempts, Welcome(e) PROVE OpenSeen'
  <2>1. link' = link /\ ln' = ln /\ Worker' = Worker
    BY <1>30, WelcomeDoes
  <2> QED BY <2>1
<1>31. ASSUME NEW e \in Attempts, Connected(e) PROVE OpenSeen'
  <2>1. link' = link /\ ln' = ln /\ Worker' = Worker
    BY <1>31, ConnectedDoes
  <2> QED BY <2>1
<1>32. ASSUME NEW t \in Threads, OnClosed(t) PROVE OpenSeen'
  <2>8. \A e \in Attempts : Worker[e] = "built" => Worker'[e] = "built"
    <3>1. at[t] \in Midway /\ \E s \in Midway \cup {After(t), "idle"} : MovesTo(t, s)
      BY <1>32, ClosingDoes DEF Closing
    <3> QED BY <3>1 DEF MovesTo, Midway
  <2>1. ln' = ln /\ (link' = link \/ (link' = None /\ (link = None \/ cut[t] = link)))
    BY <1>32, OnClosedTo DEF net, Ignored
  <2> QED BY <2>1, <2>8
<1>33. ASSUME NEW t \in Threads, OnClosedTail(t) PROVE OpenSeen'
  <2>8. \A e \in Attempts : Worker[e] = "built" => Worker'[e] = "built"
    <3>1. at[t] \in Midway /\ \E s \in Midway \cup {After(t), "idle"} : MovesTo(t, s)
      BY <1>33, ClosingDoes DEF Closing
    <3> QED BY <3>1 DEF MovesTo, Midway
  <2>1. link' = link /\ ln' = ln
    BY <1>33 DEF OnClosedTail, hub, session, net
  <2> QED BY <2>1, <2>8
<1>34. ASSUME NEW t \in Threads, ScheduleReconnect(t) PROVE OpenSeen'
  <2>8. \A e \in Attempts : Worker[e] = "built" => Worker'[e] = "built"
    <3>1. at[t] \in Midway /\ \E s \in Midway \cup {After(t), "idle"} : MovesTo(t, s)
      BY <1>34, ClosingDoes DEF Closing
    <3> QED BY <3>1 DEF MovesTo, Midway
  <2>1. link' = link /\ ln' = ln
    BY <1>34 DEF ScheduleReconnect, hub, session, net
  <2> QED BY <2>1, <2>8
<1>35. ASSUME NEW t \in Threads, MaybeSchedule(t) PROVE OpenSeen'
  <2>8. \A e \in Attempts : Worker[e] = "built" => Worker'[e] = "built"
    <3>1. at[t] \in Midway /\ \E s \in Midway \cup {After(t), "idle"} : MovesTo(t, s)
      BY <1>35, ClosingDoes DEF Closing
    <3> QED BY <3>1 DEF MovesTo, Midway
  <2>1. link' = link /\ ln' = ln
    BY <1>35 DEF MaybeSchedule, hub, session, net
  <2> QED BY <2>1, <2>8
<1>36. CASE UNCHANGED vars
  <2>1. link' = link /\ ln' = ln /\ Worker' = Worker
    BY <1>36, SameViews DEF vars, hub, session
  <2> QED BY <2>1
<1> QED
  BY <1>1, <1>2, <1>3, <1>4, <1>5, <1>6, <1>7, <1>8, <1>9, <1>10, <1>11, <1>12, <1>13, <1>14,
       <1>15, <1>16, <1>17, <1>18, <1>19, <1>20, <1>21, <1>22, <1>23, <1>24, <1>25, <1>26, <1>27,
       <1>28, <1>29, <1>30, <1>31, <1>32, <1>33, <1>34, <1>35, <1>36 DEF Next, Attempt, Closing

\* Quiet threads are not midway.
LEMMA QuietMeans ==
  ASSUME TypeOK, Quiet
  PROVE  /\ loose = 0 /\ \A t \in Threads : at[t] \in {"idle", "watching"}
         /\ \A e \in Attempts : /\ Worker[e] \in {"idle", "watching"} /\ Rns[e] \in {"idle", "watching"}
                                /\ Hello[e] \in {"idle", "watching"} /\ Fail[e] \in {"idle", "watching"}
                                /\ Dog[e] \in {"idle", "watching"} /\ Answer[e] \in {"idle", "watching"}
<1>1. loose = 0 /\ \A t \in Threads : at[t] \in {"idle", "watching"}
  BY DEF Quiet, Rested
<1>2. \A q \in Roles, e \in Attempts : at[<<q, e>>] \in {"idle", "watching"}
  BY <1>1, ThreadNames
<1> QED BY <1>1, <1>2, RoleNames DEF Worker, Rns, Hello, Fail, Dog, Answer

\* Hence no link is lost sight of once everybody is through.
LEMMA OrphanExplainedHolds ==
  ASSUME TypeOK, OpenSeen PROVE OrphanExplained
  BY QuietMeans DEF OpenSeen, OrphanExplained

--------------------------------------------------------------------------------
(* Whose the session and its stop flag are *)

\* The closed callback sets the stop flag of whichever HELLO loop runs, before it looks
\* whose link closed.  That it stops the loop of an open link for this reason only takes
\* what the latest attempt finds: its link or none (LatestHas), a flag that is down
\* (LatestBuilt), and a link the callback has not seen (NewLink).

\* The link of the session is not one the closed callback has seen.
NewLink == link # None => lastClosed # link

LEMMA NewLinkStep == ASSUME Base, NewLink, [Next]_vars PROVE NewLink'
<1>0. /\ TypeOK /\ Workers /\ LinksKnown /\ RolesKnown /\ CutsKnown
      /\ Worker \in [Attempts -> Steps] /\ ln \in [Attempts -> {"none", "pending", "active", "closed"}]
      /\ None \notin Attempts /\ \A t \in Threads : cut[t] \in Attempts \cup {None}
      /\ link \in Attempts \cup {None} /\ epoch \in Attempts \cup {None}
  BY BaseFacts
<1> USE <1>0 DEF NewLink
<1>1. CASE UserConnect
  <2>1. link' \in {link, None} /\ lastClosed' = lastClosed
    BY <1>1, UserConnectDoes
  <2> QED BY <2>1
<1>2. CASE Disconnect
  <2>1. link' \in {link, None} /\ lastClosed' = lastClosed
    BY <1>2, DisconnectDoes
  <2> QED BY <2>1
<1>3. CASE Disconnected
  <2>1. link' \in {link, None} /\ lastClosed' = lastClosed
    BY <1>3, DisconnectedDoes
  <2> QED BY <2>1
<1>4. CASE SetAutoReconnect
  <2>1. link' \in {link, None} /\ lastClosed' = lastClosed
    BY <1>4, SetAutoReconnectDoes
  <2> QED BY <2>1
<1>5. CASE TimerFires
  <2>1. link' \in {link, None} /\ lastClosed' = lastClosed
    BY <1>5, TimerFiresDoes
  <2> QED BY <2>1
<1>6. CASE FireReconnect
  <2>1. link' \in {link, None} /\ lastClosed' = lastClosed
    BY <1>6, FireReconnectDoes
  <2> QED BY <2>1
<1>7. CASE TimerConnect
  <2>1. link' \in {link, None} /\ lastClosed' = lastClosed
    BY <1>7, TimerConnectDoes
  <2> QED BY <2>1
<1>8. CASE NoteAnnounce
  <2>1. link' \in {link, None} /\ lastClosed' = lastClosed
    BY <1>8, NoteAnnounceDoes
  <2> QED BY <2>1
<1>9. ASSUME NEW e \in Attempts, WorkerCancelled(e) PROVE NewLink'
  <2>1. link' \in {link, None} /\ lastClosed' = lastClosed
    BY <1>9, WorkerCancelledDoes
  <2> QED BY <2>1
<1>10. ASSUME NEW e \in Attempts, WorkerFails(e) PROVE NewLink'
  <2>1. link' \in {link, None} /\ lastClosed' = lastClosed
    BY <1>10, WorkerFailsDoes
  <2> QED BY <2>1
<1>11. ASSUME NEW e \in Attempts, WorkerChecks(e) PROVE NewLink'
  <2>1. link' \in {link, None} /\ lastClosed' = lastClosed
    BY <1>11, WorkerChecksDoes
  <2> QED BY <2>1
<1>12. ASSUME NEW e \in Attempts, WorkerBuilds(e) PROVE NewLink'
  <2>1. link' \in {link, None} /\ lastClosed' = lastClosed
    BY <1>12, WorkerBuildsDoes
  <2> QED BY <2>1
<1>13. ASSUME NEW e \in Attempts, WorkerOvertaken(e) PROVE NewLink'
  <2>1. link' \in {link, None} /\ lastClosed' = lastClosed
    BY <1>13, WorkerOvertakenDoes
  <2> QED BY <2>1
<1>14. ASSUME NEW e \in Attempts, WorkerRegisters(e) PROVE NewLink'
  <2>1. link' = e /\ lastClosed' = lastClosed /\ Worker[e] = "built"
    BY <1>14, WorkerRegistersDoes
  <2>2. ~Started(e)
    BY <2>1 DEF Workers, Started
  <2> QED BY <2>1, <2>2 DEF LinksKnown
<1>15. ASSUME NEW e \in Attempts, WorkerLoopback(e) PROVE NewLink'
  <2>1. link' = e /\ lastClosed' = lastClosed /\ Worker[e] = "waiting"
    BY <1>15, WorkerLoopbackDoes
  <2>2. ~Started(e)
    BY <2>1 DEF Workers, Started
  <2> QED BY <2>1, <2>2 DEF LinksKnown
<1>16. ASSUME NEW e \in Attempts, Establish(e) PROVE NewLink'
  <2>1. link' \in {link, None} /\ lastClosed' = lastClosed
    BY <1>16, EstablishDoes
  <2> QED BY <2>1
<1>17. ASSUME NEW e \in Attempts, OnEstablished(e) PROVE NewLink'
  <2>1. link' \in {link, None} /\ lastClosed' = lastClosed
    BY <1>17, OnEstablishedDoes
  <2> QED BY <2>1
<1>18. ASSUME NEW e \in Attempts, IdentifyFails(e) PROVE NewLink'
  <2>1. link' \in {link, None} /\ lastClosed' = lastClosed
    BY <1>18, IdentifyFailsDoes
  <2> QED BY <2>1
<1>19. ASSUME NEW e \in Attempts, LinkCloses(e) PROVE NewLink'
  <2>1. link' \in {link, None} /\ lastClosed' = lastClosed
    BY <1>19, LinkClosesDoes
  <2> QED BY <2>1
<1>20. ASSUME NEW e \in Attempts, DogRests(e) PROVE NewLink'
  <2>1. link' \in {link, None} /\ lastClosed' = lastClosed
    BY <1>20, DogRestsDoes
  <2> QED BY <2>1
<1>21. ASSUME NEW e \in Attempts, DogBites(e) PROVE NewLink'
  <2>1. link' \in {link, None} /\ lastClosed' = lastClosed
    BY <1>21, DogBitesDoes
  <2> QED BY <2>1
<1>22. ASSUME NEW e \in Attempts, DogFails(e) PROVE NewLink'
  <2>1. link' \in {link, None} /\ lastClosed' = lastClosed
    BY <1>22, DogFailsDoes
  <2> QED BY <2>1
<1>23. ASSUME NEW e \in Attempts, HelloStops(e) PROVE NewLink'
  <2>1. link' \in {link, None} /\ lastClosed' = lastClosed
    BY <1>23, HelloStopsDoes
  <2> QED BY <2>1
<1>24. ASSUME NEW e \in Attempts, HelloSends(e) PROVE NewLink'
  <2>1. link' \in {link, None} /\ lastClosed' = lastClosed
    BY <1>24, HelloSendsDoes
  <2> QED BY <2>1
<1>25. ASSUME NEW e \in Attempts, HelloLost(e) PROVE NewLink'
  <2>1. link' \in {link, None} /\ lastClosed' = lastClosed
    BY <1>25, HelloLostDoes
  <2> QED BY <2>1
<1>26. ASSUME NEW e \in Attempts, WelcomeTimeout(e) PROVE NewLink'
  <2>1. link' \in {link, None} /\ lastClosed' = lastClosed
    BY <1>26, WelcomeTimeoutDoes
  <2> QED BY <2>1
<1>27. ASSUME NEW e \in Attempts, FailMarks(e) PROVE NewLink'
  <2>1. link' \in {link, None} /\ lastClosed' = lastClosed
    BY <1>27, FailMarksDoes
  <2> QED BY <2>1
<1>28. ASSUME NEW e \in Attempts, FailClears(e) PROVE NewLink'
  <2>1. link' \in {link, None} /\ lastClosed' = lastClosed
    BY <1>28, FailClearsDoes
  <2> QED BY <2>1
<1>29. ASSUME NEW e \in Attempts, WelcomeArrives(e) PROVE NewLink'
  <2>1. link' \in {link, None} /\ lastClosed' = lastClosed
    BY <1>29, WelcomeArrivesDoes
  <2> QED BY <2>1
<1>30. ASSUME NEW e \in Attempts, Welcome(e) PROVE NewLink'
  <2>1. link' \in {link, None} /\ lastClosed' = lastClosed
    BY <1>30, WelcomeDoes
  <2> QED BY <2>1
<1>31. ASSUME NEW e \in Attempts, Connected(e) PROVE NewLink'
  <2>1. link' \in {link, None} /\ lastClosed' = lastClosed
    BY <1>31, ConnectedDoes
  <2> QED BY <2>1
<1>32. ASSUME NEW t \in Threads, OnClosed(t) PROVE NewLink'
  <2>1. (link' = link /\ lastClosed' = lastClosed) \/ link' = None
    BY <1>32, OnClosedTo
  <2> QED BY <2>1
<1>33. ASSUME NEW t \in Threads, OnClosedTail(t) PROVE NewLink'
  BY <1>33 DEF OnClosedTail, hub, session
<1>34. ASSUME NEW t \in Threads, ScheduleReconnect(t) PROVE NewLink'
  BY <1>34 DEF ScheduleReconnect, hub, session
<1>35. ASSUME NEW t \in Threads, MaybeSchedule(t) PROVE NewLink'
  BY <1>35 DEF MaybeSchedule, hub, session
<1>36. CASE UNCHANGED vars
  BY <1>36 DEF vars, hub, session
<1> QED
  BY <1>1, <1>2, <1>3, <1>4, <1>5, <1>6, <1>7, <1>8, <1>9, <1>10, <1>11, <1>12, <1>13, <1>14,
       <1>15, <1>16, <1>17, <1>18, <1>19, <1>20, <1>21, <1>22, <1>23, <1>24, <1>25, <1>26, <1>27,
       <1>28, <1>29, <1>30, <1>31, <1>32, <1>33, <1>34, <1>35, <1>36 DEF Next, Attempt, Closing

\* The attempt that is the latest has the session, unless it was taken late.
LatestHas == epoch # None /\ Started(epoch) => link \in {None, epoch} \/ "late" \in history

LEMMA LatestHasStep == ASSUME Base, LatestHas, [Next]_vars PROVE LatestHas'
<1>0. /\ TypeOK /\ Workers /\ LinksKnown /\ RolesKnown /\ CutsKnown
      /\ Worker \in [Attempts -> Steps] /\ ln \in [Attempts -> {"none", "pending", "active", "closed"}]
      /\ None \notin Attempts /\ \A t \in Threads : cut[t] \in Attempts \cup {None}
      /\ link \in Attempts \cup {None} /\ epoch \in Attempts \cup {None}
  BY BaseFacts
<1>00. "late" \in history => "late" \in history'
  BY <1>0, LastingStays DEF Lasting
<1> USE <1>0, <1>00 DEF LatestHas
<1>1. CASE UserConnect
  <2>1. link' = link /\ ln' = ln /\ epoch + 1 \in Attempts /\ epoch' = epoch + 1
    BY <1>1, UserConnectDoes
  <2>2. epoch + 1 > epoch
    BY NextIsMore
  <2>3. ln[epoch + 1] = "none"
    BY <2>1, <2>2 DEF Workers
  <2> QED BY <2>1, <2>3 DEF Started
<1>2. CASE Disconnect
  <2>1. link' = None
    BY <1>2, DisconnectDoes
  <2> QED BY <2>1
<1>3. CASE Disconnected
  <2>1. link' \in {link, None} /\ epoch' = epoch /\ ln' = ln /\ Worker' = Worker
    BY <1>3, DisconnectedDoes
  <2> QED BY <2>1 DEF Started
<1>4. CASE SetAutoReconnect
  <2>1. link' \in {link, None} /\ epoch' = epoch /\ ln' = ln /\ Worker' = Worker
    BY <1>4, SetAutoReconnectDoes
  <2> QED BY <2>1 DEF Started
<1>5. CASE TimerFires
  <2>1. link' \in {link, None} /\ epoch' = epoch /\ ln' = ln /\ Worker' = Worker
    BY <1>5, TimerFiresDoes
  <2> QED BY <2>1 DEF Started
<1>6. CASE FireReconnect
  <2>1. link' \in {link, None} /\ epoch' = epoch /\ ln' = ln /\ Worker' = Worker
    BY <1>6, FireReconnectDoes
  <2> QED BY <2>1 DEF Started
<1>7. CASE TimerConnect
  <2>1. /\ link' = link /\ ln' = ln
        /\ (Worker' = Worker /\ epoch' = epoch) \/ (epoch + 1 \in Attempts /\ epoch' = epoch + 1)
    BY <1>7, TimerConnectDoes
  <2>2. epoch + 1 > epoch
    BY NextIsMore
  <2>3. epoch + 1 \in Attempts => ln[epoch + 1] = "none"
    BY <2>2 DEF Workers
  <2> QED BY <2>1, <2>3 DEF Started
<1>8. CASE NoteAnnounce
  <2>1. link' \in {link, None} /\ epoch' = epoch /\ ln' = ln /\ Worker' = Worker
    BY <1>8, NoteAnnounceDoes
  <2> QED BY <2>1 DEF Started
<1>9. ASSUME NEW e \in Attempts, WorkerCancelled(e) PROVE LatestHas'
  <2>1. /\ link' = link /\ epoch' = epoch /\ ln' = ln /\ Worker[e] = "waiting"
        /\ Worker' = [Worker EXCEPT ![e] = "idle"]
    BY <1>9, WorkerCancelledDoes
  <2> QED BY <2>1 DEF Started, Workers
<1>10. ASSUME NEW e \in Attempts, WorkerFails(e) PROVE LatestHas'
  <2>1. /\ link' = link /\ epoch' = epoch /\ ln' = ln /\ Worker[e] = "waiting"
        /\ Worker' = [Worker EXCEPT ![e] = "maybe"]
    BY <1>10, WorkerFailsDoes
  <2> QED BY <2>1 DEF Started, Workers
<1>11. ASSUME NEW e \in Attempts, WorkerChecks(e) PROVE LatestHas'
  <2>1. /\ link' = link /\ epoch' = epoch /\ ln' = ln /\ Worker[e] = "waiting"
        /\ Worker' = [Worker EXCEPT ![e] = "checked"]
    BY <1>11, WorkerChecksDoes
  <2> QED BY <2>1 DEF Started, Workers
<1>12. ASSUME NEW e \in Attempts, WorkerBuilds(e) PROVE LatestHas'
  <2>1. /\ link' = link /\ epoch' = epoch /\ ln' = [ln EXCEPT ![e] = "pending"]
        /\ Worker[e] = "checked" /\ Worker' = [Worker EXCEPT ![e] = "built"]
    BY <1>12, WorkerBuildsDoes
  <2> QED BY <2>1 DEF Started, Workers
<1>13. ASSUME NEW e \in Attempts, WorkerOvertaken(e) PROVE LatestHas'
  <2>1. /\ link' = link /\ epoch' = epoch /\ ln' = [ln EXCEPT ![e] = "closed"] /\ e # epoch
        /\ Worker' = [Worker EXCEPT ![e] = "closing"]
    BY <1>13, WorkerOvertakenDoes
  <2> QED BY <2>1 DEF Started
<1>14. ASSUME NEW e \in Attempts, WorkerRegisters(e) PROVE LatestHas'
  <2>1. link' = e /\ epoch' = epoch /\ e = epoch
    BY <1>14, WorkerRegistersDoes
  <2> QED BY <2>1
<1>15. ASSUME NEW e \in Attempts, WorkerLoopback(e) PROVE LatestHas'
  <2>1. link' = e /\ epoch' = epoch /\ (e # epoch => "late" \in history')
    BY <1>15, WorkerLoopbackDoes
  <2> QED BY <2>1
<1>16. ASSUME NEW e \in Attempts, Establish(e) PROVE LatestHas'
  <2>1. /\ link' = link /\ epoch' = epoch /\ ln[e] = "pending" /\ ln' = [ln EXCEPT ![e] = "active"]
        /\ Worker' = Worker
    BY <1>16, EstablishDoes
  <2> QED BY <2>1 DEF Started
<1>17. ASSUME NEW e \in Attempts, OnEstablished(e) PROVE LatestHas'
  <2>1. link' \in {link, None} /\ epoch' = epoch /\ ln' = ln /\ Worker' = Worker
    BY <1>17, OnEstablishedDoes
  <2> QED BY <2>1 DEF Started
<1>18. ASSUME NEW e \in Attempts, IdentifyFails(e) PROVE LatestHas'
  <2>1. /\ link' = link /\ epoch' = epoch /\ Rns[e] = "established"
        /\ ln' = [ln EXCEPT ![e] = "closed"] /\ Worker' = Worker
    BY <1>18, IdentifyFailsDoes
  <2> QED BY <2>1 DEF Started, RolesKnown
<1>19. ASSUME NEW e \in Attempts, LinkCloses(e) PROVE LatestHas'
  <2>1. /\ link' = link /\ epoch' = epoch /\ Open(e) /\ ln' = [ln EXCEPT ![e] = "closed"]
        /\ Worker' = Worker
    BY <1>19, LinkClosesDoes
  <2> QED BY <2>1 DEF Started, Open
<1>20. ASSUME NEW e \in Attempts, DogRests(e) PROVE LatestHas'
  <2>1. link' \in {link, None} /\ epoch' = epoch /\ ln' = ln /\ Worker' = Worker
    BY <1>20, DogRestsDoes
  <2> QED BY <2>1 DEF Started
<1>21. ASSUME NEW e \in Attempts, DogBites(e) PROVE LatestHas'
  <2>1. /\ link' = link /\ epoch' = epoch /\ ln[e] = "pending" /\ ln' = [ln EXCEPT ![e] = "closed"]
        /\ Worker' = Worker
    BY <1>21, DogBitesDoes
  <2> QED BY <2>1 DEF Started
<1>22. ASSUME NEW e \in Attempts, DogFails(e) PROVE LatestHas'
  <2>1. link' \in {link, None} /\ epoch' = epoch /\ ln' = ln /\ Worker' = Worker
    BY <1>22, DogFailsDoes
  <2> QED BY <2>1 DEF Started
<1>23. ASSUME NEW e \in Attempts, HelloStops(e) PROVE LatestHas'
  <2>1. link' \in {link, None} /\ epoch' = epoch /\ ln' = ln /\ Worker' = Worker
    BY <1>23, HelloStopsDoes
  <2> QED BY <2>1 DEF Started
<1>24. ASSUME NEW e \in Attempts, HelloSends(e) PROVE LatestHas'
  <2>1. link' \in {link, None} /\ epoch' = epoch /\ ln' = ln /\ Worker' = Worker
    BY <1>24, HelloSendsDoes
  <2> QED BY <2>1 DEF Started
<1>25. ASSUME NEW e \in Attempts, HelloLost(e) PROVE LatestHas'
  <2>1. link' \in {link, None} /\ epoch' = epoch /\ ln' = ln /\ Worker' = Worker
    BY <1>25, HelloLostDoes
  <2> QED BY <2>1 DEF Started
<1>26. ASSUME NEW e \in Attempts, WelcomeTimeout(e) PROVE LatestHas'
  <2>1. link' \in {link, None} /\ epoch' = epoch /\ ln' = ln /\ Worker' = Worker
    BY <1>26, WelcomeTimeoutDoes
  <2> QED BY <2>1 DEF Started
<1>27. ASSUME NEW e \in Attempts, FailMarks(e) PROVE LatestHas'
  <2>1. /\ link' = link /\ epoch' = epoch /\ Worker' = Worker
        /\ ln' = ln \/ (link \in Attempts /\ ln' = [ln EXCEPT ![link] = "closed"])
    BY <1>27, FailMarksDoes
  <2> QED BY <2>1 DEF Started, LinksKnown
<1>28. ASSUME NEW e \in Attempts, FailClears(e) PROVE LatestHas'
  <2>1. link' \in {link, None} /\ epoch' = epoch /\ ln' = ln /\ Worker' = Worker
    BY <1>28, FailClearsDoes
  <2> QED BY <2>1 DEF Started
<1>29. ASSUME NEW e \in Attempts, WelcomeArrives(e) PROVE LatestHas'
  <2>1. link' \in {link, None} /\ epoch' = epoch /\ ln' = ln /\ Worker' = Worker
    BY <1>29, WelcomeArrivesDoes
  <2> QED BY <2>1 DEF Started
<1>30. ASSUME NEW e \in Attempts, Welcome(e) PROVE LatestHas'
  <2>1. link' \in {link, None} /\ epoch' = epoch /\ ln' = ln /\ Worker' = Worker
    BY <1>30, WelcomeDoes
  <2> QED BY <2>1 DEF Started
<1>31. ASSUME NEW e \in Attempts, Connected(e) PROVE LatestHas'
  <2>1. link' \in {link, None} /\ epoch' = epoch /\ ln' = ln /\ Worker' = Worker
    BY <1>31, ConnectedDoes
  <2> QED BY <2>1 DEF Started
<1>32. ASSUME NEW t \in Threads, Closing(t) PROVE LatestHas'
  <2>1. /\ epoch' = epoch /\ ln' = ln /\ at[t] \in Midway
        /\ \E s \in Midway \cup {After(t), "idle"} : MovesTo(t, s)
    BY <1>32, ClosingDoes
  <2>2. \A e \in Attempts : Worker[e] = "built" => Worker'[e] = "built"
    BY <2>1 DEF MovesTo, Midway
  <2>3. link' \in {link, None}
    BY <1>32, OnClosedTo DEF Closing, OnClosedTail, ScheduleReconnect, MaybeSchedule, hub, session
  <2> QED BY <2>1, <2>2, <2>3 DEF Started
<1>33. CASE UNCHANGED vars
  <2>1. link' = link /\ ln' = ln /\ Worker' = Worker /\ epoch' = epoch
    BY <1>33, SameViews DEF vars, hub, session, retry
  <2> QED BY <2>1 DEF Started
<1> QED
  BY <1>1, <1>2, <1>3, <1>4, <1>5, <1>6, <1>7, <1>8, <1>9, <1>10, <1>11, <1>12, <1>13, <1>14,
       <1>15, <1>16, <1>17, <1>18, <1>19, <1>20, <1>21, <1>22, <1>23, <1>24, <1>25, <1>26, <1>27,
       <1>28, <1>29, <1>30, <1>31, <1>32, <1>33 DEF Next, Attempt

\* The stop flag that the latest attempt's worker finds was set by another link's
\* callback, or the user disconnected.
LatestBuilt == epoch # None /\ Worker[epoch] = "built" /\ stopHello => "hushed" \in history \/ manual

LEMMA LatestBuiltStep == ASSUME Base, LatestBuilt, [Next]_vars PROVE LatestBuilt'
<1>0. /\ TypeOK /\ Workers /\ LinksKnown /\ RolesKnown /\ CutsKnown
      /\ Worker \in [Attempts -> Steps] /\ ln \in [Attempts -> {"none", "pending", "active", "closed"}]
      /\ None \notin Attempts /\ \A t \in Threads : cut[t] \in Attempts \cup {None}
      /\ link \in Attempts \cup {None} /\ epoch \in Attempts \cup {None}
  BY BaseFacts
<1> USE <1>0 DEF LatestBuilt
<1>1. CASE UserConnect
  <2>1. /\ epoch + 1 \in Attempts /\ epoch' = epoch + 1
        /\ Worker' = [Worker EXCEPT ![epoch + 1] = "waiting"]
    BY <1>1, UserConnectDoes
  <2> QED BY <2>1
<1>2. CASE Disconnect
  <2>1. manual'
    BY <1>2, DisconnectDoes
  <2> QED BY <2>1
<1>3. CASE Disconnected
  <2>1. /\ epoch' = epoch /\ Worker' = Worker /\ stopHello' = stopHello /\ manual' = manual
        /\ history' = history
    BY <1>3, DisconnectedDoes
  <2> QED BY <2>1
<1>4. CASE SetAutoReconnect
  <2>1. /\ epoch' = epoch /\ Worker' = Worker /\ stopHello' = stopHello /\ manual' = manual
        /\ history \subseteq history'
    BY <1>4, SetAutoReconnectDoes
  <2> QED BY <2>1
<1>5. CASE TimerFires
  <2>1. /\ epoch' = epoch /\ Worker' = Worker /\ stopHello' = stopHello /\ manual' = manual
        /\ history' = history
    BY <1>5, TimerFiresDoes
  <2> QED BY <2>1
<1>6. CASE FireReconnect
  <2>1. /\ epoch' = epoch /\ Worker' = Worker /\ stopHello' = stopHello /\ manual' = manual
        /\ history' = history
    BY <1>6, FireReconnectDoes
  <2> QED BY <2>1
<1>7. CASE TimerConnect
  <2>1. /\ stopHello' = stopHello
        /\ \/ Worker' = Worker /\ epoch' = epoch /\ manual' = manual /\ history' = history
           \/ epoch + 1 \in Attempts /\ epoch' = epoch + 1 /\ Worker' = [Worker EXCEPT ![epoch + 1] = "waiting"]
    BY <1>7, TimerConnectDoes
  <2> QED BY <2>1
<1>8. CASE NoteAnnounce
  <2>1. /\ epoch' = epoch /\ Worker' = Worker /\ stopHello' = stopHello /\ manual' = manual
        /\ history' = history
    BY <1>8, NoteAnnounceDoes
  <2> QED BY <2>1
<1>9. ASSUME NEW e \in Attempts, WorkerCancelled(e) PROVE LatestBuilt'
  <2>1. /\ epoch' = epoch /\ Worker' = [Worker EXCEPT ![e] = "idle"]
        /\ stopHello' = stopHello /\ manual' = manual /\ history' = history
    BY <1>9, WorkerCancelledDoes
  <2> QED BY <2>1
<1>10. ASSUME NEW e \in Attempts, WorkerFails(e) PROVE LatestBuilt'
  <2>1. /\ epoch' = epoch /\ Worker' = [Worker EXCEPT ![e] = "maybe"]
        /\ stopHello' = stopHello /\ manual' = manual /\ history' = history
    BY <1>10, WorkerFailsDoes
  <2> QED BY <2>1
<1>11. ASSUME NEW e \in Attempts, WorkerChecks(e) PROVE LatestBuilt'
  <2>1. /\ epoch' = epoch /\ Worker' = [Worker EXCEPT ![e] = "checked"]
        /\ stopHello' = stopHello /\ manual' = manual /\ history' = history
    BY <1>11, WorkerChecksDoes
  <2> QED BY <2>1
<1>12. ASSUME NEW e \in Attempts, WorkerBuilds(e) PROVE LatestBuilt'
  <2>1. ~stopHello'
    BY <1>12, WorkerBuildsDoes
  <2> QED BY <2>1
<1>13. ASSUME NEW e \in Attempts, WorkerOvertaken(e) PROVE LatestBuilt'
  <2>1. /\ epoch' = epoch /\ Worker' = [Worker EXCEPT ![e] = "closing"]
        /\ stopHello' = stopHello /\ manual' = manual /\ history' = history
    BY <1>13, WorkerOvertakenDoes
  <2> QED BY <2>1
<1>14. ASSUME NEW e \in Attempts, WorkerRegisters(e) PROVE LatestBuilt'
  <2>1. epoch' = epoch /\ e = epoch /\ Worker' = [Worker EXCEPT ![e] = "idle"]
    BY <1>14, WorkerRegistersDoes
  <2> QED BY <2>1
<1>15. ASSUME NEW e \in Attempts, WorkerLoopback(e) PROVE LatestBuilt'
  <2>1. ~stopHello'
    BY <1>15, WorkerLoopbackDoes
  <2> QED BY <2>1
<1>16. ASSUME NEW e \in Attempts, Establish(e) PROVE LatestBuilt'
  <2>1. /\ epoch' = epoch /\ Worker' = Worker /\ stopHello' = stopHello /\ manual' = manual
        /\ history' = history
    BY <1>16, EstablishDoes
  <2> QED BY <2>1
<1>17. ASSUME NEW e \in Attempts, OnEstablished(e) PROVE LatestBuilt'
  <2>1. /\ epoch' = epoch /\ Worker' = Worker /\ stopHello' = stopHello /\ manual' = manual
        /\ history \subseteq history'
    BY <1>17, OnEstablishedDoes
  <2> QED BY <2>1
<1>18. ASSUME NEW e \in Attempts, IdentifyFails(e) PROVE LatestBuilt'
  <2>1. /\ epoch' = epoch /\ Worker' = Worker /\ stopHello' = stopHello /\ manual' = manual
        /\ history' = history
    BY <1>18, IdentifyFailsDoes
  <2> QED BY <2>1
<1>19. ASSUME NEW e \in Attempts, LinkCloses(e) PROVE LatestBuilt'
  <2>1. /\ epoch' = epoch /\ Worker' = Worker /\ stopHello' = stopHello /\ manual' = manual
        /\ history' = history
    BY <1>19, LinkClosesDoes
  <2> QED BY <2>1
<1>20. ASSUME NEW e \in Attempts, DogRests(e) PROVE LatestBuilt'
  <2>1. /\ epoch' = epoch /\ Worker' = Worker /\ stopHello' = stopHello /\ manual' = manual
        /\ history' = history
    BY <1>20, DogRestsDoes
  <2> QED BY <2>1
<1>21. ASSUME NEW e \in Attempts, DogBites(e) PROVE LatestBuilt'
  <2>1. /\ epoch' = epoch /\ Worker' = Worker /\ stopHello' = stopHello /\ manual' = manual
        /\ history' = history
    BY <1>21, DogBitesDoes
  <2> QED BY <2>1
<1>22. ASSUME NEW e \in Attempts, DogFails(e) PROVE LatestBuilt'
  <2>1. /\ epoch' = epoch /\ Worker' = Worker /\ stopHello' = stopHello /\ manual' = manual
        /\ history' = history
    BY <1>22, DogFailsDoes
  <2> QED BY <2>1
<1>23. ASSUME NEW e \in Attempts, HelloStops(e) PROVE LatestBuilt'
  <2>1. /\ epoch' = epoch /\ Worker' = Worker /\ stopHello' = stopHello /\ manual' = manual
        /\ history' = history
    BY <1>23, HelloStopsDoes
  <2> QED BY <2>1
<1>24. ASSUME NEW e \in Attempts, HelloSends(e) PROVE LatestBuilt'
  <2>1. /\ epoch' = epoch /\ Worker' = Worker /\ stopHello' = stopHello /\ manual' = manual
        /\ history' = history
    BY <1>24, HelloSendsDoes
  <2> QED BY <2>1
<1>25. ASSUME NEW e \in Attempts, HelloLost(e) PROVE LatestBuilt'
  <2>1. /\ epoch' = epoch /\ Worker' = Worker /\ stopHello' = stopHello /\ manual' = manual
        /\ history \subseteq history'
    BY <1>25, HelloLostDoes
  <2> QED BY <2>1
<1>26. ASSUME NEW e \in Attempts, WelcomeTimeout(e) PROVE LatestBuilt'
  <2>1. /\ epoch' = epoch /\ Worker' = Worker /\ stopHello' = stopHello /\ manual' = manual
        /\ history \subseteq history'
    BY <1>26, WelcomeTimeoutDoes
  <2> QED BY <2>1
<1>27. ASSUME NEW e \in Attempts, FailMarks(e) PROVE LatestBuilt'
  <2>1. /\ epoch' = epoch /\ Worker' = Worker /\ stopHello' = stopHello /\ manual' = manual
        /\ history' = history
    BY <1>27, FailMarksDoes
  <2> QED BY <2>1
<1>28. ASSUME NEW e \in Attempts, FailClears(e) PROVE LatestBuilt'
  <2>1. /\ epoch' = epoch /\ Worker' = Worker /\ stopHello' = stopHello /\ manual' = manual
        /\ history \subseteq history'
    BY <1>28, FailClearsDoes
  <2> QED BY <2>1
<1>29. ASSUME NEW e \in Attempts, WelcomeArrives(e) PROVE LatestBuilt'
  <2>1. /\ epoch' = epoch /\ Worker' = Worker /\ stopHello' = stopHello /\ manual' = manual
        /\ history' = history
    BY <1>29, WelcomeArrivesDoes
  <2> QED BY <2>1
<1>30. ASSUME NEW e \in Attempts, Welcome(e) PROVE LatestBuilt'
  <2>1. /\ epoch' = epoch /\ Worker' = Worker /\ stopHello' = stopHello /\ manual' = manual
        /\ history' = history
    BY <1>30, WelcomeDoes
  <2> QED BY <2>1
<1>31. ASSUME NEW e \in Attempts, Connected(e) PROVE LatestBuilt'
  <2>1. /\ epoch' = epoch /\ Worker' = Worker /\ stopHello' = stopHello /\ manual' = manual
        /\ history \subseteq history'
    BY <1>31, ConnectedDoes
  <2> QED BY <2>1
<1>32. ASSUME NEW t \in Threads, OnClosed(t) PROVE LatestBuilt'
  <2>1. /\ epoch' = epoch /\ manual' = manual /\ at[t] \in Midway
        /\ \E s \in Midway \cup {After(t), "idle"} : MovesTo(t, s)
    BY <1>32, ClosingDoes DEF Closing
  <2>2. \A e \in Attempts : Worker'[e] = "built" => Worker[e] = "built"
    BY <2>1, AfterIsStep DEF MovesTo, Midway
  <2>3. history' = history \cup (IF cut[t] # epoch THEN {"hushed"} ELSE {})
    BY <1>32, OnClosedTo
  <2>4. cut[t] = epoch /\ epoch # None => Worker[epoch] # "built"
    BY DEF CutsKnown, Started
  <2> QED BY <2>1, <2>2, <2>3, <2>4
<1>33. ASSUME NEW t \in Threads, OnClosedTail(t) PROVE LatestBuilt'
  <2>1. /\ epoch' = epoch /\ manual' = manual /\ at[t] \in Midway
        /\ \E s \in Midway \cup {After(t), "idle"} : MovesTo(t, s)
    BY <1>33, ClosingDoes DEF Closing
  <2>2. \A e \in Attempts : Worker'[e] = "built" => Worker[e] = "built"
    BY <2>1, AfterIsStep DEF MovesTo, Midway
  <2>3. stopHello' = stopHello /\ history' = history
    BY <1>33 DEF OnClosedTail, hub, session
  <2> QED BY <2>1, <2>2, <2>3
<1>34. ASSUME NEW t \in Threads, ScheduleReconnect(t) PROVE LatestBuilt'
  <2>1. /\ epoch' = epoch /\ manual' = manual /\ at[t] \in Midway
        /\ \E s \in Midway \cup {After(t), "idle"} : MovesTo(t, s)
    BY <1>34, ClosingDoes DEF Closing
  <2>2. \A e \in Attempts : Worker'[e] = "built" => Worker[e] = "built"
    BY <2>1, AfterIsStep DEF MovesTo, Midway
  <2>3. stopHello' = stopHello /\ history' = history
    BY <1>34 DEF ScheduleReconnect, hub, session
  <2> QED BY <2>1, <2>2, <2>3
<1>35. ASSUME NEW t \in Threads, MaybeSchedule(t) PROVE LatestBuilt'
  <2>1. /\ epoch' = epoch /\ manual' = manual /\ at[t] \in Midway
        /\ \E s \in Midway \cup {After(t), "idle"} : MovesTo(t, s)
    BY <1>35, ClosingDoes DEF Closing
  <2>2. \A e \in Attempts : Worker'[e] = "built" => Worker[e] = "built"
    BY <2>1, AfterIsStep DEF MovesTo, Midway
  <2>3. stopHello' = stopHello /\ history' = history
    BY <1>35 DEF MaybeSchedule, hub, session
  <2> QED BY <2>1, <2>2, <2>3
<1>36. CASE UNCHANGED vars
  <2>1. UNCHANGED <<Worker, epoch, stopHello, manual, history>>
    BY <1>36, SameViews DEF vars, hub, session, retry
  <2> QED BY <2>1
<1> QED
  BY <1>1, <1>2, <1>3, <1>4, <1>5, <1>6, <1>7, <1>8, <1>9, <1>10, <1>11, <1>12, <1>13, <1>14,
       <1>15, <1>16, <1>17, <1>18, <1>19, <1>20, <1>21, <1>22, <1>23, <1>24, <1>25, <1>26, <1>27,
       <1>28, <1>29, <1>30, <1>31, <1>32, <1>33, <1>34, <1>35, <1>36 DEF Next, Attempt, Closing

\* An open link of the session has its HELLO loop stopped by another link's callback only.
StopIsOurs == link # None /\ ln[link] # "closed" /\ stopHello => Happened({"late", "hushed"})

LEMMA StopIsOursStep ==
  ASSUME Base, NewLink, LatestHas, LatestBuilt, StopIsOurs, [Next]_vars PROVE StopIsOurs'
<1>0. /\ TypeOK /\ Workers /\ LinksKnown /\ RolesKnown /\ CutsKnown
      /\ Worker \in [Attempts -> Steps] /\ ln \in [Attempts -> {"none", "pending", "active", "closed"}]
      /\ None \notin Attempts /\ \A t \in Threads : cut[t] \in Attempts \cup {None}
      /\ link \in Attempts \cup {None} /\ epoch \in Attempts \cup {None}
  BY BaseFacts
<1>00. Advance /\ ("late" \in history => "late" \in history')
  BY <1>0, BaseStep, LastingStays DEF Lasting
<1> USE <1>0, <1>00 DEF StopIsOurs, Advance, Happened
<1>1. CASE UserConnect
  <2>1. /\ link' = link /\ stopHello' = stopHello
        /\ history' = history \ (Fresh \cup {"off", "overridden"})
    BY <1>1, UserConnectDoes
  <2> QED BY <2>1 DEF Fresh
<1>2. CASE Disconnect
  <2>1. link' = None
    BY <1>2, DisconnectDoes
  <2> QED BY <2>1
<1>3. CASE Disconnected
  <2>1. link' \in {link, None} /\ stopHello' = stopHello /\ history' = history
    BY <1>3, DisconnectedDoes
  <2> QED BY <2>1
<1>4. CASE SetAutoReconnect
  <2>1. link' \in {link, None} /\ stopHello' = stopHello /\ history \subseteq history'
    BY <1>4, SetAutoReconnectDoes
  <2> QED BY <2>1
<1>5. CASE TimerFires
  <2>1. link' \in {link, None} /\ stopHello' = stopHello /\ history' = history
    BY <1>5, TimerFiresDoes
  <2> QED BY <2>1
<1>6. CASE FireReconnect
  <2>1. link' \in {link, None} /\ stopHello' = stopHello /\ history' = history
    BY <1>6, FireReconnectDoes
  <2> QED BY <2>1
<1>7. CASE TimerConnect
  <2>1. /\ link' = link /\ stopHello' = stopHello
        /\ history' = history \/ history' = (history \ Fresh) \cup (IF manual THEN {"overridden"} ELSE {})
    BY <1>7, TimerConnectDoes
  <2> QED BY <2>1 DEF Fresh
<1>8. CASE NoteAnnounce
  <2>1. link' \in {link, None} /\ stopHello' = stopHello /\ history' = history
    BY <1>8, NoteAnnounceDoes
  <2> QED BY <2>1
<1>9. ASSUME NEW e \in Attempts, WorkerCancelled(e) PROVE StopIsOurs'
  <2>1. link' \in {link, None} /\ stopHello' = stopHello /\ history' = history
    BY <1>9, WorkerCancelledDoes
  <2> QED BY <2>1
<1>10. ASSUME NEW e \in Attempts, WorkerFails(e) PROVE StopIsOurs'
  <2>1. link' \in {link, None} /\ stopHello' = stopHello /\ history' = history
    BY <1>10, WorkerFailsDoes
  <2> QED BY <2>1
<1>11. ASSUME NEW e \in Attempts, WorkerChecks(e) PROVE StopIsOurs'
  <2>1. link' \in {link, None} /\ stopHello' = stopHello /\ history' = history
    BY <1>11, WorkerChecksDoes
  <2> QED BY <2>1
<1>12. ASSUME NEW e \in Attempts, WorkerBuilds(e) PROVE StopIsOurs'
  <2>1. ~stopHello'
    BY <1>12, WorkerBuildsDoes
  <2> QED BY <2>1
<1>13. ASSUME NEW e \in Attempts, WorkerOvertaken(e) PROVE StopIsOurs'
  <2>1. link' \in {link, None} /\ stopHello' = stopHello /\ history' = history
    BY <1>13, WorkerOvertakenDoes
  <2> QED BY <2>1
<1>14. ASSUME NEW e \in Attempts, WorkerRegisters(e) PROVE StopIsOurs'
  <2>1. /\ stopHello' = stopHello /\ e = epoch /\ Worker[e] = "built"
        /\ history' = (IF stopHello' THEN history ELSE history \ {"hushed"})
                        \cup (IF manual \/ e # epoch THEN {"late"} ELSE {})
                        \cup (IF LinkOpen THEN {"replaced"} ELSE {})
    BY <1>14, WorkerRegistersDoes
  <2>2. ASSUME stopHello PROVE "hushed" \in history' \/ "late" \in history'
    <3>1. "hushed" \in history \/ manual
      BY <2>1, <2>2 DEF LatestBuilt
    <3> QED BY <2>1, <2>2, <3>1
  <2> QED BY <2>1, <2>2
<1>15. ASSUME NEW e \in Attempts, WorkerLoopback(e) PROVE StopIsOurs'
  <2>1. ~stopHello'
    BY <1>15, WorkerLoopbackDoes
  <2> QED BY <2>1
<1>16. ASSUME NEW e \in Attempts, Establish(e) PROVE StopIsOurs'
  <2>1. link' \in {link, None} /\ stopHello' = stopHello /\ history' = history
    BY <1>16, EstablishDoes
  <2> QED BY <2>1
<1>17. ASSUME NEW e \in Attempts, OnEstablished(e) PROVE StopIsOurs'
  <2>1. link' \in {link, None} /\ stopHello' = stopHello /\ history \subseteq history'
    BY <1>17, OnEstablishedDoes
  <2> QED BY <2>1
<1>18. ASSUME NEW e \in Attempts, IdentifyFails(e) PROVE StopIsOurs'
  <2>1. link' \in {link, None} /\ stopHello' = stopHello /\ history' = history
    BY <1>18, IdentifyFailsDoes
  <2> QED BY <2>1
<1>19. ASSUME NEW e \in Attempts, LinkCloses(e) PROVE StopIsOurs'
  <2>1. link' \in {link, None} /\ stopHello' = stopHello /\ history' = history
    BY <1>19, LinkClosesDoes
  <2> QED BY <2>1
<1>20. ASSUME NEW e \in Attempts, DogRests(e) PROVE StopIsOurs'
  <2>1. link' \in {link, None} /\ stopHello' = stopHello /\ history' = history
    BY <1>20, DogRestsDoes
  <2> QED BY <2>1
<1>21. ASSUME NEW e \in Attempts, DogBites(e) PROVE StopIsOurs'
  <2>1. link' \in {link, None} /\ stopHello' = stopHello /\ history' = history
    BY <1>21, DogBitesDoes
  <2> QED BY <2>1
<1>22. ASSUME NEW e \in Attempts, DogFails(e) PROVE StopIsOurs'
  <2>1. link' \in {link, None} /\ stopHello' = stopHello /\ history' = history
    BY <1>22, DogFailsDoes
  <2> QED BY <2>1
<1>23. ASSUME NEW e \in Attempts, HelloStops(e) PROVE StopIsOurs'
  <2>1. link' \in {link, None} /\ stopHello' = stopHello /\ history' = history
    BY <1>23, HelloStopsDoes
  <2> QED BY <2>1
<1>24. ASSUME NEW e \in Attempts, HelloSends(e) PROVE StopIsOurs'
  <2>1. link' \in {link, None} /\ stopHello' = stopHello /\ history' = history
    BY <1>24, HelloSendsDoes
  <2> QED BY <2>1
<1>25. ASSUME NEW e \in Attempts, HelloLost(e) PROVE StopIsOurs'
  <2>1. link' \in {link, None} /\ stopHello' = stopHello /\ history \subseteq history'
    BY <1>25, HelloLostDoes
  <2> QED BY <2>1
<1>26. ASSUME NEW e \in Attempts, WelcomeTimeout(e) PROVE StopIsOurs'
  <2>1. link' \in {link, None} /\ stopHello' = stopHello /\ history \subseteq history'
    BY <1>26, WelcomeTimeoutDoes
  <2> QED BY <2>1
<1>27. ASSUME NEW e \in Attempts, FailMarks(e) PROVE StopIsOurs'
  <2>1. link' \in {link, None} /\ stopHello' = stopHello /\ history' = history
    BY <1>27, FailMarksDoes
  <2> QED BY <2>1
<1>28. ASSUME NEW e \in Attempts, FailClears(e) PROVE StopIsOurs'
  <2>1. link' \in {link, None} /\ stopHello' = stopHello /\ history \subseteq history'
    BY <1>28, FailClearsDoes
  <2> QED BY <2>1
<1>29. ASSUME NEW e \in Attempts, WelcomeArrives(e) PROVE StopIsOurs'
  <2>1. link' \in {link, None} /\ stopHello' = stopHello /\ history' = history
    BY <1>29, WelcomeArrivesDoes
  <2> QED BY <2>1
<1>30. ASSUME NEW e \in Attempts, Welcome(e) PROVE StopIsOurs'
  <2>1. link' \in {link, None} /\ stopHello' = stopHello /\ history' = history
    BY <1>30, WelcomeDoes
  <2> QED BY <2>1
<1>31. ASSUME NEW e \in Attempts, Connected(e) PROVE StopIsOurs'
  <2>1. link' \in {link, None} /\ stopHello' = stopHello /\ history \subseteq history'
    BY <1>31, ConnectedDoes
  <2> QED BY <2>1
<1>32. ASSUME NEW t \in Threads, OnClosed(t) PROVE StopIsOurs'
  <2>1. /\ history' = history \cup (IF cut[t] # epoch THEN {"hushed"} ELSE {})
        /\ (Ignored(cut[t]) /\ link' = link) \/ link' = None
    BY <1>32, OnClosedTo
  <2>2. CASE cut[t] # epoch \/ link' = None
    BY <2>1, <2>2
  <2>3. CASE cut[t] = epoch /\ link' = link /\ Ignored(cut[t]) /\ link # None
    <3>1. epoch # None
      <4>1. link \in Attempts /\ Started(link)
        BY <2>3 DEF LinksKnown
      <4>2. ~(link > epoch)
        BY <4>1 DEF Workers, Started
      <4> QED BY <4>1, <4>2, NextIsMore, AttemptNumbers
    <3>2. link = epoch \/ "late" \in history
      BY <2>3, <3>1 DEF LatestHas, CutsKnown
    <3>3. link # epoch
      BY <2>3 DEF Ignored, NewLink
    <3> QED BY <2>1, <3>2, <3>3
  <2> QED BY <2>1, <2>2, <2>3
<1>33. ASSUME NEW t \in Threads, OnClosedTail(t) PROVE StopIsOurs'
  <2>1. UNCHANGED <<link, stopHello, history>>
    BY <1>33 DEF OnClosedTail, hub, session
  <2> QED BY <2>1
<1>34. ASSUME NEW t \in Threads, ScheduleReconnect(t) PROVE StopIsOurs'
  <2>1. UNCHANGED <<link, stopHello, history>>
    BY <1>34 DEF ScheduleReconnect, hub, session
  <2> QED BY <2>1
<1>35. ASSUME NEW t \in Threads, MaybeSchedule(t) PROVE StopIsOurs'
  <2>1. UNCHANGED <<link, stopHello, history>>
    BY <1>35 DEF MaybeSchedule, hub, session
  <2> QED BY <2>1
<1>36. CASE UNCHANGED vars
  <2>1. UNCHANGED <<link, stopHello, history>>
    BY <1>36 DEF vars, hub, session
  <2> QED BY <2>1
<1> QED
  BY <1>1, <1>2, <1>3, <1>4, <1>5, <1>6, <1>7, <1>8, <1>9, <1>10, <1>11, <1>12, <1>13, <1>14,
       <1>15, <1>16, <1>17, <1>18, <1>19, <1>20, <1>21, <1>22, <1>23, <1>24, <1>25, <1>26, <1>27,
       <1>28, <1>29, <1>30, <1>31, <1>32, <1>33, <1>34, <1>35, <1>36 DEF Next, Attempt, Closing

--------------------------------------------------------------------------------
(* The status says what the session is *)

\* Between a WELCOME and its answer, or a link that closed and its callback, the status
\* is behind: ConnectedHas and HelloAlive name the thread that will put it right.

\* A session whose WELCOME is being answered is welcomed.
AnswerSeen == \A e \in Attempts : Answer[e] = "answered" /\ link = e => welcomed

LEMMA AnswerSeenStep == ASSUME Base, AnswerSeen, [Next]_vars PROVE AnswerSeen'
<1>0. /\ TypeOK /\ Workers /\ LinksKnown /\ RolesKnown /\ CutsKnown
      /\ Worker \in [Attempts -> Steps] /\ ln \in [Attempts -> {"none", "pending", "active", "closed"}]
      /\ None \notin Attempts /\ \A t \in Threads : cut[t] \in Attempts \cup {None}
      /\ link \in Attempts \cup {None} /\ epoch \in Attempts \cup {None}
  BY BaseFacts
<1>v. /\ Rns \in [Attempts -> Steps] /\ Hello \in [Attempts -> Steps] /\ Fail \in [Attempts -> Steps]
      /\ Answer \in [Attempts -> Steps]
  BY <1>0, ViewTypes
<1> USE <1>0, <1>v DEF AnswerSeen
<1>1. CASE UserConnect
  <2>1. link' \in {link, None} /\ welcomed' = welcomed /\ Answer' = Answer
    BY <1>1, UserConnectDoes
  <2> QED BY <2>1
<1>2. CASE Disconnect
  <2>1. link' \in {link, None} /\ welcomed' = welcomed /\ Answer' = Answer
    BY <1>2, DisconnectDoes
  <2> QED BY <2>1
<1>3. CASE Disconnected
  <2>1. link' \in {link, None} /\ welcomed' = welcomed /\ Answer' = Answer
    BY <1>3, DisconnectedDoes
  <2> QED BY <2>1
<1>4. CASE SetAutoReconnect
  <2>1. link' \in {link, None} /\ welcomed' = welcomed /\ Answer' = Answer
    BY <1>4, SetAutoReconnectDoes
  <2> QED BY <2>1
<1>5. CASE TimerFires
  <2>1. link' \in {link, None} /\ welcomed' = welcomed /\ Answer' = Answer
    BY <1>5, TimerFiresDoes
  <2> QED BY <2>1
<1>6. CASE FireReconnect
  <2>1. link' \in {link, None} /\ welcomed' = welcomed /\ Answer' = Answer
    BY <1>6, FireReconnectDoes
  <2> QED BY <2>1
<1>7. CASE TimerConnect
  <2>1. link' \in {link, None} /\ welcomed' = welcomed /\ Answer' = Answer
    BY <1>7, TimerConnectDoes
  <2> QED BY <2>1
<1>8. CASE NoteAnnounce
  <2>1. link' \in {link, None} /\ welcomed' = welcomed /\ Answer' = Answer
    BY <1>8, NoteAnnounceDoes
  <2> QED BY <2>1
<1>9. ASSUME NEW e \in Attempts, WorkerCancelled(e) PROVE AnswerSeen'
  <2>1. link' \in {link, None} /\ welcomed' = welcomed /\ Answer' = Answer
    BY <1>9, WorkerCancelledDoes
  <2> QED BY <2>1
<1>10. ASSUME NEW e \in Attempts, WorkerFails(e) PROVE AnswerSeen'
  <2>1. link' \in {link, None} /\ welcomed' = welcomed /\ Answer' = Answer
    BY <1>10, WorkerFailsDoes
  <2> QED BY <2>1
<1>11. ASSUME NEW e \in Attempts, WorkerChecks(e) PROVE AnswerSeen'
  <2>1. link' \in {link, None} /\ welcomed' = welcomed /\ Answer' = Answer
    BY <1>11, WorkerChecksDoes
  <2> QED BY <2>1
<1>12. ASSUME NEW e \in Attempts, WorkerBuilds(e) PROVE AnswerSeen'
  <2>1. link' \in {link, None} /\ welcomed' = welcomed /\ Answer' = Answer
    BY <1>12, WorkerBuildsDoes
  <2> QED BY <2>1
<1>13. ASSUME NEW e \in Attempts, WorkerOvertaken(e) PROVE AnswerSeen'
  <2>1. link' \in {link, None} /\ welcomed' = welcomed /\ Answer' = Answer
    BY <1>13, WorkerOvertakenDoes
  <2> QED BY <2>1
<1>14. ASSUME NEW e \in Attempts, WorkerRegisters(e) PROVE AnswerSeen'
  <2>1. link' = e /\ Answer' = Answer /\ Worker[e] = "built"
    BY <1>14, WorkerRegistersDoes
  <2>2. Answer[e] = "idle"
    BY <2>1 DEF Workers, Started, RolesKnown
  <2> QED BY <2>1, <2>2
<1>15. ASSUME NEW e \in Attempts, WorkerLoopback(e) PROVE AnswerSeen'
  <2>1. link' = e /\ Answer' = Answer /\ Worker[e] = "waiting"
    BY <1>15, WorkerLoopbackDoes
  <2>2. Answer[e] = "idle"
    BY <2>1 DEF Workers, Started, RolesKnown
  <2> QED BY <2>1, <2>2
<1>16. ASSUME NEW e \in Attempts, Establish(e) PROVE AnswerSeen'
  <2>1. link' \in {link, None} /\ welcomed' = welcomed /\ Answer' = Answer
    BY <1>16, EstablishDoes
  <2> QED BY <2>1
<1>17. ASSUME NEW e \in Attempts, OnEstablished(e) PROVE AnswerSeen'
  <2>1. link' \in {link, None} /\ welcomed' = welcomed /\ Answer' = Answer
    BY <1>17, OnEstablishedDoes
  <2> QED BY <2>1
<1>18. ASSUME NEW e \in Attempts, IdentifyFails(e) PROVE AnswerSeen'
  <2>1. link' \in {link, None} /\ welcomed' = welcomed /\ Answer' = Answer
    BY <1>18, IdentifyFailsDoes
  <2> QED BY <2>1
<1>19. ASSUME NEW e \in Attempts, LinkCloses(e) PROVE AnswerSeen'
  <2>1. link' \in {link, None} /\ welcomed' = welcomed /\ Answer' = Answer
    BY <1>19, LinkClosesDoes
  <2> QED BY <2>1
<1>20. ASSUME NEW e \in Attempts, DogRests(e) PROVE AnswerSeen'
  <2>1. link' \in {link, None} /\ welcomed' = welcomed /\ Answer' = Answer
    BY <1>20, DogRestsDoes
  <2> QED BY <2>1
<1>21. ASSUME NEW e \in Attempts, DogBites(e) PROVE AnswerSeen'
  <2>1. link' \in {link, None} /\ welcomed' = welcomed /\ Answer' = Answer
    BY <1>21, DogBitesDoes
  <2> QED BY <2>1
<1>22. ASSUME NEW e \in Attempts, DogFails(e) PROVE AnswerSeen'
  <2>1. link' \in {link, None} /\ welcomed' = welcomed /\ Answer' = Answer
    BY <1>22, DogFailsDoes
  <2> QED BY <2>1
<1>23. ASSUME NEW e \in Attempts, HelloStops(e) PROVE AnswerSeen'
  <2>1. link' \in {link, None} /\ welcomed' = welcomed /\ Answer' = Answer
    BY <1>23, HelloStopsDoes
  <2> QED BY <2>1
<1>24. ASSUME NEW e \in Attempts, HelloSends(e) PROVE AnswerSeen'
  <2>1. link' \in {link, None} /\ welcomed' = welcomed /\ Answer' = Answer
    BY <1>24, HelloSendsDoes
  <2> QED BY <2>1
<1>25. ASSUME NEW e \in Attempts, HelloLost(e) PROVE AnswerSeen'
  <2>1. link' \in {link, None} /\ welcomed' = welcomed /\ Answer' = Answer
    BY <1>25, HelloLostDoes
  <2> QED BY <2>1
<1>26. ASSUME NEW e \in Attempts, WelcomeTimeout(e) PROVE AnswerSeen'
  <2>1. link' \in {link, None} /\ welcomed' = welcomed /\ Answer' = Answer
    BY <1>26, WelcomeTimeoutDoes
  <2> QED BY <2>1
<1>27. ASSUME NEW e \in Attempts, FailMarks(e) PROVE AnswerSeen'
  <2>1. link' \in {link, None} /\ welcomed' = welcomed /\ Answer' = Answer
    BY <1>27, FailMarksDoes
  <2> QED BY <2>1
<1>28. ASSUME NEW e \in Attempts, FailClears(e) PROVE AnswerSeen'
  <2>1. link' \in {link, None} /\ welcomed' = welcomed /\ Answer' = Answer
    BY <1>28, FailClearsDoes
  <2> QED BY <2>1
<1>29. ASSUME NEW e \in Attempts, WelcomeArrives(e) PROVE AnswerSeen'
  <2>1. link' = link /\ welcomed' = welcomed /\ Answer' = [Answer EXCEPT ![e] = "arrived"]
    BY <1>29, WelcomeArrivesDoes
  <2> QED BY <2>1
<1>30. ASSUME NEW e \in Attempts, Welcome(e) PROVE AnswerSeen'
  <2>1. welcomed'
    BY <1>30, WelcomeDoes
  <2> QED BY <2>1
<1>31. ASSUME NEW e \in Attempts, Connected(e) PROVE AnswerSeen'
  <2>1. link' = link /\ welcomed' = welcomed /\ Answer' = [Answer EXCEPT ![e] = "idle"]
    BY <1>31, ConnectedDoes
  <2> QED BY <2>1
<1>32. ASSUME NEW t \in Threads, OnClosed(t) PROVE AnswerSeen'
  <2>1. \A e \in Attempts : Answer'[e] = "answered" => Answer[e] = "answered"
    <3>1. at[t] \in Midway /\ \E s \in Midway \cup {After(t), "idle"} : MovesTo(t, s)
      BY <1>32, ClosingDoes DEF Closing
    <3> QED BY <3>1, AfterIsStep DEF MovesTo, Midway
  <2>2. (link' = link /\ welcomed' = welcomed) \/ link' = None
    BY <1>32, OnClosedTo
  <2> QED BY <2>1, <2>2
<1>33. ASSUME NEW t \in Threads, OnClosedTail(t) PROVE AnswerSeen'
  <2>1. \A e \in Attempts : Answer'[e] = "answered" => Answer[e] = "answered"
    <3>1. at[t] \in Midway /\ \E s \in Midway \cup {After(t), "idle"} : MovesTo(t, s)
      BY <1>33, ClosingDoes DEF Closing
    <3> QED BY <3>1, AfterIsStep DEF MovesTo, Midway
  <2>2. link' = link /\ welcomed' = welcomed
    BY <1>33 DEF OnClosedTail, hub, session
  <2> QED BY <2>1, <2>2
<1>34. ASSUME NEW t \in Threads, ScheduleReconnect(t) PROVE AnswerSeen'
  <2>1. \A e \in Attempts : Answer'[e] = "answered" => Answer[e] = "answered"
    <3>1. at[t] \in Midway /\ \E s \in Midway \cup {After(t), "idle"} : MovesTo(t, s)
      BY <1>34, ClosingDoes DEF Closing
    <3> QED BY <3>1, AfterIsStep DEF MovesTo, Midway
  <2>2. link' = link /\ welcomed' = welcomed
    BY <1>34 DEF ScheduleReconnect, hub, session
  <2> QED BY <2>1, <2>2
<1>35. ASSUME NEW t \in Threads, MaybeSchedule(t) PROVE AnswerSeen'
  <2>1. \A e \in Attempts : Answer'[e] = "answered" => Answer[e] = "answered"
    <3>1. at[t] \in Midway /\ \E s \in Midway \cup {After(t), "idle"} : MovesTo(t, s)
      BY <1>35, ClosingDoes DEF Closing
    <3> QED BY <3>1, AfterIsStep DEF MovesTo, Midway
  <2>2. link' = link /\ welcomed' = welcomed
    BY <1>35 DEF MaybeSchedule, hub, session
  <2> QED BY <2>1, <2>2
<1>36. CASE UNCHANGED vars
  <2>1. UNCHANGED <<link, welcomed, Answer>>
    BY <1>36, SameViews DEF vars, hub, session
  <2> QED BY <2>1
<1> QED
  BY <1>1, <1>2, <1>3, <1>4, <1>5, <1>6, <1>7, <1>8, <1>9, <1>10, <1>11, <1>12, <1>13, <1>14,
       <1>15, <1>16, <1>17, <1>18, <1>19, <1>20, <1>21, <1>22, <1>23, <1>24, <1>25, <1>26, <1>27,
       <1>28, <1>29, <1>30, <1>31, <1>32, <1>33, <1>34, <1>35, <1>36 DEF Next, Attempt, Closing

\* An active link of the session is welcomed, or somebody still sees to it.
HelloAlive ==
  \A e \in Attempts : link = e /\ ln[e] = "active" /\ ~welcomed =>
    \/ Rns[e] = "established" \/ Hello[e] = "looping" \/ Fail[e] = "mark"
    \/ Happened({"late", "hushed"})

LEMMA HelloAliveStep == ASSUME Base, StopIsOurs, HelloAlive, [Next]_vars PROVE HelloAlive'
<1>0. /\ TypeOK /\ Workers /\ LinksKnown /\ RolesKnown /\ CutsKnown
      /\ Worker \in [Attempts -> Steps] /\ ln \in [Attempts -> {"none", "pending", "active", "closed"}]
      /\ None \notin Attempts /\ \A t \in Threads : cut[t] \in Attempts \cup {None}
      /\ link \in Attempts \cup {None} /\ epoch \in Attempts \cup {None}
  BY BaseFacts
<1>v. /\ Rns \in [Attempts -> Steps] /\ Hello \in [Attempts -> Steps] /\ Fail \in [Attempts -> Steps]
      /\ Answer \in [Attempts -> Steps]
  BY <1>0, ViewTypes
<1>00. Advance
  BY BaseStep
<1> USE <1>0, <1>v, <1>00 DEF HelloAlive, Advance
<1>1. CASE UserConnect
  <2>0. Happened({"late", "hushed"}) => Happened({"late", "hushed"})'
    <3>1. history' = history \ (Fresh \cup {"off", "overridden"})
      BY <1>1, UserConnectDoes
    <3> QED BY <3>1 DEF Happened, Fresh
  <2>1. UNCHANGED <<link, welcomed, ln, Rns, Hello, Fail>>
    BY <1>1, UserConnectDoes
  <2> QED BY <2>0, <2>1
<1>2. CASE Disconnect
  <2>1. link' = None
    BY <1>2, DisconnectDoes
  <2> QED BY <2>1
<1>3. CASE Disconnected
  <2>0. Happened({"late", "hushed"}) => Happened({"late", "hushed"})'
    <3>1. history' = history
      BY <1>3, DisconnectedDoes
    <3> QED BY <3>1 DEF Happened
  <2>1. /\ link' = link
        /\ welcomed' = welcomed
        /\ ln' = ln
        /\ UNCHANGED <<Rns, Hello, Fail>>
    BY <1>3, DisconnectedDoes
  <2> QED BY <2>0, <2>1
<1>4. CASE SetAutoReconnect
  <2>0. Happened({"late", "hushed"}) => Happened({"late", "hushed"})'
    <3>1. history \subseteq history'
      BY <1>4, SetAutoReconnectDoes
    <3> QED BY <3>1 DEF Happened
  <2>1. /\ link' = link
        /\ welcomed' = welcomed
        /\ ln' = ln
        /\ UNCHANGED <<Rns, Hello, Fail>>
    BY <1>4, SetAutoReconnectDoes
  <2> QED BY <2>0, <2>1
<1>5. CASE TimerFires
  <2>0. Happened({"late", "hushed"}) => Happened({"late", "hushed"})'
    <3>1. history' = history
      BY <1>5, TimerFiresDoes
    <3> QED BY <3>1 DEF Happened
  <2>1. /\ link' = link
        /\ welcomed' = welcomed
        /\ ln' = ln
        /\ UNCHANGED <<Rns, Hello, Fail>>
    BY <1>5, TimerFiresDoes
  <2> QED BY <2>0, <2>1
<1>6. CASE FireReconnect
  <2>0. Happened({"late", "hushed"}) => Happened({"late", "hushed"})'
    <3>1. history' = history
      BY <1>6, FireReconnectDoes
    <3> QED BY <3>1 DEF Happened
  <2>1. /\ link' = link
        /\ welcomed' = welcomed
        /\ ln' = ln
        /\ UNCHANGED <<Rns, Hello, Fail>>
    BY <1>6, FireReconnectDoes
  <2> QED BY <2>0, <2>1
<1>7. CASE TimerConnect
  <2>0. Happened({"late", "hushed"}) => Happened({"late", "hushed"})'
    <3>1. history' = history \/ history' = (history \ Fresh) \cup (IF manual THEN {"overridden"} ELSE {})
      BY <1>7, TimerConnectDoes
    <3> QED BY <3>1 DEF Happened, Fresh
  <2>1. UNCHANGED <<link, welcomed, ln, Rns, Hello, Fail>>
    BY <1>7, TimerConnectDoes
  <2> QED BY <2>0, <2>1
<1>8. CASE NoteAnnounce
  <2>0. Happened({"late", "hushed"}) => Happened({"late", "hushed"})'
    <3>1. history' = history
      BY <1>8, NoteAnnounceDoes
    <3> QED BY <3>1 DEF Happened
  <2>1. /\ link' = link
        /\ welcomed' = welcomed
        /\ ln' = ln
        /\ UNCHANGED <<Rns, Hello, Fail>>
    BY <1>8, NoteAnnounceDoes
  <2> QED BY <2>0, <2>1
<1>9. ASSUME NEW e \in Attempts, WorkerCancelled(e) PROVE HelloAlive'
  <2>0. Happened({"late", "hushed"}) => Happened({"late", "hushed"})'
    <3>1. history' = history
      BY <1>9, WorkerCancelledDoes
    <3> QED BY <3>1 DEF Happened
  <2>1. /\ link' = link
        /\ welcomed' = welcomed
        /\ ln' = ln
        /\ UNCHANGED <<Rns, Hello, Fail>>
    BY <1>9, WorkerCancelledDoes
  <2> QED BY <2>0, <2>1
<1>10. ASSUME NEW e \in Attempts, WorkerFails(e) PROVE HelloAlive'
  <2>0. Happened({"late", "hushed"}) => Happened({"late", "hushed"})'
    <3>1. history' = history
      BY <1>10, WorkerFailsDoes
    <3> QED BY <3>1 DEF Happened
  <2>1. /\ link' = link
        /\ welcomed' = welcomed
        /\ ln' = ln
        /\ UNCHANGED <<Rns, Hello, Fail>>
    BY <1>10, WorkerFailsDoes
  <2> QED BY <2>0, <2>1
<1>11. ASSUME NEW e \in Attempts, WorkerChecks(e) PROVE HelloAlive'
  <2>0. Happened({"late", "hushed"}) => Happened({"late", "hushed"})'
    <3>1. history' = history
      BY <1>11, WorkerChecksDoes
    <3> QED BY <3>1 DEF Happened
  <2>1. /\ link' = link
        /\ welcomed' = welcomed
        /\ ln' = ln
        /\ UNCHANGED <<Rns, Hello, Fail>>
    BY <1>11, WorkerChecksDoes
  <2> QED BY <2>0, <2>1
<1>12. ASSUME NEW e \in Attempts, WorkerBuilds(e) PROVE HelloAlive'
  <2>0. Happened({"late", "hushed"}) => Happened({"late", "hushed"})'
    <3>1. history' = history
      BY <1>12, WorkerBuildsDoes
    <3> QED BY <3>1 DEF Happened
  <2>1. /\ link' = link
        /\ welcomed' = welcomed
        /\ ln' = [ln EXCEPT ![e] = "pending"]
        /\ UNCHANGED <<Rns, Hello, Fail>>
    BY <1>12, WorkerBuildsDoes
  <2> QED BY <2>0, <2>1
<1>13. ASSUME NEW e \in Attempts, WorkerOvertaken(e) PROVE HelloAlive'
  <2>0. Happened({"late", "hushed"}) => Happened({"late", "hushed"})'
    <3>1. history' = history
      BY <1>13, WorkerOvertakenDoes
    <3> QED BY <3>1 DEF Happened
  <2>1. /\ link' = link
        /\ welcomed' = welcomed
        /\ ln' = [ln EXCEPT ![e] = "closed"]
        /\ UNCHANGED <<Rns, Hello, Fail>>
    BY <1>13, WorkerOvertakenDoes
  <2> QED BY <2>0, <2>1
<1>14. ASSUME NEW e \in Attempts, WorkerRegisters(e) PROVE HelloAlive'
  <2>1. link' = e /\ Worker[e] = "built" /\ ln' = ln
    BY <1>14, WorkerRegistersDoes
  <2>2. ln[e] = "pending"
    BY <2>1 DEF Workers
  <2> QED BY <2>1, <2>2
<1>15. ASSUME NEW e \in Attempts, WorkerLoopback(e) PROVE HelloAlive'
  <2>1. link' = e /\ Hello' = [Hello EXCEPT ![e] = "looping"]
    BY <1>15, WorkerLoopbackDoes
  <2> QED BY <2>1
<1>16. ASSUME NEW e \in Attempts, Establish(e) PROVE HelloAlive'
  <2>0. Happened({"late", "hushed"}) => Happened({"late", "hushed"})'
    <3>1. history' = history
      BY <1>16, EstablishDoes
    <3> QED BY <3>1 DEF Happened
  <2>1. /\ link' = link
        /\ welcomed' = welcomed
        /\ ln' = [ln EXCEPT ![e] = "active"]
        /\ Rns' = [Rns EXCEPT ![e] = "established"]
        /\ UNCHANGED <<Hello, Fail>>
    BY <1>16, EstablishDoes
  <2> QED BY <2>0, <2>1
<1>17. ASSUME NEW e \in Attempts, OnEstablished(e) PROVE HelloAlive'
  <2>0. Happened({"late", "hushed"}) => Happened({"late", "hushed"})'
    <3>1. history \subseteq history'
      BY <1>17, OnEstablishedDoes
    <3> QED BY <3>1 DEF Happened
  <2>1. /\ link' = link
        /\ welcomed' = welcomed
        /\ ln' = ln
        /\ Rns' = [Rns EXCEPT ![e] = "idle"]
        /\ Hello' = [Hello EXCEPT ![e] = "looping"]
        /\ UNCHANGED <<Fail>>
    BY <1>17, OnEstablishedDoes
  <2> QED BY <2>0, <2>1
<1>18. ASSUME NEW e \in Attempts, IdentifyFails(e) PROVE HelloAlive'
  <2>0. Happened({"late", "hushed"}) => Happened({"late", "hushed"})'
    <3>1. history' = history
      BY <1>18, IdentifyFailsDoes
    <3> QED BY <3>1 DEF Happened
  <2>1. /\ link' = link /\ welcomed' = welcomed /\ ln' = [ln EXCEPT ![e] = "closed"]
        /\ Rns' = [Rns EXCEPT ![e] = "closing"] \/ Rns' = [Rns EXCEPT ![e] = "idle"]
        /\ UNCHANGED <<Hello, Fail>>
    BY <1>18, IdentifyFailsDoes
  <2> QED BY <2>0, <2>1
<1>19. ASSUME NEW e \in Attempts, LinkCloses(e) PROVE HelloAlive'
  <2>0. Happened({"late", "hushed"}) => Happened({"late", "hushed"})'
    <3>1. history' = history
      BY <1>19, LinkClosesDoes
    <3> QED BY <3>1 DEF Happened
  <2>1. /\ link' = link
        /\ welcomed' = welcomed
        /\ ln' = [ln EXCEPT ![e] = "closed"]
        /\ UNCHANGED <<Rns, Hello, Fail>>
    BY <1>19, LinkClosesDoes
  <2> QED BY <2>0, <2>1
<1>20. ASSUME NEW e \in Attempts, DogRests(e) PROVE HelloAlive'
  <2>0. Happened({"late", "hushed"}) => Happened({"late", "hushed"})'
    <3>1. history' = history
      BY <1>20, DogRestsDoes
    <3> QED BY <3>1 DEF Happened
  <2>1. /\ link' = link
        /\ welcomed' = welcomed
        /\ ln' = ln
        /\ UNCHANGED <<Rns, Hello, Fail>>
    BY <1>20, DogRestsDoes
  <2> QED BY <2>0, <2>1
<1>21. ASSUME NEW e \in Attempts, DogBites(e) PROVE HelloAlive'
  <2>0. Happened({"late", "hushed"}) => Happened({"late", "hushed"})'
    <3>1. history' = history
      BY <1>21, DogBitesDoes
    <3> QED BY <3>1 DEF Happened
  <2>1. /\ link' = link
        /\ welcomed' = welcomed
        /\ ln' = [ln EXCEPT ![e] = "closed"]
        /\ UNCHANGED <<Rns, Hello, Fail>>
    BY <1>21, DogBitesDoes
  <2> QED BY <2>0, <2>1
<1>22. ASSUME NEW e \in Attempts, DogFails(e) PROVE HelloAlive'
  <2>0. Happened({"late", "hushed"}) => Happened({"late", "hushed"})'
    <3>1. history' = history
      BY <1>22, DogFailsDoes
    <3> QED BY <3>1 DEF Happened
  <2>1. /\ link' = link
        /\ welcomed' = welcomed
        /\ ln' = ln
        /\ UNCHANGED <<Rns, Hello, Fail>>
    BY <1>22, DogFailsDoes
  <2> QED BY <2>0, <2>1
<1>23. ASSUME NEW e \in Attempts, HelloStops(e) PROVE HelloAlive'
  <2>0. Happened({"late", "hushed"}) => Happened({"late", "hushed"})'
    <3>1. history' = history
      BY <1>23, HelloStopsDoes
    <3> QED BY <3>1 DEF Happened
  <2>1. /\ link' = link /\ welcomed' = welcomed /\ ln' = ln /\ (stopHello \/ welcomed)
        /\ Hello' = [Hello EXCEPT ![e] = "idle"] /\ UNCHANGED <<Rns, Fail>>
    BY <1>23, HelloStopsDoes
  <2> QED BY <2>0, <2>1 DEF StopIsOurs
<1>24. ASSUME NEW e \in Attempts, HelloSends(e) PROVE HelloAlive'
  <2>0. Happened({"late", "hushed"}) => Happened({"late", "hushed"})'
    <3>1. history' = history
      BY <1>24, HelloSendsDoes
    <3> QED BY <3>1 DEF Happened
  <2>1. /\ link' = link
        /\ welcomed' = welcomed
        /\ ln' = ln
        /\ UNCHANGED <<Rns, Hello, Fail>>
    BY <1>24, HelloSendsDoes
  <2> QED BY <2>0, <2>1
<1>25. ASSUME NEW e \in Attempts, HelloLost(e) PROVE HelloAlive'
  <2>1. ~LinkActive /\ link' = link /\ ln' = ln
    BY <1>25, HelloLostDoes
  <2> QED BY <2>1 DEF LinkActive
<1>26. ASSUME NEW e \in Attempts, WelcomeTimeout(e) PROVE HelloAlive'
  <2>0. Happened({"late", "hushed"}) => Happened({"late", "hushed"})'
    <3>1. history \subseteq history'
      BY <1>26, WelcomeTimeoutDoes
    <3> QED BY <3>1 DEF Happened
  <2>1. /\ link' = link
        /\ welcomed' = welcomed
        /\ ln' = ln
        /\ Hello' = [Hello EXCEPT ![e] = "idle"]
        /\ Fail' = [Fail EXCEPT ![e] = "mark"]
        /\ UNCHANGED <<Rns>>
    BY <1>26, WelcomeTimeoutDoes
  <2> QED BY <2>0, <2>1
<1>27. ASSUME NEW e \in Attempts, FailMarks(e) PROVE HelloAlive'
  <2>1. /\ link' = link
        /\ link = None \/ (link \in Attempts /\ ln' = [ln EXCEPT ![link] = "closed"])
    BY <1>27, FailMarksDoes
  <2> QED BY <2>1
<1>28. ASSUME NEW e \in Attempts, FailClears(e) PROVE HelloAlive'
  <2>0. Happened({"late", "hushed"}) => Happened({"late", "hushed"})'
    <3>1. history \subseteq history'
      BY <1>28, FailClearsDoes
    <3> QED BY <3>1 DEF Happened
  <2>1. /\ link' \in {link, None}
        /\ welcomed' = welcomed
        /\ ln' = ln
        /\ Fail[e] = "clear"
        /\ Fail' = [Fail EXCEPT ![e] = IF status = "failed" THEN "maybe" ELSE "idle"]
        /\ UNCHANGED <<Rns, Hello>>
    BY <1>28, FailClearsDoes
  <2> QED BY <2>0, <2>1
<1>29. ASSUME NEW e \in Attempts, WelcomeArrives(e) PROVE HelloAlive'
  <2>0. Happened({"late", "hushed"}) => Happened({"late", "hushed"})'
    <3>1. history' = history
      BY <1>29, WelcomeArrivesDoes
    <3> QED BY <3>1 DEF Happened
  <2>1. /\ link' = link
        /\ welcomed' = welcomed
        /\ ln' = ln
        /\ UNCHANGED <<Rns, Hello, Fail>>
    BY <1>29, WelcomeArrivesDoes
  <2> QED BY <2>0, <2>1
<1>30. ASSUME NEW e \in Attempts, Welcome(e) PROVE HelloAlive'
  <2>1. welcomed'
    BY <1>30, WelcomeDoes
  <2> QED BY <2>1
<1>31. ASSUME NEW e \in Attempts, Connected(e) PROVE HelloAlive'
  <2>0. Happened({"late", "hushed"}) => Happened({"late", "hushed"})'
    <3>1. history \subseteq history'
      BY <1>31, ConnectedDoes
    <3> QED BY <3>1 DEF Happened
  <2>1. /\ link' = link
        /\ welcomed' = welcomed
        /\ ln' = ln
        /\ UNCHANGED <<Rns, Hello, Fail>>
    BY <1>31, ConnectedDoes
  <2> QED BY <2>0, <2>1
<1>32. ASSUME NEW t \in Threads, OnClosed(t) PROVE HelloAlive'
  <2>0. Happened({"late", "hushed"}) => Happened({"late", "hushed"})'
    BY <1>32 DEF Happened, OnClosed
  <2>1. ln' = ln /\ at[t] \in Midway /\ \E s \in Midway \cup {After(t), "idle"} : MovesTo(t, s)
    BY <1>32, ClosingDoes DEF Closing
  <2>2. \A e \in Attempts :
                           /\ Rns[e] = "established" => Rns'[e] = "established"
                           /\ Hello[e] = "looping" => Hello'[e] = "looping"
                           /\ Fail[e] = "mark" => Fail'[e] = "mark"
    BY <2>1 DEF MovesTo, Midway
  <2>3. (link' = link /\ welcomed' = welcomed) \/ link' = None
    BY <1>32, OnClosedTo
  <2> QED BY <2>0, <2>1, <2>2, <2>3
<1>33. ASSUME NEW t \in Threads, OnClosedTail(t) PROVE HelloAlive'
  <2>0. Happened({"late", "hushed"}) => Happened({"late", "hushed"})'
    BY <1>33 DEF Happened, OnClosedTail
  <2>1. ln' = ln /\ at[t] \in Midway /\ \E s \in Midway \cup {After(t), "idle"} : MovesTo(t, s)
    BY <1>33, ClosingDoes DEF Closing
  <2>2. \A e \in Attempts :
                           /\ Rns[e] = "established" => Rns'[e] = "established"
                           /\ Hello[e] = "looping" => Hello'[e] = "looping"
                           /\ Fail[e] = "mark" => Fail'[e] = "mark"
    BY <2>1 DEF MovesTo, Midway
  <2>3. link' = link /\ welcomed' = welcomed
    BY <1>33 DEF OnClosedTail, hub, session
  <2> QED BY <2>0, <2>1, <2>2, <2>3
<1>34. ASSUME NEW t \in Threads, ScheduleReconnect(t) PROVE HelloAlive'
  <2>0. Happened({"late", "hushed"}) => Happened({"late", "hushed"})'
    BY <1>34 DEF Happened, ScheduleReconnect
  <2>1. ln' = ln /\ at[t] \in Midway /\ \E s \in Midway \cup {After(t), "idle"} : MovesTo(t, s)
    BY <1>34, ClosingDoes DEF Closing
  <2>2. \A e \in Attempts :
                           /\ Rns[e] = "established" => Rns'[e] = "established"
                           /\ Hello[e] = "looping" => Hello'[e] = "looping"
                           /\ Fail[e] = "mark" => Fail'[e] = "mark"
    BY <2>1 DEF MovesTo, Midway
  <2>3. link' = link /\ welcomed' = welcomed
    BY <1>34 DEF ScheduleReconnect, hub, session
  <2> QED BY <2>0, <2>1, <2>2, <2>3
<1>35. ASSUME NEW t \in Threads, MaybeSchedule(t) PROVE HelloAlive'
  <2>0. Happened({"late", "hushed"}) => Happened({"late", "hushed"})'
    BY <1>35 DEF Happened, MaybeSchedule
  <2>1. ln' = ln /\ at[t] \in Midway /\ \E s \in Midway \cup {After(t), "idle"} : MovesTo(t, s)
    BY <1>35, ClosingDoes DEF Closing
  <2>2. \A e \in Attempts :
                           /\ Rns[e] = "established" => Rns'[e] = "established"
                           /\ Hello[e] = "looping" => Hello'[e] = "looping"
                           /\ Fail[e] = "mark" => Fail'[e] = "mark"
    BY <2>1 DEF MovesTo, Midway
  <2>3. link' = link /\ welcomed' = welcomed
    BY <1>35 DEF MaybeSchedule, hub, session
  <2> QED BY <2>0, <2>1, <2>2, <2>3
<1>36. CASE UNCHANGED vars
  <2>0. Happened({"late", "hushed"}) => Happened({"late", "hushed"})'
    BY <1>36 DEF vars, Happened
  <2>1. UNCHANGED <<link, welcomed, ln, Rns, Hello, Fail>>
    BY <1>36, SameViews DEF vars, hub, session
  <2> QED BY <2>0, <2>1
<1> QED
  BY <1>1, <1>2, <1>3, <1>4, <1>5, <1>6, <1>7, <1>8, <1>9, <1>10, <1>11, <1>12, <1>13, <1>14,
       <1>15, <1>16, <1>17, <1>18, <1>19, <1>20, <1>21, <1>22, <1>23, <1>24, <1>25, <1>26, <1>27,
       <1>28, <1>29, <1>30, <1>31, <1>32, <1>33, <1>34, <1>35, <1>36 DEF Next, Attempt, Closing

\* In a step of any other kind all threads that are midway stay where they are.
LEMMA MidwayKept ==
  ASSUME Base, [Next]_vars, \A u \in Threads : ~Closing(u)
  PROVE  \A u \in Threads : at[u] \in Midway => at'[u] = at[u] /\ cut'[u] = cut[u]
<1>1. TypeOK /\ Workers /\ LinksKnown /\ RolesKnown
  BY BaseFacts
<1>2. \A u \in Threads : GoesAhead(u) => at[u] \notin Midway
  BY DEF GoesAhead, FailMarks, FailClears, DogFails, Midway
<1> QED BY <1>1, <1>2, MidwayStays

\* A link of the session that is closed has a thread on its way to the callback.
ClosedIsSeen ==
  link # None /\ ln[link] = "closed" => \E t \in Threads : at[t] = "closing" /\ cut[t] = link

LEMMA ClosedIsSeenOther ==
  ASSUME Base, ClosedIsSeen, [Next]_vars, \A u \in Threads : ~Closing(u) PROVE ClosedIsSeen'
<1>0. /\ TypeOK /\ Workers /\ LinksKnown /\ RolesKnown /\ CutsKnown
      /\ Worker \in [Attempts -> Steps] /\ ln \in [Attempts -> {"none", "pending", "active", "closed"}]
      /\ None \notin Attempts /\ \A u \in Threads : cut[u] \in Attempts \cup {None}
      /\ link \in Attempts \cup {None} /\ epoch \in Attempts \cup {None}
  BY BaseFacts
<1>00. \A u \in Threads : at[u] = "closing" => at'[u] = at[u] /\ cut'[u] = cut[u]
  BY MidwayKept DEF Midway
<1>000. \A q \in Roles, e \in Attempts : <<q, e>> \in Threads
  BY ThreadNames
<1> USE <1>0, <1>00 DEF ClosedIsSeen
<1>1. CASE UserConnect
  <2>1. link' \in {link, None} /\ ln' = ln
    BY <1>1, UserConnectDoes
  <2> QED BY <2>1
<1>2. CASE Disconnect
  <2>1. link' = None
    BY <1>2, DisconnectDoes
  <2> QED BY <2>1
<1>3. CASE Disconnected
  <2>1. link' \in {link, None} /\ ln' = ln
    BY <1>3, DisconnectedDoes
  <2> QED BY <2>1
<1>4. CASE SetAutoReconnect
  <2>1. link' \in {link, None} /\ ln' = ln
    BY <1>4, SetAutoReconnectDoes
  <2> QED BY <2>1
<1>5. CASE TimerFires
  <2>1. link' \in {link, None} /\ ln' = ln
    BY <1>5, TimerFiresDoes
  <2> QED BY <2>1
<1>6. CASE FireReconnect
  <2>1. link' \in {link, None} /\ ln' = ln
    BY <1>6, FireReconnectDoes
  <2> QED BY <2>1
<1>7. CASE TimerConnect
  <2>1. link' \in {link, None} /\ ln' = ln
    BY <1>7, TimerConnectDoes
  <2> QED BY <2>1
<1>8. CASE NoteAnnounce
  <2>1. link' \in {link, None} /\ ln' = ln
    BY <1>8, NoteAnnounceDoes
  <2> QED BY <2>1
<1>9. ASSUME NEW e \in Attempts, WorkerCancelled(e) PROVE ClosedIsSeen'
  <2>1. link' \in {link, None} /\ ln' = ln
    BY <1>9, WorkerCancelledDoes
  <2> QED BY <2>1
<1>10. ASSUME NEW e \in Attempts, WorkerFails(e) PROVE ClosedIsSeen'
  <2>1. link' \in {link, None} /\ ln' = ln
    BY <1>10, WorkerFailsDoes
  <2> QED BY <2>1
<1>11. ASSUME NEW e \in Attempts, WorkerChecks(e) PROVE ClosedIsSeen'
  <2>1. link' \in {link, None} /\ ln' = ln
    BY <1>11, WorkerChecksDoes
  <2> QED BY <2>1
<1>12. ASSUME NEW e \in Attempts, WorkerBuilds(e) PROVE ClosedIsSeen'
  <2>1. link' = link /\ ln' = [ln EXCEPT ![e] = "pending"]
    BY <1>12, WorkerBuildsDoes
  <2> QED BY <2>1
<1>13. ASSUME NEW e \in Attempts, WorkerOvertaken(e) PROVE ClosedIsSeen'
  <2>1. link' = link /\ ln' = [ln EXCEPT ![e] = "closed"] /\ Worker[e] = "built"
    BY <1>13, WorkerOvertakenDoes
  <2>2. link # e
    BY <2>1 DEF LinksKnown, Started
  <2> QED BY <2>1, <2>2
<1>14. ASSUME NEW e \in Attempts, WorkerRegisters(e) PROVE ClosedIsSeen'
  <2>1. link' = e /\ ln' = ln /\ Worker[e] = "built"
    BY <1>14, WorkerRegistersDoes
  <2> QED BY <2>1 DEF Workers
<1>15. ASSUME NEW e \in Attempts, WorkerLoopback(e) PROVE ClosedIsSeen'
  <2>1. link' = e /\ ln' = [ln EXCEPT ![e] = "active"]
    BY <1>15, WorkerLoopbackDoes
  <2> QED BY <2>1
<1>16. ASSUME NEW e \in Attempts, Establish(e) PROVE ClosedIsSeen'
  <2>1. link' = link /\ ln' = [ln EXCEPT ![e] = "active"]
    BY <1>16, EstablishDoes
  <2> QED BY <2>1
<1>17. ASSUME NEW e \in Attempts, OnEstablished(e) PROVE ClosedIsSeen'
  <2>1. link' \in {link, None} /\ ln' = ln
    BY <1>17, OnEstablishedDoes
  <2> QED BY <2>1
<1>18. ASSUME NEW e \in Attempts, IdentifyFails(e) PROVE ClosedIsSeen'
  <2>1. /\ link' = link /\ ln' = [ln EXCEPT ![e] = "closed"]
        /\ OnlyMoves(<<"rns", e>>, "closing", e) \/ ln[e] = "closed"
    BY <1>18, IdentifyFailsDoes
  <2>2. <<"rns", e>> \in Threads
    BY <1>000, RoleNames
  <2>3. CASE link = e /\ ln[e] # "closed"
    <3>1. at'[<<"rns", e>>] = "closing" /\ cut'[<<"rns", e>>] = e
      BY <2>1, <2>3 DEF OnlyMoves
    <3> QED BY <2>1, <2>2, <2>3, <3>1
  <2>4. CASE link # e \/ ln[e] = "closed"
    BY <2>1, <2>4
  <2> QED BY <2>3, <2>4
<1>19. ASSUME NEW e \in Attempts, LinkCloses(e) PROVE ClosedIsSeen'
  <2>1. link' = link /\ ln' = [ln EXCEPT ![e] = "closed"] /\ OnlyMoves(<<"close", e>>, "closing", e)
    BY <1>19, LinkClosesDoes
  <2>2. at'[<<"close", e>>] = "closing" /\ cut'[<<"close", e>>] = e /\ <<"close", e>> \in Threads
    BY <2>1, <1>000, RoleNames DEF OnlyMoves
  <2>3. CASE link = e
    BY <2>1, <2>2, <2>3
  <2>4. CASE link # e
    BY <2>1, <2>4
  <2> QED BY <2>3, <2>4
<1>20. ASSUME NEW e \in Attempts, DogRests(e) PROVE ClosedIsSeen'
  <2>1. link' \in {link, None} /\ ln' = ln
    BY <1>20, DogRestsDoes
  <2> QED BY <2>1
<1>21. ASSUME NEW e \in Attempts, DogBites(e) PROVE ClosedIsSeen'
  <2>1. link' = link /\ ln' = [ln EXCEPT ![e] = "closed"] /\ OnlyMoves(<<"dog", e>>, "closing", e)
    BY <1>21, DogBitesDoes
  <2>2. at'[<<"dog", e>>] = "closing" /\ cut'[<<"dog", e>>] = e /\ <<"dog", e>> \in Threads
    BY <2>1, <1>000, RoleNames DEF OnlyMoves
  <2>3. CASE link = e
    BY <2>1, <2>2, <2>3
  <2>4. CASE link # e
    BY <2>1, <2>4
  <2> QED BY <2>3, <2>4
<1>22. ASSUME NEW e \in Attempts, DogFails(e) PROVE ClosedIsSeen'
  <2>1. link' \in {link, None} /\ ln' = ln
    BY <1>22, DogFailsDoes
  <2> QED BY <2>1
<1>23. ASSUME NEW e \in Attempts, HelloStops(e) PROVE ClosedIsSeen'
  <2>1. link' \in {link, None} /\ ln' = ln
    BY <1>23, HelloStopsDoes
  <2> QED BY <2>1
<1>24. ASSUME NEW e \in Attempts, HelloSends(e) PROVE ClosedIsSeen'
  <2>1. link' \in {link, None} /\ ln' = ln
    BY <1>24, HelloSendsDoes
  <2> QED BY <2>1
<1>25. ASSUME NEW e \in Attempts, HelloLost(e) PROVE ClosedIsSeen'
  <2>1. link' \in {link, None} /\ ln' = ln
    BY <1>25, HelloLostDoes
  <2> QED BY <2>1
<1>26. ASSUME NEW e \in Attempts, WelcomeTimeout(e) PROVE ClosedIsSeen'
  <2>1. link' \in {link, None} /\ ln' = ln
    BY <1>26, WelcomeTimeoutDoes
  <2> QED BY <2>1
<1>27. ASSUME NEW e \in Attempts, FailMarks(e) PROVE ClosedIsSeen'
  <2>1. /\ link' = link
        /\ \/ ln' = ln
           \/ /\ link \in Attempts /\ ln' = [ln EXCEPT ![link] = "closed"]
              /\ OnlyMoves(<<"fail", e>>, "closing", link) \/ ln[link] = "closed"
    BY <1>27, FailMarksDoes
  <2>2. <<"fail", e>> \in Threads
    BY <1>000, RoleNames
  <2>3. CASE OnlyMoves(<<"fail", e>>, "closing", link)
    <3>1. at'[<<"fail", e>>] = "closing" /\ cut'[<<"fail", e>>] = link
      BY <2>3 DEF OnlyMoves
    <3> QED BY <2>1, <2>2, <3>1
  <2>4. CASE ~OnlyMoves(<<"fail", e>>, "closing", link)
    BY <2>1, <2>4
  <2> QED BY <2>3, <2>4
<1>28. ASSUME NEW e \in Attempts, FailClears(e) PROVE ClosedIsSeen'
  <2>1. link' \in {link, None} /\ ln' = ln
    BY <1>28, FailClearsDoes
  <2> QED BY <2>1
<1>29. ASSUME NEW e \in Attempts, WelcomeArrives(e) PROVE ClosedIsSeen'
  <2>1. link' \in {link, None} /\ ln' = ln
    BY <1>29, WelcomeArrivesDoes
  <2> QED BY <2>1
<1>30. ASSUME NEW e \in Attempts, Welcome(e) PROVE ClosedIsSeen'
  <2>1. link' \in {link, None} /\ ln' = ln
    BY <1>30, WelcomeDoes
  <2> QED BY <2>1
<1>31. ASSUME NEW e \in Attempts, Connected(e) PROVE ClosedIsSeen'
  <2>1. link' \in {link, None} /\ ln' = ln
    BY <1>31, ConnectedDoes
  <2> QED BY <2>1
<1>32. ASSUME NEW t \in Threads, Closing(t) PROVE ClosedIsSeen'
  BY <1>32
<1>33. CASE UNCHANGED vars
  BY <1>33 DEF vars, hub, session
<1> QED
  BY <1>1, <1>2, <1>3, <1>4, <1>5, <1>6, <1>7, <1>8, <1>9, <1>10, <1>11, <1>12, <1>13, <1>14,
       <1>15, <1>16, <1>17, <1>18, <1>19, <1>20, <1>21, <1>22, <1>23, <1>24, <1>25, <1>26, <1>27,
       <1>28, <1>29, <1>30, <1>31, <1>32, <1>33 DEF Next, Attempt

LEMMA ClosedIsSeenClosing ==
  ASSUME Base, NewLink, ClosedIsSeen, [Next]_vars, NEW t \in Threads, Closing(t) PROVE ClosedIsSeen'
<1>0. /\ TypeOK /\ Workers /\ LinksKnown /\ RolesKnown /\ CutsKnown
      /\ Worker \in [Attempts -> Steps] /\ ln \in [Attempts -> {"none", "pending", "active", "closed"}]
      /\ None \notin Attempts /\ \A u \in Threads : cut[u] \in Attempts \cup {None}
      /\ link \in Attempts \cup {None} /\ epoch \in Attempts \cup {None}
  BY BaseFacts
<1>1. ln' = ln /\ \A u \in Threads : u # t => at'[u] = at[u] /\ cut'[u] = cut[u]
  BY <1>0, ClosingDoes DEF OnlyMoves
<1>2. CASE OnClosed(t)
  <2>1. (Ignored(cut[t]) /\ link' = link) \/ link' = None
    BY <1>0, <1>2, OnClosedTo
  <2>2. CASE link' = None
    BY <2>2 DEF ClosedIsSeen
  <2>3. CASE Ignored(cut[t]) /\ link' = link /\ link # None
    <3>1. cut[t] # link
      BY <2>3 DEF Ignored, NewLink
    <3> QED BY <1>1, <2>3, <3>1 DEF ClosedIsSeen
  <2> QED BY <2>1, <2>2, <2>3
<1>3. CASE OnClosedTail(t) \/ ScheduleReconnect(t) \/ MaybeSchedule(t)
  <2>1. link' = link /\ at[t] # "closing"
    BY <1>3 DEF OnClosedTail, ScheduleReconnect, MaybeSchedule, hub, session
  <2> QED BY <1>1, <2>1 DEF ClosedIsSeen
<1> QED BY <1>2, <1>3 DEF Closing

LEMMA ClosedIsSeenStep ==
  ASSUME Base, NewLink, ClosedIsSeen, [Next]_vars PROVE ClosedIsSeen'
  BY ClosedIsSeenOther, ClosedIsSeenClosing

\* The user's thread, and the status it leaves when it is through.
UserSteps == at[User] \in {"idle", "closing", "tailRetry", "tailPlain", "schedule", "off"}

LEMMA UserStepsStep ==
  ASSUME TypeOK, UserSteps, [Next]_vars
  PROVE  /\ UserSteps'
         /\ at[User] # "idle" /\ at'[User] = "idle" => status' = "off"
<1> DEFINE Goal == /\ UserSteps'
                   /\ at[User] # "idle" /\ at'[User] = "idle" => status' = "off"
<1> USE DEF UserSteps
<1>1. CASE UserConnect
  <2>1. at'[User] = at[User]
    BY <1>1, UserConnectDoes
  <2> QED BY <2>1
<1>2. CASE Disconnect
  <2>1. at[User] = "idle" /\ at'[User] \in {"closing", "off"}
    BY <1>2, DisconnectDoes DEF OnlyMoves
  <2> QED BY <2>1
<1>3. CASE Disconnected
  <2>1. status' = "off" /\ at'[User] = "idle"
    BY <1>3, DisconnectedDoes DEF OnlyMoves
  <2> QED BY <2>1
<1>4. CASE SetAutoReconnect
  <2>1. at'[User] = at[User]
    BY <1>4, SetAutoReconnectDoes
  <2> QED BY <2>1
<1>5. CASE TimerFires
  <2>1. at'[User] = at[User]
    BY <1>5, TimerFiresDoes
  <2> QED BY <2>1
<1>6. CASE FireReconnect
  <2>1. at'[User] = at[User]
    BY <1>6, FireReconnectDoes
  <2> QED BY <2>1
<1>7. CASE TimerConnect
  <2>1. at'[User] = at[User]
    BY <1>7, TimerConnectDoes
  <2> QED BY <2>1
<1>8. CASE NoteAnnounce
  <2>1. at'[User] = at[User]
    BY <1>8, NoteAnnounceDoes
  <2> QED BY <2>1
<1>9. ASSUME NEW e \in Attempts, WorkerCancelled(e) PROVE Goal
  <2>1. at'[User] = at[User]
    BY <1>9, WorkerCancelledDoes
  <2> QED BY <2>1
<1>10. ASSUME NEW e \in Attempts, WorkerFails(e) PROVE Goal
  <2>1. at'[User] = at[User]
    BY <1>10, WorkerFailsDoes
  <2> QED BY <2>1
<1>11. ASSUME NEW e \in Attempts, WorkerChecks(e) PROVE Goal
  <2>1. at'[User] = at[User]
    BY <1>11, WorkerChecksDoes
  <2> QED BY <2>1
<1>12. ASSUME NEW e \in Attempts, WorkerBuilds(e) PROVE Goal
  <2>1. at'[User] = at[User]
    BY <1>12, WorkerBuildsDoes
  <2> QED BY <2>1
<1>13. ASSUME NEW e \in Attempts, WorkerOvertaken(e) PROVE Goal
  <2>1. at'[User] = at[User]
    BY <1>13, WorkerOvertakenDoes
  <2> QED BY <2>1
<1>14. ASSUME NEW e \in Attempts, WorkerRegisters(e) PROVE Goal
  <2>1. at'[User] = at[User]
    BY <1>14, WorkerRegistersDoes
  <2> QED BY <2>1
<1>15. ASSUME NEW e \in Attempts, WorkerLoopback(e) PROVE Goal
  <2>1. at'[User] = at[User]
    BY <1>15, WorkerLoopbackDoes
  <2> QED BY <2>1
<1>16. ASSUME NEW e \in Attempts, Establish(e) PROVE Goal
  <2>1. at'[User] = at[User]
    BY <1>16, EstablishDoes
  <2> QED BY <2>1
<1>17. ASSUME NEW e \in Attempts, OnEstablished(e) PROVE Goal
  <2>1. at'[User] = at[User]
    BY <1>17, OnEstablishedDoes
  <2> QED BY <2>1
<1>18. ASSUME NEW e \in Attempts, IdentifyFails(e) PROVE Goal
  <2>1. at'[User] = at[User]
    BY <1>18, IdentifyFailsDoes
  <2> QED BY <2>1
<1>19. ASSUME NEW e \in Attempts, LinkCloses(e) PROVE Goal
  <2>1. at'[User] = at[User]
    BY <1>19, LinkClosesDoes
  <2> QED BY <2>1
<1>20. ASSUME NEW e \in Attempts, DogRests(e) PROVE Goal
  <2>1. at'[User] = at[User]
    BY <1>20, DogRestsDoes
  <2> QED BY <2>1
<1>21. ASSUME NEW e \in Attempts, DogBites(e) PROVE Goal
  <2>1. at'[User] = at[User]
    BY <1>21, DogBitesDoes
  <2> QED BY <2>1
<1>22. ASSUME NEW e \in Attempts, DogFails(e) PROVE Goal
  <2>1. at'[User] = at[User]
    BY <1>22, DogFailsDoes
  <2> QED BY <2>1
<1>23. ASSUME NEW e \in Attempts, HelloStops(e) PROVE Goal
  <2>1. at'[User] = at[User]
    BY <1>23, HelloStopsDoes
  <2> QED BY <2>1
<1>24. ASSUME NEW e \in Attempts, HelloSends(e) PROVE Goal
  <2>1. at'[User] = at[User]
    BY <1>24, HelloSendsDoes
  <2> QED BY <2>1
<1>25. ASSUME NEW e \in Attempts, HelloLost(e) PROVE Goal
  <2>1. at'[User] = at[User]
    BY <1>25, HelloLostDoes
  <2> QED BY <2>1
<1>26. ASSUME NEW e \in Attempts, WelcomeTimeout(e) PROVE Goal
  <2>1. at'[User] = at[User]
    BY <1>26, WelcomeTimeoutDoes
  <2> QED BY <2>1
<1>27. ASSUME NEW e \in Attempts, FailMarks(e) PROVE Goal
  <2>1. at'[User] = at[User]
    BY <1>27, FailMarksDoes
  <2> QED BY <2>1
<1>28. ASSUME NEW e \in Attempts, FailClears(e) PROVE Goal
  <2>1. at'[User] = at[User]
    BY <1>28, FailClearsDoes
  <2> QED BY <2>1
<1>29. ASSUME NEW e \in Attempts, WelcomeArrives(e) PROVE Goal
  <2>1. at'[User] = at[User]
    BY <1>29, WelcomeArrivesDoes
  <2> QED BY <2>1
<1>30. ASSUME NEW e \in Attempts, Welcome(e) PROVE Goal
  <2>1. at'[User] = at[User]
    BY <1>30, WelcomeDoes
  <2> QED BY <2>1
<1>31. ASSUME NEW e \in Attempts, Connected(e) PROVE Goal
  <2>1. at'[User] = at[User]
    BY <1>31, ConnectedDoes
  <2> QED BY <2>1
<1>32. ASSUME NEW t \in Threads, Closing(t) PROVE Goal
  <2>1. CASE t # User
    BY <1>32, <2>1, ClosingDoes, ThreadNames DEF OnlyMoves
  <2>2. CASE t = User
    <3>1. After(User) = "off"
      BY DEF After, User
    <3>2. CASE OnClosed(User)
      BY <3>1, <3>2, OnClosedTo, ThreadNames DEF OnlyMoves
    <3>3. CASE OnClosedTail(User)
      <4>1. at' = [at EXCEPT ![User] = IF at[User] = "tailRetry" THEN "schedule" ELSE "off"]
        BY <3>1, <3>3 DEF OnClosedTail, GoesOn, Goes
      <4> QED BY <4>1, ThreadNames DEF TypeOK
    <3>4. CASE ScheduleReconnect(User)
      <4>1. status' = "off" /\ at' = [at EXCEPT ![User] = IF cut[User] = None THEN "idle" ELSE "off"]
        BY <3>1, <3>4 DEF ScheduleReconnect, GoesOn, Goes
      <4> QED BY <4>1, ThreadNames DEF TypeOK
    <3>5. CASE MaybeSchedule(User)
      BY <3>5 DEF MaybeSchedule
    <3> QED BY <1>32, <2>2, <3>2, <3>3, <3>4, <3>5 DEF Closing
  <2> QED BY <2>1, <2>2
<1>33. CASE UNCHANGED vars
  BY <1>33 DEF vars
<1> QED
  BY <1>1, <1>2, <1>3, <1>4, <1>5, <1>6, <1>7, <1>8, <1>9, <1>10, <1>11, <1>12, <1>13, <1>14,
       <1>15, <1>16, <1>17, <1>18, <1>19, <1>20, <1>21, <1>22, <1>23, <1>24, <1>25, <1>26, <1>27,
       <1>28, <1>29, <1>30, <1>31, <1>32, <1>33 DEF Next, Attempt

\* A hub that shows Connected has a welcomed session, or somebody is about to change that.
ConnectedHas ==
  status = "connected" =>
    \/ "stale" \in history
    \/ welcomed /\ link # None
    \/ welcomed /\ \E t \in Threads : at[t] = "closing" /\ cut[t] # None /\ lastClosed # cut[t]
    \/ \E t \in Threads : at[t] \in {"tailRetry", "tailPlain"}
    \/ at[User] # "idle"

LEMMA ConnectedHasOther ==
  ASSUME Base, CutsClosed, NewLink, ClosedIsSeen, AnswerSeen, UserSteps, ConnectedHas, [Next]_vars,
         \A u \in Threads : ~Closing(u)
  PROVE  ConnectedHas'
<1>0. /\ TypeOK /\ Workers /\ LinksKnown /\ RolesKnown /\ CutsKnown
      /\ Worker \in [Attempts -> Steps] /\ ln \in [Attempts -> {"none", "pending", "active", "closed"}]
      /\ None \notin Attempts /\ \A u \in Threads : cut[u] \in Attempts \cup {None}
      /\ link \in Attempts \cup {None} /\ epoch \in Attempts \cup {None}
  BY BaseFacts
<1>00. \A u \in Threads : at[u] \in {"closing", "tailRetry", "tailPlain"} => at'[u] = at[u] /\ cut'[u] = cut[u]
  BY MidwayKept DEF Midway
<1>u. at[User] # "idle" /\ at'[User] = "idle" => status' = "off"
  BY <1>0, UserStepsStep
<1> USE <1>0, <1>00, <1>u DEF ConnectedHas
<1>1. CASE UserConnect
  <2>1. status' = "connecting"
    BY <1>1, UserConnectDoes
  <2> QED BY <2>1
<1>2. CASE Disconnect
  <2>1. at'[User] # "idle"
    BY <1>2, DisconnectDoes
  <2> QED BY <2>1
<1>3. CASE Disconnected
  <2>1. status' = "off"
    BY <1>3, DisconnectedDoes
  <2> QED BY <2>1
<1>4. CASE SetAutoReconnect
  <2>1. /\ status' = status /\ link' = link /\ welcomed' = welcomed /\ lastClosed' = lastClosed
        /\ history \subseteq history'
    BY <1>4, SetAutoReconnectDoes
  <2> QED BY <2>1
<1>5. CASE TimerFires
  <2>1. /\ status' = status /\ link' = link /\ welcomed' = welcomed /\ lastClosed' = lastClosed
        /\ history' = history
    BY <1>5, TimerFiresDoes
  <2> QED BY <2>1
<1>6. CASE FireReconnect
  <2>1. /\ status' = status /\ link' = link /\ welcomed' = welcomed /\ lastClosed' = lastClosed
        /\ history' = history
    BY <1>6, FireReconnectDoes
  <2> QED BY <2>1
<1>7. CASE TimerConnect
  <2>1. /\ link' = link /\ welcomed' = welcomed /\ lastClosed' = lastClosed
        /\ (status' = status /\ history' = history) \/ status' = "connecting"
    BY <1>7, TimerConnectDoes
  <2> QED BY <2>1
<1>8. CASE NoteAnnounce
  <2>1. /\ status' = status /\ link' = link /\ welcomed' = welcomed /\ lastClosed' = lastClosed
        /\ history' = history
    BY <1>8, NoteAnnounceDoes
  <2> QED BY <2>1
<1>9. ASSUME NEW e \in Attempts, WorkerCancelled(e) PROVE ConnectedHas'
  <2>1. status' = "off"
    BY <1>9, WorkerCancelledDoes
  <2> QED BY <2>1
<1>10. ASSUME NEW e \in Attempts, WorkerFails(e) PROVE ConnectedHas'
  <2>1. status' = "failed"
    BY <1>10, WorkerFailsDoes
  <2> QED BY <2>1
<1>11. ASSUME NEW e \in Attempts, WorkerChecks(e) PROVE ConnectedHas'
  <2>1. /\ status' = status /\ link' = link /\ welcomed' = welcomed /\ lastClosed' = lastClosed
        /\ history' = history
    BY <1>11, WorkerChecksDoes
  <2> QED BY <2>1
<1>12. ASSUME NEW e \in Attempts, WorkerBuilds(e) PROVE ConnectedHas'
  <2>1. /\ status' = status /\ link' = link /\ welcomed' = welcomed /\ lastClosed' = lastClosed
        /\ history' = history
    BY <1>12, WorkerBuildsDoes
  <2> QED BY <2>1
<1>13. ASSUME NEW e \in Attempts, WorkerOvertaken(e) PROVE ConnectedHas'
  <2>1. /\ status' = status /\ link' = link /\ welcomed' = welcomed /\ lastClosed' = lastClosed
        /\ history' = history
    BY <1>13, WorkerOvertakenDoes
  <2> QED BY <2>1
<1>14. ASSUME NEW e \in Attempts, WorkerRegisters(e) PROVE ConnectedHas'
  <2>1. /\ status' = status /\ link' = e /\ welcomed' = welcomed /\ lastClosed' = lastClosed
        /\ history \ {"hushed"} \subseteq history'
    BY <1>14, WorkerRegistersDoes
  <2> QED BY <2>1
<1>15. ASSUME NEW e \in Attempts, WorkerLoopback(e) PROVE ConnectedHas'
  <2>1. status' = "connecting"
    BY <1>15, WorkerLoopbackDoes
  <2> QED BY <2>1
<1>16. ASSUME NEW e \in Attempts, Establish(e) PROVE ConnectedHas'
  <2>1. /\ status' = status /\ link' = link /\ welcomed' = welcomed /\ lastClosed' = lastClosed
        /\ history' = history
    BY <1>16, EstablishDoes
  <2> QED BY <2>1
<1>17. ASSUME NEW e \in Attempts, OnEstablished(e) PROVE ConnectedHas'
  <2>1. status' = "connecting"
    BY <1>17, OnEstablishedDoes
  <2> QED BY <2>1
<1>18. ASSUME NEW e \in Attempts, IdentifyFails(e) PROVE ConnectedHas'
  <2>1. /\ status' = status /\ link' = link /\ welcomed' = welcomed /\ lastClosed' = lastClosed
        /\ history' = history
    BY <1>18, IdentifyFailsDoes
  <2> QED BY <2>1
<1>19. ASSUME NEW e \in Attempts, LinkCloses(e) PROVE ConnectedHas'
  <2>1. /\ status' = status /\ link' = link /\ welcomed' = welcomed /\ lastClosed' = lastClosed
        /\ history' = history
    BY <1>19, LinkClosesDoes
  <2> QED BY <2>1
<1>20. ASSUME NEW e \in Attempts, DogRests(e) PROVE ConnectedHas'
  <2>1. /\ status' = status /\ link' = link /\ welcomed' = welcomed /\ lastClosed' = lastClosed
        /\ history' = history
    BY <1>20, DogRestsDoes
  <2> QED BY <2>1
<1>21. ASSUME NEW e \in Attempts, DogBites(e) PROVE ConnectedHas'
  <2>1. /\ status' = status /\ link' = link /\ welcomed' = welcomed /\ lastClosed' = lastClosed
        /\ history' = history
    BY <1>21, DogBitesDoes
  <2> QED BY <2>1
<1>22. ASSUME NEW e \in Attempts, DogFails(e) PROVE ConnectedHas'
  <2>1. status' = "failed"
    BY <1>22, DogFailsDoes
  <2> QED BY <2>1
<1>23. ASSUME NEW e \in Attempts, HelloStops(e) PROVE ConnectedHas'
  <2>1. /\ status' = status /\ link' = link /\ welcomed' = welcomed /\ lastClosed' = lastClosed
        /\ history' = history
    BY <1>23, HelloStopsDoes
  <2> QED BY <2>1
<1>24. ASSUME NEW e \in Attempts, HelloSends(e) PROVE ConnectedHas'
  <2>1. /\ status' = status /\ link' = link /\ welcomed' = welcomed /\ lastClosed' = lastClosed
        /\ history' = history
    BY <1>24, HelloSendsDoes
  <2> QED BY <2>1
<1>25. ASSUME NEW e \in Attempts, HelloLost(e) PROVE ConnectedHas'
  <2>1. /\ status' = status /\ link' = link /\ welcomed' = welcomed /\ lastClosed' = lastClosed
        /\ history \subseteq history'
    BY <1>25, HelloLostDoes
  <2> QED BY <2>1
<1>26. ASSUME NEW e \in Attempts, WelcomeTimeout(e) PROVE ConnectedHas'
  <2>1. status' = "failed"
    BY <1>26, WelcomeTimeoutDoes
  <2> QED BY <2>1
<1>27. ASSUME NEW e \in Attempts, FailMarks(e) PROVE ConnectedHas'
  <2>1. /\ status' = status /\ link' = link /\ welcomed' = welcomed /\ lastClosed' = lastClosed
        /\ history' = history
    BY <1>27, FailMarksDoes
  <2> QED BY <2>1
<1>28. ASSUME NEW e \in Attempts, FailClears(e) PROVE ConnectedHas'
  <2> DEFINE c == cut[<<"fail", e>>]
  <2>1. /\ status' = status /\ link' = (IF link = c THEN None ELSE link)
        /\ welcomed' = welcomed /\ lastClosed' = lastClosed /\ history \subseteq history'
    BY <1>28, FailClearsDoes
  <2>2. CASE link # c \/ link = None
    BY <2>1, <2>2
  <2>3. CASE link = c /\ link # None
    <3>1. <<"fail", e>> \in Threads /\ ~\E f \in Attempts : <<"fail", e>> = <<"hello", f>>
      BY ThreadNames, RoleNames
    <3>2. ln[link] = "closed"
      BY <2>3, <3>1 DEF CutsClosed
    <3>3. PICK t \in Threads : at[t] = "closing" /\ cut[t] = link
      BY <2>3, <3>2 DEF ClosedIsSeen
    <3>4. at'[t] = "closing" /\ cut'[t] = link /\ lastClosed' # link
      BY <2>1, <2>3, <3>3 DEF NewLink
    <3> HIDE DEF c
    <3> QED BY <2>1, <2>3, <3>4
  <2> QED BY <2>2, <2>3
<1>29. ASSUME NEW e \in Attempts, WelcomeArrives(e) PROVE ConnectedHas'
  <2>1. /\ status' = status /\ link' = link /\ welcomed' = welcomed /\ lastClosed' = lastClosed
        /\ history' = history
    BY <1>29, WelcomeArrivesDoes
  <2> QED BY <2>1
<1>30. ASSUME NEW e \in Attempts, Welcome(e) PROVE ConnectedHas'
  <2>1. status' = status /\ link' = link /\ welcomed' /\ lastClosed' = lastClosed /\ history' = history
    BY <1>30, WelcomeDoes
  <2> QED BY <2>1
<1>31. ASSUME NEW e \in Attempts, Connected(e) PROVE ConnectedHas'
  <2>1. /\ Answer[e] = "answered" /\ link' = link /\ welcomed' = welcomed
        /\ history' = history \cup (IF link # e THEN {"stale"} ELSE {})
    BY <1>31, ConnectedDoes
  <2> QED BY <2>1 DEF AnswerSeen
<1>32. ASSUME NEW t \in Threads, Closing(t) PROVE ConnectedHas'
  BY <1>32
<1>33. CASE UNCHANGED vars
  BY <1>33 DEF vars, hub, session
<1> QED
  BY <1>1, <1>2, <1>3, <1>4, <1>5, <1>6, <1>7, <1>8, <1>9, <1>10, <1>11, <1>12, <1>13, <1>14,
       <1>15, <1>16, <1>17, <1>18, <1>19, <1>20, <1>21, <1>22, <1>23, <1>24, <1>25, <1>26, <1>27,
       <1>28, <1>29, <1>30, <1>31, <1>32, <1>33 DEF Next, Attempt

LEMMA ConnectedHasClosing ==
  ASSUME Base, UserSteps, ConnectedHas, [Next]_vars, NEW t \in Threads, Closing(t) PROVE ConnectedHas'
<1>0. /\ TypeOK /\ Workers /\ LinksKnown /\ RolesKnown /\ CutsKnown
      /\ Worker \in [Attempts -> Steps] /\ ln \in [Attempts -> {"none", "pending", "active", "closed"}]
      /\ None \notin Attempts /\ \A u \in Threads : cut[u] \in Attempts \cup {None}
      /\ link \in Attempts \cup {None} /\ epoch \in Attempts \cup {None}
  BY BaseFacts
<1>1. \A u \in Threads : u # t => at'[u] = at[u] /\ cut'[u] = cut[u]
  BY <1>0, ClosingDoes DEF OnlyMoves
<1>u. at[User] # "idle" /\ at'[User] = "idle" => status' = "off"
  BY <1>0, UserStepsStep
<1>2. CASE OnClosed(t)
  <2>1. at[t] = "closing" /\ status' = status /\ history \subseteq history'
    BY <1>0, <1>2, OnClosedTo
  <2>2. CASE ~Ignored(cut[t])
    <3>1. at'[t] \in {"tailRetry", "tailPlain"}
      BY <1>0, <1>2, <2>2, OnClosedTo DEF OnlyMoves
    <3> QED BY <3>1 DEF ConnectedHas
  <2>3. CASE Ignored(cut[t])
    <3>1. UNCHANGED <<link, lastClosed, welcomed>>
      BY <1>0, <1>2, <2>3, OnClosedTo
    <3> QED BY <1>1, <1>u, <2>1, <2>3, <3>1 DEF ConnectedHas, Ignored
  <2> QED BY <2>2, <2>3
<1>3. CASE OnClosedTail(t) \/ ScheduleReconnect(t)
  BY <1>3 DEF OnClosedTail, ScheduleReconnect, ConnectedHas
<1>4. CASE MaybeSchedule(t)
  <2>1. at[t] = "maybe" /\ UNCHANGED <<status, link, lastClosed, welcomed, history>>
    BY <1>4 DEF MaybeSchedule, hub, session
  <2> QED BY <1>1, <1>u, <2>1 DEF ConnectedHas
<1> QED BY <1>2, <1>3, <1>4 DEF Closing

LEMMA ConnectedHasStep ==
  ASSUME Base, CutsClosed, NewLink, ClosedIsSeen, AnswerSeen, UserSteps, ConnectedHas, [Next]_vars
  PROVE  ConnectedHas'
  BY ConnectedHasOther, ConnectedHasClosing

\* Hence the status is true once everybody is through.
LEMMA StatusTrueHolds ==
  ASSUME Base, ClosedIsSeen, HelloAlive, ConnectedHas, UserSteps PROVE StatusTrue
<1>0. /\ TypeOK /\ Workers /\ LinksKnown /\ RolesKnown /\ CutsKnown
      /\ Worker \in [Attempts -> Steps] /\ ln \in [Attempts -> {"none", "pending", "active", "closed"}]
      /\ None \notin Attempts /\ \A u \in Threads : cut[u] \in Attempts \cup {None}
      /\ link \in Attempts \cup {None} /\ epoch \in Attempts \cup {None}
  BY BaseFacts
<1>1. SUFFICES ASSUME Quiet
      PROVE  /\ status = "connected" => (welcomed /\ LinkOpen) \/ Happened({"stale"})
             /\ LinkActive => welcomed \/ Happened({"late", "hushed"})
  BY DEF StatusTrue
<1>2. /\ \A t \in Threads : at[t] \in {"idle", "watching"}
      /\ \A e \in Attempts : Rns[e] \in {"idle", "watching"} /\ Hello[e] \in {"idle", "watching"}
                              /\ Fail[e] \in {"idle", "watching"}
  BY <1>0, <1>1, QuietMeans
<1>3. link # None => LinkOpen
  <2>1. link # None => ln[link] \in {"pending", "active", "closed"}
    BY <1>0 DEF LinksKnown, Started
  <2>2. link # None => ln[link] # "closed"
    BY <1>2 DEF ClosedIsSeen
  <2> QED BY <1>0, <2>1, <2>2 DEF LinkOpen, Open
<1>4. at[User] = "idle"
  BY <1>2, ThreadNames DEF UserSteps
<1>5. status = "connected" => (welcomed /\ LinkOpen) \/ Happened({"stale"})
  BY <1>2, <1>3, <1>4 DEF ConnectedHas, Happened
<1>6. LinkActive => welcomed \/ Happened({"late", "hushed"})
  BY <1>2 DEF LinkActive, HelloAlive
<1> QED BY <1>5, <1>6

--------------------------------------------------------------------------------
(* A disconnect holds *)

\* After a disconnect the session is empty and stays so.
OffIsEmpty ==
  "off" \in history => (manual /\ link = None) \/ Happened({"late", "overridden"})

\* After a disconnect the status is not a live one for long.
OffIsSilent ==
  "off" \in history =>
    (Live(status) => at[User] # "idle") \/ Happened({"late", "stale", "overridden"})

LEMMA OffIsEmptyStep == ASSUME Base, OffIsEmpty, [Next]_vars PROVE OffIsEmpty'
<1>0. /\ TypeOK /\ Workers /\ LinksKnown /\ RolesKnown /\ CutsKnown
      /\ None \notin Attempts /\ link \in Attempts \cup {None}
  BY BaseFacts
<1>00. "late" \in history => "late" \in history'
  BY <1>0, LastingStays DEF Lasting
<1> USE <1>0, <1>00 DEF OffIsEmpty, Happened
<1>1. CASE UserConnect
  <2>1. history' = history \ (Fresh \cup {"off", "overridden"})
    BY <1>1, UserConnectDoes
  <2> QED BY <2>1
<1>2. CASE Disconnect
  <2>1. link' = None /\ manual'
    BY <1>2, DisconnectDoes
  <2> QED BY <2>1
<1>3. CASE Disconnected
  <2>0. history' = history
    BY <1>3, DisconnectedDoes
  <2>2. /\ "off" \in history' => "off" \in history
        /\ "overridden" \in history => "overridden" \in history'
        /\ "stale" \in history => "stale" \in history'
    BY <2>0
  <2>1. link' \in {link, None} /\ manual' = manual
    BY <1>3, DisconnectedDoes
  <2> QED BY <2>1, <2>2
<1>4. CASE SetAutoReconnect
  <2>0. history' = history \cup {"switched"}
    BY <1>4, SetAutoReconnectDoes
  <2>2. /\ "off" \in history' => "off" \in history
        /\ "overridden" \in history => "overridden" \in history'
        /\ "stale" \in history => "stale" \in history'
    BY <2>0
  <2>1. link' \in {link, None} /\ manual' = manual
    BY <1>4, SetAutoReconnectDoes
  <2> QED BY <2>1, <2>2
<1>5. CASE TimerFires
  <2>0. history' = history
    BY <1>5, TimerFiresDoes
  <2>2. /\ "off" \in history' => "off" \in history
        /\ "overridden" \in history => "overridden" \in history'
        /\ "stale" \in history => "stale" \in history'
    BY <2>0
  <2>1. link' \in {link, None} /\ manual' = manual
    BY <1>5, TimerFiresDoes
  <2> QED BY <2>1, <2>2
<1>6. CASE FireReconnect
  <2>0. history' = history
    BY <1>6, FireReconnectDoes
  <2>2. /\ "off" \in history' => "off" \in history
        /\ "overridden" \in history => "overridden" \in history'
        /\ "stale" \in history => "stale" \in history'
    BY <2>0
  <2>1. link' \in {link, None} /\ manual' = manual
    BY <1>6, FireReconnectDoes
  <2> QED BY <2>1, <2>2
<1>7. CASE TimerConnect
  <2>1. /\ link' = link
        /\ \/ manual' = manual /\ history' = history
           \/ history' = (history \ Fresh) \cup (IF manual THEN {"overridden"} ELSE {})
    BY <1>7, TimerConnectDoes
  <2> QED BY <2>1 DEF Fresh
<1>8. CASE NoteAnnounce
  <2>0. history' = history
    BY <1>8, NoteAnnounceDoes
  <2>2. /\ "off" \in history' => "off" \in history
        /\ "overridden" \in history => "overridden" \in history'
        /\ "stale" \in history => "stale" \in history'
    BY <2>0
  <2>1. link' \in {link, None} /\ manual' = manual
    BY <1>8, NoteAnnounceDoes
  <2> QED BY <2>1, <2>2
<1>9. ASSUME NEW e \in Attempts, WorkerCancelled(e) PROVE OffIsEmpty'
  <2>0. history' = history
    BY <1>9, WorkerCancelledDoes
  <2>2. /\ "off" \in history' => "off" \in history
        /\ "overridden" \in history => "overridden" \in history'
        /\ "stale" \in history => "stale" \in history'
    BY <2>0
  <2>1. link' \in {link, None} /\ manual' = manual
    BY <1>9, WorkerCancelledDoes
  <2> QED BY <2>1, <2>2
<1>10. ASSUME NEW e \in Attempts, WorkerFails(e) PROVE OffIsEmpty'
  <2>0. history' = history
    BY <1>10, WorkerFailsDoes
  <2>2. /\ "off" \in history' => "off" \in history
        /\ "overridden" \in history => "overridden" \in history'
        /\ "stale" \in history => "stale" \in history'
    BY <2>0
  <2>1. link' \in {link, None} /\ manual' = manual
    BY <1>10, WorkerFailsDoes
  <2> QED BY <2>1, <2>2
<1>11. ASSUME NEW e \in Attempts, WorkerChecks(e) PROVE OffIsEmpty'
  <2>0. history' = history
    BY <1>11, WorkerChecksDoes
  <2>2. /\ "off" \in history' => "off" \in history
        /\ "overridden" \in history => "overridden" \in history'
        /\ "stale" \in history => "stale" \in history'
    BY <2>0
  <2>1. link' \in {link, None} /\ manual' = manual
    BY <1>11, WorkerChecksDoes
  <2> QED BY <2>1, <2>2
<1>12. ASSUME NEW e \in Attempts, WorkerBuilds(e) PROVE OffIsEmpty'
  <2>0. history' = history
    BY <1>12, WorkerBuildsDoes
  <2>2. /\ "off" \in history' => "off" \in history
        /\ "overridden" \in history => "overridden" \in history'
        /\ "stale" \in history => "stale" \in history'
    BY <2>0
  <2>1. link' \in {link, None} /\ manual' = manual
    BY <1>12, WorkerBuildsDoes
  <2> QED BY <2>1, <2>2
<1>13. ASSUME NEW e \in Attempts, WorkerOvertaken(e) PROVE OffIsEmpty'
  <2>0. history' = history
    BY <1>13, WorkerOvertakenDoes
  <2>2. /\ "off" \in history' => "off" \in history
        /\ "overridden" \in history => "overridden" \in history'
        /\ "stale" \in history => "stale" \in history'
    BY <2>0
  <2>1. link' \in {link, None} /\ manual' = manual
    BY <1>13, WorkerOvertakenDoes
  <2> QED BY <2>1, <2>2
<1>14. ASSUME NEW e \in Attempts, WorkerRegisters(e) PROVE OffIsEmpty'
  <2>0. /\ history' = (IF stopHello' THEN history ELSE history \ {"hushed"})
                        \cup (IF manual \/ e # epoch THEN {"late"} ELSE {})
                        \cup (IF LinkOpen THEN {"replaced"} ELSE {})
    BY <1>14, WorkerRegistersDoes
  <2>2. /\ "off" \in history' => "off" \in history
        /\ "overridden" \in history => "overridden" \in history'
        /\ "stale" \in history => "stale" \in history'
        /\ manual => "late" \in history'
    BY <2>0
  <2> QED BY <2>2
<1>15. ASSUME NEW e \in Attempts, WorkerLoopback(e) PROVE OffIsEmpty'
  <2>0. /\ history' = (IF stopHello' THEN history ELSE history \ {"hushed"})
                        \cup (IF manual \/ e # epoch THEN {"late"} ELSE {})
                        \cup (IF LinkOpen THEN {"replaced"} ELSE {})
    BY <1>15, WorkerLoopbackDoes
  <2>2. /\ "off" \in history' => "off" \in history
        /\ "overridden" \in history => "overridden" \in history'
        /\ "stale" \in history => "stale" \in history'
        /\ manual => "late" \in history'
    BY <2>0
  <2> QED BY <2>2
<1>16. ASSUME NEW e \in Attempts, Establish(e) PROVE OffIsEmpty'
  <2>0. history' = history
    BY <1>16, EstablishDoes
  <2>2. /\ "off" \in history' => "off" \in history
        /\ "overridden" \in history => "overridden" \in history'
        /\ "stale" \in history => "stale" \in history'
    BY <2>0
  <2>1. link' \in {link, None} /\ manual' = manual
    BY <1>16, EstablishDoes
  <2> QED BY <2>1, <2>2
<1>17. ASSUME NEW e \in Attempts, OnEstablished(e) PROVE OffIsEmpty'
  <2>0. history' = history \cup (IF link # e THEN {"stale"} ELSE {})
    BY <1>17, OnEstablishedDoes
  <2>2. /\ "off" \in history' => "off" \in history
        /\ "overridden" \in history => "overridden" \in history'
        /\ "stale" \in history => "stale" \in history'
    BY <2>0
  <2>1. link' \in {link, None} /\ manual' = manual
    BY <1>17, OnEstablishedDoes
  <2> QED BY <2>1, <2>2
<1>18. ASSUME NEW e \in Attempts, IdentifyFails(e) PROVE OffIsEmpty'
  <2>0. history' = history
    BY <1>18, IdentifyFailsDoes
  <2>2. /\ "off" \in history' => "off" \in history
        /\ "overridden" \in history => "overridden" \in history'
        /\ "stale" \in history => "stale" \in history'
    BY <2>0
  <2>1. link' \in {link, None} /\ manual' = manual
    BY <1>18, IdentifyFailsDoes
  <2> QED BY <2>1, <2>2
<1>19. ASSUME NEW e \in Attempts, LinkCloses(e) PROVE OffIsEmpty'
  <2>0. history' = history
    BY <1>19, LinkClosesDoes
  <2>2. /\ "off" \in history' => "off" \in history
        /\ "overridden" \in history => "overridden" \in history'
        /\ "stale" \in history => "stale" \in history'
    BY <2>0
  <2>1. link' \in {link, None} /\ manual' = manual
    BY <1>19, LinkClosesDoes
  <2> QED BY <2>1, <2>2
<1>20. ASSUME NEW e \in Attempts, DogRests(e) PROVE OffIsEmpty'
  <2>0. history' = history
    BY <1>20, DogRestsDoes
  <2>2. /\ "off" \in history' => "off" \in history
        /\ "overridden" \in history => "overridden" \in history'
        /\ "stale" \in history => "stale" \in history'
    BY <2>0
  <2>1. link' \in {link, None} /\ manual' = manual
    BY <1>20, DogRestsDoes
  <2> QED BY <2>1, <2>2
<1>21. ASSUME NEW e \in Attempts, DogBites(e) PROVE OffIsEmpty'
  <2>0. history' = history
    BY <1>21, DogBitesDoes
  <2>2. /\ "off" \in history' => "off" \in history
        /\ "overridden" \in history => "overridden" \in history'
        /\ "stale" \in history => "stale" \in history'
    BY <2>0
  <2>1. link' \in {link, None} /\ manual' = manual
    BY <1>21, DogBitesDoes
  <2> QED BY <2>1, <2>2
<1>22. ASSUME NEW e \in Attempts, DogFails(e) PROVE OffIsEmpty'
  <2>0. history' = history
    BY <1>22, DogFailsDoes
  <2>2. /\ "off" \in history' => "off" \in history
        /\ "overridden" \in history => "overridden" \in history'
        /\ "stale" \in history => "stale" \in history'
    BY <2>0
  <2>1. link' \in {link, None} /\ manual' = manual
    BY <1>22, DogFailsDoes
  <2> QED BY <2>1, <2>2
<1>23. ASSUME NEW e \in Attempts, HelloStops(e) PROVE OffIsEmpty'
  <2>0. history' = history
    BY <1>23, HelloStopsDoes
  <2>2. /\ "off" \in history' => "off" \in history
        /\ "overridden" \in history => "overridden" \in history'
        /\ "stale" \in history => "stale" \in history'
    BY <2>0
  <2>1. link' \in {link, None} /\ manual' = manual
    BY <1>23, HelloStopsDoes
  <2> QED BY <2>1, <2>2
<1>24. ASSUME NEW e \in Attempts, HelloSends(e) PROVE OffIsEmpty'
  <2>0. history' = history
    BY <1>24, HelloSendsDoes
  <2>2. /\ "off" \in history' => "off" \in history
        /\ "overridden" \in history => "overridden" \in history'
        /\ "stale" \in history => "stale" \in history'
    BY <2>0
  <2>1. link' \in {link, None} /\ manual' = manual
    BY <1>24, HelloSendsDoes
  <2> QED BY <2>1, <2>2
<1>25. ASSUME NEW e \in Attempts, HelloLost(e) PROVE OffIsEmpty'
  <2>0. history' = history \cup (IF LinkOpen THEN {"revived"} ELSE {})
    BY <1>25, HelloLostDoes
  <2>2. /\ "off" \in history' => "off" \in history
        /\ "overridden" \in history => "overridden" \in history'
        /\ "stale" \in history => "stale" \in history'
    BY <2>0
  <2>1. link' \in {link, None} /\ manual' = manual
    BY <1>25, HelloLostDoes
  <2> QED BY <2>1, <2>2
<1>26. ASSUME NEW e \in Attempts, WelcomeTimeout(e) PROVE OffIsEmpty'
  <2>0. history' = history \cup {"timedOut"}
    BY <1>26, WelcomeTimeoutDoes
  <2>2. /\ "off" \in history' => "off" \in history
        /\ "overridden" \in history => "overridden" \in history'
        /\ "stale" \in history => "stale" \in history'
    BY <2>0
  <2>1. link' \in {link, None} /\ manual' = manual
    BY <1>26, WelcomeTimeoutDoes
  <2> QED BY <2>1, <2>2
<1>27. ASSUME NEW e \in Attempts, FailMarks(e) PROVE OffIsEmpty'
  <2>0. history' = history
    BY <1>27, FailMarksDoes
  <2>2. /\ "off" \in history' => "off" \in history
        /\ "overridden" \in history => "overridden" \in history'
        /\ "stale" \in history => "stale" \in history'
    BY <2>0
  <2>1. link' \in {link, None} /\ manual' = manual
    BY <1>27, FailMarksDoes
  <2> QED BY <2>1, <2>2
<1>28. ASSUME NEW e \in Attempts, FailClears(e) PROVE OffIsEmpty'
  <2>0. history' = history \cup (IF status # "failed" THEN {"givenUp"} ELSE {})
    BY <1>28, FailClearsDoes
  <2>2. /\ "off" \in history' => "off" \in history
        /\ "overridden" \in history => "overridden" \in history'
        /\ "stale" \in history => "stale" \in history'
    BY <2>0
  <2>1. link' \in {link, None} /\ manual' = manual
    BY <1>28, FailClearsDoes
  <2> QED BY <2>1, <2>2
<1>29. ASSUME NEW e \in Attempts, WelcomeArrives(e) PROVE OffIsEmpty'
  <2>0. history' = history
    BY <1>29, WelcomeArrivesDoes
  <2>2. /\ "off" \in history' => "off" \in history
        /\ "overridden" \in history => "overridden" \in history'
        /\ "stale" \in history => "stale" \in history'
    BY <2>0
  <2>1. link' \in {link, None} /\ manual' = manual
    BY <1>29, WelcomeArrivesDoes
  <2> QED BY <2>1, <2>2
<1>30. ASSUME NEW e \in Attempts, Welcome(e) PROVE OffIsEmpty'
  <2>0. history' = history
    BY <1>30, WelcomeDoes
  <2>2. /\ "off" \in history' => "off" \in history
        /\ "overridden" \in history => "overridden" \in history'
        /\ "stale" \in history => "stale" \in history'
    BY <2>0
  <2>1. link' \in {link, None} /\ manual' = manual
    BY <1>30, WelcomeDoes
  <2> QED BY <2>1, <2>2
<1>31. ASSUME NEW e \in Attempts, Connected(e) PROVE OffIsEmpty'
  <2>0. history' = history \cup (IF link # e THEN {"stale"} ELSE {})
    BY <1>31, ConnectedDoes
  <2>2. /\ "off" \in history' => "off" \in history
        /\ "overridden" \in history => "overridden" \in history'
        /\ "stale" \in history => "stale" \in history'
    BY <2>0
  <2>1. link' \in {link, None} /\ manual' = manual
    BY <1>31, ConnectedDoes
  <2> QED BY <2>1, <2>2
<1>32. ASSUME NEW t \in Threads, Closing(t) PROVE OffIsEmpty'
  <2>1. manual' = manual
    BY <1>32, ClosingDoes
  <2>2. link' \in {link, None}
    BY <1>32, OnClosedTo DEF Closing, OnClosedTail, ScheduleReconnect, MaybeSchedule, hub, session
  <2>3. history' = history \/ history' = history \cup {"hushed"}
    BY <1>32 DEF Closing, OnClosed, OnClosedTail, ScheduleReconnect, MaybeSchedule
  <2> QED BY <2>1, <2>2, <2>3
<1>33. CASE UNCHANGED vars
  BY <1>33 DEF vars, hub, session, retry
<1> QED
  BY <1>1, <1>2, <1>3, <1>4, <1>5, <1>6, <1>7, <1>8, <1>9, <1>10, <1>11, <1>12, <1>13, <1>14,
       <1>15, <1>16, <1>17, <1>18, <1>19, <1>20, <1>21, <1>22, <1>23, <1>24, <1>25, <1>26, <1>27,
       <1>28, <1>29, <1>30, <1>31, <1>32, <1>33 DEF Next, Attempt

\* A disconnect silences the status, up to the end of the user's own callback.
LEMMA OffIsSilentStep == ASSUME Base, UserSteps, OffIsEmpty, OffIsSilent, [Next]_vars PROVE OffIsSilent'
<1>0. /\ TypeOK /\ Workers /\ LinksKnown /\ RolesKnown /\ CutsKnown
      /\ None \notin Attempts /\ link \in Attempts \cup {None}
  BY BaseFacts
<1>00. "late" \in history => "late" \in history'
  BY <1>0, LastingStays DEF Lasting
<1>u. at[User] # "idle" /\ at'[User] = "idle" => status' = "off"
  BY <1>0, UserStepsStep
<1> USE <1>0, <1>00, <1>u DEF OffIsSilent, Happened, Live
<1>1. CASE UserConnect
  <2>1. history' = history \ (Fresh \cup {"off", "overridden"})
    BY <1>1, UserConnectDoes
  <2> QED BY <2>1
<1>2. CASE Disconnect
  <2>1. at'[User] # "idle"
    BY <1>2, DisconnectDoes
  <2> QED BY <2>1
<1>3. CASE Disconnected
  <2>0. history' = history
    BY <1>3, DisconnectedDoes
  <2>2. /\ "off" \in history' => "off" \in history
        /\ "overridden" \in history => "overridden" \in history'
        /\ "stale" \in history => "stale" \in history'
    BY <2>0
  <2>1. status' = "off"
    BY <1>3, DisconnectedDoes
  <2> QED BY <2>1, <2>2
<1>4. CASE SetAutoReconnect
  <2>0. history' = history \cup {"switched"}
    BY <1>4, SetAutoReconnectDoes
  <2>2. /\ "off" \in history' => "off" \in history
        /\ "overridden" \in history => "overridden" \in history'
        /\ "stale" \in history => "stale" \in history'
    BY <2>0
  <2>1. status' = status
    BY <1>4, SetAutoReconnectDoes
  <2> QED BY <2>1, <2>2
<1>5. CASE TimerFires
  <2>0. history' = history
    BY <1>5, TimerFiresDoes
  <2>2. /\ "off" \in history' => "off" \in history
        /\ "overridden" \in history => "overridden" \in history'
        /\ "stale" \in history => "stale" \in history'
    BY <2>0
  <2>1. status' = status
    BY <1>5, TimerFiresDoes
  <2> QED BY <2>1, <2>2
<1>6. CASE FireReconnect
  <2>0. history' = history
    BY <1>6, FireReconnectDoes
  <2>2. /\ "off" \in history' => "off" \in history
        /\ "overridden" \in history => "overridden" \in history'
        /\ "stale" \in history => "stale" \in history'
    BY <2>0
  <2>1. status' = status
    BY <1>6, FireReconnectDoes
  <2> QED BY <2>1, <2>2
<1>7. CASE TimerConnect
  <2>1. \/ status' = status /\ history' = history
        \/ history' = (history \ Fresh) \cup (IF manual THEN {"overridden"} ELSE {})
    BY <1>7, TimerConnectDoes
  <2> QED BY <2>1 DEF Fresh, OffIsEmpty
<1>8. CASE NoteAnnounce
  <2>0. history' = history
    BY <1>8, NoteAnnounceDoes
  <2>2. /\ "off" \in history' => "off" \in history
        /\ "overridden" \in history => "overridden" \in history'
        /\ "stale" \in history => "stale" \in history'
    BY <2>0
  <2>1. status' = status
    BY <1>8, NoteAnnounceDoes
  <2> QED BY <2>1, <2>2
<1>9. ASSUME NEW e \in Attempts, WorkerCancelled(e) PROVE OffIsSilent'
  <2>0. history' = history
    BY <1>9, WorkerCancelledDoes
  <2>2. /\ "off" \in history' => "off" \in history
        /\ "overridden" \in history => "overridden" \in history'
        /\ "stale" \in history => "stale" \in history'
    BY <2>0
  <2>1. status' = "off"
    BY <1>9, WorkerCancelledDoes
  <2> QED BY <2>1, <2>2
<1>10. ASSUME NEW e \in Attempts, WorkerFails(e) PROVE OffIsSilent'
  <2>0. history' = history
    BY <1>10, WorkerFailsDoes
  <2>2. /\ "off" \in history' => "off" \in history
        /\ "overridden" \in history => "overridden" \in history'
        /\ "stale" \in history => "stale" \in history'
    BY <2>0
  <2>1. status' = "failed"
    BY <1>10, WorkerFailsDoes
  <2> QED BY <2>1, <2>2
<1>11. ASSUME NEW e \in Attempts, WorkerChecks(e) PROVE OffIsSilent'
  <2>0. history' = history
    BY <1>11, WorkerChecksDoes
  <2>2. /\ "off" \in history' => "off" \in history
        /\ "overridden" \in history => "overridden" \in history'
        /\ "stale" \in history => "stale" \in history'
    BY <2>0
  <2>1. status' = status
    BY <1>11, WorkerChecksDoes
  <2> QED BY <2>1, <2>2
<1>12. ASSUME NEW e \in Attempts, WorkerBuilds(e) PROVE OffIsSilent'
  <2>0. history' = history
    BY <1>12, WorkerBuildsDoes
  <2>2. /\ "off" \in history' => "off" \in history
        /\ "overridden" \in history => "overridden" \in history'
        /\ "stale" \in history => "stale" \in history'
    BY <2>0
  <2>1. status' = status
    BY <1>12, WorkerBuildsDoes
  <2> QED BY <2>1, <2>2
<1>13. ASSUME NEW e \in Attempts, WorkerOvertaken(e) PROVE OffIsSilent'
  <2>0. history' = history
    BY <1>13, WorkerOvertakenDoes
  <2>2. /\ "off" \in history' => "off" \in history
        /\ "overridden" \in history => "overridden" \in history'
        /\ "stale" \in history => "stale" \in history'
    BY <2>0
  <2>1. status' = status
    BY <1>13, WorkerOvertakenDoes
  <2> QED BY <2>1, <2>2
<1>14. ASSUME NEW e \in Attempts, WorkerRegisters(e) PROVE OffIsSilent'
  <2>0. /\ history' = (IF stopHello' THEN history ELSE history \ {"hushed"})
                        \cup (IF manual \/ e # epoch THEN {"late"} ELSE {})
                        \cup (IF LinkOpen THEN {"replaced"} ELSE {})
    BY <1>14, WorkerRegistersDoes
  <2>2. /\ "off" \in history' => "off" \in history
        /\ "overridden" \in history => "overridden" \in history'
        /\ "stale" \in history => "stale" \in history'
        /\ manual => "late" \in history'
    BY <2>0
  <2>1. status' = status
    BY <1>14, WorkerRegistersDoes
  <2> QED BY <2>1, <2>2
<1>15. ASSUME NEW e \in Attempts, WorkerLoopback(e) PROVE OffIsSilent'
  <2>0. /\ history' = (IF stopHello' THEN history ELSE history \ {"hushed"})
                        \cup (IF manual \/ e # epoch THEN {"late"} ELSE {})
                        \cup (IF LinkOpen THEN {"replaced"} ELSE {})
    BY <1>15, WorkerLoopbackDoes
  <2>2. /\ "off" \in history' => "off" \in history
        /\ "overridden" \in history => "overridden" \in history'
        /\ "stale" \in history => "stale" \in history'
        /\ manual => "late" \in history'
    BY <2>0
  <2> QED BY <2>2 DEF OffIsEmpty
<1>16. ASSUME NEW e \in Attempts, Establish(e) PROVE OffIsSilent'
  <2>0. history' = history
    BY <1>16, EstablishDoes
  <2>2. /\ "off" \in history' => "off" \in history
        /\ "overridden" \in history => "overridden" \in history'
        /\ "stale" \in history => "stale" \in history'
    BY <2>0
  <2>1. status' = status
    BY <1>16, EstablishDoes
  <2> QED BY <2>1, <2>2
<1>17. ASSUME NEW e \in Attempts, OnEstablished(e) PROVE OffIsSilent'
  <2>0. history' = history \cup (IF link # e THEN {"stale"} ELSE {})
    BY <1>17, OnEstablishedDoes
  <2>2. /\ "off" \in history' => "off" \in history
        /\ "overridden" \in history => "overridden" \in history'
        /\ "stale" \in history => "stale" \in history'
    BY <2>0
  <2>3. link = e \/ "stale" \in history'
    BY <2>0
  <2> QED BY <2>2, <2>3 DEF OffIsEmpty
<1>18. ASSUME NEW e \in Attempts, IdentifyFails(e) PROVE OffIsSilent'
  <2>0. history' = history
    BY <1>18, IdentifyFailsDoes
  <2>2. /\ "off" \in history' => "off" \in history
        /\ "overridden" \in history => "overridden" \in history'
        /\ "stale" \in history => "stale" \in history'
    BY <2>0
  <2>1. status' = status
    BY <1>18, IdentifyFailsDoes
  <2> QED BY <2>1, <2>2
<1>19. ASSUME NEW e \in Attempts, LinkCloses(e) PROVE OffIsSilent'
  <2>0. history' = history
    BY <1>19, LinkClosesDoes
  <2>2. /\ "off" \in history' => "off" \in history
        /\ "overridden" \in history => "overridden" \in history'
        /\ "stale" \in history => "stale" \in history'
    BY <2>0
  <2>1. status' = status
    BY <1>19, LinkClosesDoes
  <2> QED BY <2>1, <2>2
<1>20. ASSUME NEW e \in Attempts, DogRests(e) PROVE OffIsSilent'
  <2>0. history' = history
    BY <1>20, DogRestsDoes
  <2>2. /\ "off" \in history' => "off" \in history
        /\ "overridden" \in history => "overridden" \in history'
        /\ "stale" \in history => "stale" \in history'
    BY <2>0
  <2>1. status' = status
    BY <1>20, DogRestsDoes
  <2> QED BY <2>1, <2>2
<1>21. ASSUME NEW e \in Attempts, DogBites(e) PROVE OffIsSilent'
  <2>0. history' = history
    BY <1>21, DogBitesDoes
  <2>2. /\ "off" \in history' => "off" \in history
        /\ "overridden" \in history => "overridden" \in history'
        /\ "stale" \in history => "stale" \in history'
    BY <2>0
  <2>1. status' = status
    BY <1>21, DogBitesDoes
  <2> QED BY <2>1, <2>2
<1>22. ASSUME NEW e \in Attempts, DogFails(e) PROVE OffIsSilent'
  <2>0. history' = history
    BY <1>22, DogFailsDoes
  <2>2. /\ "off" \in history' => "off" \in history
        /\ "overridden" \in history => "overridden" \in history'
        /\ "stale" \in history => "stale" \in history'
    BY <2>0
  <2>1. status' = "failed"
    BY <1>22, DogFailsDoes
  <2> QED BY <2>1, <2>2
<1>23. ASSUME NEW e \in Attempts, HelloStops(e) PROVE OffIsSilent'
  <2>0. history' = history
    BY <1>23, HelloStopsDoes
  <2>2. /\ "off" \in history' => "off" \in history
        /\ "overridden" \in history => "overridden" \in history'
        /\ "stale" \in history => "stale" \in history'
    BY <2>0
  <2>1. status' = status
    BY <1>23, HelloStopsDoes
  <2> QED BY <2>1, <2>2
<1>24. ASSUME NEW e \in Attempts, HelloSends(e) PROVE OffIsSilent'
  <2>0. history' = history
    BY <1>24, HelloSendsDoes
  <2>2. /\ "off" \in history' => "off" \in history
        /\ "overridden" \in history => "overridden" \in history'
        /\ "stale" \in history => "stale" \in history'
    BY <2>0
  <2>1. status' = status
    BY <1>24, HelloSendsDoes
  <2> QED BY <2>1, <2>2
<1>25. ASSUME NEW e \in Attempts, HelloLost(e) PROVE OffIsSilent'
  <2>0. history' = history \cup (IF LinkOpen THEN {"revived"} ELSE {})
    BY <1>25, HelloLostDoes
  <2>2. /\ "off" \in history' => "off" \in history
        /\ "overridden" \in history => "overridden" \in history'
        /\ "stale" \in history => "stale" \in history'
    BY <2>0
  <2>1. status' = status
    BY <1>25, HelloLostDoes
  <2> QED BY <2>1, <2>2
<1>26. ASSUME NEW e \in Attempts, WelcomeTimeout(e) PROVE OffIsSilent'
  <2>0. history' = history \cup {"timedOut"}
    BY <1>26, WelcomeTimeoutDoes
  <2>2. /\ "off" \in history' => "off" \in history
        /\ "overridden" \in history => "overridden" \in history'
        /\ "stale" \in history => "stale" \in history'
    BY <2>0
  <2>1. status' = "failed"
    BY <1>26, WelcomeTimeoutDoes
  <2> QED BY <2>1, <2>2
<1>27. ASSUME NEW e \in Attempts, FailMarks(e) PROVE OffIsSilent'
  <2>0. history' = history
    BY <1>27, FailMarksDoes
  <2>2. /\ "off" \in history' => "off" \in history
        /\ "overridden" \in history => "overridden" \in history'
        /\ "stale" \in history => "stale" \in history'
    BY <2>0
  <2>1. status' = status
    BY <1>27, FailMarksDoes
  <2> QED BY <2>1, <2>2
<1>28. ASSUME NEW e \in Attempts, FailClears(e) PROVE OffIsSilent'
  <2>0. history' = history \cup (IF status # "failed" THEN {"givenUp"} ELSE {})
    BY <1>28, FailClearsDoes
  <2>2. /\ "off" \in history' => "off" \in history
        /\ "overridden" \in history => "overridden" \in history'
        /\ "stale" \in history => "stale" \in history'
    BY <2>0
  <2>1. status' = status
    BY <1>28, FailClearsDoes
  <2> QED BY <2>1, <2>2
<1>29. ASSUME NEW e \in Attempts, WelcomeArrives(e) PROVE OffIsSilent'
  <2>0. history' = history
    BY <1>29, WelcomeArrivesDoes
  <2>2. /\ "off" \in history' => "off" \in history
        /\ "overridden" \in history => "overridden" \in history'
        /\ "stale" \in history => "stale" \in history'
    BY <2>0
  <2>1. status' = status
    BY <1>29, WelcomeArrivesDoes
  <2> QED BY <2>1, <2>2
<1>30. ASSUME NEW e \in Attempts, Welcome(e) PROVE OffIsSilent'
  <2>0. history' = history
    BY <1>30, WelcomeDoes
  <2>2. /\ "off" \in history' => "off" \in history
        /\ "overridden" \in history => "overridden" \in history'
        /\ "stale" \in history => "stale" \in history'
    BY <2>0
  <2>1. status' = status
    BY <1>30, WelcomeDoes
  <2> QED BY <2>1, <2>2
<1>31. ASSUME NEW e \in Attempts, Connected(e) PROVE OffIsSilent'
  <2>0. history' = history \cup (IF link # e THEN {"stale"} ELSE {})
    BY <1>31, ConnectedDoes
  <2>2. /\ "off" \in history' => "off" \in history
        /\ "overridden" \in history => "overridden" \in history'
        /\ "stale" \in history => "stale" \in history'
    BY <2>0
  <2>3. link = e \/ "stale" \in history'
    BY <2>0
  <2> QED BY <2>2, <2>3 DEF OffIsEmpty
<1>32. ASSUME NEW t \in Threads, Closing(t) PROVE OffIsSilent'
  <2>1. status' \in {status, "off"}
    BY <1>32, ClosingDoes
  <2>3. history' = history \/ history' = history \cup {"hushed"}
    BY <1>32 DEF Closing, OnClosed, OnClosedTail, ScheduleReconnect, MaybeSchedule
  <2> QED BY <2>1, <2>3
<1>33. CASE UNCHANGED vars
  BY <1>33 DEF vars, hub
<1> QED
  BY <1>1, <1>2, <1>3, <1>4, <1>5, <1>6, <1>7, <1>8, <1>9, <1>10, <1>11, <1>12, <1>13, <1>14,
       <1>15, <1>16, <1>17, <1>18, <1>19, <1>20, <1>21, <1>22, <1>23, <1>24, <1>25, <1>26, <1>27,
       <1>28, <1>29, <1>30, <1>31, <1>32, <1>33 DEF Next, Attempt

\* Hence a disconnect holds once everybody is through.
LEMMA DisconnectHoldsHolds ==
  ASSUME Base, UserSteps, OffIsEmpty, OffIsSilent PROVE DisconnectHolds
<1>1. SUFFICES ASSUME Quiet, "off" \in history
      PROVE  (~LinkOpen /\ ~Live(status)) \/ Happened({"late", "stale", "overridden"})
  BY DEF DisconnectHolds
<1>2. at[User] = "idle"
  BY <1>1, BaseFacts, QuietMeans, ThreadNames DEF UserSteps
<1>3. ~LinkOpen \/ Happened({"late", "stale", "overridden"})
  BY <1>1, AttemptNumbers DEF OffIsEmpty, LinkOpen, Happened
<1> QED BY <1>1, <1>2, <1>3 DEF OffIsSilent

--------------------------------------------------------------------------------
(* The hub keeps trying *)

\* Whoever takes the session down owes a retry.  RetryIsKept says who owes it at each
\* moment: the open link, the attempt under way, or a thread on its way to ask for one;
\* a closing that the session expects is owed by the watchdog or the time-out that
\* announced it (ExpectedIs).

\* The watchdogs, and the threads of a WELCOME time-out.
Dogs == {<<"dog", e>> : e \in Attempts}
Fails == {<<"fail", e>> : e \in Attempts}

LEMMA ThreadSets ==
  /\ Dogs \subseteq Threads /\ Fails \subseteq Threads
  /\ \A t \in Dogs : After(t) = "failed"
  /\ \A t \in Fails : After(t) = "clear"
  BY ThreadNames, RoleNames, AfterOf DEF Dogs, Fails

\* Whose closing the session expects: the watchdog or the WELCOME time-out is at it.
ExpectedIs ==
  link # None /\ expected = link =>
    \E t \in Threads : cut[t] = link /\ \/ t \in Dogs /\ at[t] = "closing"
                                        \/ t \in Fails /\ at[t] \in {"closing", "clear"}

\* In any other step a thread that gives up a link stays where it is.
LEMMA OthersKept ==
  ASSUME Base, [Next]_vars, \A u \in Threads : ~Closing(u) /\ ~GoesAhead(u)
  PROVE  \A u \in Threads : at[u] \in Midway \cup {"mark", "clear", "failed"} => at'[u] = at[u] /\ cut'[u] = cut[u]
<1>1. TypeOK /\ Workers /\ LinksKnown /\ RolesKnown
  BY BaseFacts
<1> QED BY <1>1, MidwayStays

\* ExpectedIs through a step of anybody but the closing threads,
LEMMA ExpectedIsOther ==
  ASSUME Base, ExpectedIs, [Next]_vars, \A u \in Threads : ~Closing(u) /\ ~GoesAhead(u) PROVE ExpectedIs'
<1>0. /\ TypeOK /\ Workers /\ LinksKnown /\ RolesKnown /\ CutsKnown
      /\ Worker \in [Attempts -> Steps] /\ ln \in [Attempts -> {"none", "pending", "active", "closed"}]
      /\ None \notin Attempts /\ \A u \in Threads : cut[u] \in Attempts \cup {None}
      /\ link \in Attempts \cup {None} /\ epoch \in Attempts \cup {None}
  BY BaseFacts
<1>00. \A u \in Threads : at[u] \in {"closing", "clear"} => at'[u] = at[u] /\ cut'[u] = cut[u]
  BY OthersKept DEF Midway
<1>000. \A q \in Roles, e \in Attempts : <<q, e>> \in Threads
  BY ThreadNames
<1> USE <1>0, <1>00 DEF ExpectedIs
<1>1. CASE UserConnect
  <2>1. link' \in {link, None} /\ expected' = expected
    BY <1>1, UserConnectDoes
  <2> QED BY <2>1
<1>2. CASE Disconnect
  <2>1. link' \in {link, None} /\ expected' = expected
    BY <1>2, DisconnectDoes
  <2> QED BY <2>1
<1>3. CASE Disconnected
  <2>1. link' \in {link, None} /\ expected' = expected
    BY <1>3, DisconnectedDoes
  <2> QED BY <2>1
<1>4. CASE SetAutoReconnect
  <2>1. link' \in {link, None} /\ expected' = expected
    BY <1>4, SetAutoReconnectDoes
  <2> QED BY <2>1
<1>5. CASE TimerFires
  <2>1. link' \in {link, None} /\ expected' = expected
    BY <1>5, TimerFiresDoes
  <2> QED BY <2>1
<1>6. CASE FireReconnect
  <2>1. link' \in {link, None} /\ expected' = expected
    BY <1>6, FireReconnectDoes
  <2> QED BY <2>1
<1>7. CASE TimerConnect
  <2>1. link' \in {link, None} /\ expected' = expected
    BY <1>7, TimerConnectDoes
  <2> QED BY <2>1
<1>8. CASE NoteAnnounce
  <2>1. link' \in {link, None} /\ expected' = expected
    BY <1>8, NoteAnnounceDoes
  <2> QED BY <2>1
<1>9. ASSUME NEW e \in Attempts, WorkerCancelled(e) PROVE ExpectedIs'
  <2>1. link' \in {link, None} /\ expected' = expected
    BY <1>9, WorkerCancelledDoes
  <2> QED BY <2>1
<1>10. ASSUME NEW e \in Attempts, WorkerFails(e) PROVE ExpectedIs'
  <2>1. link' \in {link, None} /\ expected' = expected
    BY <1>10, WorkerFailsDoes
  <2> QED BY <2>1
<1>11. ASSUME NEW e \in Attempts, WorkerChecks(e) PROVE ExpectedIs'
  <2>1. link' \in {link, None} /\ expected' = expected
    BY <1>11, WorkerChecksDoes
  <2> QED BY <2>1
<1>12. ASSUME NEW e \in Attempts, WorkerBuilds(e) PROVE ExpectedIs'
  <2>1. link' \in {link, None} /\ expected' = expected
    BY <1>12, WorkerBuildsDoes
  <2> QED BY <2>1
<1>13. ASSUME NEW e \in Attempts, WorkerOvertaken(e) PROVE ExpectedIs'
  <2>1. link' \in {link, None} /\ expected' = expected
    BY <1>13, WorkerOvertakenDoes
  <2> QED BY <2>1
<1>14. ASSUME NEW e \in Attempts, WorkerRegisters(e) PROVE ExpectedIs'
  <2>1. link' = e /\ expected' = None
    BY <1>14, WorkerRegistersDoes
  <2> QED BY <2>1
<1>15. ASSUME NEW e \in Attempts, WorkerLoopback(e) PROVE ExpectedIs'
  <2>1. link' = e /\ expected' = None
    BY <1>15, WorkerLoopbackDoes
  <2> QED BY <2>1
<1>16. ASSUME NEW e \in Attempts, Establish(e) PROVE ExpectedIs'
  <2>1. link' \in {link, None} /\ expected' = expected
    BY <1>16, EstablishDoes
  <2> QED BY <2>1
<1>17. ASSUME NEW e \in Attempts, OnEstablished(e) PROVE ExpectedIs'
  <2>1. link' \in {link, None} /\ expected' = expected
    BY <1>17, OnEstablishedDoes
  <2> QED BY <2>1
<1>18. ASSUME NEW e \in Attempts, IdentifyFails(e) PROVE ExpectedIs'
  <2>1. link' \in {link, None} /\ expected' = expected
    BY <1>18, IdentifyFailsDoes
  <2> QED BY <2>1
<1>19. ASSUME NEW e \in Attempts, LinkCloses(e) PROVE ExpectedIs'
  <2>1. link' \in {link, None} /\ expected' = expected
    BY <1>19, LinkClosesDoes
  <2> QED BY <2>1
<1>20. ASSUME NEW e \in Attempts, DogRests(e) PROVE ExpectedIs'
  <2>1. link' \in {link, None} /\ expected' = expected
    BY <1>20, DogRestsDoes
  <2> QED BY <2>1
<1>21. ASSUME NEW e \in Attempts, DogBites(e) PROVE ExpectedIs'
  <2>1. link' = link /\ link = e /\ OnlyMoves(<<"dog", e>>, "closing", e)
    BY <1>21, DogBitesDoes
  <2>2. <<"dog", e>> \in Threads /\ <<"dog", e>> \in Dogs
    BY <1>000, RoleNames DEF Dogs
  <2>3. at'[<<"dog", e>>] = "closing" /\ cut'[<<"dog", e>>] = e
    BY <2>1 DEF OnlyMoves
  <2> QED BY <2>1, <2>2, <2>3
<1>22. ASSUME NEW e \in Attempts, DogFails(e) PROVE ExpectedIs'
  <2>1. <<"dog", e>> \in Threads
    BY <1>000, RoleNames
  <2> QED BY <1>22, <2>1 DEF GoesAhead
<1>23. ASSUME NEW e \in Attempts, HelloStops(e) PROVE ExpectedIs'
  <2>1. link' \in {link, None} /\ expected' = expected
    BY <1>23, HelloStopsDoes
  <2> QED BY <2>1
<1>24. ASSUME NEW e \in Attempts, HelloSends(e) PROVE ExpectedIs'
  <2>1. link' \in {link, None} /\ expected' = expected
    BY <1>24, HelloSendsDoes
  <2> QED BY <2>1
<1>25. ASSUME NEW e \in Attempts, HelloLost(e) PROVE ExpectedIs'
  <2>1. link' \in {link, None} /\ expected' = expected
    BY <1>25, HelloLostDoes
  <2> QED BY <2>1
<1>26. ASSUME NEW e \in Attempts, WelcomeTimeout(e) PROVE ExpectedIs'
  <2>1. link' \in {link, None} /\ expected' = expected
    BY <1>26, WelcomeTimeoutDoes
  <2> QED BY <2>1
<1>27. ASSUME NEW e \in Attempts, FailMarks(e) PROVE ExpectedIs'
  <2>1. <<"fail", e>> \in Threads
    BY <1>000, RoleNames
  <2> QED BY <1>27, <2>1 DEF GoesAhead
<1>28. ASSUME NEW e \in Attempts, FailClears(e) PROVE ExpectedIs'
  <2>1. <<"fail", e>> \in Threads
    BY <1>000, RoleNames
  <2> QED BY <1>28, <2>1 DEF GoesAhead
<1>29. ASSUME NEW e \in Attempts, WelcomeArrives(e) PROVE ExpectedIs'
  <2>1. link' \in {link, None} /\ expected' = expected
    BY <1>29, WelcomeArrivesDoes
  <2> QED BY <2>1
<1>30. ASSUME NEW e \in Attempts, Welcome(e) PROVE ExpectedIs'
  <2>1. link' \in {link, None} /\ expected' = expected
    BY <1>30, WelcomeDoes
  <2> QED BY <2>1
<1>31. ASSUME NEW e \in Attempts, Connected(e) PROVE ExpectedIs'
  <2>1. link' \in {link, None} /\ expected' = expected
    BY <1>31, ConnectedDoes
  <2> QED BY <2>1
<1>32. ASSUME NEW t \in Threads, Closing(t) PROVE ExpectedIs'
  BY <1>32
<1>33. CASE UNCHANGED vars
  BY <1>33 DEF vars, hub, session
<1> QED
  BY <1>1, <1>2, <1>3, <1>4, <1>5, <1>6, <1>7, <1>8, <1>9, <1>10, <1>11, <1>12, <1>13, <1>14,
       <1>15, <1>16, <1>17, <1>18, <1>19, <1>20, <1>21, <1>22, <1>23, <1>24, <1>25, <1>26, <1>27,
       <1>28, <1>29, <1>30, <1>31, <1>32, <1>33 DEF Next, Attempt

\* ... through a step that gives a link up,
LEMMA ExpectedIsAhead ==
  ASSUME Base, ExpectedIs, [Next]_vars, NEW e \in Attempts, FailMarks(e) \/ FailClears(e) \/ DogFails(e)
  PROVE  ExpectedIs'
<1>0. /\ TypeOK /\ Workers /\ LinksKnown /\ RolesKnown /\ CutsKnown
      /\ Worker \in [Attempts -> Steps] /\ ln \in [Attempts -> {"none", "pending", "active", "closed"}]
      /\ None \notin Attempts /\ \A u \in Threads : cut[u] \in Attempts \cup {None}
      /\ link \in Attempts \cup {None} /\ epoch \in Attempts \cup {None}
  BY BaseFacts
<1>1. <<"fail", e>> \in Threads /\ <<"dog", e>> \in Threads /\ <<"fail", e>> \in Fails
  BY ThreadNames, RoleNames DEF Fails
<1>2. CASE FailMarks(e)
  <2>1. /\ link' = link
        /\ \/ link = None
           \/ OnlyMoves(<<"fail", e>>, "closing", link) \/ OnlyMoves(<<"fail", e>>, "clear", link)
    BY <1>0, <1>2, FailMarksDoes
  <2>2. \/ link = None
        \/ at'[<<"fail", e>>] \in {"closing", "clear"} /\ cut'[<<"fail", e>>] = link
    BY <2>1 DEF OnlyMoves
  <2> QED BY <1>1, <2>1, <2>2 DEF ExpectedIs
<1>3. CASE FailClears(e)
  <2>1. /\ link' = (IF link = cut[<<"fail", e>>] THEN None ELSE link) /\ expected' = expected
        /\ \E s, c : OnlyMoves(<<"fail", e>>, s, c)
    BY <1>0, <1>3, FailClearsDoes
  <2>2. \A u \in Threads : u # <<"fail", e>> => at'[u] = at[u] /\ cut'[u] = cut[u]
    BY <2>1 DEF OnlyMoves
  <2> QED BY <2>1, <2>2 DEF ExpectedIs
<1>4. CASE DogFails(e)
  <2>1. Dog[e] = "failed" /\ link' = link /\ expected' = expected /\ \E s, c : OnlyMoves(<<"dog", e>>, s, c)
    BY <1>0, <1>4, DogFailsDoes
  <2>2. \A u \in Threads : u # <<"dog", e>> => at'[u] = at[u] /\ cut'[u] = cut[u]
    BY <2>1 DEF OnlyMoves
  <2>3. at[<<"dog", e>>] = "failed"
    BY <2>1 DEF Dog
  <2> QED BY <2>1, <2>2, <2>3 DEF ExpectedIs
<1> QED BY <1>2, <1>3, <1>4

\* ... and through the closed callback.
LEMMA ExpectedIsClosing ==
  ASSUME Base, NewLink, ExpectedIs, [Next]_vars, NEW t \in Threads, Closing(t) PROVE ExpectedIs'
<1>0. /\ TypeOK /\ Workers /\ LinksKnown /\ RolesKnown /\ CutsKnown
      /\ Worker \in [Attempts -> Steps] /\ ln \in [Attempts -> {"none", "pending", "active", "closed"}]
      /\ None \notin Attempts /\ \A u \in Threads : cut[u] \in Attempts \cup {None}
      /\ link \in Attempts \cup {None} /\ epoch \in Attempts \cup {None}
  BY BaseFacts
<1>1. at[t] \in Midway /\ \A u \in Threads : u # t => at'[u] = at[u] /\ cut'[u] = cut[u]
  BY <1>0, ClosingDoes DEF OnlyMoves
<1>2. CASE OnClosed(t)
  <2>1. (Ignored(cut[t]) /\ link' = link /\ expected' = expected) \/ link' = None
    BY <1>0, <1>2, OnClosedTo
  <2>2. CASE link' = None
    BY <2>2 DEF ExpectedIs
  <2>3. CASE Ignored(cut[t]) /\ link' = link /\ expected' = expected /\ link # None
    <3>1. cut[t] # link
      BY <2>3 DEF Ignored, NewLink
    <3> QED BY <1>1, <2>3, <3>1 DEF ExpectedIs
  <2> QED BY <2>1, <2>2, <2>3
<1>3. CASE OnClosedTail(t) \/ ScheduleReconnect(t) \/ MaybeSchedule(t)
  <2>1. link' = link /\ expected' = expected /\ at[t] \notin {"closing", "clear"}
    BY <1>3 DEF OnClosedTail, ScheduleReconnect, MaybeSchedule, hub, session
  <2> QED BY <1>1, <2>1 DEF ExpectedIs
<1> QED BY <1>2, <1>3 DEF Closing

\* The three steps that take such a thread ahead.
LEMMA AheadIs ==
  ASSUME NEW u \in Threads, GoesAhead(u)
  PROVE  \E e \in Attempts : FailMarks(e) \/ FailClears(e) \/ DogFails(e)
  BY DEF GoesAhead

LEMMA ExpectedIsStep ==
  ASSUME Base, NewLink, ExpectedIs, [Next]_vars PROVE ExpectedIs'
<1>1. CASE \E t \in Threads : Closing(t)
  BY <1>1, ExpectedIsClosing
<1>2. CASE \E e \in Attempts : FailMarks(e) \/ FailClears(e) \/ DogFails(e)
  BY <1>2, ExpectedIsAhead
<1>3. CASE \A u \in Threads : ~Closing(u) /\ ~GoesAhead(u)
  BY <1>3, ExpectedIsOther
<1> QED BY <1>1, <1>2, <1>3, AheadIs

\* Thread t is about to end the session with a retry.
WillRetry(t) ==
  at[t] = "closing" /\ cut[t] # None /\ lastClosed # cut[t] /\ link \in {None, cut[t]} /\ expected # cut[t]

\* Thread t will ask for a retry, or give it up for a reason that is noted.
RetryComes(t) ==
  \/ at[t] \in {"tailRetry", "schedule", "maybe"}
  \/ WillRetry(t)
  \/ t \in Dogs /\ at[t] \in {"closing", "tailPlain", "failed"}
  \/ t \in Fails /\ at[t] \in {"mark", "closing", "tailPlain", "clear"}

\* A link, an attempt, or a thread that will see to a retry.
Trying ==
  \/ LinkOpen
  \/ epoch # None /\ Worker[epoch] \in {"waiting", "checked", "built"}
  \/ \E t \in Threads : RetryComes(t)

\* A retry is armed or fired, or about to connect.
Waits == ~Live(status) /\ (timer = "armed" \/ loose = 1 \/ at[Timer] = "connect")

\* A hub that should be connected has an open link, an attempt or a retry.
RetryIsKept ==
  auto /\ ~manual /\ epoch # None => Trying \/ Waits \/ Happened({"givenUp", "switched", "stale"})

\* A session with a link is open, or its closing will be followed up.
LEMMA LinkTries ==
  ASSUME Base', NewLink', ClosedIsSeen', ExpectedIs', link' # None
  PROVE  Trying'
<1>0. /\ LinksKnown' /\ ln' \in [Attempts -> {"none", "pending", "active", "closed"}]
      /\ link' \in 0 .. MaxConnects
  BY DEF Base, TypeOK
<1>1. link' \in Attempts /\ ln'[link'] # "none"
  BY <1>0, AttemptNumbers DEF LinksKnown, Started
<1>2. CASE ln'[link'] \in {"pending", "active"}
  BY <1>1, <1>2 DEF Trying, LinkOpen, Open
<1>3. CASE ln'[link'] = "closed" /\ expected' # link'
  <2>1. PICK t \in Threads : at'[t] = "closing" /\ cut'[t] = link'
    BY <1>3 DEF ClosedIsSeen
  <2>2. WillRetry(t)'
    BY <1>3, <2>1 DEF WillRetry, NewLink
  <2> QED BY <2>2 DEF Trying, RetryComes
<1>4. CASE expected' = link'
  <2>1. PICK t \in Threads : \/ t \in Dogs /\ at'[t] = "closing"
                             \/ t \in Fails /\ at'[t] \in {"closing", "clear"}
    BY <1>4 DEF ExpectedIs
  <2>2. RetryComes(t)'
    BY <2>1 DEF RetryComes
  <2> QED BY <2>2 DEF Trying
<1> QED BY <1>0, <1>1, <1>2, <1>3, <1>4

\* RetryIsKept through a step of anybody but the closing threads,
LEMMA RetryIsKeptOther ==
  ASSUME Base, RetryIsKept, [Next]_vars, \A u \in Threads : ~Closing(u) /\ ~GoesAhead(u), link' = None
  PROVE  RetryIsKept'
<1>0. /\ TypeOK /\ Workers /\ LinksKnown /\ RolesKnown /\ CutsKnown
      /\ Worker \in [Attempts -> Steps] /\ ln \in [Attempts -> {"none", "pending", "active", "closed"}]
      /\ None \notin Attempts /\ \A u \in Threads : cut[u] \in Attempts \cup {None}
      /\ link \in Attempts \cup {None} /\ epoch \in Attempts \cup {None}
  BY BaseFacts
<1>00. \A u \in Threads : at[u] \in Midway \cup {"mark", "clear", "failed"} => at'[u] = at[u] /\ cut'[u] = cut[u]
  BY OthersKept
<1>000. \A q \in Roles, e \in Attempts : <<q, e>> \in Threads
  BY ThreadNames
<1>r. ASSUME UNCHANGED <<link, lastClosed, expected>>, NEW u \in Threads, RetryComes(u)
      PROVE  RetryComes(u)'
  <2>1. at[u] \in Midway \cup {"mark", "clear", "failed"}
    BY <1>r DEF RetryComes, WillRetry, Midway
  <2>2. at'[u] = at[u] /\ cut'[u] = cut[u]
    BY <1>00, <2>1
  <2> QED BY <1>r, <2>2 DEF RetryComes, WillRetry
<1>t. (link = link' => ~LinkOpen)
  BY <1>0 DEF LinkOpen
<1> DEFINE Excused == Happened({"givenUp", "switched", "stale"})
<1> USE <1>0, <1>r, <1>t DEF RetryIsKept, Trying, Waits, Live
<1>1. CASE UserConnect
  <2>1. /\ epoch + 1 \in Attempts /\ epoch' = epoch + 1
        /\ Worker' = [Worker EXCEPT ![epoch + 1] = "waiting"]
    BY <1>1, UserConnectDoes
  <2>2. Worker'[epoch'] = "waiting"
    BY <2>1
  <2> QED BY <2>2
<1>2. CASE Disconnect
  <2>1. manual'
    BY <1>2, DisconnectDoes
  <2> QED BY <2>1
<1>3. CASE Disconnected
  <2>0. Excused => Excused'
    <3>1. history' = history
      BY <1>3, DisconnectedDoes
    <3> QED BY <3>1 DEF Happened
  <2>1. UNCHANGED <<auto, manual, epoch, timer, loose, link, lastClosed, expected, at[Timer],
                    Worker>> /\ status' = "off"
    BY <1>3, DisconnectedDoes
  <2> QED BY <2>0, <2>1
<1>4. CASE SetAutoReconnect
  <2>1. history' = history \cup {"switched"}
    BY <1>4, SetAutoReconnectDoes
  <2>2. Excused'
    BY <2>1 DEF Happened
  <2> QED BY <2>2
<1>5. CASE TimerFires
  <2>0. Excused => Excused'
    <3>1. history' = history
      BY <1>5, TimerFiresDoes
    <3> QED BY <3>1 DEF Happened
  <2>1. UNCHANGED <<auto, manual, epoch, status, link, lastClosed, expected, at[Timer],
                    Worker>> /\ loose' = 1
    BY <1>5, TimerFiresDoes
  <2> QED BY <2>0, <2>1
<1>6. CASE FireReconnect
  <2>0. Excused => Excused'
    <3>1. history' = history
      BY <1>6, FireReconnectDoes
    <3> QED BY <3>1 DEF Happened
  <2>1. UNCHANGED <<auto, manual, epoch, status, link, lastClosed, expected,
                    Worker>> /\ OnlyMoves(Timer, IF manual \/ ~auto THEN "idle" ELSE "connect",
                    cut[Timer])
    BY <1>6, FireReconnectDoes
  <2>2. at'[Timer] = IF manual \/ ~auto THEN "idle" ELSE "connect"
    BY <2>1 DEF OnlyMoves
  <2> QED BY <2>0, <2>1, <2>2
<1>7. CASE TimerConnect
  <2>1. CASE Live(status)
    <3>1. UNCHANGED <<auto, manual, epoch, status, timer, loose, link, lastClosed, expected,
                      Worker>> /\ history' = history
      BY <1>7, <2>1, TimerConnectDoes
    <3>2. Excused => Excused'
      BY <3>1 DEF Happened
    <3> QED BY <2>1, <3>1, <3>2
  <2>2. CASE ~Live(status)
    <3>1. /\ epoch + 1 \in Attempts /\ epoch' = epoch + 1
          /\ Worker' = [Worker EXCEPT ![epoch + 1] = "waiting"]
      BY <1>7, <2>2, TimerConnectDoes
    <3>2. Worker'[epoch'] = "waiting"
      BY <3>1
    <3> QED BY <3>2
  <2> QED BY <2>1, <2>2
<1>8. CASE NoteAnnounce
  <2>0. Excused => Excused'
    <3>1. history' = history
      BY <1>8, NoteAnnounceDoes
    <3> QED BY <3>1 DEF Happened
  <2>1. UNCHANGED <<auto, manual, epoch, status, timer, loose, link, lastClosed, expected,
                    at[Timer], Worker>> /\ OnlyMoves(Announce,
                    IF timer # "none" THEN "schedule" ELSE "idle", cut[Announce])
    BY <1>8, NoteAnnounceDoes
  <2> QED BY <2>0, <2>1
<1>9. ASSUME NEW e \in Attempts, WorkerCancelled(e) PROVE RetryIsKept'
  <2>1. manual /\ manual' = manual
    BY <1>9, WorkerCancelledDoes
  <2> QED BY <2>1
<1>10. ASSUME NEW e \in Attempts, WorkerFails(e) PROVE RetryIsKept'
  <2>1. OnlyMoves(<<"worker", e>>, "maybe", cut[<<"worker", e>>])
    BY <1>10, WorkerFailsDoes
  <2>2. <<"worker", e>> \in Threads
    BY <1>000, RoleNames
  <2>3. RetryComes(<<"worker", e>>)'
    BY <2>1 DEF RetryComes, OnlyMoves
  <2> QED BY <2>2, <2>3
<1>11. ASSUME NEW e \in Attempts, WorkerChecks(e) PROVE RetryIsKept'
  <2>0. Excused => Excused'
    <3>1. history' = history
      BY <1>11, WorkerChecksDoes
    <3> QED BY <3>1 DEF Happened
  <2>1. UNCHANGED <<auto, manual, epoch, status, timer, loose, link, lastClosed, expected,
                    at[Timer]>> /\ Worker' = [Worker EXCEPT ![e] = "checked"]
    BY <1>11, WorkerChecksDoes
  <2> QED BY <2>0, <2>1
<1>12. ASSUME NEW e \in Attempts, WorkerBuilds(e) PROVE RetryIsKept'
  <2>0. Excused => Excused'
    <3>1. history' = history
      BY <1>12, WorkerBuildsDoes
    <3> QED BY <3>1 DEF Happened
  <2>1. UNCHANGED <<auto, manual, epoch, status, timer, loose, link, lastClosed, expected,
                    at[Timer]>> /\ Worker' = [Worker EXCEPT ![e] = "built"]
    BY <1>12, WorkerBuildsDoes
  <2> QED BY <2>0, <2>1
<1>13. ASSUME NEW e \in Attempts, WorkerOvertaken(e) PROVE RetryIsKept'
  <2>0. Excused => Excused'
    <3>1. history' = history
      BY <1>13, WorkerOvertakenDoes
    <3> QED BY <3>1 DEF Happened
  <2>1. UNCHANGED <<auto, manual, epoch, status, timer, loose, link, lastClosed, expected,
                    at[Timer]>> /\ Worker' = [Worker EXCEPT ![e] = "closing"] /\ e # epoch
    BY <1>13, WorkerOvertakenDoes
  <2> QED BY <2>0, <2>1
<1>14. ASSUME NEW e \in Attempts, WorkerRegisters(e) PROVE RetryIsKept'
  <2>1. link' = e
    BY <1>14, WorkerRegistersDoes
  <2> QED BY <2>1
<1>15. ASSUME NEW e \in Attempts, WorkerLoopback(e) PROVE RetryIsKept'
  <2>1. link' = e
    BY <1>15, WorkerLoopbackDoes
  <2> QED BY <2>1
<1>16. ASSUME NEW e \in Attempts, Establish(e) PROVE RetryIsKept'
  <2>0. Excused => Excused'
    <3>1. history' = history
      BY <1>16, EstablishDoes
    <3> QED BY <3>1 DEF Happened
  <2>1. UNCHANGED <<auto, manual, epoch, status, timer, loose, link, lastClosed, expected,
                    at[Timer], Worker>>
    BY <1>16, EstablishDoes
  <2> QED BY <2>0, <2>1
<1>17. ASSUME NEW e \in Attempts, OnEstablished(e) PROVE RetryIsKept'
  <2>1. link' = link /\ (link # e => "stale" \in history')
    BY <1>17, OnEstablishedDoes
  <2>2. Excused'
    BY <2>1 DEF Happened
  <2> QED BY <2>2
<1>18. ASSUME NEW e \in Attempts, IdentifyFails(e) PROVE RetryIsKept'
  <2>0. Excused => Excused'
    <3>1. history' = history
      BY <1>18, IdentifyFailsDoes
    <3> QED BY <3>1 DEF Happened
  <2>1. UNCHANGED <<auto, manual, epoch, status, timer, loose, link, lastClosed, expected,
                    at[Timer], Worker>>
    BY <1>18, IdentifyFailsDoes
  <2> QED BY <2>0, <2>1
<1>19. ASSUME NEW e \in Attempts, LinkCloses(e) PROVE RetryIsKept'
  <2>0. Excused => Excused'
    <3>1. history' = history
      BY <1>19, LinkClosesDoes
    <3> QED BY <3>1 DEF Happened
  <2>1. UNCHANGED <<auto, manual, epoch, status, timer, loose, link, lastClosed, expected,
                    at[Timer], Worker>>
    BY <1>19, LinkClosesDoes
  <2> QED BY <2>0, <2>1
<1>20. ASSUME NEW e \in Attempts, DogRests(e) PROVE RetryIsKept'
  <2>0. Excused => Excused'
    <3>1. history' = history
      BY <1>20, DogRestsDoes
    <3> QED BY <3>1 DEF Happened
  <2>1. UNCHANGED <<auto, manual, epoch, status, timer, loose, link, lastClosed, expected,
                    at[Timer], Worker>>
    BY <1>20, DogRestsDoes
  <2> QED BY <2>0, <2>1
<1>21. ASSUME NEW e \in Attempts, DogBites(e) PROVE RetryIsKept'
  <2>1. link' = link /\ link = e
    BY <1>21, DogBitesDoes
  <2> QED BY <2>1
<1>22. ASSUME NEW e \in Attempts, DogFails(e) PROVE RetryIsKept'
  <2>1. <<"dog", e>> \in Threads
    BY <1>000, RoleNames
  <2> QED BY <1>22, <2>1 DEF GoesAhead
<1>23. ASSUME NEW e \in Attempts, HelloStops(e) PROVE RetryIsKept'
  <2>0. Excused => Excused'
    <3>1. history' = history
      BY <1>23, HelloStopsDoes
    <3> QED BY <3>1 DEF Happened
  <2>1. UNCHANGED <<auto, manual, epoch, status, timer, loose, link, lastClosed, expected,
                    at[Timer], Worker>>
    BY <1>23, HelloStopsDoes
  <2> QED BY <2>0, <2>1
<1>24. ASSUME NEW e \in Attempts, HelloSends(e) PROVE RetryIsKept'
  <2>0. Excused => Excused'
    <3>1. history' = history
      BY <1>24, HelloSendsDoes
    <3> QED BY <3>1 DEF Happened
  <2>1. UNCHANGED <<auto, manual, epoch, status, timer, loose, link, lastClosed, expected,
                    at[Timer], Worker>>
    BY <1>24, HelloSendsDoes
  <2> QED BY <2>0, <2>1
<1>25. ASSUME NEW e \in Attempts, HelloLost(e) PROVE RetryIsKept'
  <2>0. Excused => Excused'
    <3>1. history \subseteq history'
      BY <1>25, HelloLostDoes
    <3> QED BY <3>1 DEF Happened
  <2>1. UNCHANGED <<auto, manual, epoch, status, timer, loose, link, lastClosed, expected,
                    at[Timer], Worker>>
    BY <1>25, HelloLostDoes
  <2> QED BY <2>0, <2>1
<1>26. ASSUME NEW e \in Attempts, WelcomeTimeout(e) PROVE RetryIsKept'
  <2>1. BothMove(e, "hello", "idle", "fail", "mark")
    BY <1>26, WelcomeTimeoutDoes
  <2>2. <<"fail", e>> \in Threads /\ <<"fail", e>> \in Fails
    BY <1>000, RoleNames DEF Fails
  <2>3. RetryComes(<<"fail", e>>)'
    BY <2>1, <2>2 DEF RetryComes, BothMove
  <2> QED BY <2>2, <2>3
<1>27. ASSUME NEW e \in Attempts, FailMarks(e) PROVE RetryIsKept'
  <2>1. <<"fail", e>> \in Threads
    BY <1>000, RoleNames
  <2> QED BY <1>27, <2>1 DEF GoesAhead
<1>28. ASSUME NEW e \in Attempts, FailClears(e) PROVE RetryIsKept'
  <2>1. <<"fail", e>> \in Threads
    BY <1>000, RoleNames
  <2> QED BY <1>28, <2>1 DEF GoesAhead
<1>29. ASSUME NEW e \in Attempts, WelcomeArrives(e) PROVE RetryIsKept'
  <2>0. Excused => Excused'
    <3>1. history' = history
      BY <1>29, WelcomeArrivesDoes
    <3> QED BY <3>1 DEF Happened
  <2>1. UNCHANGED <<auto, manual, epoch, status, timer, loose, link, lastClosed, expected,
                    at[Timer], Worker>>
    BY <1>29, WelcomeArrivesDoes
  <2> QED BY <2>0, <2>1
<1>30. ASSUME NEW e \in Attempts, Welcome(e) PROVE RetryIsKept'
  <2>0. Excused => Excused'
    <3>1. history' = history
      BY <1>30, WelcomeDoes
    <3> QED BY <3>1 DEF Happened
  <2>1. UNCHANGED <<auto, manual, epoch, status, timer, loose, link, lastClosed, expected,
                    at[Timer], Worker>>
    BY <1>30, WelcomeDoes
  <2> QED BY <2>0, <2>1
<1>31. ASSUME NEW e \in Attempts, Connected(e) PROVE RetryIsKept'
  <2>1. link' = link /\ (link # e => "stale" \in history')
    BY <1>31, ConnectedDoes
  <2>2. Excused'
    BY <2>1 DEF Happened
  <2> QED BY <2>2
<1>32. ASSUME NEW t \in Threads, Closing(t) PROVE RetryIsKept'
  BY <1>32
<1>33. CASE UNCHANGED vars
  <2>0. Excused => Excused'
    BY <1>33 DEF vars, Happened
  <2>1. UNCHANGED <<auto, manual, epoch, status, timer, loose, link, lastClosed, expected,
                    at[Timer], Worker>>
    BY <1>33, SameViews DEF vars, hub, session, retry
  <2> QED BY <2>0, <2>1
<1> QED
  BY <1>1, <1>2, <1>3, <1>4, <1>5, <1>6, <1>7, <1>8, <1>9, <1>10, <1>11, <1>12, <1>13, <1>14,
       <1>15, <1>16, <1>17, <1>18, <1>19, <1>20, <1>21, <1>22, <1>23, <1>24, <1>25, <1>26, <1>27,
       <1>28, <1>29, <1>30, <1>31, <1>32, <1>33 DEF Next, Attempt

\* ... through a step that gives a link up,
LEMMA RetryIsKeptAhead ==
  ASSUME Base, [Next]_vars, NEW e \in Attempts, FailMarks(e) \/ FailClears(e) \/ DogFails(e)
  PROVE  RetryIsKept'
<1>0. /\ TypeOK /\ Workers /\ LinksKnown /\ RolesKnown /\ CutsKnown
      /\ Worker \in [Attempts -> Steps] /\ ln \in [Attempts -> {"none", "pending", "active", "closed"}]
      /\ None \notin Attempts /\ \A u \in Threads : cut[u] \in Attempts \cup {None}
      /\ link \in Attempts \cup {None} /\ epoch \in Attempts \cup {None}
  BY BaseFacts
<1>1. <<"fail", e>> \in Threads /\ <<"dog", e>> \in Threads /\ <<"fail", e>> \in Fails
  BY ThreadNames, RoleNames DEF Fails
<1>2. CASE FailMarks(e)
  <2>1. \E s \in {"closing", "clear"} : \E c : OnlyMoves(<<"fail", e>>, s, c)
    BY <1>0, <1>2, FailMarksDoes
  <2>2. RetryComes(<<"fail", e>>)'
    BY <1>1, <2>1 DEF RetryComes, OnlyMoves
  <2> QED BY <1>1, <2>2 DEF RetryIsKept, Trying
<1>3. CASE FailClears(e)
  <2>1. /\ history' = history \cup (IF status # "failed" THEN {"givenUp"} ELSE {})
        /\ OnlyMoves(<<"fail", e>>, IF status = "failed" THEN "maybe" ELSE "idle", None)
    BY <1>0, <1>3, FailClearsDoes
  <2>2. CASE status # "failed"
    <3>1. "givenUp" \in history'
      BY <2>1, <2>2
    <3> QED BY <3>1 DEF RetryIsKept, Happened
  <2>3. CASE status = "failed"
    <3>1. RetryComes(<<"fail", e>>)'
      BY <2>1, <2>3 DEF RetryComes, OnlyMoves
    <3> QED BY <1>1, <3>1 DEF RetryIsKept, Trying
  <2> QED BY <2>2, <2>3
<1>4. CASE DogFails(e)
  <2>1. OnlyMoves(<<"dog", e>>, "maybe", None)
    BY <1>0, <1>4, DogFailsDoes
  <2>2. RetryComes(<<"dog", e>>)'
    BY <2>1 DEF RetryComes, OnlyMoves
  <2> QED BY <1>1, <2>2 DEF RetryIsKept, Trying
<1> QED BY <1>2, <1>3, <1>4

\* ... and through the closed callback and the retry it asks for.
LEMMA RetryIsKeptClosing ==
  ASSUME Base, NewLink, ExpectedIs, RetryIsKept, [Next]_vars, NEW t \in Threads, Closing(t), link' = None
  PROVE  RetryIsKept'
<1>0. /\ TypeOK /\ Workers /\ LinksKnown /\ RolesKnown /\ CutsKnown
      /\ Worker \in [Attempts -> Steps] /\ ln \in [Attempts -> {"none", "pending", "active", "closed"}]
      /\ None \notin Attempts /\ \A u \in Threads : cut[u] \in Attempts \cup {None}
      /\ link \in Attempts \cup {None} /\ epoch \in Attempts \cup {None}
  BY BaseFacts
<1>1. /\ at[t] \in Midway /\ UNCHANGED <<auto, manual, epoch, loose>>
      /\ \A u \in Threads : u # t => at'[u] = at[u] /\ cut'[u] = cut[u]
  BY <1>0, ClosingDoes DEF OnlyMoves
<1>2. at[Timer] = "connect" => at'[Timer] = "connect"
  BY <1>1, ThreadNames DEF Midway
<1>3. epoch # None => (Worker[epoch] \in {"waiting", "checked", "built"} => Worker'[epoch] = Worker[epoch])
  <2>1. \E s : MovesTo(t, s)
    BY <1>0, ClosingDoes
  <2> QED BY <1>0, <1>1, <2>1 DEF MovesTo, Midway
<1>4. SUFFICES ASSUME auto, ~manual, epoch # None, ~Happened({"givenUp", "switched", "stale"})'
      PROVE  Trying' \/ Waits'
  BY <1>1 DEF RetryIsKept
<1>5. Trying \/ Waits
  <2>1. history \subseteq history'
    BY DEF Closing, OnClosed, OnClosedTail, ScheduleReconnect, MaybeSchedule
  <2>2. ~Happened({"givenUp", "switched", "stale"})
    BY <1>4, <2>1 DEF Happened
  <2> QED BY <1>4, <2>2 DEF RetryIsKept
<1>6. (t \in Dogs => After(t) = "failed") /\ (t \in Fails => After(t) = "clear")
  BY ThreadSets
<1>7. CASE OnClosed(t)
  <2>1. at[t] = "closing" /\ status' = status /\ timer' = timer
    BY <1>0, <1>7, OnClosedTo DEF retry
  <2>2. Waits => Waits'
    BY <1>1, <1>2, <2>1 DEF Waits
  <2>3. epoch # None /\ Worker[epoch] \in {"waiting", "checked", "built"} => Trying'
    BY <1>1, <1>3 DEF Trying
  <2>4. CASE Ignored(cut[t])
    <3>1. UNCHANGED <<link, lastClosed, expected>> /\ at'[t] = After(t)
      BY <1>0, <1>7, <2>4, OnClosedTo DEF OnlyMoves
    <3>2. ~LinkOpen
      BY <1>0, <3>1 DEF LinkOpen
    <3>3. ASSUME NEW u \in Threads, RetryComes(u) PROVE RetryComes(u)'
      <4>1. CASE u # t
        BY <1>1, <3>1, <3>3, <4>1 DEF RetryComes, WillRetry
      <4>2. CASE u = t
        <5>1. ~WillRetry(t)
          BY <2>4, <3>1 DEF WillRetry, Ignored
        <5>2. t \in Dogs \/ t \in Fails
          BY <2>1, <3>3, <4>2, <5>1 DEF RetryComes
        <5> QED BY <1>6, <3>1, <4>2, <5>2 DEF RetryComes
      <4> QED BY <4>1, <4>2
    <3> QED BY <1>5, <2>2, <2>3, <3>2, <3>3 DEF Trying
  <2>5. CASE ~Ignored(cut[t])
    <3>1. /\ at'[t] = (IF Retries(cut[t]) THEN "tailRetry" ELSE "tailPlain")
          /\ lastClosed' = cut[t] /\ expected' = (IF expected = cut[t] THEN None ELSE expected)
          /\ link = None \/ cut[t] = link
      BY <1>0, <1>7, <2>5, OnClosedTo DEF OnlyMoves, Ignored
    <3>2. CASE Retries(cut[t])
      <4>1. RetryComes(t)'
        BY <3>1, <3>2 DEF RetryComes
      <4> QED BY <4>1 DEF Trying
    <3>3. CASE ~Retries(cut[t])
      <4>1. expected = cut[t] /\ at'[t] = "tailPlain"
        BY <1>4, <3>1, <3>3 DEF Retries
      <4>2. CASE link # None
        <5>1. PICK u \in Threads : \/ u \in Dogs /\ at[u] = "closing"
                                   \/ u \in Fails /\ at[u] \in {"closing", "clear"}
          BY <3>1, <4>1, <4>2 DEF ExpectedIs
        <5>2. RetryComes(u)'
          BY <1>1, <4>1, <5>1 DEF RetryComes
        <5> QED BY <5>2 DEF Trying
      <4>3. CASE link = None
        <5>1. ASSUME NEW u \in Threads, RetryComes(u) PROVE RetryComes(u)'
          <6>1. CASE u # t
            <7>1. at'[u] = at[u] /\ cut'[u] = cut[u]
              BY <1>1, <6>1
            <7>2. WillRetry(u) => WillRetry(u)'
              BY <3>1, <4>1, <7>1 DEF WillRetry
            <7> QED BY <5>1, <7>1, <7>2 DEF RetryComes
          <6>2. CASE u = t
            BY <2>1, <4>1, <5>1, <6>2 DEF RetryComes, WillRetry
          <6> QED BY <6>1, <6>2
        <5>2. ~LinkOpen
          BY <1>0, <4>3 DEF LinkOpen
        <5> QED BY <1>5, <2>2, <2>3, <5>1, <5>2 DEF Trying
      <4> QED BY <4>2, <4>3
    <3> QED BY <3>2, <3>3
  <2> QED BY <2>4, <2>5
<1>8. CASE OnClosedTail(t)
  <2>1. /\ at[t] \in {"tailRetry", "tailPlain"} /\ status' = "off"
        /\ UNCHANGED <<timer, link, lastClosed, expected>>
        /\ at' = [at EXCEPT ![t] = IF at[t] = "tailRetry" THEN "schedule" ELSE After(t)]
    BY <1>8 DEF OnClosedTail, GoesOn, Goes, retry, session
  <2>2. at'[t] = IF at[t] = "tailRetry" THEN "schedule" ELSE After(t)
    BY <1>0, <2>1 DEF TypeOK
  <2>3. ASSUME NEW u \in Threads, RetryComes(u) PROVE RetryComes(u)'
    <3>1. CASE u # t
      BY <1>1, <2>1, <2>3, <3>1 DEF RetryComes, WillRetry
    <3>2. CASE u = t
      BY <1>6, <2>1, <2>2, <2>3, <3>2 DEF RetryComes, WillRetry
    <3> QED BY <3>1, <3>2
  <2>4. ~LinkOpen
    BY <1>0, <2>1 DEF LinkOpen
  <2>5. Waits => Waits'
    BY <1>1, <1>2, <2>1 DEF Waits, Live
  <2> QED BY <1>1, <1>3, <1>5, <2>3, <2>4, <2>5 DEF Trying
<1>9. CASE ScheduleReconnect(t)
  BY <1>9 DEF ScheduleReconnect, Waits, Live
<1>10. CASE MaybeSchedule(t)
  <2>1. link' = link /\ at' = [at EXCEPT ![t] = IF manual \/ ~auto \/ link # None THEN "idle" ELSE "schedule"]
    BY <1>10 DEF MaybeSchedule, Goes, hub, session
  <2>2. at'[t] = "schedule"
    BY <1>0, <1>4, <2>1 DEF TypeOK
  <2>3. RetryComes(t)'
    BY <2>2 DEF RetryComes
  <2> QED BY <2>3 DEF Trying
<1> QED BY <1>7, <1>8, <1>9, <1>10 DEF Closing

LEMMA RetryIsKeptStep ==
  ASSUME Base, NewLink, ClosedIsSeen, ExpectedIs, RetryIsKept, [Next]_vars PROVE RetryIsKept'
<1>1. CASE link' # None
  <2>1. Base' /\ NewLink' /\ ClosedIsSeen' /\ ExpectedIs'
    BY BaseStep, NewLinkStep, ClosedIsSeenStep, ExpectedIsStep
  <2> QED BY <1>1, <2>1, LinkTries DEF RetryIsKept
<1>2. CASE link' = None /\ \E t \in Threads : Closing(t)
  BY <1>2, RetryIsKeptClosing
<1>3. CASE \E e \in Attempts : FailMarks(e) \/ FailClears(e) \/ DogFails(e)
  BY <1>3, RetryIsKeptAhead
<1>4. CASE link' = None /\ \A u \in Threads : ~Closing(u) /\ ~GoesAhead(u)
  BY <1>4, RetryIsKeptOther
<1> QED BY <1>1, <1>2, <1>3, <1>4, AheadIs

\* Hence the hub keeps trying once everybody is through.
LEMMA KeepsTryingHolds ==
  ASSUME Base, RetryIsKept PROVE KeepsTrying
<1>0. TypeOK /\ epoch \in Attempts \cup {None} /\ (epoch > 0 => epoch # None)
  BY BaseFacts, AttemptNumbers
<1>1. SUFFICES ASSUME Quiet, auto, ~manual, epoch # None
      PROVE  timer = "armed" \/ LinkOpen \/ Happened({"givenUp", "switched", "stale"})
  BY <1>0 DEF KeepsTrying
<1>2. /\ loose = 0 /\ \A t \in Threads : at[t] \in {"idle", "watching"}
      /\ \A e \in Attempts : Worker[e] \in {"idle", "watching"}
  BY <1>0, <1>1, QuietMeans
<1>3. \A t \in Threads : ~RetryComes(t)
  BY <1>2 DEF RetryComes, WillRetry
<1>4. Worker[epoch] \notin {"waiting", "checked", "built"}
  BY <1>0, <1>1, <1>2
<1>5. at[Timer] # "connect"
  BY <1>2, ThreadNames
<1> QED BY <1>1, <1>2, <1>3, <1>4, <1>5 DEF RetryIsKept, Trying, Waits

--------------------------------------------------------------------------------
(* All of it, and the theorems *)

\* What the session keeps of links and stop flags ...
LinksInv ==
  /\ Base /\ CutsClosed /\ OpenSeen /\ NewLink /\ LatestHas /\ LatestBuilt /\ StopIsOurs
  /\ ClosedIsSeen /\ ExpectedIs

\* ... of the status, of the user's disconnect and of the retries.
SessionInv ==
  /\ LinksInv
  /\ AnswerSeen /\ HelloAlive /\ UserSteps /\ ConnectedHas
  /\ OffIsEmpty /\ OffIsSilent
  /\ RetryIsKept

\* A hub that has just been made keeps all of it ...
LEMMA SessionStart == Init => SessionInv
<1> SUFFICES ASSUME Init PROVE SessionInv
  OBVIOUS
<1>1. /\ \A t \in Threads : at[t] = "idle" /\ cut[t] = None
      /\ \A e \in Attempts : ln[e] = "none" /\ e > epoch
      /\ link = None /\ epoch = None /\ greeted = {} /\ lastClosed = None /\ None \notin Attempts
      /\ status = "off" /\ history = {} /\ epoch \in Nat
  BY AttemptNumbers DEF Init, Attempts, None
<1>2. TypeOK
  <2>1. /\ at \in [Threads -> Steps] /\ cut \in [Threads -> 0 .. MaxConnects]
        /\ ln \in [Attempts -> {"none", "pending", "active", "closed"}]
    BY MaxConnectsAssumption DEF Init, Steps, None
  <2>2. /\ plan \in Plans /\ stops \in 0 .. MaxStops /\ epoch \in 0 .. MaxConnects
        /\ {link, lastClosed, expected} \subseteq 0 .. MaxConnects
    BY BoundsAssumption, MaxConnectsAssumption DEF Init, None
  <2>3. /\ status = "off" /\ timer = "none" /\ loose = 0 /\ greeted = {}
        /\ {manual, auto, retried, stopHello, welcomed} \subseteq BOOLEAN
    BY DEF Init
  <2> QED BY <2>1, <2>2, <2>3 DEF TypeOK
<1>3. /\ \A q \in Roles, e \in Attempts : <<q, e>> \in Threads
      /\ User \in Threads
  BY ThreadNames
<1>4. \A e \in Attempts : /\ Worker[e] = "idle" /\ Rns[e] = "idle" /\ Closer[e] = "idle" /\ Dog[e] = "idle"
                          /\ Hello[e] = "idle" /\ Fail[e] = "idle" /\ Answer[e] = "idle"
  BY <1>1, <1>3, RoleNames DEF Worker, Rns, Closer, Dog, Hello, Fail, Answer
<1>5. Base
  BY <1>1, <1>2, <1>4 DEF Base, Workers, LinksKnown, RolesKnown, CutsKnown
<1>6. /\ CutsClosed /\ OpenSeen /\ NewLink /\ LatestHas /\ LatestBuilt /\ StopIsOurs
      /\ ClosedIsSeen /\ ExpectedIs
  BY <1>1, <1>4 DEF CutsClosed, OpenSeen, Open, NewLink, LatestHas, LatestBuilt, StopIsOurs,
                    ClosedIsSeen, ExpectedIs
<1>7. /\ AnswerSeen /\ HelloAlive /\ UserSteps /\ ConnectedHas
      /\ OffIsEmpty /\ OffIsSilent /\ RetryIsKept
  BY <1>1, <1>3, <1>4 DEF AnswerSeen, HelloAlive, UserSteps, ConnectedHas, OffIsEmpty,
                          OffIsSilent, RetryIsKept
<1> QED BY <1>5, <1>6, <1>7 DEF SessionInv, LinksInv

\* ... and so does every step.
LEMMA SessionStep == ASSUME SessionInv, [Next]_vars PROVE SessionInv'
<1>0. /\ Base /\ CutsClosed /\ OpenSeen /\ NewLink /\ LatestHas /\ LatestBuilt /\ StopIsOurs
      /\ ClosedIsSeen /\ ExpectedIs
      /\ AnswerSeen /\ HelloAlive /\ UserSteps /\ ConnectedHas
      /\ OffIsEmpty /\ OffIsSilent /\ RetryIsKept
  BY DEF SessionInv, LinksInv
<1>1. TypeOK
  BY <1>0 DEF Base
<1>2. Base' /\ CutsClosed' /\ OpenSeen'
  BY <1>0, BaseStep, CutsClosedStep, OpenSeenStep
<1>3. NewLink' /\ LatestHas' /\ LatestBuilt' /\ StopIsOurs'
  BY <1>0, NewLinkStep, LatestHasStep, LatestBuiltStep, StopIsOursStep
<1>4. ClosedIsSeen' /\ ExpectedIs'
  BY <1>0, ClosedIsSeenStep, ExpectedIsStep
<1>5. AnswerSeen' /\ HelloAlive' /\ UserSteps'
  BY <1>0, <1>1, AnswerSeenStep, HelloAliveStep, UserStepsStep
<1>6. ConnectedHas'
  BY <1>0, ConnectedHasStep
<1>7. OffIsEmpty' /\ OffIsSilent'
  BY <1>0, OffIsEmptyStep, OffIsSilentStep
<1>8. RetryIsKept'
  BY <1>0, RetryIsKeptStep
<1> QED BY <1>2, <1>3, <1>4, <1>5, <1>6, <1>7, <1>8 DEF SessionInv, LinksInv

LEMMA SessionKept == Spec => []SessionInv
  BY SessionStart, SessionStep, PTL DEF Spec

\* A welcomed session ends only when its own link closed or the user left, but for a
\* HELLO loop that came back to life (_on_closed: the callback of another link returns
\* early): for any number of attempts, threads and disconnects.
THEOREM ASessionEndsWithItsLink == Spec => SessionEnds
<1>1. SessionInv /\ [Next]_vars => [welcomed /\ ~welcomed' => ~LinkOpen \/ Happened({"revived"})]_vars
  <2> SUFFICES ASSUME SessionInv, [Next]_vars, welcomed, ~welcomed'
               PROVE  ~LinkOpen \/ Happened({"revived"})
    OBVIOUS
  <2> QED BY SessionEndsStep DEF SessionInv, LinksInv
<1> QED BY <1>1, SessionKept, PTL DEF Spec, SessionEnds

\* No link stays open that the hub has lost sight of, unless it put another link over an
\* open one or a HELLO loop came back to life (_connect_worker's epoch check,
\* _fail_welcome_timeout, _on_closed): for any number of attempts.
THEOREM NoLinkIsLost == Spec => []OrphanExplained
<1>1. SessionInv => OrphanExplained
  BY OrphanExplainedHolds DEF SessionInv, LinksInv, Base
<1> QED BY <1>1, SessionKept, PTL

\* At rest Connected means a welcomed session on an open link, and an active link is
\* welcomed, but for a status set for another link and a HELLO loop that was stopped by
\* another link's callback (_on_welcome, _on_closed, _hello_loop).
THEOREM TheStatusIsTrue == Spec => []StatusTrue
<1>1. SessionInv => StatusTrue
  BY StatusTrueHolds DEF SessionInv, LinksInv
<1> QED BY <1>1, SessionKept, PTL

\* After disconnect() the hub stays off until the user connects, but for a link that is
\* registered late, a status set for another link and a retry that was past its check
\* (disconnect, _connect_worker, _fire_reconnect).
THEOREM TheDisconnectHolds == Spec => []DisconnectHolds
<1>1. SessionInv => DisconnectHolds
  BY DisconnectHoldsHolds DEF SessionInv, LinksInv
<1> QED BY <1>1, SessionKept, PTL

\* A hub at rest that should be connected has an open link or a retry that is armed, but
\* for the three reasons KeepsTrying names (_on_closed, _fire_reconnect,
\* _maybe_schedule_reconnect_after_failed_connect, _fail_welcome_timeout): there is no
\* other way out of the retry loop, however many attempts there are.
THEOREM TheHubKeepsTrying == Spec => []KeepsTrying
<1>1. SessionInv => KeepsTrying
  BY KeepsTryingHolds DEF SessionInv, LinksInv
<1> QED BY <1>1, SessionKept, PTL

--------------------------------------------------------------------------------
(* The types of both *)

TypesInv == TypeOK /\ RoomsInv

\* Every variable of the session and of the rooms keeps its type; in particular the
\* hub relays no message more often than the client sent it (_handle_message of the
\* hub, send_message and retry_message of the client).
THEOREM TheTypesAreKept == MCSpec => []MCTypeOK
<1>1. MCInit => TypesInv
  BY SessionStart, RoomsInvStart DEF MCInit, SessionInv, LinksInv, Base, TypesInv
<1>2. TypesInv /\ [MCNext]_MCvars => TypesInv'
  <2> SUFFICES ASSUME TypesInv, [MCNext]_MCvars PROVE TypesInv'
    OBVIOUS
  <2>1. [Next]_vars /\ [RoomsNext]_roomVars
    BY DEF MCNext, MCvars
  <2>2. TypeOK'
    BY <2>1, SessionTypesStep DEF TypesInv
  <2>3. RoomsInv'
    BY <2>1, RoomsInvStep DEF TypesInv
  <2> QED BY <2>2, <2>3 DEF TypesInv
<1>3. TypesInv => MCTypeOK
  BY RoomsInvTypes DEF TypesInv, MCTypeOK
<1> QED BY <1>1, <1>2, <1>3, PTL DEF MCSpec
================================================================================
