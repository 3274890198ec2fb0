------------------------------ MODULE LxmfOutbox ------------------------------
(***************************************************************************)
(* The LXMF outbox of MeshChatX: sending one message, tracking it in the   *)
(* lxmf_messages table, falling back to a propagation node, cancelling,    *)
(* deleting and re-sending it by hand, the automatic re-send of failed     *)
(* rows, and the start-up pass over rows a crash left behind.              *)
(*                                                                         *)
(* Three kinds of thread touch the same row:                               *)
(*   - the asyncio event loop: send_message, the progress polls, the       *)
(*     auto-resend run and the HTTP handlers, atomic between two awaits;   *)
(*   - the router's threads, which change the live LXMessage and run its   *)
(*     delivery and failure callbacks;                                     *)
(*   - the start-up pass, which runs before either.                        *)
(* A row update is a SELECT of the stored state followed by an UPDATE, two *)
(* calls on a connection per thread with no lock around them.              *)
(*                                                                         *)
(* One peer is modelled.  A message keeps its title, content and pinned    *)
(* timestamp through every re-send, so its hash depends on the payload and *)
(* on the icon field it carries, if any: Hashes are <<payload, variant>>.  *)
(* Time is two timers that may run out at any moment: the claim cooldown   *)
(* (120 s) and the age below which equal content counts as recent (300 s). *)
(***************************************************************************)
EXTENDS Naturals, FiniteSets

CONSTANTS
  Payloads,     \* what the user writes: content, title, timestamp, attachments
  SelfPayloads, \* the payloads addressed to our own lxmf.delivery destination
  RichPayloads, \* the payloads whose stored fields JSON is not '{}' (attachments)
  Stored,       \* the payloads an earlier run of the program left in a failed row
  Sends,        \* calls of send_message; one live LXMessage each
  MaxAttempts,  \* MAX_AUTO_RESEND_ATTEMPTS
  TryProp,      \* config auto_send_failed_messages_to_propagation_node
  HasNode,      \* an outbound propagation node is configured
  Icons,        \* the icons the user may set; the first message with one carries it
  UserActs,     \* what else the user does, a subset of UserActions
  MaxCrashes,   \* how often the process dies (bound)
  Preempt       \* may another thread run between the SELECT and the UPDATE?

UserActions == {"propagated", "cancel", "delete", "resend", "icon"}

ASSUME OutboxAssumption ==
  /\ SelfPayloads \subseteq Payloads
  /\ RichPayloads \subseteq Payloads
  /\ Stored \subseteq Payloads \ SelfPayloads
  /\ MaxAttempts \in Nat \ {0}
  /\ MaxCrashes \in Nat
  /\ UserActs \subseteq UserActions
  /\ {TryProp, HasNode, Preempt} \subseteq BOOLEAN
  /\ "bare" \notin Icons

Variants == Icons \cup {"bare"}
Hashes   == Payloads \X Variants
PayloadOf(h) == h[1]

\* The states of lxmf_messages.state.  generating, outbound and sending are
\* one value: no guard of the code tells them apart.
InFlight  == {"outbound", "sent"}
Terminal  == {"delivered", "rejected", "cancelled", "failed"}
RowStates == InFlight \cup Terminal

NoRow  == [st |-> "none", prop |-> FALSE, count |-> 0, claim |-> FALSE]
None   == <<>>
Kinds  == {"poll", "cb"}

VARIABLES
  row,      \* row[h]: st, prop (method propagated), count (auto-resend count
            \* in fields), claim: next_delivery_attempt_at is set by a claim
            \* and its cooldown is not over
  obj,      \* obj[i]: the live LXMessage of send i; call: a callback is owed
  snd,      \* snd[i]: the coroutine of send i and of the caller awaiting it
  wr,       \* wr[k][i]: a state write of the progress poll or of a callback
  auto,     \* the auto-resend run holding the lock: rows left and their counts
  canc,     \* the hash whose cancel handler has read the row, or None
  icon,     \* icon.now: the icon set, or "bare"; icon.sent: the one last sent
  recent,   \* payloads stamped less than RECENT_SAME_CONTENT_SECONDS ago
  saved,    \* history: payloads stored by the user's send and never deleted by the user
  crashes   \* how often the process has died

vars == <<row, obj, snd, wr, auto, canc, icon, recent, saved, crashes>>

--------------------------------------------------------------------------------
(* Shape of the state *)

NewObj  == [hash |-> None, st |-> "free", prop |-> FALSE, try |-> FALSE, call |-> FALSE]
NewSnd  == [pc |-> "new", by |-> "user", p |-> None, old |-> None, n |-> 0,
            prop |-> FALSE, seen |-> "outbound", via |-> FALSE]
IdleWr  == [pc |-> "off", st |-> "outbound", prop |-> FALSE]

MidStep == {"convert", "upsert", "reconvert", "reupsert"}

Queued(i) == obj[i].st = "outbound" \/ (obj[i].st = "sent" /\ ~obj[i].prop)
Parked(i) == obj[i].st = "sent" /\ obj[i].prop

AutoSending == \E i \in Sends : /\ snd[i].by = "auto"
                                /\ snd[i].pc \notin {"new", "done", "dead"}

\* The auto-resend run is between two rows: it awaits nothing there.
AutoTurn == auto.todo # {} /\ ~AutoSending

\* A coroutine runs alone on the event loop until its next await.
NoMidStep == /\ \A i \in Sends : snd[i].pc \notin MidStep
             /\ \A i \in Sends : wr["poll"][i].pc # "update"
             /\ canc = None
LoopFree  == NoMidStep /\ ~AutoTurn

\* Preempt = FALSE: a database call is not interleaved with another thread.
Undisturbed == \/ Preempt
               \/ canc = None /\ \A k \in Kinds, i \in Sends : wr[k][i].pc # "update"

--------------------------------------------------------------------------------
(* The stored row *)

\* Mutants of Guarded: no guard, a transmission taken for a delivery, and every
\* terminal state final.
GuardedNever(old, new)  == new
GuardedSent(old, new)   == IF new = "sent" THEN "delivered" ELSE new
GuardedAlways(old, new) == IF old \in Terminal THEN old ELSE new

\* The guard both writers apply: a terminal state never becomes an in-flight one.
Guarded(old, new) == IF old \in Terminal /\ new \in InFlight THEN old ELSE new

\* fields = CASE WHEN EXCLUDED.fields = '{}' THEN the stored fields: a plain
\* message keeps the auto-resend count, an icon or an attachment erases it.
BlankFields(h) == h[2] = "bare" /\ PayloadOf(h) \notin RichPayloads

Upserted(h, st, prop) ==
  [st    |-> Guarded(row[h].st, st),
   prop  |-> prop,
   count |-> IF BlankFields(h) THEN row[h].count ELSE 0,
   claim |-> FALSE]

\* UPDATE ... WHERE hash = ?: no row, no effect.  Like the upsert it stores the
\* live object's next_delivery_attempt, so a claim's cooldown is gone.
Updated(h, st, prop) ==
  IF row[h] = NoRow THEN NoRow
  ELSE [row[h] EXCEPT !.st = st, !.prop = prop, !.claim = FALSE]

RecentOutbound(p) ==
  p \in recent /\ \E h \in Hashes : PayloadOf(h) = p /\ row[h].st \in RowStates \ {"failed"}

--------------------------------------------------------------------------------
(* send_message *)

Start(i, by, p, old, n, prop) ==
  /\ snd[i].pc = "new"
  /\ snd' = [snd EXCEPT ![i] = [pc |-> "path", by |-> by, p |-> p, old |-> old, n |-> n,
                                prop |-> prop, seen |-> "outbound", via |-> FALSE]]

\* A resend that stores a row the user deleted meanwhile does not undo the delete.
Saved(i) == IF snd[i].by = "user" THEN saved \cup {snd[i].p} ELSE saved

\* The user writes a message: send_message runs up to its wait for a path.
UserSend(i, p, prop) ==
  /\ LoopFree
  /\ p \notin Stored /\ \A j \in Sends : ~(snd[j].by = "user" /\ snd[j].p = p)
  /\ prop => "propagated" \in UserActs
  /\ Start(i, "user", p, None, 0, prop)
  /\ recent' = recent \cup {p}
  /\ UNCHANGED <<row, obj, wr, auto, canc, icon, saved, crashes>>

\* ValueError (propagated to ourselves, or with no node) or LookupError (peer
\* identity unknown) with nothing stored, or the TimeoutError of a stored
\* pathless send, which is raised after the broadcast of its row.
SendRefused(i) ==
  /\ snd[i].pc \in {"path", "raise"} /\ LoopFree
  /\ snd' = [snd EXCEPT ![i].pc = "done"]
  /\ UNCHANGED <<row, obj, wr, auto, canc, icon, recent, saved, crashes>>

\* The icon goes along when it differs from the one last sent to the peer.
BuiltHash(i) == <<snd[i].p, IF icon.now # icon.sent THEN icon.now ELSE "bare">>
IconSent     == icon' = IF icon.now = "bare" THEN icon ELSE [icon EXCEPT !.sent = icon.now]

\* The path is there (also by the late recheck): build the message and hand
\* it to the router before anything is stored.
SendQueued(i) ==
  /\ snd[i].pc = "path" /\ LoopFree
  /\ snd[i].p \notin SelfPayloads
  /\ snd[i].prop => HasNode
  /\ obj' = [obj EXCEPT ![i] = [hash |-> BuiltHash(i), st |-> "outbound",
                                prop |-> snd[i].prop, try |-> TryProp, call |-> FALSE]]
  /\ IconSent
  /\ snd' = [snd EXCEPT ![i].pc = "convert"]
  /\ UNCHANGED <<row, wr, auto, canc, recent, saved, crashes>>

\* No path: store the message as failed and tell the clients.
SendPathless(i) ==
  /\ snd[i].pc = "path" /\ LoopFree
  /\ snd[i].p \notin SelfPayloads
  /\ snd[i].prop => HasNode
  /\ row' = [row EXCEPT ![BuiltHash(i)] = Upserted(BuiltHash(i), "failed", snd[i].prop)]
  /\ saved' = Saved(i)
  /\ IconSent
  /\ snd' = [snd EXCEPT ![i].pc = "raise"]
  /\ UNCHANGED <<obj, wr, auto, canc, recent, crashes>>

\* A message to ourselves is packed, marked delivered and stored; no router.
SendLocal(i) ==
  /\ snd[i].pc = "path" /\ LoopFree
  /\ snd[i].p \in SelfPayloads /\ ~snd[i].prop
  /\ obj' = [obj EXCEPT ![i] = [NewObj EXCEPT !.hash = BuiltHash(i), !.st = "delivered"]]
  /\ row' = [row EXCEPT ![BuiltHash(i)] = Upserted(BuiltHash(i), "delivered", FALSE)]
  /\ saved' = Saved(i)
  /\ IconSent
  /\ snd' = [snd EXCEPT ![i].pc = "notify"]
  /\ UNCHANGED <<wr, auto, canc, recent, crashes>>

\* db_upsert_lxmf_message reads the live message first, ...
SendConvert(i) ==
  /\ snd[i].pc \in {"convert", "reconvert"}
  /\ snd' = [snd EXCEPT ![i].pc = IF @ = "convert" THEN "upsert" ELSE "reupsert",
                        ![i].seen = obj[i].st, ![i].via = obj[i].prop]
  /\ UNCHANGED <<row, obj, wr, auto, canc, icon, recent, saved, crashes>>

\* ... then stores what it read; send_message awaits the broadcast next.
SendUpsert(i) ==
  /\ snd[i].pc = "upsert"
  /\ row' = [row EXCEPT ![obj[i].hash] = Upserted(obj[i].hash, snd[i].seen, snd[i].via)]
  /\ saved' = Saved(i)
  /\ snd' = [snd EXCEPT ![i].pc = "notify", ![i].seen = "outbound", ![i].via = FALSE]
  /\ UNCHANGED <<obj, wr, auto, canc, icon, recent, crashes>>

\* Mutant: the row dropped for a same-hash re-send is not stored again.
AfterDropOnce(i) == IF snd[i].by = "auto" THEN "count" ELSE "done"

AfterDrop(i) == IF snd[i].old = obj[i].hash THEN "reconvert"
                ELSE IF snd[i].by = "auto" THEN "count" ELSE "done"

\* Mutant: nobody polls the message.
PollForgotten(i) == wr

PollStarted(i) == IF snd[i].p \in SelfPayloads THEN wr
                  ELSE [wr EXCEPT !["poll"][i] = [IdleWr EXCEPT !.pc = "read"]]

\* The broadcast is out: start the progress poll and return to the caller.  A
\* re-send then drops the old row; when the hash is the same it is this
\* message's own row, which is stored again in the same step of the loop.
SendReturn(i) ==
  /\ snd[i].pc = "notify" /\ LoopFree
  /\ wr' = PollStarted(i)
  /\ IF snd[i].by = "user"
     THEN row' = row /\ snd' = [snd EXCEPT ![i].pc = "done"]
     ELSE /\ row' = [row EXCEPT ![snd[i].old] = NoRow]
          /\ snd' = [snd EXCEPT ![i].pc = AfterDrop(i)]
  /\ UNCHANGED <<obj, auto, canc, icon, recent, saved, crashes>>

\* The same-hash re-send stores the row again; auto-resend adds its count.
SendReopen(i) ==
  /\ snd[i].pc = "reupsert"
  /\ row' = [row EXCEPT ![obj[i].hash] =
               [Upserted(obj[i].hash, snd[i].seen, snd[i].via) EXCEPT !.count = snd[i].n]]
  /\ snd' = [snd EXCEPT ![i].pc = "done", ![i].seen = "outbound", ![i].via = FALSE]
  /\ UNCHANGED <<obj, wr, auto, canc, icon, recent, saved, crashes>>

\* set_auto_resend_count_on_message on the replacement's row, if it is there.
AutoCount(i) ==
  /\ snd[i].pc = "count" /\ LoopFree
  /\ row' = IF row[obj[i].hash] = NoRow THEN row
            ELSE [row EXCEPT ![obj[i].hash].count = snd[i].n]
  /\ snd' = [snd EXCEPT ![i].pc = "done"]
  /\ UNCHANGED <<obj, wr, auto, canc, icon, recent, saved, crashes>>

--------------------------------------------------------------------------------
(* update_lxmf_message_state, called by the progress poll and the callbacks *)

WrRead(k, i) ==
  /\ wr[k][i].pc = "read"
  /\ k = "poll" => LoopFree
  /\ wr' = [wr EXCEPT ![k][i] = [pc |-> "update", prop |-> obj[i].prop,
                                 st |-> Guarded(row[obj[i].hash].st, obj[i].st)]]
  /\ UNCHANGED <<row, obj, snd, auto, canc, icon, recent, saved, crashes>>

WrUpdate(k, i) ==
  /\ wr[k][i].pc = "update"
  /\ row' = [row EXCEPT ![obj[i].hash] = Updated(obj[i].hash, wr[k][i].st, wr[k][i].prop)]
  /\ wr' = [wr EXCEPT ![k][i] = [IdleWr EXCEPT !.pc = IF k = "poll" THEN "check" ELSE "off"]]
  /\ UNCHANGED <<obj, snd, auto, canc, icon, recent, saved, crashes>>

\* Mutant: a message parked on a propagation node is polled like a direct one.
ProgressTerminalUnparked(i) ==
  obj[i].st \in {"delivered", "rejected", "cancelled"} \/ (obj[i].st = "failed" /\ ~obj[i].try)

\* is_lxmf_outbound_progress_terminal
ProgressTerminal(i) ==
  \/ obj[i].st \in {"delivered", "rejected", "cancelled"}
  \/ Parked(i)
  \/ obj[i].st = "failed" /\ ~obj[i].try

PollCheck(i) ==
  /\ wr["poll"][i].pc = "check" /\ LoopFree
  /\ wr' = [wr EXCEPT !["poll"][i].pc = IF ProgressTerminal(i) THEN "off" ELSE "read"]
  /\ UNCHANGED <<row, obj, snd, auto, canc, icon, recent, saved, crashes>>

\* on_lxmf_sending_state_updated, or on_lxmf_sending_failed with its fallback
\* to the propagation node; both go on to write the row.
CbStart(i) ==
  /\ obj[i].call /\ wr["cb"][i].pc = "off"
  /\ obj' = [obj EXCEPT ![i] =
       IF @.st = "failed" /\ @.try /\ HasNode
       THEN [@ EXCEPT !.st = "outbound", !.prop = TRUE, !.try = FALSE, !.call = FALSE]
       ELSE [@ EXCEPT !.call = FALSE]]
  /\ wr' = [wr EXCEPT !["cb"][i].pc = "read"]
  /\ UNCHANGED <<row, snd, auto, canc, icon, recent, saved, crashes>>

--------------------------------------------------------------------------------
(* The router (LXMF, not in this repository), as the code here relies on it *)

RouterFree(i) == ~obj[i].call /\ wr["cb"][i].pc = "off"

\* A direct or opportunistic message was transmitted; no proof yet, no callback.
RouterSend(i) ==
  /\ RouterFree(i) /\ obj[i].st = "outbound" /\ ~obj[i].prop
  /\ obj' = [obj EXCEPT ![i].st = "sent"]
  /\ UNCHANGED <<row, snd, wr, auto, canc, icon, recent, saved, crashes>>

\* The message ends: proven, given up after the router's attempts, refused, or
\* parked on the propagation node.  The callback of that end is owed.
RouterEnd(i) ==
  /\ RouterFree(i) /\ Queued(i)
  /\ \E st \in {"delivered", "failed", "rejected", "sent"} :
       /\ st \in {"delivered", "rejected"} => ~obj[i].prop
       /\ st = "sent" => obj[i].prop
       /\ obj' = [obj EXCEPT ![i].st = st, ![i].call = TRUE]
  /\ UNCHANGED <<row, snd, wr, auto, canc, icon, recent, saved, crashes>>

\* cancel_outbound: every queued copy with this hash.
CancelledOutbound(hs) ==
  [i \in Sends |-> IF Queued(i) /\ obj[i].hash \in hs
                   THEN [obj[i] EXCEPT !.st = "cancelled", !.call = TRUE]
                   ELSE obj[i]]

--------------------------------------------------------------------------------
(* resend_failed_messages_for_destination *)

\* An announce, a ping or a found path: with the lock held, read the failed
\* rows of the peer.
AutoStart ==
  /\ LoopFree /\ ~AutoSending
  /\ \E h \in Hashes : row[h].st = "failed"
  /\ auto' = [todo |-> {h \in Hashes : row[h].st = "failed"},
              snap |-> [h \in Hashes |-> IF row[h].st = "failed" THEN row[h].count ELSE 0]]
  /\ UNCHANGED <<row, obj, snd, wr, canc, icon, recent, saved, crashes>>

\* The rows left are passed over and the run ends: budget spent, equal content
\* recent, a feature-only or attachment payload, or a claim that did not succeed.
AutoEnd ==
  /\ AutoTurn /\ NoMidStep
  /\ auto' = [todo |-> {}, snap |-> [h \in Hashes |-> 0]]
  /\ UNCHANGED <<row, obj, snd, wr, canc, icon, recent, saved, crashes>>

\* The compare-and-set of try_claim_failed_message_for_auto_resend.
Claimable(h) == row[h].st = "failed" /\ ~row[h].claim

\* Mutant: one re-send more than the budget.
WithinBudgetPlusOne(h) == auto.snap[h] <= MaxAttempts
WithinBudget(h) == auto.snap[h] < MaxAttempts

\* Claim the row, count the attempt in its fields, call send_message.
AutoClaim(h, i) ==
  /\ AutoTurn /\ NoMidStep /\ h \in auto.todo
  /\ WithinBudget(h)
  /\ ~RecentOutbound(PayloadOf(h))
  /\ Claimable(h)
  /\ Start(i, "auto", PayloadOf(h), h, auto.snap[h] + 1, FALSE)
  /\ row' = [row EXCEPT ![h].claim = TRUE, ![h].count = auto.snap[h] + 1]
  /\ auto' = [auto EXCEPT !.todo = @ \ {h}, !.snap[h] = 0]
  /\ UNCHANGED <<obj, wr, canc, icon, recent, saved, crashes>>

--------------------------------------------------------------------------------
(* HTTP handlers *)

\* POST .../cancel: cancel the live copies and read the row; a row that is
\* generating, outbound, sending or failed is then written as cancelled.
UserCancel(h) ==
  /\ "cancel" \in UserActs /\ LoopFree
  /\ row[h] # NoRow
  /\ obj' = CancelledOutbound({h})
  /\ canc' = IF row[h].st \in {"outbound", "failed"} THEN h ELSE None
  /\ UNCHANGED <<row, snd, wr, auto, icon, recent, saved, crashes>>

CancelWrite ==
  /\ canc # None
  /\ row' = IF row[canc] = NoRow THEN row ELSE [row EXCEPT ![canc].st = "cancelled"]
  /\ canc' = None
  /\ UNCHANGED <<obj, snd, wr, auto, icon, recent, saved, crashes>>

\* DELETE .../{hash}: the row goes, the live copy does not.
UserDelete(h) ==
  /\ "delete" \in UserActs /\ LoopFree
  /\ row[h] # NoRow
  /\ row' = [row EXCEPT ![h] = NoRow]
  /\ saved' = saved \ {PayloadOf(h)}
  /\ UNCHANGED <<obj, snd, wr, auto, canc, icon, recent, crashes>>

\* DELETE .../conversation/{peer}: cancel every live copy, drop every row.
ConversationDelete ==
  /\ "delete" \in UserActs /\ LoopFree
  /\ \E h \in Hashes : row[h] # NoRow
  /\ obj' = CancelledOutbound({h \in Hashes : row[h] # NoRow})
  /\ row' = [h \in Hashes |-> NoRow]
  /\ saved' = {}
  /\ UNCHANGED <<snd, wr, auto, canc, icon, recent, crashes>>

\* POST .../resend: any row that is not delivered or rejected.  The handler
\* takes no lock that the auto-resend run would respect.
ManualResend(h, i) ==
  /\ "resend" \in UserActs /\ LoopFree
  /\ row[h] # NoRow /\ row[h].st \notin {"delivered", "rejected"}
  /\ Start(i, "manual", PayloadOf(h), h, 0, row[h].prop)
  /\ obj' = CancelledOutbound({h})
  /\ UNCHANGED <<row, wr, auto, canc, icon, recent, saved, crashes>>

ChangeIcon ==
  /\ "icon" \in UserActs /\ LoopFree
  /\ \E new \in Icons \ {icon.now} : icon' = [icon EXCEPT !.now = new]
  /\ UNCHANGED <<row, obj, snd, wr, auto, canc, recent, saved, crashes>>

--------------------------------------------------------------------------------
(* Time, and the process *)

CooldownExpires(h) ==
  /\ row[h].claim
  /\ row' = [row EXCEPT ![h].claim = FALSE]
  /\ UNCHANGED <<obj, snd, wr, auto, canc, icon, recent, saved, crashes>>

RecentExpires(p) ==
  /\ p \in recent
  /\ recent' = recent \ {p}
  /\ UNCHANGED <<row, obj, snd, wr, auto, canc, icon, saved, crashes>>

\* Mutant: the start-up pass takes every sent row for a finished one.
UnstuckUnsent(r) == IF r.st = "outbound" THEN [r EXCEPT !.st = "failed"] ELSE r

\* mark_stuck_messages_as_failed
Unstuck(r) ==
  IF r.st = "outbound" \/ (r.st = "sent" /\ ~r.prop) THEN [r EXCEPT !.st = "failed"] ELSE r

\* The process dies and starts again: router memory and coroutines are gone,
\* the start-up pass fails the rows nothing will ever advance.  A delivered
\* obj is kept as the history of what was proven.
Restart ==
  /\ crashes < MaxCrashes
  /\ crashes' = crashes + 1
  /\ row' = [h \in Hashes |-> Unstuck(row[h])]
  /\ obj' = [i \in Sends |-> IF obj[i].st \in {"free", "delivered"}
                              THEN [obj[i] EXCEPT !.call = FALSE]
                              ELSE [obj[i] EXCEPT !.st = "gone", !.call = FALSE]]
  /\ snd' = [i \in Sends |-> IF snd[i].pc = "new" THEN snd[i]
                              ELSE [snd[i] EXCEPT !.pc = "dead", !.seen = "outbound", !.via = FALSE]]
  /\ wr' = [k \in Kinds |-> [i \in Sends |-> IdleWr]]
  /\ auto' = [todo |-> {}, snap |-> [h \in Hashes |-> 0]]
  /\ canc' = None
  /\ UNCHANGED <<icon, recent, saved>>

--------------------------------------------------------------------------------
(* Specification *)

Init ==
  /\ \E v \in Variants : row = [h \in Hashes |-> IF PayloadOf(h) \in Stored /\ h[2] = v
                                              THEN [NoRow EXCEPT !.st = "failed"]
                                              ELSE NoRow]
  /\ obj = [i \in Sends |-> NewObj]
  /\ snd = [i \in Sends |-> NewSnd]
  /\ wr = [k \in Kinds |-> [i \in Sends |-> IdleWr]]
  /\ auto = [todo |-> {}, snap |-> [h \in Hashes |-> 0]]
  /\ canc = None
  /\ icon \in [now : Variants, sent : Variants]
  /\ recent = {} /\ saved = Stored
  /\ crashes = 0

\* The steps of a send in progress, the path wait's end included.
SendStep(i) ==
  \/ SendRefused(i) \/ SendQueued(i) \/ SendPathless(i) \/ SendLocal(i)
  \/ SendConvert(i) \/ SendUpsert(i) \/ SendReturn(i) \/ SendReopen(i) \/ AutoCount(i)

Environment ==
  \/ \E i \in Sends, p \in Payloads, prop \in BOOLEAN : UserSend(i, p, prop)
  \/ \E h \in Hashes : UserCancel(h) \/ UserDelete(h) \/ CooldownExpires(h)
  \/ \E h \in Hashes, i \in Sends : ManualResend(h, i)
  \/ \E p \in Payloads : RecentExpires(p)
  \/ ConversationDelete \/ ChangeIcon \/ Restart

System ==
  \/ \E i \in Sends : \/ SendStep(i) \/ RouterSend(i) \/ RouterEnd(i)
                       \/ CbStart(i) \/ PollCheck(i)
  \/ \E k \in Kinds, i \in Sends : WrRead(k, i)
  \/ \E h \in Hashes, i \in Sends : AutoClaim(h, i)
  \/ AutoStart \/ AutoEnd

Next ==
  \/ Undisturbed /\ (Environment \/ System)
  \/ \E k \in Kinds, i \in Sends : WrUpdate(k, i)
  \/ CancelWrite

\* A coroutine that is ready gets its turn although others keep the loop busy
\* in between (asyncio's FIFO ready queue); threads and the router go on.
Fairness ==
  /\ \A i \in Sends :
       /\ SF_vars(SendStep(i)) /\ SF_vars(WrRead("poll", i)) /\ SF_vars(PollCheck(i))
       /\ WF_vars(RouterEnd(i)) /\ WF_vars(CbStart(i)) /\ WF_vars(WrRead("cb", i))
       /\ \A k \in Kinds : WF_vars(WrUpdate(k, i))
  /\ WF_vars(AutoEnd) /\ WF_vars(CancelWrite)

Spec     == Init /\ [][Next]_vars
FairSpec == Spec /\ Fairness

--------------------------------------------------------------------------------
(* Properties *)

RowType == [st : RowStates \cup {"none"}, prop : BOOLEAN, count : 0 .. MaxAttempts,
            claim : BOOLEAN]
ObjType == [hash : Hashes \cup {None}, st : RowStates \cup {"free", "gone"},
            prop : BOOLEAN, try : BOOLEAN, call : BOOLEAN]
SndType == [pc : {"new", "path", "raise", "notify", "count", "done", "dead"} \cup MidStep,
            by : {"user", "auto", "manual"}, p : Payloads \cup {None},
            old : Hashes \cup {None}, n : 0 .. MaxAttempts, prop : BOOLEAN,
            seen : RowStates, via : BOOLEAN]
WrType  == [pc : {"off", "read", "update", "check"}, st : RowStates, prop : BOOLEAN]

\* Every variable keeps its shape; the auto-resend counts stay within the budget.
TypeOK ==
  /\ row \in [Hashes -> RowType]
  /\ obj \in [Sends -> ObjType]
  /\ snd \in [Sends -> SndType]
  /\ wr \in [Kinds -> [Sends -> WrType]]
  /\ auto \in [todo : SUBSET Hashes, snap : [Hashes -> 0 .. MaxAttempts]]
  /\ canc \in Hashes \cup {None}
  /\ icon \in [now : Variants, sent : Variants]
  /\ recent \subseteq Payloads /\ saved \subseteq Payloads
  /\ crashes \in 0 .. MaxCrashes

\* Some copy with this hash was proven delivered (or was a message to ourselves).
Proven(h) == \E i \in Sends : obj[i].hash = h /\ obj[i].st = "delivered"

\* A row says delivered only if a copy with its hash was proven delivered: no
\* poll, callback, upsert, cancel, re-send or restart may invent a delivery.
DeliveredIsProven == \A h \in Hashes : row[h].st = "delivered" => Proven(h)

\* A stored message the user did not delete is never dropped by a re-send,
\* whichever of its copies succeed, fail or collide; the only moment without a
\* row is inside the delete-and-store-again of a same-hash re-send.
PayloadKept ==
  \A p \in saved : \/ \E h \in Hashes : PayloadOf(h) = p /\ row[h] # NoRow
                   \/ \E i \in Sends : snd[i].p = p /\ snd[i].pc \in {"reconvert", "reupsert"}

\* The stored state never goes from a terminal one back to an in-flight one,
\* however polls and callbacks overlap; only re-opening (delete, then store
\* again) may put a row back in flight.
TerminalStaysTerminal ==
  [][\A h \in Hashes : row[h].st \in Terminal => row'[h].st \notin InFlight]_vars

\* Auto-resend never starts for a message of which a copy is still queued in
\* the router or parked on the propagation node.
NoClaimWhileInFlight ==
  [][\A h \in Hashes, i \in Sends : AutoClaim(h, i) =>
       \A j \in Sends : obj[j].hash = h => ~Queued(j) /\ ~Parked(j)]_vars

\* A row that says generating, outbound, sending or sent still has somebody who
\* will write it again - its send, its progress poll or a callback - or it is
\* parked on a propagation node: no message hangs in flight, restarts included.
InFlightIsTracked ==
  \A h \in Hashes :
    row[h].st \in InFlight /\ ~(row[h].st = "sent" /\ row[h].prop) =>
      \E i \in Sends : /\ obj[i].hash = h
                       /\ \/ snd[i].pc \in MidStep \cup {"notify"}
                          \/ wr["poll"][i].pc # "off"
                          \/ obj[i].call \/ wr["cb"][i].pc # "off"

\* Every progress poll ends.
PollingEnds == \A i \in Sends : wr["poll"][i].pc # "off" ~> wr["poll"][i].pc = "off"

\* A delivery the router has proven is at some time shown on the message's row,
\* unless the row or the process is gone: no poll, cancel or callback that ends
\* later hides it.  Stated for payloads sent once: the failure of a later copy of
\* the same hash does replace it (a terminal state may replace a terminal one).
ProvenIsShown ==
  \A i \in Sends, h \in Hashes :
    (obj[i].st = "delivered" /\ obj[i].hash = h)
      ~> (row[h].st \in {"delivered", "none"} \/ snd[i].pc = "dead")
================================================================================
