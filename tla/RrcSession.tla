----------------------------- MODULE RrcSession -----------------------------
(***************************************************************************)
(* The connection of one RRC hub entry (src/meshchatx/src/backend/rrc/     *)
(* manager.py, class RRCHub): connect and its worker thread, the watchdog  *)
(* of the link, the HELLO loop and its WELCOME time-out, the closed        *)
(* callback, the reconnect timer, the announce that brings it forward, and *)
(* the user's disconnect.                                                  *)
(*                                                                         *)
(* The shared fields are read and written under hub._lock, and the status  *)
(* and the stop flag outside it too; a thread's step here is what it does  *)
(* between two such moments.  The n-th attempt makes at most one link,     *)
(* named n; 0 is Python's None.  A thread is <<role, attempt>>.            *)
(*                                                                         *)
(* RNS (external) calls the closed callback inside Link.teardown, as the   *)
(* loopback endpoint of rrc/server.py does, and from a thread of its own   *)
(* when the peer or a time-out closes the link.                            *)
(***************************************************************************)
EXTENDS Naturals, FiniteSets

CONSTANTS MaxConnects,   \* bound: attempts, and so links
          MaxBusy,       \* bound: threads in the middle of something
          MaxStops,      \* bound: the user's disconnects
          Plans          \* what may happen in a behaviour, one set for each kind

ASSUME MaxConnectsAssumption == MaxConnects \in Nat \ {0}
ASSUME BoundsAssumption == MaxBusy \in Nat /\ MaxStops \in Nat
\* How an attempt can go, what the user does, whether the hub announces itself.
ASSUME PlansAssumption ==
  Plans \subseteq SUBSET {"mesh", "local", "fails", "connect", "disconnect", "auto",
                         "announce"}

Attempts == 1 .. MaxConnects
None == 0
Roles == {"worker", "rns", "close", "dog", "hello", "fail", "packet"}
User == <<"user", 0>>
Timer == <<"timer", 0>>
Announce == <<"announce", 0>>
Threads == (Roles \X Attempts) \cup {User, Timer, Announce}

Steps == {"idle", "waiting", "checked", "built", "established", "watching",
          "looping", "mark", "clear", "closing", "tailRetry", "tailPlain",
          "failed", "maybe", "schedule", "off", "connect", "arrived", "answered"}

VARIABLES plan,        \* the kind of behaviour this is
          status,      \* RRCHub.status
          manual,      \* _manual_disconnect
          auto,        \* auto_reconnect
          retried,     \* _reconnect_attempts > 0
          timer,       \* _reconnect_timer: "none", "armed" or "fired"
          loose,       \* timer threads that no cancel reaches any more
          epoch,       \* _connect_epoch
          link,        \* RRCHub.link
          lastClosed,  \* _last_closed_link
          expected,    \* _expected_closed_link
          stopHello,   \* _stop_hello
          welcomed,    \* RRCHub.welcomed
          ln,          \* attempt -> the status of its link
          greeted,     \* the links a HELLO went out on
          at,          \* thread -> the step it is about to take
          cut,         \* thread -> the link it is closing
          stops,       \* how often the user disconnected, for the bound only
          history      \* what happened so far, for the properties only

bounds == <<plan, stops>>
retry == <<manual, auto, retried, timer, loose, epoch>>
session == <<link, lastClosed, expected, stopHello, welcomed>>
hub == <<bounds, status, retry, session>>
net == <<ln, greeted>>
vars == <<hub, ln, greeted, at, cut, history>>

-----------------------------------------------------------------------------
Live(s) == s \in {"connecting", "connected"}

\* Thread t goes on at step s.
Goes(t, s) == at' = [at EXCEPT ![t] = s]

\* Thread t goes on at step s, and forgets the link it closed once it is through.
GoesOn(t, s) ==
  /\ Goes(t, s)
  /\ cut' = IF s = "idle" THEN [cut EXCEPT ![t] = None] ELSE cut

Open(e) == ln[e] \in {"pending", "active"}

LinkActive == \E e \in Attempts : link = e /\ ln[e] = "active"
LinkOpen == \E e \in Attempts : link = e /\ Open(e)

\* The threads that are between two of their steps, not parked in a wait.
Busy == {t \in Threads : at[t] \notin {"idle", "waiting", "watching", "looping"}}

\* One more thread may start something.
Room == Cardinality(Busy) < MaxBusy

Notes(what) == history' = history \cup {what}

\* An attempt that was overtaken closes its link with the lock held.
Overtaken == {"closing", "tailRetry", "tailPlain", "schedule"}

\* Thread t may take hub._lock.
Free(t) == \A e \in Attempts :
             at[<<"worker", e>>] \in Overtaken /\ ln[e] # "none" => t = <<"worker", e>>

(***************************************************************************)
(* connect                                                                 *)
(***************************************************************************)
\* What a new attempt starts without.
Fresh == {"stale", "givenUp", "timedOut", "switched"}

\* The new attempt of a connect() by thread t; nothing when one is under way.
Connects(t, reset) ==
  IF Live(status)
    THEN /\ Goes(t, "idle")
         /\ UNCHANGED <<status, manual, retried, timer, epoch, history>>
    ELSE /\ epoch < MaxConnects
         /\ manual' = FALSE
         /\ retried' = (retried /\ ~reset)
         /\ timer' = "none"
         /\ epoch' = epoch + 1
         /\ status' = "connecting"
         /\ at' = [at EXCEPT ![t] = "idle", ![<<"worker", epoch + 1>>] = "waiting"]
         /\ history' = (history \ (IF t = User THEN Fresh \cup {"off", "overridden"} ELSE Fresh))
                          \cup (IF t = Timer /\ manual THEN {"overridden"} ELSE {})

UserConnect ==
  /\ "connect" \in plan
  /\ at[User] = "idle"
  /\ ~Live(status)
  /\ Free(User)
  /\ Connects(User, TRUE)
  /\ UNCHANGED <<bounds, session, net, auto, loose, cut>>

\* The wait for path and identity is over and the thread looks at the flag.
WorkerCancelled(e) ==
  /\ at[<<"worker", e>>] = "waiting"
  /\ manual
  /\ status' = "off"
  /\ Goes(<<"worker", e>>, "idle")
  /\ UNCHANGED <<bounds, retry, session, net, cut, history>>

\* Identity unknown, name mismatch or an exception.
WorkerFails(e) ==
  /\ "fails" \in plan
  /\ at[<<"worker", e>>] = "waiting"
  /\ ~manual
  /\ Room
  /\ status' = "failed"
  /\ Goes(<<"worker", e>>, "maybe")
  /\ UNCHANGED <<bounds, retry, session, net, cut, history>>

WorkerChecks(e) ==
  /\ "mesh" \in plan
  /\ at[<<"worker", e>>] = "waiting"
  /\ ~manual
  /\ Room
  /\ Goes(<<"worker", e>>, "checked")
  /\ UNCHANGED <<hub, net, cut, history>>

WorkerBuilds(e) ==
  /\ at[<<"worker", e>>] = "checked"
  /\ stopHello' = FALSE
  /\ ln' = [ln EXCEPT ![e] = "pending"]
  /\ Goes(<<"worker", e>>, "built")
  /\ UNCHANGED <<bounds, retry, status, link, lastClosed, expected, welcomed, greeted, cut,
                 history>>

\* An attempt that was overtaken: the teardown and its callback run under the lock.
WorkerOvertaken(e) ==
  /\ at[<<"worker", e>>] = "built"
  /\ Free(<<"worker", e>>)
  /\ e # epoch
  /\ ln' = [ln EXCEPT ![e] = "closed"]
  /\ cut' = [cut EXCEPT ![<<"worker", e>>] = e]
  /\ Goes(<<"worker", e>>, "closing")
  /\ UNCHANGED <<hub, greeted, history>>

\* The link of attempt e becomes the session's.
Registers(e) ==
  /\ expected' = None
  /\ link' = e
  /\ history' = (IF stopHello' THEN history ELSE history \ {"hushed"})
                   \cup (IF manual \/ e # epoch THEN {"late"} ELSE {})
                   \cup (IF LinkOpen THEN {"replaced"} ELSE {})

WorkerRegisters(e) ==
  /\ at[<<"worker", e>>] = "built"
  /\ Free(<<"worker", e>>)
  /\ e = epoch
  /\ UNCHANGED stopHello
  /\ Registers(e)
  /\ at' = [at EXCEPT ![<<"worker", e>>] = "idle", ![<<"dog", e>>] = "watching"]
  /\ UNCHANGED <<bounds, retry, net, status, lastClosed, welcomed, cut>>

\* A hub hosted in this process: no wait, no check of flag or epoch.
WorkerLoopback(e) ==
  /\ "local" \in plan
  /\ at[<<"worker", e>>] = "waiting"
  /\ Free(<<"worker", e>>)
  /\ stopHello' = FALSE
  /\ ln' = [ln EXCEPT ![e] = "active"]
  /\ Registers(e)
  /\ status' = "connecting"
  /\ at' = [at EXCEPT ![<<"worker", e>>] = "idle", ![<<"hello", e>>] = "looping"]
  /\ UNCHANGED <<bounds, retry, lastClosed, welcomed, greeted, cut>>

(***************************************************************************)
(* The closed callback, run by any thread that closes a link               *)
(***************************************************************************)
\* Where thread t goes on once the callback is done.
After(t) == CASE t[1] = "fail" -> "clear"
              [] t[1] = "dog"  -> "failed"
              [] t[1] = "user" -> "off"
              [] OTHER         -> "idle"

\* Thread t tears link l down: its callback runs in t, or not at all when a
\* loopback link was closed before.
TearsDown(t, l) ==
  /\ ln' = [ln EXCEPT ![l] = "closed"]
  /\ \E s \in {"closing"} \cup (IF ln[l] = "closed" THEN {After(t)} ELSE {}) :
       /\ Goes(t, s)
       /\ cut' = [cut EXCEPT ![t] = IF s = "idle" THEN None ELSE l]

\* Mutant: the callback of any link ends the session, whichever link it has.
IgnoredSeen(l) == lastClosed = l

\* The link was seen before, or it is not the one of the session.
Ignored(l) == lastClosed = l \/ (link # None /\ l # link)

\* Mutant: only a session that was welcomed is retried.
RetriesWelcomed(l) == auto /\ ~manual /\ expected # l /\ welcomed

Retries(l) == auto /\ ~manual /\ expected # l

OnClosed(t) ==
  LET l == cut[t] IN
  /\ at[t] = "closing"
  /\ Free(t)
  /\ stopHello' = TRUE
  /\ history' = history \cup (IF l # epoch THEN {"hushed"} ELSE {})
  /\ IF Ignored(l)
       THEN /\ GoesOn(t, After(t))
            /\ UNCHANGED <<link, lastClosed, expected, welcomed>>
       ELSE /\ lastClosed' = l
            /\ link' = None
            /\ welcomed' = FALSE
            /\ expected' = IF expected = l THEN None ELSE expected
            /\ GoesOn(t, IF Retries(l) THEN "tailRetry" ELSE "tailPlain")
  /\ UNCHANGED <<bounds, retry, net, status>>

\* Mutant: the status keeps what it said.
OnClosedTailMute(t) ==
  /\ at[t] \in {"tailRetry", "tailPlain"}
  /\ GoesOn(t, IF at[t] = "tailRetry" THEN "schedule" ELSE After(t))
  /\ UNCHANGED <<hub, net, history>>

OnClosedTail(t) ==
  /\ at[t] \in {"tailRetry", "tailPlain"}
  /\ status' = "off"
  /\ GoesOn(t, IF at[t] = "tailRetry" THEN "schedule" ELSE After(t))
  /\ UNCHANGED <<bounds, retry, session, net, history>>

(***************************************************************************)
(* Reconnecting                                                            *)
(***************************************************************************)
\* A timer that is armed is cancelled, one that fired cannot be.
ScheduleReconnect(t) ==
  /\ at[t] = "schedule"
  /\ Free(t)
  /\ retried' = TRUE
  /\ timer' = "armed"
  /\ status' = "off"
  /\ GoesOn(t, IF cut[t] = None THEN "idle" ELSE After(t))
  /\ UNCHANGED <<bounds, session, net, manual, auto, loose, epoch, history>>

MaybeSchedule(t) ==
  /\ at[t] = "maybe"
  /\ Free(t)
  /\ Goes(t, IF manual \/ ~auto \/ link # None THEN "idle" ELSE "schedule")
  /\ UNCHANGED <<hub, net, cut, history>>

\* The bound: one timer thread at a time waits for the lock.
TimerFires ==
  /\ timer = "armed"
  /\ loose = 0
  /\ timer' = "fired"
  /\ loose' = 1
  /\ UNCHANGED <<bounds, session, net, status, manual, auto, retried, epoch, at, cut,
                 history>>

\* Mutant: a timer that is still armed counts once more.
FireReconnectKeeps ==
  /\ loose = 1
  /\ at[Timer] = "idle"
  /\ Room
  /\ Free(Timer)
  /\ loose' = loose + (IF timer = "armed" THEN 1 ELSE 0)
  /\ timer' = "none"
  /\ Goes(Timer, IF manual \/ ~auto THEN "idle" ELSE "connect")
  /\ UNCHANGED <<bounds, session, net, status, manual, auto, retried, epoch, cut, history>>

\* It drops the reference to the timer, whichever timer that is by now.
FireReconnect ==
  /\ loose = 1
  /\ at[Timer] = "idle"
  /\ Room
  /\ Free(Timer)
  /\ loose' = IF timer = "armed" THEN 1 ELSE 0
  /\ timer' = "none"
  /\ Goes(Timer, IF manual \/ ~auto THEN "idle" ELSE "connect")
  /\ UNCHANGED <<bounds, session, net, status, manual, auto, retried, epoch, cut, history>>

TimerConnect ==
  /\ at[Timer] = "connect"
  /\ Free(Timer)
  /\ Connects(Timer, FALSE)
  /\ UNCHANGED <<bounds, session, net, auto, loose, cut>>

NoteAnnounce ==
  /\ "announce" \in plan
  /\ at[Announce] = "idle"
  /\ ~Live(status) /\ ~manual /\ auto /\ retried
  /\ Room
  /\ Free(Announce)
  /\ retried' = FALSE
  /\ Goes(Announce, IF timer # "none" THEN "schedule" ELSE "idle")
  /\ UNCHANGED <<bounds, session, net, status, manual, auto, timer, loose, epoch, cut,
                 history>>

(***************************************************************************)
(* The link, its watchdog and the HELLO loop                               *)
(***************************************************************************)
\* A link is answered, or given up by RNS, a round trip or more after it was
\* made: the worker that made it has registered it or torn it down by then.
Establish(e) ==
  /\ ln[e] = "pending"
  /\ at[<<"worker", e>>] = "idle"
  /\ Room
  /\ ln' = [ln EXCEPT ![e] = "active"]
  /\ Goes(<<"rns", e>>, "established")
  /\ UNCHANGED <<hub, greeted, cut, history>>

OnEstablished(e) ==
  /\ at[<<"rns", e>>] = "established"
  /\ status' = "connecting"
  /\ history' = history \cup (IF link # e THEN {"stale"} ELSE {})
  /\ at' = [at EXCEPT ![<<"rns", e>>] = "idle", ![<<"hello", e>>] = "looping"]
  /\ UNCHANGED <<bounds, retry, session, net, cut>>

IdentifyFails(e) ==
  /\ "fails" \in plan
  /\ at[<<"rns", e>>] = "established"
  /\ TearsDown(<<"rns", e>>, e)
  /\ UNCHANGED <<hub, greeted, history>>

\* The peer or a time-out of RNS closes the link.
LinkCloses(e) ==
  /\ Open(e)
  /\ at[<<"worker", e>>] = "idle"
  /\ Room
  /\ ln' = [ln EXCEPT ![e] = "closed"]
  /\ cut' = [cut EXCEPT ![<<"close", e>>] = e]
  /\ Goes(<<"close", e>>, "closing")
  /\ UNCHANGED <<hub, greeted, history>>

\* Its link is no longer pending: the watchdog has nothing left to do.
Rested(t) == at[t] = "watching" /\ ln[t[2]] # "pending"

\* The stop flag, or another link in the place of its own, ends it too.
DogRests(e) ==
  /\ at[<<"dog", e>>] = "watching"
  /\ ln[e] = "pending"
  /\ stopHello \/ link # e
  /\ Goes(<<"dog", e>>, "idle")
  /\ UNCHANGED <<hub, net, cut, history>>

DogBites(e) ==
  /\ at[<<"dog", e>>] = "watching"
  /\ ln[e] = "pending"
  /\ link = e
  /\ Room
  /\ Free(<<"dog", e>>)
  /\ expected' = e
  /\ TearsDown(<<"dog", e>>, e)
  /\ UNCHANGED <<bounds, retry, status, link, lastClosed, stopHello, welcomed, greeted,
                 history>>

DogFails(e) ==
  /\ at[<<"dog", e>>] = "failed"
  /\ status' = "failed"
  /\ cut' = [cut EXCEPT ![<<"dog", e>>] = None]
  /\ Goes(<<"dog", e>>, "maybe")
  /\ UNCHANGED <<bounds, retry, session, net, history>>

HelloStops(e) ==
  /\ at[<<"hello", e>>] = "looping"
  /\ stopHello \/ welcomed
  /\ Goes(<<"hello", e>>, "idle")
  /\ UNCHANGED <<hub, net, cut, history>>

HelloSends(e) ==
  /\ at[<<"hello", e>>] = "looping"
  /\ ~stopHello /\ ~welcomed
  /\ LinkActive
  /\ greeted' = greeted \cup {link}
  /\ UNCHANGED <<hub, ln, at, cut, history>>

\* No link, or one that is not active: the loop reports it closed.
HelloLost(e) ==
  /\ at[<<"hello", e>>] = "looping"
  /\ ~stopHello /\ ~welcomed
  /\ Room
  /\ ~LinkActive
  /\ Goes(<<"hello", e>>, IF status = "connecting" THEN "closing" ELSE "idle")
  /\ cut' = [cut EXCEPT ![<<"hello", e>>] = IF status = "connecting" THEN link ELSE None]
  /\ history' = history \cup (IF LinkOpen THEN {"revived"} ELSE {})
  /\ UNCHANGED <<hub, net>>

WelcomeTimeout(e) ==
  /\ at[<<"hello", e>>] = "looping"
  /\ ~stopHello /\ ~welcomed
  /\ greeted # {}
  /\ Room
  /\ status' = "failed"
  /\ Notes("timedOut")
  /\ at' = [at EXCEPT ![<<"hello", e>>] = "idle", ![<<"fail", e>>] = "mark"]
  /\ UNCHANGED <<bounds, retry, session, net, cut>>

\* Mutant: the link is given up without being torn down.
FailMarksOnly(e) ==
  LET t == <<"fail", e>> IN
  /\ at[t] = "mark"
  /\ Free(t)
  /\ expected' = link
  /\ Goes(t, "clear")
  /\ cut' = [cut EXCEPT ![t] = link]
  /\ UNCHANGED <<bounds, retry, net, status, link, lastClosed, stopHello, welcomed,
                 history>>

FailMarks(e) ==
  LET t == <<"fail", e>> IN
  /\ at[t] = "mark"
  /\ Free(t)
  /\ expected' = link
  /\ IF link = None THEN Goes(t, "clear") /\ UNCHANGED <<ln, cut>>
                    ELSE TearsDown(t, link)
  /\ UNCHANGED <<bounds, retry, status, link, lastClosed, stopHello, welcomed, greeted,
                 history>>

\* Only a status that still reads FAILED is followed by a reconnect.
FailClears(e) ==
  LET t == <<"fail", e>> IN
  /\ at[t] = "clear"
  /\ Free(t)
  /\ link' = IF link = cut[t] THEN None ELSE link
  /\ cut' = [cut EXCEPT ![t] = None]
  /\ Goes(t, IF status = "failed" THEN "maybe" ELSE "idle")
  /\ history' = history \cup (IF status # "failed" THEN {"givenUp"} ELSE {})
  /\ UNCHANGED <<bounds, retry, net, status, lastClosed, expected, stopHello, welcomed>>

(***************************************************************************)
(* WELCOME, on a thread of the packet                                      *)
(***************************************************************************)
WelcomeArrives(e) ==
  /\ at[<<"packet", e>>] = "idle"
  /\ e \in greeted /\ ln[e] = "active"
  /\ Room
  /\ greeted' = greeted \ {e}
  /\ Goes(<<"packet", e>>, "arrived")
  /\ UNCHANGED <<hub, ln, cut, history>>

\* Whichever link it came over.
Welcome(e) ==
  /\ at[<<"packet", e>>] = "arrived"
  /\ welcomed' = TRUE
  /\ Goes(<<"packet", e>>, "answered")
  /\ UNCHANGED <<bounds, retry, net, status, link, lastClosed, expected, stopHello, cut,
                 history>>

Connected(e) ==
  LET t == <<"packet", e>> IN
  /\ at[t] = "answered"
  /\ Free(t)
  /\ retried' = FALSE
  /\ status' = "connected"
  /\ history' = history \cup (IF link # e THEN {"stale"} ELSE {})
  /\ Goes(t, "idle")
  /\ UNCHANGED <<bounds, session, net, manual, auto, timer, loose, epoch, cut>>

(***************************************************************************)
(* The user                                                                *)
(***************************************************************************)
\* Mutant: the flag that tells a disconnect from a lost link is not set.
DisconnectForgets ==
  /\ "disconnect" \in plan /\ stops < MaxStops
  /\ at[User] = "idle"
  /\ Room
  /\ stops' = stops + 1
  /\ Free(User)
  /\ stopHello' = TRUE
  /\ retried' = FALSE
  /\ timer' = "none"
  /\ link' = None
  /\ history' = (history \ {"stale"}) \cup {"off"}
  /\ IF link = None THEN Goes(User, "off") /\ UNCHANGED <<ln, cut>>
                    ELSE TearsDown(User, link)
  /\ UNCHANGED <<plan, status, manual, auto, loose, epoch, lastClosed, expected, welcomed,
                 greeted>>

Disconnect ==
  /\ "disconnect" \in plan /\ stops < MaxStops
  /\ at[User] = "idle"
  /\ Room
  /\ stops' = stops + 1
  /\ Free(User)
  /\ stopHello' = TRUE
  /\ manual' = TRUE
  /\ retried' = FALSE
  /\ timer' = "none"
  /\ link' = None
  /\ history' = (history \ {"stale"}) \cup {"off"}
  /\ IF link = None THEN Goes(User, "off") /\ UNCHANGED <<ln, cut>>
                    ELSE TearsDown(User, link)
  /\ UNCHANGED <<plan, status, auto, loose, epoch, lastClosed, expected, welcomed, greeted>>

Disconnected ==
  /\ at[User] = "off"
  /\ status' = "off"
  /\ cut' = [cut EXCEPT ![User] = None]
  /\ Goes(User, "idle")
  /\ UNCHANGED <<bounds, retry, session, net, history>>

SetAutoReconnect ==
  /\ "auto" \in plan
  /\ at[User] = "idle"
  /\ Free(User)
  /\ auto' = ~auto
  /\ timer' = IF auto THEN "none" ELSE timer
  /\ history' = history \cup {"switched"}
  /\ UNCHANGED <<bounds, session, net, status, manual, retried, loose, epoch, at, cut>>

-----------------------------------------------------------------------------
Init ==
  /\ plan \in Plans /\ stops = 0
  /\ status = "off"
  /\ manual = FALSE /\ auto = TRUE /\ retried = FALSE
  /\ timer = "none" /\ loose = 0
  /\ epoch = 0
  /\ link = None /\ lastClosed = None /\ expected = None
  /\ stopHello = FALSE /\ welcomed = FALSE
  /\ ln = [e \in Attempts |-> "none"]
  /\ greeted = {}
  /\ at = [t \in Threads |-> "idle"]
  /\ cut = [t \in Threads |-> None]
  /\ history = {}

Attempt(e) ==
  \/ WorkerCancelled(e) \/ WorkerFails(e) \/ WorkerChecks(e) \/ WorkerBuilds(e)
  \/ WorkerOvertaken(e) \/ WorkerRegisters(e) \/ WorkerLoopback(e)
  \/ Establish(e) \/ OnEstablished(e) \/ IdentifyFails(e) \/ LinkCloses(e)
  \/ DogRests(e) \/ DogBites(e) \/ DogFails(e)
  \/ HelloStops(e) \/ HelloSends(e) \/ HelloLost(e) \/ WelcomeTimeout(e)
  \/ FailMarks(e) \/ FailClears(e)
  \/ WelcomeArrives(e) \/ Welcome(e) \/ Connected(e)

Closing(t) == OnClosed(t) \/ OnClosedTail(t) \/ ScheduleReconnect(t) \/ MaybeSchedule(t)

Next ==
  \/ UserConnect \/ Disconnect \/ Disconnected \/ SetAutoReconnect
  \/ TimerFires \/ FireReconnect \/ TimerConnect \/ NoteAnnounce
  \/ \E e \in Attempts : Attempt(e)
  \/ \E t \in Threads : Closing(t)

Spec == Init /\ [][Next]_vars

-----------------------------------------------------------------------------
TypeOK ==
  /\ plan \in Plans /\ stops \in 0 .. MaxStops
  /\ status \in {"off", "connecting", "connected", "failed"}
  /\ manual \in BOOLEAN /\ auto \in BOOLEAN /\ retried \in BOOLEAN
  /\ timer \in {"none", "armed", "fired"} /\ loose \in 0 .. 1
  /\ epoch \in 0 .. MaxConnects
  /\ {link, lastClosed, expected} \subseteq 0 .. MaxConnects
  /\ stopHello \in BOOLEAN /\ welcomed \in BOOLEAN
  /\ ln \in [Attempts -> {"none", "pending", "active", "closed"}]
  /\ greeted \subseteq Attempts
  /\ at \in [Threads -> Steps]
  /\ cut \in [Threads -> 0 .. MaxConnects]

\* No thread is under way, none waits for the network.
Quiet == loose = 0 /\ \A t \in Threads : at[t] = "idle" \/ Rested(t)

\* One of these things happened, which the code does not guard against: the Fresh
\* ones since the last connect, "hushed" since a link was last registered with the
\* stop flag down, a "late", "replaced" or "revived" link ever.
Happened(causes) == history \cap causes # {}

\* A hub at rest that should be connected has an open link or a retry that is
\* armed, unless since its last connect a WELCOME time-out found its FAILED
\* overwritten, auto_reconnect was switched, or a thread of an earlier attempt set
\* the status for a link that is not the session's (_on_closed, _fire_reconnect,
\* _maybe_schedule_reconnect_after_failed_connect, _on_established, _on_welcome).
KeepsTrying ==
  Quiet /\ auto /\ ~manual /\ epoch > 0
    => timer = "armed" \/ LinkOpen
         \/ Happened({"givenUp", "switched", "stale"})

\* After the user's disconnect nothing brings the hub back but the user, unless a
\* link was registered although it was off or overtaken, a status was set for a link
\* that is not the session's, or a retry had passed its check before the disconnect
\* (disconnect, _connect_worker, _on_established, _fire_reconnect).
DisconnectHolds ==
  Quiet /\ "off" \in history
    => (~LinkOpen /\ ~Live(status)) \/ Happened({"late", "stale", "overridden"})

\* No link stays open that the hub has lost sight of, unless it put another one
\* over it, or a HELLO loop of an earlier attempt, brought back to life by the stop
\* flag the next one clears, reported an open link closed (_connect_worker's epoch
\* check, _fail_welcome_timeout, _hello_loop, _on_closed).
OrphanExplained ==
  Quiet => \A e \in Attempts : Open(e) => e = link \/ Happened({"replaced", "revived"})

\* A hub that shows Connected has a welcomed session on an open link, unless the
\* status was set for another link; and an active link was welcomed, unless it was
\* registered late or its HELLO loop was stopped by the closed callback of another
\* link (_on_closed sets the stop flag before it looks whose link it is).
StatusTrue ==
  Quiet => /\ status = "connected" => (welcomed /\ LinkOpen) \/ Happened({"stale"})
           /\ LinkActive => welcomed \/ Happened({"late", "hushed"})

\* A welcomed session ends only when its own link closed or the user left: a
\* stale teardown callback must not tear down the current live session
\* (manager.py, _on_closed), except for a HELLO loop brought back to life.
SessionEnds == [][welcomed /\ ~welcomed' => ~LinkOpen \/ Happened({"revived"})]_vars

\* A WELCOME time-out is followed by a reconnect while auto_reconnect is on.
\* The code does not do so: the teardown's callback has set the status to
\* DISCONNECTED when _fail_welcome_timeout asks whether it is still FAILED.
TimeoutIsRetried ==
  Quiet /\ auto /\ ~manual /\ "timedOut" \in history => timer = "armed" \/ LinkOpen
=============================================================================
