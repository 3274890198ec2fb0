---------------------------- MODULE AsyncDispatch ----------------------------
(***************************************************************************)
(* AsyncUtils: how a coroutine made on any thread (an RNS callback, a      *)
(* telephone or crawler thread, a websocket handler) reaches an event      *)
(* loop.  Two loops exist: "bg", the daemon loop started while the app is  *)
(* constructed, and "web", aiohttp's.  Each installs itself as main_loop   *)
(* and takes over the coroutines buffered before it came.                  *)
(*                                                                         *)
(* _futures_lock guards the buffer and the list of tracked futures; every  *)
(* `with _futures_lock` block is one step here.  run_async reads main_loop *)
(* and asks whether it is running without the lock, in steps of its own.   *)
(***************************************************************************)
EXTENDS Naturals, Sequences, FiniteSets, Functions

CONSTANTS
  Coros,           \* the coroutines handed to run_async, one call each
  CoroutinesMax,   \* _COROUTINES_MAX
  SweepThreshold,  \* _FUTURES_SWEEP_THRESHOLD
  WebMayStop       \* does the web loop stop (shutdown) while threads go on?

Loops  == {"bg", "web"}
NoLoop == "none"
NoCoro == <<>>

ASSUME DispatchAssumption ==
  /\ CoroutinesMax \in Nat \ {0}
  /\ SweepThreshold \in Nat \ {0}
  /\ WebMayStop \in BOOLEAN
  /\ NoCoro \notin Coros

VARIABLES
  mainLoop,    \* AsyncUtils.main_loop
  running,     \* running[l]: "no", "yes", or "stopped"
  instPc,      \* instPc[l]: where set_main_loop(l) is
  todo,        \* todo[l]: the coroutines it took over and has still to schedule
  hand,        \* hand[l]: the one it is scheduling
  pending,     \* _pending_coroutines
  call,        \* call[c]: where the run_async call of c is
  local,       \* local[c]: the loop that call has read
  queue,       \* queue[l]: coroutines scheduled on l and not started
  started,     \* coroutines a loop has started
  done,        \* those that have finished: their future is done
  closed,      \* coroutines dropped by the cap on the buffer
  refused,     \* coroutines lost to the RuntimeError of a closed loop
  tracked,     \* coroutines whose future is in _pending_futures
  registered,  \* coroutines whose future has its done-callback
  owed         \* coroutines whose done-callback is about to run on the loop

vars == <<mainLoop, running, instPc, todo, hand, pending, call, local, queue, started,
          done, closed, refused, tracked, registered, owed>>

inst   == <<instPc, todo, hand>>
run    == <<queue, started, done, closed, refused>>
future == <<tracked, registered, owed>>

--------------------------------------------------------------------------------
(* set_main_loop *)

GoesOn(l, from, to) == instPc[l] = from /\ instPc' = [instPc EXCEPT ![l] = to]

\* Mutant: the buffer is read but not swapped.
KeptBuffer(l) == pending

LeftBuffer(l) == <<>>

\* Become main_loop and swap the buffer, under the lock.  The background
\* thread does it before its loop runs, aiohttp's on_startup inside its loop.
Install(l) ==
  /\ GoesOn(l, "off", "schedule")
  /\ l = "web" => running["web"] = "yes"
  /\ mainLoop' = l
  /\ todo' = [todo EXCEPT ![l] = pending]
  /\ pending' = LeftBuffer(l)
  /\ UNCHANGED <<running, hand, call, local, run, future>>

\* run_coroutine_threadsafe of the next coroutine taken over.
DrainSchedule(l) ==
  /\ GoesOn(l, "schedule", "track")
  /\ todo[l] # <<>>
  /\ queue' = [queue EXCEPT ![l] = Append(@, Head(todo[l]))]
  /\ todo' = [todo EXCEPT ![l] = Tail(@)]
  /\ hand' = [hand EXCEPT ![l] = Head(todo[l])]
  /\ UNCHANGED <<mainLoop, running, pending, call, local, started, done, closed, refused, future>>

DrainTrack(l) ==
  /\ GoesOn(l, "track", "callback")
  /\ tracked' = tracked \cup {hand[l]}
  /\ UNCHANGED <<mainLoop, running, todo, hand, pending, call, local, run, registered, owed>>

\* add_done_callback runs _forget_future inline when the future is done.
Register(c) ==
  /\ registered' = registered \cup {c}
  /\ tracked' = IF c \in done THEN tracked \ {c} ELSE tracked

DrainCallback(l) ==
  /\ GoesOn(l, "callback", "schedule")
  /\ Register(hand[l])
  /\ hand' = [hand EXCEPT ![l] = NoCoro]
  /\ UNCHANGED <<mainLoop, running, todo, pending, call, local, run, owed>>

InstallEnd(l) ==
  /\ GoesOn(l, "schedule", "done")
  /\ todo[l] = <<>>
  /\ UNCHANGED <<mainLoop, running, todo, hand, pending, call, local, run, future>>

--------------------------------------------------------------------------------
(* run_async(c), on any thread *)

Moved(c, from, to) == call[c] = from /\ call' = [call EXCEPT ![c] = to]

ReadLoop(c) ==
  /\ Moved(c, "new", "check")
  /\ local' = [local EXCEPT ![c] = mainLoop]
  /\ UNCHANGED <<mainLoop, running, inst, pending, run, future>>

CheckRunning(c) ==
  /\ Moved(c, "check", IF local[c] # NoLoop /\ running[local[c]] = "yes"
                       THEN "schedule" ELSE "buffer")
  /\ UNCHANGED <<mainLoop, running, inst, pending, local, run, future>>

\* A loop that has stopped since either holds the coroutine for ever or, once
\* closed, raises RuntimeError to the caller.
Schedule(c) ==
  \/ /\ Moved(c, "schedule", "register")
     /\ queue' = [queue EXCEPT ![local[c]] = Append(@, c)]
     /\ UNCHANGED <<mainLoop, running, inst, pending, local, started, done, closed, refused, future>>
  \/ /\ Moved(c, "schedule", "returned")
     /\ running[local[c]] = "stopped"
     /\ refused' = refused \cup {c}
     /\ UNCHANGED <<mainLoop, running, inst, pending, local, queue, started, done, closed, future>>

AddCallback(c) ==
  /\ Moved(c, "register", "track")
  /\ Register(c)
  /\ UNCHANGED <<mainLoop, running, inst, pending, local, run, owed>>

\* Mutant: no sweep.
SweptNever(s) == s

Swept(s) == IF Cardinality(s) >= SweepThreshold THEN s \ done ELSE s

Track(c) ==
  /\ Moved(c, "track", "returned")
  /\ tracked' = Swept(tracked \cup {c})
  /\ UNCHANGED <<mainLoop, running, inst, pending, local, run, registered, owed>>

\* Mutants: no cap, and the newest coroutine dropped.
KeptAll(s)    == s
KeptOldest(s) == IF Len(s) > CoroutinesMax THEN SubSeq(s, 1, CoroutinesMax) ELSE s

KeptNewest(s) ==
  IF Len(s) > CoroutinesMax THEN SubSeq(s, Len(s) - CoroutinesMax + 1, Len(s)) ELSE s

\* No running loop: buffer the coroutine and close those beyond the cap.
Buffer(c) ==
  /\ Moved(c, "buffer", "returned")
  /\ pending' = KeptNewest(Append(pending, c))
  /\ closed' = closed \cup (Range(Append(pending, c)) \ Range(pending'))
  /\ UNCHANGED <<mainLoop, running, inst, local, queue, started, done, refused, future>>

--------------------------------------------------------------------------------
(* The loops *)

\* run_forever of the background thread, after its set_main_loop returned.
BgRun ==
  /\ instPc["bg"] = "done" /\ running["bg"] = "no"
  /\ running' = [running EXCEPT !["bg"] = "yes"]
  /\ UNCHANGED <<mainLoop, inst, pending, call, local, run, future>>

\* web.run_app.  The app's constructor waited for the background loop, but for
\* five seconds only.
WebRun ==
  /\ running["web"] = "no"
  /\ running' = [running EXCEPT !["web"] = "yes"]
  /\ UNCHANGED <<mainLoop, inst, pending, call, local, run, future>>

WebStop ==
  /\ WebMayStop
  /\ running["web"] = "yes" /\ instPc["web"] = "done"
  /\ running' = [running EXCEPT !["web"] = "stopped"]
  /\ UNCHANGED <<mainLoop, inst, pending, call, local, run, future>>

\* Tasks start in the order they were scheduled, between other work of the loop.
Begin(l) ==
  /\ running[l] = "yes" /\ instPc[l] = "done"
  /\ queue[l] # <<>>
  /\ queue' = [queue EXCEPT ![l] = Tail(@)]
  /\ started' = started \cup {Head(queue[l])}
  /\ UNCHANGED <<mainLoop, running, inst, pending, call, local, done, closed, refused, future>>

Finish(c) ==
  /\ c \in started \ done
  /\ done' = done \cup {c}
  /\ owed' = IF c \in registered THEN owed \cup {c} ELSE owed
  /\ UNCHANGED <<mainLoop, running, inst, pending, call, local, queue, started, closed, refused,
                 tracked, registered>>

\* _forget_future as a done-callback.
Forget(c) ==
  /\ c \in owed
  /\ owed' = owed \ {c}
  /\ tracked' = tracked \ {c}
  /\ UNCHANGED <<mainLoop, running, inst, pending, call, local, run, registered>>

--------------------------------------------------------------------------------
(* Specification *)

Init ==
  /\ mainLoop = NoLoop
  /\ running = [l \in Loops |-> "no"]
  /\ instPc = [l \in Loops |-> "off"]
  /\ todo = [l \in Loops |-> <<>>]
  /\ hand = [l \in Loops |-> NoCoro]
  /\ pending = <<>>
  /\ call = [c \in Coros |-> "new"]
  /\ local = [c \in Coros |-> NoLoop]
  /\ queue = [l \in Loops |-> <<>>]
  /\ started = {} /\ done = {} /\ closed = {} /\ refused = {}
  /\ tracked = {} /\ registered = {} /\ owed = {}

Installer(l) == Install(l) \/ DrainSchedule(l) \/ DrainTrack(l) \/ DrainCallback(l) \/ InstallEnd(l)

\* The rest of a call that has begun.
CallStep(c) == CheckRunning(c) \/ Schedule(c) \/ AddCallback(c) \/ Track(c) \/ Buffer(c)

Next ==
  \/ \E l \in Loops : Installer(l) \/ Begin(l)
  \/ \E c \in Coros : ReadLoop(c) \/ CallStep(c) \/ Finish(c) \/ Forget(c)
  \/ BgRun \/ WebRun \/ WebStop

\* Both loops come up and turn; a thread inside run_async goes on.
Fairness ==
  /\ \A l \in Loops : WF_vars(Installer(l)) /\ WF_vars(Begin(l))
  /\ \A c \in Coros : WF_vars(CallStep(c)) /\ WF_vars(Forget(c))
  /\ WF_vars(BgRun) /\ WF_vars(WebRun)

Spec     == Init /\ [][Next]_vars
FairSpec == Spec /\ Fairness

--------------------------------------------------------------------------------
(* Properties *)

TypeOK ==
  /\ mainLoop \in Loops \cup {NoLoop}
  /\ running \in [Loops -> {"no", "yes", "stopped"}]
  /\ instPc \in [Loops -> {"off", "schedule", "track", "callback", "done"}]
  /\ todo \in [Loops -> Seq(Coros)]
  /\ hand \in [Loops -> Coros \cup {NoCoro}]
  /\ pending \in Seq(Coros) /\ Len(pending) <= CoroutinesMax
  /\ call \in [Coros -> {"new", "check", "schedule", "register", "track", "buffer", "returned"}]
  /\ local \in [Coros -> Loops \cup {NoLoop}]
  /\ queue \in [Loops -> Seq(Coros)]
  /\ started \cup done \cup closed \cup refused \subseteq Coros
  /\ tracked \cup registered \cup owed \subseteq Coros

\* The coroutines that wait somewhere: in the buffer, in the list a loop took
\* over, or in a loop's queue.
Waiting == pending \o todo["bg"] \o todo["web"] \o queue["bg"] \o queue["web"]

\* However calls and installs interleave, a coroutine handed to run_async is in
\* exactly one place afterwards: waiting once, started, closed by the cap, or
\* refused by a closed loop.  None runs twice, none is closed and run, none
\* disappears in the swap of the buffer.
InOnePlace ==
  /\ IsInjective(Waiting)
  /\ \A c \in Coros :
       Cardinality({s \in {<<"waiting", Range(Waiting)>>, <<"started", started>>,
                           <<"closed", closed>>, <<"refused", refused>>} : c \in s[2]})
         = IF call[c] \in {"register", "track", "returned"} THEN 1 ELSE 0

\* The futures nobody will remove any more (finished, their done-callback over,
\* recorded after it ran) stay fewer than the threshold.
LeakBounded ==
  Cardinality({c \in tracked : c \in done \ owed /\ call[c] = "returned"
                               /\ \A l \in Loops : hand[l] # c}) < SweepThreshold

\* A coroutine is closed only for newer ones: whenever one leaves the buffer
\* for the cap, the calls that stored what is kept came later.
OnlyOldestDropped ==
  [][\A c \in closed' \ closed :
       /\ pending # <<>> /\ c = Head(pending)
       /\ Len(pending') = CoroutinesMax]_vars

\* A coroutine handed to run_async runs, is closed by the cap, or is refused: it
\* does not stay in a list nobody reads.
NeverStranded ==
  \A c \in Coros : call[c] = "check" ~> c \in started \cup closed \cup refused
================================================================================
