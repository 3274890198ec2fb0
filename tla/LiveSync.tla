------------------------------- MODULE LiveSync -------------------------------
(***************************************************************************)
(* How a change on the server reaches the browser tabs: websocket_broadcast *)
(* with its lock, its sequence numbers and its coalescing buffer, the       *)
(* websocket handler that joins and leaves the list of clients, and, in the *)
(* tab, WebSocketConnection, wsLiveSync (a cursor, sync.subscribe) and the  *)
(* resync over REST.                                                        *)
(*                                                                          *)
(* The data is one version number per key: what a broadcast carries, what a *)
(* REST answer carries, what a tab shows.  A frame whose key is None is one *)
(* that changes no key (config, config.changed and app.sessions.updated,    *)
(* which every connection causes).                                          *)
(***************************************************************************)
EXTENDS Naturals, FiniteSets, SequencesExt

CONSTANTS
  Clients,     \* browser tabs
  Keys,        \* what the tabs show
  Coalesced,   \* the keys whose broadcasts are merged (COALESCE_TYPES)
  Foreign,     \* the keys broadcast from the background loop, with a time-out
  None,        \* no key, no request
  Greeting,    \* frames that a handshake broadcasts
  MaxChanges,  \* bound: changes
  MaxFaults    \* bound: connections that break, sends that fail, broadcasts
               \* that time out, REST steps that fail, and server restarts

ASSUME LiveSyncAssumption ==
  /\ Coalesced \subseteq Keys
  /\ Foreign \subseteq Keys \ Coalesced
  /\ None \notin Keys \cup Clients \cup Nat
  /\ {"app", "flush"} \cap Clients = {}
  /\ Greeting \in Nat \ {0}
  /\ {MaxChanges, MaxFaults} \subseteq Nat

VARIABLES
  world,    \* world[k]: the version the server holds (it survives a restart)
  seq,      \* BroadcastSeqState.seq
  pending,  \* CoalesceBuffer._pending: the version waiting for each key, or 0
  batch,    \* what _delayed_flush has taken and not yet broadcast
  flusher,  \* its task: "idle", "sleep" or "flush"
  queue,    \* broadcasts waiting for _websocket_broadcast_lock, in order
  jobs,     \* the broadcast that holds it: frame, targets left, targets dead
  member,   \* websocket_clients
  greets,   \* greets[c]: handshake frames that c's handler has yet to broadcast
  link,     \* link[c]: c's socket: "none", "up", or "cut" (c will see it close)
  down,     \* down[c]: frames on their way to c
  up,       \* up[c]: the sync.subscribe on its way to the server, or None
  stage,    \* stage[c]: the socket in the tab: "shut", "open" or "ready"
  opened,   \* has a socket of this tab ever been open (_hadSuccessfulOpen)?
  cursor,   \* cursor[c]: lastSeq
  view,     \* view[c][k]: the version the tab shows (0: none yet)
  fetch,    \* fetch[c][s]: REST reads: those of the shell when the page loads or
            \* the socket opens again, and those of the resync after a gap
  last,     \* history: the last sequence number on this connection
  blame,    \* history: keys a failed or an overtaken REST read left stale
  lost,     \* history: keys whose last broadcast timed out
  changes,  \* how many changes there were
  faults    \* how many faults there were

data   == <<world, changes>>
server == <<seq, pending, batch, flusher, queue, jobs, member, greets>>
tab    == <<stage, opened, cursor, view, fetch, last, blame>>
wire   == <<link, down, up>>
vars   == <<data, server, wire, tab, lost, faults>>

Sources == {"shell", "sync"}
NoFetch == [pc |-> "idle", got |-> <<>>, cur |-> 0]
\* A series of REST reads, one per key, stands as one read of several keys: the
\* properties look at one key at a time.  cur is what the cursor becomes after it.
Fetching(cur) == [NoFetch EXCEPT !.pc = "ask", !.cur = cur]

Payload(k, v, by) == [key |-> k, ver |-> v, by |-> by]
Hello(by)         == Payload(None, 0, by)
Fault             == faults < MaxFaults /\ faults' = faults + 1

--------------------------------------------------------------------------------
(* The server: broadcasts *)

\* A change is broadcast by who made it.  Broadcasts wait for the lock in the
\* order they were made in.
Change(k) ==
  /\ changes < MaxChanges
  /\ changes' = changes + 1
  /\ k \notin Coalesced
  /\ world' = [world EXCEPT ![k] = @ + 1]
  /\ queue' = Append(queue, Payload(k, world'[k], "app"))
  /\ lost' = lost \ {k}
  /\ UNCHANGED <<seq, pending, batch, flusher, jobs, member, greets,
                 wire, tab, faults>>

\* CoalesceBuffer.offer: the newest payload of the key replaces the waiting one,
\* and a flush is started unless one is there.
ChangeCoalesced(k) ==
  /\ changes < MaxChanges
  /\ changes' = changes + 1
  /\ k \in Coalesced
  /\ world' = [world EXCEPT ![k] = @ + 1]
  /\ pending' = [pending EXCEPT ![k] = world'[k]]
  /\ flusher' = IF flusher = "idle" THEN "sleep" ELSE flusher
  /\ UNCHANGED <<seq, batch, queue, jobs, member, greets, wire, tab, lost,
                 faults>>

Waiting == {k \in Keys : pending[k] > 0}

\* Offers made during the flush start another round.
FlusherAfter == IF Waiting = {} THEN "idle" ELSE "sleep"

FlushTake ==
  /\ flusher = "sleep"
  /\ flusher' = "flush"
  /\ batch' = {Payload(k, pending[k], "flush") : k \in Waiting}
  /\ pending' = [k \in Keys |-> 0]
  /\ UNCHANGED <<data, seq, queue, jobs, member, greets, wire, tab, lost,
                 faults>>

\* One payload at a time: the flush awaits the broadcast of each.
FlushAwaits == \/ \E i \in DOMAIN queue : queue[i].by = "flush"
               \/ \E j \in jobs : j.by = "flush"

FlushNext ==
  /\ flusher = "flush"
  /\ ~FlushAwaits
  /\ \E p \in batch : /\ queue' = Append(queue, p)
                      /\ batch' = batch \ {p}
  /\ UNCHANGED <<data, seq, pending, flusher, jobs, member, greets, wire,
                 tab, lost, faults>>

FlushEnd ==
  /\ flusher = "flush"
  /\ ~FlushAwaits
  /\ batch = {}
  /\ flusher' = FlusherAfter
  /\ UNCHANGED <<data, seq, pending, batch, queue, jobs, member, greets,
                 wire, tab, lost, faults>>

\* Mutant: broadcasts do not exclude each other.
LockIgnored == Cardinality(jobs) < 2
LockFree    == jobs = {}

\* Under the lock: take a number, then the list of clients.
Stamp ==
  /\ LockFree
  /\ queue # <<>>
  /\ seq' = seq + 1
  /\ jobs' = jobs \cup {[seq |-> seq', key |-> Head(queue).key,
                         ver |-> Head(queue).ver, by |-> Head(queue).by,
                         to |-> member, dead |-> {}]}
  /\ queue' = Tail(queue)
  /\ UNCHANGED <<data, pending, batch, flusher, member, greets, wire, tab,
                 lost, faults>>

Event(j) == [kind |-> "event", seq |-> j.seq, key |-> j.key, ver |-> j.ver]

\* One of the parallel sends completes.
Deliver(j, c) ==
  /\ c \in j.to
  /\ down' = [down EXCEPT ![c] = Append(@, Event(j))]
  /\ jobs' = (jobs \ {j}) \cup {[j EXCEPT !.to = @ \ {c}]}
  /\ UNCHANGED <<data, seq, pending, batch, flusher, queue, member, greets,
                 link, up, tab, lost, faults>>

\* One fails or times out; a send that times out may still arrive.
SendFails(j, c) ==
  /\ c \in j.to
  /\ down' \in {down, [down EXCEPT ![c] = Append(@, Event(j))]}
  /\ jobs' = (jobs \ {j}) \cup {[j EXCEPT !.to = @ \ {c}, !.dead = @ \cup {c}]}
  /\ Fault
  /\ UNCHANGED <<data, seq, pending, batch, flusher, queue, member, greets,
                 link, up, tab, lost>>

\* Mutant: the handshake of a connection that is gone counts for the next one.
DisownedNone(D) == queue
\* What the server forgets of the connections of the clients in D.
Disowned(D) == [i \in DOMAIN queue |->
                  IF queue[i].by \in D THEN [queue[i] EXCEPT !.by = "app"]
                                       ELSE queue[i]]

Unowned(D) == [c \in Clients |-> IF c \in D THEN 0 ELSE greets[c]]

\* Mutant: a dead client leaves the list and keeps its socket.
ClosedNone(D) == link
Closed(D) == [c \in Clients |-> IF c \in D /\ link[c] = "up" THEN "cut" ELSE link[c]]

\* All sends are over: dead clients leave the list and are closed, and the others
\* are told of the sessions before the caller goes on; a handshake goes on with
\* its next frame.
Finish(j) ==
  LET next == IF j.by \in Clients /\ j.dead = {}
                THEN [greets EXCEPT ![j.by] = @ - 1] ELSE Unowned(j.dead)
      more == IF j.dead # {} THEN <<Hello(IF j.by \in j.dead THEN "app" ELSE j.by)>>
              ELSE IF j.by \in Clients /\ next[j.by] > 0 THEN <<Hello(j.by)>>
              ELSE <<>>
  IN  /\ j.to = {}
      /\ jobs' = jobs \ {j}
      /\ member' = member \ j.dead
      /\ link' = Closed(j.dead)
      /\ greets' = next
      /\ queue' = Disowned(j.dead) \o more
      /\ UNCHANGED <<data, seq, pending, batch, flusher, down, up, tab,
                     lost, faults>>

\* A broadcast from the background loop is given up after 30 s, wherever it is:
\* waiting for the lock, or between two sends.
TimesOut(p) ==
  /\ p.key \in Foreign
  /\ lost' = IF p.ver = world[p.key] THEN lost \cup {p.key} ELSE lost
  /\ Fault
  /\ UNCHANGED <<data, seq, pending, batch, flusher, member, greets, wire, tab>>

CancelWaiting ==
  \E i \in DOMAIN queue :
    /\ TimesOut(queue[i])
    /\ queue' = RemoveAt(queue, i)
    /\ UNCHANGED jobs

CancelSending ==
  \E j \in jobs : /\ TimesOut(j)
                  /\ jobs' = jobs \ {j}
                  /\ UNCHANGED queue

--------------------------------------------------------------------------------
(* The server: connections *)

\* The handler joins the list, then broadcasts the first handshake frame.
Accept(c) ==
  /\ link[c] = "none"
  /\ link' = [link EXCEPT ![c] = "up"]
  /\ member' = member \cup {c}
  /\ greets' = [greets EXCEPT ![c] = Greeting]
  /\ queue' = Append(queue, Hello(c))
  /\ last' = [last EXCEPT ![c] = 0]
  /\ UNCHANGED <<data, seq, pending, batch, flusher, jobs, down, up, stage,
                 opened, cursor, view, fetch, blame, lost, faults>>

\* Mutant: a fresh page has nothing to catch up with.
CaughtUpWhenFresh(since) == since \in {0, seq}
CaughtUp(since) == since = seq

\* The handler reads messages once its handshake is broadcast.
AnswerSync(c) ==
  /\ link[c] = "up"
  /\ greets[c] = 0
  /\ up[c] # None
  /\ down' = [down EXCEPT ![c] = Append(@, [kind |-> "sync", ok |-> CaughtUp(up[c]),
                                           cur |-> seq])]
  /\ up' = [up EXCEPT ![c] = None]
  /\ UNCHANGED <<data, server, link, tab, lost, faults>>

\* The connection breaks, or either side gives it up: the handler ends, leaves
\* the list and tells the others of the sessions.
Lose(c) ==
  /\ link[c] = "up"
  /\ link' = [link EXCEPT ![c] = "cut"]
  /\ member' = member \ {c}
  /\ greets' = Unowned({c})
  /\ queue' = Append(Disowned({c}), Hello("app"))
  /\ jobs' = {[j EXCEPT !.to = @ \ {c}, !.dead = @ \ {c},
                        !.by = IF @ = c THEN "app" ELSE @] : j \in jobs}
  /\ Fault
  /\ UNCHANGED <<data, seq, pending, batch, flusher, down, up, tab, lost>>

\* The server process ends and starts anew: numbers begin at zero, every
\* broadcast under way is gone, what is stored is kept.
Restart ==
  /\ seq' = 0
  /\ pending' = [k \in Keys |-> 0]
  /\ batch' = {}
  /\ flusher' = "idle"
  /\ queue' = <<>>
  /\ jobs' = {}
  /\ member' = {}
  /\ greets' = [c \in Clients |-> 0]
  /\ link' = Closed(Clients)
  /\ lost' = {}
  /\ Fault
  /\ UNCHANGED <<data, down, up, tab>>

--------------------------------------------------------------------------------
(* The tab: WebSocketConnection, wsLiveSync, resync *)

ResyncOnOpen(c) == opened[c]

\* Bound: a tab has one series of reads of each kind under way.
Opened(c) ==
  /\ link[c] # "none"
  /\ stage[c] = "shut"
  /\ ResyncOnOpen(c) => fetch[c]["shell"].pc = "idle"
  /\ stage' = [stage EXCEPT ![c] = "open"]
  /\ opened' = [opened EXCEPT ![c] = TRUE]
  /\ fetch' = IF ResyncOnOpen(c)
                THEN [fetch EXCEPT ![c]["shell"] = Fetching(0)] ELSE fetch
  /\ UNCHANGED <<data, server, wire, cursor, view, last, blame, lost, faults>>

\* The handler of the first frame asks for what was missed, from the cursor as
\* it was before that frame.
Ready(c) ==
  /\ stage' = [stage EXCEPT ![c] = "ready"]
  /\ up' = IF stage[c] = "open" THEN [up EXCEPT ![c] = cursor[c]] ELSE up

Larger(a, b) == IF b > a THEN b ELSE a

ReceiveEvent(c) ==
  /\ stage[c] # "shut"
  /\ down[c] # <<>>
  /\ LET f == Head(down[c])
     IN  /\ f.kind = "event"
         /\ Ready(c)
         /\ cursor' = [cursor EXCEPT ![c] = Larger(@, f.seq)]
         /\ last' = [last EXCEPT ![c] = f.seq]
         /\ view' = [view EXCEPT ![c] = [k \in Keys |-> IF k = f.key THEN f.ver
                                                                      ELSE @[k]]]
         /\ blame' = [blame EXCEPT ![c] = {k \in @ : k # f.key \/ f.ver # world[k]}]
  /\ down' = [down EXCEPT ![c] = Tail(@)]
  /\ UNCHANGED <<data, server, link, opened, fetch, lost, faults>>

ReceiveSync(c) ==
  /\ stage[c] # "shut"
  /\ down[c] # <<>>
  /\ LET f == Head(down[c])
     IN  /\ f.kind = "sync"
         /\ Ready(c)
         /\ cursor' = [cursor EXCEPT ![c] = IF f.cur < @ THEN f.cur ELSE @]
         /\ \/ /\ f.ok
               /\ UNCHANGED fetch
            \/ /\ ~f.ok
               /\ fetch[c]["sync"].pc = "idle"
               /\ fetch' = [fetch EXCEPT ![c]["sync"] = Fetching(f.cur)]
  /\ down' = [down EXCEPT ![c] = Tail(@)]
  /\ UNCHANGED <<data, server, link, opened, view, last, blame, lost, faults>>

\* The tab sees its socket close; what was still on the way is lost.
SeesClose(c) ==
  /\ link[c] = "cut"
  /\ link' = [link EXCEPT ![c] = "none"]
  /\ down' = [down EXCEPT ![c] = <<>>]
  /\ up' = [up EXCEPT ![c] = None]
  /\ stage' = [stage EXCEPT ![c] = "shut"]
  /\ UNCHANGED <<data, server, opened, cursor, view, fetch, last, blame, lost,
                 faults>>

\* The server answers; a step that fails leaves out its key and goes unnoticed.
FetchRead(c, s) ==
  /\ fetch[c][s].pc = "ask"
  /\ \E failed \in SUBSET Keys :
       /\ IF failed = {} THEN UNCHANGED faults ELSE Fault
       /\ fetch' = [fetch EXCEPT ![c][s].pc = "answer",
                                ![c][s].got = [k \in Keys \ failed |-> world[k]]]
       /\ blame' = [blame EXCEPT ![c] = @ \cup failed]
  /\ UNCHANGED <<data, server, wire, stage, opened, cursor, view, last, lost>>

\* The tab shows the answers, and after the resync that a reply asked for the
\* cursor is at least the reply's.  History: an answer older than what the tab
\* shows was overtaken by a frame.
FetchEnd(c, s) ==
  LET got  == fetch[c][s].got
      keys == DOMAIN got
      old  == {k \in keys : got[k] < view[c][k]}
      new  == {k \in keys : got[k] = world[k]}
  IN  /\ fetch[c][s].pc = "answer"
      /\ fetch' = [fetch EXCEPT ![c][s] = NoFetch]
      /\ view' = [view EXCEPT ![c] = [k \in Keys |-> IF k \in keys THEN got[k] ELSE @[k]]]
      /\ blame' = [blame EXCEPT ![c] = (@ \cup old) \ new]
      /\ cursor' = [cursor EXCEPT ![c] = Larger(@, fetch[c][s].cur)]
      /\ UNCHANGED <<data, server, wire, stage, opened, last, lost, faults>>

--------------------------------------------------------------------------------

Init ==
  /\ world = [k \in Keys |-> 1]
  /\ seq = 0
  /\ pending = [k \in Keys |-> 0]
  /\ batch = {}
  /\ flusher = "idle"
  /\ queue = <<>>
  /\ jobs = {}
  /\ member = {}
  /\ greets = [c \in Clients |-> 0]
  /\ link = [c \in Clients |-> "none"]
  /\ down = [c \in Clients |-> <<>>]
  /\ up = [c \in Clients |-> None]
  /\ stage = [c \in Clients |-> "shut"]
  /\ opened = [c \in Clients |-> FALSE]
  /\ cursor = [c \in Clients |-> 0]
  /\ view = [c \in Clients |-> [k \in Keys |-> 0]]
  /\ fetch = [c \in Clients |-> [s \in Sources |->
                IF s = "shell" THEN Fetching(0) ELSE NoFetch]]
  /\ last = [c \in Clients |-> 0]
  /\ blame = [c \in Clients |-> {}]
  /\ lost = {}
  /\ changes = 0
  /\ faults = 0

Broadcasting ==
  \/ FlushTake \/ FlushNext \/ FlushEnd
  \/ Stamp
  \/ \E j \in jobs : Finish(j) \/ \E c \in Clients : Deliver(j, c)

Connecting ==
  \E c \in Clients : Accept(c) \/ AnswerSync(c) \/ Opened(c) \/ ReceiveEvent(c)
                       \/ ReceiveSync(c) \/ SeesClose(c)

Resyncing ==
  \E c \in Clients, s \in Sources : FetchRead(c, s) \/ FetchEnd(c, s)

\* What keeps going by itself, and what may happen.
System == Broadcasting \/ Connecting \/ Resyncing
Environment ==
  \/ \E k \in Keys : Change(k) \/ ChangeCoalesced(k)
  \/ \E j \in jobs, c \in Clients : SendFails(j, c)
  \/ CancelWaiting \/ CancelSending
  \/ \E c \in Clients : Lose(c)
  \/ Restart

Next == System \/ Environment

Spec == Init /\ [][Next]_vars
LiveSpec == Spec /\ WF_vars(System)

--------------------------------------------------------------------------------
(* Properties *)

Actors  == Clients \cup {"app", "flush"}
Frames  == [kind : {"event"}, seq : Nat, key : Keys \cup {None}, ver : Nat]
Replies == [kind : {"sync"}, ok : BOOLEAN, cur : Nat]
Payloads == [key : Keys \cup {None}, ver : Nat, by : Actors]
Jobs    == [seq : Nat, key : Keys \cup {None}, ver : Nat, by : Actors,
            to : SUBSET Clients, dead : SUBSET Clients]

\* What the broadcasting side of the server and the wire hold.
ServerTypeOK ==
  /\ world \in [Keys -> Nat]
  /\ seq \in Nat
  /\ pending \in [Keys -> Nat]
  /\ batch \subseteq Payloads
  /\ queue \in Seq(Payloads)
  /\ jobs \subseteq Jobs
  /\ member \subseteq Clients
  /\ link \in [Clients -> {"none", "up", "cut"}]
  /\ down \in [Clients -> Seq(Frames \cup Replies)]
  /\ last \in [Clients -> Nat]

TypeOK ==
  /\ ServerTypeOK
  /\ flusher \in {"idle", "sleep", "flush"}
  /\ greets \in [Clients -> 0..Greeting]
  /\ stage \in [Clients -> {"shut", "open", "ready"}]
  /\ opened \in [Clients -> BOOLEAN]
  /\ up \in [Clients -> Nat \cup {None}]
  /\ cursor \in [Clients -> Nat]
  /\ view \in [Clients -> [Keys -> Nat]]
  /\ blame \in [Clients -> SUBSET Keys]
  /\ lost \subseteq Keys
  /\ changes \in 0..MaxChanges /\ faults \in 0..MaxFaults
  /\ \A c \in Clients, s \in Sources :
       /\ fetch[c][s].pc \in {"idle", "ask", "answer"}
       /\ DOMAIN fetch[c][s].got \subseteq Keys
       /\ fetch[c][s].cur \in Nat

\* The numbered frames in s grow, from above lo.
Ordered(s, lo) ==
  \A i \in DOMAIN s : s[i].kind = "event" =>
    /\ lo < s[i].seq
    /\ \A k \in DOMAIN s : i < k /\ s[k].kind = "event" => s[i].seq < s[k].seq

\* Frames of one connection arrive in the order of their numbers, each once:
\* websocket_broadcast takes number, list and sends together "so the stamped
\* order matches the order clients observe".
FrameOrder == \A c \in Clients : Ordered(down[c], last[c])

\* Nothing is being broadcast, and the tab is connected with nothing on the way.
\* (What waits in the coalescing buffer does not count unless a flush will come.)
Quiet == flusher = "idle" /\ queue = <<>> /\ jobs = {}
Settled(c) ==
  /\ Quiet
  /\ link[c] = "up" /\ c \in member /\ stage[c] = "ready"
  /\ down[c] = <<>> /\ up[c] = None
  /\ \A s \in Sources : fetch[c][s].pc = "idle"

\* A tab at rest shows what the server holds, whatever broke, restarted or
\* joined in the middle of a broadcast before, unless a broadcast timed out, a
\* REST step failed, or an answer was overtaken by a newer frame.
StaleIsExplained ==
  \A c \in Clients : Settled(c) =>
    \A k \in Keys : view[c][k] = world[k] \/ k \in lost \cup blame[c]

\* When changes and failures stop, every tab comes to rest: connected, in the
\* list of clients, in sync, with nothing waiting anywhere.
EverybodySettles == <>[](\A c \in Clients : Settled(c))

\* "Only an exact match means the client is caught up": when the answer "ok" is
\* the last thing on its way to a tab, and the tab reads nothing, it shows what
\* the server holds (broadcasts that timed out aside).
OkMeansCaughtUp ==
  \A c \in Clients :
    /\ Quiet
    /\ link[c] = "up" /\ Len(down[c]) = 1
    /\ down[c][1].kind = "sync" /\ down[c][1].ok
    /\ \A s \in Sources : fetch[c][s].pc = "idle"
    => \A k \in Keys \ lost : view[c][k] = world[k]
===============================================================================
