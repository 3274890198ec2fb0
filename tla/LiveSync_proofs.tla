--------------------------- MODULE LiveSync_proofs ---------------------------
(***************************************************************************)
(* What holds of LiveSync for any number of tabs and keys, and however     *)
(* many connections, sends, broadcasts and servers fail.                   *)
(*                                                                         *)
(* First, the frames of one connection arrive in the order of their        *)
(* numbers.  FrameOrder speaks of frames on the wire.  It is inductive     *)
(* together with what the lock gives (SendingOk: one broadcast at a time,  *)
(* its number the newest, its targets behind it) and with what the list of *)
(* clients gives (TabOk: a member has an open socket and has got nothing   *)
(* newer than seq; a new socket starts empty).                             *)
(*                                                                         *)
(* Then, a tab that has nothing more to come shows what the server holds   *)
(* (StaleIsExplained).  The invariant says why a connected tab that is     *)
(* behind will be reached (ViewOk): the version waits in the buffer, in    *)
(* the batch or in the queue (KeyOk), it is being sent, it is on the wire  *)
(* (WireOk), a read is under way that brings it (GotOk), or an answer to   *)
(* sync.subscribe will report a gap (SideOk: when the handler reads the    *)
(* request, a frame of the handshake has been given a number, and zero is  *)
(* not the newest one).  HandshakesOk gives the handler's turn to answer.  *)
(***************************************************************************)
EXTENDS LiveSync, SequenceTheorems, TLAPS

\* Every numbered frame in s is older than n.
Under(s, n) == \A i \in DOMAIN s : s[i].kind = "event" => s[i].seq < n

SendingOk ==
  /\ \A j, k \in jobs : j = k
  /\ \A j \in jobs : j.seq <= seq

Behind(c, j) == /\ c \in member
                /\ last[c] < j.seq
                /\ Under(down[c], j.seq)

TabOk(c) ==
  /\ Ordered(down[c], last[c])
  /\ c \in member => link[c] = "up"
  /\ link[c] = "none" => down[c] = <<>>
  /\ c \in member => last[c] < seq + 1 /\ Under(down[c], seq + 1)
  /\ \A j \in jobs : c \in j.to => Behind(c, j)

IInv == ServerTypeOK /\ SendingOk /\ \A c \in Clients : TabOk(c)

--------------------------------------------------------------------------------
(* Sequences of frames *)

Wire == Seq(Frames \cup Replies)

\* A frame with a number is not a reply.
LEMMA Numbered ==
  ASSUME NEW s \in Wire, NEW i \in DOMAIN s
  PROVE  /\ s[i] \in Frames \cup Replies
         /\ s[i].kind = "event" => s[i] \in Frames /\ s[i].seq \in Nat
<1>1. s[i] \in Frames \cup Replies
  BY DEF Wire
<1>2. ASSUME s[i] \in Frames
      PROVE  s[i].seq \in Nat
  BY <1>2 DEF Frames
<1>3. ASSUME s[i] \in Replies
      PROVE  s[i].kind # "event"
  BY <1>3 DEF Replies
<1> QED
  BY <1>1, <1>2, <1>3

\* A newer frame may follow.
LEMMA OrderedAppend ==
  ASSUME NEW s \in Wire, NEW e \in Frames, NEW lo \in Nat,
         Ordered(s, lo), Under(s, e.seq), lo < e.seq
  PROVE  /\ Append(s, e) \in Wire
         /\ Ordered(Append(s, e), lo)
         /\ \A n \in Nat : e.seq < n => Under(Append(s, e), n)
<1> DEFINE t == Append(s, e)
<1>1. /\ t \in Wire
      /\ DOMAIN s = 1..Len(s) /\ Len(s) \in Nat
      /\ DOMAIN t = 1..(Len(s) + 1)
      /\ \A i \in 1..Len(s) : t[i] = s[i]
      /\ t[Len(s) + 1] = e
  BY AppendProperties DEF Wire
<1>2. e.seq \in Nat
  BY DEF Frames
<1>3. \A i \in DOMAIN t : i \in DOMAIN s \/ i = Len(s) + 1
  BY <1>1
<1> HIDE DEF t
<1>4. Ordered(t, lo)
  <2> SUFFICES ASSUME NEW i \in DOMAIN t, t[i].kind = "event"
               PROVE  /\ lo < t[i].seq
                      /\ \A k \in DOMAIN t : i < k /\ t[k].kind = "event"
                                               => t[i].seq < t[k].seq
    BY DEF Ordered
  <2>1. CASE i \in DOMAIN s
    <3>1. lo < t[i].seq
      BY <1>1, <2>1 DEF Ordered
    <3>2. ASSUME NEW k \in DOMAIN t, i < k, t[k].kind = "event"
          PROVE  t[i].seq < t[k].seq
      <4>1. CASE k \in DOMAIN s
        BY <1>1, <2>1, <3>2, <4>1 DEF Ordered
      <4>2. CASE k = Len(s) + 1
        BY <1>1, <2>1, <4>2 DEF Under
      <4> QED
        BY <1>3, <4>1, <4>2
    <3> QED
      BY <3>1, <3>2
  <2>2. CASE i = Len(s) + 1
    <3>1. \A k \in DOMAIN t : ~(i < k)
      BY <1>1, <2>2
    <3> QED
      BY <1>1, <2>2, <3>1
  <2> QED
    BY <1>3, <2>1, <2>2
<1>5. ASSUME NEW n \in Nat, e.seq < n
      PROVE  Under(t, n)
  <2> SUFFICES ASSUME NEW i \in DOMAIN t, t[i].kind = "event"
               PROVE  t[i].seq < n
    BY DEF Under
  <2>1. CASE i \in DOMAIN s
    <3>1. s[i].seq \in Nat /\ s[i].seq < e.seq /\ t[i] = s[i]
      BY <1>1, <2>1, Numbered DEF Under
    <3> QED
      BY <3>1, <1>2, <1>5
  <2>2. CASE i = Len(s) + 1
    BY <1>1, <1>5, <2>2
  <2> QED
    BY <1>3, <2>1, <2>2
<1> QED
  BY <1>1, <1>4, <1>5 DEF t

\* A reply has no number.
LEMMA OrderedReply ==
  ASSUME NEW s \in Wire, NEW r \in Replies, NEW lo \in Nat, Ordered(s, lo)
  PROVE  /\ Append(s, r) \in Wire
         /\ Ordered(Append(s, r), lo)
         /\ \A n \in Nat : Under(s, n) => Under(Append(s, r), n)
<1> DEFINE t == Append(s, r)
<1>1. /\ t \in Wire
      /\ DOMAIN s = 1..Len(s) /\ Len(s) \in Nat
      /\ DOMAIN t = 1..(Len(s) + 1)
      /\ \A i \in 1..Len(s) : t[i] = s[i]
      /\ t[Len(s) + 1] = r
  BY AppendProperties DEF Wire
<1>2. r.kind # "event"
  BY DEF Replies
<1>3. \A i \in DOMAIN t : t[i].kind = "event" => i \in DOMAIN s /\ t[i] = s[i]
  <2>1. \A i \in DOMAIN t : i \in DOMAIN s \/ i = Len(s) + 1
    BY <1>1
  <2> QED
    BY <1>1, <1>2, <2>1
<1> HIDE DEF t
<1>4. Ordered(t, lo)
  BY <1>3 DEF Ordered
<1>5. \A n \in Nat : Under(s, n) => Under(t, n)
  BY <1>3 DEF Under
<1> QED
  BY <1>1, <1>4, <1>5 DEF t

\* What follows the first frame is newer than it, and than lo.
LEMMA OrderedTail ==
  ASSUME NEW s \in Wire, s # <<>>, NEW lo \in Nat, Ordered(s, lo)
  PROVE  /\ Head(s) \in Frames \cup Replies
         /\ Tail(s) \in Wire
         /\ Ordered(Tail(s), lo)
         /\ Head(s).kind = "event" => /\ Head(s) \in Frames
                                      /\ Ordered(Tail(s), Head(s).seq)
                                      /\ \A n \in Nat : Under(s, n) => Head(s).seq < n
         /\ \A n \in Nat : Under(s, n) => Under(Tail(s), n)
<1> DEFINE t == Tail(s)
<1>1. /\ t \in Wire
      /\ Len(s) \in Nat /\ Len(s) > 0
      /\ DOMAIN s = 1..Len(s)
      /\ DOMAIN t = 1..(Len(s) - 1)
      /\ \A i \in DOMAIN t : t[i] = s[i + 1]
      /\ Head(s) = s[1] /\ 1 \in DOMAIN s
  BY HeadTailProperties, EmptySeq DEF Wire
<1>2. \A i \in DOMAIN t : i + 1 \in DOMAIN s /\ 1 < i + 1
  BY <1>1
<1>3. \A i, k \in DOMAIN t : i < k => i + 1 < k + 1
  BY <1>1
<1> HIDE DEF t
<1>4. Ordered(t, lo)
  BY <1>1, <1>2, <1>3 DEF Ordered
<1>5. Head(s).kind = "event" => Ordered(t, Head(s).seq)
  BY <1>1, <1>2, <1>3 DEF Ordered
<1>6. \A n \in Nat : Under(s, n) => Under(t, n)
  BY <1>1, <1>2 DEF Under
<1>7. /\ Head(s) \in Frames \cup Replies
      /\ Head(s).kind = "event" => /\ Head(s) \in Frames
                                   /\ \A n \in Nat : Under(s, n) => Head(s).seq < n
  BY <1>1, Numbered DEF Under
<1> QED
  BY <1>1, <1>4, <1>5, <1>6, <1>7 DEF t

\* Nothing is in order.
LEMMA OrderedEmpty ==
  ASSUME NEW lo \in Nat, NEW n \in Nat
  PROVE  Ordered(<<>>, lo) /\ Under(<<>>, n)
BY DEF Ordered, Under

--------------------------------------------------------------------------------
(* The broadcasting side keeps its types *)

\* A handshake frame is a payload.
LEMMA HelloType == \A by \in Actors : Hello(by) \in Payloads
BY LiveSyncAssumption DEF Hello, Payload, Payloads

\* What is forgotten of a connection keeps its type.
LEMMA DisownedType ==
  ASSUME ServerTypeOK, NEW D \in SUBSET Clients
  PROVE  Disowned(D) \in Seq(Payloads)
<1>1. /\ queue \in Seq(Payloads)
      /\ Len(queue) \in Nat
      /\ DOMAIN queue = 1..Len(queue)
      /\ \A i \in DOMAIN queue : queue[i] \in Payloads
  BY DEF ServerTypeOK
<1>2. ASSUME NEW p \in Payloads
      PROVE  [p EXCEPT !.by = "app"] \in Payloads
  BY DEF Payloads, Actors
<1>3. \A i \in 1..Len(queue) : Disowned(D)[i] \in Payloads
  BY <1>1, <1>2 DEF Disowned
<1> QED
  BY <1>1, <1>3 DEF Disowned

\* One more broadcast waits.
LEMMA QueueAppendType ==
  ASSUME NEW q \in Seq(Payloads), NEW p \in Payloads
  PROVE  Append(q, p) \in Seq(Payloads)
BY AppendProperties

\* One flush, one change, one stamp: the queue and what is under way.
LEMMA BroadcastTypes ==
  ASSUME ServerTypeOK,
         \/ \E k \in Keys : Change(k) \/ ChangeCoalesced(k)
         \/ FlushTake \/ FlushNext \/ FlushEnd
         \/ Stamp
  PROVE  ServerTypeOK'
<1> USE LiveSyncAssumption
<1>1. ASSUME NEW k \in Keys, Change(k)
      PROVE  ServerTypeOK'
  <2>1. world' \in [Keys -> Nat] /\ world'[k] \in Nat
    BY <1>1 DEF Change, ServerTypeOK
  <2>2. Payload(k, world'[k], "app") \in Payloads
    BY <2>1 DEF Payload, Payloads, Actors
  <2>3. queue' \in Seq(Payloads)
    BY <1>1, <2>2, QueueAppendType DEF Change, ServerTypeOK
  <2> QED
    BY <1>1, <2>1, <2>3 DEF Change, ServerTypeOK, wire, tab
<1>2. ASSUME NEW k \in Keys, ChangeCoalesced(k)
      PROVE  ServerTypeOK'
  BY <1>2 DEF ChangeCoalesced, ServerTypeOK, wire, tab
<1>3. CASE FlushTake
  <2>1. batch' \subseteq Payloads
    BY <1>3 DEF FlushTake, ServerTypeOK, Waiting, Payload, Payloads, Actors
  <2> QED
    BY <1>3, <2>1 DEF FlushTake, ServerTypeOK, data, wire, tab
<1>4. CASE FlushNext
  <2>1. PICK p \in batch : queue' = Append(queue, p) /\ batch' = batch \ {p}
    BY <1>4 DEF FlushNext
  <2>2. queue' \in Seq(Payloads)
    BY <2>1, QueueAppendType DEF ServerTypeOK
  <2> QED
    BY <1>4, <2>1, <2>2 DEF FlushNext, ServerTypeOK, data, wire, tab
<1>5. CASE FlushEnd
  BY <1>5 DEF FlushEnd, ServerTypeOK, data, wire, tab
<1>6. CASE Stamp
  <2>1. Head(queue) \in Payloads /\ Tail(queue) \in Seq(Payloads)
    BY <1>6, HeadTailProperties DEF Stamp, ServerTypeOK
  <2>2. seq' \in Nat
    BY <1>6 DEF Stamp, ServerTypeOK
  <2>3. jobs' \subseteq Jobs
    BY <1>6, <2>1, <2>2 DEF Stamp, ServerTypeOK, Payloads, Jobs
  <2> QED
    BY <1>6, <2>1, <2>2, <2>3 DEF Stamp, ServerTypeOK, data, wire, tab
<1> QED
  BY <1>1, <1>2, <1>3, <1>4, <1>5, <1>6

\* A numbered frame is made of what a broadcast holds.
LEMMA EventType ==
  ASSUME NEW j \in Jobs
  PROVE  Event(j) \in Frames
BY DEF Event, Jobs, Frames

\* One more frame is on the wire.
LEMMA DownAppendType ==
  ASSUME NEW d \in [Clients -> Wire], NEW c \in Clients,
         NEW f \in Frames \cup Replies
  PROVE  [d EXCEPT ![c] = Append(@, f)] \in [Clients -> Wire]
<1>1. Append(d[c], f) \in Wire
  BY AppendProperties DEF Wire
<1> QED
  BY <1>1

\* A job with one target less, sent or dead.
LEMMA JobLess ==
  ASSUME NEW j \in Jobs, NEW c \in Clients
  PROVE  /\ [j EXCEPT !.to = @ \ {c}] \in Jobs
         /\ [j EXCEPT !.to = @ \ {c}, !.dead = @ \cup {c}] \in Jobs
<1>1. j.to \in SUBSET Clients /\ j.dead \in SUBSET Clients
  BY DEF Jobs
<1>2. j.to \ {c} \in SUBSET Clients /\ j.dead \cup {c} \in SUBSET Clients
  BY <1>1
<1> QED
  BY <1>2 DEF Jobs

\* A send, done or failed, and the end of a broadcast.
LEMMA SendTypes ==
  ASSUME ServerTypeOK,
         NEW j \in jobs,
         \/ Finish(j)
         \/ \E c \in Clients : Deliver(j, c) \/ SendFails(j, c)
  PROVE  ServerTypeOK'
<1>1. j \in Jobs /\ j.by \in Actors /\ j.dead \in SUBSET Clients
  BY DEF ServerTypeOK, Jobs
<1>2. ASSUME NEW c \in Clients
      PROVE  [down EXCEPT ![c] = Append(@, Event(j))] \in [Clients -> Wire]
  BY <1>1, EventType, DownAppendType DEF ServerTypeOK, Wire
<1>3. ASSUME NEW c \in Clients, Deliver(j, c)
      PROVE  ServerTypeOK'
  <2>1. jobs' \subseteq Jobs
    <3>1. [j EXCEPT !.to = @ \ {c}] \in Jobs
      BY <1>1, JobLess
    <3>2. jobs' = (jobs \ {j}) \cup {[j EXCEPT !.to = @ \ {c}]}
      BY <1>3 DEF Deliver
    <3>3. jobs \subseteq Jobs
      BY DEF ServerTypeOK
    <3> QED
      BY <3>1, <3>2, <3>3
  <2>2. down' \in [Clients -> Wire]
    BY <1>2, <1>3 DEF Deliver
  <2> QED
    BY <1>3, <2>1, <2>2 DEF Deliver, ServerTypeOK, Wire, data, tab
<1>4. ASSUME NEW c \in Clients, SendFails(j, c)
      PROVE  ServerTypeOK'
  <2>1. jobs' \subseteq Jobs
    <3>1. [j EXCEPT !.to = @ \ {c}, !.dead = @ \cup {c}] \in Jobs
      BY <1>1, JobLess
    <3>2. jobs' = (jobs \ {j}) \cup {[j EXCEPT !.to = @ \ {c}, !.dead = @ \cup {c}]}
      BY <1>4 DEF SendFails
    <3>3. jobs \subseteq Jobs
      BY DEF ServerTypeOK
    <3> QED
      BY <3>1, <3>2, <3>3
  <2>2. down' \in [Clients -> Wire]
    BY <1>2, <1>4 DEF SendFails, ServerTypeOK, Wire
  <2> QED
    BY <1>4, <2>1, <2>2 DEF SendFails, ServerTypeOK, Wire, data, tab
<1>5. CASE Finish(j)
  <2>1. Hello("app") \in Payloads /\ Hello(j.by) \in Payloads
    BY <1>1, HelloType DEF Actors
  <2>2. Disowned(j.dead) \in Seq(Payloads)
    BY <1>1, DisownedType
  <2>3. \A p \in Payloads : <<p>> \in Seq(Payloads)
    OBVIOUS
  <2>4. PICK more \in Seq(Payloads) : queue' = Disowned(j.dead) \o more
    <3>1. <<>> \in Seq(Payloads)
      OBVIOUS
    <3> QED
      BY <1>5, <2>1, <2>3, <3>1 DEF Finish
  <2>5. queue' \in Seq(Payloads)
    BY <2>2, <2>4, ConcatProperties
  <2>6. link' \in [Clients -> {"none", "up", "cut"}]
    BY <1>5 DEF Finish, Closed, ServerTypeOK
  <2> QED
    BY <1>5, <2>5, <2>6 DEF Finish, ServerTypeOK, data, tab
<1> QED
  BY <1>3, <1>4, <1>5

\* A broadcast that times out.
LEMMA CancelTypes ==
  ASSUME ServerTypeOK, CancelWaiting \/ CancelSending
  PROVE  ServerTypeOK'
<1>1. CASE CancelWaiting
  <2>1. PICK i \in DOMAIN queue : TimesOut(queue[i]) /\ queue' = RemoveAt(queue, i)
    BY <1>1 DEF CancelWaiting
  <2>2. /\ queue \in Seq(Payloads) /\ Len(queue) \in Nat
        /\ i \in 1..Len(queue)
        /\ \A k \in 1..Len(queue) : queue[k] \in Payloads
    BY DEF ServerTypeOK
  <2>3. /\ \A k \in 1..(i - 1) : k \in 1..Len(queue)
        /\ \A k \in (i + 1)..Len(queue) : k \in 1..Len(queue)
    BY <2>2
  <2>4. SubSeq(queue, 1, i - 1) \in Seq(Payloads)
    BY <2>2, <2>3, SubSeqProperties
  <2>5. SubSeq(queue, i + 1, Len(queue)) \in Seq(Payloads)
    BY <2>2, <2>3, SubSeqProperties
  <2>6. queue' \in Seq(Payloads)
    BY <2>1, <2>4, <2>5, ConcatProperties DEF RemoveAt
  <2> QED
    BY <1>1, <2>1, <2>6 DEF CancelWaiting, TimesOut, ServerTypeOK, data, wire, tab
<1>2. CASE CancelSending
  BY <1>2 DEF CancelSending, TimesOut, ServerTypeOK, data, wire, tab
<1> QED
  BY <1>1, <1>2

\* Whoever connects, asks, leaves; a restart.
LEMMA ConnectionTypes ==
  ASSUME ServerTypeOK,
         \/ \E c \in Clients : Accept(c) \/ AnswerSync(c) \/ Lose(c)
         \/ Restart
  PROVE  ServerTypeOK'
<1>1. ASSUME NEW c \in Clients, Accept(c)
      PROVE  ServerTypeOK'
  <2>1. Hello(c) \in Payloads
    BY HelloType DEF Actors
  <2>2. queue' \in Seq(Payloads)
    BY <1>1, <2>1, QueueAppendType DEF Accept, ServerTypeOK
  <2> QED
    BY <1>1, <2>2 DEF Accept, ServerTypeOK, data
<1>2. ASSUME NEW c \in Clients, AnswerSync(c)
      PROVE  ServerTypeOK'
  <2>1. [kind |-> "sync", ok |-> CaughtUp(up[c]), cur |-> seq] \in Replies
    BY DEF CaughtUp, Replies, ServerTypeOK
  <2>2. down' \in [Clients -> Wire]
    BY <1>2, <2>1, DownAppendType DEF AnswerSync, ServerTypeOK, Wire
  <2> QED
    BY <1>2, <2>2 DEF AnswerSync, ServerTypeOK, Wire, data, server, tab
<1>3. ASSUME NEW c \in Clients, Lose(c)
      PROVE  ServerTypeOK'
  <2>1. Hello("app") \in Payloads
    BY HelloType DEF Actors
  <2>2. queue' \in Seq(Payloads)
    BY <1>3, <2>1, DisownedType, QueueAppendType DEF Lose
  <2>3. jobs' \subseteq Jobs
    <3>1. ASSUME NEW j \in jobs
          PROVE  [j EXCEPT !.to = @ \ {c}, !.dead = @ \ {c},
                           !.by = IF @ = c THEN "app" ELSE @] \in Jobs
      <4>1. j \in Jobs
        BY DEF ServerTypeOK
      <4>2. j.to \ {c} \in SUBSET Clients /\ j.dead \ {c} \in SUBSET Clients
        BY <4>1 DEF Jobs
      <4>3. (IF j.by = c THEN "app" ELSE j.by) \in Actors
        BY <4>1 DEF Jobs, Actors
      <4> QED
        BY <4>1, <4>2, <4>3 DEF Jobs
    <3> QED
      BY <1>3, <3>1 DEF Lose
  <2> QED
    BY <1>3, <2>2, <2>3 DEF Lose, ServerTypeOK, data, tab
<1>4. CASE Restart
  BY <1>4 DEF Restart, Closed, ServerTypeOK, data, tab
<1> QED
  BY <1>1, <1>2, <1>3, <1>4

\* What a tab does leaves the server its types.
LEMMA TabTypes ==
  ASSUME ServerTypeOK,
         \/ \E c \in Clients : \/ Opened(c) \/ ReceiveEvent(c) \/ ReceiveSync(c)
                               \/ SeesClose(c)
         \/ \E c \in Clients, s \in Sources : FetchRead(c, s) \/ FetchEnd(c, s)
  PROVE  ServerTypeOK'
<1>1. ASSUME NEW c \in Clients, Opened(c)
      PROVE  ServerTypeOK'
  BY <1>1 DEF Opened, ServerTypeOK, data, server, wire
<1>2. ASSUME NEW c \in Clients, down[c] # <<>>
      PROVE  /\ Head(down[c]) \in Frames \cup Replies
             /\ [down EXCEPT ![c] = Tail(@)] \in [Clients -> Wire]
  <2>1. down[c] \in Wire
    BY DEF ServerTypeOK, Wire
  <2>2. Head(down[c]) \in Frames \cup Replies /\ Tail(down[c]) \in Wire
    BY <1>2, <2>1, HeadTailProperties DEF Wire
  <2> QED
    BY <2>2 DEF ServerTypeOK, Wire
<1>3. ASSUME NEW c \in Clients, ReceiveEvent(c)
      PROVE  ServerTypeOK'
  <2>1. down' \in [Clients -> Wire]
    BY <1>2, <1>3 DEF ReceiveEvent
  <2>2. Head(down[c]).seq \in Nat
    <3>1. Head(down[c]) \in Frames \cup Replies /\ Head(down[c]).kind = "event"
      BY <1>2, <1>3 DEF ReceiveEvent
    <3> QED
      BY <3>1 DEF Frames, Replies
  <2>3. last' \in [Clients -> Nat]
    BY <1>3, <2>2 DEF ReceiveEvent, ServerTypeOK
  <2> QED
    BY <1>3, <2>1, <2>3 DEF ReceiveEvent, ServerTypeOK, Wire, data, server
<1>4. ASSUME NEW c \in Clients, ReceiveSync(c)
      PROVE  ServerTypeOK'
  <2>1. down' \in [Clients -> Wire]
    BY <1>2, <1>4 DEF ReceiveSync
  <2> QED
    BY <1>4, <2>1 DEF ReceiveSync, ServerTypeOK, Wire, data, server
<1>5. ASSUME NEW c \in Clients, SeesClose(c)
      PROVE  ServerTypeOK'
  <2>1. <<>> \in Wire
    BY DEF Wire
  <2> QED
    BY <1>5, <2>1 DEF SeesClose, ServerTypeOK, Wire, data, server
<1>6. ASSUME NEW c \in Clients, NEW s \in Sources, FetchRead(c, s)
      PROVE  ServerTypeOK'
  BY <1>6 DEF FetchRead, ServerTypeOK, data, server, wire
<1>7. ASSUME NEW c \in Clients, NEW s \in Sources, FetchEnd(c, s)
      PROVE  ServerTypeOK'
  BY <1>7 DEF FetchEnd, ServerTypeOK, data, server, wire
<1> QED
  BY <1>1, <1>3, <1>4, <1>5, <1>6, <1>7

\* Every step keeps the types.
LEMMA TypeStep ==
  ASSUME ServerTypeOK, [Next]_vars
  PROVE  ServerTypeOK'
<1>1. CASE UNCHANGED vars
  BY <1>1 DEF vars, ServerTypeOK, data, server, wire, tab
<1>2. CASE Broadcasting
  BY <1>2, BroadcastTypes, SendTypes DEF Broadcasting
<1>3. CASE Connecting
  BY <1>3, ConnectionTypes, TabTypes DEF Connecting
<1>4. CASE Resyncing
  BY <1>4, TabTypes DEF Resyncing
<1>5. CASE Environment
  BY <1>5, BroadcastTypes, SendTypes, CancelTypes, ConnectionTypes DEF Environment
<1> QED
  BY <1>1, <1>2, <1>3, <1>4, <1>5 DEF Next, System

--------------------------------------------------------------------------------
(* One broadcast at a time, and none newer than seq *)

\* Every step keeps the lock exclusive and its number the newest.
LEMMA SendingStep ==
  ASSUME IInv, [Next]_vars
  PROVE  SendingOk'
<1>0. /\ seq \in Nat /\ \A j \in jobs : j \in Jobs /\ j.seq \in Nat
      /\ \A j, k \in jobs : j = k
      /\ \A j \in jobs : j.seq <= seq
  BY DEF IInv, ServerTypeOK, Jobs, SendingOk
<1>1. CASE seq' = seq /\ jobs' \subseteq jobs
  BY <1>0, <1>1 DEF SendingOk
<1>2. CASE Stamp
  <2>1. seq' = seq + 1 /\ \A j \in jobs' : j.seq = seq'
    BY <1>2 DEF Stamp, LockFree
  <2>2. \A j, k \in jobs' : j = k
    BY <1>2 DEF Stamp, LockFree
  <2> QED
    BY <1>0, <2>1, <2>2 DEF SendingOk
<1>3. ASSUME NEW j \in jobs, NEW c \in Clients, Deliver(j, c) \/ SendFails(j, c)
      PROVE  SendingOk'
  <2>1. PICK k : jobs' = (jobs \ {j}) \cup {k} /\ k.seq = j.seq /\ seq' = seq
    <3>1. j \in Jobs
      BY <1>0
    <3>2. /\ [j EXCEPT !.to = @ \ {c}].seq = j.seq
          /\ [j EXCEPT !.to = @ \ {c}, !.dead = @ \cup {c}].seq = j.seq
      BY <3>1 DEF Jobs
    <3> QED
      BY <1>3, <3>2 DEF Deliver, SendFails
  <2>2. jobs' = {k}
    BY <1>0, <2>1
  <2> QED
    BY <1>0, <2>1, <2>2 DEF SendingOk
<1>4. ASSUME NEW c \in Clients, Lose(c)
      PROVE  SendingOk'
  <2>1. ASSUME NEW j \in jobs
        PROVE  [j EXCEPT !.to = @ \ {c}, !.dead = @ \ {c},
                         !.by = IF @ = c THEN "app" ELSE @].seq = j.seq
    BY <1>0 DEF Jobs
  <2>2. \A k \in jobs' : \E j \in jobs : k.seq = j.seq
    BY <1>4, <2>1 DEF Lose
  <2>3. \A k, l \in jobs' : k = l
    BY <1>0, <1>4 DEF Lose
  <2>4. seq' = seq
    BY <1>4 DEF Lose
  <2> QED
    BY <1>0, <2>2, <2>3, <2>4 DEF SendingOk
<1>5. CASE Restart
  BY <1>5 DEF Restart, SendingOk
<1>6. CASE UNCHANGED vars
  BY <1>1, <1>6 DEF vars, server
<1>7. CASE Broadcasting
  <2>1. CASE FlushTake \/ FlushNext \/ FlushEnd
    BY <1>1, <2>1 DEF FlushTake, FlushNext, FlushEnd
  <2>2. ASSUME NEW j \in jobs, Finish(j)
        PROVE  SendingOk'
    BY <1>1, <2>2 DEF Finish
  <2> QED
    BY <1>2, <1>3, <1>7, <2>1, <2>2 DEF Broadcasting
<1>8. CASE Connecting
  BY <1>1, <1>8 DEF Connecting, Accept, AnswerSync, Opened, ReceiveEvent,
                    ReceiveSync, SeesClose, server
<1>9. CASE Resyncing
  BY <1>1, <1>9 DEF Resyncing, FetchRead, FetchEnd, server
<1>10. CASE Environment
  <2>1. CASE \E k \in Keys : Change(k) \/ ChangeCoalesced(k)
    BY <1>1, <2>1 DEF Change, ChangeCoalesced
  <2>2. CASE CancelWaiting \/ CancelSending
    BY <1>1, <2>2 DEF CancelWaiting, CancelSending, TimesOut
  <2> QED
    BY <1>3, <1>4, <1>5, <1>10, <2>1, <2>2 DEF Environment
<1> QED
  BY <1>6, <1>7, <1>8, <1>9, <1>10 DEF Next, System

--------------------------------------------------------------------------------
(* One tab: what it got, what is on its way, and what will be sent to it *)

\* What the types say of one tab.
LEMMA TabFacts ==
  ASSUME ServerTypeOK, NEW c \in Clients
  PROVE  /\ seq \in Nat /\ last[c] \in Nat /\ down[c] \in Wire
         /\ \A j \in jobs : j \in Jobs /\ j.seq \in Nat /\ j.to \subseteq Clients
BY DEF ServerTypeOK, Jobs, Wire

\* What is older than m is older than every later number.
LEMMA UnderMore ==
  ASSUME NEW s \in Wire, NEW m \in Nat, NEW n \in Nat, m <= n, Under(s, m)
  PROVE  Under(s, n)
<1> SUFFICES ASSUME NEW i \in DOMAIN s, s[i].kind = "event"
             PROVE  s[i].seq < n
  BY DEF Under
<1>1. s[i].seq \in Nat /\ s[i].seq < m
  BY Numbered DEF Under
<1> QED
  BY <1>1

\* The next number keeps the order.
LEMMA Successors ==
  ASSUME NEW m \in Nat, NEW n \in Nat, m <= n
  PROVE  m + 1 \in Nat /\ n + 1 \in Nat /\ m + 1 <= n + 1 /\ n <= n + 1
OBVIOUS

\* Nothing comes to the tab, and it is a target of nothing new.
LEMMA TabFrame ==
  ASSUME ServerTypeOK, ServerTypeOK', NEW c \in Clients, TabOk(c),
         down'[c] = down[c], last'[c] = last[c],
         c \in member' => c \in member /\ link'[c] = link[c] /\ seq <= seq',
         link'[c] = "none" => link[c] = "none",
         \A j \in jobs' : c \in j.to =>
           c \in member' /\ \E k \in jobs : k.seq = j.seq /\ c \in k.to
  PROVE  TabOk(c)'
<1>1. /\ seq \in Nat /\ seq' \in Nat /\ last[c] \in Nat /\ down[c] \in Wire
  BY TabFacts DEF ServerTypeOK
<1>2. c \in member' => last'[c] < seq' + 1 /\ Under(down'[c], seq' + 1)
  <2> HAVE c \in member'
  <2>1. /\ c \in member /\ seq <= seq'
        /\ last[c] < seq + 1 /\ Under(down[c], seq + 1)
    BY DEF TabOk
  <2>2. seq + 1 \in Nat /\ seq' + 1 \in Nat /\ seq + 1 <= seq' + 1
    BY <1>1, <2>1, Successors
  <2>3. Under(down[c], seq' + 1)
    BY <1>1, <2>1, <2>2, UnderMore
  <2> QED
    BY <1>1, <2>1, <2>3
<1>3. \A j \in jobs' : c \in j.to => Behind(c, j)'
  <2> TAKE j \in jobs'
  <2> HAVE c \in j.to
  <2>1. PICK k \in jobs : k.seq = j.seq /\ c \in k.to
    OBVIOUS
  <2>2. c \in member' /\ Behind(c, k)
    BY <2>1 DEF TabOk
  <2> QED
    BY <2>1, <2>2 DEF Behind
<1> QED
  BY <1>2, <1>3 DEF TabOk

\* A tab that is not in the list: nothing is sent to it.
LEMMA NoTarget ==
  ASSUME NEW c \in Clients, TabOk(c), link[c] # "up"
  PROVE  c \notin member /\ \A j \in jobs : c \notin j.to
BY DEF TabOk, Behind

\* A broadcast that takes its number has targets that are all behind it.
LEMMA StampTab ==
  ASSUME IInv, ServerTypeOK', Stamp, NEW c \in Clients
  PROVE  TabOk(c)'
<1>1. TabOk(c) /\ ServerTypeOK
  BY DEF IInv
<1>2. /\ seq \in Nat /\ seq' = seq + 1
      /\ last[c] \in Nat /\ down[c] \in Wire
      /\ last'[c] = last[c] /\ down'[c] = down[c]
      /\ link'[c] = link[c] /\ member' = member
  BY <1>1, TabFacts DEF Stamp, wire, tab
<1>3. \A j \in jobs' : j.seq = seq + 1 /\ j.to = member
  BY DEF Stamp, LockFree
<1>4. c \in member => /\ last[c] < seq + 1 /\ Under(down[c], seq + 1)
                      /\ last[c] < seq' + 1 /\ Under(down[c], seq' + 1)
  <2>1. seq + 1 \in Nat /\ seq' + 1 \in Nat /\ seq + 1 <= seq' + 1
    <3>1. seq \in Nat /\ seq' \in Nat /\ seq <= seq'
      BY <1>2, Successors
    <3> QED
      BY <3>1, Successors
  <2> QED
    BY <1>1, <1>2, <2>1, UnderMore DEF TabOk
<1>5. \A j \in jobs' : c \in j.to => Behind(c, j)'
  BY <1>2, <1>3, <1>4 DEF Behind
<1> QED
  BY <1>1, <1>2, <1>4, <1>5 DEF TabOk

\* A frame comes to its target, and the job has no other.
LEMMA SendTab ==
  ASSUME IInv, ServerTypeOK', NEW j \in jobs, NEW d \in Clients,
         Deliver(j, d) \/ SendFails(j, d), NEW c \in Clients
  PROVE  TabOk(c)'
<1>1. /\ TabOk(c) /\ TabOk(d) /\ ServerTypeOK
      /\ \A k \in jobs : k = j
      /\ j \in Jobs /\ j.seq \in Nat /\ j.seq <= seq /\ d \in j.to
  BY TabFacts DEF IInv, SendingOk, Deliver, SendFails
<1>2. /\ seq' = seq /\ last' = last /\ link' = link /\ member' = member
      /\ down' \in {down, [down EXCEPT ![d] = Append(@, Event(j))]}
  BY DEF Deliver, SendFails, tab
<1>3. PICK k : jobs' = {k} /\ k.seq = j.seq /\ k.to = j.to \ {d}
  <2>1. /\ [j EXCEPT !.to = @ \ {d}].seq = j.seq
        /\ [j EXCEPT !.to = @ \ {d}].to = j.to \ {d}
        /\ [j EXCEPT !.to = @ \ {d}, !.dead = @ \cup {d}].seq = j.seq
        /\ [j EXCEPT !.to = @ \ {d}, !.dead = @ \cup {d}].to = j.to \ {d}
    BY <1>1 DEF Jobs
  <2>2. jobs' = {[j EXCEPT !.to = @ \ {d}]}
        \/ jobs' = {[j EXCEPT !.to = @ \ {d}, !.dead = @ \cup {d}]}
    BY <1>1 DEF Deliver, SendFails
  <2> QED
    BY <2>1, <2>2
<1>4. CASE down'[c] = down[c]
  <2>1. \A i \in jobs' : c \in i.to =>
          c \in member' /\ \E l \in jobs : l.seq = i.seq /\ c \in l.to
    BY <1>1, <1>2, <1>3 DEF TabOk, Behind
  <2> QED
    BY <1>1, <1>2, <1>4, <2>1, TabFrame, TabFacts
<1>5. CASE c = d /\ down'[c] = Append(down[c], Event(j))
  <2>1. /\ last[c] \in Nat /\ down[c] \in Wire /\ seq \in Nat
        /\ Event(j) \in Frames /\ Event(j).seq = j.seq
    BY <1>1, TabFacts, EventType DEF Event
  <2>2. /\ c \in member /\ link[c] = "up"
        /\ last[c] < j.seq /\ Under(down[c], j.seq)
        /\ Ordered(down[c], last[c])
    BY <1>1, <1>5 DEF TabOk, Behind
  <2>3. /\ Ordered(down'[c], last[c])
        /\ \A n \in Nat : j.seq < n => Under(down'[c], n)
    BY <1>5, <2>1, <2>2, OrderedAppend
  <2>4. last[c] < seq + 1 /\ Under(down'[c], seq + 1)
    <3>1. seq + 1 \in Nat /\ j.seq < seq + 1
      BY <1>1, <2>1
    <3> QED
      BY <1>1, <2>1, <2>2, <2>3, <3>1
  <2>5. \A i \in jobs' : c \notin i.to
    BY <1>3, <1>5
  <2> QED
    BY <1>2, <2>2, <2>3, <2>4, <2>5 DEF TabOk
<1> QED
  <2>1. down'[c] = down[c] \/ (c = d /\ down'[c] = Append(down[c], Event(j)))
    BY <1>1, <1>2 DEF ServerTypeOK
  <2> QED
    BY <1>4, <1>5, <2>1

\* A member that stays one, and jobs that lose targets, change nothing for c.
LEMMA ServerTab ==
  ASSUME IInv, ServerTypeOK',
         \/ \E k \in Keys : Change(k) \/ ChangeCoalesced(k)
         \/ FlushTake \/ FlushNext \/ FlushEnd
         \/ CancelWaiting \/ CancelSending
         \/ \E j \in jobs : Finish(j)
         \/ \E d \in Clients : Lose(d)
         \/ Restart,
         NEW c \in Clients
  PROVE  TabOk(c)'
<1>1. /\ TabOk(c) /\ ServerTypeOK /\ seq \in Nat
      /\ \A j \in jobs : j \in Jobs
      /\ \A j, k \in jobs : j = k
  BY TabFacts DEF IInv, SendingOk
<1>2. CASE /\ down' = down /\ last' = last /\ link' = link
           /\ member' = member /\ seq' = seq /\ jobs' \subseteq jobs
  <2>1. \A j \in jobs' : c \in j.to =>
          c \in member' /\ \E k \in jobs : k.seq = j.seq /\ c \in k.to
    BY <1>1, <1>2 DEF TabOk, Behind
  <2> QED
    BY <1>1, <1>2, <2>1, TabFrame
<1>3. CASE \E k \in Keys : Change(k) \/ ChangeCoalesced(k)
  BY <1>2, <1>3 DEF Change, ChangeCoalesced, wire, tab
<1>4. CASE FlushTake \/ FlushNext \/ FlushEnd
  BY <1>2, <1>4 DEF FlushTake, FlushNext, FlushEnd, wire, tab
<1>5. CASE CancelWaiting \/ CancelSending
  BY <1>2, <1>5 DEF CancelWaiting, CancelSending, TimesOut, wire, tab
<1>6. ASSUME NEW j \in jobs, Finish(j)
      PROVE  TabOk(c)'
  <2>1. /\ down' = down /\ last' = last /\ seq' = seq /\ jobs' = {}
        /\ member' = member \ j.dead /\ link' = Closed(j.dead)
    BY <1>1, <1>6 DEF Finish, tab
  <2>2. link'[c] = "none" => link[c] = "none"
    BY <2>1 DEF Closed
  <2>3. c \in member' => c \in member /\ link'[c] = link[c]
    BY <1>1, <2>1 DEF Closed, ServerTypeOK
  <2> QED
    BY <1>1, <2>1, <2>2, <2>3, TabFrame
<1>7. ASSUME NEW d \in Clients, Lose(d)
      PROVE  TabOk(c)'
  <2>1. /\ down' = down /\ last' = last /\ seq' = seq
        /\ member' = member \ {d} /\ link' = [link EXCEPT ![d] = "cut"]
    BY <1>7 DEF Lose, tab
  <2>2. \A j \in jobs' : \E k \in jobs : j.seq = k.seq /\ j.to = k.to \ {d}
    <3>1. ASSUME NEW k \in jobs
          PROVE  LET l == [k EXCEPT !.to = @ \ {d}, !.dead = @ \ {d},
                                    !.by = IF @ = d THEN "app" ELSE @]
                 IN  l.seq = k.seq /\ l.to = k.to \ {d}
      BY <1>1 DEF Jobs
    <3> QED
      BY <1>7, <3>1 DEF Lose
  <2>3. \A j \in jobs' : c \in j.to =>
          c \in member' /\ \E k \in jobs : k.seq = j.seq /\ c \in k.to
    BY <1>1, <2>1, <2>2 DEF TabOk, Behind
  <2>4. /\ c \in member' => c \in member /\ link'[c] = link[c]
        /\ link'[c] = "none" => link[c] = "none"
    BY <1>1, <2>1 DEF ServerTypeOK
  <2> QED
    BY <1>1, <2>1, <2>3, <2>4, TabFrame
<1>8. CASE Restart
  <2>1. /\ down' = down /\ last' = last /\ member' = {} /\ jobs' = {}
        /\ link' = Closed(Clients)
    BY <1>8 DEF Restart, tab
  <2>2. link'[c] = "none" => link[c] = "none"
    BY <2>1 DEF Closed
  <2> QED
    BY <1>1, <2>1, <2>2, TabFrame
<1> QED
  BY <1>3, <1>4, <1>5, <1>6, <1>7, <1>8

\* Steps of a tab's own connection: d connects, is answered, receives, closes.
LEMMA ConnectionTab ==
  ASSUME IInv, ServerTypeOK', NEW d \in Clients,
         Accept(d) \/ AnswerSync(d) \/ Opened(d) \/ ReceiveEvent(d)
           \/ ReceiveSync(d) \/ SeesClose(d),
         NEW c \in Clients
  PROVE  TabOk(c)'
<1>1. /\ TabOk(c) /\ TabOk(d) /\ ServerTypeOK
      /\ seq \in Nat /\ last[c] \in Nat /\ down[c] \in Wire
      /\ \A j \in jobs : j.seq \in Nat
  BY TabFacts DEF IInv
<1>2. seq' = seq /\ jobs' = jobs
  BY DEF Accept, AnswerSync, Opened, ReceiveEvent, ReceiveSync, SeesClose, server
<1>3. CASE /\ down'[c] = down[c] /\ last'[c] = last[c] /\ link'[c] = link[c]
           /\ c \in member' <=> c \in member
  <2>1. \A j \in jobs' : c \in j.to =>
          c \in member' /\ \E k \in jobs : k.seq = j.seq /\ c \in k.to
    BY <1>1, <1>2, <1>3 DEF TabOk, Behind
  <2> QED
    BY <1>1, <1>2, <1>3, <2>1, TabFrame
<1>4. CASE c # d
  <2>1. /\ down'[c] = down[c] /\ last'[c] = last[c] /\ link'[c] = link[c]
        /\ c \in member' <=> c \in member
    <3>1. CASE Accept(d)
      BY <1>1, <1>4, <3>1 DEF Accept, ServerTypeOK
    <3>2. CASE AnswerSync(d)
      BY <1>1, <1>4, <3>2 DEF AnswerSync, server, tab, ServerTypeOK
    <3>3. CASE Opened(d)
      BY <3>3 DEF Opened, server, wire
    <3>4. CASE ReceiveEvent(d)
      BY <1>1, <1>4, <3>4 DEF ReceiveEvent, server, ServerTypeOK
    <3>5. CASE ReceiveSync(d)
      BY <1>1, <1>4, <3>5 DEF ReceiveSync, server, ServerTypeOK
    <3>6. CASE SeesClose(d)
      BY <1>1, <1>4, <3>6 DEF SeesClose, server, ServerTypeOK
    <3> QED
      BY <3>1, <3>2, <3>3, <3>4, <3>5, <3>6
  <2> QED
    BY <1>3, <2>1
<1>5. CASE c = d /\ Accept(c)
  <2>1. /\ link'[c] = "up" /\ c \in member'
        /\ last'[c] = 0 /\ down'[c] = <<>>
    BY <1>1, <1>5 DEF Accept, ServerTypeOK, TabOk
  <2>2. \A j \in jobs' : c \notin j.to
    BY <1>1, <1>2, <1>5, NoTarget DEF Accept
  <2>3. seq' + 1 \in Nat /\ 0 < seq' + 1
    BY <1>1, <1>2
  <2>4. Ordered(<<>>, 0) /\ Under(<<>>, seq' + 1)
    BY <2>3, OrderedEmpty
  <2> QED
    BY <2>1, <2>2, <2>3, <2>4 DEF TabOk
<1>6. CASE c = d /\ AnswerSync(c)
  <2>1. PICK r \in Replies : down'[c] = Append(down[c], r)
    <3>1. [kind |-> "sync", ok |-> CaughtUp(up[c]), cur |-> seq] \in Replies
      BY <1>1 DEF CaughtUp, Replies
    <3>2. down'[c] = Append(down[c], [kind |-> "sync", ok |-> CaughtUp(up[c]),
                                      cur |-> seq])
      BY <1>1, <1>6 DEF AnswerSync, ServerTypeOK
    <3> QED
      BY <3>1, <3>2
  <2>2. /\ link'[c] = "up" /\ link[c] = "up" /\ member' = member /\ last' = last
    BY <1>6 DEF AnswerSync, server, tab
  <2>3. /\ Ordered(down'[c], last[c])
        /\ \A n \in Nat : Under(down[c], n) => Under(down'[c], n)
    BY <1>1, <2>1, OrderedReply DEF TabOk
  <2>4. c \in member' => last'[c] < seq' + 1 /\ Under(down'[c], seq' + 1)
    <3>1. seq + 1 \in Nat
      BY <1>1
    <3> QED
      BY <1>1, <1>2, <2>2, <2>3, <3>1 DEF TabOk
  <2>5. \A j \in jobs' : c \in j.to => Behind(c, j)'
    BY <1>1, <1>2, <2>2, <2>3 DEF TabOk, Behind
  <2> QED
    BY <2>2, <2>3, <2>4, <2>5 DEF TabOk
<1>7. CASE c = d /\ Opened(c)
  BY <1>3, <1>7 DEF Opened, server, wire
<1>8. CASE c = d /\ (ReceiveEvent(c) \/ ReceiveSync(c))
  <2>1. /\ down[c] # <<>> /\ down'[c] = Tail(down[c])
        /\ link' = link /\ member' = member
    BY <1>1, <1>8 DEF ReceiveEvent, ReceiveSync, server, ServerTypeOK
  <2>2. \/ Head(down[c]).kind = "event" /\ last'[c] = Head(down[c]).seq
        \/ last'[c] = last[c]
    BY <1>1, <1>8 DEF ReceiveEvent, ReceiveSync, ServerTypeOK
  <2>3. Ordered(down'[c], last'[c])
    BY <1>1, <2>1, <2>2, OrderedTail DEF TabOk
  <2>4. /\ \A n \in Nat : Under(down[c], n) => Under(down'[c], n)
        /\ \A n \in Nat : Under(down[c], n) /\ last[c] < n => last'[c] < n
    BY <1>1, <2>1, <2>2, OrderedTail DEF TabOk
  <2>5. c \in member' => last'[c] < seq' + 1 /\ Under(down'[c], seq' + 1)
    <3>1. seq + 1 \in Nat
      BY <1>1
    <3> QED
      BY <1>1, <1>2, <2>1, <2>4, <3>1 DEF TabOk
  <2>6. \A j \in jobs' : c \in j.to => Behind(c, j)'
    BY <1>1, <1>2, <2>1, <2>4 DEF TabOk, Behind
  <2>7. /\ c \in member' => link'[c] = "up"
        /\ link'[c] = "none" => down'[c] = <<>>
    BY <1>1, <2>1 DEF TabOk
  <2> QED
    BY <2>3, <2>5, <2>6, <2>7 DEF TabOk
<1>9. CASE c = d /\ SeesClose(c)
  <2>1. /\ link'[c] = "none" /\ down'[c] = <<>>
        /\ member' = member /\ last'[c] = last[c]
    BY <1>1, <1>9 DEF SeesClose, server, ServerTypeOK
  <2>2. c \notin member /\ \A j \in jobs : c \notin j.to
    BY <1>1, <1>9, NoTarget DEF SeesClose
  <2>3. Ordered(<<>>, last[c])
    BY <1>1, OrderedEmpty
  <2> QED
    BY <1>2, <2>1, <2>2, <2>3 DEF TabOk
<1> QED
  BY <1>4, <1>5, <1>6, <1>7, <1>8, <1>9

\* Every step keeps TabOk.
LEMMA TabStep ==
  ASSUME IInv, ServerTypeOK', [Next]_vars, NEW c \in Clients
  PROVE  TabOk(c)'
<1>1. ASSUME UNCHANGED <<seq, jobs, member, link, down, last>>
      PROVE  TabOk(c)'
  BY <1>1 DEF IInv, TabOk, Behind
<1>2. CASE UNCHANGED vars
  BY <1>1, <1>2 DEF vars, server, wire, tab
<1>3. CASE Broadcasting
  BY <1>3, ServerTab, StampTab, SendTab DEF Broadcasting
<1>4. CASE Connecting
  BY <1>4, ConnectionTab DEF Connecting
<1>5. CASE Resyncing
  BY <1>1, <1>5 DEF Resyncing, FetchRead, FetchEnd, server, wire
<1>6. CASE Environment
  BY <1>6, ServerTab, SendTab DEF Environment
<1> QED
  BY <1>2, <1>3, <1>4, <1>5, <1>6 DEF Next, System

--------------------------------------------------------------------------------

\* IInv holds when the server starts.
LEMMA Starts == Init => IInv
<1> SUFFICES ASSUME Init PROVE IInv
  OBVIOUS
<1>1. ServerTypeOK
  BY DEF Init, ServerTypeOK
<1>2. SendingOk
  BY DEF Init, SendingOk
<1>3. ASSUME NEW c \in Clients
      PROVE  TabOk(c)
  <2>1. /\ c \notin member /\ jobs = {}
        /\ down[c] = <<>> /\ last[c] = 0
    BY DEF Init
  <2>2. Ordered(<<>>, 0)
    BY OrderedEmpty
  <2> QED
    BY <2>1, <2>2 DEF TabOk
<1> QED
  BY <1>1, <1>2, <1>3 DEF IInv

\* Every step keeps IInv.
LEMMA Steps == IInv /\ [Next]_vars => IInv'
<1> SUFFICES ASSUME IInv, [Next]_vars PROVE IInv'
  OBVIOUS
<1>1. ServerTypeOK'
  BY TypeStep DEF IInv
<1> QED
  BY <1>1, SendingStep, TabStep DEF IInv

\* IInv is an invariant.
THEOREM Inductive == Spec => []IInv
BY Starts, Steps, PTL DEF Spec

\* Frames of one connection arrive in the order of their numbers, each once,
\* whatever breaks: one broadcast at a time holds _websocket_broadcast_lock from
\* its number to its last send.
THEOREM FramesInOrder == Spec => []FrameOrder
<1>1. IInv => FrameOrder
  BY DEF IInv, TabOk, FrameOrder
<1> QED
  BY <1>1, Inductive, PTL

\* What the server holds of its broadcasts keeps its type, and the lock its
\* owner: two broadcasts never send at once, and none has a number still to be
\* given (websocket_broadcast takes the number under the lock).
THEOREM OneBroadcastAtATime == Spec => [](ServerTypeOK /\ SendingOk)
<1>1. IInv => ServerTypeOK /\ SendingOk
  BY DEF IInv
<1> QED
  BY <1>1, Inductive, PTL

--------------------------------------------------------------------------------
(* What later frames of a sequence make up for *)

\* Every member of A in s is in B, or comes before a member of B.
Covered(s, A, B) == \A i \in DOMAIN s : s[i] \in A =>
                      \E n \in DOMAIN s : i <= n /\ s[n] \in B
Has(s, B)  == \E i \in DOMAIN s : s[i] \in B
Once(s, B) == \A i, n \in DOMAIN s : s[i] \in B /\ s[n] \in B => i = n

\* What an appended member makes up for, and what it may spoil.
LEMMA AppendFacts ==
  ASSUME NEW T, NEW s \in Seq(T), NEW e \in T, NEW A, NEW B
  PROVE  /\ e \in B => Covered(Append(s, e), A, B) /\ Has(Append(s, e), B)
         /\ e \notin A /\ Covered(s, A, B) => Covered(Append(s, e), A, B)
         /\ Has(s, B) => Has(Append(s, e), B)
         /\ e \notin B => (Has(Append(s, e), B) <=> Has(s, B))
         /\ Once(s, B) /\ (e \in B => ~Has(s, B)) => Once(Append(s, e), B)
<1> DEFINE t == Append(s, e)
<1>1. /\ DOMAIN s = 1..Len(s) /\ Len(s) \in Nat
      /\ DOMAIN t = 1..(Len(s) + 1)
      /\ \A i \in 1..Len(s) : t[i] = s[i]
      /\ t[Len(s) + 1] = e
  BY AppendProperties
<1>2. /\ \A i \in DOMAIN t : i = Len(s) + 1 \/ (i \in DOMAIN s /\ t[i] = s[i])
      /\ \A i \in DOMAIN t : i <= Len(s) + 1
      /\ \A i \in DOMAIN s : i \in DOMAIN t /\ t[i] = s[i]
      /\ Len(s) + 1 \in DOMAIN t
  BY <1>1
<1> HIDE DEF t
<1>3. e \in B => Covered(t, A, B) /\ Has(t, B)
  BY <1>1, <1>2 DEF Covered, Has
<1>4. e \notin A /\ Covered(s, A, B) => Covered(t, A, B)
  BY <1>1, <1>2 DEF Covered
<1>5. Has(s, B) => Has(t, B)
  BY <1>2 DEF Has
<1>6. e \notin B => (Has(t, B) <=> Has(s, B))
  BY <1>1, <1>2 DEF Has
<1>7. Once(s, B) /\ (e \in B => ~Has(s, B)) => Once(t, B)
  BY <1>1, <1>2 DEF Has, Once
<1> QED
  BY <1>3, <1>4, <1>5, <1>6, <1>7 DEF t

\* What taking the first member leaves.
LEMMA TailFacts ==
  ASSUME NEW T, NEW s \in Seq(T), s # <<>>, NEW A, NEW B
  PROVE  /\ Head(s) \in T
         /\ Covered(s, A, B) => Covered(Tail(s), A, B)
         /\ Covered(s, A, B) /\ Head(s) \in A /\ Head(s) \notin B => Has(Tail(s), B)
         /\ Head(s) \notin B => (Has(Tail(s), B) <=> Has(s, B))
         /\ Has(Tail(s), B) => Has(s, B)
         /\ Once(s, B) => Once(Tail(s), B)
         /\ Once(s, B) /\ Head(s) \in B => ~Has(Tail(s), B)
         /\ Head(s) \in B => Has(s, B)
<1> DEFINE t == Tail(s)
<1>1. /\ Len(s) \in Nat /\ Len(s) > 0
      /\ DOMAIN s = 1..Len(s)
      /\ DOMAIN t = 1..(Len(s) - 1)
      /\ \A i \in DOMAIN t : t[i] = s[i + 1]
      /\ Head(s) = s[1] /\ 1 \in DOMAIN s /\ Head(s) \in T
  BY HeadTailProperties, EmptySeq
<1>2. /\ \A i \in DOMAIN t : i \in Nat /\ i + 1 \in DOMAIN s /\ t[i] = s[i + 1]
      /\ \A i \in DOMAIN s : i # 1 => i - 1 \in DOMAIN t /\ t[i - 1] = s[i]
      /\ \A i \in DOMAIN s : i \in Nat
      /\ \A i \in DOMAIN t, n \in DOMAIN s : i + 1 <= n => n # 1 /\ i <= n - 1
      /\ \A i \in DOMAIN t : i + 1 # 1
      /\ \A i, n \in DOMAIN t : i + 1 = n + 1 => i = n
  BY <1>1
<1> HIDE DEF t
<1>3. Covered(s, A, B) => Covered(t, A, B)
  BY <1>2 DEF Covered
<1>4. Covered(s, A, B) /\ Head(s) \in A /\ Head(s) \notin B => Has(t, B)
  <2> HAVE Covered(s, A, B) /\ Head(s) \in A /\ Head(s) \notin B
  <2>1. PICK n \in DOMAIN s : 1 <= n /\ s[n] \in B
    BY <1>1 DEF Covered
  <2>2. n # 1
    BY <1>1, <2>1
  <2> QED
    BY <1>2, <2>1, <2>2 DEF Has
<1>5. Head(s) \notin B => (Has(t, B) <=> Has(s, B))
  BY <1>1, <1>2 DEF Has
<1>6. Has(t, B) => Has(s, B)
  BY <1>2 DEF Has
<1>7. Once(s, B) => Once(t, B)
  BY <1>2 DEF Once
<1>8. Once(s, B) /\ Head(s) \in B => ~Has(t, B)
  BY <1>1, <1>2 DEF Once, Has
<1>9. Head(s) \in B => Has(s, B)
  BY <1>1 DEF Has
<1> QED
  BY <1>1, <1>3, <1>4, <1>5, <1>6, <1>7, <1>8, <1>9 DEF t

\* A sequence of the same length with the same members of A and B.
LEMMA MapFacts ==
  ASSUME NEW s, NEW t, NEW A, NEW B, DOMAIN t = DOMAIN s,
         \A i \in DOMAIN s : (t[i] \in A <=> s[i] \in A) /\ (t[i] \in B <=> s[i] \in B)
  PROVE  /\ Covered(t, A, B) <=> Covered(s, A, B)
         /\ Has(t, B) <=> Has(s, B)
         /\ Once(t, B) <=> Once(s, B)
BY DEF Covered, Has, Once

\* What taking a member out leaves.
LEMMA RemoveFacts ==
  ASSUME NEW T, NEW s \in Seq(T), NEW r \in DOMAIN s, NEW A, NEW B
  PROVE  /\ s[r] \notin B /\ Covered(s, A, B) => Covered(RemoveAt(s, r), A, B)
         /\ s[r] \notin B => (Has(RemoveAt(s, r), B) <=> Has(s, B))
         /\ Has(RemoveAt(s, r), B) => Has(s, B)
         /\ Once(s, B) => Once(RemoveAt(s, r), B)
<1> DEFINE a == SubSeq(s, 1, r - 1)
           b == SubSeq(s, r + 1, Len(s))
           t == RemoveAt(s, r)
<1>1. /\ DOMAIN s = 1..Len(s) /\ Len(s) \in Nat /\ r \in 1..Len(s)
  OBVIOUS
<1>2. /\ \A k \in 1..(r - 1) : k \in 1..Len(s)
      /\ \A k \in (r + 1)..Len(s) : k \in 1..Len(s)
      /\ \A i \in 1..Len(s) : s[i] \in T
  BY <1>1
<1>3. /\ a \in Seq(T) /\ Len(a) = r - 1
      /\ \A i \in 1..(r - 1) : a[i] = s[i]
  BY <1>1, <1>2, SubSeqProperties
<1>4. /\ b \in Seq(T) /\ Len(b) = Len(s) - r
      /\ \A i \in 1..(Len(s) - r) : b[i] = s[r + i]
  BY <1>1, <1>2, SubSeqProperties
<1>5. t = a \o b
  BY DEF RemoveAt
<1> HIDE DEF a, b, t
<1>6. /\ DOMAIN t = 1..(Len(s) - 1)
      /\ \A i \in 1..(r - 1) : t[i] = s[i]
      /\ \A i \in r..(Len(s) - 1) : t[i] = s[i + 1]
  <2>1. /\ t \in Seq(T) /\ Len(t) = Len(a) + Len(b)
        /\ \A i \in 1..(Len(a) + Len(b)) :
             t[i] = IF i <= Len(a) THEN a[i] ELSE b[i - Len(a)]
    BY <1>3, <1>4, <1>5, ConcatProperties
  <2>2. Len(t) = Len(s) - 1 /\ DOMAIN t = 1..Len(t)
    BY <1>1, <1>3, <1>4, <2>1
  <2>3. \A i \in 1..(r - 1) : t[i] = s[i]
    BY <1>1, <1>3, <1>4, <2>1
  <2>4. ASSUME NEW i \in r..(Len(s) - 1)
        PROVE  t[i] = s[i + 1]
    <3>1. /\ i \in Nat /\ r <= i /\ i <= Len(s) - 1 /\ r \in Nat
          /\ Len(a) = r - 1 /\ Len(b) = Len(s) - r
      BY <1>1, <1>3, <1>4
    <3>2. i \in 1..(Len(a) + Len(b)) /\ ~(i <= Len(a))
      BY <1>1, <3>1
    <3>3. i - Len(a) \in 1..(Len(s) - r) /\ r + (i - Len(a)) = i + 1
      BY <1>1, <3>1
    <3> QED
      BY <1>4, <2>1, <3>2, <3>3
  <2> QED
    BY <2>2, <2>3, <2>4
<1> DEFINE Up(i) == IF i < r THEN i ELSE i + 1
           Down(i) == IF i < r THEN i ELSE i - 1
<1>7. /\ \A i \in DOMAIN t : Up(i) \in DOMAIN s /\ t[i] = s[Up(i)]
      /\ \A i \in DOMAIN s : i # r => Down(i) \in DOMAIN t /\ t[Down(i)] = s[i]
  BY <1>1, <1>6
<1>8. /\ \A i \in DOMAIN t, n \in DOMAIN s : n # r /\ Up(i) <= n => i <= Down(n)
      /\ \A i, n \in DOMAIN t : Up(i) = Up(n) => i = n
  BY <1>1, <1>6
<1> HIDE DEF Up, Down
<1>9. s[r] \notin B /\ Covered(s, A, B) => Covered(t, A, B)
  BY <1>7, <1>8 DEF Covered
<1>10. s[r] \notin B => (Has(t, B) <=> Has(s, B))
  BY <1>7 DEF Has
<1>11. Has(t, B) => Has(s, B)
  BY <1>7 DEF Has
<1>12. Once(s, B) => Once(t, B)
  BY <1>7, <1>8 DEF Once
<1> QED
  BY <1>9, <1>10, <1>11, <1>12 DEF t

--------------------------------------------------------------------------------
(* What still reaches a tab: the buffer, the batch, the queue, the job that sends *)

\* Of what waits in the queue and is on the wire: what is about key k, and what
\* carries the version that the server holds.
QOf(k)  == {p \in Payloads : p.key = k}
QNew(k) == {p \in Payloads : p.key = k /\ p.ver = world[k]}
EOf(k)  == {f \in Frames : f.key = k}
ENew(k) == {f \in Frames : f.key = k /\ f.ver = world[k]}

\* The version the server holds of key k waits: in the coalescing buffer or in what
\* the flush took, in the queue, or in the broadcast that is being sent and has c
\* among its targets (a dead target is closed when it ends).
Stored(k)   == pending[k] > 0 \/ \E p \in batch : p.key = k /\ p.ver = world[k]
Queued(k)   == Stored(k) \/ Has(queue, QNew(k))
Going(c, k) == \E j \in jobs : j.key = k /\ j.ver = world[k] /\ c \in j.to \cup j.dead
Reached(c, k) == Queued(k) \/ Going(c, k)

\* The flush runs while something waits for it, and what it takes is of coalesced
\* keys; only keys of the background loop have broadcasts that time out.
ServerOk ==
  /\ flusher \in {"idle", "sleep", "flush"}
  /\ flusher = "idle" => \A k \in Keys : pending[k] = 0
  /\ flusher # "flush" => batch = {}
  /\ \A p \in batch : p.key \in Coalesced /\ p.by = "flush"
  /\ \A k \in Keys \ Coalesced : pending[k] = 0
  /\ \A k \in Keys : world[k] > 0
  /\ lost \subseteq Foreign
  /\ \A j \in jobs : j.seq > 0
  /\ changes \in 0..MaxChanges /\ faults \in 0..MaxFaults

\* Of a key whose last broadcast did not time out: what waits in the buffer is the
\* newest version, an old version in the batch, the queue or the sending is followed
\* by the newest one.
KeyOk(k) == k \notin lost =>
  /\ pending[k] \in {0, world[k]}
  /\ \A p \in batch : p.key = k => p.ver = world[k] \/ pending[k] > 0
  /\ Stored(k) \/ Covered(queue, QOf(k), QNew(k))
  /\ \A j \in jobs : j.key = k => j.ver = world[k] \/ Queued(k)

\* After a step, the newest version of key k is on its way to a connected tab, or it
\* was not before and the tab was connected and the version the same.
ReachKept(c, k) == link'[c] = "up" /\ k \notin lost' =>
  \/ Reached(c, k)'
  \/ /\ link[c] = "up" /\ k \notin lost /\ world'[k] = world[k]
     /\ ~Reached(c, k)

\* What the types say of one key.
LEMMA KeyFacts ==
  ASSUME ServerTypeOK, ServerOk, NEW k \in Keys
  PROVE  /\ world[k] \in Nat /\ world[k] > 0 /\ pending[k] \in Nat
         /\ queue \in Seq(Payloads)
         /\ \A p \in batch : p \in Payloads /\ p.ver \in Nat
         /\ \A j \in jobs : j \in Jobs /\ j.ver \in Nat
BY DEF ServerTypeOK, ServerOk, Payloads, Jobs

\* A step that leaves the key, the buffer and the batch, and loses nothing newest.
LEMMA KeySame ==
  ASSUME NEW k \in Keys, KeyOk(k), world'[k] = world[k], pending'[k] = pending[k],
         batch' = batch, k \notin lost' => k \notin lost,
         Covered(queue, QOf(k), QNew(k)) => Covered(queue', QOf(k), QNew(k)),
         Has(queue, QNew(k)) => Has(queue', QNew(k)),
         \A j \in jobs' : j.key = k => \E i \in jobs : i.key = k /\ i.ver = j.ver
  PROVE  /\ KeyOk(k)'
         /\ Queued(k) => Queued(k)'
         /\ QOf(k)' = QOf(k) /\ QNew(k)' = QNew(k)
<1>1. QOf(k)' = QOf(k) /\ QNew(k)' = QNew(k)
  BY DEF QOf, QNew
<1>2. Stored(k)' = Stored(k)
  BY DEF Stored
<1>3. Queued(k) => Queued(k)'
  BY <1>1, <1>2 DEF Queued
<1>4. KeyOk(k)'
  <2> SUFFICES ASSUME k \notin lost'
               PROVE  /\ pending'[k] \in {0, world'[k]}
                      /\ \A p \in batch' : p.key = k => p.ver = world'[k] \/ pending'[k] > 0
                      /\ Stored(k)' \/ Covered(queue', QOf(k)', QNew(k)')
                      /\ \A j \in jobs' : j.key = k => j.ver = world'[k] \/ Queued(k)'
    BY DEF KeyOk
  <2> QED
    BY <1>1, <1>2, <1>3 DEF KeyOk
<1> QED
  BY <1>1, <1>3, <1>4

\* The same, when the broadcasts under way are the same to every tab.
LEMMA ReachSame ==
  ASSUME NEW k \in Keys, KeyOk(k), world'[k] = world[k], pending'[k] = pending[k],
         batch' = batch, k \notin lost' => k \notin lost,
         Covered(queue, QOf(k), QNew(k)) => Covered(queue', QOf(k), QNew(k)),
         Has(queue, QNew(k)) => Has(queue', QNew(k)),
         jobs' = jobs, link' = link
  PROVE  /\ KeyOk(k)'
         /\ \A c \in Clients : ReachKept(c, k)
<1>1. KeyOk(k)' /\ (Queued(k) => Queued(k)')
  BY KeySame
<1>2. ASSUME NEW c \in Clients
      PROVE  ReachKept(c, k)
  <2>1. Going(c, k)' = Going(c, k)
    BY DEF Going
  <2> QED
    BY <1>1, <2>1 DEF ReachKept, Reached
<1> QED
  BY <1>1, <1>2

\* A change is queued, or takes the place of the one that waits in the buffer.
LEMMA ChangeReach ==
  ASSUME ServerTypeOK, ServerTypeOK', ServerOk, NEW q \in Keys,
         Change(q) \/ ChangeCoalesced(q),
         NEW k \in Keys, KeyOk(k)
  PROVE  /\ KeyOk(k)'
         /\ \A c \in Clients : ReachKept(c, k)
<1>1. /\ world[k] \in Nat /\ world[k] > 0 /\ pending[k] \in Nat
      /\ queue \in Seq(Payloads)
      /\ \A p \in batch : p \in Payloads /\ p.ver \in Nat /\ p.key \in Coalesced
      /\ world[q] \in Nat
  BY KeyFacts DEF ServerOk
<1>2. /\ jobs' = jobs /\ link' = link /\ batch' = batch
      /\ world' = [world EXCEPT ![q] = @ + 1] /\ world \in [Keys -> Nat]
  BY DEF Change, ChangeCoalesced, wire, ServerTypeOK
<1>3. CASE Change(q)
  <2> DEFINE e == Payload(q, world'[q], "app")
  <2>1. /\ e \in Payloads /\ e.key = q /\ e.ver = world'[q]
        /\ queue' = Append(queue, e) /\ pending' = pending /\ q \notin Coalesced
        /\ lost' = lost \ {q}
    BY <1>1, <1>2, <1>3 DEF Change, Payload, Payloads, Actors
  <2> HIDE DEF e
  <2>2. CASE k = q
    <3>1. e \in QNew(k)'
      BY <2>1, <2>2 DEF QNew
    <3>2. Covered(queue', QOf(k)', QNew(k)') /\ Has(queue', QNew(k)')
      BY <1>1, <2>1, <3>1, AppendFacts
    <3>3. Queued(k)'
      BY <3>2 DEF Queued
    <3>4. pending'[k] = 0 /\ \A p \in batch' : p.key # k
      BY <1>1, <1>2, <2>1, <2>2 DEF ServerOk
    <3> QED
      BY <3>2, <3>3, <3>4 DEF KeyOk, ReachKept, Reached
  <2>3. CASE k # q
    <3>1. world'[k] = world[k] /\ e \notin QOf(k) /\ (k \notin lost' => k \notin lost)
      BY <1>2, <2>1, <2>3 DEF QOf
    <3>2. /\ Covered(queue, QOf(k), QNew(k)) => Covered(queue', QOf(k), QNew(k))
          /\ Has(queue, QNew(k)) => Has(queue', QNew(k))
      BY <1>1, <2>1, <3>1, AppendFacts
    <3> QED
      BY <1>2, <2>1, <3>1, <3>2, ReachSame
  <2> QED
    BY <2>2, <2>3
<1>4. CASE ChangeCoalesced(q)
  <2>1. /\ queue' = queue /\ lost' = lost
        /\ pending' = [pending EXCEPT ![q] = world'[q]] /\ pending \in [Keys -> Nat]
    BY <1>4 DEF ChangeCoalesced, ServerTypeOK
  <2>2. CASE k = q
    <3>1. pending'[k] = world'[k] /\ pending'[k] > 0
      BY <1>1, <1>2, <2>1, <2>2
    <3>2. Stored(k)' /\ Queued(k)'
      BY <3>1 DEF Stored, Queued
    <3> QED
      BY <3>1, <3>2 DEF KeyOk, ReachKept, Reached
  <2>3. CASE k # q
    BY <1>2, <2>1, <2>3, ReachSame
  <2> QED
    BY <2>2, <2>3
<1> QED
  BY <1>3, <1>4

\* The flush hands on what the buffer held, one payload at a time.
LEMMA FlushReach ==
  ASSUME ServerTypeOK, ServerTypeOK', ServerOk, FlushTake \/ FlushNext \/ FlushEnd,
         NEW k \in Keys, KeyOk(k)
  PROVE  /\ KeyOk(k)'
         /\ \A c \in Clients : ReachKept(c, k)
<1>1. /\ world[k] \in Nat /\ world[k] > 0 /\ pending[k] \in Nat
      /\ queue \in Seq(Payloads)
      /\ \A p \in batch : p \in Payloads /\ p.ver \in Nat
  BY KeyFacts
<1>2. jobs' = jobs /\ link' = link /\ world' = world /\ lost' = lost
  BY DEF FlushTake, FlushNext, FlushEnd, wire, data
<1>3. /\ QOf(k)' = QOf(k) /\ QNew(k)' = QNew(k)
      /\ \A c \in Clients : Going(c, k)' = Going(c, k)
  BY <1>2 DEF QOf, QNew, Going
<1>4. ASSUME k \notin lost, Stored(k)' = Stored(k),
             pending'[k] \in {0, world[k]},
             \A p \in batch' : p.key = k => p.ver = world[k],
             queue' = queue
      PROVE  KeyOk(k)' /\ \A c \in Clients : ReachKept(c, k)
  <2>1. Queued(k)' = Queued(k)
    BY <1>3, <1>4 DEF Queued
  <2> QED
    BY <1>2, <1>3, <1>4, <2>1 DEF KeyOk, ReachKept, Reached
<1>5. CASE k \in lost
  BY <1>2, <1>5 DEF KeyOk, ReachKept
<1>6. CASE k \notin lost /\ FlushTake
  <2>1. /\ batch = {} /\ queue' = queue /\ pending'[k] = 0
        /\ batch' = {Payload(q, pending[q], "flush") : q \in Waiting}
        /\ pending[k] \in {0, world[k]}
    BY <1>6 DEF FlushTake, ServerOk, KeyOk
  <2>2. \A p \in batch' : p.key = k => p.ver = pending[k] /\ pending[k] > 0
    BY <2>1 DEF Payload, Waiting
  <2>3. pending[k] > 0 => \E p \in batch' : p.key = k /\ p.ver = world[k]
    <3> HAVE pending[k] > 0
    <3>1. Payload(k, pending[k], "flush") \in batch'
      BY <2>1 DEF Waiting
    <3>2. /\ Payload(k, pending[k], "flush").key = k
          /\ Payload(k, pending[k], "flush").ver = pending[k]
      BY DEF Payload
    <3>3. pending[k] = world[k]
      BY <1>1, <2>1
    <3> QED
      BY <3>1, <3>2, <3>3
  <2>4. Stored(k)' = Stored(k)
    BY <1>1, <1>2, <2>1, <2>2, <2>3 DEF Stored
  <2> QED
    BY <1>1, <1>4, <1>6, <2>1, <2>2, <2>4
<1>7. CASE k \notin lost /\ FlushEnd
  BY <1>2, <1>7, ReachSame DEF FlushEnd
<1>8. CASE k \notin lost /\ FlushNext
  <2>1. PICK p \in batch : queue' = Append(queue, p) /\ batch' = batch \ {p}
    BY <1>8 DEF FlushNext
  <2>2. pending' = pending /\ p \in Payloads
    BY <1>1, <1>8 DEF FlushNext
  <2>3. Has(queue, QNew(k)) => Has(queue', QNew(k))
    BY <1>1, <2>1, <2>2, AppendFacts
  <2>4. CASE p.key = k /\ p.ver = world[k]
    <3>1. p \in QNew(k)
      BY <2>2, <2>4 DEF QNew
    <3>2. Covered(queue', QOf(k), QNew(k)) /\ Has(queue', QNew(k))
      BY <1>1, <2>1, <2>2, <3>1, AppendFacts
    <3>3. Queued(k)'
      BY <1>3, <3>2 DEF Queued
    <3>4. \A r \in batch' : r \in batch
      BY <2>1
    <3> QED
      BY <1>2, <1>3, <1>8, <2>2, <3>2, <3>3, <3>4 DEF KeyOk, ReachKept, Reached
  <2>5. CASE ~(p.key = k /\ p.ver = world[k])
    <3>1. Stored(k)' = Stored(k)
      BY <1>2, <2>1, <2>2, <2>5 DEF Stored
    <3>2. Queued(k) => Queued(k)'
      BY <1>3, <2>3, <3>1 DEF Queued
    <3>3. Stored(k)' \/ Covered(queue', QOf(k)', QNew(k)')
      <4>1. CASE p.key = k
        BY <1>8, <2>2, <2>5, <4>1 DEF KeyOk, Stored
      <4>2. CASE p.key # k
        <5>1. p \notin QOf(k)
          BY <4>2 DEF QOf
        <5> QED
          BY <1>1, <1>3, <1>8, <2>1, <2>2, <3>1, <5>1, AppendFacts DEF KeyOk
      <4> QED
        BY <4>1, <4>2
    <3>4. KeyOk(k)'
      BY <1>2, <1>8, <2>1, <2>2, <3>2, <3>3 DEF KeyOk
    <3> QED
      BY <1>2, <1>3, <3>2, <3>4 DEF ReachKept, Reached
  <2> QED
    BY <2>4, <2>5
<1> QED
  BY <1>5, <1>6, <1>7, <1>8

--------------------------------------------------------------------------------
(* Who a broadcast is by does not matter to where it goes *)

\* One more at the end.
LEMMA AppendOne ==
  ASSUME NEW T, NEW s \in Seq(T), NEW e \in T
  PROVE  s \o <<e>> = Append(s, e)
OBVIOUS

\* Disowned changes only who a broadcast is by.
LEMMA DisownedFacts ==
  ASSUME ServerTypeOK, NEW D \in SUBSET Clients
  PROVE  /\ Disowned(D) \in Seq(Payloads)
         /\ DOMAIN Disowned(D) = DOMAIN queue
         /\ \A i \in DOMAIN queue :
              /\ queue[i] \in Payloads /\ Disowned(D)[i] \in Payloads
              /\ Disowned(D)[i].key = queue[i].key /\ Disowned(D)[i].ver = queue[i].ver
              /\ Disowned(D)[i].by = IF queue[i].by \in D THEN "app" ELSE queue[i].by
<1>1. /\ queue \in Seq(Payloads) /\ Disowned(D) \in Seq(Payloads)
      /\ Len(queue) \in Nat /\ DOMAIN queue = 1..Len(queue)
      /\ \A i \in DOMAIN queue : queue[i] \in Payloads
  BY DisownedType DEF ServerTypeOK
<1>2. DOMAIN Disowned(D) = DOMAIN queue
  BY DEF Disowned
<1>3. ASSUME NEW i \in DOMAIN queue
      PROVE  /\ Disowned(D)[i] \in Payloads
             /\ Disowned(D)[i].key = queue[i].key /\ Disowned(D)[i].ver = queue[i].ver
             /\ Disowned(D)[i].by = IF queue[i].by \in D THEN "app" ELSE queue[i].by
  <2>1. Disowned(D)[i] = IF queue[i].by \in D
                           THEN [queue[i] EXCEPT !.by = "app"] ELSE queue[i]
    BY DEF Disowned
  <2>2. queue[i] \in Payloads
    BY <1>1
  <2>3. [queue[i] EXCEPT !.by = "app"] \in Payloads
    BY <2>2 DEF Payloads, Actors
  <2> QED
    BY <2>1, <2>2, <2>3 DEF Payloads
<1> QED
  BY <1>1, <1>2, <1>3

\* What the server forgets of a connection is not what its broadcasts carry.
LEMMA DisownedKeeps ==
  ASSUME ServerTypeOK, NEW D \in SUBSET Clients, NEW k \in Keys
  PROVE  /\ Covered(Disowned(D), QOf(k), QNew(k)) <=> Covered(queue, QOf(k), QNew(k))
         /\ Has(Disowned(D), QNew(k)) <=> Has(queue, QNew(k))
<1>1. /\ DOMAIN Disowned(D) = DOMAIN queue
      /\ \A i \in DOMAIN queue : /\ Disowned(D)[i] \in QOf(k) <=> queue[i] \in QOf(k)
                                 /\ Disowned(D)[i] \in QNew(k) <=> queue[i] \in QNew(k)
  BY DisownedFacts DEF QOf, QNew
<1> QED
  BY <1>1, MapFacts

\* A frame without a key adds nothing.
LEMMA HelloKeeps ==
  ASSUME NEW k \in Keys, NEW s \in Seq(Payloads), NEW by \in Actors
  PROVE  /\ Hello(by) \in Payloads /\ Hello(by).by = by
         /\ Append(s, Hello(by)) \in Seq(Payloads)
         /\ Covered(s, QOf(k), QNew(k)) => Covered(Append(s, Hello(by)), QOf(k), QNew(k))
         /\ Has(s, QNew(k)) => Has(Append(s, Hello(by)), QNew(k))
<1>1. Hello(by) \in Payloads /\ Hello(by).by = by
  BY HelloType DEF Hello, Payload
<1>2. Hello(by) \notin QOf(k)
  BY LiveSyncAssumption DEF QOf, Hello, Payload
<1> QED
  BY <1>1, <1>2, AppendFacts, QueueAppendType

--------------------------------------------------------------------------------
(* Every step of the server keeps what reaches a tab *)

\* The first of the queue becomes the broadcast with the lock, and every connected
\* tab is in the list it is sent to.
LEMMA StampReach ==
  ASSUME ServerTypeOK, ServerTypeOK', ServerOk, Stamp,
         \A c \in Clients : link[c] = "up" => c \in member,
         NEW k \in Keys, KeyOk(k)
  PROVE  /\ KeyOk(k)'
         /\ \A c \in Clients : ReachKept(c, k)
<1>1. queue \in Seq(Payloads) /\ queue # <<>>
  BY KeyFacts DEF Stamp
<1>2. /\ world' = world /\ pending' = pending /\ batch' = batch /\ lost' = lost
      /\ link' = link /\ queue' = Tail(queue) /\ jobs = {}
  BY DEF Stamp, LockFree, data, wire
<1>3. PICK j : /\ jobs' = {j} /\ j.key = Head(queue).key /\ j.ver = Head(queue).ver
               /\ j.to = member
  <2> DEFINE r == [seq |-> seq', key |-> Head(queue).key, ver |-> Head(queue).ver,
                   by |-> Head(queue).by, to |-> member, dead |-> {}]
  <2>1. jobs' = {r}
    BY DEF Stamp, LockFree
  <2>2. r.key = Head(queue).key /\ r.ver = Head(queue).ver /\ r.to = member
    OBVIOUS
  <2> QED
    BY <2>1, <2>2
<1>4. /\ QOf(k)' = QOf(k) /\ QNew(k)' = QNew(k) /\ Stored(k)' = Stored(k)
      /\ \A c \in Clients : ~Going(c, k)
  BY <1>2 DEF QOf, QNew, Stored, Going
<1>5. /\ Head(queue) \in Payloads
      /\ Covered(queue, QOf(k), QNew(k)) => Covered(queue', QOf(k), QNew(k))
      /\ Covered(queue, QOf(k), QNew(k)) /\ Head(queue) \in QOf(k) /\ Head(queue) \notin QNew(k)
           => Has(queue', QNew(k))
      /\ Head(queue) \notin QNew(k) => (Has(queue', QNew(k)) <=> Has(queue, QNew(k)))
  BY <1>1, <1>2, TailFacts
<1>6. CASE Head(queue) \in QNew(k)
  <2>1. j.key = k /\ j.ver = world[k]
    BY <1>3, <1>6 DEF QNew
  <2>2. \A c \in Clients : link'[c] = "up" => Going(c, k)'
    BY <1>2, <1>3, <2>1 DEF Going
  <2> QED
    BY <1>2, <1>3, <1>4, <1>5, <2>1, <2>2 DEF KeyOk, ReachKept, Reached
<1>7. CASE Head(queue) \notin QNew(k)
  <2>1. Queued(k)' = Queued(k)
    BY <1>4, <1>5, <1>7 DEF Queued
  <2>2. k \notin lost /\ j.key = k => Queued(k)'
    <3> HAVE k \notin lost /\ j.key = k
    <3>1. Head(queue) \in QOf(k)
      BY <1>3, <1>5 DEF QOf
    <3> QED
      BY <1>4, <1>5, <1>7, <3>1 DEF KeyOk, Queued
  <2> QED
    BY <1>2, <1>3, <1>4, <1>5, <2>1, <2>2 DEF KeyOk, ReachKept, Reached
<1> QED
  BY <1>6, <1>7

\* A broadcast ends when it has no target left; its dead targets are cut.
LEMMA FinishReach ==
  ASSUME ServerTypeOK, ServerTypeOK', ServerOk, SendingOk, NEW j \in jobs, Finish(j),
         NEW k \in Keys, KeyOk(k)
  PROVE  /\ KeyOk(k)'
         /\ \A c \in Clients : ReachKept(c, k)
<1>1. /\ j \in Jobs /\ j.dead \in SUBSET Clients /\ j.by \in Actors
      /\ jobs = {j} /\ queue \in Seq(Payloads)
  BY KeyFacts DEF SendingOk, Jobs
<1>2. /\ world' = world /\ pending' = pending /\ batch' = batch /\ lost' = lost
      /\ link' = Closed(j.dead) /\ jobs' = {} /\ j.to = {}
  BY <1>1 DEF Finish, data
<1>3. Disowned(j.dead) \in Seq(Payloads)
  BY <1>1, DisownedFacts
<1>4. \/ queue' = Disowned(j.dead)
      \/ \E by \in Actors : queue' = Append(Disowned(j.dead), Hello(by))
  <2>1. \/ queue' = Disowned(j.dead) \o <<>>
        \/ \E by \in Actors : queue' = Disowned(j.dead) \o <<Hello(by)>>
    <3>1. "app" \in Actors
      BY DEF Actors
    <3> QED
      BY <1>1, <3>1 DEF Finish
  <2>2. Disowned(j.dead) \o <<>> = Disowned(j.dead)
    BY <1>3, ConcatEmptySeq
  <2>3. \A by \in Actors :
          Disowned(j.dead) \o <<Hello(by)>> = Append(Disowned(j.dead), Hello(by))
    BY <1>3, HelloType, AppendOne
  <2> QED
    BY <2>1, <2>2, <2>3
<1>5. /\ Covered(queue, QOf(k), QNew(k)) => Covered(queue', QOf(k), QNew(k))
      /\ Has(queue, QNew(k)) => Has(queue', QNew(k))
  BY <1>1, <1>3, <1>4, DisownedKeeps, HelloKeeps
<1>6. KeyOk(k)' /\ (Queued(k) => Queued(k)')
  BY <1>2, <1>5, KeySame
<1>7. ASSUME NEW c \in Clients, link'[c] = "up"
      PROVE  link[c] = "up" /\ ~Going(c, k)
  <2>1. link[c] = "up" /\ c \notin j.dead
    BY <1>2, <1>7 DEF Closed
  <2> QED
    BY <1>1, <1>2, <2>1 DEF Going
<1> QED
  BY <1>2, <1>6, <1>7 DEF ReachKept, Reached

\* A broadcast that times out while it carries the newest version makes its key lost.
LEMMA CancelReach ==
  ASSUME ServerTypeOK, ServerTypeOK', ServerOk, CancelWaiting \/ CancelSending,
         NEW k \in Keys, KeyOk(k)
  PROVE  /\ KeyOk(k)'
         /\ \A c \in Clients : ReachKept(c, k)
<1>1. /\ queue \in Seq(Payloads) /\ \A i \in DOMAIN queue : queue[i] \in Payloads
  BY KeyFacts
<1>2. /\ world' = world /\ pending' = pending /\ batch' = batch /\ link' = link
      /\ k \notin lost' => k \notin lost
  BY DEF CancelWaiting, CancelSending, TimesOut, data, wire
<1>3. CASE k \in lost'
  BY <1>3 DEF KeyOk, ReachKept
<1>4. CASE k \notin lost' /\ CancelWaiting
  <2>1. PICK i \in DOMAIN queue : /\ TimesOut(queue[i]) /\ queue' = RemoveAt(queue, i)
                                  /\ jobs' = jobs
    BY <1>4 DEF CancelWaiting
  <2>2. queue[i] \notin QNew(k)
    BY <1>4, <2>1 DEF TimesOut, QNew
  <2>3. /\ Covered(queue, QOf(k), QNew(k)) => Covered(queue', QOf(k), QNew(k))
        /\ Has(queue, QNew(k)) => Has(queue', QNew(k))
    BY <1>1, <2>1, <2>2, RemoveFacts
  <2> QED
    BY <1>2, <2>1, <2>3, ReachSame
<1>5. CASE k \notin lost' /\ CancelSending
  <2>1. PICK j \in jobs : TimesOut(j) /\ jobs' = jobs \ {j} /\ queue' = queue
    BY <1>5 DEF CancelSending
  <2>2. KeyOk(k)' /\ (Queued(k) => Queued(k)')
    BY <1>2, <2>1, KeySame
  <2>3. ~(j.key = k /\ j.ver = world[k])
    BY <1>5, <2>1 DEF TimesOut
  <2>4. \A c \in Clients : Going(c, k) => Going(c, k)'
    BY <1>2, <2>1, <2>3 DEF Going
  <2> QED
    BY <1>2, <2>2, <2>4 DEF ReachKept, Reached
<1> QED
  BY <1>3, <1>4, <1>5

\* A connection that breaks takes nothing from the others.
LEMMA LoseReach ==
  ASSUME ServerTypeOK, ServerTypeOK', ServerOk, NEW d \in Clients, Lose(d),
         NEW k \in Keys, KeyOk(k)
  PROVE  /\ KeyOk(k)'
         /\ \A c \in Clients : ReachKept(c, k)
<1>1. /\ world' = world /\ pending' = pending /\ batch' = batch /\ lost' = lost
      /\ link' = [link EXCEPT ![d] = "cut"] /\ link \in [Clients -> {"none", "up", "cut"}]
      /\ queue' = Append(Disowned({d}), Hello("app")) /\ {d} \in SUBSET Clients
  BY DEF Lose, data, ServerTypeOK
<1>2. Disowned({d}) \in Seq(Payloads) /\ "app" \in Actors
  BY <1>1, DisownedFacts DEF Actors
<1>3. /\ Covered(queue, QOf(k), QNew(k)) => Covered(queue', QOf(k), QNew(k))
      /\ Has(queue, QNew(k)) => Has(queue', QNew(k))
  BY <1>1, <1>2, DisownedKeeps, HelloKeeps
<1> DEFINE Left(j) == [j EXCEPT !.to = @ \ {d}, !.dead = @ \ {d},
                                !.by = IF @ = d THEN "app" ELSE @]
<1>4. ASSUME NEW j \in jobs
      PROVE  /\ Left(j).key = j.key /\ Left(j).ver = j.ver
             /\ Left(j).to = j.to \ {d} /\ Left(j).dead = j.dead \ {d}
  <2>1. j \in Jobs
    BY KeyFacts
  <2> QED
    BY <2>1 DEF Jobs
<1>5. jobs' = {Left(j) : j \in jobs}
  BY DEF Lose
<1> HIDE DEF Left
<1>6. KeyOk(k)' /\ (Queued(k) => Queued(k)')
  <2>1. \A j \in jobs' : j.key = k => \E i \in jobs : i.key = k /\ i.ver = j.ver
    BY <1>4, <1>5
  <2> QED
    BY <1>1, <1>3, <2>1, KeySame
<1>7. ASSUME NEW c \in Clients, link'[c] = "up"
      PROVE  link[c] = "up" /\ (Going(c, k) => Going(c, k)')
  <2>1. c # d /\ link[c] = "up"
    BY <1>1, <1>7
  <2>2. Going(c, k) => Going(c, k)'
    <3> HAVE Going(c, k)
    <3>1. PICK j \in jobs : j.key = k /\ j.ver = world[k] /\ c \in j.to \cup j.dead
      BY DEF Going
    <3>2. Left(j) \in jobs' /\ c \in Left(j).to \cup Left(j).dead
      BY <1>4, <1>5, <2>1, <3>1
    <3> QED
      BY <1>1, <1>4, <3>1, <3>2 DEF Going
  <2> QED
    BY <2>1, <2>2
<1> QED
  BY <1>1, <1>6, <1>7 DEF ReachKept, Reached

\* After a restart no tab is connected.
LEMMA RestartReach ==
  ASSUME Restart, NEW k \in Keys
  PROVE  /\ KeyOk(k)'
         /\ \A c \in Clients : ReachKept(c, k)
<1>1. /\ pending'[k] = 0 /\ batch' = {} /\ queue' = <<>> /\ jobs' = {}
      /\ link' = Closed(Clients)
  BY DEF Restart
<1>2. \A c \in Clients : link'[c] # "up"
  BY <1>1 DEF Closed
<1>3. Covered(queue', QOf(k)', QNew(k)')
  BY <1>1 DEF Covered
<1> QED
  BY <1>1, <1>2, <1>3 DEF KeyOk, ReachKept

--------------------------------------------------------------------------------
(* One send of a broadcast, done or failed *)

\* The broadcast with one target less; the frame is on the wire, or its target dead.
LEMMA SendEffect ==
  ASSUME ServerTypeOK, SendingOk, NEW j \in jobs, NEW d \in Clients,
         Deliver(j, d) \/ SendFails(j, d)
  PROVE  \E m \in Jobs :
           /\ jobs' = {m} /\ jobs = {j}
           /\ m.seq = j.seq /\ m.key = j.key /\ m.ver = j.ver /\ m.by = j.by
           /\ (j.to \cup j.dead) \ {d} \subseteq m.to \cup m.dead
           /\ \/ down' = [down EXCEPT ![d] = Append(@, Event(j))]
              \/ down' = down /\ d \in m.dead
<1>1. j \in Jobs /\ jobs = {j}
  BY DEF ServerTypeOK, SendingOk
<1> DEFINE a == [j EXCEPT !.to = @ \ {d}]
           b == [j EXCEPT !.to = @ \ {d}, !.dead = @ \cup {d}]
<1>2. /\ a \in Jobs /\ a.seq = j.seq /\ a.key = j.key /\ a.ver = j.ver /\ a.by = j.by
      /\ a.to = j.to \ {d} /\ a.dead = j.dead
      /\ b \in Jobs /\ b.seq = j.seq /\ b.key = j.key /\ b.ver = j.ver /\ b.by = j.by
      /\ b.to = j.to \ {d} /\ b.dead = j.dead \cup {d}
  BY <1>1, JobLess DEF Jobs
<1>3. CASE Deliver(j, d)
  <2>1. jobs' = {a} /\ down' = [down EXCEPT ![d] = Append(@, Event(j))]
    BY <1>1, <1>3 DEF Deliver
  <2> HIDE DEF a, b
  <2> QED
    BY <1>1, <1>2, <2>1
<1>4. CASE SendFails(j, d)
  <2>1. jobs' = {b} /\ down' \in {down, [down EXCEPT ![d] = Append(@, Event(j))]}
    BY <1>1, <1>4 DEF SendFails
  <2> HIDE DEF a, b
  <2> QED
    BY <1>1, <1>2, <2>1
<1> QED
  BY <1>3, <1>4

\* A send leaves the buffer, the batch and the queue alone.
LEMMA SendKey ==
  ASSUME ServerTypeOK, SendingOk, NEW j \in jobs, NEW d \in Clients,
         Deliver(j, d) \/ SendFails(j, d), NEW k \in Keys, KeyOk(k)
  PROVE  KeyOk(k)' /\ (Queued(k) => Queued(k)')
<1>1. /\ world' = world /\ pending' = pending /\ batch' = batch /\ lost' = lost
      /\ queue' = queue
  BY DEF Deliver, SendFails, data
<1>2. \A i \in jobs' : i.key = k => \E l \in jobs : l.key = k /\ l.ver = i.ver
  BY SendEffect
<1> QED
  BY <1>1, <1>2, KeySame

--------------------------------------------------------------------------------
(* The server on its own *)

\* Every step keeps ServerOk.
LEMMA ServerStep ==
  ASSUME ServerTypeOK, ServerTypeOK', SendingOk, ServerOk, [Next]_vars
  PROVE  ServerOk'
<1> USE LiveSyncAssumption
<1>1. /\ seq \in Nat /\ world \in [Keys -> Nat] /\ pending \in [Keys -> Nat]
      /\ jobs \subseteq Jobs
  BY DEF ServerTypeOK
<1>2. ASSUME Fault
      PROVE  faults' \in 0..MaxFaults
  BY <1>2 DEF Fault, ServerOk
<1>3. ASSUME UNCHANGED <<data, pending, batch, flusher, lost>>,
             faults' \in 0..MaxFaults, \A m \in jobs' : \E j \in jobs : m.seq = j.seq
      PROVE  ServerOk'
  BY <1>3 DEF ServerOk, data
<1>4. ASSUME NEW k \in Keys, Change(k)
      PROVE  ServerOk'
  BY <1>1, <1>4 DEF Change, ServerOk
<1>5. ASSUME NEW k \in Keys, ChangeCoalesced(k)
      PROVE  ServerOk'
  BY <1>1, <1>5 DEF ChangeCoalesced, ServerOk
<1>6. CASE FlushTake
  <2>1. /\ flusher' = "flush" /\ pending' = [k \in Keys |-> 0]
        /\ batch' = {Payload(k, pending[k], "flush") : k \in Waiting}
        /\ UNCHANGED <<world, changes, lost, faults, jobs>>
    BY <1>6 DEF FlushTake, data
  <2>2. \A p \in batch' : p.key \in Coalesced /\ p.by = "flush"
    BY <1>1, <2>1 DEF ServerOk, Payload, Waiting
  <2> QED
    BY <2>1, <2>2 DEF ServerOk
<1>7. CASE FlushNext
  BY <1>7 DEF FlushNext, ServerOk, data
<1>8. CASE FlushEnd
  BY <1>1, <1>8 DEF FlushEnd, FlusherAfter, Waiting, ServerOk, data
<1>9. CASE Stamp
  <2>1. \A m \in jobs' : m.seq = seq + 1
    BY <1>9 DEF Stamp, LockFree
  <2> QED
    BY <1>1, <1>9, <2>1 DEF Stamp, ServerOk, data
<1>10. ASSUME NEW j \in jobs, NEW c \in Clients, Deliver(j, c) \/ SendFails(j, c)
       PROVE  ServerOk'
  <2>1. UNCHANGED <<data, pending, batch, flusher, lost>> /\ faults' \in 0..MaxFaults
    BY <1>2, <1>10 DEF Deliver, SendFails, ServerOk
  <2> QED
    BY <1>3, <1>10, <2>1, SendEffect
<1>11. ASSUME NEW j \in jobs, Finish(j)
       PROVE  ServerOk'
  BY <1>3, <1>11 DEF Finish, ServerOk
<1>12. ASSUME NEW p, TimesOut(p)
       PROVE  /\ UNCHANGED <<data, pending, batch, flusher>> /\ lost' \subseteq Foreign
              /\ faults' \in 0..MaxFaults
  BY <1>2, <1>12 DEF TimesOut, ServerOk
<1>13. CASE CancelWaiting \/ CancelSending
  <2>1. /\ UNCHANGED <<data, pending, batch, flusher>> /\ lost' \subseteq Foreign
        /\ faults' \in 0..MaxFaults /\ jobs' \subseteq jobs
    BY <1>12, <1>13 DEF CancelWaiting, CancelSending
  <2> QED
    BY <2>1 DEF ServerOk, data
<1>14. ASSUME NEW c \in Clients, Lose(c)
       PROVE  ServerOk'
  <2>1. \A j \in jobs : [j EXCEPT !.to = @ \ {c}, !.dead = @ \ {c},
                                  !.by = IF @ = c THEN "app" ELSE @].seq = j.seq
    BY <1>1 DEF Jobs
  <2>2. \A m \in jobs' : \E j \in jobs : m.seq = j.seq
    BY <1>14, <2>1 DEF Lose
  <2> QED
    BY <1>2, <1>3, <1>14, <2>2 DEF Lose
<1>15. CASE Restart
  BY <1>2, <1>15 DEF Restart, ServerOk, data
<1>16. CASE Connecting
  BY <1>3, <1>16 DEF Connecting, Accept, AnswerSync, Opened, ReceiveEvent, ReceiveSync,
                     SeesClose, server, ServerOk
<1>17. CASE Resyncing
  <2>1. PICK c \in Clients, s \in Sources : FetchRead(c, s) \/ FetchEnd(c, s)
    BY <1>17 DEF Resyncing
  <2>2. faults' \in 0..MaxFaults
    BY <1>2, <2>1 DEF FetchRead, FetchEnd, ServerOk
  <2> QED
    BY <1>3, <2>1, <2>2 DEF FetchRead, FetchEnd, server
<1>18. CASE UNCHANGED vars
  BY <1>3, <1>18 DEF vars, server, ServerOk
<1>19. CASE Broadcasting
  BY <1>6, <1>7, <1>8, <1>9, <1>10, <1>11, <1>19 DEF Broadcasting
<1>20. CASE Environment
  BY <1>4, <1>5, <1>10, <1>13, <1>14, <1>15, <1>20 DEF Environment
<1> QED
  BY <1>16, <1>17, <1>18, <1>19, <1>20 DEF Next, System

--------------------------------------------------------------------------------
(* The handshake of a connection *)

\* The broadcasts of c's handshake in the queue.
QBy(c) == {p \in Payloads : p.by = c}

\* c's handshake has at most one broadcast under way, waiting or being sent, and only
\* while it has frames left and the connection is up.
OwnOk(c) ==
  /\ Has(queue, QBy(c)) => greets[c] > 0 /\ link[c] = "up"
  /\ \A j \in jobs : j.by = c => /\ greets[c] > 0 /\ link[c] = "up"
                                 /\ ~Has(queue, QBy(c))
  /\ Once(queue, QBy(c))

\* A step that neither starts nor ends anything of c's handshake.
LEMMA OwnSame ==
  ASSUME NEW c \in Clients, OwnOk(c), greets'[c] = greets[c],
         link[c] = "up" => link'[c] = "up",
         Has(queue', QBy(c)) => Has(queue, QBy(c)),
         Once(queue, QBy(c)) => Once(queue', QBy(c)),
         \A j \in jobs' : j.by = c => \E i \in jobs : i.by = c
  PROVE  OwnOk(c)'
<1>1. QBy(c)' = QBy(c)
  BY DEF QBy
<1> QED
  BY <1>1 DEF OwnOk

\* The next frame of a handshake joins the queue.
LEMMA HelloBy ==
  ASSUME NEW s \in Seq(Payloads), NEW b \in Actors, NEW c \in Clients
  PROVE  /\ b # c => (Has(Append(s, Hello(b)), QBy(c)) <=> Has(s, QBy(c)))
         /\ Once(s, QBy(c)) /\ (b = c => ~Has(s, QBy(c))) => Once(Append(s, Hello(b)), QBy(c))
<1>1. Hello(b) \in Payloads /\ Hello(b).by = b
  BY HelloType DEF Hello, Payload
<1>2. Hello(b) \in QBy(c) => b = c
  BY <1>1 DEF QBy
<1> QED
  BY <1>1, <1>2, AppendFacts

\* Of a connection that is gone the queue holds nothing more, of the others the same.
LEMMA DisownedBy ==
  ASSUME ServerTypeOK, NEW D \in SUBSET Clients, NEW c \in Clients
  PROVE  /\ c \notin D => /\ Has(Disowned(D), QBy(c)) <=> Has(queue, QBy(c))
                          /\ Once(Disowned(D), QBy(c)) <=> Once(queue, QBy(c))
         /\ c \in D => ~Has(Disowned(D), QBy(c)) /\ Once(Disowned(D), QBy(c))
<1>1. c # "app"
  BY LiveSyncAssumption
<1>2. CASE c \notin D
  <2>1. /\ DOMAIN Disowned(D) = DOMAIN queue
        /\ \A i \in DOMAIN queue : Disowned(D)[i] \in QBy(c) <=> queue[i] \in QBy(c)
    BY <1>1, <1>2, DisownedFacts DEF QBy
  <2> QED
    BY <1>2, <2>1, MapFacts
<1>3. CASE c \in D
  <2>1. \A i \in DOMAIN Disowned(D) : Disowned(D)[i] \notin QBy(c)
    BY <1>1, <1>3, DisownedFacts DEF QBy
  <2> QED
    BY <1>3, <2>1 DEF Has, Once
<1> QED
  BY <1>2, <1>3

\* The end of a broadcast: a handshake counts its own and goes on with the next.
LEMMA FinishOwn ==
  ASSUME ServerTypeOK, SendingOk, NEW j \in jobs, Finish(j),
         greets \in [Clients -> 0..Greeting],
         \A c \in Clients : OwnOk(c), NEW c \in Clients
  PROVE  /\ greets'[c] \in 0..Greeting
         /\ OwnOk(c)'
<1> USE LiveSyncAssumption
<1>1. /\ j \in Jobs /\ j.dead \in SUBSET Clients
      /\ j.by \in Actors /\ j.by \in Clients \cup {"app", "flush"}
      /\ jobs = {j}
  BY DEF ServerTypeOK, SendingOk, Jobs, Actors
<1>2. /\ OwnOk(c) /\ greets[c] \in 0..Greeting
      /\ j.by \in Clients => greets[j.by] \in 0..Greeting /\ greets[j.by] > 0
  BY DEF OwnOk
<1> DEFINE q == Disowned(j.dead)
           next == IF j.by \in Clients /\ j.dead = {}
                     THEN [greets EXCEPT ![j.by] = @ - 1] ELSE Unowned(j.dead)
<1>3. /\ greets' = next /\ link' = Closed(j.dead) /\ jobs' = {}
      /\ queue' = q \o (IF j.dead # {} THEN <<Hello(IF j.by \in j.dead THEN "app" ELSE j.by)>>
              ELSE IF j.by \in Clients /\ next[j.by] > 0 THEN <<Hello(j.by)>>
              ELSE <<>>)
  BY <1>1 DEF Finish
<1>4. /\ q \in Seq(Payloads) /\ q \o <<>> = q
      /\ \A b \in Actors : q \o <<Hello(b)>> = Append(q, Hello(b))
  <2>1. q \in Seq(Payloads)
    BY <1>1, DisownedFacts
  <2> QED
    BY <2>1, ConcatEmptySeq, HelloType, AppendOne
<1>5. QBy(c)' = QBy(c) /\ "app" \in Actors
  BY DEF QBy, Actors
<1>6. CASE c \in j.dead
  <2>1. greets'[c] = 0
    BY <1>3, <1>6 DEF Unowned
  <2>2. ~Has(q, QBy(c)) /\ Once(q, QBy(c))
    BY <1>1, <1>6, DisownedBy
  <2>3. PICK b \in Actors : b # c /\ queue' = Append(q, Hello(b))
    <3>1. queue' = q \o <<Hello(IF j.by \in j.dead THEN "app" ELSE j.by)>>
      BY <1>3, <1>6
    <3> QED
      BY <1>1, <1>4, <1>5, <1>6, <3>1
  <2>4. ~Has(queue', QBy(c)) /\ Once(queue', QBy(c))
    BY <1>4, <2>2, <2>3, HelloBy
  <2> QED
    BY <1>3, <1>5, <2>1, <2>4 DEF OwnOk
<1>7. CASE c \notin j.dead
  <2>1. link'[c] = link[c]
    BY <1>3, <1>7 DEF Closed
  <2>2. /\ Has(q, QBy(c)) <=> Has(queue, QBy(c))
        /\ Once(q, QBy(c))
    BY <1>1, <1>2, <1>7, DisownedBy DEF OwnOk
  <2>3. CASE j.by # c
    <3>1. greets'[c] = greets[c]
      BY <1>3, <1>7, <2>3 DEF Unowned
    <3>2. queue' = q \/ \E b \in Actors : b # c /\ queue' = Append(q, Hello(b))
      <4>1. CASE j.dead # {}
        <5>1. queue' = q \o <<Hello(IF j.by \in j.dead THEN "app" ELSE j.by)>>
          BY <1>3, <4>1
        <5> QED
          BY <1>1, <1>4, <1>5, <2>3, <5>1
      <4>2. CASE j.dead = {}
        <5>1. queue' = q \o <<Hello(j.by)>> \/ queue' = q \o <<>>
          BY <1>3, <4>2
        <5> QED
          BY <1>1, <1>4, <2>3, <5>1
      <4> QED
        BY <4>1, <4>2
    <3>3. (Has(queue', QBy(c)) <=> Has(q, QBy(c))) /\ Once(queue', QBy(c))
      <4>1. CASE queue' = q
        BY <2>2, <4>1
      <4>2. ASSUME NEW b \in Actors, b # c, queue' = Append(q, Hello(b))
            PROVE  (Has(queue', QBy(c)) <=> Has(q, QBy(c))) /\ Once(queue', QBy(c))
        BY <1>4, <2>2, <4>2, HelloBy
      <4> QED
        BY <3>2, <4>1, <4>2
    <3> QED
      BY <1>2, <1>3, <1>5, <2>1, <2>2, <3>1, <3>3 DEF OwnOk
  <2>4. CASE j.by = c
    <3>1. ~Has(q, QBy(c)) /\ greets[c] > 0 /\ link[c] = "up"
      BY <1>2, <2>2, <2>4 DEF OwnOk
    <3>2. CASE j.dead # {}
      <4>1. greets'[c] = greets[c] /\ queue' = Append(q, Hello(c))
        BY <1>1, <1>3, <1>4, <1>7, <2>4, <3>2 DEF Unowned
      <4>2. Once(queue', QBy(c))
        BY <1>1, <1>4, <2>2, <2>4, <3>1, <4>1, HelloBy
      <4> QED
        BY <1>2, <1>3, <1>5, <2>1, <3>1, <4>1, <4>2 DEF OwnOk
    <3>3. CASE j.dead = {}
      <4>1. greets'[c] = greets[c] - 1
        BY <1>3, <2>4, <3>3
      <4>2. queue' = (IF greets'[c] > 0 THEN Append(q, Hello(c)) ELSE q)
        <5>1. j.by \in Clients /\ greets' = next /\ j.dead = {}
          BY <1>3, <2>4, <3>3
        <5>2. queue' = q \o (IF greets'[c] > 0 THEN <<Hello(c)>> ELSE <<>>)
          BY <1>3, <2>4, <5>1
        <5> QED
          BY <1>1, <1>4, <2>4, <5>2
      <4>3. Once(queue', QBy(c)) /\ (Has(queue', QBy(c)) => greets'[c] > 0)
        BY <1>1, <1>4, <2>2, <2>4, <3>1, <4>2, HelloBy
      <4> QED
        BY <1>2, <1>3, <1>5, <2>1, <3>1, <4>1, <4>3 DEF OwnOk
    <3> QED
      BY <3>2, <3>3
  <2> QED
    BY <2>3, <2>4
<1> QED
  BY <1>6, <1>7

\* No handshake counts below zero: every broadcast that ends is one it has left.
HandshakesOk == greets \in [Clients -> 0..Greeting] /\ \A c \in Clients : OwnOk(c)

\* Every step keeps the handshakes right.
LEMMA HandshakeStep ==
  ASSUME ServerTypeOK, ServerTypeOK', SendingOk, ServerOk, HandshakesOk, [Next]_vars
  PROVE  HandshakesOk'
<1> USE LiveSyncAssumption
<1>1. /\ queue \in Seq(Payloads) /\ jobs \subseteq Jobs
      /\ link \in [Clients -> {"none", "up", "cut"}]
      /\ greets \in [Clients -> 0..Greeting]
      /\ \A c \in Clients : OwnOk(c) /\ Once(queue, QBy(c))
  BY DEF ServerTypeOK, HandshakesOk, OwnOk
<1>2. "app" \in Actors /\ "flush" \in Actors /\ Clients \subseteq Actors
      /\ \A c \in Clients : c # "app" /\ c # "flush"
  BY DEF Actors
<1>3. ASSUME greets' = greets, NEW p \in Payloads, p.by \in {"app", "flush"},
             \/ queue' \in {queue, Append(queue, p)}
             \/ \E i \in DOMAIN queue : queue' = RemoveAt(queue, i),
             \A c \in Clients : link[c] = "up" => link'[c] = "up",
             \A m \in jobs' : \E j \in jobs : m.by = j.by
      PROVE  HandshakesOk'
  <2>1. ASSUME NEW c \in Clients
        PROVE  OwnOk(c)'
    <3>1. p \notin QBy(c)
      BY <1>2, <1>3 DEF QBy
    <3>2. /\ Has(queue', QBy(c)) => Has(queue, QBy(c))
          /\ Once(queue, QBy(c)) => Once(queue', QBy(c))
      <4>1. CASE queue' = queue
        BY <4>1
      <4>2. CASE queue' = Append(queue, p)
        BY <1>1, <3>1, <4>2, AppendFacts
      <4>3. CASE \E i \in DOMAIN queue : queue' = RemoveAt(queue, i)
        BY <1>1, <4>3, RemoveFacts
      <4> QED
        BY <1>3, <4>1, <4>2, <4>3
    <3> QED
      BY <1>1, <1>3, <3>2, OwnSame
  <2> QED
    BY <1>1, <1>3, <2>1 DEF HandshakesOk
<1>4. ASSUME greets' = greets, queue' = queue,
             \A c \in Clients : link[c] = "up" => link'[c] = "up",
             \A m \in jobs' : \E j \in jobs : m.by = j.by
      PROVE  HandshakesOk'
  <2>1. Hello("app") \in Payloads /\ Hello("app").by = "app"
    BY <1>2, HelloType DEF Hello, Payload
  <2> QED
    BY <1>3, <1>4, <2>1
<1>5. ASSUME NEW k \in Keys, Change(k)
      PROVE  HandshakesOk'
  <2>1. /\ Payload(k, world'[k], "app") \in Payloads
        /\ Payload(k, world'[k], "app").by = "app"
    BY <1>5 DEF Change, ServerTypeOK, Payload, Payloads, Actors
  <2>2. queue' = Append(queue, Payload(k, world'[k], "app")) /\ UNCHANGED <<greets, jobs, link>>
    BY <1>5 DEF Change, wire
  <2> QED
    BY <1>3, <2>1, <2>2
<1>6. ASSUME NEW k \in Keys, ChangeCoalesced(k)
      PROVE  HandshakesOk'
  BY <1>4, <1>6 DEF ChangeCoalesced, wire
<1>7. CASE FlushTake \/ FlushEnd
  BY <1>4, <1>7 DEF FlushTake, FlushEnd, wire
<1>8. CASE FlushNext
  <2>1. PICK p \in batch : queue' = Append(queue, p)
    BY <1>8 DEF FlushNext
  <2>2. p \in Payloads /\ p.by = "flush" /\ UNCHANGED <<greets, jobs, link>>
    BY <1>8 DEF FlushNext, ServerOk, ServerTypeOK, wire
  <2> QED
    BY <1>3, <2>1, <2>2
<1>9. CASE Stamp
  <2>1. PICK j : jobs' = {j} /\ j.by = Head(queue).by
    <3> DEFINE r == [seq |-> seq', key |-> Head(queue).key, ver |-> Head(queue).ver,
                     by |-> Head(queue).by, to |-> member, dead |-> {}]
    <3>1. jobs' = {r}
      BY <1>9 DEF Stamp, LockFree
    <3>2. r.by = Head(queue).by
      OBVIOUS
    <3> QED
      BY <3>1, <3>2
  <2>2. queue # <<>> /\ queue' = Tail(queue) /\ UNCHANGED <<greets, link>>
    BY <1>9 DEF Stamp, wire
  <2>3. ASSUME NEW c \in Clients
        PROVE  OwnOk(c)'
    <3>1. /\ Head(queue) \in Payloads
          /\ Has(queue', QBy(c)) => Has(queue, QBy(c))
          /\ Once(queue', QBy(c))
          /\ Head(queue) \in QBy(c) => ~Has(queue', QBy(c)) /\ Has(queue, QBy(c))
      BY <1>1, <2>2, TailFacts
    <3>2. j.by = c => Head(queue) \in QBy(c)
      BY <2>1, <3>1 DEF QBy
    <3>3. QBy(c)' = QBy(c)
      BY DEF QBy
    <3> QED
      BY <1>1, <2>1, <2>2, <3>1, <3>2, <3>3 DEF OwnOk
  <2> QED
    BY <1>1, <2>2, <2>3 DEF HandshakesOk
<1>10. ASSUME NEW j \in jobs, NEW c \in Clients, Deliver(j, c) \/ SendFails(j, c)
       PROVE  HandshakesOk'
  <2>1. UNCHANGED <<greets, queue, link>>
    BY <1>10 DEF Deliver, SendFails, wire
  <2>2. \A m \in jobs' : \E i \in jobs : m.by = i.by
    BY <1>10, SendEffect
  <2> QED
    BY <1>4, <2>1, <2>2
<1>11. ASSUME NEW j \in jobs, Finish(j)
       PROVE  HandshakesOk'
  <2>1. \A c \in Clients : greets'[c] \in 0..Greeting /\ OwnOk(c)'
    BY <1>1, <1>11, FinishOwn
  <2>2. greets' = [c \in Clients |-> greets'[c]]
    BY <1>1, <1>11 DEF Finish, Unowned
  <2> QED
    BY <2>1, <2>2 DEF HandshakesOk
<1>12. CASE CancelWaiting \/ CancelSending
  <2>1. /\ UNCHANGED <<greets, link>> /\ jobs' \subseteq jobs
        /\ queue' = queue \/ \E i \in DOMAIN queue : queue' = RemoveAt(queue, i)
    BY <1>12 DEF CancelWaiting, CancelSending, TimesOut, wire
  <2>2. Hello("app") \in Payloads /\ Hello("app").by = "app"
    BY <1>2, HelloType DEF Hello, Payload
  <2> QED
    BY <1>3, <2>1, <2>2
<1>13. ASSUME NEW d \in Clients, Accept(d)
       PROVE  HandshakesOk'
  <2>1. /\ link[d] = "none" /\ link' = [link EXCEPT ![d] = "up"] /\ jobs' = jobs
        /\ greets' = [greets EXCEPT ![d] = Greeting]
        /\ queue' = Append(queue, Hello(d)) /\ d \in Actors
    BY <1>2, <1>13 DEF Accept
  <2>2. ASSUME NEW c \in Clients
        PROVE  OwnOk(c)'
    <3>1. QBy(c)' = QBy(c)
      BY DEF QBy
    <3>2. CASE c = d
      <4>1. ~Has(queue, QBy(c)) /\ \A j \in jobs : j.by # c
        BY <1>1, <2>1, <3>2 DEF OwnOk
      <4>2. Once(queue', QBy(c))
        BY <1>1, <2>1, <3>2, <4>1, HelloBy
      <4> QED
        BY <1>1, <2>1, <3>1, <3>2, <4>1, <4>2 DEF OwnOk
    <3>3. CASE c # d
      <4>1. (Has(queue', QBy(c)) <=> Has(queue, QBy(c))) /\ Once(queue', QBy(c))
        BY <1>1, <2>1, <3>3, HelloBy
      <4> QED
        BY <1>1, <2>1, <3>1, <3>3, <4>1 DEF OwnOk
    <3> QED
      BY <3>2, <3>3
  <2> QED
    BY <1>1, <2>1, <2>2 DEF HandshakesOk
<1>14. ASSUME NEW d \in Clients, Lose(d)
       PROVE  HandshakesOk'
  <2>1. /\ link' = [link EXCEPT ![d] = "cut"] /\ greets' = Unowned({d})
        /\ queue' = Append(Disowned({d}), Hello("app")) /\ {d} \in SUBSET Clients
    BY <1>14 DEF Lose
  <2>2. \A m \in jobs' : \E j \in jobs : m.by = IF j.by = d THEN "app" ELSE j.by
    <3>1. ASSUME NEW j \in jobs
          PROVE  [j EXCEPT !.to = @ \ {d}, !.dead = @ \ {d},
                           !.by = IF @ = d THEN "app" ELSE @].by
                   = IF j.by = d THEN "app" ELSE j.by
      BY <1>1 DEF Jobs
    <3> QED
      BY <1>14, <3>1 DEF Lose
  <2>3. ASSUME NEW c \in Clients
        PROVE  OwnOk(c)'
    <3>1. QBy(c)' = QBy(c) /\ Disowned({d}) \in Seq(Payloads)
      BY <2>1, DisownedFacts DEF QBy
    <3>2. /\ Has(queue', QBy(c)) <=> Has(Disowned({d}), QBy(c))
          /\ Once(Disowned({d}), QBy(c)) => Once(queue', QBy(c))
      BY <1>2, <2>1, <3>1, HelloBy
    <3>3. CASE c = d
      <4>1. ~Has(Disowned({d}), QBy(c)) /\ Once(Disowned({d}), QBy(c))
        BY <2>1, <3>3, DisownedBy
      <4>2. \A m \in jobs' : m.by # c
        BY <1>2, <2>2, <3>3
      <4> QED
        BY <3>1, <3>2, <4>1, <4>2 DEF OwnOk
    <3>4. CASE c # d
      <4>1. /\ Has(Disowned({d}), QBy(c)) <=> Has(queue, QBy(c))
            /\ Once(Disowned({d}), QBy(c)) <=> Once(queue, QBy(c))
        BY <2>1, <3>4, DisownedBy
      <4>2. greets'[c] = greets[c] /\ link'[c] = link[c]
        BY <1>1, <2>1, <3>4 DEF Unowned
      <4>3. \A m \in jobs' : m.by = c => \E j \in jobs : j.by = c
        BY <1>2, <2>2
      <4> QED
        BY <1>1, <3>2, <4>1, <4>2, <4>3, OwnSame
    <3> QED
      BY <3>3, <3>4
  <2> QED
    BY <1>1, <2>1, <2>3 DEF HandshakesOk, Unowned
<1>15. CASE Restart
  <2>1. queue' = <<>> /\ jobs' = {} /\ greets' = [c \in Clients |-> 0]
    BY <1>15 DEF Restart
  <2>2. \A c \in Clients : OwnOk(c)'
    BY <2>1 DEF OwnOk, Has, Once
  <2> QED
    BY <2>1, <2>2 DEF HandshakesOk
<1>16. ASSUME NEW c \in Clients,
              AnswerSync(c) \/ Opened(c) \/ ReceiveEvent(c) \/ ReceiveSync(c)
       PROVE  HandshakesOk'
  BY <1>4, <1>16 DEF AnswerSync, Opened, ReceiveEvent, ReceiveSync, server, wire
<1>17. ASSUME NEW d \in Clients, SeesClose(d)
       PROVE  HandshakesOk'
  <2>1. /\ link[d] = "cut" /\ link' = [link EXCEPT ![d] = "none"]
        /\ UNCHANGED <<greets, queue, jobs>>
    BY <1>17 DEF SeesClose, server
  <2>2. \A c \in Clients : link[c] = "up" => link'[c] = "up"
    BY <1>1, <2>1
  <2> QED
    BY <1>4, <2>1, <2>2
<1>18. CASE Resyncing
  BY <1>4, <1>18 DEF Resyncing, FetchRead, FetchEnd, server, wire
<1>19. CASE UNCHANGED vars
  BY <1>4, <1>19 DEF vars, server, wire
<1>20. CASE Broadcasting
  BY <1>7, <1>8, <1>9, <1>10, <1>11, <1>20 DEF Broadcasting
<1>21. CASE Connecting
  BY <1>13, <1>16, <1>17, <1>21 DEF Connecting
<1>22. CASE Environment
  BY <1>5, <1>6, <1>10, <1>12, <1>14, <1>15, <1>22 DEF Environment
<1> QED
  BY <1>18, <1>19, <1>20, <1>21, <1>22 DEF Next, System

--------------------------------------------------------------------------------
(* The tab: types *)

\* Answers of the REST reads: of some of the keys, a version each.
Answers == UNION {[K -> Nat] : K \in SUBSET Keys}
Reads   == [pc : {"idle", "ask", "answer"}, got : Answers, cur : Nat]

\* The types of what a tab keeps.
TabStateOK ==
  /\ stage \in [Clients -> {"shut", "open", "ready"}]
  /\ opened \in [Clients -> BOOLEAN]
  /\ up \in [Clients -> Nat \cup {None}]
  /\ cursor \in [Clients -> Nat]
  /\ view \in [Clients -> [Keys -> Nat]]
  /\ blame \in [Clients -> SUBSET Keys]
  /\ fetch \in [Clients -> [Sources -> Reads]]

\* No read, and a read that has just begun.
LEMMA NoFetchType ==
  /\ NoFetch \in Reads /\ NoFetch.pc = "idle" /\ DOMAIN NoFetch.got = {} /\ NoFetch.cur = 0
  /\ \A n \in Nat : /\ Fetching(n) \in Reads /\ Fetching(n).pc = "ask"
                    /\ DOMAIN Fetching(n).got = {} /\ Fetching(n).cur = n
<1>1. <<>> \in [{} -> Nat] /\ DOMAIN <<>> = {}
  OBVIOUS
<1>2. <<>> \in Answers
  BY <1>1 DEF Answers
<1> QED
  BY <1>1, <1>2 DEF NoFetch, Fetching, Reads

\* An answer is about keys, and has versions.
LEMMA AnswerType ==
  ASSUME NEW a \in Answers
  PROVE  DOMAIN a \subseteq Keys /\ \A k \in DOMAIN a : a[k] \in Nat
BY DEF Answers

\* What the types say of one read.
LEMMA FetchTypes ==
  ASSUME TabStateOK, NEW c \in Clients, NEW s \in Sources
  PROVE  /\ fetch[c][s] \in Reads
         /\ fetch[c][s].pc \in {"idle", "ask", "answer"} /\ fetch[c][s].cur \in Nat
         /\ DOMAIN fetch[c][s].got \subseteq Keys
         /\ \A k \in DOMAIN fetch[c][s].got : fetch[c][s].got[k] \in Nat
<1>1. fetch[c][s] \in Reads
  BY DEF TabStateOK
<1>2. /\ fetch[c][s].got \in Answers /\ fetch[c][s].cur \in Nat
      /\ fetch[c][s].pc \in {"idle", "ask", "answer"}
  BY <1>1 DEF Reads
<1> QED
  BY <1>1, <1>2, AnswerType

\* A read is answered with what the server holds; the keys that failed are blamed.
LEMMA ReadEffect ==
  ASSUME TabStateOK, ServerTypeOK, NEW d \in Clients, NEW s \in Sources, FetchRead(d, s)
  PROVE  \E failed \in SUBSET Keys, r \in Reads :
           /\ r.pc = "answer" /\ r.got = [k \in Keys \ failed |-> world[k]]
           /\ r.cur = fetch[d][s].cur
           /\ fetch' = [fetch EXCEPT ![d][s] = r]
           /\ blame' = [blame EXCEPT ![d] = @ \cup failed]
<1>1. PICK failed \in SUBSET Keys :
        /\ fetch' = [fetch EXCEPT ![d][s].pc = "answer",
                                  ![d][s].got = [k \in Keys \ failed |-> world[k]]]
        /\ blame' = [blame EXCEPT ![d] = @ \cup failed]
  BY DEF FetchRead
<1> DEFINE got == [k \in Keys \ failed |-> world[k]]
           r == [fetch[d][s] EXCEPT !.pc = "answer", !.got = got]
<1>2. got \in Answers
  <2>1. got \in [Keys \ failed -> Nat]
    BY DEF ServerTypeOK
  <2> QED
    BY <2>1 DEF Answers
<1>3. fetch[d][s] \in Reads /\ fetch \in [Clients -> [Sources -> Reads]]
  BY DEF TabStateOK
<1>4. r \in Reads /\ r.pc = "answer" /\ r.got = got /\ r.cur = fetch[d][s].cur
  <2> HIDE DEF got
  <2> QED
    BY <1>2, <1>3 DEF Reads
<1>5. fetch' = [fetch EXCEPT ![d][s] = r]
  BY <1>1, <1>3
<1> HIDE DEF r
<1> QED
  BY <1>1, <1>4, <1>5

\* Every step keeps the types of what the tabs keep.
LEMMA TabStateStep ==
  ASSUME ServerTypeOK, ServerTypeOK', TabStateOK, [Next]_vars
  PROVE  TabStateOK'
<1> USE LiveSyncAssumption
<1>1. ASSUME UNCHANGED <<stage, opened, up, cursor, view, blame, fetch>>
      PROVE  TabStateOK'
  BY <1>1 DEF TabStateOK
<1>2. ASSUME NEW c \in Clients, Opened(c)
      PROVE  TabStateOK'
  <2>1. Fetching(0) \in Reads
    BY NoFetchType
  <2>2. fetch' \in [Clients -> [Sources -> Reads]]
    BY <1>2, <2>1 DEF Opened, TabStateOK, Sources
  <2> QED
    BY <1>2, <2>2 DEF Opened, TabStateOK, wire
<1>3. ASSUME NEW c \in Clients, down[c] # <<>>
      PROVE  Head(down[c]) \in Frames \cup Replies
  <2>1. down[c] \in Wire
    BY TabFacts
  <2> QED
    BY <1>3, <2>1, HeadTailProperties DEF Wire
<1>4. ASSUME NEW c \in Clients, ReceiveEvent(c)
      PROVE  TabStateOK'
  <2> DEFINE f == Head(down[c])
  <2>1. f \in Frames
    BY <1>3, <1>4 DEF ReceiveEvent, Frames, Replies
  <2>2. f.seq \in Nat /\ f.ver \in Nat
    BY <2>1 DEF Frames
  <2>3. cursor' \in [Clients -> Nat] /\ stage' \in [Clients -> {"shut", "open", "ready"}]
        /\ up' \in [Clients -> Nat \cup {None}]
    BY <1>4, <2>2 DEF ReceiveEvent, Ready, Larger, TabStateOK
  <2>4. view' \in [Clients -> [Keys -> Nat]]
    <3>1. [k \in Keys |-> IF k = f.key THEN f.ver ELSE view[c][k]] \in [Keys -> Nat]
      BY <2>2 DEF TabStateOK
    <3> QED
      BY <1>4, <3>1 DEF ReceiveEvent, TabStateOK
  <2>5. blame' \in [Clients -> SUBSET Keys]
    BY <1>4 DEF ReceiveEvent, TabStateOK
  <2> QED
    BY <1>4, <2>3, <2>4, <2>5 DEF ReceiveEvent, TabStateOK
<1>5. ASSUME NEW c \in Clients, ReceiveSync(c)
      PROVE  TabStateOK'
  <2> DEFINE f == Head(down[c])
  <2>1. f \in Replies
    BY <1>3, <1>5 DEF ReceiveSync, Frames, Replies
  <2>2. f.cur \in Nat
    BY <2>1 DEF Replies
  <2>3. cursor' \in [Clients -> Nat] /\ stage' \in [Clients -> {"shut", "open", "ready"}]
        /\ up' \in [Clients -> Nat \cup {None}]
    BY <1>5, <2>2 DEF ReceiveSync, Ready, TabStateOK
  <2>4. fetch' \in [Clients -> [Sources -> Reads]]
    <3>1. Fetching(f.cur) \in Reads
      BY <2>2, NoFetchType
    <3>2. fetch' = fetch \/ fetch' = [fetch EXCEPT ![c]["sync"] = Fetching(f.cur)]
      BY <1>5 DEF ReceiveSync
    <3> HIDE DEF f
    <3>3. fetch \in [Clients -> [Sources -> Reads]]
      BY DEF TabStateOK
    <3>4. CASE fetch' = [fetch EXCEPT ![c]["sync"] = Fetching(f.cur)]
      BY <3>1, <3>3, <3>4 DEF Sources
    <3> QED
      BY <3>2, <3>3, <3>4
  <2> QED
    BY <1>5, <2>3, <2>4 DEF ReceiveSync, TabStateOK
<1>6. ASSUME NEW c \in Clients, SeesClose(c) \/ AnswerSync(c)
      PROVE  TabStateOK'
  BY <1>6 DEF SeesClose, AnswerSync, TabStateOK, tab
<1>7. ASSUME NEW c \in Clients, NEW s \in Sources, FetchRead(c, s)
      PROVE  TabStateOK'
  <2>1. fetch' \in [Clients -> [Sources -> Reads]] /\ blame' \in [Clients -> SUBSET Keys]
    <3>1. PICK failed \in SUBSET Keys, r \in Reads :
            /\ r.pc = "answer" /\ r.got = [k \in Keys \ failed |-> world[k]]
            /\ r.cur = fetch[c][s].cur
            /\ fetch' = [fetch EXCEPT ![c][s] = r]
            /\ blame' = [blame EXCEPT ![c] = @ \cup failed]
      BY <1>7, ReadEffect
    <3> QED
      BY <3>1 DEF TabStateOK
  <2> QED
    BY <1>7, <2>1 DEF FetchRead, TabStateOK, wire
<1>8. ASSUME NEW c \in Clients, NEW s \in Sources, FetchEnd(c, s)
      PROVE  TabStateOK'
  <2> DEFINE got == fetch[c][s].got
  <2>1. /\ DOMAIN got \subseteq Keys /\ \A k \in DOMAIN got : got[k] \in Nat
        /\ fetch[c][s].cur \in Nat
    BY FetchTypes
  <2>2. fetch' \in [Clients -> [Sources -> Reads]]
    BY <1>8, NoFetchType DEF FetchEnd, TabStateOK
  <2>3. cursor' \in [Clients -> Nat]
    BY <1>8, <2>1 DEF FetchEnd, Larger, TabStateOK
  <2>4. view' \in [Clients -> [Keys -> Nat]]
    <3>1. [k \in Keys |-> IF k \in DOMAIN got THEN got[k] ELSE view[c][k]] \in [Keys -> Nat]
      BY <2>1 DEF TabStateOK
    <3>2. view' = [view EXCEPT ![c] =
                     [k \in Keys |-> IF k \in DOMAIN got THEN got[k] ELSE view[c][k]]]
      BY <1>8 DEF FetchEnd, TabStateOK
    <3> QED
      BY <3>1, <3>2 DEF TabStateOK
  <2>5. blame' \in [Clients -> SUBSET Keys]
    BY <1>8, <2>1 DEF FetchEnd, TabStateOK
  <2> QED
    BY <1>8, <2>2, <2>3, <2>4, <2>5 DEF FetchEnd, TabStateOK, wire
<1>9. CASE UNCHANGED vars
  BY <1>1, <1>9 DEF vars, tab, wire
<1>10. CASE Broadcasting
  BY <1>1, <1>10 DEF Broadcasting, FlushTake, FlushNext, FlushEnd, Stamp, Finish, Deliver,
                     tab, wire
<1>11. CASE Connecting
  <2>1. ASSUME NEW c \in Clients, Accept(c)
        PROVE  TabStateOK'
    BY <1>1, <2>1 DEF Accept
  <2> QED
    BY <1>2, <1>4, <1>5, <1>6, <1>11, <2>1 DEF Connecting
<1>12. CASE Resyncing
  BY <1>7, <1>8, <1>12 DEF Resyncing
<1>13. CASE Environment
  BY <1>1, <1>13 DEF Environment, Change, ChangeCoalesced, SendFails, CancelWaiting, CancelSending,
                     TimesOut, Lose, Restart, tab, wire
<1> QED
  BY <1>9, <1>10, <1>11, <1>12, <1>13 DEF Next, System

--------------------------------------------------------------------------------
(* The tab and its connection *)

\* A connected tab is in the list; a tab without a socket has none open; a request is
\* on its way from a ready socket only; before its first socket a tab has seen no
\* frame; the reads of the shell move no cursor; and once a handshake frame of a
\* connection is out, a number was given.
SideOk(c) ==
  /\ link[c] = "up" => c \in member
  /\ link[c] = "none" => stage[c] = "shut"
  /\ stage[c] # "ready" => up[c] = None
  /\ ~opened[c] => cursor[c] = 0 /\ fetch[c]["sync"].pc = "idle" /\ stage[c] = "shut"
  /\ fetch[c]["shell"].cur = 0
  /\ link[c] = "up" /\ greets[c] < Greeting => seq > 0

\* No answer is newer than the world.
GotOk(c) == \A s \in Sources :
              \A k \in DOMAIN fetch[c][s].got : fetch[c][s].got[k] <= world[k]

\* The tab c takes no step of its own.
Steady(c) == /\ stage'[c] = stage[c] /\ opened'[c] = opened[c] /\ up'[c] = up[c]
             /\ cursor'[c] = cursor[c] /\ view'[c] = view[c] /\ fetch'[c] = fetch[c]
             /\ blame'[c] = blame[c]

\* The steps of one tab and its connection.
TabMove(d) == \/ Accept(d) \/ AnswerSync(d) \/ Opened(d) \/ ReceiveEvent(d)
              \/ ReceiveSync(d) \/ SeesClose(d)
              \/ \E s \in Sources : FetchRead(d, s) \/ FetchEnd(d, s)

\* The steps of one tab leave the others, and the server's list, alone.
LEMMA OtherTabs ==
  ASSUME ServerTypeOK, TabStateOK, NEW d \in Clients, TabMove(d), NEW c \in Clients, c # d
  PROVE  /\ Steady(c) /\ down'[c] = down[c] /\ link'[c] = link[c]
         /\ c \in member' <=> c \in member
<1>1. CASE Accept(d)
  BY <1>1 DEF Accept, Steady, ServerTypeOK
<1>2. CASE AnswerSync(d)
  BY <1>2 DEF AnswerSync, Steady, ServerTypeOK, TabStateOK, tab, server
<1>3. CASE Opened(d)
  BY <1>3 DEF Opened, Steady, TabStateOK, wire, server
<1>4. CASE ReceiveEvent(d)
  BY <1>4 DEF ReceiveEvent, Ready, Steady, ServerTypeOK, TabStateOK, server
<1>5. CASE ReceiveSync(d)
  BY <1>5 DEF ReceiveSync, Ready, Steady, ServerTypeOK, TabStateOK, server
<1>6. CASE SeesClose(d)
  BY <1>6 DEF SeesClose, Steady, ServerTypeOK, TabStateOK, server
<1>7. ASSUME NEW s \in Sources, FetchRead(d, s)
      PROVE  /\ Steady(c) /\ down'[c] = down[c] /\ link'[c] = link[c]
             /\ c \in member' <=> c \in member
  <2>1. fetch'[c] = fetch[c] /\ blame'[c] = blame[c]
    <3>1. PICK failed \in SUBSET Keys, r \in Reads :
            /\ r.pc = "answer" /\ r.got = [k \in Keys \ failed |-> world[k]]
            /\ r.cur = fetch[d][s].cur
            /\ fetch' = [fetch EXCEPT ![d][s] = r]
            /\ blame' = [blame EXCEPT ![d] = @ \cup failed]
      BY <1>7, ReadEffect
    <3> QED
      BY <3>1 DEF TabStateOK
  <2> QED
    BY <1>7, <2>1 DEF FetchRead, Steady, wire, server
<1>8. ASSUME NEW s \in Sources, FetchEnd(d, s)
      PROVE  /\ Steady(c) /\ down'[c] = down[c] /\ link'[c] = link[c]
             /\ c \in member' <=> c \in member
  BY <1>8 DEF FetchEnd, Steady, TabStateOK, wire, server
<1> QED
  BY <1>1, <1>2, <1>3, <1>4, <1>5, <1>6, <1>7, <1>8 DEF TabMove

\* A step that is not the tab's own keeps SideOk.
LEMMA SideFrame ==
  ASSUME NEW c \in Clients, SideOk(c), Steady(c),
         link'[c] = "up" => /\ link[c] = "up" /\ c \in member'
                            /\ greets'[c] < Greeting => seq' > 0,
         link'[c] = "none" => link[c] = "none"
  PROVE  SideOk(c)'
BY DEF SideOk, Steady

\* The steps of the server, the changes and the faults.
ServerMove ==
  \/ FlushTake \/ FlushNext \/ FlushEnd \/ Stamp
  \/ \E j \in jobs : Finish(j) \/ \E c \in Clients : Deliver(j, c) \/ SendFails(j, c)
  \/ \E k \in Keys : Change(k) \/ ChangeCoalesced(k)
  \/ CancelWaiting \/ CancelSending
  \/ \E c \in Clients : Lose(c)
  \/ Restart

\* Every step is one of these.
LEMMA Moves ==
  ASSUME [Next]_vars
  PROVE  ServerMove \/ (\E d \in Clients : TabMove(d)) \/ UNCHANGED vars
BY DEF Next, System, Environment, Broadcasting, Connecting, Resyncing, ServerMove, TabMove

\* The server changes nothing in a tab.
LEMMA ServerSteady ==
  ASSUME ServerMove, NEW c \in Clients
  PROVE  Steady(c)
<1>1. UNCHANGED tab /\ UNCHANGED up
  BY DEF ServerMove, FlushTake, FlushNext, FlushEnd, Stamp, Finish, Deliver, SendFails, Change,
         ChangeCoalesced, CancelWaiting, CancelSending, TimesOut, Lose, Restart, wire
<1> QED
  BY <1>1 DEF Steady, tab

\* Every step keeps SideOk.
LEMMA SideStep ==
  ASSUME ServerTypeOK, ServerTypeOK', TabStateOK, SendingOk, ServerOk, HandshakesOk,
         [Next]_vars, NEW c \in Clients, SideOk(c)
  PROVE  SideOk(c)'
<1> USE LiveSyncAssumption
<1>0. /\ seq \in Nat /\ member \subseteq Clients /\ greets \in [Clients -> 0..Greeting]
      /\ link \in [Clients -> {"none", "up", "cut"}] /\ Greeting \in Nat
      /\ \A j \in jobs : j \in Jobs /\ j.seq \in Nat /\ j.seq > 0 /\ j.seq <= seq
  BY TabFacts DEF ServerTypeOK, HandshakesOk, ServerOk, SendingOk
<1>1. ASSUME Steady(c), link'[c] = link[c], c \in member => c \in member',
             greets'[c] = greets[c], seq > 0 => seq' > 0
      PROVE  SideOk(c)'
  BY <1>1, SideFrame DEF SideOk
<1>2. CASE ServerMove
  <2>0. Steady(c)
    BY <1>2, ServerSteady
  <2>1. CASE UNCHANGED <<seq, member, greets, link>>
    BY <1>1, <2>0, <2>1
  <2>2. CASE Stamp
    <3>1. seq' = seq + 1 /\ UNCHANGED <<member, greets, link>>
      BY <2>2 DEF Stamp, wire
    <3>2. seq' > 0
      BY <1>0, <3>1
    <3> QED
      BY <1>1, <2>0, <3>1, <3>2
  <2>3. ASSUME NEW j \in jobs, Finish(j)
        PROVE  SideOk(c)'
    <3>1. /\ member' = member \ j.dead /\ link' = Closed(j.dead) /\ seq' = seq
      BY <2>3 DEF Finish
    <3>2. seq > 0
      BY <1>0
    <3>3. link'[c] = "up" => link[c] = "up" /\ c \in member'
      BY <3>1 DEF Closed, SideOk
    <3>4. link'[c] = "none" => link[c] = "none"
      BY <3>1 DEF Closed
    <3> QED
      BY <2>0, <3>1, <3>2, <3>3, <3>4, SideFrame
  <2>4. ASSUME NEW d \in Clients, Lose(d)
        PROVE  SideOk(c)'
    <3>1. /\ member' = member \ {d} /\ link' = [link EXCEPT ![d] = "cut"] /\ seq' = seq
          /\ greets' = Unowned({d})
      BY <2>4 DEF Lose
    <3>2. link'[c] = "up" => link[c] = "up" /\ c \in member' /\ greets'[c] = greets[c]
      BY <1>0, <3>1 DEF Unowned, SideOk
    <3>3. link'[c] = "none" => link[c] = "none"
      BY <1>0, <3>1
    <3> QED
      BY <2>0, <3>1, <3>2, <3>3, SideFrame DEF SideOk
  <2>5. CASE Restart
    <3>1. link' = Closed(Clients)
      BY <2>5 DEF Restart
    <3>2. link'[c] # "up" /\ (link'[c] = "none" => link[c] = "none")
      BY <3>1 DEF Closed
    <3> QED
      BY <2>0, <3>2, SideFrame
  <2>6. CASE ~(Stamp \/ (\E j \in jobs : Finish(j)) \/ (\E d \in Clients : Lose(d)) \/ Restart)
    BY <1>2, <2>1, <2>6 DEF ServerMove, FlushTake, FlushNext, FlushEnd, Deliver, SendFails, Change,
         ChangeCoalesced, CancelWaiting, CancelSending, TimesOut, wire
  <2> QED
    BY <2>2, <2>3, <2>4, <2>5, <2>6
<1>3. ASSUME NEW d \in Clients, TabMove(d), c # d
      PROVE  SideOk(c)'
  <2>1. Steady(c) /\ link'[c] = link[c] /\ (c \in member' <=> c \in member)
    BY <1>3, OtherTabs
  <2>2. seq' = seq /\ greets'[c] = greets[c]
    BY <1>0, <1>3 DEF TabMove, Accept, AnswerSync, Opened, ReceiveEvent, ReceiveSync, SeesClose,
                      FetchRead, FetchEnd, server
  <2> QED
    BY <1>1, <2>1, <2>2
<1>4. CASE Accept(c)
  <2>1. /\ link'[c] = "up" /\ c \in member' /\ greets'[c] = Greeting
        /\ UNCHANGED <<stage, up, opened, cursor, fetch>>
    BY <1>0, <1>4 DEF Accept
  <2> QED
    BY <1>0, <2>1 DEF SideOk
<1>5. CASE AnswerSync(c)
  <2>1. UNCHANGED <<link, member, greets, seq, stage, opened, cursor, fetch>> /\ up'[c] = None
    BY <1>5 DEF AnswerSync, server, tab, TabStateOK
  <2> QED
    BY <2>1 DEF SideOk
<1>6. CASE Opened(c)
  <2>1. /\ UNCHANGED <<link, member, greets, seq, up, cursor>> /\ link[c] # "none"
        /\ opened'[c] = TRUE /\ stage[c] = "shut"
    BY <1>6 DEF Opened, server, wire, TabStateOK
  <2>2. fetch'[c]["shell"].cur = 0
    <3>1. fetch' = [fetch EXCEPT ![c]["shell"] = Fetching(0)] \/ fetch' = fetch
      BY <1>6 DEF Opened
    <3>2. "shell" \in Sources /\ Fetching(0).cur = 0
      BY NoFetchType DEF Sources
    <3> QED
      BY <3>1, <3>2 DEF TabStateOK, SideOk
  <2> QED
    BY <2>1, <2>2 DEF SideOk
<1>7. CASE ReceiveEvent(c)
  <2>1. /\ UNCHANGED <<link, member, greets, seq, opened, fetch>> /\ stage[c] # "shut"
        /\ stage'[c] = "ready"
    BY <1>7 DEF ReceiveEvent, Ready, server, TabStateOK
  <2> QED
    BY <2>1 DEF SideOk
<1>8. CASE ReceiveSync(c)
  <2>1. /\ UNCHANGED <<link, member, greets, seq, opened>> /\ stage[c] # "shut"
        /\ stage'[c] = "ready"
    BY <1>8 DEF ReceiveSync, Ready, server, TabStateOK
  <2>2. fetch'[c]["shell"] = fetch[c]["shell"]
    BY <1>8 DEF ReceiveSync, TabStateOK, Sources
  <2> QED
    BY <2>1, <2>2 DEF SideOk
<1>9. CASE SeesClose(c)
  <2>1. /\ UNCHANGED <<member, greets, seq, opened, cursor, fetch>> /\ link'[c] = "none"
        /\ stage'[c] = "shut" /\ up'[c] = None
    BY <1>0, <1>9 DEF SeesClose, server, TabStateOK
  <2> QED
    BY <2>1 DEF SideOk
<1>10. ASSUME NEW s \in Sources, FetchRead(c, s)
       PROVE  SideOk(c)'
  <2>1. /\ UNCHANGED <<link, member, greets, seq, stage, up, opened, cursor>>
        /\ fetch[c][s].pc = "ask"
    BY <1>10 DEF FetchRead, server, wire
  <2>2. PICK failed \in SUBSET Keys, r \in Reads :
            /\ r.pc = "answer" /\ r.got = [k \in Keys \ failed |-> world[k]]
            /\ r.cur = fetch[c][s].cur
            /\ fetch' = [fetch EXCEPT ![c][s] = r]
            /\ blame' = [blame EXCEPT ![c] = @ \cup failed]
    BY <1>10, ReadEffect
  <2>3. /\ \A t \in Sources : fetch'[c][t].cur = fetch[c][t].cur
        /\ fetch[c]["sync"].pc = "idle" => fetch'[c]["sync"] = fetch[c]["sync"]
        /\ "shell" \in Sources
    BY <2>1, <2>2 DEF TabStateOK, Sources
  <2> QED
    BY <2>1, <2>3 DEF SideOk
<1>11. ASSUME NEW s \in Sources, FetchEnd(c, s)
       PROVE  SideOk(c)'
  <2>1. /\ UNCHANGED <<link, member, greets, seq, stage, up, opened>>
        /\ fetch[c][s].pc = "answer"
        /\ fetch' = [fetch EXCEPT ![c][s] = NoFetch]
        /\ cursor'[c] = Larger(cursor[c], fetch[c][s].cur)
    BY <1>11 DEF FetchEnd, server, wire, TabStateOK
  <2>2. fetch'[c]["shell"].cur = 0
    BY <2>1, NoFetchType DEF TabStateOK, Sources, SideOk
  <2>3. fetch[c]["sync"].pc = "idle" =>
          /\ fetch'[c]["sync"] = fetch[c]["sync"] /\ s = "shell" /\ fetch[c][s].cur = 0
    BY <2>1 DEF TabStateOK, Sources, SideOk
  <2>4. fetch[c]["sync"].pc = "idle" => cursor'[c] = cursor[c]
    <3>1. cursor[c] \in Nat
      BY DEF TabStateOK
    <3> QED
      BY <2>1, <2>3, <3>1 DEF Larger
  <2> QED
    BY <2>1, <2>2, <2>3, <2>4 DEF SideOk
<1>12. CASE UNCHANGED vars
  BY <1>12 DEF vars, server, wire, tab, SideOk
<1> QED
  BY <1>2, <1>3, <1>4, <1>5, <1>6, <1>7, <1>8, <1>9, <1>10, <1>11, <1>12, Moves DEF TabMove

\* Every step keeps GotOk: versions only grow.
LEMMA GotStep ==
  ASSUME ServerTypeOK, ServerTypeOK', TabStateOK, [Next]_vars, NEW c \in Clients, GotOk(c)
  PROVE  GotOk(c)'
<1>0. world \in [Keys -> Nat] /\ world' \in [Keys -> Nat]
  BY DEF ServerTypeOK
<1>1. ASSUME \A k \in Keys : world[k] <= world'[k],
             \A s \in Sources : \/ fetch'[c][s] = fetch[c][s]
                                \/ DOMAIN fetch'[c][s].got = {}
                                \/ \A k \in DOMAIN fetch'[c][s].got :
                                     k \in Keys /\ fetch'[c][s].got[k] = world'[k]
      PROVE  GotOk(c)'
  <2> SUFFICES ASSUME NEW s \in Sources, NEW k \in DOMAIN fetch'[c][s].got
               PROVE  fetch'[c][s].got[k] <= world'[k]
    BY DEF GotOk
  <2>1. CASE fetch'[c][s] = fetch[c][s]
    <3>1. k \in Keys /\ fetch[c][s].got[k] \in Nat /\ fetch[c][s].got[k] <= world[k]
      BY <2>1, FetchTypes DEF GotOk
    <3>2. world[k] \in Nat /\ world'[k] \in Nat /\ world[k] <= world'[k]
      BY <1>0, <1>1, <3>1
    <3> QED
      BY <2>1, <3>1, <3>2
  <2>2. CASE k \in Keys /\ fetch'[c][s].got[k] = world'[k]
    BY <1>0, <2>2
  <2> QED
    BY <1>1, <2>1, <2>2
<1>2. CASE ServerMove
  <2>1. \A k \in Keys : world[k] <= world'[k]
    <3>1. CASE \E q \in Keys : Change(q) \/ ChangeCoalesced(q)
      BY <1>0, <3>1 DEF Change, ChangeCoalesced
    <3>2. CASE world' = world
      BY <1>0, <3>2
    <3> QED
      BY <1>2, <3>1, <3>2 DEF ServerMove, FlushTake, FlushNext, FlushEnd, Stamp, Finish, Deliver,
                    SendFails, CancelWaiting, CancelSending, TimesOut, Lose, Restart, data
  <2> QED
    BY <1>1, <1>2, <2>1, ServerSteady DEF Steady
<1>3. ASSUME NEW d \in Clients, TabMove(d)
      PROVE  GotOk(c)'
  <2>1. world' = world /\ \A k \in Keys : world[k] <= world'[k]
    <3>1. world' = world
      BY <1>3 DEF TabMove, Accept, AnswerSync, Opened, ReceiveEvent, ReceiveSync, SeesClose,
                  FetchRead, FetchEnd, data
    <3> QED
      BY <1>0, <3>1
  <2>2. CASE fetch'[c] = fetch[c]
    BY <1>1, <2>1, <2>2
  <2>3. CASE c # d
    BY <1>3, <2>2, <2>3, OtherTabs DEF Steady
  <2>4. CASE c = d
    <3>1. CASE Accept(d) \/ AnswerSync(d) \/ ReceiveEvent(d) \/ SeesClose(d)
      BY <2>2, <3>1 DEF Accept, AnswerSync, ReceiveEvent, SeesClose, tab
    <3>2. CASE Opened(d) \/ ReceiveSync(d)
      <4>1. \/ fetch' = fetch
            \/ \E s \in Sources, n \in Nat : fetch' = [fetch EXCEPT ![c][s] = Fetching(n)]
        <5>1. CASE Opened(d)
          BY <2>4, <5>1 DEF Opened, Sources
        <5>2. CASE ReceiveSync(d)
          <6>1. down[d] \in Wire /\ down[d] # <<>>
            BY <5>2, TabFacts DEF ReceiveSync
          <6>2. Head(down[d]) \in Frames \cup Replies
            BY <6>1, HeadTailProperties DEF Wire
          <6>3. Head(down[d]).kind = "sync" => Head(down[d]).cur \in Nat
            BY <6>2 DEF Frames, Replies
          <6> QED
            BY <2>4, <5>2, <6>3 DEF ReceiveSync, Sources
        <5> QED
          BY <3>2, <5>1, <5>2
      <4>2. ASSUME NEW s \in Sources, NEW n \in Nat, fetch' = [fetch EXCEPT ![c][s] = Fetching(n)]
            PROVE  GotOk(c)'
        <5>1. \A t \in Sources : fetch'[c][t] = fetch[c][t] \/ DOMAIN fetch'[c][t].got = {}
          BY <4>2, NoFetchType DEF TabStateOK
        <5> QED
          BY <1>1, <2>1, <5>1
      <4> QED
        BY <2>2, <4>1, <4>2
    <3>3. ASSUME NEW s \in Sources, FetchRead(d, s)
          PROVE  GotOk(c)'
      <4>1. PICK failed \in SUBSET Keys, r \in Reads :
            /\ r.pc = "answer" /\ r.got = [k \in Keys \ failed |-> world[k]]
            /\ r.cur = fetch[d][s].cur
            /\ fetch' = [fetch EXCEPT ![d][s] = r]
            /\ blame' = [blame EXCEPT ![d] = @ \cup failed]
        BY <3>3, ReadEffect
      <4>2. \A t \in Sources : fetch'[c][t] = fetch[c][t] \/ fetch'[c][t] = r
        BY <2>4, <4>1 DEF TabStateOK
      <4>3. \A k \in DOMAIN r.got : k \in Keys /\ r.got[k] = world'[k]
        BY <2>1, <4>1
      <4> QED
        BY <1>1, <2>1, <4>2, <4>3
    <3>4. ASSUME NEW s \in Sources, FetchEnd(d, s)
          PROVE  GotOk(c)'
      <4>1. \A t \in Sources : fetch'[c][t] = fetch[c][t] \/ DOMAIN fetch'[c][t].got = {}
        BY <2>4, <3>4, NoFetchType DEF FetchEnd, TabStateOK
      <4> QED
        BY <1>1, <2>1, <4>1
    <3> QED
      BY <1>3, <3>1, <3>2, <3>3, <3>4 DEF TabMove
  <2> QED
    BY <2>3, <2>4
<1>4. CASE UNCHANGED vars
  <2>1. world' = world /\ fetch' = fetch
    BY <1>4 DEF vars, data, tab
  <2> QED
    BY <2>1 DEF GotOk
<1> QED
  BY <1>2, <1>3, <1>4, Moves

--------------------------------------------------------------------------------
(* A tab that is behind *)

\* The answers to sync.subscribe that report a gap.
Gaps == {r \in Replies : ~r.ok}

\* On the wire, too, an old version of a key is followed by the newest.
WireOk(c, k) == link[c] = "up" /\ k \notin lost =>
  Reached(c, k) \/ Covered(down[c], EOf(k), ENew(k))

\* A read is under way that will bring, or has brought, the newest version.
Asked(c, k) == \E s \in Sources :
  \/ fetch[c][s].pc = "ask"
  \/ /\ fetch[c][s].pc = "answer"
     /\ k \in DOMAIN fetch[c][s].got /\ fetch[c][s].got[k] = world[k]

\* An answer with a gap will come: the first frame will ask from cursor zero, or the
\* request from zero is on its way, or the answer is.
SyncSoon(c) == \/ stage[c] = "open" /\ cursor[c] = 0 /\ fetch[c]["sync"].pc = "idle"
               \/ up[c] = 0
               \/ Has(down[c], Gaps)

\* A tab that is behind will be reached: by a frame, by a read, or by a resync.
ViewOk(c, k) == link[c] = "up" /\ stage[c] # "shut" /\ k \notin lost \cup blame[c] =>
  \/ view[c][k] = world[k]
  \/ Reached(c, k) \/ Has(down[c], ENew(k))
  \/ Asked(c, k) \/ SyncSoon(c)

\* Every step of the server keeps what reaches a tab, but for a send.
LEMMA ServerReach ==
  ASSUME ServerTypeOK, ServerTypeOK', ServerOk, SendingOk, ServerMove,
         \A c \in Clients : SideOk(c), NEW k \in Keys, KeyOk(k)
  PROVE  /\ KeyOk(k)'
         /\ \/ \A c \in Clients : ReachKept(c, k)
            \/ \E j \in jobs, d \in Clients : Deliver(j, d) \/ SendFails(j, d)
<1>1. CASE FlushTake \/ FlushNext \/ FlushEnd
  BY <1>1, FlushReach
<1>2. CASE Stamp
  BY <1>2, StampReach DEF SideOk
<1>3. CASE \E j \in jobs : Finish(j)
  BY <1>3, FinishReach
<1>4. CASE \E j \in jobs, d \in Clients : Deliver(j, d) \/ SendFails(j, d)
  BY <1>4, SendKey
<1>5. CASE \E q \in Keys : Change(q) \/ ChangeCoalesced(q)
  BY <1>5, ChangeReach
<1>6. CASE CancelWaiting \/ CancelSending
  BY <1>6, CancelReach
<1>7. CASE \E d \in Clients : Lose(d)
  BY <1>7, LoseReach
<1>8. CASE Restart
  BY <1>8, RestartReach
<1> QED
  BY <1>1, <1>2, <1>3, <1>4, <1>5, <1>6, <1>7, <1>8 DEF ServerMove

\* No step of a tab changes what the server has under way.
LEMMA TabReach ==
  ASSUME ServerTypeOK, NEW d \in Clients, TabMove(d), NEW k \in Keys, KeyOk(k)
  PROVE  /\ KeyOk(k)'
         /\ UNCHANGED <<world, lost>>
         /\ \A c \in Clients : c # d \/ ~Accept(d) => ReachKept(c, k)
         /\ ~Accept(d) => \A c \in Clients : Reached(c, k)' = Reached(c, k)
<1>1. CASE Accept(d)
  <2>1. /\ UNCHANGED <<world, lost, pending, batch, jobs>> /\ queue' = Append(queue, Hello(d))
        /\ link' = [link EXCEPT ![d] = "up"] /\ queue \in Seq(Payloads) /\ d \in Actors
        /\ link \in [Clients -> {"none", "up", "cut"}]
    BY <1>1 DEF Accept, data, Actors, ServerTypeOK
  <2>2. /\ Covered(queue, QOf(k), QNew(k)) => Covered(queue', QOf(k), QNew(k))
        /\ Has(queue, QNew(k)) => Has(queue', QNew(k))
    BY <2>1, HelloKeeps
  <2>3. KeyOk(k)' /\ (Queued(k) => Queued(k)')
    BY <2>1, <2>2, KeySame
  <2>4. \A c \in Clients : Going(c, k)' = Going(c, k)
    BY <2>1 DEF Going
  <2> QED
    BY <1>1, <2>1, <2>3, <2>4 DEF ReachKept, Reached
<1>2. CASE ~Accept(d)
  <2>1. /\ UNCHANGED <<data, server, lost>>
        /\ \A c \in Clients : link'[c] = "up" => link[c] = "up"
    BY <1>2 DEF TabMove, AnswerSync, Opened, ReceiveEvent, ReceiveSync, SeesClose,
                FetchRead, FetchEnd, wire, ServerTypeOK
  <2>2. KeyOk(k)'
    BY <2>1, KeySame DEF data, server
  <2>3. \A c \in Clients : Reached(c, k)' = Reached(c, k)
    BY <2>1 DEF data, server, Reached, Queued, Stored, Going, QNew
  <2> QED
    BY <1>2, <2>1, <2>2, <2>3 DEF ReachKept, data
<1> QED
  BY <1>1, <1>2

\* What holds of a tab that takes no step and is sent nothing.
LEMMA ReachFrame ==
  ASSUME NEW c \in Clients, NEW k \in Keys, ReachKept(c, k), Steady(c), down'[c] = down[c],
         WireOk(c, k), ViewOk(c, k)
  PROVE  WireOk(c, k)' /\ ViewOk(c, k)'
<1> SUFFICES ASSUME link'[c] = "up", k \notin lost', ~Reached(c, k)'
             PROVE  WireOk(c, k)' /\ ViewOk(c, k)'
  BY DEF WireOk, ViewOk
<1>1. /\ link[c] = "up" /\ k \notin lost /\ world'[k] = world[k] /\ ~Reached(c, k)
  BY DEF ReachKept
<1>2. ENew(k)' = ENew(k) /\ EOf(k)' = EOf(k) /\ Gaps' = Gaps
  BY <1>1 DEF ENew, EOf, Gaps
<1>3. Asked(c, k)' = Asked(c, k) /\ SyncSoon(c)' = SyncSoon(c)
  BY <1>1, <1>2 DEF Steady, Asked, SyncSoon
<1>4. WireOk(c, k)'
  BY <1>1, <1>2 DEF WireOk
<1>5. ViewOk(c, k)'
  BY <1>1, <1>2, <1>3 DEF ViewOk, Steady
<1> QED
  BY <1>4, <1>5

\* A frame that leaves the job is on the wire, or its target is dead.
LEMMA SendView ==
  ASSUME ServerTypeOK, SendingOk, NEW j \in jobs, NEW d \in Clients,
         Deliver(j, d) \/ SendFails(j, d),
         NEW c \in Clients, NEW k \in Keys, KeyOk(k), WireOk(c, k), ViewOk(c, k)
  PROVE  WireOk(c, k)' /\ ViewOk(c, k)'
<1>1. /\ UNCHANGED <<world, lost, link>> /\ Steady(c)
      /\ (Queued(k) => Queued(k)')
      /\ down \in [Clients -> Wire]
  BY SendKey, ServerSteady DEF Deliver, SendFails, data, ServerMove, ServerTypeOK, Wire
<1>2. PICK m \in Jobs :
           /\ jobs' = {m} /\ jobs = {j}
           /\ m.seq = j.seq /\ m.key = j.key /\ m.ver = j.ver /\ m.by = j.by
           /\ (j.to \cup j.dead) \ {d} \subseteq m.to \cup m.dead
           /\ \/ down' = [down EXCEPT ![d] = Append(@, Event(j))]
              \/ down' = down /\ d \in m.dead
  BY SendEffect
<1>3. CASE down'[c] = down[c] /\ (c # d \/ d \in m.dead)
  <2>1. Going(c, k) => Going(c, k)'
    BY <1>1, <1>2, <1>3 DEF Going
  <2>2. ReachKept(c, k)
    BY <1>1, <2>1 DEF ReachKept, Reached
  <2> QED
    BY <1>1, <1>3, <2>2, ReachFrame
<1>4. CASE c = d /\ down'[c] = Append(down[c], Event(j))
  <2> SUFFICES ASSUME link[c] = "up", k \notin lost, ~Reached(c, k)'
               PROVE  WireOk(c, k)' /\ ViewOk(c, k)'
    BY <1>1 DEF WireOk, ViewOk
  <2>1. ~Queued(k)
    BY <1>1 DEF Reached
  <2>2. /\ Event(j) \in Frames /\ Event(j).key = j.key /\ Event(j).ver = j.ver
        /\ Event(j) \notin Gaps /\ down[c] \in Wire
    <3>1. Event(j) \in Frames
      BY EventType DEF ServerTypeOK
    <3>2. Event(j).kind = "event" /\ Event(j).key = j.key /\ Event(j).ver = j.ver
      BY DEF Event
    <3>3. Event(j) \notin Replies
      BY <3>2 DEF Replies
    <3> QED
      BY <1>1, <3>1, <3>2, <3>3 DEF Gaps
  <2>3. ENew(k)' = ENew(k) /\ EOf(k)' = EOf(k)
    BY <1>1 DEF ENew, EOf
  <2>4. CASE j.key = k
    <3>1. Event(j) \in ENew(k)
      BY <2>1, <2>2, <2>4 DEF KeyOk, ENew
    <3>2. Covered(down'[c], EOf(k), ENew(k)) /\ Has(down'[c], ENew(k))
      BY <1>4, <2>2, <3>1, AppendFacts DEF Wire
    <3> QED
      BY <2>3, <3>2 DEF WireOk, ViewOk
  <2>5. CASE j.key # k
    <3>1. ~Reached(c, k)
      BY <1>2, <2>1, <2>5 DEF Reached, Going
    <3>2. Event(j) \notin EOf(k)
      BY <2>2, <2>5 DEF EOf
    <3>3. /\ Covered(down[c], EOf(k), ENew(k)) => Covered(down'[c], EOf(k), ENew(k))
          /\ Has(down[c], ENew(k)) => Has(down'[c], ENew(k))
          /\ Has(down[c], Gaps) => Has(down'[c], Gaps)
      <4>1. down[c] \in Seq(Frames \cup Replies) /\ Event(j) \in Frames \cup Replies
        BY <2>2 DEF Wire
      <4>2. /\ Covered(down[c], EOf(k), ENew(k)) => Covered(down'[c], EOf(k), ENew(k))
            /\ Has(down[c], ENew(k)) => Has(down'[c], ENew(k))
        BY <1>4, <3>2, <4>1, AppendFacts
      <4>3. Has(down[c], Gaps) => Has(down'[c], Gaps)
        BY <1>4, <4>1, AppendFacts
      <4> QED
        BY <4>2, <4>3
    <3>4. Asked(c, k)' = Asked(c, k) /\ (SyncSoon(c) => SyncSoon(c)')
      <4>1. Gaps' = Gaps
        BY DEF Gaps
      <4> QED
        BY <1>1, <3>3, <4>1 DEF Asked, SyncSoon, Steady
    <3>5. WireOk(c, k)'
      BY <1>1, <2>3, <3>1, <3>3 DEF WireOk
    <3>6. ViewOk(c, k)'
      BY <1>1, <2>3, <3>1, <3>3, <3>4 DEF ViewOk, Steady
    <3> QED
      BY <3>5, <3>6
  <2> QED
    BY <2>4, <2>5
<1> QED
  BY <1>1, <1>2, <1>3, <1>4

--------------------------------------------------------------------------------
(* The steps of one tab *)

\* The lemmas on sequences, for one set.
LEMMA HasAppend ==
  ASSUME NEW T, NEW s \in Seq(T), NEW e \in T, NEW B
  PROVE  (e \in B \/ Has(s, B)) => Has(Append(s, e), B)
<1>1. /\ e \in B => Covered(Append(s, e), B, B) /\ Has(Append(s, e), B)
      /\ Has(s, B) => Has(Append(s, e), B)
  BY AppendFacts
<1> QED
  BY <1>1

\* The first member was not of the set.
LEMMA HasTail ==
  ASSUME NEW T, NEW s \in Seq(T), s # <<>>, NEW B, Head(s) \notin B
  PROVE  Has(Tail(s), B) <=> Has(s, B)
<1>1. /\ Covered(s, B, B) => Covered(Tail(s), B, B)
      /\ Head(s) \notin B => (Has(Tail(s), B) <=> Has(s, B))
  BY TailFacts
<1> QED
  BY <1>1

\* A reply is no frame, and a frame no reply.
LEMMA NotFrames ==
  ASSUME NEW k \in Keys
  PROVE  /\ \A r \in Replies : r \notin EOf(k) /\ r \notin ENew(k) /\ r.kind = "sync"
         /\ \A f \in Frames : f \notin Gaps /\ f.kind = "event"
         /\ ENew(k) \subseteq EOf(k)
BY DEF Frames, Replies, EOf, ENew, Gaps

\* A tab's own step, in a state where nothing of the server will reach it.
LEMMA TabView ==
  ASSUME ServerTypeOK, TabStateOK, ServerOk, HandshakesOk, NEW c \in Clients, TabMove(c),
         TabOk(c), SideOk(c), GotOk(c),
         NEW k \in Keys, KeyOk(k), WireOk(c, k), ViewOk(c, k)
  PROVE  WireOk(c, k)' /\ ViewOk(c, k)'
<1> USE LiveSyncAssumption
<1>0. /\ down \in [Clients -> Wire] /\ link \in [Clients -> {"none", "up", "cut"}]
      /\ world[k] \in Nat /\ UNCHANGED <<world, lost>>
      /\ ENew(k)' = ENew(k) /\ EOf(k)' = EOf(k) /\ Gaps' = Gaps
  BY TabReach DEF ServerTypeOK, Wire, ENew, EOf, Gaps
<1>1. CASE Accept(c)
  <2>1. down'[c] = <<>> /\ stage'[c] = "shut"
    BY <1>1 DEF Accept, TabOk, SideOk
  <2>2. Covered(<<>>, EOf(k), ENew(k))
    BY DEF Covered
  <2> QED
    BY <1>0, <2>1, <2>2 DEF WireOk, ViewOk
<1>2. CASE SeesClose(c)
  <2>1. link'[c] = "none"
    BY <1>0, <1>2 DEF SeesClose
  <2> QED
    BY <2>1 DEF WireOk, ViewOk
<1> SUFFICES ASSUME ~Accept(c), ~SeesClose(c),
                    link'[c] = "up", k \notin lost', ~Reached(c, k)'
             PROVE  WireOk(c, k)' /\ ViewOk(c, k)'
  BY <1>1, <1>2 DEF WireOk, ViewOk
<1>3. link[c] = "up" /\ k \notin lost /\ ~Reached(c, k)
  BY <1>0, TabReach DEF TabMove, AnswerSync, Opened, ReceiveEvent, ReceiveSync, FetchRead,
                        FetchEnd, wire
<1>4. Covered(down[c], EOf(k), ENew(k))
  BY <1>3 DEF WireOk
<1>5. ViewOk(c, k) = (stage[c] # "shut" /\ k \notin blame[c] =>
                        \/ view[c][k] = world[k] \/ Has(down[c], ENew(k))
                        \/ Asked(c, k) \/ SyncSoon(c))
  BY <1>3 DEF ViewOk
<1>6. ASSUME down'[c] = down[c],
             stage'[c] # "shut" /\ k \notin blame'[c] =>
                        \/ view'[c][k] = world[k] \/ Has(down[c], ENew(k))
                        \/ Asked(c, k)' \/ SyncSoon(c)'
      PROVE  WireOk(c, k)' /\ ViewOk(c, k)'
  BY <1>0, <1>4, <1>6 DEF WireOk, ViewOk
<1>7. CASE AnswerSync(c)
  <2> DEFINE r == [kind |-> "sync", ok |-> CaughtUp(up[c]), cur |-> seq]
  <2>1. /\ down'[c] = Append(down[c], r) /\ up'[c] = None
        /\ UNCHANGED <<stage, cursor, fetch, view, blame>>
        /\ greets[c] = 0 /\ up[c] # None
    BY <1>0, <1>7 DEF AnswerSync, tab, TabStateOK
  <2>2. r \in Replies /\ seq > 0 /\ (up[c] = 0 => r \in Gaps)
    <3>1. seq > 0 /\ seq \in Nat
      BY <1>3, <2>1 DEF SideOk, ServerTypeOK
    <3>2. up[c] = 0 => ~CaughtUp(up[c])
      BY <3>1 DEF CaughtUp
    <3>3. r \in Replies
      BY <3>1 DEF Replies, CaughtUp
    <3> QED
      BY <3>1, <3>2, <3>3 DEF Gaps
  <2> HIDE DEF r
  <2>3. down[c] \in Seq(Frames \cup Replies) /\ r \in Frames \cup Replies
    BY <1>0, <2>2 DEF Wire
  <2>4. Covered(down'[c], EOf(k), ENew(k)) /\ (Has(down[c], ENew(k)) => Has(down'[c], ENew(k)))
    BY <1>4, <2>1, <2>2, <2>3, NotFrames, AppendFacts
  <2>5. (Has(down[c], Gaps) => Has(down'[c], Gaps)) /\ (r \in Gaps => Has(down'[c], Gaps))
    BY <2>1, <2>3, HasAppend
  <2>6. Asked(c, k)' = Asked(c, k) /\ (SyncSoon(c) => SyncSoon(c)')
    BY <1>0, <2>1, <2>2, <2>5 DEF Asked, SyncSoon
  <2> QED
    BY <1>0, <1>5, <2>1, <2>4, <2>6 DEF WireOk, ViewOk
<1>8. CASE Opened(c)
  <2>1. /\ down' = down /\ stage'[c] = "open" /\ UNCHANGED <<up, cursor, view, blame>>
        /\ fetch' = IF opened[c] THEN [fetch EXCEPT ![c]["shell"] = Fetching(0)] ELSE fetch
    BY <1>8 DEF Opened, ResyncOnOpen, wire, TabStateOK
  <2>2. CASE opened[c]
    <3>1. "shell" \in Sources /\ Fetching(0).pc = "ask"
      BY NoFetchType DEF Sources
    <3>2. fetch'[c]["shell"] = Fetching(0)
      BY <2>1, <2>2, <3>1 DEF TabStateOK
    <3> QED
      BY <1>6, <2>1, <3>1, <3>2 DEF Asked
  <2>3. CASE ~opened[c]
    <3>1. SyncSoon(c)'
      BY <2>1, <2>3 DEF SideOk, SyncSoon
    <3> QED
      BY <1>6, <2>1, <3>1
  <2> QED
    BY <2>2, <2>3
<1>9. CASE ReceiveEvent(c) \/ ReceiveSync(c)
  <2> DEFINE f == Head(down[c])
  <2>1. /\ stage[c] # "shut" /\ down[c] # <<>> /\ down'[c] = Tail(down[c])
        /\ up'[c] = IF stage[c] = "open" THEN cursor[c] ELSE up[c]
    BY <1>0, <1>9 DEF ReceiveEvent, ReceiveSync, Ready, TabStateOK
  <2>2. down[c] \in Seq(Frames \cup Replies) /\ f \in Frames \cup Replies
    BY <1>0, <2>1, HeadTailProperties DEF Wire
  <2> HIDE DEF f
  <2>3. /\ Covered(down'[c], EOf(k), ENew(k))
        /\ f \in EOf(k) /\ f \notin ENew(k) => Has(down'[c], ENew(k))
        /\ f \notin ENew(k) => (Has(down'[c], ENew(k)) <=> Has(down[c], ENew(k)))
    BY <1>4, <2>1, <2>2, TailFacts DEF f
  <2>4. f \notin Gaps => (Has(down'[c], Gaps) <=> Has(down[c], Gaps))
    BY <2>1, <2>2, HasTail DEF f
  <2>5. WireOk(c, k)'
    BY <1>0, <2>3 DEF WireOk
  <2>6. f \notin Gaps /\ SyncSoon(c) => SyncSoon(c)'
    <3>1. up[c] = 0 => stage[c] = "ready"
      BY DEF SideOk
    <3> QED
      BY <1>0, <2>1, <2>4, <3>1 DEF SyncSoon
  <2> SUFFICES ASSUME k \notin blame'[c]
               PROVE  \/ view'[c][k] = world[k] \/ Has(down'[c], ENew(k))
                      \/ Asked(c, k)' \/ SyncSoon(c)'
    BY <1>0, <2>5 DEF ViewOk
  <2>7. CASE ReceiveEvent(c)
    <3>1. /\ f.kind = "event" /\ fetch' = fetch
          /\ view'[c][k] = IF k = f.key THEN f.ver ELSE view[c][k]
          /\ blame'[c] = {x \in blame[c] : x # f.key \/ f.ver # world[x]}
      BY <2>7 DEF ReceiveEvent, TabStateOK, f
    <3>2. f \in Frames /\ f \notin Gaps
      BY <2>2, <3>1, NotFrames DEF Replies
    <3>3. CASE f.key = k
      BY <2>3, <3>1, <3>2, <3>3 DEF EOf, ENew
    <3>4. CASE f.key # k
      <4>1. f \notin ENew(k) /\ k \notin blame[c] /\ view'[c][k] = view[c][k]
        BY <3>1, <3>4 DEF ENew
      <4>2. Asked(c, k)' = Asked(c, k)
        BY <1>0, <3>1 DEF Asked
      <4> QED
        BY <1>5, <2>1, <2>3, <2>6, <3>2, <4>1, <4>2
    <3> QED
      BY <3>3, <3>4
  <2>8. CASE ReceiveSync(c)
    <3>1. /\ f.kind = "sync" /\ view' = view /\ blame' = blame
          /\ \/ f.ok /\ fetch' = fetch
             \/ ~f.ok /\ fetch' = [fetch EXCEPT ![c]["sync"] = Fetching(f.cur)]
      BY <2>8 DEF ReceiveSync, f
    <3>2. f \in Replies /\ f.cur \in Nat /\ f \notin ENew(k)
      BY <2>2, <3>1, NotFrames DEF Frames, Replies
    <3>3. CASE f.ok /\ fetch' = fetch
      <4>1. f \notin Gaps /\ Asked(c, k)' = Asked(c, k)
        BY <1>0, <3>3 DEF Gaps, Asked
      <4> QED
        BY <1>5, <2>1, <2>3, <2>6, <3>1, <3>2, <4>1
    <3>4. CASE fetch' = [fetch EXCEPT ![c]["sync"] = Fetching(f.cur)]
      <4>1. "sync" \in Sources /\ fetch'[c]["sync"].pc = "ask"
        BY <3>2, <3>4, NoFetchType DEF TabStateOK, Sources
      <4> QED
        BY <4>1 DEF Asked
    <3> QED
      BY <3>1, <3>3, <3>4
  <2> QED
    BY <1>9, <2>7, <2>8
<1>10. ASSUME NEW s \in Sources, FetchRead(c, s)
       PROVE  WireOk(c, k)' /\ ViewOk(c, k)'
  <2>1. PICK failed \in SUBSET Keys, r \in Reads :
            /\ r.pc = "answer" /\ r.got = [q \in Keys \ failed |-> world[q]]
            /\ r.cur = fetch[c][s].cur
            /\ fetch' = [fetch EXCEPT ![c][s] = r]
            /\ blame' = [blame EXCEPT ![c] = @ \cup failed]
    BY <1>10, ReadEffect
  <2>2. fetch'[c][s] = r /\ down' = down /\ blame'[c] = blame[c] \cup failed
    BY <1>10, <2>1 DEF FetchRead, wire, TabStateOK
  <2>3. k \notin failed => k \in DOMAIN r.got /\ r.got[k] = world[k]
    BY <2>1
  <2>4. k \notin blame'[c] => Asked(c, k)'
    BY <1>0, <2>1, <2>2, <2>3 DEF Asked
  <2> QED
    BY <1>6, <2>2, <2>4
<1>11. ASSUME NEW s \in Sources, FetchEnd(c, s)
       PROVE  WireOk(c, k)' /\ ViewOk(c, k)'
  <2> DEFINE got == fetch[c][s].got
  <2>1. /\ down' = down /\ UNCHANGED <<stage, up>>
        /\ fetch[c][s].pc = "answer" /\ fetch' = [fetch EXCEPT ![c][s] = NoFetch]
        /\ view'[c][k] = IF k \in DOMAIN got THEN got[k] ELSE view[c][k]
        /\ blame'[c] = (blame[c] \cup {q \in DOMAIN got : got[q] < view[c][q]})
                          \ {q \in DOMAIN got : got[q] = world[q]}
        /\ cursor'[c] = Larger(cursor[c], fetch[c][s].cur)
    BY <1>11 DEF FetchEnd, wire, TabStateOK
  <2> SUFFICES ASSUME stage[c] # "shut", k \notin blame'[c], view'[c][k] # world[k]
               PROVE  Has(down[c], ENew(k)) \/ Asked(c, k)' \/ SyncSoon(c)'
    BY <1>6, <2>1
  <2>2. ~(k \in DOMAIN got /\ got[k] = world[k])
    BY <2>1
  <2>3. k \notin blame[c]
    BY <2>1, <2>2
  <2>4. view[c][k] # world[k]
    <3>1. CASE k \in DOMAIN got
      <4>1. got[k] \in Nat /\ got[k] <= world[k] /\ view[c][k] \in Nat
        BY <3>1, FetchTypes DEF GotOk, TabStateOK
      <4>2. ~(got[k] < view[c][k])
        BY <2>1, <2>2, <3>1
      <4> QED
        BY <1>0, <2>2, <3>1, <4>1, <4>2
    <3>2. CASE k \notin DOMAIN got
      BY <2>1, <3>2
    <3> QED
      BY <3>1, <3>2
  <2>5. Asked(c, k) => Asked(c, k)'
    <3> HAVE Asked(c, k)
    <3>1. PICK t \in Sources : \/ fetch[c][t].pc = "ask"
                               \/ /\ fetch[c][t].pc = "answer" /\ k \in DOMAIN fetch[c][t].got
                                  /\ fetch[c][t].got[k] = world[k]
      BY DEF Asked
    <3>2. t # s
      BY <2>1, <2>2, <3>1
    <3>3. fetch'[c][t] = fetch[c][t]
      BY <2>1, <3>2 DEF TabStateOK
    <3> QED
      BY <1>0, <3>1, <3>3 DEF Asked
  <2>6. SyncSoon(c) => SyncSoon(c)'
    <3>1. fetch[c]["sync"].pc = "idle" =>
            /\ fetch'[c]["sync"] = fetch[c]["sync"] /\ s = "shell" /\ fetch[c][s].cur = 0
      BY <2>1 DEF TabStateOK, Sources, SideOk
    <3>2. cursor[c] \in Nat
      BY DEF TabStateOK
    <3>3. fetch[c]["sync"].pc = "idle" => cursor'[c] = cursor[c]
      BY <2>1, <3>1, <3>2 DEF Larger
    <3> QED
      BY <1>0, <2>1, <3>1, <3>3 DEF SyncSoon
  <2> QED
    BY <1>5, <2>3, <2>4, <2>5, <2>6
<1> QED
  BY <1>7, <1>8, <1>9, <1>10, <1>11 DEF TabMove

\* Every step keeps KeyOk, WireOk and ViewOk.
LEMMA ViewStep ==
  ASSUME ServerTypeOK, ServerTypeOK', TabStateOK, ServerOk, SendingOk, HandshakesOk,
         \A c \in Clients : TabOk(c) /\ SideOk(c) /\ GotOk(c), [Next]_vars,
         NEW c \in Clients, NEW k \in Keys, KeyOk(k), WireOk(c, k), ViewOk(c, k)
  PROVE  KeyOk(k)' /\ WireOk(c, k)' /\ ViewOk(c, k)'
<1>1. CASE ServerMove
  <2>1. CASE \E j \in jobs, d \in Clients : Deliver(j, d) \/ SendFails(j, d)
    BY <2>1, SendKey, SendView
  <2>2. CASE ~\E j \in jobs, d \in Clients : Deliver(j, d) \/ SendFails(j, d)
    <3>1. KeyOk(k)' /\ ReachKept(c, k) /\ Steady(c)
      BY <1>1, <2>2, ServerReach, ServerSteady
    <3>2. down'[c] = down[c]
      BY <1>1, <2>2 DEF ServerMove, FlushTake, FlushNext, FlushEnd, Stamp, Finish, Change,
         ChangeCoalesced, CancelWaiting, CancelSending, TimesOut, Lose, Restart, wire
    <3> QED
      BY <3>1, <3>2, ReachFrame
  <2> QED
    BY <2>1, <2>2
<1>2. ASSUME NEW d \in Clients, TabMove(d)
      PROVE  KeyOk(k)' /\ WireOk(c, k)' /\ ViewOk(c, k)'
  <2>1. KeyOk(k)' /\ (c # d => ReachKept(c, k))
    BY <1>2, TabReach
  <2>2. CASE c = d
    BY <1>2, <2>1, <2>2, TabView
  <2>3. CASE c # d
    BY <1>2, <2>1, <2>3, OtherTabs, ReachFrame
  <2> QED
    BY <2>2, <2>3
<1>3. CASE UNCHANGED vars
  BY <1>3 DEF vars, data, server, wire, tab, KeyOk, WireOk, ViewOk, Reached, Queued, Stored, Going,
              Asked, SyncSoon, QOf, QNew, EOf, ENew, Gaps
<1> QED
  BY <1>1, <1>2, <1>3, Moves

--------------------------------------------------------------------------------
(* The invariant, and what follows from it *)

\* All of it.
StaleInv ==
  /\ IInv /\ TabStateOK /\ ServerOk /\ HandshakesOk
  /\ \A c \in Clients : SideOk(c) /\ GotOk(c)
  /\ \A k \in Keys : KeyOk(k)
  /\ \A c \in Clients, k \in Keys : WireOk(c, k) /\ ViewOk(c, k)

\* It holds when the server starts and the first page is still to load.
LEMMA StaleStarts == Init => StaleInv
<1> SUFFICES ASSUME Init PROVE StaleInv
  OBVIOUS
<1> USE LiveSyncAssumption
<1>1. IInv
  BY Starts
<1>2. NoFetch \in Reads /\ Fetching(0) \in Reads
  BY NoFetchType
<1>3. TabStateOK
  BY <1>2 DEF Init, TabStateOK
<1>4. ServerOk
  BY DEF Init, ServerOk
<1>5. HandshakesOk
  BY DEF Init, HandshakesOk, OwnOk, Has, Once
<1>6. ASSUME NEW c \in Clients
      PROVE  SideOk(c) /\ GotOk(c) /\ link[c] = "none"
  <2>1. /\ \A s \in Sources : fetch[c][s] = IF s = "shell" THEN Fetching(0) ELSE NoFetch
        /\ "shell" \in Sources /\ "sync" \in Sources
    BY DEF Init, Sources
  <2>2. SideOk(c)
    BY <2>1, NoFetchType DEF Init, SideOk
  <2>3. GotOk(c)
    BY <2>1, NoFetchType DEF GotOk
  <2> QED
    BY <2>2, <2>3 DEF Init
<1>7. \A k \in Keys : KeyOk(k)
  BY DEF Init, KeyOk, Covered
<1> QED
  BY <1>1, <1>3, <1>4, <1>5, <1>6, <1>7 DEF StaleInv, WireOk, ViewOk

\* Every step keeps KeyOk.
LEMMA KeyStep ==
  ASSUME ServerTypeOK, ServerTypeOK', ServerOk, SendingOk, [Next]_vars,
         \A c \in Clients : SideOk(c), NEW k \in Keys, KeyOk(k)
  PROVE  KeyOk(k)'
<1>1. CASE UNCHANGED vars
  BY <1>1 DEF vars, data, server, KeyOk, Queued, Stored, QOf, QNew
<1> QED
  BY <1>1, ServerReach, TabReach, Moves

\* It is inductive.
LEMMA StaleSteps == StaleInv /\ [Next]_vars => StaleInv'
<1> SUFFICES ASSUME StaleInv, [Next]_vars PROVE StaleInv'
  OBVIOUS
<1>1. /\ ServerTypeOK /\ SendingOk /\ TabStateOK /\ ServerOk /\ HandshakesOk
      /\ \A c \in Clients : TabOk(c) /\ SideOk(c) /\ GotOk(c)
      /\ \A k \in Keys : KeyOk(k)
      /\ \A c \in Clients, k \in Keys : WireOk(c, k) /\ ViewOk(c, k)
  BY DEF StaleInv, IInv
<1>2. IInv' /\ ServerTypeOK'
  BY <1>1, Steps, TypeStep DEF StaleInv
<1>3. TabStateOK' /\ ServerOk' /\ HandshakesOk'
  BY <1>1, <1>2, TabStateStep, ServerStep, HandshakeStep
<1>4. \A c \in Clients : SideOk(c)' /\ GotOk(c)'
  BY <1>1, <1>2, SideStep, GotStep
<1>5. \A k \in Keys : KeyOk(k)'
  BY <1>1, <1>2, KeyStep
<1>6. \A c \in Clients, k \in Keys : WireOk(c, k)' /\ ViewOk(c, k)'
  BY <1>1, <1>2, ViewStep
<1> QED
  BY <1>2, <1>3, <1>4, <1>5, <1>6 DEF StaleInv

\* StaleInv is an invariant.
THEOREM StaleInductive == Spec => []StaleInv
BY StaleStarts, StaleSteps, PTL DEF Spec

\* What the server and the tabs hold keeps its type: among others, a handshake never
\* counts below zero (the handler broadcasts its frames one after the other), and a
\* lost key is one that the background loop broadcasts.
THEOREM Types == Spec => []TypeOK
<1>1. StaleInv => TypeOK
  <2> SUFFICES ASSUME StaleInv PROVE TypeOK
    OBVIOUS
  <2>1. ServerTypeOK /\ TabStateOK /\ ServerOk /\ HandshakesOk
    BY DEF StaleInv, IInv
  <2>2. \A c \in Clients, s \in Sources :
          /\ fetch[c][s].pc \in {"idle", "ask", "answer"}
          /\ DOMAIN fetch[c][s].got \subseteq Keys
          /\ fetch[c][s].cur \in Nat
    BY <2>1, FetchTypes
  <2> QED
    BY <2>1, <2>2, LiveSyncAssumption DEF TypeOK, TabStateOK, ServerOk, HandshakesOk
<1> QED
  BY <1>1, StaleInductive, PTL

\* A tab whose socket is up, with nothing on its way and nothing to be answered,
\* shows the newest version of every key, whatever connections broke, sends failed
\* and servers restarted: but for a key whose last broadcast was given up after 30 s
\* (_run_coro_on_main_loop), or whose REST read failed or was overtaken.
THEOREM StaleTabsAreExplained == Spec => []StaleIsExplained
<1>1. StaleInv => StaleIsExplained
  <2> SUFFICES ASSUME StaleInv, NEW c \in Clients, Settled(c), NEW k \in Keys,
                      k \notin lost \cup blame[c]
               PROVE  view[c][k] = world[k]
    BY DEF StaleIsExplained
  <2>1. ViewOk(c, k) /\ ServerOk /\ TabStateOK
    BY DEF StaleInv
  <2>2. /\ flusher = "idle" /\ queue = <<>> /\ jobs = {}
        /\ link[c] = "up" /\ stage[c] = "ready" /\ down[c] = <<>> /\ up[c] = None
        /\ \A s \in Sources : fetch[c][s].pc = "idle"
    BY DEF Settled, Quiet
  <2>3. ~Reached(c, k)
    BY <2>1, <2>2 DEF ServerOk, Reached, Queued, Stored, Has, Going
  <2>4. ~Asked(c, k)
    BY <2>2 DEF Asked
  <2>5. ~SyncSoon(c) /\ ~Has(down[c], ENew(k))
    BY <2>2, LiveSyncAssumption DEF SyncSoon, Has
  <2> QED
    BY <2>1, <2>2, <2>3, <2>4, <2>5 DEF ViewOk
<1> QED
  BY <1>1, StaleInductive, PTL
===============================================================================
