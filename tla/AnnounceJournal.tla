---------------------------- MODULE AnnounceJournal ----------------------------
(***************************************************************************)
(* How inbound announces are stored (announce_manager.py, the announce      *)
(* handlers of meshchat.py, database/announces.py).  One of a known peer is *)
(* stored at once; one of a stranger waits in a journal in memory that a    *)
(* thread writes in one transaction every 30 s.  After a write the table is *)
(* trimmed.                                                                 *)
(*                                                                          *)
(* Jobs are the library's callback threads, "loop" is the flush thread and  *)
(* "stop" the thread that tears the identity down.  One aspect; a row is    *)
(* its destination and the number the announce got when it was accepted.    *)
(***************************************************************************)
EXTENDS Naturals, FiniteSets, Sequences

CONSTANTS
  Peers,         \* destinations that announce themselves
  Protected,     \* those that are favourites or contacts: never trimmed
  Jobs,          \* threads that deliver announces
  MaxPending,    \* ANNOUNCE_JOURNAL_MAX_PENDING
  MaxStored,     \* rows kept of the aspect
  MaxAnnounces   \* bound: announces accepted

ASSUME JournalAssumption ==
  /\ Protected \subseteq Peers
  /\ MaxPending \in Nat \ {0} /\ MaxStored \in Nat \ {0} /\ MaxAnnounces \in Nat
  /\ {"loop", "stop"} \cap Jobs = {}

VARIABLES
  pending,    \* _pending: rows, in the order the destinations came in
  db,         \* the announces table, the row updated longest ago first
  pc, work,   \* per thread: where it is, and the rows it has in hand
  excess,     \* per thread: how many rows it is going to trim
  stopped,    \* stop() was called
  newest,     \* newest[d]: the number of the latest announce accepted (0: none)
  gone,       \* history: destinations whose newest row was dropped or trimmed
  crossed,    \* history: ... stored while an older row waited to be written
  overlapped  \* history: threads whose count another thread's trim made wrong

journalVars == <<pending, db, pc, work, excess, stopped, newest, gone, crossed, overlapped>>

Flushers == {"loop", "stop"}
Threads  == Jobs \cup Flushers

End(t)     == IF t = "stop" THEN "done" ELSE "idle"
Goto(t, p) == pc' = [pc EXCEPT ![t] = p]

RowOf(rows, d) == {i \in DOMAIN rows : rows[i].dest = d}
Named(rows)    == {rows[i].dest : i \in DOMAIN rows}
Numbers(rows, d) == {rows[i].n : i \in RowOf(rows, d)}

\* The how-manieth of the places K the place i is.
Rank(K, i) == Cardinality({k \in K : k <= i})

\* The rows of other destinations than `out`, and those rows alone, in their order.
Others(rows, out) == {i \in DOMAIN rows : rows[i].dest \notin out}
Without(rows, out) ==
  LET kept == Others(rows, out)
  IN  [n \in 1..Cardinality(kept) |-> rows[CHOOSE i \in kept : Rank(kept, i) = n]]

\* A dict that is updated keeps the place of a key that is set again; the table moves
\* the row to the end of the order of updates.
Merged(rows, newer) ==
  [i \in DOMAIN rows |->
     LET again == RowOf(newer, rows[i].dest)
     IN  IF again = {} THEN rows[i] ELSE newer[CHOOSE k \in again : TRUE]]
  \o Without(newer, Named(rows))
MovedLast(rows, newer) == Without(rows, Named(newer)) \o newer

\* The numbers of the rows of d that wait to be written.
Waiting(d) == Numbers(pending, d) \cup UNION {Numbers(work[f], d) : f \in Flushers}

--------------------------------------------------------------------------------
(* upsert_announce, for an announce that was classified and not blocked *)

\* A conversation makes a peer known, so any peer may be either.
Arrive(j, d) ==
  /\ pc[j] = "idle" /\ ~stopped
  /\ work' = [work EXCEPT ![j] = <<[dest |-> d, n |-> 0]>>]
  /\ Goto(j, "store") \/ Goto(j, "defer")
  /\ UNCHANGED <<pending, db, excess, stopped, newest, gone, crossed, overlapped>>

\* Bound: announces are numbered up to MaxAnnounces.
Latest == CHOOSE n \in {newest[d] : d \in Peers} : \A d \in Peers : newest[d] <= n
Accepted(d) == Latest < MaxAnnounces /\ newest' = [newest EXCEPT ![d] = Latest + 1]

\* Mutant: the cap is not looked at.
RoomAny(rows) == rows

\* Over the cap the oldest entry makes room, whoever it is.
Room(rows) == IF Len(rows) >= MaxPending THEN Tail(rows) ELSE rows

Defer(j) ==
  LET d == work[j][1].dest  kept == Room(pending) IN
  /\ pc[j] = "defer" /\ Accepted(d)
  /\ pending' = Merged(kept, <<[dest |-> d, n |-> Latest + 1]>>)
  /\ gone' = (gone \cup {e \in Peers : RowOf(pending, e) # {} /\ RowOf(kept, e) = {}}) \ {d}
  /\ work' = [work EXCEPT ![j] = <<>>]
  /\ Goto(j, "idle")
  /\ UNCHANGED <<db, crossed, excess, stopped, overlapped>>

\* Stored at once; the trim follows.
Store(j) ==
  LET d == work[j][1].dest IN
  /\ pc[j] = "store" /\ Accepted(d)
  /\ db' = MovedLast(db, <<[dest |-> d, n |-> Latest + 1]>>)
  /\ crossed' = IF Waiting(d) # {} THEN crossed \cup {d} ELSE crossed \ {d}
  /\ gone' = gone \ {d}
  /\ work' = [work EXCEPT ![j] = <<>>]
  /\ Goto(j, "count")
  /\ UNCHANGED <<pending, excess, stopped, overlapped>>

--------------------------------------------------------------------------------
(* trim_announces_for_aspect: a SELECT and a DELETE *)

\* Mutant: the limit is off by one.
OverByOne == IF Len(db) > MaxStored + 1 THEN Len(db) - MaxStored - 1 ELSE 0

Over == IF Len(db) > MaxStored THEN Len(db) - MaxStored ELSE 0

Count(t) ==
  /\ pc[t] = "count"
  /\ excess' = [excess EXCEPT ![t] = Over]
  /\ Goto(t, IF Over > 0 THEN "trim" ELSE End(t))
  /\ overlapped' = overlapped \ {t}
  /\ UNCHANGED <<pending, db, work, stopped, newest, gone, crossed>>

\* Mutant: every row that may go goes.
DoomedAll(n) == {i \in DOMAIN db : db[i].dest \notin Protected}

\* The n rows updated longest ago that nothing protects.
Doomed(n) == LET open == Others(db, Protected) IN {i \in open : Rank(open, i) <= n}

Trim(t) ==
  LET out == {db[i].dest : i \in Doomed(excess[t])} IN
  /\ pc[t] = "trim"
  /\ db' = Without(db, out)
  /\ gone' = gone \cup out
  /\ excess' = [excess EXCEPT ![t] = 0]
  /\ overlapped' = (overlapped \cup
       (IF out = {} THEN {} ELSE {u \in Threads : pc[u] = "trim"})) \ {t}
  /\ Goto(t, End(t))
  /\ UNCHANGED <<pending, newest, crossed, work, stopped>>

--------------------------------------------------------------------------------
(* flush_pending *)

\* The rows are taken under the lock.
Take(f) ==
  /\ pc[f] = "idle" /\ (f = "stop") = stopped
  /\ pending # <<>>
  /\ work' = [work EXCEPT ![f] = pending]
  /\ crossed' = crossed \cup {d \in Peers : RowOf(pending, d) # {} /\
                  \E g \in Flushers \ {f} : RowOf(work[g], d) # {}}
  /\ pending' = <<>>
  /\ Goto(f, "write")
  /\ UNCHANGED <<db, newest, gone, excess, stopped, overlapped>>

\* stop() finds nothing to flush.
NothingToFlush ==
  /\ stopped /\ pc["stop"] = "idle" /\ pending = <<>>
  /\ Goto("stop", "done")
  /\ UNCHANGED <<pending, db, work, excess, stopped, newest, gone, crossed, overlapped>>

\* The transaction commits ...
Commit(f) ==
  /\ pc[f] = "write"
  /\ db' = MovedLast(db, work[f])
  /\ work' = [work EXCEPT ![f] = <<>>]
  /\ Goto(f, "count")
  /\ UNCHANGED <<pending, newest, gone, crossed, excess, stopped, overlapped>>

\* Mutant: what was taken wins over what came in since.
RequeuedOver(rows) == Merged(pending, rows)

\* What came in since wins, in the place of what was taken.
Requeued(rows) == Merged(rows, pending)

\* ... or is rolled back, and the rows go back in front of the others.
Fail(f) ==
  LET all == Requeued(work[f])
      cut == IF Len(all) > MaxPending THEN Len(all) - MaxPending ELSE 0
  IN  /\ pc[f] = "write"
      /\ pending' = SubSeq(all, cut + 1, Len(all))
      /\ gone' = gone \cup {all[i].dest : i \in 1..cut}
      /\ work' = [work EXCEPT ![f] = <<>>]
      /\ Goto(f, End(f))
      /\ UNCHANGED <<db, newest, crossed, excess, stopped, overlapped>>

\* stop() waits up to 5 s for the thread and flushes whether it has ended or not.
Stop ==
  /\ ~stopped /\ stopped' = TRUE
  /\ UNCHANGED <<pending, db, work, excess, pc, newest, gone, crossed, overlapped>>

--------------------------------------------------------------------------------
JournalInit ==
  /\ pending = <<>> /\ db = <<>>
  /\ pc = [t \in Threads |-> "idle"] /\ work = [t \in Threads |-> <<>>]
  /\ excess = [t \in Threads |-> 0] /\ stopped = FALSE
  /\ newest = [d \in Peers |-> 0] /\ gone = {} /\ crossed = {} /\ overlapped = {}

JournalNext ==
  \/ \E j \in Jobs : Defer(j) \/ Store(j) \/ \E d \in Peers : Arrive(j, d)
  \/ \E t \in Threads : Count(t) \/ Trim(t)
  \/ \E f \in Flushers : Take(f) \/ Commit(f) \/ Fail(f)
  \/ Stop \/ NothingToFlush

JournalSpec == JournalInit /\ [][JournalNext]_journalVars

--------------------------------------------------------------------------------
Row == [dest : Peers, n : 0..MaxAnnounces]

\* The journal never holds more rows than its cap.
JournalTypeOK ==
  /\ pending \in Seq(Row) /\ Len(pending) <= MaxPending
  /\ db \in Seq(Row)
  /\ \A d \in Peers : Cardinality(RowOf(pending, d)) <= 1 /\ Cardinality(RowOf(db, d)) <= 1
  /\ pc \in [Threads -> {"idle", "defer", "store", "count", "trim", "write", "done"}]
  /\ work \in [Threads -> Seq(Row)]
  /\ excess \in [Threads -> Nat]
  /\ stopped \in BOOLEAN
  /\ newest \in [Peers -> 0..MaxAnnounces]
  /\ gone \cup crossed \subseteq Peers /\ overlapped \subseteq Threads

\* The latest announce of a destination is in the journal, on its way or in the
\* table, unless it was dropped over the cap, trimmed, or stored past an older one
\* that was still to be written.
FreshestKept == \A d \in Peers :
  newest[d] > 0 /\ newest[d] \notin Waiting(d) \cup Numbers(db, d)
  => d \in gone \cup crossed

\* A trim leaves what the limit allows, unless another one ran since it counted.
TrimSpares == [][\A t \in Threads :
  Trim(t) /\ t \notin overlapped => Len(db') >= MaxStored]_journalVars

\* When nobody is about to trim, the table holds what the limit allows, or only
\* rows that are protected.
TableBounded ==
  (\A t \in Threads : pc[t] \notin {"count", "trim"}) =>
    Len(db) <= MaxStored \/ \A i \in DOMAIN db : db[i].dest \in Protected
=============================================================================
