-------------------------- MODULE LxmfOutbox_proofs --------------------------
(***************************************************************************)
(* Type correctness of the outbox and its four safety properties.          *)
(*                                                                         *)
(* TypeOK is not inductive: a writer copies the live object's state into   *)
(* the row, so that object must hold a state a row may have.  Shape says   *)
(* which program counters promise that.  DeliveredIsProven is not          *)
(* inductive either: a value read in one step is stored in a later one, so *)
(* Provenance adds what the values in flight - in the writers' and the     *)
(* senders' local variables - are known to come from.                      *)
(*                                                                         *)
(* TerminalStaysTerminal and InFlightIsTracked are proved for ~Preempt,    *)
(* where a row's SELECT and UPDATE are one step as seen by the others      *)
(* (OneWriter, Fresh); without that assumption both are false.             *)
(* InFlightIsTracked needs to know who looks after a message (Tended) and  *)
(* that its writers do not leave before the row agrees (Awaited).          *)
(* PayloadKept is proved for every interleaving without re-sends by hand   *)
(* and crashes: the order in which a re-send stores and drops rows         *)
(* (Keeping) is what keeps the message.                                    *)
(***************************************************************************)
EXTENDS LxmfOutbox, TLAPS

\* A send past its path wait has built its message; whoever will read the live
\* object finds it in a state a row may have, under a real hash.
ShapeOf(i) ==
  /\ snd[i].pc # "new" => snd[i].p \in Payloads
  /\ snd[i].pc \in {"new", "path"} => obj[i].st = "free"
  /\ snd[i].pc \in MidStep \cup {"notify", "count"} => obj[i].st \in RowStates
  /\ obj[i].call => obj[i].st \in RowStates
  /\ \A k \in Kinds : wr[k][i].pc # "off" => obj[i].st \in RowStates
  /\ obj[i].st \in RowStates => obj[i].hash \in Hashes

Shape == \A i \in Sends : ShapeOf(i)

WritesAreProven ==
  \A i \in Sends, k \in Kinds :
    wr[k][i].pc = "update" /\ wr[k][i].st = "delivered" => Proven(obj[i].hash)

UpsertsAreProven ==
  \A i \in Sends :
    snd[i].pc \in {"upsert", "reupsert"} /\ snd[i].seen = "delivered"
      => obj[i].st = "delivered"

Provenance == DeliveredIsProven /\ WritesAreProven /\ UpsertsAreProven

IInv == TypeOK /\ Shape /\ Provenance

--------------------------------------------------------------------------------
(* The helpers return rows and hashes. *)

LEMMA PayloadType == \A h \in Hashes : PayloadOf(h) \in Payloads
  BY DEF Hashes, PayloadOf

LEMMA Outbound == "outbound" \in RowStates
  BY DEF RowStates, InFlight

LEMMA SndMoved ==
  ASSUME NEW s \in SndType, NEW c \in MidStep \cup {"notify", "done"},
         NEW st \in RowStates, NEW v \in BOOLEAN
  PROVE  [s EXCEPT !.pc = c, !.seen = st, !.via = v] \in SndType
  BY DEF SndType

LEMMA RowCounted ==
  ASSUME NEW r \in RowType, NEW n \in 0 .. MaxAttempts
  PROVE  [r EXCEPT !.count = n] \in RowType
  BY DEF RowType

LEMMA UpsertedType ==
  ASSUME TypeOK, NEW h \in Hashes, NEW st \in RowStates, NEW prop \in BOOLEAN
  PROVE  Upserted(h, st, prop) \in RowType
<1>1. row[h] \in RowType
  BY DEF TypeOK
<1>2. Guarded(row[h].st, st) \in RowStates
  BY DEF Guarded, RowStates, Terminal, InFlight
<1>3. 0 \in 0 .. MaxAttempts
  BY OutboxAssumption
<1> QED
  BY <1>1, <1>2, <1>3 DEF Upserted, RowType

LEMMA UpdatedType ==
  ASSUME TypeOK, NEW h \in Hashes, NEW st \in RowStates, NEW prop \in BOOLEAN
  PROVE  Updated(h, st, prop) \in RowType
<1>1. row[h] \in RowType
  BY DEF TypeOK
<1>2. NoRow \in RowType
  BY OutboxAssumption DEF NoRow, RowType
<1> QED
  BY <1>1, <1>2 DEF Updated, RowType

LEMMA BuiltHashType ==
  ASSUME TypeOK, NEW i \in Sends, snd[i].p \in Payloads
  PROVE  BuiltHash(i) \in Hashes
  BY DEF BuiltHash, Hashes, TypeOK, Variants

LEMMA InitInv == Init => IInv
<1> SUFFICES ASSUME Init PROVE IInv
  OBVIOUS
<1>0. 0 \in 0 .. MaxAttempts /\ 0 \in 0 .. MaxCrashes
  BY OutboxAssumption
<1>1. row \in [Hashes -> RowType]
  <2>1. NoRow \in RowType /\ [NoRow EXCEPT !.st = "failed"] \in RowType
    BY <1>0 DEF RowType, NoRow, RowStates, Terminal
  <2> QED
    BY <2>1 DEF Init
<1>2. obj \in [Sends -> ObjType] /\ snd \in [Sends -> SndType]
  BY <1>0 DEF Init, ObjType, SndType, NewObj, NewSnd, RowStates, InFlight
<1>3. wr \in [Kinds -> [Sends -> WrType]]
  BY DEF Init, WrType, IdleWr, RowStates, InFlight
<1>4. auto \in [todo : SUBSET Hashes, snap : [Hashes -> 0 .. MaxAttempts]]
  BY <1>0 DEF Init
<1>5. saved \subseteq Payloads
  BY OutboxAssumption DEF Init
<1>6. TypeOK
  BY <1>0, <1>1, <1>2, <1>3, <1>4, <1>5 DEF TypeOK, Init
<1>7. Shape
  BY DEF Init, Shape, ShapeOf, NewObj, NewSnd, IdleWr, MidStep, RowStates, InFlight, Terminal
<1>8. \A h \in Hashes : row[h].st # "delivered"
  <2>1. NoRow.st = "none" /\ [NoRow EXCEPT !.st = "failed"].st = "failed"
    BY DEF NoRow
  <2> QED
    BY <2>1 DEF Init
<1>9. Provenance
  BY <1>8 DEF Init, Provenance, DeliveredIsProven, WritesAreProven, UpsertsAreProven,
             NewSnd, IdleWr
<1> QED
  BY <1>6, <1>7, <1>9 DEF IInv

--------------------------------------------------------------------------------
(* Type correctness *)

LEMMA SendTypeStep ==
  ASSUME TypeOK, Shape, NEW i \in Sends, SendStep(i)
  PROVE  TypeOK'
<1>row. row \in [Hashes -> RowType]
  BY DEF TypeOK
<1>obj. obj \in [Sends -> ObjType]
  BY DEF TypeOK
<1>snd. snd \in [Sends -> SndType]
  BY DEF TypeOK
<1>icon. icon \in [now : Variants, sent : Variants]
  BY DEF TypeOK
<1>saved. saved \subseteq Payloads
  BY DEF TypeOK
<1>wr. wr \in [Kinds -> [Sends -> WrType]]
  BY DEF TypeOK
<1>1. CASE SendRefused(i)
  <2>1. snd' \in [Sends -> SndType]
    BY <1>1, <1>snd DEF SendRefused, SndType
  <2>u. UNCHANGED <<row, obj, wr, auto, canc, icon, recent, saved, crashes>>
    BY <1>1 DEF SendRefused
  <2> QED
    BY <2>1, <2>u DEF TypeOK
<1>2. CASE SendQueued(i)
  <2>1. snd[i].p \in Payloads
    BY <1>2 DEF SendQueued, Shape, ShapeOf
  <2>2. BuiltHash(i) \in Hashes
    BY <2>1, BuiltHashType
  <2>3. obj' \in [Sends -> ObjType]
    BY <1>2, <2>2, OutboxAssumption, <1>obj, <1>snd DEF SendQueued, ObjType, SndType, RowStates, InFlight
  <2>4. snd' \in [Sends -> SndType]
    BY <1>2, <1>snd DEF SendQueued, SndType, MidStep
  <2>5. icon' \in [now : Variants, sent : Variants]
    BY <1>2, <1>icon DEF SendQueued, IconSent
  <2>u. UNCHANGED <<row, wr, auto, canc, recent, saved, crashes>>
    BY <1>2 DEF SendQueued
  <2> QED
    BY <2>3, <2>4, <2>5, <2>u DEF TypeOK
<1>3. CASE SendPathless(i)
  <2>1. snd[i].p \in Payloads
    BY <1>3 DEF SendPathless, Shape, ShapeOf
  <2>2. BuiltHash(i) \in Hashes
    BY <2>1, BuiltHashType
  <2>3. Upserted(BuiltHash(i), "failed", snd[i].prop) \in RowType
    BY <2>2, UpsertedType, <1>snd DEF SndType, RowStates, Terminal
  <2>4. row' \in [Hashes -> RowType]
    BY <1>3, <2>2, <2>3, <1>row DEF SendPathless
  <2>5. snd' \in [Sends -> SndType]
    BY <1>3, <1>snd DEF SendPathless, SndType
  <2>6. icon' \in [now : Variants, sent : Variants]
    BY <1>3, <1>icon DEF SendPathless, IconSent
  <2>7. saved' \subseteq Payloads
    BY <1>3, <1>saved, <2>1 DEF SendPathless, Saved
  <2>u. UNCHANGED <<obj, wr, auto, canc, recent, crashes>>
    BY <1>3 DEF SendPathless
  <2> QED
    BY <2>4, <2>5, <2>6, <2>7, <2>u DEF TypeOK
<1>4. CASE SendLocal(i)
  <2>1. snd[i].p \in Payloads
    BY <1>4 DEF SendLocal, Shape, ShapeOf
  <2>2. BuiltHash(i) \in Hashes
    BY <2>1, BuiltHashType
  <2>3. Upserted(BuiltHash(i), "delivered", FALSE) \in RowType
    BY <2>2, UpsertedType DEF RowStates, Terminal
  <2>4. row' \in [Hashes -> RowType]
    BY <1>4, <2>2, <2>3, <1>row DEF SendLocal
  <2>5. obj' \in [Sends -> ObjType]
    BY <1>4, <2>2, <1>obj DEF SendLocal, NewObj, ObjType, RowStates, Terminal
  <2>6. snd' \in [Sends -> SndType]
    BY <1>4, <1>snd DEF SendLocal, SndType
  <2>7. icon' \in [now : Variants, sent : Variants]
    BY <1>4, <1>icon DEF SendLocal, IconSent
  <2>8. saved' \subseteq Payloads
    BY <1>4, <1>saved, <2>1 DEF SendLocal, Saved
  <2>u. UNCHANGED <<wr, auto, canc, recent, crashes>>
    BY <1>4 DEF SendLocal
  <2> QED
    BY <2>4, <2>5, <2>6, <2>7, <2>8, <2>u DEF TypeOK
<1>5. CASE SendConvert(i)
  <2>1. obj[i].st \in RowStates /\ obj[i].prop \in BOOLEAN
    BY <1>5, <1>obj DEF SendConvert, Shape, ShapeOf, MidStep, ObjType
  <2>2. PICK c \in MidStep :
          snd' = [snd EXCEPT ![i] = [snd[i] EXCEPT !.pc = c, !.seen = obj[i].st,
                                                   !.via = obj[i].prop]]
    BY <1>5 DEF SendConvert, MidStep
  <2>3. snd' \in [Sends -> SndType]
    BY <2>1, <2>2, <1>snd, SndMoved
  <2>u. UNCHANGED <<row, obj, wr, auto, canc, icon, recent, saved, crashes>>
    BY <1>5 DEF SendConvert
  <2> QED
    BY <2>3, <2>u DEF TypeOK
<1>6. CASE SendUpsert(i)
  <2>1. obj[i].hash \in Hashes /\ snd[i].p \in Payloads
    BY <1>6 DEF SendUpsert, Shape, ShapeOf, MidStep
  <2>2. Upserted(obj[i].hash, snd[i].seen, snd[i].via) \in RowType
    BY <2>1, UpsertedType, <1>snd DEF SndType
  <2>3. row' \in [Hashes -> RowType]
    BY <1>6, <2>1, <2>2, <1>row DEF SendUpsert
  <2>a. snd' = [snd EXCEPT ![i] = [snd[i] EXCEPT !.pc = "notify", !.seen = "outbound",
                                                 !.via = FALSE]]
    BY <1>6 DEF SendUpsert
  <2>4. snd' \in [Sends -> SndType]
    BY <2>a, <1>snd, SndMoved, Outbound
  <2>5. saved' \subseteq Payloads
    BY <1>6, <1>saved, <2>1 DEF SendUpsert, Saved
  <2>u. UNCHANGED <<obj, wr, auto, canc, icon, recent, crashes>>
    BY <1>6 DEF SendUpsert
  <2> QED
    BY <2>3, <2>4, <2>5, <2>u DEF TypeOK
<1>7. CASE SendReturn(i)
  <2>1. wr' \in [Kinds -> [Sends -> WrType]]
    BY <1>7, <1>wr DEF SendReturn, PollStarted, IdleWr, WrType, RowStates, InFlight
  <2>2. NoRow \in RowType
    BY OutboxAssumption DEF NoRow, RowType
  <2>3. row' \in [Hashes -> RowType]
    BY <1>7, <2>2, <1>row DEF SendReturn
  <2>4. snd' \in [Sends -> SndType]
    BY <1>7, <1>snd DEF SendReturn, AfterDrop, SndType, MidStep
  <2>u. UNCHANGED <<obj, auto, canc, icon, recent, saved, crashes>>
    BY <1>7 DEF SendReturn
  <2> QED
    BY <2>1, <2>3, <2>4, <2>u DEF TypeOK
<1>8. CASE SendReopen(i)
  <2>1. obj[i].hash \in Hashes
    BY <1>8 DEF SendReopen, Shape, ShapeOf, MidStep
  <2>2. Upserted(obj[i].hash, snd[i].seen, snd[i].via) \in RowType
    BY <2>1, UpsertedType, <1>snd DEF SndType
  <2>3. row' \in [Hashes -> RowType]
    BY <1>8, <2>1, <2>2, <1>row, <1>snd DEF SendReopen, RowType, SndType
  <2>a. snd' = [snd EXCEPT ![i] = [snd[i] EXCEPT !.pc = "done", !.seen = "outbound",
                                                 !.via = FALSE]]
    BY <1>8 DEF SendReopen
  <2>4. snd' \in [Sends -> SndType]
    BY <2>a, <1>snd, SndMoved, Outbound
  <2>u. UNCHANGED <<obj, wr, auto, canc, icon, recent, saved, crashes>>
    BY <1>8 DEF SendReopen
  <2> QED
    BY <2>3, <2>4, <2>u DEF TypeOK
<1>9. CASE AutoCount(i)
  <2>a. snd[i].n \in 0 .. MaxAttempts
    BY <1>snd DEF SndType
  <2>1. row' \in [Hashes -> RowType]
    <3>1. CASE obj[i].hash \in Hashes
      <4>1. [row[obj[i].hash] EXCEPT !.count = snd[i].n] \in RowType
        BY <3>1, <2>a, <1>row, RowCounted
      <4> QED
        BY <1>9, <4>1, <1>row DEF AutoCount
    <3>2. CASE obj[i].hash \notin Hashes
      BY <1>9, <3>2, <1>row DEF AutoCount
    <3> QED
      BY <3>1, <3>2
  <2>2. snd' \in [Sends -> SndType]
    BY <1>9, <1>snd DEF AutoCount, SndType
  <2>u. UNCHANGED <<obj, wr, auto, canc, icon, recent, saved, crashes>>
    BY <1>9 DEF AutoCount
  <2> QED
    BY <2>1, <2>2, <2>u DEF TypeOK
<1> QED
  BY <1>1, <1>2, <1>3, <1>4, <1>5, <1>6, <1>7, <1>8, <1>9 DEF SendStep

LEMMA StartType ==
  ASSUME TypeOK, NEW i \in Sends, NEW by \in {"user", "auto", "manual"}, NEW p \in Payloads,
         NEW old \in Hashes \cup {None}, NEW n \in 0 .. MaxAttempts, NEW prop \in BOOLEAN,
         Start(i, by, p, old, n, prop)
  PROVE  snd' \in [Sends -> SndType]
<1>1. snd \in [Sends -> SndType]
  BY DEF TypeOK
<1>2. [pc |-> "path", by |-> by, p |-> p, old |-> old, n |-> n, prop |-> prop,
       seen |-> "outbound", via |-> FALSE] \in SndType
  BY Outbound DEF SndType
<1> QED
  BY <1>1, <1>2 DEF Start

LEMMA CancelledType ==
  ASSUME TypeOK, NEW hs
  PROVE  CancelledOutbound(hs) \in [Sends -> ObjType]
<1>1. obj \in [Sends -> ObjType]
  BY DEF TypeOK
<1>2. ASSUME NEW o \in ObjType
      PROVE  [o EXCEPT !.st = "cancelled", !.call = TRUE] \in ObjType
  BY <1>2 DEF ObjType, RowStates, Terminal
<1> QED
  BY <1>1, <1>2 DEF CancelledOutbound

LEMMA EnvironmentTypeStep ==
  ASSUME TypeOK, Environment
  PROVE  TypeOK'
<1>row. row \in [Hashes -> RowType]
  BY DEF TypeOK
<1>obj. obj \in [Sends -> ObjType]
  BY DEF TypeOK
<1>snd. snd \in [Sends -> SndType]
  BY DEF TypeOK
<1>0. 0 \in 0 .. MaxAttempts /\ NoRow \in RowType
  BY OutboxAssumption DEF NoRow, RowType
<1>1. CASE \E i \in Sends, p \in Payloads, prop \in BOOLEAN : UserSend(i, p, prop)
  <2>1. PICK i \in Sends, p \in Payloads, prop \in BOOLEAN : UserSend(i, p, prop)
    BY <1>1
  <2>2. snd' \in [Sends -> SndType]
    BY <2>1, <1>0, StartType DEF UserSend
  <2>3. recent' \subseteq Payloads
    BY <2>1 DEF UserSend, TypeOK
  <2>u. UNCHANGED <<row, obj, wr, auto, canc, icon, saved, crashes>>
    BY <2>1 DEF UserSend
  <2> QED
    BY <2>2, <2>3, <2>u DEF TypeOK
<1>2. CASE \E h \in Hashes : UserCancel(h)
  <2>1. PICK h \in Hashes : UserCancel(h)
    BY <1>2
  <2>2. obj' \in [Sends -> ObjType]
    BY <2>1, CancelledType DEF UserCancel
  <2>3. canc' \in Hashes \cup {None}
    BY <2>1 DEF UserCancel
  <2>u. UNCHANGED <<row, snd, wr, auto, icon, recent, saved, crashes>>
    BY <2>1 DEF UserCancel
  <2> QED
    BY <2>2, <2>3, <2>u DEF TypeOK
<1>3. CASE \E h \in Hashes : UserDelete(h)
  <2>1. PICK h \in Hashes : UserDelete(h)
    BY <1>3
  <2>2. row' \in [Hashes -> RowType]
    BY <2>1, <1>row, <1>0 DEF UserDelete
  <2>3. saved' \subseteq Payloads
    BY <2>1 DEF UserDelete, TypeOK
  <2>u. UNCHANGED <<obj, snd, wr, auto, canc, icon, recent, crashes>>
    BY <2>1 DEF UserDelete
  <2> QED
    BY <2>2, <2>3, <2>u DEF TypeOK
<1>4. CASE \E h \in Hashes : CooldownExpires(h)
  <2>1. PICK h \in Hashes : CooldownExpires(h)
    BY <1>4
  <2>2. [row[h] EXCEPT !.claim = FALSE] \in RowType
    BY <1>row DEF RowType
  <2>3. row' \in [Hashes -> RowType]
    BY <2>1, <2>2, <1>row DEF CooldownExpires
  <2>u. UNCHANGED <<obj, snd, wr, auto, canc, icon, recent, saved, crashes>>
    BY <2>1 DEF CooldownExpires
  <2> QED
    BY <2>3, <2>u DEF TypeOK
<1>5. CASE \E h \in Hashes, i \in Sends : ManualResend(h, i)
  <2>1. PICK h \in Hashes, i \in Sends : ManualResend(h, i)
    BY <1>5
  <2>2. row[h].prop \in BOOLEAN
    BY <1>row DEF RowType
  <2>3. snd' \in [Sends -> SndType]
    BY <2>1, <2>2, <1>0, StartType, PayloadType DEF ManualResend
  <2>4. obj' \in [Sends -> ObjType]
    BY <2>1, CancelledType DEF ManualResend
  <2>u. UNCHANGED <<row, wr, auto, canc, icon, recent, saved, crashes>>
    BY <2>1 DEF ManualResend
  <2> QED
    BY <2>3, <2>4, <2>u DEF TypeOK
<1>6. CASE \E p \in Payloads : RecentExpires(p)
  <2>1. PICK p \in Payloads : RecentExpires(p)
    BY <1>6
  <2>2. recent' \subseteq Payloads
    BY <2>1 DEF RecentExpires, TypeOK
  <2>u. UNCHANGED <<row, obj, snd, wr, auto, canc, icon, saved, crashes>>
    BY <2>1 DEF RecentExpires
  <2> QED
    BY <2>2, <2>u DEF TypeOK
<1>7. CASE ConversationDelete
  <2>1. row' \in [Hashes -> RowType]
    BY <1>7, <1>0 DEF ConversationDelete
  <2>2. obj' \in [Sends -> ObjType]
    BY <1>7, CancelledType DEF ConversationDelete
  <2>3. saved' \subseteq Payloads
    BY <1>7 DEF ConversationDelete
  <2>u. UNCHANGED <<snd, wr, auto, canc, icon, recent, crashes>>
    BY <1>7 DEF ConversationDelete
  <2> QED
    BY <2>1, <2>2, <2>3, <2>u DEF TypeOK
<1>8. CASE ChangeIcon
  <2>1. icon \in [now : Variants, sent : Variants]
    BY DEF TypeOK
  <2>2. icon' \in [now : Variants, sent : Variants]
    BY <1>8, <2>1 DEF ChangeIcon, Variants
  <2>u. UNCHANGED <<row, obj, snd, wr, auto, canc, recent, saved, crashes>>
    BY <1>8 DEF ChangeIcon
  <2> QED
    BY <2>2, <2>u DEF TypeOK
<1>9. CASE Restart
  <2>1. row' \in [Hashes -> RowType]
    <3>1. ASSUME NEW r \in RowType PROVE [r EXCEPT !.st = "failed"] \in RowType
      BY DEF RowType, RowStates, Terminal
    <3> QED
      BY <1>9, <1>row, <3>1 DEF Restart, Unstuck
  <2>2. obj' \in [Sends -> ObjType]
    <3>1. ASSUME NEW o \in ObjType
          PROVE  /\ [o EXCEPT !.call = FALSE] \in ObjType
                 /\ [o EXCEPT !.st = "gone", !.call = FALSE] \in ObjType
      BY DEF ObjType
    <3> QED
      BY <1>9, <1>obj, <3>1 DEF Restart
  <2>3. snd' \in [Sends -> SndType]
    <3>1. ASSUME NEW s \in SndType
          PROVE  [s EXCEPT !.pc = "dead", !.seen = "outbound", !.via = FALSE] \in SndType
      BY Outbound DEF SndType
    <3> QED
      BY <1>9, <1>snd, <3>1 DEF Restart
  <2>4. wr' \in [Kinds -> [Sends -> WrType]]
    BY <1>9, Outbound DEF Restart, IdleWr, WrType
  <2>5. auto' \in [todo : SUBSET Hashes, snap : [Hashes -> 0 .. MaxAttempts]]
    BY <1>9, <1>0 DEF Restart
  <2>6. canc' \in Hashes \cup {None}
    BY <1>9 DEF Restart
  <2>7. crashes' \in 0 .. MaxCrashes
    <3>1. crashes \in 0 .. MaxCrashes
      BY DEF TypeOK
    <3>2. crashes < MaxCrashes /\ crashes' = crashes + 1
      BY <1>9 DEF Restart
    <3>3. MaxCrashes \in Nat
      BY OutboxAssumption
    <3> QED
      BY <3>1, <3>2, <3>3
  <2>u. UNCHANGED <<icon, recent, saved>>
    BY <1>9 DEF Restart
  <2> QED
    BY <2>1, <2>2, <2>3, <2>4, <2>5, <2>6, <2>7, <2>u DEF TypeOK
<1> QED
  BY <1>1, <1>2, <1>3, <1>4, <1>5, <1>6, <1>7, <1>8, <1>9 DEF Environment

LEMMA WriterTypeStep ==
  ASSUME TypeOK, Shape, NEW k \in Kinds, NEW i \in Sends,
         WrRead(k, i) \/ WrUpdate(k, i)
  PROVE  TypeOK'
<1>row. row \in [Hashes -> RowType]
  BY DEF TypeOK
<1>wr. wr \in [Kinds -> [Sends -> WrType]]
  BY DEF TypeOK
<1>1. CASE WrRead(k, i)
  <2>1. obj[i].st \in RowStates
    BY <1>1 DEF WrRead, Shape, ShapeOf
  <2>2. obj[i].prop \in BOOLEAN
    BY DEF TypeOK, ObjType
  <2>3. Guarded(row[obj[i].hash].st, obj[i].st) \in RowStates
    BY <2>1 DEF Guarded, RowStates
  <2>4. [pc |-> "update", prop |-> obj[i].prop,
         st |-> Guarded(row[obj[i].hash].st, obj[i].st)] \in WrType
    BY <2>2, <2>3 DEF WrType
  <2>5. wr' \in [Kinds -> [Sends -> WrType]]
    BY <1>1, <2>4, <1>wr DEF WrRead
  <2>u. UNCHANGED <<row, obj, snd, auto, canc, icon, recent, saved, crashes>>
    BY <1>1 DEF WrRead
  <2> QED
    BY <2>5, <2>u DEF TypeOK
<1>2. CASE WrUpdate(k, i)
  <2>1. obj[i].hash \in Hashes
    BY <1>2 DEF WrUpdate, Shape, ShapeOf
  <2>2. wr[k][i].st \in RowStates /\ wr[k][i].prop \in BOOLEAN
    BY <1>wr DEF WrType
  <2>3. Updated(obj[i].hash, wr[k][i].st, wr[k][i].prop) \in RowType
    BY <2>1, <2>2, UpdatedType
  <2>4. row' \in [Hashes -> RowType]
    BY <1>2, <2>1, <2>3, <1>row DEF WrUpdate
  <2>5. [IdleWr EXCEPT !.pc = IF k = "poll" THEN "check" ELSE "off"] \in WrType
    BY Outbound DEF IdleWr, WrType
  <2>6. wr' \in [Kinds -> [Sends -> WrType]]
    BY <1>2, <2>5, <1>wr DEF WrUpdate
  <2>u. UNCHANGED <<obj, snd, auto, canc, icon, recent, saved, crashes>>
    BY <1>2 DEF WrUpdate
  <2> QED
    BY <2>4, <2>6, <2>u DEF TypeOK
<1> QED
  BY <1>1, <1>2

LEMMA RouterTypeStep ==
  ASSUME TypeOK, NEW i \in Sends,
         RouterSend(i) \/ RouterEnd(i) \/ CbStart(i) \/ PollCheck(i)
  PROVE  TypeOK'
<1>obj. obj \in [Sends -> ObjType]
  BY DEF TypeOK
<1>wr. wr \in [Kinds -> [Sends -> WrType]]
  BY DEF TypeOK
<1>1. CASE RouterSend(i)
  <2>1. [obj[i] EXCEPT !.st = "sent"] \in ObjType
    BY <1>obj DEF ObjType, RowStates, InFlight
  <2>2. obj' \in [Sends -> ObjType]
    BY <1>1, <2>1, <1>obj DEF RouterSend
  <2>u. UNCHANGED <<row, snd, wr, auto, canc, icon, recent, saved, crashes>>
    BY <1>1 DEF RouterSend
  <2> QED
    BY <2>2, <2>u DEF TypeOK
<1>2. CASE RouterEnd(i)
  <2>1. PICK st \in {"delivered", "failed", "rejected", "sent"} :
          obj' = [obj EXCEPT ![i] = [obj[i] EXCEPT !.st = st, !.call = TRUE]]
    BY <1>2 DEF RouterEnd
  <2>2. [obj[i] EXCEPT !.st = st, !.call = TRUE] \in ObjType
    BY <1>obj DEF ObjType, RowStates, InFlight, Terminal
  <2>3. obj' \in [Sends -> ObjType]
    BY <2>1, <2>2, <1>obj
  <2>u. UNCHANGED <<row, snd, wr, auto, canc, icon, recent, saved, crashes>>
    BY <1>2 DEF RouterEnd
  <2> QED
    BY <2>3, <2>u DEF TypeOK
<1>3. CASE CbStart(i)
  <2>1. /\ [obj[i] EXCEPT !.st = "outbound", !.prop = TRUE, !.try = FALSE, !.call = FALSE]
             \in ObjType
        /\ [obj[i] EXCEPT !.call = FALSE] \in ObjType
    BY <1>obj, Outbound DEF ObjType
  <2>2. obj' \in [Sends -> ObjType]
    BY <1>3, <2>1, <1>obj DEF CbStart
  <2>3. wr' \in [Kinds -> [Sends -> WrType]]
    BY <1>3, <1>wr DEF CbStart, Kinds, WrType
  <2>u. UNCHANGED <<row, snd, auto, canc, icon, recent, saved, crashes>>
    BY <1>3 DEF CbStart
  <2> QED
    BY <2>2, <2>3, <2>u DEF TypeOK
<1>4. CASE PollCheck(i)
  <2>1. wr' \in [Kinds -> [Sends -> WrType]]
    BY <1>4, <1>wr DEF PollCheck, Kinds, WrType
  <2>u. UNCHANGED <<row, obj, snd, auto, canc, icon, recent, saved, crashes>>
    BY <1>4 DEF PollCheck
  <2> QED
    BY <2>1, <2>u DEF TypeOK
<1> QED
  BY <1>1, <1>2, <1>3, <1>4

LEMMA AutoTypeStep ==
  ASSUME TypeOK,
         AutoStart \/ AutoEnd \/ \E h \in Hashes, i \in Sends : AutoClaim(h, i)
  PROVE  TypeOK'
<1>row. row \in [Hashes -> RowType]
  BY DEF TypeOK
<1>auto. auto \in [todo : SUBSET Hashes, snap : [Hashes -> 0 .. MaxAttempts]]
  BY DEF TypeOK
<1>0. 0 \in 0 .. MaxAttempts
  BY OutboxAssumption
<1>1. CASE AutoStart
  <2>1. \A h \in Hashes : row[h].count \in 0 .. MaxAttempts
    BY <1>row DEF RowType
  <2>2. auto' \in [todo : SUBSET Hashes, snap : [Hashes -> 0 .. MaxAttempts]]
    BY <1>1, <2>1, <1>0 DEF AutoStart
  <2>u. UNCHANGED <<row, obj, snd, wr, canc, icon, recent, saved, crashes>>
    BY <1>1 DEF AutoStart
  <2> QED
    BY <2>2, <2>u DEF TypeOK
<1>2. CASE AutoEnd
  <2>1. auto' \in [todo : SUBSET Hashes, snap : [Hashes -> 0 .. MaxAttempts]]
    BY <1>2, <1>0 DEF AutoEnd
  <2>u. UNCHANGED <<row, obj, snd, wr, canc, icon, recent, saved, crashes>>
    BY <1>2 DEF AutoEnd
  <2> QED
    BY <2>1, <2>u DEF TypeOK
<1>3. ASSUME NEW h \in Hashes, NEW i \in Sends, AutoClaim(h, i)
      PROVE  TypeOK'
  <2>1. auto.snap[h] \in 0 .. MaxAttempts /\ auto.snap[h] < MaxAttempts
    BY <1>3, <1>auto DEF AutoClaim, WithinBudget
  <2>2. auto.snap[h] + 1 \in 0 .. MaxAttempts
    BY <2>1, OutboxAssumption
  <2>3. snd' \in [Sends -> SndType]
    BY <1>3, <2>2, StartType, PayloadType DEF AutoClaim
  <2>4. [row[h] EXCEPT !.claim = TRUE, !.count = auto.snap[h] + 1] \in RowType
    BY <2>2, <1>row DEF RowType
  <2>5. row' = [row EXCEPT ![h] = [row[h] EXCEPT !.claim = TRUE,
                                                 !.count = auto.snap[h] + 1]]
    BY <1>3 DEF AutoClaim
  <2>6. row' \in [Hashes -> RowType]
    BY <2>4, <2>5, <1>row
  <2>7. auto' \in [todo : SUBSET Hashes, snap : [Hashes -> 0 .. MaxAttempts]]
    BY <1>3, <1>0, <1>auto DEF AutoClaim
  <2>u. UNCHANGED <<obj, wr, canc, icon, recent, saved, crashes>>
    BY <1>3 DEF AutoClaim
  <2> QED
    BY <2>3, <2>6, <2>7, <2>u DEF TypeOK
<1> QED
  BY <1>1, <1>2, <1>3

LEMMA TypeStep ==
  ASSUME TypeOK, Shape, [Next]_vars
  PROVE  TypeOK'
<1>1. CASE Environment
  BY <1>1, EnvironmentTypeStep
<1>2. CASE System
  BY <1>2, SendTypeStep, WriterTypeStep, RouterTypeStep, AutoTypeStep DEF System
<1>3. CASE \E k \in Kinds, i \in Sends : WrUpdate(k, i)
  BY <1>3, WriterTypeStep
<1>4. CASE CancelWrite
  <2>1. row \in [Hashes -> RowType]
    BY DEF TypeOK
  <2>2. ASSUME NEW r \in RowType PROVE [r EXCEPT !.st = "cancelled"] \in RowType
    BY DEF RowType, RowStates, Terminal
  <2>3. row' \in [Hashes -> RowType]
    BY <1>4, <2>1, <2>2 DEF CancelWrite
  <2>u. UNCHANGED <<obj, snd, wr, auto, icon, recent, saved, crashes>>
    BY <1>4 DEF CancelWrite
  <2>4. canc' \in Hashes \cup {None}
    BY <1>4 DEF CancelWrite
  <2> QED
    BY <2>3, <2>4, <2>u DEF TypeOK
<1>5. CASE UNCHANGED vars
  BY <1>5 DEF TypeOK, vars
<1> QED
  BY <1>1, <1>2, <1>3, <1>4, <1>5 DEF Next

--------------------------------------------------------------------------------
(* Shape *)

\* What a send's record, its live object and its writers have to do with Shape.
LEMMA ShapeFrame ==
  ASSUME Shape, NEW j \in Sends, snd'[j] = snd[j], obj'[j] = obj[j],
         \A k \in Kinds : wr'[k][j] = wr[k][j]
  PROVE  ShapeOf(j)'
<1>1. ShapeOf(j)
  BY DEF Shape
<1> QED
  BY <1>1 DEF ShapeOf

LEMMA SendShapeStep ==
  ASSUME TypeOK, Shape, NEW i \in Sends, SendStep(i)
  PROVE  Shape'
<1>obj. obj \in [Sends -> ObjType]
  BY DEF TypeOK
<1>snd. snd \in [Sends -> SndType]
  BY DEF TypeOK
<1>wr. wr \in [Kinds -> [Sends -> WrType]]
  BY DEF TypeOK
<1>i. ShapeOf(i)
  BY DEF Shape
<1>0. ASSUME NEW j \in Sends, j # i
      PROVE  ShapeOf(j)'
  <2>1. snd'[j] = snd[j]
    BY <1>0, <1>snd DEF SendStep, SendRefused, SendQueued, SendPathless, SendLocal,
       SendConvert, SendUpsert, SendReturn, SendReopen, AutoCount
  <2>2. obj'[j] = obj[j]
    BY <1>0, <1>obj DEF SendStep, SendRefused, SendQueued, SendPathless, SendLocal,
       SendConvert, SendUpsert, SendReturn, SendReopen, AutoCount
  <2>3. \A k \in Kinds : wr'[k][j] = wr[k][j]
    <3>1. wr' = wr \/ \E w : wr' = [wr EXCEPT !["poll"][i] = w]
      BY DEF SendStep, SendRefused, SendQueued, SendPathless, SendLocal, SendConvert,
         SendUpsert, SendReturn, PollStarted, SendReopen, AutoCount
    <3> QED
      BY <1>0, <1>wr, <3>1 DEF Kinds
  <2> QED
    BY <2>1, <2>2, <2>3, ShapeFrame
<1>1. CASE SendRefused(i)
  <2>1. ShapeOf(i)'
    BY <1>1, <1>i, <1>snd DEF SendRefused, ShapeOf, MidStep
  <2> QED
    BY <1>0, <2>1 DEF Shape
<1>2. CASE SendQueued(i)
  <2>1. BuiltHash(i) \in Hashes /\ snd[i].p \in Payloads
    BY <1>2, <1>i, BuiltHashType DEF SendQueued, ShapeOf
  <2>2. obj'[i].hash = BuiltHash(i) /\ obj'[i].st = "outbound" /\ obj'[i].call = FALSE
    BY <1>2, <1>obj DEF SendQueued
  <2>3. snd'[i].pc = "convert" /\ snd'[i].p = snd[i].p
    BY <1>2, <1>snd DEF SendQueued, SndType
  <2>4. ShapeOf(i)'
    BY <2>1, <2>2, <2>3, Outbound DEF ShapeOf
  <2> QED
    BY <1>0, <2>4 DEF Shape
<1>3. CASE SendPathless(i)
  <2>1. snd'[i].pc = "raise" /\ snd'[i].p = snd[i].p
    BY <1>3, <1>snd DEF SendPathless, SndType
  <2>2. snd[i].pc = "path" /\ UNCHANGED <<obj, wr>>
    BY <1>3 DEF SendPathless
  <2>3. ShapeOf(i)'
    BY <1>i, <2>1, <2>2 DEF ShapeOf, MidStep
  <2> QED
    BY <1>0, <2>3 DEF Shape
<1>4. CASE SendLocal(i)
  <2>1. BuiltHash(i) \in Hashes /\ snd[i].p \in Payloads
    BY <1>4, <1>i, BuiltHashType DEF SendLocal, ShapeOf
  <2>2. obj'[i].hash = BuiltHash(i) /\ obj'[i].st = "delivered" /\ obj'[i].call = FALSE
    BY <1>4, <1>obj DEF SendLocal, NewObj
  <2>3. snd'[i].pc = "notify" /\ snd'[i].p = snd[i].p
    BY <1>4, <1>snd DEF SendLocal, SndType
  <2>4. ShapeOf(i)'
    BY <2>1, <2>2, <2>3 DEF ShapeOf, RowStates, Terminal
  <2> QED
    BY <1>0, <2>4 DEF Shape
<1>5. ASSUME SendConvert(i) \/ SendUpsert(i) \/ SendReopen(i) \/ AutoCount(i)
      PROVE  Shape'
  <2>1. /\ snd[i].pc \in MidStep \cup {"count"} /\ UNCHANGED <<obj, wr>>
        /\ snd'[i].pc \in MidStep \cup {"notify", "done"} /\ snd'[i].p = snd[i].p
    BY <1>5, <1>snd DEF SendConvert, SendUpsert, SendReopen, AutoCount, SndType, MidStep
  <2>2. ShapeOf(i)'
    BY <1>i, <2>1 DEF ShapeOf, MidStep
  <2> QED
    BY <1>0, <2>2 DEF Shape
<1>6. CASE SendReturn(i)
  <2>1. snd[i].pc = "notify" /\ UNCHANGED obj
    BY <1>6 DEF SendReturn
  <2>2. snd'[i].pc \in {"done", "reconvert", "count"} /\ snd'[i].p = snd[i].p
    BY <1>6, <1>snd DEF SendReturn, AfterDrop, SndType
  <2>3. ShapeOf(i)'
    BY <1>i, <2>1, <2>2 DEF ShapeOf, MidStep
  <2> QED
    BY <1>0, <2>3 DEF Shape
<1> QED
  BY <1>1, <1>2, <1>3, <1>4, <1>5, <1>6 DEF SendStep

\* Cancelling changes only queued copies, which are past their path wait.
LEMMA CancelledShape ==
  ASSUME TypeOK, Shape, NEW hs, obj' = CancelledOutbound(hs),
         UNCHANGED wr, NEW i \in Sends, snd'[i] = snd[i]
  PROVE  ShapeOf(i)'
<1>1. ShapeOf(i)
  BY DEF Shape
<1>2. CASE obj'[i] = obj[i]
  BY <1>1, <1>2 DEF ShapeOf
<1>3. CASE obj'[i] # obj[i]
  <2>1. obj \in [Sends -> ObjType]
    BY DEF TypeOK
  <2>2. Queued(i) /\ obj'[i] = [obj[i] EXCEPT !.st = "cancelled", !.call = TRUE]
    BY <1>3 DEF CancelledOutbound
  <2>3. obj[i].st \in RowStates /\ obj[i].st # "free"
    BY <2>2 DEF Queued, RowStates, InFlight
  <2>4. obj'[i].st = "cancelled" /\ obj'[i].hash = obj[i].hash
    BY <2>1, <2>2 DEF ObjType
  <2>5. "cancelled" \in RowStates
    BY DEF RowStates, Terminal
  <2> QED
    BY <1>1, <2>3, <2>4, <2>5 DEF ShapeOf
<1> QED
  BY <1>2, <1>3

\* A send starts: its object is still free.
LEMMA StartShape ==
  ASSUME TypeOK, Shape, NEW i \in Sends, NEW by, NEW p \in Payloads, NEW old, NEW n, NEW prop,
         Start(i, by, p, old, n, prop), UNCHANGED <<obj, wr>>
  PROVE  Shape'
<1>1. snd \in [Sends -> SndType]
  BY DEF TypeOK
<1>2. ASSUME NEW j \in Sends, j # i
      PROVE  ShapeOf(j)'
  BY <1>1, <1>2, ShapeFrame DEF Start
<1>3. snd[i].pc = "new" /\ snd'[i].pc = "path" /\ snd'[i].p = p
  BY <1>1 DEF Start
<1>4. ShapeOf(i)
  BY DEF Shape
<1>5. ShapeOf(i)'
  BY <1>3, <1>4 DEF ShapeOf, MidStep
<1> QED
  BY <1>2, <1>5 DEF Shape

LEMMA EnvironmentShapeStep ==
  ASSUME TypeOK, Shape, Environment
  PROVE  Shape'
<1>1. CASE \E i \in Sends, p \in Payloads, prop \in BOOLEAN : UserSend(i, p, prop)
  BY <1>1, StartShape DEF UserSend
<1>2. CASE \E h \in Hashes : UserCancel(h)
  BY <1>2, CancelledShape DEF UserCancel, Shape
<1>3. CASE \/ \E h \in Hashes : UserDelete(h) \/ CooldownExpires(h)
           \/ \E p \in Payloads : RecentExpires(p)
           \/ ChangeIcon
  <2>1. UNCHANGED <<obj, snd, wr>>
    BY <1>3 DEF UserDelete, CooldownExpires, RecentExpires, ChangeIcon
  <2> QED
    BY <2>1, ShapeFrame DEF Shape
<1>4. CASE ConversationDelete
  BY <1>4, CancelledShape DEF ConversationDelete, Shape
<1>5. ASSUME NEW h \in Hashes, NEW i \in Sends, ManualResend(h, i)
      PROVE  Shape'
  <2>1. snd \in [Sends -> SndType]
    BY DEF TypeOK
  <2>2. obj' = CancelledOutbound({h}) /\ UNCHANGED wr
    BY <1>5 DEF ManualResend
  <2>3. ASSUME NEW j \in Sends, j # i
        PROVE  ShapeOf(j)'
    <3>1. snd'[j] = snd[j]
      BY <1>5, <2>1, <2>3 DEF ManualResend, Start
    <3> QED
      BY <2>2, <3>1, CancelledShape
  <2>4. snd[i].pc = "new" /\ snd'[i].pc = "path" /\ snd'[i].p = PayloadOf(h)
    BY <1>5, <2>1 DEF ManualResend, Start
  <2>5. ShapeOf(i)
    BY DEF Shape
  <2>6. obj'[i] = obj[i]
    BY <2>2, <2>4, <2>5 DEF ShapeOf, CancelledOutbound, Queued
  <2>7. ShapeOf(i)'
    BY <2>2, <2>4, <2>5, <2>6, PayloadType DEF ShapeOf, MidStep
  <2> QED
    BY <2>3, <2>7 DEF Shape
<1>6. CASE Restart
  <2> SUFFICES ASSUME NEW i \in Sends PROVE ShapeOf(i)'
    BY DEF Shape
  <2>1. obj \in [Sends -> ObjType] /\ snd \in [Sends -> SndType]
    BY DEF TypeOK
  <2>2. ShapeOf(i)
    BY DEF Shape
  <2>3. \A k \in Kinds : wr'[k][i].pc = "off"
    BY <1>6 DEF Restart, IdleWr
  <2>4. obj'[i].call = FALSE /\ obj'[i].hash = obj[i].hash
    BY <1>6, <2>1 DEF Restart, ObjType
  <2>5. obj'[i].st = IF obj[i].st \in {"free", "delivered"} THEN obj[i].st ELSE "gone"
    BY <1>6, <2>1 DEF Restart, ObjType
  <2>6. "gone" \notin RowStates /\ "free" \notin RowStates
    BY DEF RowStates, InFlight, Terminal
  <2>7. CASE snd[i].pc = "new"
    <3>1. snd'[i] = snd[i]
      BY <1>6, <2>7 DEF Restart
    <3> QED
      BY <2>2, <2>3, <2>4, <2>5, <2>6, <2>7, <3>1 DEF ShapeOf, MidStep
  <2>8. CASE snd[i].pc # "new"
    <3>1. snd'[i].pc = "dead" /\ snd'[i].p = snd[i].p
      BY <1>6, <2>1, <2>8 DEF Restart, SndType
    <3> QED
      BY <2>2, <2>3, <2>4, <2>5, <2>6, <2>8, <3>1 DEF ShapeOf, MidStep
  <2> QED
    BY <2>7, <2>8
<1> QED
  BY <1>1, <1>2, <1>3, <1>4, <1>5, <1>6 DEF Environment

\* The router, the callbacks and the writers move one live object or one writer.
LEMMA SystemShapeStep ==
  ASSUME TypeOK, Shape, NEW i \in Sends,
         \/ RouterSend(i) \/ RouterEnd(i) \/ CbStart(i) \/ PollCheck(i)
         \/ \E k \in Kinds : WrRead(k, i) \/ WrUpdate(k, i)
  PROVE  Shape'
<1>obj. obj \in [Sends -> ObjType]
  BY DEF TypeOK
<1>wr. wr \in [Kinds -> [Sends -> WrType]]
  BY DEF TypeOK
<1>i. ShapeOf(i)
  BY DEF Shape
<1>snd. UNCHANGED snd
  BY DEF RouterSend, RouterEnd, CbStart, PollCheck, WrRead, WrUpdate
<1>0. ASSUME NEW j \in Sends, j # i
      PROVE  ShapeOf(j)'
  <2>1. obj'[j] = obj[j]
    BY <1>0, <1>obj DEF RouterSend, RouterEnd, CbStart, PollCheck, WrRead, WrUpdate
  <2>2. \/ wr' = wr
        \/ \E k \in Kinds : \E w : wr' = [wr EXCEPT ![k][i] = w]
    BY DEF RouterSend, RouterEnd, CbStart, PollCheck, WrRead, WrUpdate, Kinds
  <2>3. \A k \in Kinds : wr'[k][j] = wr[k][j]
    BY <1>0, <1>wr, <2>2
  <2> QED
    BY <1>snd, <2>1, <2>3, ShapeFrame
<1>1. ASSUME RouterSend(i) \/ RouterEnd(i)
      PROVE  Shape'
  <2>1. obj[i].st \in {"outbound", "sent"} /\ UNCHANGED wr
    BY <1>1 DEF RouterSend, RouterEnd, Queued
  <2>2. obj'[i].st \in {"sent", "delivered", "failed", "rejected"} /\ obj'[i].hash = obj[i].hash
    BY <1>1, <1>obj DEF RouterSend, RouterEnd, ObjType
  <2>3. {"outbound", "sent", "delivered", "failed", "rejected"} \subseteq RowStates
    BY DEF RowStates, InFlight, Terminal
  <2>4. ShapeOf(i)'
    BY <1>i, <1>snd, <2>1, <2>2, <2>3 DEF ShapeOf
  <2> QED
    BY <1>0, <2>4 DEF Shape
<1>2. CASE CbStart(i)
  <2>1. obj[i].st \in RowStates /\ obj[i].st # "free" /\ obj[i].hash \in Hashes
    BY <1>2, <1>i DEF CbStart, ShapeOf, RowStates, InFlight, Terminal
  <2>2. obj'[i].st \in RowStates /\ obj'[i].hash = obj[i].hash
    BY <1>2, <1>obj, <2>1, Outbound DEF CbStart, ObjType
  <2>3. ShapeOf(i)'
    BY <1>i, <1>snd, <2>1, <2>2 DEF ShapeOf
  <2> QED
    BY <1>0, <2>3 DEF Shape
<1>3. ASSUME PollCheck(i) \/ \E k \in Kinds : WrRead(k, i) \/ WrUpdate(k, i)
      PROVE  Shape'
  <2>1. (\E k \in Kinds : wr[k][i].pc # "off") /\ UNCHANGED obj
    BY <1>3 DEF PollCheck, WrRead, WrUpdate, Kinds
  <2>2. obj[i].st \in RowStates
    BY <1>i, <2>1 DEF ShapeOf
  <2>3. ShapeOf(i)'
    BY <1>i, <1>snd, <2>1, <2>2 DEF ShapeOf
  <2> QED
    BY <1>0, <2>3 DEF Shape
<1> QED
  BY <1>1, <1>2, <1>3

LEMMA ShapeStep ==
  ASSUME TypeOK, Shape, [Next]_vars
  PROVE  Shape'
<1>1. CASE Environment
  BY <1>1, EnvironmentShapeStep
<1>2. ASSUME NEW i \in Sends, SendStep(i)
      PROVE  Shape'
  BY <1>2, SendShapeStep
<1>3. ASSUME NEW i \in Sends,
             \/ RouterSend(i) \/ RouterEnd(i) \/ CbStart(i) \/ PollCheck(i)
             \/ \E k \in Kinds : WrRead(k, i) \/ WrUpdate(k, i)
      PROVE  Shape'
  BY <1>3, SystemShapeStep
<1>4. ASSUME NEW h \in Hashes, NEW i \in Sends, AutoClaim(h, i)
      PROVE  Shape'
  BY <1>4, StartShape, PayloadType DEF AutoClaim
<1>5. ASSUME AutoStart \/ AutoEnd \/ CancelWrite \/ UNCHANGED vars
      PROVE  Shape'
  <2>1. UNCHANGED <<obj, snd, wr>>
    BY <1>5 DEF AutoStart, AutoEnd, CancelWrite, vars
  <2> QED
    BY <2>1, ShapeFrame DEF Shape
<1> QED
  BY <1>1, <1>2, <1>3, <1>4, <1>5 DEF Next, System

--------------------------------------------------------------------------------
(* Provenance *)

\* A proof is never taken back: not even the process's death forgets it.
LEMMA DeliveredStays ==
  ASSUME TypeOK, Shape, [Next]_vars, NEW i \in Sends, obj[i].st = "delivered"
  PROVE  obj'[i].hash = obj[i].hash /\ obj'[i].st = "delivered"
<1>obj. obj \in [Sends -> ObjType]
  BY DEF TypeOK
<1>2. snd[i].pc # "path" /\ ~Queued(i)
  BY DEF Shape, ShapeOf, Queued
<1>3. \A hs : CancelledOutbound(hs)[i] = obj[i]
  BY <1>2 DEF CancelledOutbound
<1>4. CASE Environment
  <2>1. CASE Restart
    BY <1>obj, <2>1 DEF Restart, ObjType
  <2>2. CASE \/ \E h1 \in Hashes : UserCancel(h1)
             \/ \E h1 \in Hashes, j \in Sends : ManualResend(h1, j)
             \/ ConversationDelete
    BY <1>3, <2>2 DEF UserCancel, ManualResend, ConversationDelete
  <2>3. CASE \/ \E j \in Sends, p \in Payloads, prop \in BOOLEAN : UserSend(j, p, prop)
             \/ \E h1 \in Hashes : UserDelete(h1) \/ CooldownExpires(h1)
             \/ \E p \in Payloads : RecentExpires(p)
             \/ ChangeIcon
    BY <2>3 DEF UserSend, UserDelete, CooldownExpires, RecentExpires, ChangeIcon
  <2> QED
    BY <1>4, <2>1, <2>2, <2>3 DEF Environment
<1>5. ASSUME NEW j \in Sends, SendStep(j)
      PROVE  obj'[i] = obj[i]
  <2>1. CASE SendQueued(j) \/ SendLocal(j)
    BY <1>2, <1>obj, <2>1 DEF SendQueued, SendLocal
  <2>2. CASE ~(SendQueued(j) \/ SendLocal(j))
    BY <1>5, <2>2 DEF SendStep, SendRefused, SendPathless, SendConvert, SendUpsert,
       SendReturn, SendReopen, AutoCount
  <2> QED
    BY <2>1, <2>2
<1>6. ASSUME NEW j \in Sends, RouterSend(j) \/ RouterEnd(j)
      PROVE  obj'[i] = obj[i]
  <2>1. j # i
    BY <1>2, <1>6 DEF RouterSend, RouterEnd, Queued
  <2> QED
    BY <1>6, <1>obj, <2>1 DEF RouterSend, RouterEnd
<1>7. ASSUME NEW j \in Sends, CbStart(j)
      PROVE  obj'[i].hash = obj[i].hash /\ obj'[i].st = "delivered"
  BY <1>7, <1>obj DEF CbStart, ObjType
<1>8. ASSUME \/ \E j \in Sends : PollCheck(j)
             \/ \E k \in Kinds, j \in Sends : WrRead(k, j) \/ WrUpdate(k, j)
             \/ \E h1 \in Hashes, j \in Sends : AutoClaim(h1, j)
             \/ AutoStart \/ AutoEnd \/ CancelWrite \/ UNCHANGED vars
      PROVE  obj'[i] = obj[i]
  BY <1>8 DEF PollCheck, WrRead, WrUpdate, AutoClaim, AutoStart, AutoEnd, CancelWrite, vars
<1> QED
  BY <1>4, <1>5, <1>6, <1>7, <1>8 DEF Next, System

LEMMA ProvenStays ==
  ASSUME TypeOK, Shape, [Next]_vars, NEW h, Proven(h)
  PROVE  Proven(h)'
  BY DeliveredStays DEF Proven

\* While somebody writes a live object's row, the object keeps its hash.
LEMMA HashStays ==
  ASSUME TypeOK, Shape, [Next]_vars, NEW i \in Sends, snd[i].pc # "path"
  PROVE  obj'[i].hash = obj[i].hash
<1>obj. obj \in [Sends -> ObjType]
  BY DEF TypeOK
<1>1. \A hs : CancelledOutbound(hs)[i].hash = obj[i].hash
  BY <1>obj DEF CancelledOutbound, ObjType
<1>2. CASE Environment
  <2>1. CASE Restart
    BY <1>obj, <2>1 DEF Restart, ObjType
  <2>2. CASE \/ \E h \in Hashes : UserCancel(h)
             \/ \E h \in Hashes, j \in Sends : ManualResend(h, j)
             \/ ConversationDelete
    BY <1>1, <2>2 DEF UserCancel, ManualResend, ConversationDelete
  <2>3. CASE \/ \E j \in Sends, p \in Payloads, prop \in BOOLEAN : UserSend(j, p, prop)
             \/ \E h \in Hashes : UserDelete(h) \/ CooldownExpires(h)
             \/ \E p \in Payloads : RecentExpires(p)
             \/ ChangeIcon
    BY <2>3 DEF UserSend, UserDelete, CooldownExpires, RecentExpires, ChangeIcon
  <2> QED
    BY <1>2, <2>1, <2>2, <2>3 DEF Environment
<1>3. ASSUME NEW j \in Sends, SendStep(j)
      PROVE  obj'[i] = obj[i]
  <2>1. CASE SendQueued(j) \/ SendLocal(j)
    BY <1>obj, <2>1 DEF SendQueued, SendLocal
  <2>2. CASE ~(SendQueued(j) \/ SendLocal(j))
    BY <1>3, <2>2 DEF SendStep, SendRefused, SendPathless, SendConvert, SendUpsert,
       SendReturn, SendReopen, AutoCount
  <2> QED
    BY <2>1, <2>2
<1>4. ASSUME NEW j \in Sends, RouterSend(j) \/ RouterEnd(j) \/ CbStart(j)
      PROVE  obj'[i].hash = obj[i].hash
  <2>1. CASE RouterSend(j)
    BY <1>obj, <2>1 DEF RouterSend, ObjType
  <2>2. CASE RouterEnd(j)
    BY <1>obj, <2>2 DEF RouterEnd, ObjType
  <2>3. CASE CbStart(j)
    BY <1>obj, <2>3 DEF CbStart, ObjType
  <2> QED
    BY <1>4, <2>1, <2>2, <2>3
<1>5. ASSUME \/ \E j \in Sends : PollCheck(j)
             \/ \E k \in Kinds, j \in Sends : WrRead(k, j) \/ WrUpdate(k, j)
             \/ \E h \in Hashes, j \in Sends : AutoClaim(h, j)
             \/ AutoStart \/ AutoEnd \/ CancelWrite \/ UNCHANGED vars
      PROVE  obj'[i] = obj[i]
  BY <1>5 DEF PollCheck, WrRead, WrUpdate, AutoClaim, AutoStart, AutoEnd, CancelWrite, vars
<1> QED
  BY <1>2, <1>3, <1>4, <1>5 DEF Next, System

\* Where a stored "delivered" can come from.
LEMMA RowSource ==
  ASSUME TypeOK, Shape, [Next]_vars, NEW h \in Hashes, row'[h].st = "delivered"
  PROVE  \/ row[h].st = "delivered"
         \/ \E i \in Sends : /\ snd[i].pc \in {"upsert", "reupsert"}
                             /\ snd[i].seen = "delivered" /\ obj[i].hash = h
         \/ \E i \in Sends : SendLocal(i) /\ BuiltHash(i) = h
         \/ \E k \in Kinds, i \in Sends : /\ wr[k][i].pc = "update" /\ obj[i].hash = h
                                           /\ wr[k][i].st = "delivered"
<1>row. row \in [Hashes -> RowType]
  BY DEF TypeOK
<1>0. NoRow.st = "none"
  BY DEF NoRow
<1>1. ASSUME NEW st, NEW prop, Upserted(h, st, prop).st = "delivered"
      PROVE  row[h].st = "delivered" \/ st = "delivered"
  BY <1>1 DEF Upserted, Guarded
<1>2. CASE Environment
  <2>1. CASE Restart
    <3>1. row'[h] = Unstuck(row[h])
      BY <2>1 DEF Restart
    <3> QED
      BY <3>1, <1>row DEF Unstuck, RowType
  <2>2. CASE \E g \in Hashes : UserDelete(g) \/ CooldownExpires(g)
    BY <1>row, <1>0, <2>2 DEF UserDelete, CooldownExpires, RowType
  <2>3. CASE ConversationDelete
    BY <1>0, <2>3 DEF ConversationDelete
  <2>4. CASE \/ \E j \in Sends, p \in Payloads, prop \in BOOLEAN : UserSend(j, p, prop)
             \/ \E g \in Hashes : UserCancel(g)
             \/ \E g \in Hashes, j \in Sends : ManualResend(g, j)
             \/ \E p \in Payloads : RecentExpires(p)
             \/ ChangeIcon
    BY <2>4 DEF UserSend, UserCancel, ManualResend, RecentExpires, ChangeIcon
  <2> QED
    BY <1>2, <2>1, <2>2, <2>3, <2>4 DEF Environment
<1>3. ASSUME NEW i \in Sends, SendPathless(i)
      PROVE  row[h].st = "delivered"
  <2>1. row' = [row EXCEPT ![BuiltHash(i)] = Upserted(BuiltHash(i), "failed", snd[i].prop)]
    BY <1>3 DEF SendPathless
  <2> QED
    BY <1>row, <1>1, <2>1
<1>4. ASSUME NEW i \in Sends, SendLocal(i)
      PROVE  row[h].st = "delivered" \/ BuiltHash(i) = h
  BY <1>4, <1>row DEF SendLocal
<1>5. ASSUME NEW i \in Sends, SendUpsert(i)
      PROVE  \/ row[h].st = "delivered"
             \/ snd[i].pc = "upsert" /\ snd[i].seen = "delivered" /\ obj[i].hash = h
  BY <1>5, <1>row, <1>1 DEF SendUpsert
<1>6. ASSUME NEW i \in Sends, SendReopen(i)
      PROVE  \/ row[h].st = "delivered"
             \/ snd[i].pc = "reupsert" /\ snd[i].seen = "delivered" /\ obj[i].hash = h
  <2>1. CASE obj[i].hash = h
    <3>1. row'[h] = [Upserted(h, snd[i].seen, snd[i].via) EXCEPT !.count = snd[i].n]
      BY <1>6, <1>row, <2>1 DEF SendReopen
    <3>2. row'[h].st = Upserted(h, snd[i].seen, snd[i].via).st
      BY <3>1 DEF Upserted
    <3> QED
      BY <1>6, <1>1, <2>1, <3>2 DEF SendReopen
  <2>2. CASE obj[i].hash # h
    BY <1>6, <1>row, <2>2 DEF SendReopen
  <2> QED
    BY <2>1, <2>2
<1>7. ASSUME NEW i \in Sends, SendReturn(i) \/ AutoCount(i)
      PROVE  row[h].st = "delivered"
  BY <1>7, <1>row, <1>0 DEF SendReturn, AutoCount, RowType
<1>8. ASSUME NEW k \in Kinds, NEW i \in Sends, WrUpdate(k, i)
      PROVE  \/ row[h].st = "delivered"
             \/ wr[k][i].pc = "update" /\ obj[i].hash = h /\ wr[k][i].st = "delivered"
  <2>1. CASE obj[i].hash = h
    <3>1. row'[h] = Updated(h, wr[k][i].st, wr[k][i].prop)
      BY <1>8, <1>row, <2>1 DEF WrUpdate
    <3>2. Updated(h, wr[k][i].st, wr[k][i].prop).st \in {"none", wr[k][i].st}
      BY <1>row, <1>0 DEF Updated, RowType
    <3> QED
      BY <1>8, <2>1, <3>1, <3>2 DEF WrUpdate
  <2>2. CASE obj[i].hash # h
    BY <1>8, <1>row, <2>2 DEF WrUpdate
  <2> QED
    BY <2>1, <2>2
<1>9. ASSUME CancelWrite \/ \E g \in Hashes, i \in Sends : AutoClaim(g, i)
      PROVE  row[h].st = "delivered"
  <2>1. CASE CancelWrite
    BY <1>row, <2>1 DEF CancelWrite, RowType
  <2>2. CASE \E g \in Hashes, i \in Sends : AutoClaim(g, i)
    BY <1>row, <2>2 DEF AutoClaim, RowType
  <2> QED
    BY <1>9, <2>1, <2>2
<1>10. ASSUME NEW i \in Sends,
              \/ SendRefused(i) \/ SendQueued(i) \/ SendConvert(i)
              \/ RouterSend(i) \/ RouterEnd(i) \/ CbStart(i) \/ PollCheck(i)
              \/ \E k \in Kinds : WrRead(k, i)
       PROVE  row[h].st = "delivered"
  BY <1>10 DEF SendRefused, SendQueued, SendConvert, RouterSend, RouterEnd, CbStart,
     PollCheck, WrRead
<1>11. ASSUME AutoStart \/ AutoEnd \/ UNCHANGED vars
       PROVE  row[h].st = "delivered"
  BY <1>11 DEF AutoStart, AutoEnd, vars
<1> QED
  BY <1>2, <1>3, <1>4, <1>5, <1>6, <1>7, <1>8, <1>9, <1>10, <1>11
     DEF Next, System, SendStep

LEMMA DeliveredStep ==
  ASSUME IInv, [Next]_vars
  PROVE  DeliveredIsProven'
<1>0. TypeOK /\ Shape /\ DeliveredIsProven /\ WritesAreProven /\ UpsertsAreProven
  BY DEF IInv, Provenance
<1> SUFFICES ASSUME NEW h \in Hashes, row'[h].st = "delivered"
             PROVE  Proven(h)'
  BY DEF DeliveredIsProven
<1>1. CASE row[h].st = "delivered"
  BY <1>0, <1>1, ProvenStays DEF DeliveredIsProven
<1>2. ASSUME NEW i \in Sends, snd[i].pc \in {"upsert", "reupsert"},
             snd[i].seen = "delivered", obj[i].hash = h
      PROVE  Proven(h)'
  <2>1. Proven(h)
    BY <1>0, <1>2 DEF UpsertsAreProven, Proven
  <2> QED
    BY <1>0, <2>1, ProvenStays
<1>3. ASSUME NEW i \in Sends, SendLocal(i), BuiltHash(i) = h
      PROVE  Proven(h)'
  <2>1. obj \in [Sends -> ObjType]
    BY <1>0 DEF TypeOK
  <2>2. obj'[i].hash = h /\ obj'[i].st = "delivered"
    BY <1>3, <2>1 DEF SendLocal, NewObj
  <2> QED
    BY <2>2 DEF Proven
<1>4. ASSUME NEW k \in Kinds, NEW i \in Sends, wr[k][i].pc = "update",
             obj[i].hash = h, wr[k][i].st = "delivered"
      PROVE  Proven(h)'
  <2>1. Proven(h)
    BY <1>0, <1>4 DEF WritesAreProven
  <2> QED
    BY <1>0, <2>1, ProvenStays
<1> QED
  BY <1>0, <1>1, <1>2, <1>3, <1>4, RowSource

LEMMA WritesStep ==
  ASSUME IInv, [Next]_vars
  PROVE  WritesAreProven'
<1>0. TypeOK /\ Shape /\ DeliveredIsProven /\ WritesAreProven
  BY DEF IInv, Provenance
<1>wr. wr \in [Kinds -> [Sends -> WrType]]
  BY <1>0 DEF TypeOK
<1> SUFFICES ASSUME NEW i \in Sends, NEW k \in Kinds,
                    wr'[k][i].pc = "update", wr'[k][i].st = "delivered"
             PROVE  Proven(obj[i].hash)' 
  BY DEF WritesAreProven
<1>1. CASE WrRead(k, i)
  <2>1. wr'[k][i].st = Guarded(row[obj[i].hash].st, obj[i].st) /\ wr[k][i].pc = "read"
        /\ UNCHANGED obj
    BY <1>1, <1>wr DEF WrRead
  <2>2. obj[i].hash \in Hashes
    BY <1>0, <2>1 DEF Shape, ShapeOf
  <2>3. row[obj[i].hash].st = "delivered" \/ obj[i].st = "delivered"
    BY <2>1 DEF Guarded
  <2>4. Proven(obj[i].hash)
    BY <1>0, <2>2, <2>3 DEF DeliveredIsProven, Proven
  <2> QED
    BY <1>0, <2>1, <2>4, ProvenStays
<1>2. CASE ~WrRead(k, i)
  <2>1. wr'[k][i] = wr[k][i]
    <3>1. CASE wr' = wr
      BY <3>1
    <3>2. ASSUME NEW j \in Sends, SendReturn(j)
          PROVE  wr'[k][i] = wr[k][i]
      BY <1>wr, <3>2 DEF SendReturn, PollStarted, IdleWr, Kinds
    <3>3. ASSUME NEW j \in Sends, CbStart(j) \/ PollCheck(j)
          PROVE  wr'[k][i] = wr[k][i]
      BY <1>wr, <3>3 DEF CbStart, PollCheck, Kinds, WrType
    <3>4. ASSUME NEW g \in Kinds, NEW j \in Sends, WrRead(g, j)
          PROVE  wr'[k][i] = wr[k][i]
      BY <1>2, <1>wr, <3>4 DEF WrRead
    <3>5. ASSUME NEW g \in Kinds, NEW j \in Sends, WrUpdate(g, j)
          PROVE  wr'[k][i] = wr[k][i]
      BY <1>wr, <3>5 DEF WrUpdate, IdleWr
    <3>6. CASE Restart
      BY <3>6 DEF Restart, IdleWr
    <3>7. ASSUME \/ Environment /\ ~Restart
                 \/ \E j \in Sends : SendStep(j) /\ ~SendReturn(j)
                 \/ \E j \in Sends : RouterSend(j) \/ RouterEnd(j)
                 \/ \E h \in Hashes, j \in Sends : AutoClaim(h, j)
                 \/ AutoStart \/ AutoEnd \/ CancelWrite \/ UNCHANGED vars
          PROVE  wr' = wr
      BY <3>7 DEF Environment, UserSend, UserCancel, UserDelete, CooldownExpires,
         ManualResend, RecentExpires, ConversationDelete, ChangeIcon, SendStep, SendRefused,
         SendQueued, SendPathless, SendLocal, SendConvert, SendUpsert, SendReopen, AutoCount,
         RouterSend, RouterEnd, AutoClaim, AutoStart, AutoEnd, CancelWrite, vars
    <3> QED
      BY <3>1, <3>2, <3>3, <3>4, <3>5, <3>6, <3>7 DEF Next, System
  <2>2. Proven(obj[i].hash) /\ snd[i].pc # "path"
    BY <1>0, <2>1 DEF WritesAreProven, Shape, ShapeOf, RowStates, InFlight, Terminal
  <2>3. obj'[i].hash = obj[i].hash
    BY <1>0, <2>2, HashStays
  <2>4. \A h : Proven(h) => Proven(h)'
    BY <1>0, ProvenStays
  <2> QED
    BY <2>2, <2>3, <2>4 DEF Proven
<1> QED
  BY <1>1, <1>2

LEMMA UpsertsStep ==
  ASSUME IInv, [Next]_vars
  PROVE  UpsertsAreProven'
<1>0. TypeOK /\ Shape /\ UpsertsAreProven
  BY DEF IInv, Provenance
<1>snd. snd \in [Sends -> SndType]
  BY <1>0 DEF TypeOK
<1> SUFFICES ASSUME NEW i \in Sends, snd'[i].pc \in {"upsert", "reupsert"},
                    snd'[i].seen = "delivered"
             PROVE  obj'[i].st = "delivered"
  BY DEF UpsertsAreProven
<1>1. CASE SendConvert(i)
  BY <1>1, <1>snd DEF SendConvert, SndType
<1>2. CASE ~SendConvert(i)
  <2>1. snd'[i] = snd[i]
    <3>1. ASSUME NEW j \in Sends, j # i, SendStep(j)
          PROVE  snd'[i] = snd[i]
      BY <1>snd, <3>1 DEF SendStep, SendRefused, SendQueued, SendPathless, SendLocal,
         SendConvert, SendUpsert, SendReturn, SendReopen, AutoCount
    <3>2. CASE SendStep(i)
      <4>1. snd'[i].pc \notin {"upsert", "reupsert"}
        <5>1. CASE SendRefused(i)
          BY <1>snd, <5>1 DEF SendRefused, SndType
        <5>4. CASE SendQueued(i)
          BY <1>snd, <5>4 DEF SendQueued, SndType
        <5>5. CASE SendPathless(i)
          BY <1>snd, <5>5 DEF SendPathless, SndType
        <5>6. CASE SendLocal(i)
          BY <1>snd, <5>6 DEF SendLocal, SndType
        <5>2. ASSUME SendUpsert(i) \/ SendReopen(i) \/ AutoCount(i)
              PROVE  snd'[i].pc \in {"notify", "done"}
          BY <1>snd, <5>2 DEF SendUpsert, SendReopen, AutoCount, SndType
        <5>3. ASSUME SendReturn(i)
              PROVE  snd'[i].pc \in {"reconvert", "count", "done"}
          BY <1>snd, <5>3 DEF SendReturn, AfterDrop, SndType
        <5> QED
          BY <1>2, <3>2, <5>1, <5>2, <5>3, <5>4, <5>5, <5>6 DEF SendStep
      <4> QED
        BY <4>1
    <3>3. ASSUME NEW j, NEW by, NEW p, NEW old, NEW n, NEW prop, Start(j, by, p, old, n, prop)
          PROVE  snd'[i] = snd[i]
      BY <1>snd, <3>3 DEF Start
    <3>4. ASSUME \/ \E j \in Sends, p \in Payloads, prop \in BOOLEAN : UserSend(j, p, prop)
                 \/ \E h \in Hashes, j \in Sends : ManualResend(h, j) \/ AutoClaim(h, j)
          PROVE  snd'[i] = snd[i]
      BY <3>3, <3>4 DEF UserSend, ManualResend, AutoClaim
    <3>5. CASE Restart
      BY <1>snd, <3>5 DEF Restart, SndType
    <3>6. ASSUME \/ \E h \in Hashes : UserCancel(h) \/ UserDelete(h) \/ CooldownExpires(h)
                 \/ \E p \in Payloads : RecentExpires(p)
                 \/ ConversationDelete \/ ChangeIcon
                 \/ \E j \in Sends : \/ RouterSend(j) \/ RouterEnd(j) \/ CbStart(j)
                                      \/ PollCheck(j)
                 \/ \E g \in Kinds, j \in Sends : WrRead(g, j) \/ WrUpdate(g, j)
                 \/ AutoStart \/ AutoEnd \/ CancelWrite \/ UNCHANGED vars
          PROVE  snd' = snd
      BY <3>6 DEF UserCancel, UserDelete, CooldownExpires, RecentExpires, ConversationDelete,
         ChangeIcon, RouterSend, RouterEnd, CbStart, PollCheck, WrRead, WrUpdate, AutoStart,
         AutoEnd, CancelWrite, vars
    <3> QED
      BY <3>1, <3>2, <3>4, <3>5, <3>6 DEF Next, Environment, System
  <2>2. obj[i].st = "delivered"
    BY <1>0, <2>1 DEF UpsertsAreProven
  <2> QED
    BY <1>0, <2>2, DeliveredStays
<1> QED
  BY <1>1, <1>2

--------------------------------------------------------------------------------
(* The theorems *)

\* Types, Shape and Provenance hold together, whoever runs next: what a send, the
\* poll and the router's callbacks (update_lxmf_message_state) have read and not yet
\* written is as justified as what is stored.
THEOREM Inductive == Spec => []IInv
<1>1. IInv /\ [Next]_vars => IInv'
  <2> SUFFICES ASSUME IInv, [Next]_vars PROVE IInv'
    OBVIOUS
  <2>1. TypeOK /\ Shape
    BY DEF IInv
  <2>2. TypeOK' /\ Shape'
    BY <2>1, TypeStep, ShapeStep
  <2>3. Provenance'
    BY DeliveredStep, WritesStep, UpsertsStep DEF Provenance
  <2> QED
    BY <2>2, <2>3 DEF IInv
<1> QED
  BY InitInv, <1>1, PTL DEF Spec

\* Every variable keeps its shape, and no re-send is counted beyond the budget.
THEOREM TypeCorrect == Spec => []TypeOK
<1>1. IInv => TypeOK
  BY DEF IInv
<1> QED
  BY Inductive, <1>1, PTL

\* However sends, polls, callbacks, cancels, re-sends, deletes, restarts and
\* database calls interleave, a row says delivered only when a copy of its message
\* was proven delivered or was a message to ourselves.
THEOREM DeliveryIsProven == Spec => []DeliveredIsProven
<1>1. IInv => DeliveredIsProven
  BY DEF IInv, Provenance
<1> QED
  BY Inductive, <1>1, PTL

--------------------------------------------------------------------------------
(* What a step does to a row *)

\* What one step does to one row: nothing to its state, or one of the writes.
RowFateOf(h) ==
  \/ /\ row'[h] = NoRow
     /\ \/ UserDelete(h) \/ ConversationDelete
        \/ \E i \in Sends : SendReturn(i) /\ snd[i].by # "user" /\ snd[i].old = h
  \/ /\ row'[h].st = row[h].st /\ row'[h].prop = row[h].prop
     /\ row[h] = NoRow => row'[h] = NoRow
  \/ row'[h].st = "cancelled" /\ row[h] # NoRow
  \/ \E i \in Sends : SendPathless(i) /\ BuiltHash(i) = h /\ row'[h].st = "failed"
  \/ \E i \in Sends : SendLocal(i) /\ BuiltHash(i) = h /\ row'[h].st = "delivered"
  \/ \E i \in Sends : /\ SendUpsert(i) \/ SendReopen(i)
                      /\ obj[i].hash = h
                      /\ row'[h].st = Guarded(row[h].st, snd[i].seen)
  \/ \E k \in Kinds, i \in Sends :
       /\ WrUpdate(k, i) /\ obj[i].hash = h /\ row[h] # NoRow
       /\ row'[h].st = wr[k][i].st /\ row'[h].prop = wr[k][i].prop
  \/ Restart /\ row'[h] = Unstuck(row[h])

LEMMA RowFate ==
  ASSUME TypeOK, Shape, [Next]_vars, NEW h \in Hashes,
         row[h].claim => row[h].st # "none"
  PROVE  RowFateOf(h)
<1>row. row \in [Hashes -> RowType]
  BY DEF TypeOK
<1>r. row[h] \in RowType
  BY <1>row
<1>0. NoRow.st = "none"
  BY DEF NoRow
<1>1. CASE Environment
  <2>1. CASE Restart
    BY <2>1 DEF Restart, RowFateOf
  <2>2. CASE \E g \in Hashes : UserDelete(g)
    <3>1. PICK g \in Hashes : UserDelete(g)
      BY <2>2
    <3>2. row' = [row EXCEPT ![g] = NoRow]
      BY <3>1 DEF UserDelete
    <3>3. IF g = h THEN row'[h] = NoRow ELSE row'[h] = row[h]
      BY <1>row, <3>2
    <3> QED
      BY <3>1, <3>3 DEF RowFateOf
  <2>3. CASE \E g \in Hashes : CooldownExpires(g)
    <3>1. PICK g \in Hashes : CooldownExpires(g)
      BY <2>3
    <3>2. CASE g = h
      <4>1. row[h].claim /\ row'[h] = [row[h] EXCEPT !.claim = FALSE]
        BY <1>row, <3>1, <3>2 DEF CooldownExpires
      <4>2. row'[h].st = row[h].st /\ row'[h].prop = row[h].prop
        BY <4>1, <1>r DEF RowType
      <4> QED
        BY <4>1, <4>2 DEF RowFateOf, NoRow
    <3>3. CASE g # h
      BY <1>row, <3>1, <3>3 DEF CooldownExpires, RowFateOf
    <3> QED
      BY <3>2, <3>3
  <2>4. CASE ConversationDelete
    BY <2>4 DEF ConversationDelete, RowFateOf
  <2>5. CASE \/ \E j \in Sends, p \in Payloads, prop \in BOOLEAN : UserSend(j, p, prop)
             \/ \E g \in Hashes : UserCancel(g)
             \/ \E g \in Hashes, j \in Sends : ManualResend(g, j)
             \/ \E p \in Payloads : RecentExpires(p)
             \/ ChangeIcon
    BY <2>5 DEF UserSend, UserCancel, ManualResend, RecentExpires, ChangeIcon, RowFateOf
  <2> QED
    BY <1>1, <2>1, <2>2, <2>3, <2>4, <2>5 DEF Environment
<1>3. ASSUME NEW i \in Sends, SendPathless(i)
      PROVE  RowFateOf(h)
  <2>1. row' = [row EXCEPT ![BuiltHash(i)] = Upserted(BuiltHash(i), "failed", snd[i].prop)]
    BY <1>3 DEF SendPathless
  <2>2. CASE BuiltHash(i) = h
    <3>1. row'[h] = Upserted(h, "failed", snd[i].prop)
      BY <1>row, <2>1, <2>2
    <3>2. row'[h].st = "failed"
      BY <3>1 DEF Upserted, Guarded, InFlight
    <3> QED
      BY <1>3, <2>2, <3>2 DEF RowFateOf
  <2>3. CASE BuiltHash(i) # h
    BY <1>row, <2>1, <2>3 DEF RowFateOf
  <2> QED
    BY <2>2, <2>3
<1>4. ASSUME NEW i \in Sends, SendLocal(i)
      PROVE  RowFateOf(h)
  <2>1. row' = [row EXCEPT ![BuiltHash(i)] = Upserted(BuiltHash(i), "delivered", FALSE)]
    BY <1>4 DEF SendLocal
  <2>2. CASE BuiltHash(i) = h
    <3>1. row'[h] = Upserted(h, "delivered", FALSE)
      BY <1>row, <2>1, <2>2
    <3>2. row'[h].st = "delivered"
      BY <3>1 DEF Upserted, Guarded, InFlight
    <3> QED
      BY <1>4, <2>2, <3>2 DEF RowFateOf
  <2>3. CASE BuiltHash(i) # h
    BY <1>row, <2>1, <2>3 DEF RowFateOf
  <2> QED
    BY <2>2, <2>3
<1>5. ASSUME NEW i \in Sends, SendUpsert(i)
      PROVE  RowFateOf(h)
  <2>1. CASE obj[i].hash = h
    <3>1. row'[h] = Upserted(h, snd[i].seen, snd[i].via)
      BY <1>5, <1>row, <2>1 DEF SendUpsert
    <3>2. row'[h].st = Guarded(row[h].st, snd[i].seen)
      BY <3>1 DEF Upserted
    <3> QED
      BY <1>5, <2>1, <3>2 DEF RowFateOf
  <2>2. CASE obj[i].hash # h
    BY <1>5, <1>row, <2>2 DEF SendUpsert, RowFateOf
  <2> QED
    BY <2>1, <2>2
<1>6. ASSUME NEW i \in Sends, SendReopen(i)
      PROVE  RowFateOf(h)
  <2>1. CASE obj[i].hash = h
    <3>1. row'[h] = [Upserted(h, snd[i].seen, snd[i].via) EXCEPT !.count = snd[i].n]
      BY <1>6, <1>row, <2>1 DEF SendReopen
    <3>2. row'[h].st = Guarded(row[h].st, snd[i].seen)
      BY <3>1 DEF Upserted
    <3> QED
      BY <1>6, <2>1, <3>2 DEF RowFateOf
  <2>2. CASE obj[i].hash # h
    BY <1>6, <1>row, <2>2 DEF SendReopen, RowFateOf
  <2> QED
    BY <2>1, <2>2
<1>7. ASSUME NEW i \in Sends, SendReturn(i)
      PROVE  RowFateOf(h)
  <2>1. \/ row' = row
        \/ snd[i].by # "user" /\ row' = [row EXCEPT ![snd[i].old] = NoRow]
    BY <1>7 DEF SendReturn
  <2>2. \/ row'[h] = row[h]
        \/ snd[i].by # "user" /\ snd[i].old = h /\ row'[h] = NoRow
    BY <1>row, <2>1
  <2> QED
    BY <1>7, <2>2 DEF RowFateOf
<1>8. ASSUME NEW i \in Sends, AutoCount(i)
      PROVE  RowFateOf(h)
  <2>1. CASE obj[i].hash = h /\ row[h] # NoRow
    <3>1. row'[h] = [row[h] EXCEPT !.count = snd[i].n]
      BY <1>8, <1>row, <2>1 DEF AutoCount
    <3>2. row'[h].st = row[h].st /\ row'[h].prop = row[h].prop
      BY <3>1, <1>r DEF RowType
    <3> QED
      BY <2>1, <3>2 DEF RowFateOf
  <2>2. CASE obj[i].hash # h \/ row[h] = NoRow
    <3>1. row'[h] = row[h]
      BY <1>8, <1>row, <2>2 DEF AutoCount
    <3> QED
      BY <3>1 DEF RowFateOf
  <2> QED
    BY <2>1, <2>2
<1>9. ASSUME NEW k \in Kinds, NEW i \in Sends, WrUpdate(k, i)
      PROVE  RowFateOf(h)
  <2>1. CASE obj[i].hash = h
    <3>1. row'[h] = Updated(h, wr[k][i].st, wr[k][i].prop)
      BY <1>9, <1>row, <2>1 DEF WrUpdate
    <3>2. CASE row[h] = NoRow
      BY <3>1, <3>2 DEF Updated, RowFateOf
    <3>3. CASE row[h] # NoRow
      <4>1. row'[h].st = wr[k][i].st /\ row'[h].prop = wr[k][i].prop
        BY <3>1, <3>3, <1>r DEF Updated, RowType
      <4> QED
        BY <1>9, <2>1, <3>3, <4>1 DEF RowFateOf
    <3> QED
      BY <3>2, <3>3
  <2>2. CASE obj[i].hash # h
    BY <1>9, <1>row, <2>2 DEF WrUpdate, RowFateOf
  <2> QED
    BY <2>1, <2>2
<1>10. CASE CancelWrite
  <2>1. CASE canc = h /\ row[h] # NoRow
    <3>1. row'[h] = [row[h] EXCEPT !.st = "cancelled"]
      BY <1>10, <1>row, <2>1 DEF CancelWrite
    <3>2. row'[h].st = "cancelled"
      BY <3>1, <1>r DEF RowType
    <3> QED
      BY <2>1, <3>2 DEF RowFateOf
  <2>2. CASE canc # h \/ row[h] = NoRow
    <3>1. row'[h] = row[h]
      BY <1>10, <1>row, <2>2 DEF CancelWrite
    <3> QED
      BY <3>1 DEF RowFateOf
  <2> QED
    BY <2>1, <2>2
<1>11. ASSUME NEW g \in Hashes, NEW i \in Sends, AutoClaim(g, i)
       PROVE  RowFateOf(h)
  <2>1. CASE g = h
    <3>1. row[h].st = "failed"
      BY <1>11, <2>1 DEF AutoClaim, Claimable
    <3>2. row'[h] = [[row[h] EXCEPT !.claim = TRUE] EXCEPT !.count = auto.snap[h] + 1]
      BY <1>11, <1>row, <2>1 DEF AutoClaim
    <3>3. row'[h].st = row[h].st /\ row'[h].prop = row[h].prop
      BY <3>2, <1>r DEF RowType
    <3> QED
      BY <1>0, <3>1, <3>3 DEF RowFateOf
  <2>2. CASE g # h
    <3>1. row'[h] = row[h]
      BY <1>11, <1>row, <2>2 DEF AutoClaim
    <3> QED
      BY <3>1 DEF RowFateOf
  <2> QED
    BY <2>1, <2>2
<1>12. ASSUME NEW i \in Sends,
              \/ SendRefused(i) \/ SendQueued(i) \/ SendConvert(i)
              \/ RouterSend(i) \/ RouterEnd(i) \/ CbStart(i) \/ PollCheck(i)
              \/ \E k \in Kinds : WrRead(k, i)
       PROVE  RowFateOf(h)
  BY <1>12 DEF SendRefused, SendQueued, SendConvert, RouterSend, RouterEnd, CbStart,
     PollCheck, WrRead, RowFateOf
<1>13. ASSUME AutoStart \/ AutoEnd \/ UNCHANGED vars
       PROVE  RowFateOf(h)
  BY <1>13 DEF AutoStart, AutoEnd, vars, RowFateOf
<1> QED
  BY <1>1, <1>3, <1>4, <1>5, <1>6, <1>7, <1>8, <1>9, <1>10, <1>11, <1>12, <1>13
     DEF Next, System, SendStep

\* A row without a state is no row: nothing is left of a deleted one.
Blank == \A h \in Hashes : row[h].st = "none" => row[h] = NoRow

LEMMA BlankInit == Init => Blank
  BY DEF Init, Blank, NoRow

LEMMA NoClaimOnNoRow ==
  ASSUME Blank, NEW h \in Hashes, row[h].claim
  PROVE  row[h].st # "none"
  BY DEF Blank, NoRow

LEMMA GuardedType ==
  ASSUME NEW old, NEW new \in RowStates
  PROVE  Guarded(old, new) \in RowStates
  BY DEF Guarded, RowStates, Terminal

LEMMA UnstuckBlank ==
  ASSUME NEW r \in RowType, Unstuck(r).st = "none"
  PROVE  Unstuck(r) = r
  BY DEF Unstuck, RowType

LEMMA BlankStep ==
  ASSUME TypeOK, Shape, Blank, [Next]_vars
  PROVE  Blank'
<1>row. row \in [Hashes -> RowType] /\ snd \in [Sends -> SndType] /\ wr \in [Kinds -> [Sends -> WrType]]
  BY DEF TypeOK
<1>0. "none" \notin RowStates
  BY DEF RowStates, InFlight, Terminal
<1> SUFFICES ASSUME NEW h \in Hashes, row'[h].st = "none"
             PROVE  row'[h] = NoRow
  BY DEF Blank
<1>1. RowFateOf(h)
  BY RowFate, NoClaimOnNoRow
<1>2. CASE \/ row'[h] = NoRow
           \/ row'[h].st = row[h].st /\ (row[h] = NoRow => row'[h] = NoRow)
           \/ row'[h].st \in {"cancelled", "failed", "delivered"}
  BY <1>2 DEF Blank
<1>3. ASSUME NEW i \in Sends, row'[h].st = Guarded(row[h].st, snd[i].seen)
      PROVE  FALSE
  <2>1. snd[i].seen \in RowStates
    BY <1>row DEF SndType
  <2> QED
    BY <1>3, <2>1, <1>0, GuardedType
<1>4. ASSUME NEW k \in Kinds, NEW i \in Sends, row'[h].st = wr[k][i].st
      PROVE  FALSE
  <2>1. wr[k][i].st \in RowStates
    BY <1>row DEF WrType
  <2> QED
    BY <1>4, <2>1, <1>0
<1>5. CASE row'[h] = Unstuck(row[h])
  <2>1. row'[h] = row[h]
    BY <1>5, <1>row, UnstuckBlank
  <2> QED
    BY <2>1 DEF Blank
<1> QED
  BY <1>1, <1>2, <1>3, <1>4, <1>5 DEF RowFateOf

--------------------------------------------------------------------------------
(* One writer at a time: a terminal state is final *)

\* No writer is between its SELECT and its UPDATE.
Idle == canc = None /\ \A k \in Kinds, i \in Sends : wr[k][i].pc # "update"

\* One writer at a time is between its SELECT and its UPDATE, ...
OneWriter ==
  /\ \A k, l \in Kinds, i, j \in Sends :
       wr[k][i].pc = "update" /\ wr[l][j].pc = "update" => k = l /\ i = j
  /\ canc # None => \A k \in Kinds, i \in Sends : wr[k][i].pc # "update"

\* ... and what it is about to write is still what it would write now.
Fresh ==
  \A k \in Kinds, i \in Sends : wr[k][i].pc = "update" =>
    /\ wr[k][i].st = Guarded(row[obj[i].hash].st, obj[i].st)
    /\ wr[k][i].prop = obj[i].prop

\* Nobody but WrRead gets between a SELECT and its UPDATE.
LEMMA NoNewWriter ==
  ASSUME TypeOK, Idle, Environment \/ System,
         NEW l \in Kinds, NEW j \in Sends, ~WrRead(l, j)
  PROVE  wr'[l][j].pc # "update"
<1>wr. wr \in [Kinds -> [Sends -> WrType]]
  BY DEF TypeOK
<1>0. wr[l][j].pc # "update"
  BY DEF Idle
<1>1. CASE Environment
  <2>1. wr' = wr \/ Restart
    BY <1>1 DEF Environment, UserSend, UserCancel, UserDelete, CooldownExpires, ManualResend,
       RecentExpires, ConversationDelete, ChangeIcon
  <2>2. CASE Restart
    BY <2>2 DEF Restart, IdleWr
  <2> QED
    BY <1>0, <2>1, <2>2
<1>2. ASSUME NEW i \in Sends, SendStep(i)
      PROVE  wr'[l][j].pc # "update"
  <2>1. wr' = wr \/ wr' = [wr EXCEPT !["poll"][i] = [IdleWr EXCEPT !.pc = "read"]]
    BY <1>2 DEF SendStep, SendRefused, SendQueued, SendPathless, SendLocal, SendConvert,
       SendUpsert, SendReturn, PollStarted, SendReopen, AutoCount
  <2>2. [IdleWr EXCEPT !.pc = "read"].pc = "read"
    BY DEF IdleWr
  <2>3. CASE wr' = [wr EXCEPT !["poll"][i] = [IdleWr EXCEPT !.pc = "read"]]
    <3>1. wr'[l][j] = wr[l][j] \/ wr'[l][j] = [IdleWr EXCEPT !.pc = "read"]
      BY <1>wr, <2>3 DEF Kinds
    <3> QED
      BY <1>0, <2>2, <3>1
  <2> QED
    BY <1>0, <2>1, <2>3
<1>3. ASSUME NEW i \in Sends, RouterSend(i) \/ RouterEnd(i)
      PROVE  wr'[l][j].pc # "update"
  BY <1>0, <1>3 DEF RouterSend, RouterEnd
<1>4. ASSUME NEW i \in Sends, CbStart(i)
      PROVE  wr'[l][j].pc # "update"
  <2>1. wr' = [wr EXCEPT !["cb"][i].pc = "read"]
    BY <1>4 DEF CbStart
  <2>2. wr["cb"][i] \in WrType
    BY <1>wr DEF Kinds
  <2>3. [wr["cb"][i] EXCEPT !.pc = "read"].pc = "read"
    BY <2>2 DEF WrType
  <2> QED
    BY <1>0, <1>wr, <2>1, <2>3 DEF Kinds
<1>5. ASSUME NEW i \in Sends, PollCheck(i)
      PROVE  wr'[l][j].pc # "update"
  <2>1. PICK c \in {"off", "read"} :
          wr' = [wr EXCEPT !["poll"] = [wr["poll"] EXCEPT ![i] = [wr["poll"][i] EXCEPT !.pc = c]]]
    BY <1>5 DEF PollCheck
  <2>2. wr["poll"][i] \in WrType
    BY <1>wr DEF Kinds
  <2>3. [wr["poll"][i] EXCEPT !.pc = c].pc = c
    BY <2>2 DEF WrType
  <2> QED
    BY <1>0, <1>wr, <2>1, <2>3 DEF Kinds
<1>6. ASSUME NEW k \in Kinds, NEW i \in Sends, WrRead(k, i)
      PROVE  wr'[l][j].pc # "update"
  <2>1. k # l \/ i # j
    BY <1>6
  <2>2. wr'[l][j] = wr[l][j]
    BY <1>6, <1>wr, <2>1 DEF WrRead
  <2> QED
    BY <1>0, <2>2
<1>7. ASSUME AutoStart \/ AutoEnd \/ \E h \in Hashes, i \in Sends : AutoClaim(h, i)
      PROVE  wr'[l][j].pc # "update"
  BY <1>0, <1>7 DEF AutoStart, AutoEnd, AutoClaim
<1> QED
  BY <1>1, <1>2, <1>3, <1>4, <1>5, <1>6, <1>7 DEF System

LEMMA WrReadEffect ==
  ASSUME TypeOK, NEW k \in Kinds, NEW i \in Sends, WrRead(k, i)
  PROVE  /\ UNCHANGED <<row, obj, canc>>
         /\ \A l \in Kinds, j \in Sends : (l # k \/ j # i) => wr'[l][j] = wr[l][j]
         /\ wr'[k][i].st = Guarded(row[obj[i].hash].st, obj[i].st)
         /\ wr'[k][i].prop = obj[i].prop
  BY DEF WrRead, TypeOK

LEMMA WrUpdateEffect ==
  ASSUME TypeOK, NEW k \in Kinds, NEW i \in Sends, WrUpdate(k, i)
  PROVE  /\ wr[k][i].pc = "update"
         /\ UNCHANGED <<obj, snd, canc>>
         /\ \A l \in Kinds, j \in Sends : (l # k \/ j # i) => wr'[l][j] = wr[l][j]
         /\ wr'[k][i].pc = IF k = "poll" THEN "check" ELSE "off"
  BY DEF WrUpdate, TypeOK, IdleWr

LEMMA OneWriterStep ==
  ASSUME ~Preempt, TypeOK, OneWriter, Fresh, [Next]_vars
  PROVE  OneWriter' /\ Fresh'
<1>1. CASE Undisturbed /\ (Environment \/ System)
  <2>1. Idle
    BY <1>1 DEF Undisturbed, Idle
  <2>2. CASE \E k \in Kinds, i \in Sends : WrRead(k, i)
    <3>1. PICK k \in Kinds, i \in Sends : WrRead(k, i)
      BY <2>2
    <3>2. \A l \in Kinds, j \in Sends : (l # k \/ j # i) => wr'[l][j].pc # "update"
      BY <2>1, <3>1, WrReadEffect DEF Idle
    <3>3. canc' = None
      BY <2>1, <3>1, WrReadEffect DEF Idle
    <3>4. OneWriter'
      BY <3>2, <3>3 DEF OneWriter
    <3>5. /\ wr'[k][i].st = Guarded(row'[obj'[i].hash].st, obj'[i].st)
          /\ wr'[k][i].prop = obj'[i].prop
      BY <3>1, WrReadEffect
    <3> QED
      BY <3>2, <3>4, <3>5 DEF Fresh
  <2>3. CASE ~\E k \in Kinds, i \in Sends : WrRead(k, i)
    <3>1. \A l \in Kinds, j \in Sends : wr'[l][j].pc # "update"
      BY <1>1, <2>1, <2>3, NoNewWriter
    <3> QED
      BY <3>1 DEF OneWriter, Fresh
  <2> QED
    BY <2>2, <2>3
<1>2. ASSUME NEW k \in Kinds, NEW i \in Sends, WrUpdate(k, i)
      PROVE  OneWriter' /\ Fresh'
  <2>1. \A l \in Kinds, j \in Sends : (l # k \/ j # i) => wr'[l][j].pc # "update"
    BY <1>2, WrUpdateEffect DEF OneWriter
  <2>2. \A l \in Kinds, j \in Sends : wr'[l][j].pc # "update"
    BY <1>2, <2>1, WrUpdateEffect
  <2> QED
    BY <2>2 DEF OneWriter, Fresh
<1>3. CASE CancelWrite
  <2>1. \A l \in Kinds, j \in Sends : wr'[l][j].pc # "update"
    BY <1>3 DEF CancelWrite, OneWriter
  <2> QED
    BY <2>1 DEF OneWriter, Fresh
<1>4. CASE UNCHANGED vars
  BY <1>4 DEF vars, OneWriter, Fresh
<1> QED
  BY <1>1, <1>2, <1>3, <1>4 DEF Next

LEMMA TerminalStep ==
  ASSUME TypeOK, Shape, Blank, Fresh, [Next]_vars, NEW h \in Hashes, row[h].st \in Terminal
  PROVE  row'[h].st \notin InFlight
<1>row. row \in [Hashes -> RowType]
  BY DEF TypeOK
<1>0. Terminal \cap InFlight = {} /\ "none" \notin InFlight /\ NoRow.st = "none"
  BY DEF Terminal, InFlight, NoRow
<1>1. RowFateOf(h)
  BY RowFate, NoClaimOnNoRow
<1>2. CASE \/ row'[h] = NoRow \/ row'[h].st = row[h].st
           \/ row'[h].st \in {"cancelled", "failed", "delivered"}
  BY <1>0, <1>2 DEF InFlight
<1>3. \A new : Guarded(row[h].st, new) \notin InFlight
  BY <1>0 DEF Guarded
<1>4. ASSUME NEW k \in Kinds, NEW i \in Sends, WrUpdate(k, i), obj[i].hash = h,
             row'[h].st = wr[k][i].st
      PROVE  row'[h].st \notin InFlight
  BY <1>3, <1>4 DEF Fresh, WrUpdate
<1>5. CASE row'[h] = Unstuck(row[h])
  BY <1>5, <1>0 DEF Unstuck, InFlight
<1> QED
  BY <1>1, <1>2, <1>3, <1>4, <1>5 DEF RowFateOf

LEMMA WriterInit == Init => OneWriter /\ Fresh
  BY DEF Init, OneWriter, Fresh, IdleWr

\* When update_lxmf_message_state reads and writes a row without another thread in
\* between, the poll, the callbacks and the cancel handler take turns and none of
\* them writes what is no longer true.
THEOREM OneWriterAtATime == ASSUME ~Preempt PROVE Spec => [](IInv /\ Blank /\ OneWriter /\ Fresh)
<1>1. IInv /\ Blank /\ OneWriter /\ Fresh /\ [Next]_vars => (Blank /\ OneWriter /\ Fresh)'
  BY BlankStep, OneWriterStep DEF IInv
<1> QED
  BY Inductive, BlankInit, WriterInit, <1>1, PTL DEF Spec

\* When a row update is not interleaved with another, no send, poll, callback,
\* re-send, claim or restart moves a row from delivered, rejected, cancelled or
\* failed back to an in-flight state; only delete-and-store-again re-opens one.
THEOREM TerminalIsFinal == ASSUME ~Preempt PROVE Spec => TerminalStaysTerminal
<1>1. IInv /\ Blank /\ OneWriter /\ Fresh /\ [Next]_vars
        => [\A h \in Hashes : row[h].st \in Terminal => row'[h].st \notin InFlight]_vars
  BY TerminalStep DEF IInv
<1> QED
  BY OneWriterAtATime, <1>1, PTL DEF Spec, TerminalStaysTerminal

--------------------------------------------------------------------------------
(* What a step does to a send, its live object and its writers *)

\* The step is not about send j.
Same(j) == /\ snd'[j] = snd[j] /\ obj'[j] = obj[j]
           /\ \A k \in Kinds : wr'[k][j] = wr[k][j]

SameObjWr(i) == obj'[i] = obj[i] /\ \A k \in Kinds : wr'[k][i] = wr[k][i]

\* What a step of a send does to its record, its live object and its poll.
SendEffectOf(i) ==
  \/ /\ SendRefused(i) /\ SameObjWr(i)
     /\ snd[i].pc \in {"path", "raise"} /\ snd'[i].pc = "done"
  \/ /\ SendQueued(i) /\ \A k \in Kinds : wr'[k][i] = wr[k][i]
     /\ snd[i].pc = "path" /\ snd'[i].pc = "convert" /\ snd[i].p \notin SelfPayloads
     /\ obj'[i].hash = BuiltHash(i) /\ obj'[i].st = "outbound" /\ ~obj'[i].call
  \/ /\ SendPathless(i) /\ SameObjWr(i)
     /\ snd[i].pc = "path" /\ snd'[i].pc = "raise" /\ snd[i].p \notin SelfPayloads
  \/ /\ SendLocal(i) /\ \A k \in Kinds : wr'[k][i] = wr[k][i]
     /\ snd[i].pc = "path" /\ snd'[i].pc = "notify" /\ snd[i].p \in SelfPayloads
     /\ obj'[i].hash = BuiltHash(i) /\ obj'[i].st = "delivered" /\ ~obj'[i].call
  \/ /\ SendConvert(i) /\ SameObjWr(i)
     /\ \/ snd[i].pc = "convert" /\ snd'[i].pc = "upsert"
        \/ snd[i].pc = "reconvert" /\ snd'[i].pc = "reupsert"
     /\ snd'[i].seen = obj[i].st
  \/ /\ SendUpsert(i) /\ SameObjWr(i)
     /\ snd[i].pc = "upsert" /\ snd'[i].pc = "notify"
  \/ /\ SendReturn(i) /\ obj'[i] = obj[i] /\ wr'["cb"][i] = wr["cb"][i]
     /\ snd[i].pc = "notify" /\ snd'[i].pc \in {"reconvert", "count", "done"}
     /\ snd[i].p \notin SelfPayloads => wr'["poll"][i].pc = "read"
  \/ /\ SendReopen(i) /\ SameObjWr(i)
     /\ snd[i].pc = "reupsert" /\ snd'[i].pc = "done"
  \/ /\ AutoCount(i) /\ SameObjWr(i)
     /\ snd[i].pc = "count" /\ snd'[i].pc = "done"

LEMMA SendFrame ==
  ASSUME TypeOK, NEW i \in Sends, SendStep(i), NEW j \in Sends, j # i
  PROVE  Same(j)
<1>1. snd'[j] = snd[j]
  BY DEF TypeOK, SendStep, SendRefused, SendQueued, SendPathless, SendLocal, SendConvert,
     SendUpsert, SendReturn, SendReopen, AutoCount
<1>2. obj'[j] = obj[j]
  BY DEF TypeOK, SendStep, SendRefused, SendQueued, SendPathless, SendLocal, SendConvert,
     SendUpsert, SendReturn, SendReopen, AutoCount
<1>3. wr' = wr \/ wr' = [wr EXCEPT !["poll"] = [wr["poll"] EXCEPT ![i] = [IdleWr EXCEPT !.pc = "read"]]]
  BY DEF SendStep, SendRefused, SendQueued, SendPathless, SendLocal, SendConvert,
     SendUpsert, SendReturn, PollStarted, SendReopen, AutoCount
<1>4. \A k \in Kinds : wr'[k][j] = wr[k][j]
  <2>1. CASE wr' = wr
    BY <2>1
  <2>2. CASE wr' = [wr EXCEPT !["poll"] = [wr["poll"] EXCEPT ![i] = [IdleWr EXCEPT !.pc = "read"]]]
    <3>1. wr \in [Kinds -> [Sends -> WrType]]
      BY DEF TypeOK
    <3> QED
      BY <2>2, <3>1 DEF Kinds
  <2> QED
    BY <1>3, <2>1, <2>2
<1> QED
  BY <1>1, <1>2, <1>4 DEF Same

LEMMA SendEffect ==
  ASSUME TypeOK, NEW i \in Sends, SendStep(i)
  PROVE  /\ SendEffectOf(i)
         /\ snd'[i].p = snd[i].p /\ snd'[i].by = snd[i].by /\ snd'[i].old = snd[i].old
<1>snd. snd \in [Sends -> SndType]
  BY DEF TypeOK
<1>obj. obj \in [Sends -> ObjType]
  BY DEF TypeOK
<1>wr. wr \in [Kinds -> [Sends -> WrType]]
  BY DEF TypeOK
<1>s. snd[i] \in SndType
  BY <1>snd
<1>0. ASSUME NEW c, NEW st, NEW v
      PROVE  LET s == [snd[i] EXCEPT !.pc = c, !.seen = st, !.via = v] IN
             /\ s.pc = c /\ s.seen = st
             /\ s.p = snd[i].p /\ s.by = snd[i].by /\ s.old = snd[i].old
  BY <1>s DEF SndType
<1>00. ASSUME NEW c
      PROVE  LET s == [snd[i] EXCEPT !.pc = c] IN
             s.pc = c /\ s.p = snd[i].p /\ s.by = snd[i].by /\ s.old = snd[i].old
  BY <1>s DEF SndType
<1>1. CASE SendRefused(i)
  <2>1. snd[i].pc \in {"path", "raise"} /\ UNCHANGED <<obj, wr>>
        /\ snd'[i] = [snd[i] EXCEPT !.pc = "done"]
    BY <1>1, <1>snd DEF SendRefused
  <2> QED
    BY <1>1, <1>00, <2>1 DEF SendEffectOf, SameObjWr
<1>2. CASE SendQueued(i)
  <2>1. snd[i].pc = "path" /\ UNCHANGED wr /\ snd'[i] = [snd[i] EXCEPT !.pc = "convert"]
        /\ snd[i].p \notin SelfPayloads
    BY <1>2, <1>snd DEF SendQueued
  <2>2. obj'[i].hash = BuiltHash(i) /\ obj'[i].st = "outbound" /\ ~obj'[i].call
    BY <1>2, <1>obj DEF SendQueued
  <2> QED
    BY <1>2, <1>00, <2>1, <2>2 DEF SendEffectOf
<1>3. CASE SendPathless(i)
  <2>1. snd[i].pc = "path" /\ UNCHANGED <<obj, wr>> /\ snd'[i] = [snd[i] EXCEPT !.pc = "raise"]
        /\ snd[i].p \notin SelfPayloads
    BY <1>3, <1>snd DEF SendPathless
  <2> QED
    BY <1>3, <1>00, <2>1 DEF SendEffectOf, SameObjWr
<1>4. CASE SendLocal(i)
  <2>1. snd[i].pc = "path" /\ UNCHANGED wr /\ snd'[i] = [snd[i] EXCEPT !.pc = "notify"]
        /\ snd[i].p \in SelfPayloads
    BY <1>4, <1>snd DEF SendLocal
  <2>2. obj'[i].hash = BuiltHash(i) /\ obj'[i].st = "delivered" /\ ~obj'[i].call
    BY <1>4, <1>obj DEF SendLocal, NewObj
  <2> QED
    BY <1>4, <1>00, <2>1, <2>2 DEF SendEffectOf
<1>5. CASE SendConvert(i)
  <2>1. snd[i].pc \in {"convert", "reconvert"} /\ UNCHANGED <<obj, wr>>
    BY <1>5 DEF SendConvert
  <2>2. CASE snd[i].pc = "convert"
    <3>1. snd'[i] = [snd[i] EXCEPT !.pc = "upsert", !.seen = obj[i].st, !.via = obj[i].prop]
      BY <1>5, <2>2, <1>snd DEF SendConvert
    <3> QED
      BY <1>5, <1>0, <2>1, <2>2, <3>1 DEF SendEffectOf, SameObjWr
  <2>3. CASE snd[i].pc = "reconvert"
    <3>1. snd'[i] = [snd[i] EXCEPT !.pc = "reupsert", !.seen = obj[i].st, !.via = obj[i].prop]
      BY <1>5, <2>3, <1>snd DEF SendConvert
    <3> QED
      BY <1>5, <1>0, <2>1, <2>3, <3>1 DEF SendEffectOf, SameObjWr
  <2> QED
    BY <2>1, <2>2, <2>3
<1>6. CASE SendUpsert(i)
  <2>1. snd[i].pc = "upsert" /\ UNCHANGED <<obj, wr>>
        /\ snd'[i] = [snd[i] EXCEPT !.pc = "notify", !.seen = "outbound", !.via = FALSE]
    BY <1>6, <1>snd DEF SendUpsert
  <2> QED
    BY <1>6, <1>0, <2>1 DEF SendEffectOf, SameObjWr
<1>7. CASE SendReturn(i)
  <2>1. snd[i].pc = "notify" /\ obj'[i] = obj[i]
    BY <1>7 DEF SendReturn
  <2>2. PICK c \in {"reconvert", "count", "done"} : snd'[i] = [snd[i] EXCEPT !.pc = c]
    BY <1>7, <1>snd DEF SendReturn, AfterDrop
  <2>3. CASE snd[i].p \in SelfPayloads
    <3>1. wr' = wr
      BY <1>7, <2>3 DEF SendReturn, PollStarted
    <3> QED
      BY <1>7, <1>00, <2>1, <2>2, <2>3, <3>1 DEF SendEffectOf
  <2>4. CASE snd[i].p \notin SelfPayloads
    <3>1. wr' = [wr EXCEPT !["poll"] = [wr["poll"] EXCEPT ![i] = [IdleWr EXCEPT !.pc = "read"]]]
      BY <1>7, <2>4 DEF SendReturn, PollStarted
    <3>2. wr'["cb"][i] = wr["cb"][i] /\ wr'["poll"][i] = [IdleWr EXCEPT !.pc = "read"]
      BY <1>wr, <3>1 DEF Kinds
    <3>3. wr'["poll"][i].pc = "read"
      BY <3>2 DEF IdleWr
    <3> QED
      BY <1>7, <1>00, <2>1, <2>2, <3>2, <3>3 DEF SendEffectOf
  <2> QED
    BY <2>3, <2>4
<1>8. CASE SendReopen(i)
  <2>1. snd[i].pc = "reupsert" /\ UNCHANGED <<obj, wr>>
        /\ snd'[i] = [snd[i] EXCEPT !.pc = "done", !.seen = "outbound", !.via = FALSE]
    BY <1>8, <1>snd DEF SendReopen
  <2> QED
    BY <1>8, <1>0, <2>1 DEF SendEffectOf, SameObjWr
<1>9. CASE AutoCount(i)
  <2>1. snd[i].pc = "count" /\ UNCHANGED <<obj, wr>> /\ snd'[i] = [snd[i] EXCEPT !.pc = "done"]
    BY <1>9, <1>snd DEF AutoCount
  <2> QED
    BY <1>9, <1>00, <2>1 DEF SendEffectOf, SameObjWr
<1> QED
  BY <1>1, <1>2, <1>3, <1>4, <1>5, <1>6, <1>7, <1>8, <1>9 DEF SendStep

\* A poll or a callback writes and moves on; the other one, the object and the
\* send are left alone.
LEMMA WriterEffect ==
  ASSUME TypeOK, NEW k \in Kinds, NEW i \in Sends, WrRead(k, i) \/ WrUpdate(k, i)
  PROVE  /\ UNCHANGED <<obj, snd>>
         /\ \A l \in Kinds, j \in Sends : (l # k \/ j # i) => wr'[l][j] = wr[l][j]
         /\ WrRead(k, i) => wr[k][i].pc = "read" /\ wr'[k][i].pc = "update"
         /\ WrUpdate(k, i) => /\ wr[k][i].pc = "update"
                              /\ wr'[k][i].pc = IF k = "poll" THEN "check" ELSE "off"
  BY DEF WrRead, WrUpdate, TypeOK, IdleWr

LEMMA PollCheckEffect ==
  ASSUME TypeOK, NEW i \in Sends, PollCheck(i)
  PROVE  /\ UNCHANGED <<obj, snd>>
         /\ \A l \in Kinds, j \in Sends : (l # "poll" \/ j # i) => wr'[l][j] = wr[l][j]
         /\ wr["poll"][i].pc = "check"
         /\ wr'["poll"][i].pc = IF ProgressTerminal(i) THEN "off" ELSE "read"
<1>1. wr \in [Kinds -> [Sends -> WrType]] /\ "poll" \in Kinds
  BY DEF TypeOK, Kinds
<1>2. wr["poll"][i] \in WrType
  BY <1>1
<1>3. PICK c : c = IF ProgressTerminal(i) THEN "off" ELSE "read"
  OBVIOUS
<1>4. [wr["poll"][i] EXCEPT !.pc = c].pc = c
  BY <1>2 DEF WrType
<1>5. wr' = [wr EXCEPT !["poll"] = [wr["poll"] EXCEPT ![i] = [wr["poll"][i] EXCEPT !.pc = c]]]
  BY <1>3 DEF PollCheck
<1> QED
  BY <1>1, <1>3, <1>4, <1>5 DEF PollCheck

LEMMA CbStartEffect ==
  ASSUME TypeOK, NEW i \in Sends, CbStart(i)
  PROVE  /\ UNCHANGED snd
         /\ \A j \in Sends : j # i => obj'[j] = obj[j]
         /\ \A l \in Kinds, j \in Sends : (l # "cb" \/ j # i) => wr'[l][j] = wr[l][j]
         /\ obj[i].call
         /\ wr["cb"][i].pc = "off" /\ wr'["cb"][i].pc = "read"
         /\ obj'[i].hash = obj[i].hash /\ ~obj'[i].call
         /\ \/ obj'[i].st = obj[i].st /\ obj'[i].prop = obj[i].prop /\ obj'[i].try = obj[i].try
            \/ obj[i].st = "failed" /\ obj[i].try /\ obj'[i].st = "outbound"
<1>1. wr \in [Kinds -> [Sends -> WrType]] /\ "cb" \in Kinds /\ obj \in [Sends -> ObjType]
  BY DEF TypeOK, Kinds
<1>2. wr["cb"][i] \in WrType /\ obj[i] \in ObjType
  BY <1>1
<1>4. [wr["cb"][i] EXCEPT !.pc = "read"].pc = "read"
  BY <1>2 DEF WrType
<1>5. wr' = [wr EXCEPT !["cb"] = [wr["cb"] EXCEPT ![i] = [wr["cb"][i] EXCEPT !.pc = "read"]]]
  BY DEF CbStart
<1>6. /\ \A l \in Kinds, j \in Sends : (l # "cb" \/ j # i) => wr'[l][j] = wr[l][j]
      /\ wr["cb"][i].pc = "off" /\ wr'["cb"][i].pc = "read"
  BY <1>1, <1>4, <1>5 DEF CbStart
<1>7. UNCHANGED snd /\ obj[i].call /\ \A j \in Sends : j # i => obj'[j] = obj[j]
  BY <1>1 DEF CbStart
<1>8. CASE obj[i].st = "failed" /\ obj[i].try /\ HasNode
  <2>1. obj'[i] = [obj[i] EXCEPT !.st = "outbound", !.prop = TRUE, !.try = FALSE, !.call = FALSE]
    BY <1>1, <1>8 DEF CbStart
  <2>2. obj'[i].hash = obj[i].hash /\ ~obj'[i].call /\ obj'[i].st = "outbound"
    BY <1>2, <2>1 DEF ObjType
  <2> QED
    BY <1>6, <1>7, <1>8, <2>2
<1>9. CASE ~(obj[i].st = "failed" /\ obj[i].try /\ HasNode)
  <2>1. obj'[i] = [obj[i] EXCEPT !.call = FALSE]
    BY <1>1, <1>9 DEF CbStart
  <2>2. /\ obj'[i].hash = obj[i].hash /\ ~obj'[i].call
        /\ obj'[i].st = obj[i].st /\ obj'[i].prop = obj[i].prop /\ obj'[i].try = obj[i].try
    BY <1>2, <2>1 DEF ObjType
  <2> QED
    BY <1>6, <1>7, <2>2
<1> QED
  BY <1>8, <1>9

LEMMA RouterEffect ==
  ASSUME TypeOK, NEW i \in Sends, RouterSend(i) \/ RouterEnd(i)
  PROVE  /\ UNCHANGED <<snd, wr>>
         /\ \A j \in Sends : j # i => obj'[j] = obj[j]
         /\ obj'[i].hash = obj[i].hash /\ Queued(i) /\ ~obj[i].call
         /\ \/ obj'[i].st = "sent" /\ obj'[i].prop = obj[i].prop /\ ~obj[i].prop
               /\ obj'[i].call = obj[i].call
            \/ obj'[i].call
<1>1. obj \in [Sends -> ObjType]
  BY DEF TypeOK
<1>2. obj[i] \in ObjType
  BY <1>1
<1>3. CASE RouterSend(i)
  <2>1. obj'[i] = [obj[i] EXCEPT !.st = "sent"] /\ ~obj[i].prop /\ obj[i].st = "outbound" /\ ~obj[i].call
    BY <1>1, <1>3 DEF RouterSend, RouterFree
  <2>2. obj'[i].st = "sent" /\ obj'[i].prop = obj[i].prop /\ obj'[i].hash = obj[i].hash
        /\ obj'[i].call = obj[i].call
    BY <1>2, <2>1 DEF ObjType
  <2> QED
    BY <1>1, <1>3, <2>1, <2>2 DEF RouterSend, Queued
<1>4. CASE RouterEnd(i)
  <2>1. PICK st \in {"delivered", "failed", "rejected", "sent"} :
          obj' = [obj EXCEPT ![i].st = st, ![i].call = TRUE]
    BY <1>4 DEF RouterEnd
  <2>2. obj'[i] = [obj[i] EXCEPT !.st = st, !.call = TRUE]
    BY <1>1, <2>1
  <2>3. obj'[i].hash = obj[i].hash /\ obj'[i].call
    BY <1>2, <2>2 DEF ObjType
  <2> QED
    BY <1>1, <1>4, <2>1, <2>3 DEF RouterEnd, RouterFree
<1> QED
  BY <1>3, <1>4

LEMMA CancelledEffect ==
  ASSUME TypeOK, NEW hs, NEW j \in Sends
  PROVE  \/ CancelledOutbound(hs)[j] = obj[j]
         \/ /\ Queued(j) /\ CancelledOutbound(hs)[j].st = "cancelled"
            /\ CancelledOutbound(hs)[j].call
            /\ CancelledOutbound(hs)[j].hash = obj[j].hash
<1>1. obj[j] \in ObjType
  BY DEF TypeOK
<1> QED
  BY <1>1 DEF CancelledOutbound, ObjType

\* A new call of send_message: its object is still free.
Starts(j) == /\ snd[j].pc = "new" /\ snd'[j].pc = "path"
             /\ obj[j].st = "free" /\ obj'[j] = obj[j]
             /\ ~obj[j].call
             /\ \A k \in Kinds : wr[k][j].pc = "off" /\ wr'[k][j] = wr[k][j]

Cancelled(j) == /\ snd'[j] = snd[j] /\ \A k \in Kinds : wr'[k][j] = wr[k][j]
                /\ Queued(j) /\ obj'[j].st = "cancelled" /\ obj'[j].call
                /\ obj'[j].hash = obj[j].hash

LEMMA StartEffect ==
  ASSUME TypeOK, Shape, NEW i \in Sends, NEW by, NEW p, NEW old, NEW n, NEW prop,
         Start(i, by, p, old, n, prop), UNCHANGED wr, obj'[i] = obj[i], NEW j \in Sends
  PROVE  /\ j # i => snd'[j] = snd[j]
         /\ j = i => Starts(j) /\ snd'[j].p = p /\ snd'[j].by = by /\ snd'[j].old = old
<1>1. snd \in [Sends -> SndType]
  BY DEF TypeOK
<1>2. /\ j # i => snd'[j] = snd[j]
      /\ j = i => /\ snd[j].pc = "new" /\ snd'[j].pc = "path"
                  /\ snd'[j].p = p /\ snd'[j].by = by /\ snd'[j].old = old
  BY <1>1 DEF Start
<1>3. ShapeOf(i)
  BY DEF Shape
<1>4. "free" \notin RowStates
  BY DEF RowStates, InFlight, Terminal
<1>5. snd[i].pc = "new" => obj[i].st = "free" /\ ~obj[i].call /\ \A k \in Kinds : wr[k][i].pc = "off"
  BY <1>3, <1>4 DEF ShapeOf
<1> QED
  BY <1>2, <1>5 DEF Starts

LEMMA EnvironmentEffect ==
  ASSUME TypeOK, Shape, Environment, ~Restart, NEW j \in Sends
  PROVE  \/ Same(j)
         \/ Cancelled(j)
         \/ /\ Starts(j)
            /\ \/ \E p \in Payloads, prop \in BOOLEAN : UserSend(j, p, prop)
               \/ \E h \in Hashes : ManualResend(h, j)
<1>1. CASE \E i \in Sends, p \in Payloads, prop \in BOOLEAN : UserSend(i, p, prop)
  <2>1. PICK i \in Sends, p \in Payloads, prop \in BOOLEAN : UserSend(i, p, prop)
    BY <1>1
  <2>2. Start(i, "user", p, None, 0, prop) /\ UNCHANGED <<obj, wr>>
    BY <2>1 DEF UserSend
  <2>3. j = i => Starts(j)
    BY <2>2, StartEffect
  <2>4. j # i => Same(j)
    BY <2>2, StartEffect DEF Same
  <2> QED
    BY <2>1, <2>3, <2>4
<1>2. CASE \E h \in Hashes, i \in Sends : ManualResend(h, i)
  <2>1. PICK h \in Hashes, i \in Sends : ManualResend(h, i)
    BY <1>2
  <2>2. /\ Start(i, "manual", PayloadOf(h), h, 0, row[h].prop)
        /\ UNCHANGED wr /\ obj' = CancelledOutbound({h})
    BY <2>1 DEF ManualResend
  <2>3. obj[i].st = "free"
    BY <2>2 DEF Start, Shape, ShapeOf
  <2>4. obj'[i] = obj[i]
    BY <2>2, <2>3 DEF CancelledOutbound, Queued
  <2>5. j = i => Starts(j)
    BY <2>2, <2>4, StartEffect
  <2>6. j # i => Same(j) \/ Cancelled(j)
    <3>1. j # i => snd'[j] = snd[j]
      BY <2>2, <2>4, StartEffect
    <3> QED
      BY <2>2, <3>1, CancelledEffect DEF Same, Cancelled
  <2> QED
    BY <2>1, <2>5, <2>6
<1>3. CASE (\E h \in Hashes : UserCancel(h)) \/ ConversationDelete
  <2>1. PICK hs : obj' = CancelledOutbound(hs)
    BY <1>3 DEF UserCancel, ConversationDelete
  <2>2. UNCHANGED <<snd, wr>>
    BY <1>3 DEF UserCancel, ConversationDelete
  <2> QED
    BY <2>1, <2>2, CancelledEffect DEF Same, Cancelled
<1>4. CASE \/ \E h \in Hashes : UserDelete(h) \/ CooldownExpires(h)
           \/ \E p \in Payloads : RecentExpires(p)
           \/ ChangeIcon
  BY <1>4 DEF UserDelete, CooldownExpires, RecentExpires, ChangeIcon, Same
<1> QED
  BY <1>1, <1>2, <1>3, <1>4 DEF Environment

LEMMA RestartEffect ==
  ASSUME TypeOK, Restart, NEW j \in Sends
  PROVE  /\ \A k \in Kinds : wr'[k][j].pc = "off"
         /\ obj'[j].hash = obj[j].hash /\ ~obj'[j].call
         /\ \/ obj[j].st \in {"free", "delivered"} /\ obj'[j].st = obj[j].st
            \/ obj[j].st \notin {"free", "delivered"} /\ obj'[j].st = "gone"
         /\ snd'[j].p = snd[j].p /\ snd'[j].by = snd[j].by /\ snd'[j].old = snd[j].old
         /\ \/ snd[j].pc = "new" /\ snd'[j].pc = "new"
            \/ snd[j].pc # "new" /\ snd'[j].pc = "dead"
<1>1. obj[j] \in ObjType /\ snd[j] \in SndType
  BY DEF TypeOK
<1>2. \A k \in Kinds : wr'[k][j].pc = "off"
  BY DEF Restart, IdleWr
<1>3. /\ obj'[j].hash = obj[j].hash /\ ~obj'[j].call
      /\ \/ obj[j].st \in {"free", "delivered"} /\ obj'[j].st = obj[j].st
         \/ obj[j].st \notin {"free", "delivered"} /\ obj'[j].st = "gone"
  <2>1. CASE obj[j].st \in {"free", "delivered"}
    <3>1. obj'[j] = [obj[j] EXCEPT !.call = FALSE]
      BY <2>1 DEF Restart
    <3> QED
      BY <1>1, <2>1, <3>1 DEF ObjType
  <2>2. CASE obj[j].st \notin {"free", "delivered"}
    <3>1. obj'[j] = [obj[j] EXCEPT !.st = "gone", !.call = FALSE]
      BY <2>2 DEF Restart
    <3> QED
      BY <1>1, <2>2, <3>1 DEF ObjType
  <2> QED
    BY <2>1, <2>2
<1>4. /\ snd'[j].p = snd[j].p /\ snd'[j].by = snd[j].by /\ snd'[j].old = snd[j].old
      /\ \/ snd[j].pc = "new" /\ snd'[j].pc = "new"
         \/ snd[j].pc # "new" /\ snd'[j].pc = "dead"
  <2>1. CASE snd[j].pc = "new"
    BY <2>1 DEF Restart
  <2>2. CASE snd[j].pc # "new"
    <3>1. snd'[j] = [snd[j] EXCEPT !.pc = "dead", !.seen = "outbound", !.via = FALSE]
      BY <2>2 DEF Restart
    <3> QED
      BY <1>1, <2>2, <3>1 DEF SndType
  <2> QED
    BY <2>1, <2>2
<1> QED
  BY <1>2, <1>3, <1>4

\* Everything a step may do to one send.
FateOf(j) ==
  \/ Same(j)
  \/ Cancelled(j)
  \/ /\ Starts(j)
     /\ \/ \E p \in Payloads, prop \in BOOLEAN : UserSend(j, p, prop)
        \/ \E h \in Hashes : ManualResend(h, j) \/ AutoClaim(h, j)
  \/ SendStep(j)
  \/ RouterSend(j) \/ RouterEnd(j)
  \/ CbStart(j) \/ PollCheck(j)
  \/ \E k \in Kinds : WrRead(k, j) \/ WrUpdate(k, j)
  \/ Restart

LEMMA Fate ==
  ASSUME TypeOK, Shape, [Next]_vars, NEW j \in Sends
  PROVE  FateOf(j)
<1>1. CASE Environment
  BY <1>1, EnvironmentEffect DEF FateOf
<1>2. ASSUME NEW i \in Sends, SendStep(i)
      PROVE  FateOf(j)
  BY <1>2, SendFrame DEF FateOf
<1>3. ASSUME NEW i \in Sends, RouterSend(i) \/ RouterEnd(i)
      PROVE  FateOf(j)
  BY <1>3, RouterEffect DEF FateOf, Same
<1>4. ASSUME NEW i \in Sends, CbStart(i)
      PROVE  FateOf(j)
  BY <1>4, CbStartEffect DEF FateOf, Same
<1>5. ASSUME NEW i \in Sends, PollCheck(i)
      PROVE  FateOf(j)
  BY <1>5, PollCheckEffect DEF FateOf, Same
<1>6. ASSUME NEW k \in Kinds, NEW i \in Sends, WrRead(k, i) \/ WrUpdate(k, i)
      PROVE  FateOf(j)
  BY <1>6, WriterEffect DEF FateOf, Same
<1>7. ASSUME NEW h \in Hashes, NEW i \in Sends, AutoClaim(h, i)
      PROVE  FateOf(j)
  <2>1. Start(i, "auto", PayloadOf(h), h, auto.snap[h] + 1, FALSE) /\ UNCHANGED <<obj, wr>>
    BY <1>7 DEF AutoClaim
  <2>2. j = i => Starts(j)
    BY <2>1, StartEffect
  <2>3. j # i => Same(j)
    BY <2>1, StartEffect DEF Same
  <2> QED
    BY <1>7, <2>2, <2>3 DEF FateOf
<1>8. CASE AutoStart \/ AutoEnd \/ CancelWrite \/ UNCHANGED vars
  BY <1>8 DEF AutoStart, AutoEnd, CancelWrite, vars, FateOf, Same
<1> QED
  BY <1>1, <1>2, <1>3, <1>4, <1>5, <1>6, <1>7, <1>8 DEF Next, System

--------------------------------------------------------------------------------
(* Every send is looked after *)

\* send_message is between handing the message over and returning.
Busy(i) == snd[i].pc \in MidStep \cup {"notify"}

\* The hash of a live object is made from its own send's payload.
OwnHash(i) == obj[i].st # "free" => /\ obj[i].hash \in Hashes
                                    /\ PayloadOf(obj[i].hash) = snd[i].p

\* A message to ourselves never meets the router.
LocalOnly(i) ==
  snd[i].p \in SelfPayloads /\ snd[i].pc # "new" =>
    /\ obj[i].st \in {"free", "delivered"} /\ ~obj[i].call
    /\ Busy(i) => obj[i].st = "delivered"
    /\ snd[i].pc \notin {"convert", "upsert"}
    /\ snd[i].pc = "reupsert" => snd[i].seen = "delivered"

\* A message the router still works on, or may be handed back for its propagation
\* fallback, has its send or its poll looking after it.
Cared(i) == Queued(i) \/ (obj[i].st = "failed" /\ obj[i].try)
              => Busy(i) \/ wr["poll"][i].pc # "off"

\* The poll started before a same-hash re-send stores its row again does not get
\* its turn before it has.
PollWaits(i) == snd[i].pc \in {"reconvert", "reupsert"} /\ snd[i].p \notin SelfPayloads
                  => wr["poll"][i].pc = "read"

\* What holds of every send, whatever the threads do.
TendedOf(i) == OwnHash(i) /\ LocalOnly(i) /\ Cared(i) /\ PollWaits(i)
Tended == \A i \in Sends : TendedOf(i)

LEMMA TendedInit == Init => Tended
  BY DEF Init, Tended, TendedOf, OwnHash, LocalOnly, Cared, PollWaits, Queued, NewObj, NewSnd

LEMMA BuiltHashOwn ==
  ASSUME TypeOK, NEW i \in Sends, snd[i].p \in Payloads
  PROVE  BuiltHash(i) \in Hashes /\ PayloadOf(BuiltHash(i)) = snd[i].p
  BY BuiltHashType DEF BuiltHash, PayloadOf

LEMMA TendedStep ==
  ASSUME TypeOK, Shape, Tended, [Next]_vars
  PROVE  Tended'
<1> SUFFICES ASSUME NEW i \in Sends
             PROVE  TendedOf(i)'
  BY DEF Tended
<1>p. "poll" \in Kinds /\ "cb" \in Kinds /\ "poll" # "cb"
  BY DEF Kinds
<1>s. snd[i].p \in Payloads \/ snd[i].pc = "new"
  BY DEF Shape, ShapeOf
<1>f. snd[i].pc \in {"new", "path"} => obj[i].st = "free"
  BY DEF Shape, ShapeOf
<1>w. obj[i].call \/ wr["poll"][i].pc # "off" \/ wr["cb"][i].pc # "off"
        => obj[i].st # "free" /\ snd[i].pc \notin {"new", "path"}
  BY <1>p DEF Shape, ShapeOf, RowStates, InFlight, Terminal
<1>i. OwnHash(i) /\ LocalOnly(i) /\ Cared(i) /\ PollWaits(i)
  BY DEF Tended, TendedOf
<1>1. CASE Same(i)
  <2>1. snd'[i] = snd[i] /\ obj'[i] = obj[i] /\ wr'["poll"][i] = wr["poll"][i]
    BY <1>1, <1>p DEF Same
  <2> QED
    BY <1>i, <2>1 DEF TendedOf, OwnHash, LocalOnly, Cared, PollWaits, Busy, Queued
<1>2. CASE Cancelled(i)
  <2>1. /\ snd'[i] = snd[i] /\ wr'["poll"][i] = wr["poll"][i]
        /\ Queued(i) /\ obj'[i].st = "cancelled" /\ obj'[i].hash = obj[i].hash
    BY <1>2, <1>p DEF Cancelled
  <2>2. obj[i].st \in {"outbound", "sent"}
    BY <2>1 DEF Queued
  <2>3. ~(snd[i].p \in SelfPayloads /\ snd[i].pc # "new")
    BY <1>i, <2>2 DEF LocalOnly
  <2> QED
    BY <1>i, <2>1, <2>2, <2>3 DEF TendedOf, OwnHash, LocalOnly, Cared, PollWaits, Busy, Queued
<1>3. CASE Starts(i)
  <2>1. /\ snd'[i].pc = "path" /\ obj[i].st = "free" /\ obj'[i] = obj[i] /\ ~obj[i].call
    BY <1>3 DEF Starts
  <2> QED
    BY <2>1 DEF TendedOf, OwnHash, LocalOnly, Cared, PollWaits, Busy, Queued, MidStep
<1>4. CASE SendStep(i)
  <2>e. SendEffectOf(i) /\ snd'[i].p = snd[i].p
    BY <1>4, SendEffect
  <2>1. CASE /\ obj'[i] = obj[i] /\ wr'["poll"][i] = wr["poll"][i]
             /\ snd[i].pc \in {"path", "raise", "count"} /\ snd'[i].pc \in {"done", "raise"}
    BY <1>i, <2>1, <2>e DEF TendedOf, OwnHash, LocalOnly, Cared, PollWaits, Busy, Queued, MidStep
  <2>2. CASE /\ snd[i].pc = "path" /\ snd'[i].pc \in {"convert", "notify"}
             /\ obj'[i].hash = BuiltHash(i) /\ ~obj'[i].call
             /\ \/ snd[i].p \notin SelfPayloads
                \/ snd'[i].pc = "notify" /\ obj'[i].st = "delivered"
    <3>1. BuiltHash(i) \in Hashes /\ PayloadOf(BuiltHash(i)) = snd[i].p
      BY <1>s, <2>2, BuiltHashOwn
    <3> QED
      BY <2>2, <2>e, <3>1 DEF TendedOf, OwnHash, LocalOnly, Cared, PollWaits, Busy, MidStep
  <2>3. CASE /\ SendConvert(i) /\ SameObjWr(i)
             /\ \/ snd[i].pc = "convert" /\ snd'[i].pc = "upsert"
                \/ snd[i].pc = "reconvert" /\ snd'[i].pc = "reupsert"
             /\ snd'[i].seen = obj[i].st
    <3>1. obj'[i] = obj[i] /\ wr'["poll"][i] = wr["poll"][i]
      BY <1>p, <2>3 DEF SameObjWr
    <3> QED
      BY <1>i, <2>3, <2>e, <3>1 DEF TendedOf, OwnHash, LocalOnly, Cared, PollWaits, Busy, MidStep
  <2>4. CASE SendUpsert(i) /\ SameObjWr(i) /\ snd[i].pc = "upsert" /\ snd'[i].pc = "notify"
    <3>1. obj'[i] = obj[i] /\ wr'["poll"][i] = wr["poll"][i]
      BY <1>p, <2>4 DEF SameObjWr
    <3> QED
      BY <1>i, <2>4, <2>e, <3>1 DEF TendedOf, OwnHash, LocalOnly, Cared, PollWaits, Busy, MidStep
  <2>5. CASE /\ SendReturn(i) /\ obj'[i] = obj[i]
             /\ snd[i].pc = "notify" /\ snd'[i].pc \in {"reconvert", "count", "done"}
             /\ snd[i].p \notin SelfPayloads => wr'["poll"][i].pc = "read"
    <3>1. Busy(i)
      BY <2>5 DEF Busy
    <3> QED
      BY <1>i, <2>5, <2>e, <3>1 DEF TendedOf, OwnHash, LocalOnly, Cared, PollWaits, Queued, MidStep
  <2>6. CASE SendReopen(i) /\ SameObjWr(i) /\ snd[i].pc = "reupsert" /\ snd'[i].pc = "done"
    <3>1. obj'[i] = obj[i] /\ wr'["poll"][i] = wr["poll"][i]
      BY <1>p, <2>6 DEF SameObjWr
    <3> QED
      BY <1>i, <2>6, <2>e, <3>1 DEF TendedOf, OwnHash, LocalOnly, Cared, PollWaits, Busy, Queued, MidStep
  <2> QED
    BY <1>p, <2>e, <2>1, <2>2, <2>3, <2>4, <2>5, <2>6 DEF SendEffectOf, SameObjWr
<1>5. CASE RouterSend(i) \/ RouterEnd(i)
  <2>1. /\ UNCHANGED <<snd, wr>> /\ obj'[i].hash = obj[i].hash /\ Queued(i)
    BY <1>5, RouterEffect
  <2>2. obj[i].st \in {"outbound", "sent"}
    BY <2>1 DEF Queued
  <2>3. ~(snd[i].p \in SelfPayloads /\ snd[i].pc # "new")
    BY <1>i, <2>2 DEF LocalOnly
  <2> QED
    BY <1>i, <2>1, <2>2, <2>3 DEF TendedOf, OwnHash, LocalOnly, Cared, PollWaits, Busy
<1>6. CASE CbStart(i)
  <2>1. /\ snd' = snd /\ obj[i].call /\ obj'[i].hash = obj[i].hash
        /\ wr'["poll"][i] = wr["poll"][i]
        /\ \/ obj'[i].st = obj[i].st /\ obj'[i].prop = obj[i].prop /\ obj'[i].try = obj[i].try
           \/ obj[i].st = "failed" /\ obj[i].try /\ obj'[i].st = "outbound"
    BY <1>6, <1>p, CbStartEffect
  <2>2. ~(snd[i].p \in SelfPayloads /\ snd[i].pc # "new")
    BY <1>i, <2>1 DEF LocalOnly
  <2> QED
    BY <1>i, <1>w, <2>1, <2>2 DEF TendedOf, OwnHash, LocalOnly, Cared, PollWaits, Busy, Queued
<1>7. CASE PollCheck(i)
  <2>1. /\ UNCHANGED <<obj, snd>> /\ wr["poll"][i].pc = "check"
        /\ wr'["poll"][i].pc = IF ProgressTerminal(i) THEN "off" ELSE "read"
    BY <1>7, PollCheckEffect
  <2>2. ProgressTerminal(i) => ~(Queued(i) \/ (obj[i].st = "failed" /\ obj[i].try))
    BY DEF ProgressTerminal, Parked, Queued
  <2> QED
    BY <1>i, <2>1, <2>2 DEF TendedOf, OwnHash, LocalOnly, Cared, PollWaits, Busy, Queued
<1>8. ASSUME NEW k \in Kinds, WrRead(k, i) \/ WrUpdate(k, i)
      PROVE  TendedOf(i)'
  <2>1. UNCHANGED <<obj, snd>>
    BY <1>8, WriterEffect
  <2>2. wr'["poll"][i].pc # wr["poll"][i].pc
          => /\ wr["poll"][i].pc # "off" /\ wr'["poll"][i].pc # "off"
             /\ wr["poll"][i].pc = "read" => WrRead("poll", i)
    BY <1>8, <1>p, WriterEffect
  <2>3. WrRead("poll", i) => snd[i].pc \notin MidStep
    BY DEF WrRead, LoopFree, NoMidStep
  <2> QED
    BY <1>i, <2>1, <2>2, <2>3
       DEF TendedOf, OwnHash, LocalOnly, Cared, PollWaits, Busy, Queued, MidStep
<1>9. CASE Restart
  <2>1. /\ obj'[i].hash = obj[i].hash /\ ~obj'[i].call
        /\ \/ obj[i].st \in {"free", "delivered"} /\ obj'[i].st = obj[i].st
           \/ obj[i].st \notin {"free", "delivered"} /\ obj'[i].st = "gone"
        /\ snd'[i].p = snd[i].p
        /\ \/ snd[i].pc = "new" /\ snd'[i].pc = "new"
           \/ snd[i].pc # "new" /\ snd'[i].pc = "dead"
    BY <1>9, RestartEffect
  <2> QED
    BY <1>i, <2>1 DEF TendedOf, OwnHash, LocalOnly, Cared, PollWaits, Busy, Queued, MidStep
<1>10. FateOf(i)
  BY Fate
<1> QED
  BY <1>1, <1>2, <1>3, <1>4, <1>5, <1>6, <1>7, <1>8, <1>9, <1>10 DEF FateOf

--------------------------------------------------------------------------------
(* No row hangs in flight *)

\* The row of a message to ourselves is never in flight.
LocalRows == \A h \in Hashes : PayloadOf(h) \in SelfPayloads => row[h].st \notin InFlight

\* Somebody who will write the row of send i again.  A poll that is about to stop
\* does not count.
Writes(i) == \/ Busy(i) \/ obj[i].call \/ wr["cb"][i].pc # "off"
             \/ wr["poll"][i].pc \in {"read", "update"}
             \/ wr["poll"][i].pc = "check" /\ ~ProgressTerminal(i)

\* In flight and not parked on a propagation node.
Hanging(h) == row[h].st \in InFlight /\ ~(row[h].st = "sent" /\ row[h].prop)

\* InFlightIsTracked, strengthened so that it is inductive.
Awaited == \A h \in Hashes : Hanging(h) => \E i \in Sends : obj[i].hash = h /\ Writes(i)

LEMMA LocalRowsStep ==
  ASSUME TypeOK, Shape, Blank, Fresh, Tended, LocalRows, [Next]_vars
  PROVE  LocalRows'
<1> SUFFICES ASSUME NEW h \in Hashes, PayloadOf(h) \in SelfPayloads
             PROVE  row'[h].st \notin InFlight
  BY DEF LocalRows, PayloadOf
<1>0. /\ "none" \notin InFlight /\ "free" \notin InFlight /\ NoRow.st = "none"
      /\ \A st \in {"failed", "cancelled", "delivered"} : st \notin InFlight
      /\ "free" \notin RowStates
  BY DEF InFlight, NoRow, RowStates, Terminal
<1>1. row[h].st \notin InFlight
  BY DEF LocalRows
<1>2. RowFateOf(h)
  BY RowFate, NoClaimOnNoRow
<1>3. \A new : new \notin InFlight => Guarded(row[h].st, new) = new
  BY DEF Guarded
<1>4. CASE \/ row'[h] = NoRow \/ row'[h].st = row[h].st
           \/ row'[h].st \in {"failed", "cancelled", "delivered"}
  BY <1>0, <1>1, <1>4
<1>5. ASSUME NEW i \in Sends, SendUpsert(i) \/ SendReopen(i), obj[i].hash = h,
             row'[h].st = Guarded(row[h].st, snd[i].seen)
      PROVE  row'[h].st \notin InFlight
  <2>1. snd[i].pc \in {"upsert", "reupsert"}
    BY <1>5 DEF SendUpsert, SendReopen
  <2>2. obj[i].st \in RowStates
    BY <2>1 DEF Shape, ShapeOf, MidStep
  <2>3. snd[i].p \in SelfPayloads
    BY <1>0, <1>5, <2>2 DEF Tended, TendedOf, OwnHash
  <2>4. snd[i].seen = "delivered"
    BY <2>1, <2>3 DEF Tended, TendedOf, LocalOnly
  <2> QED
    BY <1>0, <1>3, <1>5, <2>4
<1>6. ASSUME NEW k \in Kinds, NEW i \in Sends, WrUpdate(k, i), obj[i].hash = h,
             row'[h].st = wr[k][i].st
      PROVE  row'[h].st \notin InFlight
  <2>1. wr[k][i].pc = "update" /\ row'[h].st = Guarded(row[h].st, obj[i].st)
    BY <1>6 DEF Fresh, WrUpdate
  <2>2. obj[i].st \in RowStates
    BY <2>1 DEF Shape, ShapeOf
  <2>3. snd[i].p \in SelfPayloads /\ snd[i].pc # "new"
    BY <1>0, <1>6, <2>2 DEF Tended, TendedOf, OwnHash, Shape, ShapeOf
  <2>4. obj[i].st \in {"free", "delivered"}
    BY <2>3 DEF Tended, TendedOf, LocalOnly
  <2> QED
    BY <1>0, <1>3, <2>1, <2>4
<1>7. CASE row'[h] = Unstuck(row[h])
  BY <1>7, <1>1, <1>0 DEF Unstuck
<1> QED
  BY <1>2, <1>4, <1>5, <1>6, <1>7 DEF RowFateOf

LEMMA WritesAlive ==
  ASSUME Shape, NEW j \in Sends, Writes(j)
  PROVE  obj[j].st \in RowStates /\ obj[j].st # "free" /\ snd[j].pc \notin {"new", "path"}
<1>1. "poll" \in Kinds /\ "cb" \in Kinds /\ "free" \notin RowStates
  BY DEF Kinds, RowStates, InFlight, Terminal
<1> QED
  BY <1>1 DEF Shape, ShapeOf, Writes, Busy

\* Who will write goes on meaning to, except by writing or dying.
LEMMA WritesKept ==
  ASSUME TypeOK, Shape, Tended, [Next]_vars, NEW j \in Sends, Writes(j),
         snd[j].p \notin SelfPayloads, ~Restart, \A k \in Kinds : ~WrUpdate(k, j)
  PROVE  Writes(j)'
<1>p. "poll" \in Kinds /\ "cb" \in Kinds /\ "poll" # "cb"
  BY DEF Kinds
<1>a. snd[j].pc \notin {"new", "path"}
  BY WritesAlive
<1>1. CASE Same(j)
  BY <1>1, <1>p DEF Same, Writes, Busy, ProgressTerminal, Parked
<1>2. CASE Cancelled(j)
  BY <1>2 DEF Cancelled, Writes
<1>3. CASE Starts(j)
  BY <1>3, <1>a DEF Starts
<1>4. CASE SendStep(j)
  <2>e. SendEffectOf(j)
    BY <1>4, SendEffect
  <2>1. CASE /\ SameObjWr(j) /\ snd[j].pc \in {"raise", "count"}
    BY <1>p, <2>1 DEF SameObjWr, Writes, Busy, ProgressTerminal, Parked, MidStep
  <2>2. CASE snd'[j].pc \in {"upsert", "reupsert", "notify"}
    BY <2>2 DEF Writes, Busy, MidStep
  <2>3. CASE wr'["poll"][j].pc = "read"
    BY <2>3 DEF Writes
  <2>4. CASE SendReopen(j) /\ SameObjWr(j) /\ snd[j].pc = "reupsert"
    <3>1. wr["poll"][j].pc = "read"
      BY <2>4 DEF Tended, TendedOf, PollWaits
    <3> QED
      BY <1>p, <2>4, <3>1 DEF SameObjWr, Writes
  <2> QED
    BY <1>a, <2>e, <2>1, <2>2, <2>3, <2>4 DEF SendEffectOf
<1>5. CASE RouterSend(j) \/ RouterEnd(j)
  BY <1>5, RouterEffect DEF Writes, Busy, ProgressTerminal, Parked
<1>6. CASE CbStart(j)
  BY <1>6, CbStartEffect DEF Writes
<1>7. CASE PollCheck(j)
  BY <1>7, <1>p, PollCheckEffect DEF Writes, Busy
<1>8. ASSUME NEW k \in Kinds, WrRead(k, j)
      PROVE  Writes(j)'
  <2>1. UNCHANGED <<obj, snd>> /\ wr'[k][j].pc = "update"
    BY <1>8, WriterEffect
  <2>2. CASE k = "poll"
    BY <2>1, <2>2 DEF Writes
  <2>3. CASE k = "cb"
    BY <2>1, <2>3 DEF Writes
  <2> QED
    BY <2>2, <2>3 DEF Kinds
<1>9. FateOf(j)
  BY Fate
<1> QED
  BY <1>1, <1>2, <1>3, <1>4, <1>5, <1>6, <1>7, <1>8, <1>9 DEF FateOf

\* A writer that leaves a row in flight has left somebody who will come back to it.
LEMMA WrittenIsAwaited ==
  ASSUME TypeOK, Shape, Fresh, Tended, NEW k \in Kinds, NEW i \in Sends, WrUpdate(k, i),
         row'[obj[i].hash].st = wr[k][i].st, row'[obj[i].hash].prop = wr[k][i].prop,
         Hanging(obj[i].hash)'
  PROVE  Writes(i)'
<1>1. /\ UNCHANGED <<obj, snd>> /\ wr[k][i].pc = "update"
      /\ \A l \in Kinds : l # k => wr'[l][i] = wr[l][i]
      /\ wr'[k][i].pc = IF k = "poll" THEN "check" ELSE "off"
  BY WriterEffect
<1>2. wr[k][i].st = Guarded(row[obj[i].hash].st, obj[i].st) /\ wr[k][i].prop = obj[i].prop
  BY <1>1 DEF Fresh
<1>3. row'[obj[i].hash].st \in InFlight
      /\ ~(row'[obj[i].hash].st = "sent" /\ row'[obj[i].hash].prop)
  BY <1>1 DEF Hanging
<1>4. wr[k][i].st = obj[i].st
  BY <1>2, <1>3 DEF Guarded, Terminal, InFlight
<1>5. Queued(i)
  BY <1>2, <1>3, <1>4 DEF Queued, InFlight
<1>6. Busy(i) \/ wr["poll"][i].pc # "off"
  BY <1>5 DEF Tended, TendedOf, Cared
<1>7. ~ProgressTerminal(i)'
  BY <1>1, <1>5 DEF Queued, ProgressTerminal, Parked
<1>8. CASE Busy(i)
  BY <1>1, <1>8 DEF Busy, Writes
<1>9. CASE wr["poll"][i].pc # "off" /\ k = "poll"
  BY <1>1, <1>7, <1>9 DEF Writes
<1>10. CASE wr["poll"][i].pc # "off" /\ k # "poll"
  <2>1. wr'["poll"][i] = wr["poll"][i] /\ wr["poll"][i] \in WrType
    BY <1>1, <1>10 DEF TypeOK, Kinds
  <2>2. wr["poll"][i].pc \in {"read", "update", "check"}
    BY <1>10, <2>1 DEF WrType
  <2> QED
    BY <1>7, <2>1, <2>2 DEF Writes
<1> QED
  BY <1>6, <1>8, <1>9, <1>10

LEMMA AwaitedStep ==
  ASSUME TypeOK, Shape, Blank, Fresh, Tended, LocalRows, Awaited, [Next]_vars
  PROVE  Awaited'
<1> SUFFICES ASSUME NEW h \in Hashes, Hanging(h)'
             PROVE  \E i \in Sends : obj'[i].hash = h /\ Writes(i)'
  BY DEF Awaited
<1>0. row'[h].st \in InFlight /\ ~(row'[h].st = "sent" /\ row'[h].prop)
  BY DEF Hanging
<1>a. NoRow.st = "none" /\ InFlight \cap {"none", "cancelled", "failed", "delivered"} = {}
  BY DEF NoRow, InFlight
<1>1. RowFateOf(h)
  BY RowFate, NoClaimOnNoRow
<1>2. CASE Restart
  <2>1. row'[h] = Unstuck(row[h])
    BY <1>2 DEF Restart
  <2>2. row[h] \in RowType
    BY DEF TypeOK
  <2> QED
    BY <1>0, <2>1, <2>2 DEF Unstuck, RowType, InFlight
<1>3. ASSUME NEW i \in Sends, SendUpsert(i) \/ SendReopen(i), obj[i].hash = h,
             row'[h].st = Guarded(row[h].st, snd[i].seen)
      PROVE  obj'[i].hash = h /\ Writes(i)'
  <2>1. SendStep(i)
    BY <1>3 DEF SendStep
  <2>2. SendEffectOf(i) /\ snd[i].pc \in {"upsert", "reupsert"}
    BY <1>3, <2>1, SendEffect DEF SendUpsert, SendReopen
  <2>3. SameObjWr(i) /\ snd'[i].pc = IF snd[i].pc = "upsert" THEN "notify" ELSE "done"
    BY <2>2 DEF SendEffectOf
  <2>4. CASE snd[i].pc = "upsert"
    BY <1>3, <2>3, <2>4 DEF SameObjWr, Writes, Busy
  <2>5. CASE snd[i].pc = "reupsert"
    <3>1. snd[i].p \notin SelfPayloads
      <4>1. SUFFICES ASSUME snd[i].p \in SelfPayloads PROVE FALSE
        OBVIOUS
      <4>2. snd[i].seen = "delivered"
        BY <2>5, <4>1 DEF Tended, TendedOf, LocalOnly
      <4> QED
        BY <1>0, <1>3, <1>a, <4>2 DEF Guarded, InFlight
    <3>2. wr["poll"][i].pc = "read"
      BY <2>5, <3>1 DEF Tended, TendedOf, PollWaits
    <3> QED
      BY <1>3, <2>3, <3>2 DEF SameObjWr, Writes, Kinds
  <2> QED
    BY <2>2, <2>4, <2>5
<1>4. ASSUME NEW k \in Kinds, NEW i \in Sends, WrUpdate(k, i), obj[i].hash = h,
             row'[h].st = wr[k][i].st, row'[h].prop = wr[k][i].prop
      PROVE  obj'[i].hash = h /\ Writes(i)'
  BY <1>4, WrittenIsAwaited, WriterEffect
<1>5. CASE row'[h].st = row[h].st /\ row'[h].prop = row[h].prop /\ ~Restart
  <2>1. Hanging(h)
    BY <1>0, <1>5 DEF Hanging
  <2>2. PICK j \in Sends : obj[j].hash = h /\ Writes(j)
    BY <2>1 DEF Awaited
  <2>3. obj[j].st # "free" /\ snd[j].pc # "path"
    BY <2>2, WritesAlive
  <2>4. obj'[j].hash = h
    BY <2>2, <2>3, HashStays
  <2>5. snd[j].p \notin SelfPayloads
    BY <2>1, <2>2, <2>3 DEF Tended, TendedOf, OwnHash, LocalRows, Hanging
  <2>6. CASE \A k \in Kinds : ~WrUpdate(k, j)
    BY <1>5, <2>2, <2>4, <2>5, <2>6, WritesKept
  <2>7. CASE \E k \in Kinds : WrUpdate(k, j)
    <3>1. PICK k \in Kinds : WrUpdate(k, j)
      BY <2>7
    <3>2. row'[h] = Updated(h, wr[k][j].st, wr[k][j].prop)
      BY <2>2, <3>1 DEF WrUpdate, TypeOK
    <3>3. row[h] # NoRow
      BY <2>1, <1>a DEF Hanging
    <3>4. row'[h].st = wr[k][j].st /\ row'[h].prop = wr[k][j].prop
      <4>1. row[h] \in RowType
        BY DEF TypeOK
      <4> QED
        BY <3>2, <3>3, <4>1 DEF Updated, RowType
    <3> QED
      BY <1>4, <2>2, <3>1, <3>4
  <2> QED
    BY <2>6, <2>7
<1> QED
  BY <1>0, <1>1, <1>2, <1>3, <1>4, <1>5, <1>a DEF RowFateOf

LEMMA TrackInit == Init => LocalRows /\ Awaited
<1> SUFFICES ASSUME Init PROVE LocalRows /\ Awaited
  OBVIOUS
<1>1. \A h \in Hashes : row[h].st \in {"none", "failed"}
  BY DEF Init, NoRow
<1> QED
  BY <1>1 DEF LocalRows, Awaited, Hanging, InFlight

\* Under the same assumption every row in flight has somebody who comes back to it,
\* and stays so through every step, the start-up pass (mark_stuck_messages_as_failed)
\* included.
THEOREM TrackingInductive ==
  ASSUME ~Preempt
  PROVE  Spec => [](IInv /\ Blank /\ OneWriter /\ Fresh /\ Tended /\ LocalRows /\ Awaited)
<1>1. IInv /\ Blank /\ OneWriter /\ Fresh /\ Tended /\ LocalRows /\ Awaited /\ [Next]_vars
        => (Tended /\ LocalRows /\ Awaited)'
  BY TendedStep, LocalRowsStep, AwaitedStep DEF IInv
<1> QED
  BY OneWriterAtATime, TendedInit, TrackInit, <1>1, PTL DEF Spec

\* A row that says outbound, sending or sent and is not parked on a propagation node
\* has its send_message, its progress poll or a router callback still to write it:
\* no message hangs in flight, for any number of sends, re-sends, cancels and crashes.
THEOREM NothingHangs == ASSUME ~Preempt PROVE Spec => []InFlightIsTracked
<1>1. Awaited => InFlightIsTracked
  BY DEF Awaited, InFlightIsTracked, Hanging, Writes, Busy
<1> QED
  BY TrackingInductive, <1>1, PTL

--------------------------------------------------------------------------------
(* A re-send loses no message *)

\* The send was called; it is a running automatic re-send; the row is there.
Begun(i)      == snd[i].pc # "new"
AutoActive(i) == snd[i].by = "auto" /\ snd[i].pc \notin {"new", "done", "dead"}
Here(h)       == row[h].st # "none"

\* A payload with a row or a send was stored by an earlier run or written by the user.
Wanted(p) == p \in Stored \/ \E j \in Sends : Begun(j) /\ snd[j].by = "user" /\ snd[j].p = p
Used(p)   == \/ \E h \in Hashes : PayloadOf(h) = p /\ Here(h)
             \/ \E i \in Sends : Begun(i) /\ snd[i].p = p
UsedIsWanted == \A p : Used(p) => Wanted(p)

\* Until its first row is stored, the user's send is alone with its payload.
First(i) ==
  snd[i].by = "user" /\ snd[i].pc \in {"path", "convert", "upsert"} =>
    /\ \A h \in Hashes : PayloadOf(h) = snd[i].p => ~Here(h)
    /\ \A j \in Sends : Begun(j) /\ snd[j].p = snd[i].p => j = i

\* The lock of the auto-resend run: one automatic re-send at a time.
OneAuto == \A i, j \in Sends : AutoActive(i) /\ AutoActive(j) => i = j

\* A re-send is of the payload of the row it replaces.
OwnOld(i) == /\ snd[i].by \in {"user", "auto"}
             /\ snd[i].by = "auto" => snd[i].old \in Hashes /\ PayloadOf(snd[i].old) = snd[i].p

\* The replacement's row is there before the old one is dropped.
Replaced(i) == snd[i].by = "auto" /\ snd[i].pc = "notify" /\ snd[i].p \in saved
                 => Here(obj[i].hash)

\* PayloadKept with what makes it inductive.
Keeping == /\ UsedIsWanted /\ OneAuto /\ PayloadKept
           /\ \A i \in Sends : First(i) /\ OwnOld(i) /\ Replaced(i)


LEMMA NoRestart ==
  ASSUME MaxCrashes = 0, TypeOK
  PROVE  ~Restart
  BY DEF TypeOK, Restart

\* A send keeps what it was called with.
LEMMA IdentityStays ==
  ASSUME TypeOK, Shape, [Next]_vars, NEW j \in Sends, Begun(j)
  PROVE  /\ Begun(j)' /\ snd'[j].p = snd[j].p /\ snd'[j].by = snd[j].by
         /\ snd'[j].old = snd[j].old
<1>1. CASE Same(j) \/ Cancelled(j)
  BY <1>1 DEF Same, Cancelled, Begun
<1>2. CASE SendStep(j)
  BY <1>2, SendEffect DEF SendEffectOf, Begun
<1>3. CASE \/ RouterSend(j) \/ RouterEnd(j) \/ CbStart(j) \/ PollCheck(j)
           \/ \E k \in Kinds : WrRead(k, j) \/ WrUpdate(k, j)
  BY <1>3, RouterEffect, CbStartEffect, PollCheckEffect, WriterEffect DEF Begun
<1>4. CASE Restart
  BY <1>4, RestartEffect DEF Begun
<1>5. ~Starts(j)
  BY DEF Starts, Begun
<1>6. FateOf(j)
  BY Fate
<1> QED
  BY <1>1, <1>2, <1>3, <1>4, <1>5, <1>6 DEF FateOf

\* Without re-sends by hand a new call is the user's or the auto-resend run's.
LEMMA Beginner ==
  ASSUME TypeOK, Shape, [Next]_vars, "resend" \notin UserActs,
         NEW j \in Sends, ~Begun(j), Begun(j)'
  PROVE  \/ \E p \in Payloads, prop \in BOOLEAN : UserSend(j, p, prop)
         \/ \E h \in Hashes : AutoClaim(h, j)
<1>1. CASE Same(j) \/ Cancelled(j)
  BY <1>1 DEF Same, Cancelled, Begun
<1>2. CASE SendStep(j)
  BY <1>2, SendEffect DEF SendEffectOf, Begun
<1>3. CASE \/ RouterSend(j) \/ RouterEnd(j) \/ CbStart(j) \/ PollCheck(j)
           \/ \E k \in Kinds : WrRead(k, j) \/ WrUpdate(k, j)
  BY <1>3, RouterEffect, CbStartEffect, PollCheckEffect, WriterEffect DEF Begun
<1>4. CASE Restart
  BY <1>4, RestartEffect DEF Begun
<1>5. \A h : ~ManualResend(h, j)
  BY DEF ManualResend
<1>6. FateOf(j)
  BY Fate
<1> QED
  BY <1>1, <1>2, <1>3, <1>4, <1>5, <1>6 DEF FateOf

LEMMA UserSendEffect ==
  ASSUME TypeOK, Shape, NEW i \in Sends, NEW p, NEW prop, UserSend(i, p, prop)
  PROVE  /\ UNCHANGED <<row, obj, saved>> /\ \A j \in Sends : j # i => snd'[j] = snd[j]
         /\ snd[i].pc = "new" /\ snd'[i].pc = "path" /\ snd'[i].by = "user" /\ snd'[i].p = p
         /\ p \notin Stored /\ \A j \in Sends : ~(snd[j].by = "user" /\ snd[j].p = p)
<1>1. Start(i, "user", p, None, 0, prop) /\ UNCHANGED <<obj, wr>>
  BY DEF UserSend
<1>2. \A j \in Sends : /\ j # i => snd'[j] = snd[j]
                       /\ j = i => Starts(j) /\ snd'[j].p = p /\ snd'[j].by = "user"
  BY <1>1, StartEffect
<1> QED
  BY <1>2 DEF UserSend, Starts

LEMMA AutoClaimEffect ==
  ASSUME TypeOK, Shape, NEW h \in Hashes, NEW i \in Sends, AutoClaim(h, i)
  PROVE  /\ UNCHANGED <<obj, saved>> /\ \A j \in Sends : j # i => snd'[j] = snd[j]
         /\ snd[i].pc = "new" /\ snd'[i].pc = "path" /\ snd'[i].by = "auto"
         /\ snd'[i].p = PayloadOf(h) /\ snd'[i].old = h
         /\ \A j \in Sends : ~AutoActive(j)
         /\ row[h].st = "failed"
<1>1. Start(i, "auto", PayloadOf(h), h, auto.snap[h] + 1, FALSE) /\ UNCHANGED <<obj, wr>>
  BY DEF AutoClaim
<1>2. \A j \in Sends : /\ j # i => snd'[j] = snd[j]
                       /\ j = i => /\ Starts(j) /\ snd'[j].p = PayloadOf(h)
                                   /\ snd'[j].by = "auto" /\ snd'[j].old = h
  <2>1. Starts(i)
    BY <1>1, StartEffect
  <2>2. snd \in [Sends -> SndType]
    BY DEF TypeOK
  <2>3. snd'[i].p = PayloadOf(h) /\ snd'[i].by = "auto" /\ snd'[i].old = h
    BY <1>1, <2>2 DEF Start
  <2>4. \A j \in Sends : j # i => snd'[j] = snd[j]
    BY <1>1, <2>2 DEF Start
  <2> QED
    BY <2>1, <2>3, <2>4
<1>3. \A j \in Sends : ~AutoActive(j)
  BY DEF AutoClaim, AutoTurn, AutoSending, AutoActive
<1> QED
  BY <1>2, <1>3 DEF AutoClaim, Claimable, Starts

\* The steps that store a row of their own store one with their payload.
StoresRow(i) == SendPathless(i) \/ SendLocal(i) \/ SendUpsert(i) \/ SendReopen(i)

LEMMA StoreEffect ==
  ASSUME TypeOK, Shape, Tended, NEW i \in Sends, StoresRow(i)
  PROVE  /\ Begun(i)
         /\ \E h \in Hashes : /\ PayloadOf(h) = snd[i].p /\ row'[h].st # "none"
                              /\ \A g \in Hashes : g # h => row'[g] = row[g]
                              /\ ~SendPathless(i) => h = obj'[i].hash
<1>row. row \in [Hashes -> RowType] /\ obj \in [Sends -> ObjType]
  BY DEF TypeOK
<1>s. SndType # {} /\ snd[i] \in SndType
  BY DEF TypeOK
<1>0. "none" \notin RowStates /\ "free" \notin RowStates
  BY DEF RowStates, InFlight, Terminal
<1>1. Begun(i)
  BY DEF StoresRow, SendPathless, SendLocal, SendUpsert, SendReopen, Begun
<1>2. snd[i].p \in Payloads
  BY <1>1 DEF Shape, ShapeOf, Begun
<1>3. BuiltHash(i) \in Hashes /\ PayloadOf(BuiltHash(i)) = snd[i].p
  BY <1>2, BuiltHashOwn
<1>4. ASSUME NEW h \in Hashes, NEW st \in RowStates, NEW prop
      PROVE  Upserted(h, st, prop).st # "none"
  BY <1>0, GuardedType DEF Upserted
<1>5. CASE SendPathless(i)
  <2>1. row' = [row EXCEPT ![BuiltHash(i)] = Upserted(BuiltHash(i), "failed", snd[i].prop)]
    BY <1>5 DEF SendPathless
  <2>2. row'[BuiltHash(i)].st # "none"
    BY <2>1, <1>row, <1>3, <1>4 DEF RowStates, Terminal
  <2>3. \A g \in Hashes : g # BuiltHash(i) => row'[g] = row[g]
    BY <2>1, <1>row
  <2> QED
    BY <1>1, <1>3, <1>5, <2>2, <2>3
<1>6. CASE SendLocal(i)
  <2>1. row' = [row EXCEPT ![BuiltHash(i)] = Upserted(BuiltHash(i), "delivered", FALSE)]
    BY <1>6 DEF SendLocal
  <2>2. row'[BuiltHash(i)].st # "none"
    BY <2>1, <1>row, <1>3, <1>4 DEF RowStates, Terminal
  <2>3. \A g \in Hashes : g # BuiltHash(i) => row'[g] = row[g]
    BY <2>1, <1>row
  <2>4. obj'[i].hash = BuiltHash(i)
    BY <1>6, <1>row DEF SendLocal, NewObj
  <2> QED
    BY <1>1, <1>3, <2>2, <2>3, <2>4
<1>7. CASE SendUpsert(i) \/ SendReopen(i)
  <2>1. obj[i].hash \in Hashes /\ PayloadOf(obj[i].hash) = snd[i].p
    <3>1. obj[i].st \in RowStates
      BY <1>7 DEF SendUpsert, SendReopen, Shape, ShapeOf, MidStep
    <3> QED
      BY <1>0, <3>1 DEF Tended, TendedOf, OwnHash
  <2>2. snd[i].seen \in RowStates
    BY <1>s DEF SndType
  <2>3. row'[obj[i].hash].st = Upserted(obj[i].hash, snd[i].seen, snd[i].via).st
    BY <1>7, <1>row, <2>1 DEF SendUpsert, SendReopen, Upserted
  <2>4. \A g \in Hashes : g # obj[i].hash => row'[g] = row[g]
    BY <1>7, <1>row DEF SendUpsert, SendReopen
  <2>5. obj'[i].hash = obj[i].hash
    BY <1>7 DEF SendUpsert, SendReopen
  <2> QED
    BY <1>1, <1>4, <2>1, <2>2, <2>3, <2>4, <2>5
<1> QED
  BY <1>5, <1>6, <1>7 DEF StoresRow

LEMMA RowMade ==
  ASSUME TypeOK, Shape, Blank, [Next]_vars, ~Restart, Tended, NEW h \in Hashes,
         ~Here(h), Here(h)'
  PROVE  \E i \in Sends : StoresRow(i) /\ PayloadOf(h) = snd[i].p
<1>1. RowFateOf(h)
  BY RowFate, NoClaimOnNoRow
<1>2. row[h] = NoRow /\ row'[h].st # "none" /\ NoRow.st = "none"
  BY DEF Blank, Here, NoRow
<1>3. PICK i \in Sends : StoresRow(i)
  BY <1>1, <1>2 DEF RowFateOf, StoresRow
<1>4. PICK g \in Hashes : /\ PayloadOf(g) = snd[i].p
                          /\ \A f \in Hashes : f # g => row'[f] = row[f]
  BY <1>3, StoreEffect
<1>5. g = h
  BY <1>4 DEF Here
<1> QED
  BY <1>3, <1>4, <1>5

\* A row goes when the user deletes it or a re-send drops the one it replaces.
LEMMA RowDropped ==
  ASSUME TypeOK, Shape, Blank, [Next]_vars, ~Restart, NEW h \in Hashes, Here(h), ~Here(h)'
  PROVE  \/ PayloadOf(h) \notin saved'
         \/ \E i \in Sends : /\ SendReturn(i) /\ snd[i].by # "user" /\ snd[i].old = h
                             /\ \A g \in Hashes : g # h => row'[g] = row[g]
<1>0. "none" \notin RowStates
  BY DEF RowStates, InFlight, Terminal
<1>r. row[h].st # "none" /\ row'[h].st = "none" /\ row[h] \in RowType
  BY DEF Here, TypeOK
<1>1. RowFateOf(h)
  BY RowFate, NoClaimOnNoRow
<1>2. CASE UserDelete(h) \/ ConversationDelete
  BY <1>2 DEF UserDelete, ConversationDelete
<1>3. ASSUME NEW i \in Sends, SendReturn(i), snd[i].by # "user", snd[i].old = h
      PROVE  \A g \in Hashes : g # h => row'[g] = row[g]
  BY <1>3 DEF SendReturn, TypeOK
<1>4. ASSUME NEW i \in Sends, row'[h].st = Guarded(row[h].st, snd[i].seen)
      PROVE  FALSE
  <2>1. snd[i].seen \in RowStates
    BY DEF TypeOK, SndType
  <2> QED
    BY <1>r, <1>0, <1>4, <2>1, GuardedType
<1>5. ASSUME NEW k \in Kinds, NEW i \in Sends, row'[h].st = wr[k][i].st
      PROVE  FALSE
  <2>1. wr[k][i].st \in RowStates
    BY DEF TypeOK, WrType
  <2> QED
    BY <1>r, <1>0, <1>5, <2>1
<1> QED
  BY <1>r, <1>1, <1>2, <1>3, <1>4, <1>5 DEF RowFateOf

\* What counts as stored grows only when the user's own send stores its row.
LEMMA SavedGrows ==
  ASSUME TypeOK, [Next]_vars, NEW p, p \in saved', p \notin saved
  PROVE  \E i \in Sends : /\ SendPathless(i) \/ SendLocal(i) \/ SendUpsert(i)
                          /\ snd[i].by = "user" /\ snd[i].p = p
<1>1. CASE Environment
  BY <1>1 DEF Environment, UserSend, UserCancel, UserDelete, CooldownExpires, ManualResend,
     RecentExpires, ConversationDelete, ChangeIcon, Restart
<1>2. ASSUME NEW i \in Sends, SendStep(i)
      PROVE  /\ SendPathless(i) \/ SendLocal(i) \/ SendUpsert(i)
             /\ snd[i].by = "user" /\ snd[i].p = p
  <2>1. SendPathless(i) \/ SendLocal(i) \/ SendUpsert(i)
    BY <1>2 DEF SendStep, SendRefused, SendQueued, SendConvert, SendReturn, SendReopen, AutoCount
  <2>2. saved' = Saved(i)
    BY <2>1 DEF SendPathless, SendLocal, SendUpsert
  <2> QED
    BY <2>1, <2>2 DEF Saved
<1>3. ASSUME \/ \E i \in Sends : RouterSend(i) \/ RouterEnd(i) \/ CbStart(i) \/ PollCheck(i)
             \/ \E k \in Kinds, i \in Sends : WrRead(k, i) \/ WrUpdate(k, i)
             \/ \E h \in Hashes, i \in Sends : AutoClaim(h, i)
             \/ AutoStart \/ AutoEnd \/ CancelWrite \/ UNCHANGED vars
      PROVE  FALSE
  BY <1>3 DEF RouterSend, RouterEnd, CbStart, PollCheck, WrRead, WrUpdate, AutoClaim,
     AutoStart, AutoEnd, CancelWrite, vars
<1> QED
  BY <1>1, <1>2, <1>3 DEF Next, System

\* Where the steps of Keeping start from.
Kept == TypeOK /\ Shape /\ Blank /\ Tended /\ Keeping

LEMMA UsedStep ==
  ASSUME "resend" \notin UserActs, MaxCrashes = 0, Kept, [Next]_vars
  PROVE  UsedIsWanted'
<1>t. TypeOK /\ Shape /\ Blank /\ Tended /\ UsedIsWanted /\ ~Restart
  BY NoRestart DEF Kept, Keeping
<1> SUFFICES ASSUME NEW p, Used(p)'
             PROVE  Wanted(p)'
  BY DEF UsedIsWanted
<1>1. ASSUME Wanted(p)
      PROVE  Wanted(p)'
  BY <1>t, <1>1, IdentityStays DEF Wanted
<1>2. ASSUME NEW i \in Sends, Begun(i), snd[i].p = p
      PROVE  Wanted(p)'
  BY <1>t, <1>1, <1>2 DEF UsedIsWanted, Used
<1>3. ASSUME NEW h \in Hashes, PayloadOf(h) = p, Here(h)
      PROVE  Wanted(p)'
  BY <1>t, <1>1, <1>3 DEF UsedIsWanted, Used
<1>4. ASSUME NEW h \in Hashes, PayloadOf(h) = p, ~Here(h), Here(h)'
      PROVE  Wanted(p)'
  <2>1. PICK i \in Sends : StoresRow(i) /\ snd[i].p = p
    BY <1>t, <1>4, RowMade
  <2>2. Begun(i)
    BY <1>t, <2>1, StoreEffect
  <2> QED
    BY <1>2, <2>1, <2>2
<1>5. ASSUME NEW i \in Sends, ~Begun(i), Begun(i)', snd'[i].p = p
      PROVE  Wanted(p)'
  <2>1. ASSUME NEW q \in Payloads, NEW prop \in BOOLEAN, UserSend(i, q, prop)
        PROVE  Wanted(p)'
    BY <1>t, <1>5, <2>1, UserSendEffect DEF Wanted, Begun
  <2>2. ASSUME NEW h \in Hashes, AutoClaim(h, i)
        PROVE  Wanted(p)'
    <3>1. PayloadOf(h) = p /\ Here(h)
      BY <1>t, <1>5, <2>2, AutoClaimEffect DEF Here
    <3> QED
      BY <1>3, <3>1
  <2> QED
    BY <1>t, <1>5, <2>1, <2>2, Beginner
<1>6. ASSUME NEW i \in Sends, Begun(i)', snd'[i].p = p
      PROVE  Wanted(p)'
  BY <1>t, <1>2, <1>5, <1>6, IdentityStays
<1>7. ASSUME NEW h \in Hashes, PayloadOf(h) = p, Here(h)'
      PROVE  Wanted(p)'
  BY <1>3, <1>4, <1>7
<1> QED
  BY <1>6, <1>7 DEF Used, PayloadOf

LEMMA OneAutoStep ==
  ASSUME "resend" \notin UserActs, Kept, [Next]_vars
  PROVE  OneAuto'
<1>t. TypeOK /\ Shape /\ OneAuto
  BY DEF Kept, Keeping
<1>1. ASSUME NEW i \in Sends, AutoActive(i)', Begun(i)
      PROVE  AutoActive(i)
  <2>1. snd'[i].by = snd[i].by
    BY <1>t, <1>1, IdentityStays
  <2>2. snd[i].pc \in {"done", "dead"} => snd'[i].pc \in {"done", "dead"}
    <3>1. ~SendStep(i) \/ snd[i].pc \notin {"done", "dead"}
      BY <1>t, SendEffect DEF SendEffectOf
    <3>2. ~Starts(i)
      BY <1>1 DEF Starts, Begun
    <3>3. FateOf(i)
      BY <1>t, Fate
    <3> QED
      BY <1>t, <3>1, <3>2, <3>3, RouterEffect, CbStartEffect, PollCheckEffect, WriterEffect,
         RestartEffect DEF FateOf, Same, Cancelled
  <2> QED
    BY <1>1, <2>1, <2>2 DEF AutoActive, Begun
<1>2. ASSUME NEW i \in Sends, AutoActive(i)', ~Begun(i), NEW j \in Sends, AutoActive(j)'
      PROVE  i = j
  <2>1. Begun(i)'
    BY <1>2 DEF AutoActive, Begun
  <2>2. ASSUME NEW q \in Payloads, NEW prop \in BOOLEAN, UserSend(i, q, prop)
        PROVE  FALSE
    BY <1>t, <1>2, <2>2, UserSendEffect DEF AutoActive
  <2>3. PICK h \in Hashes : AutoClaim(h, i)
    BY <1>t, <1>2, <2>1, <2>2, Beginner
  <2>4. j # i => snd'[j] = snd[j] /\ ~AutoActive(j)
    BY <1>t, <2>3, AutoClaimEffect
  <2> QED
    BY <1>2, <2>4 DEF AutoActive
<1> QED
  BY <1>t, <1>1, <1>2 DEF OneAuto

\* A send that stores its row has left the states First speaks of.
LEMMA StoredLeaves ==
  ASSUME TypeOK, NEW i \in Sends, StoresRow(i)
  PROVE  snd'[i].pc \in {"raise", "notify", "done"}
<1>1. snd[i] \in SndType /\ snd \in [Sends -> SndType]
  BY DEF TypeOK
<1>2. \/ snd'[i] = [snd[i] EXCEPT !.pc = "raise"]
      \/ snd'[i] = [snd[i] EXCEPT !.pc = "notify"]
      \/ snd'[i] = [snd[i] EXCEPT !.pc = "notify", !.seen = "outbound", !.via = FALSE]
      \/ snd'[i] = [snd[i] EXCEPT !.pc = "done", !.seen = "outbound", !.via = FALSE]
  BY <1>1 DEF StoresRow, SendPathless, SendLocal, SendUpsert, SendReopen
<1> QED
  BY <1>1, <1>2 DEF SndType

LEMMA FirstStep ==
  ASSUME "resend" \notin UserActs, MaxCrashes = 0, Kept, [Next]_vars, NEW i \in Sends
  PROVE  First(i)'
<1>t. TypeOK /\ Shape /\ Blank /\ Tended /\ ~Restart /\ First(i) /\ UsedIsWanted
  BY NoRestart DEF Kept, Keeping
<1> SUFFICES ASSUME snd'[i].by = "user", snd'[i].pc \in {"path", "convert", "upsert"}
             PROVE  /\ \A h \in Hashes : PayloadOf(h) = snd'[i].p => ~Here(h)'
                    /\ \A j \in Sends : Begun(j)' /\ snd'[j].p = snd'[i].p => j = i
  BY DEF First, PayloadOf
<1>1. CASE ~Begun(i)
  <2>1. Begun(i)'
    BY DEF Begun
  <2>2. ASSUME NEW h \in Hashes, AutoClaim(h, i)
        PROVE  FALSE
    BY <1>t, <2>2, AutoClaimEffect
  <2>3. PICK p \in Payloads, prop \in BOOLEAN : UserSend(i, p, prop)
    BY <1>t, <1>1, <2>1, <2>2, Beginner
  <2>4. /\ UNCHANGED row /\ \A j \in Sends : j # i => snd'[j] = snd[j]
        /\ snd'[i].p = p
        /\ p \notin Stored /\ \A j \in Sends : ~(snd[j].by = "user" /\ snd[j].p = p)
    BY <1>t, <2>3, UserSendEffect
  <2>5. ~Used(p)
    BY <1>t, <2>4 DEF UsedIsWanted, Wanted
  <2> QED
    BY <2>4, <2>5 DEF Used, Here, Begun
<1>2. CASE Begun(i)
  <2>1. snd'[i].p = snd[i].p /\ snd[i].by = "user"
    BY <1>t, <1>2, IdentityStays
  <2>e. SendStep(i) => SendEffectOf(i)
    BY <1>t, SendEffect
  <2>2. snd[i].pc \in {"path", "convert", "upsert"} /\ ~StoresRow(i)
    <3>1. CASE SendStep(i)
      BY <1>t, <2>e, <3>1, StoredLeaves DEF SendEffectOf
    <3>2. CASE ~SendStep(i)
      <4>1. ~Starts(i) /\ ~StoresRow(i)
        BY <1>2, <3>2 DEF Starts, Begun, StoresRow, SendStep
      <4>2. FateOf(i)
        BY <1>t, Fate
      <4>3. snd'[i].pc = snd[i].pc
        BY <1>t, <3>2, <4>1, <4>2, RouterEffect, CbStartEffect, PollCheckEffect, WriterEffect
           DEF FateOf, Same, Cancelled
      <4> QED
        BY <4>1, <4>3
    <3> QED
      BY <3>1, <3>2
  <2>3. /\ \A h \in Hashes : PayloadOf(h) = snd[i].p => ~Here(h)
        /\ \A j \in Sends : Begun(j) /\ snd[j].p = snd[i].p => j = i
    BY <1>t, <2>1, <2>2 DEF First
  <2>4. ASSUME NEW h \in Hashes, PayloadOf(h) = snd[i].p, Here(h)'
        PROVE  FALSE
    <3>1. PICK j \in Sends : StoresRow(j) /\ snd[j].p = snd[i].p
      BY <1>t, <2>3, <2>4, RowMade
    <3>2. Begun(j)
      BY <1>t, <3>1, StoreEffect
    <3> QED
      BY <2>2, <2>3, <3>1, <3>2
  <2>5. ASSUME NEW j \in Sends, j # i, Begun(j)', snd'[j].p = snd[i].p
        PROVE  FALSE
    <3>1. ~Begun(j)
      BY <1>t, <2>3, <2>5, IdentityStays
    <3>2. ASSUME NEW q \in Payloads, NEW prop \in BOOLEAN, UserSend(j, q, prop)
          PROVE  FALSE
      BY <1>t, <2>1, <2>5, <3>2, UserSendEffect
    <3>3. ASSUME NEW h \in Hashes, AutoClaim(h, j)
          PROVE  FALSE
      BY <1>t, <2>3, <2>5, <3>3, AutoClaimEffect DEF Here
    <3> QED
      BY <1>t, <2>5, <3>1, <3>2, <3>3, Beginner
  <2> QED
    BY <2>1, <2>4, <2>5
<1> QED
  BY <1>1, <1>2

LEMMA OwnOldStep ==
  ASSUME "resend" \notin UserActs, Kept, [Next]_vars, NEW i \in Sends
  PROVE  OwnOld(i)'
<1>t. TypeOK /\ Shape /\ OwnOld(i)
  BY DEF Kept, Keeping
<1>1. CASE Begun(i)
  BY <1>t, <1>1, IdentityStays DEF OwnOld, PayloadOf
<1>2. CASE ~Begun(i) /\ Begun(i)'
  BY <1>t, <1>2, Beginner, UserSendEffect, AutoClaimEffect DEF OwnOld, PayloadOf
<1>3. CASE ~Begun(i) /\ ~Begun(i)'
  <2>1. FateOf(i)
    BY <1>t, Fate
  <2>2. snd'[i].p = snd[i].p /\ snd'[i].by = snd[i].by /\ snd'[i].old = snd[i].old
    BY <1>t, <1>3, <2>1, SendEffect, RouterEffect, CbStartEffect, PollCheckEffect, WriterEffect,
       RestartEffect DEF FateOf, Same, Cancelled, Starts, Begun
  <2> QED
    BY <1>t, <2>2 DEF OwnOld, PayloadOf
<1> QED
  BY <1>1, <1>2, <1>3

\* A send in "notify" has its hash, and keeps it.
LEMMA NotifyHash ==
  ASSUME TypeOK, Shape, Tended, [Next]_vars, NEW i \in Sends, snd[i].pc = "notify"
  PROVE  /\ obj[i].hash \in Hashes /\ PayloadOf(obj[i].hash) = snd[i].p
         /\ obj'[i].hash = obj[i].hash
<1>1. obj[i].st \in RowStates /\ "free" \notin RowStates
  BY DEF Shape, ShapeOf, RowStates, InFlight, Terminal
<1> QED
  BY <1>1, HashStays DEF Tended, TendedOf, OwnHash

LEMMA ReplacedStep ==
  ASSUME "resend" \notin UserActs, MaxCrashes = 0, Kept, [Next]_vars, NEW i \in Sends
  PROVE  Replaced(i)'
<1>t. TypeOK /\ Shape /\ Blank /\ Tended /\ ~Restart /\ Replaced(i) /\ OneAuto
      /\ \A j \in Sends : First(j) /\ OwnOld(j)
  BY NoRestart DEF Kept, Keeping
<1> SUFFICES ASSUME snd'[i].by = "auto", snd'[i].pc = "notify", snd'[i].p \in saved'
             PROVE  row'[obj'[i].hash].st # "none"
  BY DEF Replaced, Here
<1>b. Begun(i) /\ snd[i].by = "auto" /\ snd'[i].p = snd[i].p
  <2>1. Begun(i)'
    BY DEF Begun
  <2>2. Begun(i)
    BY <1>t, <2>1, Beginner, UserSendEffect, AutoClaimEffect
  <2> QED
    BY <1>t, <2>2, IdentityStays
<1>e. SendStep(i) => SendEffectOf(i)
  BY <1>t, SendEffect
<1>1. CASE snd[i].pc = "notify"
  <2>1. /\ obj[i].hash \in Hashes /\ PayloadOf(obj[i].hash) = snd[i].p
        /\ obj'[i].hash = obj[i].hash
    BY <1>1, <1>t, NotifyHash
  <2>2. snd[i].p \in saved
    <3>1. SUFFICES ASSUME snd[i].p \notin saved PROVE FALSE
      OBVIOUS
    <3>2. PICK j \in Sends : /\ SendPathless(j) \/ SendLocal(j) \/ SendUpsert(j)
                             /\ snd[j].by = "user" /\ snd[j].p = snd[i].p
      BY <1>t, <1>b, <3>1, SavedGrows
    <3>3. snd[j].pc \in {"path", "upsert"}
      BY <3>2 DEF SendPathless, SendLocal, SendUpsert
    <3>4. i = j
      BY <1>t, <1>b, <3>2, <3>3 DEF First
    <3> QED
      BY <1>b, <3>2, <3>4
  <2>3. Here(obj[i].hash)
    BY <1>t, <1>1, <1>b, <2>2 DEF Replaced
  <2>4. ASSUME NEW j \in Sends, SendReturn(j), snd[j].by # "user"
        PROVE  FALSE
    <3>1. snd[j].by = "auto"
      BY <1>t, <2>4 DEF OwnOld
    <3>2. AutoActive(j) /\ AutoActive(i)
      BY <1>1, <1>b, <2>4, <3>1 DEF AutoActive, SendReturn
    <3>3. i = j
      BY <1>t, <3>2 DEF OneAuto
    <3>4. snd'[i].pc = AfterDrop(i)
      BY <1>t, <2>4, <3>3 DEF SendReturn, TypeOK, SndType
    <3> QED
      BY <3>4 DEF AfterDrop
  <2>5. Here(obj[i].hash)'
    BY <1>t, <1>b, <2>1, <2>3, <2>4, RowDropped DEF Here
  <2> QED
    BY <2>1, <2>5 DEF Here
<1>2. CASE snd[i].pc # "notify"
  <2>1. SendLocal(i) \/ SendUpsert(i)
    <3>1. CASE SendStep(i)
      BY <1>e, <1>2, <3>1 DEF SendEffectOf
    <3>2. CASE ~SendStep(i)
      <4>1. ~Starts(i)
        BY <1>b DEF Starts, Begun
      <4>2. FateOf(i)
        BY <1>t, Fate
      <4>3. snd'[i].pc = snd[i].pc
        BY <1>t, <3>2, <4>1, <4>2, RouterEffect, CbStartEffect, PollCheckEffect, WriterEffect
           DEF FateOf, Same, Cancelled
      <4> QED
        BY <1>2, <4>3
    <3> QED
      BY <3>1, <3>2
  <2>2. ~SendPathless(i)
    <3>1. SUFFICES ASSUME SendPathless(i) PROVE FALSE
      OBVIOUS
    <3>2. snd \in [Sends -> SndType]
      BY <1>t DEF TypeOK
    <3>3. snd'[i].pc = "raise"
      BY <3>1, <3>2 DEF SendPathless, SndType
    <3> QED
      BY <3>3
  <2> QED
    BY <1>t, <2>1, <2>2, StoreEffect DEF StoresRow
<1> QED
  BY <1>1, <1>2

LEMMA PayloadStep ==
  ASSUME "resend" \notin UserActs, MaxCrashes = 0, Kept, [Next]_vars
  PROVE  PayloadKept'
<1>t. TypeOK /\ Shape /\ Blank /\ Tended /\ ~Restart /\ OneAuto /\ PayloadKept
      /\ \A j \in Sends : First(j) /\ OwnOld(j) /\ Replaced(j)
  BY NoRestart DEF Kept, Keeping
<1>n. \A h \in Hashes : (row'[h].st # "none" => row'[h] # NoRow)
                        /\ (row[h] # NoRow => row[h].st # "none")
  BY <1>t DEF Blank, NoRow
<1> DEFINE Stays(p) ==
      \/ \E h \in Hashes : PayloadOf(h) = p /\ row'[h] # NoRow
      \/ \E i \in Sends : snd'[i].p = p /\ snd'[i].pc \in {"reconvert", "reupsert"}
<1> SUFFICES ASSUME NEW p \in saved'
             PROVE  Stays(p)
  BY DEF PayloadKept, PayloadOf
<1>1. ASSUME NEW i \in Sends, StoresRow(i), snd[i].p = p
      PROVE  Stays(p)
  BY <1>t, <1>n, <1>1, StoreEffect
<1>2. CASE p \notin saved
  BY <1>t, <1>1, <1>2, SavedGrows DEF StoresRow
<1>3. ASSUME p \in saved, NEW h \in Hashes, PayloadOf(h) = p, row[h] # NoRow
      PROVE  Stays(p)
  <2>1. CASE Here(h)'
    BY <1>3, <1>n, <2>1 DEF Here
  <2>2. CASE ~Here(h)'
    <3>1. PICK i \in Sends : /\ SendReturn(i) /\ snd[i].by # "user" /\ snd[i].old = h
                             /\ \A g \in Hashes : g # h => row'[g] = row[g]
      BY <1>t, <1>n, <1>3, <2>2, RowDropped DEF Here
    <3>2. snd[i].by = "auto" /\ snd[i].p = p
      BY <1>t, <1>3, <3>1 DEF OwnOld
    <3>3. snd[i].pc = "notify" /\ snd'[i].pc = AfterDrop(i) /\ snd'[i].p = p
      BY <1>t, <3>1, <3>2 DEF SendReturn, TypeOK, SndType
    <3>4. Here(obj[i].hash)
      BY <1>t, <1>3, <3>2, <3>3 DEF Replaced
    <3>5. obj[i].hash \in Hashes /\ PayloadOf(obj[i].hash) = p
      BY <1>t, <3>2, <3>3, NotifyHash
    <3>6. CASE obj[i].hash = h
      BY <3>1, <3>3, <3>6 DEF AfterDrop
    <3>7. CASE obj[i].hash # h
      BY <1>n, <3>1, <3>4, <3>5, <3>7 DEF Here
    <3> QED
      BY <3>6, <3>7
  <2> QED
    BY <2>1, <2>2
<1>4. ASSUME NEW i \in Sends, snd[i].p = p, snd[i].pc \in {"reconvert", "reupsert"}
      PROVE  Stays(p)
  <2>1. snd'[i].p = p
    BY <1>t, <1>4, IdentityStays DEF Begun
  <2>2. CASE SendReopen(i)
    BY <1>1, <1>4, <2>2 DEF StoresRow
  <2>3. CASE ~SendReopen(i)
    <3>1. snd'[i].pc \in {"reconvert", "reupsert"}
      <4>1. SendStep(i) => SendEffectOf(i)
        BY <1>t, SendEffect
      <4>2. ~Starts(i)
        BY <1>4 DEF Starts
      <4>3. FateOf(i)
        BY <1>t, Fate
      <4> QED
        BY <1>t, <1>4, <2>3, <4>1, <4>2, <4>3, RouterEffect, CbStartEffect, PollCheckEffect,
           WriterEffect DEF FateOf, SendEffectOf, Same, Cancelled
    <3> QED
      BY <2>1, <3>1
  <2> QED
    BY <2>2, <2>3
<1> QED
  BY <1>t, <1>2, <1>3, <1>4 DEF PayloadKept

LEMMA KeepingInit == Init => Keeping
<1> SUFFICES ASSUME Init PROVE Keeping
  OBVIOUS
<1>1. \A i \in Sends : snd[i].pc = "new" /\ snd[i].by = "user"
  BY DEF Init, NewSnd
<1>2. \A h \in Hashes : Here(h) => PayloadOf(h) \in Stored
  BY DEF Init, Here, NoRow
<1>3. PayloadKept
  <2>1. PICK v \in Variants : row = [h \in Hashes |-> IF PayloadOf(h) \in Stored /\ h[2] = v
                                               THEN [NoRow EXCEPT !.st = "failed"]
                                               ELSE NoRow]
    BY DEF Init
  <2>2. ASSUME NEW p \in saved
        PROVE  \E h \in Hashes : PayloadOf(h) = p /\ row[h] # NoRow
    <3>1. p \in Stored /\ p \in Payloads
      BY <2>2, OutboxAssumption DEF Init
    <3>2. <<p, v>> \in Hashes /\ PayloadOf(<<p, v>>) = p
      BY <3>1 DEF Hashes, PayloadOf
    <3>3. row[<<p, v>>] = [NoRow EXCEPT !.st = "failed"]
      BY <2>1, <3>1, <3>2
    <3>4. [NoRow EXCEPT !.st = "failed"].st = "failed" /\ NoRow.st = "none"
      BY DEF NoRow
    <3> QED
      BY <3>2, <3>3, <3>4
  <2> QED
    BY <2>2 DEF PayloadKept
<1> QED
  BY <1>1, <1>2, <1>3 DEF Keeping, UsedIsWanted, Used, Wanted, Begun, OneAuto, AutoActive,
     First, OwnOld, Replaced

\* Without re-sends by hand and without a crash in the middle of one, a message the
\* user wrote and did not delete keeps a row through every automatic re-send, with
\* database calls interleaved at will: the old row is dropped after the new one is
\* stored, or stored again in the same turn of the loop when the hash is the same.
THEOREM PayloadIsKept ==
  ASSUME "resend" \notin UserActs, MaxCrashes = 0
  PROVE  Spec => []PayloadKept
<1>1. IInv /\ Blank /\ Tended /\ Keeping /\ [Next]_vars => (Blank /\ Tended /\ Keeping)'
  <2> SUFFICES ASSUME IInv, Blank, Tended, Keeping, [Next]_vars
               PROVE  (Blank /\ Tended /\ Keeping)'
    OBVIOUS
  <2>1. Kept
    BY DEF Kept, IInv
  <2>2. Blank' /\ Tended'
    BY BlankStep, TendedStep DEF IInv
  <2>3. Keeping'
    BY <2>1, UsedStep, OneAutoStep, PayloadStep, FirstStep, OwnOldStep, ReplacedStep DEF Keeping
  <2> QED
    BY <2>2, <2>3
<1>2. Keeping => PayloadKept
  BY DEF Keeping
<1> QED
  BY Inductive, BlankInit, TendedInit, KeepingInit, <1>1, <1>2, PTL DEF Spec
=============================================================================
