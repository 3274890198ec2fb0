------------------------- MODULE AsyncDispatch_proofs -------------------------
(***************************************************************************)
(* A coroutine handed to run_async is in one place, and the futures nobody *)
(* removes stay below the sweep threshold, whatever the number of calls,   *)
(* the cap and the threshold, and however loops come, install themselves   *)
(* and stop.                                                               *)
(*                                                                         *)
(* InOnePlace speaks of one long list, the concatenation of five.  The     *)
(* proof speaks of their ranges: each list names a coroutine at most once  *)
(* (Once), no two lists name the same (Apart), and together with what was  *)
(* started, closed and refused they are the coroutines handed over, each   *)
(* in one of them (Partition).                                             *)
(***************************************************************************)
EXTENDS AsyncDispatch, SequenceTheorems, FiniteSetTheorems, TLAPS

--------------------------------------------------------------------------------
(* Lists that name each of their members once *)

\* A newcomer may be put at the end.
LEMMA AppendOnce ==
  ASSUME NEW S, NEW s \in Seq(S), IsInjective(s), NEW c \in S, c \notin Range(s)
  PROVE  /\ Append(s, c) \in Seq(S) /\ Len(Append(s, c)) = Len(s) + 1
         /\ IsInjective(Append(s, c))
         /\ Range(Append(s, c)) = Range(s) \cup {c}
<1> DEFINE t == Append(s, c)
<1>1. /\ t \in Seq(S) /\ Len(s) \in Nat /\ Len(t) = Len(s) + 1
      /\ DOMAIN s = 1..Len(s) /\ DOMAIN t = 1..(Len(s) + 1)
      /\ \A i \in 1..Len(s) : t[i] = s[i]
      /\ t[Len(s) + 1] = c
  BY AppendProperties, LenProperties
<1>2. \A i \in DOMAIN t : i \in DOMAIN s \/ i = Len(s) + 1
  BY <1>1
<1>3. \A i \in DOMAIN s : i \in DOMAIN t /\ t[i] = s[i] /\ s[i] # c
  BY <1>1 DEF Range
<1> HIDE DEF t
<1>4. IsInjective(t)
  BY <1>1, <1>2, <1>3 DEF IsInjective
<1>5. Range(t) = Range(s) \cup {c}
  BY <1>1, <1>2, <1>3 DEF Range
<1> QED BY <1>1, <1>4, <1>5 DEF t

LEMMA SuffixRange ==
  ASSUME NEW S, NEW s \in Seq(S), NEW m \in 1..(Len(s) + 1)
  PROVE  Range(SubSeq(s, m, Len(s))) \subseteq Range(s)
<1> DEFINE t == SubSeq(s, m, Len(s))
<1>1. /\ Len(s) \in Nat /\ m \in Int /\ Len(s) \in Int /\ DOMAIN s = 1..Len(s)
      /\ \A i \in m..Len(s) : s[i] \in S
  BY LenProperties, ElementOfSeq
<1>2. /\ t \in Seq(S) /\ Len(t) = IF m <= Len(s) THEN Len(s) - m + 1 ELSE 0
      /\ \A i \in 1..(Len(s) - m + 1) : t[i] = s[m + i - 1]
  BY <1>1, SubSeqProperties
<1>3. DOMAIN t = 1..(Len(s) - m + 1)
  BY <1>1, <1>2, LenProperties
<1> HIDE DEF t
<1>4. \A i \in DOMAIN t : m + i - 1 \in DOMAIN s /\ t[i] = s[m + i - 1]
  BY <1>1, <1>2, <1>3
<1> QED BY <1>4 DEF Range, t

LEMMA TailRange ==
  ASSUME NEW S, NEW s \in Seq(S), s # <<>>
  PROVE  Head(s) \in Range(s) /\ Range(Tail(s)) \subseteq Range(s)
<1>1. /\ Tail(s) \in Seq(S) /\ Len(Tail(s)) = Len(s) - 1
      /\ \A i \in 1..Len(Tail(s)) : Tail(s)[i] = s[i + 1]
  BY HeadTailProperties
<1>2. /\ Len(s) \in Nat \ {0} /\ DOMAIN s = 1..Len(s) /\ DOMAIN Tail(s) = 1..(Len(s) - 1)
      /\ Head(s) = s[1]
  BY <1>1, LenProperties, EmptySeq
<1>3. \A i \in DOMAIN Tail(s) : i + 1 \in DOMAIN s /\ Tail(s)[i] = s[i + 1]
  BY <1>1, <1>2
<1>4. 1 \in DOMAIN s
  BY <1>2
<1> QED BY <1>2, <1>3, <1>4 DEF Range

\* A suffix of the list, from the m-th member on.
LEMMA SuffixOnce ==
  ASSUME NEW S, NEW s \in Seq(S), IsInjective(s), NEW m \in 1..(Len(s) + 1)
  PROVE  LET t == SubSeq(s, m, Len(s)) IN
         /\ t \in Seq(S) /\ Len(t) = Len(s) - m + 1
         /\ IsInjective(t) /\ Range(t) \subseteq Range(s)
<1> DEFINE t == SubSeq(s, m, Len(s))
<1>1. Len(s) \in Nat /\ DOMAIN s = 1..Len(s) /\ \A i \in m..Len(s) : s[i] \in S
  BY LenProperties, ElementOfSeq
<1>2. /\ t \in Seq(S) /\ Len(t) = Len(s) - m + 1
      /\ \A i \in 1..(Len(s) - m + 1) : t[i] = s[m + i - 1]
  <2>1. m \in Int /\ Len(s) \in Int
    BY <1>1
  <2>2. /\ t \in Seq(S)
        /\ Len(t) = IF m <= Len(s) THEN Len(s) - m + 1 ELSE 0
        /\ \A i \in 1..(Len(s) - m + 1) : t[i] = s[m + i - 1]
    BY <1>1, <2>1, SubSeqProperties
  <2> QED BY <1>1, <2>2
<1>3. DOMAIN t = 1..(Len(s) - m + 1)
  BY <1>2, LenProperties
<1> HIDE DEF t
<1>4. \A i \in DOMAIN t : m + i - 1 \in DOMAIN s /\ t[i] = s[m + i - 1]
  BY <1>1, <1>2, <1>3
<1>5. IsInjective(t)
  <2> SUFFICES ASSUME NEW a \in DOMAIN t, NEW b \in DOMAIN t, t[a] = t[b] PROVE a = b
    BY DEF IsInjective
  <2>1. m + a - 1 = m + b - 1
    BY <1>4 DEF IsInjective
  <2> QED BY <1>1, <1>3, <2>1
<1>6. Range(t) \subseteq Range(s)
  BY <1>4 DEF Range
<1> QED BY <1>2, <1>5, <1>6 DEF t

\* What is left when the first one is taken.
LEMMA TailOnce ==
  ASSUME NEW S, NEW s \in Seq(S), IsInjective(s), s # <<>>
  PROVE  /\ Head(s) \in S /\ Head(s) \in Range(s)
         /\ Tail(s) \in Seq(S) /\ IsInjective(Tail(s))
         /\ Range(Tail(s)) = Range(s) \ {Head(s)}
<1>1. /\ Head(s) \in S /\ Tail(s) \in Seq(S) /\ Len(Tail(s)) = Len(s) - 1
      /\ \A i \in 1..Len(Tail(s)) : Tail(s)[i] = s[i + 1]
  BY HeadTailProperties
<1>2. /\ Len(s) \in Nat \ {0} /\ DOMAIN s = 1..Len(s) /\ DOMAIN Tail(s) = 1..(Len(s) - 1)
      /\ Head(s) = s[1]
  BY <1>1, LenProperties, EmptySeq
<1>3. \A i \in DOMAIN Tail(s) : i + 1 \in DOMAIN s /\ Tail(s)[i] = s[i + 1] /\ i + 1 # 1
  BY <1>1, <1>2
<1>4. 1 \in DOMAIN s
  BY <1>2
<1>5. IsInjective(Tail(s))
  <2> SUFFICES ASSUME NEW a \in DOMAIN Tail(s), NEW b \in DOMAIN Tail(s), Tail(s)[a] = Tail(s)[b]
               PROVE  a = b
    BY DEF IsInjective
  <2>1. a + 1 = b + 1
    BY <1>3 DEF IsInjective
  <2> QED BY <1>2, <2>1
<1>6. Range(Tail(s)) \subseteq Range(s) \ {s[1]}
  <2> SUFFICES ASSUME NEW i \in DOMAIN Tail(s) PROVE Tail(s)[i] \in Range(s) \ {s[1]}
    BY DEF Range
  <2> QED BY <1>3, <1>4 DEF Range, IsInjective
<1>7. Range(s) \ {s[1]} \subseteq Range(Tail(s))
  <2> SUFFICES ASSUME NEW i \in DOMAIN s, s[i] # s[1] PROVE s[i] \in Range(Tail(s))
    BY DEF Range
  <2>1. i - 1 \in DOMAIN Tail(s) /\ (i - 1) + 1 = i
    BY <1>2
  <2> QED BY <1>3, <2>1 DEF Range
<1> QED BY <1>1, <1>2, <1>4, <1>5, <1>6, <1>7 DEF Range

\* Two lists in a row.
LEMMA ConcatOnce ==
  ASSUME NEW S, NEW s \in Seq(S), NEW t \in Seq(S),
         IsInjective(s), IsInjective(t), Range(s) \cap Range(t) = {}
  PROVE  s \o t \in Seq(S) /\ IsInjective(s \o t) /\ Range(s \o t) = Range(s) \cup Range(t)
<1> DEFINE u == s \o t
<1>1. /\ u \in Seq(S) /\ Len(u) = Len(s) + Len(t)
      /\ \A i \in 1..(Len(s) + Len(t)) : u[i] = IF i <= Len(s) THEN s[i] ELSE t[i - Len(s)]
  BY ConcatProperties
<1>2. /\ Len(s) \in Nat /\ Len(t) \in Nat /\ DOMAIN s = 1..Len(s) /\ DOMAIN t = 1..Len(t)
      /\ DOMAIN u = 1..(Len(s) + Len(t))
  BY <1>1, LenProperties
<1> HIDE DEF u
<1>3. \A i \in DOMAIN u : \/ i \in DOMAIN s /\ u[i] = s[i]
                          \/ i > Len(s) /\ i - Len(s) \in DOMAIN t /\ u[i] = t[i - Len(s)]
  BY <1>1, <1>2
<1>4. \A i \in DOMAIN u : /\ i \in DOMAIN s => u[i] \in Range(s)
                          /\ i \notin DOMAIN s => u[i] \in Range(t)
  BY <1>2, <1>3 DEF Range
<1>5. IsInjective(u)
  <2> SUFFICES ASSUME NEW a \in DOMAIN u, NEW b \in DOMAIN u, u[a] = u[b] PROVE a = b
    BY DEF IsInjective
  <2>1. CASE a \in DOMAIN s /\ b \in DOMAIN s
    BY <1>1, <1>2, <2>1 DEF IsInjective
  <2>2. CASE a \notin DOMAIN s /\ b \notin DOMAIN s
    <3>1. /\ a - Len(s) \in DOMAIN t /\ b - Len(s) \in DOMAIN t
          /\ t[a - Len(s)] = t[b - Len(s)]
      BY <1>3, <2>2
    <3>2. a - Len(s) = b - Len(s)
      BY <3>1 DEF IsInjective
    <3> QED BY <1>2, <3>2
  <2>3. CASE (a \in DOMAIN s) # (b \in DOMAIN s)
    BY <1>4, <2>3
  <2> QED BY <2>1, <2>2, <2>3
<1>6. Range(u) = Range(s) \cup Range(t)
  BY <1>1, RangeConcatenation DEF u
<1> QED BY <1>1, <1>5, <1>6 DEF u

--------------------------------------------------------------------------------
(* Types *)

\* Each loop's installer has a coroutine in hand only between its steps, and the
\* list it took over is empty before and after.
Hands ==
  \A l \in Loops :
    /\ instPc[l] \in {"off", "schedule", "done"} => hand[l] = NoCoro
    /\ instPc[l] \in {"track", "callback"} => hand[l] \in Coros
    /\ instPc[l] \in {"off", "done"} => todo[l] = <<>>

\* A call that is about to schedule has found a loop.
Found == \A c \in Coros : call[c] = "schedule" => local[c] \in Loops

Typed == TypeOK /\ Hands /\ Found

LEMMA TypedStart == Init => Typed
  BY DispatchAssumption, EmptySeq
     DEF Init, Typed, TypeOK, Hands, Found, Loops, NoLoop, NoCoro

\* The cap keeps a suffix: everything, or the last CoroutinesMax.
LEMMA KeptNewestIsSuffix ==
  ASSUME NEW s \in Seq(Coros)
  PROVE  /\ \E m \in 1..(Len(s) + 1) : KeptNewest(s) = SubSeq(s, m, Len(s))
         /\ KeptNewest(s) \in Seq(Coros) /\ Len(KeptNewest(s)) <= CoroutinesMax
<1>1. CoroutinesMax \in Nat \ {0} /\ Len(s) \in Nat
  BY DispatchAssumption, LenProperties
<1>2. CASE Len(s) > CoroutinesMax
  <2> DEFINE m == Len(s) - CoroutinesMax + 1
  <2>1. /\ m \in 1..(Len(s) + 1) /\ m \in Int /\ Len(s) \in Int /\ m <= Len(s)
        /\ Len(s) - m + 1 = CoroutinesMax
        /\ KeptNewest(s) = SubSeq(s, m, Len(s))
    BY <1>1, <1>2 DEF KeptNewest
  <2>2. \A i \in m..Len(s) : s[i] \in Coros
    BY <1>1, <2>1, ElementOfSeq
  <2> HIDE DEF m
  <2>3. SubSeq(s, m, Len(s)) \in Seq(Coros) /\ Len(SubSeq(s, m, Len(s))) = Len(s) - m + 1
    BY <2>1, <2>2, SubSeqProperties
  <2> QED BY <1>1, <2>1, <2>3
<1>3. CASE Len(s) <= CoroutinesMax
  <2>1. KeptNewest(s) = s /\ SubSeq(s, 1, Len(s)) = s
    BY <1>1, <1>3, SubSeqFull DEF KeptNewest
  <2>2. 1 \in 1..(Len(s) + 1)
    BY <1>1
  <2> QED BY <1>3, <2>1, <2>2
<1> QED BY <1>1, <1>2, <1>3

LEMMA KeptRange ==
  ASSUME NEW s \in Seq(Coros), NEW c \in Coros
  PROVE  Range(KeptNewest(Append(s, c))) \subseteq Range(s) \cup {c}
<1> DEFINE t == Append(s, c)
<1>1. /\ t \in Seq(Coros) /\ Len(t) \in Nat /\ DOMAIN t = 1..Len(t)
      /\ Range(t) \subseteq Range(s) \cup {c}
  <2>1. /\ t \in Seq(Coros) /\ Len(t) = Len(s) + 1 /\ Len(s) \in Nat /\ DOMAIN s = 1..Len(s)
        /\ \A i \in 1..Len(s) : t[i] = s[i]
        /\ t[Len(s) + 1] = c
    BY AppendProperties, LenProperties
  <2>2. DOMAIN t = 1..(Len(s) + 1) /\ Len(t) \in Nat
    BY <2>1, LenProperties
  <2>3. \A i \in DOMAIN t : i \in DOMAIN s \/ i = Len(s) + 1
    BY <2>1, <2>2
  <2> HIDE DEF t
  <2> QED BY <2>1, <2>2, <2>3 DEF Range
<1> HIDE DEF t
<1>2. PICK m \in 1..(Len(t) + 1) : KeptNewest(t) = SubSeq(t, m, Len(t))
  BY <1>1, KeptNewestIsSuffix
<1>3. Range(SubSeq(t, m, Len(t))) \subseteq Range(t)
  BY <1>1, SuffixRange
<1> QED BY <1>1, <1>2, <1>3 DEF t

LEMMA TypedStep == Typed /\ [Next]_vars => Typed'
<1> SUFFICES ASSUME Typed, [Next]_vars PROVE Typed'
  OBVIOUS
<1> USE DEF Typed, TypeOK, Hands, Found, run, future, inst
<1>1. ASSUME NEW l \in Loops, Install(l) PROVE Typed'
  <2>1. /\ UNCHANGED <<running, hand, call, local, run, future>>
        /\ instPc' = [instPc EXCEPT ![l] = "schedule"] /\ instPc[l] = "off"
        /\ todo' = [todo EXCEPT ![l] = pending] /\ mainLoop' = l /\ pending' = <<>>
    BY <1>1 DEF Install, GoesOn, LeftBuffer
  <2>2. <<>> \in Seq(Coros) /\ Len(<<>>) <= CoroutinesMax
    BY EmptySeq, DispatchAssumption
  <2> QED BY <2>1, <2>2
<1>2. ASSUME NEW l \in Loops, DrainSchedule(l) PROVE Typed'
  <2>1. Head(todo[l]) \in Coros /\ Tail(todo[l]) \in Seq(Coros)
    BY <1>2, HeadTailProperties DEF DrainSchedule
  <2>2. Append(queue[l], Head(todo[l])) \in Seq(Coros)
    BY <2>1, AppendProperties
  <2> QED BY <1>2, <2>1, <2>2 DEF DrainSchedule, GoesOn
<1>3. ASSUME NEW l \in Loops, DrainTrack(l) PROVE Typed'
  BY <1>3 DEF DrainTrack, GoesOn
<1>4. ASSUME NEW l \in Loops, DrainCallback(l) PROVE Typed'
  BY <1>4 DEF DrainCallback, GoesOn, Register
<1>5. ASSUME NEW l \in Loops, InstallEnd(l) PROVE Typed'
  <2>1. hand[l] = NoCoro
    BY <1>5 DEF InstallEnd, GoesOn
  <2> QED BY <1>5, <2>1 DEF InstallEnd, GoesOn
<1>6. ASSUME NEW c \in Coros, ReadLoop(c) PROVE Typed'
  BY <1>6 DEF ReadLoop, Moved
<1>7. ASSUME NEW c \in Coros, CheckRunning(c) PROVE Typed'
  <2> DEFINE next == IF local[c] # NoLoop /\ running[local[c]] = "yes" THEN "schedule" ELSE "buffer"
  <2>1. /\ next \in {"schedule", "buffer"}
        /\ next = "schedule" => local[c] \in Loops
    OBVIOUS
  <2>2. call' = [call EXCEPT ![c] = next] /\ UNCHANGED <<mainLoop, running, inst, pending, local, run, future>>
    BY <1>7 DEF CheckRunning, Moved
  <2> HIDE DEF next
  <2>3. call' \in [Coros -> {"new", "check", "schedule", "register", "track", "buffer", "returned"}]
    BY <2>1, <2>2
  <2>4. Found'
    BY <2>1, <2>2
  <2>5. UNCHANGED <<mainLoop, running, inst, pending, local, run, future>>
    BY <2>2
  <2> HIDE DEF Found
  <2> QED BY <2>3, <2>4, <2>5
<1>8. ASSUME NEW c \in Coros, Schedule(c) PROVE Typed'
  <2>1. local[c] \in Loops
    BY <1>8 DEF Schedule, Moved
  <2>2. Append(queue[local[c]], c) \in Seq(Coros)
    BY <2>1, AppendProperties
  <2>3. queue' \in [Loops -> Seq(Coros)]
    BY <1>8, <2>1, <2>2 DEF Schedule
  <2>m. \E to \in {"register", "returned"} : call' = [call EXCEPT ![c] = to]
    BY <1>8 DEF Schedule, Moved
  <2>4. /\ call' \in [Coros -> {"new", "check", "schedule", "register", "track", "buffer", "returned"}]
        /\ \A d \in Coros : call'[d] = "schedule" => call[d] = "schedule"
    BY <2>m
  <2>5. refused' \subseteq Coros
    BY <1>8 DEF Schedule
  <2>6. UNCHANGED <<mainLoop, running, inst, pending, local, started, done, closed, future>>
    BY <1>8 DEF Schedule
  <2>7. Found'
    BY <2>4, <2>6
  <2> HIDE DEF Found
  <2> QED BY <2>3, <2>4, <2>5, <2>6, <2>7
<1>9. ASSUME NEW c \in Coros, AddCallback(c) PROVE Typed'
  BY <1>9 DEF AddCallback, Register, Moved
<1>10. ASSUME NEW c \in Coros, Track(c) PROVE Typed'
  BY <1>10 DEF Track, Swept, Moved
<1>11. ASSUME NEW c \in Coros, Buffer(c) PROVE Typed'
  <2>1. Append(pending, c) \in Seq(Coros)
    BY AppendProperties
  <2>2. pending' \in Seq(Coros) /\ Len(pending') <= CoroutinesMax
    BY <1>11, <2>1, KeptNewestIsSuffix DEF Buffer
  <2>3. closed' \subseteq Coros
    BY <1>11, <2>1, RangeOfSeq DEF Buffer
  <2> QED BY <1>11, <2>2, <2>3 DEF Buffer, Moved
<1>12. CASE BgRun \/ WebRun \/ WebStop
  BY <1>12 DEF BgRun, WebRun, WebStop
<1>13. ASSUME NEW l \in Loops, Begin(l) PROVE Typed'
  <2>1. Head(queue[l]) \in Coros /\ Tail(queue[l]) \in Seq(Coros)
    BY <1>13, HeadTailProperties DEF Begin
  <2> QED BY <1>13, <2>1 DEF Begin
<1>14. ASSUME NEW c \in Coros, Finish(c) \/ Forget(c) PROVE Typed'
  BY <1>14 DEF Finish, Forget
<1>15. CASE UNCHANGED vars
  BY <1>15 DEF vars
<1> QED
  BY <1>1, <1>2, <1>3, <1>4, <1>5, <1>6, <1>7, <1>8, <1>9, <1>10, <1>11, <1>12, <1>13, <1>14,
     <1>15
     DEF Next, Installer, CallStep

\* TypeOK, for any number of calls and any cap: the buffer never holds more than
\* _COROUTINES_MAX coroutines, across every swap of it by a loop that installs
\* itself (set_main_loop) and every run_async that finds no running loop.
THEOREM Types == Spec => []TypeOK
<1>1. Typed => TypeOK
  BY DEF Typed
<1> QED BY <1>1, TypedStart, TypedStep, PTL DEF Spec

--------------------------------------------------------------------------------
(* One place *)

\* Each list names a coroutine once.
Once ==
  /\ IsInjective(pending)
  /\ \A l \in Loops : IsInjective(todo[l]) /\ IsInjective(queue[l])

\* No two lists name the same coroutine.
Apart ==
  /\ \A l, k \in Loops : Range(todo[l]) \cap Range(queue[k]) = {}
  /\ \A l, k \in Loops : l # k => /\ Range(todo[l]) \cap Range(todo[k]) = {}
                                  /\ Range(queue[l]) \cap Range(queue[k]) = {}
  /\ \A l \in Loops : Range(pending) \cap (Range(todo[l]) \cup Range(queue[l])) = {}

Listed == {c \in Coros : \/ c \in Range(pending)
                          \/ \E l \in Loops : c \in Range(todo[l]) \cup Range(queue[l])}
Gone    == started \cup closed \cup refused

HandedOver == {c \in Coros : call[c] \in {"register", "track", "returned"}}

Partition ==
  /\ Listed \cap Gone = {}
  /\ started \cap closed = {} /\ started \cap refused = {} /\ closed \cap refused = {}
  /\ Listed \cup Gone = HandedOver

OnePlaceInv == Typed /\ Once /\ Apart /\ Partition

LEMMA OnePlaceStart == Init => OnePlaceInv
<1> SUFFICES ASSUME Init PROVE Once /\ Apart /\ Partition
  BY TypedStart DEF OnePlaceInv
<1>1. IsInjective(<<>>) /\ Range(<<>>) = {}
  BY DEF IsInjective, Range
<1> QED BY <1>1 DEF Init, Once, Apart, Partition, Listed, Gone, HandedOver

LEMMA OnePlaceStep == OnePlaceInv /\ [Next]_vars => OnePlaceInv'
<1> SUFFICES ASSUME OnePlaceInv, [Next]_vars PROVE Once' /\ Apart' /\ Partition'
  BY TypedStep DEF OnePlaceInv
<1>0. /\ todo \in [Loops -> Seq(Coros)] /\ queue \in [Loops -> Seq(Coros)]
      /\ pending \in Seq(Coros) /\ call = [c \in Coros |-> call[c]]
      /\ \A l \in Loops : instPc[l] = "off" => todo[l] = <<>>
      /\ Once /\ Apart /\ Partition
  BY DEF OnePlaceInv, Typed, TypeOK, Hands
<1>e. <<>> \in Seq(Coros) /\ IsInjective(<<>>) /\ Range(<<>>) = {}
  BY EmptySeq DEF IsInjective, Range
<1>r. \A s \in Seq(Coros) : Range(s) \subseteq Coros
  BY RangeOfSeq DEF Range
<1> USE DEF run, future, inst
<1>1. ASSUME NEW l \in Loops, Install(l) PROVE Once' /\ Apart' /\ Partition'
  <2>1. /\ UNCHANGED <<call, queue, started, closed, refused>>
        /\ todo[l] = <<>> /\ todo' = [todo EXCEPT ![l] = pending] /\ pending' = <<>>
    BY <1>0, <1>1 DEF Install, GoesOn, LeftBuffer
  <2>2. Once'
    BY <1>0, <1>e, <2>1 DEF Once
  <2>3. Apart'
    BY <1>0, <1>e, <2>1 DEF Apart
  <2>4. Listed' = Listed
    BY <1>0, <1>e, <2>1 DEF Listed
  <2> QED BY <1>0, <2>1, <2>2, <2>3, <2>4 DEF Partition, Gone, HandedOver
<1>2. ASSUME NEW l \in Loops, DrainSchedule(l) PROVE Once' /\ Apart' /\ Partition'
  <2> DEFINE c == Head(todo[l])
  <2>1. /\ UNCHANGED <<pending, call, started, closed, refused>>
        /\ todo[l] # <<>> /\ todo' = [todo EXCEPT ![l] = Tail(@)]
        /\ queue' = [queue EXCEPT ![l] = Append(@, c)]
    BY <1>2 DEF DrainSchedule, GoesOn
  <2>2. /\ c \in Coros /\ c \in Range(todo[l]) /\ IsInjective(todo'[l])
        /\ Range(todo'[l]) = Range(todo[l]) \ {c}
    BY <1>0, <2>1, TailOnce DEF Once
  <2>3. c \notin Range(queue[l])
    BY <1>0, <2>2 DEF Apart
  <2>4. IsInjective(queue'[l]) /\ Range(queue'[l]) = Range(queue[l]) \cup {c}
    BY <1>0, <2>1, <2>2, <2>3, AppendOnce DEF Once
  <2>5. \A k \in Loops : k # l => todo'[k] = todo[k] /\ queue'[k] = queue[k]
    BY <1>0, <2>1
  <2> HIDE DEF c
  <2>6. Once'
    BY <1>0, <2>1, <2>2, <2>4, <2>5 DEF Once
  <2>7. Apart'
    BY <1>0, <2>1, <2>2, <2>4, <2>5 DEF Apart
  <2>8. Listed' = Listed
    BY <1>0, <2>1, <2>2, <2>4, <2>5 DEF Listed
  <2> QED BY <1>0, <2>1, <2>6, <2>7, <2>8 DEF Partition, Gone, HandedOver
<1>3. ASSUME NEW l \in Loops, Begin(l) PROVE Once' /\ Apart' /\ Partition'
  <2> DEFINE c == Head(queue[l])
  <2>1. /\ UNCHANGED <<pending, todo, call, closed, refused>>
        /\ queue[l] # <<>> /\ queue' = [queue EXCEPT ![l] = Tail(@)]
        /\ started' = started \cup {c}
    BY <1>3 DEF Begin
  <2>2. /\ c \in Coros /\ c \in Range(queue[l]) /\ IsInjective(queue'[l])
        /\ Range(queue'[l]) = Range(queue[l]) \ {c}
    BY <1>0, <2>1, TailOnce DEF Once
  <2>3. \A k \in Loops : k # l => queue'[k] = queue[k]
    BY <1>0, <2>1
  <2> HIDE DEF c
  <2>4. Once'
    BY <1>0, <2>1, <2>2, <2>3 DEF Once
  <2>5. Apart'
    BY <1>0, <2>1, <2>2, <2>3 DEF Apart
  <2>6. /\ c \notin Range(pending) /\ \A k \in Loops : c \notin Range(todo[k])
        /\ \A k \in Loops : k # l => c \notin Range(queue[k])
    BY <1>0, <2>2 DEF Apart
  <2>7. c \in Listed
    BY <2>2 DEF Listed
  <2>8. ASSUME NEW d \in Coros PROVE d \in Listed' <=> d \in Listed /\ d # c
    BY <2>1, <2>2, <2>3, <2>6 DEF Listed
  <2>9. Listed' = Listed \ {c}
    BY <2>8 DEF Listed
  <2>10. HandedOver' = HandedOver
    BY <2>1 DEF HandedOver
  <2>11. Gone' = Gone \cup {c} /\ c \notin Gone
    BY <1>0, <2>1, <2>7 DEF Gone, Partition
  <2>12. Partition'
    BY <1>0, <2>1, <2>7, <2>9, <2>10, <2>11 DEF Partition, Gone
  <2> QED BY <2>4, <2>5, <2>12
<1>4. ASSUME NEW c \in Coros, Schedule(c) PROVE Once' /\ Apart' /\ Partition'
  <2>1. c \notin Listed /\ c \notin Gone
    BY <1>0, <1>4 DEF Schedule, Moved, Partition, HandedOver
  <2>2. CASE /\ queue' = [queue EXCEPT ![local[c]] = Append(@, c)]
             /\ UNCHANGED <<pending, todo, started, closed, refused>>
             /\ call[c] = "schedule" /\ call' = [call EXCEPT ![c] = "register"]
    <3> DEFINE l == local[c]
    <3>1. l \in Loops
      BY <2>2 DEF OnePlaceInv, Typed, Found
    <3>2. \A k \in Loops : c \notin Range(todo[k]) \cup Range(queue[k])
      BY <2>1 DEF Listed
    <3>3. IsInjective(queue'[l]) /\ Range(queue'[l]) = Range(queue[l]) \cup {c}
      BY <1>0, <2>2, <3>1, <3>2, AppendOnce DEF Once
    <3>4. \A k \in Loops : k # l => queue'[k] = queue[k]
      BY <1>0, <2>2
    <3> HIDE DEF l
    <3>5. Once'
      BY <1>0, <2>2, <3>1, <3>3, <3>4 DEF Once
    <3>6. Apart'
      BY <1>0, <2>1, <2>2, <3>1, <3>2, <3>3, <3>4 DEF Apart, Listed
    <3>7. Listed' = Listed \cup {c}
      BY <1>0, <2>2, <3>1, <3>3, <3>4 DEF Listed
    <3>8. HandedOver' = HandedOver \cup {c}
      BY <1>0, <2>2 DEF HandedOver
    <3> QED BY <1>0, <2>1, <2>2, <3>5, <3>6, <3>7, <3>8 DEF Partition, Gone
  <2>3. CASE /\ UNCHANGED <<pending, todo, queue, started, closed>>
             /\ call[c] = "schedule" /\ call' = [call EXCEPT ![c] = "returned"]
             /\ refused' = refused \cup {c}
    <3>1. HandedOver' = HandedOver \cup {c}
      BY <1>0, <2>3 DEF HandedOver
    <3>2. Listed' = Listed /\ Once' /\ Apart'
      BY <1>0, <2>3 DEF Listed, Once, Apart
    <3> QED BY <1>0, <2>1, <2>3, <3>1, <3>2 DEF Partition, Gone
  <2> QED BY <1>4, <2>2, <2>3 DEF Schedule, Moved
<1>5. ASSUME NEW c \in Coros, Buffer(c) PROVE Once' /\ Apart' /\ Partition'
  <2> DEFINE t == Append(pending, c)
  <2>1. /\ UNCHANGED <<todo, queue, started, refused>>
        /\ call[c] = "buffer" /\ call' = [call EXCEPT ![c] = "returned"]
        /\ pending' = KeptNewest(t) /\ closed' = closed \cup (Range(t) \ Range(pending'))
    BY <1>5 DEF Buffer, Moved
  <2>2. c \notin Listed /\ c \notin Gone
    BY <1>0, <2>1 DEF Partition, HandedOver
  <2>3. t \in Seq(Coros) /\ IsInjective(t) /\ Range(t) = Range(pending) \cup {c}
    BY <1>0, <2>2, AppendOnce DEF Once, Listed
  <2>4. IsInjective(pending') /\ Range(pending') \subseteq Range(t)
    <3> HIDE DEF t
    <3>1. PICK m \in 1..(Len(t) + 1) : KeptNewest(t) = SubSeq(t, m, Len(t))
      BY <2>3, KeptNewestIsSuffix
    <3> QED BY <2>1, <2>3, <3>1, SuffixOnce
  <2> HIDE DEF t
  <2>5. Once'
    BY <1>0, <2>1, <2>4 DEF Once
  <2>6. Apart'
    BY <1>0, <2>1, <2>2, <2>3, <2>4 DEF Apart, Listed
  <2>7. /\ Listed' \cup (Range(t) \ Range(pending')) = Listed \cup {c}
        /\ Listed' \cap (Range(t) \ Range(pending')) = {}
        /\ Range(t) \subseteq Listed \cup {c}
    BY <1>0, <1>r, <2>1, <2>2, <2>3, <2>4 DEF Listed, Apart
  <2>8. HandedOver' = HandedOver \cup {c}
    BY <1>0, <2>1 DEF HandedOver
  <2> QED BY <1>0, <2>1, <2>2, <2>5, <2>6, <2>7, <2>8 DEF Partition, Gone
<1>6. CASE \E l \in Loops : DrainTrack(l) \/ DrainCallback(l) \/ InstallEnd(l)
  <2>1. UNCHANGED <<pending, todo, queue, call, started, closed, refused>>
    BY <1>6 DEF DrainTrack, DrainCallback, InstallEnd
  <2> QED BY <1>0, <2>1 DEF Once, Apart, Partition, Listed, Gone, HandedOver
<1>7. CASE \E c \in Coros : ReadLoop(c) \/ CheckRunning(c) \/ AddCallback(c) \/ Track(c)
  <2>1. UNCHANGED <<pending, todo, queue, started, closed, refused>>
    BY <1>7 DEF ReadLoop, CheckRunning, AddCallback, Track
  <2>2. HandedOver' = HandedOver
    BY <1>0, <1>7 DEF ReadLoop, CheckRunning, AddCallback, Track, Moved, HandedOver
  <2> QED BY <1>0, <2>1, <2>2 DEF Once, Apart, Partition, Listed, Gone
<1>8. CASE \/ BgRun \/ WebRun \/ WebStop \/ UNCHANGED vars
           \/ \E c \in Coros : Finish(c) \/ Forget(c)
  <2>1. UNCHANGED <<pending, todo, queue, call, started, closed, refused>>
    BY <1>8 DEF BgRun, WebRun, WebStop, Finish, Forget, vars
  <2> QED BY <1>0, <2>1 DEF Once, Apart, Partition, Listed, Gone, HandedOver
<1> QED
  BY <1>1, <1>2, <1>3, <1>4, <1>5, <1>6, <1>7, <1>8 DEF Next, Installer, CallStep

\* From ranges to the one list of InOnePlace.
LEMMA WaitingIsListed ==
  ASSUME OnePlaceInv
  PROVE  IsInjective(Waiting) /\ Range(Waiting) = Listed
<1>0. /\ todo \in [Loops -> Seq(Coros)] /\ queue \in [Loops -> Seq(Coros)]
      /\ pending \in Seq(Coros) /\ Once /\ Apart /\ "bg" \in Loops /\ "web" \in Loops
  BY DEF OnePlaceInv, Typed, TypeOK, Loops
<1> DEFINE s == pending \o todo["bg"]
           t == s \o todo["web"]
           u == t \o queue["bg"]
<1>1. /\ s \in Seq(Coros) /\ IsInjective(s)
      /\ Range(s) = Range(pending) \cup Range(todo["bg"])
  <2>1. Range(pending) \cap Range(todo["bg"]) = {}
    BY <1>0 DEF Apart
  <2> QED BY <1>0, <2>1, ConcatOnce DEF Once
<1> HIDE DEF s
<1>2. /\ t \in Seq(Coros) /\ IsInjective(t)
      /\ Range(t) = Range(s) \cup Range(todo["web"])
  <2>1. Range(s) \cap Range(todo["web"]) = {}
    BY <1>0, <1>1 DEF Apart
  <2> QED BY <1>0, <1>1, <2>1, ConcatOnce DEF Once
<1> HIDE DEF t
<1>3. /\ u \in Seq(Coros) /\ IsInjective(u)
      /\ Range(u) = Range(t) \cup Range(queue["bg"])
  <2>1. Range(t) \cap Range(queue["bg"]) = {}
    BY <1>0, <1>1, <1>2 DEF Apart
  <2> QED BY <1>0, <1>2, <2>1, ConcatOnce DEF Once
<1> HIDE DEF u
<1>4. /\ IsInjective(u \o queue["web"])
      /\ Range(u \o queue["web"]) = Range(u) \cup Range(queue["web"])
  <2>1. Range(u) \cap Range(queue["web"]) = {}
    BY <1>0, <1>1, <1>2, <1>3 DEF Apart
  <2> QED BY <1>0, <1>3, <2>1, ConcatOnce DEF Once
<1>5. Waiting = u \o queue["web"]
  BY DEF Waiting, s, t, u
<1>6. Range(Waiting) \subseteq Coros
  BY <1>0, <1>1, <1>2, <1>3, <1>4, <1>5, RangeOfSeq DEF Range
<1>7. ASSUME NEW c \in Coros PROVE c \in Range(Waiting) <=> c \in Listed
  BY <1>1, <1>2, <1>3, <1>4, <1>5 DEF Listed, Loops
<1> QED BY <1>4, <1>5, <1>6, <1>7 DEF Listed

LEMMA OnePlaceInvImplies == OnePlaceInv => InOnePlace
<1> SUFFICES ASSUME OnePlaceInv PROVE InOnePlace
  OBVIOUS
<1>1. IsInjective(Waiting) /\ Range(Waiting) = Listed
  BY WaitingIsListed
<1> DEFINE Places == {<<"waiting", Range(Waiting)>>, <<"started", started>>,
                      <<"closed", closed>>, <<"refused", refused>>}
           Of(c)  == {p \in Places : c \in p[2]}
<1>2. ASSUME NEW c \in Coros
      PROVE  Cardinality(Of(c)) = IF call[c] \in {"register", "track", "returned"} THEN 1 ELSE 0
  <2>1. CASE c \notin HandedOver
    <3>1. c \notin Range(Waiting) /\ c \notin started /\ c \notin closed /\ c \notin refused
      BY <1>1, <2>1 DEF OnePlaceInv, Partition, Gone
    <3>2. Of(c) = {}
      BY <3>1
    <3> QED BY <2>1, <3>2, FS_EmptySet DEF HandedOver
  <2>2. CASE c \in HandedOver
    <3>1. \/ c \in Range(Waiting) /\ c \notin started /\ c \notin closed /\ c \notin refused
          \/ c \notin Range(Waiting) /\ c \in started /\ c \notin closed /\ c \notin refused
          \/ c \notin Range(Waiting) /\ c \notin started /\ c \in closed /\ c \notin refused
          \/ c \notin Range(Waiting) /\ c \notin started /\ c \notin closed /\ c \in refused
      BY <1>1, <2>2 DEF OnePlaceInv, Partition, Gone
    <3>2. \E p : Of(c) = {p}
      <4>1. CASE c \in Range(Waiting)
        <5>1. Of(c) = {<<"waiting", Range(Waiting)>>}
          BY <3>1, <4>1
        <5> QED BY <5>1
      <4>2. CASE c \in started
        <5>1. Of(c) = {<<"started", started>>}
          BY <3>1, <4>2
        <5> QED BY <5>1
      <4>3. CASE c \in closed
        <5>1. Of(c) = {<<"closed", closed>>}
          BY <3>1, <4>3
        <5> QED BY <5>1
      <4>4. CASE c \in refused
        <5>1. Of(c) = {<<"refused", refused>>}
          BY <3>1, <4>4
        <5> QED BY <5>1
      <4> QED BY <3>1, <4>1, <4>2, <4>3, <4>4
    <3> QED BY <2>2, <3>2, FS_Singleton DEF HandedOver
  <2> QED BY <2>1, <2>2
<1> QED BY <1>1, <1>2 DEF InOnePlace

\* InOnePlace: however the calls of run_async, the swaps of the buffer in
\* set_main_loop and the turns of the loops interleave, a coroutine handed over
\* waits in one list, once, or was started, closed by the cap or refused by a
\* closed loop, and only one of these.
THEOREM OnePlace == Spec => []InOnePlace
  BY OnePlaceStart, OnePlaceStep, OnePlaceInvImplies, PTL DEF Spec

--------------------------------------------------------------------------------
(* The cap *)

\* When the cap bites, it takes the first one and the buffer stays full.
LEMMA CapTakesTheOldest ==
  ASSUME Typed, [Next]_vars, NEW c \in closed' \ closed
  PROVE  pending # <<>> /\ c = Head(pending) /\ Len(pending') = CoroutinesMax
<1>0. pending \in Seq(Coros) /\ Len(pending) <= CoroutinesMax /\ CoroutinesMax \in Nat \ {0}
  BY DispatchAssumption DEF Typed, TypeOK
<1>1. PICK d \in Coros : Buffer(d)
  <2> USE DEF run, inst
  <2>1. ASSUME NEW l \in Loops, Installer(l) \/ Begin(l) PROVE FALSE
    BY <2>1 DEF Installer, Install, DrainSchedule, DrainTrack, DrainCallback, InstallEnd, Begin
  <2>2. ASSUME NEW d \in Coros,
               \/ ReadLoop(d) \/ CheckRunning(d) \/ Schedule(d) \/ AddCallback(d)
               \/ Track(d) \/ Finish(d) \/ Forget(d)
        PROVE  FALSE
    BY <2>2 DEF ReadLoop, CheckRunning, Schedule, AddCallback, Track, Finish, Forget
  <2>3. CASE BgRun \/ WebRun \/ WebStop \/ UNCHANGED vars
    BY <2>3 DEF BgRun, WebRun, WebStop, vars
  <2> QED BY <2>1, <2>2, <2>3 DEF Next, CallStep
<1> DEFINE t == Append(pending, d)
<1>2. /\ t \in Seq(Coros) /\ Len(t) = Len(pending) + 1 /\ Len(pending) \in Nat
      /\ \A i \in 1..Len(pending) : t[i] = pending[i]
  BY <1>0, AppendProperties, LenProperties
<1>3. pending' = KeptNewest(t) /\ c \in Range(t) \ Range(pending')
  BY <1>1 DEF Buffer
<1> HIDE DEF t
<1>4. Len(t) = CoroutinesMax + 1 /\ Len(pending) = CoroutinesMax
  <2>1. Len(t) > CoroutinesMax
    BY <1>0, <1>2, <1>3 DEF KeptNewest
  <2> QED BY <1>0, <1>2, <2>1
<1>5. pending' = SubSeq(t, 2, Len(t))
  BY <1>0, <1>3, <1>4 DEF KeptNewest
<1>6. /\ Len(pending') = CoroutinesMax /\ DOMAIN pending' = 1..CoroutinesMax
      /\ \A i \in 1..CoroutinesMax : pending'[i] = t[i + 1]
  <2>1. \A i \in 2..Len(t) : t[i] \in Coros
    BY <1>0, <1>2, <1>4, ElementOfSeq
  <2>2. 2 \in Int /\ Len(t) \in Int /\ 2 <= Len(t)
    BY <1>0, <1>4
  <2>3. /\ SubSeq(t, 2, Len(t)) \in Seq(Coros)
        /\ Len(SubSeq(t, 2, Len(t))) = Len(t) - 2 + 1
        /\ \A i \in 1..(Len(t) - 2 + 1) : SubSeq(t, 2, Len(t))[i] = t[2 + i - 1]
    BY <2>1, <2>2, SubSeqProperties
  <2>4. pending' \in Seq(Coros) /\ Len(pending') = CoroutinesMax
    BY <1>0, <1>4, <1>5, <2>3
  <2>5. ASSUME NEW i \in 1..CoroutinesMax PROVE pending'[i] = t[i + 1]
    <3>1. i \in 1..(Len(t) - 2 + 1) /\ 2 + i - 1 = i + 1
      BY <1>0, <1>4
    <3> QED BY <1>5, <2>3, <3>1
  <2> QED BY <2>4, <2>5, LenProperties
<1>7. PICK i \in 1..(CoroutinesMax + 1) : c = t[i]
  BY <1>2, <1>3, <1>4, LenProperties DEF Range
<1>8. i = 1
  <2> SUFFICES ASSUME i # 1 PROVE FALSE
    OBVIOUS
  <2>1. i - 1 \in 1..CoroutinesMax /\ (i - 1) + 1 = i
    BY <1>0
  <2>2. c = pending'[i - 1]
    BY <1>6, <1>7, <2>1
  <2> QED BY <1>3, <1>6, <2>1, <2>2 DEF Range
<1>9. pending # <<>> /\ c = pending[1]
  BY <1>0, <1>2, <1>4, <1>7, <1>8, EmptySeq
<1> QED BY <1>0, <1>6, <1>9, HeadTailProperties

\* OnlyOldestDropped: the cap of run_async closes a coroutine only when the buffer
\* is full, and then the one that has waited longest.
THEOREM OldestIsDropped == Spec => OnlyOldestDropped
<1>1. Typed /\ [Next]_vars
      => [\A c \in closed' \ closed : /\ pending # <<>> /\ c = Head(pending)
                                      /\ Len(pending') = CoroutinesMax]_vars
  BY CapTakesTheOldest
<1> QED BY <1>1, TypedStart, TypedStep, PTL DEF Spec, OnlyOldestDropped

--------------------------------------------------------------------------------
(* The list of tracked futures *)

InHand(c) == \E l \in Loops : hand[l] = c

\* What the buffer, the lists taken over and the tracked futures hold was handed
\* over by calls that have returned.
Returned ==
  /\ \A c \in Range(pending) \cup tracked : call[c] = "returned"
  /\ \A l \in Loops : \A c \in Range(todo[l]) : call[c] = "returned"

HandsReturned == \A l \in Loops : hand[l] \in Coros => call[hand[l]] = "returned"

\* The future is given its done-callback before it is tracked by a caller, and after
\* it by an installer.
CallbackComes ==
  /\ \A c \in Coros : call[c] = "track" => c \in registered
  /\ \A c \in tracked \ done : c \in registered \/ InHand(c)

TrackInv == Typed /\ Returned /\ HandsReturned /\ CallbackComes

LEMMA TrackStart == Init => TrackInv
<1>1. Range(<<>>) = {}
  BY DEF Range
<1> QED BY <1>1, TypedStart, DispatchAssumption
        DEF Init, TrackInv, Returned, HandsReturned, CallbackComes

LEMMA TrackStep == TrackInv /\ [Next]_vars => TrackInv'
<1> SUFFICES ASSUME TrackInv, [Next]_vars PROVE Returned' /\ HandsReturned' /\ CallbackComes'
  BY TypedStep DEF TrackInv
<1>0. /\ todo \in [Loops -> Seq(Coros)] /\ pending \in Seq(Coros) /\ hand \in [Loops -> Coros \cup {NoCoro}]
      /\ call = [c \in Coros |-> call[c]] /\ tracked \subseteq Coros
      /\ \A l \in Loops : /\ instPc[l] \in {"off", "schedule", "done"} => hand[l] = NoCoro
                          /\ instPc[l] \in {"track", "callback"} => hand[l] \in Coros
      /\ Returned /\ HandsReturned /\ CallbackComes /\ NoCoro \notin Coros
  BY DispatchAssumption DEF TrackInv, Typed, TypeOK, Hands
<1>r. Range(pending) \subseteq Coros /\ \A l \in Loops : Range(todo[l]) \subseteq Coros
  BY <1>0, RangeOfSeq DEF Range
<1>d. Returned /\ tracked \subseteq Coros
  BY <1>0
<1> USE DEF run, future, inst
<1>1. ASSUME NEW l \in Loops, Install(l) PROVE Returned' /\ HandsReturned' /\ CallbackComes'
  <2>1. /\ UNCHANGED <<hand, call, done, tracked, registered>>
        /\ todo' = [todo EXCEPT ![l] = pending] /\ pending' = <<>> /\ Range(<<>>) = {}
    BY <1>1 DEF Install, LeftBuffer, Range
  <2> QED BY <1>0, <2>1 DEF Returned, HandsReturned, CallbackComes, InHand
<1>2. ASSUME NEW l \in Loops, DrainSchedule(l) PROVE Returned' /\ HandsReturned' /\ CallbackComes'
  <2>1. /\ UNCHANGED <<pending, call, done, tracked, registered>>
        /\ todo' = [todo EXCEPT ![l] = Tail(@)] /\ hand' = [hand EXCEPT ![l] = Head(todo[l])]
        /\ hand[l] = NoCoro
    BY <1>0, <1>2 DEF DrainSchedule, GoesOn
  <2>2. Range(Tail(todo[l])) \subseteq Range(todo[l]) /\ Head(todo[l]) \in Range(todo[l])
    BY <1>0, <1>2, TailRange DEF DrainSchedule
  <2>3. Returned'
    BY <1>0, <2>1, <2>2 DEF Returned
  <2>4. HandsReturned'
    BY <1>0, <2>1, <2>2 DEF Returned, HandsReturned
  <2>5. CallbackComes'
    BY <1>0, <2>1, <2>2 DEF CallbackComes, InHand
  <2> QED BY <2>3, <2>4, <2>5
<1>3. ASSUME NEW l \in Loops, DrainTrack(l) PROVE Returned' /\ HandsReturned' /\ CallbackComes'
  <2>1. /\ UNCHANGED <<pending, todo, hand, call, done, registered>>
        /\ tracked' = tracked \cup {hand[l]} /\ hand[l] \in Coros
    BY <1>0, <1>3 DEF DrainTrack, GoesOn
  <2> QED BY <1>0, <2>1 DEF Returned, HandsReturned, CallbackComes, InHand
<1>4. ASSUME NEW l \in Loops, DrainCallback(l) PROVE Returned' /\ HandsReturned' /\ CallbackComes'
  <2>1. /\ UNCHANGED <<pending, todo, call, done>>
        /\ tracked' \subseteq tracked /\ registered' = registered \cup {hand[l]}
        /\ hand' = [hand EXCEPT ![l] = NoCoro]
    BY <1>4 DEF DrainCallback, Register
  <2> QED BY <1>0, <2>1 DEF Returned, HandsReturned, CallbackComes, InHand
<1>5. ASSUME NEW c \in Coros, NEW to \in {"check", "schedule", "buffer", "register"}, call[c] # "returned",
             call' = [call EXCEPT ![c] = to],
             UNCHANGED <<pending, todo, hand, done, tracked, registered>>
      PROVE  Returned' /\ HandsReturned' /\ CallbackComes'
  BY <1>0, <1>5 DEF Returned, HandsReturned, CallbackComes, InHand
<1>6. ASSUME NEW c \in Coros, call[c] # "returned", call' = [call EXCEPT ![c] = "returned"],
             UNCHANGED <<pending, todo, hand, done, tracked, registered>>
      PROVE  Returned' /\ HandsReturned' /\ CallbackComes'
  BY <1>0, <1>6 DEF Returned, HandsReturned, CallbackComes, InHand
<1>7. ASSUME NEW c \in Coros, AddCallback(c) PROVE Returned' /\ HandsReturned' /\ CallbackComes'
  <2>1. /\ UNCHANGED <<pending, todo, hand, done>> /\ call[c] = "register"
        /\ call' = [call EXCEPT ![c] = "track"]
        /\ tracked' \subseteq tracked /\ registered' = registered \cup {c}
    BY <1>7 DEF AddCallback, Register, Moved
  <2>r. \A d \in Coros : call[d] = "returned" => call'[d] = "returned"
    BY <1>0, <2>1
  <2>3. Returned'
    BY <1>0, <1>r, <2>r, <2>1 DEF Returned
  <2>4. HandsReturned'
    BY <1>0, <2>1 DEF HandsReturned
  <2>5. CallbackComes'
    BY <1>0, <2>1 DEF CallbackComes, InHand
  <2> QED BY <2>3, <2>4, <2>5
<1>8. ASSUME NEW c \in Coros, Track(c) PROVE Returned' /\ HandsReturned' /\ CallbackComes'
  <2>1. /\ UNCHANGED <<pending, todo, hand, done, registered>> /\ call[c] = "track"
        /\ call' = [call EXCEPT ![c] = "returned"] /\ tracked' \subseteq tracked \cup {c}
    BY <1>8 DEF Track, Swept, Moved
  <2>r. /\ call'[c] = "returned"
        /\ \A d \in Coros : call[d] = "returned" => call'[d] = "returned"
    BY <1>0, <2>1
  <2>3. Returned'
    BY <1>d, <1>r, <2>r, <2>1 DEF Returned
  <2>4. HandsReturned'
    BY <1>0, <2>1 DEF HandsReturned
  <2>5. CallbackComes'
    BY <1>0, <2>1 DEF CallbackComes, InHand
  <2> QED BY <2>3, <2>4, <2>5
<1>9. ASSUME NEW c \in Coros, Buffer(c) PROVE Returned' /\ HandsReturned' /\ CallbackComes'
  <2>1. /\ UNCHANGED <<todo, hand, done, tracked, registered>> /\ call[c] = "buffer"
        /\ call' = [call EXCEPT ![c] = "returned"] /\ pending' = KeptNewest(Append(pending, c))
    BY <1>9 DEF Buffer, Moved
  <2>2. Range(pending') \subseteq Range(pending) \cup {c}
    BY <1>0, <2>1, KeptRange
  <2>r. /\ call'[c] = "returned"
        /\ \A d \in Coros : call[d] = "returned" => call'[d] = "returned"
    BY <1>0, <2>1
  <2>3. Returned'
    BY <1>d, <1>r, <2>r, <2>1, <2>2 DEF Returned
  <2>4. HandsReturned'
    BY <1>0, <2>1, <2>2 DEF HandsReturned
  <2>5. CallbackComes'
    BY <1>0, <2>1, <2>2 DEF CallbackComes, InHand
  <2> QED BY <2>3, <2>4, <2>5
<1>10. ASSUME NEW c \in Coros, Finish(c) \/ Forget(c)
       PROVE  Returned' /\ HandsReturned' /\ CallbackComes'
  <2>1. /\ UNCHANGED <<pending, todo, hand, call, registered>>
        /\ tracked' \subseteq tracked /\ done \subseteq done'
    BY <1>10 DEF Finish, Forget
  <2> QED BY <1>0, <2>1 DEF Returned, HandsReturned, CallbackComes, InHand
<1>11. CASE UNCHANGED <<pending, todo, hand, call, done, tracked, registered>>
  BY <1>0, <1>11 DEF Returned, HandsReturned, CallbackComes, InHand
<1>12. ASSUME NEW c \in Coros, ReadLoop(c) \/ CheckRunning(c) \/ Schedule(c)
       PROVE  Returned' /\ HandsReturned' /\ CallbackComes'
  <2>1. UNCHANGED <<pending, todo, hand, done, tracked, registered>>
    BY <1>12 DEF ReadLoop, CheckRunning, Schedule
  <2>2. call[c] # "returned"
    BY <1>12 DEF ReadLoop, CheckRunning, Schedule, Moved
  <2>3. \E to \in {"check", "schedule", "buffer", "register", "returned"} : call' = [call EXCEPT ![c] = to]
    BY <1>12 DEF ReadLoop, CheckRunning, Schedule, Moved
  <2> QED BY <1>5, <1>6, <2>1, <2>2, <2>3
<1>13. ASSUME NEW l \in Loops, InstallEnd(l) \/ Begin(l)
       PROVE  Returned' /\ HandsReturned' /\ CallbackComes'
  BY <1>11, <1>13 DEF InstallEnd, Begin
<1>14. CASE BgRun \/ WebRun \/ WebStop \/ UNCHANGED vars
  BY <1>11, <1>14 DEF BgRun, WebRun, WebStop, vars
<1> QED
  BY <1>1, <1>2, <1>3, <1>4, <1>7, <1>8, <1>9, <1>10, <1>12, <1>13, <1>14
     DEF Next, Installer, CallStep

\* The futures nobody will remove any more.
Leaked == {c \in tracked : c \in done \ owed /\ call[c] = "returned"
                           /\ \A l \in Loops : hand[l] # c}

\* Only the caller's own tracking adds to them, and it sweeps.
LEMMA LeakStep ==
  ASSUME TrackInv, [Next]_vars
  PROVE  \/ Leaked' \subseteq Leaked
         \/ \E c \in Coros : Track(c) /\ Leaked' \subseteq Swept(tracked \cup {c}) \cap done
<1>0. /\ hand \in [Loops -> Coros \cup {NoCoro}]
      /\ call = [c \in Coros |-> call[c]] /\ tracked \subseteq Coros
      /\ \A l \in Loops : /\ instPc[l] \in {"off", "schedule", "done"} => hand[l] = NoCoro
                          /\ instPc[l] \in {"track", "callback"} => hand[l] \in Coros
      /\ Returned /\ CallbackComes /\ NoCoro \notin Coros
  BY DispatchAssumption DEF TrackInv, Typed, TypeOK, Hands
<1> USE DEF run, future, inst
<1>1. ASSUME UNCHANGED <<hand, call, done, owed>>, tracked' \subseteq tracked
      PROVE  Leaked' \subseteq Leaked
  BY <1>1 DEF Leaked
<1>2. ASSUME NEW c \in Coros, c \notin tracked', tracked' \subseteq tracked, UNCHANGED <<hand, done, owed>>,
             \A d \in Coros \ {c} : call'[d] = call[d]
      PROVE  Leaked' \subseteq Leaked
  BY <1>0, <1>2 DEF Leaked
<1>4. ASSUME NEW l \in Loops, Install(l) \/ InstallEnd(l) \/ Begin(l) PROVE Leaked' \subseteq Leaked
  BY <1>1, <1>4 DEF Install, InstallEnd, Begin
<1>5. ASSUME NEW l \in Loops, DrainSchedule(l) PROVE Leaked' \subseteq Leaked
  <2>1. /\ UNCHANGED <<call, done, tracked, owed>> /\ hand[l] = NoCoro
        /\ hand' = [hand EXCEPT ![l] = Head(todo[l])]
    BY <1>0, <1>5 DEF DrainSchedule, GoesOn
  <2> QED BY <1>0, <2>1 DEF Leaked
<1>6. ASSUME NEW l \in Loops, DrainTrack(l) PROVE Leaked' \subseteq Leaked
  <2>1. UNCHANGED <<hand, call, done, owed>> /\ tracked' = tracked \cup {hand[l]}
    BY <1>6 DEF DrainTrack
  <2> QED BY <2>1 DEF Leaked
<1>7. ASSUME NEW l \in Loops, DrainCallback(l) PROVE Leaked' \subseteq Leaked
  <2>1. /\ UNCHANGED <<call, done, owed>> /\ tracked' \subseteq tracked
        /\ hand' = [hand EXCEPT ![l] = NoCoro]
        /\ hand[l] \in done => hand[l] \notin tracked'
    BY <1>7 DEF DrainCallback, Register
  <2> QED BY <1>0, <2>1 DEF Leaked
<1>8. ASSUME NEW c \in Coros, ReadLoop(c) \/ CheckRunning(c) \/ Schedule(c) \/ AddCallback(c) \/ Buffer(c)
      PROVE  Leaked' \subseteq Leaked
  <2>1. UNCHANGED <<hand, done, owed>> /\ tracked' \subseteq tracked
    BY <1>8 DEF ReadLoop, CheckRunning, Schedule, AddCallback, Buffer, Register
  <2>2. call[c] # "returned" /\ \E to : call' = [call EXCEPT ![c] = to]
    BY <1>8 DEF ReadLoop, CheckRunning, Schedule, AddCallback, Buffer, Moved
  <2>3. c \notin tracked
    BY <1>0, <2>2 DEF Returned
  <2>4. \A d \in Coros \ {c} : call'[d] = call[d]
    BY <1>0, <2>2
  <2> QED BY <1>2, <2>1, <2>3, <2>4
<1>9. ASSUME NEW c \in Coros, Track(c)
      PROVE  Leaked' \subseteq Swept(tracked \cup {c}) \cap done
  BY <1>9 DEF Leaked, Track
<1>10. ASSUME NEW c \in Coros, Finish(c) PROVE Leaked' \subseteq Leaked
  <2>1. /\ UNCHANGED <<hand, call, tracked, registered>>
        /\ c \notin done /\ done' = done \cup {c} /\ owed \subseteq owed'
        /\ c \in registered => c \in owed'
    BY <1>10 DEF Finish
  <2> QED BY <1>0, <2>1 DEF Leaked, CallbackComes, InHand
<1>11. ASSUME NEW c \in Coros, Forget(c) PROVE Leaked' \subseteq Leaked
  BY <1>11 DEF Leaked, Forget
<1>12. CASE BgRun \/ WebRun \/ WebStop \/ UNCHANGED vars
  BY <1>1, <1>12 DEF BgRun, WebRun, WebStop, vars
<1> QED
  BY <1>4, <1>5, <1>6, <1>7, <1>8, <1>9, <1>10, <1>11, <1>12 DEF Next, Installer, CallStep

LEMMA TrackedFinite == TrackInv /\ IsFiniteSet(tracked) /\ [Next]_vars => IsFiniteSet(tracked')
<1> SUFFICES ASSUME TrackInv, IsFiniteSet(tracked), [Next]_vars PROVE IsFiniteSet(tracked')
  OBVIOUS
<1> USE DEF run, future, inst
<1>1. \E x : tracked' \subseteq tracked \cup {x}
  <2>1. ASSUME NEW l \in Loops, Installer(l) \/ Begin(l) PROVE tracked' \subseteq tracked \cup {hand[l]}
    BY <2>1 DEF Installer, Install, DrainSchedule, DrainTrack, DrainCallback, InstallEnd, Begin, Register
  <2>2. ASSUME NEW c \in Coros,
               \/ ReadLoop(c) \/ CheckRunning(c) \/ Schedule(c) \/ AddCallback(c)
               \/ Track(c) \/ Buffer(c) \/ Finish(c) \/ Forget(c)
        PROVE  tracked' \subseteq tracked \cup {c}
    BY <2>2 DEF ReadLoop, CheckRunning, Schedule, AddCallback, Track, Buffer, Finish, Forget, Register, Swept
  <2>3. CASE BgRun \/ WebRun \/ WebStop \/ UNCHANGED vars
    BY <2>3 DEF BgRun, WebRun, WebStop, vars
  <2> QED BY <2>1, <2>2, <2>3 DEF Next, CallStep
<1> QED BY <1>1, FS_AddElement, FS_Subset

LeakInv == TrackInv /\ IsFiniteSet(tracked) /\ LeakBounded

LEMMA LeakInvStep == LeakInv /\ [Next]_vars => LeakInv'
<1> SUFFICES ASSUME LeakInv, [Next]_vars PROVE LeakBounded'
  BY TrackStep, TrackedFinite DEF LeakInv
<1>0. TrackInv /\ IsFiniteSet(tracked) /\ IsFiniteSet(Leaked) /\ Cardinality(Leaked) < SweepThreshold
  <2>1. Leaked \subseteq tracked
    BY DEF Leaked
  <2> QED BY <2>1, FS_Subset DEF LeakInv, LeakBounded, Leaked
<1>1. Cardinality(Leaked') < SweepThreshold
  <2>1. CASE Leaked' \subseteq Leaked
    BY <1>0, <2>1, FS_Subset, FS_CardinalityType, DispatchAssumption
  <2>2. ASSUME NEW c \in Coros, Leaked' \subseteq Swept(tracked \cup {c}) \cap done
        PROVE  Cardinality(Leaked') < SweepThreshold
    <3> DEFINE t == tracked \cup {c}
    <3>1. IsFiniteSet(t) /\ Cardinality(t) \in Nat
      BY <1>0, FS_AddElement, FS_CardinalityType
    <3>2. CASE Cardinality(t) >= SweepThreshold
      <4>1. Leaked' = {}
        BY <2>2, <3>2 DEF Swept
      <4> QED BY <4>1, FS_EmptySet, DispatchAssumption
    <3>3. CASE Cardinality(t) < SweepThreshold
      <4>1. Leaked' \subseteq t
        BY <2>2 DEF Swept
      <4>2. IsFiniteSet(Leaked') /\ Cardinality(Leaked') <= Cardinality(t)
        BY <3>1, <4>1, FS_Subset
      <4> QED BY <3>1, <3>3, <4>2, FS_CardinalityType, DispatchAssumption
    <3> QED BY <3>1, <3>2, <3>3, DispatchAssumption
  <2> QED BY <1>0, <2>1, <2>2, LeakStep
<1> QED BY <1>1 DEF LeakBounded, Leaked

\* LeakBounded: the futures that are done, whose done-callback is over and which
\* were recorded after it ran, stay fewer than _FUTURES_SWEEP_THRESHOLD: run_async
\* sweeps whenever the list reaches it, and no other step adds one.
THEOREM LeakIsBounded == Spec => []LeakBounded
<1>1. Init => LeakInv
  <2> SUFFICES ASSUME Init PROVE IsFiniteSet(tracked) /\ LeakBounded
    BY TrackStart DEF LeakInv
  <2>1. tracked = {} /\ {c \in tracked : c \in done \ owed /\ call[c] = "returned"
                               /\ \A l \in Loops : hand[l] # c} = {}
    BY DEF Init
  <2> QED BY <2>1, FS_EmptySet, DispatchAssumption DEF LeakBounded
<1>2. LeakInv => LeakBounded
  BY DEF LeakInv
<1> QED BY <1>1, <1>2, LeakInvStep, PTL DEF Spec
================================================================================
