------------------------- MODULE NomadDownload_proofs -------------------------
(***************************************************************************)
(* NomadDownload implements DownloadPromise, whatever the number of        *)
(* downloads and destinations, the size of the cache and the fate of links.*)
(*                                                                         *)
(* A step that tells the caller something must find the download running:  *)
(* not ended, which is what the flag under the outcome lock says           *)
(* (EndedIsDelivered), and not idle, because a download that was not       *)
(* started has no thread, link or request that could tell (IdleIsQuiet).   *)
(*                                                                         *)
(* Nobody is forgotten, because a running download that is not cancelled   *)
(* has a thread with work to do (Attended): whoever stops working either   *)
(* told the caller or has started the next one.                            *)
(*                                                                         *)
(* And what the downloads do to links: a link in use is spared, a private  *)
(* one is gone, and the only link that is left open with nobody to close   *)
(* it is one that another replaced.  Placed says where the five threads of *)
(* a download can be together.  The lemmas StoreStep, LinkStep,            *)
(* AbandonStep and FateStep say once what any step may do to the cache, to *)
(* the hold of a download on a link, to a thread that abandons one and to  *)
(* a link; the invariants of these theorems are kept because of the four,  *)
(* and not step by step.                                                   *)
(***************************************************************************)
EXTENDS NomadDownload, LastUse_proofs

Told == {"idle", "running", "ok", "failed"}

EndedIsDelivered(d) == told[d] \in {"ok", "failed"} <=> d \in delivered

IdleIsQuiet(d) == told[d] = "idle" =>
  /\ \A t \in Threads : pc[d][t] = "idle"
  /\ receipt[d] = "none" /\ st[d] # "pending" /\ d \notin active

\* The coroutine of a download that was started never comes back to its start.
StartedOnce(d) == DOMAIN pc[d] = Threads /\ (told[d] # "idle" => pc[d]["main"] # "idle")

OutcomeInv ==
  /\ told \in [Downloads -> Told]
  /\ DOMAIN pc = Downloads /\ DOMAIN receipt = Downloads /\ DOMAIN st = Downloads
  /\ \A d \in Downloads : StartedOnce(d)
  /\ \A d \in Downloads : EndedIsDelivered(d) /\ IdleIsQuiet(d)

\* The caller of d is told r, once, or nothing happens to what callers know.
Tells(d) == \/ told' = told /\ delivered' = delivered /\ active' = active
            \/ \E r \in {"ok", "failed"} :
                 /\ told[d] = "running"
                 /\ told' = [told EXCEPT ![d] = r]
                 /\ delivered' = delivered \cup {d} /\ active' = active \ {d}

\* A step of d's own threads: others keep their places, requests and links, but
\* for links that close.
Own(d) ==
  /\ told[d] # "idle" /\ DOMAIN pc'[d] = Threads /\ pc'[d]["main"] # "idle"
  /\ DOMAIN pc' = Downloads /\ DOMAIN receipt' = Downloads /\ DOMAIN st' = Downloads
  /\ \A e \in Downloads \ {d} : pc'[e] = pc[e] /\ receipt'[e] = receipt[e]
                                  /\ st'[e] \in {st[e], "closed"}

LEMMA OutcomeStart == Init => OutcomeInv
  BY DEF Init, OutcomeInv, Told, EndedIsDelivered, IdleIsQuiet, StartedOnce

LEMMA OwnKeeps ==
  ASSUME OutcomeInv, NEW d \in Downloads, Own(d), Tells(d)
  PROVE  OutcomeInv'
  BY DEF OutcomeInv, Own, Tells, Told, EndedIsDelivered, IdleIsQuiet, StartedOnce

LEMMA TellsPromises ==
  ASSUME OutcomeInv, NEW d \in Downloads, Tells(d)
  PROVE  [Promise!Next]_told
  BY DEF OutcomeInv, Tells, Promise!Next, Promise!End

\* A thread that has somewhere to go belongs to a download that was started.
LEMMA GoerIsStarted ==
  ASSUME OutcomeInv, NEW d \in Downloads, NEW t \in Threads, pc[d][t] # "idle"
  PROVE  told[d] # "idle"
  BY DEF OutcomeInv, IdleIsQuiet

LEMMA FailTells ==
  ASSUME OutcomeInv, NEW d \in Downloads, told[d] # "idle", Fail(d)
  PROVE  Tells(d)
  BY DEF OutcomeInv, Told, EndedIsDelivered, Fail, Tell, Tells, flags

LEMMA ClaimTells ==
  ASSUME OutcomeInv, NEW d \in Downloads, told[d] # "idle", NEW r \in {"ok", "failed"}, Claim(d, r)
  PROVE  Tells(d)
  BY DEF OutcomeInv, Told, EndedIsDelivered, Claim, Concluded, Tell, Tells, flags

\* A thread that goes on leaves the places of other downloads alone.
Moves(d) ==
  /\ DOMAIN pc' = Downloads /\ DOMAIN pc'[d] = Threads /\ pc'[d]["main"] # "idle"
  /\ \A e \in Downloads \ {d} : pc'[e] = pc[e]

LEMMA GotoMoves ==
  ASSUME OutcomeInv, NEW d \in Downloads, told[d] # "idle",
         NEW t \in Threads, NEW p, p # "idle", Goto(d, t, p)
  PROVE  Moves(d)
  BY DEF OutcomeInv, StartedOnce, Goto, Moves, Threads

LEMMA StepOwn ==
  ASSUME OutcomeInv, NEW d \in Downloads, NEW t \in Threads, Step(d, t)
  PROVE  Own(d) /\ (Tells(d) \/ UNCHANGED <<told, delivered, active>>)
<1>1. told[d] # "idle"
  BY GoerIsStarted DEF Step, Main, StopsWaiting, NoPath, PathFound, SeesActive, LinkTimesOut, Watch,
     SetFlag, Guard, Cache, Request, Record, GiveUp, Uncache, Deliver, Abandon, Shut, At
<1>2. CASE t = "main" /\ Main(d)
  <2>1. \E p : p # "idle" /\ Goto(d, t, p)
    BY <1>2 DEF Main, StopsWaiting, NoPath, PathFound, SeesActive, LinkTimesOut
  <2>2. Moves(d)
    BY <2>1, <1>1, GotoMoves
  <2>3. /\ UNCHANGED <<told, delivered, active, receipt>>
        /\ st' = st \/ st' = [st EXCEPT ![d] = "pending"]
    BY <1>2 DEF Main, StopsWaiting, NoPath, PathFound, SeesActive, LinkTimesOut, flags, self, links
  <2> QED BY <1>1, <2>2, <2>3 DEF Own, Moves, OutcomeInv
<1>3. CASE (t = "watch" /\ Watch(d)) \/ (t = "cancel" /\ SetFlag(d)) \/ Guard(d, t) \/ Cache(d, t)
             \/ Request(d, t)
  <2>1. \E p : p # "idle" /\ Goto(d, t, p)
    BY <1>3 DEF Watch, SetFlag, Guard, Cache, Request
  <2>2. Moves(d)
    BY <2>1, <1>1, GotoMoves
  <2>3. /\ UNCHANGED <<told, delivered, active, st>>
        /\ receipt' = receipt \/ \E v : receipt' = [receipt EXCEPT ![d] = v]
    BY <1>3 DEF Watch, SetFlag, Guard, Cache, Request, flags, self, links
  <2> QED BY <1>1, <2>2, <2>3 DEF Own, Moves, OutcomeInv
<1>4. CASE Record(d, t)
  <2>1. pc' = [pc EXCEPT ![d][t] = "done", ![d]["watch"] = "watching"]
    BY <1>4 DEF Record
  <2>2. Moves(d)
    BY <1>1, <2>1 DEF Moves, OutcomeInv, StartedOnce, Threads
  <2> QED BY <1>1, <1>4, <2>2 DEF Record, Own, Moves, OutcomeInv, flags, links
<1>5. CASE Uncache(d, t) \/ Deliver(d, t)
  <2>1. Tells(d)
    BY <1>1, <1>5, FailTells DEF Uncache, Deliver
  <2>2. \E p : p # "idle" /\ Goto(d, t, p)
    BY <1>5 DEF Uncache, Deliver
  <2>3. Moves(d)
    BY <2>2, <1>1, GotoMoves
  <2> QED BY <1>1, <2>1, <2>3, <1>5 DEF Uncache, Deliver, Own, Moves, OutcomeInv, self, links
<1>6. CASE Abandon(d, t) \/ Shut(d, t)
  <2>1. \E p : p # "idle" /\ Goto(d, t, p)
    BY <1>6 DEF Abandon, Shut, Then
  <2>2. Moves(d)
    BY <2>1, <1>1, GotoMoves
  <2>3. UNCHANGED <<told, delivered, active, receipt>>
    BY <1>6 DEF Abandon, Shut, flags
  <2>4. st' = st \/ \E L : st' = [l \in Downloads |-> IF l \in L THEN "closed" ELSE st[l]]
    BY <1>6 DEF Abandon, Shut, TearDown, Close
  <2> QED BY <1>1, <2>2, <2>3, <2>4 DEF Own, Moves, OutcomeInv
<1> QED BY <1>2, <1>3, <1>4, <1>5, <1>6 DEF Step, GiveUp

\* Every step keeps the invariant, and is a step of the promise or none.
LEMMA OutcomeStep ==
  ASSUME OutcomeInv, [Next]_vars
  PROVE  OutcomeInv' /\ [Promise!Next]_told
<1> USE DEF links, self, flags
<1>1. ASSUME NEW d \in Downloads, Start(d) PROVE OutcomeInv' /\ [Promise!Next]_told
  <2>1. told[d] = "idle"
    BY <1>1 DEF Start, At, OutcomeInv, StartedOnce
  <2>2. told' = [told EXCEPT ![d] = "running"] /\ Promise!Start(d)
    BY <2>1, <1>1 DEF Start, Promise!Start
  <2>3. /\ \E p \in {"guard", "path"} : Goto(d, "main", p)
        /\ delivered' = delivered /\ active' = active \cup {d}
        /\ receipt' = receipt /\ st' = st
    BY <1>1 DEF Start
  <2>4. OutcomeInv'
    BY <2>1, <2>2, <2>3 DEF OutcomeInv, Told, EndedIsDelivered, IdleIsQuiet, StartedOnce, Goto, Threads
  <2> QED BY <2>2, <2>4 DEF Promise!Next
<1>2. ASSUME NEW d \in Downloads, Answer(d) PROVE OutcomeInv' /\ [Promise!Next]_told
  <2>1. told[d] # "idle"
    BY <1>2 DEF Answer, OutcomeInv, IdleIsQuiet
  <2>2. Tells(d)
    BY <2>1, <1>2, ClaimTells DEF Answer
  <2>3. Own(d)
    BY <2>1, <1>2 DEF Answer, Goto, Own, OutcomeInv, StartedOnce, Threads
  <2> QED BY <2>2, <2>3, OwnKeeps, TellsPromises
<1>3. ASSUME NEW d \in Downloads, Cancel(d) PROVE OutcomeInv' /\ [Promise!Next]_told
  BY <1>3 DEF Cancel, At, Goto, OutcomeInv, EndedIsDelivered, IdleIsQuiet, StartedOnce
<1>4. ASSUME NEW d \in Downloads, NEW t \in Threads, Step(d, t)
      PROVE  OutcomeInv' /\ [Promise!Next]_told
  BY <1>4, StepOwn, OwnKeeps, TellsPromises DEF Tells
<1>5. ASSUME NEW l \in Downloads, Establish(l) PROVE OutcomeInv' /\ [Promise!Next]_told
  BY <1>5 DEF Establish, Goto, OutcomeInv, EndedIsDelivered, IdleIsQuiet, StartedOnce
<1>6. CASE (\E l \in Downloads : RemoteClose(l)) \/ Sweep \/ Drop(Keys) \/ \E k \in Keys : Drop({k})
  <2>1. /\ UNCHANGED <<told, delivered, active, pc, receipt>>
        /\ \E L : st' = [l \in Downloads |-> IF l \in L THEN "closed" ELSE st[l]]
    BY <1>6 DEF RemoteClose, Sweep, Drop, Close
  <2> QED BY <2>1 DEF OutcomeInv, EndedIsDelivered, IdleIsQuiet, StartedOnce
<1>7. CASE UNCHANGED vars
  BY <1>7 DEF vars, OutcomeInv, EndedIsDelivered, IdleIsQuiet, StartedOnce
<1> QED BY <1>1, <1>2, <1>3, <1>4, <1>5, <1>6, <1>7 DEF Next

\* The flag under the outcome lock is true, and idle downloads are quiet.
THEOREM OutcomeInductive == Spec => []OutcomeInv
  BY OutcomeStart, OutcomeStep, PTL DEF Spec

\* A download has one outcome, whichever thread is first (_claim_outcome,
\* _deliver_failure): NomadDownload implements DownloadPromise.
THEOREM HasOneOutcome == Spec => OneOutcome
<1>1. Init => Promise!Init
  BY DEF Init, Promise!Init
<1>2. OutcomeInv /\ [Next]_vars => [Promise!Next]_told
  BY OutcomeStep
<1> QED BY <1>1, <1>2, OutcomeInductive, PTL DEF Spec, OneOutcome, Promise!Spec

--------------------------------------------------------------------------------
(* The types *)

Pcs == {"idle", "path", "linking", "watching", "guard", "cache", "request", "record", "uncache",
        "deliver", "abandon", "shut", "flag", "done"}

\* TypeOK without what it says of the order of use, and with a destination for
\* every download that was started.
Typed ==
  /\ cache \in [Keys -> Downloads \cup {None}]
  /\ pc \in [Downloads -> [Threads -> Pcs]]
  /\ key \in [Downloads -> Keys \cup {None}]
  /\ link \in [Downloads -> Downloads \cup {None}]
  /\ over \in [Downloads -> Downloads \cup {None}]
  /\ receipt \in [Downloads -> {"none", "sent", "out", "off"}]
  /\ told \in [Downloads -> Told]
  /\ st \in [Downloads -> {"none", "pending", "active", "closed"}]
  /\ private \cup cancelled \cup delivered \cup active \subseteq Downloads
  /\ replaced \cup loose \cup cut \subseteq Downloads
  /\ \A d \in Downloads : told[d] # "idle" => key[d] \in Keys

\* Whoever works on a link has one: link_established is never called without.
HasLink == \A d \in Downloads :
  st[d] = "pending" \/ (\E t \in Threads : pc[d][t] \in {"guard", "cache"}) => over[d] # None

LEMMA TypedStart == Init => Typed
  BY NomadAssumption DEF Init, Typed, Told, Pcs, Threads

\* One thread of d goes to p.
LEMMA GotoTyped ==
  ASSUME Typed, NEW d \in Downloads, NEW t \in Threads, NEW p \in Pcs, Goto(d, t, p)
  PROVE  pc' \in [Downloads -> [Threads -> Pcs]]
  BY DEF Typed, Goto

\* What leaves the cache is noted.
LEMMA WithoutTyped ==
  ASSUME Typed, NEW K, K \subseteq Keys, Without(K)
  PROVE  cache' \in [Keys -> Downloads \cup {None}] /\ loose' \subseteq Downloads
  BY DEF Typed, Without

LEMMA LookedTyped ==
  ASSUME Typed, NEW k \in Keys, Looked(k)
  PROVE  cache' \in [Keys -> Downloads \cup {None}] /\ loose' \subseteq Downloads
<1>1. CASE Hit(k) \/ cache[k] = None
  BY <1>1 DEF Looked, Typed
<1>2. CASE ~(Hit(k) \/ cache[k] = None)
  BY <1>2, WithoutTyped DEF Looked
<1> QED BY <1>1, <1>2

LEMMA CloseTyped ==
  ASSUME Typed, NEW L, Close(L)
  PROVE  st' \in [Downloads -> {"none", "pending", "active", "closed"}] /\ replaced' \subseteq Downloads
  BY DEF Typed, Close

\* A link enters the cache, and dead ones go.
LEMMA CacheLinkMoves ==
  ASSUME NEW k \in Keys, NEW l, NEW late, CacheLink(k, l, late)
  PROVE  \E out :
           /\ cache' = [m \in Keys |-> IF m = k THEN l ELSE IF m \in out THEN None ELSE cache[m]]
           /\ out \subseteq Keys
           /\ \A m \in out : m # k /\ ~Active(cache[m])
           /\ loose' = loose \cup ({cache[m] : m \in out \cup {k}} \ {None, l})
                             \cup (IF late THEN {l} ELSE {})
           /\ replaced' = {m \in replaced \cup ({cache[k]} \ {None}) : Active(m)} \ {l}
<1> DEFINE full == Cached \cup {k}
           dead == {m \in full \ {k} : ~Active(cache[m])}
           out  == Oldest(used, dead, Excess(full, MaxCached))
<1>1. out \subseteq dead /\ dead \subseteq Keys
  BY DEF Oldest, Cached
<1>2. \A m \in out : m # k /\ ~Active(cache[m])
  BY <1>1
<1>3. /\ cache' = [m \in Keys |-> IF m = k THEN l ELSE IF m \in out THEN None ELSE cache[m]]
      /\ loose' = loose \cup ({cache[m] : m \in out \cup {k}} \ {None, l})
                        \cup (IF late THEN {l} ELSE {})
      /\ replaced' = {m \in replaced \cup ({cache[k]} \ {None}) : Active(m)} \ {l}
  BY DEF CacheLink
<1> HIDE DEF out
<1> QED BY <1>1, <1>2, <1>3

\* Housekeeping takes some keys out of the cache and closes their links.
CleansOut(K) ==
  /\ K \subseteq Keys /\ Without(K) /\ Close({cache[k] : k \in K} \ {None})
  /\ UNCHANGED <<pc, self, flags, cut>>

LEMMA DropCleans ==
  ASSUME Drop(Keys) \/ \E k \in Keys : Drop({k})
  PROVE  \E K : CleansOut(K)
<1>1. PICK K : K \subseteq Keys /\ Drop(K)
  OBVIOUS
<1>2. CleansOut(K)
  BY <1>1 DEF Drop, CleansOut
<1> QED BY <1>2

LEMMA SweepCleans ==
  ASSUME Sweep
  PROVE  \E K : CleansOut(K)
<1>1. PICK idle \in Behind(used) :
        LET kept == {k \in Cached \ idle : Active(cache[k])}
            out  == (Cached \ kept) \cup Oldest(used, kept, Excess(kept, MaxCached))
        IN  /\ Without(out \cup (Keys \ Cached))
            /\ Close({cache[k] : k \in out})
            /\ UNCHANGED <<pc, self, flags, cut>>
  BY DEF Sweep
<1> DEFINE kept == {k \in Cached \ idle : Active(cache[k])}
           out  == (Cached \ kept) \cup Oldest(used, kept, Excess(kept, MaxCached))
           K    == out \cup (Keys \ Cached)
<1>2. out \subseteq Cached /\ Cached \subseteq Keys
  BY DEF Oldest, Cached
<1>3. K \subseteq Keys
  BY <1>2
<1>4. {cache[k] : k \in K} \ {None} = {cache[k] : k \in out}
  <2> HIDE DEF out
  <2> QED BY <1>2 DEF Cached
<1>5. CleansOut(K)
  BY <1>1, <1>3, <1>4 DEF CleansOut
<1> QED BY <1>5

LEMMA HasLinkStart == Init => HasLink
  BY DEF Init, HasLink

LEMMA HasLinkStep == OutcomeInv /\ Typed /\ HasLink /\ [Next]_vars => HasLink'
<1> SUFFICES ASSUME OutcomeInv, Typed, HasLink, [Next]_vars PROVE HasLink'
  OBVIOUS
<1> USE DEF links, self
<1>0. pc \in [Downloads -> [Threads -> Pcs]] /\ HasLink
      /\ st \in [Downloads -> {"none", "pending", "active", "closed"}]
      /\ over \in [Downloads -> Downloads \cup {None}]
  BY DEF Typed
\* The steps that come to work on no link.
<1>a. ASSUME NEW d \in Downloads, NEW t \in Threads, NEW p, Goto(d, t, p), over' = over,
             \A e \in Downloads : st'[e] = "pending" => st[e] = "pending",
             p \in {"guard", "cache"} => over[d] # None
      PROVE  HasLink'
  BY <1>0, <1>a DEF Goto, HasLink
<1>b. ASSUME over' = over, pc' = pc, NEW L, Close(L) PROVE HasLink'
  BY <1>0, <1>b DEF HasLink, Close
<1>1. ASSUME NEW d \in Downloads, Start(d) PROVE HasLink'
  <2>1. CASE \E k \in Keys : Hit(k) /\ over' = [over EXCEPT ![d] = cache[k]] /\ Goto(d, "main", "guard")
    <3>1. PICK k \in Keys : Hit(k) /\ over' = [over EXCEPT ![d] = cache[k]] /\ Goto(d, "main", "guard")
      BY <2>1
    <3>2. cache[k] # None /\ st' = st
      BY <3>1, <1>1 DEF Hit, Start
    <3> QED BY <1>0, <3>1, <3>2 DEF HasLink, Goto
  <2>2. CASE over' = over /\ Goto(d, "main", "path")
    <3>1. st' = st
      BY <1>1 DEF Start
    <3> QED BY <1>a, <2>2, <3>1 DEF Threads
  <2> QED BY <1>1, <2>1, <2>2 DEF Start
<1>2. ASSUME NEW d \in Downloads, PathFound(d) PROVE HasLink'
  <2>1. /\ over' = [over EXCEPT ![d] = link'[d]] /\ link'[d] # None
        /\ st' = st \/ st' = [st EXCEPT ![d] = "pending"]
        /\ \E p \in Pcs : Goto(d, "main", p)
    BY <1>2, NomadAssumption DEF PathFound, Hit, Typed, Pcs
  <2> QED BY <1>0, <2>1 DEF HasLink, Goto
<1>3. ASSUME NEW d \in Downloads, StopsWaiting(d) \/ NoPath(d) \/ SeesActive(d) \/ LinkTimesOut(d)
      PROVE HasLink'
  <2>1. /\ \E p \in {"done", "deliver"} : Goto(d, "main", p)
        /\ over' = over /\ st' = st
    BY <1>3 DEF StopsWaiting, NoPath, SeesActive, LinkTimesOut
  <2> QED BY <1>a, <2>1 DEF Threads
<1>4. ASSUME NEW d \in Downloads, NEW t \in Threads, Guard(d, t) PROVE HasLink'
  BY <1>a, <1>4 DEF Guard, At, HasLink
<1>5. ASSUME NEW d \in Downloads, NEW t \in Threads,
             \/ t = "watch" /\ Watch(d)
             \/ t = "cancel" /\ SetFlag(d)
             \/ Cache(d, t) \/ Request(d, t)
             \/ Uncache(d, t) \/ Deliver(d, t)
      PROVE  HasLink'
  <2>1. /\ \E p : p \notin {"guard", "cache"} /\ Goto(d, t, p)
        /\ over' = over /\ st' = st
    BY <1>5 DEF Watch, SetFlag, Cache, Request, Uncache, Deliver
  <2> QED BY <1>a, <2>1
<1>6. ASSUME NEW d \in Downloads, NEW t \in Threads, Record(d, t) PROVE HasLink'
  <2>1. \A e \in Downloads, u \in Threads : pc'[e][u] \in {"guard", "cache"} => pc[e][u] \in {"guard", "cache"}
    BY <1>0, <1>6 DEF Record, Threads
  <2> QED BY <1>6, <2>1 DEF Record, HasLink
<1>7. ASSUME NEW d \in Downloads, NEW t \in Threads, Abandon(d, t) \/ Shut(d, t) PROVE HasLink'
  <2>1. /\ \E p : p \notin {"guard", "cache"} /\ Goto(d, t, p)
        /\ over' = over
        /\ st' = st \/ \E L : Close(L)
    BY <1>7 DEF Abandon, Shut, Then, TearDown
  <2>2. \A e \in Downloads : st'[e] = "pending" => st[e] = "pending"
    BY <2>1 DEF Close
  <2> QED BY <1>a, <2>1, <2>2
<1>8. ASSUME NEW d \in Downloads, Answer(d) \/ Cancel(d) PROVE HasLink'
  <2>1. /\ \E t \in Threads : \E p : p \notin {"guard", "cache"} /\ Goto(d, t, p)
        /\ over' = over /\ st' = st
    BY <1>8 DEF Answer, Cancel, Threads
  <2> QED BY <1>a, <2>1
<1>9. ASSUME NEW l \in Downloads, Establish(l) PROVE HasLink'
  <2>1. \A e \in Downloads : st'[e] = "pending" => st[e] = "pending"
    BY <1>0, <1>9 DEF Establish
  <2> QED BY <1>a, <1>9, <2>1 DEF Establish, HasLink, Threads
<1>10. CASE (\E l \in Downloads : RemoteClose(l)) \/ Sweep \/ Drop(Keys) \/ \E k \in Keys : Drop({k})
  <2>1. CASE \E l \in Downloads : RemoteClose(l)
    BY <1>b, <2>1 DEF RemoteClose
  <2>2. CASE \E K : CleansOut(K)
    BY <1>b, <2>2 DEF CleansOut
  <2> QED BY <1>10, <2>1, <2>2, SweepCleans, DropCleans
<1>11. CASE UNCHANGED vars
  BY <1>11 DEF vars, HasLink
<1> QED
  BY <1>1, <1>2, <1>3, <1>4, <1>5, <1>6, <1>7, <1>8, <1>9, <1>10, <1>11
     DEF Next, Step, Main, GiveUp

LEMMA TypedStep == OutcomeInv /\ Typed /\ HasLink /\ [Next]_vars => Typed'
<1> SUFFICES ASSUME OutcomeInv, Typed, HasLink, [Next]_vars PROVE Typed'
  OBVIOUS
<1> USE DEF store, links, self, flags
<1>t. told' \in [Downloads -> Told]
  BY OutcomeStep DEF OutcomeInv
<1>1. ASSUME NEW d \in Downloads, Start(d) PROVE Typed'
  <2>1. PICK k \in Keys, p \in BOOLEAN :
          /\ At(d, "main", "idle") /\ WatchedAlone(p)
          /\ key' = [key EXCEPT ![d] = k]
          /\ private' = IF p THEN private \cup {d} ELSE private
          /\ active' = active \cup {d}
          /\ told' = [told EXCEPT ![d] = "running"]
          /\ IF p THEN UNCHANGED store ELSE Looked(k)
          /\ IF ~p /\ Hit(k)
             THEN /\ link' = [link EXCEPT ![d] = cache[k]] /\ over' = [over EXCEPT ![d] = cache[k]]
                  /\ Goto(d, "main", "guard")
             ELSE UNCHANGED <<link, over>> /\ Goto(d, "main", "path")
          /\ UNCHANGED <<receipt, cancelled, delivered, links>>
    BY <1>1 DEF Start
  <2>2. cache' \in [Keys -> Downloads \cup {None}] /\ loose' \subseteq Downloads
    BY <2>1, LookedTyped DEF Typed
  <2>3. pc' \in [Downloads -> [Threads -> Pcs]]
    BY <2>1, GotoTyped DEF Threads, Pcs
  <2>4. link' \in [Downloads -> Downloads \cup {None}] /\ over' \in [Downloads -> Downloads \cup {None}]
    BY <2>1 DEF Typed, Hit
  <2> QED BY <1>t, <2>1, <2>2, <2>3, <2>4 DEF Typed
<1>2. ASSUME NEW d \in Downloads, Answer(d) PROVE Typed'
  <2>1. pc' \in [Downloads -> [Threads -> Pcs]]
    BY <1>2, GotoTyped DEF Answer, Threads, Pcs
  <2>2. told[d] # "idle" /\ Tells(d)
    BY <1>2, ClaimTells DEF Answer, OutcomeInv, IdleIsQuiet
  <2>3. delivered' \cup active' \cup cancelled' \subseteq Downloads
    BY <1>2, <2>2 DEF Typed, Tells, Answer, Claim, Tell
  <2>4. UNCHANGED <<cache, loose, key, private, link, over, st, replaced, cut>>
    BY <1>2 DEF Answer
  <2>5. receipt' \in [Downloads -> {"none", "sent", "out", "off"}]
    BY <1>2 DEF Answer, Typed
  <2>6. \A e \in Downloads : told'[e] # "idle" => told[e] # "idle"
    BY <2>2 DEF Tells, Typed
  <2> QED BY <1>t, <2>1, <2>3, <2>4, <2>5, <2>6 DEF Typed
<1>3. ASSUME NEW d \in Downloads, Cancel(d) PROVE Typed'
  <2>1. pc' \in [Downloads -> [Threads -> Pcs]]
    BY <1>3, GotoTyped DEF Cancel, Threads, Pcs
  <2> QED BY <1>3, <2>1 DEF Cancel, Typed
<1>4. ASSUME NEW d \in Downloads, Main(d) PROVE Typed'
  <2>1. pc' \in [Downloads -> [Threads -> Pcs]]
    <3>1. \E p \in Pcs : Goto(d, "main", p)
      BY <1>4 DEF Main, StopsWaiting, NoPath, PathFound, SeesActive, LinkTimesOut, Pcs
    <3> QED BY <3>1, GotoTyped DEF Threads
  <2>2. CASE PathFound(d)
    <3>1. key[d] \in Keys
      BY <2>2, GoerIsStarted DEF PathFound, At, Typed, Threads
    <3>2. cache' \in [Keys -> Downloads \cup {None}] /\ loose' \subseteq Downloads
      BY <2>2, <3>1, LookedTyped DEF PathFound, Typed
    <3>3. link' \in [Downloads -> Downloads \cup {None}] /\ over' \in [Downloads -> Downloads \cup {None}]
      BY <2>2, <3>1 DEF PathFound, Typed
    <3>4. st' \in [Downloads -> {"none", "pending", "active", "closed"}]
      BY <2>2 DEF PathFound, Typed
    <3> QED BY <2>1, <2>2, <3>2, <3>3, <3>4 DEF PathFound, Typed
  <2>3. CASE StopsWaiting(d) \/ NoPath(d) \/ SeesActive(d) \/ LinkTimesOut(d)
    <3>1. UNCHANGED <<store, self, flags, links>>
      BY <2>3 DEF StopsWaiting, NoPath, SeesActive, LinkTimesOut
    <3> QED BY <2>1, <3>1 DEF Typed
  <2> QED BY <1>4, <2>2, <2>3 DEF Main
<1>5. ASSUME NEW d \in Downloads, NEW t \in Threads,
             \/ t = "watch" /\ Watch(d)
             \/ t = "cancel" /\ SetFlag(d)
             \/ Guard(d, t) \/ Request(d, t)
      PROVE  Typed'
  <2>1. pc' \in [Downloads -> [Threads -> Pcs]]
    <3>1. \E p \in Pcs : Goto(d, t, p)
      BY <1>5 DEF Watch, SetFlag, Guard, Request, Pcs
    <3> QED BY <3>1, GotoTyped
  <2>2. UNCHANGED <<cache, loose, key, private, link, over, delivered, told, active, links>>
    BY <1>5 DEF Watch, SetFlag, Guard, Request
  <2>3. cancelled' \subseteq Downloads /\ receipt' \in [Downloads -> {"none", "sent", "out", "off"}]
    BY <1>5 DEF Watch, SetFlag, Guard, Request, Typed
  <2> QED BY <2>1, <2>2, <2>3 DEF Typed
<1>6. ASSUME NEW d \in Downloads, NEW t \in Threads, Cache(d, t) PROVE Typed'
  <2>1. pc' \in [Downloads -> [Threads -> Pcs]]
    BY <1>6, GotoTyped DEF Cache, Pcs
  <2>2. key[d] \in Keys /\ over[d] \in Downloads
    BY <1>6, GoerIsStarted DEF Cache, At, Typed, HasLink
  <2>3. cache' \in [Keys -> Downloads \cup {None}] /\ loose' \cup replaced' \subseteq Downloads
    <3>1. PICK out :
            /\ cache' = [m \in Keys |-> IF m = key[d] THEN over[d] ELSE IF m \in out THEN None ELSE cache[m]]
            /\ out \subseteq Keys
            /\ loose' = loose \cup ({cache[m] : m \in out \cup {key[d]}} \ {None, over[d]})
                              \cup (IF Concluded(d) THEN {over[d]} ELSE {})
            /\ replaced' = {m \in replaced \cup ({cache[key[d]]} \ {None}) : Active(m)} \ {over[d]}
      BY <1>6, <2>2, CacheLinkMoves DEF Cache
    <3> QED BY <2>2, <3>1 DEF Typed
  <2>4. UNCHANGED <<key, private, link, over, receipt, cancelled, delivered, told, active, st, cut>>
    BY <1>6 DEF Cache
  <2> QED BY <2>1, <2>3, <2>4 DEF Typed
<1>7. ASSUME NEW d \in Downloads, NEW t \in Threads, Record(d, t) PROVE Typed'
  <2>1. pc' \in [Downloads -> [Threads -> Pcs]] /\ receipt' \in [Downloads -> {"none", "sent", "out", "off"}]
    BY <1>7 DEF Record, Typed, Pcs, Threads
  <2> QED BY <1>7, <2>1 DEF Record, Typed
<1>8. ASSUME NEW d \in Downloads, NEW t \in Threads, Uncache(d, t) \/ Deliver(d, t) PROVE Typed'
  <2>1. pc' \in [Downloads -> [Threads -> Pcs]]
    <3>1. \E p \in Pcs : Goto(d, t, p)
      BY <1>8 DEF Uncache, Deliver, Pcs
    <3> QED BY <3>1, GotoTyped
  <2>2. told[d] # "idle" /\ Tells(d)
    BY <1>8, GoerIsStarted, FailTells DEF Uncache, Deliver, At
  <2>3. delivered' \cup active' \cup cancelled' \subseteq Downloads
    BY <1>8, <2>2 DEF Typed, Uncache, Deliver, Fail, Tell
  <2>4. \A e \in Downloads : told'[e] # "idle" => told[e] # "idle"
    BY <2>2 DEF Tells, Typed
  <2>5. key[d] \in Keys
    BY <2>2 DEF Typed
  <2>6. cache' \in [Keys -> Downloads \cup {None}] /\ loose' \subseteq Downloads
    BY <1>8, <2>5, WithoutTyped DEF Uncache, Deliver, Uncached, Typed
  <2>7. UNCHANGED <<self, links>>
    BY <1>8 DEF Uncache, Deliver
  <2> QED BY <1>t, <2>1, <2>3, <2>4, <2>6, <2>7 DEF Typed
<1>9. ASSUME NEW d \in Downloads, NEW t \in Threads, Abandon(d, t) \/ Shut(d, t) PROVE Typed'
  <2>1. pc' \in [Downloads -> [Threads -> Pcs]]
    <3>1. \E p \in Pcs : Goto(d, t, p)
      BY <1>9 DEF Abandon, Shut, Then, Pcs
    <3> QED BY <3>1, GotoTyped
  <2>2. UNCHANGED <<store, key, private, over, receipt, flags>>
    BY <1>9 DEF Abandon, Shut
  <2>3. CASE TearDown(d)
    <3>1. st' \in [Downloads -> {"none", "pending", "active", "closed"}] /\ replaced' \subseteq Downloads
      BY <2>3, CloseTyped DEF TearDown
    <3>2. link' \in [Downloads -> Downloads \cup {None}] /\ cut' \subseteq Downloads
      BY <2>3 DEF TearDown, Typed
    <3> QED BY <2>1, <2>2, <3>1, <3>2 DEF Typed
  <2>4. CASE UNCHANGED <<link, st, replaced, cut>>
    BY <2>1, <2>2, <2>4 DEF Typed
  <2> QED BY <1>9, <2>3, <2>4 DEF Abandon, Shut
<1>10. ASSUME NEW l \in Downloads, Establish(l) PROVE Typed'
  <2>1. pc' \in [Downloads -> [Threads -> Pcs]]
    BY <1>10, GotoTyped DEF Establish, Threads, Pcs
  <2> QED BY <1>10, <2>1 DEF Establish, Typed
<1>11. ASSUME NEW l \in Downloads, RemoteClose(l) PROVE Typed'
  BY <1>11, CloseTyped DEF RemoteClose, Typed
<1>12. ASSUME NEW K, K \subseteq Keys, NEW L, Without(K), Close(L), UNCHANGED <<pc, self, flags, cut>>
       PROVE Typed'
  BY <1>12, CloseTyped, WithoutTyped DEF Typed
<1>13. CASE Sweep \/ Drop(Keys) \/ \E k \in Keys : Drop({k})
  <2>1. PICK K : CleansOut(K)
    BY <1>13, SweepCleans, DropCleans
  <2> QED BY <1>12, <2>1 DEF CleansOut
<1>15. CASE UNCHANGED vars
  BY <1>15 DEF vars, Typed
<1> QED
  BY <1>1, <1>2, <1>3, <1>4, <1>5, <1>6, <1>7, <1>8, <1>9, <1>10, <1>11, <1>13, <1>15
     DEF Next, Step, GiveUp
--------------------------------------------------------------------------------
(* Nobody is forgotten *)

\* What a running download waits for is the business of one of its threads, or of
\* the thread that cancels it, which has set the flag and goes on to deliver.
CancelGoesOn(d) ==
  d \in cancelled => pc[d]["cancel"] \in {"abandon", "shut", "deliver"} \/ d \in delivered

Toil == {"path", "guard", "cache", "request", "record", "uncache", "deliver", "watching"}
Toils(d) == \/ \E t \in Threads : pc[d][t] \in Toil
            \/ pc[d]["main"] = "linking" /\ ~Active(d)

Attended(d) == CancelGoesOn(d) /\ (told[d] = "running" => d \in cancelled \/ Toils(d))

AttendedInv == OutcomeInv /\ Typed /\ HasLink /\ \A d \in Downloads : Attended(d)

LEMMA AttendedStart == Init => AttendedInv
  BY OutcomeStart, TypedStart, HasLinkStart DEF Init, AttendedInv, Attended, CancelGoesOn

LEMMA AttendedStep == AttendedInv /\ [Next]_vars => AttendedInv'
<1> SUFFICES ASSUME AttendedInv, [Next]_vars PROVE \A d \in Downloads : Attended(d)'
  BY OutcomeStep, TypedStep, HasLinkStep DEF AttendedInv
<1> USE DEF links, self, flags
<1>0. /\ pc \in [Downloads -> [Threads -> Pcs]] /\ told \in [Downloads -> Told]
      /\ st \in [Downloads -> {"none", "pending", "active", "closed"}]
      /\ \A d \in Downloads : Attended(d)
      /\ \A d \in Downloads : told[d] \in {"ok", "failed"} <=> d \in delivered
  BY DEF AttendedInv, Typed, OutcomeInv, EndedIsDelivered
<1>1. /\ "main" \in Threads /\ "est" \in Threads /\ "watch" \in Threads /\ "ans" \in Threads
      /\ "cancel" \in Threads
  BY DEF Threads
\* Those whose threads and flags stay.
<1>a. ASSUME NEW d \in Downloads, pc'[d] = pc[d], told'[d] = told[d],
             d \in cancelled' <=> d \in cancelled, d \in delivered' <=> d \in delivered,
             st'[d] = "active" => st[d] = "active"
      PROVE  Attended(d)'
  BY <1>0, <1>a DEF Attended, CancelGoesOn, Toils, Active
\* Those that were told.
<1>b. ASSUME NEW d \in Downloads, d \in delivered' PROVE Attended(d)'
  BY <1>b, OutcomeStep DEF Attended, CancelGoesOn, AttendedInv, OutcomeInv, EndedIsDelivered
\* A thread goes on, and leaves off only with an outcome.
<1>c. ASSUME NEW d \in Downloads, NEW t \in Threads, NEW p, NEW q,
             pc[d][t] = p, pc' = [pc EXCEPT ![d][t] = q],
             UNCHANGED <<told, cancelled, delivered>>,
             \A e \in Downloads : st'[e] = "active" => st[e] = "active",
             p \in Toil => q \in Toil \/ Concluded(d) \/ (q = "linking" /\ t = "main" /\ ~Active(d)'),
             p = "linking" /\ t = "main" => q \in Toil \/ Active(d) \/ Concluded(d),
             p \in {"abandon", "shut", "deliver"} /\ t = "cancel" => q \in {"abandon", "shut", "deliver"}
      PROVE  \A e \in Downloads : Attended(e)'
  <2>1. \A e \in Downloads \ {d} : pc'[e] = pc[e]
    BY <1>0, <1>c
  <2>2. \A e \in Downloads \ {d} : Attended(e)'
    BY <1>a, <1>c, <2>1
  <2>3. /\ pc'[d][t] = q /\ \A u \in Threads \ {t} : pc'[d][u] = pc[d][u]
    BY <1>0, <1>c
  <2>4. CancelGoesOn(d)'
    BY <1>0, <1>1, <1>c, <2>3 DEF Attended, CancelGoesOn
  <2>5. ASSUME told[d] = "running", d \notin cancelled PROVE Toils(d)'
    <3>1. Toils(d) /\ ~Concluded(d)
      BY <1>0, <2>5 DEF Attended, Concluded
    <3>2. CASE \E u \in Threads \ {t} : pc[d][u] \in Toil
      BY <2>3, <3>2 DEF Toils
    <3>3. CASE pc[d][t] \in Toil
      BY <1>c, <2>3, <3>1, <3>3 DEF Toils
    <3>4. CASE pc[d]["main"] = "linking" /\ ~Active(d)
      BY <1>1, <1>c, <2>3, <3>1, <3>4 DEF Toils, Active
    <3> QED BY <3>1, <3>2, <3>3, <3>4 DEF Toils
  <2>6. Attended(d)'
    BY <1>c, <2>4, <2>5 DEF Attended
  <2> QED BY <2>2, <2>6
<1>2. ASSUME NEW d \in Downloads, Start(d) PROVE \A e \in Downloads : Attended(e)'
  <2>1. /\ UNCHANGED <<cancelled, delivered, st>> /\ told' = [told EXCEPT ![d] = "running"]
        /\ \E p \in {"guard", "path"} : pc' = [pc EXCEPT ![d]["main"] = p]
        /\ pc[d]["main"] = "idle"
    BY <1>2 DEF Start, Goto, At
  <2>2. told[d] = "idle" /\ d \notin delivered
    BY <1>0, <2>1 DEF AttendedInv, OutcomeInv, StartedOnce
  <2>3. pc[d]["cancel"] = "idle"
    BY <1>1, <2>2 DEF AttendedInv, OutcomeInv, IdleIsQuiet
  <2>4. d \notin cancelled
    BY <1>0, <2>2, <2>3 DEF Attended, CancelGoesOn
  <2>5. Attended(d)'
    BY <1>0, <1>1, <2>1, <2>4 DEF Attended, CancelGoesOn, Toils, Toil
  <2>6. \A e \in Downloads \ {d} : pc'[e] = pc[e] /\ told'[e] = told[e]
    BY <1>0, <2>1
  <2> QED BY <1>a, <2>1, <2>5, <2>6
<1>3. ASSUME NEW d \in Downloads, PathFound(d) PROVE \A e \in Downloads : Attended(e)'
  <2>1. PICK q \in {"guard", "linking"} :
          /\ pc[d]["main"] = "path" /\ pc' = [pc EXCEPT ![d]["main"] = q]
          /\ q = "linking" => st' = [st EXCEPT ![d] = "pending"]
          /\ q = "guard" => st' = st
          /\ UNCHANGED <<told, cancelled, delivered>>
    BY <1>3 DEF PathFound, At, Goto
  <2>2. \A e \in Downloads : st'[e] = "active" => st[e] = "active"
    BY <1>0, <2>1
  <2>3. q = "linking" => ~Active(d)'
    BY <1>0, <2>1 DEF Active
  <2> QED BY <1>1, <1>c, <2>1, <2>2, <2>3 DEF Toil
<1>4. ASSUME NEW d \in Downloads, StopsWaiting(d) \/ NoPath(d) \/ SeesActive(d) \/ LinkTimesOut(d)
      PROVE  \A e \in Downloads : Attended(e)'
  <2>1. PICK p \in {"path", "linking"}, q \in {"done", "deliver"} :
          /\ pc[d]["main"] = p /\ pc' = [pc EXCEPT ![d]["main"] = q]
          /\ q = "done" => Concluded(d) \/ (p = "linking" /\ Active(d))
          /\ UNCHANGED <<told, cancelled, delivered, st>>
    BY <1>4 DEF StopsWaiting, NoPath, SeesActive, LinkTimesOut, At, Goto
  <2> QED BY <1>1, <1>c, <2>1 DEF Toil
<1>5. ASSUME NEW d \in Downloads, NEW t \in Threads,
             \/ t = "watch" /\ Watch(d)
             \/ Guard(d, t) \/ Cache(d, t) \/ Request(d, t)
      PROVE  \A e \in Downloads : Attended(e)'
  <2>1. PICK p \in {"watching", "guard", "cache", "request"}, q \in Toil \cup {"done"} :
          /\ pc[d][t] = p /\ pc' = [pc EXCEPT ![d][t] = q]
          /\ q = "done" => Concluded(d)
          /\ UNCHANGED <<told, cancelled, delivered, st>>
    BY <1>5 DEF Watch, Guard, Cache, Request, At, Goto, Toil
  <2> QED BY <1>1, <1>c, <2>1 DEF Toil
<1>6. ASSUME NEW d \in Downloads, SetFlag(d) PROVE \A e \in Downloads : Attended(e)'
  <2>1. /\ pc' = [pc EXCEPT ![d]["cancel"] = "abandon"] /\ cancelled' = cancelled \cup {d}
        /\ UNCHANGED <<told, delivered, st>>
    BY <1>6 DEF SetFlag, Goto
  <2>2. \A e \in Downloads \ {d} : pc'[e] = pc[e] /\ (e \in cancelled' <=> e \in cancelled)
    BY <1>0, <2>1
  <2>3. Attended(d)'
    BY <1>0, <1>1, <2>1 DEF Attended, CancelGoesOn
  <2> QED BY <1>a, <2>1, <2>2, <2>3
<1>7. ASSUME NEW d \in Downloads, NEW t \in Threads, Record(d, t)
      PROVE  \A e \in Downloads : Attended(e)'
  <2>1. /\ pc' = [pc EXCEPT ![d][t] = "done", ![d]["watch"] = "watching"] /\ pc[d][t] = "record"
        /\ UNCHANGED <<told, cancelled, delivered, st>>
    BY <1>7 DEF Record, At
  <2>2. \A e \in Downloads \ {d} : pc'[e] = pc[e]
    BY <1>0, <2>1
  <2>3. pc'[d]["watch"] = "watching" /\ (pc'[d]["cancel"] = pc[d]["cancel"] \/ t = "cancel")
    BY <1>0, <1>1, <2>1
  <2>4. Toils(d)'
    BY <1>1, <2>3 DEF Toils, Toil
  <2>5. Attended(d)'
    BY <1>0, <1>1, <2>1, <2>3, <2>4 DEF Attended, CancelGoesOn
  <2> QED BY <1>a, <2>1, <2>2, <2>5
<1>8. ASSUME NEW d \in Downloads, NEW t \in Threads, Uncache(d, t) \/ Deliver(d, t)
      PROVE  \A e \in Downloads : Attended(e)'
  <2>1. /\ Fail(d) /\ st' = st /\ \E q : pc' = [pc EXCEPT ![d][t] = q]
    BY <1>8 DEF Uncache, Deliver, Goto
  <2>2. d \in delivered' /\ cancelled' = cancelled /\ told[d] # "idle"
    BY <1>8, <2>1, GoerIsStarted DEF Fail, Tell, AttendedInv, Uncache, Deliver, At
  <2>3. \A e \in Downloads \ {d} : /\ pc'[e] = pc[e] /\ told'[e] = told[e]
                                   /\ (e \in delivered' <=> e \in delivered)
    BY <1>0, <2>1 DEF Fail, Tell
  <2> QED BY <1>a, <1>b, <2>1, <2>2, <2>3
<1>9. ASSUME NEW d \in Downloads, NEW t \in Threads, Abandon(d, t) \/ Shut(d, t)
      PROVE  \A e \in Downloads : Attended(e)'
  <2>1. PICK p \in {"abandon", "shut"}, q \in {"shut", "deliver", "done"} :
          /\ pc[d][t] = p /\ pc' = [pc EXCEPT ![d][t] = q]
          /\ t = "cancel" => q \in {"shut", "deliver"}
          /\ UNCHANGED <<told, cancelled, delivered>>
    BY <1>9 DEF Abandon, Shut, Then, At, Goto
  <2>2. \A e \in Downloads : st'[e] = "active" => st[e] = "active"
    BY <1>9 DEF Abandon, Shut, TearDown, Close
  <2> QED BY <1>1, <1>c, <2>1, <2>2 DEF Toil
<1>10. ASSUME NEW d \in Downloads, Answer(d) PROVE \A e \in Downloads : Attended(e)'
  <2>1. /\ \E q \in {"abandon", "done"} : pc' = [pc EXCEPT ![d]["ans"] = q]
        /\ \E r \in {"ok", "failed"} : Claim(d, r)
        /\ st' = st
    BY <1>10 DEF Answer, Goto
  <2>2. cancelled' = cancelled
    BY <2>1 DEF Claim, Tell
  <2>3. \A e \in Downloads \ {d} : /\ pc'[e] = pc[e] /\ told'[e] = told[e]
                                   /\ (e \in delivered' <=> e \in delivered)
    BY <1>0, <2>1 DEF Claim, Tell
  <2>4. Attended(d)'
    <3>1. CASE d \in delivered'
      BY <1>b, <3>1
    <3>2. CASE d \notin delivered'
      <4>1. d \in cancelled /\ told' = told
        BY <2>1, <3>2 DEF Claim, Tell, Concluded
      <4>2. pc'[d]["cancel"] = pc[d]["cancel"]
        BY <1>0, <2>1 DEF Threads
      <4>3. d \notin delivered
        BY <2>1, <3>2 DEF Claim, Tell
      <4> QED BY <1>0, <2>2, <4>1, <4>2, <4>3 DEF Attended, CancelGoesOn
    <3> QED BY <3>1, <3>2
  <2> QED BY <1>a, <2>1, <2>2, <2>3, <2>4
<1>11. ASSUME NEW d \in Downloads, Cancel(d) PROVE \A e \in Downloads : Attended(e)'
  <2>1. PICK q : /\ pc[d]["cancel"] = "idle" /\ pc' = [pc EXCEPT ![d]["cancel"] = q]
                 /\ UNCHANGED <<told, cancelled, delivered, st>>
    BY <1>11 DEF Cancel, At, Goto
  <2> QED BY <1>1, <1>c, <2>1 DEF Toil
<1>12. ASSUME NEW d \in Downloads, Establish(d) PROVE \A e \in Downloads : Attended(e)'
  <2>1. /\ pc' = [pc EXCEPT ![d]["est"] = "guard"] /\ st' = [st EXCEPT ![d] = "active"]
        /\ UNCHANGED <<told, cancelled, delivered>>
    BY <1>12 DEF Establish, Goto
  <2>2. \A e \in Downloads \ {d} : pc'[e] = pc[e] /\ st'[e] = st[e]
    BY <1>0, <2>1
  <2>3. pc'[d]["est"] = "guard" /\ pc'[d]["cancel"] = pc[d]["cancel"]
    BY <1>0, <2>1 DEF Threads
  <2>4. Attended(d)'
    BY <1>0, <1>1, <2>1, <2>3 DEF Attended, CancelGoesOn, Toils, Toil
  <2> QED BY <1>a, <2>1, <2>2, <2>4
<1>13. CASE \/ \E l \in Downloads : RemoteClose(l)
            \/ Sweep \/ Drop(Keys) \/ \E k \in Keys : Drop({k})
  <2>1. UNCHANGED <<pc, told, cancelled, delivered>> /\ \E L : Close(L)
    BY <1>13, SweepCleans, DropCleans DEF RemoteClose, CleansOut
  <2>2. \A e \in Downloads : st'[e] = "active" => st[e] = "active"
    BY <2>1 DEF Close
  <2> QED BY <1>a, <2>1, <2>2
<1>14. CASE UNCHANGED vars
  BY <1>a, <1>14 DEF vars
<1> QED
  BY <1>2, <1>3, <1>4, <1>5, <1>6, <1>7, <1>8, <1>9, <1>10, <1>11, <1>12, <1>13, <1>14
     DEF Next, Step, Main, GiveUp

\* NoneForgotten: whoever is first among the answer, the watchdog, the time-outs, a
\* refused request and the user who cancels, the threads of a download do not all
\* come to rest before its caller was told.
THEOREM NobodyIsForgotten == Spec => []NoneForgotten
<1>1. AttendedInv => NoneForgotten
  <2> SUFFICES ASSUME AttendedInv, NEW d \in Downloads, Settled(d), told[d] = "running" PROVE FALSE
    BY DEF NoneForgotten
  <2>1. d \in cancelled \/ Toils(d)
    BY DEF AttendedInv, Attended
  <2>2. d \notin delivered
    BY DEF AttendedInv, OutcomeInv, EndedIsDelivered
  <2>3. "main" \in Threads /\ "cancel" \in Threads
    BY DEF Threads
  <2> QED BY <2>1, <2>2, <2>3 DEF AttendedInv, Attended, CancelGoesOn, Toils, Toil, Settled
<1> QED BY <1>1, AttendedStart, AttendedStep, PTL DEF Spec

--------------------------------------------------------------------------------
(* Types *)

InOrder == used \subseteq Keys \X Keys /\ Ordered(used)

LEMMA InOrderStart == Init => InOrder
<1>1. Stamped({}) = {}
  BY DEF Stamped
<1> QED BY <1>1 DEF Init, InOrder, Ordered

LEMMA WithoutInOrder == ASSUME InOrder, NEW K, Without(K) PROVE InOrder'
<1>1. used' = Forget(used, K) /\ used \in SUBSET (Keys \X Keys) /\ Ordered(used)
  BY DEF Without, InOrder
<1> QED BY <1>1, ForgetOrders DEF InOrder

LEMMA LookedInOrder == ASSUME InOrder, NEW k \in Keys, Looked(k) PROVE InOrder'
<1>1. CASE Hit(k)
  <2>1. used' = Touch(used, k) /\ used \in SUBSET (Keys \X Keys) /\ Ordered(used)
    BY <1>1 DEF Looked, InOrder
  <2> QED BY <2>1, TouchOrders DEF InOrder
<1>2. CASE ~Hit(k)
  BY <1>2, WithoutInOrder DEF Looked, InOrder
<1> QED BY <1>1, <1>2

LEMMA CacheInOrder ==
  ASSUME InOrder, NEW k \in Keys, NEW l, NEW late, CacheLink(k, l, late)
  PROVE  InOrder'
<1>1. PICK out : used' = Forget(Touch(used, k), out)
  BY DEF CacheLink
<1> DEFINE new == Touch(used, k)
<1>2. new \in SUBSET (Keys \X Keys) /\ Ordered(new)
  BY TouchOrders DEF InOrder
<1> HIDE DEF new
<1>3. Forget(new, out) \subseteq Keys \X Keys /\ Ordered(Forget(new, out))
  BY <1>2, ForgetOrders
<1> QED BY <1>1, <1>3 DEF InOrder, new

LEMMA InOrderStep == OutcomeInv /\ Typed /\ InOrder /\ [Next]_vars => InOrder'
<1> SUFFICES ASSUME OutcomeInv, Typed, InOrder, [Next]_vars PROVE InOrder'
  OBVIOUS
<1>s. ASSUME UNCHANGED store PROVE InOrder'
  BY <1>s DEF store, InOrder
<1>k. ASSUME NEW d \in Downloads, NEW t \in Threads, pc[d][t] # "idle" PROVE key[d] \in Keys
  BY <1>k DEF OutcomeInv, IdleIsQuiet, Typed
<1>1. ASSUME NEW d \in Downloads, Start(d) PROVE InOrder'
  <2>1. PICK k \in Keys : UNCHANGED store \/ Looked(k)
    BY <1>1 DEF Start
  <2> QED BY <2>1, <1>s, LookedInOrder
<1>2. ASSUME NEW d \in Downloads, PathFound(d) PROVE InOrder'
  <2>1. key[d] \in Keys
    BY <1>2, <1>k DEF PathFound, At, Threads
  <2> QED BY <1>2, <2>1, <1>s, LookedInOrder DEF PathFound
<1>3. ASSUME NEW d \in Downloads, NEW t \in Threads, Cache(d, t) PROVE InOrder'
  <2>1. key[d] \in Keys
    BY <1>3, <1>k DEF Cache, At
  <2> QED BY <1>3, <2>1, CacheInOrder DEF Cache
<1>4. ASSUME NEW d \in Downloads, NEW t \in Threads, Uncache(d, t) PROVE InOrder'
  BY <1>4, <1>s, WithoutInOrder DEF Uncache, Uncached
<1>5. ASSUME NEW K, Drop(K) PROVE InOrder'
  BY <1>5, WithoutInOrder DEF Drop
<1>6. CASE Sweep
  BY <1>6, WithoutInOrder DEF Sweep
<1>7. ASSUME NEW d \in Downloads, NEW t \in Threads,
             \/ Answer(d) \/ Cancel(d) \/ SetFlag(d) \/ Establish(d) \/ RemoteClose(d)
             \/ StopsWaiting(d) \/ NoPath(d) \/ SeesActive(d) \/ LinkTimesOut(d) \/ Watch(d)
             \/ Guard(d, t) \/ Request(d, t) \/ Record(d, t) \/ Deliver(d, t)
             \/ Abandon(d, t) \/ Shut(d, t)
      PROVE  InOrder'
  BY <1>7, <1>s
     DEF Answer, Cancel, SetFlag, Establish, RemoteClose, StopsWaiting, NoPath, SeesActive, LinkTimesOut,
         Watch, Guard, Request, Record, Deliver, Abandon, Shut
<1>8. CASE UNCHANGED vars
  BY <1>8, <1>s DEF vars
<1>9. "main" \in Threads
  BY DEF Threads
<1> QED BY <1>1, <1>2, <1>3, <1>4, <1>5, <1>6, <1>7, <1>8, <1>9 DEF Next, Step, Main, GiveUp

\* The tables and the states of downloads, threads and links have their types,
\* and the times of last use are a total order (nomadnet_cached_links,
\* _nomadnet_link_last_used, the fields of NomadnetDownloader).
THEOREM Types == Spec => []TypeOK
<1>1. Init => OutcomeInv /\ Typed /\ HasLink /\ InOrder
  BY OutcomeStart, TypedStart, HasLinkStart, InOrderStart
<1>2. OutcomeInv /\ Typed /\ HasLink /\ InOrder /\ [Next]_vars
      => (OutcomeInv /\ Typed /\ HasLink /\ InOrder)'
  BY OutcomeStep, TypedStep, HasLinkStep, InOrderStep
<1>3. OutcomeInv /\ Typed /\ HasLink /\ InOrder => TypeOK
  BY DEF Typed, InOrder, TypeOK, Pcs, Told
<1> QED BY <1>1, <1>2, <1>3, PTL DEF Spec


--------------------------------------------------------------------------------
(* Where the threads are *)

Asks == {"guard", "cache", "request", "record"}

\* The places each thread comes to.  Only one of main and est works on the link, and
\* until it has recorded the request nobody watches and nobody answers.
Places(d) ==
  /\ pc[d]["main"] \in {"idle", "path", "linking", "uncache", "deliver", "abandon", "shut", "done"} \cup Asks
  /\ pc[d]["est"] \in {"idle", "uncache", "abandon", "shut", "done"} \cup Asks
  /\ pc[d]["watch"] \in {"idle", "watching", "uncache", "abandon", "shut", "done"}
  /\ pc[d]["ans"] \in {"idle", "abandon", "done"} /\ (pc[d]["ans"] = "abandon" => d \in private)
  /\ pc[d]["cancel"] \in {"idle", "flag", "abandon", "shut", "deliver", "done"}

Before(d) ==
  /\ pc[d]["main"] \in {"idle", "path"} \cup Asks => ~Open(d) /\ pc[d]["est"] = "idle"
  /\ st[d] = "pending" => pc[d]["est"] = "idle"
  /\ \/ pc[d]["main"] \in {"idle", "path"} \cup Asks \/ pc[d]["est"] \in Asks
     \/ st[d] = "pending"
     => pc[d]["watch"] = "idle"
  /\ \/ pc[d]["main"] \in {"idle", "path", "guard", "cache", "request"}
     \/ pc[d]["est"] \in {"guard", "cache", "request"}
     \/ st[d] = "pending"
     => receipt[d] = "none"
  /\ receipt[d] # "off" => pc[d]["ans"] = "idle"

Placed == \A d \in Downloads : Places(d) /\ Before(d)

Base == OutcomeInv /\ Typed /\ HasLink

LEMMA PlacedStart == Init => Placed
  BY DEF Init, Placed, Places, Before, Threads, Open, Asks

LEMMA PlacedStep == Base /\ Placed /\ [Next]_vars => Placed'
<1> SUFFICES ASSUME Base, Placed, [Next]_vars PROVE Placed'
  OBVIOUS
<1> USE DEF links, self, flags
<1>0. /\ pc \in [Downloads -> [Threads -> Pcs]] /\ receipt \in [Downloads -> {"none", "sent", "out", "off"}]
      /\ st \in [Downloads -> {"none", "pending", "active", "closed"}]
      /\ \A d \in Downloads : Places(d) /\ Before(d)
      /\ Threads = {"main", "est", "watch", "ans", "cancel"}
  BY DEF Base, Typed, Placed, Threads
\* Downloads none of whose threads goes on.
<1>a. ASSUME NEW d \in Downloads, pc'[d] = pc[d], receipt'[d] = receipt[d], private \subseteq private',
             st'[d] \in {st[d], "closed"}
      PROVE  (Places(d) /\ Before(d))'
  BY <1>0, <1>a DEF Places, Before, Open
<1>b. ASSUME NEW d \in Downloads, NEW t \in Threads, NEW q, pc' = [pc EXCEPT ![d][t] = q],
             private \subseteq private',
             \A e \in Downloads \ {d} : st'[e] \in {st[e], "closed"} /\ receipt'[e] = receipt[e],
             (Places(d) /\ Before(d))'
      PROVE  Placed'
  <2>1. \A e \in Downloads \ {d} : pc'[e] = pc[e]
    BY <1>0, <1>b
  <2> QED BY <1>a, <1>b, <2>1 DEF Placed
\* The own moves.
<1>c. ASSUME NEW d \in Downloads, NEW t \in Threads, NEW q, pc' = [pc EXCEPT ![d][t] = q]
      PROVE  pc'[d][t] = q /\ \A u \in Threads \ {t} : pc'[d][u] = pc[d][u]
  BY <1>0, <1>c
<1>1. ASSUME NEW d \in Downloads, Start(d) PROVE Placed'
  <2>1. PICK q \in {"guard", "path"} :
          /\ pc[d]["main"] = "idle" /\ pc' = [pc EXCEPT ![d]["main"] = q]
          /\ UNCHANGED <<receipt, st>> /\ private \subseteq private'
    BY <1>1 DEF Start, At, Goto
  <2>2. (Places(d) /\ Before(d))'
    BY <1>0, <1>c, <2>1 DEF Places, Before, Open, Asks
  <2> QED BY <1>0, <1>b, <2>1, <2>2
<1>2. ASSUME NEW d \in Downloads, PathFound(d) PROVE Placed'
  <2>1. PICK q \in {"guard", "linking"} :
          /\ pc[d]["main"] = "path" /\ pc' = [pc EXCEPT ![d]["main"] = q]
          /\ q = "linking" => st' = [st EXCEPT ![d] = "pending"]
          /\ q = "guard" => st' = st
          /\ UNCHANGED <<receipt, private>>
    BY <1>2 DEF PathFound, At, Goto
  <2>2. Places(d)'
    BY <1>0, <1>c, <2>1 DEF Places, Asks
  <2>3. Before(d)'
    BY <1>0, <1>c, <2>1 DEF Before, Open, Asks
  <2> QED BY <1>0, <1>b, <2>1, <2>2, <2>3
<1>3. ASSUME NEW d \in Downloads, StopsWaiting(d) \/ NoPath(d) \/ SeesActive(d) \/ LinkTimesOut(d)
      PROVE  Placed'
  <2>1. PICK q \in {"done", "deliver"} :
          /\ pc[d]["main"] \in {"path", "linking"} /\ pc' = [pc EXCEPT ![d]["main"] = q]
          /\ UNCHANGED <<receipt, st, private>>
    BY <1>3 DEF StopsWaiting, NoPath, SeesActive, LinkTimesOut, At, Goto
  <2>2. (Places(d) /\ Before(d))'
    BY <1>0, <1>c, <2>1 DEF Places, Before, Open, Asks
  <2> QED BY <1>0, <1>b, <2>1, <2>2
<1>4. ASSUME NEW d \in Downloads, NEW t \in Threads, Guard(d, t) PROVE Placed'
  <2>1. PICK q \in {"done", "cache", "request"} :
          /\ pc[d][t] = "guard" /\ pc' = [pc EXCEPT ![d][t] = q] /\ UNCHANGED <<receipt, st, private>>
    BY <1>4 DEF Guard, At, Goto
  <2>2. (Places(d) /\ Before(d))'
    BY <1>0, <1>c, <2>1 DEF Places, Before, Open, Asks
  <2> QED BY <1>0, <1>b, <2>1, <2>2
<1>5. ASSUME NEW d \in Downloads, NEW t \in Threads, Cache(d, t) PROVE Placed'
  <2>1. /\ pc[d][t] = "cache" /\ pc' = [pc EXCEPT ![d][t] = "request"] /\ UNCHANGED <<receipt, st, private>>
    BY <1>5 DEF Cache, At, Goto
  <2>2. (Places(d) /\ Before(d))'
    BY <1>0, <1>c, <2>1 DEF Places, Before, Open, Asks
  <2> QED BY <1>0, <1>b, <2>1, <2>2
<1>6. ASSUME NEW d \in Downloads, NEW t \in Threads, Request(d, t) PROVE Placed'
  <2>1. PICK q \in {"record", "uncache"} :
          /\ pc[d][t] = "request" /\ pc' = [pc EXCEPT ![d][t] = q] /\ UNCHANGED <<st, private>>
          /\ receipt' = IF q = "record" THEN [receipt EXCEPT ![d] = "sent"] ELSE receipt
    BY <1>6 DEF Request, At, Goto
  <2>2. Places(d)'
    BY <1>0, <1>c, <2>1 DEF Places, Asks
  <2>3. /\ pc'[d][t] = q /\ \A u \in Threads \ {t} : pc'[d][u] = pc[d][u]
        /\ receipt'[d] \in {receipt[d], "sent"} /\ st'[d] = st[d] /\ Open(d)' = Open(d)
        /\ q = "uncache" => receipt'[d] = receipt[d]
    BY <1>0, <1>c, <2>1 DEF Open
  <2>4. t = "main" => Before(d)'
    BY <1>0, <2>1, <2>3 DEF Before, Open, Asks
  <2>5. t = "est" => Before(d)'
    BY <1>0, <2>1, <2>3 DEF Before, Open, Asks
  <2>6. t \in {"main", "est"}
    BY <1>0, <2>1 DEF Places
  <2> QED BY <1>0, <1>b, <2>1, <2>2, <2>4, <2>5, <2>6
<1>7. ASSUME NEW d \in Downloads, NEW t \in Threads, Record(d, t) PROVE Placed'
  <2>1. /\ pc[d][t] = "record" /\ pc' = [pc EXCEPT ![d][t] = "done", ![d]["watch"] = "watching"]
        /\ UNCHANGED <<st, private>>
        /\ receipt' = [receipt EXCEPT ![d] = IF @ = "sent" THEN "out" ELSE @]
    BY <1>7 DEF Record, At
  <2>2. t \in {"main", "est"}
    BY <1>0, <2>1 DEF Places
  <2>3. /\ pc'[d][t] = "done" /\ pc'[d]["watch"] = "watching"
        /\ \A u \in Threads \ {t, "watch"} : pc'[d][u] = pc[d][u]
        /\ \A e \in Downloads \ {d} : pc'[e] = pc[e]
    BY <1>0, <2>1, <2>2
  <2>4. Places(d)'
    BY <1>0, <2>1, <2>2, <2>3 DEF Places, Asks
  <2>5. Before(d)'
    BY <1>0, <2>1, <2>2, <2>3 DEF Places, Before, Open, Asks
  <2> QED BY <1>0, <1>a, <2>1, <2>3, <2>4, <2>5 DEF Placed
<1>8. ASSUME NEW d \in Downloads, NEW t \in Threads,
             \/ t = "watch" /\ Watch(d)
             \/ Uncache(d, t) \/ Deliver(d, t)
      PROVE  Placed'
  <2>1. PICK q \in {"done", "uncache", "abandon"} :
          /\ pc' = [pc EXCEPT ![d][t] = q] /\ UNCHANGED <<receipt, st, private>>
          /\ \/ pc[d][t] = "watching" /\ t = "watch" /\ q \in {"done", "uncache"}
             \/ pc[d][t] = "uncache" /\ q = "abandon"
             \/ pc[d][t] = "deliver" /\ q = IF t = "cancel" THEN "done" ELSE "abandon"
    BY <1>8 DEF Watch, Uncache, Deliver, At, Goto
  <2>2. Places(d)'
    BY <1>0, <1>c, <2>1 DEF Places, Asks
  <2>3. Before(d)'
    BY <1>0, <1>c, <2>1 DEF Places, Before, Open, Asks
  <2> QED BY <1>0, <1>b, <2>1, <2>2, <2>3
<1>9. ASSUME NEW d \in Downloads, NEW t \in Threads, Abandon(d, t) \/ Shut(d, t) PROVE Placed'
  <2>1. PICK q \in {"done", "deliver", "shut"} :
          /\ pc[d][t] \in {"abandon", "shut"} /\ pc' = [pc EXCEPT ![d][t] = q]
          /\ UNCHANGED <<receipt, private>>
          /\ q = "deliver" <=> t = "cancel" /\ q # "shut"
          /\ q = "shut" => d \notin private
    BY <1>9 DEF Abandon, Shut, Then, At, Goto
  <2>2. \A e \in Downloads : st'[e] \in {st[e], "closed"}
    BY <1>9 DEF Abandon, Shut, TearDown, Close
  <2>3. Places(d)'
    BY <1>0, <1>c, <2>1 DEF Places, Asks
  <2>4. Before(d)'
    BY <1>0, <1>c, <2>1, <2>2 DEF Places, Before, Open, Asks
  <2> QED BY <1>0, <1>b, <2>1, <2>2, <2>3, <2>4
<1>10. ASSUME NEW d \in Downloads, Answer(d) PROVE Placed'
  <2>1. PICK q \in {"abandon", "done"} :
          /\ pc' = [pc EXCEPT ![d]["ans"] = q] /\ (q = "abandon" => d \in private)
          /\ receipt[d] # "none" /\ receipt' = [receipt EXCEPT ![d] = "off"] /\ UNCHANGED <<st, private>>
    BY <1>10 DEF Answer, Goto
  <2>2. Places(d)'
    BY <1>0, <1>c, <2>1 DEF Places, Asks
  <2>3. Before(d)'
    BY <1>0, <1>c, <2>1 DEF Before, Open, Asks
  <2> QED BY <1>0, <1>b, <2>1, <2>2, <2>3
<1>11. ASSUME NEW d \in Downloads, Cancel(d) \/ SetFlag(d) PROVE Placed'
  <2>1. PICK q \in {"flag", "abandon", "done"} :
          /\ pc' = [pc EXCEPT ![d]["cancel"] = q] /\ UNCHANGED <<st, private>>
          /\ \/ receipt' = receipt
             \/ receipt[d] = "out" /\ receipt' = [receipt EXCEPT ![d] = "off"]
    <3>1. \/ receipt' = receipt
          \/ receipt[d] = "out" /\ receipt' = [receipt EXCEPT ![d] = "off"]
      BY <1>0, <1>11 DEF Cancel, SetFlag
    <3> QED BY <1>11, <3>1 DEF Cancel, SetFlag, At, Goto
  <2>2. Places(d)'
    BY <1>0, <1>c, <2>1 DEF Places, Asks
  <2>3. Before(d)'
    BY <1>0, <1>c, <2>1 DEF Before, Open, Asks
  <2> QED BY <1>0, <1>b, <2>1, <2>2, <2>3
<1>12. ASSUME NEW d \in Downloads, Establish(d) PROVE Placed'
  <2>1. /\ pc' = [pc EXCEPT ![d]["est"] = "guard"] /\ st[d] = "pending" /\ st' = [st EXCEPT ![d] = "active"]
        /\ UNCHANGED <<receipt, private>>
    BY <1>12 DEF Establish, Goto
  <2>2. Places(d)'
    BY <1>0, <1>c, <2>1 DEF Places, Asks
  <2>3. Before(d)'
    BY <1>0, <1>c, <2>1 DEF Before, Open, Asks
  <2> QED BY <1>0, <1>b, <2>1, <2>2, <2>3
<1>13. CASE \/ \E l \in Downloads : RemoteClose(l)
            \/ Sweep \/ Drop(Keys) \/ \E k \in Keys : Drop({k})
  <2>1. UNCHANGED <<pc, receipt, private>> /\ \E L : Close(L)
    BY <1>13, SweepCleans, DropCleans DEF RemoteClose, CleansOut
  <2>2. \A e \in Downloads : st'[e] \in {st[e], "closed"}
    BY <2>1 DEF Close
  <2> QED BY <1>a, <2>1, <2>2 DEF Placed
<1>14. CASE UNCHANGED vars
  BY <1>a, <1>14 DEF vars, Placed
<1> QED
  BY <1>1, <1>2, <1>3, <1>4, <1>5, <1>6, <1>7, <1>8, <1>9, <1>10, <1>11, <1>12, <1>13, <1>14
     DEF Next, Step, Main, GiveUp

--------------------------------------------------------------------------------
(* What a step may do to the cache and to the links a download holds *)

\* What leaves the cache is loose, and what enters it comes from a thread at "cache".
StoreMoves ==
  /\ loose \subseteq loose'
  /\ \A k \in Keys : \/ cache'[k] = cache[k] \/ cache[k] \in loose' \cup {None}
                     \/ \E m \in Keys : cache'[m] = cache[k]
  /\ \A k \in Keys : \/ cache'[k] \in {cache[k], None}
                     \/ \E d \in Downloads, t \in Threads :
                          /\ pc[d][t] = "cache" /\ k = key[d] /\ cache'[k] = over[d]
                          /\ Concluded(d) => over[d] \in loose'

LEMMA StoreStep == Base /\ [Next]_vars => StoreMoves
<1> SUFFICES ASSUME Base, [Next]_vars PROVE StoreMoves
  OBVIOUS
<1> USE DEF store
<1>0. cache \in [Keys -> Downloads \cup {None}]
  BY DEF Base, Typed
<1>a. UNCHANGED store => StoreMoves
  BY DEF StoreMoves
<1>b. ASSUME NEW K, Without(K) PROVE StoreMoves
  BY <1>0, <1>b DEF Without, StoreMoves
<1>c. ASSUME NEW k, Looked(k) PROVE StoreMoves
  <2>1. CASE cache' = cache /\ loose' = loose
    BY <1>a, <2>1 DEF StoreMoves
  <2>2. CASE Without({k})
    BY <1>b, <2>2
  <2> QED BY <1>c, <2>1, <2>2 DEF Looked
<1>1. ASSUME NEW d \in Downloads, NEW t \in Threads, Cache(d, t) PROVE StoreMoves
  <2>1. key[d] \in Keys /\ pc[d][t] = "cache"
    BY <1>1, GoerIsStarted DEF Base, Typed, Cache, At
  <2>2. PICK out :
          /\ cache' = [m \in Keys |-> IF m = key[d] THEN over[d] ELSE IF m \in out THEN None ELSE cache[m]]
          /\ loose' = loose \cup ({cache[m] : m \in out \cup {key[d]}} \ {None, over[d]})
                            \cup (IF Concluded(d) THEN {over[d]} ELSE {})
    BY <1>1, <2>1, CacheLinkMoves DEF Cache
  <2>3. loose \subseteq loose' /\ (Concluded(d) => over[d] \in loose')
    BY <2>2
  <2>4. ASSUME NEW k \in Keys PROVE  \/ cache'[k] = cache[k] \/ cache[k] \in loose' \cup {None}
               \/ \E m \in Keys : cache'[m] = cache[k]
    BY <2>1, <2>2
  <2>5. ASSUME NEW k \in Keys
        PROVE  cache'[k] \in {cache[k], None} \/ (k = key[d] /\ cache'[k] = over[d])
    BY <2>1, <2>2
  <2> QED BY <2>1, <2>3, <2>4, <2>5 DEF StoreMoves
<1>2. ASSUME NEW d \in Downloads, Start(d) \/ PathFound(d) PROVE StoreMoves
  <2>1. UNCHANGED store \/ \E k : Looked(k)
    BY <1>2 DEF Start, PathFound
  <2> QED BY <1>a, <1>c, <2>1
<1>3. ASSUME NEW d \in Downloads, NEW t \in Threads, Uncache(d, t) PROVE StoreMoves
  <2>1. UNCHANGED store \/ \E K : Without(K)
    BY <1>3 DEF Uncache, Uncached
  <2> QED BY <1>a, <1>b, <2>1
<1>4. CASE Sweep \/ Drop(Keys) \/ \E k \in Keys : Drop({k})
  <2>1. \E K : Without(K)
    BY <1>4, SweepCleans, DropCleans DEF CleansOut
  <2> QED BY <1>b, <2>1
<1>5. ASSUME NEW d \in Downloads, NEW t \in Threads,
             \/ StopsWaiting(d) \/ NoPath(d) \/ SeesActive(d) \/ LinkTimesOut(d)
             \/ Watch(d) \/ SetFlag(d) \/ Guard(d, t) \/ Request(d, t) \/ Record(d, t)
             \/ Deliver(d, t) \/ Abandon(d, t) \/ Shut(d, t)
             \/ Answer(d) \/ Cancel(d) \/ Establish(d) \/ RemoteClose(d)
      PROVE  StoreMoves
  <2>1. UNCHANGED store
    BY <1>5 DEF StopsWaiting, NoPath, SeesActive, LinkTimesOut, Watch, SetFlag, Guard, Request, Record,
       Deliver, Abandon, Shut, Answer, Cancel, Establish, RemoteClose
  <2> QED BY <1>a, <2>1
<1>6. CASE UNCHANGED vars
  BY <1>a, <1>6 DEF vars
<1>7. "main" \in Threads
  BY DEF Threads
<1> QED
  BY <1>1, <1>2, <1>3, <1>4, <1>5, <1>6, <1>7 DEF Next, Step, Main, GiveUp

\* A download takes a link, its own or one it found in the cache, when its main
\* thread leaves the search for a path; later it can only let go of it.
Takes(e) ==
  /\ over'[e] = link'[e] /\ told'[e] # "idle" /\ key'[e] \in Keys
  /\ pc[e]["main"] \in {"idle", "path"} /\ pc'[e]["main"] \notin {"idle", "path"}
  /\ \/ link'[e] = e /\ ~Concluded(e)
     \/ /\ link'[e] = cache[key'[e]] /\ link'[e] # None /\ Active(link'[e])
        /\ cache'[key'[e]] = cache[key'[e]]

LinkMoves(e) ==
  /\ key'[e] = key[e] \/ (told[e] = "idle" /\ pc[e]["main"] = "idle")
  /\ (over'[e] = over[e] /\ link'[e] \in {link[e], None}) \/ Takes(e)

LEMMA LinkStep == Base /\ [Next]_vars => \A e \in Downloads : LinkMoves(e)
<1> SUFFICES ASSUME Base, [Next]_vars PROVE \A e \in Downloads : LinkMoves(e)
  OBVIOUS
<1> USE DEF self, links
<1>0. /\ pc \in [Downloads -> [Threads -> Pcs]] /\ "main" \in Threads
      /\ key \in [Downloads -> Keys \cup {None}]
      /\ link \in [Downloads -> Downloads \cup {None}]
      /\ over \in [Downloads -> Downloads \cup {None}]
      /\ told \in [Downloads -> Told]
  BY DEF Base, Typed, Threads
<1>1. ASSUME NEW d \in Downloads, Start(d) PROVE \A e \in Downloads : LinkMoves(e)
  <2>1. PICK k \in Keys, p \in BOOLEAN :
          /\ At(d, "main", "idle")
          /\ key' = [key EXCEPT ![d] = k]
          /\ told' = [told EXCEPT ![d] = "running"]
          /\ IF p THEN UNCHANGED store ELSE Looked(k)
          /\ IF ~p /\ Hit(k)
             THEN /\ link' = [link EXCEPT ![d] = cache[k]] /\ over' = [over EXCEPT ![d] = cache[k]]
                  /\ Goto(d, "main", "guard")
             ELSE UNCHANGED <<link, over>> /\ Goto(d, "main", "path")
    BY <1>1 DEF Start
  <2>2. told[d] = "idle" /\ pc[d]["main"] = "idle"
    BY <2>1 DEF At, Base, OutcomeInv, StartedOnce
  <2>3. \A e \in Downloads \ {d} : key'[e] = key[e] /\ over'[e] = over[e] /\ link'[e] = link[e]
    BY <1>0, <2>1
  <2>4. CASE p \/ ~Hit(k)
    BY <2>1, <2>2, <2>3, <2>4 DEF LinkMoves
  <2>5. CASE ~p /\ Hit(k)
    <3>1. Looked(k) /\ cache' = cache
      BY <2>1, <2>5 DEF Looked
    <3>2. pc'[d]["main"] = "guard" /\ key'[d] = k /\ link'[d] = cache[k] /\ over'[d] = cache[k]
          /\ told'[d] = "running"
      BY <1>0, <2>1, <2>5 DEF Goto
    <3>3. Takes(d)
      BY <2>2, <2>5, <3>1, <3>2 DEF Takes, Hit
    <3> QED BY <2>2, <2>3, <3>3 DEF LinkMoves
  <2> QED BY <2>4, <2>5
<1>2. ASSUME NEW d \in Downloads, PathFound(d) PROVE \A e \in Downloads : LinkMoves(e)
  <2>1. /\ pc[d]["main"] = "path" /\ told[d] # "idle" /\ key[d] \in Keys
        /\ UNCHANGED <<key, told>>
    BY <1>2, GoerIsStarted, <1>0 DEF PathFound, At, Base, Typed, flags
  <2> DEFINE hit == d \notin private /\ Hit(key[d])
  <2>2. /\ hit \/ ~Concluded(d)
        /\ hit => Looked(key[d])
        /\ link' = [link EXCEPT ![d] = IF hit THEN cache[key[d]] ELSE d]
        /\ over' = [over EXCEPT ![d] = link'[d]]
        /\ Goto(d, "main", IF hit THEN "guard" ELSE "linking")
    BY <1>2 DEF PathFound
  <2>3. hit => cache' = cache /\ cache[key[d]] # None /\ Active(cache[key[d]])
    BY <2>2 DEF Looked, Hit
  <2> HIDE DEF hit
  <2>4. \A e \in Downloads \ {d} : over'[e] = over[e] /\ link'[e] = link[e]
    BY <1>0, <2>2
  <2>5. Takes(d)
    <3>1. pc'[d]["main"] \in {"guard", "linking"}
      BY <1>0, <2>2 DEF Goto
    <3>2. /\ link'[d] = IF hit THEN cache[key[d]] ELSE d
          /\ over'[d] = link'[d]
      BY <1>0, <2>2
    <3> QED BY <2>1, <2>2, <2>3, <3>1, <3>2 DEF Takes
  <2> QED BY <2>1, <2>4, <2>5 DEF LinkMoves
<1>3. ASSUME NEW d \in Downloads, NEW t \in Threads,
             \/ StopsWaiting(d) \/ NoPath(d) \/ SeesActive(d) \/ LinkTimesOut(d)
             \/ Watch(d) \/ SetFlag(d) \/ Guard(d, t) \/ Cache(d, t) \/ Request(d, t) \/ Record(d, t)
             \/ Uncache(d, t) \/ Deliver(d, t) \/ Answer(d) \/ Cancel(d)
             \/ Establish(d) \/ RemoteClose(d)
      PROVE  \A e \in Downloads : LinkMoves(e)
  <2>1. UNCHANGED <<key, over, link>>
    BY <1>3 DEF StopsWaiting, NoPath, SeesActive, LinkTimesOut, Watch, SetFlag, Guard, Cache, Request,
       Record, Uncache, Deliver, Answer, Cancel, Establish, RemoteClose
  <2> QED BY <2>1 DEF LinkMoves
<1>4. ASSUME NEW d \in Downloads, NEW t \in Threads, Abandon(d, t) \/ Shut(d, t)
      PROVE  \A e \in Downloads : LinkMoves(e)
  <2>1. UNCHANGED <<key, over>> /\ (link' = link \/ link' = [link EXCEPT ![d] = None])
    BY <1>4 DEF Abandon, Shut, TearDown
  <2> QED BY <1>0, <2>1 DEF LinkMoves
<1>5. CASE Sweep \/ Drop(Keys) \/ \E k \in Keys : Drop({k})
  BY <1>5, SweepCleans, DropCleans DEF CleansOut, LinkMoves
<1>6. CASE UNCHANGED vars
  BY <1>6 DEF vars, LinkMoves
<1> QED
  BY <1>0, <1>1, <1>2, <1>3, <1>4, <1>5, <1>6 DEF Next, Step, Main, GiveUp

\* How a thread comes to abandon a link, and to tear it down.
Fine(e, t) ==
  /\ pc'[e][t] = "abandon" => pc[e][t] = "abandon" \/ Concluded(e)'
  /\ pc'[e][t] = "shut" => \/ pc[e][t] = "shut"
                           \/ /\ pc[e][t] = "abandon" /\ e \notin private
                              /\ link[e] # None /\ cache[key[e]] # link[e]
                              /\ link'[e] = link[e] /\ cache' = cache

GivesUp(e) ==
  /\ Concluded(e) => Concluded(e)'
  /\ pc'[e]["main"] \in {"idle", "path"} => pc[e]["main"] \in {"idle", "path"}
  /\ \A t \in Threads : Fine(e, t)

LEMMA AbandonStep == Base /\ Placed /\ [Next]_vars => \A e \in Downloads : GivesUp(e)
<1> SUFFICES ASSUME Base, Placed, [Next]_vars PROVE \A e \in Downloads : GivesUp(e)
  OBVIOUS
<1> USE DEF links, flags, self
<1>0. pc \in [Downloads -> [Threads -> Pcs]] /\ "main" \in Threads /\ "watch" \in Threads
      /\ "ans" \in Threads /\ "cancel" \in Threads /\ "est" \in Threads
      /\ \A d \in Downloads : Places(d)
  BY DEF Base, Typed, Threads, Placed
\* One thread goes on.
<1>a. ASSUME NEW d \in Downloads, NEW t \in Threads, NEW q,
             pc' = [pc EXCEPT ![d][t] = q],
             cancelled \subseteq cancelled', delivered \subseteq delivered',
             q \in {"idle", "path"} => pc[d][t] \in {"idle", "path"},
             q = "abandon" => Concluded(d)',
             q = "shut" => /\ pc[d][t] = "abandon" /\ d \notin private
                           /\ link[d] # None /\ cache[key[d]] # link[d]
                           /\ link'[d] = link[d] /\ cache' = cache
      PROVE  \A e \in Downloads : GivesUp(e)
  <2>1. /\ pc'[d][t] = q /\ \A u \in Threads \ {t} : pc'[d][u] = pc[d][u]
        /\ \A e \in Downloads \ {d} : pc'[e] = pc[e]
    BY <1>0, <1>a
  <2> QED BY <1>0, <1>a, <2>1 DEF Concluded, GivesUp, Fine
<1>1. ASSUME NEW d \in Downloads, Start(d) PROVE \A e \in Downloads : GivesUp(e)
  <2>1. \E q \in {"guard", "path"} : pc[d]["main"] = "idle" /\ pc' = [pc EXCEPT ![d]["main"] = q]
    BY <1>1 DEF Start, At, Goto
  <2>2. UNCHANGED <<cancelled, delivered>>
    BY <1>1 DEF Start
  <2> QED BY <1>0, <1>a, <2>1, <2>2
<1>2. ASSUME NEW d \in Downloads, Main(d) PROVE \A e \in Downloads : GivesUp(e)
  <2>1. /\ \E q \in {"guard", "linking", "done", "deliver"} : pc' = [pc EXCEPT ![d]["main"] = q]
        /\ UNCHANGED <<cancelled, delivered>>
    BY <1>2 DEF Main, PathFound, StopsWaiting, NoPath, SeesActive, LinkTimesOut, Goto
  <2> QED BY <1>0, <1>a, <2>1
<1>3. ASSUME NEW d \in Downloads, NEW t \in Threads,
             \/ t = "watch" /\ Watch(d)
             \/ Guard(d, t) \/ Cache(d, t) \/ Request(d, t)
      PROVE \A e \in Downloads : GivesUp(e)
  <2>1. /\ \E q \in {"cache", "request", "record", "uncache", "done"} : pc' = [pc EXCEPT ![d][t] = q]
        /\ UNCHANGED <<cancelled, delivered>>
    BY <1>3 DEF Watch, Guard, Cache, Request, Goto
  <2> QED BY <1>a, <2>1
<1>4. ASSUME NEW d \in Downloads, NEW t \in Threads, Record(d, t) PROVE \A e \in Downloads : GivesUp(e)
  <2>1. /\ pc' = [pc EXCEPT ![d][t] = "done", ![d]["watch"] = "watching"]
        /\ UNCHANGED <<cancelled, delivered>>
    BY <1>4 DEF Record
  <2>2. \A e \in Downloads, u \in Threads : pc'[e][u] \in {pc[e][u], "done", "watching"}
    BY <1>0, <2>1
  <2> QED BY <1>0, <2>1, <2>2 DEF Concluded, GivesUp, Fine
<1>5. ASSUME NEW d \in Downloads, SetFlag(d) \/ Cancel(d) PROVE \A e \in Downloads : GivesUp(e)
  <2>1. /\ \E q \in {"flag", "abandon", "done"} : /\ pc' = [pc EXCEPT ![d]["cancel"] = q]
                                                  /\ q = "abandon" => d \in cancelled'
        /\ cancelled \subseteq cancelled' /\ delivered' = delivered
    BY <1>5 DEF SetFlag, Cancel, Goto
  <2>2. d \in cancelled' => Concluded(d)'
    BY DEF Concluded
  <2> QED BY <1>0, <1>a, <2>1, <2>2 DEF Fine
<1>6. ASSUME NEW d \in Downloads, NEW t \in Threads, Uncache(d, t) \/ Deliver(d, t)
      PROVE  \A e \in Downloads : GivesUp(e)
  <2>1. /\ \E q \in {"abandon", "done"} : pc' = [pc EXCEPT ![d][t] = q]
        /\ cancelled' = cancelled /\ delivered' = delivered \cup {d}
    BY <1>6 DEF Uncache, Deliver, Fail, Tell, Goto
  <2>2. Concluded(d)'
    BY <2>1 DEF Concluded
  <2> QED BY <1>a, <2>1, <2>2 DEF Fine
<1>7. ASSUME NEW d \in Downloads, NEW t \in Threads, Abandon(d, t) PROVE \A e \in Downloads : GivesUp(e)
  <2>1. PICK q \in {"done", "deliver", "shut"} :
          /\ pc[d][t] = "abandon" /\ pc' = [pc EXCEPT ![d][t] = q]
          /\ q = "shut" => /\ d \notin private /\ link[d] # None /\ cache[key[d]] # link[d]
                           /\ link' = link
          /\ UNCHANGED <<cancelled, delivered, cache>>
    BY <1>7 DEF Abandon, Then, Shared, At, Goto, store
  <2> QED BY <1>a, <2>1 DEF Fine
<1>8. ASSUME NEW d \in Downloads, NEW t \in Threads, Shut(d, t) PROVE \A e \in Downloads : GivesUp(e)
  <2>1. /\ \E q \in {"done", "deliver"} : pc' = [pc EXCEPT ![d][t] = q]
        /\ UNCHANGED <<cancelled, delivered>>
    BY <1>8 DEF Shut, Then, Goto
  <2> QED BY <1>a, <2>1
<1>9. ASSUME NEW d \in Downloads, Answer(d) PROVE \A e \in Downloads : GivesUp(e)
  <2>1. /\ \E q \in {"abandon", "done"} : pc' = [pc EXCEPT ![d]["ans"] = q]
        /\ cancelled' = cancelled /\ delivered \subseteq delivered' /\ Concluded(d)'
    BY <1>9 DEF Answer, Claim, Tell, Concluded, Goto
  <2> QED BY <1>0, <1>a, <2>1 DEF Fine
<1>10. ASSUME NEW d \in Downloads, Establish(d) PROVE \A e \in Downloads : GivesUp(e)
  <2>1. /\ \E q \in {"guard"} : pc' = [pc EXCEPT ![d]["est"] = q]
        /\ UNCHANGED <<cancelled, delivered>>
    BY <1>10 DEF Establish, Goto
  <2> QED BY <1>0, <1>a, <2>1
<1>11. CASE \/ \E l \in Downloads : RemoteClose(l)
            \/ Sweep \/ Drop(Keys) \/ \E k \in Keys : Drop({k})
  <2>1. pc' = pc /\ cancelled' = cancelled /\ delivered' = delivered
    BY <1>11, SweepCleans, DropCleans DEF RemoteClose, CleansOut
  <2>2. \A e \in Downloads : Concluded(e)' = Concluded(e)
    BY <2>1 DEF Concluded
  <2> QED BY <2>1, <2>2 DEF GivesUp, Fine
<1>12. CASE UNCHANGED vars
  BY <1>12 DEF vars, Concluded, GivesUp, Fine
<1> QED
  BY <1>1, <1>2, <1>3, <1>4, <1>5, <1>6, <1>7, <1>8, <1>9, <1>10, <1>11, <1>12 DEF Next, Step, GiveUp

--------------------------------------------------------------------------------
(* A private download is alone *)

Alone == \A d \in private : told[d] # "idle" /\ \A e \in Downloads \ {d} : told[e] = "idle"

LEMMA AloneStart == Init => Alone
  BY DEF Init, Alone

\* Who was started stays started.
LEMMA BegunStep == Base /\ [Next]_vars => \A d \in Downloads : told[d] # "idle" => told'[d] # "idle"
<1> SUFFICES ASSUME Base, [Next]_vars PROVE \A d \in Downloads : told[d] # "idle" => told'[d] # "idle"
  OBVIOUS
<1>1. [Promise!Next]_told /\ told \in [Downloads -> Told]
  BY OutcomeStep DEF Base, Typed
<1> QED BY <1>1 DEF Promise!Next, Promise!Start, Promise!End

LEMMA AloneStep == Base /\ Alone /\ [Next]_vars => Alone'
<1> SUFFICES ASSUME Base, Alone, [Next]_vars PROVE Alone'
  OBVIOUS
<1> USE DEF self, flags, links
<1>0. told \in [Downloads -> Told] /\ OutcomeInv /\ private \subseteq Downloads
  BY DEF Base, Typed
<1>a. ASSUME private' = private, NEW d \in Downloads, told[d] # "idle",
             Tells(d) \/ UNCHANGED <<told, delivered, active>>
      PROVE  Alone'
  BY <1>0, <1>a DEF Alone, Tells
<1>1. ASSUME NEW d \in Downloads, Start(d) PROVE Alone'
  <2>1. PICK p \in BOOLEAN : /\ WatchedAlone(p)
                             /\ private' = IF p THEN private \cup {d} ELSE private
                             /\ told' = [told EXCEPT ![d] = "running"]
    BY <1>1 DEF Start
  <2> QED BY <1>0, <2>1 DEF WatchedAlone, Alone
<1>2. ASSUME NEW d \in Downloads, NEW t \in Threads, Step(d, t) PROVE Alone'
  <2>1. private' = private
    BY <1>2 DEF Step, Main, StopsWaiting, NoPath, PathFound, SeesActive, LinkTimesOut, Watch, SetFlag,
       Guard, Cache, Request, Record, GiveUp, Uncache, Deliver, Abandon, Shut
  <2>2. told[d] # "idle" /\ (Tells(d) \/ UNCHANGED <<told, delivered, active>>)
    BY <1>0, <1>2, StepOwn DEF Own
  <2> QED BY <1>a, <2>1, <2>2
<1>3. ASSUME NEW d \in Downloads, Answer(d) PROVE Alone'
  <2>1. told[d] # "idle" /\ private' = private
    BY <1>3 DEF Answer, Base, OutcomeInv, IdleIsQuiet
  <2>2. Tells(d)
    BY <1>0, <2>1, <1>3, ClaimTells DEF Answer
  <2> QED BY <1>a, <2>1, <2>2
<1>4. ASSUME UNCHANGED <<private, told>> PROVE Alone'
  BY <1>4 DEF Alone
<1>5. ASSUME NEW d \in Downloads, Cancel(d) \/ Establish(d) \/ RemoteClose(d) PROVE Alone'
  BY <1>4, <1>5 DEF Cancel, Establish, RemoteClose
<1>6. CASE Sweep \/ Drop(Keys) \/ \E k \in Keys : Drop({k})
  BY <1>4, <1>6, SweepCleans, DropCleans DEF CleansOut
<1>7. CASE UNCHANGED vars
  BY <1>4, <1>7 DEF vars
<1> QED BY <1>1, <1>2, <1>3, <1>5, <1>6, <1>7 DEF Next

--------------------------------------------------------------------------------
(* A link that others use is not torn down *)

\* Links belong to downloads that were started ...
LinksOfBegun ==
  /\ \A d \in Downloads : /\ link[d] # None => told[link[d]] # "idle"
                          /\ over[d] # None => told[over[d]] # "idle"
  /\ \A k \in Keys : cache[k] # None => told[cache[k]] # "idle"

\* ... for the destination they are used for.
SameKey ==
  /\ \A d \in Downloads : /\ link[d] # None => key[link[d]] = key[d]
                          /\ over[d] # None => key[over[d]] = key[d]
  /\ \A k \in Keys : cache[k] # None => key[cache[k]] = k

\* Another download's link came out of the cache, and is there or is known to have left.
WasCached(l) == l \in loose \/ \E k \in Keys : cache[k] = l
FromCache == \A d \in Downloads :
  /\ link[d] \in {None, d} \/ WasCached(link[d])
  /\ over[d] \in {None, d} \/ WasCached(over[d])

Unlinked == \A d \in Downloads : pc[d]["main"] \in {"idle", "path"} =>
  link[d] = None /\ over[d] = None /\ \A t \in Threads : pc[d][t] # "shut"

Given == \A d \in Downloads, t \in Threads : pc[d][t] \in {"abandon", "shut"} => Concluded(d)

\* The answer of the cache is old when the link is torn down, but still good.
ShutIsLoose == \A d \in Downloads, t \in Threads : pc[d][t] = "shut" /\ link[d] # None =>
  \/ link[d] \in loose
  \/ link[d] = d /\ Concluded(d) /\ \A k \in Keys : cache[k] # d

Grounds == Base /\ Placed /\ Alone
Shelf   == LinksOfBegun /\ SameKey /\ FromCache /\ Unlinked /\ Given
SpareInv == Grounds /\ Shelf /\ ShutIsLoose /\ SharedSpared

LEMMA ShelfStart == Init => Shelf /\ ShutIsLoose /\ SharedSpared
  BY
     DEF Init, Shelf, LinksOfBegun, SameKey, FromCache, Unlinked, Given, ShutIsLoose, SharedSpared, Threads

LEMMA GroundsStep == Grounds /\ [Next]_vars => Grounds'
  BY OutcomeStep, TypedStep, HasLinkStep, PlacedStep, AloneStep DEF Grounds, Base

LEMMA ShelfStep == Grounds /\ Shelf /\ [Next]_vars => Shelf'
<1> SUFFICES ASSUME Grounds, Shelf, [Next]_vars PROVE Shelf'
  OBVIOUS
<1>1. /\ cache \in [Keys -> Downloads \cup {None}]
      /\ link \in [Downloads -> Downloads \cup {None}]
      /\ over \in [Downloads -> Downloads \cup {None}]
      /\ "main" \in Threads
  BY DEF Grounds, Base, Typed, Threads
<1>2. StoreMoves /\ (\A e \in Downloads : LinkMoves(e)) /\ \A e \in Downloads : GivesUp(e)
  BY StoreStep, LinkStep, AbandonStep DEF Grounds
<1>3. \A d \in Downloads : told[d] # "idle" => told'[d] # "idle"
  BY BegunStep DEF Grounds
<1>4. LinksOfBegun /\ SameKey /\ FromCache /\ Unlinked /\ Given
  BY DEF Shelf
\* A link that is begun keeps its destination.
<1>5. \A d \in Downloads : told[d] # "idle" => key'[d] = key[d]
  BY <1>2 DEF LinkMoves, Takes
<1>6. ASSUME NEW k \in Keys, cache'[k] # None
      PROVE  \/ cache'[k] = cache[k]
             \/ \E d \in Downloads : k = key[d] /\ cache'[k] = over[d]
  BY <1>2, <1>6 DEF StoreMoves
<1>7. ASSUME NEW e \in Downloads
      PROVE  \/ over'[e] = over[e] /\ link'[e] \in {link[e], None}
             \/ Takes(e)
  BY <1>2, <1>7 DEF LinkMoves
<1>8. LinksOfBegun'
  <2>1. ASSUME NEW e \in Downloads PROVE /\ link'[e] # None => told'[link'[e]] # "idle"
                                         /\ over'[e] # None => told'[over'[e]] # "idle"
    BY <1>1, <1>3, <1>4, <1>7 DEF LinksOfBegun, Takes
  <2>2. ASSUME NEW k \in Keys, cache'[k] # None PROVE told'[cache'[k]] # "idle"
    BY <1>1, <1>3, <1>4, <1>6, <2>2 DEF LinksOfBegun
  <2> QED BY <2>1, <2>2 DEF LinksOfBegun
<1>9. SameKey'
  <2>1. ASSUME NEW e \in Downloads PROVE /\ link'[e] # None => key'[link'[e]] = key'[e]
                                         /\ over'[e] # None => key'[over'[e]] = key'[e]
    <3>1. CASE Takes(e)
      BY <1>1, <1>4, <1>5, <3>1 DEF Takes, SameKey, LinksOfBegun
    <3>2. CASE over'[e] = over[e] /\ link'[e] \in {link[e], None}
      <4>1. (link[e] = None /\ over[e] = None) \/ key'[e] = key[e]
        BY <1>2, <1>4 DEF LinkMoves, Unlinked, Takes
      <4> QED BY <1>1, <1>4, <1>5, <3>2, <4>1 DEF SameKey, LinksOfBegun
    <3> QED BY <1>7, <3>1, <3>2
  <2>2. ASSUME NEW k \in Keys, cache'[k] # None PROVE key'[cache'[k]] = k
    BY <1>1, <1>4, <1>5, <1>6, <2>2 DEF SameKey, LinksOfBegun
  <2> QED BY <2>1, <2>2 DEF SameKey
<1>10. FromCache'
  <2>1. ASSUME NEW l \in Downloads, WasCached(l) PROVE WasCached(l)'
    BY <1>2, <2>1, NomadAssumption DEF WasCached, StoreMoves
  <2>2. ASSUME NEW e \in Downloads, Takes(e)
        PROVE  /\ link'[e] = over'[e]
               /\ link'[e] \in {None, e} \/ \E k \in Keys : cache'[k] = link'[e]
    BY <2>2 DEF Takes
  <2>3. ASSUME NEW e \in Downloads, over'[e] = over[e], link'[e] \in {link[e], None}
        PROVE  /\ link'[e] \in {None, e} \/ (link'[e] \in loose' \/ \E k \in Keys : cache'[k] = link'[e])
               /\ over'[e] \in {None, e} \/ (over'[e] \in loose' \/ \E k \in Keys : cache'[k] = over'[e])
    <3>1. /\ link[e] \in {None, e} \/ (link[e] \in Downloads /\ WasCached(link[e]))
          /\ over[e] \in {None, e} \/ (over[e] \in Downloads /\ WasCached(over[e]))
      BY <1>1, <1>4 DEF FromCache
    <3> QED BY <2>1, <2>3, <3>1 DEF WasCached
  <2> QED BY <1>7, <2>2, <2>3 DEF FromCache, WasCached
<1>11. Unlinked'
  BY <1>1, <1>2, <1>4 DEF Unlinked, GivesUp, Fine, LinkMoves, Takes
<1>12. Given'
  BY <1>2, <1>4 DEF Given, GivesUp, Fine
<1> QED BY <1>8, <1>9, <1>10, <1>11, <1>12 DEF Shelf

LEMMA ShutIsLooseStep == Grounds /\ Shelf /\ ShutIsLoose /\ [Next]_vars => ShutIsLoose'
<1> SUFFICES ASSUME Grounds, Shelf, ShutIsLoose, [Next]_vars,
                    NEW d \in Downloads, NEW t \in Threads, pc'[d][t] = "shut", link'[d] # None
             PROVE  \/ link'[d] \in loose'
                    \/ link'[d] = d /\ Concluded(d)' /\ \A k \in Keys : cache'[k] # d
  BY DEF ShutIsLoose
<1>1. /\ cache \in [Keys -> Downloads \cup {None}]
      /\ link \in [Downloads -> Downloads \cup {None}]
      /\ None \notin Downloads
  BY NomadAssumption DEF Grounds, Base, Typed
<1>2. StoreMoves /\ LinkMoves(d) /\ GivesUp(d) /\ Fine(d, t)
  BY StoreStep, LinkStep, AbandonStep DEF Grounds, GivesUp
<1>3. SameKey /\ FromCache /\ Unlinked /\ Given
  BY DEF Shelf
<1>4. CASE pc[d][t] = "shut"
  <2>1. link'[d] = link[d]
    BY <1>2, <1>3, <1>4 DEF LinkMoves, Takes, Unlinked
  <2>2. CASE link[d] \in loose
    BY <1>2, <2>1, <2>2 DEF StoreMoves
  <2>3. CASE link[d] = d /\ Concluded(d) /\ \A k \in Keys : cache[k] # d
    <3>1. ASSUME NEW k \in Keys, cache'[k] = d PROVE d \in loose'
      <4>1. PICK e \in Downloads : over[e] = d /\ (Concluded(e) => d \in loose')
        BY <1>1, <1>2, <2>3, <3>1 DEF StoreMoves
      <4>2. CASE e = d
        BY <2>3, <4>1, <4>2
      <4>3. CASE e # d
        BY <1>1, <1>2, <1>3, <2>3, <4>1, <4>3 DEF FromCache, WasCached, StoreMoves
      <4> QED BY <4>2, <4>3
    <3>2. Concluded(d)'
      BY <1>2, <2>3 DEF GivesUp
    <3> QED BY <2>1, <2>3, <3>1, <3>2
  <2> QED BY <1>4, <2>1, <2>2, <2>3 DEF ShutIsLoose
<1>5. CASE pc[d][t] # "shut"
  <2>1. /\ pc[d][t] = "abandon" /\ link[d] # None /\ cache[key[d]] # link[d]
        /\ link'[d] = link[d] /\ cache' = cache
    BY <1>2, <1>5 DEF Fine
  <2>2. CASE link[d] = d
    <3>1. Concluded(d)'
      BY <1>2, <1>3, <2>1 DEF Given, GivesUp
    <3>2. \A k \in Keys : cache[k] # d
      BY <1>1, <1>3, <2>1, <2>2 DEF SameKey
    <3> QED BY <2>1, <2>2, <3>1, <3>2
  <2>3. CASE link[d] # d
    <3>1. \A k \in Keys : cache[k] # link[d]
      BY <1>1, <1>3, <2>1 DEF SameKey
    <3>2. link[d] \in loose
      BY <1>3, <2>1, <2>3, <3>1 DEF FromCache, WasCached
    <3> QED BY <1>2, <2>1, <3>2 DEF StoreMoves
  <2> QED BY <2>2, <2>3
<1> QED BY <1>4, <1>5

\* Only a thread that tears down adds to the log of teardowns.
LEMMA CutStep ==
  ASSUME Base, [Next]_vars, cut' # cut
  PROVE  \E d \in Downloads, t \in Threads :
           /\ cut' = cut \cup {link[d]} /\ link[d] # None /\ Users(link[d]) \ {d} # {}
           /\ d \in private \/ pc[d][t] = "shut"
<1> USE DEF links
<1>1. ASSUME NEW d \in Downloads, NEW t \in Threads, Abandon(d, t) \/ Shut(d, t)
      PROVE  /\ cut' = cut \cup {link[d]} /\ link[d] # None /\ Users(link[d]) \ {d} # {}
             /\ d \in private \/ pc[d][t] = "shut"
  <2>1. TearDown(d) /\ (d \in private \/ pc[d][t] = "shut" \/ link[d] = None)
    BY <1>1 DEF Abandon, Shut, At
  <2> QED BY <2>1 DEF TearDown
<1>2. ASSUME NEW d \in Downloads, NEW t \in Threads,
             \/ Start(d) \/ Main(d) \/ Watch(d) \/ SetFlag(d) \/ Guard(d, t) \/ Cache(d, t) \/ Request(d, t)
             \/ Record(d, t) \/ Uncache(d, t) \/ Deliver(d, t) \/ Answer(d) \/ Cancel(d)
             \/ Establish(d) \/ RemoteClose(d)
      PROVE  FALSE
  BY <1>2 DEF Start, Main, StopsWaiting, NoPath, PathFound, SeesActive, LinkTimesOut, Watch, SetFlag,
     Guard, Cache, Request, Record, Uncache, Deliver, Answer, Cancel, Establish, RemoteClose
<1>3. CASE Sweep \/ Drop(Keys) \/ \E k \in Keys : Drop({k})
  BY <1>3, SweepCleans, DropCleans DEF CleansOut
<1>4. CASE UNCHANGED vars
  BY <1>4 DEF vars
<1>5. "main" \in Threads
  BY DEF Threads
<1> QED BY <1>1, <1>2, <1>3, <1>4, <1>5 DEF Next, Step, GiveUp

LEMMA SharedSparedStep == SpareInv /\ [Next]_vars => SharedSpared'
<1> SUFFICES ASSUME SpareInv, [Next]_vars PROVE cut' \subseteq loose'
  BY DEF SharedSpared
<1>1. Base /\ Alone /\ FromCache /\ ShutIsLoose /\ cut \subseteq loose /\ StoreMoves
  BY StoreStep DEF SpareInv, Grounds, Shelf, SharedSpared
<1>2. loose \subseteq loose'
  BY <1>1 DEF StoreMoves
<1>3. CASE cut' # cut
  <2>1. PICK d \in Downloads, t \in Threads :
          /\ cut' = cut \cup {link[d]} /\ link[d] # None /\ Users(link[d]) \ {d} # {}
          /\ d \in private \/ pc[d][t] = "shut"
    BY <1>1, <1>3, CutStep
  <2>2. PICK e \in Downloads \ {d} : over[e] = link[d] /\ told[e] = "running"
    BY <2>1 DEF Users
  <2>3. d \notin private
    BY <1>1, <2>2 DEF Alone
  <2>4. link[d] \in loose
    <3>1. CASE link[d] = d /\ \A k \in Keys : cache[k] # d
      BY <1>1, <2>1, <2>2, <3>1 DEF FromCache, WasCached
    <3> QED BY <1>1, <2>1, <2>3, <3>1 DEF ShutIsLoose
  <2> QED BY <1>1, <1>2, <2>1, <2>4
<1>4. CASE cut' = cut
  BY <1>1, <1>2, <1>4
<1> QED BY <1>3, <1>4

\* A download that gives up does not tear down a link that another one is using and
\* that the cache still offers (_maybe_teardown_abandoned_link).
THEOREM OthersLinksAreSpared == Spec => []SharedSpared
<1>1. Init => SpareInv
  BY OutcomeStart, TypedStart, HasLinkStart, PlacedStart, AloneStart, ShelfStart
     DEF SpareInv, Grounds, Base
<1>2. SpareInv /\ [Next]_vars => SpareInv'
  BY GroundsStep, ShelfStep, ShutIsLooseStep, SharedSparedStep DEF SpareInv
<1>3. SpareInv => SharedSpared
  BY DEF SpareInv
<1> QED BY <1>1, <1>2, <1>3, PTL DEF Spec

--------------------------------------------------------------------------------
(* An open link belongs to the download that built it *)

Owned == \A l \in Downloads : Open(l) => link[l] = l /\ over[l] = l

LEMMA OwnedStart == Init => Owned
  BY DEF Init, Owned, Open

\* Links open when a path is found, and a download that lets go of a link closes it.
LEMMA OwnedStep == Base /\ Placed /\ Owned /\ [Next]_vars => Owned'
<1> SUFFICES ASSUME Base, Placed, Owned, [Next]_vars PROVE Owned'
  OBVIOUS
<1> USE DEF self, links
<1>0. /\ st \in [Downloads -> {"none", "pending", "active", "closed"}]
      /\ link \in [Downloads -> Downloads \cup {None}]
      /\ over \in [Downloads -> Downloads \cup {None}]
      /\ \A l \in Downloads : Open(l) => link[l] = l /\ over[l] = l
      /\ \A d \in Downloads : pc[d]["main"] \in {"idle", "path"} => ~Open(d)
  BY DEF Base, Typed, Owned, Placed, Before
<1>a. ASSUME \A l \in Downloads : Open(l)' => Open(l), UNCHANGED <<link, over>> PROVE Owned'
  BY <1>0, <1>a DEF Owned
<1>b. ASSUME NEW L, Close(L) PROVE \A l \in Downloads : Open(l)' => Open(l) /\ l \notin L
  BY <1>0, <1>b DEF Close, Open
<1>1. ASSUME NEW d \in Downloads, Start(d) PROVE Owned'
  <2>1. /\ pc[d]["main"] = "idle" /\ st' = st
        /\ \A e \in Downloads \ {d} : link'[e] = link[e] /\ over'[e] = over[e]
    BY <1>0, <1>1 DEF Start, At
  <2> QED BY <1>0, <2>1 DEF Owned, Open
<1>2. ASSUME NEW d \in Downloads, PathFound(d) PROVE Owned'
  <2> DEFINE hit == d \notin private /\ Hit(key[d])
  <2>1. /\ pc[d]["main"] = "path"
        /\ link' = [link EXCEPT ![d] = IF hit THEN cache[key[d]] ELSE d]
        /\ over' = [over EXCEPT ![d] = link'[d]]
        /\ st' = IF hit THEN st ELSE [st EXCEPT ![d] = "pending"]
    BY <1>2 DEF PathFound, At
  <2> HIDE DEF hit
  <2>2. \A e \in Downloads \ {d} : link'[e] = link[e] /\ over'[e] = over[e] /\ st'[e] = st[e]
    BY <1>0, <2>1
  <2>3. Open(d)' => ~hit
    BY <1>0, <2>1 DEF Open
  <2>4. ~hit => link'[d] = d /\ over'[d] = d
    BY <1>0, <2>1
  <2> QED BY <1>0, <2>2, <2>3, <2>4 DEF Owned, Open
<1>3. ASSUME NEW d \in Downloads, TearDown(d), over' = over PROVE Owned'
  <2>1. /\ \A l \in Downloads : Open(l)' => Open(l) /\ (l = link[d] => link[d] = None)
        /\ link' = [link EXCEPT ![d] = None]
    BY <1>b, <1>3 DEF TearDown
  <2>2. \A e \in Downloads \ {d} : link'[e] = link[e]
    BY <1>0, <2>1
  <2>3. Open(d)' => link[d] = d /\ d # None
    BY <1>0, <2>1, NomadAssumption
  <2> QED BY <1>0, <1>3, <2>1, <2>2, <2>3 DEF Owned
<1>4. ASSUME NEW d \in Downloads, NEW t \in Threads, Abandon(d, t) \/ Shut(d, t) PROVE Owned'
  <2>1. over' = over /\ (TearDown(d) \/ UNCHANGED <<link, st>>)
    BY <1>4 DEF Abandon, Shut
  <2>2. CASE UNCHANGED <<link, st>>
    BY <1>a, <2>1, <2>2 DEF Open
  <2> QED BY <1>3, <2>1, <2>2
<1>5. ASSUME NEW d \in Downloads, Establish(d) PROVE Owned'
  <2>1. UNCHANGED <<link, over>> /\ \A l \in Downloads : Open(l)' => Open(l)
    BY <1>0, <1>5 DEF Establish, Open
  <2> QED BY <1>a, <2>1
<1>6. ASSUME NEW d \in Downloads, NEW t \in Threads,
             \/ StopsWaiting(d) \/ NoPath(d) \/ SeesActive(d) \/ LinkTimesOut(d)
             \/ Watch(d) \/ SetFlag(d) \/ Guard(d, t) \/ Cache(d, t) \/ Request(d, t) \/ Record(d, t)
             \/ Uncache(d, t) \/ Deliver(d, t) \/ Answer(d) \/ Cancel(d)
      PROVE  Owned'
  <2>1. UNCHANGED <<st, over, link>>
    BY <1>6 DEF StopsWaiting, NoPath, SeesActive, LinkTimesOut, Watch, SetFlag, Guard, Cache, Request,
       Record, Uncache, Deliver, Answer, Cancel
  <2> QED BY <1>a, <2>1 DEF Open
<1>7. CASE \/ \E l \in Downloads : RemoteClose(l)
           \/ Sweep \/ Drop(Keys) \/ \E k \in Keys : Drop({k})
  <2>1. \E L : Close(L) /\ UNCHANGED <<link, over>>
    BY <1>7, SweepCleans, DropCleans DEF RemoteClose, CleansOut
  <2> QED BY <1>a, <1>b, <2>1
<1>8. CASE UNCHANGED vars
  BY <1>a, <1>8 DEF vars, Open
<1>9. "main" \in Threads
  BY DEF Threads
<1> QED BY <1>1, <1>2, <1>4, <1>5, <1>6, <1>7, <1>8, <1>9 DEF Next, Step, Main, GiveUp

--------------------------------------------------------------------------------
(* What a private download leaves *)

\* It never touches the cache; whoever ends it also closes its link.
Bare(d) ==
  /\ \A t \in Threads : pc[d][t] \notin {"cache", "shut"}
  /\ \A k \in Keys : cache[k] # d
  /\ pc[d]["cancel"] = "deliver" => Concluded(d) /\ ~Open(d)
  /\ d \in delivered /\ Open(d) => \E t \in Threads : pc[d][t] = "abandon"

AllBare == \A d \in private : Bare(d)

\* Only the download itself moves while it is private, and links close.
LEMMA PrivateSteps ==
  ASSUME Base, Alone, [Next]_vars, NEW d \in private
  PROVE  /\ private' = private
         /\ \/ Answer(d) \/ Cancel(d) \/ Establish(d) \/ \E t \in Threads : Step(d, t)
            \/ UNCHANGED <<pc, flags>> /\ \A l \in Downloads : st'[l] \in {st[l], "closed"}
<1> USE DEF self, links
<1>0. /\ OutcomeInv /\ private # {} /\ d \in Downloads
      /\ \A e \in Downloads \ {d} : told[e] = "idle"
      /\ st \in [Downloads -> {"none", "pending", "active", "closed"}]
  BY DEF Base, Typed, Alone
<1> DEFINE Closing == UNCHANGED <<pc, flags>> /\ \A l \in Downloads : st'[l] \in {st[l], "closed"}
<1>1. ASSUME NEW e \in Downloads, Start(e) PROVE FALSE
  BY <1>0, <1>1 DEF Start, WatchedAlone
<1>2. ASSUME NEW e \in Downloads, NEW t \in Threads, Step(e, t) PROVE e = d /\ private' = private
  <2>1. told[e] # "idle"
    BY <1>0, <1>2, StepOwn DEF Own
  <2>2. private' = private
    BY <1>2 DEF Step, Main, StopsWaiting, NoPath, PathFound, SeesActive, LinkTimesOut, Watch, SetFlag,
       Guard, Cache, Request, Record, GiveUp, Uncache, Deliver, Abandon, Shut
  <2> QED BY <1>0, <2>1, <2>2
<1>3. ASSUME NEW e \in Downloads, Answer(e) \/ Cancel(e) \/ Establish(e)
      PROVE  e = d /\ private' = private
  <2>1. told[e] # "idle"
    BY <1>0, <1>3 DEF Answer, Cancel, Establish, OutcomeInv, IdleIsQuiet
  <2> QED BY <1>0, <1>3, <2>1 DEF Answer, Cancel, Establish
<1>4. ASSUME NEW L, Close(L), UNCHANGED <<pc, self, flags>> PROVE private' = private /\ Closing
  BY <1>0, <1>4 DEF Close
<1>5. CASE \/ \E l \in Downloads : RemoteClose(l)
           \/ Sweep \/ Drop(Keys) \/ \E k \in Keys : Drop({k})
  <2>1. \E L : Close(L) /\ UNCHANGED <<pc, self, flags>>
    BY <1>5, SweepCleans, DropCleans DEF RemoteClose, CleansOut
  <2> QED BY <1>4, <2>1
<1>6. CASE UNCHANGED vars
  BY <1>0, <1>6 DEF vars, flags
<1> QED BY <1>1, <1>2, <1>3, <1>5, <1>6 DEF Next

BareBase == Grounds /\ Shelf /\ Owned

LEMMA BareStarts ==
  ASSUME BareBase, [Next]_vars, NEW d \in private' \ private
  PROVE  Bare(d)'
<1>1. d \in Downloads /\ Start(d)
  <2>1. ASSUME NEW e \in Downloads, ~Start(e), Start(e) \/ Answer(e) \/ Cancel(e) \/ Establish(e) \/ RemoteClose(e)
        PROVE  FALSE
    BY <2>1 DEF Answer, Cancel, Establish, RemoteClose, self
  <2>2. ASSUME NEW e \in Downloads, NEW t \in Threads, Step(e, t) PROVE FALSE
    BY <2>2 DEF Step, Main, StopsWaiting, NoPath, PathFound, SeesActive, LinkTimesOut, Watch, SetFlag,
       Guard, Cache, Request, Record, GiveUp, Uncache, Deliver, Abandon, Shut, self
  <2>3. ~(Sweep \/ Drop(Keys) \/ \E k \in Keys : Drop({k})) /\ ~UNCHANGED vars
    BY SweepCleans, DropCleans DEF CleansOut, vars, self
  <2>4. PICK e \in Downloads : Start(e)
    BY <2>1, <2>2, <2>3 DEF Next
  <2> QED BY <2>4 DEF Start
<1>2. /\ pc \in [Downloads -> [Threads -> Pcs]] /\ OutcomeInv /\ Before(d) /\ LinksOfBegun
      /\ "main" \in Threads /\ cache \in [Keys -> Downloads \cup {None}] /\ "cancel" \in Threads
  BY <1>1 DEF BareBase, Grounds, Base, Typed, Placed, Shelf, Threads
<1>3. /\ told[d] = "idle" /\ pc[d]["main"] = "idle"
      /\ \E q \in {"guard", "path"} : pc' = [pc EXCEPT ![d]["main"] = q]
      /\ UNCHANGED <<st, cancelled, delivered>>
  BY <1>1, <1>2 DEF Start, At, Goto, OutcomeInv, StartedOnce, links
<1>4. \A t \in Threads : pc'[d][t] \in {"idle", "guard", "path"}
  BY <1>1, <1>2, <1>3 DEF OutcomeInv, IdleIsQuiet
<1>5. \A k \in Keys : cache'[k] # d
  <2>1. \A k \in Keys : cache[k] # d
    BY <1>2, <1>3, <1>1, NomadAssumption DEF LinksOfBegun
  <2>2. \A k \in Keys : cache'[k] \in {cache[k], None}
    BY <1>1, <1>2 DEF Start, Looked, Without, store
  <2> QED BY <1>1, <2>1, <2>2, NomadAssumption
<1>6. ~Open(d)'
  BY <1>2, <1>3 DEF Before, Open
<1> QED BY <1>2, <1>4, <1>5, <1>6 DEF Bare

\* While it is private.
LEMMA BareGoesOn ==
  ASSUME BareBase, [Next]_vars, NEW d \in private, Bare(d)
  PROVE  Bare(d)'
<1> USE DEF self, links
<1>0. /\ pc \in [Downloads -> [Threads -> Pcs]] /\ d \in Downloads
      /\ st \in [Downloads -> {"none", "pending", "active", "closed"}]
      /\ Threads = {"main", "est", "watch", "ans", "cancel"}
      /\ Base /\ Alone /\ Placed /\ Places(d) /\ Before(d) /\ Given
      /\ (Open(d) => link[d] = d) /\ d # None
  BY NomadAssumption DEF BareBase, Grounds, Base, Typed, Placed, Shelf, Owned, Threads
<1>1. \A k \in Keys : cache'[k] # d
  <2>1. \A e \in Downloads, t \in Threads : pc[e][t] # "cache"
    BY <1>0, GoerIsStarted DEF Bare, Alone, Base
  <2> QED BY <1>0, <2>1, StoreStep DEF Bare, StoreMoves
\* The thread t goes on, and the link does not open.
<1>a. ASSUME NEW t \in Threads, NEW q, pc' = [pc EXCEPT ![d][t] = q],
             q \notin {"cache", "shut"},
             q = "deliver" /\ t = "cancel" => Concluded(d)' /\ ~Open(d)',
             Concluded(d) => Concluded(d)',
             Open(d)' => Open(d) \/ ~Concluded(d)',
             d \in delivered' => d \in delivered \/ q = "abandon" \/ ~Open(d)',
             pc[d][t] = "abandon" => ~Open(d)'
      PROVE  Bare(d)'
  <2>1. pc'[d][t] = q /\ \A u \in Threads \ {t} : pc'[d][u] = pc[d][u]
    BY <1>0, <1>a
  <2>2. \A u \in Threads : pc'[d][u] \notin {"cache", "shut"}
    BY <1>a, <2>1 DEF Bare
  <2>3. pc'[d]["cancel"] = "deliver" => Concluded(d)' /\ ~Open(d)'
    BY <1>0, <1>a, <2>1 DEF Bare
  <2>4. ASSUME d \in delivered', Open(d)' PROVE \E u \in Threads : pc'[d][u] = "abandon"
    <3>1. Concluded(d)' /\ Open(d)
      BY <1>a, <2>4 DEF Concluded
    <3>2. CASE q = "abandon"
      BY <2>1, <3>2
    <3>3. CASE d \in delivered
      BY <1>a, <2>1, <2>4, <3>1, <3>3 DEF Bare
    <3> QED BY <1>a, <2>4, <3>2, <3>3
  <2> QED BY <1>1, <2>2, <2>3, <2>4 DEF Bare
<1>2. ASSUME Answer(d) PROVE Bare(d)'
  <2>1. pc' = [pc EXCEPT ![d]["ans"] = "abandon"] /\ UNCHANGED <<st, cancelled>>
    BY <1>2 DEF Answer, Goto, Claim, Tell, flags
  <2>2. delivered \subseteq delivered'
    BY <1>2 DEF Answer, Claim, Tell, flags
  <2>3. Concluded(d) => Concluded(d)'
    BY <2>1, <2>2 DEF Concluded
  <2>4. Open(d)' = Open(d)
    BY <2>1 DEF Open
  <2>5. pc[d]["ans"] = "idle"
    BY <1>0, <1>2 DEF Answer, Before
  <2> QED BY <1>0, <1>a, <2>1, <2>3, <2>4, <2>5
<1>3. ASSUME Cancel(d) \/ SetFlag(d) PROVE Bare(d)'
  <2>1. /\ \E q \in {"done", "flag", "abandon"} : pc' = [pc EXCEPT ![d]["cancel"] = q]
        /\ pc[d]["cancel"] \in {"idle", "flag"}
        /\ UNCHANGED <<st, delivered>> /\ cancelled \subseteq cancelled'
    BY <1>3 DEF Cancel, SetFlag, Goto, At
  <2>2. (Concluded(d) => Concluded(d)') /\ Open(d)' = Open(d)
    BY <2>1 DEF Concluded, Open
  <2> QED BY <1>0, <1>a, <2>1, <2>2
<1>4. ASSUME Establish(d) PROVE Bare(d)'
  <2>1. /\ \E q \in {"guard"} : pc' = [pc EXCEPT ![d]["est"] = q]
        /\ st[d] = "pending" /\ UNCHANGED <<cancelled, delivered>>
    BY <1>4 DEF Establish, Goto, flags
  <2>2. Open(d) /\ pc[d]["est"] = "idle" /\ Concluded(d)' = Concluded(d)
    BY <1>0, <2>1 DEF Before, Open, Concluded
  <2> QED BY <1>0, <1>a, <2>1, <2>2
<1>5. ASSUME StopsWaiting(d) \/ NoPath(d) \/ SeesActive(d) \/ LinkTimesOut(d) PROVE Bare(d)'
  <2>1. /\ \E q \in {"done", "deliver"} : pc' = [pc EXCEPT ![d]["main"] = q]
        /\ pc[d]["main"] # "abandon" /\ UNCHANGED <<st, cancelled, delivered>>
    BY <1>5 DEF StopsWaiting, NoPath, SeesActive, LinkTimesOut, Goto, At, flags
  <2>2. Concluded(d)' = Concluded(d) /\ Open(d)' = Open(d)
    BY <2>1 DEF Concluded, Open
  <2> QED BY <1>0, <1>a, <2>1, <2>2
<1>6. ASSUME PathFound(d) PROVE Bare(d)'
  <2>1. /\ \E q \in {"linking", "guard"} : pc' = [pc EXCEPT ![d]["main"] = q]
        /\ pc[d]["main"] = "path" /\ ~Concluded(d) /\ UNCHANGED <<cancelled, delivered>>
    BY <1>6 DEF PathFound, Goto, At, flags
  <2>2. Concluded(d)' = Concluded(d)
    BY <2>1 DEF Concluded
  <2> QED BY <1>0, <1>a, <2>1, <2>2
<1>7. ASSUME NEW t \in Threads, (t = "watch" /\ Watch(d)) \/ Guard(d, t) \/ Request(d, t) PROVE Bare(d)'
  <2>1. /\ \E q \in {"done", "uncache", "request", "record"} : pc' = [pc EXCEPT ![d][t] = q]
        /\ pc[d][t] # "abandon" /\ UNCHANGED <<st, cancelled, delivered>>
    BY <1>7 DEF Watch, Guard, Request, Goto, At, flags
  <2>2. Concluded(d)' = Concluded(d) /\ Open(d)' = Open(d)
    BY <2>1 DEF Concluded, Open
  <2> QED BY <1>0, <1>a, <2>1, <2>2
<1>8. ASSUME NEW t \in Threads, Record(d, t) PROVE Bare(d)'
  <2>1. /\ pc' = [pc EXCEPT ![d][t] = "done", ![d]["watch"] = "watching"]
        /\ pc[d][t] = "record" /\ UNCHANGED <<st, cancelled, delivered>>
    BY <1>8 DEF Record, At, flags
  <2>2. pc[d]["watch"] = "idle" /\ t # "watch"
    BY <1>0, <2>1 DEF Places, Before, Asks
  <2>3. \A u \in Threads : pc'[d][u] \in {pc[d][u], "done", "watching"}
                           /\ (pc[d][u] = "abandon" => pc'[d][u] = "abandon")
    BY <1>0, <2>1, <2>2
  <2>4. pc'[d]["cancel"] = "deliver" => pc[d]["cancel"] = "deliver"
    BY <1>0, <2>3
  <2>5. Concluded(d)' = Concluded(d) /\ Open(d)' = Open(d) /\ delivered' = delivered
    BY <2>1 DEF Concluded, Open
  <2> QED BY <1>1, <2>3, <2>4, <2>5 DEF Bare
<1>9. ASSUME NEW t \in Threads, Uncache(d, t) \/ Deliver(d, t) PROVE Bare(d)'
  <2>1. /\ \E q \in {"abandon", "done"} : /\ pc' = [pc EXCEPT ![d][t] = q]
                                          /\ q = "done" => pc[d]["cancel"] = "deliver"
        /\ pc[d][t] # "abandon" /\ UNCHANGED <<st, cancelled>> /\ delivered \subseteq delivered'
    BY <1>9 DEF Uncache, Deliver, Fail, Tell, Goto, At, flags
  <2>2. (Concluded(d) => Concluded(d)') /\ Open(d)' = Open(d)
    BY <2>1 DEF Concluded, Open
  <2> QED BY <1>0, <1>a, <2>1, <2>2 DEF Bare
<1>10. ASSUME NEW t \in Threads, Abandon(d, t) PROVE Bare(d)'
  <2>1. /\ \E q \in {"deliver", "done"} : pc' = [pc EXCEPT ![d][t] = q]
        /\ Close({link[d]} \ {None}) /\ UNCHANGED <<cancelled, delivered>> /\ pc[d][t] = "abandon"
    BY <1>10 DEF Abandon, Then, TearDown, Goto, At, flags
  <2>2. ~Open(d)'
    BY <1>0, <2>1 DEF Close, Open
  <2>3. Concluded(d) /\ Concluded(d)'
    BY <1>0, <2>1 DEF Given, Concluded
  <2> QED BY <1>a, <2>1, <2>2, <2>3
<1>11. ASSUME NEW t \in Threads, Cache(d, t) \/ Shut(d, t) PROVE FALSE
  BY <1>11 DEF Cache, Shut, At, Bare
<1>12. ASSUME UNCHANGED <<pc, flags>>, \A l \in Downloads : st'[l] \in {st[l], "closed"} PROVE Bare(d)'
  <2>1. pc' = pc /\ delivered' = delivered /\ Concluded(d)' = Concluded(d)
    BY <1>12 DEF flags, Concluded
  <2>2. Open(d)' => Open(d)
    BY <1>0, <1>12 DEF Open
  <2> QED BY <1>1, <2>1, <2>2 DEF Bare
<1> QED BY <1>0, <1>2, <1>3, <1>4, <1>5, <1>6, <1>7, <1>8, <1>9, <1>10, <1>11, <1>12, PrivateSteps
        DEF Step, Main, GiveUp

BareInv == BareBase /\ AllBare

\* A private download leaves nothing behind: its link was never cached, and is closed
\* when its threads have come to rest (_maybe_teardown_abandoned_link).
THEOREM PrivateIsGone == Spec => []PrivateLeavesNothing
<1>1. Init => BareInv
  BY OutcomeStart, TypedStart, HasLinkStart, PlacedStart, AloneStart, ShelfStart, OwnedStart
     DEF BareInv, BareBase, Grounds, Base, AllBare, Init
<1>2. BareInv /\ [Next]_vars => BareInv'
  <2>1. BareBase /\ [Next]_vars => BareBase'
    BY GroundsStep, ShelfStep, OwnedStep DEF BareBase, Grounds
  <2>2. BareInv /\ [Next]_vars => AllBare'
    BY BareStarts, BareGoesOn DEF BareInv, AllBare
  <2> QED BY <2>1, <2>2 DEF BareInv
<1>3. BareInv => PrivateLeavesNothing
  <2> SUFFICES ASSUME BareInv, NEW d \in private
               PROVE  /\ \A k \in Keys : cache[k] # d
                      /\ Settled(d) /\ told[d] # "running" => ~Open(d)
    BY DEF PrivateLeavesNothing
  <2>1. Bare(d) /\ d \in Downloads
    BY DEF BareInv, AllBare, BareBase, Grounds, Base, Typed
  <2>2. told[d] # "running" => d \in delivered
    BY <2>1 DEF BareInv, BareBase, Grounds, Alone, Base, OutcomeInv, Told, EndedIsDelivered
  <2> QED BY <2>1, <2>2 DEF Bare, Settled
<1> QED BY <1>1, <1>2, <1>3, PTL DEF Spec

--------------------------------------------------------------------------------
(* An open link that nobody will close was replaced in the cache *)

\* A link that is held, worked on or cached was built, by a download past its search.
Built ==
  /\ \A d \in Downloads : /\ pc[d]["main"] \in {"idle", "path"} => st[d] = "none"
                          /\ link[d] # None => st[link[d]] # "none"
                          /\ over[d] # None => st[over[d]] # "none"
  /\ \A k \in Keys : cache[k] # None => st[cache[k]] # "none"

\* Whoever lets go of the link it works on has closed it.
Followed == \A d \in Downloads : over[d] \in {None, link[d]} \/ st[over[d]] = "closed"

\* The cache gets links that were established.
Warm ==
  /\ \A k \in Keys : cache[k] # None => st[cache[k]] \in {"active", "closed"}
  /\ \A d \in Downloads, t \in Threads : pc[d][t] = "cache" => st[over[d]] \in {"active", "closed"}
  /\ \A l \in replaced : st[l] \in {"active", "closed"}

CancelIsGiven == \A d \in Downloads : pc[d]["cancel"] = "deliver" => Concluded(d)

LEMMA BuiltStart == Init => Built /\ Followed /\ Warm /\ CancelIsGiven
  BY DEF Init, Built, Followed, Warm, CancelIsGiven, Threads

\* What becomes of a link, and of the hold that download l has on one.
Fate(l) ==
  /\ st[l] = "closed" => st'[l] = "closed"
  /\ st[l] = "active" => st'[l] \in {"active", "closed"}
  /\ st[l] = "pending" => st'[l] # "none"
  /\ st[l] = "none" => \/ st'[l] = "none"
                       \/ /\ st'[l] = "pending" /\ link'[l] = l /\ pc'[l]["main"] = "linking"
                          /\ ~Concluded(l)'
  /\ link'[l] = l => link[l] = l \/ st'[l] # "none"
  /\ \/ link'[l] = link[l] \/ link[l] = None
     \/ link'[l] = None /\ st'[link[l]] = "closed" /\ cache' = cache

LEMMA FateStep == Grounds /\ Shelf /\ Built /\ [Next]_vars => \A l \in Downloads : Fate(l)
<1> SUFFICES ASSUME Grounds, Shelf, Built, [Next]_vars PROVE \A l \in Downloads : Fate(l)
  OBVIOUS
<1> USE DEF self, links
<1>0. /\ st \in [Downloads -> {"none", "pending", "active", "closed"}]
      /\ link \in [Downloads -> Downloads \cup {None}]
      /\ cache \in [Keys -> Downloads \cup {None}]
      /\ pc \in [Downloads -> [Threads -> Pcs]] /\ "main" \in Threads
      /\ None \notin Downloads /\ Built /\ Unlinked
  BY NomadAssumption DEF Grounds, Base, Typed, Shelf, Threads
<1>a. ASSUME st' = st, link' = link PROVE \A l \in Downloads : Fate(l)
  BY <1>0, <1>a DEF Fate
\* Links that were built close.
<1>b. ASSUME NEW L, Close(L), \A l \in Downloads \cap L : st[l] # "none" PROVE
             \A l \in Downloads : /\ st[l] = "closed" => st'[l] = "closed"
                                  /\ st[l] = "active" => st'[l] \in {"active", "closed"}
                                  /\ st[l] = "pending" => st'[l] # "none"
                                  /\ st[l] = "none" => st'[l] = "none"
                                  /\ l \in L => st'[l] = "closed"
  BY <1>0, <1>b DEF Close
<1>1. ASSUME NEW d \in Downloads, Start(d) PROVE \A l \in Downloads : Fate(l)
  <2>1. /\ link[d] = None /\ st' = st
        /\ \A e \in Downloads \ {d} : link'[e] = link[e]
        /\ link'[d] = None \/ \E k \in Keys : link'[d] = cache[k]
    BY <1>0, <1>1 DEF Start, At, Unlinked
  <2>2. link'[d] = d => st[d] # "none"
    BY <1>0, <2>1 DEF Built
  <2> QED BY <1>0, <2>1, <2>2 DEF Fate
<1>2. ASSUME NEW d \in Downloads, PathFound(d) PROVE \A l \in Downloads : Fate(l)
  <2> DEFINE hit == d \notin private /\ Hit(key[d])
  <2>1. /\ pc[d]["main"] = "path"
        /\ link' = [link EXCEPT ![d] = IF hit THEN cache[key[d]] ELSE d]
        /\ st' = IF hit THEN st ELSE [st EXCEPT ![d] = "pending"]
        /\ pc' = [pc EXCEPT ![d]["main"] = IF hit THEN "guard" ELSE "linking"]
        /\ hit \/ ~Concluded(d)'
    BY <1>2 DEF PathFound, At, Goto, Concluded, flags
  <2> HIDE DEF hit
  <2>2. link[d] = None /\ st[d] = "none"
    BY <1>0, <2>1 DEF Built, Unlinked
  <2>3. \A e \in Downloads \ {d} : link'[e] = link[e] /\ st'[e] = st[e]
    BY <1>0, <2>1
  <2>4. hit => link'[d] = cache[key[d]] /\ cache[key[d]] # None /\ key[d] \in Keys
    <3>1. hit => cache[key[d]] # None
      BY DEF hit, Hit
    <3>2. key[d] \in Keys
      BY <2>1, <1>0, GoerIsStarted DEF Grounds, Base, Typed
    <3> QED BY <1>0, <2>1, <3>1, <3>2
  <2>5. /\ \/ st'[d] = "none"
           \/ st'[d] = "pending" /\ link'[d] = d /\ pc'[d]["main"] = "linking" /\ ~Concluded(d)'
        /\ link'[d] = d => st'[d] # "none"
    BY <1>0, <2>1, <2>2, <2>4 DEF Built
  <2> QED BY <1>0, <2>2, <2>3, <2>5 DEF Fate
<1>3. ASSUME NEW d \in Downloads, TearDown(d), cache' = cache PROVE \A l \in Downloads : Fate(l)
  <2>1. Close({link[d]} \ {None}) /\ link' = [link EXCEPT ![d] = None]
    BY <1>3 DEF TearDown
  <2>2. \A l \in Downloads \cap ({link[d]} \ {None}) : st[l] # "none"
    BY <1>0 DEF Built
  <2>3. \A e \in Downloads \ {d} : link'[e] = link[e]
    BY <1>0, <2>1
  <2>4. link'[d] = None /\ (link[d] # None => st'[link[d]] = "closed")
    BY <1>0, <1>b, <2>1, <2>2
  <2>5. \A l \in Downloads : link'[l] = l => link[l] = l
    BY <1>0, <2>3, <2>4
  <2> QED BY <1>3, <1>b, <2>1, <2>2, <2>3, <2>4, <2>5 DEF Fate
<1>4. ASSUME NEW d \in Downloads, NEW t \in Threads, Abandon(d, t) \/ Shut(d, t)
      PROVE  \A l \in Downloads : Fate(l)
  BY <1>3, <1>4, <1>a DEF Abandon, Shut, store
<1>5. ASSUME NEW d \in Downloads, Establish(d) PROVE \A l \in Downloads : Fate(l)
  BY <1>0, <1>5 DEF Establish, Fate
<1>6. ASSUME NEW d \in Downloads, NEW t \in Threads,
             \/ StopsWaiting(d) \/ NoPath(d) \/ SeesActive(d) \/ LinkTimesOut(d)
             \/ Watch(d) \/ SetFlag(d) \/ Guard(d, t) \/ Cache(d, t) \/ Request(d, t) \/ Record(d, t)
             \/ Uncache(d, t) \/ Deliver(d, t) \/ Answer(d) \/ Cancel(d)
      PROVE  \A l \in Downloads : Fate(l)
  <2>1. st' = st /\ link' = link
    BY <1>6 DEF StopsWaiting, NoPath, SeesActive, LinkTimesOut, Watch, SetFlag, Guard, Cache, Request,
       Record, Uncache, Deliver, Answer, Cancel
  <2> QED BY <1>a, <2>1
<1>7. CASE \/ \E l \in Downloads : RemoteClose(l)
           \/ Sweep \/ Drop(Keys) \/ \E k \in Keys : Drop({k})
  <2>1. \E L : Close(L) /\ link' = link /\ \A l \in Downloads \cap L : st[l] # "none"
    <3>1. CASE \E l \in Downloads : RemoteClose(l)
      BY <3>1 DEF RemoteClose, Open
    <3>2. CASE Sweep \/ Drop(Keys) \/ \E k \in Keys : Drop({k})
      <4>1. PICK K : CleansOut(K)
        BY <3>2, SweepCleans, DropCleans
      <4>2. \A l \in Downloads \cap ({cache[k] : k \in K} \ {None}) : st[l] # "none"
        BY <1>0, <4>1 DEF CleansOut, Built
      <4> QED BY <4>1, <4>2 DEF CleansOut
    <3> QED BY <1>7, <3>1, <3>2
  <2> QED BY <1>b, <2>1 DEF Fate
<1>8. CASE UNCHANGED vars
  BY <1>a, <1>8 DEF vars
<1> QED BY <1>0, <1>1, <1>2, <1>4, <1>5, <1>6, <1>7, <1>8 DEF Next, Step, Main, GiveUp

\* How a thread comes to put its link into the cache, cancel() to its last step, and
\* a link to be replaced.
LEMMA WarmMoves ==
  ASSUME Grounds, [Next]_vars
  PROVE  /\ \A e \in Downloads, u \in Threads : pc'[e][u] = "cache" =>
              pc[e][u] = "cache" \/ (pc[e][u] = "guard" /\ Active(over[e]) /\ st' = st)
         /\ \A e \in Downloads : pc'[e]["cancel"] = "deliver" =>
              pc[e]["cancel"] \in {"abandon", "shut", "deliver"}
         /\ \A l \in replaced' : l \in replaced \/ (Active(l) /\ st' = st)
<1> USE DEF self, links
<1> DEFINE Cachers == \A e \in Downloads, u \in Threads : pc'[e][u] = "cache" =>
              pc[e][u] = "cache" \/ (pc[e][u] = "guard" /\ Active(over[e]) /\ st' = st)
           Finals == \A e \in Downloads : pc'[e]["cancel"] = "deliver" =>
              pc[e]["cancel"] \in {"abandon", "shut", "deliver"}
           Out == \A l \in replaced' : l \in replaced \/ (Active(l) /\ st' = st)
<1>0. pc \in [Downloads -> [Threads -> Pcs]] /\ "main" \in Threads /\ "watch" \in Threads
      /\ "ans" \in Threads /\ "cancel" \in Threads /\ "est" \in Threads
  BY DEF Grounds, Base, Typed, Threads
<1>a. ASSUME NEW d \in Downloads, NEW t \in Threads, NEW q, pc' = [pc EXCEPT ![d][t] = q],
             q = "cache" => pc[d][t] = "guard" /\ Active(over[d]) /\ st' = st,
             q = "deliver" => t # "cancel" \/ pc[d][t] \in {"abandon", "shut"}
      PROVE  Cachers /\ Finals
  <2>1. /\ pc'[d][t] = q /\ \A u \in Threads \ {t} : pc'[d][u] = pc[d][u]
        /\ \A e \in Downloads \ {d} : pc'[e] = pc[e]
    BY <1>0, <1>a
  <2> QED BY <1>0, <1>a, <2>1
<1>1. ASSUME NEW d \in Downloads, \/ Start(d) \/ Main(d) \/ Watch(d) \/ SetFlag(d) \/ Cancel(d) \/ Answer(d)
                                  \/ Establish(d)
      PROVE  Cachers /\ Finals /\ Out
  <2>1. /\ replaced' \subseteq replaced
        /\ \E t \in Threads, q \in {"guard", "path", "linking", "done", "deliver", "uncache", "abandon", "flag"} :
             /\ pc' = [pc EXCEPT ![d][t] = q]
             /\ q = "deliver" => t # "cancel"
    <3>1. CASE Start(d) \/ Main(d)
      BY <1>0, <3>1 DEF Start, Main, StopsWaiting, NoPath, PathFound, SeesActive, LinkTimesOut, Goto
    <3>2. CASE Watch(d)
      BY <1>0, <3>2 DEF Watch, Goto
    <3>3. CASE SetFlag(d) \/ Cancel(d)
      BY <1>0, <3>3 DEF SetFlag, Cancel, Goto
    <3>4. CASE Answer(d) \/ Establish(d)
      BY <1>0, <3>4 DEF Answer, Establish, Goto
    <3> QED BY <1>1, <3>1, <3>2, <3>3, <3>4
  <2>2. Cachers /\ Finals
    BY <1>a, <2>1
  <2> QED BY <2>1, <2>2
<1>2. ASSUME NEW d \in Downloads, NEW t \in Threads,
             Guard(d, t) \/ Request(d, t) \/ Uncache(d, t) \/ Deliver(d, t)
      PROVE  Cachers /\ Finals /\ Out
  <2>1. /\ replaced' = replaced
        /\ \E q \in {"done", "cache", "request", "record", "uncache", "abandon"} :
             /\ pc' = [pc EXCEPT ![d][t] = q]
             /\ q = "cache" => pc[d][t] = "guard" /\ Active(over[d]) /\ st' = st
    BY <1>2 DEF Guard, Request, Uncache, Deliver, Goto, At
  <2>2. Cachers /\ Finals
    BY <1>a, <2>1
  <2> QED BY <2>1, <2>2
<1>3. ASSUME NEW d \in Downloads, NEW t \in Threads, Cache(d, t) PROVE Cachers /\ Finals /\ Out
  <2>1. /\ st' = st
        /\ \E q \in {"request"} : pc' = [pc EXCEPT ![d][t] = q]
        /\ \A l \in replaced' : Active(l)
    BY <1>3 DEF Cache, CacheLink, Goto
  <2>2. Cachers /\ Finals
    BY <1>a, <2>1
  <2> QED BY <2>1, <2>2
<1>4. ASSUME NEW d \in Downloads, NEW t \in Threads, Record(d, t) PROVE Cachers /\ Finals /\ Out
  <2>1. replaced' = replaced /\ pc' = [pc EXCEPT ![d][t] = "done", ![d]["watch"] = "watching"]
    BY <1>4 DEF Record
  <2>2. \A e \in Downloads, u \in Threads : pc'[e][u] \in {pc[e][u], "done", "watching"}
    BY <1>0, <2>1
  <2> QED BY <1>0, <2>1, <2>2
<1>5. ASSUME NEW d \in Downloads, NEW t \in Threads, Abandon(d, t) \/ Shut(d, t)
      PROVE  Cachers /\ Finals /\ Out
  <2>1. /\ replaced' \subseteq replaced /\ pc[d][t] \in {"abandon", "shut"}
        /\ \E q \in {"done", "deliver", "shut"} : pc' = [pc EXCEPT ![d][t] = q]
    BY <1>5 DEF Abandon, Shut, TearDown, Close, Then, Goto, At
  <2>2. Cachers /\ Finals
    BY <1>a, <2>1
  <2> QED BY <2>1, <2>2
<1>6. CASE \/ \E l \in Downloads : RemoteClose(l)
           \/ Sweep \/ Drop(Keys) \/ \E k \in Keys : Drop({k})
  <2>1. pc' = pc /\ \E L : Close(L)
    BY <1>6, SweepCleans, DropCleans DEF RemoteClose, CleansOut
  <2> QED BY <2>1 DEF Close
<1>7. CASE UNCHANGED vars
  BY <1>7 DEF vars
<1> QED BY <1>0, <1>1, <1>2, <1>3, <1>4, <1>5, <1>6, <1>7 DEF Next, Step, GiveUp

LeakBase == Grounds /\ Shelf /\ Owned /\ Built /\ Followed /\ Warm /\ CancelIsGiven

LEMMA LeakBaseStep == LeakBase /\ [Next]_vars => LeakBase'
<1> SUFFICES ASSUME LeakBase, [Next]_vars PROVE LeakBase'
  OBVIOUS
<1>1. Grounds' /\ Shelf' /\ Owned'
  BY GroundsStep, ShelfStep, OwnedStep DEF LeakBase, Grounds
<1>2. /\ st \in [Downloads -> {"none", "pending", "active", "closed"}]
      /\ link \in [Downloads -> Downloads \cup {None}]
      /\ over \in [Downloads -> Downloads \cup {None}]
      /\ cache \in [Keys -> Downloads \cup {None}]
      /\ None \notin Downloads /\ Threads = {"main", "est", "watch", "ans", "cancel"}
      /\ replaced \subseteq Downloads /\ replaced' \subseteq Downloads
      /\ link' \in [Downloads -> Downloads \cup {None}]
      /\ over' \in [Downloads -> Downloads \cup {None}]
      /\ cache' \in [Keys -> Downloads \cup {None}]
      /\ st' \in [Downloads -> {"none", "pending", "active", "closed"}]
  BY <1>1, NomadAssumption DEF LeakBase, Grounds, Base, Typed, Threads
<1>3. /\ StoreMoves /\ (\A e \in Downloads : LinkMoves(e)) /\ (\A e \in Downloads : GivesUp(e))
      /\ \A l \in Downloads : Fate(l)
  BY StoreStep, LinkStep, AbandonStep, FateStep DEF LeakBase, Grounds
<1>4. /\ Built /\ Followed /\ Warm /\ CancelIsGiven /\ Unlinked /\ Given /\ HasLink
      /\ \A d \in Downloads : Places(d) /\ Before(d)
  BY DEF LeakBase, Shelf, Grounds, Base, Placed
<1>5. /\ \A d \in Downloads : link[d] # None => st[link[d]] \in {"pending", "active", "closed"}
      /\ \A d \in Downloads : over[d] # None => st[over[d]] \in {"pending", "active", "closed"}
      /\ \A k \in Keys : cache[k] # None => st[cache[k]] \in {"active", "closed"}
  BY <1>2, <1>4 DEF Built, Warm
\* What was built stays built, what is warm stays warm.
<1>6. \A l \in Downloads : /\ st[l] # "none" => st'[l] # "none"
                           /\ st[l] \in {"active", "closed"} => st'[l] \in {"active", "closed"}
                           /\ st[l] = "closed" => st'[l] = "closed"
  BY <1>2, <1>3 DEF Fate
<1>7. \A k \in Keys : \/ cache'[k] \in {cache[k], None}
                      \/ \E d \in Downloads, t \in Threads : pc[d][t] = "cache" /\ cache'[k] = over[d]
  BY <1>3 DEF StoreMoves
<1>8. \A k \in Keys : cache'[k] # None => st'[cache'[k]] \in {"active", "closed"}
  <2> SUFFICES ASSUME NEW k \in Keys, cache'[k] # None PROVE st'[cache'[k]] \in {"active", "closed"}
    OBVIOUS
  <2>1. CASE cache'[k] = cache[k]
    BY <1>2, <1>5, <1>6, <2>1
  <2>2. CASE \E d \in Downloads, t \in Threads : pc[d][t] = "cache" /\ cache'[k] = over[d]
    BY <1>2, <1>4, <1>6, <2>2 DEF Warm
  <2> QED BY <1>7, <2>1, <2>2
<1>9. Built'
  <2>1. ASSUME NEW d \in Downloads PROVE /\ pc'[d]["main"] \in {"idle", "path"} => st'[d] = "none"
                                         /\ link'[d] # None => st'[link'[d]] # "none"
                                         /\ over'[d] # None => st'[over'[d]] # "none"
    <3>1. pc'[d]["main"] \in {"idle", "path"} => st'[d] = "none"
      BY <1>3, <1>4 DEF GivesUp, Fate, Built
    <3>2. CASE Takes(d)
      <4>1. CASE link'[d] = d
        BY <1>2, <1>3, <1>4, <3>2, <4>1 DEF Takes, Fate, Unlinked
      <4>2. CASE link'[d] = cache[key'[d]] /\ link'[d] # None
        BY <1>2, <1>5, <1>6, <3>1, <3>2, <4>2 DEF Takes
      <4> QED BY <3>2, <4>1, <4>2 DEF Takes
    <3>3. CASE over'[d] = over[d] /\ link'[d] \in {link[d], None}
      BY <1>2, <1>5, <1>6, <3>1, <3>3
    <3> QED BY <1>3, <3>2, <3>3 DEF LinkMoves
  <2> QED BY <1>2, <1>8, <2>1 DEF Built
<1>10. Followed'
  <2> SUFFICES ASSUME NEW d \in Downloads
               PROVE  over'[d] \in {None, link'[d]} \/ st'[over'[d]] = "closed"
    BY DEF Followed
  <2>1. CASE Takes(d)
    BY <2>1 DEF Takes
  <2>2. CASE over'[d] = over[d] /\ link'[d] \in {link[d], None}
    <3>1. CASE over[d] \notin {None, link[d]}
      BY <1>2, <1>4, <1>6, <2>2, <3>1 DEF Followed
    <3>2. CASE over[d] = link[d] /\ over[d] # None
      BY <1>2, <1>3, <2>2, <3>2 DEF Fate
    <3>3. CASE over[d] = None
      BY <2>2, <3>3
    <3> QED BY <3>1, <3>2, <3>3
  <2> QED BY <1>3, <2>1, <2>2 DEF LinkMoves
<1>11. Warm'
  <2>1. ASSUME NEW d \in Downloads, NEW t \in Threads, pc'[d][t] = "cache"
        PROVE  st'[over'[d]] \in {"active", "closed"}
    <3>1. pc[d][t] = "cache" \/ (pc[d][t] = "guard" /\ Active(over[d]) /\ st' = st)
      BY <2>1, WarmMoves DEF LeakBase
    <3>2. over[d] \in Downloads
      BY <1>2, <1>4, <3>1 DEF HasLink
    <3>3. over'[d] = over[d] /\ st'[over[d]] \in {"active", "closed"}
      <4>1. ~Takes(d)
        BY <1>2, <1>4, <3>2 DEF Takes, Unlinked
      <4>2. CASE pc[d][t] = "cache"
        BY <1>3, <1>4, <1>6, <3>2, <4>1, <4>2 DEF LinkMoves, Warm
      <4> QED BY <1>3, <3>1, <4>1, <4>2 DEF LinkMoves, Active
    <3> QED BY <3>3
  <2>2. ASSUME NEW l \in replaced' PROVE st'[l] \in {"active", "closed"}
    <3>1. l \in replaced \/ (Active(l) /\ st' = st)
      BY WarmMoves DEF LeakBase
    <3> QED BY <1>2, <1>4, <1>6, <3>1 DEF Warm, Active
  <2> QED BY <1>8, <2>1, <2>2 DEF Warm
<1>12. CancelIsGiven'
  <2> SUFFICES ASSUME NEW d \in Downloads, pc'[d]["cancel"] = "deliver" PROVE Concluded(d)'
    BY DEF CancelIsGiven
  <2>1. pc[d]["cancel"] \in {"abandon", "shut", "deliver"}
    BY WarmMoves DEF LeakBase
  <2>2. Concluded(d)
    BY <1>2, <1>4, <2>1 DEF CancelIsGiven, Given
  <2> QED BY <1>3, <2>2 DEF GivesUp
<1> QED BY <1>1, <1>9, <1>10, <1>11, <1>12 DEF LeakBase

IsCached(l) == \E k \in Keys : cache[k] = l

\* Thread t of d has _maybe_teardown_abandoned_link ahead of it.
Remains(q, t) == q \in {"flag", "uncache", "abandon", "shut"} \/ (q = "deliver" /\ t # "cancel")

\* An open link need not be closed when the cache has it, when the cache had it, or when
\* somebody who holds it will abandon it.
Excused(l) == \/ IsCached(l) \/ l \in replaced
              \/ \E d \in Downloads, t \in Threads : link[d] = l /\ Remains(pc[d][t], t)

\* From when on download l no longer works towards the cache.
Due(l) == \/ Concluded(l)
          \/ l \notin private /\ (receipt[l] # "none" \/ \E t \in Threads : pc[l][t] = "request")

NoLeak == \A l \in Downloads : Open(l) /\ Due(l) => Excused(l)

LEMMA ExcuseStep ==
  ASSUME LeakBase, [Next]_vars, NEW l \in Downloads, Open(l), Open(l)', Excused(l)
  PROVE  Excused(l)'
<1> USE DEF self, links
<1>0. /\ pc \in [Downloads -> [Threads -> Pcs]]
      /\ st \in [Downloads -> {"none", "pending", "active", "closed"}]
      /\ cache \in [Keys -> Downloads \cup {None}]
      /\ link \in [Downloads -> Downloads \cup {None}]
      /\ None \notin Downloads /\ Threads = {"main", "est", "watch", "ans", "cancel"}
      /\ Base /\ Placed /\ Unlinked /\ Followed /\ Warm
  BY NomadAssumption DEF LeakBase, Grounds, Base, Typed, Shelf, Threads
<1> DEFINE InCache == IsCached(l) => Excused(l)'
           Out     == l \in replaced => Excused(l)'
           Held    == \A d \in Downloads, t \in Threads : link[d] = l /\ Remains(pc[d][t], t) => Excused(l)'
<1>a. ASSUME InCache, Out, Held PROVE Excused(l)'
  BY <1>a DEF Excused
<1>b. ASSUME NEW d \in Downloads, NEW t \in Threads, NEW q, pc' = [pc EXCEPT ![d][t] = q],
             \A e \in Downloads \ {d} : link'[e] = link[e],
             link'[d] = link[d] \/ link[d] # l,
             link[d] = l /\ Remains(pc[d][t], t) => Remains(q, t) \/ IsCached(l)'
      PROVE  Held
  <2>1. /\ pc'[d][t] = q /\ \A u \in Threads \ {t} : pc'[d][u] = pc[d][u]
        /\ \A e \in Downloads \ {d} : pc'[e] = pc[e]
    BY <1>0, <1>b
  <2> SUFFICES ASSUME NEW e \in Downloads, NEW u \in Threads, link[e] = l, Remains(pc[e][u], u)
               PROVE  Excused(l)'
    OBVIOUS
  <2>2. link'[e] = l
    BY <1>b
  <2>3. CASE e = d /\ u = t
    <3>1. Remains(q, t) \/ IsCached(l)'
      BY <1>b, <2>3
    <3> QED BY <2>1, <2>2, <2>3, <3>1 DEF Excused
  <2>4. CASE ~(e = d /\ u = t)
    <3>1. pc'[e][u] = pc[e][u]
      BY <2>1, <2>4
    <3>2. Remains(pc'[e][u], u)
      BY <3>1
    <3> QED BY <2>2, <3>2 DEF Excused
  <2> QED BY <2>3, <2>4
<1>c. ASSUME cache' = cache PROVE InCache
  BY <1>c DEF IsCached, Excused
<1>d. ASSUME replaced' = replaced PROVE Out
  BY <1>d DEF Excused
\* What closes is no longer replaced, and not open.
<1>e. ASSUME NEW L, Close(L) PROVE Out /\ l \notin L
  <2>1. l \notin L
    BY <1>0, <1>e DEF Close, Open
  <2> QED BY <1>e, <2>1 DEF Close, Excused
<1>f. ASSUME NEW k \in Keys, Looked(k) PROVE InCache
  <2>1. CASE cache' = cache
    BY <1>c, <2>1
  <2>2. CASE Without({k}) /\ ~Active(cache[k]) /\ cache[k] # None
    <3>1. cache[k] # l
      BY <1>0, <2>2 DEF Warm, Open, Active
    <3> QED BY <1>0, <2>2, <3>1 DEF Without, IsCached, Excused
  <2> QED BY <1>f, <2>1, <2>2 DEF Looked, Hit
<1>1. ASSUME NEW d \in Downloads, Start(d) \/ PathFound(d) PROVE Excused(l)'
  <2>1. /\ pc[d]["main"] \in {"idle", "path"} /\ replaced' = replaced
        /\ \E q : pc' = [pc EXCEPT ![d]["main"] = q]
        /\ \A e \in Downloads \ {d} : link'[e] = link[e]
    <3>1. CASE Start(d)
      BY <1>0, <3>1 DEF Start, At, Goto
    <3>2. CASE PathFound(d)
      BY <1>0, <3>2 DEF PathFound, At, Goto
    <3> QED BY <1>1, <3>1, <3>2
  <2>2. link[d] # l
    BY <1>0, <2>1 DEF Unlinked
  <2>3. Held
    BY <1>0, <1>b, <2>1, <2>2
  <2>4. InCache
    <3>1. cache' = cache \/ \E k \in Keys : Looked(k)
      <4>1. CASE Start(d)
        BY <4>1 DEF Start, store
      <4>2. CASE PathFound(d)
        <5>1. key[d] \in Keys
          BY <1>0, <4>2, GoerIsStarted DEF PathFound, At, Base, Typed
        <5> QED BY <4>2, <5>1 DEF PathFound, store
      <4> QED BY <1>1, <4>1, <4>2
    <3> QED BY <1>c, <1>f, <3>1
  <2> QED BY <1>a, <1>d, <2>1, <2>3, <2>4
<1>2. ASSUME NEW d \in Downloads, NEW t \in Threads,
             \/ t = "main" /\ (StopsWaiting(d) \/ NoPath(d) \/ SeesActive(d) \/ LinkTimesOut(d))
             \/ t = "watch" /\ Watch(d)
             \/ t = "cancel" /\ (SetFlag(d) \/ Cancel(d))
             \/ Guard(d, t) \/ Request(d, t) \/ Deliver(d, t)
      PROVE  Excused(l)'
  <2>1. /\ UNCHANGED <<cache, link, replaced>>
        /\ \E q : pc' = [pc EXCEPT ![d][t] = q] /\ (Remains(pc[d][t], t) => q = "abandon")
    <3>1. CASE t = "main" /\ (StopsWaiting(d) \/ NoPath(d) \/ SeesActive(d) \/ LinkTimesOut(d))
      BY <3>1 DEF StopsWaiting, NoPath, SeesActive, LinkTimesOut, At, Goto, Remains, store
    <3>2. CASE t = "watch" /\ Watch(d)
      BY <3>2 DEF Watch, At, Goto, Remains, store
    <3>3. CASE t = "cancel" /\ (SetFlag(d) \/ Cancel(d))
      BY <3>3 DEF SetFlag, Cancel, At, Goto, Remains, store
    <3>4. CASE Guard(d, t) \/ Request(d, t) \/ Deliver(d, t)
      BY <3>4 DEF Guard, Request, Deliver, At, Goto, Remains, store
    <3> QED BY <1>2, <3>1, <3>2, <3>3, <3>4
  <2>2. Held
    BY <1>b, <2>1 DEF Remains
  <2> QED BY <1>a, <1>c, <1>d, <2>1, <2>2
<1>3. ASSUME NEW d \in Downloads, NEW t \in Threads, Cache(d, t) PROVE Excused(l)'
  <2>1. key[d] \in Keys /\ pc[d][t] = "cache"
    BY <1>3, GoerIsStarted, <1>0 DEF Base, Typed, Cache, At
  <2>2. PICK out :
          /\ cache' = [m \in Keys |-> IF m = key[d] THEN over[d] ELSE IF m \in out THEN None ELSE cache[m]]
          /\ \A m \in out : ~Active(cache[m])
          /\ replaced' = {m \in replaced \cup ({cache[key[d]]} \ {None}) : Active(m)} \ {over[d]}
    BY <1>3, <2>1, CacheLinkMoves DEF Cache
  <2>3. over[d] = l => IsCached(l)'
    BY <2>1, <2>2 DEF IsCached
  <2>4. Active(l) /\ l \in replaced \cup {cache[key[d]]} => l \in replaced' \/ over[d] = l
    BY <1>0, <2>2
  <2>5. InCache
    <3> SUFFICES ASSUME NEW k \in Keys, cache[k] = l PROVE Excused(l)'
      BY DEF IsCached
    <3>1. Active(l)
      BY <1>0 DEF Warm, Open, Active
    <3>2. CASE k = key[d]
      BY <2>3, <2>4, <3>1, <3>2 DEF Excused
    <3>3. CASE k # key[d]
      BY <2>2, <3>1, <3>3 DEF IsCached, Excused
    <3> QED BY <3>2, <3>3
  <2>6. Out
    <3>1. l \in replaced => Active(l)
      BY <1>0 DEF Warm, Open, Active
    <3> QED BY <2>3, <2>4, <3>1 DEF Excused
  <2>7. Held
    <3>1. pc' = [pc EXCEPT ![d][t] = "request"] /\ link' = link
      BY <1>3 DEF Cache, Goto
    <3> QED BY <1>b, <2>1, <3>1 DEF Remains
  <2> QED BY <1>a, <2>5, <2>6, <2>7
<1>4. ASSUME NEW d \in Downloads, NEW t \in Threads, Record(d, t) PROVE Excused(l)'
  <2>1. /\ pc' = [pc EXCEPT ![d][t] = "done", ![d]["watch"] = "watching"] /\ pc[d][t] = "record"
        /\ UNCHANGED <<cache, link, replaced>>
    BY <1>4 DEF Record, At, store
  <2>2. pc[d]["watch"] = "idle" /\ t # "watch"
    BY <1>0, <2>1 DEF Placed, Places, Before, Asks
  <2>3. \A e \in Downloads, u \in Threads : Remains(pc[e][u], u) => pc'[e][u] = pc[e][u]
    BY <1>0, <2>1, <2>2 DEF Remains
  <2> QED BY <2>1, <2>3 DEF Excused, IsCached
<1>5. ASSUME NEW d \in Downloads, NEW t \in Threads, Uncache(d, t) PROVE Excused(l)'
  <2>1. /\ pc' = [pc EXCEPT ![d][t] = "abandon"] /\ UNCHANGED <<link, replaced>>
        /\ Uncached(key[d], over[d])
    BY <1>5 DEF Uncache, Goto
  <2>2. pc'[d][t] = "abandon"
    BY <1>0, <2>1
  <2>3. CASE over[d] = l
    <3>1. link'[d] = l
      BY <1>0, <2>1, <2>3 DEF Followed, Open
    <3> QED BY <2>2, <3>1 DEF Excused, Remains
  <2>4. CASE over[d] # l
    <3>1. InCache
      BY <1>0, <2>1, <2>4 DEF Uncached, Without, IsCached, Excused, store
    <3>2. Held
      BY <1>b, <2>1 DEF Remains
    <3> QED BY <1>a, <1>d, <2>1, <3>1, <3>2
  <2> QED BY <2>3, <2>4
<1>6. ASSUME NEW d \in Downloads, NEW t \in Threads, TearDown(d), \E q : pc' = [pc EXCEPT ![d][t] = q],
             cache' = cache
      PROVE  Excused(l)'
  <2>1. Out /\ l \notin {link[d]} \ {None}
    BY <1>e, <1>6 DEF TearDown
  <2>2. link[d] # l /\ \A e \in Downloads \ {d} : link'[e] = link[e]
    BY <1>0, <1>6, <2>1 DEF TearDown
  <2>3. Held
    BY <1>b, <1>6, <2>2
  <2> QED BY <1>a, <1>c, <1>6, <2>1, <2>3
<1>7. ASSUME NEW d \in Downloads, NEW t \in Threads, Abandon(d, t) PROVE Excused(l)'
  <2>1. CASE TearDown(d)
    BY <1>6, <1>7, <2>1 DEF Abandon, Goto, store
  <2>2. CASE ~TearDown(d)
    <3>1. /\ pc[d][t] = "abandon" /\ UNCHANGED <<cache, link, replaced>>
          /\ \E q : pc' = [pc EXCEPT ![d][t] = q] /\ (q = "shut" \/ cache[key[d]] = link[d])
      BY <1>7, <2>2 DEF Abandon, At, Goto, store, Shared
    <3>2. key[d] \in Keys
      BY <1>0, <3>1, GoerIsStarted DEF Base, Typed
    <3>3. cache[key[d]] = l => IsCached(l)'
      BY <3>1, <3>2 DEF IsCached
    <3>4. Held
      BY <1>b, <3>1, <3>3 DEF Remains
    <3> QED BY <1>a, <1>c, <1>d, <3>1, <3>4
  <2> QED BY <2>1, <2>2
<1>8. ASSUME NEW d \in Downloads, NEW t \in Threads, Shut(d, t) PROVE Excused(l)'
  BY <1>6, <1>8 DEF Shut, Goto, store
<1>9. ASSUME NEW d \in Downloads, Answer(d) \/ Establish(d) PROVE Excused(l)'
  <2>1. /\ UNCHANGED <<cache, link, replaced>>
        /\ \E t \in {"ans", "est"} : pc[d][t] = "idle" /\ \E q : pc' = [pc EXCEPT ![d][t] = q]
    <3>1. CASE Answer(d)
      BY <1>0, <3>1 DEF Answer, Goto, store, Placed, Before
    <3>2. CASE Establish(d)
      BY <1>0, <3>2 DEF Establish, Goto, store, Placed, Before
    <3> QED BY <1>9, <3>1, <3>2
  <2>2. Held
    BY <1>0, <1>b, <2>1 DEF Remains
  <2> QED BY <1>a, <1>c, <1>d, <2>1, <2>2
<1>10. ASSUME NEW L, Close(L), UNCHANGED <<pc, link>>, InCache PROVE Excused(l)'
  BY <1>a, <1>e, <1>10 DEF Excused
<1>11. CASE \E r \in Downloads : RemoteClose(r)
  <2>1. cache' = cache /\ \E L : Close(L) /\ UNCHANGED <<pc, link>>
    BY <1>11 DEF RemoteClose, store
  <2> QED BY <1>c, <1>10, <2>1
<1>12. CASE Sweep \/ Drop(Keys) \/ \E k \in Keys : Drop({k})
  <2>1. PICK K : CleansOut(K)
    BY <1>12, SweepCleans, DropCleans
  <2>2. l \notin {cache[k] : k \in K} \ {None}
    BY <1>e, <2>1 DEF CleansOut
  <2>3. InCache
    BY <1>0, <2>1, <2>2 DEF CleansOut, Without, IsCached, Excused
  <2> QED BY <1>10, <2>1, <2>3 DEF CleansOut
<1>13. CASE UNCHANGED vars
  BY <1>13 DEF vars, store, Excused, IsCached
<1>14. "main" \in Threads /\ "cancel" \in Threads
  BY DEF Threads
<1> QED BY <1>1, <1>2, <1>3, <1>4, <1>5, <1>7, <1>8, <1>9, <1>11, <1>12, <1>13, <1>14
        DEF Next, Step, Main, GiveUp

\* A download stops working towards the cache when it, or its canceller, goes on to
\* abandon the link, or when the link is in the cache.
LEMMA DueStep ==
  ASSUME LeakBase, [Next]_vars, NEW l \in Downloads, Open(l), Open(l)', Due(l)', ~Due(l)
  PROVE  Excused(l)'
<1> USE DEF self, links, flags
<1>0. /\ pc \in [Downloads -> [Threads -> Pcs]]
      /\ st \in [Downloads -> {"none", "pending", "active", "closed"}]
      /\ receipt \in [Downloads -> {"none", "sent", "out", "off"}]
      /\ link[l] = l /\ over[l] = l /\ Places(l) /\ Before(l)
      /\ Threads = {"main", "est", "watch", "ans", "cancel"}
      /\ Base /\ CancelIsGiven
  BY DEF LeakBase, Grounds, Base, Typed, Owned, Placed, Threads
\* Nothing that matters to l happens.
<1>a. ASSUME Concluded(l)' => Concluded(l), private \subseteq private',
             \/ l \in private
             \/ /\ receipt'[l] = receipt[l] \/ receipt[l] # "none"
                /\ \A t \in Threads : pc'[l][t] = "request" => pc[l][t] = "request"
      PROVE  FALSE
  BY <1>0, <1>a DEF Due
<1>b. ASSUME NEW d \in Downloads, NEW t \in Threads, NEW q, pc' = [pc EXCEPT ![d][t] = q]
      PROVE  /\ pc'[d][t] = q
             /\ d # l => pc'[l] = pc[l]
             /\ \A u \in Threads : pc'[l][u] = pc[l][u] \/ (u = t /\ pc'[l][u] = q)
  BY <1>0, <1>b
<1>c. ASSUME UNCHANGED <<cancelled, delivered>> PROVE Concluded(l)' => Concluded(l)
  BY <1>c DEF Concluded
<1>1. ASSUME NEW d \in Downloads, Start(d) \/ Main(d) \/ Watch(d) \/ Cancel(d) \/ Establish(d)
      PROVE  FALSE
  <2>1. /\ UNCHANGED <<cancelled, delivered, receipt>> /\ private \subseteq private'
        /\ \E t \in Threads : \E q : q # "request" /\ pc' = [pc EXCEPT ![d][t] = q]
    <3>1. CASE Start(d)
      BY <1>0, <3>1 DEF Start, Goto
    <3>2. CASE Main(d)
      BY <1>0, <3>2 DEF Main, StopsWaiting, NoPath, PathFound, SeesActive, LinkTimesOut, Goto
    <3>3. CASE Watch(d) \/ Cancel(d) \/ Establish(d)
      BY <1>0, <3>3 DEF Watch, Cancel, Establish, Goto
    <3> QED BY <1>1, <3>1, <3>2, <3>3
  <2>2. \A t \in Threads : pc'[l][t] = "request" => pc[l][t] = "request"
    BY <1>b, <2>1
  <2> QED BY <1>a, <1>c, <2>1, <2>2
<1>2. ASSUME NEW d \in Downloads, NEW t \in Threads, Guard(d, t) PROVE FALSE
  <2>1. /\ UNCHANGED <<cancelled, delivered, receipt, private>> /\ pc[d][t] = "guard"
        /\ \/ \E q \in {"done", "cache"} : pc' = [pc EXCEPT ![d][t] = q]
           \/ /\ d \in private \/ ~Active(over[d])
              /\ \E q \in {"request"} : pc' = [pc EXCEPT ![d][t] = q]
    BY <1>2 DEF Guard, At, Goto
  <2>2. CASE d = l /\ d \notin private /\ ~Active(over[d])
    <3>1. st[l] = "pending" /\ t \in {"main", "est"}
      BY <1>0, <2>1, <2>2 DEF Open, Active, Places
    <3> QED BY <1>0, <2>1, <2>2, <3>1 DEF Before, Asks
  <2>3. CASE ~(d = l /\ d \notin private /\ ~Active(over[d]))
    <3>1. l \in private \/ \A u \in Threads : pc'[l][u] = "request" => pc[l][u] = "request"
      BY <1>b, <2>1, <2>3
    <3> QED BY <1>a, <1>c, <2>1, <3>1
  <2> QED BY <2>2, <2>3
<1>3. ASSUME NEW d \in Downloads, NEW t \in Threads, Cache(d, t) PROVE Excused(l)'
  <2>1. /\ UNCHANGED <<cancelled, delivered, receipt, private>>
        /\ pc' = [pc EXCEPT ![d][t] = "request"] /\ CacheLink(key[d], over[d], Concluded(d))
        /\ key[d] \in Keys
    BY <1>0, <1>3, GoerIsStarted DEF Cache, Goto, At, Base, Typed
  <2>2. CASE d = l
    <3>1. cache'[key[d]] = l
      BY <1>0, <2>1, <2>2 DEF CacheLink
    <3> QED BY <2>1, <3>1 DEF Excused, IsCached
  <2>3. CASE d # l
    BY <1>a, <1>b, <1>c, <2>1, <2>3
  <2> QED BY <2>2, <2>3
<1>4. ASSUME NEW d \in Downloads, NEW t \in Threads, Request(d, t) PROVE FALSE
  <2>1. /\ UNCHANGED <<cancelled, delivered, private>> /\ pc[d][t] = "request"
        /\ \A e \in Downloads \ {d} : receipt'[e] = receipt[e]
        /\ \E q : q # "request" /\ pc' = [pc EXCEPT ![d][t] = q]
    BY <1>0, <1>4 DEF Request, At, Goto
  <2>2. d = l => l \in private
    BY <2>1 DEF Due
  <2>3. \A u \in Threads : pc'[l][u] = "request" => pc[l][u] = "request"
    BY <1>b, <2>1
  <2> QED BY <1>a, <1>c, <2>1, <2>2, <2>3
<1>5. ASSUME NEW d \in Downloads, NEW t \in Threads, Record(d, t) PROVE FALSE
  <2>1. /\ UNCHANGED <<cancelled, delivered, private>>
        /\ receipt' = [receipt EXCEPT ![d] = IF @ = "sent" THEN "out" ELSE @]
        /\ pc' = [pc EXCEPT ![d][t] = "done", ![d]["watch"] = "watching"]
    BY <1>5 DEF Record
  <2>2. \A u \in Threads : pc'[l][u] \in {pc[l][u], "done", "watching"}
    BY <1>0, <2>1
  <2>3. receipt'[l] = receipt[l] \/ receipt[l] # "none"
    BY <1>0, <2>1
  <2> QED BY <1>a, <1>c, <2>1, <2>2, <2>3
\* Whoever ends download l abandons its link next.
<1>d. ASSUME NEW t \in Threads, pc'[l][t] = "abandon", link' = link PROVE Excused(l)'
  BY <1>0, <1>d DEF Excused, Remains
<1>6. ASSUME NEW d \in Downloads, SetFlag(d) PROVE Excused(l)'
  <2>1. /\ cancelled' = cancelled \cup {d} /\ delivered' = delivered
        /\ UNCHANGED <<private, link>> /\ pc' = [pc EXCEPT ![d]["cancel"] = "abandon"]
        /\ receipt' = [receipt EXCEPT ![d] = IF @ = "out" THEN "off" ELSE @]
    BY <1>6 DEF SetFlag, Goto
  <2>2. pc'[d]["cancel"] = "abandon" /\ (d # l => pc'[l] = pc[l])
    BY <1>0, <1>b, <2>1
  <2>3. CASE d = l
    BY <1>0, <1>d, <2>1, <2>2, <2>3
  <2>4. CASE d # l
    <3>1. (Concluded(l)' => Concluded(l)) /\ receipt'[l] = receipt[l]
      BY <1>0, <2>1, <2>4 DEF Concluded
    <3> QED BY <1>a, <2>1, <2>2, <2>4, <3>1
  <2> QED BY <2>3, <2>4
<1>7. ASSUME NEW d \in Downloads, NEW t \in Threads, Uncache(d, t) \/ Deliver(d, t) PROVE Excused(l)'
  <2>1. /\ cancelled' = cancelled /\ delivered' \subseteq delivered \cup {d}
        /\ UNCHANGED <<private, link, receipt>>
        /\ \E q \in {"abandon", "done"} : /\ pc' = [pc EXCEPT ![d][t] = q]
                                          /\ q = "done" => t = "cancel" /\ pc[d][t] = "deliver"
    BY <1>7 DEF Uncache, Deliver, Fail, Tell, At, Goto
  <2>2. \A u \in Threads : pc'[l][u] = "request" => pc[l][u] = "request"
    BY <1>b, <2>1
  <2>3. CASE d = l /\ ~Concluded(l)
    <3>1. pc'[l][t] = "abandon"
      BY <1>0, <1>b, <2>1, <2>3 DEF CancelIsGiven
    <3> QED BY <1>d, <2>1, <3>1
  <2>4. CASE ~(d = l /\ ~Concluded(l))
    <3>1. Concluded(l)' => Concluded(l)
      BY <2>1, <2>4 DEF Concluded
    <3> QED BY <1>a, <2>1, <2>2, <3>1
  <2> QED BY <2>3, <2>4
<1>8. ASSUME NEW d \in Downloads, NEW t \in Threads, Abandon(d, t) \/ Shut(d, t) PROVE FALSE
  <2>1. /\ UNCHANGED <<cancelled, delivered, receipt, private>>
        /\ \E q : q # "request" /\ pc' = [pc EXCEPT ![d][t] = q]
    BY <1>8 DEF Abandon, Shut, Then, Goto
  <2>2. \A u \in Threads : pc'[l][u] = "request" => pc[l][u] = "request"
    BY <1>b, <2>1
  <2> QED BY <1>a, <1>c, <2>1, <2>2
<1>9. ASSUME NEW d \in Downloads, Answer(d) PROVE Excused(l)'
  <2>1. /\ receipt[d] # "none" /\ UNCHANGED <<private, link>>
        /\ cancelled' = cancelled /\ delivered' \subseteq delivered \cup {d}
        /\ receipt' = [receipt EXCEPT ![d] = "off"]
        /\ \E q : /\ pc' = [pc EXCEPT ![d]["ans"] = q] /\ q # "request"
                  /\ d \in private => q = "abandon"
    BY <1>9 DEF Answer, Claim, Tell, Goto
  <2>2. CASE d = l
    <3>1. l \in private
      BY <2>1, <2>2 DEF Due
    <3>2. pc'[l]["ans"] = "abandon"
      BY <1>0, <1>b, <2>1, <2>2, <3>1
    <3> QED BY <1>0, <1>d, <2>1, <3>2
  <2>3. CASE d # l
    <3>1. (Concluded(l)' => Concluded(l)) /\ receipt'[l] = receipt[l]
      BY <1>0, <2>1, <2>3 DEF Concluded
    <3>2. pc'[l] = pc[l]
      BY <1>0, <1>b, <2>1, <2>3
    <3> QED BY <1>a, <2>1, <3>1, <3>2
  <2> QED BY <2>2, <2>3
<1>10. CASE \/ \E r \in Downloads : RemoteClose(r)
            \/ Sweep \/ Drop(Keys) \/ \E k \in Keys : Drop({k})
  <2>1. UNCHANGED <<pc, cancelled, delivered, receipt, private>>
    BY <1>10, SweepCleans, DropCleans DEF RemoteClose, CleansOut
  <2> QED BY <1>a, <1>c, <2>1
<1>11. CASE UNCHANGED vars
  BY <1>a, <1>c, <1>11 DEF vars
<1> QED BY <1>1, <1>2, <1>3, <1>4, <1>5, <1>6, <1>7, <1>8, <1>9, <1>10, <1>11 DEF Next, Step, GiveUp

LeakInv == LeakBase /\ NoLeak

LEMMA LeakStep == LeakInv /\ [Next]_vars => LeakInv'
<1> SUFFICES ASSUME LeakBase, NoLeak, [Next]_vars PROVE LeakBase' /\ NoLeak'
  BY DEF LeakInv
<1>1. LeakBase'
  BY LeakBaseStep
<1>2. ASSUME NEW l \in Downloads, Open(l)', Due(l)' PROVE Excused(l)'
  <2>1. CASE Open(l) /\ Due(l)
    BY <1>2, <2>1, ExcuseStep DEF NoLeak
  <2>2. CASE Open(l) /\ ~Due(l)
    BY <1>2, <2>2, DueStep
  <2>3. CASE ~Open(l)
    <3>1. Fate(l)
      BY FateStep DEF LeakBase
    <3>2. st'[l] = "pending" /\ pc'[l]["main"] = "linking" /\ ~Concluded(l)'
      BY <1>2, <2>3, <3>1 DEF Fate, Open, LeakBase, Grounds, Base, Typed
    <3>3. /\ Places(l)' /\ Before(l)' /\ Threads = {"main", "est", "watch", "ans", "cancel"}
      BY <1>1 DEF LeakBase, Grounds, Placed, Threads
    <3>4. receipt'[l] = "none" /\ \A t \in Threads : pc'[l][t] # "request"
      BY <3>2, <3>3 DEF Places, Before, Asks
    <3> QED BY <1>2, <3>2, <3>4 DEF Due
  <2> QED BY <2>1, <2>2, <2>3
<1> QED BY <1>1, <1>2 DEF NoLeak

\* A link that is still open when everybody who knows it has come to rest is in the
\* cache, or was pushed out of it by another link for the same destination
\* (_cache_link_if_active, _maybe_teardown_abandoned_link).
THEOREM OnlyReplacedLinksLeak == Spec => []LeakOnlyByReplacement
<1>1. Init => LeakInv
  <2>1. Init => NoLeak
    BY DEF Init, NoLeak, Open
  <2> QED BY <2>1, OutcomeStart, TypedStart, HasLinkStart, PlacedStart, AloneStart, ShelfStart, OwnedStart, BuiltStart
          DEF LeakInv, LeakBase, Grounds, Base
<1>2. LeakInv /\ NoneForgotten => LeakOnlyByReplacement
  <2> SUFFICES ASSUME LeakInv, NoneForgotten, NEW l \in Downloads, Open(l), ~IsCached(l),
                      \A d \in Downloads : d = l \/ l \in {link[d], over[d]} => Settled(d)
               PROVE  l \in replaced
    BY DEF LeakOnlyByReplacement, IsCached
  <2>1. Settled(l) /\ told[l] # "running" /\ link[l] = l
    BY DEF NoneForgotten, LeakInv, LeakBase, Owned
  <2>2. told[l] # "idle" /\ told[l] \in Told /\ EndedIsDelivered(l)
    BY <2>1, NomadAssumption
       DEF LeakInv, LeakBase, Shelf, LinksOfBegun, Grounds, Base, Typed, OutcomeInv
  <2>3. Excused(l)
    BY <2>1, <2>2 DEF EndedIsDelivered, Told, Due, Concluded, LeakInv, NoLeak
  <2>4. ASSUME NEW d \in Downloads, NEW t \in Threads, link[d] = l, Remains(pc[d][t], t) PROVE FALSE
    BY <2>4 DEF Settled, Remains
  <2> QED BY <2>3, <2>4 DEF Excused
<1> QED BY <1>1, <1>2, LeakStep, NobodyIsForgotten, PTL DEF Spec
=============================================================================
