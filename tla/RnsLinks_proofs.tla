---------------------------- MODULE RnsLinks_proofs ----------------------------
(***************************************************************************)
(* A link is recycled for failures that were counted while it was cached,  *)
(* whatever the number of jobs and of keys, the cap and the threshold.     *)
(*                                                                         *)
(* The tables are changed in five ways only: an entry becomes the last     *)
(* used, entries leave with their counts, a link is cached, an answer      *)
(* clears a count, a failure raises it.  Each keeps the count of a key     *)
(* that has a link at or below what was counted against that link.         *)
(*                                                                         *)
(* And a receipt is kept for a request that is under way, or was answered  *)
(* too early, only: it is recorded where the job has sent its request, and *)
(* an answer takes it off.                                                 *)
(*                                                                         *)
(* What becomes of a link follows from what its job has done (Staged): no  *)
(* link before there is a path, one to be cached was active; and a cached  *)
(* link is under its own key (Filed).  With that, an open link outside the *)
(* cache is held or was replaced, and a closed one inside is explained     *)
(* (LinksOk).  The tables agree because every key that has a link has a    *)
(* time of last use too, and eviction takes what is too many (TablesOk,    *)
(* with the lemmas of LastUse_proofs).                                     *)
(***************************************************************************)
EXTENDS RnsLinks, LastUse_proofs

CountsOk ==
  /\ cache \in [Keys -> Jobs \cup {None}]
  /\ fails \in [Keys -> Nat] /\ struck \in [Keys -> Nat]
  /\ CleanCount

Counted == <<cache, fails, struck>>

LEMMA CountsStart == Init => CountsOk
  BY DEF Init, CountsOk, CleanCount, Cached

LEMMA SameCounts == ASSUME CountsOk, UNCHANGED Counted PROVE CountsOk'
  BY DEF Counted, CountsOk, CleanCount, Cached

LEMMA WithoutKeeps == ASSUME CountsOk, NEW K, Without(K) PROVE CountsOk'
  BY DEF Without, CountsOk, CleanCount, Cached

LEMMA LookedKeeps == ASSUME CountsOk, NEW k, Looked(k) PROVE CountsOk'
  BY WithoutKeeps, SameCounts DEF Looked, Counted

LEMMA UncachedKeeps == ASSUME CountsOk, NEW l, Uncached(l) PROVE CountsOk'
  BY WithoutKeeps, SameCounts DEF Uncached, Counted, store

\* The entry that is cached starts clean, and so does one that is evicted.
LEMMA CacheLinkKeeps == ASSUME CountsOk, NEW l \in Jobs, CacheLink(l) PROVE CountsOk'
<1> DEFINE k   == key[l]
           out == OverCap(Cached \cup {k}, Touch(used, k), {k})
<1>1. /\ cache' = [m \in Keys |-> IF m = k THEN l ELSE IF m \in out THEN None ELSE cache[m]]
      /\ fails' = [m \in Keys |-> IF m \in out \cup {k} THEN 0 ELSE fails[m]]
      /\ struck' = [m \in Keys |-> IF m \in out \/ (m = k /\ cache[k] # l) THEN 0 ELSE struck[m]]
  BY DEF CacheLink, Cleaned
<1> HIDE DEF out, k
<1> QED BY <1>1 DEF CountsOk, CleanCount, Cached

LEMMA CountsStep ==
  ASSUME CountsOk, [Next]_vars
  PROVE  CountsOk'
<1> USE SameCounts DEF Counted, store
<1>1. ASSUME NEW j \in Jobs, JobStart(j) \/ JobStep(j) \/ Disconnect(j) PROVE CountsOk'
  BY <1>1, LookedKeeps, CacheLinkKeeps
     DEF JobStart, JobStep, Disconnect, NoPath, PathFound, SeesActive, SeesNone, CachesLink,
         OpenReturns, Dispatch, RecordReceipt
<1>2. ASSUME NEW j \in Jobs, Response(j) PROVE CountsOk'
  BY <1>2 DEF Response, CountsOk, CleanCount, Cached
<1>3. ASSUME NEW j \in Jobs, Failure(j) PROVE CountsOk'
  BY <1>3 DEF Failure, CountsOk, CleanCount, Cached
<1>4. ASSUME NEW l \in Jobs, Establish(l) \/ RemoteClose(l) \/ LinkStep(l) \/ CloseUncaches(l)
      PROVE  CountsOk'
  BY <1>4, CacheLinkKeeps, UncachedKeeps
     DEF Establish, RemoteClose, LinkStep, CloseUncaches, EstabCheck, EstabCache, Teardown, OnLinkClosed
<1>5. ASSUME NEW k \in Keys, UseCached(k) \/ Close(k) PROVE CountsOk'
  BY <1>5, LookedKeeps DEF UseCached, Close
<1>6. CASE Sweep \/ ClearAll
  BY <1>6, WithoutKeeps DEF Sweep, ClearAll
<1>7. CASE UNCHANGED vars
  BY <1>7 DEF vars
<1> QED BY <1>1, <1>2, <1>3, <1>4, <1>5, <1>6, <1>7 DEF Next

\* A link is recycled for failures that were counted while it was the cached one,
\* never for those of its predecessors (_cache_link_if_active resets the count;
\* late failures of a predecessor's requests do count).
THEOREM FreshLinksAreClean == Spec => []CleanCount
<1>1. CountsOk => CleanCount
  BY DEF CountsOk
<1> QED BY <1>1, CountsStart, CountsStep, PTL DEF Spec

--------------------------------------------------------------------------------
(* Receipts *)

Unsettled(j) == req[j] \in {"out", "early"}

\* A receipt is there once its job is done; a job that has sent is to record one.
ReceiptsOk ==
  /\ DOMAIN pc = Jobs /\ DOMAIN req = Jobs /\ receipts \subseteq Jobs
  /\ \A j \in Jobs : pc[j] = "sent" => Unsettled(j)
  /\ \A j \in Jobs : req[j] # "none" => pc[j] # "idle"
  /\ \A j \in receipts : pc[j] = "done" /\ Unsettled(j)

LEMMA ReceiptsStart == Init => ReceiptsOk
  BY DEF Init, ReceiptsOk, Unsettled

LEMMA ReceiptsStep ==
  ASSUME ReceiptsOk, [Next]_vars
  PROVE  ReceiptsOk'
<1> USE DEF ReceiptsOk, Unsettled
<1>1. ASSUME NEW j \in Jobs, JobStart(j) \/ NoPath(j) \/ PathFound(j) \/ SeesActive(j) \/ SeesNone(j)
                               \/ CachesLink(j) \/ OpenReturns(j)
      PROVE  ReceiptsOk'
  <2>1. /\ UNCHANGED <<req, receipts>>
        /\ \E p \in {"have", "path", "done", "linking", "caching"} : pc' = [pc EXCEPT ![j] = p]
        /\ pc[j] # "done"
    BY <1>1 DEF JobStart, NoPath, PathFound, SeesActive, SeesNone, CachesLink, OpenReturns, Goto
  <2> QED BY <2>1
<1>2. ASSUME NEW j \in Jobs, Dispatch(j) PROVE ReceiptsOk'
  <2>1. /\ receipts' = receipts /\ pc[j] = "have"
        /\ \/ pc' = [pc EXCEPT ![j] = "sent"] /\ req' = [req EXCEPT ![j] = "out"]
           \/ pc' = [pc EXCEPT ![j] = "done"] /\ req' = req
    BY <1>2 DEF Dispatch, Goto
  <2> QED BY <2>1
<1>3. ASSUME NEW j \in Jobs, RecordReceipt(j) PROVE ReceiptsOk'
  BY <1>3 DEF RecordReceipt, Goto
<1>4. ASSUME NEW j \in Jobs, Disconnect(j) PROVE ReceiptsOk'
  BY <1>4 DEF Disconnect, ReceiptsWithout
<1>5. ASSUME NEW j \in Jobs, Response(j) \/ Failure(j) PROVE ReceiptsOk'
  BY <1>5 DEF Response, Failure, Answered, ReceiptsWithout
<1>6. ASSUME NEW l \in Jobs, Establish(l) \/ RemoteClose(l) \/ LinkStep(l) \/ CloseUncaches(l)
      PROVE  ReceiptsOk'
  BY <1>6 DEF Establish, RemoteClose, LinkStep, CloseUncaches, EstabCheck, EstabCache, Teardown,
              OnLinkClosed, job
<1>7. ASSUME NEW k \in Keys, UseCached(k) \/ Close(k) PROVE ReceiptsOk'
  BY <1>7 DEF UseCached, Close, job
<1>8. CASE Sweep \/ ClearAll \/ UNCHANGED vars
  BY <1>8 DEF Sweep, ClearAll, vars, job
<1> QED BY <1>1, <1>2, <1>3, <1>4, <1>5, <1>6, <1>7, <1>8 DEF Next, JobStep

\* A receipt is kept while its request is under way, or, if the answer came
\* before the receipt was recorded, until the client leaves; never longer
\* (rns.link.request, _wrapped_response, _wrapped_failed, the client's clean-up).
THEOREM ReceiptsAreExplained == Spec => []ReceiptsExplained
<1>1. ReceiptsOk => ReceiptsExplained
  BY DEF ReceiptsOk, ReceiptsExplained, Unsettled
<1> QED BY <1>1, ReceiptsStart, ReceiptsStep, PTL DEF Spec

--------------------------------------------------------------------------------
(* Links in the cache and links out of it *)

Stages == {"idle", "path", "linking", "caching", "have", "sent", "done", "gone"}
LinksTyped ==
  /\ cache \in [Keys -> Jobs \cup {None}]
  /\ pc \in [Jobs -> Stages] /\ key \in [Jobs -> Keys \cup {None}]
  /\ st \in [Jobs -> {"none", "pending", "active", "closed"}]
  /\ estab \in [Jobs -> {"none", "due", "checked"}]

Up(l) == st[l] \in {"active", "closed"}

\* What a job has done says what its link can be: no link before there is a path,
\* and one that is to be cached was active.
Staged ==
  /\ \A j \in Jobs : /\ pc[j] # "idle" => key[j] \in Keys
                     /\ pc[j] \in {"idle", "path"} => st[j] = "none"
                     /\ pc[j] = "linking" => st[j] # "none"
                     /\ pc[j] = "caching" \/ estab[j] # "none" => Up(j)
  /\ \A l \in owes : l \in Jobs /\ st[l] = "closed"
  /\ \A l \in doomed : l \in Jobs /\ st[l] # "none"
  /\ \A l \in closing : l \in Jobs /\ Up(l)

\* A cached link was active, and is under its own key.
Filed == \A k \in Keys : cache[k] # None => key[cache[k]] = k /\ Up(cache[k])

LinksOk == LinksTyped /\ Staged /\ Filed /\ LostOnlyByReplacement /\ DeadEntryExplained

LEMMA LinksStart == Init => LinksOk
  BY LinksAssumption DEF Init, LinksOk, LinksTyped, Stages, Staged, Filed, LostOnlyByReplacement,
     DeadEntryExplained, Active, Up, Cached

\* The keys of K lose their entries.
Left(K) ==
  /\ cache' = [k \in Keys |-> IF k \in K THEN None ELSE cache[k]]
  /\ late' = late \ K

LEMMA WithoutLeaves == ASSUME NEW K, Without(K) PROVE Left(K)
  BY DEF Without, Left

LEMMA NothingLeaves == ASSUME LinksTyped, UNCHANGED <<cache, late>> PROVE Left({})
  BY DEF Left, LinksTyped

\* A lookup takes out only what is not active.
LEMMA LookedLeaves ==
  ASSUME LinksTyped, NEW k \in Keys, Looked(k)
  PROVE  \E K : Left(K) /\ \A m \in K : m = k /\ ~Active(cache[m])
<1>1. CASE Hit(k) \/ cache[k] = None
  BY <1>1, NothingLeaves DEF Looked
<1>2. CASE ~(Hit(k) \/ cache[k] = None)
  BY <1>2, WithoutLeaves DEF Looked, Hit
<1> QED BY <1>1, <1>2

LEMMA UncachedLeaves ==
  ASSUME LinksTyped, NEW l, Uncached(l)
  PROVE  \E K : Left(K) /\ \A m \in K : cache[m] = l
<1>1. CASE cache[key[l]] = l
  BY <1>1, WithoutLeaves DEF Uncached
<1>2. CASE cache[key[l]] # l
  BY <1>2, NothingLeaves DEF Uncached, store
<1> QED BY <1>1, <1>2

\* A job that moves on, when what leaves the cache is not active.
LEMMA JobMoves ==
  ASSUME LinksOk, NEW j \in Jobs, NEW K, Left(K), \A m \in K \cap Keys : cache[m] # None => ~Active(cache[m]),
         NEW p \in Stages \ {"idle", "path", "linking", "caching"}, pc' = [pc EXCEPT ![j] = p],
         pc[j] \in {"path", "have", "sent", "done"} \/ (pc[j] = "linking" /\ ~Active(j)),
         UNCHANGED <<key, link, replaced>>
  PROVE  LinksOk'
<1> USE DEF LinksOk, LinksTyped, Stages, link, Left
<1>1. LinksTyped'
  OBVIOUS
<1>2. Staged'
  BY DEF Staged, Up
<1>3. Filed'
  BY DEF Filed, Up
<1>4. LostOnlyByReplacement'
  BY DEF LostOnlyByReplacement, Held, Active, Staged, Filed
<1>5. DeadEntryExplained'
  BY DEF DeadEntryExplained, Cached
<1> QED BY <1>1, <1>2, <1>3, <1>4, <1>5

LEMMA StartMoves == ASSUME LinksOk, NEW j \in Jobs, JobStart(j) PROVE LinksOk'
<1> USE DEF LinksOk, LinksTyped, Stages, link
<1>1. PICK k \in Keys : /\ Goto(j, "idle", IF Hit(k) THEN "have" ELSE "path")
                        /\ key' = [key EXCEPT ![j] = k]
                        /\ Looked(k)
                        /\ UNCHANGED <<link, replaced>>
  BY DEF JobStart
<1>2. PICK K : Left(K) /\ \A m \in K : m = k /\ ~Active(cache[m])
  BY <1>1, LookedLeaves
<1>3. /\ pc[j] = "idle" /\ st[j] = "none"
      /\ \E p \in {"have", "path"} : pc' = [pc EXCEPT ![j] = p]
  BY <1>1 DEF Goto, Staged
<1> USE <1>1, <1>2, <1>3 DEF Left
<1>4. LinksTyped'
  OBVIOUS
<1>5. Staged'
  BY DEF Staged, Up
<1>6. Filed'
  BY DEF Filed, Up
<1>7. LostOnlyByReplacement'
  BY DEF LostOnlyByReplacement, Held, Active, Staged, Filed
<1>8. DeadEntryExplained'
  BY DEF DeadEntryExplained, Cached
<1> QED BY <1>4, <1>5, <1>6, <1>7, <1>8

LEMMA PathMoves == ASSUME LinksOk, NEW j \in Jobs, PathFound(j) PROVE LinksOk'
<1> USE DEF LinksOk, LinksTyped, Stages, link
<1>1. pc[j] = "path" /\ key[j] \in Keys /\ st[j] = "none" /\ estab[j] = "none"
  BY DEF PathFound, Goto, Staged, Up
<1>2. PICK K : Left(K) /\ \A m \in K : m = key[j] /\ ~Active(cache[m])
  BY <1>1, LookedLeaves DEF PathFound
<1>3. CASE Hit(key[j])
  BY <1>1, <1>2, <1>3, JobMoves DEF PathFound, Goto
<1>4. CASE ~Hit(key[j])
  <2>1. /\ pc' = [pc EXCEPT ![j] = "linking"] /\ st' = [st EXCEPT ![j] = "pending"]
        /\ UNCHANGED <<key, estab, owes, doomed, closing, replaced>>
    BY <1>4 DEF PathFound, Goto
  <2> USE <1>1, <1>2, <2>1 DEF Left
  <2>2. LinksTyped'
    OBVIOUS
  <2>3. Staged'
    BY DEF Staged, Up
  <2>4. Filed'
    BY DEF Filed, Up
  <2>5. LostOnlyByReplacement'
    BY DEF LostOnlyByReplacement, Held, Active, Staged, Filed
  <2>6. DeadEntryExplained'
    BY DEF DeadEntryExplained, Cached, Filed, Up
  <2> QED BY <2>2, <2>3, <2>4, <2>5, <2>6
<1> QED BY <1>3, <1>4

\* A link is cached: what it replaces is remembered, what it evicts is torn down.
LEMMA CacheSteps ==
  ASSUME LinksOk, NEW l \in Jobs, CacheLink(l), Up(l), UNCHANGED <<key, st, owes, closing>>,
         \/ pc' = [pc EXCEPT ![l] = "have"] /\ estab' = estab
         \/ pc' = pc /\ estab' = [estab EXCEPT ![l] = "none"]
  PROVE  LinksOk'
<1> DEFINE k   == key[l]
           out == OverCap(Cached \cup {k}, Touch(used, k), {k})
<1> USE DEF LinksOk, LinksTyped, Stages
<1>1. /\ cache' = [m \in Keys |-> IF m = k THEN l ELSE IF m \in out THEN None ELSE cache[m]]
      /\ Doom({cache[m] : m \in out})
      /\ replaced' = {m \in replaced \cup ({cache[k]} \ {None}) : Active(m)} \ {l}
      /\ late' = IF Active(l) THEN late \ (out \cup {k}) ELSE (late \ out) \cup {k}
  BY DEF CacheLink
<1>2. out \subseteq Cached /\ k \notin out
  BY DEF OverCap, Oldest
<1>3. k \in Keys
  BY DEF Staged, Up
<1> HIDE DEF out
<1>4. LinksTyped'
  BY <1>1
<1>5. Staged'
  BY <1>1, <1>2 DEF Doom, Staged, Filed, Up, Cached
<1>6. Filed'
  BY <1>1, <1>2, <1>3 DEF Filed, Up
<1>7. LostOnlyByReplacement'
  <2> SUFFICES ASSUME NEW m \in Jobs, Active(m)', cache'[key[m]] # m, ~Held(m)', m # l
               PROVE  m \in replaced'
    BY <1>1, <1>3 DEF LostOnlyByReplacement, k
  <2>0. doomed \subseteq doomed' /\ pc'[m] = pc[m] /\ estab'[m] = estab[m] /\ st[m] = "active"
    BY <1>1 DEF Doom, Active
  <2>1. Active(m) /\ ~Held(m) /\ key[m] \in Keys /\ m # None
    BY <2>0, LinksAssumption DEF Active, Held, Staged
  <2>2. CASE cache[key[m]] # m
    BY <2>1, <2>2, <1>1 DEF LostOnlyByReplacement
  <2>3. CASE cache[key[m]] = m
    BY <2>1, <2>3, <1>1, <1>2 DEF Held, Doom, Active
  <2> QED BY <2>2, <2>3
<1>8. DeadEntryExplained'
  BY <1>1, <1>2, <1>3 DEF DeadEntryExplained, Cached, Active, Up
<1> QED BY <1>4, <1>5, <1>6, <1>7, <1>8

\* The library changes the status of a link.
LEMMA LibrarySteps ==
  ASSUME LinksOk, NEW l \in Jobs, Establish(l) \/ EstabCheck(l) \/ RemoteClose(l) \/ Teardown(l)
  PROVE  LinksOk'
<1> USE DEF LinksOk, LinksTyped, Stages
<1>1. CASE Establish(l)
  <2> USE <1>1 DEF Establish, store, job
  <2>1. LinksTyped'
    OBVIOUS
  <2>2. Staged'
    BY DEF Staged, Up
  <2>3. Filed'
    BY DEF Filed, Up
  <2>4. LostOnlyByReplacement'
    BY DEF LostOnlyByReplacement, Held, Active
  <2>5. DeadEntryExplained'
    BY DEF DeadEntryExplained, Cached
  <2> QED BY <2>1, <2>2, <2>3, <2>4, <2>5
<1>2. CASE EstabCheck(l)
  <2>0. /\ \E e \in {"checked", "none"} : (e = "none" => ~Active(l)) /\ estab' = [estab EXCEPT ![l] = e]
        /\ UNCHANGED <<store, job, st, owes, doomed, closing, replaced>>
        /\ estab[l] = "due"
    BY <1>2 DEF EstabCheck
  <2> USE <2>0 DEF store, job
  <2>1. LinksTyped'
    OBVIOUS
  <2>2. Staged'
    BY DEF Staged, Up
  <2>3. Filed'
    BY DEF Filed, Up
  <2>4. LostOnlyByReplacement'
    BY DEF LostOnlyByReplacement, Held, Active
  <2>5. DeadEntryExplained'
    BY DEF DeadEntryExplained, Cached
  <2> QED BY <2>1, <2>2, <2>3, <2>4, <2>5
<1>3. CASE RemoteClose(l) \/ Teardown(l)
  <2>0. /\ st[l] # "none" /\ st' = [st EXCEPT ![l] = "closed"]
        /\ owes' = owes \cup {l} /\ replaced' = replaced \ {l}
        /\ doomed' = doomed \/ doomed' = doomed \ {l}
        /\ UNCHANGED <<store, job, estab, closing>>
    BY <1>3 DEF RemoteClose, Teardown, Staged
  <2> USE <2>0 DEF store, job
  <2>1. LinksTyped'
    OBVIOUS
  <2>2. Staged'
    BY DEF Staged, Up
  <2>3. Filed'
    BY DEF Filed, Up
  <2>4. LostOnlyByReplacement'
    BY DEF LostOnlyByReplacement, Held, Active
  <2>5. DeadEntryExplained'
    BY DEF DeadEntryExplained, Cached
  <2> QED BY <2>1, <2>2, <2>3, <2>4, <2>5
<1> QED BY <1>1, <1>2, <1>3

\* Links leave the cache, and those of them that are active are doomed.
LEMMA OthersMove ==
  ASSUME LinksOk, NEW K, Left(K), UNCHANGED <<pc, key, st, estab, replaced>>,
         owes' \subseteq owes, doomed \subseteq doomed',
         \A l \in doomed' \ doomed : l \in Jobs /\ st[l] # "none",
         \A l \in closing' \ closing : l \in Jobs /\ Up(l),
         \A l \in closing \ closing' : Active(l) => l \in doomed',
         \A k \in K \cap Keys : cache[k] # None /\ Active(cache[k]) => cache[k] \in doomed',
         \A l \in owes \ owes' : \A k \in Keys : cache[k] = l => k \in K
  PROVE  LinksOk'
<1> USE DEF LinksOk, LinksTyped, Stages, Left
<1>1. LinksTyped'
  OBVIOUS
<1>2. Staged'
  BY DEF Staged, Up
<1>3. Filed'
  BY DEF Filed, Up
<1>4. LostOnlyByReplacement'
  BY LinksAssumption DEF LostOnlyByReplacement, Held, Active, Staged, Filed, Up
<1>5. DeadEntryExplained'
  BY DEF DeadEntryExplained, Cached
<1> QED BY <1>1, <1>2, <1>3, <1>4, <1>5

LEMMA LinksStep == ASSUME LinksOk, ReceiptsOk, [Next]_vars PROVE LinksOk'
<1> USE DEF link, store, job
<1>0. LinksTyped /\ Staged /\ Filed
  BY DEF LinksOk
<1>1. ASSUME NEW j \in Jobs, JobStep(j) PROVE LinksOk'
  <2>1. CASE NoPath(j)
    <3>1. pc[j] = "path" /\ key[j] \in Keys
      BY <2>1, <1>0 DEF NoPath, Goto, Staged
    <3>2. PICK K : Left(K) /\ \A m \in K : ~Active(cache[m])
      BY <2>1, <1>0, <3>1, LookedLeaves, NothingLeaves DEF NoPath
    <3> QED BY <2>1, <3>1, <3>2, JobMoves DEF NoPath, Goto, Stages
  <2>2. CASE Dispatch(j)
    <3>1. pc[j] = "have" /\ key[j] \in Keys
      BY <2>2, <1>0 DEF Dispatch, Goto, Staged
    <3>2. PICK K : Left(K) /\ \A m \in K : ~Active(cache[m])
      BY <2>2, <1>0, <3>1, LookedLeaves DEF Dispatch
    <3>3. \E p \in {"sent", "done"} : pc' = [pc EXCEPT ![j] = p]
      BY <2>2 DEF Dispatch, Goto
    <3> QED BY <2>2, <3>1, <3>2, <3>3, JobMoves DEF Dispatch, Stages
  <2>3. CASE OpenReturns(j) \/ RecordReceipt(j) \/ SeesNone(j)
    BY <2>3, <1>0, NothingLeaves, JobMoves DEF OpenReturns, RecordReceipt, SeesNone, Goto, Stages
  <2>4. CASE SeesActive(j)
    <3>1. /\ pc[j] = "linking" /\ pc' = [pc EXCEPT ![j] = "caching"] /\ Active(j)
          /\ UNCHANGED <<cache, late, key, link, replaced>>
      BY <2>4 DEF SeesActive, Goto
    <3> USE <3>1 DEF LinksOk, LinksTyped, Stages
    <3>2. LinksTyped'
      OBVIOUS
    <3>3. Staged'
      BY DEF Staged, Up, Active
    <3>4. Filed' /\ DeadEntryExplained'
      BY DEF Filed, Up, DeadEntryExplained, Cached
    <3>5. LostOnlyByReplacement'
      BY DEF LostOnlyByReplacement, Held, Active
    <3> QED BY <3>2, <3>3, <3>4, <3>5
  <2>5. CASE CachesLink(j)
    BY <2>5, <1>0, CacheSteps DEF CachesLink, Goto, Staged
  <2> QED BY <1>1, <2>1, <2>2, <2>3, <2>4, <2>5, PathMoves DEF JobStep
<1>2. ASSUME NEW j \in Jobs, Disconnect(j) PROVE LinksOk'
  <2>1. /\ pc[j] \in {"path", "linking", "done"} /\ pc' = [pc EXCEPT ![j] = "gone"]
        /\ \/ doomed' = doomed /\ (pc[j] = "linking" => ~Active(j))
           \/ doomed' = doomed \cup {j} /\ pc[j] = "linking"
        /\ UNCHANGED <<cache, late, key, st, estab, owes, closing, replaced>>
    BY <1>2 DEF Disconnect, Doom, Active
  <2> USE <2>1 DEF LinksOk, LinksTyped, Stages
  <2>2. LinksTyped'
    OBVIOUS
  <2>3. Staged'
    BY DEF Staged, Up
  <2>4. Filed' /\ DeadEntryExplained'
    BY DEF Filed, Up, DeadEntryExplained, Cached
  <2>5. LostOnlyByReplacement'
    BY DEF LostOnlyByReplacement, Held, Active
  <2> QED BY <2>2, <2>3, <2>4, <2>5
<1>3. ASSUME NEW j \in Jobs, Response(j) PROVE LinksOk'
  BY <1>3, <1>0, NothingLeaves, OthersMove DEF Response, Answered
<1>4. ASSUME NEW j \in Jobs, Failure(j) PROVE LinksOk'
  <2>1. CASE Recycles(key[j])
    <3>1. Left({key[j]})
      BY <2>1, <1>4, <1>0 DEF Failure, Left, LinksTyped
    <3>2. /\ UNCHANGED <<pc, key, st, estab, replaced, owes, closing>>
          /\ Doom({cache[key[j]]} \ {None})
      BY <2>1, <1>4 DEF Failure, Answered, Recycled
    <3>3. \A l \in doomed' \ doomed : l = cache[key[j]] /\ l # None
      BY <3>2 DEF Doom
    <3>4. key[j] \in Keys
      BY <1>4, <1>0 DEF Failure, Answered, ReceiptsOk, Staged
    <3> QED BY <3>1, <3>2, <3>3, <3>4, <1>0, OthersMove DEF Doom, Filed, Up, LinksTyped, Active
  <2>2. CASE ~Recycles(key[j])
    BY <2>2, <1>4, <1>0, NothingLeaves, OthersMove DEF Failure, Answered, Doom, Recycled
  <2> QED BY <2>1, <2>2
<1>5. ASSUME NEW l \in Jobs, EstabCache(l) PROVE LinksOk'
  BY <1>5, <1>0, CacheSteps DEF EstabCache, Staged
<1>6. ASSUME NEW l \in Jobs, OnLinkClosed(l) PROVE LinksOk'
  <2>1. PICK K : Left(K) /\ \A m \in K : cache[m] = l
    BY <1>6, <1>0, UncachedLeaves DEF OnLinkClosed
  <2>2. \A m \in Keys : cache[m] = l => m \in K
    <3> SUFFICES ASSUME NEW m \in Keys, cache[m] = l PROVE cache'[m] # l
      BY <2>1 DEF Left
    <3> QED BY <1>6, <1>0, LinksAssumption DEF OnLinkClosed, Uncached, Without, Filed
  <2>3. ~Active(l)
    BY <1>6, <1>0 DEF OnLinkClosed, Staged, Active
  <2> QED BY <2>1, <2>2, <2>3, <1>6, OthersMove DEF OnLinkClosed
<1>7. ASSUME NEW l \in Jobs, CloseUncaches(l) PROVE LinksOk'
  <2>1. PICK K : Left(K) /\ \A m \in K : cache[m] = l
    BY <1>7, <1>0, UncachedLeaves DEF CloseUncaches
  <2>2. doomed' = doomed \cup {m \in {l} : st[m] # "closed"}
    BY <1>7 DEF CloseUncaches, Doom
  <2>3. Up(l)
    BY <1>7, <1>0 DEF CloseUncaches, Staged
  <2> QED BY <2>1, <2>2, <2>3, <1>7, OthersMove DEF CloseUncaches, Active, Up
<1>8. ASSUME NEW k \in Keys, UseCached(k) \/ Close(k) PROVE LinksOk'
  <2>1. PICK K : Left(K) /\ \A m \in K : ~Active(cache[m])
    BY <1>8, <1>0, LookedLeaves DEF UseCached, Close
  <2>2. closing' = closing \/ (closing' = closing \cup {cache[k]} /\ cache[k] # None)
    BY <1>8 DEF UseCached, Close, Hit
  <2> QED BY <2>1, <2>2, <1>8, <1>0, OthersMove DEF UseCached, Close, Filed, LinksTyped
<1>9. CASE Sweep \/ ClearAll
  <2>1. PICK D, E : /\ D \subseteq Cached /\ E \subseteq Keys \ Cached
                    /\ Left(D \cup E)
                    /\ Doom({cache[k] : k \in D})
                    /\ UNCHANGED <<job, st, estab, owes, closing, replaced>>
    <3>1. CASE ClearAll
      <4>1. Cached \subseteq Cached /\ Keys \ Cached \subseteq Keys \ Cached /\ Keys = Cached \cup (Keys \ Cached)
        BY DEF Cached
      <4> QED BY <3>1, <4>1, WithoutLeaves DEF ClearAll
    <3>2. CASE Sweep
      <4>1. PICK idle \in Behind(used) :
              LET left == Cached \ (StaleKeys \cup idle)
                  out  == (Cached \ left) \cup OverCap(left, used, {})
              IN  /\ Without(out \cup (Keys \ Cached))
                  /\ Doom({cache[k] : k \in out})
                  /\ UNCHANGED <<job, st, estab, owes, closing, replaced>>
        BY <3>2 DEF Sweep
      <4> DEFINE left == Cached \ (StaleKeys \cup idle)
                 out  == (Cached \ left) \cup OverCap(left, used, {})
      <4>2. out \subseteq Cached
        BY DEF OverCap, Oldest
      <4>3. /\ Without(out \cup (Keys \ Cached))
            /\ Doom({cache[k] : k \in out})
            /\ UNCHANGED <<job, st, estab, owes, closing, replaced>>
        BY <4>1
      <4> HIDE DEF out
      <4> QED BY <4>2, <4>3, WithoutLeaves
    <3> QED BY <1>9, <3>1, <3>2
  <2>2. \A l \in doomed' \ doomed : \E k \in D : l = cache[k]
    BY <2>1 DEF Doom
  <2>3. \A l \in doomed' \ doomed : l \in Jobs /\ st[l] # "none"
    BY <2>1, <2>2, <1>0 DEF Filed, Up, LinksTyped, Cached
  <2>4. \A k \in (D \cup E) \cap Keys : cache[k] # None /\ Active(cache[k]) => cache[k] \in doomed'
    BY <2>1 DEF Doom, Active, Cached
  <2>5. doomed \subseteq doomed'
    BY <2>1 DEF Doom
  <2> QED BY <2>1, <2>3, <2>4, <2>5, OthersMove
<1>10. CASE UNCHANGED vars
  BY <1>10, <1>0, NothingLeaves, OthersMove DEF vars
<1> QED BY <1>1, <1>2, <1>3, <1>4, <1>5, <1>6, <1>7, <1>8, <1>9, <1>10, StartMoves, LibrarySteps
        DEF Next, LinkStep

LEMMA LinksAlways == Spec => [](LinksOk /\ ReceiptsOk)
  BY LinksStart, LinksStep, ReceiptsStart, ReceiptsStep, PTL DEF Spec

\* An open link that is not in the cache is one that somebody has in hand, to
\* cache it or to tear it down (open_link, _cache_link_if_active, close_link,
\* sweep_stale_links), or one that another link replaced.
THEOREM OpenLinksAreHeld == Spec => []LostOnlyByReplacement
<1>1. LinksOk /\ ReceiptsOk => LostOnlyByReplacement
  BY DEF LinksOk
<1> QED BY <1>1, LinksAlways, PTL

\* A closed link leaves the cache with its closed callback, or it closed between
\* the status check and the lock of whoever cached it (_cache_link_if_active,
\* _on_link_closed).
THEOREM DeadEntriesAreExplained == Spec => []DeadEntryExplained
<1>1. LinksOk /\ ReceiptsOk => DeadEntryExplained
  BY DEF LinksOk
<1> QED BY <1>1, LinksAlways, PTL

--------------------------------------------------------------------------------
(* The tables *)

\* A cached link has a time, so the eviction orders them all; with at most
\* MaxCached of them before, one that is cached is one too many at most.
TablesOk ==
  /\ used \subseteq Keys \X Keys /\ Ordered(used)
  /\ fails \in [Keys -> 0..(Threshold - 1)] /\ struck \in [Keys -> Nat] /\ late \subseteq Keys
  /\ Cached \subseteq Stamped(used)
  /\ Cardinality(Cached) <= MaxCached

RestTyped ==
  /\ req \in [Jobs -> {"none", "out", "answered", "early"}]
  /\ replaced \subseteq Jobs

LEMMA TablesStart == Init => TablesOk /\ RestTyped
<1> SUFFICES ASSUME Init PROVE TablesOk /\ RestTyped
  OBVIOUS
<1>1. Cached = {} /\ used = {}
  BY DEF Init, Cached
<1>2. Stamped({}) = {}
  BY DEF Stamped
<1>3. Ordered({})
  BY <1>2 DEF Ordered
<1>4. Cardinality({}) = 0
  BY FS_EmptySet
<1> QED BY <1>1, <1>2, <1>3, <1>4, LinksAssumption DEF Init, TablesOk, RestTyped

\* Fewer links are no more than the cap.
LEMMA FewerLinks ==
  ASSUME Cardinality(Cached) <= MaxCached, NEW S \in SUBSET Cached
  PROVE  Cardinality(S) <= MaxCached
<1>1. Cached \subseteq Keys
  BY DEF Cached
<1>2. IsFiniteSet(Cached)
  BY <1>1, FS_Subset, LinksAssumption
<1>3. Cardinality(S) <= Cardinality(Cached) /\ Cardinality(S) \in Nat /\ Cardinality(Cached) \in Nat
  BY <1>2, FS_Subset, FS_CardinalityType
<1> QED BY <1>3, LinksAssumption

LEMMA TablesWithout ==
  ASSUME TablesOk, LinksTyped, NEW K, Without(K)
  PROVE  TablesOk'
<1>1. Cached' = Cached \ K
  BY DEF Without, Cached, LinksTyped
<1>2. /\ used' \subseteq Keys \X Keys /\ Ordered(used')
      /\ Stamped(used') = Stamped(used) \ K
  <2>1. used' = Forget(used, K) /\ used \in SUBSET (Keys \X Keys) /\ Ordered(used)
    BY DEF TablesOk, Without
  <2> QED BY <2>1, ForgetOrders
<1>3. Cardinality(Cached') <= MaxCached
  BY <1>1, FewerLinks DEF TablesOk
<1>4. fails' \in [Keys -> 0..(Threshold - 1)] /\ struck' \in [Keys -> Nat] /\ late' \subseteq Keys
  BY LinksAssumption DEF TablesOk, Without
<1> QED BY <1>1, <1>2, <1>3, <1>4 DEF TablesOk

LEMMA TablesLooked ==
  ASSUME TablesOk, LinksTyped, NEW k \in Keys, Looked(k)
  PROVE  TablesOk'
<1>1. CASE Hit(k)
  <2>1. used' = Touch(used, k) /\ UNCHANGED <<cache, fails, struck, late>>
    BY <1>1 DEF Looked
  <2>2. /\ used' \subseteq Keys \X Keys /\ Ordered(used')
        /\ Stamped(used') = Stamped(used) \cup {k}
    BY <2>1, TouchOrders DEF TablesOk
  <2>3. Cached' = Cached
    BY <2>1 DEF Cached
  <2> QED BY <2>1, <2>2, <2>3 DEF TablesOk
<1>2. CASE cache[k] = None
  BY <1>2 DEF Looked, Hit, TablesOk, Cached
<1>3. CASE ~Hit(k) /\ cache[k] # None
  BY <1>3, TablesWithout DEF Looked
<1> QED BY <1>1, <1>2, <1>3

LEMMA TablesUncached ==
  ASSUME TablesOk, LinksTyped, NEW l, Uncached(l)
  PROVE  TablesOk'
  BY TablesWithout DEF Uncached, store, TablesOk, Cached

LEMMA TablesCached ==
  ASSUME TablesOk, LinksTyped, NEW l \in Jobs, key[l] \in Keys, CacheLink(l)
  PROVE  TablesOk'
<1> DEFINE k    == key[l]
           full == Cached \cup {k}
           new  == Touch(used, k)
           out  == OverCap(full, new, {k})
<1>1. /\ cache' = [m \in Keys |-> IF m = k THEN l ELSE IF m \in out THEN None ELSE cache[m]]
      /\ used' = Forget(new, out)
      /\ fails' = [m \in Keys |-> IF m \in out \cup {k} THEN 0 ELSE fails[m]]
      /\ late' = IF Active(l) THEN late \ (out \cup {k}) ELSE (late \ out) \cup {k}
      /\ struck' = [m \in Keys |-> IF m \in out \/ (m = k /\ cache[k] # l) THEN 0 ELSE struck[m]]
  BY DEF CacheLink, Cleaned
<1>2. /\ new \subseteq Keys \X Keys /\ Ordered(new)
      /\ Stamped(new) = Stamped(used) \cup {k}
  BY TouchOrders DEF TablesOk
<1>3. out = Oldest(new, full \ {k}, Excess(full, MaxCached))
  BY DEF OverCap
<1>4. k \notin out
  BY <1>3 DEF Oldest
<1>5. Cardinality(full \ out) <= MaxCached
  <2>1. IsFiniteSet(Cached)
    BY FS_Subset, LinksAssumption DEF Cached
  <2> HIDE DEF full, new, out
  <2> QED BY <1>2, <1>3, <2>1, EvictionLeavesCap, LinksAssumption DEF TablesOk, full
<1> HIDE DEF out, new
<1>6. Cached' = full \ out
  BY <1>1, <1>4, LinksAssumption DEF Cached
<1>7. /\ used' \subseteq Keys \X Keys /\ Ordered(used')
      /\ Stamped(used') = Stamped(new) \ out
  BY <1>1, <1>2, ForgetOrders
<1>8. fails' \in [Keys -> 0..(Threshold - 1)] /\ struck' \in [Keys -> Nat] /\ late' \subseteq Keys
  BY <1>1, LinksAssumption DEF TablesOk
<1>9. Cached' \subseteq Stamped(used')
  BY <1>2, <1>6, <1>7 DEF TablesOk
<1> QED BY <1>5, <1>6, <1>7, <1>8, <1>9 DEF TablesOk

LEMMA TablesStep ==
  ASSUME TablesOk, LinksOk, ReceiptsOk, [Next]_vars
  PROVE  TablesOk'
<1>0. LinksTyped /\ Staged
  BY DEF LinksOk
<1>s. ASSUME UNCHANGED store PROVE TablesOk'
  BY <1>s DEF store, TablesOk, Cached
<1>1. ASSUME NEW j \in Jobs, JobStart(j) PROVE TablesOk'
  BY <1>1, <1>0, TablesLooked DEF JobStart
<1>2. ASSUME NEW j \in Jobs, JobStep(j) PROVE TablesOk'
  <2>1. CASE NoPath(j) \/ PathFound(j) \/ Dispatch(j)
    BY <2>1, <1>0, <1>s, TablesLooked DEF NoPath, PathFound, Dispatch, Goto, Staged
  <2>2. CASE SeesActive(j) \/ SeesNone(j) \/ OpenReturns(j) \/ RecordReceipt(j)
    BY <2>2, <1>s DEF SeesActive, SeesNone, OpenReturns, RecordReceipt
  <2>3. CASE CachesLink(j)
    BY <2>3, <1>0, TablesCached DEF CachesLink, Goto, Staged
  <2> QED BY <1>2, <2>1, <2>2, <2>3 DEF JobStep
<1>3. ASSUME NEW j \in Jobs, Disconnect(j) PROVE TablesOk'
  BY <1>3, <1>s DEF Disconnect
<1>4. ASSUME NEW j \in Jobs, Answered(j) PROVE key[j] \in Keys
  BY <1>4, <1>0 DEF Answered, ReceiptsOk, Staged
<1>5. ASSUME NEW j \in Jobs, Response(j) PROVE TablesOk'
  <2>1. /\ key[j] \in Keys /\ fails' = [fails EXCEPT ![key[j]] = 0]
        /\ UNCHANGED <<cache, used, struck, late>>
    BY <1>4, <1>5 DEF Response
  <2>2. fails' \in [Keys -> 0..(Threshold - 1)]
    BY <2>1, LinksAssumption DEF TablesOk
  <2> QED BY <2>1, <2>2 DEF TablesOk, Cached
<1>6. ASSUME NEW j \in Jobs, Failure(j) PROVE TablesOk'
  <2>1. key[j] \in Keys
    BY <1>4, <1>6 DEF Failure
  <2>2. Cached' \subseteq Cached
    BY <1>6, <1>0 DEF Failure, Cached, LinksTyped
  <2>3. Cardinality(Cached') <= MaxCached
    BY <2>2, FewerLinks DEF TablesOk
  <2>4. fails' \in [Keys -> 0..(Threshold - 1)] /\ struck' \in [Keys -> Nat] /\ late' \subseteq Keys
    BY <1>6, <2>1, LinksAssumption DEF Failure, Recycles, TablesOk
  <2>5. used' = used
    BY <1>6 DEF Failure
  <2> QED BY <2>2, <2>3, <2>4, <2>5 DEF TablesOk
<1>7. ASSUME NEW l \in Jobs, Establish(l) \/ RemoteClose(l) \/ EstabCheck(l) \/ Teardown(l)
      PROVE  TablesOk'
  BY <1>7, <1>s DEF Establish, RemoteClose, EstabCheck, Teardown
<1>8. ASSUME NEW l \in Jobs, EstabCache(l) PROVE TablesOk'
  <2>1. pc[l] # "idle"
    BY <1>8, <1>0 DEF EstabCache, Staged, Up
  <2> QED BY <1>8, <1>0, <2>1, TablesCached DEF EstabCache, Staged
<1>9. ASSUME NEW l \in Jobs, OnLinkClosed(l) \/ CloseUncaches(l) PROVE TablesOk'
  BY <1>9, <1>0, TablesUncached DEF OnLinkClosed, CloseUncaches
<1>10. ASSUME NEW k \in Keys, UseCached(k) \/ Close(k) PROVE TablesOk'
  BY <1>10, <1>0, TablesLooked DEF UseCached, Close
<1>11. CASE Sweep \/ ClearAll
  BY <1>11, <1>0, TablesWithout DEF Sweep, ClearAll
<1>12. CASE UNCHANGED vars
  BY <1>12, <1>s DEF vars
<1> QED BY <1>1, <1>2, <1>3, <1>5, <1>6, <1>7, <1>8, <1>9, <1>10, <1>11, <1>12 DEF Next, LinkStep

LEMMA RestStep ==
  ASSUME RestTyped, LinksOk, [Next]_vars
  PROVE  RestTyped'
<1>0. LinksTyped /\ Staged
  BY DEF LinksOk
<1>c. ASSUME NEW l \in Jobs, CacheLink(l), key[l] \in Keys, UNCHANGED req PROVE RestTyped'
  <2>1. replaced' = {m \in replaced \cup ({cache[key[l]]} \ {None}) : Active(m)} \ {l}
    BY <1>c DEF CacheLink
  <2> QED BY <1>c, <2>1, <1>0 DEF RestTyped, LinksTyped
<1>1. ASSUME NEW j \in Jobs, JobStart(j) \/ NoPath(j) \/ PathFound(j) \/ SeesActive(j) \/ SeesNone(j)
                               \/ OpenReturns(j) \/ RecordReceipt(j) \/ Disconnect(j) \/ Dispatch(j)
      PROVE  RestTyped'
  BY <1>1 DEF RestTyped, JobStart, NoPath, PathFound, SeesActive, SeesNone, OpenReturns, RecordReceipt,
              Disconnect, Dispatch
<1>2. ASSUME NEW j \in Jobs, CachesLink(j) PROVE RestTyped'
  BY <1>2, <1>0, <1>c DEF CachesLink, Goto, Staged
<1>3. ASSUME NEW j \in Jobs, Response(j) \/ Failure(j) PROVE RestTyped'
  BY <1>3 DEF Response, Failure, Answered, RestTyped
<1>4. ASSUME NEW l \in Jobs, EstabCache(l) PROVE RestTyped'
  <2>1. pc[l] # "idle"
    BY <1>4, <1>0 DEF EstabCache, Staged, Up
  <2> QED BY <1>4, <1>0, <1>c, <2>1 DEF EstabCache, Staged, job
<1>5. ASSUME NEW l \in Jobs, Establish(l) \/ RemoteClose(l) \/ EstabCheck(l) \/ Teardown(l)
                               \/ OnLinkClosed(l) \/ CloseUncaches(l)
      PROVE  RestTyped'
  BY <1>5 DEF Establish, RemoteClose, EstabCheck, Teardown, OnLinkClosed, CloseUncaches, RestTyped, job
<1>6. CASE (\E k \in Keys : UseCached(k) \/ Close(k)) \/ Sweep \/ ClearAll \/ UNCHANGED vars
  BY <1>6 DEF UseCached, Close, Sweep, ClearAll, vars, RestTyped, job
<1> QED BY <1>1, <1>2, <1>3, <1>4, <1>5, <1>6 DEF Next, JobStep, LinkStep

LEMMA TablesAlways == Spec => [](TablesOk /\ RestTyped /\ LinksOk /\ ReceiptsOk)
  BY TablesStart, TablesStep, RestStep, LinksStart, LinksStep, ReceiptsStart, ReceiptsStep, PTL DEF Spec

\* The tables and the states of jobs, requests and links have their types; the
\* times of last use are a total order, and a count stays below the threshold
\* (rns_cached_links, _rns_link_last_used, _link_failure_counts).
THEOREM Types == Spec => []TypeOK
<1>1. TablesOk /\ RestTyped /\ LinksOk /\ ReceiptsOk => TypeOK
  BY DEF TablesOk, RestTyped, LinksOk, LinksTyped, Stages, Staged, ReceiptsOk, TypeOK
<1> QED BY <1>1, TablesAlways, PTL

\* The three tables agree whenever the lock is free: no more links than
\* MAX_CACHED_LINKS, each under its own key and with a time of last use
\* (_cache_link_if_active, _evict_over_cap_locked, sweep_stale_links).
THEOREM TheTablesAgree == Spec => []TablesAgree
<1>1. TablesOk /\ RestTyped /\ LinksOk /\ ReceiptsOk => TablesAgree
  BY DEF TablesOk, LinksOk, Filed, TablesAgree, Cached
<1> QED BY <1>1, TablesAlways, PTL
=============================================================================
