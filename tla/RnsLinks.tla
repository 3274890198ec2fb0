------------------------------- MODULE RnsLinks -------------------------------
(***************************************************************************)
(* The cache of Reticulum links (rns_link_manager.py) and the websocket     *)
(* calls that use it: open, request, identify, send, close.                 *)
(*                                                                          *)
(* Jobs run on the event loop and are preempted at every await.  Link and   *)
(* request callbacks, the periodic sweep and the reload run on threads of   *)
(* their own, which only the lock of the cache keeps apart: each block      *)
(* under the lock is one step, and the status of a link, which the library  *)
(* changes at any time, is read in a step before it where the code reads it *)
(* outside.  A job builds at most one link, which carries the job's name.   *)
(***************************************************************************)
EXTENDS Naturals, FiniteSets, LastUse

CONSTANTS
  Jobs,        \* rns.link.open and rns.link.request tasks, and their links
  Keys,        \* pairs of aspect and destination
  None,        \* no link, no key
  MaxCached,   \* MAX_CACHED_LINKS
  Threshold    \* _LINK_RECYCLE_FAILURE_THRESHOLD

ASSUME LinksAssumption ==
  /\ None \notin Jobs \cup Keys
  /\ MaxCached \in Nat \ {0}
  /\ Threshold \in Nat \ {0}
  /\ IsFiniteSet(Keys)

VARIABLES
  cache,     \* rns_cached_links
  used,      \* _rns_link_last_used (LastUse)
  fails,     \* _link_failure_counts (0: no entry)
  receipts,  \* _rns_request_receipts: the jobs that have an entry
  pc,        \* where each job is
  key,       \* key[j]: its aspect and destination
  req,       \* its request: "none", "out", "answered", or "early" (answered before
             \* its receipt was recorded)
  st,        \* st[l]: status of a link
  estab,     \* its established callback: "none", "due", or "checked" (the
             \* callback has read ACTIVE and does not have the lock yet)
  owes,      \* links whose closed callback has yet to run
  doomed,    \* links somebody took out of the cache, or gave up, to tear down
  closing,   \* links rns.link.close has looked up and not uncached yet
  struck,    \* history: failures counted since the cached link was cached
  late,      \* history: keys whose link was closed already when it was cached
  replaced   \* history: open links that another one replaced in the cache

store == <<cache, used, fails, struck, late>>
job   == <<pc, key, req, receipts>>
link  == <<st, estab, owes, doomed, closing>>
vars  == <<store, job, link, replaced>>

Cached == {k \in Keys : cache[k] # None}
Active(l) == st[l] = "active"

--------------------------------------------------------------------------------
(* The cache: what each block under _rns_links_lock does to it *)

\* Links to tear down.  Tearing down a closed one changes nothing.
Doom(L) == doomed' = doomed \cup {l \in L : st[l] # "closed"}

Without(K)     == /\ cache' = [k \in Keys |-> IF k \in K THEN None ELSE cache[k]]
                  /\ used'  = Forget(used, K)
                  /\ fails' = [k \in Keys |-> IF k \in K THEN 0 ELSE fails[k]]
                  /\ struck' = [k \in Keys |-> IF k \in K THEN 0 ELSE struck[k]]
                  /\ late' = late \ K
Hit(k)         == cache[k] # None /\ Active(cache[k])

\* get_cached_active_link: a hit becomes the last used, an entry that is not
\* active is dropped.
Looked(k) ==
  IF Hit(k) \/ cache[k] = None
  THEN /\ used' = IF Hit(k) THEN Touch(used, k) ELSE used
       /\ UNCHANGED <<cache, fails, struck, late>>
  ELSE Without({k})

\* Mutant: the cap is compared with <= instead of <.
OverCapLate(K, uses, kept) == Oldest(uses, K \ kept, Excess(K, MaxCached + 1))

\* The keys of K that _evict_over_cap_locked takes out: the oldest, as many as
\* are over the cap, never `kept`.
OverCap(K, uses, kept) == Oldest(uses, K \ kept, Excess(K, MaxCached))

\* Mutant: the count of an older link at the key is kept.
CleanedNone(K) == fails
\* The counts after a link was cached: those of the keys K start again.
Cleaned(K) == [k \in Keys |-> IF k \in K THEN 0 ELSE fails[k]]

\* _cache_link_if_active, inside the lock.
CacheLink(l) ==
  LET k    == key[l]
      out  == OverCap(Cached \cup {k}, Touch(used, k), {k})
  IN  /\ cache' = [m \in Keys |-> IF m = k THEN l ELSE IF m \in out THEN None ELSE cache[m]]
      /\ used' = Forget(Touch(used, k), out)
      /\ fails' = Cleaned(out \cup {k})
      /\ Doom({cache[m] : m \in out})
      /\ replaced' = {m \in replaced \cup ({cache[k]} \ {None}) : Active(m)} \ {l}
      /\ late' = IF Active(l) THEN late \ (out \cup {k}) ELSE (late \ out) \cup {k}
      /\ struck' = [m \in Keys |-> IF m \in out \/ (m = k /\ cache[k] # l) THEN 0 ELSE struck[m]]

\* Mutant: the closed callback leaves the cache alone.
UncachedNone(l) == UNCHANGED store
\* _uncache_link_if_matches
Uncached(l) == IF cache[key[l]] = l THEN Without({key[l]}) ELSE UNCHANGED store

--------------------------------------------------------------------------------
(* A job: open_link, and the request that may follow it *)

Goto(j, from, to) == pc[j] = from /\ pc' = [pc EXCEPT ![j] = to]

\* The call, up to the wait for a path.
JobStart(j) == \E k \in Keys :
  /\ Goto(j, "idle", IF Hit(k) THEN "have" ELSE "path")
  /\ key' = [key EXCEPT ![j] = k]
  /\ Looked(k)
  /\ UNCHANGED <<req, receipts, link, replaced>>

\* No path in time, or, with a path and no link, the identity is not known.
NoPath(j) ==
  /\ Goto(j, "path", "done")
  /\ UNCHANGED store \/ (~Hit(key[j]) /\ Looked(key[j]))
  /\ UNCHANGED <<key, req, receipts, link, replaced>>

\* A path: the cache is asked again, and a link is built if it has none.
PathFound(j) ==
  /\ Goto(j, "path", IF Hit(key[j]) THEN "have" ELSE "linking")
  /\ Looked(key[j])
  /\ st' = IF Hit(key[j]) THEN st ELSE [st EXCEPT ![j] = "pending"]
  /\ UNCHANGED <<key, req, receipts, estab, owes, doomed, closing, replaced>>

\* The polling loop ends: the link is active (_cache_link_if_active reads that
\* outside the lock), it is closed, or the time is up.  A link that is only late
\* is not torn down: its established callback will cache it.
SeesActive(j) ==
  /\ Active(j) /\ Goto(j, "linking", "caching")
  /\ UNCHANGED <<store, key, req, receipts, link, replaced>>

SeesNone(j) ==
  /\ ~Active(j) /\ Goto(j, "linking", "done")
  /\ UNCHANGED <<store, key, req, receipts, link, replaced>>

CachesLink(j) ==
  /\ Goto(j, "caching", "have")
  /\ CacheLink(j)
  /\ UNCHANGED <<key, req, receipts, st, estab, owes, closing>>

\* rns.link.open answers its client.
OpenReturns(j) ==
  /\ Goto(j, "have", "done")
  /\ UNCHANGED <<store, key, req, receipts, link, replaced>>

\* rns.link.request asks the cache once more, sends the request on the link it
\* finds, and records the receipt when the library has returned it.
Dispatch(j) ==
  LET k == key[j] IN
  /\ Goto(j, "have", IF Hit(k) THEN "sent" ELSE "done")
  /\ Looked(k)
  /\ req'  = IF Hit(k) THEN [req EXCEPT ![j] = "out"] ELSE req
  /\ UNCHANGED <<key, receipts, link, replaced>>

RecordReceipt(j) ==
  /\ Goto(j, "sent", "done")
  /\ receipts' = receipts \cup {j}
  /\ UNCHANGED <<store, key, req, link, replaced>>

\* Mutant: receipts of the client are forgotten.
ReceiptsKept(j) == receipts
ReceiptsWithout(j) == receipts \ {j}

\* The client leaves: its tasks are cancelled at the await they are at (which
\* tears down a link that is being built), its receipts are dropped.
Disconnect(j) ==
  /\ pc[j] \in {"path", "linking", "done"}
  /\ pc' = [pc EXCEPT ![j] = "gone"]
  /\ receipts' = ReceiptsWithout(j)
  /\ Doom(IF pc[j] = "linking" THEN {j} ELSE {})
  /\ UNCHANGED <<store, key, req, st, estab, owes, closing, replaced>>

--------------------------------------------------------------------------------
(* Callbacks of a request, on a thread of the library *)

Answered(j) ==
  /\ req[j] = "out"
  /\ req' = [req EXCEPT ![j] = IF pc[j] = "sent" THEN "early" ELSE "answered"]
  /\ receipts' = ReceiptsWithout(j)
  /\ UNCHANGED <<pc, key, st, estab, owes, closing, replaced>>

\* _wrapped_response resets the count of the key.
Response(j) ==
  /\ Answered(j)
  /\ fails' = [fails EXCEPT ![key[j]] = 0]
  /\ UNCHANGED <<cache, used, doomed, struck, late>>

\* Mutant: the threshold itself does not recycle yet.
RecyclesLate(k) == fails[k] + 1 > Threshold
Recycles(k) == fails[k] + 1 >= Threshold

\* Mutant: the link that is recycled is not torn down.
RecycledNone(k) == {}
Recycled(k) == IF Recycles(k) THEN {cache[k]} \ {None} ELSE {}

\* _wrapped_failed counts for the key; at the threshold the link that is cached
\* now leaves the cache and is torn down.  (_rns_link_last_used keeps its entry.)
Failure(j) ==
  LET k == key[j] IN
  /\ Answered(j)
  /\ fails' = [fails EXCEPT ![k] = IF Recycles(k) THEN 0 ELSE @ + 1]
  /\ cache' = IF Recycles(k) THEN [cache EXCEPT ![k] = None] ELSE cache
  /\ Doom(Recycled(k))
  /\ struck' = [struck EXCEPT ![k] = IF Recycles(k) \/ cache[k] = None THEN 0 ELSE @ + 1]
  /\ late' = IF Recycles(k) THEN late \ {k} ELSE late
  /\ UNCHANGED used

--------------------------------------------------------------------------------
(* Links *)

\* The library establishes a link and calls back (_cache_link_if_active).
Establish(l) ==
  /\ st[l] = "pending"
  /\ st' = [st EXCEPT ![l] = "active"]
  /\ estab' = [estab EXCEPT ![l] = "due"]
  /\ UNCHANGED <<store, job, owes, doomed, closing, replaced>>

EstabCheck(l) ==
  /\ estab[l] = "due"
  /\ estab' = [estab EXCEPT ![l] = IF Active(l) THEN "checked" ELSE "none"]
  /\ UNCHANGED <<store, job, st, owes, doomed, closing, replaced>>

EstabCache(l) ==
  /\ estab[l] = "checked"
  /\ estab' = [estab EXCEPT ![l] = "none"]
  /\ CacheLink(l)
  /\ UNCHANGED <<job, st, owes, closing>>

\* The peer closes the link, or it dies, or it is not established in time.
RemoteClose(l) ==
  /\ st[l] \in {"pending", "active"}
  /\ st' = [st EXCEPT ![l] = "closed"]
  /\ owes' = owes \cup {l}
  /\ replaced' = replaced \ {l}
  /\ UNCHANGED <<store, job, estab, doomed, closing>>

\* link.teardown(), which runs the closed callback.
Teardown(l) ==
  /\ l \in doomed
  /\ doomed' = doomed \ {l}
  /\ st' = [st EXCEPT ![l] = "closed"]
  /\ owes' = owes \cup {l}
  /\ replaced' = replaced \ {l}
  /\ UNCHANGED <<store, job, estab, closing>>

\* _on_link_closed
OnLinkClosed(l) ==
  /\ l \in owes
  /\ owes' = owes \ {l}
  /\ Uncached(l)
  /\ UNCHANGED <<job, st, estab, doomed, closing, replaced>>

--------------------------------------------------------------------------------
(* Other calls *)

\* identify, send_packet
UseCached(k) ==
  /\ Looked(k)
  /\ UNCHANGED <<job, link, replaced>>

\* close
Close(k) ==
  /\ Looked(k)
  /\ closing' = IF Hit(k) THEN closing \cup {cache[k]} ELSE closing
  /\ UNCHANGED <<job, st, estab, owes, doomed, replaced>>

CloseUncaches(l) ==
  /\ l \in closing
  /\ closing' = closing \ {l}
  /\ Doom({l})
  /\ Uncached(l)
  /\ UNCHANGED <<job, st, estab, owes, replaced>>

\* sweep_stale_links: what is not active, what was not used for LINK_IDLE_TTL_S
\* (the keys up to a cut-off), what is over the cap, and counts and times
\* without a link.
StaleKeys == {k \in Cached : ~Active(cache[k])}
Sweep == \E idle \in Behind(used) :
  LET left == Cached \ (StaleKeys \cup idle)
      out  == (Cached \ left) \cup OverCap(left, used, {})
  IN  /\ Without(out \cup (Keys \ Cached))
      /\ Doom({cache[k] : k \in out})
      /\ UNCHANGED <<job, st, estab, owes, closing, replaced>>

\* clear_all_cached_links
ClearAll ==
  /\ Without(Keys)
  /\ Doom({cache[k] : k \in Cached})
  /\ UNCHANGED <<job, st, estab, owes, closing, replaced>>

--------------------------------------------------------------------------------
Init ==
  /\ cache = [k \in Keys |-> None] /\ used = {} /\ fails = [k \in Keys |-> 0]
  /\ pc = [j \in Jobs |-> "idle"] /\ key = [j \in Jobs |-> None]
  /\ req = [j \in Jobs |-> "none"]
  /\ receipts = {}
  /\ st = [l \in Jobs |-> "none"] /\ estab = [l \in Jobs |-> "none"]
  /\ owes = {} /\ doomed = {} /\ closing = {}
  /\ struck = [k \in Keys |-> 0] /\ late = {} /\ replaced = {}

JobStep(j) ==
  \/ NoPath(j) \/ PathFound(j) \/ SeesActive(j) \/ SeesNone(j)
  \/ CachesLink(j) \/ OpenReturns(j) \/ Dispatch(j) \/ RecordReceipt(j)
LinkStep(l) == EstabCheck(l) \/ EstabCache(l) \/ Teardown(l) \/ OnLinkClosed(l)

Next ==
  \/ \E j \in Jobs : JobStart(j) \/ JobStep(j) \/ Disconnect(j) \/ Response(j) \/ Failure(j)
  \/ \E l \in Jobs : Establish(l) \/ RemoteClose(l) \/ LinkStep(l) \/ CloseUncaches(l)
  \/ \E k \in Keys : UseCached(k) \/ Close(k)
  \/ Sweep \/ ClearAll

Spec == Init /\ [][Next]_vars

--------------------------------------------------------------------------------
TypeOK ==
  /\ cache \in [Keys -> Jobs \cup {None}]
  /\ used \subseteq Keys \X Keys /\ Ordered(used)
  /\ fails \in [Keys -> 0..(Threshold - 1)]
  /\ pc \in [Jobs -> {"idle", "path", "linking", "caching", "have", "sent", "done", "gone"}]
  /\ key \in [Jobs -> Keys \cup {None}]
  /\ req \in [Jobs -> {"none", "out", "answered", "early"}]
  /\ st \in [Jobs -> {"none", "pending", "active", "closed"}]
  /\ estab \in [Jobs -> {"none", "due", "checked"}]
  /\ receipts \cup owes \cup doomed \cup closing \cup replaced \subseteq Jobs
  /\ struck \in [Keys -> Nat] /\ late \subseteq Keys

\* The tables agree with each other whenever the lock is free, although links
\* come and go on several threads: never more links than MAX_CACHED_LINKS, each
\* under its own key, and each with a time of last use (the eviction takes a
\* link without one for the oldest).
TablesAgree ==
  /\ Cardinality(Cached) <= MaxCached
  /\ \A k \in Cached : key[cache[k]] = k /\ k \in Stamped(used)

\* "A freshly cached link starts with a clean failure count": a link is recycled
\* for failures that were counted while it was the cached one, never for those
\* of its predecessors.  (Late failures of a predecessor's requests do count.)
CleanCount == \A k \in Cached : fails[k] <= struck[k]

\* An open link that is not in the cache is one that a job or a thread has in
\* hand, to cache it or to tear it down.  The exception are two jobs that built a
\* link to one key each: the one replaced in the cache stays open, unreachable.
Held(l) ==
  \/ l \in doomed \cup closing \/ estab[l] # "none"
  \/ pc[l] \in {"linking", "caching"}
LostOnlyByReplacement ==
  \A l \in Jobs : Active(l) /\ cache[key[l]] # l /\ ~Held(l) => l \in replaced

\* A receipt is kept while its request is under way, or, if the answer came
\* before the receipt was recorded, until the client leaves; never longer.
ReceiptsExplained ==
  \A j \in receipts : pc[j] # "gone" /\ req[j] \in {"out", "early"}

\* A closed link leaves the cache with its closed callback.  The exception is one
\* that closed between the status check and the lock of whoever cached it: its
\* callback may have run before.  (The next lookup, or the sweep, drops it.)
DeadEntryExplained ==
  \A k \in Cached : st[cache[k]] = "closed" => cache[k] \in owes \/ k \in late
=============================================================================
