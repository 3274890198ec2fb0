---------------------------- MODULE NomadDownload ----------------------------
(***************************************************************************)
(* A download from a Nomad Network node (nomadnet_downloader.py): find a    *)
(* path, reuse or build a link, send a request, and give the caller one     *)
(* outcome, whoever is first: the answer, the failure, the watchdog, a      *)
(* time-out, an exception, or the user who cancels.                         *)
(*                                                                          *)
(* Each download has five threads of control.  `main`, `watch` and `cancel` *)
(* run on the event loop and are preempted only at an await; `est` (the     *)
(* established callback) and `ans` (the request's callback) run on threads  *)
(* of the library, between any two steps of the others.  A block under one  *)
(* of the two locks is one step.  A download builds at most one link, which *)
(* carries its name.                                                        *)
(***************************************************************************)
EXTENDS Naturals, FiniteSets, LastUse

CONSTANTS
  Downloads,   \* downloads, and the links they build
  Keys,        \* destinations
  None,        \* no link, no destination
  MaxCached    \* MAX_CACHED_LINKS

ASSUME NomadAssumption ==
  /\ None \notin Downloads \cup Keys
  /\ MaxCached \in Nat \ {0}
  /\ IsFiniteSet(Keys)

VARIABLES
  cache,      \* nomadnet_cached_links
  used,       \* _nomadnet_link_last_used (LastUse)
  pc,         \* pc[d][t]: where thread t of download d is
  key,        \* destination_hash
  private,    \* downloads for private browsing
  link,       \* link[d]: self.link
  over,       \* over[d]: the link that link_established works on
  receipt,    \* the request: "none", "sent", "out" (recorded) or "off"
  cancelled,  \* downloads with is_cancelled
  delivered,  \* downloads with _outcome_delivered
  told,       \* what the caller was told: "ok", "failed", "running", "idle" (not started)
  active,     \* active_downloads of the application
  st,         \* st[l]: status of a link
  replaced,   \* history: open links that another one replaced in the cache
  loose,      \* history: links that left the cache, or were put there after the
              \* outcome of the download that did it
  cut         \* history: links torn down as abandoned while others used them

store == <<cache, used, loose>>
self  == <<key, private, link, over, receipt>>
flags == <<cancelled, delivered, told, active>>
links == <<st, replaced, cut>>
vars  == <<store, pc, self, flags, links>>

Threads == {"main", "est", "watch", "ans", "cancel"}
OnLoop  == {"main", "watch", "cancel"}
AtAwait == {"idle", "path", "linking", "watching", "done"}

\* The event loop is free for thread t of download d.
Turn(d, t) == t \in OnLoop =>
  \A e \in Downloads, u \in OnLoop : <<e, u>> = <<d, t>> \/ pc[e][u] \in AtAwait

At(d, t, p)   == pc[d][t] = p /\ Turn(d, t)
Goto(d, t, p) == pc' = [pc EXCEPT ![d][t] = p]
Concluded(d)  == d \in cancelled \cup delivered
Active(l)     == st[l] = "active"
Open(l)       == st[l] \in {"pending", "active"}
Cached        == {k \in Keys : cache[k] # None}

--------------------------------------------------------------------------------
(* The cache *)

Without(K) == /\ cache' = [k \in Keys |-> IF k \in K THEN None ELSE cache[k]]
              /\ used'  = Forget(used, K)
              /\ loose' = loose \cup ({cache[k] : k \in K} \ {None})
Hit(k)     == cache[k] # None /\ Active(cache[k])

\* get_cached_active_link
Looked(k) ==
  IF Hit(k) \/ cache[k] = None
  THEN used' = (IF Hit(k) THEN Touch(used, k) ELSE used) /\ UNCHANGED <<cache, loose>>
  ELSE Without({k})

\* _cache_link_if_active, inside the lock.  Over the cap, the oldest entries with
\* a dead link go; a link that may be carrying a request stays, cap or no cap.
CacheLink(k, l, late) ==
  LET full == Cached \cup {k}
      dead == {m \in full \ {k} : ~Active(cache[m])}
      out  == Oldest(used, dead, Excess(full, MaxCached))
  IN  /\ cache' = [m \in Keys |-> IF m = k THEN l ELSE IF m \in out THEN None ELSE cache[m]]
      /\ used' = Forget(Touch(used, k), out)
      /\ loose' = loose \cup ({cache[m] : m \in out \cup {k}} \ {None, l})
                        \cup (IF late THEN {l} ELSE {})
      /\ replaced' = {m \in replaced \cup ({cache[k]} \ {None}) : Active(m)} \ {l}

\* _uncache_link_if_matches
Uncached(k, l) == IF cache[k] = l THEN Without({k}) ELSE UNCHANGED store

\* teardown() of the links L.  Nobody is called back for it.
Close(L) == /\ st' = [l \in Downloads |-> IF l \in L THEN "closed" ELSE st[l]]
            /\ replaced' = replaced \ L

--------------------------------------------------------------------------------
(* download() *)

\* Bound: a private download touches no cache and nobody else's link, so it is
\* watched on its own.
WatchedAlone(p) == private = {} /\ (p => \A d \in Downloads : told[d] = "idle")

\* The handler registers the download and starts it; a cached link saves the
\* rest (link_established is then called at once).
Start(d) == \E k \in Keys, p \in BOOLEAN :
  /\ At(d, "main", "idle") /\ WatchedAlone(p)
  /\ key' = [key EXCEPT ![d] = k]
  /\ private' = IF p THEN private \cup {d} ELSE private
  /\ active' = active \cup {d}
  /\ told' = [told EXCEPT ![d] = "running"]
  /\ IF p THEN UNCHANGED store ELSE Looked(k)
  /\ IF ~p /\ Hit(k)
     THEN /\ link' = [link EXCEPT ![d] = cache[k]] /\ over' = [over EXCEPT ![d] = cache[k]]
          /\ Goto(d, "main", "guard")
     ELSE UNCHANGED <<link, over>> /\ Goto(d, "main", "path")
  /\ UNCHANGED <<receipt, cancelled, delivered, links>>

\* The wait for a path, or for the link, ends because there is an outcome.
StopsWaiting(d) ==
  /\ \E p \in {"path", "linking"} : At(d, "main", p)
  /\ Concluded(d)
  /\ Goto(d, "main", "done")
  /\ UNCHANGED <<store, self, flags, links>>

\* No path in time, or no identity for the destination.
NoPath(d) ==
  /\ At(d, "main", "path")
  /\ Goto(d, "main", "deliver")
  /\ UNCHANGED <<store, self, flags, links>>

\* A path: a cached link is looked for again before one is built.
PathFound(d) ==
  LET k == key[d]  hit == d \notin private /\ Hit(k) IN
  /\ At(d, "main", "path")
  /\ hit \/ ~Concluded(d)
  /\ IF d \in private THEN UNCHANGED store ELSE Looked(k)
  /\ link' = [link EXCEPT ![d] = IF hit THEN cache[k] ELSE d]
  /\ over' = [over EXCEPT ![d] = link'[d]]
  /\ st' = IF hit THEN st ELSE [st EXCEPT ![d] = "pending"]
  /\ Goto(d, "main", IF hit THEN "guard" ELSE "linking")
  /\ UNCHANGED <<key, private, receipt, flags, replaced, cut>>

\* The polling loop sees the link active: the callback does the rest.
SeesActive(d) ==
  /\ At(d, "main", "linking") /\ Active(d)
  /\ Goto(d, "main", "done")
  /\ UNCHANGED <<store, self, flags, links>>

LinkTimesOut(d) ==
  /\ At(d, "main", "linking") /\ ~Active(d)
  /\ Goto(d, "main", "deliver")
  /\ UNCHANGED <<store, self, flags, links>>

--------------------------------------------------------------------------------
(* link_established, on the library's thread or, with a cached link, in main *)

\* Mutant: private browsing is forgotten.
GuardPublic(d, t) ==
  /\ At(d, t, "guard")
  /\ Goto(d, t, IF Concluded(d) THEN "done" ELSE IF Active(over[d]) THEN "cache" ELSE "request")
  /\ UNCHANGED <<store, self, flags, links>>

\* The outcome is looked at, and _cache_link_if_active reads the status of the
\* link before it takes the lock.
Guard(d, t) ==
  /\ At(d, t, "guard")
  /\ Goto(d, t, IF Concluded(d) THEN "done"
                ELSE IF d \notin private /\ Active(over[d]) THEN "cache" ELSE "request")
  /\ UNCHANGED <<store, self, flags, links>>

Cache(d, t) ==
  /\ At(d, t, "cache")
  /\ CacheLink(key[d], over[d], Concluded(d))
  /\ Goto(d, t, "request")
  /\ UNCHANGED <<self, flags, st, cut>>

\* The library takes the request, or refuses it.
Request(d, t) ==
  /\ At(d, t, "request")
  /\ \/ receipt' = [receipt EXCEPT ![d] = "sent"] /\ Goto(d, t, "record")
     \/ Goto(d, t, "uncache") /\ UNCHANGED receipt
  /\ UNCHANGED <<store, key, private, link, over, flags, links>>

\* Mutant: no watchdog is started.
RecordOnly(d, t) ==
  /\ At(d, t, "record")
  /\ receipt' = [receipt EXCEPT ![d] = IF @ = "sent" THEN "out" ELSE @]
  /\ Goto(d, t, "done")
  /\ UNCHANGED <<store, key, private, link, over, flags, links>>

\* The receipt is recorded and the watchdog started.
Record(d, t) ==
  /\ At(d, t, "record")
  /\ receipt' = [receipt EXCEPT ![d] = IF @ = "sent" THEN "out" ELSE @]
  /\ pc' = [pc EXCEPT ![d][t] = "done", ![d]["watch"] = "watching"]
  /\ UNCHANGED <<store, key, private, link, over, flags, links>>

\* _watch_request_receipt: it ends with an outcome, and gives up when the link is
\* closed or the time is up.
Watch(d) ==
  /\ At(d, "watch", "watching")
  /\ Goto(d, "watch", IF Concluded(d) THEN "done" ELSE "uncache")
  /\ UNCHANGED <<store, self, flags, links>>

--------------------------------------------------------------------------------
(* Giving up: uncache and deliver the failure, then abandon the link.  cancel()  *)
(* delivers last.                                                                *)

\* The callbacks take the download off the register.
Tell(d, r) ==
  /\ delivered' = delivered \cup {d}
  /\ told' = [told EXCEPT ![d] = r]
  /\ active' = active \ {d}
  /\ UNCHANGED cancelled

\* _deliver_failure
Fail(d) == IF d \in delivered THEN UNCHANGED flags ELSE Tell(d, "failed")

\* The two locks guard different things, so nothing can tell this from two steps.
Uncache(d, t) ==
  /\ At(d, t, "uncache")
  /\ Uncached(key[d], over[d])
  /\ Fail(d)
  /\ Goto(d, t, "abandon")
  /\ UNCHANGED <<self, links>>

Deliver(d, t) ==
  /\ At(d, t, "deliver")
  /\ Fail(d)
  /\ Goto(d, t, IF t = "cancel" THEN "done" ELSE "abandon")
  /\ UNCHANGED <<store, self, links>>

\* Downloads in progress on link l, and what the log of teardowns becomes.
Users(l)    == {e \in Downloads : over[e] = l /\ receipt[e] \in {"sent", "out"} /\ told[e] = "running"}
TearDown(d) ==
  /\ Close({link[d]} \ {None})
  /\ cut' = IF link[d] # None /\ Users(link[d]) \ {d} # {} THEN cut \cup {link[d]} ELSE cut
  /\ link' = [link EXCEPT ![d] = None]

\* Mutants: the cache is not asked, or its answer is always yes.
SharedNever(d)  == FALSE
SharedAlways(d) == TRUE
Shared(d) == cache[key[d]] = link[d]

Then(t)   == IF t = "cancel" THEN "deliver" ELSE "done"

\* _maybe_teardown_abandoned_link: a private link is torn down; another one if
\* the cache, asked under the lock, does not have it ...
Abandon(d, t) ==
  /\ At(d, t, "abandon")
  /\ IF d \in private \/ link[d] = None
     THEN TearDown(d) /\ Goto(d, t, Then(t))
     ELSE Goto(d, t, IF Shared(d) THEN Then(t) ELSE "shut") /\ UNCHANGED <<link, st, replaced, cut>>
  /\ UNCHANGED <<store, key, private, over, receipt, flags>>

\* ... and the lock has been let go by then.
Shut(d, t) ==
  /\ At(d, t, "shut")
  /\ TearDown(d)
  /\ Goto(d, t, Then(t))
  /\ UNCHANGED <<store, key, private, over, receipt, flags>>

--------------------------------------------------------------------------------
(* The request's callbacks: on_response, on_failed *)

\* _claim_outcome
\* Mutant: the callback does not look at the flags.
ClaimBlind(d, r) == Tell(d, r)
Claim(d, r) == IF Concluded(d) THEN UNCHANGED flags ELSE Tell(d, r)

Answer(d) ==
  /\ receipt[d] \in {"sent", "out"}
  /\ receipt' = [receipt EXCEPT ![d] = "off"]
  /\ \E r \in {"ok", "failed"} : Claim(d, r)
  /\ Goto(d, "ans", IF d \in private THEN "abandon" ELSE "done")
  /\ UNCHANGED <<store, key, private, link, over, links>>

--------------------------------------------------------------------------------
(* The user cancels, or the client goes away *)

\* cancel() reads the flags without the lock ...
Cancel(d) ==
  /\ At(d, "cancel", "idle") /\ d \in active
  /\ active' = active \ {d}
  /\ Goto(d, "cancel", IF Concluded(d) THEN "done" ELSE "flag")
  /\ UNCHANGED <<store, self, cancelled, delivered, told, links>>

\* ... sets its own, and withdraws the request if it was recorded.
SetFlag(d) ==
  /\ At(d, "cancel", "flag")
  /\ cancelled' = cancelled \cup {d}
  /\ receipt' = [receipt EXCEPT ![d] = IF @ = "out" THEN "off" ELSE @]
  /\ Goto(d, "cancel", "abandon")
  /\ UNCHANGED <<store, key, private, link, over, delivered, told, active, links>>

--------------------------------------------------------------------------------
(* Links, and the housekeeping of the cache *)

Establish(l) ==
  /\ st[l] = "pending"
  /\ st' = [st EXCEPT ![l] = "active"]
  /\ Goto(l, "est", "guard")
  /\ UNCHANGED <<store, self, flags, replaced, cut>>

RemoteClose(l) ==
  /\ Open(l)
  /\ Close({l})
  /\ UNCHANGED <<store, pc, self, flags, cut>>

\* sweep_stale_links: dead entries, the keys not used since a cut-off, and
\* what is over the cap.
Sweep == Cached # {} /\ \E idle \in Behind(used) :
  LET kept == {k \in Cached \ idle : Active(cache[k])}
      out  == (Cached \ kept) \cup Oldest(used, kept, Excess(kept, MaxCached))
  IN  /\ Without(out \cup (Keys \ Cached))
      /\ Close({cache[k] : k \in out})
      /\ UNCHANGED <<pc, self, flags, cut>>

\* clear_all_nomadnet_cached_links, drop_cached_link
Drop(K) ==
  /\ K \cap Cached # {}
  /\ Without(K)
  /\ Close({cache[k] : k \in K} \ {None})
  /\ UNCHANGED <<pc, self, flags, cut>>

--------------------------------------------------------------------------------
Init ==
  /\ cache = [k \in Keys |-> None] /\ used = {} /\ loose = {}
  /\ pc = [d \in Downloads |-> [t \in Threads |-> "idle"]]
  /\ key = [d \in Downloads |-> None] /\ private = {}
  /\ link = [d \in Downloads |-> None] /\ over = [d \in Downloads |-> None]
  /\ receipt = [d \in Downloads |-> "none"]
  /\ cancelled = {} /\ delivered = {} /\ active = {}
  /\ told = [d \in Downloads |-> "idle"]
  /\ st = [l \in Downloads |-> "none"] /\ replaced = {} /\ cut = {}

Main(d)     == StopsWaiting(d) \/ NoPath(d) \/ PathFound(d) \/ SeesActive(d) \/ LinkTimesOut(d)
GiveUp(d,t) == Uncache(d, t) \/ Deliver(d, t) \/ Abandon(d, t) \/ Shut(d, t)
Step(d, t)  ==
  \/ t = "main" /\ Main(d)
  \/ t = "watch" /\ Watch(d)
  \/ t = "cancel" /\ SetFlag(d)
  \/ Guard(d, t) \/ Cache(d, t) \/ Request(d, t) \/ Record(d, t)
  \/ GiveUp(d, t)

Next ==
  \/ \E d \in Downloads : Start(d) \/ Answer(d) \/ Cancel(d) \/ \E t \in Threads : Step(d, t)
  \/ \E l \in Downloads : Establish(l) \/ RemoteClose(l)
  \/ Sweep
  \/ Drop(Keys) \/ \E k \in Keys : Drop({k})

Spec == Init /\ [][Next]_vars

--------------------------------------------------------------------------------
TypeOK ==
  /\ cache \in [Keys -> Downloads \cup {None}]
  /\ used \subseteq Keys \X Keys /\ Ordered(used)
  /\ pc \in [Downloads -> [Threads -> {"idle", "path", "linking", "watching", "guard", "cache",
       "request", "record", "uncache", "deliver", "abandon", "shut", "flag", "done"}]]
  /\ key \in [Downloads -> Keys \cup {None}]
  /\ link \in [Downloads -> Downloads \cup {None}]
  /\ over \in [Downloads -> Downloads \cup {None}]
  /\ receipt \in [Downloads -> {"none", "sent", "out", "off"}]
  /\ told \in [Downloads -> {"idle", "running", "ok", "failed"}]
  /\ st \in [Downloads -> {"none", "pending", "active", "closed"}]
  /\ private \cup cancelled \cup delivered \cup active \subseteq Downloads
  /\ replaced \cup loose \cup cut \subseteq Downloads

\* A download that gives up does not cut a link that others are using, unless the
\* link had left the cache, or its callback cached it after the outcome was given.
SharedSpared == cut \subseteq loose

\* No thread works for download d.
Settled(d) == \A t \in Threads : pc[d][t] \in {"idle", "done"}

\* A private download leaves nothing behind: its link is closed and was never cached.
PrivateLeavesNothing == \A d \in private :
  /\ \A k \in Keys : cache[k] # d
  /\ Settled(d) /\ told[d] # "running" => ~Open(d)

\* A link that stays open without anybody to close it was replaced in the cache by
\* another open link.
LeakOnlyByReplacement == \A l \in Downloads :
  /\ Open(l) /\ \A k \in Keys : cache[k] # l
  /\ \A d \in Downloads : d = l \/ l \in {link[d], over[d]} => Settled(d)
  => l \in replaced

\* Every download that starts gets its outcome: when none of its threads has
\* anything left to do, the caller was told.  (A thread never returns to a place it
\* was at, and every wait has a deadline, so the threads do come to rest.)
NoneForgotten == \A d \in Downloads : Settled(d) => told[d] # "running"

\* ... and one outcome only.
Promise == INSTANCE DownloadPromise WITH outcome <- told
OneOutcome == Promise!Spec
=============================================================================
