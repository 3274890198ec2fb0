------------------------------- MODULE PeerSets -------------------------------
(***************************************************************************)
(* The cached sets of peers that an inbound announce is classified with     *)
(* (announce_manager.py).  The library delivers announces on threads of its *)
(* own; whoever finds the sets expired reads the tables and installs what   *)
(* it read, while the user blocks peers and lifts blocks.                   *)
(***************************************************************************)
EXTENDS Naturals

CONSTANTS
  Dests,     \* destinations, each of a peer of its own
  Readers    \* threads that classify announces

VARIABLES
  banned,    \* table of blocked destinations
  changing,  \* a block was stored or lifted and the sets are not invalidated yet
  blocked,   \* _blocked_hashes
  loaded,    \* _peer_sets_loaded_at: "never" (0), "fresh", or "old" (expired)
  at,        \* at[r]: "idle", "reading" (the tables were read) or "sorting"
  subject,   \* subject[r]: the destination whose announce r has in hand
  snap,      \* snap[r]: the blocked destinations r has read
  raced,     \* history: readers whose tables were invalidated after they read them
  stale,     \* history: the sets come from such a reader
  verdict    \* the last verdict: destination, and whether it was let through

setVars == <<banned, changing, blocked, loaded, at, subject, snap, raced, stale, verdict>>

Move(r, p) == at' = [at EXCEPT ![r] = p]

\* classify_announce calls _ensure_peer_sets: sets that are not fresh are read again.
Look(r, d) ==
  /\ at[r] = "idle"
  /\ subject' = [subject EXCEPT ![r] = d]
  /\ IF loaded = "fresh"
     THEN Move(r, "sorting") /\ UNCHANGED <<snap, raced>>
     ELSE Move(r, "reading") /\ snap' = [snap EXCEPT ![r] = banned] /\ raced' = raced \ {r}
  /\ UNCHANGED <<banned, changing, blocked, loaded, stale, verdict>>

\* A block list that cannot be read leaves the sets as they are.
Unreadable == UNCHANGED <<blocked, loaded, stale>>

\* _reload_peer_sets installs the sets it read.
Install(r) ==
  /\ at[r] = "reading"
  /\ \/ blocked' = snap[r] /\ loaded' = "fresh" /\ stale' = (r \in raced)
     \/ Unreadable
  /\ snap' = [snap EXCEPT ![r] = {}] /\ raced' = raced \ {r}
  /\ Move(r, "sorting")
  /\ UNCHANGED <<banned, changing, subject, verdict>>

\* Without sets the resolver asks the list itself, and no answer is a block.
Passes(d, ok) == d \notin blocked /\ (loaded = "never" => ok /\ d \notin banned)

Classify(r) == \E ok \in BOOLEAN :
  /\ at[r] = "sorting"
  /\ verdict' = [dest |-> subject[r], through |-> Passes(subject[r], ok)]
  /\ Move(r, "idle")
  /\ UNCHANGED <<banned, changing, blocked, loaded, subject, snap, raced, stale>>

\* banish_lxmf_peer and lift_lxmf_peer_banishment change the table ...
Ban(d) ==
  /\ ~changing /\ d \notin banned
  /\ banned' = banned \cup {d} /\ changing' = TRUE
  /\ UNCHANGED <<blocked, loaded, at, subject, snap, raced, stale, verdict>>

Lift(d) ==
  /\ ~changing /\ d \in banned
  /\ banned' = banned \ {d} /\ changing' = TRUE
  /\ UNCHANGED <<blocked, loaded, at, subject, snap, raced, stale, verdict>>

\* Mutant: the sets only count as expired.
ForgottenOld(l) == IF l = "never" THEN l ELSE "old"

\* invalidate_peer_sets
Forgotten(l) == "never"

\* ... then invalidate the sets.
Invalidate ==
  /\ changing /\ changing' = FALSE
  /\ loaded' = Forgotten(loaded)
  /\ raced' = raced \cup {r \in Readers : at[r] = "reading"}
  /\ UNCHANGED <<banned, blocked, at, subject, snap, stale, verdict>>

\* PEER_SETS_REFRESH_SECONDS go by.
Expire ==
  /\ loaded = "fresh" /\ loaded' = "old"
  /\ UNCHANGED <<banned, changing, blocked, at, subject, snap, raced, stale, verdict>>

SetsInit ==
  /\ banned = {} /\ changing = FALSE /\ blocked = {} /\ loaded = "never" /\ stale = FALSE
  /\ at = [r \in Readers |-> "idle"] /\ snap = [r \in Readers |-> {}] /\ raced = {}
  /\ \E d \in Dests : /\ subject = [r \in Readers |-> d]
                      /\ verdict = [dest |-> d, through |-> FALSE]

SetsNext ==
  \/ \E r \in Readers : Install(r) \/ Classify(r) \/ \E d \in Dests : Look(r, d)
  \/ \E d \in Dests : Ban(d) \/ Lift(d)
  \/ Invalidate \/ Expire

SetsSpec == SetsInit /\ [][SetsNext]_setVars

--------------------------------------------------------------------------------
SetsTypeOK ==
  /\ banned \cup blocked \subseteq Dests
  /\ {changing, stale} \subseteq BOOLEAN
  /\ loaded \in {"never", "fresh", "old"}
  /\ at \in [Readers -> {"idle", "reading", "sorting"}]
  /\ subject \in [Readers -> Dests] /\ snap \in [Readers -> SUBSET Dests] /\ raced \subseteq Readers
  /\ verdict \in [dest : Dests, through : BOOLEAN]

\* A blocked peer's announce is let through only while its block is being stored,
\* or with sets that a reload begun before the block installed after it.
BlockHolds == [][\A r \in Readers :
  Classify(r) /\ subject[r] \in banned /\ verdict'.through => changing \/ stale]_setVars
=============================================================================
