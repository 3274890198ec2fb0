---------------------------- MODULE Announces_proofs ----------------------------
(***************************************************************************)
(* What the cached peer sets and the announce journal promise, for any     *)
(* number of destinations, threads and announces, and any caps.            *)
(*                                                                         *)
(* Peer sets:  what a verdict needs is Current: sets that are not stale,   *)
(*             at a moment when no block is being stored, have every block *)
(*             in them.  They were read by some thread before, so the same *)
(*             is said of what a thread has read and not installed yet     *)
(*             (ReadersCurrent).                                           *)
(* Rows:       what the updates of dicts and tables do is said by numbers: *)
(*             the number a destination has in the result (Numbers).       *)
(* Journal:    the latest announce of a destination is the topmost of its  *)
(*             rows, pending over taken over stored, until it is lost      *)
(*             (Fresh).                                                    *)
(* Trims:      a trim that was not overtaken finds the rows it counted     *)
(*             (Roomy); a table that is too long has a thread that counts  *)
(*             or has counted enough of its rows (SoonBounded).            *)
(***************************************************************************)
EXTENDS MCAnnounces, SequenceTheorems, FiniteSetTheorems, TLAPS

--------------------------------------------------------------------------------
(* The peer sets *)

SetsShape ==
  /\ at \in [Readers -> {"idle", "reading", "sorting"}]
  /\ snap \in [Readers -> SUBSET Dests]

Current == loaded = "never" \/ changing \/ stale \/ banned \subseteq blocked

ReadersCurrent ==
  \A r \in Readers : at[r] = "reading" /\ r \notin raced /\ ~changing => banned \subseteq snap[r]

\* banned stays within Dests, so that a set read from it is a set of destinations.
SetsIInv == SetsShape /\ banned \subseteq Dests /\ Current /\ ReadersCurrent

LEMMA SetsStart == SetsInit => SetsIInv
  BY DEF SetsInit, SetsIInv, SetsShape, Current, ReadersCurrent

LEMMA SetsStep == SetsIInv /\ [SetsNext]_setVars => SetsIInv'
<1> SUFFICES ASSUME SetsIInv, [SetsNext]_setVars PROVE SetsIInv'
  OBVIOUS
<1> USE DEF SetsIInv, SetsShape, Current, ReadersCurrent
<1>1. ASSUME NEW r \in Readers, NEW d \in Dests, Look(r, d) PROVE SetsIInv'
  BY <1>1 DEF Look, Move
<1>2. ASSUME NEW r \in Readers, Install(r) PROVE SetsIInv'
  <2>1. SetsShape' /\ (banned \subseteq Dests)'
    BY <1>2 DEF Install, Move
  <2>2. Current'
    <3>1. CASE blocked' = snap[r] /\ stale' = (r \in raced) /\ r \in raced
      BY <3>1, Zenon
    <3>2. CASE blocked' = snap[r] /\ r \notin raced
      BY <1>2, <3>2 DEF Install
    <3>3. CASE Unreadable
      BY <1>2, <3>3 DEF Install, Unreadable
    <3> QED BY <1>2, <3>1, <3>2, <3>3 DEF Install
  <2>3. ReadersCurrent'
    BY <1>2 DEF Install, Move
  <2> QED BY <2>1, <2>2, <2>3
<1>3. ASSUME NEW r \in Readers, Classify(r) PROVE SetsIInv'
  BY <1>3 DEF Classify, Move
<1>4. ASSUME NEW d \in Dests, Ban(d) \/ Lift(d) PROVE SetsIInv'
  BY <1>4 DEF Ban, Lift
<1>5. CASE Invalidate
  BY <1>5 DEF Invalidate, Forgotten
<1>6. CASE Expire
  BY <1>6 DEF Expire
<1>7. CASE UNCHANGED setVars
  BY <1>7 DEF setVars
<1> QED BY <1>1, <1>2, <1>3, <1>4, <1>5, <1>6, <1>7 DEF SetsNext

\* What the cached sets and the reads under way have of the block list.
THEOREM SetsInductive == SetsSpec => []SetsIInv
  BY SetsStart, SetsStep, PTL DEF SetsSpec

\* A blocked peer's announce is let through only while its block is being stored,
\* or with sets that a reload begun before the block installed after it
\* (classify_announce, _reload_peer_sets, invalidate_peer_sets).
THEOREM BlockIsKept == SetsSpec => BlockHolds
<1>1. SetsIInv =>
        \A r \in Readers : Classify(r) /\ subject[r] \in banned /\ verdict'.through
                             => changing \/ stale
  <2> SUFFICES ASSUME SetsIInv, NEW r \in Readers, Classify(r), subject[r] \in banned,
                      verdict'.through
               PROVE  changing \/ stale
    OBVIOUS
  <2>1. PICK ok \in BOOLEAN : verdict' = [dest |-> subject[r], through |-> Passes(subject[r], ok)]
    BY DEF Classify
  <2>2. Passes(subject[r], ok)
    BY <2>1
  <2> QED BY <2>2 DEF SetsIInv, Current, Passes
<1> QED BY <1>1, SetsInductive, PTL DEF SetsSpec, BlockHolds

--------------------------------------------------------------------------------
(* Places, their ranks, and the rows at some of them *)

LEMMA RankGrows ==
  ASSUME NEW K, IsFiniteSet(K), K \subseteq Nat
  PROVE  /\ Cardinality(K) \in Nat
         /\ \A i \in K : Rank(K, i) \in 1..Cardinality(K)
         /\ \A i, k \in K : i < k => Rank(K, i) < Rank(K, k)
<1>1. \A i \in K : IsFiniteSet({k \in K : k <= i}) /\ Cardinality({k \in K : k <= i}) <= Cardinality(K)
  BY FS_Subset
<1>2. \A i \in K : Rank(K, i) \in Nat
  BY <1>1, FS_CardinalityType DEF Rank
<1>3. \A i \in K : Rank(K, i) # 0
  BY <1>1, FS_EmptySet DEF Rank
<1>4. ASSUME NEW i \in K, NEW k \in K, i < k PROVE Rank(K, i) < Rank(K, k)
  <2> DEFINE low == {j \in K : j <= i}  high == {j \in K : j <= k}
  <2>1. IsFiniteSet(high) /\ low \in SUBSET high /\ low # high
    <3>1. k \in high /\ k \notin low
      BY <1>4
    <3>2. \A j \in K : j <= i => j <= k
      BY <1>4
    <3>3. IsFiniteSet(high)
      BY <1>1
    <3> QED BY <3>1, <3>2, <3>3
  <2>2. Cardinality(low) <= Cardinality(high) /\ Cardinality(low) # Cardinality(high)
    <3> HIDE DEF low, high
    <3> QED BY <2>1, FS_Subset
  <2> QED BY <2>2, <1>2 DEF Rank
<1>5. Cardinality(K) \in Nat
  BY FS_CardinalityType
<1>6. \A i \in K : Rank(K, i) <= Cardinality(K)
  BY <1>1 DEF Rank
<1> QED BY <1>2, <1>3, <1>4, <1>5, <1>6

\* Every rank is the rank of one place.
LEMMA RankReached ==
  ASSUME NEW K, IsFiniteSet(K), K \subseteq Nat, NEW n \in 1..Cardinality(K)
  PROVE  \E i \in K : Rank(K, i) = n
<1> DEFINE c == Cardinality(K)
           f == [i \in K |-> Rank(K, i)]
<1>1. /\ c \in Nat /\ \A i \in K : Rank(K, i) \in 1..c
      /\ \A i, k \in K : i < k => Rank(K, i) < Rank(K, k)
  BY RankGrows
<1>2. f \in [K -> 1..c]
  BY <1>1
<1>3. \A i, k \in K : Rank(K, i) = Rank(K, k) => i = k
  BY <1>1
<1>4. f \in Injection(K, 1..c)
  BY <1>2, <1>3 DEF Injection, IsInjective
<1>5. IsFiniteSet(1..c) /\ Cardinality(1..c) = c
  BY <1>1, FS_Interval
<1>6. f \in Surjection(K, 1..c)
  <2> HIDE DEF f
  <2> QED BY <1>4, <1>5, FS_Injection
<1> QED BY <1>6 DEF Surjection

\* The first n places of K.
LEMMA FirstPlaces ==
  ASSUME NEW K, IsFiniteSet(K), K \subseteq Nat, NEW n \in Nat
  PROVE  LET first == {i \in K : Rank(K, i) <= n} IN
         /\ IsFiniteSet(first) /\ first \subseteq K
         /\ Cardinality(first) = IF n < Cardinality(K) THEN n ELSE Cardinality(K)
<1> DEFINE first == {i \in K : Rank(K, i) <= n}
<1>1. /\ Cardinality(K) \in Nat /\ \A i \in K : Rank(K, i) \in 1..Cardinality(K)
      /\ \A i, k \in K : i < k => Rank(K, i) < Rank(K, k)
  BY RankGrows
<1>2. IsFiniteSet(first) /\ first \subseteq K
  BY FS_Subset
<1>3. CASE n >= Cardinality(K)
  <2>1. first = K
    <3>1. \A i \in K : Rank(K, i) <= n
      BY <1>1, <1>3
    <3> QED BY <3>1
  <2> QED BY <1>1, <1>2, <1>3, <2>1
<1>4. CASE n = 0 /\ n < Cardinality(K)
  <2>1. first = {}
    <3>1. \A i \in K : ~(Rank(K, i) <= n)
      BY <1>1, <1>4
    <3> QED BY <3>1
  <2> QED BY <1>2, <1>4, <2>1, FS_EmptySet
<1>5. CASE n \in 1..Cardinality(K) /\ n < Cardinality(K)
  <2>1. PICK i \in K : Rank(K, i) = n
    BY <1>5, RankReached
  <2>2. first = {k \in K : k <= i}
    <3>1. ASSUME NEW k \in K PROVE Rank(K, k) <= n <=> k <= i
      <4>1. CASE k < i
        BY <1>1, <2>1, <4>1
      <4>2. CASE k = i
        BY <1>1, <2>1, <4>2
      <4>3. CASE i < k
        BY <1>1, <2>1, <4>3
      <4> QED BY <4>1, <4>2, <4>3
    <3> QED BY <3>1
  <2> QED BY <1>2, <1>5, <2>1, <2>2 DEF Rank
<1> QED BY <1>1, <1>3, <1>4, <1>5

LEMMA PlacesFinite ==
  ASSUME NEW S, NEW rows \in Seq(S), NEW K \in SUBSET (DOMAIN rows)
  PROVE  /\ Len(rows) \in Nat /\ DOMAIN rows = 1..Len(rows)
         /\ IsFiniteSet(K) /\ K \subseteq Nat
         /\ Cardinality(K) \in Nat /\ Cardinality(K) <= Len(rows)
<1>1. Len(rows) \in Nat /\ DOMAIN rows = 1..Len(rows)
  BY LenProperties
<1>2. IsFiniteSet(DOMAIN rows) /\ Cardinality(DOMAIN rows) = Len(rows)
  <2>1. IsFiniteSet(1..Len(rows)) /\ Cardinality(1..Len(rows)) = IF 1 > Len(rows) THEN 0 ELSE Len(rows) - 1 + 1
    BY <1>1, FS_Interval
  <2> QED BY <1>1, <2>1
<1> QED BY <1>1, <1>2, FS_Subset, FS_CardinalityType

--------------------------------------------------------------------------------
(* The rows of a dict or a table *)

\* A destination has one row at most.
IsDict(rows) == \A i, k \in DOMAIN rows : rows[i].dest = rows[k].dest => i = k

LEMMA SomeRow ==
  ASSUME NEW rows, NEW d
  PROVE  /\ d \in Named(rows) <=> RowOf(rows, d) # {}
         /\ d \in Named(rows) <=> Numbers(rows, d) # {}
  BY DEF Named, RowOf, Numbers

LEMMA WithoutRows ==
  ASSUME NEW S, NEW rows \in Seq(S), IsDict(rows), NEW out
  PROVE  /\ Without(rows, out) \in Seq(S) /\ IsDict(Without(rows, out))
         /\ Len(Without(rows, out)) = Cardinality(Others(rows, out))
         /\ \A d : Numbers(Without(rows, out), d) = IF d \in out THEN {} ELSE Numbers(rows, d)
         /\ Named(Without(rows, out)) = Named(rows) \ out
<1> DEFINE kept == Others(rows, out)
           c == Cardinality(kept)
           place(n) == CHOOSE i \in kept : Rank(kept, i) = n
           w == Without(rows, out)
<1>1. /\ Len(rows) \in Nat /\ DOMAIN rows = 1..Len(rows) /\ kept \subseteq DOMAIN rows
      /\ IsFiniteSet(kept) /\ kept \subseteq Nat /\ c \in Nat
  <2>1. kept \subseteq DOMAIN rows
    BY DEF Others
  <2> HIDE DEF kept
  <2> QED BY <2>1, PlacesFinite
<1>2. /\ \A i \in kept : Rank(kept, i) \in 1..c
      /\ \A i, k \in kept : Rank(kept, i) = Rank(kept, k) => i = k
  <2>1. /\ \A i \in kept : Rank(kept, i) \in 1..c
        /\ \A i, k \in kept : i < k => Rank(kept, i) < Rank(kept, k)
    BY <1>1, RankGrows
  <2> QED BY <1>1, <2>1
<1>3. \A n \in 1..c : place(n) \in kept /\ Rank(kept, place(n)) = n
  <2> HIDE DEF kept
  <2>1. \A n \in 1..c : \E i \in kept : Rank(kept, i) = n
    BY <1>1, RankReached
  <2> QED BY <2>1
<1>4. w = [n \in 1..c |-> rows[place(n)]]
  BY DEF Without
<1>5. \A i \in kept : i \in DOMAIN rows /\ rows[i] \in S /\ rows[i].dest \notin out
  BY <1>1, ElementOfSeq DEF Others
<1>6. \A i \in kept : place(Rank(kept, i)) = i
  BY <1>2, <1>3
<1>7. \A i \in DOMAIN rows : rows[i].dest \notin out => i \in kept
  BY DEF Others
<1> HIDE DEF kept, place, c, w
<1>8. DOMAIN w = 1..c /\ \A n \in 1..c : w[n] = rows[place(n)]
  BY <1>4
<1>9. \A n \in 1..c : w[n] \in S
  BY <1>3, <1>5, <1>8
<1>10. w \in Seq(S) /\ Len(w) = c
  <2>1. w \in [1..c -> S]
    BY <1>4, <1>8, <1>9
  <2>2. w \in Seq(S)
    BY <2>1, <1>1
  <2> QED BY <2>2, <1>8, <1>1, LenProperties
<1>11. IsDict(w)
  <2> SUFFICES ASSUME NEW n \in 1..c, NEW m \in 1..c, w[n].dest = w[m].dest
               PROVE  n = m
    BY <1>8 DEF IsDict
  <2>1. place(n) = place(m)
    BY <1>3, <1>5, <1>8 DEF IsDict
  <2> QED BY <1>3, <2>1
<1>12. ASSUME NEW d PROVE Numbers(w, d) = IF d \in out THEN {} ELSE Numbers(rows, d)
  <2>1. \A n \in RowOf(w, d) : /\ place(n) \in RowOf(rows, d) /\ d \notin out
                               /\ w[n].n = rows[place(n)].n
    BY <1>3, <1>5, <1>8 DEF RowOf
  <2>2. \A i \in RowOf(rows, d) : d \notin out =>
           Rank(kept, i) \in RowOf(w, d) /\ w[Rank(kept, i)].n = rows[i].n
    BY <1>2, <1>6, <1>7, <1>8 DEF RowOf
  <2> QED BY <2>1, <2>2 DEF Numbers
<1>13. Named(w) = Named(rows) \ out
  <2>1. \A d : d \in Named(w) <=> d \in Named(rows) /\ d \notin out
    BY <1>12, SomeRow
  <2> QED BY <2>1
<1> QED BY <1>10, <1>11, <1>12, <1>13 DEF kept, c, w

LEMMA ConcatRows ==
  ASSUME NEW S, NEW s \in Seq(S), NEW t \in Seq(S), IsDict(s), IsDict(t),
         Named(s) \cap Named(t) = {}
  PROVE  /\ s \o t \in Seq(S) /\ IsDict(s \o t) /\ Len(s \o t) = Len(s) + Len(t)
         /\ \A d : Numbers(s \o t, d) = Numbers(s, d) \cup Numbers(t, d)
         /\ Named(s \o t) = Named(s) \cup Named(t)
<1> DEFINE u == s \o t
<1>1. /\ u \in Seq(S) /\ Len(u) = Len(s) + Len(t)
      /\ \A i \in 1..(Len(s) + Len(t)) : u[i] = IF i <= Len(s) THEN s[i] ELSE t[i - Len(s)]
      /\ Len(s) \in Nat /\ Len(t) \in Nat
      /\ DOMAIN s = 1..Len(s) /\ DOMAIN t = 1..Len(t) /\ DOMAIN u = 1..(Len(s) + Len(t))
  BY ConcatProperties, LenProperties
<1> HIDE DEF u
<1>2. \A i \in DOMAIN s : i \in DOMAIN u /\ u[i] = s[i] /\ i <= Len(s)
  BY <1>1
<1>3. \A i \in DOMAIN t : i + Len(s) \in DOMAIN u /\ u[i + Len(s)] = t[i]
  BY <1>1
<1>4. \A i \in DOMAIN u : \/ i \in DOMAIN s /\ u[i] = s[i]
                          \/ i - Len(s) \in DOMAIN t /\ u[i] = t[i - Len(s)]
  BY <1>1
<1>5. \A i \in DOMAIN s, k \in DOMAIN t : s[i].dest # t[k].dest
  BY DEF Named
<1>6. IsDict(u)
  <2> SUFFICES ASSUME NEW i \in DOMAIN u, NEW k \in DOMAIN u, u[i].dest = u[k].dest
               PROVE  i = k
    BY DEF IsDict
  <2>1. CASE i \in DOMAIN s /\ u[i] = s[i] /\ k \in DOMAIN s /\ u[k] = s[k]
    BY <2>1 DEF IsDict
  <2>2. CASE i - Len(s) \in DOMAIN t /\ u[i] = t[i - Len(s)] /\ k - Len(s) \in DOMAIN t /\ u[k] = t[k - Len(s)]
    <3>1. i - Len(s) = k - Len(s)
      BY <2>2 DEF IsDict
    <3> QED BY <3>1, <1>1
  <2> QED BY <1>4, <1>5, <2>1, <2>2
<1>7. ASSUME NEW d PROVE Numbers(u, d) = Numbers(s, d) \cup Numbers(t, d)
  BY <1>2, <1>3, <1>4 DEF Numbers, RowOf
<1>8. Named(u) = Named(s) \cup Named(t)
  BY <1>2, <1>3, <1>4 DEF Named
<1> QED BY <1>1, <1>6, <1>7, <1>8 DEF u

\* How many rows an update with other rows leaves alone.
LEMMA OldRows ==
  ASSUME NEW S, NEW rows \in Seq(S), NEW newer \in Seq(S), IsDict(rows)
  PROVE  Len(rows) <= Cardinality(Others(rows, Named(newer)))
                        + Len(newer)
<1> DEFINE kept == Others(rows, Named(newer))
           set == {i \in DOMAIN rows : rows[i].dest \in Named(newer)}
           f == [i \in set |-> CHOOSE k \in DOMAIN newer : newer[k].dest = rows[i].dest]
<1>1. /\ IsFiniteSet(kept) /\ IsFiniteSet(set)
      /\ Len(rows) \in Nat /\ DOMAIN rows = 1..Len(rows)
      /\ Cardinality(kept) \in Nat /\ Cardinality(set) \in Nat
  <2>1. kept \subseteq DOMAIN rows /\ set \subseteq DOMAIN rows
    BY DEF Others
  <2> HIDE DEF kept, set
  <2> QED BY <2>1, PlacesFinite
<1>2. /\ Len(newer) \in Nat /\ DOMAIN newer = 1..Len(newer)
      /\ IsFiniteSet(DOMAIN newer) /\ IsFiniteSet(DOMAIN rows)
  BY PlacesFinite
<1>3. Cardinality(DOMAIN newer) = Len(newer) /\ Cardinality(DOMAIN rows) = Len(rows)
  <2>1. \A n \in Nat : Cardinality(1..n) = IF 1 > n THEN 0 ELSE n - 1 + 1
    BY FS_Interval
  <2> HIDE DEF kept, set, f
  <2> QED BY <1>1, <1>2, <2>1
<1>4. f \in Injection(set, DOMAIN newer)
  <2>1. \A i \in set : f[i] \in DOMAIN newer /\ newer[f[i]].dest = rows[i].dest
    BY DEF Named
  <2>2. f \in [set -> DOMAIN newer]
    BY <2>1
  <2> HIDE DEF f
  <2>3. \A i, k \in set : f[i] = f[k] => i = k
    BY <2>1 DEF IsDict
  <2> QED BY <2>2, <2>3 DEF Injection, IsInjective
<1>5. Cardinality(set) <= Len(newer)
  <2> HIDE DEF f, set
  <2> QED BY <1>2, <1>3, <1>4, FS_Injection
<1>6. kept \cup set = DOMAIN rows /\ kept \cap set = {}
  BY DEF Others
<1> HIDE DEF kept, set, f
<1>7. Cardinality(kept \cup set) = Cardinality(kept) + Cardinality(set) - Cardinality(kept \cap set)
  BY <1>1, FS_Union
<1>8. Cardinality(kept \cap set) = 0
  BY <1>6, FS_EmptySet
<1>9. Cardinality(kept \cup set) = Len(rows)
  BY <1>3, <1>6
<1>10. Len(rows) <= Cardinality(kept) + Len(newer)
  BY <1>1, <1>2, <1>5, <1>7, <1>8, <1>9
<1> QED BY <1>10 DEF kept

\* What the table has of a destination after a write: what was written last.
LEMMA MovedLastRows ==
  ASSUME NEW S, NEW rows \in Seq(S), NEW newer \in Seq(S), IsDict(rows), IsDict(newer)
  PROVE  LET all == MovedLast(rows, newer) IN
         /\ all \in Seq(S) /\ IsDict(all) /\ Len(all) >= Len(rows)
         /\ \A d : Numbers(all, d) = IF d \in Named(newer) THEN Numbers(newer, d)
                                                          ELSE Numbers(rows, d)
<1> DEFINE old == Without(rows, Named(newer))  all == MovedLast(rows, newer)
           kept == Others(rows, Named(newer))
<1>1. /\ old \in Seq(S) /\ IsDict(old) /\ Len(old) = Cardinality(kept)
      /\ \A d : Numbers(old, d) = IF d \in Named(newer) THEN {} ELSE Numbers(rows, d)
      /\ Named(old) = Named(rows) \ Named(newer)
  BY WithoutRows
<1>2. all = old \o newer
  BY DEF MovedLast
<1>3. Len(rows) <= Cardinality(kept) + Len(newer)
  BY OldRows
<1>4. \A d : d \notin Named(newer) => Numbers(newer, d) = {}
  BY SomeRow
<1> HIDE DEF old, all, kept
<1>5. /\ all \in Seq(S) /\ IsDict(all) /\ Len(all) = Len(old) + Len(newer)
      /\ \A d : Numbers(all, d) = Numbers(old, d) \cup Numbers(newer, d)
  BY <1>1, <1>2, ConcatRows
<1>6. Len(all) >= Len(rows)
  BY <1>1, <1>3, <1>5, LenProperties
<1>7. ASSUME NEW d
      PROVE  Numbers(all, d) = IF d \in Named(newer) THEN Numbers(newer, d) ELSE Numbers(rows, d)
  <2>1. CASE d \in Named(newer)
    BY <1>1, <1>5, <2>1
  <2>2. CASE d \notin Named(newer)
    BY <1>1, <1>4, <1>5, <2>2
  <2> QED BY <2>1, <2>2
<1> QED BY <1>5, <1>6, <1>7 DEF all

\* What a dict has of a key after an update: what it was updated with.
LEMMA MergedRows ==
  ASSUME NEW S, NEW rows \in Seq(S), NEW newer \in Seq(S), IsDict(rows), IsDict(newer)
  PROVE  LET all == Merged(rows, newer) IN
         /\ all \in Seq(S) /\ IsDict(all) /\ Len(all) <= Len(rows) + Len(newer)
         /\ \A d : Numbers(all, d) = IF d \in Named(newer) THEN Numbers(newer, d)
                                                          ELSE Numbers(rows, d)
         /\ Named(all) = Named(rows) \cup Named(newer)
<1> DEFINE set(i) == LET again == RowOf(newer, rows[i].dest)
                     IN  IF again = {} THEN rows[i] ELSE newer[CHOOSE k \in again : TRUE]
           first == [i \in DOMAIN rows |-> set(i)]
           rest == Without(newer, Named(rows))
           all == Merged(rows, newer)
           kept == Others(newer, Named(rows))
<1>1. /\ rest \in Seq(S) /\ IsDict(rest) /\ Len(rest) = Cardinality(kept)
      /\ \A d : Numbers(rest, d) = IF d \in Named(rows) THEN {} ELSE Numbers(newer, d)
      /\ Named(rest) = Named(newer) \ Named(rows)
  BY WithoutRows
<1>2. all = first \o rest
  BY DEF Merged
<1>3. Cardinality(kept) <= Len(newer)
  <2>1. kept \subseteq DOMAIN newer
    BY DEF Others
  <2> HIDE DEF kept
  <2> QED BY <2>1, PlacesFinite
<1>4. \A i \in DOMAIN rows :
        /\ RowOf(newer, rows[i].dest) = {} => set(i) = rows[i]
        /\ RowOf(newer, rows[i].dest) # {} =>
             \E k \in RowOf(newer, rows[i].dest) : set(i) = newer[k]
  OBVIOUS
<1>5. DOMAIN first = DOMAIN rows /\ \A i \in DOMAIN rows : first[i] = set(i)
  OBVIOUS
<1>6. /\ Len(rows) \in Nat /\ DOMAIN rows = 1..Len(rows) /\ \A i \in DOMAIN rows : rows[i] \in S
      /\ \A i \in DOMAIN newer : newer[i] \in S
  BY LenProperties, ElementOfSeq
<1>0. first = [i \in 1..Len(rows) |-> first[i]]
  BY <1>6
<1> HIDE DEF set, first, rest, all, kept
<1>7. \A i \in DOMAIN rows : first[i] \in S /\ first[i].dest = rows[i].dest
  BY <1>4, <1>5, <1>6 DEF RowOf
<1>8. first \in Seq(S) /\ Len(first) = Len(rows)
  <2>1. first \in [1..Len(rows) -> S]
    BY <1>0, <1>5, <1>6, <1>7
  <2>2. first \in Seq(S)
    BY <2>1, <1>6
  <2> QED BY <2>2, <1>5, <1>6, LenProperties
<1>9. IsDict(first) /\ Named(first) = Named(rows)
  BY <1>5, <1>7 DEF IsDict, Named
<1>10. \A d : Numbers(first, d) = IF d \in Named(newer) /\ d \in Named(rows)
                                  THEN Numbers(newer, d) ELSE Numbers(rows, d)
  <2> SUFFICES ASSUME NEW d
               PROVE  Numbers(first, d) = IF d \in Named(newer) /\ d \in Named(rows)
                                            THEN Numbers(newer, d) ELSE Numbers(rows, d)
    OBVIOUS
  <2>0. RowOf(first, d) = RowOf(rows, d)
    BY <1>5, <1>7 DEF RowOf
  <2>1. CASE d \notin Named(rows)
    <3>1. RowOf(rows, d) = {}
      BY <2>1, SomeRow
    <3> QED BY <2>0, <2>1, <3>1 DEF Numbers
  <2>2. CASE d \in Named(rows) /\ d \notin Named(newer)
    <3>1. RowOf(newer, d) = {}
      BY <2>2, SomeRow
    <3>2. \A i \in RowOf(rows, d) : first[i] = rows[i]
      BY <3>1, <1>4, <1>5 DEF RowOf
    <3> QED BY <2>0, <2>2, <3>2 DEF Numbers
  <2>3. CASE d \in Named(rows) /\ d \in Named(newer)
    <3>1. RowOf(newer, d) # {} /\ RowOf(rows, d) # {}
      BY <2>3, SomeRow
    <3>2. \A i \in RowOf(rows, d) : \E k \in RowOf(newer, d) : first[i] = newer[k]
      BY <3>1, <1>4, <1>5 DEF RowOf
    <3>3. \A k, l \in RowOf(newer, d) : k = l
      BY DEF RowOf, IsDict
    <3>4. \A x : x \in Numbers(first, d) <=> x \in Numbers(newer, d)
      BY <2>0, <3>1, <3>2, <3>3 DEF Numbers
    <3> QED BY <3>4, <2>3, SomeRow DEF Numbers
  <2> QED BY <2>1, <2>2, <2>3
<1>11. \A d : /\ d \notin Named(newer) => Numbers(newer, d) = {}
              /\ d \notin Named(rows) => Numbers(rows, d) = {}
  BY SomeRow
<1>12. /\ all \in Seq(S) /\ IsDict(all) /\ Len(all) = Len(first) + Len(rest)
       /\ \A d : Numbers(all, d) = Numbers(first, d) \cup Numbers(rest, d)
       /\ Named(all) = Named(first) \cup Named(rest)
  BY <1>1, <1>2, <1>8, <1>9, ConcatRows
<1>13. Len(all) <= Len(rows) + Len(newer)
  BY <1>1, <1>3, <1>6, <1>8, <1>12, LenProperties
<1>14. ASSUME NEW d
       PROVE  Numbers(all, d) = IF d \in Named(newer) THEN Numbers(newer, d) ELSE Numbers(rows, d)
  <2>1. CASE d \in Named(newer)
    BY <1>1, <1>10, <1>11, <1>12, <2>1
  <2>2. CASE d \notin Named(newer)
    BY <1>1, <1>10, <1>11, <1>12, <2>2
  <2> QED BY <2>1, <2>2
<1>15. Named(all) = Named(rows) \cup Named(newer)
  BY <1>1, <1>9, <1>12
<1> QED BY <1>12, <1>13, <1>14, <1>15 DEF all

\* The rows from the m-th on: the others are dropped for good.
LEMMA SuffixRows ==
  ASSUME NEW S, NEW rows \in Seq(S), IsDict(rows), NEW m \in 1..(Len(rows) + 1)
  PROVE  LET rest == SubSeq(rows, m, Len(rows)) IN
         /\ rest \in Seq(S) /\ IsDict(rest) /\ Len(rest) = Len(rows) - m + 1
         /\ \A d : Numbers(rest, d) = IF d \in {rows[i].dest : i \in 1..(m - 1)}
                                        THEN {} ELSE Numbers(rows, d)
<1> DEFINE rest == SubSeq(rows, m, Len(rows))
<1>1. /\ Len(rows) \in Nat /\ m \in Int /\ Len(rows) \in Int /\ DOMAIN rows = 1..Len(rows)
      /\ \A i \in m..Len(rows) : rows[i] \in S
  BY LenProperties, ElementOfSeq
<1>2. /\ rest \in Seq(S) /\ Len(rest) = IF m <= Len(rows) THEN Len(rows) - m + 1 ELSE 0
      /\ \A i \in 1..(Len(rows) - m + 1) : rest[i] = rows[m + i - 1]
  BY <1>1, SubSeqProperties
<1>3. Len(rest) = Len(rows) - m + 1 /\ DOMAIN rest = 1..(Len(rows) - m + 1)
  <2> HIDE DEF rest
  <2> QED BY <1>1, <1>2, LenProperties
<1> HIDE DEF rest
<1>4. \A i \in DOMAIN rest : /\ m + i - 1 \in DOMAIN rows /\ rest[i] = rows[m + i - 1]
                            /\ m + i - 1 \notin 1..(m - 1) /\ i \in Int
  BY <1>1, <1>2, <1>3
<1>5. \A i \in DOMAIN rows : i \in 1..(m - 1) \/ (i - m + 1 \in DOMAIN rest /\ rest[i - m + 1] = rows[i])
  <2> SUFFICES ASSUME NEW i \in DOMAIN rows, i \notin 1..(m - 1)
               PROVE  i - m + 1 \in DOMAIN rest /\ rest[i - m + 1] = rows[i]
    OBVIOUS
  <2>1. i - m + 1 \in DOMAIN rest /\ m + (i - m + 1) - 1 = i
    BY <1>1, <1>3
  <2> QED BY <1>4, <2>1
<1>6. IsDict(rest)
  <2> SUFFICES ASSUME NEW i \in DOMAIN rest, NEW k \in DOMAIN rest, rest[i].dest = rest[k].dest
               PROVE  i = k
    BY DEF IsDict
  <2>1. m + i - 1 = m + k - 1
    BY <1>4 DEF IsDict
  <2> QED BY <1>1, <1>4, <2>1
<1>7. ASSUME NEW d
      PROVE  Numbers(rest, d) = IF d \in {rows[i].dest : i \in 1..(m - 1)} THEN {} ELSE Numbers(rows, d)
  <2>1. CASE d \in {rows[i].dest : i \in 1..(m - 1)}
    <3>1. PICK i \in 1..(m - 1) : rows[i].dest = d
      BY <2>1
    <3>2. i \in DOMAIN rows
      BY <1>1
    <3>3. RowOf(rest, d) = {}
      BY <1>4, <3>1, <3>2 DEF RowOf, IsDict
    <3> QED BY <2>1, <3>3 DEF Numbers
  <2>2. CASE d \notin {rows[i].dest : i \in 1..(m - 1)}
    <3>1. \A i \in RowOf(rows, d) : i - m + 1 \in RowOf(rest, d) /\ rest[i - m + 1] = rows[i]
      BY <1>5, <2>2 DEF RowOf
    <3>2. \A i \in RowOf(rest, d) : m + i - 1 \in RowOf(rows, d) /\ rest[i] = rows[m + i - 1]
      BY <1>4 DEF RowOf
    <3>3. Numbers(rest, d) = Numbers(rows, d)
      BY <3>1, <3>2 DEF Numbers
    <3> QED BY <2>2, <3>3
  <2> QED BY <2>1, <2>2
<1> QED BY <1>2, <1>3, <1>6, <1>7 DEF rest

LEMMA OneRow ==
  ASSUME NEW r \in Row
  PROVE  /\ <<r>> \in Seq(Row) /\ IsDict(<<r>>) /\ Len(<<r>>) = 1 /\ Named(<<r>>) = {r.dest}
         /\ \A d : Numbers(<<r>>, d) = IF d = r.dest THEN {r.n} ELSE {}
<1>1. <<r>> \in Seq(Row) /\ Len(<<r>>) = 1 /\ DOMAIN <<r>> = {1} /\ <<r>>[1] = r
  OBVIOUS
<1> QED BY <1>1 DEF IsDict, Named, Numbers, RowOf

LEMMA NoRow ==
  /\ <<>> \in Seq(Row) /\ IsDict(<<>>) /\ Len(<<>>) = 0 /\ Named(<<>>) = {}
  /\ \A d : Numbers(<<>>, d) = {}
<1>1. <<>> \in Seq(Row) /\ Len(<<>>) = 0 /\ DOMAIN <<>> = {}
  OBVIOUS
<1> QED BY <1>1 DEF IsDict, Named, Numbers, RowOf

LEMMA RowFields ==
  ASSUME NEW rows \in Seq(Row)
  PROVE  /\ Named(rows) \subseteq Peers
         /\ \A i \in DOMAIN rows : rows[i].dest \in Peers /\ rows[i].n \in 0..MaxAnnounces
<1>1. DOMAIN rows = 1..Len(rows)
  BY LenProperties
<1>2. \A i \in DOMAIN rows : rows[i] \in Row
  BY <1>1, ElementOfSeq
<1>3. \A i \in DOMAIN rows : rows[i].dest \in Peers /\ rows[i].n \in 0..MaxAnnounces
  BY <1>2 DEF Row
<1> QED BY <1>3 DEF Named

--------------------------------------------------------------------------------
(* The journal *)

JournalSteps == {"idle", "defer", "store", "count", "trim", "write", "done"}

\* What is pending, stored or in hand has a row of a destination once; a thread that
\* delivers an announce has it in hand, one that writes nothing has no rows.
Shape ==
  /\ pending \in Seq(Row) /\ IsDict(pending) /\ Len(pending) <= MaxPending
  /\ db \in Seq(Row) /\ IsDict(db)
  /\ pc \in [Threads -> JournalSteps] /\ work \in [Threads -> Seq(Row)]
  /\ \A t \in Threads : IsDict(work[t])
  /\ \A j \in Jobs : pc[j] \in {"store", "defer"} => Len(work[j]) = 1
  /\ \A f \in Flushers : pc[f] # "write" => work[f] = <<>>
  /\ excess \in [Threads -> Nat] /\ stopped \in BOOLEAN
  /\ newest \in [Peers -> 0..MaxAnnounces]
  /\ gone \subseteq Peers /\ crossed \subseteq Peers /\ overlapped \subseteq Threads

\* The latest announce of d is the topmost of its rows, pending, taken and stored,
\* unless it was lost or an older one is to be written over it.
Fresh(d) == d \notin crossed =>
  /\ Numbers(work["loop"], d) = {} \/ Numbers(work["stop"], d) = {}
  /\ d \notin gone =>
       /\ Numbers(pending, d) \subseteq {newest[d]}
       /\ \A f \in Flushers : Numbers(pending, d) # {} \/ Numbers(work[f], d) \subseteq {newest[d]}
       /\ newest[d] > 0 => \/ Numbers(pending, d) # {}
                           \/ \E f \in Flushers : Numbers(work[f], d) # {}
                           \/ newest[d] \in Numbers(db, d)

AllFresh == \A d \in Peers : Fresh(d)

LEMMA WhoFlushes ==
  /\ Flushers = {"loop", "stop"} /\ Flushers \subseteq Threads /\ Jobs \subseteq Threads
  /\ Jobs \cap Flushers = {} /\ MaxPending \in Nat \ {0} /\ MaxStored \in Nat \ {0}
  /\ MaxAnnounces \in Nat /\ Protected \subseteq Peers
  BY JournalAssumption DEF Flushers, Threads

LEMMA LatestIsLatest ==
  ASSUME NEW d \in Peers, newest \in [Peers -> 0..MaxAnnounces]
  PROVE  Latest \in 0..MaxAnnounces
<1> DEFINE S == {newest[e] : e \in Peers}
           Top(n) == n \in S /\ \A e \in Peers : newest[e] <= n
           T == {m \in Nat : \E n \in S : m = MaxAnnounces - n}
<1>1. S \subseteq 0..MaxAnnounces /\ S # {} /\ MaxAnnounces \in Nat
  BY WhoFlushes
<1>2. T \subseteq Nat /\ T # {}
  <2>1. PICK n \in S : TRUE
    BY <1>1
  <2>2. MaxAnnounces - n \in T
    BY <1>1, <2>1
  <2> QED BY <2>2
<1>3. PICK m \in T : \A k \in T : <<k, m>> \notin OpToRel(<, Nat)
  <2> HIDE DEF T
  <2> QED BY <1>2, NatLessThanWellFounded, WFMin
<1>4. PICK n \in S : m = MaxAnnounces - n
  BY <1>3
<1>5. \A e \in Peers : newest[e] <= n
  <2> SUFFICES ASSUME NEW e \in Peers, ~(newest[e] <= n) PROVE FALSE
    OBVIOUS
  <2>1. newest[e] \in S /\ newest[e] \in 0..MaxAnnounces /\ n \in 0..MaxAnnounces
    BY <1>1
  <2>2. MaxAnnounces - newest[e] \in T /\ MaxAnnounces - newest[e] < m
    BY <1>1, <1>4, <2>1
  <2>3. <<MaxAnnounces - newest[e], m>> \in OpToRel(<, Nat)
    BY <1>2, <1>3, <2>2 DEF OpToRel
  <2> QED BY <1>3, <2>2, <2>3
<1>6. \E k \in S : \A e \in Peers : newest[e] <= k
  BY <1>4, <1>5
<1>7. Latest \in S
  BY <1>6 DEF Latest
<1> QED BY <1>1, <1>7

\* What a job stores or defers.
LEMMA Announced ==
  ASSUME Shape, NEW j \in Jobs, pc[j] \in {"store", "defer"}, Accepted(work[j][1].dest)
  PROVE  LET d == work[j][1].dest IN
         /\ d \in Peers /\ [dest |-> d, n |-> Latest + 1] \in Row
         /\ newest' \in [Peers -> 0..MaxAnnounces]
         /\ newest'[d] = Latest + 1 /\ newest'[d] > 0
         /\ \A e \in Peers : e # d => newest'[e] = newest[e]
<1> DEFINE d == work[j][1].dest
<1>1. d \in Peers
  <2>1. work[j] \in Seq(Row) /\ Len(work[j]) = 1
    BY WhoFlushes DEF Shape
  <2>2. 1 \in DOMAIN work[j]
    BY <2>1, LenProperties
  <2> QED BY <2>1, <2>2, RowFields
<1> HIDE DEF d
<1>2. Latest \in 0..MaxAnnounces
  BY <1>1, LatestIsLatest DEF Shape
<1>3. Latest < MaxAnnounces /\ newest' = [newest EXCEPT ![d] = Latest + 1]
  BY DEF Accepted, d
<1>4. Latest + 1 \in 0..MaxAnnounces /\ Latest + 1 > 0
  BY <1>2, <1>3, WhoFlushes
<1>5. newest \in [Peers -> 0..MaxAnnounces]
  BY DEF Shape
<1>6. newest' \in [Peers -> 0..MaxAnnounces] /\ newest'[d] = Latest + 1
      /\ \A e \in Peers : e # d => newest'[e] = newest[e]
  BY <1>1, <1>3, <1>4, <1>5
<1> QED BY <1>1, <1>4, <1>6 DEF Row, d

\* Dicts after Defer.
LEMMA DeferRows ==
  ASSUME Shape, NEW j \in Jobs, Defer(j)
  PROVE  LET d == work[j][1].dest IN
         /\ pending' \in Seq(Row) /\ IsDict(pending') /\ Len(pending') <= MaxPending
         /\ Numbers(pending', d) = {Latest + 1}
         /\ \A e \in Peers : \/ e = d \/ Numbers(pending', e) = Numbers(pending, e)
                             \/ e \in gone'
         /\ gone' \subseteq Peers /\ \A e \in gone : e # d => e \in gone'
<1> DEFINE d == work[j][1].dest  r == [dest |-> d, n |-> Latest + 1]  kept == Room(pending)
<1>1. /\ pc[j] = "defer" /\ Accepted(d) /\ pending' = Merged(kept, <<r>>)
      /\ gone' = (gone \cup {e \in Peers : RowOf(pending, e) # {} /\ RowOf(kept, e) = {}}) \ {d}
  BY DEF Defer
<1>2. d \in Peers /\ r \in Row
  BY <1>1, Announced
<1>3. r.dest = d /\ r.n = Latest + 1
  OBVIOUS
<1>4. /\ pending \in Seq(Row) /\ IsDict(pending) /\ Len(pending) <= MaxPending
      /\ Len(pending) \in Nat /\ gone \subseteq Peers /\ MaxPending \in Nat \ {0}
  BY LenProperties, WhoFlushes DEF Shape
<1> HIDE DEF d, r, kept
<1>5. /\ kept \in Seq(Row) /\ IsDict(kept) /\ Len(kept) + 1 <= MaxPending
      /\ \A e : Numbers(kept, e) = {} \/ Numbers(kept, e) = Numbers(pending, e)
  <2>1. CASE Len(pending) >= MaxPending
    <3>1. kept = Tail(pending)
      BY <2>1 DEF Room, kept
    <3>2. pending # <<>>
      BY <1>4, <2>1, NoRow
    <3>3. kept = SubSeq(pending, 2, Len(pending)) /\ 2 \in 1..(Len(pending) + 1)
      BY <1>4, <2>1, <3>1, <3>2, TailIsSubSeq
    <3>4. /\ kept \in Seq(Row) /\ IsDict(kept) /\ Len(kept) = Len(pending) - 2 + 1
          /\ \A e : Numbers(kept, e) = IF e \in {pending[i].dest : i \in 1..(2 - 1)}
                                           THEN {} ELSE Numbers(pending, e)
      BY <1>4, <3>3, SuffixRows
    <3> QED BY <1>4, <3>4
  <2>2. CASE ~(Len(pending) >= MaxPending)
    <3>1. kept = pending
      BY <2>2 DEF Room, kept
    <3> QED BY <1>4, <2>2, <3>1
  <2> QED BY <2>1, <2>2
<1>6. /\ <<r>> \in Seq(Row) /\ IsDict(<<r>>) /\ Len(<<r>>) = 1 /\ Named(<<r>>) = {d}
      /\ Numbers(<<r>>, d) = {Latest + 1}
  BY <1>2, <1>3, OneRow
<1>7. /\ pending' \in Seq(Row) /\ IsDict(pending') /\ Len(pending') <= Len(kept) + 1
      /\ \A e : Numbers(pending', e) = IF e \in {d} THEN Numbers(<<r>>, e) ELSE Numbers(kept, e)
  <2> DEFINE one == <<r>>
  <2>1. one \in Seq(Row) /\ IsDict(one) /\ Len(one) = 1 /\ Named(one) = {d}
    BY <1>6
  <2>2. pending' = Merged(kept, one)
    BY <1>1
  <2>3. \A e : Numbers(one, e) = Numbers(<<r>>, e)
    OBVIOUS
  <2> HIDE DEF one
  <2>4. /\ pending' \in Seq(Row) /\ IsDict(pending') /\ Len(pending') <= Len(kept) + Len(one)
        /\ \A e : Numbers(pending', e) = IF e \in Named(one) THEN Numbers(one, e)
                                                             ELSE Numbers(kept, e)
    <3> DEFINE all == Merged(kept, one)
    <3>1. /\ all \in Seq(Row) /\ IsDict(all) /\ Len(all) <= Len(kept) + Len(one)
          /\ \A e : Numbers(all, e) = IF e \in Named(one) THEN Numbers(one, e)
                                                           ELSE Numbers(kept, e)
      BY <1>5, <2>1, MergedRows
    <3> HIDE DEF all
    <3> QED BY <2>2, <3>1 DEF all
  <2> QED BY <2>1, <2>3, <2>4
<1>8. Len(pending') <= MaxPending
  BY <1>4, <1>5, <1>7, LenProperties
<1>9. Numbers(pending', d) = {Latest + 1}
  BY <1>6, <1>7
<1>10. ASSUME NEW e \in Peers, e # d, Numbers(pending', e) # Numbers(pending, e)
       PROVE  e \in gone'
  <2>1. Numbers(kept, e) = {} /\ Numbers(pending, e) # {}
    BY <1>5, <1>7, <1>10
  <2>2. RowOf(kept, e) = {} /\ RowOf(pending, e) # {}
    BY <2>1, SomeRow
  <2> QED BY <1>1, <1>10, <2>2
<1> QED BY <1>1, <1>4, <1>7, <1>8, <1>9, <1>10 DEF d

\* The table after a job stored its announce.
LEMMA StoreRows ==
  ASSUME Shape, NEW j \in Jobs, Store(j)
  PROVE  LET d == work[j][1].dest IN
         /\ db' \in Seq(Row) /\ IsDict(db') /\ Len(db') >= Len(db)
         /\ Numbers(db', d) = {Latest + 1}
         /\ \A e \in Peers : e # d => Numbers(db', e) = Numbers(db, e)
<1> DEFINE d == work[j][1].dest  r == [dest |-> d, n |-> Latest + 1]  one == <<r>>
<1>1. pc[j] = "store" /\ Accepted(d) /\ db' = MovedLast(db, one)
  BY DEF Store
<1>2. d \in Peers /\ r \in Row
  BY <1>1, Announced
<1>3. r.dest = d /\ r.n = Latest + 1
  OBVIOUS
<1>4. db \in Seq(Row) /\ IsDict(db)
  BY DEF Shape
<1> HIDE DEF d, r
<1>5. /\ one \in Seq(Row) /\ IsDict(one) /\ Named(one) = {d}
      /\ Numbers(one, d) = {Latest + 1}
  BY <1>2, <1>3, OneRow
<1> HIDE DEF one
<1> DEFINE all == MovedLast(db, one)
<1>6. /\ all \in Seq(Row) /\ IsDict(all) /\ Len(all) >= Len(db)
      /\ \A e : Numbers(all, e) = IF e \in Named(one) THEN Numbers(one, e) ELSE Numbers(db, e)
  BY <1>4, <1>5, MovedLastRows
<1>7. db' = all
  BY <1>1
<1> HIDE DEF all
<1> QED BY <1>5, <1>6, <1>7 DEF d

\* The table after a flush.
LEMMA CommitRows ==
  ASSUME Shape, NEW f \in Flushers, Commit(f)
  PROVE  /\ db' \in Seq(Row) /\ IsDict(db') /\ Len(db') >= Len(db)
         /\ \A e : Numbers(db', e) = IF Numbers(work[f], e) # {} THEN Numbers(work[f], e)
                                                               ELSE Numbers(db, e)
<1> DEFINE rows == work[f]  all == MovedLast(db, rows)
<1>1. db \in Seq(Row) /\ IsDict(db) /\ rows \in Seq(Row) /\ IsDict(rows)
  BY WhoFlushes DEF Shape
<1>2. db' = all
  BY DEF Commit
<1> HIDE DEF rows
<1>3. /\ all \in Seq(Row) /\ IsDict(all) /\ Len(all) >= Len(db)
      /\ \A e : Numbers(all, e) = IF e \in Named(rows) THEN Numbers(rows, e) ELSE Numbers(db, e)
  BY <1>1, MovedLastRows
<1> HIDE DEF all
<1>4. \A e : e \in Named(rows) <=> Numbers(rows, e) # {}
  BY SomeRow
<1> QED BY <1>2, <1>3, <1>4 DEF rows

\* The journal after a flush that failed.
LEMMA FailRows ==
  ASSUME Shape, NEW f \in Flushers, Fail(f)
  PROVE  /\ pending' \in Seq(Row) /\ IsDict(pending') /\ Len(pending') <= MaxPending
         /\ \A e : \/ e \in gone'
                  \/ Numbers(pending', e) = IF Numbers(pending, e) # {} THEN Numbers(pending, e)
                                                                     ELSE Numbers(work[f], e)
         /\ gone' \subseteq Peers /\ gone \subseteq gone'
<1> DEFINE rows == work[f]  all == Merged(rows, pending)
           cut == IF Len(all) > MaxPending THEN Len(all) - MaxPending ELSE 0
<1>1. pending \in Seq(Row) /\ IsDict(pending) /\ rows \in Seq(Row) /\ IsDict(rows) /\ gone \subseteq Peers
  BY WhoFlushes DEF Shape
<1>2. /\ pending' = SubSeq(all, cut + 1, Len(all))
      /\ gone' = gone \cup {all[i].dest : i \in 1..cut}
  BY DEF Fail, Requeued
<1> HIDE DEF rows
<1>3. /\ all \in Seq(Row) /\ IsDict(all)
      /\ \A e : Numbers(all, e) = IF e \in Named(pending) THEN Numbers(pending, e)
                                                          ELSE Numbers(rows, e)
  BY <1>1, MergedRows
<1> HIDE DEF all
<1>4. /\ cut \in Nat /\ cut + 1 \in 1..(Len(all) + 1) /\ (cut + 1) - 1 = cut
      /\ Len(all) \in Nat /\ Len(all) - cut <= MaxPending /\ 1..cut \subseteq DOMAIN all
  BY <1>3, LenProperties, WhoFlushes
<1> HIDE DEF cut
<1> DEFINE m == cut + 1  rest == SubSeq(all, m, Len(all))
<1>5. m \in 1..(Len(all) + 1) /\ m - 1 = cut /\ pending' = rest
  BY <1>2, <1>4
<1> HIDE DEF m
<1>6. /\ rest \in Seq(Row) /\ IsDict(rest) /\ Len(rest) = Len(all) - m + 1
      /\ \A e : Numbers(rest, e) = IF e \in {all[i].dest : i \in 1..(m - 1)}
                                       THEN {} ELSE Numbers(all, e)
  BY <1>3, <1>5, SuffixRows
<1> HIDE DEF rest
<1>7. Len(rest) <= MaxPending
  BY <1>4, <1>5, <1>6
<1>8. \A e : e \in gone' \/ Numbers(rest, e) = Numbers(all, e)
  BY <1>2, <1>5, <1>6
<1>9. gone' \subseteq Peers
  <2>1. \A i \in 1..cut : all[i].dest \in Peers
    BY <1>3, <1>4, RowFields
  <2> QED BY <1>1, <1>2, <2>1
<1>10. \A e : e \in Named(pending) <=> Numbers(pending, e) # {}
  BY SomeRow
<1> QED BY <1>2, <1>3, <1>5, <1>6, <1>7, <1>8, <1>9, <1>10 DEF rows

\* The table after a trim.
LEMMA TrimRows ==
  ASSUME Shape, NEW t \in Threads, Trim(t)
  PROVE  LET out == {db[i].dest : i \in Doomed(excess[t])} IN
         /\ db' \in Seq(Row) /\ IsDict(db') /\ Len(db') = Cardinality(Others(db, out))
         /\ gone' = gone \cup out /\ gone' \subseteq Peers
         /\ \A e : Numbers(db', e) = IF e \in out THEN {} ELSE Numbers(db, e)
         /\ Named(db') = Named(db) \ out
<1> DEFINE out == {db[i].dest : i \in Doomed(excess[t])}  rest == Without(db, out)
<1>1. db \in Seq(Row) /\ IsDict(db) /\ gone \subseteq Peers
  BY DEF Shape
<1>2. db' = rest /\ gone' = gone \cup out
  BY DEF Trim
<1>3. out \subseteq Peers
  BY <1>1, RowFields DEF Doomed, Others
<1> HIDE DEF out
<1>4. /\ rest \in Seq(Row) /\ IsDict(rest) /\ Len(rest) = Cardinality(Others(db, out))
      /\ \A e : Numbers(rest, e) = IF e \in out THEN {} ELSE Numbers(db, e)
      /\ Named(rest) = Named(db) \ out
  BY <1>1, WithoutRows
<1> HIDE DEF rest
<1> QED BY <1>1, <1>2, <1>3, <1>4 DEF out

LEMMA JournalStart == JournalInit => Shape /\ AllFresh
<1> SUFFICES ASSUME JournalInit PROVE Shape /\ AllFresh
  OBVIOUS
<1>1. Shape
  <2> DEFINE none == <<>>
  <2>1. none \in Seq(Row) /\ IsDict(none) /\ Len(none) = 0
    BY NoRow
  <2>2. /\ pending = none /\ db = none /\ work = [t \in Threads |-> none]
        /\ pc = [t \in Threads |-> "idle"] /\ excess = [t \in Threads |-> 0] /\ stopped = FALSE
        /\ newest = [d \in Peers |-> 0] /\ gone = {} /\ crossed = {} /\ overlapped = {}
    BY DEF JournalInit
  <2>3. \A f \in Flushers : work[f] = <<>>
    BY <2>2, WhoFlushes
  <2> HIDE DEF none
  <2>4. /\ pending \in Seq(Row) /\ IsDict(pending) /\ Len(pending) <= MaxPending
        /\ db \in Seq(Row) /\ IsDict(db)
    BY <2>1, <2>2, WhoFlushes
  <2>5. work \in [Threads -> Seq(Row)] /\ \A t \in Threads : IsDict(work[t])
    BY <2>1, <2>2
  <2>6. pc \in [Threads -> JournalSteps] /\ \A j \in Jobs : pc[j] \notin {"store", "defer"}
    BY <2>2, WhoFlushes DEF JournalSteps
  <2>7. excess \in [Threads -> Nat] /\ newest \in [Peers -> 0..MaxAnnounces]
    <3>1. 0 \in 0..MaxAnnounces
      BY WhoFlushes
    <3> QED BY <2>2, <3>1
  <2>8. stopped \in BOOLEAN
    BY DEF JournalInit
  <2> QED BY <2>2, <2>3, <2>4, <2>5, <2>6, <2>7, <2>8 DEF Shape
<1>2. ASSUME NEW d \in Peers PROVE Fresh(d)
  BY NoRow, WhoFlushes DEF JournalInit, Fresh
<1> QED BY <1>1, <1>2 DEF AllFresh

LEMMA ShapeStep == ASSUME Shape, [JournalNext]_journalVars PROVE Shape'
<1> USE WhoFlushes DEF JournalSteps
<1>1. ASSUME NEW j \in Jobs, NEW d \in Peers, Arrive(j, d) PROVE Shape'
  <2>1. [dest |-> d, n |-> 0] \in Row
    BY DEF Row
  <2> DEFINE one == <<[dest |-> d, n |-> 0]>>
  <2>2. one \in Seq(Row) /\ IsDict(one) /\ Len(one) = 1
    BY <2>1, OneRow
  <2>3. work' = [work EXCEPT ![j] = one]
    BY <1>1 DEF Arrive
  <2> HIDE DEF one
  <2>4. PICK p \in {"store", "defer"} : pc' = [pc EXCEPT ![j] = p]
    BY <1>1 DEF Arrive, Goto
  <2>5. UNCHANGED <<pending, db, excess, stopped, newest, gone, crossed, overlapped>>
    BY <1>1 DEF Arrive
  <2>6. work' \in [Threads -> Seq(Row)] /\ \A t \in Threads : IsDict(work'[t])
    BY <2>2, <2>3 DEF Shape
  <2>7. pc' \in [Threads -> JournalSteps]
    BY <2>4 DEF Shape
  <2>8. \A k \in Jobs : pc'[k] \in {"store", "defer"} => Len(work'[k]) = 1
    BY <2>2, <2>3, <2>4 DEF Shape
  <2>9. \A f \in Flushers : pc'[f] # "write" => work'[f] = <<>>
    BY <2>3, <2>4 DEF Shape
  <2> QED BY <2>5, <2>6, <2>7, <2>8, <2>9 DEF Shape
<1>2. ASSUME NEW j \in Jobs, Defer(j) PROVE Shape'
  <2>1. pending' \in Seq(Row) /\ IsDict(pending') /\ Len(pending') <= MaxPending /\ gone' \subseteq Peers
    BY <1>2, DeferRows
  <2>2. newest' \in [Peers -> 0..MaxAnnounces]
    BY <1>2, Announced DEF Defer
  <2> QED BY <1>2, <2>1, <2>2, NoRow DEF Defer, Goto, Shape
<1>3. ASSUME NEW j \in Jobs, Store(j) PROVE Shape'
  <2>1. db' \in Seq(Row) /\ IsDict(db')
    BY <1>3, StoreRows
  <2>2. newest' \in [Peers -> 0..MaxAnnounces] /\ work[j][1].dest \in Peers
    BY <1>3, Announced DEF Store
  <2>3. gone' \subseteq Peers /\ crossed' \subseteq Peers
    BY <1>3, <2>2 DEF Store, Shape
  <2> QED BY <1>3, <2>1, <2>2, <2>3, NoRow DEF Store, Goto, Shape
<1>4. ASSUME NEW t \in Threads, Count(t) PROVE Shape'
  <2>1. Over \in Nat
    BY LenProperties DEF Over, Shape
  <2> QED BY <1>4, <2>1 DEF Count, Goto, End, Shape
<1>5. ASSUME NEW t \in Threads, Trim(t) PROVE Shape'
  <2>1. db' \in Seq(Row) /\ IsDict(db') /\ gone' \subseteq Peers
    BY <1>5, TrimRows
  <2> QED BY <1>5, <2>1 DEF Trim, Goto, End, Shape
<1>6. ASSUME NEW f \in Flushers, Take(f) PROVE Shape'
  <2>1. crossed' \subseteq Peers
    BY <1>6 DEF Take, Shape
  <2> QED BY <1>6, <2>1, NoRow DEF Take, Goto, Shape
<1>7. ASSUME NEW f \in Flushers, Commit(f) PROVE Shape'
  <2>1. db' \in Seq(Row) /\ IsDict(db')
    BY <1>7, CommitRows
  <2> QED BY <1>7, <2>1, NoRow DEF Commit, Goto, Shape
<1>8. ASSUME NEW f \in Flushers, Fail(f) PROVE Shape'
  <2>1. pending' \in Seq(Row) /\ IsDict(pending') /\ Len(pending') <= MaxPending /\ gone' \subseteq Peers
    BY <1>8, FailRows
  <2>2. /\ work' = [work EXCEPT ![f] = <<>>] /\ Goto(f, End(f))
        /\ UNCHANGED <<db, newest, crossed, excess, stopped, overlapped>>
    BY <1>8 DEF Fail
  <2> QED BY <2>1, <2>2, NoRow DEF Goto, End, Shape
<1>9. CASE Stop \/ NothingToFlush
  BY <1>9 DEF Stop, NothingToFlush, Goto, Shape
<1>10. CASE UNCHANGED journalVars
  BY <1>10 DEF journalVars, Shape
<1> QED BY <1>1, <1>2, <1>3, <1>4, <1>5, <1>6, <1>7, <1>8, <1>9, <1>10 DEF JournalNext

LEMMA FreshStep == ASSUME Shape, AllFresh, [JournalNext]_journalVars PROVE AllFresh'
<1> SUFFICES ASSUME NEW e \in Peers PROVE Fresh(e)'
  BY DEF AllFresh
<1>0. Fresh(e)
  BY WhoFlushes DEF AllFresh
<1> USE WhoFlushes
<1>1. ASSUME NEW j \in Jobs, NEW d \in Peers, Arrive(j, d) PROVE Fresh(e)'
  <2>1. \A f \in Flushers : work'[f] = work[f]
    BY <1>1 DEF Arrive, Shape
  <2> QED BY <1>0, <1>1, <2>1 DEF Arrive, Fresh
<1>2. ASSUME NEW j \in Jobs, Defer(j) PROVE Fresh(e)'
  <2> DEFINE d == work[j][1].dest
  <2>1. /\ newest'[d] = Latest + 1 /\ d \in Peers /\ \A g \in Peers : g # d => newest'[g] = newest[g]
    BY <1>2, Announced DEF Defer
  <2>2. /\ Numbers(pending', d) = {Latest + 1}
        /\ \A g \in Peers : g = d \/ Numbers(pending', g) = Numbers(pending, g) \/ g \in gone'
        /\ \A g \in gone : g # d => g \in gone'
    BY <1>2, DeferRows
  <2>3. /\ \A f \in Flushers : work'[f] = work[f]
        /\ UNCHANGED <<db, crossed>>
    BY <1>2 DEF Defer, Shape
  <2> HIDE DEF d
  <2>4. CASE e = d
    BY <1>0, <2>1, <2>2, <2>3, <2>4 DEF Fresh
  <2>5. CASE e # d
    BY <1>0, <2>1, <2>2, <2>3, <2>5 DEF Fresh
  <2> QED BY <2>4, <2>5
<1>3. ASSUME NEW j \in Jobs, Store(j) PROVE Fresh(e)'
  <2> DEFINE d == work[j][1].dest
  <2>1. /\ newest'[d] = Latest + 1 /\ d \in Peers /\ \A g \in Peers : g # d => newest'[g] = newest[g]
    BY <1>3, Announced DEF Store
  <2>2. /\ Numbers(db', d) = {Latest + 1}
        /\ \A g \in Peers : g # d => Numbers(db', g) = Numbers(db, g)
    BY <1>3, StoreRows
  <2>3. /\ \A f \in Flushers : work'[f] = work[f]
        /\ UNCHANGED pending
        /\ crossed' = IF Waiting(d) # {} THEN crossed \cup {d} ELSE crossed \ {d}
        /\ gone' = gone \ {d}
    BY <1>3 DEF Store, Shape
  <2> HIDE DEF d
  <2>4. CASE e = d
    <3>1. CASE Waiting(d) # {}
      BY <2>3, <2>4, <3>1 DEF Fresh
    <3>2. CASE Waiting(d) = {}
      <4>1. Numbers(pending, d) = {} /\ \A f \in Flushers : Numbers(work[f], d) = {}
        BY <3>2 DEF Waiting
      <4> QED BY <2>1, <2>2, <2>3, <2>4, <4>1 DEF Fresh
    <3> QED BY <3>1, <3>2
  <2>5. CASE e # d
    <3>1. (e \in crossed' <=> e \in crossed) /\ (e \in gone' <=> e \in gone)
      BY <2>3, <2>5
    <3> QED BY <1>0, <2>1, <2>2, <2>3, <2>5, <3>1 DEF Fresh
  <2> QED BY <2>4, <2>5
<1>4. ASSUME NEW t \in Threads, Count(t) PROVE Fresh(e)'
  BY <1>0, <1>4 DEF Count, Fresh
<1>5. ASSUME NEW t \in Threads, Trim(t) PROVE Fresh(e)'
  <2>1. gone \subseteq gone' /\ (Numbers(db', e) = Numbers(db, e) \/ e \in gone')
    BY <1>5, TrimRows
  <2>2. UNCHANGED <<pending, work, newest, crossed>>
    BY <1>5 DEF Trim
  <2> QED BY <1>0, <2>1, <2>2 DEF Fresh
<1>6. ASSUME NEW f \in Flushers, Take(f) PROVE Fresh(e)'
  <2>1. /\ work'[f] = pending /\ \A g \in Flushers \ {f} : work'[g] = work[g]
        /\ pending' = <<>> /\ work[f] = <<>> /\ UNCHANGED <<db, newest, gone>>
    BY <1>6 DEF Take, Shape
  <2>2. crossed \subseteq crossed'
    BY <1>6 DEF Take
  <2>3. e \notin crossed' =>
          Numbers(pending, e) = {} \/ \A g \in Flushers \ {f} : Numbers(work[g], e) = {}
    BY <1>6, SomeRow DEF Take
  <2>4. Numbers(pending', e) = {} /\ Numbers(work[f], e) = {}
    BY <2>1, NoRow
  <2>5. CASE f = "loop"
    BY <1>0, <2>1, <2>2, <2>3, <2>4, <2>5 DEF Fresh
  <2>6. CASE f = "stop"
    BY <1>0, <2>1, <2>2, <2>3, <2>4, <2>6 DEF Fresh
  <2> QED BY <2>5, <2>6
<1>7. ASSUME NEW f \in Flushers, Commit(f) PROVE Fresh(e)'
  <2>1. Numbers(db', e) = IF Numbers(work[f], e) # {} THEN Numbers(work[f], e) ELSE Numbers(db, e)
    BY <1>7, CommitRows
  <2>2. /\ work'[f] = <<>> /\ \A g \in Flushers \ {f} : work'[g] = work[g]
        /\ UNCHANGED <<pending, newest, gone, crossed>>
    BY <1>7 DEF Commit, Shape
  <2>3. Numbers(work'[f], e) = {}
    BY <2>2, NoRow
  <2>5. CASE f = "loop"
    BY <1>0, <2>1, <2>2, <2>3, <2>5 DEF Fresh
  <2>6. CASE f = "stop"
    BY <1>0, <2>1, <2>2, <2>3, <2>6 DEF Fresh
  <2> QED BY <2>5, <2>6
<1>8. ASSUME NEW f \in Flushers, Fail(f) PROVE Fresh(e)'
  <2>1. /\ \/ e \in gone'
           \/ Numbers(pending', e) = IF Numbers(pending, e) # {} THEN Numbers(pending, e)
                                                              ELSE Numbers(work[f], e)
        /\ gone \subseteq gone'
    BY <1>8, FailRows
  <2>2. /\ work'[f] = <<>> /\ \A g \in Flushers \ {f} : work'[g] = work[g]
        /\ UNCHANGED <<db, newest, crossed>>
    BY <1>8 DEF Fail, Shape
  <2>3. Numbers(work'[f], e) = {}
    BY <2>2, NoRow
  <2>5. CASE f = "loop"
    BY <1>0, <2>1, <2>2, <2>3, <2>5 DEF Fresh
  <2>6. CASE f = "stop"
    BY <1>0, <2>1, <2>2, <2>3, <2>6 DEF Fresh
  <2> QED BY <2>5, <2>6
<1>9. CASE Stop \/ NothingToFlush
  BY <1>0, <1>9 DEF Stop, NothingToFlush, Fresh
<1>10. CASE UNCHANGED journalVars
  BY <1>0, <1>10 DEF journalVars, Fresh
<1> QED BY <1>1, <1>2, <1>3, <1>4, <1>5, <1>6, <1>7, <1>8, <1>9, <1>10 DEF JournalNext

--------------------------------------------------------------------------------
(* Trims *)

\* A trim that was not overtaken finds the rows it counted.
Roomy == \A t \in Threads : pc[t] = "trim" /\ t \notin overlapped => MaxStored + excess[t] <= Len(db)

\* A table that is too long has a thread that is about to count it, or one that has
\* counted enough rows.
SoonBounded ==
  \/ \E t \in Threads : pc[t] = "count"
  \/ Len(db) <= MaxStored
  \/ Named(db) \subseteq Protected
  \/ \E t \in Threads : pc[t] = "trim" /\ Len(db) <= MaxStored + excess[t]

\* How many rows a trim takes.
LEMMA TrimTakes ==
  ASSUME Shape, NEW t \in Threads, Trim(t)
  PROVE  \E c \in Nat :
           /\ c <= excess[t] /\ c <= Len(db) /\ Len(db') = Len(db) - c
           /\ c = excess[t] \/ Named(db') \subseteq Protected
           /\ c > 0 => \A u \in Threads : pc[u] = "trim" /\ u # t => u \in overlapped'
<1> DEFINE open == Others(db, Protected)  D == Doomed(excess[t])
           out == {db[i].dest : i \in D}
           c == Cardinality(D)
<1>1. /\ db \in Seq(Row) /\ IsDict(db) /\ excess[t] \in Nat
  BY DEF Shape
<1>2. open \subseteq DOMAIN db
  BY DEF Others
<1>3. /\ Len(db) \in Nat /\ DOMAIN db = 1..Len(db)
      /\ IsFiniteSet(open) /\ open \subseteq Nat /\ Cardinality(open) \in Nat
  <2> HIDE DEF open
  <2> QED BY <1>1, <1>2, PlacesFinite
<1>4. /\ IsFiniteSet(D) /\ D \subseteq open
      /\ c = IF excess[t] < Cardinality(open) THEN excess[t] ELSE Cardinality(open)
  <2>1. D = {i \in open : Rank(open, i) <= excess[t]}
    BY DEF Doomed
  <2> HIDE DEF open, D
  <2>2. LET first == {i \in open : Rank(open, i) <= excess[t]} IN
        /\ IsFiniteSet(first) /\ first \subseteq open
        /\ Cardinality(first) = IF excess[t] < Cardinality(open) THEN excess[t] ELSE Cardinality(open)
    BY <1>1, <1>3, FirstPlaces
  <2> QED BY <2>1, <2>2
<1>5. Others(db, out) = (DOMAIN db) \ D
  <2>1. ASSUME NEW i \in DOMAIN db PROVE db[i].dest \in out <=> i \in D
    <3>1. \A k \in D : k \in DOMAIN db
      BY <1>2, <1>4
    <3> HIDE DEF D
    <3> QED BY <1>1, <3>1 DEF IsDict
  <2> QED BY <2>1 DEF Others
<1>6. /\ Len(db') = Cardinality(Others(db, out))
      /\ Named(db') = Named(db) \ out
  BY TrimRows
<1>7. IsFiniteSet(DOMAIN db) /\ Cardinality(DOMAIN db) = Len(db)
  <2>1. \A n \in Nat : IsFiniteSet(1..n) /\ Cardinality(1..n) = IF 1 > n THEN 0 ELSE n - 1 + 1
    BY FS_Interval
  <2> HIDE DEF open, D, out, c
  <2> QED BY <1>3, <2>1
<1>8. overlapped' = (overlapped \cup (IF out = {} THEN {} ELSE {u \in Threads : pc[u] = "trim"})) \ {t}
  BY DEF Trim
<1>9. out = {} => D = {}
  OBVIOUS
<1>10. c = excess[t] \/ Named(db') \subseteq Protected
  <2>1. CASE c = excess[t]
    BY <2>1
  <2>2. CASE c # excess[t]
    <3>1. c = Cardinality(open)
      BY <1>4, <2>2
    <3>2. D = open
      <4> HIDE DEF D, open
      <4> QED BY <1>3, <1>4, <3>1, FS_Subset DEF c
    <3>3. \A i \in DOMAIN db : db[i].dest \notin Protected => db[i].dest \in out
      BY <3>2 DEF Others
    <3> QED BY <1>6, <3>3 DEF Named
  <2> QED BY <2>1, <2>2
<1> HIDE DEF open, D, out
<1>11. D \in SUBSET (DOMAIN db)
  BY <1>2, <1>4
<1>12. (DOMAIN db) \cap D = D
  BY <1>11
<1>13. Cardinality((DOMAIN db) \ D) = Cardinality(DOMAIN db) - Cardinality(D)
  <2>1. Cardinality((DOMAIN db) \ D) = Cardinality(DOMAIN db) - Cardinality((DOMAIN db) \cap D)
    BY <1>7, FS_Difference
  <2> QED BY <1>12, <2>1
<1>14. c \in Nat /\ c <= Len(db)
  BY <1>4, <1>7, <1>11, FS_Subset, FS_CardinalityType
<1>15. Len(db') = Len(db) - c
  BY <1>5, <1>6, <1>7, <1>13
<1>16. c <= excess[t]
  BY <1>1, <1>3, <1>4
<1>17. c > 0 => out # {}
  BY <1>9, FS_EmptySet
<1> HIDE DEF c
<1> QED BY <1>8, <1>10, <1>14, <1>15, <1>16, <1>17

LEMMA LooseRows ==
  ASSUME NEW rows
  PROVE  Named(rows) \subseteq Protected <=> \A i \in DOMAIN rows : rows[i].dest \in Protected
  BY DEF Named

LEMMA TrimStart == JournalInit => Roomy /\ SoonBounded
  BY NoRow, WhoFlushes DEF JournalInit, Roomy, SoonBounded

LEMMA TrimStep ==
  ASSUME Shape, Roomy, SoonBounded, [JournalNext]_journalVars
  PROVE  Roomy' /\ SoonBounded'
<1>0. /\ Len(db) \in Nat /\ MaxStored \in Nat /\ excess \in [Threads -> Nat]
      /\ pc \in [Threads -> JournalSteps] /\ Jobs \subseteq Threads /\ Flushers \subseteq Threads
  BY LenProperties, WhoFlushes DEF Shape
<1>1. ASSUME NEW j \in Jobs, NEW d \in Peers, Arrive(j, d) PROVE Roomy' /\ SoonBounded'
  <2>1. UNCHANGED <<db, excess, overlapped>> /\ pc[j] = "idle"
    BY <1>1 DEF Arrive
  <2>2. pc' \in [Threads -> JournalSteps] /\ pc'[j] # "trim"
        /\ \A t \in Threads : t # j => pc'[t] = pc[t]
    BY <1>0, <1>1 DEF Arrive, Goto, JournalSteps
  <2> QED BY <1>0, <2>1, <2>2 DEF Roomy, SoonBounded
<1>2. ASSUME NEW j \in Jobs, Defer(j) PROVE Roomy' /\ SoonBounded'
  <2>1. UNCHANGED <<db, excess, overlapped>> /\ pc[j] = "defer" /\ pc' = [pc EXCEPT ![j] = "idle"]
    BY <1>2 DEF Defer, Goto
  <2>2. pc'[j] # "trim" /\ \A t \in Threads : t # j => pc'[t] = pc[t]
    BY <1>0, <2>1
  <2> QED BY <1>0, <2>1, <2>2 DEF Roomy, SoonBounded
<1>3. ASSUME NEW t \in Threads, Len(db') \in Nat, Len(db') >= Len(db), UNCHANGED <<excess, overlapped>>,
             Goto(t, "count")
      PROVE  Roomy' /\ SoonBounded'
  <2>1. pc'[t] = "count" /\ \A u \in Threads : u # t => pc'[u] = pc[u]
    BY <1>0, <1>3 DEF Goto
  <2> QED BY <1>0, <1>3, <2>1 DEF Roomy, SoonBounded
<1>4. ASSUME NEW j \in Jobs, Store(j) PROVE Roomy' /\ SoonBounded'
  <2>1. db' \in Seq(Row) /\ Len(db') >= Len(db)
    BY <1>4, StoreRows
  <2>2. UNCHANGED <<excess, overlapped>> /\ Goto(j, "count")
    BY <1>4 DEF Store
  <2> QED BY <1>0, <1>3, <2>1, <2>2, LenProperties
<1>5. ASSUME NEW f \in Flushers, Commit(f) PROVE Roomy' /\ SoonBounded'
  <2>1. db' \in Seq(Row) /\ Len(db') >= Len(db)
    BY <1>5, CommitRows
  <2>2. UNCHANGED <<excess, overlapped>> /\ Goto(f, "count")
    BY <1>5 DEF Commit
  <2> QED BY <1>0, <1>3, <2>1, <2>2, LenProperties
<1>6. ASSUME NEW t \in Threads, Count(t) PROVE Roomy' /\ SoonBounded'
  <2>1. /\ UNCHANGED db /\ excess' = [excess EXCEPT ![t] = Over] /\ overlapped' = overlapped \ {t}
        /\ pc' = [pc EXCEPT ![t] = IF Over > 0 THEN "trim" ELSE End(t)]
    BY <1>6 DEF Count, Goto
  <2>2. /\ Over \in Nat /\ Len(db) <= MaxStored + Over
        /\ Over > 0 => MaxStored + Over = Len(db)
        /\ ~(Over > 0) => Len(db) <= MaxStored
    BY <1>0 DEF Over
  <2>3. /\ excess'[t] = Over
        /\ Over > 0 => pc'[t] = "trim"
        /\ ~(Over > 0) => pc'[t] # "trim"
        /\ \A u \in Threads : u # t => pc'[u] = pc[u] /\ excess'[u] = excess[u]
    BY <1>0, <2>1 DEF End
  <2>4. \A u \in Threads : u # t => (u \in overlapped' <=> u \in overlapped)
    BY <2>1
  <2>5. Roomy'
    BY <1>0, <2>1, <2>2, <2>3, <2>4 DEF Roomy
  <2>6. SoonBounded'
    <3>1. CASE Over > 0
      BY <1>0, <2>1, <2>2, <2>3, <3>1 DEF SoonBounded
    <3>2. CASE ~(Over > 0)
      BY <2>1, <2>2, <3>2 DEF SoonBounded
    <3> QED BY <3>1, <3>2
  <2> QED BY <2>5, <2>6
<1>7. ASSUME NEW t \in Threads, Trim(t) PROVE Roomy' /\ SoonBounded'
  <2>1. PICK c \in Nat :
           /\ c <= excess[t] /\ c <= Len(db) /\ Len(db') = Len(db) - c
           /\ c = excess[t] \/ Named(db') \subseteq Protected
           /\ c > 0 => \A u \in Threads : pc[u] = "trim" /\ u # t => u \in overlapped'
    BY <1>7, TrimTakes
  <2>2. /\ pc[t] = "trim" /\ pc' = [pc EXCEPT ![t] = End(t)] /\ excess' = [excess EXCEPT ![t] = 0]
        /\ overlapped \ {t} \subseteq overlapped'
    BY <1>7 DEF Trim, Goto
  <2>3. /\ pc'[t] # "trim" /\ pc'[t] # "count"
        /\ \A u \in Threads : u # t => pc'[u] = pc[u] /\ excess'[u] = excess[u]
    BY <1>0, <2>2 DEF End
  <2>4. Named(db') \subseteq Named(db)
    BY <1>7, TrimRows
  <2>5. Roomy'
    <3> SUFFICES ASSUME NEW u \in Threads, pc'[u] = "trim", u \notin overlapped'
                 PROVE  MaxStored + excess'[u] <= Len(db')
      BY DEF Roomy
    <3>1. u # t /\ pc[u] = "trim" /\ u \notin overlapped /\ excess'[u] = excess[u]
      BY <2>2, <2>3
    <3>2. c = 0
      BY <2>1, <3>1
    <3> QED BY <1>0, <2>1, <3>1, <3>2 DEF Roomy
  <2>6. SoonBounded'
    <3>1. CASE \E u \in Threads : pc[u] = "count"
      BY <2>2, <2>3, <3>1 DEF SoonBounded
    <3>2. CASE Len(db) <= MaxStored
      BY <1>0, <2>1, <3>2 DEF SoonBounded
    <3>3. CASE Named(db) \subseteq Protected
      BY <2>4, <3>3 DEF SoonBounded
    <3>4. ASSUME NEW u \in Threads, pc[u] = "trim", Len(db) <= MaxStored + excess[u]
          PROVE  SoonBounded'
      <4>1. CASE u = t
        <5>1. c = excess[t] => Len(db') <= MaxStored
          BY <1>0, <2>1, <3>4, <4>1
        <5> QED BY <2>1, <5>1 DEF SoonBounded
      <4>2. CASE u # t
        <5>1. pc'[u] = "trim" /\ Len(db') <= MaxStored + excess'[u]
          BY <1>0, <2>1, <2>3, <3>4, <4>2
        <5> QED BY <5>1 DEF SoonBounded
      <4> QED BY <4>1, <4>2
    <3> QED BY <3>1, <3>2, <3>3, <3>4 DEF SoonBounded
  <2> QED BY <2>5, <2>6
<1>8. ASSUME NEW f \in Flushers, Take(f) \/ Fail(f) PROVE Roomy' /\ SoonBounded'
  <2>1. UNCHANGED <<db, excess, overlapped>> /\ pc[f] \notin {"count", "trim"}
    BY <1>8 DEF Take, Fail
  <2>2. PICK p \in {"write", "idle", "done"} : pc' = [pc EXCEPT ![f] = p]
    BY <1>8 DEF Take, Fail, Goto, End
  <2>3. pc'[f] \notin {"count", "trim"} /\ \A t \in Threads : t # f => pc'[t] = pc[t]
    BY <1>0, <2>2
  <2> QED BY <1>0, <2>1, <2>3 DEF Roomy, SoonBounded
<1>9. CASE NothingToFlush
  <2>1. UNCHANGED <<db, excess, overlapped>> /\ pc["stop"] = "idle" /\ pc' = [pc EXCEPT !["stop"] = "done"]
    BY <1>9 DEF NothingToFlush, Goto
  <2>2. pc'["stop"] \notin {"count", "trim"} /\ \A t \in Threads : t # "stop" => pc'[t] = pc[t]
    BY <1>0, <2>1, WhoFlushes
  <2> QED BY <1>0, <2>1, <2>2 DEF Roomy, SoonBounded
<1>10. CASE Stop \/ UNCHANGED journalVars
  BY <1>10 DEF Stop, journalVars, Roomy, SoonBounded
<1> QED BY <1>1, <1>2, <1>4, <1>5, <1>6, <1>7, <1>8, <1>9, <1>10 DEF JournalNext

JournalIInv == Shape /\ AllFresh /\ Roomy /\ SoonBounded

\* What the journal, the table and the rows under way have of each destination, and
\* what the threads that trim know of the table.
THEOREM JournalInductive == JournalSpec => []JournalIInv
<1>1. JournalInit => JournalIInv
  BY JournalStart, TrimStart DEF JournalIInv
<1>2. JournalIInv /\ [JournalNext]_journalVars => JournalIInv'
  BY ShapeStep, FreshStep, TrimStep DEF JournalIInv
<1> QED BY <1>1, <1>2, PTL DEF JournalSpec

\* The latest announce of a destination is in the journal, on its way or in the table,
\* unless it was dropped over the cap, trimmed, or stored past an older one that was
\* still to be written (upsert_announce, flush_pending).
THEOREM TheLatestIsKept == JournalSpec => []FreshestKept
<1>1. JournalIInv => FreshestKept
  <2> SUFFICES ASSUME JournalIInv, NEW d \in Peers, newest[d] > 0,
                      newest[d] \notin Waiting(d) \cup Numbers(db, d), d \notin gone \cup crossed
               PROVE  FALSE
    BY DEF FreshestKept
  <2>1. Fresh(d) /\ newest[d] \notin Numbers(db, d)
    BY DEF JournalIInv, AllFresh
  <2>2. newest[d] \notin Numbers(pending, d) /\ \A f \in Flushers : newest[d] \notin Numbers(work[f], d)
    BY DEF Waiting
  <2> QED BY <2>1, <2>2 DEF Fresh
<1> QED BY <1>1, JournalInductive, PTL

\* When nobody is about to trim, the table holds what the limit allows, or only rows
\* that are protected (trim_announces_for_aspect).
THEOREM TheTableIsBounded == JournalSpec => []TableBounded
<1>1. JournalIInv => TableBounded
  BY LooseRows DEF JournalIInv, SoonBounded, TableBounded
<1> QED BY <1>1, JournalInductive, PTL

\* A trim leaves what the limit allows, unless another one ran since it counted: the
\* SELECT and the DELETE of trim_announces_for_aspect are two statements.
THEOREM TrimsSpare == JournalSpec => TrimSpares
<1>1. JournalIInv => \A t \in Threads : Trim(t) /\ t \notin overlapped => Len(db') >= MaxStored
  <2> SUFFICES ASSUME JournalIInv, NEW t \in Threads, Trim(t), t \notin overlapped
               PROVE  Len(db') >= MaxStored
    OBVIOUS
  <2>1. PICK c \in Nat : c <= excess[t] /\ Len(db') = Len(db) - c
    BY TrimTakes DEF JournalIInv
  <2>2. /\ MaxStored + excess[t] <= Len(db) /\ excess[t] \in Nat /\ Len(db) \in Nat /\ MaxStored \in Nat
    BY LenProperties, WhoFlushes DEF JournalIInv, Roomy, Shape, Trim
  <2> QED BY <2>1, <2>2
<1> QED BY <1>1, JournalInductive, PTL DEF JournalSpec, TrimSpares

--------------------------------------------------------------------------------
(* Both together *)

LEMMA ShapeIsTyped == Shape => JournalTypeOK
<1> SUFFICES ASSUME Shape PROVE JournalTypeOK
  OBVIOUS
<1>1. ASSUME NEW rows, IsDict(rows), NEW d PROVE Cardinality(RowOf(rows, d)) <= 1
  <2>1. \A i, k \in RowOf(rows, d) : i = k
    BY <1>1 DEF RowOf, IsDict
  <2>2. RowOf(rows, d) = {} \/ \E i : RowOf(rows, d) = {i}
    BY <2>1
  <2>3. CASE RowOf(rows, d) = {}
    BY <2>3, FS_EmptySet
  <2>4. ASSUME NEW i, RowOf(rows, d) = {i} PROVE Cardinality(RowOf(rows, d)) <= 1
    BY <2>4, FS_Singleton
  <2> QED BY <2>2, <2>3, <2>4
<1> QED BY <1>1 DEF Shape, JournalSteps, JournalTypeOK

LEMMA SetsTyped == ASSUME SetsTypeOK, [SetsNext]_setVars PROVE SetsTypeOK'
<1> USE DEF SetsTypeOK
<1>1. ASSUME NEW r \in Readers, NEW d \in Dests, Look(r, d) PROVE SetsTypeOK'
  BY <1>1 DEF Look, Move
<1>2. ASSUME NEW r \in Readers, Install(r) PROVE SetsTypeOK'
  <2>1. blocked' \subseteq Dests /\ loaded' \in {"never", "fresh", "old"} /\ stale' \in BOOLEAN
    <3>1. CASE Unreadable
      BY <3>1 DEF Unreadable
    <3>2. CASE blocked' = snap[r] /\ loaded' = "fresh" /\ stale' = (r \in raced)
      BY <3>2
    <3> QED BY <1>2, <3>1, <3>2 DEF Install
  <2> QED BY <1>2, <2>1 DEF Install, Move
<1>3. ASSUME NEW r \in Readers, Classify(r) PROVE SetsTypeOK'
  <2>1. \A d, ok : Passes(d, ok) \in BOOLEAN
    BY DEF Passes
  <2>2. verdict' \in [dest : Dests, through : BOOLEAN]
    BY <1>3, <2>1 DEF Classify
  <2> QED BY <1>3, <2>2 DEF Classify, Move
<1>4. ASSUME NEW d \in Dests, Ban(d) \/ Lift(d) PROVE SetsTypeOK'
  BY <1>4 DEF Ban, Lift
<1>5. CASE Invalidate
  BY <1>5 DEF Invalidate, Forgotten
<1>6. CASE Expire
  BY <1>6 DEF Expire
<1>7. CASE UNCHANGED setVars
  BY <1>7 DEF setVars
<1> QED BY <1>1, <1>2, <1>3, <1>4, <1>5, <1>6, <1>7 DEF SetsNext

\* The caches, the journal and the table are what their types say, and the journal
\* never holds more rows than its cap (upsert_announce, flush_pending).
THEOREM Types == Spec => []TypeOK
<1>1. Init => SetsTypeOK /\ Shape
  <2> SUFFICES ASSUME Init PROVE SetsTypeOK /\ Shape
    OBVIOUS
  <2>1. PICK d \in Dests : /\ subject = [r \in Readers |-> d]
                          /\ verdict = [dest |-> d, through |-> FALSE]
    BY DEF Init, SetsInit
  <2>2. SetsTypeOK
    BY <2>1 DEF Init, SetsInit, SetsTypeOK
  <2> QED BY <2>2, JournalStart DEF Init
<1>2. SetsTypeOK /\ Shape /\ [Next]_vars => (SetsTypeOK /\ Shape)'
  <2>1. [Next]_vars => [SetsNext]_setVars /\ [JournalNext]_journalVars
    BY DEF Next, vars
  <2> QED BY <2>1, SetsTyped, ShapeStep
<1>3. SetsTypeOK /\ Shape => TypeOK
  BY ShapeIsTyped DEF TypeOK
<1> QED BY <1>1, <1>2, <1>3, PTL DEF Spec
=============================================================================
