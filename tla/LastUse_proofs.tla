----------------------------- MODULE LastUse_proofs -----------------------------
(***************************************************************************)
(* The order of last use stays a total order of the keys that have a time,  *)
(* and what is evicted brings a cache back to its cap.                      *)
(***************************************************************************)
EXTENDS LastUse, FiniteSetTheorems, WellFoundedInduction, TLAPS

LEMMA StampedOnes ==
  ASSUME NEW uses, Ordered(uses), NEW k
  PROVE  k \in Stamped(uses) <=> <<k, k>> \in uses
  BY DEF Stamped, Ordered

\* A lookup that hits leaves an order, with the key as the last used one.
LEMMA TouchOrders ==
  ASSUME NEW Keys, NEW uses \in SUBSET (Keys \X Keys), Ordered(uses), NEW k \in Keys
  PROVE  /\ Touch(uses, k) \subseteq Keys \X Keys /\ Ordered(Touch(uses, k))
         /\ Stamped(Touch(uses, k)) = Stamped(uses) \cup {k}
<1> DEFINE new == Touch(uses, k)
<1>1. \A m, l : <<m, l>> \in new <=>
        \/ <<m, l>> \in uses /\ m # k /\ l # k
        \/ l = k /\ m \in Stamped(uses) \cup {k}
  BY DEF Touch
<1>2. \A p \in new : p = <<p[1], p[2]>> /\ p \in Keys \X Keys
  BY DEF Touch, Stamped
<1>3. \A m : m \in Stamped(new) <=> \E l : <<m, l>> \in new
  BY <1>2 DEF Stamped
<1>4. \A m : m \in Stamped(uses) <=> \E l : <<m, l>> \in uses
  <2>1. \A p \in uses : p = <<p[1], p[2]>>
    OBVIOUS
  <2> QED BY <2>1 DEF Stamped
<1>5. Stamped(new) = Stamped(uses) \cup {k}
  BY <1>1, <1>3, <1>4, StampedOnes
<1> HIDE DEF new
<1>6. \A p \in new : p[2] \in Stamped(new)
  BY <1>1, <1>2, <1>5 DEF Ordered
<1>7. ASSUME NEW m \in Stamped(new), NEW l \in Stamped(new)
      PROVE  /\ <<m, l>> \in new \/ <<l, m>> \in new
             /\ <<m, l>> \in new /\ <<l, m>> \in new => m = l
  BY <1>1, <1>5, <1>7 DEF Ordered
<1>8. \A m, l, n \in Stamped(new) : <<m, l>> \in new /\ <<l, n>> \in new => <<m, n>> \in new
  BY <1>1, <1>5 DEF Ordered
<1>9. Ordered(new)
  BY <1>6, <1>7, <1>8 DEF Ordered
<1> QED BY <1>2, <1>5, <1>9 DEF new

\* ... and so does a key that loses its time.
LEMMA ForgetOrders ==
  ASSUME NEW Keys, NEW uses \in SUBSET (Keys \X Keys), Ordered(uses), NEW K
  PROVE  /\ Forget(uses, K) \subseteq Keys \X Keys /\ Ordered(Forget(uses, K))
         /\ Stamped(Forget(uses, K)) = Stamped(uses) \ K
<1> DEFINE new == Forget(uses, K)
<1>1. \A m, l : <<m, l>> \in new <=> <<m, l>> \in uses /\ m \notin K /\ l \notin K
  BY DEF Forget
<1>2. \A p \in new : p = <<p[1], p[2]>> /\ p \in Keys \X Keys
  BY DEF Forget
<1>3. \A m : m \in Stamped(new) <=> \E l : <<m, l>> \in new
  BY <1>2 DEF Stamped
<1>4. \A m : m \in Stamped(uses) <=> \E l : <<m, l>> \in uses
  <2>1. \A p \in uses : p = <<p[1], p[2]>>
    OBVIOUS
  <2> QED BY <2>1 DEF Stamped
<1>5. Stamped(new) = Stamped(uses) \ K
  BY <1>1, <1>3, <1>4, StampedOnes
<1> HIDE DEF new
<1>6. \A p \in new : p[2] \in Stamped(new)
  BY <1>1, <1>2, <1>5 DEF Ordered
<1>7. ASSUME NEW m \in Stamped(new), NEW l \in Stamped(new)
      PROVE  /\ <<m, l>> \in new \/ <<l, m>> \in new
             /\ <<m, l>> \in new /\ <<l, m>> \in new => m = l
  BY <1>1, <1>5, <1>7 DEF Ordered
<1>8. \A m, l, n \in Stamped(new) : <<m, l>> \in new /\ <<l, n>> \in new => <<m, n>> \in new
  BY <1>1, <1>5 DEF Ordered
<1>9. Ordered(new)
  BY <1>6, <1>7, <1>8 DEF Ordered
<1> QED BY <1>2, <1>5, <1>9 DEF new

\* Of some keys one was used first.
LEMMA FirstUsed ==
  ASSUME NEW uses, Ordered(uses), NEW K, IsFiniteSet(K), K # {}
  PROVE  \E k \in K : {m \in K : Earlier(uses, m, k)} = {}
<1> DEFINE Before(k) == {m \in K : Earlier(uses, m, k)}
           T == {Before(k) : k \in K}
<1>1. IsWellFoundedOn(StrictSubsetOrdering(K), SUBSET K)
  BY FS_StrictSubsetOrderingWellFounded, FS_FiniteSubsetsOfFinite
<1>2. T \subseteq SUBSET K /\ T # {}
  OBVIOUS
<1>3. PICK x \in T : \A y \in T : <<y, x>> \notin StrictSubsetOrdering(K)
  <2> HIDE DEF T
  <2> QED BY <1>1, <1>2, WFMin
<1>4. PICK k \in K : x = Before(k)
  BY <1>3
<1>5. ASSUME NEW m \in Before(k) PROVE FALSE
  <2>1. ASSUME NEW l \in Before(m) PROVE l \in Before(k)
    <3>1. <<k, l>> \in uses => l \in Stamped(uses)
      <4> DEFINE p == <<k, l>>
      <4>1. p \in uses => p[2] \in Stamped(uses)
        BY DEF Ordered
      <4> QED BY <4>1
    <3> QED BY <1>5, <2>1, <3>1 DEF Earlier, Ordered
  <2>2. m \notin Before(m)
    BY <1>5, StampedOnes DEF Earlier
  <2>3. <<Before(m), Before(k)>> \in StrictSubsetOrdering(K)
    BY <2>1, <2>2, <1>5 DEF StrictSubsetOrdering
  <2> QED BY <1>3, <1>4, <2>3, <1>5
<1> QED BY <1>4, <1>5

\* An eviction for one key too many takes a key out, and leaves the cap.
LEMMA EvictionLeavesCap ==
  ASSUME NEW uses, Ordered(uses), NEW cap \in Nat \ {0},
         NEW K, IsFiniteSet(K), Cardinality(K) <= cap, NEW k, NEW full, full = K \cup {k}
  PROVE  Cardinality(full \ Oldest(uses, full \ {k}, Excess(full, cap))) <= cap
<1> DEFINE out == Oldest(uses, full \ {k}, Excess(full, cap))
<1> SUFFICES Cardinality(full \ out) <= cap
  OBVIOUS
<1>0. /\ IsFiniteSet(K \cup {k}) /\ Cardinality(K \cup {k}) <= cap + 1
      /\ Cardinality(K \cup {k}) \in Nat
  <2>1. IsFiniteSet(K \cup {k}) /\ Cardinality(K) \in Nat
    BY FS_AddElement, FS_CardinalityType
  <2>2. Cardinality(K \cup {k}) = IF k \in K THEN Cardinality(K) ELSE Cardinality(K) + 1
    BY FS_AddElement, Zenon
  <2> HIDE DEF out
  <2>3. CASE k \in K
    BY <2>1, <2>2, <2>3
  <2>4. CASE k \notin K
    BY <2>1, <2>2, <2>4
  <2> QED BY <2>3, <2>4
<1>1. IsFiniteSet(full) /\ Cardinality(full) \in Nat /\ Cardinality(full) <= cap + 1
  BY <1>0
<1>2. IsFiniteSet(full \ out) /\ Cardinality(full \ out) \in Nat /\ Cardinality(full \ out) <= Cardinality(full)
  <2> HIDE DEF out
  <2> QED BY <1>1, FS_Subset, FS_CardinalityType
<1>3. CASE Cardinality(full) <= cap
  <2> HIDE DEF out
  <2> QED BY <1>1, <1>2, <1>3
<1>4. CASE Cardinality(full) = cap + 1
  <2>1. /\ IsFiniteSet(full \ {k}) /\ Cardinality(full \ {k}) = cap
    BY <1>1, <1>4, FS_RemoveElement
  <2>2. full \ {k} # {}
    BY <2>1, FS_EmptySet
  <2>3. PICK m \in full \ {k} : {l \in full \ {k} : Earlier(uses, l, m)} = {}
    BY <2>1, <2>2, FirstUsed
  <2>4. Excess(full, cap) = 1
    BY <1>4, <1>1 DEF Excess
  <2>5. m \in out
    BY <2>3, <2>4, FS_EmptySet DEF Oldest
  <2>6. full \ out \subseteq full \ {m}
    BY <2>5
  <2> HIDE DEF out
  <2>7. IsFiniteSet(full \ {m}) /\ Cardinality(full \ {m}) = cap
    BY <1>1, <1>4, <2>3, FS_RemoveElement
  <2> QED BY <2>6, <2>7, FS_Subset, FS_CardinalityType, <1>2
<1> HIDE DEF out
<1> QED BY <1>1, <1>3, <1>4
=============================================================================
