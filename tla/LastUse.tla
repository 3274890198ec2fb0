-------------------------------- MODULE LastUse --------------------------------
(***************************************************************************)
(* When the links of a cache were last used (rns_link_manager.py, and        *)
(* nomadnet_downloader.py in the same words).  What the caches do depends on  *)
(* the order of the times alone: `uses` has the pair <<m, k>> if m and k both *)
(* have a time, and that of m is not the later one.  Each call takes a time   *)
(* of its own, and the clock does not go back.                                *)
(***************************************************************************)
EXTENDS Naturals, FiniteSets

\* The keys that have a time.
Stamped(uses) == {p[1] : p \in uses}

\* A relation of that kind: a total order of the keys that have a time.
Ordered(uses) ==
  /\ \A p \in uses : p[2] \in Stamped(uses)
  /\ \A m, k \in Stamped(uses) : /\ <<m, k>> \in uses \/ <<k, m>> \in uses
                                 /\ <<m, k>> \in uses /\ <<k, m>> \in uses => m = k
  /\ \A m, k, l \in Stamped(uses) : <<m, k>> \in uses /\ <<k, l>> \in uses => <<m, l>> \in uses

\* k is used now.
Touch(uses, k) ==
  {p \in uses : k \notin {p[1], p[2]}} \cup {<<m, k>> : m \in Stamped(uses) \cup {k}}

\* Mutant: a popped key is still compared with the ones used before it.
ForgetLast(uses, K) == {p \in uses : p[1] \notin K}
\* The times of the keys K are popped.
Forget(uses, K) == {p \in uses : p[1] \notin K /\ p[2] \notin K}

\* A key without a time counts as used at 0.0.
Earlier(uses, m, k) == k \in Stamped(uses) /\ <<k, m>> \notin uses

\* The n keys of K that were used the longest ago.
Oldest(uses, K, n) == {k \in K : Cardinality({m \in K : Earlier(uses, m, k)}) < n}

\* How many of K there are over a cap.
Excess(K, cap) == IF Cardinality(K) > cap THEN Cardinality(K) - cap ELSE 0

\* What a cut-off time can leave behind it: the keys that were used up to it.
Behind(uses) == {{}} \cup {{m \in Stamped(uses) : <<m, k>> \in uses} : k \in Stamped(uses)}
=============================================================================
