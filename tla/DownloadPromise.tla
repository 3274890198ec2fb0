--------------------------- MODULE DownloadPromise ---------------------------
(***************************************************************************)
(* What a download promises whoever asked for it: once started it ends,     *)
(* with a success or with a failure, once.  NomadDownload implements it.    *)
(***************************************************************************)
CONSTANT Downloads
VARIABLE outcome   \* outcome[d]: "idle", "running", "ok" or "failed"

Init == outcome = [d \in Downloads |-> "idle"]

Start(d)  == outcome[d] = "idle" /\ outcome' = [outcome EXCEPT ![d] = "running"]
End(d, r) == outcome[d] = "running" /\ outcome' = [outcome EXCEPT ![d] = r]

Next == \E d \in Downloads : Start(d) \/ \E r \in {"ok", "failed"} : End(d, r)

Spec == Init /\ [][Next]_outcome
=============================================================================
