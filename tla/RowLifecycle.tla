----------------------------- MODULE RowLifecycle ----------------------------
(***************************************************************************)
(* The life cycle of one row of the pending queue: the edges of pending_op.*)
(* Only a row that exists waits for a change or a deletion; a change saved *)
(* offline leaves a pending registration one, and deleting such a row      *)
(* removes it at once; saving a registration offline overrides whatever    *)
(* was pending.  Any answer settles a row, a refusal like a success, and   *)
(* whatever operation it was an answer to: nothing is said here of the     *)
(* requests, so not that a registration was sent before its mark goes (see *)
(* OfflineRegistrationsAreSent in KioskProps).  (src/src/db.cpp.)          *)
(***************************************************************************)
CONSTANT Mac
VARIABLE pend

Waiting == {"register", "update", "delete"}
Status  == Waiting \cup {"absent", "none"}

Init == pend = [m \in Mac |-> "absent"]

to(m, s) == pend' = [pend EXCEPT ![m] = s]

\* Devices of the server's list enter as synchronised rows, several at once.
CacheDevices ==
    /\ \E S \in SUBSET {m \in Mac : pend[m] = "absent"} :
           pend' = [m \in Mac |-> IF m \in S THEN "none" ELSE pend[m]]

SaveSynced(m)    == pend[m] = "absent" /\ to(m, "none")
SaveOffline(m)   == to(m, "register")
ChangeOffline(m) == pend[m] \in {"none", "update", "delete"} /\ to(m, "update")
MarkDelete(m)    == \/ pend[m] \in {"none", "update", "delete"} /\ to(m, "delete")
                    \/ pend[m] = "register" /\ to(m, "absent")
\* Unconditional, as clearPending is.
Settle(m)        == pend[m] \in Waiting /\ to(m, "none")
Remove(m)        == to(m, "absent")

Next ==
    \/ CacheDevices
    \/ \E m \in Mac : \/ SaveSynced(m) \/ SaveOffline(m) \/ ChangeOffline(m)
                      \/ MarkDelete(m) \/ Settle(m)      \/ Remove(m)

Spec == Init /\ [][Next]_pend
=============================================================================
