------------------------------ MODULE StationDb ------------------------------
(***************************************************************************)
(* The two SQLite tables of the kiosk (src/src/db.cpp) and the statements  *)
(* that change them, as operators on table values.  Db serialises every    *)
(* statement with one mutex and SQLite commits each of them on its own, so *)
(* a call is one atomic step of its caller.                                *)
(*                                                                         *)
(* A row keeps its owner data (name and phone number, abstracted to one    *)
(* value), the AP it was detected with, and pending_op.  Timestamps, RSSI  *)
(* and the device type's code are left out: no property reads them.  The   *)
(* AP table is the set of the BSSIDs it holds.                             *)
(***************************************************************************)

CONSTANTS
    Mac,        \* the MAC addresses of stations
    Owner,      \* what an operator can type: name and phone number
    Bssid,      \* the MAC addresses of access points
    NoOwner,    \* no owner data (empty strings)
    NoBssid     \* no access point (the empty string)

ASSUME ConstantsAreDistinct == NoOwner \notin Owner /\ NoBssid \notin Bssid

\* pending_op of a row; "none" is SQL NULL, "absent" says there is no row.
Op  == {"register", "update", "delete"}
Row == [pend : Op \cup {"absent", "none"}, owner : Owner \cup {NoOwner},
        bssid : Bssid \cup {NoBssid}]

row(p, o, b) == [pend |-> p, owner |-> o, bssid |-> b]
Absent == row("absent", NoOwner, NoBssid)
Table  == [Mac -> Row]

-----------------------------------------------------------------------------
(* Queries.                                                                *)

macExists(t, m) == t[m].pend # "absent"

\* searchStations and listStations: rows pending deletion are hidden.
visible(t, m)   == t[m].pend \notin {"absent", "delete"}
listStations(t) == {m \in Mac : visible(t, m)}

\* Every row with a pending operation, the hidden ones included.
listPending(t)  == {m \in Mac : t[m].pend \in Op}

-----------------------------------------------------------------------------
(* Statements.                                                             *)

\* INSERT ... ON CONFLICT DO NOTHING
addStation(t, m, o, b) ==
    IF macExists(t, m) THEN t
    ELSE [t EXCEPT ![m] = row("none", o, b)]

\* UPDATE of the owner data: pending_op and bssid stay as they are.
updateStation(t, m, o) ==
    IF macExists(t, m) THEN [t EXCEPT ![m] = row(@.pend, o, @.bssid)] ELSE t

\* INSERT ... ON CONFLICT DO UPDATE: the row becomes a pending registration
\* whatever it was before.
addStationPending(t, m, o, b) ==
    [t EXCEPT ![m] = row("register", o, b)]

\* A row the server has never seen stays a pending registration.
updateStationPending(t, m, o) ==
    IF macExists(t, m)
    THEN LET p == IF t[m].pend = "register" THEN "register" ELSE "update"
         IN  [t EXCEPT ![m] = row(p, o, @.bssid)]
    ELSE t

\* UPDATE of pending_op alone.
setPendingOp(t, m, p) ==
    IF macExists(t, m) THEN [t EXCEPT ![m] = row(p, @.owner, @.bssid)] ELSE t

\* A pending registration is deleted outright; any other row is only flagged.
markStationPendingDelete_flagsAll(t, m) ==      \* mutant
    setPendingOp(t, m, "delete")
markStationPendingDelete(t, m) ==
    IF t[m].pend = "register" THEN [t EXCEPT ![m] = Absent]
    ELSE setPendingOp(t, m, "delete")

\* Unconditional: whichever operation is pending, it no longer is.
clearPending_upserts(t, m) == [t EXCEPT ![m] = row("none", @.owner, @.bssid)]    \* mutant
clearPending(t, m) == setPendingOp(t, m, "none")

removeStation(t, m) == [t EXCEPT ![m] = Absent]

\* The AP table: an upsert.
addAp(aps, b)    == aps \cup {b}
apExists(aps, b) == b \in aps
removeAp(aps, b) == aps \ {b}
=============================================================================
