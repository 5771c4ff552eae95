-------------------------------- MODULE Server -------------------------------
(***************************************************************************)
(* The OpenWIPS server, which is not part of this repository, as the kiosk *)
(* uses it: a table of devices and a set of access points.  A request that *)
(* reaches it is accepted or rejected; a registration of a MAC it has and  *)
(* a change or a deletion of one it has not are rejected, and it accepts   *)
(* an access point it has already.                                         *)
(***************************************************************************)

CONSTANTS Mac, Owner, Bssid, NoOwner, NoBssid

NoDevice == [owner |-> NoOwner, bssid |-> NoBssid]
Device   == [owner : Owner \cup {NoOwner}, bssid : Bssid \cup {NoBssid}]
Devices  == [Mac -> Device]

registered(d) == {m \in Mac : d[m] # NoDevice}

\* Whether the server accepts the device request c, and what it has then.
accepts(d, c) == (c.op = "register") = (d[c.mac] = NoDevice)
apply(d, c) ==
    LET b == IF c.op = "register" THEN c.bssid ELSE d[c.mac].bssid
    IN  [d EXCEPT ![c.mac] = IF c.op = "delete" THEN NoDevice
                             ELSE [owner |-> c.owner, bssid |-> b]]
=============================================================================
