---------------------------- MODULE CaptureRecovery ---------------------------
(***************************************************************************)
(* What the operator of the kiosk relies on when the wireless adapter      *)
(* fails: the program is either trying (opening the interface or capturing)*)
(* or it has failed and will offer a retry, or the retry is on offer; it   *)
(* never gives up silently and never offers a retry while it is trying.    *)
(***************************************************************************)

VARIABLE phase      \* "off", "trying", "failed", "offered", "over"

Init == phase = "off"

Begin == phase = "off" /\ phase' = "trying"
Fail  == phase = "trying" /\ phase' = "failed"
Offer == phase = "failed" /\ phase' = "offered"
Retry == phase = "offered" /\ phase' = "trying"
Quit  == phase # "over" /\ phase' = "over"

Next == Begin \/ Fail \/ Offer \/ Retry \/ Quit

Safety == Init /\ [][Next]_phase

Spec == Safety /\ WF_phase(Offer)
=============================================================================
