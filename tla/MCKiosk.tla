------------------------------- MODULE MCKiosk -------------------------------
(***************************************************************************)
(* Instances of Kiosk for TLC: how often each bounded activity may happen, *)
(* and the device tables the server may start with, one definition for     *)
(* each question a run asks.                                               *)
(***************************************************************************)
EXTENDS KioskProps, TLC

CONSTANTS m1, m2, m3, o1, o2, b1, b2

limits(detect, confirm, visit, adm, fault, restart) ==
    [a \in Activity |-> CASE a = "detect"  -> detect  [] a = "confirm" -> confirm
                          [] a = "visit"   -> visit   [] a = "admin"   -> adm
                          [] a = "fault"   -> fault   [] a = "restart" -> restart]

EmptyServer == {[m \in Mac |-> NoDevice]}
AnyServer   == [Mac -> {NoDevice, [owner |-> o1, bssid |-> b1]}]
NoAps       == {}
AllAps      == Bssid

\* The server knows the stations with random MACs: only those can be changed.
RandomServer ==
    {[m \in Mac |-> IF isRandom(m) THEN [owner |-> o1, bssid |-> b1] ELSE NoDevice]}

\* The other stations are interchangeable there.
Symmetry == Permutations(Mac \ RandomMac)

LimitOneStation  == limits(1, 1, 1, 1, 1, 1)
LimitTwoStations == limits(2, 2, 0, 0, 1, 0)
LimitLiveness    == limits(1, 1, 1, 1, 1, 0)

LimitDelete    == limits(1, 1, 1, 1, 0, 0)
LimitSwitch    == limits(2, 1, 0, 0, 1, 0)
LimitResend    == limits(1, 2, 0, 0, 2, 0)
LimitRandom    == limits(1, 1, 0, 0, 1, 0)
LimitDetection == limits(2, 1, 0, 0, 0, 0)
LimitOffline   == limits(1, 1, 1, 1, 1, 0)
=============================================================================
