------------------------------- MODULE MCCapture ------------------------------
(***************************************************************************)
(* An instance of Capture for TLC: one AP, one station, and the frames on  *)
(* which parsing decides differently.                                      *)
(***************************************************************************)
EXTENDS CaptureProps

MCAddr  == {"sta", "ap", "group", "null"}
MCGroup == {"group"}
MCNull  == "null"
MCThreshold == -60

rt(signal) == [version |-> 0, len |-> 24, ext |-> 0, present |-> {0, 1, 2, 3, 5},
               signal |-> signal]
ie(id, len, value) == [id |-> id, len |-> len, value |-> value]
base == [len |-> 60, rt |-> rt(-50), kind |-> "auth", addr1 |-> "ap", addr2 |-> "sta",
         addr3 |-> "ap", ies |-> <<>>, qos |-> FALSE, null |-> FALSE,
         toDs |-> FALSE, fromDs |-> FALSE]

MCFrames == {
    base,                                                               \* a station near by
    [base EXCEPT !.kind = "assoc-req", !.rt = rt(-70)],                 \* one too far away
    [base EXCEPT !.addr1 = "sta", !.addr2 = "ap"],                      \* the AP's answer
    [base EXCEPT !.len = 24 + 18],                                      \* cut off before addr3
    [base EXCEPT !.addr2 = "group"],
    [base EXCEPT !.rt.present = {0, 1, 2, 3}],                          \* no signal
    [base EXCEPT !.kind = "data", !.qos = TRUE, !.toDs = TRUE],
    [base EXCEPT !.kind = "beacon", !.addr2 = "ap", !.len = 67,         \* a network, its
        !.ies = <<ie(0, 2, "net"), ie(3, 1, 6), ie(0, 1, "cut")>>],     \* last element cut off
    [base EXCEPT !.kind = "beacon", !.addr2 = "ap",
        !.ies = <<ie(0, 0, "")>>]}                                      \* a hidden network

MCHeaders == [version : {0}, len : 8 .. 40, ext : 0 .. 2, present : SUBSET (0 .. 5),
              signal : {-50}]
=============================================================================
