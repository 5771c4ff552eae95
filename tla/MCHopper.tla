------------------------------- MODULE MCHopper -------------------------------
(***************************************************************************)
(* Instances of ChannelHopper for TLC: the list main passes (no company    *)
(* channels), one channel, lists with one and with several company         *)
(* channels, below, at and above half of a round, and the empty list.      *)
(***************************************************************************)
EXTENDS HopperProps

hop(channels, ca, n) == [channels |-> channels, caChannels |-> ca, caWeight |-> n]

HopConfigs == {
    hop(<<>>, {6}, 3),
    hop(<<6>>, {}, 1),
    hop(<<1, 6, 11>>, {}, 1),
    hop(<<1, 6, 11>>, {6}, 3),
    hop(<<1, 6, 11>>, {1, 11}, 2),
    hop(<<1, 6>>, {6}, 3),
    hop(<<1, 6, 11, 36>>, {36}, 2),
    hop(<<1, 6, 11, 36, 40>>, {1, 40}, 4)}
=============================================================================
