----------------------------- MODULE HopperService ----------------------------
(***************************************************************************)
(* What the owner of a channel hopper relies on: it hops while it is on,   *)
(* begins at most one more hop once it has been told to stop, and is off   *)
(* when stop returns.                                                      *)
(***************************************************************************)
EXTENDS Naturals

CONSTANT Channel

VARIABLES
    phase,      \* "off", "on", "stopping"
    late,       \* hops begun since it was told to stop
    tried       \* the channel of the hop begun last

vars == <<phase, late, tried>>

Init == phase = "off" /\ late = 0 /\ tried \in Channel

Start ==
    /\ phase = "off" /\ phase' = "on" /\ late' = 0
    /\ UNCHANGED tried

Hop(c) ==
    /\ \/ phase = "on" /\ UNCHANGED late
       \/ phase = "stopping" /\ late = 0 /\ late' = 1
    /\ tried' = c
    /\ UNCHANGED phase

Stop ==
    /\ phase \in {"off", "on"} /\ phase' = "stopping" /\ late' = 0
    /\ UNCHANGED tried

Joined ==
    /\ phase = "stopping" /\ phase' = "off" /\ late' = 0
    /\ UNCHANGED tried

Next == Start \/ (\E c \in Channel : Hop(c)) \/ Stop \/ Joined

Safety == Init /\ [][Next]_vars

Spec == Safety /\ WF_vars(Joined)
=============================================================================
