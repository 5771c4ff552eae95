------------------------------- MODULE Schedule -------------------------------
(***************************************************************************)
(* The order in which the channel hopper visits its channels, computed once*)
(* by the constructor (buildSchedule): a smooth weighted round-robin, in   *)
(* which a company AP's channel is visited caWeight times in a round and   *)
(* every other channel once.  Each turn of the two loops is a step, so that*)
(* what holds after each pick can be stated of a state.                    *)
(***************************************************************************)
EXTENDS Integers, Sequences

CONSTANT Configs    \* the configurations a hopper may be made with

ASSUME ConfigsAreTyped ==
    Configs \subseteq [channels : Seq(Int), caChannels : SUBSET Int, caWeight : Int]

\* The settings dialog refuses a list that holds a channel twice, and it is the
\* only source of the list (ui.cpp:284-296, main.cpp:40-48).
ASSUME NoChannelTwice ==
    \A d \in Configs : \A i, j \in 1 .. Len(d.channels) :
        d.channels[i] = d.channels[j] => i = j

VARIABLES
    config,     \* config_
    w, total,   \* the weight of each position of the list, and their sum
    current,    \* what each position is owed, in visits times total
    schedule,   \* schedule_
    visits      \* history, read by properties only: visits of each position

building == <<w, total, current, schedule, visits>>

weight     == IF config.caWeight > 1 THEN config.caWeight ELSE 1
positions  == 1 .. Len(config.channels)
\* Nothing to weight: the channels are visited in the order of the list.
keepsOrder == config.channels = <<>> \/ weight = 1

weighed == Len(w) = Len(config.channels)
built   == keepsOrder \/ (weighed /\ Len(schedule) = total)

ScheduleInit ==
    /\ config \in Configs
    /\ w = <<>> /\ total = 0
    /\ current = [i \in positions |-> 0]
    /\ schedule = IF keepsOrder THEN config.channels ELSE <<>>
    /\ visits = [i \in positions |-> 0]

\* The first loop: the weight of the next channel of the list.
weightOf(ch) == IF ch \in config.caChannels THEN weight ELSE 1
Weigh ==
    /\ ~keepsOrder /\ ~weighed
    /\ LET wi == weightOf(config.channels[Len(w) + 1])
       IN  w' = Append(w, wi) /\ total' = total + wi
    /\ UNCHANGED <<current, schedule, visits>>

\* The first of the positions that are owed most; a later one does not
\* replace it unless it is owed strictly more.
isBest_heaviest(c, i) ==    \* mutant
    /\ \A j \in positions : w[j] <= w[i]
    /\ \A j \in positions : j < i => w[j] < w[i]
isBest_least(c, i) ==       \* mutant
    /\ \A j \in positions : c[j] >= c[i]
    /\ \A j \in positions : j < i => c[j] > c[i]
isBest(c, i) ==
    /\ \A j \in positions : c[j] <= c[i]
    /\ \A j \in positions : j < i => c[j] < c[i]
best(c) == CHOOSE i \in positions : isBest(c, i)

\* One turn of the second loop: everybody is owed its weight more, and the
\* position that is owed most is visited and pays for a whole round.
raised_onlyOnce == [i \in positions |->      \* mutant
                       IF visits[i] = 0 THEN current[i] + w[i] ELSE current[i]]
raised == [i \in positions |-> current[i] + w[i]]
Pick ==
    /\ ~keepsOrder /\ weighed /\ Len(schedule) < total
    /\ LET b == best(raised)
       IN  /\ current' = [raised EXCEPT ![b] = @ - total]
           /\ schedule' = Append(schedule, config.channels[b])
           /\ visits' = [visits EXCEPT ![b] = @ + 1]
    /\ UNCHANGED <<w, total>>

buildSchedule == (Weigh \/ Pick) /\ UNCHANGED config
=============================================================================
