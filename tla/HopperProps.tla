------------------------------ MODULE HopperProps -----------------------------
(***************************************************************************)
(* What the channel hopper promises: the schedule gives every channel its  *)
(* share, and stopping the thread is prompt and always ends.               *)
(***************************************************************************)
EXTENDS ChannelHopper, FiniteSets

\* Every variable has its type: the weights and debts of the schedule under
\* construction, the places of the two threads, and the thread's position,
\* which stays inside the schedule it indexes.
ScheduleOK == /\ config \in Configs
              /\ w \in Seq(Nat \ {0}) /\ Len(w) <= Len(config.channels)
              /\ total \in Nat
              /\ current \in [positions -> Int] /\ visits \in [positions -> Nat]
              /\ schedule \in Seq(Int)
ThreadsOK == /\ owner \in {"constructing", "idle", "notifying", "joining", "destroyed"}
             /\ running \in BOOLEAN
             /\ worker \in {"none", "testing", "hopping", "polling", "killing", "resting",
                            "dozing", "asleep", "advancing", "returned"}
             /\ idx \in Nat /\ (worker # "none" => idx < Len(schedule))
             /\ child \in [channel : Int \cup {NoChannel},
                           state : {"none", "running", "done", "failed"}]
             /\ currentChannel \in Int \cup {NoChannel} /\ tried \in Int \cup {NoChannel}
             /\ hops \in Nat /\ dwells \in Nat
TypeOK == ScheduleOK /\ ThreadsOK

-----------------------------------------------------------------------------
(* The schedule (buildSchedule).                                           *)

\* A finished schedule holds every channel of the list exactly as often as it
\* weighs: a company AP's channel caWeight times and the others once.
turnsOf(i) == {k \in 1 .. Len(schedule) : schedule[k] = config.channels[i]}
FairRound ==
    built => \A i \in positions : Cardinality(turnsOf(i)) = weightOf(config.channels[i])

\* Before any pick of the round, what a position has had differs from its
\* share of the picks so far by exactly what it is owed, and no position is
\* a whole visit ahead of its share.
Balanced ==
    weighed /\ ~keepsOrder =>
        \A i \in positions :
            /\ current[i] = Len(schedule) * w[i] - total * visits[i]
            /\ current[i] > -total

\* Visits to one channel are spread: it is visited twice running in a round
\* only when it has more than half of the round.
NoNeedlessRepeat ==
    ~keepsOrder =>
        \A k \in 1 .. Len(schedule) - 1 :
            schedule[k] = schedule[k + 1] =>
                \E i \in positions : config.channels[i] = schedule[k] /\ 2 * w[i] > total

-----------------------------------------------------------------------------
(* The stop protocol (start, stop, run, sleepOrUntilStop).                 *)

\* After stop has cleared the flag, the thread begins at most one more channel
\* change, or sits through at most one more dwell because it was not asleep
\* yet when the notification came, and never both.
StopCostsOneStep == stopped => hops + dwells <= 1

\* The thread takes the channels in the order of the schedule and skips none,
\* whichever changes fail, hang or are cut short: from a hop to the end of its
\* dwell the thread is at the entry it tried, and it goes on with the next.
HopsFollowSchedule ==
    /\ worker \in {"polling", "killing", "resting", "dozing", "asleep", "advancing"} =>
           tried = schedule[idx + 1]
    /\ worker \in {"testing", "hopping"} /\ idx > 0 => tried = schedule[idx]

\* The hopper is the service its owner relies on: silent when it is off, and
\* stop returns, even when an iw process hangs and the notification is lost.
anyChannel == UNION {{d.channels[i] : i \in 1 .. Len(d.channels)} : d \in Configs}
Service == INSTANCE HopperService WITH
               Channel <- anyChannel \cup {NoChannel},
               phase   <- IF stopped THEN "stopping" ELSE IF running THEN "on" ELSE "off",
               late    <- IF stopped THEN hops ELSE 0
IsService == Service!Spec

\* A hopper that is left on comes round to every channel again and again,
\* although changes fail, hang and wake-ups are spurious.
toVisit == {config.channels[i] : i \in positions}
EveryChannelComesRound ==
    \A c \in anyChannel :
        running /\ c \in toVisit /\ tried # c ~> tried = c \/ ~running
=============================================================================
