---------------------------- MODULE ChannelHopper ----------------------------
(***************************************************************************)
(* The channel hopper: a thread that goes round the schedule, the owner    *)
(* that starts and stops it, and the iw processes that change the channel. *)
(*                                                                         *)
(* The owner and the thread share running_ (atomic) and a condition        *)
(* variable; stop writes running_ and notifies without taking the mutex of *)
(* the wait, so both can fall between the wait's test and its sleep.  The  *)
(* stop flag of net.cpp is never set in this program and bursting_ is never*)
(* given, so running() is true and deferWhileBursting returns at once.     *)
(***************************************************************************)
EXTENDS Schedule

CONSTANT NoChannel      \* no channel was ever set, or none is being set

ASSUME NoChannelIsNone == NoChannel \notin Int

VARIABLES
    owner,      \* where the owning thread is
    running,    \* running_
    worker,     \* where the hopping thread is
    idx,        \* its position in the schedule, from 0
    child,      \* the iw process it waits for: its channel and state
    currentChannel,         \* the channel published for other threads
    tried, hops, dwells     \* history: the hop begun last; hops and dwells
                            \* begun since stop wrote running_

history == <<tried, hops, dwells>>
vars    == <<config, building, owner, running, worker, idx, child, currentChannel, history>>

NoChild == [channel |-> NoChannel, state |-> "none"]

Init ==
    /\ ScheduleInit
    /\ owner = "constructing" /\ running = FALSE /\ worker = "none" /\ idx = 0
    /\ child = NoChild /\ currentChannel = NoChannel
    /\ tried = NoChannel /\ hops = 0 /\ dwells = 0

-----------------------------------------------------------------------------
(* The owner.                                                              *)

ownerFrame == UNCHANGED <<config, building, child, currentChannel>>

Construct ==
    /\ owner = "constructing"
    /\ \/ buildSchedule /\ UNCHANGED owner
       \/ built /\ owner' = "idle" /\ UNCHANGED <<config, building>>
    /\ UNCHANGED <<running, worker, idx, child, currentChannel, history>>

\* An empty list is refused; a hopper that runs is left alone.  A thread left
\* from an earlier round would be joined first.
start ==
    /\ owner = "idle" /\ config.channels # <<>>
    /\ ~running /\ worker = "none"
    /\ running' = TRUE
    /\ worker' = "testing" /\ idx' = 0
    /\ hops' = 0 /\ dwells' = 0
    /\ UNCHANGED <<owner, tried>>
    /\ ownerFrame

\* stop: the flag, then the notification, then the join.  A thread that is
\* not asleep yet does not hear the notification.
StopStore ==
    /\ owner = "idle" /\ owner' = "notifying"
    /\ running' = FALSE
    /\ hops' = 0 /\ dwells' = 0
    /\ UNCHANGED <<worker, idx, tried>>
    /\ ownerFrame

StopNotify ==
    /\ owner = "notifying" /\ owner' = "joining"
    /\ worker' = IF worker = "asleep" THEN "resting" ELSE worker
    /\ UNCHANGED <<running, idx, history>>
    /\ ownerFrame

\* The stop of a destructor is the last call.
StopJoin_detached ==        \* mutant
    /\ owner = "joining" /\ owner' \in {"idle", "destroyed"}
    /\ UNCHANGED <<running, worker, idx, history>>
    /\ ownerFrame
StopJoin ==
    /\ owner = "joining" /\ owner' \in {"idle", "destroyed"}
    /\ worker \in {"none", "returned"} /\ worker' = "none"
    /\ UNCHANGED <<running, idx, history>>
    /\ ownerFrame

-----------------------------------------------------------------------------
(* The hopping thread.                                                     *)

workerFrame == UNCHANGED <<config, building, owner, running>>

stopped == owner \in {"notifying", "joining"}

\* The test of run's loop.
Test ==
    /\ worker = "testing"
    /\ worker' = IF running THEN "hopping" ELSE "returned"
    /\ UNCHANGED <<idx, child, currentChannel, history>>
    /\ workerFrame

\* set_channel: fork may fail; the child is then awaited by polling.
Fork ==
    /\ worker = "hopping"
    /\ LET c == schedule[idx + 1]
       IN  /\ tried' = c
           /\ \/ worker' = "polling" /\ child' = [channel |-> c, state |-> "running"]
              \/ worker' = "resting" /\ UNCHANGED child
    /\ hops' = IF stopped THEN hops + 1 ELSE hops
    /\ UNCHANGED <<idx, currentChannel, dwells>>
    /\ workerFrame

\* The child has ended: only its success publishes the channel.
Reap ==
    /\ worker = "polling" /\ child.state \in {"done", "failed"}
    /\ worker' = "resting" /\ child' = NoChild
    /\ currentChannel' = IF child.state = "done" THEN child.channel ELSE currentChannel
    /\ UNCHANGED <<idx, history>>
    /\ workerFrame

\* The child has not ended in two seconds, or waitpid failed: it is killed.
PollTimeout ==
    /\ worker = "polling" /\ worker' = "killing"
    /\ UNCHANGED <<idx, child, currentChannel, history>>
    /\ workerFrame

\* It is awaited for a fifth of a second more; reaped or not, and whatever it
\* did in the meantime, the change counts as failed.
GiveUp ==
    /\ worker = "killing" /\ worker' = "resting"
    /\ child' = NoChild
    /\ UNCHANGED <<idx, currentChannel, history>>
    /\ workerFrame

\* sleepOrUntilStop: the predicate is tested under the mutex, then the thread
\* waits; a wait that times out or wakes by itself ends or tests again.
TestPredicate_never ==      \* mutant
    /\ worker = "resting" /\ worker' = "dozing"
    /\ UNCHANGED <<idx, child, currentChannel, history>>
    /\ workerFrame
TestPredicate ==
    /\ worker = "resting"
    /\ worker' = IF running THEN "dozing" ELSE "advancing"
    /\ UNCHANGED <<idx, child, currentChannel, history>>
    /\ workerFrame

FallAsleep ==
    /\ worker = "dozing" /\ worker' = "asleep"
    /\ dwells' = IF stopped THEN dwells + 1 ELSE dwells
    /\ UNCHANGED <<idx, child, currentChannel, tried, hops>>
    /\ workerFrame

DwellTimeout ==
    /\ worker = "asleep" /\ worker' = "advancing"
    /\ UNCHANGED <<idx, child, currentChannel, history>>
    /\ workerFrame

SpuriousWakeup ==
    /\ worker = "asleep" /\ worker' = "resting"
    /\ UNCHANGED <<idx, child, currentChannel, history>>
    /\ workerFrame

next_unwrapped(i)  == i + 1                                 \* mutant
next_shortRound(i) == IF i + 2 >= Len(schedule) THEN 0 ELSE i + 1    \* mutant
next_skips(i)      == (i + 2) % Len(schedule)               \* mutant
next(i)            == (i + 1) % Len(schedule)
Advance ==
    /\ worker = "advancing" /\ worker' = "testing"
    /\ idx' = next(idx)
    /\ UNCHANGED <<child, currentChannel, history>>
    /\ workerFrame

-----------------------------------------------------------------------------
(* The iw process ends, well or not; it may also never end.                *)

ChildEnds ==
    /\ child.state = "running"
    /\ child' \in [channel : {child.channel}, state : {"done", "failed"}]
    /\ UNCHANGED <<config, building, owner, running, worker, idx, currentChannel, history>>

-----------------------------------------------------------------------------
OwnerStep  == start \/ StopStore \/ StopNotify \/ StopJoin
WorkerStep == \/ Test \/ Fork \/ Reap \/ PollTimeout \/ GiveUp
              \/ TestPredicate \/ FallAsleep \/ DwellTimeout \/ Advance

Next == Construct \/ OwnerStep \/ WorkerStep \/ SpuriousWakeup \/ ChildEnds

Spec == Init /\ [][Next]_vars

\* Both threads run, a stop that was begun is finished, and the time of a dwell
\* runs out however often its wait is woken; no iw process is assumed to end.
FairSpec == Spec /\ WF_vars(WorkerStep) /\ SF_vars(DwellTimeout)
                 /\ WF_vars(StopNotify) /\ WF_vars(StopJoin)
=============================================================================
