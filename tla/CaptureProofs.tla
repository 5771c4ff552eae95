----------------------------- MODULE CaptureProofs ----------------------------
(***************************************************************************)
(* What holds of capture for any frames, addresses and interface.  The     *)
(* argument about failures is a token: one of a posted run, a run under    *)
(* way, an undelivered error and the retry on offer exists, never two, and *)
(* until the shutdown never none.                                          *)
(***************************************************************************)
EXTENDS CaptureProps, FiniteSetTheorems, SequenceTheorems, TLAPS

-----------------------------------------------------------------------------
(* The invariant.                                                          *)

active == loop \cup {"opening"}
failed == {<<"error">>, <<"started", "error">>}

Token ==
    /\ posted = 1 => uiQueue = <<>> /\ ~retryVisible /\ pc \notin active \cup {"absent"}
    /\ retryVisible => uiQueue = <<>> /\ posted = 0 /\ pc \notin active \cup {"absent"}
    /\ uiQueue # <<>> => posted = 0 /\ ~retryVisible /\ pc \notin {"absent", "opening"}
    /\ uiQueue \in failed => pc \notin active
    /\ pc # "absent" /\ ~stop =>
           posted = 1 \/ retryVisible \/ uiQueue \in failed \/ pc \in active

stopping == {"looking", "breaking", "quitting", "waiting", "terminating", "deleting", "crashed"}
Places ==
    /\ main \in {"settings", "preparing", "returning"} => pc = "absent"
    /\ main \in {"serving", "stopping hopper", "stopping"} \cup stopping => pc # "absent"
    /\ main \in stopping => stop
    /\ stop => main \in stopping \cup {"exited"}
    /\ threadQuit => stop /\ main \in {"waiting", "terminating", "deleting", "exited"}
    /\ pc = "finished" => threadQuit
    /\ pc = "killed" => main \in {"terminating", "deleting", "exited"}
    /\ breakLoop => stop
    /\ main \in {"settings", "stopping", "exited"} \cup stopping => hopper = "off"

Begun == main \in {"settings", "preparing"} => ~quitting

Reads == /\ ~stop => readsAfterStop = 0
         /\ readsAfterStop # 0 => readsAfterStop = 1 /\ pc # "reading"

Warned == /\ warnings = IF captureFatal THEN 1 ELSE 0
          /\ retryVisible => captureFatal

heard(a) == {parseBeacon(f).ssid : f \in {g \in Frames : g.kind = "beacon" /\ g.addr2 = a}}
Beacons == /\ beaconCache = [a \in Addr |-> beaconCache[a]]
           /\ \A a \in Addr : beaconCache[a].ssid # "" => beaconCache[a].ssid \in heard(a)

Handled == pc \in {"handling", "emitting"} => frame \in Frames /\ frame.kind \in filter

Counted == /\ \A a \in Addr : a \notin seen => reported[a] <= 0
           /\ pc = "emitting" => /\ reported[report.sta] <= 0
                                 /\ report.sta \notin seen => reported[report.sta] = -1

\* Only a report under way can have been forgotten.
Forgotten == \A a \in Addr : reported[a] = -1 => /\ pc \in {"emitting", "killed"}
                                                 /\ report.sta = a /\ a \notin seen

CaptureInv ==
    /\ TypeOK
    /\ Token /\ Places /\ Begun /\ Reads /\ Warned /\ HandleIsCurrent /\ LabelAgrees /\ CleanExit
    /\ Beacons /\ Handled /\ Counted /\ CandidatesAreStations /\ Forgotten /\ SeenIsReported

-----------------------------------------------------------------------------
(* The queue of signals.                                                    *)

\* Appending to a sequence of one element gives the sequence of the two.
LEMMA TwoMessages ==
    ASSUME NEW S, NEW s \in S, NEW t \in S
    PROVE  Append(<<s>>, t) = <<s, t>>
<1> DEFINE q == Append(<<s>>, t)
           r == <<s, t>>
<1>1. q \in Seq(S) /\ Len(q) = 2 /\ q[1] = s /\ q[2] = t
  <2>1. <<s>> \in Seq(S) /\ Len(<<s>>) = 1 /\ <<s>>[1] = s
        OBVIOUS
  <2> QED BY <2>1, AppendProperties
<1>2. r \in Seq(S) /\ Len(r) = 2 /\ r[1] = s /\ r[2] = t
      OBVIOUS
<1>3. q = r
  <2> HIDE DEF q, r
  <2>1. \A i \in 1 .. Len(q) : q[i] = r[i]
        BY <1>1, <1>2
  <2> QED BY <1>1, <1>2, <2>1, SeqEqual
<1> QED BY <1>3

\* The four queues there are, and what appending to them and delivering from
\* them yields.
LEMMA Queue ==
    /\ Append(<<>>, "started") = <<"started">> /\ Append(<<>>, "error") = <<"error">>
    /\ Append(<<"started">>, "error") = <<"started", "error">>
    /\ Head(<<"started">>) = "started" /\ Tail(<<"started">>) = <<>>
    /\ Head(<<"error">>) = "error" /\ Tail(<<"error">>) = <<>>
    /\ Head(<<"started", "error">>) = "started" /\ Tail(<<"started", "error">>) = <<"error">>
    /\ <<>> # <<"started">> /\ <<>> # <<"error">> /\ <<"started">> # <<"error">>
    /\ <<>> # <<"started", "error">> /\ <<"started">> # <<"started", "error">>
    /\ <<"error">> # <<"started", "error">>
<1>1. Append(<<>>, "started") = <<"started">>
      OBVIOUS
<1>2. Append(<<>>, "error") = <<"error">>
      OBVIOUS
<1>3. Append(<<"started">>, "error") = <<"started", "error">>
  <2>1. "started" \in {"started", "error"} /\ "error" \in {"started", "error"}
        OBVIOUS
  <2> QED BY <2>1, TwoMessages, Zenon
<1>4. /\ Head(<<"started">>) = "started" /\ Tail(<<"started">>) = <<>>
      /\ Head(<<"error">>) = "error" /\ Tail(<<"error">>) = <<>>
      OBVIOUS
<1>5. Head(<<"started", "error">>) = "started" /\ Tail(<<"started", "error">>) = <<"error">>
      OBVIOUS
<1>6. <<>> # <<"started">> /\ <<>> # <<"error">> /\ <<"started">> # <<"error">>
      OBVIOUS
<1>7. /\ <<>> # <<"started", "error">> /\ <<"started">> # <<"started", "error">>
      /\ <<"error">> # <<"started", "error">>
      OBVIOUS
<1> QED BY <1>1, <1>2, <1>3, <1>4, <1>5, <1>6, <1>7, Zenon

-----------------------------------------------------------------------------
(* What each step of the system leaves of the invariant.                    *)

\* The worker goes from place to place, and the timeouts it counts stay below
\* the limit.
LEMMA WorkerOKKept ==
    ASSUME WorkerOK, Next
    PROVE  WorkerOK'
<1>1. CASE RunBegins
      BY <1>1, CaptureAssumption DEF WorkerOK, loop, RunBegins, catchesOnly, mainFrame
<1>2. CASE Open
      BY <1>2, CaptureAssumption DEF WorkerOK, loop, Open, catchesOnly, emit, mainFrame
<1>3. CASE Test
      BY <1>3, CaptureAssumption DEF WorkerOK, loop, Test, catchesOnly, mainFrame
<1>4. CASE Timeout
      BY <1>4, CaptureAssumption DEF WorkerOK, loop, Timeout, catchesOnly, countRead,
         mainFrame
<1>5. CASE Broken
      BY <1>5, CaptureAssumption DEF WorkerOK, loop, Broken, catchesOnly, countRead, mainFrame
<1>6. CASE ReadError
      BY <1>6, CaptureAssumption DEF WorkerOK, loop, ReadError, catchesOnly, countRead, emit,
         mainFrame
<1>7. CASE Packet
      BY <1>7, CaptureAssumption DEF WorkerOK, loop, Packet, countRead, mainFrame
<1>8. CASE CheckIface
      BY <1>8, CaptureAssumption DEF WorkerOK, loop, CheckIface, catchesOnly, emit, mainFrame
<1>9. CASE HandleBeacon
      BY <1>9, CaptureAssumption DEF WorkerOK, loop, HandleBeacon, mainFrame
<1>10. CASE HandleStation
      BY <1>10, CaptureAssumption DEF WorkerOK, loop, HandleStation, mainFrame
<1>11. CASE EmitCandidate
      BY <1>11, CaptureAssumption DEF WorkerOK, loop, EmitCandidate, mainFrame
<1>12. CASE Close
      BY <1>12, CaptureAssumption DEF WorkerOK, loop, Close, catchesOnly
<1>13. CASE ClearHandle
      BY <1>13, CaptureAssumption DEF WorkerOK, loop, ClearHandle, catchesOnly, mainFrame
<1>14. CASE ThreadEnds
      BY <1>14, CaptureAssumption DEF WorkerOK, loop, ThreadEnds, catchesOnly, mainFrame
<1>15. CASE StartThread
      BY <1>15, CaptureAssumption DEF WorkerOK, loop, StartThread
<1>16. CASE ThreadDies
      BY <1>16, CaptureAssumption DEF WorkerOK, loop, ThreadDies, shared
<1>17. CASE IfaceChanges \/ HopperHops \/ Settings \/ PrepareFails \/ DeliverStarted
          \/ DeliverError \/ CloseBox \/ RetryClicked \/ FlowWritesLabel \/ ForgetSeen \/ Quit
          \/ HopperReturned \/ LeaveLoop \/ HopperJoined \/ StopStore \/ LookAtHandle \/ BreakLoop
          \/ QuitThread \/ WaitEnds \/ Terminate \/ TerminatedEnds \/ Exit
  <2>1. UNCHANGED <<pc, quiet>>
        BY <1>17 DEF IfaceChanges, HopperHops, Settings, PrepareFails, DeliverStarted,
           DeliverError, CloseBox, RetryClicked, FlowWritesLabel, ForgetSeen, Quit,
           HopperReturned, LeaveLoop, HopperJoined, StopStore, LookAtHandle, BreakLoop,
           QuitThread, WaitEnds, Terminate, TerminatedEnds, Exit, mainOnly, shutdownFrame, uiFrame,
           worker, workerFrame
  <2> QED BY <2>1 DEF WorkerOK, loop
<1> QED BY <1>1, <1>2, <1>3, <1>4, <1>5, <1>6, <1>7, <1>8, <1>9, <1>10, <1>11, <1>12, <1>13,
       <1>14, <1>15, <1>16, <1>17, Zenon DEF Next, WorkerStep, MainStep, Deliver, Shutdown

\* No second run is posted and no third signal is queued: the token says so.
LEMMA SharedOKKept ==
    ASSUME SharedOK, Token, Next
    PROVE  SharedOK'
<1>1. CASE RunBegins
      BY <1>1 DEF SharedOK, Token, failed, active, loop, RunBegins, catchesOnly, mainFrame
<1>2. CASE Open
  <2>1. uiQueue = <<>> /\ uiQueue' \in {<<"started">>, <<"error">>}
        BY <1>2, Queue DEF SharedOK, Token, Open, emit
  <2>2. handle' \in {handle, "open"} /\ breakLoop' \in {breakLoop, FALSE}
        BY <1>2 DEF Open
  <2> QED BY <1>2, <2>1, <2>2 DEF SharedOK, Open, mainFrame
<1>3. CASE Timeout
      BY <1>3 DEF SharedOK, Token, failed, active, loop, Timeout, catchesOnly, countRead,
         mainFrame
<1>4. CASE Broken
  <2>1. breakLoop' = FALSE /\ readsAfterStop' \in Nat
        BY <1>4 DEF SharedOK, Broken, countRead
  <2>2. UNCHANGED <<iface, stop, threadQuit, handle, mainHandle, posted, uiQueue>>
        BY <1>4 DEF Broken, mainFrame
  <2> QED BY <2>1, <2>2, Zenon DEF SharedOK
<1>5. CASE ReadError
  <2>1. uiQueue' \in failed
    <3>1. uiQueue \in {<<>>, <<"started">>}
          BY <1>5 DEF SharedOK, Token, failed, active, loop, ReadError
    <3> QED BY <1>5, <3>1, Queue DEF failed, ReadError, emit
  <2>2. readsAfterStop' \in Nat
        BY <1>5 DEF SharedOK, ReadError, countRead
  <2> QED BY <1>5, <2>1, <2>2 DEF SharedOK, failed, ReadError, mainFrame
<1>6. CASE Packet
      BY <1>6 DEF SharedOK, Token, failed, active, loop, Packet, countRead, mainFrame
<1>7. CASE CheckIface
  <2>1. uiQueue' \in failed \cup {uiQueue}
        BY <1>7, Queue DEF SharedOK, Token, failed, active, loop, CheckIface, emit
  <2> QED BY <1>7, <2>1 DEF SharedOK, failed, CheckIface, mainFrame
<1>8. CASE Close
      BY <1>8 DEF SharedOK, Token, failed, active, loop, Close, catchesOnly
<1>9. CASE ClearHandle
      BY <1>9 DEF SharedOK, Token, failed, active, loop, ClearHandle, catchesOnly, mainFrame
<1>10. CASE IfaceChanges
      BY <1>10 DEF SharedOK, Token, failed, active, loop, IfaceChanges, shared
<1>11. CASE DeliverStarted
  <2>1. uiQueue' \in {<<>>, <<"error">>}
        BY <1>11, Queue DEF SharedOK, DeliverStarted
  <2> QED BY <1>11, <2>1 DEF SharedOK, DeliverStarted, uiFrame, workerFrame
<1>12. CASE DeliverError
  <2>1. uiQueue' = <<>>
        BY <1>12, Queue DEF SharedOK, DeliverError
  <2> QED BY <1>12, <2>1 DEF SharedOK, DeliverError, uiFrame, workerFrame
<1>13. CASE RetryClicked
      BY <1>13 DEF SharedOK, Token, failed, active, loop, RetryClicked, uiFrame, workerFrame
<1>14. CASE StopStore
      BY <1>14 DEF SharedOK, Token, failed, active, loop, StopStore, shutdownFrame
<1>15. CASE LookAtHandle
      BY <1>15 DEF SharedOK, Token, failed, active, loop, LookAtHandle, shutdownFrame
<1>16. CASE BreakLoop
      BY <1>16 DEF SharedOK, Token, failed, active, loop, BreakLoop, shutdownFrame
<1>17. CASE QuitThread
      BY <1>17 DEF SharedOK, Token, failed, active, loop, QuitThread, shutdownFrame
<1>18. CASE Test \/ HandleBeacon \/ HandleStation \/ EmitCandidate \/ ThreadEnds \/ HopperHops
          \/ Settings \/ PrepareFails \/ StartThread \/ CloseBox \/ FlowWritesLabel \/ ForgetSeen \/ Quit
          \/ HopperReturned \/ LeaveLoop \/ HopperJoined \/ WaitEnds \/ Terminate
          \/ TerminatedEnds \/ ThreadDies \/ Exit
  <2>1. UNCHANGED <<iface, stop, breakLoop, threadQuit, handle, mainHandle, posted, readsAfterStop,
                    uiQueue>>
        BY <1>18 DEF Test, HandleBeacon, HandleStation, EmitCandidate, ThreadEnds,
           HopperHops, Settings, PrepareFails, StartThread, CloseBox, FlowWritesLabel,
           ForgetSeen, Quit, HopperReturned, LeaveLoop, HopperJoined, WaitEnds, Terminate,
           TerminatedEnds, ThreadDies, Exit, catchesOnly, mainFrame, mainOnly, shared, uiFrame,
           workerFrame
  <2> QED BY <2>1 DEF SharedOK, failed, active, loop
<1> QED BY <1>1, <1>2, <1>3, <1>4, <1>5, <1>6, <1>7, <1>8, <1>9, <1>10, <1>11, <1>12, <1>13,
       <1>14, <1>15, <1>16, <1>17, <1>18, Zenon DEF Next, WorkerStep, MainStep, Deliver,
       Shutdown

\* A step that leaves main alone leaves its types alone.
LEMMA MainFrame ==
    ASSUME MainOK,
           UNCHANGED <<main, quitting, retryVisible, captureFatal, box, shadowed, label, hopper, late,
                       tried, warnings>>
    PROVE  MainOK'
BY ZenonT(30) DEF MainOK

\* What the event loop shows has its type.
LEMMA MainOKKept ==
    ASSUME MainOK, Next
    PROVE  MainOK'
<1>1. CASE HopperHops
  <2>1. UNCHANGED <<main, quitting, retryVisible, captureFatal, box, shadowed, label, hopper,
                    warnings>>
        BY <1>1 DEF HopperHops, mainOnly, status, Hopper!Hop
  <2>2. tried' \in Channels /\ late' \in {0, 1}
        BY <1>1 DEF HopperHops, Hopper!Hop, MainOK
  <2> QED BY <2>1, <2>2, Zenon DEF MainOK
<1>2. CASE Settings
      BY <1>2 DEF MainOK, Settings, hopping, mainOnly, status, Hopper!Start
<1>3. CASE PrepareFails
      BY <1>3 DEF MainOK, PrepareFails, mainOnly, status, Hopper!Stop
<1>4. CASE StartThread
      BY <1>4 DEF MainOK, StartThread, hopping, status
<1>5. CASE DeliverStarted
      BY <1>5 DEF MainOK, DeliverStarted, hopping, uiFrame, workerFrame
<1>6. CASE DeliverError
  <2>1. retryVisible' = TRUE /\ captureFatal' = TRUE /\ box' \in BOOLEAN /\ shadowed' = FALSE
        BY <1>6 DEF DeliverError, MainOK
  <2>2. warnings' \in Nat /\ label' = "error"
        BY <1>6 DEF DeliverError, MainOK
  <2>3. UNCHANGED <<main, quitting, hopper, late, tried>>
        BY <1>6 DEF DeliverError, uiFrame, workerFrame, hopping
  <2> QED BY <2>1, <2>2, <2>3, Zenon DEF MainOK
<1>7. CASE CloseBox
      BY <1>7 DEF MainOK, CloseBox, hopping, uiFrame, workerFrame
<1>8. CASE RetryClicked
      BY <1>8 DEF MainOK, RetryClicked, hopping, uiFrame, workerFrame
<1>9. CASE FlowWritesLabel
      BY <1>9 DEF MainOK, FlowWritesLabel, hopping, uiFrame, workerFrame
<1>10. CASE Quit
      BY <1>10 DEF MainOK, Quit, hopping, status, uiFrame, workerFrame
<1>11. CASE HopperReturned
      BY <1>11 DEF MainOK, HopperReturned, mainOnly, status, Hopper!Joined
<1>12. CASE LeaveLoop
      BY <1>12 DEF MainOK, LeaveLoop, Hopper!Stop
<1>13. CASE HopperJoined
      BY <1>13 DEF MainOK, HopperJoined, mainOnly, status, Hopper!Joined
<1>14. CASE StopStore
      BY <1>14 DEF MainOK, StopStore, hopping, shutdownFrame, status
<1>15. CASE LookAtHandle
      BY <1>15 DEF MainOK, LookAtHandle, hopping, shutdownFrame, status
<1>16. CASE BreakLoop
      BY <1>16 DEF MainOK, BreakLoop, hopping, shutdownFrame, status
<1>17. CASE QuitThread
      BY <1>17 DEF MainOK, QuitThread, hopping, shutdownFrame, status
<1>18. CASE WaitEnds \/ Terminate \/ TerminatedEnds
  <2>1. UNCHANGED <<quitting, retryVisible, captureFatal, box, shadowed, label, hopper, late,
                    tried, warnings>>
        BY <1>18 DEF WaitEnds, Terminate, TerminatedEnds, hopping, mainOnly, status
  <2>2. main' \in {"terminating", "deleting"}
        BY <1>18 DEF WaitEnds, Terminate, TerminatedEnds
  <2> QED BY <2>1, <2>2 DEF MainOK
<1>19. CASE ThreadDies
      BY <1>19 DEF MainOK, ThreadDies, shared, hopping, status
<1>20. CASE Exit
      BY <1>20 DEF MainOK, Exit, hopping, mainOnly, status
<1>21. CASE RunBegins \/ Open \/ Test \/ Timeout \/ Broken \/ ReadError \/ Packet \/ CheckIface
          \/ HandleBeacon \/ HandleStation \/ EmitCandidate \/ Close \/ ClearHandle \/ ThreadEnds
          \/ IfaceChanges \/ ForgetSeen
  <2>1. UNCHANGED <<main, quitting, retryVisible, captureFatal, box, shadowed, label, hopper, late,
                    tried, warnings>>
        BY <1>21 DEF RunBegins, Open, Test, Timeout, Broken, ReadError, Packet, CheckIface,
           HandleBeacon, HandleStation, EmitCandidate, Close, ClearHandle, ThreadEnds,
           IfaceChanges, ForgetSeen, catchesOnly, countRead, emit, hopping, mainFrame,
           status
  <2> QED BY <2>1, MainFrame
<1> QED BY <1>1, <1>2, <1>3, <1>4, <1>5, <1>6, <1>7, <1>8, <1>9, <1>10, <1>11, <1>12, <1>13,
       <1>14, <1>15, <1>16, <1>17, <1>18, <1>19, <1>20, <1>21, Zenon DEF Next, WorkerStep,
       MainStep, Deliver, Shutdown

\* A run, its error, the retry on offer and the run it posts hand one token
\* from one to the next.
LEMMA TokenKept ==
    ASSUME Token, SharedOK, WorkerOK, Places, Next
    PROVE  Token'
<1>1. CASE RunBegins
      BY <1>1 DEF Token, SharedOK, WorkerOK, Places, active, loop, failed, stopping,
         RunBegins, catchesOnly, mainFrame, status
<1>2. CASE Open
  <2>1. posted = 0 /\ ~retryVisible /\ uiQueue = <<>>
        BY <1>2 DEF Open, Token, SharedOK, active
  <2>2. UNCHANGED <<posted, retryVisible, stop>>
        BY <1>2 DEF Open, mainFrame, status
  <2>3. \/ pc' = "testing" /\ uiQueue' = <<"started">>
        \/ pc' = "idle" /\ uiQueue' = <<"error">>
        BY <1>2, <2>1, Queue DEF Open, emit
  <2> QED BY <2>1, <2>2, <2>3, Queue DEF Token, active, loop, failed
<1>3. CASE Test
      BY <1>3 DEF Token, SharedOK, WorkerOK, Places, active, loop, failed, stopping, Test,
         catchesOnly, mainFrame, status
<1>4. CASE Timeout
      BY <1>4 DEF Token, SharedOK, WorkerOK, Places, active, loop, failed, stopping, Timeout,
         catchesOnly, countRead, mainFrame, status
<1>5. CASE Broken
      BY <1>5 DEF Token, SharedOK, WorkerOK, Places, active, loop, failed, stopping, Broken,
         catchesOnly, countRead, mainFrame, status
<1>6. CASE ReadError
  <2>1. posted = 0 /\ ~retryVisible /\ uiQueue \in {<<>>, <<"started">>}
        BY <1>6 DEF ReadError, Token, SharedOK, active, loop, failed
  <2>2. UNCHANGED <<posted, retryVisible, stop>>
        BY <1>6 DEF ReadError, mainFrame, status
  <2>3. pc' = "leaving" /\ uiQueue' \in failed
        BY <1>6, <2>1, Queue DEF ReadError, emit, failed
  <2> QED BY <2>1, <2>2, <2>3, Queue DEF Token, active, loop, failed
<1>7. CASE Packet
      BY <1>7 DEF Token, SharedOK, WorkerOK, Places, active, loop, failed, stopping, Packet,
         countRead, mainFrame, status
<1>8. CASE CheckIface
  <2>1. posted = 0 /\ ~retryVisible /\ uiQueue \in {<<>>, <<"started">>}
        BY <1>8 DEF CheckIface, Token, SharedOK, active, loop, failed
  <2>2. UNCHANGED <<posted, retryVisible, stop>>
        BY <1>8 DEF CheckIface, mainFrame, status
  <2>3. \/ pc' = "leaving" /\ uiQueue' \in failed
        \/ pc' = "testing" /\ uiQueue' = uiQueue
        BY <1>8, <2>1, Queue DEF CheckIface, emit, failed
  <2> QED BY <2>1, <2>2, <2>3, Queue DEF Token, active, loop, failed
<1>9. CASE HandleBeacon
      BY <1>9 DEF Token, SharedOK, WorkerOK, Places, active, loop, failed, stopping,
         HandleBeacon, mainFrame, status
<1>10. CASE HandleStation
      BY <1>10 DEF Token, SharedOK, WorkerOK, Places, active, loop, failed, stopping,
         HandleStation, mainFrame, status
<1>11. CASE EmitCandidate
      BY <1>11 DEF Token, SharedOK, WorkerOK, Places, active, loop, failed, stopping,
         EmitCandidate, mainFrame, status
<1>12. CASE Close
      BY <1>12 DEF Token, SharedOK, WorkerOK, Places, active, loop, failed, stopping, Close,
         catchesOnly, status
<1>13. CASE ClearHandle
      BY <1>13 DEF Token, SharedOK, WorkerOK, Places, active, loop, failed, stopping,
         ClearHandle, catchesOnly, mainFrame, status
<1>14. CASE ThreadEnds
      BY <1>14 DEF Token, SharedOK, WorkerOK, Places, active, loop, failed, stopping,
         ThreadEnds, catchesOnly, mainFrame, status
<1>15. CASE StartThread
      BY <1>15 DEF Token, SharedOK, WorkerOK, Places, active, loop, failed, stopping,
         StartThread, shared, status
<1>16. CASE DeliverStarted
  <2>1. uiQueue \in {<<"started">>, <<"started", "error">>} /\ ~retryVisible'
        BY <1>16, Queue DEF DeliverStarted, SharedOK
  <2>2. posted = 0 /\ ~retryVisible /\ pc \notin {"absent", "opening"}
        BY <2>1, Queue DEF Token
  <2>3. UNCHANGED <<posted, pc, stop>>
        BY <1>16 DEF DeliverStarted, uiFrame, workerFrame, worker
  <2>4. CASE uiQueue = <<"started">>
    <3>1. uiQueue' = <<>> /\ uiQueue \notin failed
          BY <1>16, <2>4, Queue DEF DeliverStarted, failed
    <3> QED BY <2>1, <2>2, <2>3, <3>1, Queue DEF Token, active, loop, failed
  <2>5. CASE uiQueue = <<"started", "error">>
    <3>1. uiQueue' = <<"error">> /\ uiQueue \in failed /\ uiQueue' \in failed
          BY <1>16, <2>5, Queue DEF DeliverStarted, failed
    <3> QED BY <2>1, <2>2, <2>3, <3>1, Queue DEF Token, active, loop
  <2> QED BY <2>1, <2>4, <2>5
<1>17. CASE DeliverError
  <2>1. uiQueue = <<"error">> /\ uiQueue' = <<>> /\ retryVisible'
        BY <1>17, Queue DEF DeliverError, SharedOK
  <2>2. posted = 0 /\ pc \notin active \cup {"absent"}
        BY <2>1, Queue DEF Token, failed, active
  <2>3. UNCHANGED <<posted, pc, stop>>
        BY <1>17 DEF DeliverError, uiFrame, workerFrame, worker
  <2> QED BY <2>1, <2>2, <2>3, Queue DEF Token, active, loop, failed
<1>18. CASE RetryClicked
      BY <1>18 DEF Token, SharedOK, WorkerOK, Places, active, loop, failed, stopping,
         RetryClicked, uiFrame, worker, workerFrame
<1>19. CASE StopStore
      BY <1>19 DEF Token, SharedOK, WorkerOK, Places, active, loop, failed, stopping,
         StopStore, shutdownFrame, status, worker
<1>20. CASE ThreadDies
  <2>1. /\ UNCHANGED <<posted, uiQueue, retryVisible, stop>>
        /\ stop /\ pc' = "killed"
        BY <1>20 DEF ThreadDies, Places, stopping, shared, status
  <2> QED BY <2>1 DEF Token, active, loop
<1>21. CASE IfaceChanges \/ HopperHops \/ Settings \/ PrepareFails \/ CloseBox \/ FlowWritesLabel
          \/ ForgetSeen \/ Quit \/ HopperReturned \/ LeaveLoop \/ HopperJoined \/ LookAtHandle
          \/ BreakLoop \/ QuitThread \/ WaitEnds \/ Terminate \/ TerminatedEnds \/ Exit
  <2>1. UNCHANGED <<posted, uiQueue, retryVisible, pc, stop>>
        BY <1>21 DEF IfaceChanges, HopperHops, Settings, PrepareFails, CloseBox,
           FlowWritesLabel, ForgetSeen, Quit, HopperReturned, LeaveLoop, HopperJoined,
           LookAtHandle, BreakLoop, QuitThread, WaitEnds, Terminate, TerminatedEnds, Exit,
           mainOnly, shared, shutdownFrame, status, uiFrame, worker, workerFrame
  <2> QED BY <2>1 DEF Token, active, loop, failed, stopping
<1> QED BY <1>1, <1>2, <1>3, <1>4, <1>5, <1>6, <1>7, <1>8, <1>9, <1>10, <1>11, <1>12, <1>13,
       <1>14, <1>15, <1>16, <1>17, <1>18, <1>19, <1>20, <1>21, Zenon DEF Next, WorkerStep,
       MainStep, Deliver, Shutdown

\* How far the shutdown is and where the worker is.
LEMMA PlacesKept ==
    ASSUME Places, WorkerOK, CleanExit, Next
    PROVE  Places'
<1>1. CASE RunBegins
      BY <1>1 DEF Places, WorkerOK, CleanExit, loop, stopping, RunBegins, catchesOnly,
         hopping, mainFrame
<1>2. CASE Open
  <2>1. pc' \in {"testing", "idle"} /\ pc = "opening" /\ (breakLoop' => breakLoop)
        BY <1>2 DEF Open
  <2>2. UNCHANGED <<main, stop, threadQuit, hopper>>
        BY <1>2 DEF Open, mainFrame, hopping
  <2> QED BY <2>1, <2>2 DEF Places, stopping
<1>3. CASE Test
      BY <1>3 DEF Places, WorkerOK, CleanExit, loop, stopping, Test, catchesOnly, hopping,
         mainFrame
<1>4. CASE Timeout
      BY <1>4 DEF Places, WorkerOK, CleanExit, loop, stopping, Timeout, catchesOnly,
         countRead, hopping, mainFrame
<1>5. CASE Broken
      BY <1>5 DEF Places, WorkerOK, CleanExit, loop, stopping, Broken, catchesOnly, countRead,
         hopping, mainFrame
<1>6. CASE ReadError
      BY <1>6 DEF Places, WorkerOK, CleanExit, loop, stopping, ReadError, catchesOnly,
         countRead, emit, hopping, mainFrame
<1>7. CASE Packet
      BY <1>7 DEF Places, WorkerOK, CleanExit, loop, stopping, Packet, countRead, hopping,
         mainFrame
<1>8. CASE CheckIface
      BY <1>8 DEF Places, WorkerOK, CleanExit, loop, stopping, CheckIface, catchesOnly, emit,
         hopping, mainFrame
<1>9. CASE HandleBeacon
      BY <1>9 DEF Places, WorkerOK, CleanExit, loop, stopping, HandleBeacon, hopping,
         mainFrame
<1>10. CASE HandleStation
      BY <1>10 DEF Places, WorkerOK, CleanExit, loop, stopping, HandleStation, hopping,
         mainFrame
<1>11. CASE EmitCandidate
      BY <1>11 DEF Places, WorkerOK, CleanExit, loop, stopping, EmitCandidate, hopping,
         mainFrame
<1>12. CASE Close
      BY <1>12 DEF Places, WorkerOK, CleanExit, loop, stopping, Close, catchesOnly, hopping
<1>13. CASE ClearHandle
      BY <1>13 DEF Places, WorkerOK, CleanExit, loop, stopping, ClearHandle, catchesOnly,
         hopping, mainFrame
<1>14. CASE ThreadEnds
      BY <1>14 DEF Places, WorkerOK, CleanExit, loop, stopping, ThreadEnds, catchesOnly,
         hopping, mainFrame
<1>15. CASE HopperHops
      BY <1>15 DEF Places, WorkerOK, CleanExit, loop, stopping, HopperHops, mainOnly, shared,
         worker, Hopper!Hop
<1>16. CASE Settings
      BY <1>16 DEF Places, WorkerOK, CleanExit, loop, stopping, Settings, hopping, mainOnly,
         shared, worker, Hopper!Start
<1>17. CASE PrepareFails
      BY <1>17 DEF Places, WorkerOK, CleanExit, loop, stopping, PrepareFails, mainOnly,
         shared, worker, Hopper!Stop
<1>18. CASE StartThread
      BY <1>18 DEF Places, WorkerOK, CleanExit, loop, stopping, StartThread, hopping, shared
<1>19. CASE HopperReturned
      BY <1>19 DEF Places, WorkerOK, CleanExit, loop, stopping, HopperReturned, mainOnly,
         shared, worker, Hopper!Joined
<1>20. CASE LeaveLoop
      BY <1>20 DEF Places, WorkerOK, CleanExit, loop, stopping, LeaveLoop, shared, worker,
         Hopper!Stop
<1>21. CASE HopperJoined
      BY <1>21 DEF Places, WorkerOK, CleanExit, loop, stopping, HopperJoined, mainOnly,
         shared, worker, Hopper!Joined
<1>22. CASE StopStore
      BY <1>22 DEF Places, WorkerOK, CleanExit, loop, stopping, StopStore, hopping,
         shutdownFrame, worker
<1>23. CASE LookAtHandle
      BY <1>23 DEF Places, WorkerOK, CleanExit, loop, stopping, LookAtHandle, hopping,
         shutdownFrame, worker
<1>24. CASE BreakLoop
      BY <1>24 DEF Places, WorkerOK, CleanExit, loop, stopping, BreakLoop, hopping,
         shutdownFrame, worker
<1>25. CASE QuitThread
      BY <1>25 DEF Places, WorkerOK, CleanExit, loop, stopping, QuitThread, hopping,
         shutdownFrame, worker
<1>26. CASE WaitEnds \/ Terminate \/ TerminatedEnds
      BY <1>26 DEF Places, WorkerOK, CleanExit, loop, stopping, WaitEnds, Terminate,
         TerminatedEnds, hopping, mainOnly, shared, worker
<1>27. CASE ThreadDies
      BY <1>27 DEF Places, WorkerOK, CleanExit, loop, stopping, ThreadDies, shared, hopping
<1>28. CASE Exit
      BY <1>28 DEF Places, WorkerOK, CleanExit, loop, stopping, Exit, hopping, mainOnly,
         shared, worker
<1>29. CASE IfaceChanges \/ DeliverStarted \/ DeliverError \/ CloseBox \/ RetryClicked
          \/ FlowWritesLabel \/ ForgetSeen \/ Quit
  <2>1. UNCHANGED <<main, pc, stop, threadQuit, breakLoop, hopper>>
        BY <1>29 DEF IfaceChanges, DeliverStarted, DeliverError, CloseBox, RetryClicked,
           FlowWritesLabel, ForgetSeen, Quit, hopping, shared, uiFrame, worker, workerFrame
  <2> QED BY <2>1 DEF Places, loop, stopping
<1> QED BY <1>1, <1>2, <1>3, <1>4, <1>5, <1>6, <1>7, <1>8, <1>9, <1>10, <1>11, <1>12, <1>13,
       <1>14, <1>15, <1>16, <1>17, <1>18, <1>19, <1>20, <1>21, <1>22, <1>23, <1>24, <1>25,
       <1>26, <1>27, <1>28, <1>29, Zenon DEF Next, WorkerStep, MainStep, Deliver, Shutdown

\* Nobody leaves an event loop that was not entered.
LEMMA BegunKept ==
    ASSUME Begun, Next
    PROVE  Begun'
<1>1. CASE Settings
      BY <1>1 DEF Begun, Settings, mainOnly, Hopper!Start
<1>2. CASE PrepareFails
      BY <1>2 DEF Begun, PrepareFails, mainOnly, Hopper!Stop
<1>3. CASE StartThread
      BY <1>3 DEF Begun, StartThread
<1>4. CASE Quit
      BY <1>4 DEF Begun, Quit, uiFrame, workerFrame
<1>5. CASE HopperReturned
      BY <1>5 DEF Begun, HopperReturned, mainOnly, Hopper!Joined
<1>6. CASE LeaveLoop
      BY <1>6 DEF Begun, LeaveLoop, Hopper!Stop
<1>7. CASE HopperJoined
      BY <1>7 DEF Begun, HopperJoined, mainOnly, Hopper!Joined
<1>8. CASE StopStore
      BY <1>8 DEF Begun, StopStore, shutdownFrame
<1>9. CASE LookAtHandle
      BY <1>9 DEF Begun, LookAtHandle, shutdownFrame
<1>10. CASE BreakLoop
      BY <1>10 DEF Begun, BreakLoop, shutdownFrame
<1>11. CASE QuitThread
      BY <1>11 DEF Begun, QuitThread, shutdownFrame
<1>12. CASE WaitEnds \/ Terminate \/ TerminatedEnds
      BY <1>12 DEF Begun, WaitEnds, Terminate, TerminatedEnds, mainOnly
<1>13. CASE ThreadDies
      BY <1>13 DEF Begun, ThreadDies, shared
<1>14. CASE Exit
      BY <1>14 DEF Begun, Exit, mainOnly
<1>15. CASE RunBegins \/ Open \/ Test \/ Timeout \/ Broken \/ ReadError \/ Packet \/ CheckIface
          \/ HandleBeacon \/ HandleStation \/ EmitCandidate \/ Close \/ ClearHandle \/ ThreadEnds
          \/ IfaceChanges \/ HopperHops \/ DeliverStarted \/ DeliverError \/ CloseBox \/ RetryClicked
          \/ FlowWritesLabel \/ ForgetSeen
  <2>1. UNCHANGED <<main, quitting>>
        BY <1>15 DEF RunBegins, Open, Test, Timeout, Broken, ReadError, Packet, CheckIface,
           HandleBeacon, HandleStation, EmitCandidate, Close, ClearHandle, ThreadEnds,
           IfaceChanges, HopperHops, DeliverStarted, DeliverError, CloseBox, RetryClicked,
           FlowWritesLabel, ForgetSeen, catchesOnly, countRead, emit, mainFrame, mainOnly,
           uiFrame, workerFrame
  <2> QED BY <2>1 DEF Begun
<1> QED BY <1>1, <1>2, <1>3, <1>4, <1>5, <1>6, <1>7, <1>8, <1>9, <1>10, <1>11, <1>12, <1>13,
       <1>14, <1>15, Zenon DEF Next, WorkerStep, MainStep, Deliver, Shutdown

\* main deletes the worker after its thread is over.
LEMMA CleanExitKept ==
    ASSUME CleanExit, Places, Next
    PROVE  CleanExit'
<1>1. CASE RunBegins
      BY <1>1 DEF CleanExit, Places, stopping, RunBegins, catchesOnly, hopping, mainFrame
<1>2. CASE Open
      BY <1>2 DEF CleanExit, Places, stopping, Open, catchesOnly, emit, hopping, mainFrame
<1>3. CASE Test
      BY <1>3 DEF CleanExit, Places, stopping, Test, catchesOnly, hopping, mainFrame
<1>4. CASE Timeout
      BY <1>4 DEF CleanExit, Places, stopping, Timeout, catchesOnly, countRead, hopping,
         mainFrame
<1>5. CASE Broken
      BY <1>5 DEF CleanExit, Places, stopping, Broken, catchesOnly, countRead, hopping,
         mainFrame
<1>6. CASE ReadError
      BY <1>6 DEF CleanExit, Places, stopping, ReadError, catchesOnly, countRead, emit,
         hopping, mainFrame
<1>7. CASE Packet
      BY <1>7 DEF CleanExit, Places, stopping, Packet, countRead, hopping, mainFrame
<1>8. CASE CheckIface
      BY <1>8 DEF CleanExit, Places, stopping, CheckIface, catchesOnly, emit, hopping,
         mainFrame
<1>9. CASE HandleBeacon
      BY <1>9 DEF CleanExit, Places, stopping, HandleBeacon, hopping, mainFrame
<1>10. CASE HandleStation
      BY <1>10 DEF CleanExit, Places, stopping, HandleStation, hopping, mainFrame
<1>11. CASE EmitCandidate
      BY <1>11 DEF CleanExit, Places, stopping, EmitCandidate, hopping, mainFrame
<1>12. CASE Close
      BY <1>12 DEF CleanExit, Places, stopping, Close, catchesOnly, hopping
<1>13. CASE ClearHandle
      BY <1>13 DEF CleanExit, Places, stopping, ClearHandle, catchesOnly, hopping, mainFrame
<1>14. CASE ThreadEnds
      BY <1>14 DEF CleanExit, Places, stopping, ThreadEnds, catchesOnly, hopping, mainFrame
<1>15. CASE HopperHops
      BY <1>15 DEF CleanExit, Places, stopping, HopperHops, mainOnly, worker, Hopper!Hop
<1>16. CASE Settings
      BY <1>16 DEF CleanExit, Places, stopping, Settings, hopping, mainOnly, worker,
         Hopper!Start
<1>17. CASE PrepareFails
      BY <1>17 DEF CleanExit, Places, stopping, PrepareFails, mainOnly, worker, Hopper!Stop
<1>18. CASE StartThread
      BY <1>18 DEF CleanExit, Places, stopping, StartThread, hopping
<1>19. CASE HopperReturned
      BY <1>19 DEF CleanExit, Places, stopping, HopperReturned, mainOnly, worker,
         Hopper!Joined
<1>20. CASE LeaveLoop
      BY <1>20 DEF CleanExit, Places, stopping, LeaveLoop, worker, Hopper!Stop
<1>21. CASE HopperJoined
      BY <1>21 DEF CleanExit, Places, stopping, HopperJoined, mainOnly, worker, Hopper!Joined
<1>22. CASE StopStore
      BY <1>22 DEF CleanExit, Places, stopping, StopStore, hopping, shutdownFrame, worker
<1>23. CASE LookAtHandle
      BY <1>23 DEF CleanExit, Places, stopping, LookAtHandle, hopping, shutdownFrame, worker
<1>24. CASE BreakLoop
      BY <1>24 DEF CleanExit, Places, stopping, BreakLoop, hopping, shutdownFrame, worker
<1>25. CASE QuitThread
      BY <1>25 DEF CleanExit, Places, stopping, QuitThread, hopping, shutdownFrame, worker
<1>26. CASE WaitEnds \/ Terminate \/ TerminatedEnds
      BY <1>26 DEF CleanExit, Places, stopping, WaitEnds, Terminate, TerminatedEnds, hopping,
         mainOnly, worker
<1>27. CASE ThreadDies
      BY <1>27 DEF CleanExit, Places, stopping, ThreadDies, shared, hopping
<1>28. CASE Exit
      BY <1>28 DEF CleanExit, Places, stopping, Exit, hopping, mainOnly, worker
<1>29. CASE IfaceChanges \/ DeliverStarted \/ DeliverError \/ CloseBox \/ RetryClicked
          \/ FlowWritesLabel \/ ForgetSeen \/ Quit
  <2>1. UNCHANGED <<main, pc, hopper>>
        BY <1>29 DEF IfaceChanges, DeliverStarted, DeliverError, CloseBox, RetryClicked,
           FlowWritesLabel, ForgetSeen, Quit, hopping, uiFrame, worker, workerFrame
  <2> QED BY <2>1 DEF CleanExit, stopping
<1> QED BY <1>1, <1>2, <1>3, <1>4, <1>5, <1>6, <1>7, <1>8, <1>9, <1>10, <1>11, <1>12, <1>13,
       <1>14, <1>15, <1>16, <1>17, <1>18, <1>19, <1>20, <1>21, <1>22, <1>23, <1>24, <1>25,
       <1>26, <1>27, <1>28, <1>29, Zenon DEF Next, WorkerStep, MainStep, Deliver, Shutdown

\* After a read that came too late the loop is left at its next test.
LEMMA ReadsKept ==
    ASSUME Reads, Places, SharedOK, WorkerOK, Next
    PROVE  Reads'
<1>1. CASE RunBegins
      BY <1>1 DEF Reads, Places, SharedOK, WorkerOK, loop, stopping, RunBegins, catchesOnly,
         mainFrame
<1>2. CASE Open
      BY <1>2 DEF Reads, Places, SharedOK, WorkerOK, loop, stopping, Open, catchesOnly, emit,
         mainFrame
<1>3. CASE Test
      BY <1>3 DEF Reads, Places, SharedOK, WorkerOK, loop, stopping, Test, catchesOnly,
         mainFrame
<1>4. CASE Timeout
      BY <1>4 DEF Reads, Places, SharedOK, WorkerOK, loop, stopping, Timeout, catchesOnly,
         countRead, mainFrame
<1>5. CASE Broken
      BY <1>5 DEF Reads, Places, SharedOK, WorkerOK, loop, stopping, Broken, catchesOnly,
         countRead, mainFrame
<1>6. CASE ReadError
      BY <1>6 DEF Reads, Places, SharedOK, WorkerOK, loop, stopping, ReadError, catchesOnly,
         countRead, emit, mainFrame
<1>7. CASE Packet
      BY <1>7 DEF Reads, Places, SharedOK, WorkerOK, loop, stopping, Packet, countRead,
         mainFrame
<1>8. CASE CheckIface
      BY <1>8 DEF Reads, Places, SharedOK, WorkerOK, loop, stopping, CheckIface, catchesOnly,
         emit, mainFrame
<1>9. CASE HandleBeacon
      BY <1>9 DEF Reads, Places, SharedOK, WorkerOK, loop, stopping, HandleBeacon, mainFrame
<1>10. CASE HandleStation
      BY <1>10 DEF Reads, Places, SharedOK, WorkerOK, loop, stopping, HandleStation, mainFrame
<1>11. CASE EmitCandidate
      BY <1>11 DEF Reads, Places, SharedOK, WorkerOK, loop, stopping, EmitCandidate, mainFrame
<1>12. CASE Close
      BY <1>12 DEF Reads, Places, SharedOK, WorkerOK, loop, stopping, Close, catchesOnly
<1>13. CASE ClearHandle
      BY <1>13 DEF Reads, Places, SharedOK, WorkerOK, loop, stopping, ClearHandle,
         catchesOnly, mainFrame
<1>14. CASE ThreadEnds
      BY <1>14 DEF Reads, Places, SharedOK, WorkerOK, loop, stopping, ThreadEnds, catchesOnly,
         mainFrame
<1>15. CASE StartThread
      BY <1>15 DEF Reads, Places, SharedOK, WorkerOK, loop, stopping, StartThread, shared
<1>16. CASE StopStore
      BY <1>16 DEF Reads, Places, SharedOK, WorkerOK, loop, stopping, StopStore,
         shutdownFrame, worker
<1>17. CASE ThreadDies
      BY <1>17 DEF Reads, Places, SharedOK, WorkerOK, loop, stopping, ThreadDies, shared
<1>18. CASE IfaceChanges \/ HopperHops \/ Settings \/ PrepareFails \/ DeliverStarted
          \/ DeliverError \/ CloseBox \/ RetryClicked \/ FlowWritesLabel \/ ForgetSeen \/ Quit
          \/ HopperReturned \/ LeaveLoop \/ HopperJoined \/ LookAtHandle \/ BreakLoop \/ QuitThread
          \/ WaitEnds \/ Terminate \/ TerminatedEnds \/ Exit
  <2>1. UNCHANGED <<stop, readsAfterStop, pc>>
        BY <1>18 DEF IfaceChanges, HopperHops, Settings, PrepareFails, DeliverStarted,
           DeliverError, CloseBox, RetryClicked, FlowWritesLabel, ForgetSeen, Quit,
           HopperReturned, LeaveLoop, HopperJoined, LookAtHandle, BreakLoop, QuitThread,
           WaitEnds, Terminate, TerminatedEnds, Exit, mainOnly, shared, shutdownFrame, uiFrame,
           worker, workerFrame
  <2> QED BY <2>1 DEF Reads, loop, stopping
<1> QED BY <1>1, <1>2, <1>3, <1>4, <1>5, <1>6, <1>7, <1>8, <1>9, <1>10, <1>11, <1>12, <1>13,
       <1>14, <1>15, <1>16, <1>17, <1>18, Zenon DEF Next, WorkerStep, MainStep, Deliver,
       Shutdown

\* captureFatal_ remembers the box that was shown.
LEMMA WarnedKept ==
    ASSUME Warned, MainOK, Next
    PROVE  Warned'
<1>1. CASE DeliverStarted
      BY <1>1 DEF Warned, MainOK, DeliverStarted, uiFrame, workerFrame
<1>2. CASE DeliverError
      BY <1>2 DEF Warned, MainOK, DeliverError, uiFrame, workerFrame
<1>3. CASE RetryClicked
      BY <1>3 DEF Warned, MainOK, RetryClicked, uiFrame, workerFrame
<1>4. CASE RunBegins \/ Open \/ Test \/ Timeout \/ Broken \/ ReadError \/ Packet \/ CheckIface
          \/ HandleBeacon \/ HandleStation \/ EmitCandidate \/ Close \/ ClearHandle \/ ThreadEnds
          \/ IfaceChanges \/ HopperHops \/ Settings \/ PrepareFails \/ StartThread \/ CloseBox
          \/ FlowWritesLabel \/ ForgetSeen \/ Quit \/ HopperReturned \/ LeaveLoop \/ HopperJoined
          \/ StopStore \/ LookAtHandle \/ BreakLoop \/ QuitThread \/ WaitEnds \/ Terminate
          \/ TerminatedEnds \/ ThreadDies \/ Exit
  <2>1. UNCHANGED <<warnings, captureFatal, retryVisible>>
        BY <1>4 DEF RunBegins, Open, Test, Timeout, Broken, ReadError, Packet, CheckIface,
           HandleBeacon, HandleStation, EmitCandidate, Close, ClearHandle, ThreadEnds,
           IfaceChanges, HopperHops, Settings, PrepareFails, StartThread, CloseBox,
           FlowWritesLabel, ForgetSeen, Quit, HopperReturned, LeaveLoop, HopperJoined,
           StopStore, LookAtHandle, BreakLoop, QuitThread, WaitEnds, Terminate, TerminatedEnds,
           ThreadDies, Exit, catchesOnly, countRead, emit, mainFrame, mainOnly, shutdownFrame,
           status, uiFrame, workerFrame
  <2> QED BY <2>1 DEF Warned
<1> QED BY <1>1, <1>2, <1>3, <1>4, Zenon DEF Next, WorkerStep, MainStep, Deliver, Shutdown

\* run sets the handle, closes it and clears it; requestStop only reads it.
LEMMA HandleIsCurrentKept ==
    ASSUME HandleIsCurrent, WorkerOK, Places, Next
    PROVE  HandleIsCurrent'
<1>1. CASE RunBegins
      BY <1>1 DEF HandleIsCurrent, WorkerOK, Places, loop, RunBegins, catchesOnly, mainFrame
<1>2. CASE Open
      BY <1>2 DEF HandleIsCurrent, WorkerOK, Places, loop, Open, catchesOnly, emit, mainFrame
<1>3. CASE Test
      BY <1>3 DEF HandleIsCurrent, WorkerOK, Places, loop, Test, catchesOnly, mainFrame
<1>4. CASE Timeout
      BY <1>4 DEF HandleIsCurrent, WorkerOK, Places, loop, Timeout, catchesOnly, countRead,
         mainFrame
<1>5. CASE Broken
      BY <1>5 DEF HandleIsCurrent, WorkerOK, Places, loop, Broken, catchesOnly, countRead,
         mainFrame
<1>6. CASE ReadError
      BY <1>6 DEF HandleIsCurrent, WorkerOK, Places, loop, ReadError, catchesOnly, countRead,
         emit, mainFrame
<1>7. CASE Packet
      BY <1>7 DEF HandleIsCurrent, WorkerOK, Places, loop, Packet, countRead, mainFrame
<1>8. CASE CheckIface
      BY <1>8 DEF HandleIsCurrent, WorkerOK, Places, loop, CheckIface, catchesOnly, emit,
         mainFrame
<1>9. CASE HandleBeacon
      BY <1>9 DEF HandleIsCurrent, WorkerOK, Places, loop, HandleBeacon, mainFrame
<1>10. CASE HandleStation
      BY <1>10 DEF HandleIsCurrent, WorkerOK, Places, loop, HandleStation, mainFrame
<1>11. CASE EmitCandidate
      BY <1>11 DEF HandleIsCurrent, WorkerOK, Places, loop, EmitCandidate, mainFrame
<1>12. CASE Close
      BY <1>12 DEF HandleIsCurrent, WorkerOK, Places, loop, Close, catchesOnly
<1>13. CASE ClearHandle
      BY <1>13 DEF HandleIsCurrent, WorkerOK, Places, loop, ClearHandle, catchesOnly,
         mainFrame
<1>14. CASE ThreadEnds
      BY <1>14 DEF HandleIsCurrent, WorkerOK, Places, loop, ThreadEnds, catchesOnly, mainFrame
<1>15. CASE Settings
      BY <1>15 DEF HandleIsCurrent, WorkerOK, Places, loop, Settings, mainOnly, shared,
         worker, Hopper!Start
<1>16. CASE PrepareFails
      BY <1>16 DEF HandleIsCurrent, WorkerOK, Places, loop, PrepareFails, mainOnly, shared,
         worker, Hopper!Stop
<1>17. CASE StartThread
      BY <1>17 DEF HandleIsCurrent, WorkerOK, Places, loop, StartThread, shared
<1>18. CASE HopperReturned
      BY <1>18 DEF HandleIsCurrent, WorkerOK, Places, loop, HopperReturned, mainOnly, shared,
         worker, Hopper!Joined
<1>19. CASE LeaveLoop
      BY <1>19 DEF HandleIsCurrent, WorkerOK, Places, loop, LeaveLoop, shared, worker,
         Hopper!Stop
<1>20. CASE HopperJoined
      BY <1>20 DEF HandleIsCurrent, WorkerOK, Places, loop, HopperJoined, mainOnly, shared,
         worker, Hopper!Joined
<1>21. CASE StopStore
      BY <1>21 DEF HandleIsCurrent, WorkerOK, Places, loop, StopStore, shutdownFrame, worker
<1>22. CASE LookAtHandle
      BY <1>22 DEF HandleIsCurrent, WorkerOK, Places, loop, LookAtHandle, shutdownFrame,
         worker
<1>23. CASE BreakLoop
      BY <1>23 DEF HandleIsCurrent, WorkerOK, Places, loop, BreakLoop, shutdownFrame, worker
<1>24. CASE QuitThread
      BY <1>24 DEF HandleIsCurrent, WorkerOK, Places, loop, QuitThread, shutdownFrame, worker
<1>25. CASE WaitEnds \/ Terminate \/ TerminatedEnds
      BY <1>25 DEF HandleIsCurrent, WorkerOK, Places, loop, WaitEnds, Terminate, TerminatedEnds,
         mainOnly, shared, worker
<1>26. CASE ThreadDies
      BY <1>26 DEF HandleIsCurrent, WorkerOK, Places, loop, ThreadDies, shared
<1>27. CASE Exit
      BY <1>27 DEF HandleIsCurrent, WorkerOK, Places, loop, Exit, mainOnly, shared, worker
<1>28. CASE IfaceChanges \/ HopperHops \/ DeliverStarted \/ DeliverError \/ CloseBox
          \/ RetryClicked \/ FlowWritesLabel \/ ForgetSeen \/ Quit
  <2>1. UNCHANGED <<handle, pc, main, mainHandle>>
        BY <1>28 DEF IfaceChanges, HopperHops, DeliverStarted, DeliverError, CloseBox,
           RetryClicked, FlowWritesLabel, ForgetSeen, Quit, mainOnly, shared, uiFrame,
           worker, workerFrame
  <2> QED BY <2>1 DEF HandleIsCurrent, loop
<1> QED BY <1>1, <1>2, <1>3, <1>4, <1>5, <1>6, <1>7, <1>8, <1>9, <1>10, <1>11, <1>12, <1>13,
       <1>14, <1>15, <1>16, <1>17, <1>18, <1>19, <1>20, <1>21, <1>22, <1>23, <1>24, <1>25,
       <1>26, <1>27, <1>28, Zenon DEF Next, WorkerStep, MainStep, Deliver, Shutdown

\* The three writers of the label and the button.
LEMMA LabelAgreesKept ==
    ASSUME LabelAgrees, MainOK, Next
    PROVE  LabelAgrees'
<1>1. CASE DeliverStarted
      BY <1>1 DEF LabelAgrees, MainOK, DeliverStarted, uiFrame, workerFrame
<1>2. CASE DeliverError
      BY <1>2 DEF LabelAgrees, MainOK, DeliverError, uiFrame, workerFrame
<1>3. CASE RetryClicked
      BY <1>3 DEF LabelAgrees, MainOK, RetryClicked, uiFrame, workerFrame
<1>4. CASE FlowWritesLabel
      BY <1>4 DEF LabelAgrees, MainOK, FlowWritesLabel, uiFrame, workerFrame
<1>5. CASE RunBegins \/ Open \/ Test \/ Timeout \/ Broken \/ ReadError \/ Packet \/ CheckIface
          \/ HandleBeacon \/ HandleStation \/ EmitCandidate \/ Close \/ ClearHandle \/ ThreadEnds
          \/ IfaceChanges \/ HopperHops \/ Settings \/ PrepareFails \/ StartThread \/ CloseBox
          \/ ForgetSeen \/ Quit \/ HopperReturned \/ LeaveLoop \/ HopperJoined \/ StopStore
          \/ LookAtHandle \/ BreakLoop \/ QuitThread \/ WaitEnds \/ Terminate
          \/ TerminatedEnds \/ ThreadDies \/ Exit
  <2>1. UNCHANGED <<retryVisible, shadowed, label>>
        BY <1>5 DEF RunBegins, Open, Test, Timeout, Broken, ReadError, Packet, CheckIface,
           HandleBeacon, HandleStation, EmitCandidate, Close, ClearHandle, ThreadEnds,
           IfaceChanges, HopperHops, Settings, PrepareFails, StartThread, CloseBox,
           ForgetSeen, Quit, HopperReturned, LeaveLoop, HopperJoined, StopStore,
           LookAtHandle, BreakLoop, QuitThread, WaitEnds, Terminate, TerminatedEnds, ThreadDies,
           Exit, catchesOnly, countRead, emit, mainFrame, mainOnly, shutdownFrame, status, uiFrame,
           workerFrame
  <2> QED BY <2>1 DEF LabelAgrees
<1> QED BY <1>1, <1>2, <1>3, <1>4, <1>5, Zenon DEF Next, WorkerStep, MainStep, Deliver, Shutdown

-----------------------------------------------------------------------------
(* The frames and what is reported of them.                                 *)

\* A result that parse accepts of a frame the filter admits: the sender, near
\* enough, individual, and not the AP it is reported with.
LEMMA ParseResult ==
    ASSUME NEW f \in Frames, f.kind \in filter, NEW r \in parse(f), r.ok
    PROVE  /\ r.sta = f.addr2 /\ r.sta \in Addr /\ r.ap \in Addr
           /\ isStation(r.sta) /\ r.sta # r.ap
           /\ f.rt.signal >= Threshold
           /\ f.len >= f.rt.len + 22 => r.ap = f.addr3
<1> DEFINE readable == /\ f.len >= 16 /\ extractRadiotap(f)
                       /\ f.rt.signal >= Threshold /\ f.len >= f.rt.len + 16
           results  == IF ~readable THEN {NoResult}
                       ELSE IF f.kind \in {"auth", "assoc-req", "reassoc-req"} THEN management(f)
                       ELSE IF f.kind = "data" THEN data(f)
                       ELSE {NoResult}
<1>0. ~NoResult.ok
      BY DEF NoResult
<1>1. PICK q \in results : r = IF q.ok /\ isStation(q.sta) THEN q ELSE NoResult
      BY Zenon DEF parse
<1>2. q \in results /\ q.ok /\ isStation(q.sta) /\ r = q
      BY <1>0, <1>1
<1>3. f.kind # "data"
      BY DEF filter
<1>4. readable /\ q \in management(f)
      BY <1>0, <1>2, <1>3
<1>5. PICK bssid \in addr3Read(f) :
          q = IF bssid = f.addr2 THEN NoResult ELSE found(f.addr2, bssid)
      BY <1>4 DEF management
<1>6. bssid # f.addr2 /\ q = found(f.addr2, bssid)
      BY <1>0, <1>2, <1>5
<1>7. q.sta = f.addr2 /\ q.ap = bssid
      BY <1>6 DEF found
<1>8. f.addr2 \in Addr /\ f.addr3 \in Addr
      BY CaptureAssumption
<1>9. bssid \in Addr /\ (f.len >= f.rt.len + 22 => bssid = f.addr3)
      BY <1>5, <1>8 DEF addr3Read
<1> QED BY <1>2, <1>4, <1>6, <1>7, <1>8, <1>9

\* What a step that handles a station's frame does.
LEMMA StationHandled ==
    ASSUME HandleStation, Handled, Beacons, DataOK
    PROVE  \/ /\ pc' = "testing" /\ UNCHANGED <<seen, report>> /\ frame' = NoFrame
           \/ /\ pc' = "emitting" /\ UNCHANGED frame /\ frame \in Frames
              /\ report'.sta \notin seen /\ seen' = seen \cup {report'.sta}
              /\ report'.sta \in Addr /\ report'.sta = frame.addr2 /\ isStation(report'.sta)
              /\ report'.sta # report'.ap /\ frame.rt.signal >= Threshold
              /\ frame.len >= frame.rt.len + 22 => report'.ap = frame.addr3
              /\ report'.ssid # "" => report'.ssid \in heard(report'.ap)
<1>1. frame \in Frames /\ frame.kind \in filter
      BY DEF HandleStation, Handled
<1>2. PICK r \in parse(frame) :
          IF r.ok /\ r.sta \notin seen
          THEN /\ seen' = seen \cup {r.sta}
               /\ report' = candidate(r) /\ pc' = "emitting" /\ UNCHANGED frame
          ELSE /\ UNCHANGED <<seen, report>> /\ pc' = "testing" /\ frame' = NoFrame
      BY Zenon DEF HandleStation
<1>3. CASE r.ok /\ r.sta \notin seen
  <2>1. /\ seen' = seen \cup {r.sta} /\ report' = candidate(r)
        /\ pc' = "emitting" /\ frame' = frame
        BY <1>2, <1>3
  <2>2. report'.sta = r.sta /\ report'.ap = r.ap /\ report'.ssid = beaconCache[r.ap].ssid
        BY <2>1 DEF candidate
  <2>3. /\ r.sta = frame.addr2 /\ r.sta \in Addr /\ r.ap \in Addr
        /\ isStation(r.sta) /\ r.sta # r.ap
        /\ frame.rt.signal >= Threshold
        /\ frame.len >= frame.rt.len + 22 => r.ap = frame.addr3
        BY <1>1, <1>3, ParseResult
  <2>4. beaconCache[r.ap].ssid # "" => beaconCache[r.ap].ssid \in heard(r.ap)
        BY <2>3 DEF Beacons
  <2> QED BY <1>1, <1>3, <2>1, <2>2, <2>3, <2>4
<1>4. CASE ~(r.ok /\ r.sta \notin seen)
      BY <1>2, <1>4
<1> QED BY <1>3, <1>4

\* What is counted for a station stays between -1 and 1.
LEMMA DataOKKept ==
    ASSUME DataOK, Handled, Beacons, Counted, Next
    PROVE  DataOK'
<1>1. CASE Packet
      BY <1>1 DEF DataOK, Handled, Beacons, Counted, Packet, countRead, mainFrame
<1>2. CASE HandleBeacon
      BY <1>2 DEF DataOK, Handled, Beacons, Counted, HandleBeacon, mainFrame
<1>3. CASE HandleStation
  <2>1. (frame' = NoFrame \/ frame' = frame) /\ seen' \subseteq Addr /\ report'.sta \in Addr
        BY <1>3, StationHandled DEF DataOK
  <2> QED BY <1>3, <2>1 DEF DataOK, HandleStation
<1>4. CASE EmitCandidate
  <2>1. reported[report.sta] \in {-1, 0}
        BY <1>4 DEF DataOK, Counted, EmitCandidate
  <2>2. reported' \in [Addr -> {-1, 0, 1}]
    <3>1. reported[report.sta] + 1 \in {-1, 0, 1}
          BY <2>1
    <3> QED BY <1>4, <3>1 DEF DataOK, EmitCandidate
  <2>3. report'.sta \in Addr
        BY <1>4, AddrAssumption DEF EmitCandidate, NoReport
  <2> QED BY <1>4, <2>2, <2>3 DEF DataOK, EmitCandidate
<1>5. CASE ForgetSeen
  <2>1. PICK a \in Addr :
            /\ seen' = seen \ {a}
            /\ reported' = [reported EXCEPT
                               ![a] = IF pc = "emitting" /\ report.sta = a THEN -1 ELSE 0]
        BY <1>5 DEF ForgetSeen
  <2>2. reported' \in [Addr -> {-1, 0, 1}]
        BY <2>1 DEF DataOK
  <2> QED BY <1>5, <2>1, <2>2 DEF DataOK, ForgetSeen
<1>6. CASE RunBegins \/ Open \/ Test \/ Timeout \/ Broken \/ ReadError \/ CheckIface \/ Close
          \/ ClearHandle \/ ThreadEnds \/ IfaceChanges \/ HopperHops \/ Settings \/ PrepareFails
          \/ StartThread \/ DeliverStarted \/ DeliverError \/ CloseBox \/ RetryClicked \/ FlowWritesLabel
          \/ Quit \/ HopperReturned \/ LeaveLoop \/ HopperJoined \/ StopStore \/ LookAtHandle
          \/ BreakLoop \/ QuitThread \/ WaitEnds \/ Terminate
          \/ TerminatedEnds \/ ThreadDies \/ Exit
  <2>1. UNCHANGED <<frame, seen, report, reported>>
        BY <1>6 DEF RunBegins, Open, Test, Timeout, Broken, ReadError, CheckIface, Close,
           ClearHandle, ThreadEnds, IfaceChanges, HopperHops, Settings, PrepareFails,
           StartThread, DeliverStarted, DeliverError, CloseBox, RetryClicked,
           FlowWritesLabel, Quit, HopperReturned, LeaveLoop, HopperJoined, StopStore,
           LookAtHandle, BreakLoop, QuitThread, WaitEnds, Terminate, TerminatedEnds, ThreadDies,
           Exit, catchesOnly, countRead, emit, mainFrame, mainOnly, shutdownFrame, uiFrame, worker,
           workerFrame
  <2> QED BY <2>1 DEF DataOK
<1> QED BY <1>1, <1>2, <1>3, <1>4, <1>5, <1>6, Zenon DEF Next, WorkerStep, MainStep, Deliver,
       Shutdown

\* An SSID is entered for the AP it was heard from.
LEMMA BeaconsKept ==
    ASSUME Beacons, Handled, Next
    PROVE  Beacons'
<1>1. CASE HandleBeacon
  <2> DEFINE b == parseBeacon(frame)
             v == [ssid |-> b.ssid, channel |-> b.channel]
  <2>1. frame \in Frames /\ frame.kind = "beacon"
        BY <1>1 DEF HandleBeacon, Handled, beaconOk
  <2>2. b.bssid = frame.addr2 /\ b.bssid \in Addr
        BY <2>1, CaptureAssumption DEF parseBeacon
  <2>3. beaconCache' = [beaconCache EXCEPT ![b.bssid] = v]
        BY <1>1 DEF HandleBeacon
  <2>4. v.ssid \in heard(b.bssid)
        BY <2>1, <2>2 DEF heard
  <2> HIDE DEF b, v
  <2>5. beaconCache' = [a \in Addr |-> beaconCache'[a]]
        BY <2>3 DEF Beacons
  <2>6. \A a \in Addr : beaconCache'[a] = IF a = b.bssid THEN v ELSE beaconCache[a]
        BY <2>2, <2>3 DEF Beacons
  <2> QED BY <2>4, <2>5, <2>6 DEF Beacons
<1>2. CASE RunBegins \/ Open \/ Test \/ Timeout \/ Broken \/ ReadError \/ Packet \/ CheckIface
          \/ HandleStation \/ EmitCandidate \/ Close \/ ClearHandle \/ ThreadEnds \/ IfaceChanges
          \/ HopperHops \/ Settings \/ PrepareFails \/ StartThread \/ DeliverStarted \/ DeliverError
          \/ CloseBox \/ RetryClicked \/ FlowWritesLabel \/ ForgetSeen \/ Quit \/ HopperReturned
          \/ LeaveLoop \/ HopperJoined \/ StopStore \/ LookAtHandle \/ BreakLoop \/ QuitThread
          \/ WaitEnds \/ Terminate
          \/ TerminatedEnds \/ ThreadDies \/ Exit
  <2>1. UNCHANGED <<beaconCache>>
        BY <1>2 DEF RunBegins, Open, Test, Timeout, Broken, ReadError, Packet, CheckIface,
           HandleStation, EmitCandidate, Close, ClearHandle, ThreadEnds, IfaceChanges,
           HopperHops, Settings, PrepareFails, StartThread, DeliverStarted, DeliverError,
           CloseBox, RetryClicked, FlowWritesLabel, ForgetSeen, Quit, HopperReturned,
           LeaveLoop, HopperJoined, StopStore, LookAtHandle, BreakLoop, QuitThread,
           WaitEnds, Terminate, TerminatedEnds, ThreadDies, Exit, catchesOnly, countRead, emit,
           mainFrame, mainOnly, shutdownFrame, uiFrame, worker, workerFrame
  <2> QED BY <2>1 DEF Beacons
<1> QED BY <1>1, <1>2, Zenon DEF Next, WorkerStep, MainStep, Deliver, Shutdown

\* The frame that is handled passed the filter.
LEMMA HandledKept ==
    ASSUME Handled, Beacons, DataOK, Next
    PROVE  Handled'
<1>1. CASE RunBegins
      BY <1>1 DEF Handled, Beacons, DataOK, RunBegins, catchesOnly, mainFrame
<1>2. CASE Open
      BY <1>2 DEF Handled, Beacons, DataOK, Open, catchesOnly, emit, mainFrame
<1>3. CASE Test
      BY <1>3 DEF Handled, Beacons, DataOK, Test, catchesOnly, mainFrame
<1>4. CASE Timeout
      BY <1>4 DEF Handled, Beacons, DataOK, Timeout, catchesOnly, countRead, mainFrame
<1>5. CASE Broken
      BY <1>5 DEF Handled, Beacons, DataOK, Broken, catchesOnly, countRead, mainFrame
<1>6. CASE ReadError
      BY <1>6 DEF Handled, Beacons, DataOK, ReadError, catchesOnly, countRead, emit, mainFrame
<1>7. CASE Packet
  <2> QED BY <1>7 DEF Handled, Packet
<1>8. CASE CheckIface
      BY <1>8 DEF Handled, Beacons, DataOK, CheckIface, catchesOnly, emit, mainFrame
<1>9. CASE HandleBeacon
      BY <1>9 DEF Handled, Beacons, DataOK, HandleBeacon, mainFrame
<1>10. CASE HandleStation
  <2> QED BY <1>10, StationHandled DEF Handled, HandleStation
<1>11. CASE EmitCandidate
      BY <1>11 DEF Handled, Beacons, DataOK, EmitCandidate, mainFrame
<1>12. CASE Close
      BY <1>12 DEF Handled, Beacons, DataOK, Close, catchesOnly
<1>13. CASE ClearHandle
      BY <1>13 DEF Handled, Beacons, DataOK, ClearHandle, catchesOnly, mainFrame
<1>14. CASE ThreadEnds
      BY <1>14 DEF Handled, Beacons, DataOK, ThreadEnds, catchesOnly, mainFrame
<1>15. CASE StartThread
      BY <1>15 DEF Handled, Beacons, DataOK, StartThread
<1>16. CASE ThreadDies
      BY <1>16 DEF Handled, Beacons, DataOK, ThreadDies, shared
<1>17. CASE IfaceChanges \/ HopperHops \/ Settings \/ PrepareFails \/ DeliverStarted
          \/ DeliverError \/ CloseBox \/ RetryClicked \/ FlowWritesLabel \/ ForgetSeen \/ Quit
          \/ HopperReturned \/ LeaveLoop \/ HopperJoined \/ StopStore \/ LookAtHandle \/ BreakLoop
          \/ QuitThread \/ WaitEnds \/ Terminate \/ TerminatedEnds \/ Exit
  <2>1. UNCHANGED <<pc, frame>>
        BY <1>17 DEF IfaceChanges, HopperHops, Settings, PrepareFails, DeliverStarted,
           DeliverError, CloseBox, RetryClicked, FlowWritesLabel, ForgetSeen, Quit,
           HopperReturned, LeaveLoop, HopperJoined, StopStore, LookAtHandle, BreakLoop,
           QuitThread, WaitEnds, Terminate, TerminatedEnds, Exit, mainOnly, shutdownFrame, uiFrame,
           worker, workerFrame
  <2> QED BY <2>1 DEF Handled
<1> QED BY <1>1, <1>2, <1>3, <1>4, <1>5, <1>6, <1>7, <1>8, <1>9, <1>10, <1>11, <1>12, <1>13,
       <1>14, <1>15, <1>16, <1>17, Zenon DEF Next, WorkerStep, MainStep, Deliver, Shutdown

\* A station that is not in seenInSession_ has not been reported, but for a
\* report that was under way when it was forgotten.
LEMMA CountedKept ==
    ASSUME Counted, DataOK, Beacons, Handled, Next
    PROVE  Counted'
<1>1. CASE RunBegins
      BY <1>1 DEF Counted, DataOK, Beacons, Handled, RunBegins, catchesOnly, mainFrame
<1>2. CASE Open
      BY <1>2 DEF Counted, DataOK, Beacons, Handled, Open, catchesOnly, emit, mainFrame
<1>3. CASE Test
      BY <1>3 DEF Counted, DataOK, Beacons, Handled, Test, catchesOnly, mainFrame
<1>4. CASE Timeout
      BY <1>4 DEF Counted, DataOK, Beacons, Handled, Timeout, catchesOnly, countRead,
         mainFrame
<1>5. CASE Broken
      BY <1>5 DEF Counted, DataOK, Beacons, Handled, Broken, catchesOnly, countRead, mainFrame
<1>6. CASE ReadError
      BY <1>6 DEF Counted, DataOK, Beacons, Handled, ReadError, catchesOnly, countRead, emit,
         mainFrame
<1>7. CASE Packet
      BY <1>7 DEF Counted, DataOK, Beacons, Handled, Packet, countRead, mainFrame
<1>8. CASE CheckIface
      BY <1>8 DEF Counted, DataOK, Beacons, Handled, CheckIface, catchesOnly, emit, mainFrame
<1>9. CASE HandleBeacon
      BY <1>9 DEF Counted, DataOK, Beacons, Handled, HandleBeacon, mainFrame
<1>10. CASE HandleStation
  <2>1. UNCHANGED reported /\ pc = "handling"
        BY <1>10 DEF HandleStation
  <2>2. CASE pc' = "testing" /\ UNCHANGED <<seen, report>>
        BY <2>1, <2>2 DEF Counted
  <2>3. CASE pc' = "emitting"
    <3>1. report'.sta \notin seen /\ seen' = seen \cup {report'.sta} /\ report'.sta \in Addr
          BY <1>10, <2>3, StationHandled
    <3>2. reported[report'.sta] <= 0
          BY <3>1 DEF Counted
    <3> QED BY <2>1, <3>1, <3>2 DEF Counted
  <2> QED BY <1>10, <2>2, <2>3, StationHandled
<1>11. CASE EmitCandidate
  <2>1. pc = "emitting" /\ pc' = "testing" /\ seen' = seen
        BY <1>11 DEF EmitCandidate
  <2>2. \A a \in Addr : reported'[a] = IF a = report.sta THEN reported[a] + 1 ELSE reported[a]
    <3>1. reported' = [reported EXCEPT ![report.sta] = reported[report.sta] + 1]
          BY <1>11, Zenon DEF EmitCandidate
    <3> QED BY <3>1 DEF DataOK
  <2>3. report.sta \in Addr /\ (report.sta \notin seen => reported[report.sta] = -1)
        BY <2>1 DEF DataOK, Counted
  <2> QED BY <2>1, <2>2, <2>3 DEF Counted
<1>12. CASE Close
      BY <1>12 DEF Counted, DataOK, Beacons, Handled, Close, catchesOnly
<1>13. CASE ClearHandle
      BY <1>13 DEF Counted, DataOK, Beacons, Handled, ClearHandle, catchesOnly, mainFrame
<1>14. CASE ThreadEnds
      BY <1>14 DEF Counted, DataOK, Beacons, Handled, ThreadEnds, catchesOnly, mainFrame
<1>15. CASE StartThread
      BY <1>15 DEF Counted, DataOK, Beacons, Handled, StartThread
<1>16. CASE ForgetSeen
  <2>1. PICK a \in Addr :
            /\ seen' = seen \ {a}
            /\ reported' = [reported EXCEPT
                               ![a] = IF pc = "emitting" /\ report.sta = a THEN -1 ELSE 0]
        BY <1>16 DEF ForgetSeen
  <2>2. pc' = pc /\ report' = report
        BY <1>16 DEF ForgetSeen
  <2>3. \A k \in Addr : reported'[k] = IF k # a THEN reported[k]
                                      ELSE IF pc = "emitting" /\ report.sta = a THEN -1 ELSE 0
        BY <2>1 DEF DataOK
  <2>4. report.sta \in Addr
        BY DEF DataOK
  <2> QED BY <2>1, <2>2, <2>3, <2>4 DEF Counted
<1>17. CASE ThreadDies
      BY <1>17 DEF Counted, DataOK, Beacons, Handled, ThreadDies, shared
<1>18. CASE IfaceChanges \/ HopperHops \/ Settings \/ PrepareFails \/ DeliverStarted
          \/ DeliverError \/ CloseBox \/ RetryClicked \/ FlowWritesLabel \/ Quit \/ HopperReturned
          \/ LeaveLoop \/ HopperJoined \/ StopStore \/ LookAtHandle \/ BreakLoop \/ QuitThread
          \/ WaitEnds \/ Terminate \/ TerminatedEnds \/ Exit
  <2>1. UNCHANGED <<seen, reported, pc, report>>
        BY <1>18 DEF IfaceChanges, HopperHops, Settings, PrepareFails, DeliverStarted,
           DeliverError, CloseBox, RetryClicked, FlowWritesLabel, Quit, HopperReturned,
           LeaveLoop, HopperJoined, StopStore, LookAtHandle, BreakLoop, QuitThread,
           WaitEnds, Terminate, TerminatedEnds, Exit, mainOnly, shutdownFrame, uiFrame, worker,
           workerFrame
  <2> QED BY <2>1 DEF Counted
<1> QED BY <1>1, <1>2, <1>3, <1>4, <1>5, <1>6, <1>7, <1>8, <1>9, <1>10, <1>11, <1>12, <1>13,
       <1>14, <1>15, <1>16, <1>17, <1>18, Zenon DEF Next, WorkerStep, MainStep, Deliver,
       Shutdown

\* A station in seenInSession_ was reported, or is about to be: the worker
\* enters it and emits it in one go, and forgetting it takes it out again.
LEMMA SeenIsReportedKept ==
    ASSUME SeenIsReported, Forgotten, Counted, DataOK, Beacons, Handled, Places, Next
    PROVE  SeenIsReported' /\ Forgotten'
<1> USE DEF SeenIsReported, Forgotten
<1>1. CASE HandleStation
  <2>1. UNCHANGED reported /\ pc = "handling"
        BY <1>1 DEF HandleStation
  <2>2. CASE pc' = "testing" /\ UNCHANGED <<seen, report>>
        BY <2>1, <2>2
  <2>3. CASE pc' = "emitting"
    <3>1. report'.sta \notin seen /\ seen' = seen \cup {report'.sta} /\ report'.sta \in Addr
          BY <1>1, <2>3, StationHandled
    <3> QED BY <2>1, <2>3, <3>1
  <2> QED BY <1>1, <2>2, <2>3, StationHandled
<1>2. CASE EmitCandidate
  <2>1. pc = "emitting" /\ pc' = "testing" /\ seen' = seen /\ report.sta \in Addr
        BY <1>2 DEF EmitCandidate, DataOK
  <2>2. \A a \in Addr : reported'[a] = IF a = report.sta THEN reported[a] + 1 ELSE reported[a]
    <3>1. reported' = [reported EXCEPT ![report.sta] = reported[report.sta] + 1]
          BY <1>2, Zenon DEF EmitCandidate
    <3> QED BY <3>1 DEF DataOK
  <2>3. \A a \in Addr : reported[a] \in {-1, 0, 1}
        BY DEF DataOK
  <2>4. seen \subseteq Addr /\ reported[report.sta] <= 0
        BY <2>1 DEF DataOK, Counted
  <2>5. Forgotten'
        BY <2>1, <2>2, <2>3
  <2>6. ASSUME NEW a \in seen PROVE reported'[a] = 1
    <3>1. CASE a = report.sta
      <4>1. reported[a] # -1
            BY <2>1, <2>4
      <4>2. reported[a] = 0
            BY <2>1, <2>3, <2>4, <3>1, <4>1
      <4> QED BY <2>1, <2>2, <3>1, <4>2
    <3>2. CASE a # report.sta
          BY <2>1, <2>2, <2>4, <3>2
    <3> QED BY <3>1, <3>2
  <2> QED BY <2>1, <2>5, <2>6
<1>3. CASE ForgetSeen
  <2>1. PICK a \in Addr :
            /\ seen' = seen \ {a}
            /\ reported' = [reported EXCEPT
                               ![a] = IF pc = "emitting" /\ report.sta = a THEN -1 ELSE 0]
        BY <1>3 DEF ForgetSeen
  <2>2. pc' = pc /\ report' = report
        BY <1>3 DEF ForgetSeen
  <2>3. \A k \in Addr : reported'[k] = IF k # a THEN reported[k]
                                      ELSE IF pc = "emitting" /\ report.sta = a THEN -1 ELSE 0
        BY <2>1 DEF DataOK
  <2>4. seen \subseteq Addr
        BY DEF DataOK
  <2> QED BY <2>1, <2>2, <2>3, <2>4
<1>4. CASE ThreadDies
  <2>1. pc' = "killed" /\ UNCHANGED <<seen, reported, report>>
        BY <1>4 DEF ThreadDies, shared
  <2> QED BY <2>1
<1>5. CASE StartThread
  <2>1. pc = "absent" /\ UNCHANGED <<seen, reported, report>>
        BY <1>5 DEF StartThread, Places
  <2> QED BY <2>1
<1>6. CASE HandleBeacon \/ Packet
  <2>1. pc \notin {"emitting", "killed"} /\ UNCHANGED <<seen, reported, report>>
        BY <1>6 DEF HandleBeacon, Packet
  <2> QED BY <2>1
<1>7. CASE RunBegins \/ Open \/ Test \/ Timeout \/ Broken \/ ReadError \/ CheckIface
         \/ Close \/ ClearHandle \/ ThreadEnds
  <2>1. pc \notin {"emitting", "killed"} /\ UNCHANGED <<seen, reported, report>>
        BY <1>7 DEF RunBegins, Open, Test, Timeout, Broken, ReadError, CheckIface, Close,
           ClearHandle, ThreadEnds, catchesOnly
  <2> QED BY <2>1
<1>8. CASE IfaceChanges \/ HopperHops \/ Settings \/ PrepareFails \/ DeliverStarted
         \/ DeliverError \/ CloseBox \/ RetryClicked \/ FlowWritesLabel \/ Quit \/ HopperReturned
         \/ LeaveLoop \/ HopperJoined \/ StopStore \/ LookAtHandle \/ BreakLoop \/ QuitThread
         \/ WaitEnds \/ Terminate \/ TerminatedEnds \/ Exit
  <2>1. UNCHANGED <<seen, reported, pc, report>>
        BY <1>8 DEF IfaceChanges, HopperHops, Settings, PrepareFails, DeliverStarted,
           DeliverError, CloseBox, RetryClicked, FlowWritesLabel, Quit, HopperReturned,
           LeaveLoop, HopperJoined, StopStore, LookAtHandle, BreakLoop, QuitThread,
           WaitEnds, Terminate, TerminatedEnds, Exit, mainOnly, shutdownFrame, uiFrame, worker,
           workerFrame
  <2> QED BY <2>1
<1> QED BY <1>1, <1>2, <1>3, <1>4, <1>5, <1>6, <1>7, <1>8, Zenon DEF Next, WorkerStep,
       MainStep, Deliver, Shutdown

\* The candidate is what parse made of the frame.
LEMMA CandidatesAreStationsKept ==
    ASSUME CandidatesAreStations, DataOK, Beacons, Handled, Next
    PROVE  CandidatesAreStations'
<1>1. CASE RunBegins
      BY <1>1 DEF CandidatesAreStations, DataOK, Beacons, Handled, RunBegins, catchesOnly,
         mainFrame
<1>2. CASE Open
      BY <1>2 DEF CandidatesAreStations, DataOK, Beacons, Handled, Open, catchesOnly, emit,
         mainFrame
<1>3. CASE Test
      BY <1>3 DEF CandidatesAreStations, DataOK, Beacons, Handled, Test, catchesOnly,
         mainFrame
<1>4. CASE Timeout
      BY <1>4 DEF CandidatesAreStations, DataOK, Beacons, Handled, Timeout, catchesOnly,
         countRead, mainFrame
<1>5. CASE Broken
      BY <1>5 DEF CandidatesAreStations, DataOK, Beacons, Handled, Broken, catchesOnly,
         countRead, mainFrame
<1>6. CASE ReadError
      BY <1>6 DEF CandidatesAreStations, DataOK, Beacons, Handled, ReadError, catchesOnly,
         countRead, emit, mainFrame
<1>7. CASE Packet
      BY <1>7 DEF CandidatesAreStations, DataOK, Beacons, Handled, Packet, countRead,
         mainFrame
<1>8. CASE CheckIface
      BY <1>8 DEF CandidatesAreStations, DataOK, Beacons, Handled, CheckIface, catchesOnly,
         emit, mainFrame
<1>9. CASE HandleBeacon
      BY <1>9 DEF CandidatesAreStations, DataOK, Beacons, Handled, HandleBeacon, mainFrame
<1>10. CASE HandleStation
  <2> SUFFICES ASSUME pc' = "emitting"
               PROVE  CandidatesAreStations'
      BY DEF CandidatesAreStations
  <2>1. /\ UNCHANGED frame /\ frame \in Frames
        /\ report'.sta = frame.addr2 /\ isStation(report'.sta)
        /\ report'.sta # report'.ap /\ frame.rt.signal >= Threshold
        /\ frame.len >= frame.rt.len + 22 => report'.ap = frame.addr3
        /\ report'.ssid # "" => report'.ssid \in heard(report'.ap)
        BY <1>10, StationHandled
  <2>2. report'.ssid # "" => \E f \in Frames : /\ f.kind = "beacon" /\ f.addr2 = report'.ap
                                              /\ parseBeacon(f).ssid = report'.ssid
        BY <2>1 DEF heard
  <2> QED BY <2>1, <2>2, Zenon DEF CandidatesAreStations
<1>11. CASE EmitCandidate
      BY <1>11 DEF CandidatesAreStations, DataOK, Beacons, Handled, EmitCandidate, mainFrame
<1>12. CASE Close
      BY <1>12 DEF CandidatesAreStations, DataOK, Beacons, Handled, Close, catchesOnly
<1>13. CASE ClearHandle
      BY <1>13 DEF CandidatesAreStations, DataOK, Beacons, Handled, ClearHandle, catchesOnly,
         mainFrame
<1>14. CASE ThreadEnds
      BY <1>14 DEF CandidatesAreStations, DataOK, Beacons, Handled, ThreadEnds, catchesOnly,
         mainFrame
<1>15. CASE StartThread
      BY <1>15 DEF CandidatesAreStations, DataOK, Beacons, Handled, StartThread
<1>16. CASE ThreadDies
      BY <1>16 DEF CandidatesAreStations, DataOK, Beacons, Handled, ThreadDies, shared
<1>17. CASE IfaceChanges \/ HopperHops \/ Settings \/ PrepareFails \/ DeliverStarted
          \/ DeliverError \/ CloseBox \/ RetryClicked \/ FlowWritesLabel \/ ForgetSeen \/ Quit
          \/ HopperReturned \/ LeaveLoop \/ HopperJoined \/ StopStore \/ LookAtHandle \/ BreakLoop
          \/ QuitThread \/ WaitEnds \/ Terminate \/ TerminatedEnds \/ Exit
  <2>1. UNCHANGED <<pc, report, frame>>
        BY <1>17 DEF IfaceChanges, HopperHops, Settings, PrepareFails, DeliverStarted,
           DeliverError, CloseBox, RetryClicked, FlowWritesLabel, ForgetSeen, Quit,
           HopperReturned, LeaveLoop, HopperJoined, StopStore, LookAtHandle, BreakLoop,
           QuitThread, WaitEnds, Terminate, TerminatedEnds, Exit, mainOnly, shutdownFrame, uiFrame,
           worker, workerFrame
  <2> QED BY <2>1 DEF CandidatesAreStations
<1> QED BY <1>1, <1>2, <1>3, <1>4, <1>5, <1>6, <1>7, <1>8, <1>9, <1>10, <1>11, <1>12, <1>13,
       <1>14, <1>15, <1>16, <1>17, Zenon DEF Next, WorkerStep, MainStep, Deliver, Shutdown

-----------------------------------------------------------------------------
(* The radiotap header.                                                     *)

\* The walk over the header: aligning to a and to the next multiple of a are
\* the same, for the two alignments there are.
LEMMA Aligned ==
    ASSUME NEW n \in Nat
    PROVE  /\ aligned(n, 1) = n
           /\ aligned(n, 2) = 2 * ((n + 1) \div 2)
           /\ aligned(n, 8) = 8 * ((n + 7) \div 8)
<1>1. aligned(n, 1) = n
      BY DEF aligned
<1>2. aligned(n, 2) = 2 * ((n + 1) \div 2)
      BY DEF aligned
<1>3. aligned(n, 8) = 8 * ((n + 7) \div 8)
      BY DEF aligned
<1> QED BY <1>1, <1>2, <1>3

\* The offset the parser walks to is the place the layout gives, and nothing in
\* front of it lies behind it.
LEMMA SignalPlaced ==
    ASSUME NEW h, h.ext \in Nat
    PROVE  /\ signalOffset(h) = signalPlace(h)
           /\ \A i \in 1 .. 5 : offsets(h)[i] \in Nat /\ offsets(h)[i] <= signalOffset(h)
           /\ firstField(h) \in Nat /\ firstField(h) >= 8 /\ firstField(h) <= signalOffset(h)
<1> DEFINE p       == h.present
           first   == 8 + 4 * h.ext
           tsft    == behind(p, 0, 8, 8, first)
           flags   == behind(p, 1, 1, 1, tsft)
           rate    == behind(p, 2, 1, 1, flags)
           channel == behind(p, 3, 2, 4, rate)
           fhss    == behind(p, 4, 2, 2, channel)
           bytes   == tsft + bitOf(p, 1) + bitOf(p, 2)
<1>1. first \in Nat /\ first >= 8
      OBVIOUS
<1>2. /\ tsft = IF 0 \in p THEN ((first + 7) \div 8) * 8 + 8 ELSE first
      /\ tsft \in Nat /\ first <= tsft
  <2> HIDE DEF first
  <2> QED BY <1>1, Aligned DEF behind
<1>3. flags \in Nat /\ flags = tsft + bitOf(p, 1)
  <2> HIDE DEF tsft
  <2> QED BY <1>2, Aligned DEF behind, bitOf
<1>4. rate \in Nat /\ rate = bytes /\ flags <= rate /\ tsft <= flags
  <2> HIDE DEF flags, tsft
  <2>1. rate = flags + bitOf(p, 2) /\ bitOf(p, 1) \in {0, 1} /\ bitOf(p, 2) \in {0, 1}
        BY <1>3, Aligned DEF behind, bitOf
  <2> QED BY <1>2, <1>3, <2>1
<1>5. /\ channel = IF 3 \in p THEN 2 * ((bytes + 1) \div 2) + 4 ELSE bytes
      /\ channel \in Nat /\ rate <= channel
  <2> HIDE DEF rate, bytes
  <2> QED BY <1>4, Aligned DEF behind
<1>6. /\ fhss = IF 4 \in p THEN 2 * ((channel + 1) \div 2) + 2 ELSE channel
      /\ fhss \in Nat /\ channel <= fhss
  <2> HIDE DEF channel
  <2> QED BY <1>5, Aligned DEF behind
<1>7. fhss = (IF p \cap {3, 4} = {} THEN bytes ELSE 2 * ((bytes + 1) \div 2))
             + 4 * bitOf(p, 3) + 2 * bitOf(p, 4)
  <2>0. bytes \in Nat
        BY <1>4
  <2> HIDE DEF p, bytes, channel, fhss
  <2>1. CASE 3 \in p /\ 4 \in p
        BY <2>0, <2>1, <1>5, <1>6 DEF bitOf
  <2>2. CASE 3 \in p /\ 4 \notin p
        BY <2>0, <2>2, <1>5, <1>6 DEF bitOf
  <2>3. CASE 3 \notin p /\ 4 \in p
        BY <2>0, <2>3, <1>5, <1>6 DEF bitOf
  <2>4. CASE 3 \notin p /\ 4 \notin p
    <3>1. p \cap {3, 4} = {}
          BY <2>4
    <3> QED BY <2>0, <2>4, <3>1, <1>5, <1>6 DEF bitOf
  <2> QED BY <2>1, <2>2, <2>3, <2>4
<1>8. offsets(h) = <<tsft, flags, rate, channel, fhss>> /\ firstField(h) = first
      BY Zenon DEF offsets, firstField
<1>9. signalPlace(h) = fhss
  <2> HIDE DEF fhss
  <2> QED BY <1>2, <1>7 DEF signalPlace
<1> HIDE DEF first, tsft, flags, rate, channel, fhss
<1>10. signalOffset(h) = fhss
      BY <1>8 DEF signalOffset
<1>11. /\ tsft <= fhss /\ flags <= fhss /\ rate <= fhss /\ channel <= fhss /\ first <= fhss
      BY <1>1, <1>2, <1>3, <1>4, <1>5, <1>6
<1>12. \A i \in 1 .. 5 : offsets(h)[i] \in Nat /\ offsets(h)[i] <= fhss
  <2>1. \A i \in 1 .. 5 : i = 1 \/ i = 2 \/ i = 3 \/ i = 4 \/ i = 5
        OBVIOUS
  <2> QED BY <1>2, <1>3, <1>4, <1>5, <1>6, <1>8, <1>11, <2>1
<1> QED BY <1>1, <1>8, <1>9, <1>10, <1>11, <1>12

\* Whatever chain of present words and set of fields a header has.
LEMMA HeaderRead ==
    ASSUME NEW h \in [version : {0}, len : Nat, ext : Nat, present : SUBSET Nat, signal : Int],
           NEW n \in Nat, n >= 8
    PROVE  LET f == [len |-> n, rt |-> h]
           IN  /\ extractRadiotap(f) <=>
                      5 \in h.present /\ signalPlace(h) < h.len /\ h.len <= n
               /\ extractRadiotap(f) => signalOffset(h) = signalPlace(h)
<1> DEFINE f == [len |-> n, rt |-> h]
           inside == \A bit \in h.present \cap 0 .. 4 : offsets(h)[bit + 1] <= h.len
<1>1. /\ h.version = 0 /\ h.len \in Nat /\ h.ext \in Nat
      OBVIOUS
<1>2. extractRadiotap(f) <=>
          /\ n >= 8 /\ h.version = 0 /\ h.len >= 8 /\ h.len <= n
          /\ firstField(h) <= h.len /\ inside
          /\ 5 \in h.present /\ signalOffset(h) < h.len
  <2>1. f.len = n /\ f.rt = h
        OBVIOUS
  <2> HIDE DEF f
  <2> QED BY <2>1, Zenon DEF extractRadiotap
<1>3. signalOffset(h) = signalPlace(h)
      BY <1>1, SignalPlaced
<1>4. \A i \in 1 .. 5 : offsets(h)[i] \in Nat /\ offsets(h)[i] <= signalOffset(h)
      BY <1>1, SignalPlaced
<1>5. firstField(h) \in Nat /\ firstField(h) >= 8 /\ firstField(h) <= signalOffset(h)
      BY <1>1, SignalPlaced
<1>6. signalOffset(h) \in Nat
      BY <1>4 DEF signalOffset
<1>7. signalOffset(h) < h.len => h.len >= 8 /\ firstField(h) <= h.len /\ inside
  <2> SUFFICES ASSUME signalOffset(h) < h.len
               PROVE  h.len >= 8 /\ firstField(h) <= h.len /\ inside
      OBVIOUS
  <2>1. h.len >= 8 /\ firstField(h) <= h.len
        BY <1>1, <1>5, <1>6
  <2>2. ASSUME NEW bit \in h.present \cap 0 .. 4 PROVE offsets(h)[bit + 1] <= h.len
    <3>1. bit + 1 \in 1 .. 5
          OBVIOUS
    <3>2. offsets(h)[bit + 1] \in Nat /\ offsets(h)[bit + 1] <= signalOffset(h)
          BY <3>1, <1>4
    <3> QED BY <3>2, <1>1, <1>6
  <2> QED BY <2>1, <2>2
<1> QED BY <1>1, <1>2, <1>3, <1>7, Zenon

\* No bound on the header: every chain, every set of fields, every length.
THEOREM SignalsAreFound == Spec => []SignalIsFound
<1>1. SignalIsFound
  <2>1. ASSUME NEW h \in Headers, NEW n \in {20, 40}
        PROVE  LET f == [len |-> n, rt |-> h]
               IN  /\ extractRadiotap(f) <=>
                          5 \in h.present /\ signalPlace(h) < h.len /\ h.len <= n
                   /\ extractRadiotap(f) => signalOffset(h) = signalPlace(h)
    <3>1. n \in Nat /\ n >= 8
          OBVIOUS
    <3> QED BY <3>1, HeaderRead, HeadersAreTyped
  <2> QED BY <2>1, Zenon DEF SignalIsFound
<1> QED BY <1>1, PTL

-----------------------------------------------------------------------------
(* The invariant is kept.                                                  *)

\* The program starts with the token not yet handed out.
LEMMA CaptureStart == Init => CaptureInv
<1> SUFFICES ASSUME Init PROVE CaptureInv
    OBVIOUS
<1>1. WorkerOK /\ SharedOK
  <2>1. WorkerOK
        BY CaptureAssumption DEF Init, WorkerOK
  <2>2. SharedOK
        BY DEF Init, SharedOK
  <2> QED BY <2>1, <2>2
<1>2. MainOK
      BY DEF Init, MainOK, Hopper!Init
<1>3. DataOK
      BY AddrAssumption DEF Init, DataOK, NoReport
<1>4. Token /\ Places /\ Begun /\ Reads
      BY DEF Init, Token, Places, Begun, Reads, stopping, failed, active, Hopper!Init
<1>5. Warned /\ HandleIsCurrent /\ LabelAgrees /\ CleanExit
      BY DEF Init, Warned, HandleIsCurrent, LabelAgrees, CleanExit
<1>6. Handled /\ Counted /\ CandidatesAreStations /\ Forgotten /\ SeenIsReported
      BY DEF Init, Handled, Counted, CandidatesAreStations, Forgotten, SeenIsReported
<1>7. Beacons
      BY DEF Init, Beacons, NoBeacon
<1> QED BY <1>1, <1>2, <1>3, <1>4, <1>5, <1>6, <1>7 DEF CaptureInv, TypeOK

\* Each part of the invariant by its lemma, or left alone.
LEMMA CaptureStep == CaptureInv /\ [Next]_vars => CaptureInv'
<1> SUFFICES ASSUME CaptureInv, [Next]_vars PROVE CaptureInv'
    OBVIOUS
<1>0. /\ WorkerOK /\ DataOK /\ SharedOK /\ MainOK
      /\ Token /\ Places /\ Begun /\ Reads /\ Warned
      /\ HandleIsCurrent /\ LabelAgrees /\ CleanExit
      /\ Beacons /\ Handled /\ Counted /\ CandidatesAreStations /\ Forgotten /\ SeenIsReported
      BY DEF CaptureInv, TypeOK
<1>1. CASE Next
  <2>1. WorkerOK' /\ DataOK' /\ SharedOK' /\ MainOK'
        BY <1>0, <1>1, WorkerOKKept, DataOKKept, SharedOKKept, MainOKKept
  <2>2. Token' /\ Places' /\ Begun' /\ Reads' /\ Warned'
        BY <1>0, <1>1, TokenKept, PlacesKept, BegunKept, ReadsKept, WarnedKept
  <2>3. HandleIsCurrent' /\ LabelAgrees' /\ CleanExit'
        BY <1>0, <1>1, HandleIsCurrentKept, LabelAgreesKept, CleanExitKept
  <2>4. Beacons' /\ Handled' /\ Counted' /\ CandidatesAreStations'
        BY <1>0, <1>1, BeaconsKept, HandledKept, CountedKept, CandidatesAreStationsKept
  <2>5. SeenIsReported' /\ Forgotten'
        BY <1>0, <1>1, SeenIsReportedKept
  <2> QED BY <2>1, <2>2, <2>3, <2>4, <2>5, Zenon DEF CaptureInv, TypeOK
<1>2. CASE UNCHANGED vars
  <2>1. UNCHANGED <<pc, quiet, frame, report, seen, beaconCache, reported>>
        BY <1>2 DEF vars, worker
  <2>2. /\ UNCHANGED <<iface, stop, handle, breakLoop, posted, threadQuit, mainHandle>>
        /\ UNCHANGED <<uiQueue, readsAfterStop>>
        BY <1>2 DEF vars, shared
  <2>3. UNCHANGED <<main, quitting, retryVisible, label, captureFatal, box, warnings, shadowed,
                    hopper, late, tried>>
        BY <1>2 DEF vars, status, hopping
  <2>4. WorkerOK' /\ DataOK'
        BY <1>0, <2>1 DEF WorkerOK, DataOK
  <2>5. SharedOK' /\ MainOK'
    <3>1. SharedOK'
          BY <1>0, <2>2, ZenonT(30) DEF SharedOK
    <3>2. MainOK'
          BY <1>0, <2>3, MainFrame
    <3> QED BY <3>1, <3>2
  <2>6. Token' /\ Places'
        BY <1>0, <2>1, <2>2, <2>3, Zenon DEF Token, Places
  <2>7. Begun' /\ Reads' /\ Warned'
        BY <1>0, <2>1, <2>2, <2>3, Zenon DEF Begun, Reads, Warned
  <2>8. HandleIsCurrent' /\ LabelAgrees' /\ CleanExit'
        BY <1>0, <2>1, <2>2, <2>3, Zenon DEF HandleIsCurrent, LabelAgrees, CleanExit
  <2>9. Beacons' /\ Handled' /\ Counted' /\ CandidatesAreStations'
        BY <1>0, <2>1 DEF Beacons, Handled, Counted, CandidatesAreStations
  <2>10. Forgotten' /\ SeenIsReported'
        BY <1>0, <2>1 DEF Forgotten, SeenIsReported
  <2> QED BY <2>4, <2>5, <2>6, <2>7, <2>8, <2>9, <2>10, Zenon DEF CaptureInv, TypeOK
<1> QED BY <1>1, <1>2

\* The invariant the theorems below rest on.
THEOREM CaptureInvariant == Spec => []CaptureInv
<1> QED BY CaptureStart, CaptureStep, PTL DEF Spec

\* At most one run is posted and the queue holds what one run emits, for any
\* frames, addresses and interface (run, onCaptureError, the retry button).
THEOREM CaptureTypeCorrect == Spec => []TypeOK
<1>1. CaptureInv => TypeOK
      BY DEF CaptureInv
<1> QED BY <1>1, CaptureInvariant, PTL

\* Every candidate is the station that sent the frame, reported with an SSID
\* heard from its AP (run, parse, parseBeacon).
THEOREM EveryCandidateIsAStation == Spec => []CandidatesAreStations
<1>1. CaptureInv => CandidatesAreStations
      BY DEF CaptureInv
<1> QED BY <1>1, CaptureInvariant, PTL

\* However forgetting and reporting interleave, a station is reported once
\* between two forgets (run, forgetSeen).
THEOREM StationsAreReportedOnce == Spec => []ReportedOnce
<1>1. CaptureInv => ReportedOnce
  <2> SUFFICES ASSUME CaptureInv, NEW a \in Addr
               PROVE  reported[a] + (IF pc = "emitting" /\ report.sta = a THEN 1 ELSE 0) <= 1
      BY DEF ReportedOnce
  <2>1. reported[a] \in {-1, 0, 1} /\ (pc = "emitting" => reported[report.sta] <= 0)
        BY DEF CaptureInv, TypeOK, DataOK, Counted
  <2> QED BY <2>1
<1> QED BY <1>1, CaptureInvariant, PTL

\* No station is kept from being reported without having been reported: it is
\* entered into the session and emitted in one go, and a forget that comes
\* between takes it out again (run, forgetSeen).
THEOREM SeenStationsWereReported == Spec => []SeenIsReported
<1>1. CaptureInv => SeenIsReported
      BY DEF CaptureInv
<1> QED BY <1>1, CaptureInvariant, PTL

\* The label and the retry button agree (onCaptureError, onCaptureStarted).
THEOREM LabelAndButtonAgree == Spec => []LabelAgrees
<1>1. CaptureInv => LabelAgrees
      BY DEF CaptureInv
<1> QED BY <1>1, CaptureInvariant, PTL

\* However often the retry fails, one box is shown (onCaptureError).
THEOREM OneBoxAnEpisode == Spec => []OneWarning
<1>1. CaptureInv => OneWarning
  <2> SUFFICES ASSUME CaptureInv PROVE OneWarning
      OBVIOUS
  <2>1. warnings \in {0, 1} /\ (retryVisible => warnings = 1)
        BY DEF CaptureInv, Warned
  <2>2. warnings <= 1
        BY <2>1
  <2> QED BY <2>1, <2>2 DEF OneWarning
<1> QED BY <1>1, CaptureInvariant, PTL

\* However requestStop and the loop interleave, one more result of libpcap is
\* taken at most (run, requestStop).
THEOREM StopIsSeenSoon == Spec => []StopCostsOneRead
<1>1. CaptureInv => StopCostsOneRead
  <2> SUFFICES ASSUME CaptureInv PROVE StopCostsOneRead
      OBVIOUS
  <2>1. readsAfterStop = 0 \/ readsAfterStop = 1
        BY DEF CaptureInv, Reads
  <2> QED BY <2>1 DEF StopCostsOneRead
<1> QED BY <1>1, CaptureInvariant, PTL

\* The handle is open, stale or null exactly where run has it so, and the one
\* requestStop looked at is stale only if run closed it since.
THEOREM HandlesAreCurrent == Spec => []HandleIsCurrent
<1>1. CaptureInv => HandleIsCurrent
      BY DEF CaptureInv
<1> QED BY <1>1, CaptureInvariant, PTL

\* The worker is deleted after its thread left it, and no hopper is left over
\* (aboutToQuit).
THEOREM ExitIsClean == Spec => []CleanExit
<1>1. CaptureInv => CleanExit
      BY DEF CaptureInv
<1> QED BY <1>1, CaptureInvariant, PTL

-----------------------------------------------------------------------------
(* The recovery the operator relies on.                                    *)

\* Of the four queues two hold an error, and they hold one.
LEMMA ErrorCount == SharedOK => Cardinality(errors) = IF uiQueue \in failed THEN 1 ELSE 0
<1> SUFFICES ASSUME SharedOK PROVE Cardinality(errors) = IF uiQueue \in failed THEN 1 ELSE 0
    OBVIOUS
<1>1. CASE uiQueue \in {<<>>, <<"started">>}
  <2>1. errors = {}
        BY <1>1 DEF errors
  <2>2. uiQueue \notin failed
        BY <1>1, Queue DEF failed
  <2> QED BY <2>1, <2>2, FS_EmptySet
<1>2. CASE uiQueue \in failed
  <2>1. errors = {1} \/ errors = {2}
        BY <1>2 DEF errors, failed
  <2> QED BY <1>2, <2>1, FS_Singleton
<1> QED BY <1>1, <1>2 DEF SharedOK, failed

\* The token names the phase.
running == posted = 1 \/ pc \in active
LEMMA PhaseIs ==
    CaptureInv /\ main = "serving" /\ ~quitting =>
        \/ running /\ uiQueue \notin failed /\ ~retryVisible /\ phase = "trying"
        \/ ~running /\ uiQueue \in failed /\ ~retryVisible /\ phase = "failed"
        \/ ~running /\ uiQueue \notin failed /\ retryVisible /\ phase = "offered"
<1> SUFFICES ASSUME CaptureInv, main = "serving", ~quitting
             PROVE  \/ running /\ uiQueue \notin failed /\ ~retryVisible /\ phase = "trying"
                    \/ ~running /\ uiQueue \in failed /\ ~retryVisible /\ phase = "failed"
                    \/ ~running /\ uiQueue \notin failed /\ retryVisible /\ phase = "offered"
    OBVIOUS
<1>1. Token /\ SharedOK /\ pc # "absent" /\ ~stop
      BY DEF CaptureInv, TypeOK, Places, stopping
<1>2. posted \in {0, 1} /\ (posted = 1 => pc \notin active) /\ <<>> \notin failed
      BY <1>1, Queue DEF SharedOK, Token, failed
<1>3. /\ trying = IF running THEN 1 ELSE 0
      /\ Cardinality(errors) = IF uiQueue \in failed THEN 1 ELSE 0
      /\ offered = IF retryVisible THEN 1 ELSE 0
      BY <1>1, <1>2, ErrorCount DEF trying, offered, running, active
<1>4. /\ running => uiQueue \notin failed /\ ~retryVisible
      /\ retryVisible => uiQueue \notin failed
      /\ running \/ retryVisible \/ uiQueue \in failed
      BY <1>1, <1>2 DEF Token, running
<1>5. CASE running
  <2>1. <<trying, Cardinality(errors), offered>> = <<1, 0, 0>>
        BY <1>3, <1>4, <1>5
  <2>2. phase = "trying"
        BY <2>1 DEF phase
  <2> QED BY <1>4, <1>5, <2>2
<1>6. CASE uiQueue \in failed
  <2>1. <<trying, Cardinality(errors), offered>> = <<0, 1, 0>>
        BY <1>3, <1>4, <1>6
  <2>2. phase = "failed"
        BY <2>1 DEF phase
  <2> QED BY <1>4, <1>6, <2>2
<1>7. CASE retryVisible
  <2>1. <<trying, Cardinality(errors), offered>> = <<0, 0, 1>>
        BY <1>3, <1>4, <1>7
  <2>2. phase = "offered"
        BY <2>1 DEF phase
  <2> QED BY <1>4, <1>7, <2>2
<1> QED BY <1>4, <1>5, <1>6, <1>7

\* Outside the event loop the phase is told by main alone.
LEMMA PhaseOutside ==
    /\ main \in {"settings", "preparing"} => phase = "off"
    /\ main \notin {"settings", "preparing", "serving"} => phase = "over"
    /\ main = "serving" /\ quitting => phase = "over"
    BY DEF phase

\* Both start in front of the settings.
LEMMA RecoveryStart == Init => Recovery!Init
<1> SUFFICES ASSUME Init PROVE Recovery!Init
    OBVIOUS
<1>1. main = "settings"
      BY DEF Init
<1> QED BY <1>1, PhaseOutside DEF Recovery!Init

\* Inside the event loop the token decides, outside it main does.
LEMMA RecoveryStep ==
    CaptureInv /\ CaptureInv' /\ [Next]_vars => [Recovery!Next]_phase
<1> SUFFICES ASSUME CaptureInv, CaptureInv', [Next]_vars PROVE [Recovery!Next]_phase
    OBVIOUS
<1> DEFINE serves == main = "serving" /\ ~quitting
<1>a. serves => \/ running /\ uiQueue \notin failed /\ ~retryVisible /\ phase = "trying"
                \/ ~running /\ uiQueue \in failed /\ ~retryVisible /\ phase = "failed"
                \/ ~running /\ uiQueue \notin failed /\ retryVisible /\ phase = "offered"
      BY PhaseIs
<1>b. serves' => \/ running' /\ (uiQueue \notin failed)' /\ ~retryVisible' /\ phase' = "trying"
                 \/ ~running' /\ (uiQueue \in failed)' /\ ~retryVisible' /\ phase' = "failed"
                 \/ ~running' /\ (uiQueue \notin failed)' /\ retryVisible' /\ phase' = "offered"
  <2>1. (CaptureInv /\ serves =>
            \/ running /\ uiQueue \notin failed /\ ~retryVisible /\ phase = "trying"
            \/ ~running /\ uiQueue \in failed /\ ~retryVisible /\ phase = "failed"
            \/ ~running /\ uiQueue \notin failed /\ retryVisible /\ phase = "offered")'
        BY PhaseIs, PTL
  <2> QED BY <2>1
<1>c. /\ main \in {"settings", "preparing"} => phase = "off"
      /\ main \notin {"settings", "preparing", "serving"} => phase = "over"
      /\ main = "serving" /\ quitting => phase = "over"
      BY PhaseOutside
<1>d. /\ main' \in {"settings", "preparing"} => phase' = "off"
      /\ main' \notin {"settings", "preparing", "serving"} => phase' = "over"
      /\ main' = "serving" /\ quitting' => phase' = "over"
  <2>1. (/\ main \in {"settings", "preparing"} => phase = "off"
         /\ main \notin {"settings", "preparing", "serving"} => phase = "over"
         /\ main = "serving" /\ quitting => phase = "over")'
        BY PhaseOutside, PTL
  <2> QED BY <2>1
<1>1. ASSUME UNCHANGED <<main, quitting>>, serves => UNCHANGED phase \/ Recovery!Next
      PROVE  [Recovery!Next]_phase
  <2>1. ~serves => UNCHANGED phase
        BY <1>1, <1>c, <1>d
  <2> QED BY <1>1, <2>1
<1>2. ASSUME UNCHANGED <<main, quitting, uiQueue, retryVisible>>, running' <=> running
      PROVE  [Recovery!Next]_phase
  <2>1. serves => UNCHANGED phase
        BY <1>2, <1>a, <1>b DEF failed
  <2> QED BY <1>1, <1>2, <2>1
<1>3. CASE RunBegins
  <2>1. running /\ running'
        BY <1>3 DEF RunBegins, running, active, CaptureInv, TypeOK, SharedOK
  <2> QED BY <1>2, <1>3, <2>1 DEF RunBegins, mainFrame, status
<1>4. CASE Test \/ Timeout \/ Broken \/ Packet \/ HandleBeacon \/ HandleStation \/ EmitCandidate
           \/ Close \/ ClearHandle \/ ThreadEnds
  <2>1. UNCHANGED <<main, quitting, posted, uiQueue, retryVisible>>
        BY <1>4 DEF Test, Timeout, Broken, Packet, HandleBeacon, HandleStation, EmitCandidate,
                    Close, ClearHandle, ThreadEnds, mainFrame, status
  <2>2. CASE Close \/ ClearHandle \/ ThreadEnds
    <3>1. pc \notin active /\ pc' \notin active
          BY <2>2 DEF Close, ClearHandle, ThreadEnds, active, loop
    <3> QED BY <1>2, <2>1, <3>1 DEF running
  <2>3. CASE ~(Close \/ ClearHandle \/ ThreadEnds)
    <3>1. /\ pc \in active
          /\ pc' \in active \/ stop \/ breakLoop
          BY <1>4, <2>3 DEF Test, Timeout, Broken, Packet, HandleBeacon, HandleStation,
                            EmitCandidate, active, loop
    <3>2. stop \/ breakLoop => ~serves
          BY DEF CaptureInv, Places, stopping
    <3>3. CASE pc' \in active
          BY <1>2, <2>1, <3>1, <3>3 DEF running
    <3>4. CASE stop \/ breakLoop
          BY <1>1, <2>1, <3>2, <3>4
    <3> QED BY <3>1, <3>3, <3>4
  <2> QED BY <2>2, <2>3
<1>5. CASE Open \/ ReadError \/ CheckIface
  <2>1. pc \in active /\ UNCHANGED <<main, quitting, posted, retryVisible>>
        BY <1>5 DEF Open, ReadError, CheckIface, active, loop, mainFrame, status
  <2>2. running /\ posted # 1
        BY <2>1 DEF running, CaptureInv, Token
  <2>3. CASE pc' \in active
    <3>1. serves => UNCHANGED phase
          BY <1>a, <1>b, <2>1, <2>2, <2>3 DEF running
    <3> QED BY <1>1, <2>1, <3>1
  <2>4. CASE pc' \notin active
    <3>1. serves => phase = "trying" /\ phase' = "failed"
          BY <1>a, <1>b, <2>1, <2>2, <2>4 DEF running
    <3>2. serves => Recovery!Next
          BY <3>1 DEF Recovery!Next, Recovery!Fail
    <3> QED BY <1>1, <2>1, <3>2
  <2> QED BY <2>3, <2>4
<1>6. CASE DeliverStarted
  <2>1. ~retryVisible /\ ~retryVisible'
        BY <1>6 DEF DeliverStarted, CaptureInv, Token
  <2>2. UNCHANGED <<main, quitting, posted, pc>>
        BY <1>6 DEF DeliverStarted, uiFrame, workerFrame, worker
  <2>3. serves => UNCHANGED phase
        BY <1>a, <1>b, <2>1, <2>2 DEF running
  <2> QED BY <1>1, <2>2, <2>3
<1>7. CASE DeliverError
  <2>1. uiQueue \in failed
        BY <1>7, Queue DEF DeliverError, CaptureInv, TypeOK, SharedOK, failed
  <2>2. retryVisible' /\ UNCHANGED <<main, quitting>>
        BY <1>7 DEF DeliverError, uiFrame
  <2>3. serves => phase = "failed" /\ phase' = "offered"
        BY <1>a, <1>b, <2>1, <2>2
  <2>4. serves => Recovery!Next
        BY <2>3 DEF Recovery!Next, Recovery!Offer
  <2> QED BY <1>1, <2>2, <2>4
<1>8. CASE RetryClicked
  <2>1. retryVisible /\ UNCHANGED <<main, quitting>> /\ posted' = posted + 1
        BY <1>8 DEF RetryClicked, uiFrame
  <2>2. posted' = 1
        BY <2>1 DEF CaptureInv, Token
  <2>3. serves => phase = "offered" /\ phase' = "trying"
        BY <1>a, <1>b, <2>1, <2>2 DEF running
  <2>4. serves => Recovery!Next
        BY <2>3 DEF Recovery!Next, Recovery!Retry
  <2> QED BY <1>1, <2>1, <2>4
<1>9. CASE Quit
  <2>1. serves /\ main' = "serving" /\ quitting'
        BY <1>9 DEF Quit, uiFrame
  <2>2. phase # "over" /\ phase' = "over"
        BY <1>a, <1>d, <2>1
  <2> QED BY <2>2 DEF Recovery!Next, Recovery!Quit
<1>10. CASE Settings \/ PrepareFails
  <2>1. /\ main \in {"settings", "preparing"}
        /\ main' \notin {"settings", "serving"}
        BY <1>10 DEF Settings, PrepareFails
  <2>2. phase = "off" /\ phase' \in {"off", "over"}
        BY <1>c, <1>d, <2>1
  <2> QED BY <2>2 DEF Recovery!Next, Recovery!Quit
<1>11. CASE StartThread
  <2>1. phase = "off" /\ serves' /\ pc' \in active
        BY <1>11, <1>c DEF StartThread, CaptureInv, Begun, active
  <2>2. phase' = "trying"
        BY <1>b, <2>1 DEF running
  <2> QED BY <2>1, <2>2 DEF Recovery!Next, Recovery!Begin
<1>12. CASE Shutdown
  <2>1. /\ main \notin {"settings", "preparing"} /\ (main = "serving" => quitting)
        /\ main' \notin {"settings", "preparing", "serving"}
        BY <1>12 DEF Shutdown, HopperReturned, LeaveLoop, HopperJoined, StopStore, LookAtHandle,
                     BreakLoop, QuitThread, WaitEnds, Terminate, TerminatedEnds, Exit
  <2> QED BY <1>c, <1>d, <2>1
<1>13. CASE ThreadDies
  <2>1. main = "terminating" /\ main' = "terminating"
        BY <1>13 DEF ThreadDies
  <2> QED BY <1>c, <1>d, <2>1
<1>14. CASE IfaceChanges \/ HopperHops \/ CloseBox \/ FlowWritesLabel \/ ForgetSeen
           \/ UNCHANGED vars
  <2>1. UNCHANGED <<main, quitting, uiQueue, retryVisible, posted, pc>>
        BY <1>14 DEF IfaceChanges, HopperHops, CloseBox, FlowWritesLabel, ForgetSeen, vars, worker,
                     shared, status, uiFrame, workerFrame, mainOnly
  <2> QED BY <1>2, <2>1 DEF running
<1> QED BY <1>3, <1>4, <1>5, <1>6, <1>7, <1>8, <1>9, <1>10, <1>11, <1>12, <1>13, <1>14, Zenon
        DEF Next, WorkerStep, MainStep, Deliver

\* Every step of capture, of its shutdown and of the interface is a step of
\* the recovery or a stutter: no failure is lost, however the errors, the
\* retries and the shutdown interleave.
THEOREM ImplementsRecovery == Spec => Recovery!Safety
<1>1. CaptureInv /\ CaptureInv' /\ [Next]_vars => [Recovery!Next]_phase
      BY RecoveryStep
<1> QED BY <1>1, RecoveryStart, CaptureInvariant, PTL DEF Spec, Recovery!Safety
=============================================================================
