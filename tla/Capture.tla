-------------------------------- MODULE Capture -------------------------------
(***************************************************************************)
(* The capture thread, the main thread that starts it, shows its state and *)
(* shuts it down, and the wireless interface it reads.                     *)
(*                                                                         *)
(* The worker's run blocks its thread: a retry is posted to that thread and*)
(* begins when the run before has returned.  What the worker emits is put  *)
(* into the main thread's event queue.  Shutdown is different: requestStop *)
(* works on the worker's state from the main thread while run uses it.     *)
(* libpcap, Qt and the interface are modelled from how this code uses them.*)
(***************************************************************************)
EXTENDS Parser, FiniteSets

CONSTANTS
    Frames,         \* the frames on the air
    Channels,       \* the channels the settings may hold
    QuietLimit      \* timeouts in a row before the interface is looked at (10)

ASSUME CaptureAssumption ==
    /\ QuietLimit \in Nat \ {0}
    /\ \A f \in Frames : {f.addr1, f.addr2, f.addr3} \subseteq Addr

VARIABLES
    \* The interface: "up", "other" (it works, operstate is another word),
    \* "down" (or gone).
    iface,
    \* The worker.
    pc,             \* where its thread is
    quiet,          \* timeoutCount
    frame,          \* the frame it handles
    report,         \* the candidate it is about to emit
    seen,           \* seenInSession_
    beaconCache,    \* beaconCache_
    \* Shared with main, without a lock but for stop_, which is atomic.
    stop,           \* stop_
    handle,         \* pcap_: "null", "open", or "closed" and still set
    breakLoop,      \* pcap_breakloop was called on the open handle
    posted,         \* runs posted to the worker's thread
    threadQuit,     \* QThread::quit
    \* Main.
    main,           \* where the main thread is
    mainHandle,     \* the pcap_ that requestStop read
    quitting,       \* the event loop was told to leave
    uiQueue,        \* errorOccurred and captureStarted, not yet delivered
    retryVisible,   \* retryBtn_ is shown
    label,          \* scanStatusLabel_
    captureFatal,   \* captureFatal_
    box,            \* the warning box is open
    hopper, late, tried,    \* the channel hopper, as its owner sees it
    \* History, read by properties only.
    warnings,       \* boxes shown since capture last ran
    readsAfterStop, \* results of pcap_next_ex since stop_ was set
    reported,       \* candidates emitted since the station was forgotten
    shadowed        \* label was written last by the registration flow

worker  == <<pc, quiet, frame, report, seen, beaconCache>>
shared  == <<stop, handle, breakLoop, posted, threadQuit>>
status  == <<retryVisible, label, captureFatal, box, warnings, shadowed>>
hopping == <<hopper, late, tried>>
vars    == <<iface, worker, shared, main, mainHandle, quitting, uiQueue, status, hopping,
             readsAfterStop, reported>>

Hopper == INSTANCE HopperService WITH Channel <- Channels, phase <- hopper

NoFrame   == [kind |-> "none"]
NoReport  == [sta |-> NullAddr]
NoBeacon  == [ssid |-> "", channel |-> 0]

Init ==
    /\ iface \in {"up", "other", "down"}
    /\ pc = "absent" /\ quiet = 0 /\ frame = NoFrame /\ report = NoReport
    /\ seen = {} /\ beaconCache = [a \in Addr |-> NoBeacon]
    /\ stop = FALSE /\ handle = "null" /\ breakLoop = FALSE
    /\ posted = 0 /\ threadQuit = FALSE
    /\ main = "settings" /\ mainHandle = "null" /\ quitting = FALSE
    /\ uiQueue = <<>>
    /\ retryVisible = FALSE /\ label = "collecting" /\ captureFatal = FALSE /\ box = FALSE
    /\ Hopper!Init
    /\ warnings = 0 /\ readsAfterStop = 0 /\ reported = [a \in Addr |-> 0]
    /\ shadowed = FALSE

-----------------------------------------------------------------------------
(* The interface comes and goes.                                           *)

IfaceChanges ==
    /\ iface' \in {"up", "other", "down"} \ {iface}
    /\ UNCHANGED <<worker, shared, main, mainHandle, quitting, uiQueue, status, hopping,
                   readsAfterStop, reported>>

works == iface \in {"up", "other"}

-----------------------------------------------------------------------------
(* The worker's thread (run).                                              *)

emit(s)     == uiQueue' = Append(uiQueue, s)
mainFrame   == UNCHANGED <<iface, main, mainHandle, quitting, status, hopping, stop, threadQuit>>
catchesOnly == UNCHANGED <<frame, report, seen, beaconCache, reported>>

RunBegins ==
    /\ pc = "idle" /\ posted > 0
    /\ pc' = "opening" /\ posted' = posted - 1
    /\ UNCHANGED <<quiet, handle, breakLoop, uiQueue, readsAfterStop>>
    /\ catchesOnly /\ mainFrame

\* Opening and setting up the handle: any of its steps may fail, and an
\* interface that is down cannot be opened.
Open ==
    /\ pc = "opening"
    /\ \/ works /\ pc' = "testing" /\ handle' = "open" /\ breakLoop' = FALSE /\ quiet' = 0
          /\ emit("started")
       \/ pc' = "idle" /\ emit("error") /\ UNCHANGED <<handle, breakLoop, quiet>>
    /\ UNCHANGED <<posted, readsAfterStop>>
    /\ catchesOnly /\ mainFrame

Test_breakOnly ==       \* mutant
    /\ pc = "testing" /\ pc' = "reading"
    /\ UNCHANGED <<quiet, handle, breakLoop, posted, uiQueue, readsAfterStop>>
    /\ catchesOnly /\ mainFrame
Test ==
    /\ pc = "testing"
    /\ pc' = IF stop THEN "leaving" ELSE "reading"
    /\ UNCHANGED <<quiet, handle, breakLoop, posted, uiQueue, readsAfterStop>>
    /\ catchesOnly /\ mainFrame

\* The four results of pcap_next_ex.  A loop that was broken returns at the
\* next call at the latest.
countRead == readsAfterStop' = IF stop THEN readsAfterStop + 1 ELSE readsAfterStop

Timeout ==
    /\ pc = "reading"
    /\ IF quiet + 1 >= QuietLimit THEN quiet' = 0 /\ pc' = "checking"
                                  ELSE quiet' = quiet + 1 /\ pc' = "testing"
    /\ countRead
    /\ UNCHANGED <<handle, breakLoop, posted, uiQueue>>
    /\ catchesOnly /\ mainFrame

Broken ==
    /\ pc = "reading" /\ breakLoop
    /\ pc' = "leaving" /\ quiet' = 0 /\ breakLoop' = FALSE
    /\ countRead
    /\ UNCHANGED <<handle, posted, uiQueue>>
    /\ catchesOnly /\ mainFrame

\* Any error of libpcap, whether the interface is back by now or not.
ReadError ==
    /\ pc = "reading"
    /\ pc' = "leaving" /\ quiet' = 0
    /\ emit("error")
    /\ countRead
    /\ UNCHANGED <<handle, breakLoop, posted>>
    /\ catchesOnly /\ mainFrame

filter == {"beacon", "auth", "assoc-req", "reassoc-req"}
Packet ==
    /\ pc = "reading" /\ works
    /\ frame' \in {f \in Frames : f.kind \in filter}
    /\ pc' = "handling" /\ quiet' = 0
    /\ countRead
    /\ UNCHANGED <<report, seen, beaconCache, reported, handle, breakLoop, posted, uiQueue>>
    /\ mainFrame

\* checkIfaceUp: only the word "up" will do.
CheckIface_never ==     \* mutant
    /\ pc = "checking" /\ pc' = "testing"
    /\ UNCHANGED <<quiet, handle, breakLoop, posted, uiQueue, readsAfterStop>>
    /\ catchesOnly /\ mainFrame
CheckIface ==
    /\ pc = "checking"
    /\ \/ iface = "up" /\ pc' = "testing" /\ UNCHANGED uiQueue
       \/ iface # "up" /\ pc' = "leaving" /\ emit("error")
    /\ UNCHANGED <<quiet, handle, breakLoop, posted, readsAfterStop>>
    /\ catchesOnly /\ mainFrame

HandleBeacon ==
    /\ pc = "handling" /\ beaconOk(frame)
    /\ LET b == parseBeacon(frame)
       IN  beaconCache' = [beaconCache EXCEPT ![b.bssid] =
                               [ssid |-> b.ssid, channel |-> b.channel]]
    /\ pc' = "testing" /\ frame' = NoFrame
    /\ UNCHANGED <<quiet, report, seen, reported, handle, breakLoop, posted, uiQueue,
                   readsAfterStop>>
    /\ mainFrame

\* The station is looked up and entered under the lock; the candidate is
\* emitted after it was released.
candidate(r) == [sta |-> r.sta, ap |-> r.ap, ssid |-> beaconCache[r.ap].ssid,
                 channel |-> beaconCache[r.ap].channel]
HandleStation_unmarked ==   \* mutant
    /\ pc = "handling" /\ ~beaconOk(frame)
    /\ \E r \in parse(frame) :
           IF r.ok /\ r.sta \notin seen
           THEN /\ UNCHANGED seen
                /\ report' = candidate(r) /\ pc' = "emitting" /\ UNCHANGED frame
           ELSE /\ UNCHANGED <<seen, report>> /\ pc' = "testing" /\ frame' = NoFrame
    /\ UNCHANGED <<quiet, beaconCache, reported, handle, breakLoop, posted, uiQueue,
                   readsAfterStop>>
    /\ mainFrame
HandleStation_unnamed ==    \* mutant
    /\ pc = "handling" /\ ~beaconOk(frame)
    /\ \E r \in parse(frame) :
           IF r.ok /\ r.sta \notin seen
           THEN /\ seen' = seen \cup {r.sta}
                /\ IF beaconCache[r.ap].ssid = ""
                   THEN pc' = "testing" /\ frame' = NoFrame /\ UNCHANGED report
                   ELSE pc' = "emitting" /\ report' = candidate(r) /\ UNCHANGED frame
           ELSE /\ UNCHANGED <<seen, report>> /\ pc' = "testing" /\ frame' = NoFrame
    /\ UNCHANGED <<quiet, beaconCache, reported, handle, breakLoop, posted, uiQueue,
                   readsAfterStop>>
    /\ mainFrame
HandleStation ==
    /\ pc = "handling" /\ ~beaconOk(frame)
    /\ \E r \in parse(frame) :
           IF r.ok /\ r.sta \notin seen
           THEN /\ seen' = seen \cup {r.sta}
                /\ report' = candidate(r) /\ pc' = "emitting" /\ UNCHANGED frame
           ELSE /\ UNCHANGED <<seen, report>> /\ pc' = "testing" /\ frame' = NoFrame
    /\ UNCHANGED <<quiet, beaconCache, reported, handle, breakLoop, posted, uiQueue,
                   readsAfterStop>>
    /\ mainFrame

EmitCandidate ==
    /\ pc = "emitting"
    /\ reported' = [reported EXCEPT ![report.sta] = @ + 1]
    /\ report' = NoReport /\ frame' = NoFrame /\ pc' = "testing"
    /\ UNCHANGED <<quiet, seen, beaconCache, handle, breakLoop, posted, uiQueue,
                   readsAfterStop>>
    /\ mainFrame

\* pcap_close, and then the pointer; a pointer main has read goes stale.
Close ==
    /\ pc = "leaving" /\ pc' = "clearing"
    /\ handle' = "closed"
    /\ mainHandle' = IF mainHandle = "open" THEN "closed" ELSE mainHandle
    /\ UNCHANGED <<quiet, breakLoop, posted, uiQueue, readsAfterStop, iface, main, quitting,
                   status, hopping, stop, threadQuit>>
    /\ catchesOnly

ClearHandle_forgotten ==    \* mutant
    /\ pc = "clearing" /\ pc' = "idle"
    /\ UNCHANGED <<quiet, handle, breakLoop, posted, uiQueue, readsAfterStop>>
    /\ catchesOnly /\ mainFrame
ClearHandle ==
    /\ pc = "clearing" /\ pc' = "idle"
    /\ handle' = "null"
    /\ UNCHANGED <<quiet, breakLoop, posted, uiQueue, readsAfterStop>>
    /\ catchesOnly /\ mainFrame

ThreadEnds ==
    /\ pc = "idle" /\ threadQuit /\ pc' = "finished"
    /\ UNCHANGED <<quiet, handle, breakLoop, posted, uiQueue, readsAfterStop>>
    /\ catchesOnly /\ mainFrame

-----------------------------------------------------------------------------
(* The main thread's event loop.                                           *)

workerFrame == UNCHANGED <<iface, worker, handle, breakLoop, hopping, readsAfterStop>>
uiFrame     == /\ workerFrame
               /\ UNCHANGED <<stop, threadQuit, main, mainHandle>>

\* onCaptureStarted
DeliverStarted ==
    /\ main = "serving" /\ uiQueue # <<>> /\ Head(uiQueue) = "started"
    /\ uiQueue' = Tail(uiQueue)
    /\ captureFatal' = FALSE /\ retryVisible' = FALSE /\ label' = "collecting"
    /\ warnings' = 0 /\ shadowed' = FALSE
    /\ UNCHANGED <<box, posted, quitting, reported>>
    /\ uiFrame

\* onCaptureError: one box in an episode of errors; it runs the event loop.
DeliverError_hidden ==      \* mutant
    /\ main = "serving" /\ uiQueue # <<>> /\ Head(uiQueue) = "error"
    /\ uiQueue' = Tail(uiQueue)
    /\ label' = "error" /\ shadowed' = FALSE
    /\ captureFatal' = TRUE
    /\ retryVisible' = (retryVisible \/ ~captureFatal)
    /\ box' = (box \/ ~captureFatal)
    /\ warnings' = IF captureFatal THEN warnings ELSE warnings + 1
    /\ UNCHANGED <<posted, quitting, reported>>
    /\ uiFrame
DeliverError ==
    /\ main = "serving" /\ uiQueue # <<>> /\ Head(uiQueue) = "error"
    /\ uiQueue' = Tail(uiQueue)
    /\ label' = "error" /\ shadowed' = FALSE
    /\ retryVisible' = TRUE
    /\ captureFatal' = TRUE
    /\ box' = (box \/ ~captureFatal)
    /\ warnings' = IF captureFatal THEN warnings ELSE warnings + 1
    /\ UNCHANGED <<posted, quitting, reported>>
    /\ uiFrame

CloseBox ==
    /\ main = "serving" /\ box /\ box' = FALSE
    /\ UNCHANGED <<retryVisible, label, captureFatal, warnings, shadowed, uiQueue, posted,
                   quitting, reported>>
    /\ uiFrame

\* The retry button; the box is modal.
RetryClicked_cleared ==     \* mutant
    /\ main = "serving" /\ retryVisible /\ ~box
    /\ retryVisible' = FALSE /\ label' = "reconnecting" /\ shadowed' = FALSE
    /\ posted' = posted + 1
    /\ captureFatal' = FALSE
    /\ UNCHANGED <<box, warnings, uiQueue, quitting, reported>>
    /\ uiFrame
RetryClicked_stays ==       \* mutant
    /\ main = "serving" /\ retryVisible /\ ~box
    /\ label' = "reconnecting" /\ shadowed' = FALSE
    /\ posted' = 1
    /\ UNCHANGED <<captureFatal, retryVisible, box, warnings, uiQueue, quitting, reported>>
    /\ uiFrame
RetryClicked ==
    /\ main = "serving" /\ retryVisible /\ ~box
    /\ retryVisible' = FALSE /\ label' = "reconnecting" /\ shadowed' = FALSE
    /\ posted' = posted + 1
    /\ UNCHANGED <<captureFatal, box, warnings, uiQueue, quitting, reported>>
    /\ uiFrame

\* The registration flow writes the same label, whatever capture does.
FlowWritesLabel ==
    /\ main = "serving"
    /\ label' \in {"collecting", "registering"} /\ shadowed' = TRUE
    /\ UNCHANGED <<retryVisible, captureFatal, box, warnings, uiQueue, posted, quitting,
                   reported>>
    /\ uiFrame

\* forgetSeen, called from the main thread under the lock.  A candidate that
\* is under way still belongs to the time before.
ForgetSeen ==
    /\ main = "serving"
    /\ \E a \in Addr :
           /\ seen' = seen \ {a}
           /\ reported' = [reported EXCEPT
                              ![a] = IF pc = "emitting" /\ report.sta = a THEN -1 ELSE 0]
    /\ UNCHANGED <<iface, pc, quiet, frame, report, beaconCache, shared, main, mainHandle,
                   quitting, uiQueue, status, hopping, readsAfterStop>>

\* The window is closed, or a signal arrives.
Quit ==
    /\ main = "serving" /\ ~quitting /\ quitting' = TRUE
    /\ UNCHANGED <<posted, uiQueue, status, reported>>
    /\ uiFrame

-----------------------------------------------------------------------------
(* main before and after the event loop.                                   *)

mainOnly == UNCHANGED <<iface, worker, shared, mainHandle, quitting, uiQueue, status,
                        readsAfterStop, reported>>

\* The settings dialog is left, or a hopper is started and refuses an empty
\* list of channels.
Settings ==
    /\ main = "settings"
    /\ \/ main' = "exited" /\ UNCHANGED hopping
       \/ main' = "preparing" /\ Hopper!Start
    /\ mainOnly

\* The database or the server's address may be missing: main returns, and the
\* hopper's destructor stops it.
PrepareFails ==
    /\ main = "preparing" /\ main' = "returning"
    /\ Hopper!Stop
    /\ mainOnly

\* The worker's thread is started; the first run is its first call.
StartThread ==
    /\ main = "preparing" /\ main' = "serving"
    /\ pc' = "opening"
    /\ UNCHANGED <<iface, quiet, frame, report, seen, beaconCache, shared, mainHandle, quitting,
                   uiQueue, status, hopping, readsAfterStop, reported>>

HopperHops ==
    /\ \E c \in Channels : Hopper!Hop(c)
    /\ UNCHANGED main
    /\ mainOnly

HopperReturned ==
    /\ main = "returning" /\ main' = "exited"
    /\ Hopper!Joined
    /\ mainOnly

\* aboutToQuit, when the outermost loop was left: first the hopper.
LeaveLoop ==
    /\ main = "serving" /\ quitting /\ main' = "stopping hopper"
    /\ box' = FALSE
    /\ Hopper!Stop
    /\ UNCHANGED <<retryVisible, label, captureFatal, warnings, shadowed, iface, worker, shared,
                   mainHandle, quitting, uiQueue, readsAfterStop, reported>>

HopperJoined ==
    /\ main = "stopping hopper" /\ main' = "stopping"
    /\ Hopper!Joined
    /\ mainOnly

shutdownFrame == UNCHANGED <<iface, worker, handle, posted, quitting, uiQueue, status,
                             hopping, readsAfterStop, reported>>

\* requestStop: stop_, then the test of pcap_, then the call.
StopStore ==
    /\ main = "stopping" /\ main' = "looking"
    /\ stop' = TRUE
    /\ UNCHANGED <<breakLoop, threadQuit, mainHandle>>
    /\ shutdownFrame

LookAtHandle ==
    /\ main = "looking"
    /\ mainHandle' = handle
    /\ main' = IF handle = "null" THEN "quitting" ELSE "breaking"
    /\ UNCHANGED <<stop, breakLoop, threadQuit>>
    /\ shutdownFrame

\* The call is made with the pointer that was tested or with one read again;
\* with a handle that was closed, or none, it is undefined: it goes unnoticed
\* or the program dies.
BreakLoop ==
    /\ main = "breaking"
    /\ \E h \in {mainHandle, handle} :
           \/ h = "open" /\ main' = "quitting" /\ breakLoop' = TRUE
           \/ h # "open" /\ main' \in {"quitting", "crashed"} /\ UNCHANGED breakLoop
    /\ mainHandle' = "null"
    /\ UNCHANGED <<stop, threadQuit>>
    /\ shutdownFrame

QuitThread ==
    /\ main = "quitting" /\ main' = "waiting"
    /\ threadQuit' = TRUE
    /\ UNCHANGED <<stop, breakLoop, mainHandle>>
    /\ shutdownFrame

\* thread.wait(3000): the thread is over, or its time is up.
WaitEnds ==
    /\ main = "waiting" /\ pc = "finished"
    /\ main' = "deleting"
    /\ UNCHANGED hopping /\ mainOnly

\* terminate asks for the end of the thread and returns; wait, without a bound,
\* follows, and the worker goes on until it has ended.
Terminate_unasked ==    \* mutant
    /\ main = "waiting" /\ pc = "finished"
    /\ main' = "terminating"
    /\ UNCHANGED hopping /\ mainOnly
Terminate ==
    /\ main = "waiting" /\ pc # "finished"
    /\ main' = "terminating"
    /\ UNCHANGED hopping /\ mainOnly

\* The cancellation is deferred: the thread ends where it honours one, anywhere
\* in its loop, or runs on, or hangs where it never does.
ThreadDies ==
    /\ main = "terminating" /\ pc \notin {"finished", "killed"}
    /\ pc' = "killed"
    /\ UNCHANGED <<quiet, frame, report, seen, beaconCache, shared, main, iface, mainHandle,
                   quitting, uiQueue, status, hopping, readsAfterStop, reported>>

TerminatedEnds_anyway ==    \* mutant
    /\ main = "terminating"
    /\ main' = "deleting"
    /\ UNCHANGED hopping /\ mainOnly
TerminatedEnds ==
    /\ main = "terminating" /\ pc \in {"finished", "killed"}
    /\ main' = "deleting"
    /\ UNCHANGED hopping /\ mainOnly

\* The worker is deleted, exec returns and the database is closed.
Exit ==
    /\ main = "deleting" /\ main' = "exited"
    /\ UNCHANGED hopping /\ mainOnly

-----------------------------------------------------------------------------
alive == main # "crashed"

WorkerStep == \/ RunBegins \/ Open \/ Test \/ Timeout \/ Broken \/ ReadError \/ Packet
              \/ CheckIface \/ HandleBeacon \/ HandleStation \/ EmitCandidate
              \/ Close \/ ClearHandle \/ ThreadEnds
Deliver    == DeliverStarted \/ DeliverError
Shutdown   == \/ HopperReturned \/ LeaveLoop \/ HopperJoined \/ StopStore \/ LookAtHandle
              \/ BreakLoop \/ QuitThread \/ WaitEnds \/ Terminate \/ TerminatedEnds \/ Exit
MainStep   == \/ Settings \/ PrepareFails \/ StartThread \/ Deliver \/ CloseBox \/ RetryClicked
              \/ FlowWritesLabel \/ ForgetSeen \/ Quit \/ Shutdown

Next == alive /\ (IfaceChanges \/ WorkerStep \/ ThreadDies \/ MainStep \/ HopperHops)

Spec == Init /\ [][Next]_vars

\* The event loop delivers what was emitted, and a shutdown that was begun is
\* carried on as far as main can by itself; nothing is assumed of the worker,
\* which may hang in libpcap, nor that its thread ends when it is terminated.
FairSpec == Spec /\ WF_vars(alive /\ Deliver) /\ WF_vars(alive /\ Shutdown)
=============================================================================
