------------------------------ MODULE CaptureProps -----------------------------
(***************************************************************************)
(* What capture promises: candidates are stations and are reported once, a *)
(* failure is always shown and can be recovered from, and shutdown stops   *)
(* the worker before it deletes it, however it hangs.                      *)
(***************************************************************************)
EXTENDS Capture

CONSTANT Headers    \* radiotap headers the walk is compared on

ASSUME HeadersAreTyped ==
    Headers \subseteq [version : {0}, len : Nat, ext : Nat, present : SUBSET Nat, signal : Int]

loop   == {"testing", "reading", "checking", "handling", "emitting"}
errors == {i \in DOMAIN uiQueue : uiQueue[i] = "error"}

\* Every variable has its type; at most one run is posted, and the queue holds
\* what one run emits.
WorkerOK ==
    /\ pc \in loop \cup {"absent", "idle", "opening", "leaving", "clearing", "finished", "killed"}
    /\ quiet \in 0 .. QuietLimit - 1
DataOK ==
    /\ frame \in Frames \cup {NoFrame} /\ seen \subseteq Addr
    /\ report.sta \in Addr /\ reported \in [Addr -> {-1, 0, 1}]
SharedOK ==
    /\ iface \in {"up", "other", "down"}
    /\ stop \in BOOLEAN /\ breakLoop \in BOOLEAN /\ threadQuit \in BOOLEAN
    /\ handle \in {"null", "open", "closed"} /\ mainHandle \in {"null", "open", "closed"}
    /\ posted \in {0, 1} /\ readsAfterStop \in Nat
    /\ uiQueue \in {<<>>, <<"started">>, <<"error">>, <<"started", "error">>}
MainOK ==
    /\ main \in {"settings", "preparing", "returning", "serving", "stopping hopper", "stopping",
                 "looking", "breaking", "quitting", "waiting", "terminating", "deleting",
                 "exited", "crashed"}
    /\ quitting \in BOOLEAN /\ retryVisible \in BOOLEAN /\ captureFatal \in BOOLEAN
    /\ box \in BOOLEAN /\ shadowed \in BOOLEAN
    /\ label \in {"collecting", "error", "reconnecting", "registering"}
    /\ hopper \in {"off", "on", "stopping"} /\ late \in {0, 1} /\ tried \in Channels
    /\ warnings \in Nat
TypeOK == WorkerOK /\ DataOK /\ SharedOK /\ MainOK

-----------------------------------------------------------------------------
(* What is reported (extractRadiotap, parse, parseBeacon, run).            *)

\* Where the signal is by the layout of the header: TSFT is aligned to 8
\* bytes, Channel and FHSS to 2, the other fields are single bytes.
bitOf(p, bit) == IF bit \in p THEN 1 ELSE 0
signalPlace(h) ==
    LET first == 8 + 4 * h.ext
        tsft  == IF 0 \in h.present THEN ((first + 7) \div 8) * 8 + 8 ELSE first
        bytes == tsft + bitOf(h.present, 1) + bitOf(h.present, 2)
        even  == IF h.present \cap {3, 4} = {} THEN bytes ELSE 2 * ((bytes + 1) \div 2)
    IN  even + 4 * bitOf(h.present, 3) + 2 * bitOf(h.present, 4)

\* A header is accepted exactly when its signal byte lies inside it, and the
\* byte that is read is that one.  What the parser computes depends on no
\* state, so it is evaluated once, before anything runs.
SignalIsFound ==
    main = "settings" =>
        \A h \in Headers : \A n \in {20, 40} :
            LET f == [len |-> n, rt |-> h]
            IN  /\ extractRadiotap(f) <=> 5 \in h.present /\ signalPlace(h) < h.len /\ h.len <= n
                /\ extractRadiotap(f) => signalOffset(h) = signalPlace(h)

\* A candidate is an individual address that sent the frame, is near enough
\* and is not the AP itself, unless the frame was cut off before the AP's
\* address; its SSID was heard from the AP it is reported with.
CandidatesAreStations ==
    pc = "emitting" =>
        /\ report.sta = frame.addr2 /\ isStation(report.sta)
        /\ frame.rt.signal >= Threshold
        /\ frame.len >= frame.rt.len + 22 => report.ap = frame.addr3 /\ report.sta # report.ap
        /\ report.ssid # "" => \E f \in Frames : /\ f.kind = "beacon" /\ f.addr2 = report.ap
                                                 /\ parseBeacon(f).ssid = report.ssid

\* Between two forgets a station is reported once; a report that was under
\* way when it was forgotten is the one that may come in addition.
ReportedOnce ==
    \A a \in Addr : reported[a] + (IF pc = "emitting" /\ report.sta = a THEN 1 ELSE 0) <= 1

\* A station the session will not report again was reported, or its report is
\* under way, unless the thread was terminated in the middle of it: whatever
\* is forgotten meanwhile, no station is hidden without having been shown.
SeenIsReported ==
    \A a \in seen : reported[a] = 1 \/ (pc \in {"emitting", "killed"} /\ report.sta = a)

-----------------------------------------------------------------------------
(* Failure and recovery (onCaptureError, onCaptureStarted, the button).    *)

\* While the retry is on offer the label says why, unless the registration
\* flow has written over it; it never says so when there is no retry.
LabelAgrees ==
    /\ retryVisible /\ ~shadowed => label = "error"
    /\ label = "error" => retryVisible
    /\ label = "reconnecting" => ~retryVisible

\* One warning box is shown between two starts of capture, however often the
\* retry fails, and no retry is offered before it was shown.
OneWarning == warnings <= 1 /\ (retryVisible => warnings = 1)

\* The program is trying, or has failed and will offer a retry, or offers it:
\* exactly one of them until it is left.
trying  == posted + (IF pc \in loop \cup {"opening"} THEN 1 ELSE 0)
offered == IF retryVisible THEN 1 ELSE 0
phase   == IF main \in {"settings", "preparing"} THEN "off"
           ELSE IF main # "serving" \/ quitting THEN "over"
           ELSE CASE <<trying, Cardinality(errors), offered>> = <<1, 0, 0>> -> "trying"
                  [] <<trying, Cardinality(errors), offered>> = <<0, 1, 0>> -> "failed"
                  [] <<trying, Cardinality(errors), offered>> = <<0, 0, 1>> -> "offered"
                  [] OTHER -> "lost"
Recovery == INSTANCE CaptureRecovery
IsRecoverable == Recovery!Spec

\* A worker that is not stuck in a call leaves an interface that stays lost
\* (while the program lives).
LossNoticed ==
    WF_vars(alive /\ WorkerStep) =>
        (pc \in loop /\ ~works ~> pc \notin loop \/ works \/ ~alive)

-----------------------------------------------------------------------------
(* Shutdown (requestStop, aboutToQuit).                                    *)

\* Once stop_ is set the loop takes at most one more result of libpcap.
StopCostsOneRead == readsAfterStop <= 1

\* pcap_ is stale only between pcap_close and the next statement, so the
\* handle requestStop looked at is the one in use unless run closed it since.
HandleIsCurrent ==
    /\ handle = "open" => pc \in loop \cup {"leaving", "killed"}
    /\ handle = "closed" => pc \in {"clearing", "killed"}
    /\ main = "breaking" /\ mainHandle = "open" => handle = "open"

\* The worker is deleted when its thread no longer runs it, and the program
\* ends with its hopper stopped.
CleanExit ==
    /\ main \in {"deleting", "exited"} => pc \in {"absent", "finished", "killed"}
    /\ main = "exited" => hopper = "off"

\* A program that was told to leave does so although libpcap may hang, if a
\* thread that is terminated ends: a worker stuck where no cancellation reaches
\* it keeps main in the second wait for ever.
QuitEnds ==
    WF_vars(alive /\ ThreadDies) => (quitting ~> main = "exited" \/ ~alive)
=============================================================================
