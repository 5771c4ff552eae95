# TLA+ models of the MAC-Collector kiosk

MAC-Collector is a touch-screen kiosk. A capture thread listens to 802.11
management frames, the operator picks one of the stations it heard, types in the
owner's name and phone number, and the kiosk registers the station on the allow
list of an OpenWIPS server over REST. When the server cannot be reached the work
is kept in a local SQLite table and sent again later. This directory holds the
TLA+ models of that program, the TLC runs that check them, and the proofs that
TLAPS checks.

## 1. The system

| Component | Source | State it keeps | Operations |
|---|---|---|---|
| `KioskWindow` | `src/src/ui.cpp` 1508-2298 | page shown, `isUpdateMode_`, the `pending*` members, `awaitingApiCommit_`, `awaitingApBeforeDevice_`, `serverMacs_` | page changes, form confirmation, one slot per API reply, 30 s resend timer, `onCandidateFound`, capture status |
| `Phase1Widget` | ui.cpp 435-720 | the rows of the candidate table | add, duplicate notice, remove, five-minute cleaning |
| `Phase2Widget`, `Phase3Widget` | ui.cpp 750-948 | the form's target; single-shot timers | confirm, cancel, automatic return |
| `AdminPage` | ui.cpp 954-1502 | last server list, device table, AP table | refresh, search, delete, edit; AP tab: add, change type, remove |
| `Db` | `src/src/db.cpp` | tables `station` (with `pending_op`) and `ap` | one SQL statement per method, under one mutex |
| `ApiClient` | `src/src/api_client.cpp` | calls in flight (in Qt's network manager) | register, update, delete, lists, AP calls; one success and one failure signal each |
| `CaptureWorker` | `src/src/capture.cpp` | pcap handle, `seenInSession_`, `beaconCache_`, stop flag | capture loop, `forgetSeen`, `requestStop` |
| `ChannelHopper` | `src/src/channel_hopper.cpp` | schedule, running flag, condition variable | `buildSchedule`, start, run, stop |
| `Parser`, `Mac` | `parser.cpp`, `mac.cpp` | none | radiotap walk, frame classification, address predicates |
| `main`, `app`, `net` | `main.cpp`, `app.cpp`, `net.cpp` | the wiring, the global stop flag | start, shutdown, `iw` calls |
| settings, PIN, audio | ui.cpp 48-429 | QSettings; a play list | dialogs before the main window; sound |

How they interact. Everything but capture and hopping runs on the thread of Qt's
event loop, so a handler is never interrupted by another one; it is the *order* of
handlers that nobody controls. Detections come from the capture thread as queued
signals. REST calls are asynchronous: many can be in flight, replies come in any
order, and the reply signals carry a MAC but not the call they belong to. Three
senders (the form, the resend timer, the administrator's page) share these signals.
`KioskWindow` has one set of `pending*` members for whatever the form is about,
which the next click and the next detection overwrite. Modal dialogs run a nested
event loop: clicks are blocked, timers and replies are not.

What is hard, and what makes each component correct:

* **Flow and replies.** A confirmation is committed at most once, with data, for the
  MAC it was given for; replies to other calls leave the flow alone.
* **Pending queue.** A row waits until the server has answered for it; it follows the
  life cycle that `db.cpp` describes; nothing loops or gets stuck.
* **Lists.** A server list may be older than what the operator did since.
* **Crash and restart.** Only the SQLite file survives, and late answers never come.
* **Faults.** A request can be lost; a reply can be lost after the server has acted;
  a reply can be cut off or unreadable; the server can refuse for its own reasons.
* **Detection.** The worker reports a MAC once per session; who forgets it, and
  what an old row of the candidate table makes of a new detection.
* **Capture.** An interface that goes away is noticed, shown, and can be retried; no
  second run is ever posted; shutdown works on the worker's state from another thread.
* **Hopping.** Every channel has its share of a round; stop and the wait of the thread
  race, and `iw` processes hang.
* **Frames.** Lengths come from the frame: a header, a signal byte or an element may
  not be there.
* **Access points.** The table is written by the flow, by two lists and by the AP tab,
  whose replies come late.

## 2. Modules

| Module | Models |
|---|---|
| `StationDb` | the statements of `Db`, as operators on the value of the `station` table (`pend` is `pending_op`, with `"none"` for NULL and `"absent"` for no row) and on the set of known APs |
| `Phase1Table` | the candidate table's operations, on a function from MAC to the kind of its row |
| `Server` | what the REST server accepts and what it then has (external) |
| `Kiosk` | the state machine: the flow, the administrator's page, capture's session set, the calls in flight, server steps and faults. EXTENDS `StationDb`, instantiates the other two |
| `RowLifecycle` | the abstract specification of the pending queue: the edges of one row's mark, not the requests |
| `KioskProps` | type invariant and properties of `Kiosk` |
| `MCKiosk` | the constants of the TLC runs |
| `KioskProofs` | TLAPS proofs: type correctness and `CommitHasData` |
| `KioskSafetyProofs` | TLAPS proofs: commits, the AP step, lists, rows without data, and the refinement of `RowLifecycle` |
| `KioskStepProofs` | TLAPS proofs: the action properties (sources of rows and APs, isolation of replies, pending marks) |
| `KioskRowProofs` | TLAPS proofs: what settles, uncovers or takes away a row, and what the block of random MACs keeps |
| `Schedule` | `buildSchedule`, one turn of its loops at a time |
| `ChannelHopper` | EXTENDS `Schedule`: the owner, the hopping thread with its condition variable, and the `iw` process |
| `HopperService` | the abstract specification of a hopper, as its owner sees it |
| `HopperProps`, `MCHopper`, `HopperProofs` | properties, instance and proofs |
| `HopperSpreadProofs` | TLAPS proofs: a round's spread and its fairness, and the order of the hops |
| `Parser` | `extractRadiotap`, `parse` and `parseBeacon` as operators on a frame |
| `Capture` | EXTENDS `Parser`: the worker's loop, what the window makes of its errors, main's start and shutdown, the interface. INSTANCEs `HopperService` for the hopper that main stops first |
| `CaptureRecovery` | the abstract specification of failure and retry |
| `CaptureProps`, `MCCapture`, `CaptureProofs` | properties, instance and proofs |

`Kiosk` and `Capture` meet in the detections and in `forgetSeen`: `Kiosk` has the
session set and the queue of signals but takes the worker to be running, `Capture` has
the worker but reduces the flow to the two things it does to capture, writing the
status label and forgetting an address. `Capture` uses the hopper through its abstract
specification, which `ChannelHopper` is shown to implement.

Correspondence. Variables have the names of the members they stand for
(`awaitingApiCommit`, `serverMacs`, `seen` for `seenInSession_`, ...); `stack` and
`chrome` are the page and whether the header is visible; `net` is the set of REST
calls in flight; `found` is the queue of `candidateFound` signals; `dialog` is an
open modal dialog of `AdminPage`; `autoReturns` counts the armed single-shot timers
of `Phase3Widget`. `pendingOwner` stands for `pendingName_`, `pendingPhone_` and
`pendingType_`. `confirmed` and `commits` are history variables that
only properties read, and `used` counts bounded activities.

Actions are the code's slots, under the code's names. Each contains the whole slot:
for instance `onDeviceListFetched` is `AdminPage::onServerListFetched`, then
`KioskWindow::onDeviceListFetched`, then the `trySyncPending` it ends with. Three
actions have names of their own: `Detect` (one pass of the capture loop that emits),
`SelectForDialog` (a delete or edit button pressed with a row selected, up to the
nested event loop of its dialog; the rest of the handler is `onDeleteSelected`,
`onEditSelected` or `DialogCanceled`), and `ApRegisterFailedWarning` (the lambda of
`AdminPage`, connected first, whose message box delays the flow's own slot
`onApRegisterForDeviceFailed` until it is dismissed). Message boxes after which a
handler does nothing more are left out.

A call in `net` has a stage: `"sent"` (the server has not seen it), `"ok"` or
`"rejected"` (it has answered and the reply is on its way). A failure with
`networkError` may hit a call in any of these stages: in `"sent"` the request was
lost, in `"ok"` the answer to a request that *was* carried out. `Refuse` is an HTTP
error, also for a call in stage `"ok"`: `parseHttpError` looks only at whether there
was a status, so a reply cut off after its status line reads as a refusal.

*The AP tab.* An AP is its BSSID. A change of type writes only a column the model does
not have, so `onChangeApType` sends `updateAP`, and `onUpdateAPSuccess` the fetch that
follows it; `onApFetched` stores the AP the *reply* names. `AskRemoveAp` and
`onRemoveAp` are the two halves of one handler around its question. Rows are chosen
from the AP table, which may hold one the page has not drawn yet. `registerAPs` takes any
HTTP 200 for success without reading the body, so `ServeAp` may answer it without having
taken the AP, which counts as a fault. `GarbleAp` is a reply
with HTTP 200 and no AP in it: `fetchOneAP` looks at neither code nor data and stores
an AP with an empty BSSID. The failure boxes of the AP tab stay in `net` as `"warned"`
calls until dismissed.

*The hopper* (`ChannelHopper`, `Schedule`). `worker` is the thread's place: in `run`'s
test, in `set_channel` (`"hopping"`, `"polling"`, `"killing"`), and in the wait
(`"resting"` before the predicate, `"dozing"` between predicate and sleep, `"asleep"`).
`stop` is three steps, the flag, the notification and the join, because it takes no
mutex: a notification to a dozing thread is lost, and the join then waits out a dwell.
`child` is the `iw` process, which may never end; two seconds of polling and the kill
are `PollTimeout` and `GiveUp`. `bursting_` is never given and the stop flag of
`net.cpp` is never set by this program, so `deferWhileBursting` returns at once and
`running()` is true; `open_monitor_pcap` is called by nothing.

*Capture.* `pc` is the worker's place in `run`, one step for each call of libpcap and
for each access to what other threads read; the flag and `pcap_breakloop` are separate
steps of `main`, as are `pcap_close` and the clearing of the pointer. The use of a
handle that `run` closes between `requestStop`'s test and its call is undefined, so
`BreakLoop` then either goes unnoticed or ends the program (`"crashed"`). `wait(3000)`
times out at any moment: a hung libpcap is not told from a slow one. What follows is three
steps: `Terminate` only asks for the end of the thread, which goes on, reports and closes
its handle as before; `ThreadDies` is the cancellation, honoured anywhere or never;
`TerminatedEnds` is the second `wait`, which has no time-out. The box that shows
an error runs a nested event loop, so deliveries go on while it is open. A signal that
arrives before `exec` is lost and is not an action. `reported` counts the candidates
emitted since a station was last forgotten; one under way at that moment belongs to the
time before.

*Frames* (`Parser`). A frame is a record of what the program reads: its captured
length, the radiotap header (its length, how many present words are chained, the bits
of the first, the signal), the addresses, the frame type and the elements with their
lengths. When the frame ends inside the 802.11 header, the third address is what
happens to follow (`parser.cpp:89-92` asks for 16 bytes and copies 24): any address.
`README.md:58` and 67 name EAPOL among what is captured; the filter `run` compiles lets
only beacons, authentication and association requests through, so `parse`'s branch for
data frames, which is modelled, is never taken from `run`.

What the model leaves out of the data: timestamps, device types, the names
and types of APs and, in `Kiosk`, the RSSI (no property reads them), MAC formatting (all senders use
`Mac::toString` or a label filled from it), search keywords, and every label.
Owner data is one value for name and phone number. Statements of `Db` are assumed to
succeed. The mode without an API client is never wired by `main` and is left out.

## 3. Runs

All bounds are in the `.cfg` files and in `MCKiosk`. `Limit` bounds how often each
*activity* may happen: detections, confirmations, visits to the administrator's page,
the administrator's operations, faults, restarts. Resends, replies, list fetches,
timers and cancellations are not limited, only by the slots: at most two calls about
one MAC and at most one or two of another kind are in flight at once, and where a
handler would need one more slot its step waits. Two calls per MAC are what it takes
for a live call to meet a resend or an administrator's call. Every behaviour comes
to rest when the limits are used up and nothing is pending, so the runs turn
deadlock checking off; "everything pending is settled" is checked as liveness.

| Run | Question | Instance |
|---|---|---|
| `one_station` | types, data of commits, blank rows, lists, sources of rows and of APs, pending marks, answers, hidden rows, candidates, life cycle | one MAC, one AP, one of every activity, server empty or with the MAC; 1.3 million states |
| `two_stations` | shared form members and signals, the block of random MACs | two MACs (symmetric) and a random one that the server has, two detections and confirmations, one fault, two AP calls at once; 750,000 states |
| `liveness` | `PendingDrains` under `FairSpec` | one MAC, one fault, one visit and one operation, a server that knows the AP; 230,000 states |
| `hopper` | the schedule and the stop protocol | eight lists: the one main makes (no company channels), a single channel, one and two company channels, below, at and above half of a round, an empty list |
| `capture` | candidates, recovery, shutdown | one AP, one station, nine frames that parsing decides differently, `QuietLimit` 2 for the code's 10; 107,000 states |

`QuietLimit` only sets how many timeouts pass between two looks at the interface; two is
the least at which the counter both counts and is reset. Nine frames: a near station, a
far one, the AP's own answer, one cut off inside its header, a group address, no signal,
a data frame, a beacon whose last element is cut off, a hidden network. The address set
has an individual, a group and the null address. In `hopper` every list is built and
then hopped for ever; nothing is bounded.

What they show:

* `TypeOK`, `CommitHasData` (a commit never runs on empty members), `NoBlankRow`
  (a row without owner data is one an administrator emptied).
* `ListsOverwriteNothing`: a device list, however old, changes no row the kiosk has.
* `RowsHaveASource`: a row enters out of the server's list or by a commit for the form's
  MAC, and its owner data change by such a commit, with the data in the form, or by the
  administrator's change of that row.
* `PendingNeedsAnswer`: lost calls, lists and restarts settle nothing.
* `AnswersSettle`: an answer settles the row, unless it refuses what the form asks for, which
  leaves the row as it was.
* `HiddenRowReturns`: what the code does keep of "a deleted row stays hidden" (see
  `deleted_stays_hidden` below): only the end of a registration or a change of that MAC
  brings the row back, whether answered or not; no list, detection, resend or restart does.
* `CandidateBecomesRow`: a candidate leaves the screen only when its MAC is committed, and
  then has a row, unless a change was committed (`updateStation` of a row that is gone).
  One that left without would not be reported again in the session.
* `RandomIsBlockedAtTheForm`: what the code does keep of "the registration of random MACs is
  blocked" (see `random_mac` below): no confirmation sends one; the flow can only send it
  after the AP step of another station's registration, when the form has changed meanwhile.
* `RowsFollowLifecycle`: `Kiosk` implements `RowLifecycle`: a mark moves along the named
  edges only. It does not say that a registration is sent before its mark goes (any answer
  settles a row; see `offline_sent` below), nor what is asked of the server: the page of the
  administrator sends changes and deletions of rows the server never saw.
* `OneCommitPerConfirm`: commits plus a commit still awaited never exceed the confirmations.
* `ApStepHasCall`: while the flow waits for an AP registration, one of the flow's own is in flight.
* `RepliesAreIsolated`: a reply changes no row of another MAC, in either table.
* `ApsHaveASource`: an AP enters the table from a server's answer about it, with a
  registration (never a change) of a station behind it, or by hand. With one AP and one
  operation the runs do not reach a change followed by the removal of the same AP
  (`ui.cpp:1102`); nor does `two_stations`, without the administrator, reach the flow and
  the AP tab registering at once (`ui.cpp:2258`, `ApStepHasCall`). The theorems cover both.
* `PendingDrains`: what is pending is eventually settled.
* `FairRound`, `Balanced`: a finished round holds each channel as often as it weighs, and on
  the way no position is a whole visit ahead of its share.
* `NoNeedlessRepeat`: inside a round a channel follows itself only if it has more than
  half of it. From one round to the next it may: with one company channel the last visit
  and the first can be the same, against the comment at `channel_hopper.cpp:14`; main
  passes no company channels (`README.md:59` says they are visited more often), so its
  schedule is the plain list.
* `StopCostsOneStep`: after stop has cleared the flag the thread begins one more channel
  change or one more dwell, never both. "Wakes at once" (`channel_hopper.cpp:89`) is not
  true of a lost notification; one dwell is the bound.
* `HopsFollowSchedule`: the thread takes the entries one by one and skips none, whatever
  becomes of the `iw` process or the wait.
* `IsService`: `ChannelHopper` implements `HopperService`, stop returning included,
  although `iw` processes hang. `EveryChannelComesRound`: no channel is starved.
* `SignalIsFound`: the walk over a radiotap header accepts it exactly when the signal
  byte is inside, and reads that byte, by a second, closed-form account of the layout.
  It depends on no state and is evaluated once, over all headers of `MCHeaders`.
* `CandidatesAreStations`: a candidate is a near individual address that sent the frame,
  not its AP, and its SSID was heard from that AP.
* `ReportedOnce`, `SeenIsReported`: between two forgets a station is reported once, and one
  that the session holds as seen was reported, or its report is under way, or was cut off
  by the termination of the thread at shutdown.
* `LabelAgrees`: the status label and the retry button agree, unless the registration
  flow wrote over the label last (`ui.cpp:1994` does so while capture is down, and the
  label then says it is collecting beside a retry button).
* `OneWarning`: one box in an episode of errors. `IsRecoverable`: `Capture` implements
  `CaptureRecovery`, so the program is trying, or has failed and will offer a retry, or
  offers it; never two, never none.
* `LossNoticed`: a worker that is not stuck leaves an interface that stays lost, also
  when libpcap reports nothing but timeouts.
* `StopCostsOneRead`: one more result of libpcap at most after `stop_` is set.
* `HandleIsCurrent`: the pointer is stale only between `pcap_close` and the next
  statement, and a handle `requestStop` tested is closed only if `run` closed it since.
* `CleanExit`: the worker is deleted when no thread runs it any more, and the hopper has
  been stopped by then.
* `QuitEnds`: a program told to leave does so although libpcap hangs, *if* a terminated
  thread ends. That is the hypothesis of the property and not of the model: without it,
  `main` stays in its second `wait` for a thread stuck where no cancellation is honoured.
  The undefined call above is the other end the program may come to; neither property
  rules it out.

Each has a mutant in the model, a plausible bug (a dropped test, a missing reset, an
upsert in place of an update), listed in `PROJECT.json`, which violates it.

Fairness (`FairSpec`). Weak fairness of the resend timer, of the delivery of queued
signals and replies, and of a server that serves what reaches it. The event loop and
periodic timers justify the first two; the last is the meaning of "the server is back".
Faults are limited, which is the usual "from some moment on". Nothing is assumed of
people: no click and no detection is ever forced. The fairness of replies is stated
for each MAC, since replies about different MACs never disable each other. Nothing is
assumed of the AP tab's calls, on which no row depends.

`ChannelHopper`: both threads are scheduled, a stop that was begun is carried on, and the
time of a dwell runs out however often the wait is woken (strong fairness of
`DwellTimeout`: the deadline is absolute). No `iw` process is assumed to end. `Capture`:
the event loop delivers what was emitted, and a shutdown that was begun is carried on as
far as `main` can by itself, the three-second time-out included. Nothing is assumed of the
worker, which may hang in libpcap, nor of its end when it is terminated; `LossNoticed`
states the fairness of the worker, and `QuitEnds` that of the cancellation, as a
hypothesis of its own.

### Where code and documents disagree

Seven runs end in a counterexample to something the repository says of itself.

| Run | Said | Done |
|---|---|---|
| `deleted_stays_hidden` | a deleted row stays hidden until the server has deleted it | a late reply to an earlier call clears the deletion mark (`clearPending` is unconditional) |
| `offline_registration` | when the server is down the data is kept | not if the operator has opened the form of another station meanwhile; nor, where the page of the administrator may be visited, a change made there, which the same property forbids |
| `resend_in_phase2` | resends do not mix with the form's flow | they do when they are about the form's MAC |
| `form_switch` | a station is registered with the data typed in for it | after an AP step, the MAC now in the form is registered with the data typed in for another |
| `unknown_ap` | the captured AP is registered on the server together with the device | a detection during the AP step replaces the AP: the device goes out behind one that was never registered |
| `offline_sent` | a registration made offline is sent when the server is back | an administrator's change of it is refused by a server that never saw it, and the refusal takes it out of the queue |
| `random_mac` | the registration of random MACs is blocked | a change of one, cancelled while in flight and unanswered, is stored and resent as a registration |

Two more contradictions are in `Kiosk` without a run of their own. The AP that
`api_client.h:27` calls the one a device was detected at is the last AP detected before the
confirmation, by the same overwritten member as in `unknown_ap`. And the device that
`ui.cpp:2094` wants back as a candidate after its deletion is hidden by its old row until the
next cleaning; after that it is reported again only if it was not detected in between, since
the session set then holds it.

## 4. Proofs

TLC checks small instances; the theorems hold for all values of the constants that
satisfy the named assumptions: the empty owner data and the empty BSSID are not
proper values (`ConstantsAreDistinct`), the empty MAC is no station
(`NoMacIsNoStation`), the server starts with well-formed tables
(`ServerStartsTyped`) and an owner for each of its devices (`ServerKnowsOwners`,
without which a list could bring in a row without data), limits are naturals
(`LimitsAreNaturals`), and at least one list call can be in flight (`ListSlotsExist`).
For the hopper, configurations are typed (`ConfigsAreTyped`), and no list holds a channel
twice (`NoChannelTwice`): the settings dialog, the only source of the list, refuses one
that does (`ui.cpp:284-296`).

`KioskProofs` proves `Spec => []TypeOK` and `Spec => []CommitHasData`. Neither is
inductive alone: that a registration sent after the AP step is a well-formed call
depends on the flow having a MAC, and that depends on the types of the form. Their
conjunction `CoreInv` is inductive. The proof has one lemma for each group of
actions, under it one step for each action, and under that one step for each named
part of `TypeOK` the action disturbs; the lemmas before it say what the operators of
`StationDb`, `Phase1Table` and `Server` return, and that every call the kiosk sends
or the server answers is a `Call`.

`KioskSafetyProofs` builds on `CoreInv`:

* `CommitsAreConfirmed` (`OneCommitPerConfirm`). Every step is either *calm* (no
  commit, no new wait, no confirmation taken back), or a confirmation, or a reply
  that trades the wait for one commit.
* `ApStepEnds` (`ApStepHasCall`). Every step either keeps some AP call of the flow in
  flight and begins no wait, or ends the wait; only a confirmation begins one, and
  sends the call. Inductive with `NetOK`, which makes a served call the same call.
* `ListsKeepRows` (`ListsOverwriteNothing`). A step that takes a list call away is a
  list's arrival, which goes through `cacheDevices`, or changes no row.
* `RowsImplementLifecycle` (`RowsFollowLifecycle`). What each statement of `Db` does to
  `pend` is one lemma; a step whose net effect on one row is an edge of the life cycle
  is a step of it (`EdgeIsStep`); the reply slots, which clear a mark and then commit,
  come down to one edge because a live reply is about the form's MAC. The refinement
  needs `CommitHasData`: without it a commit could be about no row at all.
* `RowsAreNamed` (`NoBlankRow`). Not inductive alone, since owner data comes back to
  the rows from calls, from the server and from its lists. `NamedInv` says of all four
  places that data without an owner was emptied by an administrator.

`KioskStepProofs` proves four action properties. A reply slot is given a *call*, and
what it does to the tables depends on that call being the only one with its MAC and slot;
`SlotsAreDistinct` is the invariant that says so: two device calls in flight that agree
in kind, MAC and slot are the same call. With it and `CoreInv`:

* `RowsAreSourced` (`RowsHaveASource`). `TableWriters` names the steps that write the table.
  Clearing a mark keeps the owner data (`StatementKeepsOwner`), so that what a reply slot
  writes is what its commit writes (`CommitIsSource`), and the dialog's handlers write only
  the row they were opened for (`AdminWrites`).
* `ApsAreNamed` (`ApsHaveASource`): the steps that write the AP table, each traced to its
  source.
* `RepliesStayIsolated` (`RepliesAreIsolated`): a live reply is about the form's MAC, a
  reply that is not live touches the rows of its own MAC only.
* `PendingIsAnswered` (`PendingNeedsAnswer`): a step that takes a call away for good
  delivers it (a call that is replaced keeps its slot, hence the invariant above), and an
  answer that found no network leaves what is pending pending.

`KioskRowProofs` says how far the claims reach that the code keeps only in part. With the
invariants above:

* `AnswersSettleRows` (`AnswersSettle`). A call that left in a step that is no fault was
  delivered to the handler of its kind (`DeliveredIsAnswered`); each handler clears the
  mark, removes the row, or commits synchronised data, and the one that does none of it
  is the refusal of the live call.
* `HiddenRowsReturnByReply` (`HiddenRowReturns`). Only the steps named by `RowWriters` write
  the table; a list leaves what has a row, and a deletion's reply removes the row or
  leaves it hidden.
* `CandidatesBecomeRows` (`CandidateBecomesRow`). The sweep and the detection are harmless by
  what `clearRegistered` and `addCandidate` do; a commit takes away the row of `pendingMac`
  only and, unless it is a change, stores it (`CommitLeavesRow`).
* `FormRegistersNoRandomMac` (`RandomIsBlockedAtTheForm`) needs an invariant of the page, that
  a form open for a random MAC is in update mode (`FormBlocksRandom`): every way into the
  form sets the mode with the MAC, and every way that resets the mode leaves the form.

`HopperProofs`. The schedule's part of `HopperInv` has two sums, each stated by a witness, a
function of partial sums: the weights add up to `total` (`ShareSums`) and the debts cancel
out (`DebtSums`). With `current[i] = picks * w[i] - total * visits[i]`, which `Balanced`
states, a debt at the end of a round is a multiple of `total`; none is as low as `-total`,
so all are at least zero, and as they cancel out they are zero: each position was visited
as often as it weighs (`RoundIsFair`). That no position is a whole visit ahead
(`SharesStayBalanced`) holds because the one that is owed most is owed something before it pays.
The other half of the invariant says, for each place of
the thread, what the flag and the counters can be; `StopIsPrompt` and the refinement
`ImplementsService` (its safety part) follow from it for every list, weight and number of
channels.

`HopperSpreadProofs`. `VisitsAreSpread` (`NoNeedlessRepeat`) is about two successive picks;
`SpreadInv` says why the second is another one, in each of three cases. If another position
has the weight of the one picked last, the two take turns: positions of one weight have had
the same number of visits, or the earlier of two in the list one more (`TurnsTaken`), so the
one not picked last is owed more (`LastTurn`). If it weighs 1, it has had its only visit.
What is left is a lone company channel, `b`, with no more than half of the round. After its
own turn it is owed at most `picks - 1 + w[b] - total` (`Lag`). If it were picked again, the
others would be owed no more, so all of them would have had their only visit and owe at
least 1 each; all of that is owed to `b`, as debts cancel out: at least `total - w[b]`,
which is more than the bound before. `RoundsAreFair` (`FairRound`) turns visits of positions
into entries of the schedule (`Counted`), for which `NoChannelTwice` is needed;
`ScheduleIsFollowed` (`HopsFollowSchedule`) is an invariant of the thread's place alone.

`CaptureProofs`. `CaptureInv` is about one token: a posted run, a run under way, an error
not yet delivered, or a retry on offer; there is never a second one, and there is one from
the start of the thread until the shutdown. From it follow the types, `LabelAndButtonAgree`,
`OneBoxAnEpisode` and the refinement `ImplementsRecovery` (safety part). Its other parts say
where the handle is open, what the beacon cache holds and what was reported, from which
`HandlesAreCurrent`, `ExitIsClean`, `StopIsSeenSoon`, `EveryCandidateIsAStation`,
`StationsAreReportedOnce` and `SeenStationsWereReported` follow; the last needs that the
report under way is of a station just entered, and that a forgotten one is no longer in the
set. `SignalsAreFound` is arithmetic on offsets, for every header of every length. The
assumptions are that addresses and configurations are typed (`AddrAssumption`,
`CaptureAssumption`, `HeadersAreTyped`, `ConfigsAreTyped`, `NoChannelIsNone`).

Left to TLC: liveness, which is beyond the prover's reach (`PendingDrains`,
`EveryChannelComesRound`, `LossNoticed`, `QuitEnds`, and the fairness in `IsService` and
`IsRecoverable`). Every other property of the passing runs is the statement of a theorem;
of the two refinements with a liveness part, the safety part is.

## 5. Not modelled

* Settings dialog and PIN. The settings dialog is over before anything else exists: what
  it yields is a choice in `Capture` and the configurations of `ChannelHopper`. The PIN
  dialog compares hashes and keeps no state that anything else reads.
* `AudioPlayer` and the labels that only count or time: nothing reads them, nothing waits
  for them.
* Set-up scripts, `open_monitor_pcap`, the stop flag of `net.cpp`: outside the running
  program, or used by nothing in it.
* Failing SQL statements: callers ignore the results, and what SQLite does on a full disk
  is not this code's. The AP's type, with `updateApType`, which no decision of the program
  depends on; the list's `toInt` of the device type (a hazard in `PROJECT.json`).
* Promises nobody made. `Kiosk` has the following behaviours, but no document says what
  should happen beyond what `RowLifecycle` allows, so they are hazards without a property:
  an AP step without a server; the deletion of a registration whose reply was lost, which is sent once and kept nowhere (the
  comment at `db.cpp:304` takes the server not to have it); the reply to a deletion that
  arrives after the one to a newer registration; and a list made before a deletion that
  arrives after it and puts the row back. The last two mean that the kiosk's table and the
  server's need not agree even when no call fails: an invariant that says they do, once
  all calls are answered, is violated in `one_station`.
* A removed AP that an older list or fetch brings back: allowed by `ApsHaveASource`,
  since no document promises otherwise.
* The server's answers are assumptions: in particular that it rejects a change, a
  removal or a fetch of an AP it does not have.

## 6. Plan

Order of work, the most important behaviour first. All of it is done.

1. `StationDb`, `Phase1Table`, `Server`, `Kiosk`, `RowLifecycle`: the registration flow
   with its pending queue, its runs, and the first proofs.
2. `Schedule`, `ChannelHopper`, `HopperService`: the hop schedule and the stop protocol.
3. `Parser`, `Capture`, `CaptureRecovery`: frames, the worker, recovery and shutdown.
4. The AP tab, in `Kiosk`: changing and removing an AP, the fetch after a change, and
   their interleavings with lists and with the AP step of the flow.
5. Theorems: every safety property of the passing runs, and the safety part of each
   refinement.

What is left would need a decision from the authors: the promises named in section 5,
once taken, are one property each, on behaviour that is already in `Kiosk`.
