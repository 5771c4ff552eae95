--------------------------- MODULE KioskStepProofs ---------------------------
(***************************************************************************)
(* Proofs of the action properties of the kiosk: what no single step may   *)
(* do.  A reply changes the rows of its own MAC only; rows and access      *)
(* points enter the database from a named source; what is pending is       *)
(* settled by an answer.                                                   *)
(***************************************************************************)
EXTENDS KioskSafetyProofs

-----------------------------------------------------------------------------
(* Where access points come from.                                          *)

apSource(b) ==
    \/ b = pendingBssid /\ awaitingApBeforeDevice
    \/ b = pendingBssid /\ ~isUpdateMode /\ commits' = commits + 1
    \/ \E c \in net \ net' : \/ c.op = "aps" /\ b \in c.aps
                             \/ c.op = "fetchAP" /\ b = c.bssid
    \/ \E c \in net' \ net : c.op = "registerAPs" /\ c.from = "admin" /\ c.bssid = b

\* A call the kiosk sends is new: its slot was free.
LEMMA ApCallIsNew ==
    ASSUME NEW n, NEW b, NEW from, hasListSlot(n, "registerAPs")
    PROVE  registerAPs(n, b, from) \notin n
<1> DEFINE c == registerAPs(n, b, from)
<1>1. listSlot(n, "registerAPs") \in free(ListSlot, callsOf(n, "registerAPs"))
      BY DEF listSlot, hasListSlot
<1>2. c.op = "registerAPs" /\ c.id = listSlot(n, "registerAPs")
      BY DEF registerAPs
<1> QED BY <1>1, <1>2 DEF free, callsOf

\* The commit stores at most the AP of the last detection.
LEMMA CommitSource ==
    ASSUME NEW t, NEW offline, commitConfirmed(t, offline), NEW b \in ap' \ ap
    PROVE  b = pendingBssid /\ ~isUpdateMode /\ commits' = commits + 1
BY DEF commitConfirmed, apOfCommit, rememberAp, addAp

LEMMA DeviceReplyAps ==
    ASSUME NEW m \in Mac, DeviceReply(m), NEW b \in ap' \ ap
    PROVE  apSource(b)
<1>1. PICK c \in deviceCalls(net, m) :
          \/ onRegisterSuccess(c) \/ onRegisterFailed(c)
          \/ onUpdateSuccess(c)   \/ onUpdateFailed(c)
          \/ onDeleteSuccess(c)   \/ onDeleteFailed(c)
      BY DEF DeviceReply
<1>2. CASE onSuccess(c)
  <2>1. PICK t : commitConfirmed(t, FALSE)
        BY <1>2 DEF onSuccess, noCommit
  <2> QED BY <2>1, CommitSource DEF apSource
<1>3. CASE onFailed(c)
  <2>1. commitConfirmed(station, TRUE)
        BY <1>3 DEF onFailed, noCommit
  <2> QED BY <2>1, CommitSource DEF apSource
<1>4. CASE onDeleteSuccess(c) \/ onDeleteFailed(c)
      BY <1>4 DEF onDeleteSuccess, onDeleteFailed, deleteFrame
<1> QED BY <1>1, <1>2, <1>3, <1>4
        DEF onRegisterSuccess, onRegisterFailed, onUpdateSuccess, onUpdateFailed

LEMMA ApStepSource ==
    ASSUME [Next]_vars, NEW b \in ap' \ ap
    PROVE  apSource(b)
<1>1. CASE \/ Restart \/ onCandidateFound \/ ClearRegistered \/ SyncTimer \/ FlowStep
           \/ (\E m \in Mac, x \in Bssid : Detect(m, x)) \/ UNCHANGED vars
      BY <1>1 DEF Restart, onCandidateFound, ClearRegistered, SyncTimer, Detect, FlowStep,
                  goPhase2Register, goPhase2Update, onPhase2Confirmed, onCancel, AutoReturn,
                  vars, disk
<1>2. CASE AdminStep
  <2>1. PICK x \in Bssid : onAddAp(x)
        BY <1>2 DEF AdminStep, goAdmin, onBack, SelectForDialog, DialogCanceled,
                    onDeleteSelected, onEditSelected, disk
  <2>2. b = x /\ registerAPs(net, x, "admin") \in net' \ net
        BY <2>1, ApCallIsNew DEF onAddAp, addAp
  <2> QED BY <2>2 DEF apSource, registerAPs
<1>3. CASE ApEditStep
  <2>1. PICK c \in net : onApFetched(c)
        BY <1>3 DEF ApEditStep, onChangeApType, AskRemoveAp, onRemoveAp, removeAp,
                    onUpdateAPSuccess, onDeleteAPSuccess, ApFetchFailed, ApEditFailedWarning,
                    ApEditWarningDismissed, ServeApEdit, GarbleAp
  <2> QED BY <2>1 DEF onApFetched, addAp, apSource
<1>4. CASE ListReply
  <2>1. PICK c \in net : onApListFetched(c)
        BY <1>4 DEF ListReply, onDeviceListFetched, onDeviceListFailed, onApListFailed, disk
  <2> QED BY <2>1 DEF onApListFetched, apSource
<1>5. CASE ApReply \/ WarningDismissed
  <2>1. PICK c \in net : onApRegisterBeforeDevice(c)
        BY <1>5 DEF ApReply, WarningDismissed, ApRegisterFailedWarning,
                    onApRegisterForDeviceFailed, disk
  <2> QED BY <2>1 DEF onApRegisterBeforeDevice, rememberAp, addAp, apSource
<1>6. CASE Serve \/ \E c \in net : Refuse(c) \/ Garble(c)
      BY <1>6 DEF Serve, ServeDevice, ServeList, ServeApList, ServeAp, Refuse, Garble,
                  serverFrame, disk
<1> QED BY <1>1, <1>2, <1>3, <1>4, <1>5, <1>6, DeviceReplyAps DEF Next

\* An access point enters the kiosk's table out of the server's answer about it,
\* with the registration of a station detected behind it, or typed in by hand,
\* whatever calls are in flight when the administrator edits the list.
THEOREM ApsAreNamed == Spec => ApsHaveASource
<1>1. [Next]_vars => \A b \in ap' \ ap : apSource(b)
      BY ApStepSource
<1>2. [Next]_vars => [\A b \in ap' \ ap : apSource(b)]_vars
      BY <1>1
<1> QED BY <1>2, PTL DEF Spec, ApsHaveASource, apSource
-----------------------------------------------------------------------------
(* When the registration flow sends a registration.                        *)

\* A served or a refused call is no longer one the kiosk has just sent.
LEMMA ServedIsNotSent ==
    ASSUME NEW c \in Call, NEW s \in {"ok", "rejected", "warned"}
    PROVE  [c EXCEPT !.stage = s].stage # "sent"
<1>1. CASE c \in DeviceCall BY <1>1 DEF DeviceCall
<1>2. CASE c \in ListCall   BY <1>2 DEF ListCall
<1>3. CASE c \in ApCall     BY <1>3 DEF ApCall
<1>4. CASE c \in ApListCall BY <1>4 DEF ApListCall
<1>5. CASE c \in ApEditCall BY <1>5 DEF ApEditCall
<1> QED BY <1>1, <1>2, <1>3, <1>4, <1>5 DEF Call

\* A resynchronisation sends no call of the flow.
LEMMA SyncIsNotLive ==
    ASSUME NEW n, NEW t, NEW c \in trySyncPending(n, t) \ n
    PROVE  c.from = "sync" /\ c.op \in Op
<1>1. PICK m \in listPending(t) : c = resend(n, t[m], m)
      BY DEF trySyncPending
<1> QED BY <1>1 DEF resend, registerDevice, updateDevice, deleteDevice, deviceCall, Op

\* The flow sends a registration when the form is confirmed, or when the AP
\* registration it waits for is answered, and at no other moment.
sentByFlow(c) == c.op = "register" /\ c.from = "live" /\ c.stage = "sent"
flowStep(c) ==
    \/ \E o \in Owner : onPhase2Confirmed(o) /\ c = confirmCall(o)
    \/ \E a \in net : /\ onApRegisterBeforeDevice(a) /\ awaitingApBeforeDevice
                      /\ c = registerDevice(net, pendingMac, pendingOwner, pendingBssid, "live")

LEMMA FlowRegisters ==
    ASSUME CoreInv, [Next]_vars, NEW c \in net' \ net, sentByFlow(c)
    PROVE  flowStep(c)
<1>1. net \subseteq Call
      BY DEF CoreInv, TypeOK, NetOK
<1>2. CASE \/ onCandidateFound \/ ClearRegistered \/ onCancel \/ AutoReturn \/ UNCHANGED vars
           \/ \E m \in Mac : goPhase2Register(m) \/ goPhase2Update(m)
           \/ \E m \in Mac, b \in Bssid : Detect(m, b)
      BY <1>2 DEF onCandidateFound, ClearRegistered, onCancel, AutoReturn, vars,
                  goPhase2Register, goPhase2Update, Detect
<1>3. CASE Restart
      BY <1>3 DEF Restart, startupCalls, fetchDeviceList, fetchAPs, sentByFlow
<1>4. ASSUME NEW o \in Owner, onPhase2Confirmed(o) PROVE flowStep(c)
      BY <1>4 DEF onPhase2Confirmed, flowStep
<1>5. CASE SyncTimer
      BY <1>5, SyncIsNotLive DEF SyncTimer, sentByFlow
<1>6. CASE AdminStep
      BY <1>6 DEF AdminStep, goAdmin, onBack, SelectForDialog, DialogCanceled, fetchDeviceList,
                  fetchAPs, onDeleteSelected, onEditSelected, onAddAp, updateDevice,
                  deleteDevice, deviceCall, registerAPs, sentByFlow
<1>7. CASE ApEditStep
      BY <1>7, ApEditNet DEF ApEditCall, ApEditOp, sentByFlow
<1>8. ASSUME NEW m \in Mac, DeviceReply(m) PROVE FALSE
      BY <1>8 DEF DeviceReply, onRegisterSuccess, onRegisterFailed, onUpdateSuccess,
                  onUpdateFailed, onDeleteSuccess, onDeleteFailed, onSuccess, onFailed
<1>9. CASE ListReply
  <2>1. PICK a \in net : net' = net \ {a} \/ net' = trySyncPending(net \ {a}, station')
        BY <1>9 DEF ListReply, onDeviceListFetched, onDeviceListFailed, onApListFetched,
                    onApListFailed
  <2>2. c \in trySyncPending(net \ {a}, station') \ (net \ {a})
        BY <2>1
  <2> QED BY <2>2, SyncIsNotLive DEF sentByFlow
<1>10. ASSUME NEW a \in net, onApRegisterBeforeDevice(a) PROVE flowStep(c)
       BY <1>10 DEF onApRegisterBeforeDevice, flowStep
<1>11. ASSUME NEW a \in net, ApRegisterFailedWarning(a) \/ onApRegisterForDeviceFailed(a)
       PROVE  ~sentByFlow(c)
  <2>1. c = [a EXCEPT !.stage = "warned"]
        BY <1>11 DEF ApRegisterFailedWarning, onApRegisterForDeviceFailed
  <2> QED BY <1>1, <2>1, ServedIsNotSent DEF sentByFlow
<1>12. ASSUME NEW a \in net, ServeDevice(a) \/ ServeAp(a) \/ Refuse(a)
       PROVE  ~sentByFlow(c)
  <2>1. PICK s \in {"ok", "rejected"} : c = [a EXCEPT !.stage = s]
        BY <1>12 DEF ServeDevice, ServeAp, Refuse, answer
  <2> QED BY <1>1, <2>1, ServedIsNotSent DEF sentByFlow
<1>13. ASSUME NEW a \in net, ServeList(a) \/ Garble(a) \/ ServeApList(a)
       PROVE  ~sentByFlow(c)
  <2>1. a \in ListCall \/ a \in ApListCall
        BY <1>1, <1>13, CallKinds DEF ServeList, Garble, ServeApList
  <2>2. CASE ServeList(a)
    <3>1. a \in ListCall
          BY <1>1, <2>2, CallKinds DEF ServeList
    <3> QED BY <2>2, <3>1 DEF ServeList, answer, ListCall, sentByFlow
  <2>3. CASE Garble(a)
    <3>1. a \in ListCall
          BY <1>1, <2>3, CallKinds DEF Garble
    <3>2. \A d : [a EXCEPT !.devices = d].op = "lists"
          BY <3>1 DEF ListCall
    <3> QED BY <2>3, <3>2 DEF Garble, answer, sentByFlow
  <2>4. CASE ServeApList(a)
    <3>1. a \in ApListCall
          BY <1>1, <2>4, CallKinds DEF ServeApList
    <3> QED BY <2>4, <3>1 DEF ServeApList, answer, ApListCall, sentByFlow
  <2> QED BY <1>13, <2>2, <2>3, <2>4
<1> QED BY <1>2, <1>3, <1>4, <1>5, <1>6, <1>7, <1>8, <1>9, <1>10, <1>11, <1>12, <1>13
        DEF Next, FlowStep, ApReply, WarningDismissed, Serve
-----------------------------------------------------------------------------
(* What a reply to a device call changes.                                  *)

\* Every statement of Db leaves the other rows alone.
LEMMA StatementIsLocal ==
    ASSUME NEW t \in Table, NEW m \in Mac, NEW o, NEW b, NEW x \in Mac \ {m}
    PROVE  /\ addStation(t, m, o, b)[x] = t[x] /\ updateStation(t, m, o)[x] = t[x]
           /\ addStationPending(t, m, o, b)[x] = t[x] /\ updateStationPending(t, m, o)[x] = t[x]
           /\ markStationPendingDelete(t, m)[x] = t[x]
           /\ clearPending(t, m)[x] = t[x] /\ removeStation(t, m)[x] = t[x]
<1> USE DEF Table
<1>1. addStation(t, m, o, b)[x] = t[x] /\ updateStation(t, m, o)[x] = t[x]
      BY DEF addStation, updateStation
<1>2. addStationPending(t, m, o, b)[x] = t[x] /\ updateStationPending(t, m, o)[x] = t[x]
      BY DEF addStationPending, updateStationPending
<1>3. /\ markStationPendingDelete(t, m)[x] = t[x]
      /\ clearPending(t, m)[x] = t[x] /\ removeStation(t, m)[x] = t[x]
      BY DEF markStationPendingDelete, clearPending, setPendingOp, removeStation
<1> QED BY <1>1, <1>2, <1>3

LEMMA CommitIsLocal ==
    ASSUME TypeOK, pendingMac \in Mac, NEW t \in Table, NEW offline \in BOOLEAN,
           commitConfirmed(t, offline), NEW x \in Mac \ {pendingMac}
    PROVE  station'[x] = t[x] /\ rows'[x] = rows[x]
<1>1. station'[x] = t[x]
      BY StatementIsLocal DEF commitConfirmed, commitRow
<1>2. rows'[x] = rows[x]
      BY DEF commitConfirmed, removeCandidate, showDuplicateNotice, TypeOK, Phase1OK, RowsTable
<1> QED BY <1>1, <1>2

LEMMA DeviceReplyIsLocal ==
    ASSUME CoreInv, NEW m \in Mac, DeviceReply(m), NEW x \in Mac \ {m}
    PROVE  station'[x] = station[x] /\ rows'[x] = rows[x]
<1>1. PICK c \in deviceCalls(net, m) :
          \/ onRegisterSuccess(c) \/ onRegisterFailed(c)
          \/ onUpdateSuccess(c)   \/ onUpdateFailed(c)
          \/ onDeleteSuccess(c)   \/ onDeleteFailed(c)
      BY DEF DeviceReply
<1>2. /\ c.mac = m /\ station \in Table /\ clearPending(station, m) \in Table
      /\ clearPending(station, m)[x] = station[x] /\ removeStation(station, m)[x] = station[x]
      BY MarkingType, StatementIsLocal DEF deviceCalls, CoreInv, TypeOK, DiskOK
<1>3. isLive(c) => pendingMac = m
      BY <1>2 DEF isLive
<1>4. CASE onSuccess(c)
  <2>1. CASE isLive(c)
        BY <1>2, <1>3, <1>4, <2>1, CommitIsLocal DEF onSuccess, CoreInv
  <2>2. CASE ~isLive(c)
        BY <1>2, <1>4, <2>2 DEF onSuccess, noCommit
  <2> QED BY <2>1, <2>2
<1>5. CASE onFailed(c)
  <2>1. CASE isLive(c) /\ commitConfirmed(station, TRUE)
        BY <1>2, <1>3, <2>1, CommitIsLocal DEF CoreInv
  <2>2. CASE noCommit(station) \/ noCommit(afterRefusal(c))
        BY <1>2, <2>2 DEF noCommit, afterRefusal
  <2> QED BY <1>5, <2>1, <2>2 DEF onFailed
<1>6. CASE onDeleteSuccess(c) \/ onDeleteFailed(c)
      BY <1>2, <1>6 DEF onDeleteSuccess, onDeleteFailed, forget, deleteFrame
<1> QED BY <1>1, <1>4, <1>5, <1>6
        DEF onRegisterSuccess, onRegisterFailed, onUpdateSuccess, onUpdateFailed

\* A step that takes a device call away is its reply, leaves the database and
\* the candidate table alone, or is a restart.
LEMMA CallGone ==
    ASSUME CoreInv, [Next]_vars, NEW c \in net \ net', c.op \in Op
    PROVE  \/ DeviceReply(c.mac) /\ c.mac \in Mac
           \/ station' = station /\ rows' = rows
           \/ Restart
<1>1. CASE \/ onCandidateFound \/ ClearRegistered \/ FlowStep \/ SyncTimer \/ AdminStep
           \/ (\E m \in Mac, b \in Bssid : Detect(m, b)) \/ UNCHANGED vars
  <2>1. net \subseteq net'
    <3>1. CASE AdminStep
          BY <3>1 DEF AdminStep, goAdmin, onBack, SelectForDialog, DialogCanceled,
                      onDeleteSelected, onEditSelected, onAddAp
    <3>2. CASE ~AdminStep
          BY <1>1, <3>2 DEF onCandidateFound, ClearRegistered, SyncTimer, trySyncPending,
                      Detect, FlowStep, goPhase2Register, goPhase2Update, onPhase2Confirmed,
                      onCancel, AutoReturn, vars
    <3> QED BY <3>1, <3>2
  <2> QED BY <2>1
<1>2. ASSUME NEW m \in Mac, DeviceReply(m) PROVE DeviceReply(c.mac) /\ c.mac \in Mac
  <2>1. PICK a \in deviceCalls(net, m) : net' = net \ {a}
        BY <1>2 DEF DeviceReply, onRegisterSuccess, onRegisterFailed, onUpdateSuccess,
                    onUpdateFailed, onDeleteSuccess, onDeleteFailed, onSuccess, onFailed
  <2>2. c = a /\ a.mac = m
        BY <2>1 DEF deviceCalls
  <2> QED BY <1>2, <2>2
<1>3. ASSUME NEW a \in net, a.op \notin Op, net \ {a} \subseteq net' PROVE FALSE
      BY <1>3
<1>4. CASE ListReply \/ ApReply \/ WarningDismissed
  <2>1. PICK a \in net : a.op \notin Op /\ net \ {a} \subseteq net'
        BY <1>4 DEF ListReply, onDeviceListFetched, onDeviceListFailed, onApListFetched,
                    onApListFailed, ApReply, WarningDismissed, onApRegisterBeforeDevice,
                    ApRegisterFailedWarning, onApRegisterForDeviceFailed, trySyncPending, Op
  <2> QED BY <1>3, <2>1
<1>5. CASE Serve \/ \E a \in net : Refuse(a) \/ Garble(a)
      BY <1>5 DEF Serve, ServeDevice, ServeList, ServeApList, ServeAp, Refuse, Garble,
                  serverFrame, disk, phase1
<1>6. CASE ApEditStep
      BY <1>6, ApEditFrame DEF apPageFrame, phase1
<1> QED BY <1>1, <1>2, <1>4, <1>5, <1>6 DEF Next

\* A reply about one MAC changes the rows of no other MAC, in the database and
\* in the candidate table, whichever station the form is about by then.
THEOREM RepliesStayIsolated == Spec => RepliesAreIsolated
<1> DEFINE Isolated == \A c \in net \ net' : c.op \in Op /\ used'["restart"] = used["restart"] =>
               \A m \in Mac \ {c.mac} : station'[m] = station[m] /\ rows'[m] = rows[m]
<1>1. ASSUME CoreInv, Restart PROVE used'["restart"] # used["restart"]
      BY <1>1 DEF Restart, spend, CoreInv, TypeOK, CountersOK, Activity
<1>2. CoreInv /\ [Next]_vars => Isolated
      BY <1>1, CallGone, DeviceReplyIsLocal
<1>3. CoreInv /\ [Next]_vars => [Isolated]_vars
      BY <1>2
<1> QED BY <1>3, CoreInvariant, PTL DEF Spec, RepliesAreIsolated
-----------------------------------------------------------------------------
(* Where rows come from.                                                   *)

rowSource(m) ==
    \/ commits' = commits + 1 /\ m = pendingMac /\ station'[m].owner = pendingOwner
    \/ /\ ~macExists(station, m)
       /\ \E c \in net \ net' : c.op = "lists" /\ c.devices[m].owner = station'[m].owner
    \/ macExists(station, m) /\ dialog = [kind |-> "edit", mac |-> m]

\* No statement but an insertion brings a row about.
LEMMA StatementCreates ==
    ASSUME NEW t \in Table, NEW m \in Mac, NEW o, NEW x \in Mac, ~macExists(t, x)
    PROVE  /\ ~macExists(updateStation(t, m, o), x)
           /\ ~macExists(markStationPendingDelete(t, m), x)
           /\ ~macExists(clearPending(t, m), x) /\ ~macExists(removeStation(t, m), x)
<1> USE DEF Table, Row, row, macExists
<1>1. ~macExists(updateStation(t, m, o), x)
      BY DEF updateStation
<1>2. ~macExists(clearPending(t, m), x) /\ ~macExists(removeStation(t, m), x)
      BY DEF clearPending, setPendingOp, removeStation, Absent
<1>3. ~macExists(markStationPendingDelete(t, m), x)
      BY DEF markStationPendingDelete, setPendingOp, Absent
<1> QED BY <1>1, <1>2, <1>3

\* Clearing a mark, setting one and removing a row leave owner data alone.
LEMMA StatementKeepsOwner ==
    ASSUME NEW t \in Table, NEW m \in Mac, NEW x \in Mac,
           NEW u \in {clearPending(t, m), removeStation(t, m), markStationPendingDelete(t, m)},
           macExists(u, x)
    PROVE  macExists(t, x) /\ u[x].owner = t[x].owner
<1>1. macExists(t, x)
      BY StatementCreates
<1>2. CASE u = clearPending(t, m)
      BY <1>1, <1>2 DEF clearPending, setPendingOp, Table, row
<1>3. CASE u = removeStation(t, m)
      BY <1>1, <1>3 DEF removeStation, Table, macExists, Absent, row
<1>4. CASE u = markStationPendingDelete(t, m)
      BY <1>1, <1>4 DEF markStationPendingDelete, setPendingOp, Table, macExists, Absent, row
<1> QED BY <1>1, <1>2, <1>3, <1>4

\* A commit writes the form's owner data, or leaves those of the row it found.
LEMMA CommitOwner ==
    ASSUME pendingMac \in Mac, NEW t \in Table, NEW offline \in BOOLEAN,
           commitConfirmed(t, offline)
    PROVE  \/ station'[pendingMac].owner = pendingOwner
           \/ station'[pendingMac] = t[pendingMac]
BY DEF commitConfirmed, commitRow, addStation, addStationPending, updateStation,
       updateStationPending, row, Table

\* If a commit on the table t leaves a row it has written, that is a source.
LEMMA CommitIsSource ==
    ASSUME TypeOK, pendingMac \in Mac, NEW offline \in BOOLEAN,
           NEW t \in {station, clearPending(station, pendingMac)},
           commitConfirmed(t, offline), isWritten(pendingMac)
    PROVE  rowSource(pendingMac)
<1>1. station \in Table /\ t \in Table
      BY MarkingType DEF TypeOK, DiskOK
<1>2. station'[pendingMac] # t[pendingMac]
  <2>1. macExists(t, pendingMac) =>
            macExists(station, pendingMac) /\ t[pendingMac].owner = station[pendingMac].owner
        BY <1>1, StatementKeepsOwner
  <2> QED BY <2>1 DEF isWritten, macExists
<1> QED BY <1>1, <1>2, CommitOwner DEF rowSource, commitConfirmed

LEMMA DeviceReplyRows ==
    ASSUME CoreInv, NEW x \in Mac, DeviceReply(x), NEW m \in Mac, isWritten(m)
    PROVE  rowSource(m)
<1>1. m = x
      BY DeviceReplyIsLocal DEF isWritten, macExists
<1>2. PICK c \in deviceCalls(net, m) :
          \/ onRegisterSuccess(c) \/ onRegisterFailed(c)
          \/ onUpdateSuccess(c)   \/ onUpdateFailed(c)
          \/ onDeleteSuccess(c)   \/ onDeleteFailed(c)
      BY <1>1 DEF DeviceReply
<1>3. c.mac = m /\ station' \notin {station, clearPending(station, m), removeStation(station, m)}
      BY StatementKeepsOwner DEF deviceCalls, CoreInv, TypeOK, DiskOK, isWritten
<1>4. CASE onSuccess(c)
  <2>1. isLive(c) /\ commitConfirmed(clearPending(station, m), FALSE)
        BY <1>3, <1>4 DEF onSuccess, noCommit
  <2> QED BY <1>3, <2>1, CommitIsSource DEF isLive, CoreInv
<1>5. CASE onFailed(c)
  <2>1. isLive(c) /\ commitConfirmed(station, TRUE)
        BY <1>3, <1>5 DEF onFailed, noCommit, afterRefusal
  <2> QED BY <1>3, <2>1, CommitIsSource DEF isLive, CoreInv
<1>6. CASE onDeleteSuccess(c) \/ onDeleteFailed(c)
      BY <1>3, <1>6 DEF onDeleteSuccess, onDeleteFailed, forget
<1> QED BY <1>2, <1>4, <1>5, <1>6
        DEF onRegisterSuccess, onRegisterFailed, onUpdateSuccess, onUpdateFailed

LEMMA ListRows ==
    ASSUME CoreInv, NEW c \in net, onDeviceListFetched(c), NEW m \in Mac, isWritten(m)
    PROVE  rowSource(m)
<1>1. c \in net \ net'
  <2>1. c \notin trySyncPending(net \ {c}, station') \ (net \ {c})
        BY SyncIsNotLive DEF onDeviceListFetched, Op
  <2> QED BY <2>1 DEF onDeviceListFetched
<1>2. /\ ~macExists(station, m)
      /\ station'[m] = addStation(station, m, c.devices[m].owner, c.devices[m].bssid)[m]
      BY DEF onDeviceListFetched, cacheDevices, macExists, isWritten
<1>3. station'[m].owner = c.devices[m].owner
      BY <1>2 DEF addStation, row, CoreInv, TypeOK, DiskOK, Table
<1> QED BY <1>1, <1>2, <1>3 DEF rowSource, onDeviceListFetched

\* What the administrator does to the table of stations.
LEMMA AdminRows ==
    ASSUME CoreInv, AdminStep
    PROVE  \/ station' = station
           \/ /\ dialog.mac \in Mac /\ dialog = [kind |-> "delete", mac |-> dialog.mac]
              /\ station' = markStationPendingDelete(station, dialog.mac)
           \/ /\ dialog.mac \in Mac /\ dialog = [kind |-> "edit", mac |-> dialog.mac]
              /\ \E o \in Owner \cup {NoOwner} : station' = updateStation(station, dialog.mac, o)
<1>1. ASSUME NEW kind \in {"delete", "edit"}, canAnswer(kind)
      PROVE  dialog.mac \in Mac /\ dialog = [kind |-> kind, mac |-> dialog.mac]
      BY <1>1 DEF canAnswer, CoreInv, TypeOK, AdminOK, NoDialog
<1>2. CASE onDeleteSelected
      BY <1>1, <1>2 DEF onDeleteSelected
<1>3. ASSUME NEW o \in Owner \cup {NoOwner}, onEditSelected(o)
      PROVE  /\ dialog.mac \in Mac /\ dialog = [kind |-> "edit", mac |-> dialog.mac]
             /\ station' = updateStation(station, dialog.mac, o)
      BY <1>1, <1>3 DEF onEditSelected
<1>4. CASE \/ goAdmin \/ onBack \/ DialogCanceled \/ \E b \in Bssid : onAddAp(b)
           \/ \E m \in Mac, kind \in {"delete", "edit"} : SelectForDialog(kind, m)
      BY <1>4 DEF goAdmin, onBack, DialogCanceled, onAddAp, SelectForDialog, disk
<1> QED BY <1>2, <1>3, <1>4 DEF AdminStep

\* Only replies to device calls, device lists and the administrator write the
\* table of stations.
LEMMA TableWriters ==
    ASSUME [Next]_vars, station' # station
    PROVE  \/ \E m \in Mac : DeviceReply(m)
           \/ \E c \in net : onDeviceListFetched(c)
           \/ AdminStep
<1>1. CASE \/ Restart \/ onCandidateFound \/ ClearRegistered \/ SyncTimer \/ FlowStep
           \/ (\E m \in Mac, b \in Bssid : Detect(m, b)) \/ UNCHANGED vars
      BY <1>1 DEF Restart, onCandidateFound, ClearRegistered, SyncTimer, Detect, FlowStep,
                  goPhase2Register, goPhase2Update, onPhase2Confirmed, onCancel, AutoReturn,
                  vars, disk
<1>2. CASE ListReply
      BY <1>2 DEF ListReply, onDeviceListFailed, onApListFetched, onApListFailed, apFrame, disk
<1>3. CASE ApReply \/ WarningDismissed
      BY <1>3 DEF ApReply, WarningDismissed, onApRegisterBeforeDevice,
                  ApRegisterFailedWarning, onApRegisterForDeviceFailed, disk
<1>4. CASE Serve \/ \E c \in net : Refuse(c) \/ Garble(c)
      BY <1>4 DEF Serve, ServeDevice, ServeList, ServeApList, ServeAp, Refuse, Garble,
                  serverFrame, disk
<1>5. CASE ApEditStep
      BY <1>5, ApEditFrame DEF apPageFrame
<1> QED BY <1>1, <1>2, <1>3, <1>4, <1>5 DEF Next

LEMMA AdminWrites ==
    ASSUME CoreInv, AdminStep, NEW m \in Mac, isWritten(m)
    PROVE  rowSource(m)
<1>1. station \in Table /\ station' # station
      BY DEF CoreInv, TypeOK, DiskOK, isWritten
<1>2. ASSUME dialog.mac \in Mac, station' = markStationPendingDelete(station, dialog.mac)
      PROVE  FALSE
      BY <1>1, <1>2, StatementKeepsOwner DEF isWritten
<1>3. ASSUME dialog.mac \in Mac, dialog = [kind |-> "edit", mac |-> dialog.mac],
             NEW o, station' = updateStation(station, dialog.mac, o)
      PROVE  rowSource(m)
  <2>1. macExists(station, m)
        BY <1>1, <1>3, StatementCreates DEF isWritten
  <2>2. m = dialog.mac
        BY <1>1, <1>3, <2>1, StatementIsLocal DEF isWritten
  <2> QED BY <1>3, <2>1, <2>2 DEF rowSource
<1> QED BY <1>1, <1>2, <1>3, AdminRows

\* A row enters the database, or its owner data change, only by a commit of the
\* form's data for the very MAC in the form, out of the server's list (a row that
\* enters) or by the administrator's change of that row (one that is there), never
\* by a late reply to a resend, to a deletion or to an administrator's change.
THEOREM RowsAreSourced == Spec => RowsHaveASource
<1> DEFINE Sourced == \A m \in Mac : isWritten(m) => rowSource(m)
<1>1. CoreInv /\ [Next]_vars => Sourced
  <2> SUFFICES ASSUME CoreInv, [Next]_vars, NEW m \in Mac, isWritten(m) PROVE rowSource(m)
      OBVIOUS
  <2>1. station' # station
        BY DEF isWritten
  <2> QED BY <2>1, TableWriters, DeviceReplyRows, ListRows, AdminWrites
<1>2. CoreInv /\ [Next]_vars => [Sourced]_vars
      BY <1>1
<1> QED BY <1>2, CoreInvariant, PTL DEF Spec, RowsHaveASource, rowSource
-----------------------------------------------------------------------------
(* What settles a pending row.  That a reply is seen as one rests on the   *)
(* slots: no two calls about a MAC are ever in flight with the same one.   *)

distinct(n) ==
    \A c, d \in n : c.op \in Op /\ d.op \in Op /\ c.mac = d.mac /\ c.id = d.id => c = d

LEMMA DistinctReplace ==
    ASSUME NEW n, distinct(n), NEW c \in n, NEW r,
           r.op \in Op => c.op \in Op /\ c.mac = r.mac /\ c.id = r.id
    PROVE  distinct((n \ {c}) \cup {r})
<1> SUFFICES ASSUME NEW x \in (n \ {c}) \cup {r}, NEW y \in (n \ {c}) \cup {r},
                    x.op \in Op, y.op \in Op, x.mac = y.mac, x.id = y.id
             PROVE  x = y
    BY DEF distinct
<1>1. CASE x \in n \ {c} /\ y \in n \ {c}
      BY <1>1 DEF distinct
<1>2. CASE x = r /\ y \in n \ {c}
      BY <1>2 DEF distinct
<1>3. CASE y = r /\ x \in n \ {c}
      BY <1>3 DEF distinct
<1> QED BY <1>1, <1>2, <1>3

LEMMA DistinctAdd ==
    ASSUME NEW n, distinct(n), NEW k, k \subseteq n, NEW r,
           r.op \in Op => r.id \in free(DeviceSlot, deviceCalls(n, r.mac))
    PROVE  distinct(k \cup {r})
<1> SUFFICES ASSUME NEW x \in k \cup {r}, NEW y \in k \cup {r}, x.op \in Op, y.op \in Op,
                    x.mac = y.mac, x.id = y.id
             PROVE  x = y
    BY DEF distinct
<1>1. ASSUME NEW z \in n, z.op \in Op, r.op \in Op, z.mac = r.mac PROVE z.id # r.id
      BY <1>1 DEF free, deviceCalls
<1> QED BY <1>1 DEF distinct

LEMMA DistinctSync ==
    ASSUME NEW n, distinct(n), NEW t, canSync(n, t)
    PROVE  distinct(trySyncPending(n, t))
<1>1. ASSUME NEW c \in trySyncPending(n, t) \ n
      PROVE  /\ c.mac \in listPending(t) /\ c = resend(n, t[c.mac], c.mac)
             /\ c.id \in free(DeviceSlot, deviceCalls(n, c.mac))
  <2>1. PICK m \in listPending(t) : c = resend(n, t[m], m)
        BY <1>1 DEF trySyncPending
  <2>2. c.mac = m /\ c.id = deviceSlot(n, m)
        BY <2>1 DEF resend, registerDevice, updateDevice, deleteDevice, deviceCall
  <2>3. deviceSlot(n, m) \in free(DeviceSlot, deviceCalls(n, m))
        BY DEF canSync, hasDeviceSlot, deviceSlot
  <2> QED BY <2>1, <2>2, <2>3
<1> SUFFICES ASSUME NEW x \in trySyncPending(n, t), NEW y \in trySyncPending(n, t),
                    x.op \in Op, y.op \in Op, x.mac = y.mac, x.id = y.id
             PROVE  x = y
    BY DEF distinct
<1>2. CASE x \in n /\ y \in n
      BY <1>2 DEF distinct
<1>3. CASE x \notin n /\ y \notin n
      BY <1>1, <1>3
<1>4. CASE x \in n /\ y \notin n
      BY <1>1, <1>4 DEF free, deviceCalls
<1>5. CASE x \notin n /\ y \in n
      BY <1>1, <1>5 DEF free, deviceCalls
<1> QED BY <1>2, <1>3, <1>4, <1>5

\* A call the kiosk sends takes a free slot.
LEMMA SentIsFree ==
    ASSUME NEW n, NEW m, hasDeviceSlot(n, m), NEW op, NEW o, NEW b, NEW from
    PROVE  LET c == deviceCall(n, op, m, o, b, from)
           IN  c.mac = m /\ c.id \in free(DeviceSlot, deviceCalls(n, m))
<1>1. deviceSlot(n, m) \in free(DeviceSlot, deviceCalls(n, m))
      BY DEF hasDeviceSlot, deviceSlot
<1> QED BY <1>1 DEF deviceCall

\* The server's handling of a call leaves its slot.
LEMMA StageKeepsSlot ==
    ASSUME NEW c \in Call, NEW s
    PROVE  /\ [c EXCEPT !.stage = s].op = c.op /\ [c EXCEPT !.stage = s].id = c.id
           /\ c.op \in Op => [c EXCEPT !.stage = s].mac = c.mac
<1>1. CASE c \in DeviceCall BY <1>1 DEF DeviceCall
<1>2. CASE c \in ListCall   BY <1>2 DEF ListCall, Op
<1>3. CASE c \in ApCall     BY <1>3 DEF ApCall, Op
<1>4. CASE c \in ApListCall BY <1>4 DEF ApListCall, Op
<1>5. CASE c \in ApEditCall BY <1>5 DEF ApEditCall, ApEditOp, Op
<1> QED BY <1>1, <1>2, <1>3, <1>4, <1>5 DEF Call

LEMMA DistinctStep ==
    ASSUME CoreInv, distinct(net), [Next]_vars
    PROVE  distinct(net')
<1>1. net \subseteq Call /\ TypeOK /\ CommitHasData
      BY DEF CoreInv, TypeOK, NetOK
<1>2. ASSUME net' \subseteq net PROVE distinct(net')
      BY <1>2 DEF distinct
<1>3. ASSUME NEW k, k \subseteq net, NEW r, net' = k \cup {r}, r.op \notin Op
      PROVE  distinct(net')
      BY <1>3, DistinctAdd
<1>4. CASE \/ onCandidateFound \/ ClearRegistered \/ onCancel \/ AutoReturn \/ UNCHANGED vars
           \/ \E m \in Mac : goPhase2Register(m) \/ goPhase2Update(m)
           \/ \E m \in Mac, b \in Bssid : Detect(m, b)
      BY <1>2, <1>4 DEF onCandidateFound, ClearRegistered, onCancel, AutoReturn, vars,
                        goPhase2Register, goPhase2Update, Detect
<1>5. CASE Restart
      BY <1>5 DEF Restart, startupCalls, fetchDeviceList, fetchAPs, distinct, Op
<1>6. ASSUME NEW o \in Owner, onPhase2Confirmed(o) PROVE distinct(net')
  <2> DEFINE r == confirmCall(o)
  <2>1. net' = net \cup {r}
        BY <1>6 DEF onPhase2Confirmed
  <2>2. r.op \in Op => r.id \in free(DeviceSlot, deviceCalls(net, r.mac))
    <3>1. CASE ~isUpdateMode /\ apFirst
          BY <3>1 DEF confirmCall, registerAPs, Op
    <3>2. CASE isUpdateMode \/ ~apFirst
      <4>1. hasDeviceSlot(net, pendingMac)
            BY <1>6, <3>2 DEF onPhase2Confirmed, canConfirm, apFirst
      <4> QED BY <3>2, <4>1, SentIsFree DEF confirmCall, updateDevice, registerDevice
    <3> QED BY <3>1, <3>2
  <2> HIDE DEF r
  <2> QED BY <2>1, <2>2, DistinctAdd
<1>7. CASE SyncTimer
      BY <1>7, DistinctSync DEF SyncTimer
<1>8. CASE goAdmin
  <2>1. distinct(net \cup {fetchDeviceList(net)})
        BY DistinctAdd DEF fetchDeviceList, Op
  <2>2. distinct(net \cup {fetchDeviceList(net)} \cup {fetchAPs(net)})
        BY <2>1, DistinctAdd DEF fetchAPs, Op
  <2>3. net' = net \cup {fetchDeviceList(net)} \cup {fetchAPs(net)}
        BY <1>8 DEF goAdmin
  <2> QED BY <2>2, <2>3
<1>9. CASE onBack \/ DialogCanceled \/ \E m \in Mac, kind \in {"delete", "edit"} : SelectForDialog(kind, m)
      BY <1>2, <1>9 DEF onBack, DialogCanceled, SelectForDialog
<1>10. CASE onDeleteSelected \/ \E o \in Owner \cup {NoOwner} : onEditSelected(o)
  <2>1. PICK op, o : /\ net' = net \cup {deviceCall(net, op, dialog.mac, o, NoBssid, "admin")}
                     /\ hasDeviceSlot(net, dialog.mac)
        BY <1>10 DEF onDeleteSelected, onEditSelected, deleteDevice, updateDevice
  <2> QED BY <2>1, SentIsFree, DistinctAdd
<1>11. ASSUME NEW b \in Bssid, onAddAp(b) PROVE distinct(net')
       BY <1>3, <1>11 DEF onAddAp, registerAPs, Op
<1>12. CASE ApEditStep
  <2> SUFFICES ASSUME NEW x \in net', NEW y \in net', x.op \in Op, y.op \in Op,
                      x.mac = y.mac, x.id = y.id
               PROVE  x = y
      BY DEF distinct
  <2>1. x \in net /\ y \in net
        BY <1>12, ApEditNet DEF ApEditCall, ApEditOp, Op
  <2> QED BY <2>1 DEF distinct
<1>13. ASSUME NEW m \in Mac, DeviceReply(m) PROVE distinct(net')
       BY <1>2, <1>13 DEF DeviceReply, onRegisterSuccess, onRegisterFailed, onUpdateSuccess,
                  onUpdateFailed, onDeleteSuccess, onDeleteFailed, onSuccess, onFailed
<1>14. CASE ListReply
  <2>1. ASSUME NEW c \in net, onDeviceListFetched(c) PROVE distinct(net')
    <3>1. c.devices \in Devices
          BY <1>1, <2>1, CallKinds DEF onDeviceListFetched, ListCall
    <3>2. canSync(net \ {c}, station')
          BY <2>1, <3>1, CacheKeepsPending DEF onDeviceListFetched, CoreInv, TypeOK, DiskOK
    <3>3. distinct(net \ {c})
          BY DEF distinct
    <3> QED BY <2>1, <3>2, <3>3, DistinctSync DEF onDeviceListFetched
  <2>2. ASSUME NEW c \in net, onDeviceListFailed(c) \/ onApListFetched(c) \/ onApListFailed(c)
        PROVE  distinct(net')
        BY <1>2, <2>2 DEF onDeviceListFailed, onApListFetched, onApListFailed
  <2> QED BY <1>14, <2>1, <2>2 DEF ListReply
<1>15. ASSUME NEW c \in net, onApRegisterBeforeDevice(c) PROVE distinct(net')
  <2>1. CASE awaitingApBeforeDevice
    <3> DEFINE r == registerDevice(net, pendingMac, pendingOwner, pendingBssid, "live")
    <3>1. r.id \in free(DeviceSlot, deviceCalls(net, r.mac))
          BY <1>15, <2>1, SentIsFree DEF onApRegisterBeforeDevice, registerDevice
    <3>2. net' = (net \ {c}) \cup {r}
          BY <1>15, <2>1 DEF onApRegisterBeforeDevice
    <3> HIDE DEF r
    <3> QED BY <3>1, <3>2, DistinctAdd
  <2>2. CASE ~awaitingApBeforeDevice
        BY <1>2, <1>15, <2>2 DEF onApRegisterBeforeDevice
  <2> QED BY <2>1, <2>2
<1>16. ASSUME NEW c \in net, NEW s, net' = (net \ {c}) \cup {[c EXCEPT !.stage = s]}
       PROVE  distinct(net')
       BY <1>1, <1>16, StageKeepsSlot, DistinctReplace
<1>17. ASSUME NEW c \in net, \/ ApRegisterFailedWarning(c) \/ ServeDevice(c) \/ ServeAp(c)
                             \/ Refuse(c)
       PROVE  distinct(net')
       BY <1>16, <1>17 DEF ApRegisterFailedWarning, ServeDevice, ServeAp, Refuse, answer
<1>18. ASSUME NEW c \in net, onApRegisterForDeviceFailed(c) PROVE distinct(net')
       BY <1>2, <1>18 DEF onApRegisterForDeviceFailed
<1>19. ASSUME NEW c \in net, ServeList(c) \/ Garble(c) PROVE distinct(net')
  <2>1. c \in ListCall
        BY <1>1, <1>19, CallKinds DEF ServeList, Garble
  <2>2. \A d : /\ [c EXCEPT !.devices = d].op = "lists"
               /\ [c EXCEPT !.stage = "ok", !.devices = d].op = "lists"
        BY <2>1 DEF ListCall
  <2>3. PICK r : net' = (net \ {c}) \cup {r} /\ r.op = "lists"
        BY <1>19, <2>2 DEF ServeList, Garble, answer
  <2> QED BY <1>3, <2>3 DEF Op
<1>20. ASSUME NEW c \in net, ServeApList(c) PROVE distinct(net')
  <2>1. c \in ApListCall
        BY <1>1, <1>20, CallKinds DEF ServeApList
  <2>2. [c EXCEPT !.stage = "ok", !.aps = serverAps].op = "aps"
        BY <2>1 DEF ApListCall
  <2> QED BY <1>3, <1>20, <2>2 DEF ServeApList, answer, Op
<1> QED BY <1>4, <1>5, <1>6, <1>7, <1>8, <1>9, <1>10, <1>11, <1>12, <1>13, <1>14, <1>15,
           <1>17, <1>18, <1>19, <1>20
        DEF Next, FlowStep, AdminStep, ApReply, WarningDismissed, Serve

SlotsDistinct == distinct(net)

LEMMA SlotsAreDistinct == Spec => []SlotsDistinct
<1>1. Init => SlotsDistinct
      BY DEF Init, startupCalls, fetchDeviceList, fetchAPs, distinct, Op, SlotsDistinct
<1>2. CoreInv /\ SlotsDistinct /\ [Next]_vars => SlotsDistinct'
      BY DistinctStep DEF SlotsDistinct
<1> QED BY <1>1, <1>2, CoreInvariant, PTL DEF Spec

pendingAnswered(m) ==
    \/ \E c \in deviceCalls(net, m) : delivered(c) /\ c.stage # "sent"
                                      /\ used'["fault"] = used["fault"]
    \/ station[m].pend = "register" /\ dialog = [kind |-> "delete", mac |-> m]

LEMMA ReplyIsDelivered ==
    ASSUME CoreInv, distinct(net), NEW m, NEW c \in deviceCalls(net, m), net' = net \ {c}
    PROVE  delivered(c)
<1>1. c \in net /\ c.op \in Op /\ c \in Call
      BY DEF deviceCalls, CoreInv, TypeOK, NetOK
<1>2. ASSUME NEW s \in Stage, [c EXCEPT !.stage = s] \in net' PROVE FALSE
      BY <1>1, <1>2, StageKeepsSlot DEF distinct
<1> QED BY <1>1, <1>2 DEF delivered

LEMMA DeviceReplySettles ==
    ASSUME CoreInv, distinct(net), NEW x \in Mac, DeviceReply(x), NEW m \in Mac,
           station[m].pend \in Op, station'[m].pend \notin Op
    PROVE  pendingAnswered(m)
<1>1. m = x
      BY DeviceReplyIsLocal
<1>2. PICK c \in deviceCalls(net, m) :
          \/ onRegisterSuccess(c) \/ onRegisterFailed(c)
          \/ onUpdateSuccess(c)   \/ onUpdateFailed(c)
          \/ onDeleteSuccess(c)   \/ onDeleteFailed(c)
      BY <1>1 DEF DeviceReply
<1>3. delivered(c)
  <2>1. net' = net \ {c}
        BY <1>2 DEF onRegisterSuccess, onRegisterFailed, onUpdateSuccess,
                    onUpdateFailed, onDeleteSuccess, onDeleteFailed, onSuccess, onFailed
  <2> QED BY <2>1, ReplyIsDelivered
<1>4. CASE onSuccess(c) \/ onDeleteSuccess(c)
      BY <1>3, <1>4 DEF onSuccess, onDeleteSuccess, pendingAnswered
<1>5. CASE onFailed(c) \/ onDeleteFailed(c)
  <2>2. CASE refused(c)
        BY <1>3, <2>2 DEF refused, pendingAnswered
  <2>3. CASE ~refused(c) /\ isLive(c) /\ onFailed(c)
    <3>1. /\ c.mac = m /\ pendingMac = m /\ pendingOwner \in Owner
          /\ pendingBssid \in Bssid \cup {NoBssid} /\ station \in Table
          BY <2>3 DEF deviceCalls, isLive, CoreInv, CommitHasData, TypeOK, FormOK, DiskOK
    <3>2. station' = commitRow(station, TRUE)
          BY <2>3 DEF onFailed, commitConfirmed
    <3>3. CASE isUpdateMode
      <4>1. station' = updateStationPending(station, m, pendingOwner)
            BY <3>1, <3>2, <3>3 DEF commitRow
      <4> QED BY <3>1, <4>1, StatementPend DEF Op
    <3>4. CASE ~isUpdateMode
      <4>1. station' = addStationPending(station, m, pendingOwner, pendingBssid)
            BY <3>1, <3>2, <3>4 DEF commitRow
      <4> QED BY <3>1, <4>1, StatementPend DEF Op
    <3> QED BY <3>3, <3>4
  <2>4. CASE ~refused(c) /\ (onDeleteFailed(c) \/ ~isLive(c))
        BY <1>5, <2>4 DEF onFailed, onDeleteFailed, noCommit
  <2> QED BY <1>5, <2>2, <2>3, <2>4
<1> QED BY <1>2, <1>4, <1>5
        DEF onRegisterSuccess, onRegisterFailed, onUpdateSuccess, onUpdateFailed

LEMMA PendingStep ==
    ASSUME CoreInv, distinct(net), [Next]_vars, NEW m \in Mac,
           station[m].pend \in Op, station'[m].pend \notin Op
    PROVE  pendingAnswered(m)
<1>1. station \in Table
      BY DEF CoreInv, TypeOK, DiskOK
<1>2. ASSUME NEW c \in net, onDeviceListFetched(c) PROVE FALSE
      BY <1>2 DEF onDeviceListFetched, cacheDevices, macExists, Op
<1>3. ASSUME AdminStep PROVE pendingAnswered(m)
  <2>1. CASE station' = markStationPendingDelete(station, dialog.mac) /\ dialog.mac \in Mac
             /\ dialog = [kind |-> "delete", mac |-> dialog.mac]
        BY <1>1, <2>1, MarkPend DEF pendingAnswered, Op
  <2>2. ASSUME NEW o \in Owner \cup {NoOwner}, dialog.mac \in Mac,
               station' = updateStation(station, dialog.mac, o)
        PROVE  FALSE
    <3>1. PICK b : b \in Bssid \cup {NoBssid}
          OBVIOUS
    <3> QED BY <1>1, <2>2, <3>1, StatementPend
  <2> QED BY <1>3, <2>1, <2>2, AdminRows
<1> QED BY <1>2, <1>3, TableWriters, DeviceReplySettles

\* What is pending stays pending until the server answers a call about that MAC
\* or the administrator deletes a registration it never saw: for any number of
\* calls in flight, no lost request, lost reply, list or restart settles it.
THEOREM PendingIsAnswered == Spec => PendingNeedsAnswer
<1> DEFINE Answered == \A m \in Mac :
               station[m].pend \in Op /\ station'[m].pend \notin Op => pendingAnswered(m)
<1>1. CoreInv /\ SlotsDistinct /\ [Next]_vars => [Answered]_vars
      BY PendingStep DEF SlotsDistinct
<1> QED BY <1>1, CoreInvariant, SlotsAreDistinct, PTL
        DEF Spec, PendingNeedsAnswer, pendingAnswered
=============================================================================
