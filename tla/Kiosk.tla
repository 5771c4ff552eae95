-------------------------------- MODULE Kiosk --------------------------------
(***************************************************************************)
(* The kiosk as one state machine: the registration flow (KioskWindow), the*)
(* administrator's device page (AdminPage), the candidate table and the    *)
(* capture worker's session set, the local tables, the REST calls in       *)
(* flight (ApiClient) and the server they reach.                           *)
(*                                                                         *)
(* All of the user interface runs on one thread, so a handler is one step; *)
(* what interleaves is the order of handlers: clicks, timers, detections   *)
(* queued by the capture thread, and replies, which come in any order, may *)
(* be lost, and may lose a request the server has already carried out.  A  *)
(* modal dialog runs a nested event loop: it blocks clicks and nothing     *)
(* else, so what a handler read before a dialog may be stale after it.     *)
(***************************************************************************)
EXTENDS StationDb, Naturals, Sequences

CONSTANTS
    RandomMac,   \* locally administered MACs, never to be registered
    NoMac,       \* the empty MAC string
    ServerHas,   \* the device tables the server may start with
    ServerAps,   \* the access points the server starts with
    DeviceSlot,  \* identities of concurrent calls about one station
    ListSlot,    \* identities of concurrent calls of any other kind
    Limit        \* how often each bounded activity may happen

Activity == {"detect", "confirm", "visit", "admin", "fault", "restart"}

INSTANCE Phase1Table
INSTANCE Server

ASSUME NoMacIsNoStation     == NoMac \notin Mac
ASSUME RandomMacsAreMacs    == RandomMac \subseteq Mac
ASSUME ServerStartsTyped    == ServerHas \subseteq Devices /\ ServerAps \subseteq Bssid
ASSUME ServerKnowsOwners    == \A d \in ServerHas : \A m \in registered(d) : d[m].owner \in Owner
ASSUME ListSlotsExist       == ListSlot # {}
ASSUME LimitsAreNaturals    == Limit \in [Activity -> Nat]

VARIABLES
    station, ap,                      \* the SQLite file
    devices, serverAps,               \* the server's tables
    net,                              \* the REST calls in flight
    stack, chrome,                    \* the page shown; header and status bar visible
    autoReturns,                      \* single-shot timers of Phase3Widget still armed
    isUpdateMode, pendingMac, pendingOwner, pendingBssid,
    awaitingApiCommit, awaitingApBeforeDevice,
    serverMacs,                       \* MACs of the last device list
    rows,                             \* the candidate table of Phase1Widget
    seen, found,                      \* seenInSession_; queued candidateFound signals
    serverDataReady, serverDevices,   \* AdminPage: MACs of the last device list
    table,                            \* AdminPage: the MACs in the device table
    dialog,                           \* AdminPage: the modal dialog that is open
    used,                             \* how often each bounded activity happened
    confirmed, commits                \* history, read by properties only

disk      == <<station, ap>>
server    == <<devices, serverAps>>
screen    == <<stack, chrome>>
form      == <<isUpdateMode, pendingMac, pendingOwner>>
flags     == <<awaitingApiCommit, awaitingApBeforeDevice>>
phase1    == <<serverMacs, rows, seen, found>>
admin     == <<serverDataReady, serverDevices, table, dialog>>
history   == <<confirmed, commits>>
vars      == <<disk, server, net, screen, autoReturns, form, pendingBssid, flags,
               phase1, admin, used, history>>

-----------------------------------------------------------------------------
(* REST calls.  "stage" follows a call from its request to its reply;      *)
(* "warned" is a failed call about an AP whose warning dialog is open.     *)
(* "from" says who sent it, which the handlers of the code cannot see.     *)

Stage      == {"sent", "ok", "rejected"}
DeviceCall == [op : Op, mac : Mac, owner : Owner \cup {NoOwner},
               bssid : Bssid \cup {NoBssid}, from : {"live", "sync", "admin"},
               id : DeviceSlot, stage : Stage]
ListCall   == [op : {"lists"}, devices : Devices, id : ListSlot, stage : Stage]
ApCall     == [op : {"registerAPs"}, bssid : Bssid, from : {"live", "admin"},
               id : ListSlot, stage : Stage \cup {"warned"}]
ApListCall == [op : {"aps"}, aps : SUBSET Bssid, id : ListSlot, stage : Stage]
ApEditOp   == {"updateAP", "deleteAP", "fetchAP"}
ApEditCall == [op : ApEditOp, bssid : Bssid \cup {NoBssid}, id : ListSlot,
               stage : Stage \cup {"warned"}]
Call       == DeviceCall \cup ListCall \cup ApCall \cup ApListCall \cup ApEditCall

deviceCalls(n, m) == {c \in n : c.op \in Op /\ c.mac = m}
callsOf(n, op)    == {c \in n : c.op = op}

\* At most one call per slot and subject is in flight: the bound on net.
free(slots, calls)    == {i \in slots : \A c \in calls : c.id # i}
hasDeviceSlot(n, m)   == free(DeviceSlot, deviceCalls(n, m)) # {}
hasListSlot(n, op)    == free(ListSlot, callsOf(n, op)) # {}
deviceSlot(n, m)      == CHOOSE i \in free(DeviceSlot, deviceCalls(n, m)) : TRUE
listSlot(n, op)       == CHOOSE i \in free(ListSlot, callsOf(n, op)) : TRUE

deviceCall(n, op, m, o, b, from) ==
    [op |-> op, mac |-> m, owner |-> o, bssid |-> b, from |-> from,
     id |-> deviceSlot(n, m), stage |-> "sent"]

registerDevice(n, m, o, b, from) == deviceCall(n, "register", m, o, b, from)
updateDevice(n, m, o, from)      == deviceCall(n, "update", m, o, NoBssid, from)
deleteDevice(n, m, from)         == deviceCall(n, "delete", m, NoOwner, NoBssid, from)

registerAPs(n, b, from) ==
    [op |-> "registerAPs", bssid |-> b, from |-> from,
     id |-> listSlot(n, "registerAPs"), stage |-> "sent"]

fetchDeviceList(n) ==
    [op |-> "lists", devices |-> [m \in Mac |-> NoDevice],
     id |-> listSlot(n, "lists"), stage |-> "sent"]

fetchAPs(n) ==
    [op |-> "aps", aps |-> {}, id |-> listSlot(n, "aps"), stage |-> "sent"]

\* updateAP, deleteAP and fetchOneAP.
apEditCall(n, op, b) ==
    [op |-> op, bssid |-> b, id |-> listSlot(n, op), stage |-> "sent"]

\* trySyncPending: one call for every pending row, whatever is in flight.
canSync(n, t) == \A m \in listPending(t) : hasDeviceSlot(n, m)
resend(n, r, m) ==
    IF r.pend = "register" THEN registerDevice(n, m, r.owner, r.bssid, "sync")
    ELSE IF r.pend = "delete" THEN deleteDevice(n, m, "sync")
    ELSE updateDevice(n, m, r.owner, "sync")
trySyncPending(n, t) == n \cup {resend(n, t[m], m) : m \in listPending(t)}

-----------------------------------------------------------------------------
(* Helpers of the handlers.                                                *)

NoDialog == [kind |-> "none", mac |-> NoMac]

\* What a click needs: no modal dialog is open.
canClick == dialog = NoDialog /\ \A c \in net : c.stage # "warned"

spend(a) == used[a] < Limit[a] /\ used' = [used EXCEPT ![a] = @ + 1]

goPhase1 == stack' = "phase1" /\ chrome' = TRUE /\ isUpdateMode' = FALSE

reloadTable(t, ready, list) ==
    IF ready THEN {m \in list : t[m].pend # "delete"} \cup (listStations(t) \ list)
    ELSE listStations(t)

\* A reply belongs to the registration flow when the flow waits for one and
\* the MAC is the one the form is about now.
isLive_ignoresMac(c)  == awaitingApiCommit       \* mutant
isLive_ignoresFlag(c) == c.mac = pendingMac      \* mutant
isLive(c) == awaitingApiCommit /\ c.mac = pendingMac

\* The row commitConfirmed writes into the table t.
commitRow(t, offline) ==
    IF isUpdateMode
    THEN IF offline THEN updateStationPending(t, pendingMac, pendingOwner)
         ELSE updateStation(t, pendingMac, pendingOwner)
    ELSE IF offline THEN addStationPending(t, pendingMac, pendingOwner, pendingBssid)
         ELSE addStation(t, pendingMac, pendingOwner, pendingBssid)

rememberAp(aps) ==
    IF pendingBssid = NoBssid \/ apExists(aps, pendingBssid) THEN aps
    ELSE addAp(aps, pendingBssid)

\* Only a registration stores the AP of the last detection.
apOfCommit_always == rememberAp(ap)     \* mutant
apOfCommit == IF isUpdateMode THEN ap ELSE rememberAp(ap)

\* The commit itself: the row, the AP, the candidate table's row, and phase 3
\* with its return timer.
commitConfirmed(t, offline) ==
    /\ station' = commitRow(t, offline)
    /\ ap' = apOfCommit
    /\ LET cleared == removeCandidate(rows, pendingMac)
       IN  rows' = IF visible(station', pendingMac)
                   THEN showDuplicateNotice(cleared, pendingMac) ELSE cleared
    /\ stack' = "phase3"
    /\ autoReturns' = autoReturns + 1
    /\ commits' = commits + 1

noCommit(t) == station' = t /\ UNCHANGED <<ap, rows, stack, autoReturns, commits>>

-----------------------------------------------------------------------------
(* The program starts on an empty database, or again on the one it left:   *)
(* everything but the SQLite file is new, and both lists are requested.    *)

startupCalls == {fetchDeviceList({}), fetchAPs({})}

Init ==
    /\ station = [m \in Mac |-> Absent] /\ ap = {}
    /\ devices \in ServerHas /\ serverAps = ServerAps
    /\ net = startupCalls
    /\ stack = "phase1" /\ chrome = TRUE /\ autoReturns = 0
    /\ isUpdateMode = FALSE /\ pendingMac = NoMac
    /\ pendingOwner = NoOwner /\ pendingBssid = NoBssid
    /\ awaitingApiCommit = FALSE /\ awaitingApBeforeDevice = FALSE
    /\ serverMacs = {} /\ rows = NoRows /\ seen = {} /\ found = <<>>
    /\ serverDataReady = FALSE /\ serverDevices = {} /\ table = {} /\ dialog = NoDialog
    /\ used = [a \in Activity |-> 0]
    /\ confirmed = [m \in Mac |-> {}] /\ commits = 0

Restart ==
    /\ spend("restart")
    /\ net' = startupCalls
    /\ goPhase1 /\ autoReturns' = 0
    /\ pendingMac' = NoMac /\ pendingOwner' = NoOwner /\ pendingBssid' = NoBssid
    /\ awaitingApiCommit' = FALSE /\ awaitingApBeforeDevice' = FALSE
    /\ serverMacs' = {} /\ rows' = NoRows /\ seen' = {} /\ found' = <<>>
    /\ serverDataReady' = FALSE /\ serverDevices' = {} /\ table' = {} /\ dialog' = NoDialog
    /\ UNCHANGED <<disk, server, history>>

-----------------------------------------------------------------------------
(* Detection.  The worker reports a MAC once, until it is forgotten; its   *)
(* signal waits in the queue of the user interface's thread.               *)

Detect(m, b) ==
    /\ m \notin seen /\ spend("detect")
    /\ seen' = seen \cup {m}
    /\ found' = Append(found, <<m, b>>)
    /\ UNCHANGED <<disk, server, net, screen, autoReturns, form, pendingBssid, flags,
                   serverMacs, rows, admin, history>>

onCandidateFound ==
    /\ found # <<>>
    /\ found' = Tail(found)
    /\ LET m == Head(found)[1]
       IN  /\ pendingBssid' = Head(found)[2]
           /\ rows' = IF macExists(station, m)
                      THEN IF visible(station, m) THEN showDuplicateNotice(rows, m) ELSE rows
                      ELSE IF m \in serverMacs THEN showDuplicateNotice(rows, m)
                      ELSE addCandidate(rows, m)
    /\ UNCHANGED <<disk, server, net, screen, autoReturns, form, flags, serverMacs, seen,
                   admin, used, history>>

\* The five-minute timer of Phase1Widget.
ClearRegistered ==
    /\ rows' = clearRegistered(rows)
    /\ UNCHANGED <<disk, server, net, screen, autoReturns, form, pendingBssid, flags,
                   serverMacs, seen, found, admin, used, history>>

-----------------------------------------------------------------------------
(* The registration flow.                                                  *)

\* A click on a register button.
goPhase2Register(m) ==
    /\ canClick /\ stack = "phase1" /\ rows[m] = "candidate"
    /\ ~isRandom(m)
    /\ isUpdateMode' = FALSE /\ pendingMac' = m
    /\ stack' = "phase2"
    /\ UNCHANGED <<disk, server, net, chrome, autoReturns, pendingOwner, pendingBssid,
                   flags, phase1, admin, used, history>>

\* A click on a change button.
goPhase2Update_keepsMode(m) ==      \* mutant
    /\ canClick /\ stack = "phase1" /\ rows[m] = "registered"
    /\ pendingMac' = m
    /\ stack' = "phase2"
    /\ UNCHANGED <<disk, server, net, chrome, autoReturns, isUpdateMode, pendingOwner,
                   pendingBssid, flags, phase1, admin, used, history>>
goPhase2Update(m) ==
    /\ canClick /\ stack = "phase1" /\ rows[m] = "registered"
    /\ isUpdateMode' = TRUE /\ pendingMac' = m
    /\ stack' = "phase2"
    /\ UNCHANGED <<disk, server, net, chrome, autoReturns, pendingOwner, pendingBssid,
                   flags, phase1, admin, used, history>>

\* The call a confirmation sends: a registration behind an AP the kiosk does
\* not know waits for that AP's registration.
apFirst == ~isUpdateMode /\ pendingBssid # NoBssid /\ ~apExists(ap, pendingBssid)
canConfirm ==
    IF apFirst THEN hasListSlot(net, "registerAPs")
    ELSE hasDeviceSlot(net, pendingMac)
confirmCall(o) ==
    IF isUpdateMode THEN updateDevice(net, pendingMac, o, "live")
    ELSE IF apFirst THEN registerAPs(net, pendingBssid, "live")
    ELSE registerDevice(net, pendingMac, o, pendingBssid, "live")

onPhase2Confirmed(o) ==
    /\ canClick /\ stack = "phase2" /\ canConfirm
    /\ spend("confirm")
    /\ pendingOwner' = o
    /\ awaitingApiCommit' = TRUE
    /\ awaitingApBeforeDevice' = (apFirst \/ awaitingApBeforeDevice)
    /\ net' = net \cup {confirmCall(o)}
    /\ confirmed' = [confirmed EXCEPT ![pendingMac] = @ \cup {o}]
    /\ UNCHANGED <<disk, server, screen, autoReturns, isUpdateMode, pendingMac,
                   pendingBssid, phase1, admin, commits>>

\* The form's cancel button.
onCancel_clearsForm ==      \* mutant
    /\ canClick /\ stack = "phase2"
    /\ goPhase1 /\ pendingMac' = NoMac
    /\ UNCHANGED <<disk, server, net, autoReturns, pendingOwner, pendingBssid,
                   flags, phase1, admin, used, history>>
onCancel ==
    /\ canClick /\ stack = "phase2"
    /\ goPhase1
    /\ UNCHANGED <<disk, server, net, autoReturns, pendingMac, pendingOwner, pendingBssid,
                   flags, phase1, admin, used, history>>

\* A return timer of phase 3 fires, whatever page is shown by then.
isArmed_always == TRUE      \* mutant
isArmed == autoReturns > 0
AutoReturn ==
    /\ isArmed /\ autoReturns' = autoReturns - 1
    /\ goPhase1
    /\ UNCHANGED <<disk, server, net, pendingMac, pendingOwner, pendingBssid, flags,
                   phase1, admin, used, history>>

-----------------------------------------------------------------------------
(* Replies to device calls.                                                *)

\* A reply that says no, or a call that got none: the request was lost, or
\* the answer to a request the server has carried out.
refused(c)     == c.stage = "rejected" /\ UNCHANGED used
unreachable(c) == c.stage # "warned" /\ spend("fault")

replyFrame == UNCHANGED <<server, chrome, form, pendingBssid, awaitingApBeforeDevice, confirmed>>
flowFrame  == replyFrame /\ UNCHANGED <<serverMacs, seen, found, admin>>

\* Success of a registration or a change.  The pending mark goes first.
onSuccess(c) ==
    /\ c.stage = "ok" /\ net' = net \ {c}
    /\ LET cleared == clearPending(station, c.mac)
       IN  IF isLive(c)
           THEN awaitingApiCommit' = FALSE /\ commitConfirmed(cleared, FALSE)
           ELSE noCommit(cleared) /\ UNCHANGED awaitingApiCommit
    /\ UNCHANGED used
    /\ flowFrame

\* Failure of a registration or a change.  A live one is saved offline or
\* reported; any other one keeps its pending mark or loses it.
afterRefusal_keepsMark(c) == station                      \* mutant
afterRefusal(c) == IF isLive(c) THEN station ELSE clearPending(station, c.mac)

stillAwaiting_always(c) == awaitingApiCommit              \* mutant
stillAwaiting(c) == awaitingApiCommit /\ ~isLive(c)

onFailed(c) ==
    /\ net' = net \ {c}
    /\ \/ refused(c) /\ noCommit(afterRefusal(c))
       \/ unreachable(c) /\ IF isLive(c) THEN commitConfirmed(station, TRUE)
                            ELSE noCommit(station)
    /\ awaitingApiCommit' = stillAwaiting(c)
    /\ flowFrame

onRegisterSuccess(c) == c.op = "register" /\ onSuccess(c)
onRegisterFailed(c)  == c.op = "register" /\ onFailed(c)
onUpdateSuccess(c)   == c.op = "update" /\ onSuccess(c)
onUpdateFailed(c)    == c.op = "update" /\ onFailed(c)

\* The row goes, and the MAC may be detected and registered again.
forget(m) ==
    /\ station' = removeStation(station, m)
    /\ serverMacs' = serverMacs \ {m}
    /\ seen' = seen \ {m}

deleteFrame == UNCHANGED <<ap, server, screen, autoReturns, form, pendingBssid, flags,
                           rows, found, admin, history>>

onDeleteSuccess(c) ==
    /\ c.op = "delete" /\ c.stage = "ok" /\ net' = net \ {c}
    /\ forget(c.mac)
    /\ UNCHANGED used
    /\ deleteFrame

onDeleteFailed(c) ==
    /\ c.op = "delete" /\ net' = net \ {c}
    /\ \/ refused(c) /\ forget(c.mac)
       \/ unreachable(c) /\ UNCHANGED <<station, serverMacs, seen>>
    /\ deleteFrame

-----------------------------------------------------------------------------
(* Replies to the list calls and to AP registrations.                      *)

listFrame == UNCHANGED <<server, screen, autoReturns, form, pendingBssid, flags, rows,
                         seen, found, dialog, history>>

\* AdminPage takes the reply first, then KioskWindow: it caches the devices
\* it has no row for and resends what is pending.
cacheDevices_refreshes(t, d) ==     \* mutant
    [m \in Mac |-> IF m \in registered(d)
                   THEN [pend |-> "none", owner |-> d[m].owner, bssid |-> d[m].bssid]
                   ELSE t[m]]
cacheDevices(t, d) ==
    [m \in Mac |-> IF m \in registered(d) /\ ~macExists(t, m)
                   THEN addStation(t, m, d[m].owner, d[m].bssid)[m] ELSE t[m]]

onDeviceListFetched(c) ==
    /\ c.op = "lists" /\ c.stage = "ok" /\ canSync(net \ {c}, station)
    /\ serverDataReady' = TRUE
    /\ serverDevices' = registered(c.devices)
    /\ table' = reloadTable(station, TRUE, serverDevices')
    /\ serverMacs' = registered(c.devices)
    /\ station' = cacheDevices(station, c.devices)
    /\ net' = trySyncPending(net \ {c}, station')
    /\ UNCHANGED <<ap, used>>
    /\ listFrame

onDeviceListFailed(c) ==
    /\ c.op = "lists" /\ (refused(c) \/ unreachable(c))
    /\ net' = net \ {c}
    /\ table' = reloadTable(station, serverDataReady, serverDevices)
    /\ UNCHANGED <<disk, serverMacs, serverDataReady, serverDevices>>
    /\ listFrame

apFrame == UNCHANGED <<station, serverMacs, serverDataReady, serverDevices, table>> /\ listFrame

onApListFetched(c) ==
    /\ c.op = "aps" /\ c.stage = "ok" /\ net' = net \ {c}
    /\ ap' = ap \cup c.aps
    /\ UNCHANGED used
    /\ apFrame

onApListFailed(c) ==
    /\ c.op = "aps" /\ (refused(c) \/ unreachable(c))
    /\ net' = net \ {c}
    /\ UNCHANGED ap
    /\ apFrame

\* The flow's wait for an AP registration is over.
apStepDone_forgotten == UNCHANGED awaitingApBeforeDevice     \* mutant
apStepDone == awaitingApBeforeDevice' = FALSE

\* Any AP registration that succeeds continues the registration that waits
\* for one, with what the form and the last detection hold by now.
onApRegisterBeforeDevice(c) ==
    /\ c.op = "registerAPs" /\ c.stage = "ok"
    /\ IF awaitingApBeforeDevice
       THEN /\ hasDeviceSlot(net, pendingMac)
            /\ ap' = rememberAp(ap)
            /\ net' = (net \ {c}) \cup
                      {registerDevice(net, pendingMac, pendingOwner, pendingBssid, "live")}
       ELSE net' = net \ {c} /\ UNCHANGED ap
    /\ apStepDone
    /\ UNCHANGED <<station, server, screen, autoReturns, form, pendingBssid,
                   awaitingApiCommit, phase1, admin, used, history>>

\* AdminPage's warning comes first, and it is modal; the registration flow
\* hears of the failure when the warning is dismissed.
ApRegisterFailedWarning(c) ==
    /\ c.op = "registerAPs" /\ (refused(c) \/ unreachable(c))
    /\ net' = (net \ {c}) \cup {[c EXCEPT !.stage = "warned"]}
    /\ UNCHANGED <<disk, server, screen, autoReturns, form, pendingBssid, flags, phase1,
                   admin, history>>

onApRegisterForDeviceFailed(c) ==
    /\ c.op = "registerAPs" /\ c.stage = "warned" /\ net' = net \ {c}
    /\ apStepDone
    /\ awaitingApiCommit' = (awaitingApiCommit /\ ~awaitingApBeforeDevice)
    /\ UNCHANGED <<disk, server, screen, autoReturns, form, pendingBssid, phase1, admin,
                   used, history>>

-----------------------------------------------------------------------------
(* Resynchronisation, every thirty seconds.                                *)

SyncTimer ==
    /\ listPending(station) # {} /\ canSync(net, station)
    /\ net' = trySyncPending(net, station)
    /\ UNCHANGED <<disk, server, screen, autoReturns, form, pendingBssid, flags, phase1,
                   admin, used, history>>

-----------------------------------------------------------------------------
(* The administrator's page.  A deletion or a change begins with the row   *)
(* that is selected, and takes effect when its dialog is accepted.         *)

adminFrame == UNCHANGED <<server, autoReturns, pendingMac, pendingOwner, pendingBssid,
                          flags, phase1, commits>>
pageFrame  == adminFrame /\ UNCHANGED <<screen, isUpdateMode>>

goAdmin ==
    /\ canClick /\ chrome /\ spend("visit")
    /\ hasListSlot(net, "lists") /\ hasListSlot(net, "aps")
    /\ net' = net \cup {fetchDeviceList(net), fetchAPs(net)}
    /\ table' = reloadTable(station, serverDataReady, serverDevices)
    /\ stack' = "admin" /\ chrome' = FALSE
    /\ UNCHANGED <<disk, isUpdateMode, serverDataReady, serverDevices, dialog, confirmed>>
    /\ adminFrame

onBack ==
    /\ canClick /\ stack = "admin"
    /\ goPhase1
    /\ UNCHANGED <<disk, net, admin, used, confirmed>>
    /\ adminFrame

SelectForDialog(kind, m) ==
    /\ canClick /\ stack = "admin" /\ m \in table
    /\ spend("admin")
    /\ dialog' = [kind |-> kind, mac |-> m]
    /\ UNCHANGED <<disk, net, serverDataReady, serverDevices, table, confirmed>>
    /\ pageFrame

\* The innermost dialog is the one that can be answered.
canAnswer(kind) == dialog.kind = kind /\ \A c \in net : c.stage # "warned"

DialogCanceled ==
    /\ \E kind \in {"delete", "edit", "removeAp"} : canAnswer(kind)
    /\ dialog' = NoDialog
    /\ UNCHANGED <<disk, net, serverDataReady, serverDevices, table, used, confirmed>>
    /\ pageFrame

onDeleteSelected ==
    /\ canAnswer("delete") /\ dialog' = NoDialog
    /\ hasDeviceSlot(net, dialog.mac)
    /\ station' = markStationPendingDelete(station, dialog.mac)
    /\ net' = net \cup {deleteDevice(net, dialog.mac, "admin")}
    /\ serverDevices' = serverDevices \ {dialog.mac}
    /\ table' = reloadTable(station', serverDataReady, serverDevices')
    /\ UNCHANGED <<ap, serverDataReady, used, confirmed>>
    /\ pageFrame

\* The edit dialog, unlike the form, also accepts empty fields.
onEditSelected(o) ==
    /\ canAnswer("edit") /\ dialog' = NoDialog
    /\ hasDeviceSlot(net, dialog.mac)
    /\ station' = updateStation(station, dialog.mac, o)
    /\ net' = net \cup {updateDevice(net, dialog.mac, o, "admin")}
    /\ table' = reloadTable(station', serverDataReady, serverDevices)
    /\ confirmed' = [confirmed EXCEPT ![dialog.mac] = @ \cup {o}]
    /\ UNCHANGED <<ap, serverDataReady, serverDevices, used>>
    /\ pageFrame

\* An access point typed in by hand: its registration answers on the signals
\* the registration flow listens to.
onAddAp(b) ==
    /\ canClick /\ stack = "admin" /\ ~apExists(ap, b)
    /\ hasListSlot(net, "registerAPs")
    /\ spend("admin")
    /\ ap' = addAp(ap, b)
    /\ net' = net \cup {registerAPs(net, b, "admin")}
    /\ UNCHANGED <<station, admin, confirmed>>
    /\ pageFrame

-----------------------------------------------------------------------------
(* The administrator's list of access points.  A row is chosen from the AP *)
(* table; the page may not show the newest rows of it yet.  Changing an AP *)
(* changes its type, which the table here leaves out, and has it fetched   *)
(* again when the server has accepted the change.                          *)

apPageFrame == UNCHANGED <<station, devices, screen, autoReturns, form, pendingBssid, flags,
                           phase1, serverDataReady, serverDevices, table, history>>

canEditAp(b) == canClick /\ stack = "admin" /\ b \in ap /\ spend("admin")

onChangeApType(b) ==
    /\ canEditAp(b) /\ hasListSlot(net, "updateAP")
    /\ net' = net \cup {apEditCall(net, "updateAP", b)}
    /\ UNCHANGED <<ap, serverAps, dialog>>
    /\ apPageFrame

AskRemoveAp(b) ==
    /\ canEditAp(b)
    /\ dialog' = [kind |-> "removeAp", bssid |-> b]
    /\ UNCHANGED <<ap, serverAps, net>>
    /\ apPageFrame

onRemoveAp ==
    /\ canAnswer("removeAp") /\ dialog' = NoDialog
    /\ hasListSlot(net, "deleteAP")
    /\ ap' = removeAp(ap, dialog.bssid)
    /\ net' = net \cup {apEditCall(net, "deleteAP", dialog.bssid)}
    /\ UNCHANGED <<serverAps, used>>
    /\ apPageFrame

\* Replies.  A failed change or removal opens a warning and changes nothing;
\* a failed fetch is heard by nobody.
replyFrameAp == UNCHANGED <<serverAps, dialog>> /\ apPageFrame

onUpdateAPSuccess(c) ==
    /\ c.op = "updateAP" /\ c.stage = "ok" /\ hasListSlot(net, "fetchAP")
    /\ net' = (net \ {c}) \cup {apEditCall(net, "fetchAP", c.bssid)}
    /\ UNCHANGED <<ap, used>>
    /\ replyFrameAp

onDeleteAPSuccess(c) ==
    /\ c.op = "deleteAP" /\ c.stage = "ok" /\ net' = net \ {c}
    /\ UNCHANGED <<ap, used>>
    /\ replyFrameAp

\* What is stored is the AP the reply names.
onApFetched(c) ==
    /\ c.op = "fetchAP" /\ c.stage = "ok" /\ net' = net \ {c}
    /\ ap' = addAp(ap, c.bssid)
    /\ UNCHANGED used
    /\ replyFrameAp

ApFetchFailed(c) ==
    /\ c.op = "fetchAP" /\ (refused(c) \/ unreachable(c))
    /\ net' = net \ {c}
    /\ UNCHANGED ap
    /\ replyFrameAp

ApEditFailedWarning(c) ==
    /\ c.op \in {"updateAP", "deleteAP"} /\ (refused(c) \/ unreachable(c))
    /\ net' = (net \ {c}) \cup {[c EXCEPT !.stage = "warned"]}
    /\ UNCHANGED ap
    /\ replyFrameAp

ApEditWarningDismissed(c) ==
    /\ c.op \in ApEditOp /\ c.stage = "warned" /\ net' = net \ {c}
    /\ UNCHANGED <<ap, used>>
    /\ replyFrameAp

-----------------------------------------------------------------------------
(* The server and the network: requests are served in any order, and the   *)
(* server may turn one away for reasons of its own (an HTTP error).  A     *)
(* reply cut off after its status line also reads as a refusal, although   *)
(* the server has carried the request out: parseHttpError only looks at    *)
(* whether there was a status.                                             *)

serverFrame == UNCHANGED <<disk, screen, autoReturns, form, pendingBssid, flags, phase1,
                           admin, history>>

answer(c, r) == net' = (net \ {c}) \cup {r}

ServeDevice(c) ==
    /\ c.op \in Op /\ c.stage = "sent"
    /\ IF accepts(devices, c)
       THEN devices' = apply(devices, c) /\ answer(c, [c EXCEPT !.stage = "ok"])
       ELSE UNCHANGED devices /\ answer(c, [c EXCEPT !.stage = "rejected"])
    /\ UNCHANGED <<serverAps, used>>
    /\ serverFrame

ServeList(c) ==
    /\ c.op = "lists" /\ c.stage = "sent"
    /\ answer(c, [c EXCEPT !.stage = "ok", !.devices = devices])
    /\ UNCHANGED <<server, used>>
    /\ serverFrame

ServeApList(c) ==
    /\ c.op = "aps" /\ c.stage = "sent"
    /\ answer(c, [c EXCEPT !.stage = "ok", !.aps = serverAps])
    /\ UNCHANGED <<server, used>>
    /\ serverFrame

\* Any HTTP 200 reads as success: whether the server took the AP is not looked
\* at.  That it did not is a fault.
ServeAp(c) ==
    /\ c.op = "registerAPs" /\ c.stage = "sent"
    /\ \/ serverAps' = serverAps \cup {c.bssid} /\ UNCHANGED used
       \/ UNCHANGED serverAps /\ spend("fault")
    /\ answer(c, [c EXCEPT !.stage = "ok"])
    /\ UNCHANGED devices
    /\ serverFrame

\* A change, a removal or a fetch of an AP the server lacks is rejected.
ServeApEdit(c) ==
    /\ c.op \in ApEditOp /\ c.stage = "sent"
    /\ IF c.bssid \in serverAps
       THEN /\ serverAps' = IF c.op = "deleteAP" THEN serverAps \ {c.bssid} ELSE serverAps
            /\ answer(c, [c EXCEPT !.stage = "ok"])
       ELSE UNCHANGED serverAps /\ answer(c, [c EXCEPT !.stage = "rejected"])
    /\ UNCHANGED <<ap, used, dialog>>
    /\ apPageFrame

Refuse(c) ==
    /\ c.stage \in {"sent", "ok"} /\ spend("fault")
    /\ answer(c, [c EXCEPT !.stage = "rejected"])
    /\ UNCHANGED server
    /\ serverFrame

\* A list reply that is not the expected JSON reads as an empty list.
Garble(c) ==
    /\ c.op = "lists" /\ c.stage = "ok" /\ spend("fault")
    /\ answer(c, [c EXCEPT !.devices = [m \in Mac |-> NoDevice]])
    /\ UNCHANGED server
    /\ serverFrame

\* A fetched AP that is not the expected JSON reads as one without a BSSID:
\* fetchOneAP looks at neither the code in the reply nor the data.
GarbleAp(c) ==
    /\ c.op = "fetchAP" /\ c.stage = "ok" /\ spend("fault")
    /\ answer(c, [c EXCEPT !.bssid = NoBssid])
    /\ UNCHANGED <<ap, serverAps, dialog>>
    /\ apPageFrame

-----------------------------------------------------------------------------
DeviceReply(m) ==
    \E c \in deviceCalls(net, m) :
        \/ onRegisterSuccess(c) \/ onRegisterFailed(c)
        \/ onUpdateSuccess(c)   \/ onUpdateFailed(c)
        \/ onDeleteSuccess(c)   \/ onDeleteFailed(c)

ListReply ==
    \E c \in net : \/ onDeviceListFetched(c) \/ onDeviceListFailed(c)
                   \/ onApListFetched(c)     \/ onApListFailed(c)

ApReply == \E c \in net : onApRegisterBeforeDevice(c) \/ ApRegisterFailedWarning(c)

WarningDismissed == \E c \in net : onApRegisterForDeviceFailed(c)

Serve == \E c \in net : ServeDevice(c) \/ ServeList(c) \/ ServeApList(c) \/ ServeAp(c)

AdminStep ==
    \/ goAdmin \/ onBack
    \/ \E m \in Mac, kind \in {"delete", "edit"} : SelectForDialog(kind, m)
    \/ DialogCanceled \/ onDeleteSelected
    \/ \E o \in Owner \cup {NoOwner} : onEditSelected(o)
    \/ \E b \in Bssid : onAddAp(b)

ApEditStep ==
    \/ \E b \in ap : onChangeApType(b) \/ AskRemoveAp(b)
    \/ onRemoveAp
    \/ \E c \in net : \/ onUpdateAPSuccess(c) \/ onDeleteAPSuccess(c)
                      \/ onApFetched(c) \/ ApFetchFailed(c)
                      \/ ApEditFailedWarning(c) \/ ApEditWarningDismissed(c)
                      \/ ServeApEdit(c) \/ GarbleAp(c)

FlowStep ==
    \/ \E m \in Mac : goPhase2Register(m) \/ goPhase2Update(m)
    \/ \E o \in Owner : onPhase2Confirmed(o)
    \/ onCancel \/ AutoReturn

Next ==
    \/ Restart
    \/ \E m \in Mac, b \in Bssid : Detect(m, b)
    \/ onCandidateFound \/ ClearRegistered
    \/ FlowStep \/ AdminStep \/ ApEditStep \/ SyncTimer
    \/ \E m \in Mac : DeviceReply(m)
    \/ ListReply \/ ApReply \/ WarningDismissed
    \/ Serve \/ \E c \in net : Refuse(c) \/ Garble(c)

Spec == Init /\ [][Next]_vars

\* What the event loop, the timers and a reachable server do by themselves.
\* Nothing is assumed of people.
Fairness ==
    /\ WF_vars(SyncTimer) /\ WF_vars(onCandidateFound) /\ WF_vars(Serve)
    /\ WF_vars(ListReply) /\ WF_vars(ApReply)
    /\ \A m \in Mac : WF_vars(DeviceReply(m))

FairSpec == Spec /\ Fairness
=============================================================================
