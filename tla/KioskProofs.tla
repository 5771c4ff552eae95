----------------------------- MODULE KioskProofs -----------------------------
(***************************************************************************)
(* Proofs about the specification in Kiosk: every variable keeps its type  *)
(* and the registration flow never waits without data to commit.  The two  *)
(* are proved together, as the inductive invariant CoreInv: a call the flow*)
(* sends is well formed only because the flow has a MAC to send.           *)
(***************************************************************************)
EXTENDS KioskProps, TLAPS

-----------------------------------------------------------------------------
(* The operators on the tables.                                            *)

\* Every statement of Db maps a table to a table.
LEMMA AddStationType ==
    ASSUME NEW t \in Table, NEW m \in Mac, NEW o \in Owner \cup {NoOwner},
           NEW b \in Bssid \cup {NoBssid}
    PROVE  /\ addStation(t, m, o, b) \in Table
           /\ addStationPending(t, m, o, b) \in Table
BY DEF addStation, addStationPending, macExists, Table, Row, Op, row

LEMMA UpdateStationType ==
    ASSUME NEW t \in Table, NEW m \in Mac, NEW o \in Owner \cup {NoOwner}
    PROVE  updateStation(t, m, o) \in Table /\ updateStationPending(t, m, o) \in Table
BY DEF updateStation, updateStationPending, macExists, Table, Row, Op, row

LEMMA MarkingType ==
    ASSUME NEW t \in Table, NEW m \in Mac
    PROVE  /\ markStationPendingDelete(t, m) \in Table
           /\ clearPending(t, m) \in Table
           /\ removeStation(t, m) \in Table
BY DEF markStationPendingDelete, clearPending, removeStation, setPendingOp, macExists,
       Absent, Table, Row, Op, row

LEMMA CacheDevicesType ==
    ASSUME NEW t \in Table, NEW d \in Devices
    PROVE  cacheDevices(t, d) \in Table
<1>1. ASSUME NEW m \in Mac PROVE addStation(t, m, d[m].owner, d[m].bssid) \in Table
      BY AddStationType DEF Devices, Device
<1> QED BY <1>1 DEF cacheDevices, Table

\* Every operator of the candidate table maps rows to rows.
LEMMA RowsType ==
    ASSUME NEW r \in RowsTable, NEW m \in Mac
    PROVE  /\ addCandidate(r, m) \in RowsTable /\ showDuplicateNotice(r, m) \in RowsTable
           /\ removeCandidate(r, m) \in RowsTable /\ clearRegistered(r) \in RowsTable
BY DEF addCandidate, showDuplicateNotice, removeCandidate, clearRegistered, RowsTable,
       RowKind, isRandom

\* What the administrator's table shows are MACs.
LEMMA ReloadTableType ==
    ASSUME NEW t, NEW ready, NEW list \in SUBSET Mac
    PROVE  reloadTable(t, ready, list) \subseteq Mac
BY DEF reloadTable, listStations

\* The server's tables stay tables.
LEMMA ApplyType ==
    ASSUME NEW d \in Devices, NEW c \in DeviceCall
    PROVE  apply(d, c) \in Devices
BY DEF apply, Devices, Device, DeviceCall, NoDevice

-----------------------------------------------------------------------------
(* The calls in flight.                                                    *)

\* What kind of call a record is can be told from its op.
LEMMA CallKinds ==
    ASSUME NEW c \in Call
    PROVE  /\ c.op \in Op => c \in DeviceCall
           /\ c.op = "lists" => c \in ListCall
           /\ c.op = "registerAPs" => c \in ApCall
           /\ c.op = "aps" => c \in ApListCall
           /\ c.op \in ApEditOp => c \in ApEditCall
BY DEF Call, DeviceCall, ListCall, ApCall, ApListCall, ApEditCall, ApEditOp, Op

\* A call the kiosk sends is well formed when there is a slot for it.
LEMMA DeviceCallType ==
    ASSUME NEW n, NEW m \in Mac, hasDeviceSlot(n, m), NEW op \in Op,
           NEW o \in Owner \cup {NoOwner}, NEW b \in Bssid \cup {NoBssid},
           NEW from \in {"live", "sync", "admin"}
    PROVE  deviceCall(n, op, m, o, b, from) \in DeviceCall
<1>1. deviceSlot(n, m) \in DeviceSlot
      BY DEF deviceSlot, hasDeviceSlot, free
<1> QED BY <1>1 DEF deviceCall, DeviceCall, Stage

LEMMA RegisterAPsType ==
    ASSUME NEW n, hasListSlot(n, "registerAPs"), NEW b \in Bssid,
           NEW from \in {"live", "admin"}
    PROVE  registerAPs(n, b, from) \in ApCall
<1>1. listSlot(n, "registerAPs") \in ListSlot
      BY DEF listSlot, hasListSlot, free
<1> QED BY <1>1 DEF registerAPs, ApCall, Stage

LEMMA FetchType ==
    ASSUME NEW n
    PROVE  /\ hasListSlot(n, "lists") => fetchDeviceList(n) \in ListCall
           /\ hasListSlot(n, "aps") => fetchAPs(n) \in ApListCall
<1>1. ASSUME NEW op, hasListSlot(n, op) PROVE listSlot(n, op) \in ListSlot
      BY <1>1 DEF listSlot, hasListSlot, free
<1>2. [m \in Mac |-> NoDevice] \in Devices
      BY DEF Devices, Device, NoDevice
<1> QED BY <1>1, <1>2 DEF fetchDeviceList, fetchAPs, ListCall, ApListCall, Stage

LEMMA ApEditCallType ==
    ASSUME NEW n, NEW op \in ApEditOp, hasListSlot(n, op), NEW b \in Bssid \cup {NoBssid}
    PROVE  apEditCall(n, op, b) \in ApEditCall
<1>1. listSlot(n, op) \in ListSlot
      BY DEF listSlot, hasListSlot, free
<1> QED BY <1>1 DEF apEditCall, ApEditCall, Stage

LEMMA StartupType == startupCalls \subseteq Call
<1>1. ASSUME NEW op PROVE hasListSlot({}, op)
      BY ListSlotsExist DEF hasListSlot, free, callsOf
<1> QED BY <1>1, FetchType DEF startupCalls, Call

\* A resynchronisation adds device calls only.
LEMMA SyncType ==
    ASSUME NEW n \in SUBSET Call, NEW t \in Table, canSync(n, t)
    PROVE  trySyncPending(n, t) \in SUBSET Call
<1>1. ASSUME NEW m \in listPending(t) PROVE resend(n, t[m], m) \in DeviceCall
  <2>1. m \in Mac /\ hasDeviceSlot(n, m) /\ t[m] \in Row
        BY DEF listPending, canSync, Table
  <2> QED BY <2>1, DeviceCallType
         DEF resend, registerDevice, updateDevice, deleteDevice, Row, Op
<1> QED BY <1>1 DEF trySyncPending, Call

\* Caching a device list makes nothing pending, so what could be resent before
\* it can be resent after it.
LEMMA CacheKeepsPending ==
    ASSUME NEW t \in Table, NEW d \in Devices
    PROVE  /\ listPending(cacheDevices(t, d)) \subseteq listPending(t)
           /\ \A n : canSync(n, t) => canSync(n, cacheDevices(t, d))
<1>1. ASSUME NEW m \in listPending(cacheDevices(t, d)) PROVE m \in listPending(t)
      BY <1>1 DEF listPending, cacheDevices, addStation, macExists, Table, Row, Op, row
<1> QED BY <1>1 DEF canSync

\* The progress of a call leaves it a call.
LEMMA StageType ==
    ASSUME NEW c \in Call, NEW s \in Stage
    PROVE  [c EXCEPT !.stage = s] \in Call
<1>1. CASE c \in DeviceCall BY <1>1 DEF Call, DeviceCall
<1>2. CASE c \in ListCall   BY <1>2 DEF Call, ListCall
<1>3. CASE c \in ApCall     BY <1>3 DEF Call, ApCall
<1>4. CASE c \in ApListCall BY <1>4 DEF Call, ApListCall
<1>5. CASE c \in ApEditCall BY <1>5 DEF Call, ApEditCall
<1> QED BY <1>1, <1>2, <1>3, <1>4, <1>5 DEF Call

LEMMA ReplyType ==
    /\ \A c \in ListCall, d \in Devices :
          /\ [c EXCEPT !.stage = "ok", !.devices = d] \in ListCall
          /\ [c EXCEPT !.devices = d] \in ListCall
    /\ \A c \in ApListCall, s \in SUBSET Bssid :
          [c EXCEPT !.stage = "ok", !.aps = s] \in ApListCall
    /\ \A c \in ApCall : [c EXCEPT !.stage = "warned"] \in ApCall
    /\ \A c \in ApEditCall : /\ [c EXCEPT !.stage = "warned"] \in ApEditCall
                            /\ [c EXCEPT !.bssid = NoBssid] \in ApEditCall
<1>1. \A c \in ListCall, d \in Devices :
          /\ [c EXCEPT !.stage = "ok", !.devices = d] \in ListCall
          /\ [c EXCEPT !.devices = d] \in ListCall
      BY DEF ListCall, Stage
<1>2. \A c \in ApListCall, s \in SUBSET Bssid :
          [c EXCEPT !.stage = "ok", !.aps = s] \in ApListCall
      BY DEF ApListCall, Stage
<1>3. \A c \in ApCall : [c EXCEPT !.stage = "warned"] \in ApCall
      BY DEF ApCall, Stage
<1>4. \A c \in ApEditCall : /\ [c EXCEPT !.stage = "warned"] \in ApEditCall
                           /\ [c EXCEPT !.bssid = NoBssid] \in ApEditCall
      BY DEF ApEditCall, Stage
<1> QED BY <1>1, <1>2, <1>3, <1>4

-----------------------------------------------------------------------------
(* The inductive invariant.                                                *)

CoreInv == TypeOK /\ CommitHasData

LEMMA InitCore == Init => CoreInv
<1> SUFFICES ASSUME Init PROVE CoreInv
    OBVIOUS
<1>1. DiskOK /\ ServerOK
      BY ServerStartsTyped DEF Init, DiskOK, ServerOK, Table, Row, Absent, row
<1>2. NetOK
      BY StartupType DEF Init, NetOK
<1>3. Phase1OK
      BY DEF Init, Phase1OK, NoRows, RowsTable, RowKind
<1>4. ScreenOK /\ FormOK /\ FlagsOK /\ AdminOK /\ CountersOK
      BY DEF Init, ScreenOK, FormOK, FlagsOK, AdminOK, CountersOK
<1>5. CommitHasData
      BY DEF Init, CommitHasData
<1> QED BY <1>1, <1>2, <1>3, <1>4, <1>5 DEF CoreInv, TypeOK

\* Spending from a bounded activity leaves the counters typed.
LEMMA SpendType ==
    ASSUME CountersOK, NEW a \in Activity, spend(a)
    PROVE  used' \in [Activity -> Nat]
BY DEF CountersOK, spend

LEMMA RestartCore == CoreInv /\ Restart => CoreInv'
<1> SUFFICES ASSUME CoreInv, Restart PROVE CoreInv'
    OBVIOUS
<1> USE DEF CoreInv, TypeOK, Restart
<1>1. DiskOK' /\ ServerOK'
      BY DEF DiskOK, ServerOK, disk, server
<1>2. NetOK'
      BY StartupType DEF NetOK
<1>3. Phase1OK'
      BY DEF Phase1OK, NoRows, RowsTable, RowKind
<1>4. ScreenOK' /\ FormOK' /\ FlagsOK' /\ AdminOK'
      BY DEF ScreenOK, FormOK, FlagsOK, AdminOK, goPhase1
<1>5. CountersOK'
      BY SpendType DEF CountersOK, history, Activity
<1>6. CommitHasData'
      BY DEF CommitHasData, goPhase1
<1> QED BY <1>1, <1>2, <1>3, <1>4, <1>5, <1>6

LEMMA DetectionCore ==
    CoreInv /\ (\/ \E m \in Mac, b \in Bssid : Detect(m, b)
               \/ onCandidateFound \/ ClearRegistered) => CoreInv'
<1> USE DEF CoreInv, TypeOK, CommitHasData
<1> DEFINE Rest == /\ DiskOK' /\ ServerOK' /\ NetOK' /\ ScreenOK' /\ FlagsOK' /\ AdminOK'
                   /\ CommitHasData'
<1>1. ASSUME CoreInv, NEW m \in Mac, NEW b \in Bssid, Detect(m, b) PROVE CoreInv'
  <2>1. Phase1OK'
        BY <1>1 DEF Detect, Phase1OK
  <2>2. CountersOK'
        BY <1>1, SpendType DEF Detect, CountersOK, history, Activity
  <2>3. Rest /\ FormOK'
        BY <1>1 DEF Detect, DiskOK, ServerOK, NetOK, ScreenOK, FormOK, FlagsOK, AdminOK,
                    disk, server, screen, form, flags, admin
  <2> QED BY <2>1, <2>2, <2>3
<1>2. ASSUME CoreInv, onCandidateFound PROVE CoreInv'
  <2> DEFINE m == Head(found)[1]
  <2>1. m \in Mac /\ Head(found)[2] \in Bssid /\ Tail(found) \in Seq(Mac \X Bssid)
        BY <1>2 DEF onCandidateFound, Phase1OK
  <2>2. rows' \in RowsTable
        BY <1>2, <2>1, RowsType DEF onCandidateFound, Phase1OK
  <2>3. Phase1OK'
        BY <1>2, <2>1, <2>2 DEF onCandidateFound, Phase1OK
  <2>4. FormOK' /\ CountersOK'
        BY <1>2, <2>1 DEF onCandidateFound, FormOK, CountersOK, form, history
  <2>5. Rest
        BY <1>2 DEF onCandidateFound, DiskOK, ServerOK, NetOK, ScreenOK, FlagsOK, AdminOK,
                    disk, server, screen, form, flags, admin
  <2> QED BY <2>3, <2>4, <2>5
<1>3. ASSUME CoreInv, ClearRegistered PROVE CoreInv'
  <2>1. rows' \in RowsTable
        BY <1>3 DEF ClearRegistered, clearRegistered, Phase1OK, RowsTable, RowKind
  <2>2. Phase1OK' /\ FormOK' /\ CountersOK'
        BY <1>3, <2>1 DEF ClearRegistered, Phase1OK, FormOK, CountersOK, form, history
  <2>3. Rest
        BY <1>3 DEF ClearRegistered, DiskOK, ServerOK, NetOK, ScreenOK, FlagsOK, AdminOK,
                    disk, server, screen, form, flags, admin
  <2> QED BY <2>2, <2>3
<1> QED BY <1>1, <1>2, <1>3

LEMMA FlowCore == CoreInv /\ FlowStep => CoreInv'
<1> USE DEF CoreInv, TypeOK, CommitHasData
<1> DEFINE Rest == DiskOK' /\ ServerOK' /\ Phase1OK' /\ AdminOK'
<1>1. ASSUME CoreInv, NEW m \in Mac, goPhase2Register(m) \/ goPhase2Update(m)
      PROVE  CoreInv'
  <2>1. ScreenOK' /\ FormOK' /\ FlagsOK' /\ NetOK'
        BY <1>1 DEF goPhase2Register, goPhase2Update, ScreenOK, FormOK, FlagsOK, NetOK, flags
  <2>2. Rest /\ CountersOK'
        BY <1>1 DEF goPhase2Register, goPhase2Update, DiskOK, ServerOK, Phase1OK, AdminOK,
                    CountersOK, disk, server, phase1, admin, history
  <2>3. CommitHasData'
        BY <1>1 DEF goPhase2Register, goPhase2Update, flags
  <2> QED BY <2>1, <2>2, <2>3
<1>2. ASSUME CoreInv, NEW o \in Owner, onPhase2Confirmed(o) PROVE CoreInv'
  <2>1. pendingMac \in Mac
        BY <1>2 DEF onPhase2Confirmed
  <2>2. confirmCall(o) \in Call
    <3>1. CASE isUpdateMode
          BY <1>2, <2>1, <3>1, DeviceCallType
          DEF onPhase2Confirmed, canConfirm, apFirst, confirmCall, updateDevice, Op, Call
    <3>2. CASE apFirst
      <4>1. pendingBssid \in Bssid /\ ~isUpdateMode
            BY <1>2, <3>2 DEF apFirst, FormOK
      <4> QED BY <1>2, <3>2, <4>1, RegisterAPsType
              DEF onPhase2Confirmed, canConfirm, confirmCall, Call
    <3>3. CASE ~isUpdateMode /\ ~apFirst
          BY <1>2, <2>1, <3>3, DeviceCallType
          DEF onPhase2Confirmed, canConfirm, confirmCall, registerDevice, Op, Call, FormOK
    <3> QED BY <3>1, <3>2, <3>3
  <2>3. NetOK'
        BY <1>2, <2>2 DEF onPhase2Confirmed, NetOK
  <2>4. used' \in [Activity -> Nat]
        BY <1>2, SpendType DEF onPhase2Confirmed, Activity
  <2>5. CountersOK'
        BY <1>2, <2>1, <2>4 DEF onPhase2Confirmed, CountersOK
  <2>6. ScreenOK' /\ FormOK' /\ FlagsOK' /\ CommitHasData'
        BY <1>2, <2>1
        DEF onPhase2Confirmed, ScreenOK, FormOK, FlagsOK, apFirst, screen
  <2>7. Rest
        BY <1>2 DEF onPhase2Confirmed, DiskOK, ServerOK, Phase1OK, AdminOK, disk, server,
                    phase1, admin
  <2> QED BY <2>3, <2>5, <2>6, <2>7
<1>3. ASSUME CoreInv, goPhase1, autoReturns' \in Nat, Rest,
             UNCHANGED <<net, pendingMac, pendingOwner, pendingBssid, flags, used, history>>
      PROVE  CoreInv'
  <2> USE <1>3 DEF goPhase1
  <2>1. ScreenOK' /\ FormOK' /\ CommitHasData'
        BY DEF ScreenOK, FormOK, flags
  <2>2. NetOK' /\ FlagsOK' /\ CountersOK'
        BY DEF NetOK, FlagsOK, CountersOK, flags, history
  <2> QED BY <2>1, <2>2
<1>4. ASSUME CoreInv, onCancel PROVE CoreInv'
  <2>1. Rest /\ autoReturns' \in Nat
        BY <1>4 DEF onCancel, DiskOK, ServerOK, Phase1OK, AdminOK, ScreenOK, disk, server,
                    phase1, admin
  <2> QED BY <1>3, <1>4, <2>1 DEF onCancel
<1>5. ASSUME CoreInv, AutoReturn PROVE CoreInv'
  <2>1. Rest
        BY <1>5 DEF AutoReturn, DiskOK, ServerOK, Phase1OK, AdminOK, disk, server,
                    phase1, admin
  <2>2. autoReturns' \in Nat
        BY <1>5 DEF AutoReturn, isArmed, ScreenOK
  <2> QED BY <1>3, <1>5, <2>1, <2>2 DEF AutoReturn
<1> QED BY <1>1, <1>2, <1>4, <1>5 DEF FlowStep

\* A commit for a MAC of the kiosk leaves everything it writes typed.
LEMMA CommitType ==
    ASSUME TypeOK, pendingMac \in Mac, NEW t \in Table, NEW offline \in BOOLEAN,
           commitConfirmed(t, offline)
    PROVE  DiskOK' /\ rows' \in RowsTable /\ stack' = "phase3" /\ autoReturns' \in Nat
           /\ commits' \in Nat
<1> USE DEF TypeOK
<1>1. commitRow(t, offline) \in Table
      BY AddStationType, UpdateStationType DEF commitRow, FormOK
<1>2. ap' \subseteq Bssid \cup {NoBssid}
      BY DEF commitConfirmed, apOfCommit, rememberAp, addAp, DiskOK, FormOK
<1>3. removeCandidate(rows, pendingMac) \in RowsTable
      BY RowsType DEF Phase1OK
<1>4. rows' \in RowsTable
      BY <1>3, RowsType DEF commitConfirmed
<1> QED BY <1>1, <1>2, <1>4 DEF commitConfirmed, DiskOK, ScreenOK, CountersOK

LEMMA FaultType ==
    ASSUME CountersOK, NEW c, refused(c) \/ unreachable(c)
    PROVE  used' \in [Activity -> Nat]
BY SpendType DEF refused, unreachable, CountersOK, Activity

LEMMA DeviceReplyCore ==
    ASSUME CoreInv, NEW m \in Mac, DeviceReply(m)
    PROVE  CoreInv'
<1> USE DEF CoreInv, TypeOK
<1>1. PICK c \in deviceCalls(net, m) :
          \/ onRegisterSuccess(c) \/ onRegisterFailed(c)
          \/ onUpdateSuccess(c)   \/ onUpdateFailed(c)
          \/ onDeleteSuccess(c)   \/ onDeleteFailed(c)
      BY DEF DeviceReply
<1>2. c \in net /\ c \in DeviceCall /\ c.mac = m
      BY CallKinds DEF deviceCalls, NetOK
<1>3. clearPending(station, m) \in Table /\ removeStation(station, m) \in Table
      BY MarkingType DEF DiskOK
<1>4. isLive(c) => pendingMac \in Mac /\ pendingOwner \in Owner
      BY DEF isLive, CommitHasData
<1> DEFINE FlowVars == /\ DiskOK' /\ rows' \in RowsTable /\ autoReturns' \in Nat /\ commits' \in Nat
                       /\ stack' \in {stack, "phase3"}
<1>5. ASSUME NEW t \in Table, noCommit(t) PROVE FlowVars
      BY <1>5 DEF noCommit, DiskOK, Phase1OK, ScreenOK, CountersOK
<1>6. ASSUME NEW t \in Table, NEW offline \in BOOLEAN, isLive(c), commitConfirmed(t, offline)
      PROVE  FlowVars
      BY <1>4, <1>6, CommitType
<1>7. ASSUME FlowVars, flowFrame, net' = net \ {c}, used' \in [Activity -> Nat],
             awaitingApiCommit' \in BOOLEAN, awaitingApiCommit' => awaitingApiCommit
      PROVE  CoreInv'
  <2> USE <1>7 DEF flowFrame, replyFrame
  <2>1. DiskOK' /\ ServerOK' /\ NetOK' /\ ScreenOK'
        BY DEF ServerOK, NetOK, ScreenOK, server
  <2>2. FormOK' /\ FlagsOK'
        BY DEF FormOK, FlagsOK, form
  <2>3. Phase1OK' /\ AdminOK' /\ CountersOK'
        BY DEF Phase1OK, AdminOK, CountersOK, admin
  <2>4. CommitHasData'
        BY DEF CommitHasData, form
  <2> QED BY <2>1, <2>2, <2>3, <2>4
<1>8. CASE onSuccess(c)
  <2>1. FlowVars
        BY <1>2, <1>3, <1>5, <1>6, <1>8 DEF onSuccess
  <2> QED BY <1>7, <1>8, <2>1 DEF onSuccess, FlagsOK, CountersOK
<1>9. CASE onFailed(c)
  <2>1. FlowVars
        BY <1>2, <1>3, <1>5, <1>6, <1>9 DEF onFailed, afterRefusal, DiskOK
  <2>2. used' \in [Activity -> Nat]
        BY <1>9, FaultType DEF onFailed
  <2> QED BY <1>7, <1>9, <2>1, <2>2 DEF onFailed, stillAwaiting, isLive, FlagsOK
<1>10. CASE onDeleteSuccess(c) \/ onDeleteFailed(c)
  <2> USE <1>10 DEF onDeleteSuccess, onDeleteFailed, deleteFrame
  <2>1. DiskOK'
        BY <1>2, <1>3 DEF forget, DiskOK, disk
  <2>2. Phase1OK'
        BY DEF forget, Phase1OK
  <2>3. CountersOK'
        BY FaultType DEF CountersOK, history
  <2>4. NetOK' /\ ServerOK' /\ ScreenOK' /\ FormOK' /\ FlagsOK' /\ AdminOK'
        BY DEF NetOK, ServerOK, ScreenOK, FormOK, FlagsOK, AdminOK, server, screen, form,
               flags, admin
  <2>5. CommitHasData'
        BY DEF CommitHasData, screen, form, flags
  <2> QED BY <2>1, <2>2, <2>3, <2>4, <2>5
<1> QED BY <1>1, <1>8, <1>9, <1>10
        DEF onRegisterSuccess, onRegisterFailed, onUpdateSuccess, onUpdateFailed

LEMMA ListReplyCore == CoreInv /\ ListReply => CoreInv'
<1> SUFFICES ASSUME CoreInv, ListReply PROVE CoreInv'
    OBVIOUS
<1> USE DEF CoreInv, TypeOK
<1>1. PICK c \in net : \/ onDeviceListFetched(c) \/ onDeviceListFailed(c)
                       \/ onApListFetched(c)     \/ onApListFailed(c)
      BY DEF ListReply
<1>2. ASSUME listFrame, DiskOK', net' \in SUBSET Call, serverMacs' \subseteq Mac,
             serverDataReady' \in BOOLEAN, serverDevices' \subseteq Mac, table' \subseteq Mac,
             used' \in [Activity -> Nat]
      PROVE  CoreInv'
  <2> USE <1>2 DEF listFrame
  <2>1. NetOK' /\ ServerOK' /\ ScreenOK' /\ FormOK' /\ FlagsOK'
        BY DEF NetOK, ServerOK, ScreenOK, FormOK, FlagsOK, server, screen, form, flags
  <2>2. Phase1OK' /\ AdminOK' /\ CountersOK'
        BY DEF Phase1OK, AdminOK, CountersOK, history
  <2>3. CommitHasData'
        BY DEF CommitHasData, screen, form, flags
  <2> QED BY <2>1, <2>2, <2>3
<1>3. CASE onDeviceListFetched(c)
  <2> USE <1>3 DEF onDeviceListFetched
  <2>1. c.devices \in Devices
        BY <1>1, CallKinds DEF NetOK, ListCall
  <2>2. DiskOK'
        BY <2>1, CacheDevicesType DEF DiskOK
  <2>3. net' \in SUBSET Call
        <3>1. canSync(net \ {c}, station')
              BY <2>1, CacheKeepsPending DEF DiskOK
        <3> QED BY <2>2, <3>1, SyncType DEF NetOK, DiskOK
  <2>4. serverDevices' \subseteq Mac /\ serverMacs' \subseteq Mac
        BY DEF registered
  <2>5. table' \subseteq Mac
        BY <2>4, ReloadTableType
  <2> QED BY <1>2, <2>2, <2>3, <2>4, <2>5 DEF CountersOK
<1>4. CASE onDeviceListFailed(c)
  <2> USE <1>4 DEF onDeviceListFailed
  <2>1. used' \in [Activity -> Nat]
        BY FaultType
  <2>2. table' \subseteq Mac
        BY ReloadTableType DEF AdminOK
  <2> QED BY <1>2, <2>1, <2>2 DEF disk, DiskOK, NetOK, Phase1OK, AdminOK
<1>5. ASSUME apFrame, ap' \subseteq Bssid \cup {NoBssid}, net' = net \ {c},
             used' \in [Activity -> Nat]
      PROVE  CoreInv'
      BY <1>2, <1>5 DEF apFrame, DiskOK, NetOK, Phase1OK, AdminOK
<1>6. CASE onApListFetched(c)
  <2>1. c.aps \subseteq Bssid
        BY <1>1, <1>6, CallKinds DEF onApListFetched, NetOK, ApListCall
  <2> QED BY <1>5, <1>6, <2>1 DEF onApListFetched, DiskOK, CountersOK
<1>7. CASE onApListFailed(c)
  <2>1. used' \in [Activity -> Nat]
        BY <1>7, FaultType DEF onApListFailed
  <2> QED BY <1>5, <1>7, <2>1 DEF onApListFailed, DiskOK
<1> QED BY <1>1, <1>3, <1>4, <1>6, <1>7

LEMMA ApReplyCore == CoreInv /\ (ApReply \/ WarningDismissed) => CoreInv'
<1> USE DEF CoreInv, TypeOK
<1> DEFINE Rest == /\ ServerOK' /\ ScreenOK' /\ FormOK' /\ Phase1OK' /\ AdminOK'
<1>1. ASSUME CoreInv, NEW c \in net, onApRegisterBeforeDevice(c) PROVE CoreInv'
  <2> USE <1>1 DEF onApRegisterBeforeDevice
  <2>1. ap' \subseteq Bssid \cup {NoBssid}
        BY DEF rememberAp, addAp, DiskOK, FormOK
  <2>2. NetOK'
    <3>1. CASE awaitingApBeforeDevice
      <4>1. registerDevice(net, pendingMac, pendingOwner, pendingBssid, "live") \in Call
            BY <3>1, DeviceCallType DEF CommitHasData, registerDevice, FormOK, Op, Call
      <4> QED BY <3>1, <4>1 DEF NetOK
    <3>2. CASE ~awaitingApBeforeDevice
          BY <3>2 DEF NetOK
    <3> QED BY <3>1, <3>2
  <2>3. DiskOK' /\ FlagsOK'
        BY <2>1 DEF DiskOK, FlagsOK, apStepDone
  <2>4. CommitHasData'
        BY DEF CommitHasData, screen, form, apStepDone
  <2>5. Rest /\ CountersOK'
        BY DEF ServerOK, ScreenOK, FormOK, Phase1OK, AdminOK, CountersOK, server, screen,
               form, phase1, admin, history
  <2> QED BY <2>2, <2>3, <2>4, <2>5
<1>2. ASSUME CoreInv, NEW c \in net, ApRegisterFailedWarning(c) PROVE CoreInv'
  <2> USE <1>2 DEF ApRegisterFailedWarning
  <2>1. [c EXCEPT !.stage = "warned"] \in Call
        BY CallKinds, ReplyType DEF NetOK, Call
  <2>2. NetOK'
        BY <2>1 DEF NetOK
  <2>3. CountersOK'
        BY FaultType DEF CountersOK, history
  <2>4. Rest /\ DiskOK' /\ FlagsOK'
        BY DEF DiskOK, FlagsOK, ServerOK, ScreenOK, FormOK, Phase1OK, AdminOK, disk, server,
               screen, form, flags, phase1, admin
  <2>5. CommitHasData'
        BY DEF CommitHasData, screen, form, flags
  <2> QED BY <2>2, <2>3, <2>4, <2>5
<1>3. ASSUME CoreInv, NEW c \in net, onApRegisterForDeviceFailed(c) PROVE CoreInv'
  <2> USE <1>3 DEF onApRegisterForDeviceFailed
  <2>1. NetOK' /\ FlagsOK'
        BY DEF NetOK, FlagsOK, apStepDone
  <2>2. CommitHasData'
        BY DEF CommitHasData, screen, form, apStepDone
  <2>3. Rest /\ DiskOK' /\ CountersOK'
        BY DEF DiskOK, ServerOK, ScreenOK, FormOK, Phase1OK, AdminOK, CountersOK, disk,
               server, screen, form, phase1, admin, history
  <2> QED BY <2>1, <2>2, <2>3
<1> QED BY <1>1, <1>2, <1>3 DEF ApReply, WarningDismissed

LEMMA SyncTimerCore == CoreInv /\ SyncTimer => CoreInv'
<1> SUFFICES ASSUME CoreInv, SyncTimer PROVE CoreInv'
    OBVIOUS
<1> USE DEF CoreInv, TypeOK, SyncTimer
<1>1. NetOK'
      BY SyncType DEF NetOK, DiskOK
<1>2. DiskOK' /\ ServerOK' /\ ScreenOK' /\ FormOK' /\ FlagsOK'
      BY DEF DiskOK, ServerOK, ScreenOK, FormOK, FlagsOK, disk, server, screen, form, flags
<1>3. Phase1OK' /\ AdminOK' /\ CountersOK'
      BY DEF Phase1OK, AdminOK, CountersOK, phase1, admin, history
<1>4. CommitHasData'
      BY DEF CommitHasData, screen, form, flags
<1> QED BY <1>1, <1>2, <1>3, <1>4

LEMMA ServeCore ==
    CoreInv /\ (Serve \/ \E c \in net : Refuse(c) \/ Garble(c)) => CoreInv'
<1> USE DEF CoreInv, TypeOK
<1>1. ASSUME CoreInv, NEW c \in net, NEW r \in Call, answer(c, r), serverFrame, ServerOK',
             used' \in [Activity -> Nat]
      PROVE  CoreInv'
  <2> USE <1>1 DEF serverFrame
  <2>1. NetOK'
        BY DEF NetOK, answer
  <2>2. DiskOK' /\ ScreenOK' /\ FormOK' /\ FlagsOK'
        BY DEF DiskOK, ScreenOK, FormOK, FlagsOK, disk, screen, form, flags
  <2>3. Phase1OK' /\ AdminOK' /\ CountersOK'
        BY DEF Phase1OK, AdminOK, CountersOK, phase1, admin, history
  <2>4. CommitHasData'
        BY DEF CommitHasData, screen, form, flags
  <2> QED BY <2>1, <2>2, <2>3, <2>4
<1>2. ASSUME CoreInv, NEW c \in net, ServeDevice(c) PROVE CoreInv'
  <2> USE <1>2 DEF ServeDevice
  <2>1. c \in Call /\ c \in DeviceCall
        BY CallKinds DEF NetOK
  <2>2. ServerOK'
        BY <2>1, ApplyType DEF ServerOK
  <2>3. [c EXCEPT !.stage = "ok"] \in Call /\ [c EXCEPT !.stage = "rejected"] \in Call
        BY <2>1, StageType DEF Stage
  <2> QED BY <1>1, <2>2, <2>3 DEF CountersOK
<1>3. ASSUME CoreInv, NEW c \in net, ServeList(c) PROVE CoreInv'
  <2> USE <1>3 DEF ServeList
  <2>1. [c EXCEPT !.stage = "ok", !.devices = devices] \in Call
        BY CallKinds, ReplyType DEF NetOK, ServerOK, Call
  <2> QED BY <1>1, <2>1 DEF CountersOK, ServerOK, server
<1>4. ASSUME CoreInv, NEW c \in net, ServeApList(c) PROVE CoreInv'
  <2> USE <1>4 DEF ServeApList
  <2>1. [c EXCEPT !.stage = "ok", !.aps = serverAps] \in Call
        BY CallKinds, ReplyType DEF NetOK, ServerOK, Call
  <2> QED BY <1>1, <2>1 DEF CountersOK, ServerOK, server
<1>5. ASSUME CoreInv, NEW c \in net, ServeAp(c) PROVE CoreInv'
  <2> USE <1>5 DEF ServeAp
  <2>1. c \in Call /\ c.bssid \in Bssid
        BY CallKinds DEF NetOK, ApCall
  <2>2. [c EXCEPT !.stage = "ok"] \in Call
        BY <2>1, StageType DEF Stage
  <2>3. used' \in [Activity -> Nat]
        BY SpendType DEF CountersOK, Activity
  <2> QED BY <1>1, <2>1, <2>2, <2>3 DEF ServerOK
<1>6. ASSUME CoreInv, NEW c \in net, Refuse(c) PROVE CoreInv'
  <2> USE <1>6 DEF Refuse
  <2>1. [c EXCEPT !.stage = "rejected"] \in Call
        BY StageType DEF NetOK, Stage
  <2>2. used' \in [Activity -> Nat]
        BY SpendType DEF Activity
  <2> QED BY <1>1, <2>1, <2>2 DEF ServerOK, server
<1>7. ASSUME CoreInv, NEW c \in net, Garble(c) PROVE CoreInv'
  <2> USE <1>7 DEF Garble
  <2>1. [m \in Mac |-> NoDevice] \in Devices
        BY DEF Devices, Device, NoDevice
  <2>2. [c EXCEPT !.devices = [m \in Mac |-> NoDevice]] \in Call
        BY <2>1, CallKinds, ReplyType DEF NetOK, Call
  <2>3. used' \in [Activity -> Nat]
        BY SpendType DEF Activity
  <2> QED BY <1>1, <2>2, <2>3 DEF ServerOK, server
<1> QED BY <1>2, <1>3, <1>4, <1>5, <1>6, <1>7 DEF Serve

LEMMA AdminCore == CoreInv /\ AdminStep => CoreInv'
<1> USE DEF CoreInv, TypeOK
<1> DEFINE Page == /\ serverDataReady' \in BOOLEAN /\ serverDevices' \subseteq Mac
                   /\ table' \subseteq Mac
                   /\ dialog' \in {NoDialog} \cup [kind : {"delete", "edit"}, mac : Mac]
                                 \cup [kind : {"removeAp"}, bssid : Bssid \cup {NoBssid}]
\* What every step of the page shares: the flow's wait, the form and the
\* candidate table stay as they are.
<1>1. ASSUME CoreInv, DiskOK', NetOK', Page, used' \in [Activity -> Nat],
             stack' \in {stack, "phase1", "admin"}, chrome' \in BOOLEAN, isUpdateMode' \in BOOLEAN,
             confirmed' \in [Mac -> SUBSET (Owner \cup {NoOwner})],
             UNCHANGED <<server, autoReturns, pendingMac, pendingOwner, pendingBssid, flags,
                         phase1, commits>>
      PROVE  CoreInv'
  <2> USE <1>1
  <2>1. ServerOK' /\ ScreenOK' /\ FormOK' /\ FlagsOK'
        BY DEF ServerOK, ScreenOK, FormOK, FlagsOK, server, flags
  <2>2. Phase1OK' /\ AdminOK' /\ CountersOK'
        BY DEF Phase1OK, AdminOK, CountersOK, phase1
  <2>3. CommitHasData'
        BY DEF CommitHasData, flags
  <2> QED BY <2>1, <2>2, <2>3
<1>2. ASSUME CoreInv, DiskOK', NetOK', Page, used' \in [Activity -> Nat],
             confirmed' \in [Mac -> SUBSET (Owner \cup {NoOwner})], pageFrame
      PROVE  CoreInv'
      BY <1>1, <1>2 DEF pageFrame, adminFrame, screen, ScreenOK, FormOK
<1>3. ASSUME CoreInv, goAdmin PROVE CoreInv'
  <2> USE <1>3 DEF goAdmin
  <2>1. NetOK'
        BY FetchType DEF NetOK, Call
  <2>2. Page
        BY ReloadTableType DEF AdminOK
  <2>3. used' \in [Activity -> Nat]
        BY SpendType DEF Activity
  <2> QED BY <1>1, <2>1, <2>2, <2>3 DEF adminFrame, DiskOK, FormOK, CountersOK, disk
<1>4. ASSUME CoreInv, onBack PROVE CoreInv'
      BY <1>1, <1>4 DEF onBack, goPhase1, adminFrame, DiskOK, NetOK, AdminOK, CountersOK,
                        disk, admin
<1>5. ASSUME CoreInv, NEW m \in Mac, NEW kind \in {"delete", "edit"}, SelectForDialog(kind, m)
      PROVE  CoreInv'
  <2> USE <1>5 DEF SelectForDialog
  <2>1. used' \in [Activity -> Nat]
        BY SpendType DEF Activity
  <2> QED BY <1>2, <2>1 DEF DiskOK, NetOK, AdminOK, CountersOK, disk
<1>6. ASSUME CoreInv, DialogCanceled PROVE CoreInv'
      BY <1>2, <1>6 DEF DialogCanceled, DiskOK, NetOK, AdminOK, CountersOK, disk
<1>7. ASSUME CoreInv, NEW kind \in {"delete", "edit"}, canAnswer(kind)
      PROVE  dialog.mac \in Mac
      BY <1>7 DEF canAnswer, AdminOK, NoDialog
<1>8. ASSUME CoreInv, onDeleteSelected PROVE CoreInv'
  <2> USE <1>8 DEF onDeleteSelected
  <2>1. dialog.mac \in Mac
        BY <1>7
  <2>2. DiskOK'
        BY <2>1, MarkingType DEF DiskOK
  <2>3. deleteDevice(net, dialog.mac, "admin") \in DeviceCall
        BY <2>1, DeviceCallType DEF deleteDevice, Op
  <2>4. NetOK'
        BY <2>3 DEF NetOK, Call
  <2>5. Page
        BY ReloadTableType DEF AdminOK
  <2> QED BY <1>2, <2>2, <2>4, <2>5 DEF CountersOK
<1>9. ASSUME CoreInv, NEW o \in Owner \cup {NoOwner}, onEditSelected(o) PROVE CoreInv'
  <2> USE <1>9 DEF onEditSelected
  <2>1. dialog.mac \in Mac
        BY <1>7
  <2>2. DiskOK'
        BY <2>1, UpdateStationType DEF DiskOK
  <2>3. updateDevice(net, dialog.mac, o, "admin") \in DeviceCall
        BY <2>1, DeviceCallType DEF updateDevice, Op
  <2>4. NetOK'
        BY <2>3 DEF NetOK, Call
  <2>5. Page
        BY ReloadTableType DEF AdminOK
  <2>6. used' \in [Activity -> Nat] /\ confirmed' \in [Mac -> SUBSET (Owner \cup {NoOwner})]
        BY <2>1 DEF CountersOK
  <2> QED BY <1>2, <2>2, <2>4, <2>5, <2>6
<1>10. ASSUME CoreInv, NEW b \in Bssid, onAddAp(b) PROVE CoreInv'
  <2> USE <1>10 DEF onAddAp
  <2>1. registerAPs(net, b, "admin") \in ApCall
        BY RegisterAPsType
  <2>2. DiskOK' /\ NetOK'
        BY <2>1 DEF DiskOK, NetOK, addAp, Call
  <2>3. used' \in [Activity -> Nat]
        BY SpendType DEF Activity
  <2> QED BY <1>2, <2>2, <2>3 DEF AdminOK, CountersOK, admin
<1> QED BY <1>3, <1>4, <1>5, <1>6, <1>8, <1>9, <1>10 DEF AdminStep

\* The steps about the list of access points leave the rest of the kiosk alone,
\* and the calls that come and go are calls about an access point.
LEMMA ApEditFrame == ApEditStep => apPageFrame
BY DEF ApEditStep, onChangeApType, AskRemoveAp, onRemoveAp, replyFrameAp, onUpdateAPSuccess,
       onDeleteAPSuccess, onApFetched, ApFetchFailed, ApEditFailedWarning,
       ApEditWarningDismissed, ServeApEdit, GarbleAp

LEMMA ApDialogType ==
    ASSUME AdminOK, canAnswer("removeAp")
    PROVE  dialog.bssid \in Bssid \cup {NoBssid}
BY DEF canAnswer, AdminOK, NoDialog

LEMMA ApEditNet ==
    ASSUME CoreInv, ApEditStep
    PROVE  /\ \A c \in net \ net' : c.op \in ApEditOp
           /\ \A c \in net' \ net : c \in ApEditCall
<1> USE DEF CoreInv, TypeOK
<1>1. ASSUME NEW b \in ap, onChangeApType(b) \/ AskRemoveAp(b)
      PROVE  net \subseteq net' /\ \A c \in net' \ net : c \in ApEditCall
  <2>1. b \in Bssid \cup {NoBssid}
        BY DEF DiskOK
  <2> QED BY <1>1, <2>1, ApEditCallType DEF onChangeApType, AskRemoveAp, ApEditOp
<1>2. ASSUME onRemoveAp
      PROVE  net \subseteq net' /\ \A c \in net' \ net : c \in ApEditCall
      BY <1>2, ApDialogType, ApEditCallType DEF onRemoveAp, ApEditOp
<1>3. ASSUME NEW c \in net, c.op \in ApEditOp,
             net' = net \ {c} \/ \E r \in ApEditCall : net' = (net \ {c}) \cup {r}
      PROVE  /\ \A a \in net \ net' : a.op \in ApEditOp
             /\ \A a \in net' \ net : a \in ApEditCall
      BY <1>3
<1>4. ASSUME NEW c \in net, onUpdateAPSuccess(c)
      PROVE  c.op \in ApEditOp /\ \E r \in ApEditCall : net' = (net \ {c}) \cup {r}
  <2>1. c.op \in ApEditOp /\ c \in ApEditCall
        BY <1>4, CallKinds DEF onUpdateAPSuccess, NetOK, ApEditOp
  <2>2. c.bssid \in Bssid \cup {NoBssid}
        BY <2>1 DEF ApEditCall
  <2>3. apEditCall(net, "fetchAP", c.bssid) \in ApEditCall
        BY <1>4, <2>2, ApEditCallType DEF onUpdateAPSuccess, ApEditOp
  <2> QED BY <1>4, <2>1, <2>3 DEF onUpdateAPSuccess
<1>5. ASSUME NEW c \in net, \/ onDeleteAPSuccess(c) \/ onApFetched(c) \/ ApFetchFailed(c)
                            \/ ApEditWarningDismissed(c)
      PROVE  c.op \in ApEditOp /\ net' = net \ {c}
      BY <1>5 DEF onDeleteAPSuccess, onApFetched, ApFetchFailed, ApEditWarningDismissed,
                  ApEditOp
<1>6. ASSUME NEW c \in net, ApEditFailedWarning(c) \/ ServeApEdit(c) \/ GarbleAp(c)
      PROVE  c.op \in ApEditOp /\ \E r \in ApEditCall : net' = (net \ {c}) \cup {r}
  <2>1. c.op \in ApEditOp /\ c \in ApEditCall
        BY <1>6, CallKinds DEF ApEditFailedWarning, ServeApEdit, GarbleAp, NetOK, ApEditOp
  <2>2. \A s \in Stage \cup {"warned"} : [c EXCEPT !.stage = s] \in ApEditCall
        BY <2>1 DEF ApEditCall
  <2>3. [c EXCEPT !.bssid = NoBssid] \in ApEditCall
        BY <2>1, ReplyType
  <2> QED BY <1>6, <2>1, <2>2, <2>3 DEF ApEditFailedWarning, ServeApEdit, GarbleAp, answer,
                                        Stage
<1> QED BY <1>1, <1>2, <1>3, <1>4, <1>5, <1>6 DEF ApEditStep

LEMMA ApEditCore == CoreInv /\ ApEditStep => CoreInv'
<1> SUFFICES ASSUME CoreInv, ApEditStep PROVE CoreInv'
    OBVIOUS
<1> USE DEF CoreInv, TypeOK
<1>1. apPageFrame
      BY ApEditFrame
<1>2. NetOK'
      BY ApEditNet DEF NetOK, Call
<1>3. /\ ap' \subseteq Bssid \cup {NoBssid} /\ serverAps' \subseteq Bssid
      /\ used' \in [Activity -> Nat]
      /\ dialog' \in {dialog, NoDialog} \cup [kind : {"removeAp"}, bssid : Bssid \cup {NoBssid}]
  <2> USE DEF DiskOK, ServerOK
  <2>1. ASSUME NEW b \in ap, onChangeApType(b) \/ AskRemoveAp(b)
        PROVE  /\ ap' = ap /\ serverAps' = serverAps /\ used' \in [Activity -> Nat]
               /\ dialog' \in {dialog, [kind |-> "removeAp", bssid |-> b]}
        BY <2>1, SpendType DEF onChangeApType, AskRemoveAp, canEditAp, Activity
  <2>2. ASSUME onRemoveAp
        PROVE  /\ ap' \subseteq ap /\ serverAps' = serverAps /\ used' = used
               /\ dialog' = NoDialog
        BY <2>2 DEF onRemoveAp, removeAp
  <2>3. ASSUME NEW c \in net, onApFetched(c)
        PROVE  /\ ap' \subseteq Bssid \cup {NoBssid} /\ UNCHANGED <<serverAps, used, dialog>>
    <3>1. c.bssid \in Bssid \cup {NoBssid}
          BY <2>3, CallKinds DEF onApFetched, NetOK, ApEditOp, ApEditCall
    <3> QED BY <2>3, <3>1 DEF onApFetched, replyFrameAp, addAp
  <2>4. ASSUME NEW c \in net, \/ onUpdateAPSuccess(c) \/ onDeleteAPSuccess(c)
                              \/ ApFetchFailed(c) \/ ApEditFailedWarning(c)
                              \/ ApEditWarningDismissed(c) \/ GarbleAp(c)
        PROVE  UNCHANGED <<ap, serverAps, dialog>> /\ used' \in [Activity -> Nat]
    <3>1. used' = used \/ refused(c) \/ unreachable(c) \/ spend("fault")
          BY <2>4 DEF onUpdateAPSuccess, onDeleteAPSuccess, ApFetchFailed,
                      ApEditFailedWarning, ApEditWarningDismissed, GarbleAp
    <3>2. used' \in [Activity -> Nat]
          BY <3>1, FaultType, SpendType DEF CountersOK, Activity
    <3> QED BY <2>4, <3>2 DEF onUpdateAPSuccess, onDeleteAPSuccess, ApFetchFailed,
                      ApEditFailedWarning, ApEditWarningDismissed, GarbleAp, replyFrameAp
  <2>5. ASSUME NEW c \in net, ServeApEdit(c)
        PROVE  serverAps' \subseteq serverAps /\ UNCHANGED <<ap, used, dialog>>
        BY <2>5 DEF ServeApEdit
  <2> QED BY <2>1, <2>2, <2>3, <2>4, <2>5 DEF ApEditStep, CountersOK
<1>4. DiskOK' /\ ServerOK' /\ ScreenOK' /\ FormOK' /\ FlagsOK'
      BY <1>1, <1>3 DEF apPageFrame, DiskOK, ServerOK, ScreenOK, FormOK, FlagsOK, screen,
                        form, flags
<1>5. Phase1OK' /\ AdminOK' /\ CountersOK' /\ CommitHasData'
      BY <1>1, <1>3 DEF apPageFrame, Phase1OK, AdminOK, CountersOK, CommitHasData, screen,
                        form, flags, phase1, history
<1> QED BY <1>2, <1>4, <1>5

LEMMA StutterCore == CoreInv /\ UNCHANGED vars => CoreInv'
<1> SUFFICES ASSUME CoreInv, UNCHANGED vars PROVE CoreInv'
    OBVIOUS
<1> USE DEF CoreInv, TypeOK, vars
<1>1. DiskOK' /\ ServerOK' /\ NetOK' /\ ScreenOK' /\ FormOK' /\ FlagsOK'
      BY DEF DiskOK, ServerOK, NetOK, ScreenOK, FormOK, FlagsOK, disk, server, screen, form,
             flags
<1>2. Phase1OK' /\ AdminOK' /\ CountersOK' /\ CommitHasData'
      BY DEF Phase1OK, AdminOK, CountersOK, CommitHasData, screen, form, flags, phase1, admin,
             history
<1> QED BY <1>1, <1>2

-----------------------------------------------------------------------------
(* Theorems.                                                               *)

LEMMA CoreStep == CoreInv /\ [Next]_vars => CoreInv'
BY RestartCore, DetectionCore, FlowCore, AdminCore, ApEditCore, SyncTimerCore,
   DeviceReplyCore, ListReplyCore, ApReplyCore, ServeCore, StutterCore DEF Next

LEMMA CoreInvariant == Spec => []CoreInv
BY InitCore, CoreStep, PTL DEF Spec

\* Every variable of the kiosk, the calls in flight and the server's tables
\* keep their types, however replies, faults and restarts interleave.
THEOREM TypeCorrect == Spec => []TypeOK
BY CoreInvariant, PTL DEF CoreInv

\* While the registration flow waits for a reply it has a MAC and owner data
\* to commit: commitConfirmed never runs on empty members.
THEOREM CommitsHaveData == Spec => []CommitHasData
BY CoreInvariant, PTL DEF CoreInv
=============================================================================
