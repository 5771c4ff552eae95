---------------------------- MODULE KioskRowProofs ---------------------------
(***************************************************************************)
(* Proofs of what becomes of a row: an answer settles it, a hidden one     *)
(* comes back by the end of a registration or a change only, a candidate   *)
(* leaves the screen with a commit; and of what the block of random MACs   *)
(* does keep.  Each says how far one of the claims the code does not keep  *)
(* reaches.                                                                *)
(***************************************************************************)
EXTENDS KioskStepProofs

-----------------------------------------------------------------------------
(* A call that is answered is answered by its handler.                     *)

deviceAnswer(c) ==
    /\ net' = net \ {c}
    /\ \/ c.op \in {"register", "update"} /\ (onSuccess(c) \/ onFailed(c))
       \/ onDeleteSuccess(c) \/ onDeleteFailed(c)

\* What DeviceReply does is the answer to one of the calls about the MAC.
LEMMA ReplyAnswers ==
    ASSUME NEW m, DeviceReply(m)
    PROVE  \E c \in deviceCalls(net, m) : deviceAnswer(c)
<1>1. PICK c \in deviceCalls(net, m) :
          \/ onRegisterSuccess(c) \/ onRegisterFailed(c)
          \/ onUpdateSuccess(c)   \/ onUpdateFailed(c)
          \/ onDeleteSuccess(c)   \/ onDeleteFailed(c)
      BY DEF DeviceReply
<1>2. deviceAnswer(c)
      BY <1>1 DEF onRegisterSuccess, onRegisterFailed, onUpdateSuccess, onUpdateFailed,
                  onSuccess, onFailed, onDeleteSuccess, onDeleteFailed, deviceAnswer
<1> QED BY <1>2

\* A call that is served or refused stays in flight with another stage, so one
\* that has left was answered by its handler or forgotten by a restart.
LEMMA DeliveredIsAnswered ==
    ASSUME CoreInv, [Next]_vars, NEW c \in net, c.op \in Op, delivered(c), ~Restart
    PROVE  deviceAnswer(c)
<1>0. c \notin net' /\ \A s \in Stage : [c EXCEPT !.stage = s] \notin net'
      BY DEF delivered
<1>1. CASE \/ onCandidateFound \/ ClearRegistered \/ FlowStep \/ SyncTimer \/ AdminStep
           \/ (\E m \in Mac, b \in Bssid : Detect(m, b)) \/ UNCHANGED vars
  <2>1. CASE AdminStep
        BY <1>0, <2>1 DEF AdminStep, goAdmin, onBack, SelectForDialog, DialogCanceled,
                          onDeleteSelected, onEditSelected, onAddAp
  <2>2. CASE ~AdminStep
        BY <1>0, <1>1, <2>2 DEF onCandidateFound, ClearRegistered, SyncTimer, trySyncPending,
                    Detect, FlowStep, goPhase2Register, goPhase2Update, onPhase2Confirmed,
                    onCancel, AutoReturn, vars
  <2> QED BY <2>1, <2>2
<1>2. ASSUME NEW m \in Mac, DeviceReply(m) PROVE deviceAnswer(c)
  <2>1. PICK a \in deviceCalls(net, m) : deviceAnswer(a)
        BY <1>2, ReplyAnswers
  <2>2. a = c
        BY <1>0, <2>1 DEF deviceAnswer
  <2> QED BY <2>1, <2>2
<1>3. CASE ListReply \/ ApReply \/ WarningDismissed
  <2>1. PICK a \in net : a.op \notin Op /\ net \ {a} \subseteq net'
        BY <1>3 DEF ListReply, onDeviceListFetched, onDeviceListFailed, onApListFetched,
                    onApListFailed, ApReply, WarningDismissed, onApRegisterBeforeDevice,
                    ApRegisterFailedWarning, onApRegisterForDeviceFailed, trySyncPending, Op
  <2> QED BY <1>0, <2>1
<1>4. ASSUME NEW a \in net, ServeDevice(a) \/ Refuse(a) PROVE FALSE
  <2>1. PICK s \in Stage : net' = (net \ {a}) \cup {[a EXCEPT !.stage = s]}
        BY <1>4 DEF ServeDevice, Refuse, answer, Stage
  <2> QED BY <1>0, <2>1
<1>5. ASSUME NEW a \in net, ServeList(a) \/ ServeApList(a) \/ ServeAp(a) \/ Garble(a)
      PROVE  FALSE
  <2>1. a.op \notin Op /\ net \ {a} \subseteq net'
        BY <1>5 DEF ServeList, ServeApList, ServeAp, Garble, answer, Op
  <2> QED BY <1>0, <2>1
<1>6. ASSUME ApEditStep PROVE FALSE
      BY <1>0, <1>6, ApEditNet DEF ApEditOp, Op
<1> QED BY <1>1, <1>2, <1>3, <1>4, <1>5, <1>6 DEF Next, Serve

-----------------------------------------------------------------------------
(* An answer settles the row.                                              *)

settled(c) ==
    \/ station'[c.mac].pend \notin Op
    \/ /\ c.op # "delete" /\ c.stage = "rejected" /\ isLive(c)
       /\ station'[c.mac] = station[c.mac]

\* A success clears the mark before the row is committed, and the commit sets
\* none.
LEMMA SuccessSettles ==
    ASSUME CoreInv, NEW c \in net, c.op \in Op, onSuccess(c)
    PROVE  station'[c.mac].pend \notin Op
<1> DEFINE t == clearPending(station, c.mac)
<1>1. c \in DeviceCall /\ c.mac \in Mac /\ station \in Table
      BY CallKinds DEF DeviceCall, CoreInv, TypeOK, NetOK, DiskOK
<1>2. t \in Table /\ t[c.mac].pend \in {"none", "absent"}
  <2>1. t[c.mac].pend = IF station[c.mac].pend # "absent" THEN "none" ELSE station[c.mac].pend
        BY <1>1 DEF clearPending, setPendingOp, macExists, Table, Row, row
  <2> QED BY <1>1, <2>1, MarkingType
<1> HIDE DEF t
<1>3. CASE isLive(c)
  <2>1. c.mac = pendingMac /\ pendingOwner \in Owner /\ pendingBssid \in Bssid \cup {NoBssid}
        BY <1>3 DEF isLive, CoreInv, CommitHasData, TypeOK, FormOK
  <2>2. \/ station' = updateStation(t, c.mac, pendingOwner)
        \/ station' = addStation(t, c.mac, pendingOwner, pendingBssid)
        BY <1>3, <2>1 DEF onSuccess, commitConfirmed, commitRow, t
  <2>3. station'[c.mac].pend \in {"none", "absent"}
        BY <1>1, <1>2, <2>1, <2>2, StatementPend
  <2> QED BY <2>3 DEF Op
<1>4. CASE ~isLive(c)
  <2>1. station' = t
        BY <1>4 DEF onSuccess, noCommit, t
  <2> QED BY <1>2, <2>1 DEF Op
<1> QED BY <1>3, <1>4

LEMMA AnswerSettles ==
    ASSUME CoreInv, NEW c \in net, c.op \in Op, deviceAnswer(c), used' = used
    PROVE  settled(c)
<1>1. c.mac \in Mac /\ station \in Table
      BY CallKinds DEF DeviceCall, CoreInv, TypeOK, NetOK, DiskOK
<1>2. ~unreachable(c)
      BY DEF unreachable, spend, CoreInv, TypeOK, CountersOK, Activity
<1>3. CASE onSuccess(c)
      BY <1>3, SuccessSettles DEF settled
<1>4. CASE c.op \in {"register", "update"} /\ onFailed(c)
  <2>1. c.stage = "rejected" /\ station' = afterRefusal(c)
        BY <1>2, <1>4 DEF onFailed, refused, noCommit
  <2>2. CASE isLive(c)
        BY <1>4, <2>1, <2>2 DEF afterRefusal, settled
  <2>3. CASE ~isLive(c)
    <3>1. station'[c.mac].pend \in {"none", "absent"}
          BY <1>1, <2>1, <2>3 DEF afterRefusal, clearPending, setPendingOp, macExists, Table,
                                  Row, row
    <3> QED BY <3>1 DEF settled, Op
  <2> QED BY <2>2, <2>3
<1>5. CASE onDeleteSuccess(c) \/ onDeleteFailed(c)
  <2>1. station' = removeStation(station, c.mac)
        BY <1>2, <1>5 DEF onDeleteSuccess, onDeleteFailed, forget
  <2> QED BY <1>1, <2>1 DEF removeStation, Absent, row, Table, settled, Op
<1> QED BY <1>3, <1>4, <1>5 DEF deviceAnswer

\* Every answer ends what is pending on its row, whoever sent the call and
\* whatever the form is about: only the refusal of what the form asks for
\* leaves the row as it was (onRegisterSuccess, onRegisterFailed and the like).
THEOREM AnswersSettleRows == Spec => AnswersSettle
<1> DEFINE Settled == \A c \in net : delivered(c) /\ c.op \in Op /\ used' = used => settled(c)
<1>1. ASSUME CoreInv, Restart PROVE used' # used
      BY <1>1 DEF Restart, spend, CoreInv, TypeOK, CountersOK, Activity
<1>2. CoreInv /\ [Next]_vars => Settled
      BY <1>1, DeliveredIsAnswered, AnswerSettles
<1>3. CoreInv /\ [Next]_vars => [Settled]_vars
      BY <1>2
<1> QED BY <1>3, CoreInvariant, PTL DEF Spec, AnswersSettle, settled
-----------------------------------------------------------------------------
(* A row hidden for deletion.                                              *)

broughtBack(m) ==
    \E c \in deviceCalls(net, m) : delivered(c) /\ c.op \in {"register", "update"}

LEMMA HiddenStep ==
    ASSUME CoreInv, distinct(net), [Next]_vars, NEW m \in Mac,
           station[m].pend = "delete", visible(station', m)
    PROVE  broughtBack(m)
<1>1. station \in Table /\ station'[m].pend # "delete"
      BY DEF visible, CoreInv, TypeOK, DiskOK
<1>2. ASSUME NEW c \in net, onDeviceListFetched(c) PROVE FALSE
      BY <1>1, <1>2 DEF onDeviceListFetched, cacheDevices, macExists
<1>3. ASSUME AdminStep PROVE FALSE
  <2>1. CASE dialog.mac \in Mac /\ station' = markStationPendingDelete(station, dialog.mac)
        BY <1>1, <2>1, MarkPend
  <2>2. ASSUME NEW o \in Owner \cup {NoOwner}, dialog.mac \in Mac,
               station' = updateStation(station, dialog.mac, o)
        PROVE  FALSE
    <3>1. PICK b : b \in Bssid \cup {NoBssid}
          OBVIOUS
    <3> QED BY <1>1, <2>2, <3>1, StatementPend
  <2> QED BY <1>1, <1>3, <2>1, <2>2, AdminRows
<1>4. ASSUME NEW x \in Mac, DeviceReply(x) PROVE broughtBack(m)
  <2>1. x = m
        BY <1>1, <1>4, DeviceReplyIsLocal
  <2>2. PICK c \in deviceCalls(net, m) : deviceAnswer(c)
        BY <1>4, <2>1, ReplyAnswers
  <2>3. delivered(c) /\ c.mac = m
        BY <2>2, ReplyIsDelivered DEF deviceAnswer, deviceCalls
  <2>4. ~(onDeleteSuccess(c) \/ onDeleteFailed(c))
    <3>1. removeStation(station, m)[m].pend = "absent"
          BY <1>1 DEF removeStation, Absent, row, Table
    <3> QED BY <1>1, <2>3, <3>1 DEF onDeleteSuccess, onDeleteFailed, forget, visible
  <2> QED BY <2>2, <2>3, <2>4 DEF deviceAnswer, broughtBack
<1> QED BY <1>1, <1>2, <1>3, <1>4, TableWriters

\* A deleted row that is shown again before the server has answered owes it to
\* the end of a registration or a change of that MAC, and to nothing else: the
\* reach of the divergence that DeletedStaysHidden finds (clearPending in
\* onRegisterSuccess and onUpdateSuccess).
THEOREM HiddenRowsReturnByReply == Spec => HiddenRowReturns
<1> DEFINE Returns == \A m \in Mac :
               station[m].pend = "delete" /\ visible(station', m) => broughtBack(m)
<1>1. CoreInv /\ SlotsDistinct /\ [Next]_vars => [Returns]_vars
      BY HiddenStep DEF SlotsDistinct
<1> QED BY <1>1, CoreInvariant, SlotsAreDistinct, PTL DEF Spec, HiddenRowReturns, broughtBack
-----------------------------------------------------------------------------
(* A candidate on the screen.                                              *)

leftByCommit(m) ==
    /\ m = pendingMac /\ commits' = commits + 1
    /\ macExists(station', m) \/ isUpdateMode

\* Only detections, the sweep, replies to device calls and a restart write the
\* candidate table.
LEMMA RowWriters ==
    ASSUME [Next]_vars, rows' # rows
    PROVE  \/ Restart \/ onCandidateFound \/ ClearRegistered
           \/ \E m \in Mac : DeviceReply(m)
<1>1. CASE \/ SyncTimer \/ FlowStep \/ UNCHANGED vars
           \/ \E m \in Mac, b \in Bssid : Detect(m, b)
      BY <1>1 DEF SyncTimer, Detect, FlowStep, goPhase2Register, goPhase2Update,
                  onPhase2Confirmed, onCancel, AutoReturn, vars, phase1
<1>2. CASE AdminStep
      BY <1>2 DEF AdminStep, goAdmin, onBack, SelectForDialog, DialogCanceled,
                  onDeleteSelected, onEditSelected, onAddAp, pageFrame, adminFrame, phase1
<1>3. CASE ListReply
      BY <1>3 DEF ListReply, onDeviceListFetched, onDeviceListFailed, onApListFetched,
                  onApListFailed, apFrame, listFrame
<1>4. CASE ApReply \/ WarningDismissed
      BY <1>4 DEF ApReply, WarningDismissed, onApRegisterBeforeDevice,
                  ApRegisterFailedWarning, onApRegisterForDeviceFailed, phase1
<1>5. CASE Serve \/ \E c \in net : Refuse(c) \/ Garble(c)
      BY <1>5 DEF Serve, ServeDevice, ServeList, ServeApList, ServeAp, Refuse, Garble,
                  serverFrame, phase1
<1>6. CASE ApEditStep
      BY <1>6, ApEditFrame DEF apPageFrame, phase1
<1> QED BY <1>1, <1>2, <1>3, <1>4, <1>5, <1>6 DEF Next

\* A commit of the form's MAC writes its row, unless it changes one that is no
\* longer there.
LEMMA CommitLeavesRow ==
    ASSUME CoreInv, pendingMac \in Mac, NEW t \in Table, NEW offline \in BOOLEAN,
           commitConfirmed(t, offline), NEW m \in Mac, rows[m] = "candidate",
           rows'[m] # "candidate"
    PROVE  leftByCommit(m)
<1>1. m = pendingMac
      BY CommitIsLocal DEF CoreInv
<1>2. ASSUME ~isUpdateMode PROVE macExists(station', m)
  <2>1. \/ station' = addStation(t, m, pendingOwner, pendingBssid)
        \/ station' = addStationPending(t, m, pendingOwner, pendingBssid)
        BY <1>1, <1>2 DEF commitConfirmed, commitRow
  <2> QED BY <2>1 DEF addStation, addStationPending, macExists, row, Table
<1> QED BY <1>1, <1>2 DEF leftByCommit, commitConfirmed

LEMMA CandidateStep ==
    ASSUME CoreInv, [Next]_vars, NEW m \in Mac, rows[m] = "candidate",
           rows'[m] # "candidate", ~Restart
    PROVE  leftByCommit(m)
<1>1. rows \in RowsTable /\ station \in Table
      BY DEF CoreInv, TypeOK, Phase1OK, DiskOK
<1>2. ASSUME onCandidateFound PROVE FALSE
  <2>1. \/ rows' = rows
        \/ \E x : rows' = showDuplicateNotice(rows, x) \/ rows' = addCandidate(rows, x)
        BY <1>2 DEF onCandidateFound
  <2> QED BY <1>1, <2>1 DEF showDuplicateNotice, addCandidate, RowsTable
<1>3. ASSUME ClearRegistered PROVE FALSE
      BY <1>3 DEF ClearRegistered, clearRegistered
<1>4. ASSUME NEW x \in Mac, DeviceReply(x) PROVE leftByCommit(m)
  <2>1. PICK c \in deviceCalls(net, x) : deviceAnswer(c)
        BY <1>4, ReplyAnswers
  <2>2. c.mac = x /\ clearPending(station, c.mac) \in Table
        BY <1>1, <2>1, MarkingType DEF deviceCalls
  <2>3. PICK t \in Table, offline \in BOOLEAN : isLive(c) /\ commitConfirmed(t, offline)
        BY <1>1, <2>1, <2>2 DEF deviceAnswer, onSuccess, onFailed, noCommit, onDeleteSuccess,
                                onDeleteFailed, deleteFrame
  <2>4. pendingMac \in Mac
        BY <2>2, <2>3 DEF isLive
  <2> QED BY <2>3, <2>4, CommitLeavesRow
<1> QED BY <1>2, <1>3, <1>4, RowWriters

\* A candidate leaves the screen only with the commit of its MAC, which leaves
\* a row for it unless it was a change (Phase1Widget and commitConfirmed): no
\* sweep, detection or reply about another station takes it away.
THEOREM CandidatesBecomeRows == Spec => CandidateBecomesRow
<1> DEFINE Becomes == \A m \in Mac :
               rows[m] = "candidate" /\ rows'[m] # "candidate"
               /\ used'["restart"] = used["restart"] => leftByCommit(m)
<1>1. ASSUME CoreInv, Restart PROVE used'["restart"] # used["restart"]
      BY <1>1 DEF Restart, spend, CoreInv, TypeOK, CountersOK, Activity
<1>2. CoreInv /\ [Next]_vars => Becomes
      BY <1>1, CandidateStep
<1>3. CoreInv /\ [Next]_vars => [Becomes]_vars
      BY <1>2
<1> QED BY <1>3, CoreInvariant, PTL DEF Spec, CandidateBecomesRow, leftByCommit
-----------------------------------------------------------------------------
(* Random MACs at the form.                                                *)

\* The form is opened for a registration by the button a random MAC lacks, and
\* whatever ends its mode ends the form.
FormBlocksRandom == stack = "phase2" /\ ~isUpdateMode => ~isRandom(pendingMac)

LEMMA FormBlocksRandomKept ==
    ASSUME FormBlocksRandom, [Next]_vars
    PROVE  FormBlocksRandom'
<1> USE DEF FormBlocksRandom
<1>1. CASE FlowStep
      BY <1>1 DEF FlowStep, goPhase2Register, goPhase2Update, onPhase2Confirmed, onCancel,
                  AutoReturn, goPhase1, screen, isRandom
<1>2. CASE Restart
      BY <1>2 DEF Restart, goPhase1
<1>3. CASE AdminStep
      BY <1>3 DEF AdminStep, goAdmin, onBack, SelectForDialog, DialogCanceled,
                  onDeleteSelected, onEditSelected, onAddAp, pageFrame, adminFrame, screen,
                  goPhase1
<1>4. ASSUME NEW m \in Mac, DeviceReply(m) PROVE FormBlocksRandom'
  <2>1. UNCHANGED form /\ (UNCHANGED stack \/ stack' = "phase3")
        BY <1>4 DEF DeviceReply, onRegisterSuccess, onRegisterFailed, onUpdateSuccess,
                    onUpdateFailed, onDeleteSuccess, onDeleteFailed, onSuccess, onFailed,
                    commitConfirmed, noCommit, flowFrame, replyFrame, deleteFrame, screen
  <2> QED BY <2>1 DEF form
<1>5. CASE \/ onCandidateFound \/ ClearRegistered \/ SyncTimer \/ ListReply \/ ApReply
           \/ WarningDismissed \/ Serve \/ ApEditStep \/ UNCHANGED vars
           \/ (\E m \in Mac, b \in Bssid : Detect(m, b))
           \/ \E c \in net : Refuse(c) \/ Garble(c)
  <2>1. UNCHANGED <<form, screen>>
    <3>1. CASE ListReply \/ ApReply \/ WarningDismissed
          BY <3>1 DEF ListReply, onDeviceListFetched, onDeviceListFailed, onApListFetched,
                      onApListFailed, apFrame, listFrame, ApReply, WarningDismissed,
                      onApRegisterBeforeDevice, ApRegisterFailedWarning,
                      onApRegisterForDeviceFailed
    <3>2. CASE Serve \/ \E c \in net : Refuse(c) \/ Garble(c)
          BY <3>2 DEF Serve, ServeDevice, ServeList, ServeApList, ServeAp, Refuse, Garble,
                      serverFrame
    <3>3. CASE ApEditStep
          BY <3>3, ApEditFrame DEF apPageFrame
    <3>4. CASE \/ onCandidateFound \/ ClearRegistered \/ SyncTimer \/ UNCHANGED vars
               \/ \E m \in Mac, b \in Bssid : Detect(m, b)
          BY <3>4 DEF onCandidateFound, ClearRegistered, SyncTimer, Detect, vars
    <3> QED BY <1>5, <3>1, <3>2, <3>3, <3>4
  <2> QED BY <2>1 DEF form, screen
<1> QED BY <1>1, <1>2, <1>3, <1>4, <1>5 DEF Next

LEMMA FormBlocksRandomAlways == Spec => []FormBlocksRandom
<1>1. Init => FormBlocksRandom
      BY DEF Init, FormBlocksRandom
<1>2. FormBlocksRandom /\ [Next]_vars => FormBlocksRandom'
      BY FormBlocksRandomKept
<1> QED BY <1>1, <1>2, PTL DEF Spec

behindAp(c) == awaitingApBeforeDevice /\ used'["confirm"] = used["confirm"]

LEMMA RandomStep ==
    ASSUME CoreInv, FormBlocksRandom, [Next]_vars, NEW c \in net' \ net, sentByFlow(c),
           isRandom(c.mac)
    PROVE  behindAp(c)
<1>1. flowStep(c)
      BY FlowRegisters
<1>2. ASSUME NEW o \in Owner, onPhase2Confirmed(o), c = confirmCall(o) PROVE FALSE
  <2>1. ~isUpdateMode /\ c.mac = pendingMac
        BY <1>2 DEF confirmCall, updateDevice, registerDevice, deviceCall, registerAPs,
                    sentByFlow
  <2> QED BY <1>2, <2>1 DEF onPhase2Confirmed, FormBlocksRandom
<1>3. ASSUME NEW a \in net, onApRegisterBeforeDevice(a), awaitingApBeforeDevice
      PROVE  behindAp(c)
      BY <1>3 DEF onApRegisterBeforeDevice, behindAp
<1> QED BY <1>1, <1>2, <1>3 DEF flowStep

\* No confirmation of the form registers a random MAC, whatever row it was
\* opened from: the registration of one is sent behind an AP registration, with
\* a MAC that replaced the confirmed one (goPhase2Register,
\* onApRegisterBeforeDevice), or as a resend.
THEOREM FormRegistersNoRandomMac == Spec => RandomIsBlockedAtTheForm
<1> DEFINE Blocked == \A c \in net' \ net :
               c.op = "register" /\ c.from = "live" /\ c.stage = "sent" /\ isRandom(c.mac) =>
                   behindAp(c)
<1>1. CoreInv /\ FormBlocksRandom /\ [Next]_vars => [Blocked]_vars
      BY RandomStep DEF sentByFlow
<1> QED BY <1>1, CoreInvariant, FormBlocksRandomAlways, PTL
        DEF Spec, RandomIsBlockedAtTheForm, behindAp
=============================================================================
