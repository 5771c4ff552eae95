--------------------------- MODULE KioskSafetyProofs --------------------------
(***************************************************************************)
(* Proofs of the safety properties of the kiosk that rest on the type      *)
(* invariant: how often a confirmation commits, what the AP step waits     *)
(* for, what a device list may change, where rows without data come from,  *)
(* and that the table of stations follows the life cycle of the pending    *)
(* queue.                                                                  *)
(***************************************************************************)
EXTENDS KioskProofs

-----------------------------------------------------------------------------
(* One commit for one confirmation.                                        *)

\* A step that neither commits nor starts to wait for a reply.
Calm == /\ commits' = commits /\ (awaitingApiCommit' => awaitingApiCommit)
        /\ used'["confirm"] \in Nat /\ used'["confirm"] >= used["confirm"]

LEMMA SpendGrows ==
    ASSUME CountersOK, NEW a \in Activity, spend(a)
    PROVE  /\ used'["confirm"] \in Nat /\ used'["confirm"] >= used["confirm"]
           /\ a = "confirm" => used'["confirm"] = used["confirm"] + 1
BY DEF CountersOK, spend, Activity

LEMMA UsedStays ==
    ASSUME CountersOK, UNCHANGED used
    PROVE  used'["confirm"] \in Nat /\ used'["confirm"] >= used["confirm"]
BY DEF CountersOK, Activity

LEMMA FaultGrows ==
    ASSUME CountersOK, NEW c, refused(c) \/ unreachable(c)
    PROVE  used'["confirm"] \in Nat /\ used'["confirm"] >= used["confirm"]
BY SpendGrows, UsedStays DEF refused, unreachable, Activity

\* Every step but a confirmation and the replies to registrations and changes
\* is calm.
LEMMA OthersAreCalm ==
    ASSUME CountersOK,
           \/ Restart \/ onCandidateFound \/ ClearRegistered \/ SyncTimer
           \/ \E m \in Mac, b \in Bssid : Detect(m, b)
           \/ \E m \in Mac : goPhase2Register(m) \/ goPhase2Update(m)
           \/ onCancel \/ AutoReturn \/ UNCHANGED vars
    PROVE  Calm
<1>1. ASSUME Restart PROVE Calm
      BY <1>1, SpendGrows DEF Calm, Restart, history, Activity
<1>2. ASSUME NEW m \in Mac, NEW b \in Bssid, Detect(m, b) PROVE Calm
      BY <1>2, SpendGrows DEF Calm, Detect, flags, history, Activity
<1>3. ASSUME onCandidateFound \/ ClearRegistered \/ SyncTimer \/ UNCHANGED vars PROVE Calm
      BY <1>3, UsedStays DEF Calm, onCandidateFound, ClearRegistered, SyncTimer, vars, flags,
                             history
<1>4. ASSUME \/ \E m \in Mac : goPhase2Register(m) \/ goPhase2Update(m)
             \/ onCancel \/ AutoReturn
      PROVE  Calm
      BY <1>4, UsedStays DEF Calm, goPhase2Register, goPhase2Update, onCancel, AutoReturn,
                             flags, history
<1> QED BY <1>1, <1>2, <1>3, <1>4

LEMMA RepliesAreCalm ==
    ASSUME CountersOK, ListReply \/ ApReply \/ WarningDismissed
    PROVE  Calm
<1>1. ASSUME NEW c \in net,
             \/ onDeviceListFetched(c) \/ onDeviceListFailed(c)
             \/ onApListFetched(c)     \/ onApListFailed(c)
      PROVE  Calm
  <2>1. UNCHANGED used \/ refused(c) \/ unreachable(c)
        BY <1>1 DEF onDeviceListFetched, onDeviceListFailed, onApListFetched, onApListFailed
  <2>2. listFrame
        BY <1>1 DEF onDeviceListFetched, onDeviceListFailed, onApListFetched, onApListFailed,
                    apFrame
  <2>3. commits' = commits /\ awaitingApiCommit' = awaitingApiCommit
        BY <2>2 DEF listFrame, flags, history
  <2>4. used'["confirm"] \in Nat /\ used'["confirm"] >= used["confirm"]
        BY <2>1, UsedStays, FaultGrows
  <2> QED BY <2>3, <2>4 DEF Calm
<1>2. ASSUME NEW c \in net, onApRegisterBeforeDevice(c) \/ onApRegisterForDeviceFailed(c)
      PROVE  Calm
  <2>1. UNCHANGED used /\ commits' = commits
        BY <1>2 DEF onApRegisterBeforeDevice, onApRegisterForDeviceFailed, history
  <2>2. awaitingApiCommit' => awaitingApiCommit
        BY <1>2 DEF onApRegisterBeforeDevice, onApRegisterForDeviceFailed
  <2> QED BY <2>1, <2>2, UsedStays DEF Calm
<1>3. ASSUME NEW c \in net, ApRegisterFailedWarning(c) PROVE Calm
      BY <1>3, FaultGrows DEF Calm, ApRegisterFailedWarning, flags, history
<1> QED BY <1>1, <1>2, <1>3 DEF ListReply, ApReply, WarningDismissed

LEMMA ServerIsCalm ==
    ASSUME CountersOK, Serve \/ \E c \in net : Refuse(c) \/ Garble(c)
    PROVE  Calm
<1>1. ASSUME NEW c \in net, ServeDevice(c) \/ ServeList(c) \/ ServeApList(c)
      PROVE  Calm
      BY <1>1, UsedStays DEF Calm, ServeDevice, ServeList, ServeApList, serverFrame,
                             flags, history
<1>2. ASSUME NEW c \in net, Refuse(c) \/ Garble(c) PROVE Calm
      BY <1>2, SpendGrows DEF Calm, Refuse, Garble, serverFrame, flags, history, Activity
<1>3. ASSUME NEW c \in net, ServeAp(c) PROVE Calm
  <2>1. used'["confirm"] \in Nat /\ used'["confirm"] >= used["confirm"]
        BY <1>3, UsedStays, SpendGrows DEF ServeAp, Activity
  <2> QED BY <1>3, <2>1 DEF Calm, ServeAp, serverFrame, flags, history
<1> QED BY <1>1, <1>2, <1>3 DEF Serve

LEMMA AdminIsCalm ==
    ASSUME CountersOK, AdminStep
    PROVE  Calm
<1>1. ASSUME goAdmin \/ (\E m \in Mac, kind \in {"delete", "edit"} : SelectForDialog(kind, m))
             \/ \E b \in Bssid : onAddAp(b)
      PROVE  Calm
      BY <1>1, SpendGrows DEF Calm, goAdmin, SelectForDialog, onAddAp, pageFrame, adminFrame,
                              flags, Activity
<1>2. ASSUME \/ onBack \/ DialogCanceled \/ onDeleteSelected
             \/ \E o \in Owner \cup {NoOwner} : onEditSelected(o)
      PROVE  Calm
      BY <1>2, UsedStays DEF Calm, onBack, DialogCanceled, onDeleteSelected, onEditSelected,
                             pageFrame, adminFrame, flags
<1> QED BY <1>1, <1>2 DEF AdminStep

LEMMA ApEditIsCalm ==
    ASSUME CountersOK, ApEditStep
    PROVE  Calm
<1>1. \/ UNCHANGED used \/ spend("admin") \/ spend("fault")
      \/ \E c \in net : refused(c) \/ unreachable(c)
      BY DEF ApEditStep, onChangeApType, AskRemoveAp, canEditAp, onRemoveAp,
             onUpdateAPSuccess, onDeleteAPSuccess, onApFetched, ApFetchFailed,
             ApEditFailedWarning, ApEditWarningDismissed, ServeApEdit, GarbleAp
<1>2. used'["confirm"] \in Nat /\ used'["confirm"] >= used["confirm"]
      BY <1>1, UsedStays, SpendGrows, FaultGrows DEF Activity
<1> QED BY <1>2, ApEditFrame DEF Calm, apPageFrame, flags, history

\* A reply to a device call is calm, or ends the wait with one commit.
LEMMA DeviceReplyCommits ==
    ASSUME CountersOK, FlagsOK, NEW m \in Mac, DeviceReply(m)
    PROVE  \/ Calm
           \/ /\ awaitingApiCommit /\ ~awaitingApiCommit' /\ commits' = commits + 1
              /\ used'["confirm"] \in Nat /\ used'["confirm"] >= used["confirm"]
<1>1. PICK c \in deviceCalls(net, m) :
          \/ onRegisterSuccess(c) \/ onRegisterFailed(c)
          \/ onUpdateSuccess(c)   \/ onUpdateFailed(c)
          \/ onDeleteSuccess(c)   \/ onDeleteFailed(c)
      BY DEF DeviceReply
<1>2. ASSUME onSuccess(c) PROVE UNCHANGED used /\
             \/ commits' = commits /\ awaitingApiCommit' = awaitingApiCommit
             \/ awaitingApiCommit /\ ~awaitingApiCommit' /\ commits' = commits + 1
      BY <1>2 DEF onSuccess, noCommit, isLive, commitConfirmed
<1>3. ASSUME onFailed(c)
      PROVE  /\ refused(c) \/ unreachable(c)
             /\ \/ commits' = commits /\ (awaitingApiCommit' => awaitingApiCommit)
                \/ awaitingApiCommit /\ ~awaitingApiCommit' /\ commits' = commits + 1
      BY <1>3 DEF onFailed, noCommit, isLive, stillAwaiting, commitConfirmed
<1>4. ASSUME onDeleteSuccess(c) \/ onDeleteFailed(c)
      PROVE  /\ UNCHANGED used \/ refused(c) \/ unreachable(c)
             /\ commits' = commits /\ awaitingApiCommit' = awaitingApiCommit
      BY <1>4 DEF onDeleteSuccess, onDeleteFailed, deleteFrame, flags, history
<1> QED BY <1>1, <1>2, <1>3, <1>4, UsedStays, FaultGrows
        DEF Calm, onRegisterSuccess, onRegisterFailed, onUpdateSuccess, onUpdateFailed

LEMMA CommitStep ==
    ASSUME CoreInv, OneCommitPerConfirm, [Next]_vars
    PROVE  OneCommitPerConfirm'
<1>1. CountersOK /\ FlagsOK /\ commits \in Nat /\ used["confirm"] \in Nat
      BY DEF CoreInv, TypeOK, CountersOK, Activity
<1>2. ASSUME Calm PROVE OneCommitPerConfirm'
      BY <1>1, <1>2 DEF Calm, OneCommitPerConfirm
<1>3. ASSUME NEW o \in Owner, onPhase2Confirmed(o) PROVE OneCommitPerConfirm'
  <2>1. used'["confirm"] = used["confirm"] + 1
        BY <1>1, <1>3, SpendGrows DEF onPhase2Confirmed, Activity
  <2> QED BY <1>1, <1>3, <2>1 DEF onPhase2Confirmed, OneCommitPerConfirm
<1>4. ASSUME NEW m \in Mac, DeviceReply(m) PROVE OneCommitPerConfirm'
      BY <1>1, <1>2, <1>4, DeviceReplyCommits DEF OneCommitPerConfirm
<1> QED BY <1>1, <1>2, <1>3, <1>4, OthersAreCalm, RepliesAreCalm, ServerIsCalm, AdminIsCalm,
           ApEditIsCalm
        DEF Next, FlowStep

\* One confirmation of the form leads to at most one commit, whatever replies,
\* resends, retries and AP steps come in between, for any number of stations,
\* owners, calls in flight and faults.
THEOREM CommitsAreConfirmed == Spec => []OneCommitPerConfirm
<1>1. Init => OneCommitPerConfirm
      BY DEF Init, OneCommitPerConfirm, Activity
<1>2. CoreInv /\ OneCommitPerConfirm /\ [Next]_vars => OneCommitPerConfirm'
      BY CommitStep
<1> QED BY <1>1, <1>2, CoreInvariant, PTL DEF Spec

-----------------------------------------------------------------------------
(* The AP step of the registration flow.                                   *)

isLiveAp(c) == c.op = "registerAPs" /\ c.from = "live"

\* A step that begins no AP step and takes no AP call of the flow away.
KeepsApCalls ==
    /\ awaitingApBeforeDevice' => awaitingApBeforeDevice
    /\ \A c \in net : isLiveAp(c) => \E d \in net' : isLiveAp(d)

LEMMA StageKeepsCall ==
    ASSUME NEW c \in Call, NEW s
    PROVE  /\ [c EXCEPT !.stage = s].op = c.op
           /\ c.op = "registerAPs" => [c EXCEPT !.stage = s].from = c.from
<1>1. CASE c \in DeviceCall BY <1>1 DEF DeviceCall, Op
<1>2. CASE c \in ListCall   BY <1>2 DEF ListCall
<1>3. CASE c \in ApCall     BY <1>3 DEF ApCall
<1>4. CASE c \in ApListCall BY <1>4 DEF ApListCall
<1>5. CASE c \in ApEditCall BY <1>5 DEF ApEditCall, ApEditOp
<1> QED BY <1>1, <1>2, <1>3, <1>4, <1>5 DEF Call

\* Nothing but a reply takes a call away.
LEMMA SendersKeepApCalls ==
    ASSUME \/ onCandidateFound \/ ClearRegistered \/ SyncTimer
           \/ \E m \in Mac, b \in Bssid : Detect(m, b)
           \/ \E m \in Mac : goPhase2Register(m) \/ goPhase2Update(m)
           \/ onCancel \/ AutoReturn \/ AdminStep \/ UNCHANGED vars
    PROVE  KeepsApCalls
<1>1. awaitingApBeforeDevice' = awaitingApBeforeDevice
  <2>1. CASE AdminStep
        BY <2>1 DEF AdminStep, goAdmin, onBack, SelectForDialog, DialogCanceled,
                    onDeleteSelected, onEditSelected, onAddAp, pageFrame, adminFrame, flags
  <2>2. CASE ~AdminStep
        BY <2>2 DEF onCandidateFound, ClearRegistered, SyncTimer, Detect, goPhase2Register,
                    goPhase2Update, onCancel, AutoReturn, vars, flags
  <2> QED BY <2>1, <2>2
<1>2. net \subseteq net'
  <2>1. CASE AdminStep
        BY <2>1 DEF AdminStep, goAdmin, onBack, SelectForDialog, DialogCanceled,
                    onDeleteSelected, onEditSelected, onAddAp
  <2>2. CASE ~AdminStep
        BY <2>2 DEF onCandidateFound, ClearRegistered, SyncTimer, trySyncPending, Detect,
                    goPhase2Register, goPhase2Update, onCancel, AutoReturn, vars
  <2> QED BY <2>1, <2>2
<1> QED BY <1>1, <1>2 DEF KeepsApCalls

LEMMA RepliesKeepApCalls ==
    ASSUME CoreInv,
           \/ \E m \in Mac : DeviceReply(m)
           \/ ListReply \/ \E c \in net : ApRegisterFailedWarning(c)
    PROVE  KeepsApCalls
<1>1. ASSUME NEW m \in Mac, DeviceReply(m) PROVE KeepsApCalls
  <2>1. PICK c \in deviceCalls(net, m) :
            \/ onRegisterSuccess(c) \/ onRegisterFailed(c)
            \/ onUpdateSuccess(c)   \/ onUpdateFailed(c)
            \/ onDeleteSuccess(c)   \/ onDeleteFailed(c)
        BY <1>1 DEF DeviceReply
  <2>2. ~isLiveAp(c)
        BY DEF deviceCalls, isLiveAp, Op
  <2>3. net' = net \ {c}
        BY <2>1 DEF onRegisterSuccess, onRegisterFailed, onUpdateSuccess, onUpdateFailed,
                    onDeleteSuccess, onDeleteFailed, onSuccess, onFailed
  <2>4. awaitingApBeforeDevice' = awaitingApBeforeDevice
    <3>1. CASE onSuccess(c) \/ onFailed(c)
          BY <3>1 DEF onSuccess, onFailed, flowFrame, replyFrame
    <3>2. CASE onDeleteSuccess(c) \/ onDeleteFailed(c)
          BY <3>2 DEF onDeleteSuccess, onDeleteFailed, deleteFrame, flags
    <3> QED BY <2>1, <3>1, <3>2 DEF onRegisterSuccess, onRegisterFailed, onUpdateSuccess,
                                    onUpdateFailed
  <2> QED BY <2>2, <2>3, <2>4 DEF KeepsApCalls
<1>2. ASSUME NEW c \in net,
             \/ onDeviceListFetched(c) \/ onDeviceListFailed(c)
             \/ onApListFetched(c)     \/ onApListFailed(c)
      PROVE  KeepsApCalls
  <2>1. ~isLiveAp(c) /\ net \ {c} \subseteq net'
        BY <1>2 DEF isLiveAp, onDeviceListFetched, onDeviceListFailed, onApListFetched,
                    onApListFailed, trySyncPending
  <2>2. listFrame
        BY <1>2 DEF onDeviceListFetched, onDeviceListFailed, onApListFetched,
                    onApListFailed, apFrame
  <2> QED BY <2>1, <2>2 DEF KeepsApCalls, listFrame, flags
<1>3. ASSUME NEW c \in net, ApRegisterFailedWarning(c) PROVE KeepsApCalls
  <2>1. isLiveAp(c) => isLiveAp([c EXCEPT !.stage = "warned"])
        BY StageKeepsCall DEF isLiveAp, CoreInv, TypeOK, NetOK
  <2> QED BY <1>3, <2>1 DEF KeepsApCalls, ApRegisterFailedWarning, flags
<1> QED BY <1>1, <1>2, <1>3 DEF ListReply

LEMMA ServerKeepsApCalls ==
    ASSUME CoreInv, Serve \/ \E c \in net : Refuse(c) \/ Garble(c)
    PROVE  KeepsApCalls
<1>1. ASSUME NEW c \in net, NEW r, answer(c, r), isLiveAp(c) => isLiveAp(r), serverFrame
      PROVE  KeepsApCalls
      BY <1>1 DEF KeepsApCalls, answer, serverFrame, flags
<1>2. ASSUME NEW c \in net, ServeDevice(c) \/ ServeList(c) \/ ServeApList(c) \/ Garble(c)
      PROVE  KeepsApCalls
  <2>1. ~isLiveAp(c)
        BY <1>2 DEF ServeDevice, ServeList, ServeApList, Garble, isLiveAp, Op
  <2> QED BY <1>1, <1>2, <2>1 DEF ServeDevice, ServeList, ServeApList, Garble
<1>3. ASSUME NEW c \in net, ServeAp(c) \/ Refuse(c) PROVE KeepsApCalls
  <2>1. \A s : isLiveAp(c) => isLiveAp([c EXCEPT !.stage = s])
        BY StageKeepsCall DEF isLiveAp, CoreInv, TypeOK, NetOK
  <2> QED BY <1>1, <1>3, <2>1 DEF ServeAp, Refuse
<1> QED BY <1>2, <1>3 DEF Serve

LEMMA ApEditsKeepApCalls ==
    ASSUME CoreInv, ApEditStep
    PROVE  KeepsApCalls
<1>1. \A c \in net : isLiveAp(c) => c \in net'
      BY ApEditNet DEF isLiveAp, ApEditOp
<1> QED BY <1>1, ApEditFrame DEF KeepsApCalls, apPageFrame, flags

LEMMA ApStep ==
    ASSUME CoreInv, ApStepHasCall, [Next]_vars
    PROVE  ApStepHasCall'
<1>1. ASSUME KeepsApCalls PROVE ApStepHasCall'
      BY <1>1 DEF KeepsApCalls, ApStepHasCall, isLiveAp
<1>2. ASSUME ~awaitingApBeforeDevice' PROVE ApStepHasCall'
      BY <1>2 DEF ApStepHasCall
<1>3. ASSUME NEW o \in Owner, onPhase2Confirmed(o) PROVE ApStepHasCall'
  <2>1. CASE apFirst
    <3>1. registerAPs(net, pendingBssid, "live") \in net'
          BY <1>3, <2>1 DEF onPhase2Confirmed, confirmCall, apFirst
    <3> QED BY <3>1 DEF ApStepHasCall, registerAPs
  <2>2. CASE ~apFirst
        BY <1>3, <2>2 DEF onPhase2Confirmed, ApStepHasCall
  <2> QED BY <2>1, <2>2
<1>4. CASE Restart
      BY <1>2, <1>4 DEF Restart
<1>5. ASSUME NEW c \in net, onApRegisterBeforeDevice(c) \/ onApRegisterForDeviceFailed(c)
      PROVE  ApStepHasCall'
      BY <1>2, <1>5 DEF onApRegisterBeforeDevice, onApRegisterForDeviceFailed, apStepDone
<1> QED BY <1>1, <1>3, <1>4, <1>5, SendersKeepApCalls, RepliesKeepApCalls,
           ServerKeepsApCalls, ApEditsKeepApCalls
        DEF Next, FlowStep, ApReply, WarningDismissed

\* The registration flow never waits for an AP registration that nothing in
\* flight can answer: whoever sent the AP call that answers first, and whether
\* it succeeds or fails, the wait ends with it or its own call is still there.
THEOREM ApStepEnds == Spec => []ApStepHasCall
<1>1. Init => ApStepHasCall
      BY DEF Init, ApStepHasCall
<1>2. CoreInv /\ ApStepHasCall /\ [Next]_vars => ApStepHasCall'
      BY ApStep
<1> QED BY <1>1, <1>2, CoreInvariant, PTL DEF Spec

-----------------------------------------------------------------------------
(* Device lists.                                                           *)

\* A step that takes a list call away either is a list's arrival or leaves the
\* rows alone.
LEMMA ListStep ==
    ASSUME [Next]_vars, NEW c \in net \ net', c.op = "lists"
    PROVE  station' = station \/ \E d : station' = cacheDevices(station, d)
<1>1. ASSUME NEW a \in net, net \ {a} \subseteq net', a.op # "lists"
      PROVE  FALSE
      BY <1>1
<1>2. ASSUME \/ Restart \/ onCandidateFound \/ ClearRegistered \/ SyncTimer
             \/ \E m \in Mac, b \in Bssid : Detect(m, b)
             \/ FlowStep \/ UNCHANGED vars
      PROVE  station' = station
      BY <1>2 DEF Restart, onCandidateFound, ClearRegistered, SyncTimer, Detect, FlowStep,
                  goPhase2Register, goPhase2Update, onPhase2Confirmed, onCancel, AutoReturn,
                  vars, disk
<1>3. ASSUME AdminStep PROVE FALSE
      BY <1>3 DEF AdminStep, goAdmin, onBack, SelectForDialog, DialogCanceled,
                  onDeleteSelected, onEditSelected, onAddAp
<1>4. ASSUME NEW m \in Mac, DeviceReply(m) PROVE FALSE
  <2>1. PICK a \in deviceCalls(net, m) : net' = net \ {a}
        BY <1>4 DEF DeviceReply, onRegisterSuccess, onRegisterFailed, onUpdateSuccess,
                    onUpdateFailed, onDeleteSuccess, onDeleteFailed, onSuccess, onFailed
  <2> QED BY <1>1, <2>1 DEF deviceCalls, Op
<1>5. ASSUME ListReply
      PROVE  station' = station \/ \E d : station' = cacheDevices(station, d)
      BY <1>5 DEF ListReply, onDeviceListFetched, onDeviceListFailed, onApListFetched,
                  onApListFailed, apFrame, disk
<1>6. ASSUME ApReply \/ WarningDismissed PROVE FALSE
      BY <1>1, <1>6 DEF ApReply, WarningDismissed, onApRegisterBeforeDevice,
                        ApRegisterFailedWarning, onApRegisterForDeviceFailed
<1>7. ASSUME Serve \/ \E a \in net : Refuse(a) \/ Garble(a) PROVE station' = station
      BY <1>7 DEF Serve, ServeDevice, ServeList, ServeApList, ServeAp, Refuse, Garble,
                  serverFrame, disk
<1>8. ASSUME ApEditStep PROVE station' = station
      BY <1>8, ApEditFrame DEF apPageFrame
<1> QED BY <1>2, <1>3, <1>4, <1>5, <1>6, <1>7, <1>8 DEF Next

\* A device list changes no row the kiosk has, whatever the list says, however
\* old it is and whatever is pending on the row.
THEOREM ListsKeepRows == Spec => ListsOverwriteNothing
<1> DEFINE Keep == \A c \in net \ net' :
           c.op = "lists" => \A m \in Mac : macExists(station, m) => station'[m] = station[m]
<1>1. ASSUME NEW m \in Mac, macExists(station, m), NEW d
      PROVE  cacheDevices(station, d)[m] = station[m]
      BY <1>1 DEF cacheDevices
<1>2. [Next]_vars => Keep
      BY <1>1, ListStep
<1>3. [Next]_vars => [Keep]_vars
      BY <1>2
<1> QED BY <1>3, PTL DEF Spec, ListsOverwriteNothing

-----------------------------------------------------------------------------
(* The life cycle of the pending queue.                                    *)

pends == [m \in Mac |-> station[m].pend]
LifecycleStep == Lifecycle!Next \/ UNCHANGED pends

\* How a statement of Db changes pending_op.
LEMMA StatementPend ==
    ASSUME NEW t \in Table, NEW m \in Mac, NEW o \in Owner \cup {NoOwner},
           NEW b \in Bssid \cup {NoBssid}, NEW x \in Mac
    PROVE  /\ addStation(t, m, o, b)[x].pend =
                  IF x = m /\ t[m].pend = "absent" THEN "none" ELSE t[x].pend
           /\ updateStation(t, m, o)[x].pend = t[x].pend
           /\ addStationPending(t, m, o, b)[x].pend = IF x = m THEN "register" ELSE t[x].pend
           /\ updateStationPending(t, m, o)[x].pend =
                  IF x = m /\ t[m].pend \notin {"absent", "register"} THEN "update"
                  ELSE t[x].pend
           /\ clearPending(t, m)[x].pend =
                  IF x = m /\ t[m].pend # "absent" THEN "none" ELSE t[x].pend
           /\ removeStation(t, m)[x].pend = IF x = m THEN "absent" ELSE t[x].pend
<1>1. addStation(t, m, o, b)[x].pend =
                  IF x = m /\ t[m].pend = "absent" THEN "none" ELSE t[x].pend
      BY DEF addStation, macExists, Table, Row, row
<1>2. updateStation(t, m, o)[x].pend = t[x].pend
      BY DEF updateStation, macExists, Table, Row, row
<1>3. addStationPending(t, m, o, b)[x].pend = IF x = m THEN "register" ELSE t[x].pend
      BY DEF addStationPending, Table, Row, row
<1>4. updateStationPending(t, m, o)[x].pend =
                  IF x = m /\ t[m].pend \notin {"absent", "register"} THEN "update"
                  ELSE t[x].pend
      BY DEF updateStationPending, macExists, Table, Row, row
<1>5. clearPending(t, m)[x].pend =
                  IF x = m /\ t[m].pend # "absent" THEN "none" ELSE t[x].pend
      BY DEF clearPending, setPendingOp, macExists, Table, Row, row
<1>6. removeStation(t, m)[x].pend = IF x = m THEN "absent" ELSE t[x].pend
      BY DEF removeStation, Absent, Table, Row, row
<1> QED BY <1>1, <1>2, <1>3, <1>4, <1>5, <1>6

LEMMA MarkPend ==
    ASSUME NEW t \in Table, NEW m \in Mac, NEW x \in Mac
    PROVE  markStationPendingDelete(t, m)[x].pend =
               IF x = m /\ t[m].pend = "register" THEN "absent"
               ELSE IF x = m /\ t[m].pend # "absent" THEN "delete" ELSE t[x].pend
BY DEF markStationPendingDelete, setPendingOp, macExists, Absent, Table, Row, row

\* A step that changes pending_op of at most one row, as an edge of its life
\* cycle, is a step of the life cycle.
LEMMA EdgeIsStep ==
    ASSUME NEW m \in Mac, station[m].pend \in Op \cup {"absent", "none"}, NEW s,
           \A x \in Mac : station'[x].pend = IF x = m THEN s ELSE station[x].pend,
           \/ s = station[m].pend \/ s = "absent" \/ s = "register"
           \/ s = "none"
           \/ s = "update" /\ station[m].pend \notin {"absent", "register"}
           \/ s = "delete" /\ station[m].pend \notin {"absent", "register"}
    PROVE  LifecycleStep
<1>1. pends' = [pends EXCEPT ![m] = s] /\ pends[m] = station[m].pend
      BY DEF pends
<1>2. CASE s = station[m].pend
      BY <1>1, <1>2 DEF LifecycleStep, pends
<1>3. CASE s = "absent"
      BY <1>1, <1>3 DEF LifecycleStep, pends, Lifecycle!Next, Lifecycle!Remove, Lifecycle!to
<1>4. CASE s = "register"
      BY <1>1, <1>4 DEF LifecycleStep, pends, Lifecycle!Next, Lifecycle!SaveOffline, Lifecycle!to
<1>5. CASE s = "none" /\ s # station[m].pend
      BY <1>1, <1>5 DEF LifecycleStep, pends, Lifecycle!Next, Lifecycle!Settle,
                        Lifecycle!SaveSynced, Lifecycle!Waiting, Lifecycle!to, Op
<1>6. CASE s = "update" /\ station[m].pend \notin {"absent", "register"}
      BY <1>1, <1>6 DEF LifecycleStep, pends, Lifecycle!Next, Lifecycle!ChangeOffline,
                        Lifecycle!to, Op
<1>7. CASE s = "delete" /\ station[m].pend \notin {"absent", "register"}
      BY <1>1, <1>7 DEF LifecycleStep, pends, Lifecycle!Next, Lifecycle!MarkDelete,
                        Lifecycle!to, Op
<1> QED BY <1>2, <1>3, <1>4, <1>5, <1>6, <1>7

\* Registrations and changes: what a reply and the commit it may cause do.
LEMMA SuccessEdge ==
    ASSUME TypeOK, CommitHasData, NEW c \in DeviceCall, onSuccess(c)
    PROVE  LifecycleStep
<1> DEFINE t == clearPending(station, c.mac)
<1>1. c.mac \in Mac /\ station \in Table /\ station[c.mac].pend \in Op \cup {"absent", "none"}
      BY DEF DeviceCall, TypeOK, DiskOK, Table, Row
<1>2. t \in Table
      BY <1>1, MarkingType
<1>3. \A x \in Mac : t[x].pend =
          IF x = c.mac /\ station[c.mac].pend # "absent" THEN "none" ELSE station[x].pend
      BY <1>1, StatementPend
<1>4. CASE isLive(c)
  <2>1. c.mac = pendingMac /\ pendingOwner \in Owner /\ pendingBssid \in Bssid \cup {NoBssid}
        BY <1>4 DEF isLive, CommitHasData, TypeOK, FormOK
  <2>2. station' = commitRow(t, FALSE)
        BY <1>4 DEF onSuccess, commitConfirmed
  <2>3. CASE isUpdateMode
    <3>1. station' = updateStation(t, c.mac, pendingOwner)
          BY <2>1, <2>2, <2>3 DEF commitRow
    <3>2. \A x \in Mac : station'[x].pend = t[x].pend
          BY <1>1, <1>2, <2>1, <3>1, StatementPend
    <3> QED BY <1>1, <1>3, <3>2, EdgeIsStep
  <2>4. CASE ~isUpdateMode
    <3>1. station' = addStation(t, c.mac, pendingOwner, pendingBssid)
          BY <2>1, <2>2, <2>4 DEF commitRow
    <3>2. \A x \in Mac : station'[x].pend =
              IF x = c.mac /\ t[c.mac].pend = "absent" THEN "none" ELSE t[x].pend
          BY <1>1, <1>2, <2>1, <3>1, StatementPend
    <3>3. \A x \in Mac : station'[x].pend = IF x = c.mac THEN "none" ELSE station[x].pend
          BY <1>1, <1>3, <3>2
    <3> QED BY <1>1, <3>3, EdgeIsStep
  <2> QED BY <2>3, <2>4
<1>5. CASE ~isLive(c)
  <2>1. station' = t
        BY <1>5 DEF onSuccess, noCommit
  <2> QED BY <1>1, <1>3, <2>1, EdgeIsStep
<1> QED BY <1>4, <1>5

LEMMA FailureEdge ==
    ASSUME TypeOK, CommitHasData, NEW c \in DeviceCall, onFailed(c)
    PROVE  LifecycleStep
<1>1. c.mac \in Mac /\ station \in Table /\ station[c.mac].pend \in Op \cup {"absent", "none"}
      BY DEF DeviceCall, TypeOK, DiskOK, Table, Row
<1>2. CASE station' = station
      BY <1>2 DEF LifecycleStep, pends
<1>3. CASE station' = clearPending(station, c.mac)
  <2>1. \A x \in Mac : station'[x].pend =
          IF x = c.mac /\ station[c.mac].pend # "absent" THEN "none" ELSE station[x].pend
        BY <1>1, <1>3, StatementPend
  <2> QED BY <1>1, <2>1, EdgeIsStep
<1>4. CASE isLive(c) /\ station' = commitRow(station, TRUE)
  <2>1. c.mac = pendingMac /\ pendingOwner \in Owner /\ pendingBssid \in Bssid \cup {NoBssid}
        BY <1>4 DEF isLive, CommitHasData, TypeOK, FormOK
  <2>2. CASE isUpdateMode
    <3>1. station' = updateStationPending(station, c.mac, pendingOwner)
          BY <1>4, <2>1, <2>2 DEF commitRow
    <3>2. \A x \in Mac : station'[x].pend =
              IF x = c.mac /\ station[c.mac].pend \notin {"absent", "register"} THEN "update"
              ELSE station[x].pend
          BY <1>1, <2>1, <3>1, StatementPend
    <3> QED BY <1>1, <3>2, EdgeIsStep
  <2>3. CASE ~isUpdateMode
    <3>1. station' = addStationPending(station, c.mac, pendingOwner, pendingBssid)
          BY <1>4, <2>1, <2>3 DEF commitRow
    <3>2. \A x \in Mac : station'[x].pend = IF x = c.mac THEN "register" ELSE station[x].pend
          BY <1>1, <2>1, <3>1, StatementPend
    <3> QED BY <1>1, <3>2, EdgeIsStep
  <2> QED BY <2>2, <2>3
<1> QED BY <1>2, <1>3, <1>4 DEF onFailed, noCommit, afterRefusal, commitConfirmed

LEMMA DeviceReplyEdge ==
    ASSUME CoreInv, NEW m \in Mac, DeviceReply(m)
    PROVE  LifecycleStep
<1>1. PICK c \in deviceCalls(net, m) :
          \/ onRegisterSuccess(c) \/ onRegisterFailed(c)
          \/ onUpdateSuccess(c)   \/ onUpdateFailed(c)
          \/ onDeleteSuccess(c)   \/ onDeleteFailed(c)
      BY DEF DeviceReply
<1>2. c \in DeviceCall /\ c.mac = m
      BY CallKinds DEF deviceCalls, CoreInv, TypeOK, NetOK
<1>3. CASE onDeleteSuccess(c) \/ onDeleteFailed(c)
  <2>1. station' = station \/ station' = removeStation(station, m)
        BY <1>2, <1>3 DEF onDeleteSuccess, onDeleteFailed, forget
  <2>2. CASE station' = station
        BY <2>2 DEF LifecycleStep, pends
  <2>3. CASE station' = removeStation(station, m)
    <3>1. station \in Table /\ station[m].pend \in Op \cup {"absent", "none"}
          BY DEF CoreInv, TypeOK, DiskOK, Table, Row
    <3>2. \A x \in Mac : station'[x].pend = IF x = m THEN "absent" ELSE station[x].pend
          BY <2>3, <3>1, StatementPend
    <3> QED BY <3>1, <3>2, EdgeIsStep
  <2> QED BY <2>1, <2>2, <2>3
<1> QED BY <1>1, <1>2, <1>3, SuccessEdge, FailureEdge
        DEF CoreInv, onRegisterSuccess, onRegisterFailed, onUpdateSuccess, onUpdateFailed

\* A list's devices enter as synchronised rows.
LEMMA CacheEdge ==
    ASSUME TypeOK, NEW d \in Devices, station' = cacheDevices(station, d)
    PROVE  LifecycleStep
<1> DEFINE S == {m \in registered(d) : ~macExists(station, m)}
<1>1. S \in SUBSET {m \in Mac : pends[m] = "absent"}
      BY DEF registered, macExists, pends
<1>2. ASSUME NEW m \in Mac
      PROVE  station'[m].pend = IF m \in S THEN "none" ELSE station[m].pend
  <2>1. station \in Table /\ d[m].owner \in Owner \cup {NoOwner}
                          /\ d[m].bssid \in Bssid \cup {NoBssid}
        BY DEF TypeOK, DiskOK, Devices, Device
  <2>2. addStation(station, m, d[m].owner, d[m].bssid)[m].pend =
            IF station[m].pend = "absent" THEN "none" ELSE station[m].pend
        BY <2>1, StatementPend
  <2> QED BY <2>2 DEF cacheDevices, macExists
<1>3. pends' = [m \in Mac |-> IF m \in S THEN "none" ELSE pends[m]]
      BY <1>2 DEF pends
<1> QED BY <1>1, <1>3 DEF LifecycleStep, pends, Lifecycle!Next, Lifecycle!CacheDevices

LEMMA AdminEdge ==
    ASSUME CoreInv, AdminStep
    PROVE  LifecycleStep
<1>1. station \in Table /\ \A m \in Mac : station[m].pend \in Op \cup {"absent", "none"}
      BY DEF CoreInv, TypeOK, DiskOK, Table, Row
<1>2. ASSUME NEW kind \in {"delete", "edit"}, canAnswer(kind) PROVE dialog.mac \in Mac
      BY <1>2 DEF canAnswer, CoreInv, TypeOK, AdminOK, NoDialog
<1>3. CASE onDeleteSelected
  <2>1. dialog.mac \in Mac /\ station' = markStationPendingDelete(station, dialog.mac)
        BY <1>2, <1>3 DEF onDeleteSelected
  <2> DEFINE p == station[dialog.mac].pend
             s == IF p \in {"register", "absent"} THEN "absent" ELSE "delete"
  <2>2. \A x \in Mac : station'[x].pend = IF x = dialog.mac THEN s ELSE station[x].pend
        BY <1>1, <2>1, MarkPend
  <2>3. s = "absent" \/ (s = "delete" /\ p \notin {"absent", "register"})
        OBVIOUS
  <2> HIDE DEF s
  <2> QED BY <1>1, <2>1, <2>2, <2>3, EdgeIsStep
<1>4. ASSUME NEW o \in Owner \cup {NoOwner}, onEditSelected(o) PROVE LifecycleStep
  <2>1. dialog.mac \in Mac /\ station' = updateStation(station, dialog.mac, o)
        BY <1>2, <1>4 DEF onEditSelected
  <2>2. \A x \in Mac : station'[x].pend = station[x].pend
    <3>1. PICK b : b \in Bssid \cup {NoBssid}
          OBVIOUS
    <3> QED BY <1>1, <2>1, <3>1, StatementPend
  <2> QED BY <2>2 DEF LifecycleStep, pends
<1>5. CASE \/ goAdmin \/ onBack \/ DialogCanceled \/ \E b \in Bssid : onAddAp(b)
           \/ \E m \in Mac, kind \in {"delete", "edit"} : SelectForDialog(kind, m)
  <2>1. station' = station
        BY <1>5 DEF goAdmin, onBack, DialogCanceled, onAddAp, SelectForDialog, disk
  <2> QED BY <2>1 DEF LifecycleStep, pends
<1> QED BY <1>3, <1>4, <1>5 DEF AdminStep

LEMMA StepFollowsLifecycle ==
    ASSUME CoreInv, [Next]_vars
    PROVE  LifecycleStep
<1>1. ASSUME station' = station PROVE LifecycleStep
      BY <1>1 DEF LifecycleStep, pends
<1>2. CASE \/ Restart \/ onCandidateFound \/ ClearRegistered \/ SyncTimer
           \/ \E m \in Mac, b \in Bssid : Detect(m, b)
           \/ FlowStep \/ UNCHANGED vars
  <2>1. station' = station
        BY <1>2 DEF Restart, onCandidateFound, ClearRegistered, SyncTimer, Detect, FlowStep,
                    goPhase2Register, goPhase2Update, onPhase2Confirmed, onCancel, AutoReturn,
                    vars, disk
  <2> QED BY <1>1, <2>1
<1>3. CASE ListReply
  <2>1. PICK c \in net : \/ onDeviceListFetched(c) \/ onDeviceListFailed(c)
                         \/ onApListFetched(c)     \/ onApListFailed(c)
        BY <1>3 DEF ListReply
  <2>2. CASE onDeviceListFetched(c)
    <3>1. c.devices \in Devices
          BY <2>2, CallKinds DEF onDeviceListFetched, CoreInv, TypeOK, NetOK, ListCall
    <3> QED BY <2>2, <3>1, CacheEdge DEF onDeviceListFetched, CoreInv
  <2>3. CASE onDeviceListFailed(c) \/ onApListFetched(c) \/ onApListFailed(c)
        BY <1>1, <2>3 DEF onDeviceListFailed, onApListFetched, onApListFailed, apFrame, disk
  <2> QED BY <2>1, <2>2, <2>3
<1>4. CASE ApReply \/ WarningDismissed
  <2>1. station' = station
        BY <1>4 DEF ApReply, WarningDismissed, onApRegisterBeforeDevice,
                    ApRegisterFailedWarning, onApRegisterForDeviceFailed, disk
  <2> QED BY <1>1, <2>1
<1>5. CASE Serve \/ \E c \in net : Refuse(c) \/ Garble(c)
  <2>1. station' = station
        BY <1>5 DEF Serve, ServeDevice, ServeList, ServeApList, ServeAp, Refuse, Garble,
                    serverFrame, disk
  <2> QED BY <1>1, <2>1
<1>6. CASE ApEditStep
      BY <1>1, <1>6, ApEditFrame DEF apPageFrame
<1> QED BY <1>2, <1>3, <1>4, <1>5, <1>6, DeviceReplyEdge, AdminEdge DEF Next

\* The table of stations implements the life cycle of the pending queue: every
\* reply, commit, list, click of the administrator and restart moves the rows
\* only along the edges that the comments of db.cpp describe.
THEOREM RowsImplementLifecycle == Spec => RowsFollowLifecycle
<1>1. Init => Lifecycle!Init
      BY DEF Init, Lifecycle!Init, Absent, row
<1>2. CoreInv /\ [Next]_vars => [Lifecycle!Next]_pends
      BY StepFollowsLifecycle DEF LifecycleStep
<1> QED BY <1>1, <1>2, CoreInvariant, PTL DEF Spec, RowsFollowLifecycle, Lifecycle!Spec, pends

-----------------------------------------------------------------------------
(* Rows without owner data.  What the server has, what its lists say and   *)
(* what the calls in flight carry must be named too, for they come back.   *)

\* Owner data o is there, or an administrator has emptied it for m.
named(conf, m, o)   == o = NoOwner => NoOwner \in conf[m]
rowsNamed(conf, t)  == \A m \in Mac : macExists(t, m) => named(conf, m, t[m].owner)
devsNamed(conf, d)  == \A m \in registered(d) : named(conf, m, d[m].owner)
callNamed(conf, c)  == /\ c.op \in {"register", "update"} => named(conf, c.mac, c.owner)
                       /\ c.op = "lists" => devsNamed(conf, c.devices)
NamedInv == /\ rowsNamed(confirmed, station) /\ devsNamed(confirmed, devices)
            /\ \A c \in net : callNamed(confirmed, c)

LEMMA StatementNamed ==
    ASSUME NEW conf, NEW t \in Table, rowsNamed(conf, t), NEW m \in Mac,
           NEW o \in Owner \cup {NoOwner}, NEW b \in Bssid \cup {NoBssid}
    PROVE  /\ named(conf, m, o) => /\ rowsNamed(conf, addStation(t, m, o, b))
                                   /\ rowsNamed(conf, updateStation(t, m, o))
                                   /\ rowsNamed(conf, addStationPending(t, m, o, b))
                                   /\ rowsNamed(conf, updateStationPending(t, m, o))
           /\ rowsNamed(conf, clearPending(t, m))
           /\ rowsNamed(conf, removeStation(t, m))
           /\ rowsNamed(conf, markStationPendingDelete(t, m))
<1> USE DEF rowsNamed, Table, Row, macExists, row
<1>1. ASSUME named(conf, m, o)
      PROVE  rowsNamed(conf, addStation(t, m, o, b)) /\ rowsNamed(conf, updateStation(t, m, o))
      BY <1>1 DEF addStation, updateStation
<1>2. ASSUME named(conf, m, o)
      PROVE  /\ rowsNamed(conf, addStationPending(t, m, o, b))
             /\ rowsNamed(conf, updateStationPending(t, m, o))
      BY <1>2 DEF addStationPending, updateStationPending
<1>3. rowsNamed(conf, clearPending(t, m))
      BY DEF clearPending, setPendingOp
<1>4. rowsNamed(conf, removeStation(t, m))
      BY DEF removeStation, Absent
<1>5. rowsNamed(conf, markStationPendingDelete(t, m))
      BY DEF markStationPendingDelete, setPendingOp, Absent
<1> HIDE DEF rowsNamed
<1> QED BY <1>1, <1>2, <1>3, <1>4, <1>5

\* What a resynchronisation sends is what the rows say.
LEMMA SyncNamed ==
    ASSUME NEW conf, NEW t \in Table, rowsNamed(conf, t), NEW n,
           NEW c \in trySyncPending(n, t) \ n
    PROVE  callNamed(conf, c)
<1>1. PICK m \in listPending(t) : c = resend(n, t[m], m)
      BY DEF trySyncPending
<1>2. named(conf, m, t[m].owner)
      BY DEF listPending, rowsNamed, macExists, Op
<1> QED BY <1>1, <1>2 DEF resend, registerDevice, updateDevice, deleteDevice, deviceCall,
                          callNamed

\* Nothing that was confirmed is forgotten, so what was named stays so.
LEMMA ConfirmedGrows ==
    ASSUME TypeOK, [Next]_vars, NEW m \in Mac
    PROVE  confirmed[m] \subseteq confirmed'[m]
<1> USE DEF TypeOK, CountersOK
<1>1. CASE UNCHANGED confirmed
      BY <1>1
<1>2. ASSUME NEW o, NEW x, confirmed' = [confirmed EXCEPT ![x] = @ \cup {o}]
      PROVE  confirmed[m] \subseteq confirmed'[m]
      BY <1>2
<1>3. CASE \/ Restart \/ onCandidateFound \/ ClearRegistered \/ SyncTimer
           \/ (\E x \in Mac, b \in Bssid : Detect(x, b)) \/ FlowStep \/ UNCHANGED vars
      BY <1>1, <1>2, <1>3
      DEF Restart, onCandidateFound, ClearRegistered, SyncTimer, Detect, FlowStep,
          goPhase2Register, goPhase2Update, onPhase2Confirmed, onCancel, AutoReturn, vars,
          history
<1>4. CASE AdminStep
      BY <1>1, <1>2, <1>4 DEF AdminStep, goAdmin, onBack, SelectForDialog, DialogCanceled,
                              onDeleteSelected, onEditSelected, onAddAp
<1>5. ASSUME NEW x \in Mac, DeviceReply(x) PROVE UNCHANGED confirmed
      BY <1>5 DEF DeviceReply, onRegisterSuccess, onRegisterFailed, onUpdateSuccess,
                  onUpdateFailed, onDeleteSuccess, onDeleteFailed, onSuccess, onFailed,
                  flowFrame, replyFrame, deleteFrame, history
<1>6. ASSUME ListReply PROVE UNCHANGED confirmed
      BY <1>6 DEF ListReply, onDeviceListFetched, onDeviceListFailed, onApListFetched,
                  onApListFailed, apFrame, listFrame, history
<1>7. ASSUME ApReply \/ WarningDismissed PROVE UNCHANGED confirmed
      BY <1>7 DEF ApReply, WarningDismissed, onApRegisterBeforeDevice,
                  ApRegisterFailedWarning, onApRegisterForDeviceFailed, history
<1>8. ASSUME Serve \/ \E c \in net : Refuse(c) \/ Garble(c) PROVE UNCHANGED confirmed
      BY <1>8 DEF Serve, ServeDevice, ServeList, ServeApList, ServeAp, Refuse, Garble,
                  serverFrame, history
<1>9. ASSUME ApEditStep PROVE UNCHANGED confirmed
      BY <1>9, ApEditFrame DEF apPageFrame, history
<1> QED BY <1>1, <1>3, <1>4, <1>5, <1>6, <1>7, <1>8, <1>9 DEF Next

LEMMA NamedFrame ==
    ASSUME TypeOK, NamedInv, \A m \in Mac : confirmed[m] \subseteq confirmed'[m],
           rowsNamed(confirmed', station'),
           devsNamed(confirmed, devices'),
           \A c \in net' \ net : callNamed(confirmed', c)
    PROVE  NamedInv'
<1>1. \A d \in Devices : devsNamed(confirmed, d) => devsNamed(confirmed', d)
      BY DEF devsNamed, registered, named
<1>2. devsNamed(confirmed', devices')
      BY DEF devsNamed, registered, named
<1>3. ASSUME NEW c \in net PROVE callNamed(confirmed', c)
  <2>1. callNamed(confirmed, c)
        BY DEF NamedInv
  <2>2. c.op \in Op => c.mac \in Mac
        BY CallKinds DEF TypeOK, NetOK, DeviceCall
  <2>3. c.op = "lists" => c.devices \in Devices
        BY CallKinds DEF TypeOK, NetOK, ListCall
  <2> QED BY <1>1, <2>1, <2>2, <2>3 DEF callNamed, named, Op
<1> QED BY <1>2, <1>3 DEF NamedInv

LEMMA DeviceReplyNamed ==
    ASSUME CoreInv, NamedInv, NEW m \in Mac, DeviceReply(m)
    PROVE  /\ rowsNamed(confirmed, station') /\ UNCHANGED devices
           /\ net' \subseteq net
<1>1. PICK c \in deviceCalls(net, m) :
          \/ onRegisterSuccess(c) \/ onRegisterFailed(c)
          \/ onUpdateSuccess(c)   \/ onUpdateFailed(c)
          \/ onDeleteSuccess(c)   \/ onDeleteFailed(c)
      BY DEF DeviceReply
<1>2. c.mac = m
      BY DEF deviceCalls
<1>3. station \in Table /\ rowsNamed(confirmed, station) /\ pendingBssid \in Bssid \cup {NoBssid}
      BY DEF CoreInv, TypeOK, DiskOK, FormOK, NamedInv
<1>4. /\ clearPending(station, m) \in Table
      /\ rowsNamed(confirmed, clearPending(station, m))
      /\ rowsNamed(confirmed, removeStation(station, m))
  <2>1. PICK o, b : o \in Owner \cup {NoOwner} /\ b \in Bssid \cup {NoBssid}
        OBVIOUS
  <2> QED BY <1>3, <2>1, StatementNamed, MarkingType
<1>5. ASSUME NEW t \in Table, rowsNamed(confirmed, t), NEW offline, isLive(c)
      PROVE  rowsNamed(confirmed, commitRow(t, offline))
  <2>1. pendingMac \in Mac /\ pendingOwner \in Owner /\ named(confirmed, pendingMac, pendingOwner)
        BY <1>5, ConstantsAreDistinct DEF isLive, CoreInv, CommitHasData, named
  <2> QED BY <1>3, <1>5, <2>1, StatementNamed DEF commitRow
<1>6. CASE onSuccess(c)
  <2>1. \/ station' = clearPending(station, m)
        \/ isLive(c) /\ station' = commitRow(clearPending(station, m), FALSE)
        BY <1>2, <1>6 DEF onSuccess, noCommit, commitConfirmed
  <2>2. rowsNamed(confirmed, station')
        BY <1>4, <1>5, <2>1
  <2> QED BY <1>6, <2>2 DEF onSuccess, flowFrame, replyFrame, server
<1>7. CASE onFailed(c)
  <2>1. \/ station' = station \/ station' = clearPending(station, m)
        \/ isLive(c) /\ station' = commitRow(station, TRUE)
        BY <1>2, <1>7 DEF onFailed, noCommit, commitConfirmed, afterRefusal
  <2>2. rowsNamed(confirmed, station')
        BY <1>3, <1>4, <1>5, <2>1
  <2> QED BY <1>7, <2>2 DEF onFailed, flowFrame, replyFrame, server
<1>8. CASE onDeleteSuccess(c) \/ onDeleteFailed(c)
  <2>1. station' = station \/ station' = removeStation(station, m)
        BY <1>2, <1>8 DEF onDeleteSuccess, onDeleteFailed, forget
  <2>2. rowsNamed(confirmed, station')
        BY <1>3, <1>4, <2>1
  <2> QED BY <1>8, <2>2 DEF onDeleteSuccess, onDeleteFailed, deleteFrame, server
<1> QED BY <1>1, <1>6, <1>7, <1>8
        DEF onRegisterSuccess, onRegisterFailed, onUpdateSuccess, onUpdateFailed

LEMMA ListReplyNamed ==
    ASSUME CoreInv, NamedInv, ListReply
    PROVE  /\ rowsNamed(confirmed, station') /\ UNCHANGED devices
           /\ \A c \in net' \ net : callNamed(confirmed, c)
<1>1. station \in Table /\ rowsNamed(confirmed, station)
      BY DEF CoreInv, TypeOK, DiskOK, NamedInv
<1>2. PICK c \in net : \/ onDeviceListFetched(c) \/ onDeviceListFailed(c)
                       \/ onApListFetched(c)     \/ onApListFailed(c)
      BY DEF ListReply
<1>3. UNCHANGED devices
  <2>1. listFrame
        BY <1>2 DEF onDeviceListFetched, onDeviceListFailed, onApListFetched, onApListFailed,
                    apFrame
  <2> QED BY <2>1 DEF listFrame, server
<1>4. CASE onDeviceListFetched(c)
  <2>1. c.op = "lists" /\ station' = cacheDevices(station, c.devices)
        /\ net' = trySyncPending(net \ {c}, station')
        BY <1>4 DEF onDeviceListFetched
  <2>2. c.devices \in Devices /\ devsNamed(confirmed, c.devices)
        BY <2>1, CallKinds DEF CoreInv, TypeOK, NetOK, ListCall, NamedInv, callNamed
  <2>3. station' \in Table
        BY <1>1, <2>1, <2>2, CacheDevicesType
  <2>4. rowsNamed(confirmed, station')
    <3> SUFFICES ASSUME NEW m \in Mac, macExists(station', m)
                 PROVE  named(confirmed, m, station'[m].owner)
        BY DEF rowsNamed
    <3>1. CASE macExists(station, m)
      <4>1. station'[m] = station[m]
            BY <2>1, <3>1 DEF cacheDevices
      <4> QED BY <1>1, <3>1, <4>1 DEF rowsNamed
    <3>2. CASE ~macExists(station, m)
      <4>1. m \in registered(c.devices)
            /\ station'[m] = addStation(station, m, c.devices[m].owner, c.devices[m].bssid)[m]
            BY <2>1, <3>2 DEF cacheDevices, macExists
      <4>2. station'[m].owner = c.devices[m].owner
            BY <1>1, <3>2, <4>1 DEF addStation, row, Table
      <4> QED BY <2>2, <4>1, <4>2 DEF devsNamed
    <3> QED BY <3>1, <3>2
  <2>5. \A a \in net' \ net : callNamed(confirmed, a)
    <3>1. ASSUME NEW a \in net' \ net PROVE a \in trySyncPending(net \ {c}, station') \ (net \ {c})
          BY <2>1, <3>1
    <3> QED BY <2>3, <2>4, <3>1, SyncNamed
  <2> QED BY <1>3, <2>4, <2>5
<1>5. CASE onDeviceListFailed(c) \/ onApListFetched(c) \/ onApListFailed(c)
  <2>1. station' = station /\ net' \subseteq net
        BY <1>5 DEF onDeviceListFailed, onApListFetched, onApListFailed, apFrame, disk
  <2> QED BY <1>1, <1>3, <2>1
<1> QED BY <1>2, <1>4, <1>5

LEMMA ServerNamed ==
    ASSUME CoreInv, NamedInv, Serve \/ \E c \in net : Refuse(c) \/ Garble(c)
    PROVE  /\ UNCHANGED station /\ devsNamed(confirmed, devices')
           /\ \A c \in net' \ net : callNamed(confirmed, c)
<1>1. /\ devices \in Devices /\ devsNamed(confirmed, devices) /\ net \subseteq Call
      /\ \A c \in net : callNamed(confirmed, c)
      BY DEF CoreInv, TypeOK, ServerOK, NetOK, NamedInv
<1>2. UNCHANGED station
      BY DEF Serve, ServeDevice, ServeList, ServeApList, ServeAp, Refuse, Garble, serverFrame,
             disk
<1>3. ASSUME NEW c \in Call, callNamed(confirmed, c), NEW s
      PROVE  callNamed(confirmed, [c EXCEPT !.stage = s])
  <2>1. CASE c \in DeviceCall BY <1>3, <2>1 DEF DeviceCall, callNamed, Op
  <2>2. CASE c \in ListCall   BY <1>3, <2>2 DEF ListCall, callNamed
  <2>3. CASE c \in ApCall     BY <2>3 DEF ApCall, callNamed
  <2>4. CASE c \in ApListCall BY <2>4 DEF ApListCall, callNamed
  <2>5. CASE c \in ApEditCall BY <2>5 DEF ApEditCall, ApEditOp, callNamed
  <2> QED BY <2>1, <2>2, <2>3, <2>4, <2>5 DEF Call
<1>4. ASSUME NEW c \in net, ServeDevice(c)
      PROVE  devsNamed(confirmed, devices') /\ \A a \in net' \ net : callNamed(confirmed, a)
  <2>1. c \in DeviceCall /\ callNamed(confirmed, c)
        BY <1>1, <1>4, CallKinds DEF ServeDevice
  <2>2. devsNamed(confirmed, apply(devices, c))
    <3> SUFFICES ASSUME NEW m \in Mac, apply(devices, c)[m] # NoDevice
                 PROVE  named(confirmed, m, apply(devices, c)[m].owner)
        BY DEF devsNamed, registered
    <3>1. CASE m = c.mac
      <4>1. c.op # "delete" /\ apply(devices, c)[m].owner = c.owner
            BY <1>1, <2>1, <3>1 DEF apply, Devices
      <4>2. c.op \in {"register", "update"}
            BY <2>1, <4>1 DEF DeviceCall, Op
      <4> QED BY <2>1, <3>1, <4>1, <4>2 DEF callNamed
    <3>2. CASE m # c.mac
      <4>1. apply(devices, c)[m] = devices[m]
            BY <1>1, <3>2 DEF apply, Devices
      <4> QED BY <1>1, <4>1 DEF devsNamed, registered
    <3> QED BY <3>1, <3>2
  <2>3. devsNamed(confirmed, devices')
        BY <1>1, <1>4, <2>2 DEF ServeDevice
  <2>4. \A a \in net' \ net : callNamed(confirmed, a)
        BY <1>1, <1>3, <1>4 DEF ServeDevice, answer
  <2> QED BY <2>3, <2>4
<1>5. ASSUME NEW c \in net, ServeList(c) \/ Garble(c)
      PROVE  UNCHANGED devices /\ \A a \in net' \ net : callNamed(confirmed, a)
  <2>1. c \in ListCall
        BY <1>1, <1>5, CallKinds DEF ServeList, Garble
  <2>2. ASSUME NEW d, devsNamed(confirmed, d)
        PROVE  /\ callNamed(confirmed, [c EXCEPT !.devices = d])
               /\ callNamed(confirmed, [c EXCEPT !.stage = "ok", !.devices = d])
        BY <2>1, <2>2 DEF ListCall, callNamed
  <2>3. devsNamed(confirmed, [m \in Mac |-> NoDevice])
        BY DEF devsNamed, registered
  <2>4. CASE ServeList(c)
        BY <1>1, <2>2, <2>4 DEF ServeList, answer, server
  <2>5. CASE Garble(c)
    <3> DEFINE r == [c EXCEPT !.devices = [m \in Mac |-> NoDevice]]
    <3>1. callNamed(confirmed, r)
          BY <2>2, <2>3
    <3>2. net' = (net \ {c}) \cup {r} /\ UNCHANGED devices
          BY <2>5 DEF Garble, answer, server
    <3> HIDE DEF r
    <3> QED BY <3>1, <3>2
  <2> QED BY <1>5, <2>4, <2>5
<1>6. ASSUME NEW c \in net, ServeApList(c)
      PROVE  UNCHANGED devices /\ \A a \in net' \ net : callNamed(confirmed, a)
  <2>1. c \in ApListCall
        BY <1>1, <1>6, CallKinds DEF ServeApList
  <2>2. callNamed(confirmed, [c EXCEPT !.stage = "ok", !.aps = serverAps])
        BY <2>1 DEF ApListCall, callNamed
  <2> QED BY <1>6, <2>2 DEF ServeApList, answer, server
<1>7. ASSUME NEW c \in net, ServeAp(c) \/ Refuse(c)
      PROVE  UNCHANGED devices /\ \A a \in net' \ net : callNamed(confirmed, a)
      BY <1>1, <1>3, <1>7 DEF ServeAp, Refuse, answer, server
<1> QED BY <1>1, <1>2, <1>4, <1>5, <1>6, <1>7 DEF Serve

\* A call the kiosk sends carries owner data of a row, of the form, or what the
\* administrator has just entered.
LEMMA CallNamed ==
    ASSUME NEW conf, NEW n, NEW m, NEW b, NEW from
    PROVE  /\ \A o : named(conf, m, o) => /\ callNamed(conf, registerDevice(n, m, o, b, from))
                                          /\ callNamed(conf, updateDevice(n, m, o, from))
           /\ callNamed(conf, deleteDevice(n, m, from))
           /\ callNamed(conf, registerAPs(n, b, from))
           /\ callNamed(conf, fetchDeviceList(n)) /\ callNamed(conf, fetchAPs(n))
<1>1. /\ \A o : named(conf, m, o) => /\ callNamed(conf, registerDevice(n, m, o, b, from))
                                     /\ callNamed(conf, updateDevice(n, m, o, from))
      /\ callNamed(conf, deleteDevice(n, m, from))
      BY DEF callNamed, registerDevice, updateDevice, deleteDevice, deviceCall
<1>2. callNamed(conf, registerAPs(n, b, from)) /\ callNamed(conf, fetchAPs(n))
      BY DEF callNamed, registerAPs, fetchAPs
<1>3. callNamed(conf, fetchDeviceList(n))
      BY DEF callNamed, fetchDeviceList, devsNamed, registered
<1> QED BY <1>1, <1>2, <1>3

LEMMA InitNamed == Init => NamedInv
<1> SUFFICES ASSUME Init PROVE NamedInv
    OBVIOUS
<1>1. rowsNamed(confirmed, station)
      BY DEF Init, rowsNamed, macExists, Absent, row
<1>2. devsNamed(confirmed, devices)
      BY ServerKnowsOwners, ConstantsAreDistinct DEF Init, devsNamed, named
<1>3. \A c \in net : callNamed(confirmed, c)
      BY CallNamed DEF Init, startupCalls
<1> QED BY <1>1, <1>2, <1>3 DEF NamedInv

LEMMA AdminNamed ==
    ASSUME CoreInv, NamedInv, AdminStep, \A m \in Mac : confirmed[m] \subseteq confirmed'[m]
    PROVE  /\ rowsNamed(confirmed', station') /\ UNCHANGED devices
           /\ \A c \in net' \ net : callNamed(confirmed', c)
<1>1. /\ station \in Table /\ rowsNamed(confirmed', station)
      /\ confirmed \in [Mac -> SUBSET (Owner \cup {NoOwner})]
      BY DEF CoreInv, TypeOK, DiskOK, CountersOK, NamedInv, rowsNamed, named
<1>2. ASSUME NEW kind \in {"delete", "edit"}, canAnswer(kind) PROVE dialog.mac \in Mac
      BY <1>2 DEF canAnswer, CoreInv, TypeOK, AdminOK, NoDialog
<1>3. UNCHANGED devices
      BY DEF AdminStep, goAdmin, onBack, SelectForDialog, DialogCanceled, onDeleteSelected,
             onEditSelected, onAddAp, pageFrame, adminFrame, server
<1>4. CASE onDeleteSelected
  <2>1. PICK o, b : o \in Owner \cup {NoOwner} /\ b \in Bssid \cup {NoBssid}
        OBVIOUS
  <2>2. rowsNamed(confirmed', station')
        BY <1>1, <1>2, <1>4, <2>1, StatementNamed DEF onDeleteSelected
  <2>3. \A c \in net' \ net : callNamed(confirmed', c)
        BY <1>4, CallNamed DEF onDeleteSelected
  <2> QED BY <1>3, <2>2, <2>3
<1>5. ASSUME NEW o \in Owner \cup {NoOwner}, onEditSelected(o)
      PROVE  /\ rowsNamed(confirmed', station')
             /\ \A c \in net' \ net : callNamed(confirmed', c)
  <2>1. dialog.mac \in Mac /\ named(confirmed', dialog.mac, o)
        BY <1>1, <1>2, <1>5 DEF onEditSelected, named
  <2>2. PICK b : b \in Bssid \cup {NoBssid}
        OBVIOUS
  <2>3. rowsNamed(confirmed', station')
        BY <1>1, <1>5, <2>1, <2>2, StatementNamed DEF onEditSelected
  <2>4. \A c \in net' \ net : callNamed(confirmed', c)
    <3>1. net' = net \cup {updateDevice(net, dialog.mac, o, "admin")}
          BY <1>5 DEF onEditSelected
    <3>2. callNamed(confirmed', updateDevice(net, dialog.mac, o, "admin"))
          BY <2>1, CallNamed
    <3> QED BY <3>1, <3>2
  <2> QED BY <2>3, <2>4
<1>6. CASE \/ goAdmin \/ onBack \/ DialogCanceled \/ \E b \in Bssid : onAddAp(b)
           \/ \E m \in Mac, kind \in {"delete", "edit"} : SelectForDialog(kind, m)
  <2>1. station' = station
        BY <1>6 DEF goAdmin, onBack, DialogCanceled, onAddAp, SelectForDialog, disk
  <2>2. \A c \in net' \ net : callNamed(confirmed', c)
    <3>1. CASE goAdmin
          BY <3>1, CallNamed DEF goAdmin
    <3>2. ASSUME NEW b \in Bssid, onAddAp(b)
          PROVE  \A c \in net' \ net : callNamed(confirmed', c)
      <4>1. net' = net \cup {registerAPs(net, b, "admin")}
            BY <3>2 DEF onAddAp
      <4>2. callNamed(confirmed', registerAPs(net, b, "admin"))
            BY CallNamed
      <4> QED BY <4>1, <4>2
    <3>3. CASE \/ onBack \/ DialogCanceled
               \/ \E m \in Mac, kind \in {"delete", "edit"} : SelectForDialog(kind, m)
          BY <3>3 DEF onBack, DialogCanceled, SelectForDialog
    <3> QED BY <1>6, <3>1, <3>2, <3>3
  <2> QED BY <1>1, <1>3, <2>1, <2>2
<1> QED BY <1>3, <1>4, <1>5, <1>6 DEF AdminStep

LEMMA NamedStep ==
    ASSUME CoreInv, NamedInv, [Next]_vars
    PROVE  NamedInv'
<1>1. /\ TypeOK /\ CommitHasData /\ station \in Table /\ rowsNamed(confirmed, station)
      /\ devsNamed(confirmed, devices)
      BY DEF CoreInv, TypeOK, DiskOK, NamedInv
<1>2. \A m \in Mac : confirmed[m] \subseteq confirmed'[m]
      BY <1>1, ConfirmedGrows
<1>3. ASSUME NEW t, rowsNamed(confirmed, t) PROVE rowsNamed(confirmed', t)
      BY <1>2, <1>3 DEF rowsNamed, named
<1>4. ASSUME NEW c, callNamed(confirmed, c), c \in Call PROVE callNamed(confirmed', c)
  <2>1. c.op \in Op => c.mac \in Mac
        BY <1>4, CallKinds DEF DeviceCall
  <2> QED BY <1>2, <1>4, <2>1 DEF callNamed, devsNamed, registered, named, Op
<1>5. ASSUME rowsNamed(confirmed, station'), devsNamed(confirmed, devices'),
             \A c \in net' \ net : callNamed(confirmed, c)
      PROVE  NamedInv'
  <2>1. net' \subseteq Call
        BY CoreStep DEF CoreInv, TypeOK, NetOK
  <2>2. rowsNamed(confirmed', station') /\ \A c \in net' \ net : callNamed(confirmed', c)
        BY <1>3, <1>4, <1>5, <2>1
  <2> QED BY <1>1, <1>2, <1>5, <2>2, NamedFrame
<1>6. CASE \/ onCandidateFound \/ ClearRegistered \/ onCancel \/ AutoReturn \/ UNCHANGED vars
           \/ \E m \in Mac, b \in Bssid : Detect(m, b)
           \/ \E m \in Mac : goPhase2Register(m) \/ goPhase2Update(m)
  <2>1. UNCHANGED <<station, devices, net>>
        BY <1>6 DEF onCandidateFound, ClearRegistered, onCancel, AutoReturn, vars, Detect,
                    goPhase2Register, goPhase2Update, disk, server
  <2> QED BY <1>1, <1>5, <2>1
<1>7. CASE Restart
  <2>1. UNCHANGED <<station, devices>> /\ net' = startupCalls
        BY <1>7 DEF Restart, disk, server
  <2> QED BY <1>1, <1>5, <2>1, CallNamed DEF startupCalls
<1>8. ASSUME NEW o \in Owner, onPhase2Confirmed(o) PROVE NamedInv'
  <2>1. UNCHANGED <<station, devices>> /\ net' = net \cup {confirmCall(o)}
        BY <1>8 DEF onPhase2Confirmed, disk, server
  <2>2. named(confirmed, pendingMac, o)
        BY ConstantsAreDistinct DEF named
  <2>3. callNamed(confirmed, confirmCall(o))
        BY <2>2, CallNamed DEF confirmCall
  <2> QED BY <1>1, <1>5, <2>1, <2>3
<1>9. CASE SyncTimer
  <2>1. UNCHANGED <<station, devices>> /\ net' = trySyncPending(net, station)
        BY <1>9 DEF SyncTimer, disk, server
  <2> QED BY <1>1, <1>5, <2>1, SyncNamed
<1>10. ASSUME NEW c \in net, \/ onApRegisterBeforeDevice(c) \/ ApRegisterFailedWarning(c)
                             \/ onApRegisterForDeviceFailed(c)
       PROVE  NamedInv'
  <2>1. UNCHANGED <<station, devices>>
        BY <1>10 DEF onApRegisterBeforeDevice, ApRegisterFailedWarning,
                     onApRegisterForDeviceFailed, disk, server
  <2>2. CASE onApRegisterBeforeDevice(c) /\ awaitingApBeforeDevice
    <3>1. named(confirmed, pendingMac, pendingOwner)
          BY <1>1, <2>2, ConstantsAreDistinct DEF CommitHasData, named
    <3>2. net' = (net \ {c}) \cup
                 {registerDevice(net, pendingMac, pendingOwner, pendingBssid, "live")}
          BY <2>2 DEF onApRegisterBeforeDevice
    <3> QED BY <1>1, <1>5, <2>1, <3>1, <3>2, CallNamed
  <2>3. CASE onApRegisterBeforeDevice(c) /\ ~awaitingApBeforeDevice
        BY <1>1, <1>5, <2>1, <2>3 DEF onApRegisterBeforeDevice
  <2>4. CASE ApRegisterFailedWarning(c)
    <3>1. c \in ApCall
          BY <2>4, CallKinds DEF ApRegisterFailedWarning, CoreInv, TypeOK, NetOK
    <3>2. callNamed(confirmed, [c EXCEPT !.stage = "warned"])
          BY <3>1 DEF ApCall, callNamed
    <3> QED BY <1>1, <1>5, <2>1, <2>4, <3>2 DEF ApRegisterFailedWarning
  <2>5. CASE onApRegisterForDeviceFailed(c)
        BY <1>1, <1>5, <2>1, <2>5 DEF onApRegisterForDeviceFailed
  <2> QED BY <1>10, <2>2, <2>3, <2>4, <2>5
<1>11. ASSUME NEW m \in Mac, DeviceReply(m) PROVE NamedInv'
       BY <1>1, <1>5, <1>11, DeviceReplyNamed
<1>12. CASE ListReply
       BY <1>1, <1>5, <1>12, ListReplyNamed
<1>13. CASE Serve \/ \E c \in net : Refuse(c) \/ Garble(c)
       BY <1>1, <1>5, <1>13, ServerNamed
<1>14. CASE AdminStep
       BY <1>1, <1>2, <1>14, AdminNamed, NamedFrame
<1>15. CASE ApEditStep
  <2>1. UNCHANGED <<station, devices>>
        BY <1>15, ApEditFrame DEF apPageFrame
  <2>2. \A c \in net' \ net : callNamed(confirmed, c)
        BY <1>15, ApEditNet DEF ApEditCall, ApEditOp, callNamed
  <2> QED BY <1>1, <1>5, <2>1, <2>2
<1> QED BY <1>6, <1>7, <1>8, <1>9, <1>10, <1>11, <1>12, <1>13, <1>14, <1>15
        DEF Next, FlowStep, ApReply, WarningDismissed

\* A row without owner data is one an administrator emptied.  The replies, the
\* resends and the lists all bring back what some row, form or list said
\* before, so the invariant follows owner data through the calls in flight and
\* through the server.
THEOREM RowsAreNamed == Spec => []NoBlankRow
<1>1. CoreInv /\ NamedInv /\ [Next]_vars => NamedInv'
      BY NamedStep
<1>2. NamedInv => NoBlankRow
      BY DEF NamedInv, NoBlankRow, rowsNamed, named
<1> QED BY InitNamed, <1>1, <1>2, CoreInvariant, PTL DEF Spec
=============================================================================
