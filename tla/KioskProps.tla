------------------------------ MODULE KioskProps -----------------------------
(***************************************************************************)
(* What the kiosk promises, stated of the specification in Kiosk.  The     *)
(* properties of the second part are what comments and the README say and  *)
(* the code does not do; TLC finds each of them violated.                  *)
(***************************************************************************)
EXTENDS Kiosk

\* Every variable has its type: the tables of the kiosk and of the server, the
\* calls in flight, the page and the form, the flags, the lists and the dialog.
DiskOK    == station \in Table /\ ap \subseteq Bssid \cup {NoBssid}
ServerOK  == devices \in Devices /\ serverAps \subseteq Bssid
NetOK     == net \subseteq Call
ScreenOK  == /\ stack \in {"phase1", "phase2", "phase3", "admin"} /\ chrome \in BOOLEAN
             /\ autoReturns \in Nat
FormOK    == /\ isUpdateMode \in BOOLEAN /\ pendingMac \in Mac \cup {NoMac}
             /\ pendingOwner \in Owner \cup {NoOwner}
             /\ pendingBssid \in Bssid \cup {NoBssid}
FlagsOK   == awaitingApiCommit \in BOOLEAN /\ awaitingApBeforeDevice \in BOOLEAN
Phase1OK  == /\ serverMacs \subseteq Mac /\ rows \in RowsTable
             /\ seen \subseteq Mac /\ found \in Seq(Mac \X Bssid)
AdminOK   == /\ serverDataReady \in BOOLEAN /\ serverDevices \subseteq Mac /\ table \subseteq Mac
             /\ dialog \in {NoDialog} \cup [kind : {"delete", "edit"}, mac : Mac]
                           \cup [kind : {"removeAp"}, bssid : Bssid \cup {NoBssid}]
CountersOK == /\ used \in [Activity -> Nat] /\ commits \in Nat
              /\ confirmed \in [Mac -> SUBSET (Owner \cup {NoOwner})]
TypeOK    == /\ DiskOK /\ ServerOK /\ NetOK /\ ScreenOK /\ FormOK /\ FlagsOK
             /\ Phase1OK /\ AdminOK /\ CountersOK

\* The call c is answered in this step, and not merely served or refused.
delivered(c) == c \in net \ net' /\ \A s \in Stage : [c EXCEPT !.stage = s] \notin net'

-----------------------------------------------------------------------------
(* Promises the code keeps.                                                *)

\* One confirmation of the form leads to at most one commit, however many
\* replies, resends, retries, AP steps and target changes there are in
\* between (the awaitingApiCommit_ flag of KioskWindow).
OneCommitPerConfirm == commits + (IF awaitingApiCommit THEN 1 ELSE 0) <= used["confirm"]

\* While the flow waits for a reply, or for the AP step before it, there is a
\* MAC and owner data to commit: a commit never runs on the empty pending*
\* members, which the comment in onUpdateSuccess warns would create a wrong row.
CommitHasData ==
    /\ awaitingApiCommit \/ awaitingApBeforeDevice \/ stack = "phase2" => pendingMac \in Mac
    /\ awaitingApiCommit \/ awaitingApBeforeDevice => pendingOwner \in Owner

\* A row without owner data is one an administrator emptied: no reply to a
\* resend or to a change, no commit and no device list ever writes one.
NoBlankRow ==
    \A m \in Mac : macExists(station, m) /\ station[m].owner = NoOwner => NoOwner \in confirmed[m]

\* The registration flow never waits for an AP registration that nothing in
\* flight can answer, whichever of the AP calls in flight answers first.
ApStepHasCall ==
    awaitingApBeforeDevice =>
        \E c \in net : c.op = "registerAPs" /\ c.from = "live"

\* A reply about one MAC changes the rows of no other MAC in the database and
\* in the candidate table: a resend's reply does not take over the commit of
\* another MAC (the mac != pendingMac_ tests of the reply slots).
RepliesAreIsolated ==
    [][\A c \in net \ net' : c.op \in Op /\ used'["restart"] = used["restart"] =>
           \A m \in Mac \ {c.mac} :
               station'[m] = station[m] /\ rows'[m] = rows[m]]_vars

\* A device list changes no row the kiosk has: neither its owner data nor what
\* is pending on it, so a list that is older than an offline change does not
\* undo it and a row hidden for deletion stays hidden.
ListsOverwriteNothing ==
    [][\A c \in net \ net' :
           c.op = "lists" => \A m \in Mac : macExists(station, m) => station'[m] = station[m]]_vars

\* A row enters the database in this step, or its owner data change.
isWritten(m) ==
    /\ macExists(station', m)
    /\ macExists(station, m) => station'[m].owner # station[m].owner

\* A row enters the database, or its owner data change, only by a commit of the
\* form's data for the very MAC in the form, out of the server's list (a row that
\* enters) or by the administrator's change of that row (one that is there), never
\* by a late reply to a resend, to a deletion or to an administrator's change.
RowsHaveASource ==
    [][\A m \in Mac : isWritten(m) =>
           \/ commits' = commits + 1 /\ m = pendingMac /\ station'[m].owner = pendingOwner
           \/ /\ ~macExists(station, m)
              /\ \E c \in net \ net' : c.op = "lists" /\ c.devices[m].owner = station'[m].owner
           \/ macExists(station, m) /\ dialog = [kind |-> "edit", mac |-> m]]_vars

\* What is pending stays pending until the server answers a call about that
\* MAC or the administrator deletes a registration it never saw: a lost
\* request, a lost reply, a list or a restart settles nothing.
PendingNeedsAnswer ==
    [][\A m \in Mac : station[m].pend \in Op /\ station'[m].pend \notin Op =>
           \/ \E c \in deviceCalls(net, m) : delivered(c) /\ c.stage # "sent"
                                            /\ used'["fault"] = used["fault"]
           \/ station[m].pend = "register" /\ dialog = [kind |-> "delete", mac |-> m]]_vars

\* And an answer does settle it, so that nothing is resent for ever: only the
\* refusal of what the form asks for leaves the row as it was.
AnswersSettle ==
    [][\A c \in net : delivered(c) /\ c.op \in Op /\ used' = used =>
           \/ station'[c.mac].pend \notin Op
           \/ /\ c.op # "delete" /\ c.stage = "rejected" /\ isLive(c)
              /\ station'[c.mac] = station[c.mac]]_vars

\* A row hidden for deletion is not shown again by a detection, a list, a
\* resend, a restart, the administrator or the answer to a deletion: what can
\* bring it back is the end of a registration or a change of that MAC.
HiddenRowReturns ==
    [][\A m \in Mac : station[m].pend = "delete" /\ visible(station', m) =>
           \E c \in deviceCalls(net, m) : delivered(c) /\ c.op \in {"register", "update"}]_vars

\* A candidate leaves the screen only when its MAC is committed and has a row
\* by then, or when a change was committed: the five-minute sweep, a detection,
\* a refusal and the replies about other stations leave it where it can be
\* registered.
CandidateBecomesRow ==
    [][\A m \in Mac : rows[m] = "candidate" /\ rows'[m] # "candidate"
                     /\ used'["restart"] = used["restart"] =>
           /\ m = pendingMac /\ commits' = commits + 1
           /\ macExists(station', m) \/ isUpdateMode]_vars

\* The form registers no random MAC: a registration of one that the flow sends
\* is sent behind an AP registration, with the MAC the form is about by then
\* (the blocked register button; see RandomMacsAreNotRegistered).
RandomIsBlockedAtTheForm ==
    [][\A c \in net' \ net :
           c.op = "register" /\ c.from = "live" /\ c.stage = "sent" /\ isRandom(c.mac) =>
               awaitingApBeforeDevice /\ used'["confirm"] = used["confirm"]]_vars

\* An AP enters the kiosk's table out of the server's answer about it, with the
\* registration of a station detected behind it, or typed in by hand.  A change
\* of a registered station, or the late reply to a call nobody waits for, never
\* stores the AP of whatever was detected last.
ApsHaveASource ==
    [][\A b \in ap' \ ap :
           \/ b = pendingBssid /\ awaitingApBeforeDevice
           \/ b = pendingBssid /\ ~isUpdateMode /\ commits' = commits + 1
           \/ \E c \in net \ net' : \/ c.op = "aps" /\ b \in c.aps
                                    \/ c.op = "fetchAP" /\ b = c.bssid
           \/ \E c \in net' \ net : c.op = "registerAPs" /\ c.from = "admin" /\ c.bssid = b]_vars

\* The rows of the database follow the life cycle of the pending queue.
Lifecycle == INSTANCE RowLifecycle WITH pend <- [m \in Mac |-> station[m].pend]
RowsFollowLifecycle == Lifecycle!Spec

\* Whatever is pending is settled: with the server answering from some moment
\* on and nobody touching the kiosk, no row stays in the queue forever, and no
\* resend loops (the comments on rejected resends in onRegisterFailed).
PendingDrains == \A m \in Mac : station[m].pend \in Op ~> station[m].pend \notin Op

-----------------------------------------------------------------------------
(* Claims the code does not keep.                                          *)

\* "Resending does not touch awaitingApiCommit_, so it does not mix with the
\* Phase2 flow" (trySyncPending): no reply to a resend ends the flow's wait.
SyncStaysOutOfPhase2 ==
    [][\A c \in net \ net' : c.op \in Op /\ c.from = "sync" =>
           awaitingApiCommit' = awaitingApiCommit]_vars

\* "The server is down: save pending locally and go on, no data is lost"
\* (onRegisterFailed; likewise onUpdateFailed): when a registration or a change
\* gets no answer, its row is pending, or the server has what it says, or
\* another call about that MAC is under way.
OfflineWorkIsKept ==
    [][\A c \in net : delivered(c) /\ c.op \in {"register", "update"} /\ c.from # "sync"
                      /\ used'["fault"] = used["fault"] + 1 =>
           \/ station'[c.mac].pend \in Op
           \/ devices[c.mac].owner = c.owner
           \/ deviceCalls(net', c.mac) # {}]_vars

\* "What the user deleted stays hidden until the server has deleted it"
\* (reloadTable): a row hidden for deletion comes back only when a deletion
\* has been answered.
DeletedStaysHidden ==
    [][\A m \in Mac : station[m].pend = "delete" => ~visible(station', m)]_vars

\* "The caught device is shown, its owner's data is typed in, and it is
\* registered on the server's allow list" (README): a registration the flow
\* sends carries owner data that was confirmed for that MAC.
RegistrationsAreConfirmed ==
    [][\A c \in net' \ net :
           c.op = "register" /\ c.from = "live" /\ c.stage = "sent" =>
               c.owner \in confirmed[c.mac]]_vars

\* "A random MAC is collected and shown, but its registration on the server is
\* blocked" (addCandidate): no registration of one is ever sent.
RandomMacsAreNotRegistered ==
    \A c \in net : c.op = "register" => ~isRandom(c.mac)

\* "The captured AP (BSSID) is registered on the server as well" (README): a
\* registration the flow sends names an AP the kiosk already had, or one whose
\* own registration has just been answered.
RegistersBehindKnownAp ==
    [][\A c \in net' \ net :
           c.op = "register" /\ c.from = "live" /\ c.stage = "sent" =>
               \/ c.bssid \in ap \cup {NoBssid}
               \/ \E a \in net \ net' : a.op = "registerAPs" /\ a.bssid = c.bssid]_vars

\* "Saved as pending registration, sent again when the server is back"
\* (commitConfirmed; "a row not yet registered has to stay one, so that it goes up
\* as a registration", updateStationPending): a registration made offline is
\* pending until a registration of it was answered or the administrator deletes it.
OfflineRegistrationsAreSent ==
    [][\A m \in Mac : station[m].pend = "register" /\ station'[m].pend # "register" =>
           \/ \E c \in deviceCalls(net, m) : delivered(c) /\ c.op = "register"
           \/ dialog = [kind |-> "delete", mac |-> m]]_vars
=============================================================================
