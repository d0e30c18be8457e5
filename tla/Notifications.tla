--------------------------- MODULE Notifications ---------------------------
(***************************************************************************)
(* What the gateway pushes.  Every handler of Signaling is taken as it is, *)
(* and what its emits let the clients know is added: the status of the     *)
(* requests, sessions and transfers of the device a socket speaks for, and *)
(* the online list that was broadcast last.  socket.io delivers in order   *)
(* to a socket that is open, so an emit is part of its handler's step.     *)
(* What was there before a client registered it must ask for over HTTP:    *)
(* the service answers in one step, and an answer does not replace what    *)
(* has been pushed since it was asked for.                                 *)
(***************************************************************************)
EXTENDS Signaling

Record == Request \cup SessionId \cup Transfer

ASSUME RecordAssumption ==
  /\ Request \cap SessionId = {}
  /\ Transfer \cap (Request \cup SessionId) = {}

VARIABLES
  known,    \* history: the status of each record as the client behind a socket knows it
  listed    \* history: the devices in the server:online-list sent last

notifyVars == <<vars, known, listed>>

StatusOf(x) ==
  IF x \in Request THEN requests[x].status
  ELSE IF x \in SessionId THEN sessions[x].status
  ELSE transfers[x].status

PartiesOf(x) ==
  IF x \in Request THEN {requests[x].from, requests[x].to}
  ELSE IF x \in SessionId THEN Parties(x)
  ELSE {transfers[x].sender, transfers[x].receiver}

Nothing == [x \in Record |-> "none"]

Statuses ==
  {"none", "unread", "pending"} \cup Decided \cup LiveStatus \cup EndedStatus \cup TransferStatus

NotifyTypeOK ==
  /\ known \in [Socket -> [Record -> Statuses]]
  /\ listed \subseteq Device

NotifyInit ==
  /\ Init
  /\ known = [s \in Socket |-> Nothing]
  /\ listed = {}
-----------------------------------------------------------------------------
\* What a client knows when it has registered: that it has not read what is there.
Unread == [x \in Record |-> IF StatusOf(x) = "none" THEN "none" ELSE "unread"]

\* Mutant: only to a device that is online.
ReachesOnline(x, s) ==
  \E d \in Device :
    d \in PartiesOf(x)' /\ devices'[d].socketId = s /\ devices'[d].status = "online"

\* emitConnectionRequestUpdate, emitSessionUpdate and emitTransferUpdate: to the socket
\* each party has at that moment, whatever its status.
Reaches(x, s) == \E d \in Device : d \in PartiesOf(x)' /\ devices'[d].socketId = s

\* A client takes notice of what concerns the device it has registered.
Concerns(x, s) == deviceIdBySocketId'[s] \in PartiesOf(x)'

Learn(before, pushes) ==
  known' = [s \in Socket |->
              [x \in Record |-> IF <<s, x>> \in pushes /\ Concerns(x, s)
                                THEN StatusOf(x)' ELSE before[s][x]]]

EmitUpdates(X) == Learn(known, {p \in Socket \X X : Reaches(p[2], p[1])})

\* Mutant: the sockets are listed, not the devices.
EmitSockets == listed' = {s \in Socket : deviceIdBySocketId'[s] # None}

EmitOnlineList == listed' = {d \in Device : devices'[d].status = "online"}
-----------------------------------------------------------------------------
\* Without what follows the registration when the lookup of the replaced socket throws.
NotifyRegister(s, d) ==
  LET existing == socketIdByDeviceId[d]
      replaces == existing \notin {None, s}
  IN  /\ HandleRegister(s, d)
      /\ UNCHANGED <<requests, sessionVars, transferVars>>
      /\ known' = [x \in Socket |-> IF x = s /\ deviceIdBySocketId[s] # d THEN Unread
                                    ELSE IF x = existing /\ x # s THEN Nothing
                                    ELSE known[x]]
      /\ \/ /\ replaces => connection'[existing] = "closed"
            /\ EmitOnlineList
         \/ /\ replaces /\ connection' = connection
            /\ UNCHANGED listed

\* Mutant: the sessions fail without a word to the other party.
DisconnectSilently(s) ==
  /\ HandleDisconnect(s)
  /\ known' = [known EXCEPT ![s] = Nothing]
  /\ IF IsRegistered(s) THEN EmitOnlineList ELSE UNCHANGED listed

NotifyDisconnect(s) ==
  LET d      == deviceIdBySocketId[s]
      failed == {i \in SessionId : IsLive(i) /\ d \in Parties(i)}
  IN  /\ HandleDisconnect(s)
      /\ IF IsRegistered(s)
         THEN /\ Learn([x \in Socket |-> IF x = s THEN Nothing ELSE known[x]],
                       {p \in Socket \X failed : Reaches(p[2], p[1])})
              /\ EmitOnlineList
         ELSE UNCHANGED <<known, listed>>

\* The request goes to its target, the update to the socket that asked.
NotifyCreate(s, to) ==
  LET sockets == {devices[to].socketId, s}
      created == {r \in Request : requests'[r] # requests[r]}
  IN  /\ HandleCreateConnectionRequest(s, to)
      /\ Learn(known, sockets \X created)
      /\ UNCHANGED listed

\* The session is the one the pair has now, new or not.
NotifyRespond(s, r, answer) ==
  /\ HandleRespondConnectionRequest(s, r, answer)
  /\ EmitUpdates(IF answer = "accepted"
                 THEN {r, activeSessionIdByPairKey'[PairKey(requests[r].from, requests[r].to)]}
                 ELSE {r})
  /\ UNCHANGED listed

NotifyCancel(s, r) ==
  HandleCancelConnectionRequest(s, r) /\ EmitUpdates({r}) /\ UNCHANGED listed

NotifyCloseSession(s, i) ==
  HandleCloseSession(s, i) /\ EmitUpdates({i}) /\ UNCHANGED listed

NotifyAnswer(s, target) ==
  /\ HandleAnswer(s, target)
  /\ EmitUpdates({FindSessionByDevices(deviceIdBySocketId[s], target)})
  /\ UNCHANGED listed

NotifyTransferStart(s, t, i, receiver) ==
  HandleTransferStart(s, t, i, receiver) /\ EmitUpdates({t}) /\ UNCHANGED listed

NotifyTransferEvent(s, t) ==
  HandleTransferEvent(s, t) /\ EmitUpdates({t}) /\ UNCHANGED listed

\* Mutant: devices that fall silent are not announced.
HeartbeatTimerSilent == HeartbeatTimer /\ UNCHANGED <<known, listed>>

\* The list is sent only when the timer has found a silent device.
NotifyHeartbeatTimer ==
  /\ HeartbeatTimer
  /\ IF \E d \in Device : IsExpired(d) THEN EmitOnlineList ELSE UNCHANGED listed
  /\ UNCHANGED known

NotifyRequestTimer ==
  /\ RequestTimer
  /\ EmitUpdates({r \in Request : IsPending(r) /\ requests[r].age >= RequestTimeout})
  /\ UNCHANGED listed

\* A heartbeat and the HTTP calls on a transfer record push nothing.
SilentEvent ==
  \/ \E s \in Socket : /\ HandleConnection(s) \/ HandleHeartbeat(s)
                       /\ UNCHANGED <<requests, sessionVars, transferVars>>
  \/ \E t \in Transfer : TransferHttpCall(t)
  \/ Tick

\* GET /transfers: what the filters let through, by default neither hidden nor
\* deleted records.
QueryTransferRecords(d, includeHidden, includeDeleted) ==
  {t \in Transfer : /\ transfers[t].hidden => includeHidden
                    /\ transfers[t].deleted => includeDeleted
                    /\ d \in PartiesOf(t)}

\* The answer says how each record of X stands.
Read(s, X) ==
  known' = [known EXCEPT ![s] = [x \in Record |-> IF x \in X THEN StatusOf(x) ELSE @[x]]]

\* GET /signaling/connection-requests and GET /signaling/sessions answer all there are,
\* of which a client wants those of its device; GET /transfers answers a page, which may
\* be any part of what was found.  A client may ask for either, or never.
NotifyRead(s) ==
  LET d == deviceIdBySocketId[s]
  IN  /\ d # None
      /\ \/ Read(s, {r \in Request : d \in PartiesOf(r)})
         \/ Read(s, {i \in SessionId : d \in PartiesOf(i)})
         \/ \E includeHidden, includeDeleted \in BOOLEAN :
              \E page \in SUBSET QueryTransferRecords(d, includeHidden, includeDeleted) :
                Read(s, page)
      /\ UNCHANGED <<vars, listed>>

NotifyNext ==
  \/ \E s \in Socket, d \in Device :
       NotifyRegister(s, d) \/ NotifyCreate(s, d) \/ NotifyAnswer(s, d)
  \/ \E s \in Socket : NotifyDisconnect(s) \/ NotifyRead(s)
  \/ \E s \in Socket, r \in Request :
       \/ \E answer \in {"accepted", "rejected"} : NotifyRespond(s, r, answer)
       \/ NotifyCancel(s, r)
  \/ \E s \in Socket, i \in SessionId : NotifyCloseSession(s, i)
  \/ \E s \in Socket, t \in Transfer :
       \/ \E i \in SessionId, d \in Device : NotifyTransferStart(s, t, i, d)
       \/ NotifyTransferEvent(s, t)
  \/ NotifyHeartbeatTimer
  \/ NotifyRequestTimer
  \/ SilentEvent /\ UNCHANGED <<known, listed>>

NotifySpec == NotifyInit /\ [][NotifyNext]_notifyVars
-----------------------------------------------------------------------------
\* Nobody is left behind: of every request, session and transfer of its device, a
\* client that has registered and then listens knows the present status, or it has not
\* read a record that was there before.  What it has once read or been told
\* never goes stale, and whatever begins later it is told of, although its device
\* may fall silent, or its peer be replaced or leave without its doing
\* anything (emitConnectionRequestUpdate, emitSessionUpdate, emitTransferUpdate;
\* doc/p2p-webrtc.md:502-510).
PartiesAreUpToDate ==
  \A s \in Socket, d \in Device, x \in Record :
    deviceIdBySocketId[s] = d /\ d \in PartiesOf(x) =>
      known[s][x] \in {StatusOf(x), "unread"}

\* No device on the list that was broadcast last has since gone or fallen silent.  The
\* converse does not hold: a heartbeat brings a stale device back without a word.
ListedAreOnline == \A d \in listed : devices[d].status = "online"
=============================================================================
