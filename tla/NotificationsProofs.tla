------------------------ MODULE NotificationsProofs ------------------------
(***************************************************************************)
(* What the gateway pushes is enough: nobody is left behind, and no device *)
(* on the online list has gone.  Every step of Notifications is a step of  *)
(* Signaling, so that what is proved there holds here.  The core is        *)
(* LearnKeeps: by RegistryCoherent the socket that speaks for a device is  *)
(* the one its pushes go to, so it is enough that each handler pushes what *)
(* it changes.                                                             *)
(***************************************************************************)
EXTENDS Notifications, SignalingProofs

LEMMA NotifySimulated == [NotifyNext]_notifyVars => [Next]_vars
<1> SUFFICES ASSUME [NotifyNext]_notifyVars PROVE [Next]_vars
  OBVIOUS
<1>1. ASSUME NEW s \in Socket, NEW d \in Device,
             NotifyRegister(s, d) \/ NotifyCreate(s, d) \/ NotifyAnswer(s, d)
      PROVE  Next
  BY <1>1 DEF NotifyRegister, NotifyCreate, NotifyAnswer, Next, PresenceEvent
<1>2. ASSUME NEW s \in Socket, NotifyDisconnect(s) PROVE Next
  BY <1>2 DEF NotifyDisconnect, Next
<1>a. ASSUME NEW s \in Socket, NotifyRead(s) PROVE UNCHANGED vars
  BY <1>a DEF NotifyRead
<1>3. ASSUME NEW s \in Socket, NEW r \in Request, NEW answer \in {"accepted", "rejected"},
             NotifyRespond(s, r, answer)
      PROVE  Next
  BY <1>3 DEF NotifyRespond, Next
<1>4. ASSUME NEW s \in Socket, NEW r \in Request, NotifyCancel(s, r) PROVE Next
  BY <1>4 DEF NotifyCancel, Next
<1>5. ASSUME NEW s \in Socket, NEW i \in SessionId, NotifyCloseSession(s, i) PROVE Next
  BY <1>5 DEF NotifyCloseSession, Next
<1>6. ASSUME NEW s \in Socket, NEW t \in Transfer, NEW i \in SessionId, NEW d \in Device,
             NotifyTransferStart(s, t, i, d)
      PROVE  Next
  BY <1>6 DEF NotifyTransferStart, Next
<1>7. ASSUME NEW s \in Socket, NEW t \in Transfer, NotifyTransferEvent(s, t) PROVE Next
  BY <1>7 DEF NotifyTransferEvent, Next
<1>8. ASSUME NotifyHeartbeatTimer \/ NotifyRequestTimer \/ SilentEvent PROVE Next
  BY <1>8 DEF NotifyHeartbeatTimer, NotifyRequestTimer, SilentEvent, Next, PresenceEvent
<1>9. CASE UNCHANGED notifyVars
  BY <1>9 DEF notifyVars
<1> QED BY <1>1, <1>2, <1>a, <1>3, <1>4, <1>5, <1>6, <1>7, <1>8, <1>9 DEF NotifyNext

\* Whatever is proved of Signaling holds with the pushes.
THEOREM NotifyImplementsSignaling == NotifySpec => Spec
<1>1. NotifyInit => Init
  BY DEF NotifyInit
<1> QED BY <1>1, NotifySimulated, PTL DEF NotifySpec, Spec
-----------------------------------------------------------------------------
\* A record that is not rewritten keeps its status and its parties.
LEMMA Untouched ==
  ASSUME NEW x \in Record,
         x \in Request => requests'[x] = requests[x],
         x \in SessionId => sessions'[x] = sessions[x],
         x \in Transfer => transfers'[x] = transfers[x]
  PROVE  StatusOf(x)' = StatusOf(x) /\ PartiesOf(x)' = PartiesOf(x)
BY DEF Record, StatusOf, PartiesOf, Parties

\* The socket that speaks for a party of a record is reached by what is pushed of it.
LEMMA SpeakerIsReached ==
  ASSUME TypeOK', RegistryCoherent', NEW s \in Socket, NEW x \in Record,
         deviceIdBySocketId'[s] \in Device, Concerns(x, s)
  PROVE  Reaches(x, s)
<1> DEFINE d == deviceIdBySocketId'[s]
<1>1. d # None /\ socketIdByDeviceId'[d] = s
  BY DeviceAssumption DEF RegistryCoherent
<1>2. devices'[d].socketId = socketIdByDeviceId'[d]
  BY DEF RegistryCoherent
<1> QED BY <1>1, <1>2 DEF Reaches, Concerns

\* A handler that pushes what it changes to those it concerns leaves nobody behind.
LEMMA LearnKeeps ==
  ASSUME PartiesAreUpToDate, NEW pushes, Learn(known, pushes), UNCHANGED deviceIdBySocketId,
         \A x \in Record :
           \/ StatusOf(x)' = StatusOf(x) /\ PartiesOf(x)' = PartiesOf(x)
           \/ \A s \in Socket : deviceIdBySocketId[s] \in Device /\ Concerns(x, s)
                                  => <<s, x>> \in pushes
  PROVE  PartiesAreUpToDate'
<1> SUFFICES ASSUME NEW s \in Socket, NEW d \in Device, NEW x \in Record,
                    deviceIdBySocketId'[s] = d, d \in PartiesOf(x)'
             PROVE  known'[s][x] \in {StatusOf(x)', "unread"}
  BY DEF PartiesAreUpToDate, Record
<1>1. known'[s][x] = IF <<s, x>> \in pushes /\ Concerns(x, s)
                     THEN StatusOf(x)' ELSE known[s][x]
  BY DEF Learn
<1>2. CASE <<s, x>> \in pushes
  BY <1>1, <1>2 DEF Concerns
<1>3. CASE StatusOf(x)' = StatusOf(x) /\ PartiesOf(x)' = PartiesOf(x)
  BY <1>1, <1>3 DEF PartiesAreUpToDate
<1> QED BY <1>2, <1>3 DEF Concerns

\* The same for an update, which goes to whoever speaks for a party.
LEMMA UpdatesKeep ==
  ASSUME TypeOK', RegistryCoherent', PartiesAreUpToDate, NEW X, EmitUpdates(X),
         UNCHANGED deviceIdBySocketId,
         \A x \in Record \ X : StatusOf(x)' = StatusOf(x) /\ PartiesOf(x)' = PartiesOf(x)
  PROVE  PartiesAreUpToDate'
<1> DEFINE pushes == {p \in Socket \X X : Reaches(p[2], p[1])}
<1>1. ASSUME NEW x \in Record, x \in X, NEW s \in Socket,
             deviceIdBySocketId[s] \in Device, Concerns(x, s)
      PROVE  <<s, x>> \in pushes
  BY <1>1, SpeakerIsReached
<1>2. Learn(known, pushes)
  BY DEF EmitUpdates
<1> HIDE DEF pushes
<1> QED BY <1>1, <1>2, LearnKeeps

\* A handler that changes no record and no speaker.
LEMMA QuietKeeps ==
  ASSUME PartiesAreUpToDate, UNCHANGED <<known, deviceIdBySocketId>>,
         \A x \in Record : StatusOf(x)' = StatusOf(x) /\ PartiesOf(x)' = PartiesOf(x)
  PROVE  PartiesAreUpToDate'
BY DEF PartiesAreUpToDate, Record
-----------------------------------------------------------------------------
\* What there is has a status.
LEMMA PartyOfSomething ==
  ASSUME TypeOK, NEW x \in Record, NEW d \in Device, d \in PartiesOf(x)
  PROVE  StatusOf(x) # "none"
<1> USE DeviceAssumption DEF TypeOK
<1>1. CASE x \in Request
  <2>1. d \in {requests[x].from, requests[x].to}
    BY <1>1 DEF PartiesOf
  <2>2. requests[x] # NoRequest
    BY <2>1 DEF NoRequest
  <2> QED BY <1>1, <2>2 DEF StatusOf, RequestsTypeOK, RequestRecord, Decided
<1>2. CASE x \notin Request /\ x \in SessionId
  <2>1. d \in {sessions[x].deviceA, sessions[x].deviceB}
    BY <1>2 DEF PartiesOf, Parties
  <2>2. sessions[x] # NoSession
    BY <2>1 DEF NoSession
  <2> QED BY <1>2, <2>2 DEF StatusOf, SessionsTypeOK, SessionRecord, LiveStatus, EndedStatus
<1>3. CASE x \notin Request /\ x \notin SessionId
  <2>1. x \in Transfer /\ d \in {transfers[x].sender, transfers[x].receiver}
    BY <1>3 DEF PartiesOf, Record
  <2>2. transfers[x] # NoTransfer
    BY <2>1 DEF NoTransfer
  <2> QED BY <1>3, <2>1, <2>2 DEF StatusOf, TransfersTypeOK, TransferRecord, TransferStatus
<1> QED BY <1>1, <1>2, <1>3

\* Registration: the new client has read nothing of what there is, the replaced one is
\* concerned by nothing any more.
LEMMA RegisterKeeps ==
  ASSUME TypeOK, PartiesAreUpToDate, NEW s \in Socket, NEW d \in Device, NotifyRegister(s, d)
  PROVE  PartiesAreUpToDate'
<1>1. /\ UNCHANGED <<requests, sessions, transfers>>
      /\ known' = [x \in Socket |-> IF x = s /\ deviceIdBySocketId[s] # d THEN Unread
                                    ELSE IF x = socketIdByDeviceId[d] /\ x # s THEN Nothing
                                    ELSE known[x]]
      /\ deviceIdBySocketId' =
           [x \in Socket |-> IF x = s THEN d
                             ELSE IF x = socketIdByDeviceId[d] THEN None
                             ELSE deviceIdBySocketId[x]]
  BY DEF NotifyRegister, HandleRegister, RegisterDevice, sessionVars, transferVars
<1>2. ASSUME NEW x \in Record
      PROVE  StatusOf(x)' = StatusOf(x) /\ PartiesOf(x)' = PartiesOf(x)
  BY <1>1, Untouched
<1> SUFFICES ASSUME NEW q \in Socket, NEW e \in Device, NEW x \in Record,
                    deviceIdBySocketId'[q] = e, e \in PartiesOf(x)'
             PROVE  known'[q][x] \in {StatusOf(x)', "unread"}
  BY DEF PartiesAreUpToDate, Record
<1>3. CASE q = s /\ deviceIdBySocketId[s] # d
  <2>1. StatusOf(x) # "none"
    BY <1>2, PartyOfSomething
  <2>2. known'[q] = Unread
    BY <1>1, <1>3
  <2> QED BY <2>1, <2>2 DEF Unread
<1>4. CASE q # s /\ q = socketIdByDeviceId[d]
  BY <1>1, <1>4, DeviceAssumption
<1>5. CASE (q = s /\ deviceIdBySocketId[s] = d) \/ (q # s /\ q # socketIdByDeviceId[d])
  <2>1. known'[q] = known[q] /\ deviceIdBySocketId[q] = e
    BY <1>1, <1>5
  <2> QED BY <1>2, <2>1 DEF PartiesAreUpToDate
<1> QED BY <1>3, <1>4, <1>5

\* A client that reads over HTTP finds how the records stand.
LEMMA ReadKeeps ==
  ASSUME PartiesAreUpToDate, NEW s \in Socket, NotifyRead(s)
  PROVE  PartiesAreUpToDate'
<1>1. PICK X : Read(s, X)
  BY DEF NotifyRead
<1>2. UNCHANGED <<requests, sessions, transfers, deviceIdBySocketId>>
  BY DEF NotifyRead, vars, presenceVars, sessionVars, transferVars
<1>3. ASSUME NEW x \in Record
      PROVE  StatusOf(x)' = StatusOf(x) /\ PartiesOf(x)' = PartiesOf(x)
  BY <1>2, Untouched
<1> SUFFICES ASSUME NEW q \in Socket, NEW e \in Device, NEW x \in Record,
                    deviceIdBySocketId[q] = e, e \in PartiesOf(x)
             PROVE  known'[q][x] \in {StatusOf(x), "unread"}
  BY <1>2, <1>3 DEF PartiesAreUpToDate, Record
<1>4. known'[q][x] = known[q][x] \/ known'[q][x] = StatusOf(x)
  BY <1>1 DEF Read
<1> QED BY <1>4 DEF PartiesAreUpToDate

\* Disconnection: the sessions that fail are pushed to the other parties.
LEMMA DisconnectKeeps ==
  ASSUME TypeOK, TypeOK', RegistryCoherent, RegistryCoherent', PartiesAreUpToDate,
         NEW s \in Socket, NotifyDisconnect(s)
  PROVE  PartiesAreUpToDate'
<1> DEFINE d      == deviceIdBySocketId[s]
           failed == {i \in SessionId : IsLive(i) /\ d \in Parties(i)}
           pushes == {p \in Socket \X failed : Reaches(p[2], p[1])}
<1>1. /\ HandleDisconnect(s) /\ UNCHANGED <<requests, transfers>>
      /\ connection[s] = "open"
      /\ deviceIdBySocketId' = [deviceIdBySocketId EXCEPT ![s] = None]
  BY DEF NotifyDisconnect, HandleDisconnect, SocketGone, UnregisterSocket, transferVars
<1>2. CASE IsRegistered(s)
  <2>1. /\ sessions' = [i \in SessionId |-> IF i \in failed
                                            THEN [sessions[i] EXCEPT !.status = "failed"]
                                            ELSE sessions[i]]
        /\ known' = [q \in Socket |->
                       [x \in Record |-> IF <<q, x>> \in pushes /\ Concerns(x, q)
                                         THEN StatusOf(x)'
                                         ELSE (IF q = s THEN Nothing ELSE known[q])[x]]]
    BY <1>1, <1>2 DEF NotifyDisconnect, HandleDisconnect, FailSessionsForDevice, Learn
  <2>2. ASSUME NEW x \in Record, x \notin failed
        PROVE  StatusOf(x)' = StatusOf(x) /\ PartiesOf(x)' = PartiesOf(x)
    BY <1>1, <2>1, <2>2, Untouched DEF TypeOK, SessionsTypeOK
  <2> SUFFICES ASSUME NEW q \in Socket, NEW e \in Device, NEW x \in Record,
                      deviceIdBySocketId'[q] = e, e \in PartiesOf(x)'
               PROVE  known'[q][x] \in {StatusOf(x)', "unread"}
    BY DEF PartiesAreUpToDate, Record
  <2>3. q # s /\ deviceIdBySocketId[q] = e
    BY <1>1, DeviceAssumption DEF TypeOK, PresenceTypeOK
  <2>4. CASE x \in failed
    <3>1. <<q, x>> \in pushes /\ Concerns(x, q)
      BY <2>4, SpeakerIsReached DEF Concerns
    <3> QED BY <2>1, <3>1
  <2>5. CASE x \notin failed
    <3>1. <<q, x>> \notin pushes
      BY <2>5
    <3> HIDE DEF pushes, failed
    <3>2. known'[q][x] = known[q][x]
      BY <2>1, <2>3, <3>1
    <3> QED BY <2>2, <2>3, <2>5, <3>2 DEF PartiesAreUpToDate
  <2> QED BY <2>4, <2>5
<1>3. CASE ~ IsRegistered(s)
  <2>1. d = None
    BY <1>1, <1>3, PresenceAssumption DEF IsRegistered, RegistryCoherent, TypeOK, PresenceTypeOK
  <2>2. UNCHANGED <<known, sessions>>
    BY <1>1, <1>3 DEF NotifyDisconnect, HandleDisconnect, sessionVars
  <2>3. UNCHANGED deviceIdBySocketId
    BY <1>1, <2>1 DEF TypeOK, PresenceTypeOK
  <2> QED BY <1>1, <2>2, <2>3, Untouched, QuietKeeps
<1> QED BY <1>2, <1>3

\* A new request is pushed to the socket that asked, which speaks for the one party,
\* and to the socket of the other.
LEMMA CreateKeeps ==
  ASSUME TypeOK, RegistryCoherent, PartiesAreUpToDate, NEW s \in Socket, NEW to \in Device,
         NotifyCreate(s, to)
  PROVE  PartiesAreUpToDate'
<1> DEFINE created == {r \in Request : requests'[r] # requests[r]}
           sockets == {devices[to].socketId, s}
           from    == deviceIdBySocketId[s]
<1>1. /\ UNCHANGED <<sessions, transfers, deviceIdBySocketId>>
      /\ Learn(known, sockets \X created)
      /\ from \in Device
      /\ \E r \in Request : CreateConnectionRequest(r, from, to)
  BY SpeakerIsDevice
     DEF NotifyCreate, HandleCreateConnectionRequest, sessionVars, transferVars, presenceVars
<1>2. ASSUME NEW x \in Record, x \notin created
      PROVE  StatusOf(x)' = StatusOf(x) /\ PartiesOf(x)' = PartiesOf(x)
  BY <1>1, <1>2, Untouched
<1>3. ASSUME NEW x \in created, NEW q \in Socket, deviceIdBySocketId[q] \in Device, Concerns(x, q)
      PROVE  <<q, x>> \in sockets \X created
  <2>1. PartiesOf(x)' = {from, to}
    BY <1>1 DEF CreateConnectionRequest, PartiesOf, TypeOK, RequestsTypeOK
  <2>2. deviceIdBySocketId[q] \in {from, to}
    BY <1>1, <1>3, <2>1 DEF Concerns
  <2>3. CASE deviceIdBySocketId[q] = from
    <3>1. socketIdByDeviceId[from] = q /\ socketIdByDeviceId[from] = s
      BY <1>1, <2>3, DeviceAssumption DEF RegistryCoherent
    <3> QED BY <3>1
  <2>4. CASE deviceIdBySocketId[q] = to
    <3>1. socketIdByDeviceId[to] = q /\ devices[to].socketId = socketIdByDeviceId[to]
      BY <2>4, DeviceAssumption DEF RegistryCoherent
    <3> QED BY <3>1
  <2> QED BY <2>2, <2>3, <2>4
<1> DEFINE pushes == sockets \X created
<1>4. Learn(known, pushes)
  BY <1>1
<1>5. \A x \in Record :
        \/ StatusOf(x)' = StatusOf(x) /\ PartiesOf(x)' = PartiesOf(x)
        \/ \A q \in Socket : deviceIdBySocketId[q] \in Device /\ Concerns(x, q)
                               => <<q, x>> \in pushes
  BY <1>2, <1>3
<1> HIDE DEF pushes
<1> QED BY <1>1, <1>4, <1>5, LearnKeeps

\* Answers to requests: the request is pushed, and after an accept the session of the
\* pair, which is the only one that may be new.
LEMMA RespondKeeps ==
  ASSUME TypeOK, TypeOK', RegistryCoherent', PartiesAreUpToDate, NEW s \in Socket,
         NEW r \in Request, NEW answer \in {"accepted", "rejected"}, NotifyRespond(s, r, answer)
  PROVE  PartiesAreUpToDate'
<1> DEFINE a == requests[r].from
           b == requests[r].to
           X == IF answer = "accepted" THEN {r, activeSessionIdByPairKey'[PairKey(a, b)]}
                                       ELSE {r}
<1>1. /\ EmitUpdates(X) /\ UNCHANGED <<transfers, deviceIdBySocketId>>
      /\ requests' = [requests EXCEPT ![r].status = answer]
      /\ IF answer = "accepted" THEN GetOrCreateSession(a, b, b) ELSE UNCHANGED sessionVars
      /\ a \in Device /\ b \in Device
  BY RequestFacts
     DEF NotifyRespond, HandleRespondConnectionRequest, RespondConnectionRequest, IsPending,
         presenceVars, transferVars, TypeOK
<1>2. ASSUME NEW i \in SessionId, sessions'[i] # sessions[i] PROVE i \in X
  <2>1. answer = "accepted" /\ \E j \in SessionId : CreateSession(j, a, b, b)
    BY <1>1, <1>2 DEF GetOrCreateSession, sessionVars
  <2>2. PICK j \in SessionId : CreateSession(j, a, b, b)
    BY <2>1
  <2>3. i = j
    BY <1>2, <2>2 DEF CreateSession, TypeOK, SessionsTypeOK
  <2>4. activeSessionIdByPairKey'[PairKey(a, b)] = j
    BY <1>1, <2>2, PairNormalised DEF CreateSession, TypeOK, SessionsTypeOK
  <2> QED BY <2>1, <2>3, <2>4
<1>3. ASSUME NEW x \in Record \ X
      PROVE  StatusOf(x)' = StatusOf(x) /\ PartiesOf(x)' = PartiesOf(x)
  <2>1. x # r
    OBVIOUS
  <2> QED BY <1>1, <1>2, <1>3, <2>1, Untouched DEF TypeOK, RequestsTypeOK
<1> HIDE DEF X
<1> QED BY <1>1, <1>3, UpdatesKeep

\* The other handlers push the one record they change.
LEMMA OneRecordKeeps ==
  ASSUME TypeOK, TypeOK', RegistryCoherent', PartiesAreUpToDate, NEW s \in Socket
  PROVE  /\ \A r \in Request : NotifyCancel(s, r) => PartiesAreUpToDate'
         /\ \A i \in SessionId : NotifyCloseSession(s, i) => PartiesAreUpToDate'
         /\ \A d \in Device : NotifyAnswer(s, d) => PartiesAreUpToDate'
         /\ \A t \in Transfer, i \in SessionId, d \in Device :
              NotifyTransferStart(s, t, i, d) => PartiesAreUpToDate'
         /\ \A t \in Transfer : NotifyTransferEvent(s, t) => PartiesAreUpToDate'
<1> USE DEF presenceVars, sessionVars, transferVars
<1>1. ASSUME NEW r \in Request, NotifyCancel(s, r) PROVE PartiesAreUpToDate'
  <2>1. /\ EmitUpdates({r}) /\ UNCHANGED <<sessions, transfers, deviceIdBySocketId>>
        /\ \A q \in Request \ {r} : requests'[q] = requests[q]
    BY <1>1 DEF NotifyCancel, HandleCancelConnectionRequest, CancelConnectionRequest,
                TypeOK, RequestsTypeOK
  <2> QED BY <2>1, Untouched, UpdatesKeep
<1>2. ASSUME NEW i \in SessionId, NotifyCloseSession(s, i) PROVE PartiesAreUpToDate'
  <2>1. /\ EmitUpdates({i}) /\ UNCHANGED <<requests, transfers, deviceIdBySocketId>>
        /\ \A j \in SessionId \ {i} : sessions'[j] = sessions[j]
    BY <1>2 DEF NotifyCloseSession, HandleCloseSession, CloseSession, TypeOK, SessionsTypeOK
  <2> QED BY <2>1, Untouched, UpdatesKeep
<1>3. ASSUME NEW d \in Device, NotifyAnswer(s, d) PROVE PartiesAreUpToDate'
  <2> DEFINE i == FindSessionByDevices(deviceIdBySocketId[s], d)
  <2>1. EmitUpdates({i}) /\ MarkSessionActive(i)
        /\ UNCHANGED <<requests, transfers, deviceIdBySocketId>>
    BY <1>3 DEF NotifyAnswer, HandleAnswer
  <2>2. \A j \in SessionId \ {i} : sessions'[j] = sessions[j]
    BY <2>1 DEF MarkSessionActive, TypeOK, SessionsTypeOK
  <2> HIDE DEF i
  <2> QED BY <2>1, <2>2, Untouched, UpdatesKeep
<1>4. ASSUME NEW t \in Transfer, NEW i \in SessionId, NEW d \in Device,
             NotifyTransferStart(s, t, i, d)
      PROVE  PartiesAreUpToDate'
  <2>1. /\ EmitUpdates({t}) /\ UNCHANGED <<requests, sessions, deviceIdBySocketId>>
        /\ \A u \in Transfer \ {t} : transfers'[u] = transfers[u]
    BY <1>4 DEF NotifyTransferStart, HandleTransferStart, CreateTransferRecord,
                TypeOK, TransfersTypeOK
  <2> QED BY <2>1, Untouched, UpdatesKeep
<1>5. ASSUME NEW t \in Transfer, NotifyTransferEvent(s, t) PROVE PartiesAreUpToDate'
  <2>1. /\ EmitUpdates({t}) /\ UNCHANGED <<requests, sessions, deviceIdBySocketId>>
        /\ TransferEvent(deviceIdBySocketId[s], t)
    BY <1>5 DEF NotifyTransferEvent, HandleTransferEvent
  <2>2. \A u \in Transfer \ {t} : transfers'[u] = transfers[u]
    BY <2>1 DEF TransferEvent, ReportProgress, CompleteTransfer, StopTransfer,
                MarkTransferStatus, TypeOK, TransfersTypeOK
  <2> QED BY <2>1, <2>2, Untouched, UpdatesKeep
<1> QED BY <1>1, <1>2, <1>3, <1>4, <1>5

\* The timers, the clock, and what pushes nothing: neither a party nor a status that is
\* not pushed changes.
LEMMA TimersKeep ==
  ASSUME TypeOK, TypeOK', RegistryCoherent, RegistryCoherent', PartiesAreUpToDate
  PROVE  /\ NotifyRequestTimer => PartiesAreUpToDate'
         /\ NotifyHeartbeatTimer => PartiesAreUpToDate'
         /\ SilentEvent /\ UNCHANGED known => PartiesAreUpToDate'
<1> USE DEF presenceVars, sessionVars, transferVars
<1>1. ASSUME NotifyRequestTimer PROVE PartiesAreUpToDate'
  <2> DEFINE X == {r \in Request : IsPending(r) /\ requests[r].age >= RequestTimeout}
  <2>1. /\ EmitUpdates(X) /\ UNCHANGED <<sessions, transfers, deviceIdBySocketId>>
        /\ \A r \in Request \ X : requests'[r] = requests[r]
    BY <1>1 DEF NotifyRequestTimer, RequestTimer, ExpireConnectionRequests
  <2>2. \A x \in Record \ X : StatusOf(x)' = StatusOf(x) /\ PartiesOf(x)' = PartiesOf(x)
    BY <2>1, Untouched
  <2> HIDE DEF X
  <2> QED BY <2>1, <2>2, UpdatesKeep
<1>2. ASSUME NotifyHeartbeatTimer PROVE PartiesAreUpToDate'
  <2>1. UNCHANGED <<known, requests, sessions, transfers, deviceIdBySocketId>>
    BY <1>2 DEF NotifyHeartbeatTimer, HeartbeatTimer, HandleHeartbeatTimeouts
  <2> QED BY <2>1, Untouched, QuietKeeps
<1>3. ASSUME NEW s \in Socket, HandleConnection(s) \/ HandleHeartbeat(s),
             UNCHANGED <<requests, sessionVars, transferVars, known>>
      PROVE  PartiesAreUpToDate'
  <2>1. UNCHANGED deviceIdBySocketId
    BY <1>3 DEF HandleConnection, HandleHeartbeat, TypeOK, PresenceTypeOK
  <2> QED BY <1>3, <2>1, Untouched, QuietKeeps
<1>4. ASSUME NEW t \in Transfer, TransferHttpCall(t), UNCHANGED known
      PROVE  PartiesAreUpToDate'
  <2>1. UNCHANGED <<requests, sessions, deviceIdBySocketId>>
    BY <1>4 DEF TransferHttpCall
  <2>2. /\ transfers'[t].status = transfers[t].status
        /\ transfers'[t].sender = transfers[t].sender
        /\ transfers'[t].receiver = transfers[t].receiver
        /\ \A u \in Transfer \ {t} : transfers'[u] = transfers[u]
    BY <1>4 DEF TransferHttpCall, UpdateTransferRecordVisibility, DeleteTransferRecord,
                Exists, TypeOK, TransfersTypeOK, TransferRecord, NoTransfer
  <2>3. StatusOf(t)' = StatusOf(t) /\ PartiesOf(t)' = PartiesOf(t)
    BY <2>2, RecordAssumption DEF StatusOf, PartiesOf
  <2>4. \A x \in Record : StatusOf(x)' = StatusOf(x) /\ PartiesOf(x)' = PartiesOf(x)
    BY <2>1, <2>2, <2>3, Untouched
  <2> QED BY <1>4, <2>1, <2>4, QuietKeeps
<1>5. ASSUME Tick, UNCHANGED known PROVE PartiesAreUpToDate'
  <2>1. UNCHANGED <<sessions, transfers, deviceIdBySocketId>>
    BY <1>5 DEF Tick, AgeDevices
  <2>2. ASSUME NEW r \in Request
        PROVE  /\ requests'[r].status = requests[r].status
               /\ requests'[r].from = requests[r].from
               /\ requests'[r].to = requests[r].to
    BY <1>5 DEF Tick, AgeRequests, TypeOK, RequestsTypeOK, RequestRecord, NoRequest
  <2>3. \A r \in Request : StatusOf(r)' = StatusOf(r) /\ PartiesOf(r)' = PartiesOf(r)
    BY <2>2 DEF StatusOf, PartiesOf
  <2>4. \A x \in Record : StatusOf(x)' = StatusOf(x) /\ PartiesOf(x)' = PartiesOf(x)
    BY <2>1, <2>3, Untouched DEF Record
  <2> QED BY <1>5, <2>1, <2>4, QuietKeeps
<1> QED BY <1>1, <1>2, <1>3, <1>4, <1>5 DEF SilentEvent
-----------------------------------------------------------------------------
\* Nobody is left behind: of every request, session and transfer of its device, a
\* client that has registered and then listens knows the present status, or it is a
\* record from before that it has not read, for all sets of devices and sockets
\* (the three emit operations, every handler, and the filters of GET /transfers).
THEOREM NobodyIsBehind == NotifySpec => []PartiesAreUpToDate
<1>1. NotifyInit => PartiesAreUpToDate
  BY DeviceAssumption DEF NotifyInit, Init, PresenceInit, PartiesAreUpToDate
<1>2. /\ TypeOK /\ TypeOK' /\ RegistryCoherent /\ RegistryCoherent' /\ PartiesAreUpToDate
      /\ [NotifyNext]_notifyVars
      => PartiesAreUpToDate'
  <2> SUFFICES ASSUME TypeOK, TypeOK', RegistryCoherent, RegistryCoherent',
                      PartiesAreUpToDate, [NotifyNext]_notifyVars
               PROVE  PartiesAreUpToDate'
    OBVIOUS
  <2>1. CASE UNCHANGED notifyVars
    <3>1. UNCHANGED <<known, requests, sessions, transfers, deviceIdBySocketId>>
      BY <2>1 DEF notifyVars, vars, presenceVars, sessionVars, transferVars
    <3> QED BY <3>1, Untouched, QuietKeeps
  <2> QED BY <2>1, RegisterKeeps, ReadKeeps, DisconnectKeeps, CreateKeeps, RespondKeeps,
             OneRecordKeeps, TimersKeep DEF NotifyNext
<1> QED BY <1>1, <1>2, NotifyImplementsSignaling, TypeCorrect, Inherited, PTL DEF NotifySpec
-----------------------------------------------------------------------------
LEMMA StatusType ==
  ASSUME NEW x \in Record
  PROVE  /\ TypeOK => StatusOf(x) \in Statuses
         /\ TypeOK' => StatusOf(x)' \in Statuses
BY DEF TypeOK, Record, StatusOf, Statuses, RequestsTypeOK, RequestRecord, NoRequest,
       SessionsTypeOK, SessionRecord, NoSession, TransfersTypeOK, TransferRecord, NoTransfer

LEMMA LearnType ==
  ASSUME TypeOK', NEW before, before \in [Socket -> [Record -> Statuses]], NEW pushes,
         Learn(before, pushes)
  PROVE  known' \in [Socket -> [Record -> Statuses]]
<1>1. \A x \in Record : StatusOf(x)' \in Statuses
  BY StatusType
<1> QED BY <1>1 DEF Learn

\* Types of the history variables.
THEOREM NotifyTypeCorrect == NotifySpec => []NotifyTypeOK
<1> USE DEF NotifyTypeOK
<1>1. NotifyInit => NotifyTypeOK
  BY DEF NotifyInit, Nothing, Statuses
<1>2. TypeOK /\ TypeOK' /\ NotifyTypeOK /\ [NotifyNext]_notifyVars => NotifyTypeOK'
  <2> SUFFICES ASSUME TypeOK, TypeOK', NotifyTypeOK, [NotifyNext]_notifyVars
               PROVE  NotifyTypeOK'
    OBVIOUS
  <2>1. EmitOnlineList => listed' \subseteq Device
    BY DEF EmitOnlineList
  <2>2. ASSUME NEW X, EmitUpdates(X) PROVE known' \in [Socket -> [Record -> Statuses]]
    BY <2>2, LearnType DEF EmitUpdates
  <2>3. Nothing \in [Record -> Statuses]
    BY DEF Nothing, Statuses
  <2>4. ASSUME NEW s \in Socket, NEW d \in Device, NotifyRegister(s, d) PROVE NotifyTypeOK'
    <3>1. Unread \in [Record -> Statuses]
      BY DEF Unread, Statuses
    <3> QED BY <2>1, <2>3, <2>4, <3>1 DEF NotifyRegister
  <2>5. ASSUME NEW s \in Socket, NEW d \in Device, NotifyCreate(s, d) PROVE NotifyTypeOK'
    BY <2>5, LearnType DEF NotifyCreate
  <2>6. ASSUME NEW s \in Socket, NotifyDisconnect(s) PROVE NotifyTypeOK'
    <3> DEFINE before == [q \in Socket |-> IF q = s THEN Nothing ELSE known[q]]
    <3>1. before \in [Socket -> [Record -> Statuses]]
      BY <2>3
    <3>2. CASE IsRegistered(s)
      <4>1. EmitOnlineList /\ \E pushes : Learn(before, pushes)
        BY <2>6, <3>2 DEF NotifyDisconnect
      <4> HIDE DEF before
      <4> QED BY <2>1, <3>1, <4>1, LearnType
    <3>3. CASE ~ IsRegistered(s)
      BY <2>6, <3>3 DEF NotifyDisconnect
    <3> QED BY <3>2, <3>3
  <2>7. ASSUME NotifyHeartbeatTimer PROVE NotifyTypeOK'
    BY <2>1, <2>7 DEF NotifyHeartbeatTimer
  <2>8. CASE UNCHANGED notifyVars
    BY <2>8 DEF notifyVars
  <2>9. ASSUME NEW s \in Socket, NotifyRead(s) PROVE NotifyTypeOK'
    <3>1. PICK X : Read(s, X)
      BY <2>9 DEF NotifyRead
    <3>2. known' \in [Socket -> [Record -> Statuses]]
      BY <3>1, StatusType DEF Read
    <3> QED BY <2>9, <3>2 DEF NotifyRead
  <2> QED BY <2>2, <2>4, <2>5, <2>6, <2>7, <2>8, <2>9
         DEF NotifyNext, NotifyRespond, NotifyCancel, NotifyCloseSession, NotifyAnswer,
             NotifyTransferStart, NotifyTransferEvent, NotifyRequestTimer
<1> QED BY <1>1, <1>2, NotifyImplementsSignaling, TypeCorrect, PTL DEF NotifySpec

\* Without a broadcast no device stops being online: a disconnect of a socket that speaks
\* for nobody touches no device, and the timer broadcasts when it finds a silent one.
LEMMA OnlineStays ==
  ASSUME TypeOK, RegistryCoherent, [NotifyNext]_notifyVars, ~ EmitOnlineList,
         NEW d \in Device, devices[d].status = "online"
  PROVE  devices'[d].status = "online"
<1> USE DEF TypeOK, PresenceTypeOK
<1>1. devices[d] \in DeviceRecord
  OBVIOUS
<1>2. ASSUME NEW s \in Socket, NEW e \in Device, NotifyRegister(s, e)
      PROVE  devices'[d].status = "online"
  BY <1>2 DEF NotifyRegister, HandleRegister, RegisterDevice
<1>3. ASSUME NEW s \in Socket, NotifyDisconnect(s) PROVE devices'[d].status = "online"
  <2>1. ~ IsRegistered(s) /\ connection[s] = "open" /\ UnregisterSocket(s)
    BY <1>3 DEF NotifyDisconnect, HandleDisconnect, SocketGone
  <2>2. deviceIdBySocketId[s] = None
    BY <2>1, PresenceAssumption DEF IsRegistered, RegistryCoherent
  <2> QED BY <2>1, <2>2 DEF UnregisterSocket
<1>4. ASSUME NotifyHeartbeatTimer PROVE devices'[d].status = "online"
  <2>1. ~ IsExpired(d)
    BY <1>4 DEF NotifyHeartbeatTimer
  <2> QED BY <1>4, <2>1
         DEF NotifyHeartbeatTimer, HeartbeatTimer, HandleHeartbeatTimeouts, PruneExpiredDevices
<1>5. ASSUME NEW s \in Socket, HandleHeartbeat(s) PROVE devices'[d].status = "online"
  BY <1>5 DEF HandleHeartbeat
<1>6. ASSUME Tick PROVE devices'[d].status = "online"
  BY <1>1, <1>6 DEF Tick, AgeDevices, DeviceRecord
<1>7. CASE UNCHANGED devices
  BY <1>7
<1> QED BY <1>2, <1>3, <1>4, <1>5, <1>6, <1>7
       DEF NotifyNext, SilentEvent, NotifyRespond, NotifyCancel, NotifyCloseSession,
           NotifyAnswer, NotifyCreate, NotifyTransferStart, NotifyTransferEvent,
           NotifyRequestTimer, HandleRespondConnectionRequest, HandleCancelConnectionRequest,
           HandleCloseSession, HandleAnswer, HandleCreateConnectionRequest,
           HandleTransferStart, HandleTransferEvent, RequestTimer, HandleConnection,
           TransferHttpCall, NotifyRead, presenceVars, notifyVars, vars

\* No device on the online list that was broadcast last has since gone or fallen silent
\* (handleDisconnect, handleHeartbeatTimeouts and handleRegister broadcast in time).
THEOREM ListIsCurrent == NotifySpec => []ListedAreOnline
<1>1. NotifyInit => ListedAreOnline
  BY DEF NotifyInit, ListedAreOnline
<1>2. /\ TypeOK /\ RegistryCoherent /\ NotifyTypeOK /\ ListedAreOnline
      /\ [NotifyNext]_notifyVars
      => ListedAreOnline'
  <2> SUFFICES ASSUME TypeOK, RegistryCoherent, NotifyTypeOK, ListedAreOnline,
                      [NotifyNext]_notifyVars
               PROVE  ListedAreOnline'
    OBVIOUS
  <2>1. CASE EmitOnlineList
    BY <2>1 DEF EmitOnlineList, ListedAreOnline
  <2>2. CASE ~ EmitOnlineList
    <3>1. UNCHANGED listed
      BY <2>2 DEF NotifyNext, NotifyRegister, NotifyDisconnect, NotifyRespond, NotifyCancel,
                  NotifyCloseSession, NotifyAnswer, NotifyCreate, NotifyTransferStart,
                  NotifyTransferEvent, NotifyRequestTimer, NotifyHeartbeatTimer, NotifyRead,
                  notifyVars
    <3> QED BY <2>2, <3>1, OnlineStays DEF ListedAreOnline, NotifyTypeOK
  <2> QED BY <2>1, <2>2
<1> QED BY <1>1, <1>2, NotifyImplementsSignaling, TypeCorrect, Inherited, NotifyTypeCorrect,
           PTL DEF NotifySpec
=============================================================================
