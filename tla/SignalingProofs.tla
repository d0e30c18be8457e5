-------------------------- MODULE SignalingProofs --------------------------
(***************************************************************************)
(* The composed system.  First, every step of Signaling is a step of each  *)
(* component or leaves it alone, so that Signaling implements the four     *)
(* component specifications and inherits what is proved of them.  Then the *)
(* invariants that tie components together, each inductive relative to     *)
(* the inherited ones.  Last, the refinement of PairLinks.                 *)
(***************************************************************************)
EXTENDS Signaling, PresenceProofs, RequestsProofs, SessionsProofs, TransfersProofs,
        SequenceTheorems

\* The device a registered socket speaks for is a device.
LEMMA SpeakerIsDevice ==
  ASSUME TypeOK, NEW s \in Socket, IsRegistered(s)
  PROVE  deviceIdBySocketId[s] \in Device
BY DEF TypeOK, PresenceTypeOK, IsRegistered

\* Every step is a step of Presence or leaves it alone.
LEMMA PresenceSimulated == [Next]_vars => [PresenceNext]_presenceVars
<1> SUFFICES ASSUME [Next]_vars PROVE [PresenceNext]_presenceVars
  OBVIOUS
<1>1. CASE \E s \in Socket : PresenceEvent(s)
  BY <1>1 DEF PresenceEvent, PresenceNext
<1>2. CASE \E s \in Socket : HandleDisconnect(s)
  BY <1>2 DEF HandleDisconnect, PresenceNext
<1>3. CASE HeartbeatTimer
  BY <1>3 DEF HeartbeatTimer, PresenceNext
<1>4. CASE Tick
  BY <1>4 DEF Tick, PresenceNext
<1>5. CASE UNCHANGED presenceVars
  BY <1>5
<1>6. CASE UNCHANGED vars
  BY <1>6 DEF vars
<1> QED BY <1>1, <1>2, <1>3, <1>4, <1>5, <1>6
       DEF Next, HandleCreateConnectionRequest, HandleRespondConnectionRequest,
           HandleCancelConnectionRequest, HandleCloseSession, HandleAnswer,
           HandleTransferStart, HandleTransferEvent, TransferHttpCall, RequestTimer

\* Every step is a step of ConnectionRequests or leaves it alone.
LEMMA RequestsSimulated == TypeOK /\ [Next]_vars => [RequestsNext]_requests
<1> SUFFICES ASSUME TypeOK, [Next]_vars PROVE [RequestsNext]_requests
  OBVIOUS
<1>1. ASSUME NEW s \in Socket, NEW to \in Device, HandleCreateConnectionRequest(s, to)
      PROVE  RequestsNext
  BY <1>1, SpeakerIsDevice DEF HandleCreateConnectionRequest, RequestsNext
<1>2. ASSUME NEW s \in Socket, NEW r \in Request, NEW answer \in {"accepted", "rejected"},
             HandleRespondConnectionRequest(s, r, answer)
      PROVE  RequestsNext
  BY <1>2 DEF HandleRespondConnectionRequest, RequestsNext
<1>3. ASSUME NEW s \in Socket, NEW r \in Request, HandleCancelConnectionRequest(s, r)
      PROVE  RequestsNext
  BY <1>3 DEF HandleCancelConnectionRequest, RequestsNext
<1>4. CASE RequestTimer
  BY <1>4 DEF RequestTimer, RequestsNext
<1>5. CASE Tick
  BY <1>5 DEF Tick, RequestsNext
<1>6. CASE UNCHANGED vars
  BY <1>6 DEF vars
<1> QED BY <1>1, <1>2, <1>3, <1>4, <1>5, <1>6
       DEF Next, PresenceEvent, HandleDisconnect, HandleCloseSession, HandleAnswer,
           HandleTransferStart, HandleTransferEvent, TransferHttpCall, HeartbeatTimer

\* Every step is a step of Sessions or leaves it alone.
LEMMA SessionsSimulated == TypeOK /\ [Next]_vars => [SessionsNext]_sessionVars
<1> SUFFICES ASSUME TypeOK, [Next]_vars PROVE [SessionsNext]_sessionVars
  OBVIOUS
<1>1. ASSUME NEW s \in Socket, HandleDisconnect(s) PROVE [SessionsNext]_sessionVars
  BY <1>1, SpeakerIsDevice DEF HandleDisconnect, SessionsNext
<1>2. ASSUME NEW s \in Socket, NEW r \in Request, NEW answer \in {"accepted", "rejected"},
             HandleRespondConnectionRequest(s, r, answer)
      PROVE  [SessionsNext]_sessionVars
  <2>1. requests[r].from \in Device /\ requests[r].to \in Device
    BY <1>2, RequestFacts
       DEF HandleRespondConnectionRequest, RespondConnectionRequest, IsPending, TypeOK
  <2> QED BY <1>2, <2>1 DEF HandleRespondConnectionRequest, SessionsNext
<1>3. ASSUME NEW s \in Socket, NEW i \in SessionId, HandleCloseSession(s, i)
      PROVE  SessionsNext
  BY <1>3 DEF HandleCloseSession, SessionsNext
<1>4. ASSUME NEW s \in Socket, NEW target \in Device, HandleAnswer(s, target)
      PROVE  SessionsNext
  <2> DEFINE found == FindSessionByDevices(deviceIdBySocketId[s], target)
  <2>1. found # None /\ MarkSessionActive(found) /\ deviceIdBySocketId[s] \in Device
    BY <1>4, SpeakerIsDevice DEF HandleAnswer
  <2>2. found \in SessionId
    BY <2>1, PairNormalised DEF FindSessionByDevices, TypeOK, SessionsTypeOK
  <2> QED BY <2>1, <2>2 DEF SessionsNext
<1>5. CASE UNCHANGED vars
  BY <1>5 DEF vars
<1> QED BY <1>1, <1>2, <1>3, <1>4, <1>5
       DEF Next, PresenceEvent, HandleCreateConnectionRequest,
           HandleCancelConnectionRequest, HandleTransferStart, HandleTransferEvent,
           TransferHttpCall, HeartbeatTimer, RequestTimer, Tick

\* Every step is a step of Transfers or leaves it alone.
LEMMA TransfersSimulated == TypeOK /\ [Next]_vars => [TransfersNext]_transferVars
<1> SUFFICES ASSUME TypeOK, [Next]_vars PROVE [TransfersNext]_transferVars
  OBVIOUS
<1>1. ASSUME NEW s \in Socket, NEW t \in Transfer, NEW i \in SessionId,
             NEW receiver \in Device, HandleTransferStart(s, t, i, receiver)
      PROVE  TransfersNext
  BY <1>1, SpeakerIsDevice DEF HandleTransferStart, TransfersNext
<1>2. ASSUME NEW s \in Socket, NEW t \in Transfer, HandleTransferEvent(s, t)
      PROVE  TransfersNext
  BY <1>2, SpeakerIsDevice DEF HandleTransferEvent, TransfersNext
<1>3. ASSUME NEW t \in Transfer, TransferHttpCall(t) PROVE TransfersNext
  BY <1>3 DEF TransferHttpCall, TransfersNext
<1>4. CASE UNCHANGED vars
  BY <1>4 DEF vars
<1> QED BY <1>1, <1>2, <1>3, <1>4
       DEF Next, PresenceEvent, HandleDisconnect, HandleCreateConnectionRequest,
           HandleRespondConnectionRequest, HandleCancelConnectionRequest,
           HandleCloseSession, HandleAnswer, HeartbeatTimer, RequestTimer, Tick
-----------------------------------------------------------------------------
\* Types of the composed system (every handler and timer).
THEOREM TypeCorrect == Spec => []TypeOK
<1>1. Init => TypeOK
  BY PresenceAssumption
     DEF Init, TypeOK, PresenceInit, PresenceTypeOK, DeviceRecord, RequestsInit,
         RequestsTypeOK, SessionsInit, SessionsTypeOK, TransfersInit, TransfersTypeOK
<1>2. TypeOK /\ [Next]_vars => TypeOK'
  BY PresenceSimulated, RequestsSimulated, SessionsSimulated, TransfersSimulated,
     PresenceTypeStep, RequestsTypeStep, SessionsTypeStep, TransfersTypeStep DEF TypeOK
<1> QED BY <1>1, <1>2, PTL DEF Spec

\* The gateway uses each part of the service only as the part's own specification
\* says: what is proved of a component holds in the composed system.
THEOREM ImplementsComponents ==
  Spec => PresenceSpec /\ RequestsSpec /\ SessionsSpec /\ TransfersSpec
<1>1. Init => PresenceInit /\ RequestsInit /\ SessionsInit /\ TransfersInit
  BY DEF Init
<1> QED BY <1>1, TypeCorrect, PresenceSimulated, RequestsSimulated, SessionsSimulated,
           TransfersSimulated, PTL
        DEF Spec, PresenceSpec, RequestsSpec, SessionsSpec, TransfersSpec

\* What the composed system inherits from its components.
THEOREM Inherited ==
  Spec => /\ [](RegistryCoherent /\ StaleMeansSilent)
          /\ [](IndexExact /\ OneLiveSessionPerPair)
          /\ [](HandshakeOrder /\ OutcomeFieldsAgree)
          /\ DecidedOnce /\ EndedStaysEnded /\ OutcomeIsFinal
BY ImplementsComponents, RegistryIsCoherent, StaleIsSilent, IndexIsExact, OneLiveSession,
   HandshakeInOrder, OutcomeFieldsCorrect, RequestsDecidedOnce, EndedSessionsStayEnded,
   OutcomesAreFinal, PTL
-----------------------------------------------------------------------------
\* Without separators in the ids a key determines the two devices, which is what
\* getDevicePairKey relies on.
LEMMA PlainKeysDistinct ==
  ASSUME PlainIds,
         NEW a \in Device, NEW b \in Device, NEW c \in Device, NEW d \in Device,
         PairKey(a, b) = PairKey(c, d)
  PROVE  {a, b} = {c, d}
<1>1. ASSUME NEW x \in Device, NEW y \in Device
      PROVE  /\ (x \o y)[1] = x[1] /\ (x \o y)[2] = y[1]
             /\ x[1] = y[1] => x = y
  <2>1. /\ x \in Seq(Segment) /\ Len(x) = 1
        /\ y \in Seq(Segment) /\ Len(y) = 1
    BY DeviceAssumption DEF PlainIds
  <2>2. \A i \in 1 .. 2 : (x \o y)[i] = IF i <= 1 THEN x[i] ELSE y[i - 1]
    BY <2>1, ConcatProperties
  <2>3. ASSUME x[1] = y[1] PROVE x = y
    <3>1. \A i \in 1 .. Len(x) : x[i] = y[i]
      BY <2>1, <2>3
    <3>2. Len(x) = Len(y) /\ x \in Seq(Segment) /\ y \in Seq(Segment)
      BY <2>1
    <3> QED BY <3>1, <3>2, SeqEqual
  <2>4. (x \o y)[1] = x[1] /\ (x \o y)[2] = y[1]
    <3> DEFINE z == x \o y
    <3>1. \A i \in 1 .. 2 : z[i] = IF i <= 1 THEN x[i] ELSE y[i - 1]
      BY <2>2
    <3> HIDE DEF z
    <3>2. z[1] = x[1] /\ z[2] = y[1]
      BY <3>1
    <3> QED BY <3>2 DEF z
  <2> QED BY <2>3, <2>4
<1>2. FirstOf(a, b) = FirstOf(c, d) /\ SecondOf(a, b) = SecondOf(c, d)
  <2>1. /\ FirstOf(a, b) \in Device /\ SecondOf(a, b) \in Device
        /\ FirstOf(c, d) \in Device /\ SecondOf(c, d) \in Device
    BY PairNormalised
  <2>2. /\ FirstOf(a, b)[1] = FirstOf(c, d)[1]
        /\ SecondOf(a, b)[1] = SecondOf(c, d)[1]
    BY <1>1, <2>1 DEF PairKey
  <2> QED BY <1>1, <2>1, <2>2
<1> QED BY <1>2, PairNormalised

\* Then the session an answer finds is the session of the two devices.
LEMMA FoundIsOfPair ==
  ASSUME PlainIds, TypeOK, IndexExact, NEW a \in Device, NEW b \in Device,
         FindSessionByDevices(a, b) # None
  PROVE  LET found == FindSessionByDevices(a, b)
         IN  found \in SessionId /\ IsLive(found) /\ Parties(found) = {a, b}
<1> DEFINE found == FindSessionByDevices(a, b)
<1>1. found \in SessionId
  BY PairNormalised DEF FindSessionByDevices, TypeOK, SessionsTypeOK
<1>2. IsLive(found) /\ KeyOf(found) = PairKey(a, b)
  BY <1>1, PairNormalised DEF FindSessionByDevices, IndexExact
<1>3. sessions[found].deviceA \in Device /\ sessions[found].deviceB \in Device
  BY <1>1, <1>2, SessionFacts, LiveHasEntry DEF TypeOK
<1>4. Parties(found) = {a, b}
  <2> DEFINE A == sessions[found].deviceA
             B == sessions[found].deviceB
  <2>1. A \in Device /\ B \in Device /\ PairKey(A, B) = PairKey(a, b)
    BY <1>2, <1>3 DEF KeyOf
  <2>2. Parties(found) = {A, B}
    BY DEF Parties
  <2> HIDE DEF A, B, found
  <2> QED BY <2>1, <2>2, PlainKeysDistinct
<1> QED BY <1>1, <1>2, <1>4
-----------------------------------------------------------------------------
\* What a step may do to the sessions, as the invariants below need it: an
\* accept creates one, an answer activates one, a closing or leaving party ends
\* some; parties are never changed and connected is never taken back.
LEMMA SessionStep ==
  ASSUME TypeOK, [Next]_vars, NEW i \in SessionId, sessions'[i] # sessions[i]
  PROVE  \/ \E s \in Socket, r \in Request :
              /\ HandleRespondConnectionRequest(s, r, "accepted")
              /\ CreateSession(i, requests[r].from, requests[r].to, requests[r].to)
         \/ \E s \in Socket, d \in Device :
              /\ HandleAnswer(s, d)
              /\ i = FindSessionByDevices(deviceIdBySocketId[s], d)
              /\ sessions[i].status = "connecting"
              /\ sessions'[i] = [sessions[i] EXCEPT !.status = "active", !.connected = TRUE]
         \/ \E s \in Socket :
              /\ HandleCloseSession(s, i)
              /\ sessions'[i] = [sessions[i] EXCEPT !.status = "closed"]
         \/ \E s \in Socket :
              /\ HandleDisconnect(s) /\ IsRegistered(s)
              /\ IsLive(i) /\ deviceIdBySocketId[s] \in Parties(i)
              /\ sessions'[i] = [sessions[i] EXCEPT !.status = "failed"]
<1> USE DEF TypeOK, SessionsTypeOK
<1>1. ASSUME NEW s \in Socket, NEW r \in Request, NEW answer \in {"accepted", "rejected"},
             HandleRespondConnectionRequest(s, r, answer)
      PROVE  /\ HandleRespondConnectionRequest(s, r, "accepted")
             /\ CreateSession(i, requests[r].from, requests[r].to, requests[r].to)
  <2>1. answer = "accepted"
    BY <1>1 DEF HandleRespondConnectionRequest, sessionVars
  <2>2. PICK j \in SessionId :
          CreateSession(j, requests[r].from, requests[r].to, requests[r].to)
    BY <1>1, <2>1 DEF HandleRespondConnectionRequest, GetOrCreateSession, sessionVars
  <2>3. j = i
    BY <2>2 DEF CreateSession
  <2> QED BY <1>1, <2>1, <2>2, <2>3
<1>2. ASSUME NEW s \in Socket, NEW d \in Device, HandleAnswer(s, d)
      PROVE  /\ i = FindSessionByDevices(deviceIdBySocketId[s], d)
             /\ sessions[i].status = "connecting"
             /\ sessions'[i] = [sessions[i] EXCEPT !.status = "active", !.connected = TRUE]
  BY <1>2 DEF HandleAnswer, MarkSessionActive
<1>3. ASSUME NEW s \in Socket, NEW j \in SessionId, HandleCloseSession(s, j)
      PROVE  HandleCloseSession(s, i) /\ sessions'[i] = [sessions[i] EXCEPT !.status = "closed"]
  BY <1>3 DEF HandleCloseSession, CloseSession
<1>4. ASSUME NEW s \in Socket, HandleDisconnect(s)
      PROVE  /\ IsRegistered(s)
             /\ IsLive(i) /\ deviceIdBySocketId[s] \in Parties(i)
             /\ sessions'[i] = [sessions[i] EXCEPT !.status = "failed"]
  BY <1>4 DEF HandleDisconnect, FailSessionsForDevice, sessionVars
<1>5. CASE UNCHANGED vars
  BY <1>5 DEF vars, sessionVars
<1> QED BY <1>1, <1>2, <1>3, <1>4, <1>5
       DEF Next, PresenceEvent, HandleCreateConnectionRequest,
           HandleCancelConnectionRequest, HandleTransferStart, HandleTransferEvent,
           TransferHttpCall, HeartbeatTimer, RequestTimer, Tick, sessionVars

\* So a session that exists keeps its parties and its creator.
LEMMA SessionKeepsParties ==
  ASSUME TypeOK, [Next]_vars, NEW i \in SessionId, sessions[i].status # "none"
  PROVE  /\ sessions'[i].status # "none"
         /\ Parties(i)' = Parties(i)
         /\ sessions'[i].createdBy = sessions[i].createdBy
         /\ sessions[i].connected => sessions'[i].connected
<1>1. sessions[i] \in SessionRecord
  BY SessionFacts DEF TypeOK
<1>2. CASE sessions'[i] = sessions[i]
  BY <1>2 DEF Parties
<1>3. CASE \E status \in {"closed", "failed"} :
             sessions'[i] = [sessions[i] EXCEPT !.status = status]
  BY <1>1, <1>3 DEF SessionRecord, Parties
<1>4. CASE sessions'[i] = [sessions[i] EXCEPT !.status = "active", !.connected = TRUE]
  BY <1>1, <1>4 DEF SessionRecord, Parties
<1> QED BY <1>2, <1>3, <1>4, SessionStep DEF CreateSession
-----------------------------------------------------------------------------
\* An accepted request is never rewritten.
LEMMA AcceptedStays ==
  ASSUME TypeOK, [Next]_vars, NEW r \in Request, requests[r].status = "accepted"
  PROVE  requests'[r] = requests[r]
BY RequestsSimulated
   DEF RequestsNext, CreateConnectionRequest, RespondConnectionRequest, TypeOK,
       CancelConnectionRequest, ExpireConnectionRequests, AgeRequests, IsPending,
       RequestsTypeOK

\* Every session was consented to: its two parties are those of an accepted
\* request, and the device that accepted is its creator
\* (handleRespondConnectionRequest, getOrCreateSession).
THEOREM ConsentFirst == Spec => []ConsentBeforeSession
<1>1. Init => ConsentBeforeSession
  BY DEF Init, SessionsInit, NoSession, ConsentBeforeSession
<1>2. TypeOK /\ TypeOK' /\ ConsentBeforeSession /\ [Next]_vars => ConsentBeforeSession'
  <2> SUFFICES ASSUME TypeOK, TypeOK', ConsentBeforeSession, [Next]_vars,
                      NEW i \in SessionId, sessions'[i].status # "none"
               PROVE  \E r \in Request :
                        /\ requests'[r].status = "accepted"
                        /\ Parties(i)' = {requests'[r].from, requests'[r].to}
                        /\ sessions'[i].createdBy = requests'[r].to
    BY DEF ConsentBeforeSession
  <2>1. CASE sessions[i].status # "none"
    <3>1. PICK r \in Request :
            /\ requests[r].status = "accepted"
            /\ Parties(i) = {requests[r].from, requests[r].to}
            /\ sessions[i].createdBy = requests[r].to
      BY <2>1 DEF ConsentBeforeSession
    <3>2. requests'[r] = requests[r]
      BY <3>1, AcceptedStays
    <3> QED BY <2>1, <3>1, <3>2, SessionKeepsParties
  <2>2. CASE sessions[i].status = "none"
    <3>1. PICK s \in Socket, r \in Request :
            /\ HandleRespondConnectionRequest(s, r, "accepted")
            /\ CreateSession(i, requests[r].from, requests[r].to, requests[r].to)
      BY <2>2, SessionStep DEF HandleCloseSession, CloseSession, IsLive, LiveStatus
    <3>2. /\ requests[r] \in RequestRecord
          /\ requests[r].from \in Device /\ requests[r].to \in Device
      BY <3>1, RequestFacts
         DEF HandleRespondConnectionRequest, RespondConnectionRequest, IsPending, TypeOK
    <3>3. requests'[r] = [requests[r] EXCEPT !.status = "accepted"]
      BY <3>1 DEF HandleRespondConnectionRequest, RespondConnectionRequest, TypeOK,
                  RequestsTypeOK
    <3>4. /\ requests'[r].status = "accepted"
          /\ requests'[r].from = requests[r].from
          /\ requests'[r].to = requests[r].to
      BY <3>2, <3>3 DEF RequestRecord
    <3>5. /\ sessions'[i].deviceA = FirstOf(requests[r].from, requests[r].to)
          /\ sessions'[i].deviceB = SecondOf(requests[r].from, requests[r].to)
          /\ sessions'[i].createdBy = requests[r].to
      BY <3>1 DEF CreateSession, TypeOK, SessionsTypeOK
    <3>6. Parties(i)' = {requests[r].from, requests[r].to}
      BY <3>2, <3>5, PairNormalised DEF Parties
    <3> QED BY <3>4, <3>5, <3>6
  <2> QED BY <2>1, <2>2
<1> QED BY <1>1, <1>2, TypeCorrect, PTL DEF Spec
-----------------------------------------------------------------------------
\* An answer is what makes a session active, and it notes the time.
ActiveWasConnected ==
  \A i \in SessionId : sessions[i].status = "active" => sessions[i].connected

\* A session becomes active only together with its connection time.
LEMMA ActiveConnectedStep ==
  TypeOK /\ ActiveWasConnected /\ [Next]_vars => ActiveWasConnected'
<1> SUFFICES ASSUME TypeOK, ActiveWasConnected, [Next]_vars,
                    NEW i \in SessionId, sessions'[i].status = "active"
             PROVE  sessions'[i].connected
  BY DEF ActiveWasConnected
<1>1. CASE sessions'[i] = sessions[i]
  BY <1>1 DEF ActiveWasConnected
<1>2. CASE sessions'[i] # sessions[i]
  <2>1. sessions[i].status # "none" => sessions[i] \in SessionRecord
    BY SessionFacts DEF TypeOK
  <2>2. CASE sessions'[i] = [sessions[i] EXCEPT !.status = "active", !.connected = TRUE]
             /\ sessions[i].status = "connecting"
    BY <2>1, <2>2 DEF SessionRecord
  <2>3. CASE \E status \in {"closed", "failed"} :
               /\ sessions'[i] = [sessions[i] EXCEPT !.status = status]
               /\ sessions[i].status # "none"
    BY <2>1, <2>3 DEF SessionRecord
  <2>4. CASE \E x, y, z : CreateSession(i, x, y, z)
    BY <2>4 DEF CreateSession, TypeOK, SessionsTypeOK
  <2> QED BY <1>2, <2>2, <2>3, <2>4, SessionStep
          DEF HandleCloseSession, CloseSession, IsLive, LiveStatus
<1> QED BY <1>1, <1>2

\* A step leaves the session and the parties of a transfer alone, or it starts the
\* transfer inside an active session.
LEMMA TransferKeepsParties ==
  ASSUME TypeOK, [Next]_vars, NEW t \in Transfer, Exists(t)'
  PROVE  \/ /\ Exists(t)
            /\ transfers'[t].session = transfers[t].session
            /\ transfers'[t].sender = transfers[t].sender
            /\ transfers'[t].receiver = transfers[t].receiver
         \/ \E s \in Socket, i \in SessionId, receiver \in Device :
              /\ ~ Exists(t)
              /\ HandleTransferStart(s, t, i, receiver)
              /\ CreateTransferRecord(t, i, deviceIdBySocketId[s], receiver)
<1> USE DEF TypeOK
<1>1. CASE transfers'[t] = transfers[t]
  BY <1>1 DEF Exists
<1>2. ASSUME NEW s \in Socket, NEW u \in Transfer, NEW i \in SessionId,
             NEW receiver \in Device, HandleTransferStart(s, u, i, receiver),
             transfers'[t] # transfers[t]
      PROVE  /\ u = t /\ ~ Exists(t)
             /\ CreateTransferRecord(t, i, deviceIdBySocketId[s], receiver)
  BY <1>2 DEF HandleTransferStart, CreateTransferRecord, TransfersTypeOK
<1>3. ASSUME NEW s \in Socket, NEW u \in Transfer, HandleTransferEvent(s, u),
             transfers'[t] # transfers[t]
      PROVE  /\ Exists(t)
             /\ transfers'[t].session = transfers[t].session
             /\ transfers'[t].sender = transfers[t].sender
             /\ transfers'[t].receiver = transfers[t].receiver
  <2>1. PICK d \in Device : TransferEvent(d, u)
    BY <1>3, SpeakerIsDevice DEF HandleTransferEvent
  <2>2. PICK next \in TransferStatus, started \in BOOLEAN, completed \in BOOLEAN,
             error \in BOOLEAN :
          MarkTransferStatus(d, u, next, started, completed, error)
    BY <2>1, EventFacts
  <2>3. t = u
    BY <1>3, <2>2, MarkFacts
  <2>4. Exists(u)
    BY <2>2 DEF MarkTransferStatus
  <2> QED BY <2>2, <2>3, <2>4, MarkFacts
<1>4. ASSUME NEW u \in Transfer, TransferHttpCall(u), transfers'[t] # transfers[t]
      PROVE  /\ Exists(t)
             /\ transfers'[t].session = transfers[t].session
             /\ transfers'[t].sender = transfers[t].sender
             /\ transfers'[t].receiver = transfers[t].receiver
  <2>1. t = u /\ Exists(t)
    BY <1>4 DEF TransferHttpCall, UpdateTransferRecordVisibility, DeleteTransferRecord,
                TransfersTypeOK
  <2> QED BY <1>4, <2>1, OtherStepFacts DEF TransferHttpCall
<1> QED BY <1>1, <1>2, <1>3, <1>4
       DEF Next, vars, transferVars, PresenceEvent, HandleDisconnect,
           HandleCreateConnectionRequest, HandleRespondConnectionRequest,
           HandleCancelConnectionRequest, HandleCloseSession, HandleAnswer,
           HeartbeatTimer, RequestTimer, Tick

\* A transfer belongs to a session that was active, and it is between that
\* session's two parties, also after the session ended (handleTransferStart).
THEOREM TransfersInsideSessions == Spec => []TransferInsideSession
<1>1. Init => ActiveWasConnected /\ TransferInsideSession
  BY DEF Init, SessionsInit, NoSession, ActiveWasConnected, TransfersInit, NoTransfer,
         TransferInsideSession, Exists
<1>2. TypeOK /\ ActiveWasConnected /\ TransferInsideSession /\ [Next]_vars
        => TransferInsideSession'
  <2> SUFFICES ASSUME TypeOK, ActiveWasConnected, TransferInsideSession, [Next]_vars,
                      NEW t \in Transfer, Exists(t)'
               PROVE  LET i == transfers'[t].session
                      IN  /\ sessions'[i].connected
                          /\ {sessions'[i].deviceA, sessions'[i].deviceB} =
                               {transfers'[t].sender, transfers'[t].receiver}
                          /\ transfers'[t].sender # transfers'[t].receiver
    BY DEF TransferInsideSession, Parties
  <2> DEFINE i == transfers'[t].session
  <2>1. ASSUME NEW j \in SessionId, sessions[j].connected
        PROVE  /\ {sessions'[j].deviceA, sessions'[j].deviceB} = Parties(j)
               /\ sessions'[j].connected
    <3>1. sessions[j].status # "none"
      BY <2>1 DEF TypeOK, SessionsTypeOK, SessionRecord, LiveStatus, EndedStatus, NoSession
    <3> QED BY <2>1, <3>1, SessionKeepsParties DEF Parties
  <2>2. CASE /\ Exists(t)
             /\ i = transfers[t].session
             /\ transfers'[t].sender = transfers[t].sender
             /\ transfers'[t].receiver = transfers[t].receiver
    <3>1. transfers[t] \in TransferRecord
      BY <2>2 DEF Exists, TypeOK, TransfersTypeOK, NoTransfer
    <3>2. i \in SessionId
      BY <2>2, <3>1 DEF TransferRecord
    <3>3. /\ sessions[i].connected
          /\ Parties(i) = {transfers[t].sender, transfers[t].receiver}
          /\ transfers[t].sender # transfers[t].receiver
      BY <2>2 DEF TransferInsideSession
    <3> QED BY <2>1, <2>2, <3>2, <3>3
  <2>3. ASSUME NEW s \in Socket, NEW j \in SessionId, NEW receiver \in Device,
               HandleTransferStart(s, t, j, receiver),
               CreateTransferRecord(t, j, deviceIdBySocketId[s], receiver)
        PROVE  /\ sessions'[i].connected
               /\ {sessions'[i].deviceA, sessions'[i].deviceB} =
                    {transfers'[t].sender, transfers'[t].receiver}
               /\ transfers'[t].sender # transfers'[t].receiver
    <3> DEFINE sender == deviceIdBySocketId[s]
    <3>1. /\ i = j
          /\ transfers'[t].sender = sender
          /\ transfers'[t].receiver = receiver
      BY <2>3 DEF CreateTransferRecord, TypeOK, TransfersTypeOK, NoTransfer
    <3>2. /\ sessions[j].connected
          /\ sender \in Parties(j) /\ receiver \in Parties(j) /\ receiver # sender
      BY <2>3 DEF HandleTransferStart, ActiveWasConnected
    <3>3. Parties(j) = {sender, receiver}
      BY <3>2 DEF Parties
    <3> QED BY <2>1, <3>1, <3>2, <3>3
  <2> QED BY <2>2, <2>3, TransferKeepsParties
<1> QED BY <1>1, <1>2, TypeCorrect, ActiveConnectedStep, PTL DEF Spec
-----------------------------------------------------------------------------
\* A device that is there, heard of lately or not.
IsPresent(d) == devices[d].status \in {"online", "stale"}

\* A device that is there stays there unless its own socket closes.
LEMMA PresentStays ==
  ASSUME TypeOK, [Next]_vars, NEW d \in Device, IsPresent(d)
  PROVE  \/ IsPresent(d)'
         \/ \E s \in Socket : HandleDisconnect(s) /\ IsRegistered(s) /\ deviceIdBySocketId[s] = d
<1> USE DEF IsPresent, TypeOK, PresenceTypeOK
<1>0. /\ devices[d] \in DeviceRecord
      /\ devices \in [Device -> DeviceRecord]
  OBVIOUS
<1>1. ASSUME NEW s \in Socket, PresenceEvent(s) PROVE IsPresent(d)'
  <2>1. CASE HandleConnection(s)
    BY <2>1 DEF HandleConnection
  <2>2. ASSUME NEW e \in Device, HandleRegister(s, e) PROVE IsPresent(d)'
    BY <1>0, <2>2 DEF HandleRegister, RegisterDevice
  <2>3. CASE HandleHeartbeat(s)
    BY <1>0, <2>3 DEF HandleHeartbeat
  <2> QED BY <1>1, <2>1, <2>2, <2>3 DEF PresenceEvent
<1>2. ASSUME NEW s \in Socket, HandleDisconnect(s)
      PROVE  \/ IsPresent(d)'
             \/ IsRegistered(s) /\ deviceIdBySocketId[s] = d
  BY <1>0, <1>2 DEF HandleDisconnect, SocketGone, UnregisterSocket, IsRegistered
<1>3. CASE HeartbeatTimer
  BY <1>0, <1>3 DEF HeartbeatTimer, HandleHeartbeatTimeouts, PruneExpiredDevices, DeviceRecord
<1>4. CASE Tick
  BY <1>0, <1>4 DEF Tick, AgeDevices, DeviceRecord
<1>5. CASE UNCHANGED presenceVars
  BY <1>5 DEF presenceVars
<1> QED BY <1>1, <1>2, <1>3, <1>4, <1>5
       DEF Next, vars, HandleCreateConnectionRequest, HandleRespondConnectionRequest,
           HandleCancelConnectionRequest, HandleCloseSession, HandleAnswer,
           HandleTransferStart, HandleTransferEvent, TransferHttpCall, RequestTimer

\* The device a registered socket speaks for is there, and so is one that can be
\* the target of a message.
LEMMA SpeakerIsPresent ==
  ASSUME TypeOK, RegistryCoherent
  PROVE  /\ \A s \in Socket : IsRegistered(s) => IsPresent(deviceIdBySocketId[s])
         /\ \A d \in Device : IsOnline(d) => IsPresent(d)
<1>1. ASSUME NEW s \in Socket, IsRegistered(s) PROVE IsPresent(deviceIdBySocketId[s])
  <2> DEFINE d == deviceIdBySocketId[s]
  <2>1. d \in Device /\ d # None
    BY <1>1, SpeakerIsDevice DEF IsRegistered
  <2>2. socketIdByDeviceId[d] = s /\ devices[d].socketId = s
    BY <2>1 DEF RegistryCoherent
  <2>3. devices[d].status \notin {"unknown", "offline"}
    BY <2>1, <2>2, PresenceAssumption DEF RegistryCoherent
  <2> QED BY <2>1, <2>3 DEF IsPresent, TypeOK, PresenceTypeOK, DeviceRecord
<1> QED BY <1>1 DEF IsOnline, IsPresent

\* Both parties of an active session are there, connected or not.
ActiveArePresent ==
  \A i \in SessionId :
    sessions[i].status = "active" => \A d \in Parties(i) : IsPresent(d)

\* Between devices with plain ids an answer activates the session only of two devices
\* that are there, and a device that goes fails its sessions.
LEMMA ActiveStayPresent ==
  ASSUME PlainIds PROVE Spec => []ActiveArePresent
<1>1. Init => ActiveArePresent
  BY DEF Init, SessionsInit, NoSession, ActiveArePresent
<1>2. TypeOK /\ RegistryCoherent /\ IndexExact /\ ActiveArePresent
        /\ [Next]_vars => ActiveArePresent'
  <2> SUFFICES ASSUME TypeOK, RegistryCoherent, IndexExact,
                      ActiveArePresent, [Next]_vars,
                      NEW i \in SessionId, sessions'[i].status = "active",
                      NEW d \in Parties(i)'
               PROVE  IsPresent(d)'
    BY DEF ActiveArePresent
  <2>1. CASE sessions[i].status = "active"
    <3>1. d \in Parties(i)
      BY <2>1, SessionKeepsParties
    <3>2. IsPresent(d) /\ IsLive(i) /\ d \in Device
      BY <2>1, <3>1, SessionFacts
         DEF ActiveArePresent, IsLive, LiveStatus, Parties, TypeOK
    <3>3. ASSUME NEW s \in Socket, HandleDisconnect(s), IsRegistered(s),
                 deviceIdBySocketId[s] = d
          PROVE  FALSE
      <4>1. sessions'[i] = [sessions[i] EXCEPT !.status = "failed"]
        BY <3>1, <3>2, <3>3 DEF HandleDisconnect, FailSessionsForDevice
      <4>2. sessions[i] \in SessionRecord
        BY <2>1, SessionFacts DEF TypeOK
      <4> QED BY <4>1, <4>2 DEF SessionRecord
    <3> QED BY <3>2, <3>3, PresentStays
  <2>2. CASE sessions[i].status # "active"
    <3>1. PICK s \in Socket, e \in Device :
            /\ HandleAnswer(s, e)
            /\ i = FindSessionByDevices(deviceIdBySocketId[s], e)
      <4>1. \A x, y, z : ~ CreateSession(i, x, y, z)
        BY DEF CreateSession, TypeOK, SessionsTypeOK
      <4>2. ASSUME NEW status \in {"closed", "failed"}, sessions[i].status # "none"
            PROVE  sessions'[i] # [sessions[i] EXCEPT !.status = status]
        BY <4>2, SessionFacts DEF SessionRecord, TypeOK
      <4> QED BY <2>2, <4>1, <4>2, SessionStep
              DEF HandleCloseSession, CloseSession, IsLive, LiveStatus
    <3>2. /\ IsRegistered(s) /\ IsOnline(e) /\ UNCHANGED presenceVars
          /\ FindSessionByDevices(deviceIdBySocketId[s], e) # None
      BY <3>1 DEF HandleAnswer
    <3>3. /\ deviceIdBySocketId[s] \in Device
          /\ IsLive(i) /\ Parties(i) = {deviceIdBySocketId[s], e}
      BY <3>1, <3>2, SpeakerIsDevice, FoundIsOfPair
    <3>4. d \in {deviceIdBySocketId[s], e}
      BY <3>3, SessionKeepsParties, LiveHasEntry
    <3>5. IsPresent(d)
      BY <3>2, <3>4, SpeakerIsPresent
    <3> QED BY <3>2, <3>5 DEF IsPresent, presenceVars
  <2> QED BY <2>1, <2>2
<1> QED BY <1>1, <1>2, TypeCorrect, Inherited, PTL DEF Spec

\* Between devices with plain ids both parties of an active session are connected,
\* unless their socket has come to speak for another device: they are there, and
\* a device that is there is filed under a socket that speaks for it
\* (handleAnswer, handleDisconnect, failSessionsForDevice, registerDevice).
THEOREM ActiveMeansConnected ==
  ASSUME PlainIds PROVE Spec => []ActivePartiesAreConnected
<1>1. TypeOK /\ RegistryCoherent /\ ActiveArePresent => ActivePartiesAreConnected
  <2> SUFFICES ASSUME TypeOK, RegistryCoherent, ActiveArePresent,
                      NEW i \in SessionId, sessions[i].status = "active",
                      NEW d \in Parties(i)
               PROVE  LET s == devices[d].socketId
                      IN  /\ devices[d].status \in {"online", "stale"}
                          /\ s \in shared \/ (connection[s] = "open" /\ deviceIdBySocketId[s] = d)
    BY DEF ActivePartiesAreConnected
  <2> DEFINE s == devices[d].socketId
  <2>1. d \in Device /\ IsPresent(d)
    BY SessionFacts DEF ActiveArePresent, Parties, TypeOK, IsLive, LiveStatus
  <2>2. s \in Socket /\ s = socketIdByDeviceId[d]
    BY <2>1, PresenceAssumption
       DEF IsPresent, RegistryCoherent, TypeOK, PresenceTypeOK, DeviceRecord
  <2>3. s \in shared \/ deviceIdBySocketId[s] = d
    BY <2>1, <2>2, PresenceAssumption DEF RegistryCoherent
  <2>4. deviceIdBySocketId[s] = d => connection[s] = "open"
    BY <2>1, <2>2, DeviceAssumption DEF RegistryCoherent
  <2> QED BY <2>1, <2>3, <2>4 DEF IsPresent
<1> QED BY <1>1, ActiveStayPresent, TypeCorrect, Inherited, PTL
-----------------------------------------------------------------------------
\* Only the target's answer makes a pending request accepted.
LEMMA OnlyTargetAccepts ==
  ASSUME TypeOK, [Next]_vars, NEW r \in Request, IsPending(r),
         requests'[r].status = "accepted"
  PROVE  \E s \in Socket : HandleRespondConnectionRequest(s, r, "accepted")
<1> USE DEF TypeOK, RequestsTypeOK
<1>0. requests[r] \in RequestRecord /\ requests[r].status = "pending"
  BY RequestFacts DEF IsPending
<1>1. ASSUME NEW s \in Socket, NEW q \in Request, NEW answer \in {"accepted", "rejected"},
             HandleRespondConnectionRequest(s, q, answer)
      PROVE  q = r /\ answer = "accepted"
  BY <1>0, <1>1 DEF HandleRespondConnectionRequest, RespondConnectionRequest, RequestRecord
<1>2. ASSUME NEW s \in Socket, NEW q \in Request, HandleCancelConnectionRequest(s, q)
      PROVE  FALSE
  BY <1>0, <1>2 DEF HandleCancelConnectionRequest, CancelConnectionRequest, RequestRecord
<1>3. ASSUME NEW s \in Socket, NEW d \in Device, HandleCreateConnectionRequest(s, d)
      PROVE  FALSE
  BY <1>0, <1>3 DEF HandleCreateConnectionRequest, CreateConnectionRequest
<1>4. CASE RequestTimer
  BY <1>0, <1>4 DEF RequestTimer, ExpireConnectionRequests, RequestRecord
<1>5. CASE Tick
  BY <1>0, <1>5 DEF Tick, AgeRequests, RequestRecord
<1>6. CASE UNCHANGED requests
  BY <1>0, <1>6
<1> QED BY <1>1, <1>2, <1>3, <1>4, <1>5, <1>6
       DEF Next, vars, PresenceEvent, HandleDisconnect, HandleCloseSession, HandleAnswer,
           HandleTransferStart, HandleTransferEvent, TransferHttpCall, HeartbeatTimer

\* Between devices with plain ids an accepted request leaves its two devices with
\* a live session, a new one or the one they had
\* (handleRespondConnectionRequest, getOrCreateSession).
THEOREM AcceptGivesSession ==
  ASSUME PlainIds PROVE Spec => AcceptedRequestOpensSession
<1> DEFINE Opens ==
      \A r \in Request :
        IsPending(r) /\ requests'[r].status = "accepted" =>
          \E i \in SessionId :
            /\ sessions'[i].status \in LiveStatus
            /\ {sessions'[i].deviceA, sessions'[i].deviceB} =
                 {requests[r].from, requests[r].to}
<1>1. TypeOK /\ IndexExact /\ [Next]_vars => Opens
  <2> SUFFICES ASSUME TypeOK, IndexExact, [Next]_vars, NEW r \in Request, IsPending(r),
                      requests'[r].status = "accepted"
               PROVE  \E i \in SessionId :
                        /\ sessions'[i].status \in LiveStatus
                        /\ {sessions'[i].deviceA, sessions'[i].deviceB} =
                             {requests[r].from, requests[r].to}
    OBVIOUS
  <2>1. PICK s \in Socket : HandleRespondConnectionRequest(s, r, "accepted")
    BY OnlyTargetAccepts
  <2>2. PICK a \in Device, b \in Device : a = requests[r].from /\ b = requests[r].to
    BY RequestFacts DEF IsPending, TypeOK
  <2>3. GetOrCreateSession(a, b, b)
    BY <2>1, <2>2 DEF HandleRespondConnectionRequest
  <2>4. CASE /\ FindSessionByDevices(a, b) # None
             /\ IsLive(FindSessionByDevices(a, b))
             /\ UNCHANGED sessionVars
    <3>1. PICK i \in SessionId : IsLive(i) /\ Parties(i) = {a, b}
      BY <2>4, FoundIsOfPair
    <3>2. sessions' = sessions
      BY <2>4 DEF sessionVars
    <3> QED BY <2>2, <3>1, <3>2 DEF IsLive, Parties
  <2>5. CASE \E i \in SessionId : CreateSession(i, a, b, b)
    <3>1. PICK i \in SessionId : CreateSession(i, a, b, b)
      BY <2>5
    <3>2. /\ sessions'[i].status = "connecting"
          /\ sessions'[i].deviceA = FirstOf(a, b) /\ sessions'[i].deviceB = SecondOf(a, b)
      BY <3>1 DEF CreateSession, TypeOK, SessionsTypeOK
    <3>3. {FirstOf(a, b), SecondOf(a, b)} = {a, b}
      BY PairNormalised
    <3>4. {sessions'[i].deviceA, sessions'[i].deviceB} = {a, b}
      BY <3>2, <3>3
    <3>5. sessions'[i].status \in LiveStatus
      BY <3>2 DEF LiveStatus
    <3> QED BY <2>2, <3>4, <3>5
  <2> QED BY <2>3, <2>4, <2>5 DEF GetOrCreateSession
<1>2. Spec => [][Opens]_vars
  BY <1>1, TypeCorrect, Inherited, PTL DEF Spec
<1> QED BY <1>2 DEF AcceptedRequestOpensSession
-----------------------------------------------------------------------------
(***************************************************************************)
(* Signaling implements PairLinks, whatever the devices, sockets, requests *)
(* and sessions are, as long as no id contains the separator.  Each step   *)
(* of the gateway is one step of the links or leaves them alone; one lemma *)
(* per kind of step says which.                                            *)
(***************************************************************************)
Present == {d \in Device : devices[d].status \in {"online", "stale"}}

\* What is known of every reachable state.
Known == TypeOK /\ RegistryCoherent /\ IndexExact /\ OneLiveSessionPerPair

\* The pairs of the sessions with a status.
LEMMA InPairsWith ==
  ASSUME NEW status
  PROVE  \A p : p \in PairsWith(status) <=>
                  \E i \in SessionId : sessions[i].status = status /\ p = Parties(i)
BY DEF PairsWith

\* The same after a step.
LEMMA InPairsWithNext ==
  ASSUME NEW status
  PROVE  \A p : p \in PairsWith(status)' <=>
                  \E i \in SessionId : sessions'[i].status = status /\ p = Parties(i)'
BY DEF PairsWith, Parties

\* Steps that leave the sessions alone leave the links alone.
LEMMA PairsUnchanged ==
  ASSUME UNCHANGED sessions, NEW status
  PROVE  PairsWith(status)' = PairsWith(status)
BY DEF PairsWith, Parties

\* One live session that changes its status moves its pair, because no other
\* live session has the same parties.
LEMMA OneMoves ==
  ASSUME Known, NEW i \in SessionId, IsLive(i), NEW next, sessions'[i].status = next,
         Parties(i)' = Parties(i),
         \A j \in SessionId \ {i} : sessions'[j] = sessions[j],
         NEW status \in LiveStatus
  PROVE  PairsWith(status)' = IF next = status THEN PairsWith(status) \cup {Parties(i)}
                                               ELSE PairsWith(status) \ {Parties(i)}
<1>1. \A j \in SessionId \ {i} : Parties(j)' = Parties(j)
  BY DEF Parties
<1>2. \A j \in SessionId \ {i} : sessions[j].status = status => Parties(j) # Parties(i)
  BY DEF Known, OneLiveSessionPerPair, IsLive
<1>3. CASE next = status
  <2>1. \A p : p \in PairsWith(status)' <=> p \in PairsWith(status) \/ p = Parties(i)
    BY <1>1, <1>3, InPairsWith, InPairsWithNext
  <2> QED BY <1>3, <2>1
<1>4. CASE next # status
  <2>1. \A p : p \in PairsWith(status)' <=> p \in PairsWith(status) /\ p # Parties(i)
    BY <1>1, <1>2, <1>4, InPairsWith, InPairsWithNext
  <2> QED BY <1>4, <2>1
<1> QED BY <1>3, <1>4

\* A session between two devices without one opens their link; the device that
\* accepted is there.
LEMMA CreateOpens ==
  ASSUME Known, NEW a \in Device, NEW b \in Device, NEW c, NEW i \in SessionId,
         ~ (FindSessionByDevices(a, b) # None /\ IsLive(FindSessionByDevices(a, b))),
         CreateSession(i, a, b, c), UNCHANGED devices, b \in Present
  PROVE  \E p \in Links!Pairs : Links!Open(p)
<1>1. sessions'[i].status = "connecting" /\ Parties(i)' = {a, b}
  BY PairNormalised DEF CreateSession, Parties, Known, TypeOK, SessionsTypeOK
<1>2. \A j \in SessionId \ {i} : sessions'[j] = sessions[j] /\ Parties(j)' = Parties(j)
  BY DEF CreateSession, Parties, Known, TypeOK, SessionsTypeOK
<1>3. sessions[i].status = "none"
  BY DEF CreateSession
<1>4. PairsWith("connecting")' = PairsWith("connecting") \cup {{a, b}}
  <2>1. ASSUME NEW p \in PairsWith("connecting")'
        PROVE  p \in PairsWith("connecting") \/ p = {a, b}
    BY <1>1, <1>2, <2>1, InPairsWith, InPairsWithNext
  <2>2. ASSUME NEW p, p \in PairsWith("connecting") \/ p = {a, b}
        PROVE  p \in PairsWith("connecting")'
    <3>1. CASE p = {a, b}
      BY <1>1, <3>1, InPairsWithNext
    <3>2. CASE p \in PairsWith("connecting")
      BY <1>2, <1>3, <3>2, InPairsWith, InPairsWithNext
    <3> QED BY <2>2, <3>1, <3>2
  <2> QED BY <2>1, <2>2
<1>5. PairsWith("active")' = PairsWith("active")
  <2>1. \A p : p \in PairsWith("active")' <=> p \in PairsWith("active")
    BY <1>1, <1>2, <1>3, InPairsWith, InPairsWithNext
  <2> QED BY <2>1
<1>6. {a, b} \notin PairsWith("connecting") \cup PairsWith("active")
  <2> SUFFICES ASSUME NEW j \in SessionId, IsLive(j), Parties(j) = {a, b} PROVE FALSE
    BY InPairsWith DEF IsLive, LiveStatus
  <2>1. sessions[j].deviceA \in Device /\ sessions[j].deviceB \in Device
    BY SessionFacts, LiveHasEntry DEF Known, TypeOK
  <2>2. KeyOf(j) = PairKey(a, b)
    BY <2>1, SamePartiesSameKey DEF KeyOf, Parties
  <2>3. FindSessionByDevices(a, b) = j
    BY <2>2, PairNormalised DEF FindSessionByDevices, Known, IndexExact
  <2> QED BY <2>3, SessionIdAssumption
<1>7. {a, b} \cap Present # {} /\ Present' = Present
  BY DEF Present
<1>8. {a, b} \in Links!Pairs
  BY DEF Links!Pairs
<1> QED BY <1>4, <1>5, <1>6, <1>7, <1>8 DEF Links!Open, Present

-----------------------------------------------------------------------------
\* handleRegister: the device joins.
LEMMA RegisterJoins ==
  ASSUME Known, NEW s \in Socket, NEW d \in Device, HandleRegister(s, d), UNCHANGED sessions
  PROVE  Links!Join(d)
<1>1. Present' = Present \cup {d}
  <2>1. devices' = [devices EXCEPT ![d] = [status |-> "online", socketId |-> s, age |-> 0]]
    BY DEF HandleRegister, RegisterDevice
  <2> QED BY <2>1 DEF Present, Known, TypeOK, PresenceTypeOK
<1> QED BY <1>1, PairsUnchanged DEF Links!Join, Present

\* handleDisconnect: the device leaves and takes its links along, or the socket
\* spoke for nobody.
LEMMA DisconnectLeaves ==
  ASSUME Known, NEW s \in Socket, HandleDisconnect(s)
  PROVE  \/ \E d \in Device : Links!Leave(d)
         \/ UNCHANGED <<Present, PairsWith("connecting"), PairsWith("active")>>
<1>1. CASE IsRegistered(s)
  <2>0. PICK d \in Device : d = deviceIdBySocketId[s]
    BY <1>1, SpeakerIsDevice DEF Known
  <2>1. d \in Present
    BY <1>1, <2>0, SpeakerIsPresent DEF Known, Present, IsPresent
  <2>2. devices' = [devices EXCEPT ![d].status = "offline", ![d].socketId = None]
    BY <1>1, <2>0 DEF HandleDisconnect, SocketGone, UnregisterSocket, IsRegistered
  <2>3. Present' = Present \ {d}
    <3>1. devices'[d].status = "offline"
      BY <2>1, <2>2 DEF Known, TypeOK, PresenceTypeOK, DeviceRecord
    <3>2. \A e \in Device \ {d} : devices'[e] = devices[e]
      BY <2>2 DEF Known, TypeOK, PresenceTypeOK
    <3> QED BY <3>1, <3>2 DEF Present
  <2>4. ASSUME NEW i \in SessionId
        PROVE  /\ Parties(i)' = Parties(i)
               /\ sessions'[i].status = IF IsLive(i) /\ d \in Parties(i) THEN "failed"
                                        ELSE sessions[i].status
    <3>1. sessions'[i] = IF IsLive(i) /\ d \in Parties(i)
                         THEN [sessions[i] EXCEPT !.status = "failed"] ELSE sessions[i]
      BY <1>1, <2>0 DEF HandleDisconnect, FailSessionsForDevice
    <3>2. IsLive(i) => sessions[i] \in SessionRecord
      BY SessionFacts, LiveHasEntry DEF Known, TypeOK
    <3> QED BY <3>1, <3>2 DEF SessionRecord, Parties
  <2>5. ASSUME NEW status \in LiveStatus
        PROVE  PairsWith(status)' = {p \in PairsWith(status) : d \notin p}
    <3>1. ASSUME NEW i \in SessionId
          PROVE  sessions'[i].status = status <=>
                   sessions[i].status = status /\ d \notin Parties(i)
      BY <2>4, <2>5 DEF IsLive, LiveStatus
    <3>2. \A p : p \in PairsWith(status)' <=> p \in PairsWith(status) /\ d \notin p
      BY <2>4, <3>1, InPairsWith, InPairsWithNext
    <3> QED BY <3>2
  <2> QED BY <1>1, <2>1, <2>3, <2>5 DEF Links!Leave, Present, LiveStatus
<1>2. CASE ~ IsRegistered(s)
  <2>1. UNCHANGED <<sessions, devices>>
    BY <1>2 DEF HandleDisconnect, SocketGone, UnregisterSocket, IsRegistered, sessionVars
  <2> QED BY <2>1, PairsUnchanged DEF Present
<1> QED BY <1>1, <1>2
\* handleRespondConnectionRequest: an accept opens the link of the two devices, or
\* they have one.
LEMMA AcceptOpens ==
  ASSUME Known, NEW s \in Socket, NEW r \in Request, NEW answer \in {"accepted", "rejected"},
         HandleRespondConnectionRequest(s, r, answer)
  PROVE  \/ \E p \in Links!Pairs : Links!Open(p)
         \/ UNCHANGED <<devices, sessions>>
<1>1. PICK a \in Device, b \in Device : a = requests[r].from /\ b = requests[r].to
  BY RequestFacts DEF HandleRespondConnectionRequest, RespondConnectionRequest, IsPending,
                      Known, TypeOK
<1>2. b \in Present /\ UNCHANGED devices
  BY <1>1, SpeakerIsPresent
     DEF HandleRespondConnectionRequest, Speaks, Known, Present, IsPresent, presenceVars
<1>3. \/ UNCHANGED sessions
      \/ /\ ~ (FindSessionByDevices(a, b) # None /\ IsLive(FindSessionByDevices(a, b)))
         /\ \E i \in SessionId : CreateSession(i, a, b, b)
  BY <1>1 DEF HandleRespondConnectionRequest, GetOrCreateSession, sessionVars
<1> QED BY <1>1, <1>2, <1>3, CreateOpens

\* handleAnswer: the link of the two devices becomes active, or it was.
LEMMA AnswerActivates ==
  ASSUME PlainIds, Known, NEW s \in Socket, NEW d \in Device, HandleAnswer(s, d)
  PROVE  \/ \E p \in Links!Pairs : Links!Activate(p)
         \/ UNCHANGED <<devices, sessions>>
<1>0. PICK e \in Device : e = deviceIdBySocketId[s]
  BY SpeakerIsDevice DEF HandleAnswer, Known
<1> DEFINE p == {e, d}
<1>1. PICK i \in SessionId : /\ i = FindSessionByDevices(e, d)
                            /\ IsLive(i) /\ Parties(i) = p
  BY <1>0, FoundIsOfPair DEF HandleAnswer, Known
<1>2. p \subseteq Present
  BY <1>0, SpeakerIsPresent DEF HandleAnswer, Known, Present, IsPresent
<1>3. MarkSessionActive(i) /\ UNCHANGED devices
  BY <1>0, <1>1 DEF HandleAnswer, presenceVars
<1>4. CASE sessions[i].status # "connecting"
  BY <1>1, <1>3, <1>4 DEF MarkSessionActive
<1>5. CASE sessions[i].status = "connecting"
  <2>1. /\ sessions'[i] = [sessions[i] EXCEPT !.status = "active", !.connected = TRUE]
        /\ \A j \in SessionId \ {i} : sessions'[j] = sessions[j]
    BY <1>1, <1>3, <1>5 DEF MarkSessionActive, Known, TypeOK, SessionsTypeOK
  <2>2. sessions[i] \in SessionRecord
    BY <1>1, SessionFacts, LiveHasEntry DEF Known, TypeOK
  <2>3. sessions'[i].status = "active" /\ Parties(i)' = Parties(i)
    BY <2>1, <2>2 DEF SessionRecord, Parties
  <2>4. /\ PairsWith("connecting")' = PairsWith("connecting") \ {p}
        /\ PairsWith("active")' = PairsWith("active") \cup {p}
    BY <1>1, <2>1, <2>3, OneMoves DEF LiveStatus
  <2>5. p \in PairsWith("connecting")
    BY <1>1, <1>5, InPairsWith
  <2>6. p \in Links!Pairs
    BY <1>1 DEF Links!Pairs
  <2> HIDE DEF p
  <2> QED BY <1>2, <1>3, <2>4, <2>5, <2>6 DEF Links!Activate, Present
<1> QED BY <1>4, <1>5

\* handleCloseSession: a party that is there closes the link.
LEMMA CloseCloses ==
  ASSUME Known, NEW s \in Socket, NEW i \in SessionId, HandleCloseSession(s, i)
  PROVE  \E p \in Links!Pairs : Links!Close(p)
<1> DEFINE p == Parties(i)
<1>1. /\ IsLive(i) /\ sessions[i].status # "none"
      /\ UNCHANGED devices
      /\ sessions'[i] = [sessions[i] EXCEPT !.status = "closed"]
      /\ \A j \in SessionId \ {i} : sessions'[j] = sessions[j]
  BY LiveHasEntry DEF HandleCloseSession, CloseSession, presenceVars, Known, TypeOK,
                      SessionsTypeOK
<1>2. sessions[i] \in SessionRecord
  BY <1>1, SessionFacts DEF Known, TypeOK
<1>3. sessions'[i].status = "closed" /\ Parties(i)' = p
  BY <1>1, <1>2 DEF SessionRecord, Parties
<1>4. /\ PairsWith("connecting")' = PairsWith("connecting") \ {p}
      /\ PairsWith("active")' = PairsWith("active") \ {p}
  BY <1>1, <1>3, OneMoves DEF LiveStatus
<1>5. p \in PairsWith("connecting") \cup PairsWith("active")
  BY <1>1, InPairsWith DEF IsLive, LiveStatus
<1>6. p \cap Present # {}
  BY SpeakerIsDevice, SpeakerIsPresent DEF HandleCloseSession, Known, Present, IsPresent
<1>7. p \in Links!Pairs
  BY <1>1, SessionFacts DEF Links!Pairs, Parties, Known, TypeOK
<1> HIDE DEF p
<1> QED BY <1>1, <1>4, <1>5, <1>6, <1>7 DEF Links!Close, Present

\* The other steps leave the sessions alone and nobody joins or leaves.
LEMMA PresentUnchanged ==
  ASSUME Known,
         \/ HeartbeatTimer
         \/ Tick
         \/ \E s \in Socket : HandleHeartbeat(s) \/ HandleConnection(s)
  PROVE  Present' = Present
<1> USE DEF Known, TypeOK, PresenceTypeOK
<1>1. ASSUME \A d \in Device : IsPresent(d)' <=> IsPresent(d) PROVE Present' = Present
  BY <1>1 DEF Present, IsPresent
<1>2. CASE HeartbeatTimer
  <2>1. ASSUME NEW d \in Device PROVE IsPresent(d)' <=> IsPresent(d)
    BY <1>2, <2>1 DEF HeartbeatTimer, HandleHeartbeatTimeouts, PruneExpiredDevices, IsExpired,
                 IsOnline, DeviceRecord, IsPresent
  <2> QED BY <1>1, <2>1
<1>3. CASE Tick
  <2>1. ASSUME NEW d \in Device PROVE IsPresent(d)' <=> IsPresent(d)
    BY <1>3, <2>1 DEF Tick, AgeDevices, DeviceRecord, IsPresent
  <2> QED BY <1>1, <2>1
<1>4. ASSUME NEW s \in Socket, HandleHeartbeat(s) PROVE Present' = Present
  <2>1. IsPresent(deviceIdBySocketId[s])
    BY <1>4, SpeakerIsPresent DEF HandleHeartbeat
  <2>2. ASSUME NEW d \in Device PROVE IsPresent(d)' <=> IsPresent(d)
    BY <1>4, <2>1, <2>2 DEF HandleHeartbeat, DeviceRecord, IsPresent
  <2> QED BY <1>1, <2>2
<1>5. ASSUME NEW s \in Socket, HandleConnection(s) PROVE Present' = Present
  BY <1>5 DEF HandleConnection, Present
<1> QED BY <1>2, <1>3, <1>4, <1>5
-----------------------------------------------------------------------------
\* Every step is a step of the links or leaves them alone.
LEMMA LinksStep ==
  ASSUME PlainIds, Known, [Next]_vars
  PROVE  [Links!LinksNext]_(Links!linkVars)
<1> USE DEF Links!LinksNext
<1>1. ASSUME UNCHANGED sessions, Present' = Present PROVE UNCHANGED Links!linkVars
  BY <1>1, PairsUnchanged DEF Links!linkVars, Present
<1>2. ASSUME NEW s \in Socket, PresenceEvent(s)
      PROVE  [Links!LinksNext]_(Links!linkVars)
  <2>1. UNCHANGED sessions
    BY <1>2 DEF PresenceEvent, sessionVars
  <2> QED BY <1>1, <1>2, <2>1, RegisterJoins, PresentUnchanged DEF PresenceEvent
<1>3. ASSUME NEW s \in Socket, HandleDisconnect(s)
      PROVE  [Links!LinksNext]_(Links!linkVars)
  <2>1. CASE \E d \in Device : Links!Leave(d)
    BY <2>1
  <2>2. CASE UNCHANGED <<Present, PairsWith("connecting"), PairsWith("active")>>
    BY <2>2 DEF Links!linkVars, Present
  <2> QED BY <1>3, <2>1, <2>2, DisconnectLeaves
<1>4. CASE UNCHANGED <<devices, sessions>>
  BY <1>1, <1>4 DEF Present
<1>5. ASSUME NEW s \in Socket, NEW r \in Request, NEW answer \in {"accepted", "rejected"},
             HandleRespondConnectionRequest(s, r, answer)
      PROVE  [Links!LinksNext]_(Links!linkVars)
  BY <1>4, <1>5, AcceptOpens
<1>6. ASSUME NEW s \in Socket, NEW d \in Device, HandleAnswer(s, d)
      PROVE  [Links!LinksNext]_(Links!linkVars)
  BY <1>4, <1>6, AnswerActivates
<1>7. ASSUME NEW s \in Socket, NEW i \in SessionId, HandleCloseSession(s, i)
      PROVE  [Links!LinksNext]_(Links!linkVars)
  BY <1>7, CloseCloses
<1>8. CASE HeartbeatTimer
  BY <1>1, <1>8, PresentUnchanged DEF HeartbeatTimer, sessionVars
<1>9. CASE Tick
  BY <1>1, <1>9, PresentUnchanged DEF Tick, sessionVars
<1> QED BY <1>2, <1>3, <1>4, <1>5, <1>6, <1>7, <1>8, <1>9
       DEF Next, vars, presenceVars, sessionVars, HandleCreateConnectionRequest,
           HandleCancelConnectionRequest, HandleTransferStart, HandleTransferEvent,
           TransferHttpCall, RequestTimer

\* Between devices with plain ids the gateway, with its sockets, maps, keys and
\* index, implements PairLinks (handleRegister, handleDisconnect,
\* handleRespondConnectionRequest, handleAnswer, handleCloseSession).
THEOREM ImplementsLinks == ASSUME PlainIds PROVE Spec => ImplementsPairLinks
<1>1. Init => Links!LinksInit
  <2> SUFFICES ASSUME Init PROVE Links!LinksInit
    OBVIOUS
  <2>1. {d \in Device : devices[d].status \in {"online", "stale"}} = {}
    BY DEF Init, PresenceInit
  <2>2. PairsWith("connecting") = {} /\ PairsWith("active") = {}
    BY InPairsWith DEF Init, SessionsInit, NoSession
  <2> QED BY <2>1, <2>2 DEF Links!LinksInit
<1>2. Known /\ [Next]_vars => [Links!LinksNext]_(Links!linkVars)
  BY LinksStep
<1>3. Spec => []Known
  BY TypeCorrect, Inherited, PTL DEF Known
<1> QED BY <1>1, <1>2, <1>3, PTL DEF Spec, ImplementsPairLinks, Links!LinksSpec
=============================================================================
