----------------------------- MODULE Signaling -----------------------------
(***************************************************************************)
(* The signaling gateway over its one service: every socket event, every   *)
(* HTTP call on a transfer record and the two timers, on the state of      *)
(* Presence, ConnectionRequests, Sessions and Transfers together.  All     *)
(* handlers are synchronous, so each is one step; a handler that throws    *)
(* has changed nothing and is a stuttering step.  What is concurrent is    *)
(* the order in which the events of the sockets and the timers arrive.     *)
(***************************************************************************)
EXTENDS Presence, ConnectionRequests, Sessions, Transfers

vars == <<presenceVars, requests, sessionVars, transferVars>>

TypeOK == PresenceTypeOK /\ RequestsTypeOK /\ SessionsTypeOK /\ TransfersTypeOK

Init == PresenceInit /\ RequestsInit /\ SessionsInit /\ TransfersInit

\* requireRegisteredDevice(client.id): a stale device passes.
Speaks(s, d) == IsRegistered(s) /\ d = deviceIdBySocketId[s]
-----------------------------------------------------------------------------
\* Handlers that change presence only: handleConnection, handleRegister,
\* handleHeartbeat.
PresenceEvent(s) ==
  /\ \/ HandleConnection(s)
     \/ \E d \in Device : HandleRegister(s, d)
     \/ HandleHeartbeat(s)
  /\ UNCHANGED <<requests, sessionVars, transferVars>>

HandleDisconnect(s) ==
  /\ SocketGone(s)
  /\ IF IsRegistered(s) THEN FailSessionsForDevice(deviceIdBySocketId[s])
                        ELSE UNCHANGED sessionVars
  /\ UNCHANGED <<requests, transferVars>>

HandleCreateConnectionRequest(s, to) ==
  /\ IsRegistered(s)
  /\ IsOnline(to)
  /\ to # deviceIdBySocketId[s]
  /\ \E r \in Request : CreateConnectionRequest(r, deviceIdBySocketId[s], to)
  /\ UNCHANGED <<presenceVars, sessionVars, transferVars>>

\* Mutant: a rejected request opens a session too.
RespondAlwaysOpens(s, r, answer) ==
  /\ Speaks(s, requests[r].to)
  /\ RespondConnectionRequest(r, answer)
  /\ GetOrCreateSession(requests[r].from, requests[r].to, requests[r].to)
  /\ UNCHANGED <<presenceVars, transferVars>>

\* Accepting opens the session.  Nothing asks whether the requester is still
\* there, nor whether expiredAt has passed.
HandleRespondConnectionRequest(s, r, answer) ==
  /\ Speaks(s, requests[r].to)
  /\ RespondConnectionRequest(r, answer)
  /\ IF answer = "accepted"
     THEN GetOrCreateSession(requests[r].from, requests[r].to, requests[r].to)
     ELSE UNCHANGED sessionVars
  /\ UNCHANGED <<presenceVars, transferVars>>

HandleCancelConnectionRequest(s, r) ==
  /\ Speaks(s, requests[r].from)
  /\ CancelConnectionRequest(r)
  /\ UNCHANGED <<presenceVars, sessionVars, transferVars>>

HandleCloseSession(s, i) ==
  /\ IsRegistered(s)
  /\ deviceIdBySocketId[s] \in Parties(i)
  /\ CloseSession(i)
  /\ UNCHANGED <<presenceVars, requests, transferVars>>

\* Mutant: the answer counts although it could not be forwarded.
AnswerToNobody(s, target) ==
  /\ IsRegistered(s)
  /\ LET found == FindSessionByDevices(deviceIdBySocketId[s], target)
     IN  found # None /\ MarkSessionActive(found)
  /\ UNCHANGED <<presenceVars, requests, transferVars>>

\* The answer is forwarded, then the session of the two devices is active.
\* Offers and candidates are forwarded and change nothing.
HandleAnswer(s, target) ==
  /\ IsRegistered(s)
  /\ IsOnline(target)
  /\ LET found == FindSessionByDevices(deviceIdBySocketId[s], target)
     IN  found # None /\ MarkSessionActive(found)
  /\ UNCHANGED <<presenceVars, requests, transferVars>>

\* Mutant: the session need not be active.
TransferStartEarly(s, t, i, receiver) ==
  LET sender == deviceIdBySocketId[s]
  IN  /\ IsRegistered(s)
      /\ {sender, receiver} \subseteq Parties(i)
      /\ receiver # sender
      /\ CreateTransferRecord(t, i, sender, receiver)
      /\ UNCHANGED <<presenceVars, requests, sessionVars>>

\* requireActiveSessionParticipant, then the receiver is the other participant; t is
\* the new transferId.
HandleTransferStart(s, t, i, receiver) ==
  LET sender == deviceIdBySocketId[s]
  IN  /\ IsRegistered(s)
      /\ sessions[i].status = "active"
      /\ sender \in Parties(i)
      /\ receiver # sender
      /\ receiver \in Parties(i)
      /\ CreateTransferRecord(t, i, sender, receiver)
      /\ UNCHANGED <<presenceVars, requests, sessionVars>>

\* handleTransferProgress, -Complete, -Failed and -Cancel; the session may have
\* ended meanwhile.
HandleTransferEvent(s, t) ==
  /\ IsRegistered(s)
  /\ TransferEvent(deviceIdBySocketId[s], t)
  /\ UNCHANGED <<presenceVars, requests, sessionVars>>

\* TransfersController: whoever calls it over HTTP.
TransferHttpCall(t) ==
  /\ \/ \E action \in {"hide", "restore"} : UpdateTransferRecordVisibility(t, action)
     \/ DeleteTransferRecord(t)
  /\ UNCHANGED <<presenceVars, requests, sessionVars>>

HeartbeatTimer ==
  /\ HandleHeartbeatTimeouts
  /\ UNCHANGED <<requests, sessionVars, transferVars>>

\* Mutant: the timer returns early while nobody is online.
RequestTimerIfOnline ==
  /\ \E d \in Device : IsOnline(d)
  /\ ExpireConnectionRequests
  /\ UNCHANGED <<presenceVars, sessionVars, transferVars>>

RequestTimer ==
  /\ ExpireConnectionRequests
  /\ UNCHANGED <<presenceVars, sessionVars, transferVars>>

Tick ==
  /\ AgeDevices
  /\ AgeRequests
  /\ UNCHANGED <<sessionVars, transferVars>>

Next ==
  \/ \E s \in Socket : PresenceEvent(s)
  \/ \E s \in Socket : HandleDisconnect(s)
  \/ \E s \in Socket, d \in Device : HandleCreateConnectionRequest(s, d)
  \/ \E s \in Socket, r \in Request, answer \in {"accepted", "rejected"} :
       HandleRespondConnectionRequest(s, r, answer)
  \/ \E s \in Socket, r \in Request : HandleCancelConnectionRequest(s, r)
  \/ \E s \in Socket, i \in SessionId : HandleCloseSession(s, i)
  \/ \E s \in Socket, d \in Device : HandleAnswer(s, d)
  \/ \E s \in Socket, t \in Transfer :
       \/ \E i \in SessionId, d \in Device : HandleTransferStart(s, t, i, d)
       \/ HandleTransferEvent(s, t)
  \/ \E t \in Transfer : TransferHttpCall(t)
  \/ HeartbeatTimer
  \/ RequestTimer
  \/ Tick

Spec == Init /\ [][Next]_vars

\* Time passes, and the two @Interval timers of the gateway go on firing.
\* Nothing is assumed of the clients.
Fairness == WF_vars(Tick) /\ WF_vars(HeartbeatTimer) /\ WF_vars(RequestTimer)

FairSpec == Spec /\ Fairness
-----------------------------------------------------------------------------
\* No session without consent: the two parties of every session, live or ended,
\* are those of a request that its target accepted
\* (handleRespondConnectionRequest, getOrCreateSession).
ConsentBeforeSession ==
  \A i \in SessionId :
    sessions[i].status # "none" =>
      \E r \in Request :
        /\ requests[r].status = "accepted"
        /\ Parties(i) = {requests[r].from, requests[r].to}
        /\ sessions[i].createdBy = requests[r].to

\* Both parties of an active session are connected: each is online or stale, on an
\* open socket that speaks for it.  Disconnects, new registrations and answers arrive
\* in any order: an answer must not activate a session whose peer is gone, a device
\* that goes takes every active session with it, and one that comes back on another
\* socket keeps them (handleAnswer, handleDisconnect, failSessionsForDevice).  The one
\* exception is a device whose socket has come to speak for another device: it
\* stays in its sessions when that socket closes.
ActivePartiesAreConnected ==
  \A i \in SessionId :
    sessions[i].status = "active" =>
      \A d \in Parties(i) :
        LET s == devices[d].socketId
        IN  /\ devices[d].status \in {"online", "stale"}
            /\ s \in shared \/ (connection[s] = "open" /\ deviceIdBySocketId[s] = d)

\* A transfer belongs to a session that was active, and its sender and receiver
\* are that session's two parties, whatever became of the session since.
TransferInsideSession ==
  \A t \in Transfer :
    Exists(t) =>
      LET i == transfers[t].session
      IN  /\ sessions[i].connected
          /\ Parties(i) = {transfers[t].sender, transfers[t].receiver}
          /\ transfers[t].sender # transfers[t].receiver

\* When a request is accepted the pair of devices it names has a live session,
\* a new one or the one it already had.
AcceptedRequestOpensSession ==
  [][\A r \in Request :
       IsPending(r) /\ requests'[r].status = "accepted" =>
         \E i \in SessionId :
           /\ sessions'[i].status \in LiveStatus
           /\ {sessions'[i].deviceA, sessions'[i].deviceB} =
                {requests[r].from, requests[r].to}]_vars

\* A silent device does not stay online: again and again, each device is not
\* online or has just been heard of (the timer, the clock and heartbeats).
SilenceIsNoticed ==
  \A d \in Device : []<>(devices[d].status # "online" \/ devices[d].age = 0)

\* Every request is decided in the end, even when both devices are gone.
RequestsAreDecided ==
  \A r \in Request : IsPending(r) ~> requests[r].status \in Decided
-----------------------------------------------------------------------------
\* The pair-key index, the session records and the registry together implement
\* PairLinks: at most one link per pair, activated only between two devices that
\* are there, and dropped with either of them.
PairsWith(status) == {Parties(i) : i \in {j \in SessionId : sessions[j].status = status}}

Links == INSTANCE PairLinks
           WITH present    <- {d \in Device : devices[d].status \in {"online", "stale"}},
                connecting <- PairsWith("connecting"),
                active     <- PairsWith("active")

ImplementsPairLinks == Links!LinksSpec
=============================================================================
