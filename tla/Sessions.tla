------------------------------ MODULE Sessions ------------------------------
(***************************************************************************)
(* Sessions between two devices: sessionsBySessionId, the index            *)
(* activeSessionIdByPairKey beside it, and the service operations that     *)
(* keep the two in step.                                                   *)
(***************************************************************************)
EXTENDS Identifiers

VARIABLES
  sessions,                  \* sessionsBySessionId
  activeSessionIdByPairKey

sessionVars == <<sessions, activeSessionIdByPairKey>>

LiveStatus  == {"connecting", "active"}
EndedStatus == {"closed", "failed"}

\* connected says that connectedAt is not null.
SessionRecord ==
  [status    : LiveStatus \cup EndedStatus,
   deviceA   : Device,
   deviceB   : Device,
   createdBy : Device,
   connected : BOOLEAN]

\* A session id without an entry.
NoSession ==
  [status |-> "none", deviceA |-> None, deviceB |-> None, createdBy |-> None,
   connected |-> FALSE]

SessionsTypeOK ==
  /\ sessions \in [SessionId -> SessionRecord \cup {NoSession}]
  /\ activeSessionIdByPairKey \in [PairKeys -> SessionId \cup {None}]

SessionsInit ==
  /\ sessions = [i \in SessionId |-> NoSession]
  /\ activeSessionIdByPairKey = [k \in PairKeys |-> None]
-----------------------------------------------------------------------------
IsLive(i)  == sessions[i].status \in LiveStatus
Parties(i) == {sessions[i].deviceA, sessions[i].deviceB}
KeyOf(i)   == PairKey(sessions[i].deviceA, sessions[i].deviceB)

\* findSessionByDevices: None when there is no entry for the pair key.
FindSessionByDevices(a, b) == activeSessionIdByPairKey[PairKey(a, b)]

CreateSession(i, a, b, creator) ==
  /\ sessions[i].status = "none"
  /\ sessions' = [sessions EXCEPT
                    ![i] = [status |-> "connecting",
                            deviceA |-> FirstOf(a, b), deviceB |-> SecondOf(a, b),
                            createdBy |-> creator, connected |-> FALSE]]
  /\ activeSessionIdByPairKey' = [activeSessionIdByPairKey EXCEPT ![PairKey(a, b)] = i]

\* Mutant: every accepted request makes a session of its own.
CreateAlways(a, b, creator) == \E i \in SessionId : CreateSession(i, a, b, creator)

GetOrCreateSession(a, b, creator) ==
  LET existing == FindSessionByDevices(a, b)
  IN  IF existing # None /\ IsLive(existing)
      THEN UNCHANGED sessionVars
      ELSE \E i \in SessionId : CreateSession(i, a, b, creator)

\* Answers null for an ended session and changes nothing for an active one.
MarkSessionActive(i) ==
  /\ sessions' = IF sessions[i].status = "connecting"
                 THEN [sessions EXCEPT ![i].status = "active", ![i].connected = TRUE]
                 ELSE sessions
  /\ UNCHANGED activeSessionIdByPairKey

\* Mutant: a session that failed is closed as well.
CloseAnySession(i) ==
  /\ sessions[i].status # "none"
  /\ sessions' = [sessions EXCEPT ![i].status = "closed"]
  /\ activeSessionIdByPairKey' = [activeSessionIdByPairKey EXCEPT ![KeyOf(i)] = None]

CloseSession(i) ==
  /\ IsLive(i)
  /\ sessions' = [sessions EXCEPT ![i].status = "closed"]
  /\ activeSessionIdByPairKey' = [activeSessionIdByPairKey EXCEPT ![KeyOf(i)] = None]

\* Mutant: the index is not cleaned.
FailKeepsIndex(d) ==
  /\ sessions' = [i \in SessionId |->
                    IF IsLive(i) /\ d \in Parties(i)
                    THEN [sessions[i] EXCEPT !.status = "failed"] ELSE sessions[i]]
  /\ UNCHANGED activeSessionIdByPairKey

\* Mutant: only active sessions fail with their device.
FailActiveOnly(d) ==
  LET failing == {i \in SessionId : sessions[i].status = "active" /\ d \in Parties(i)}
      keys    == {KeyOf(i) : i \in failing}
  IN  /\ sessions' = [i \in SessionId |->
                        IF i \in failing THEN [sessions[i] EXCEPT !.status = "failed"]
                                         ELSE sessions[i]]
      /\ activeSessionIdByPairKey' =
           [k \in PairKeys |-> IF k \in keys THEN None ELSE activeSessionIdByPairKey[k]]

FailSessionsForDevice(d) ==
  LET failing == {i \in SessionId : IsLive(i) /\ d \in Parties(i)}
      keys    == {KeyOf(i) : i \in failing}
  IN  /\ sessions' = [i \in SessionId |->
                        IF i \in failing THEN [sessions[i] EXCEPT !.status = "failed"]
                                         ELSE sessions[i]]
      /\ activeSessionIdByPairKey' =
           [k \in PairKeys |-> IF k \in keys THEN None ELSE activeSessionIdByPairKey[k]]

SessionsNext ==
  \/ \E a, b, c \in Device : GetOrCreateSession(a, b, c)
  \/ \E i \in SessionId : MarkSessionActive(i)
  \/ \E i \in SessionId : CloseSession(i)
  \/ \E d \in Device : FailSessionsForDevice(d)

SessionsSpec == SessionsInit /\ [][SessionsNext]_sessionVars
-----------------------------------------------------------------------------
\* The index files exactly the live sessions: each live session is found under
\* the key of its pair, and what the index answers is a live session of that
\* key.  closeSession and failSessionsForDevice delete by key, not by session:
\* a stale entry would hide a live session or revive an ended one.
IndexExact ==
  \A i \in SessionId, k \in PairKeys :
    activeSessionIdByPairKey[k] = i <=> IsLive(i) /\ KeyOf(i) = k

\* Two devices have at most one session that is connecting or active.
OneLiveSessionPerPair ==
  \A i, j \in SessionId :
    IsLive(i) /\ IsLive(j) /\ Parties(i) = Parties(j) => i = j

\* An ended session never changes again: no answer, however late, revives it.
\* A session keeps its parties for good, and stays connected once it was.
EndedStaysEnded ==
  [][\A i \in SessionId :
       /\ sessions[i].status \in EndedStatus => sessions'[i] = sessions[i]
       /\ IsLive(i) => /\ sessions'[i].deviceA = sessions[i].deviceA
                       /\ sessions'[i].deviceB = sessions[i].deviceB
                       /\ sessions[i].connected => sessions'[i].connected]_sessionVars
=============================================================================
