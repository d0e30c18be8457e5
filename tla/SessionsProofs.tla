--------------------------- MODULE SessionsProofs ---------------------------
(***************************************************************************)
(* The invariants of Sessions, for every set of devices and session ids    *)
(* and every order of the ids.  None of them needs ids without separators. *)
(* What lets the index be updated by key and not by session is             *)
(* IndexExact itself: with it, the entry of a key is the live session.     *)
(***************************************************************************)
EXTENDS Sessions, TLAPS

\* The order of the two ids of a pair is normalised: neither the key nor the
\* parties depend on the order of the arguments ([a, b].sort()).
LEMMA PairNormalised ==
  ASSUME NEW a \in Device, NEW b \in Device
  PROVE  /\ FirstOf(a, b) \in Device /\ SecondOf(a, b) \in Device
         /\ {FirstOf(a, b), SecondOf(a, b)} = {a, b}
         /\ PairKey(a, b) \in PairKeys
         /\ PairKey(a, b) = PairKey(b, a)
         /\ PairKey(FirstOf(a, b), SecondOf(a, b)) = PairKey(a, b)
<1>1. Rank[a] \in Nat /\ Rank[b] \in Nat /\ (Rank[a] = Rank[b] => a = b)
  BY RankAssumption
<1>2. FirstOf(a, b) \in Device /\ SecondOf(a, b) \in Device
  BY DEF FirstOf, SecondOf
<1>3. {FirstOf(a, b), SecondOf(a, b)} = {a, b}
  BY DEF FirstOf, SecondOf
<1>4. PairKey(a, b) \in PairKeys
  BY DEF PairKeys
<1>5. FirstOf(a, b) = FirstOf(b, a) /\ SecondOf(a, b) = SecondOf(b, a)
  BY <1>1 DEF FirstOf, SecondOf
<1>6. PairKey(a, b) = PairKey(b, a)
  BY <1>5 DEF PairKey
<1>7. PairKey(FirstOf(a, b), SecondOf(a, b)) = PairKey(a, b)
  BY <1>3, <1>6 DEF FirstOf, SecondOf
<1> QED BY <1>2, <1>3, <1>4, <1>6, <1>7

\* Two sessions with the same two parties have the same key.
LEMMA SamePartiesSameKey ==
  ASSUME NEW a \in Device, NEW b \in Device, NEW c \in Device, NEW d \in Device,
         {a, b} = {c, d}
  PROVE  PairKey(a, b) = PairKey(c, d)
<1>1. (a = c /\ b = d) \/ (a = d /\ b = c)
  OBVIOUS
<1> QED BY <1>1, PairNormalised
-----------------------------------------------------------------------------
\* A session with an entry names two devices, and its key is one of the keys.
LEMMA SessionFacts ==
  ASSUME SessionsTypeOK, NEW i \in SessionId, sessions[i].status # "none"
  PROVE  /\ sessions[i] \in SessionRecord
         /\ sessions[i].deviceA \in Device /\ sessions[i].deviceB \in Device
         /\ KeyOf(i) \in PairKeys
<1>1. sessions[i] \in SessionRecord
  BY DEF SessionsTypeOK, NoSession
<1> QED BY <1>1, PairNormalised DEF SessionRecord, KeyOf

\* A live session has an entry.
LEMMA LiveHasEntry ==
  ASSUME NEW i \in SessionId, IsLive(i)
  PROVE  sessions[i].status # "none"
BY DEF IsLive, LiveStatus

\* Every operation keeps the types.
LEMMA SessionsTypeStep ==
  SessionsTypeOK /\ [SessionsNext]_sessionVars => SessionsTypeOK'
<1> SUFFICES ASSUME SessionsTypeOK, [SessionsNext]_sessionVars
             PROVE  SessionsTypeOK'
  OBVIOUS
<1>1. ASSUME NEW a \in Device, NEW b \in Device, NEW c \in Device,
             GetOrCreateSession(a, b, c)
      PROVE  SessionsTypeOK'
  <2>1. CASE UNCHANGED sessionVars
    BY <2>1 DEF sessionVars, SessionsTypeOK
  <2>2. ASSUME NEW i \in SessionId, CreateSession(i, a, b, c)
        PROVE  SessionsTypeOK'
    <3>1. [status |-> "connecting", deviceA |-> FirstOf(a, b), deviceB |-> SecondOf(a, b),
           createdBy |-> c, connected |-> FALSE] \in SessionRecord
      BY PairNormalised DEF SessionRecord, LiveStatus
    <3> QED BY <2>2, <3>1, PairNormalised DEF CreateSession, SessionsTypeOK
  <2> QED BY <1>1, <2>1, <2>2 DEF GetOrCreateSession
<1>2. ASSUME NEW i \in SessionId, MarkSessionActive(i) PROVE SessionsTypeOK'
  <2>1. CASE sessions[i].status = "connecting"
    <3>1. sessions[i] \in SessionRecord
      BY <2>1, SessionFacts
    <3>2. [sessions[i] EXCEPT !.status = "active", !.connected = TRUE] \in SessionRecord
      BY <3>1 DEF SessionRecord, LiveStatus
    <3> QED BY <1>2, <2>1, <3>2 DEF MarkSessionActive, SessionsTypeOK
  <2>2. CASE sessions[i].status # "connecting"
    BY <1>2, <2>2 DEF MarkSessionActive, SessionsTypeOK
  <2> QED BY <2>1, <2>2
<1>3. ASSUME NEW i \in SessionId, CloseSession(i) PROVE SessionsTypeOK'
  <2>1. [sessions[i] EXCEPT !.status = "closed"] \in SessionRecord
    BY <1>3, SessionFacts, LiveHasEntry DEF CloseSession, SessionRecord, EndedStatus
  <2> QED BY <1>3, <2>1 DEF CloseSession, SessionsTypeOK
<1>4. ASSUME NEW d \in Device, FailSessionsForDevice(d) PROVE SessionsTypeOK'
  <2>1. ASSUME NEW i \in SessionId, IsLive(i)
        PROVE  [sessions[i] EXCEPT !.status = "failed"] \in SessionRecord
    BY <2>1, SessionFacts, LiveHasEntry DEF SessionRecord, EndedStatus
  <2>2. sessions' \in [SessionId -> SessionRecord \cup {NoSession}]
    BY <1>4, <2>1 DEF FailSessionsForDevice, SessionsTypeOK
  <2>3. activeSessionIdByPairKey' \in [PairKeys -> SessionId \cup {None}]
    BY <1>4 DEF FailSessionsForDevice, SessionsTypeOK
  <2> QED BY <2>2, <2>3 DEF SessionsTypeOK
<1>5. CASE UNCHANGED sessionVars
  BY <1>5 DEF sessionVars, SessionsTypeOK
<1> QED BY <1>1, <1>2, <1>3, <1>4, <1>5 DEF SessionsNext

\* Types of the session records and the index.
THEOREM SessionsTypeCorrect == SessionsSpec => []SessionsTypeOK
<1>1. SessionsInit => SessionsTypeOK
  BY DEF SessionsInit, SessionsTypeOK
<1> QED BY <1>1, SessionsTypeStep, PTL DEF SessionsSpec
-----------------------------------------------------------------------------
\* Creating a session is only asked for when the key has no live entry: the new
\* session then takes the key over from nobody.
LEMMA CreateKeepsIndexExact ==
  ASSUME SessionsTypeOK, IndexExact,
         NEW a \in Device, NEW b \in Device, NEW c \in Device, NEW i \in SessionId,
         LET existing == FindSessionByDevices(a, b)
         IN  ~ (existing # None /\ IsLive(existing)),
         CreateSession(i, a, b, c)
  PROVE  IndexExact'
<1> DEFINE key == PairKey(a, b)
<1>1. /\ key \in PairKeys
      /\ IsLive(i)' /\ KeyOf(i)' = key
      /\ ~ IsLive(i)
  BY PairNormalised DEF CreateSession, SessionsTypeOK, IsLive, LiveStatus, KeyOf
<1>2. ASSUME NEW j \in SessionId, j # i
      PROVE  (IsLive(j)' <=> IsLive(j)) /\ KeyOf(j)' = KeyOf(j)
  BY <1>2 DEF CreateSession, SessionsTypeOK, IsLive, KeyOf
<1>3. ASSUME NEW j \in SessionId, IsLive(j) PROVE KeyOf(j) # key
  <2>1. SUFFICES ASSUME KeyOf(j) = key PROVE FALSE
    OBVIOUS
  <2>2. activeSessionIdByPairKey[key] = j
    BY <1>1, <1>3, <2>1 DEF IndexExact
  <2> QED BY <1>3, <2>2, SessionIdAssumption DEF FindSessionByDevices
<1>4. \A k \in PairKeys :
        activeSessionIdByPairKey'[k] = IF k = key THEN i ELSE activeSessionIdByPairKey[k]
  BY <1>1 DEF CreateSession, SessionsTypeOK
<1> HIDE DEF key
<1> SUFFICES ASSUME NEW j \in SessionId, NEW k \in PairKeys
             PROVE  activeSessionIdByPairKey'[k] = j <=> IsLive(j)' /\ KeyOf(j)' = k
  BY DEF IndexExact
<1>5. CASE j = i
  BY <1>1, <1>4, <1>5 DEF IndexExact
<1>6. CASE j # i
  BY <1>2, <1>3, <1>4, <1>6 DEF IndexExact
<1> QED BY <1>5, <1>6

\* Every operation keeps the index exact.
LEMMA IndexExactStep ==
  SessionsTypeOK /\ IndexExact /\ [SessionsNext]_sessionVars => IndexExact'
<1> SUFFICES ASSUME SessionsTypeOK, IndexExact, [SessionsNext]_sessionVars
             PROVE  IndexExact'
  OBVIOUS
<1>0. CASE UNCHANGED sessionVars
  BY <1>0 DEF sessionVars, IndexExact, IsLive, KeyOf
<1>1. ASSUME NEW a \in Device, NEW b \in Device, NEW c \in Device,
             GetOrCreateSession(a, b, c)
      PROVE  IndexExact'
  BY <1>0, <1>1, CreateKeepsIndexExact DEF GetOrCreateSession
<1>2. ASSUME NEW i \in SessionId, MarkSessionActive(i) PROVE IndexExact'
  <2>1. \A j \in SessionId : (IsLive(j)' <=> IsLive(j)) /\ KeyOf(j)' = KeyOf(j)
    BY <1>2 DEF MarkSessionActive, SessionsTypeOK, IsLive, LiveStatus, KeyOf
  <2> QED BY <1>2, <2>1 DEF MarkSessionActive, IndexExact
<1>3. ASSUME NEW i \in SessionId, CloseSession(i) PROVE IndexExact'
  <2>1. ~ IsLive(i)' /\ IsLive(i) /\ KeyOf(i) \in PairKeys
    BY <1>3, SessionFacts, LiveHasEntry
       DEF CloseSession, SessionsTypeOK, IsLive, LiveStatus
  <2>2. ASSUME NEW j \in SessionId, j # i
        PROVE  (IsLive(j)' <=> IsLive(j)) /\ KeyOf(j)' = KeyOf(j)
    BY <1>3, <2>2 DEF CloseSession, SessionsTypeOK, IsLive, KeyOf
  <2>3. \A k \in PairKeys :
          activeSessionIdByPairKey'[k] = IF k = KeyOf(i) THEN None
                                         ELSE activeSessionIdByPairKey[k]
    BY <1>3, <2>1 DEF CloseSession, SessionsTypeOK
  <2>4. ASSUME NEW j \in SessionId, NEW k \in PairKeys
        PROVE  activeSessionIdByPairKey'[k] = j <=> IsLive(j)' /\ KeyOf(j)' = k
    <3>1. CASE j = i
      BY <2>1, <2>3, <3>1, SessionIdAssumption DEF IndexExact
    <3>2. CASE j # i
      BY <2>1, <2>2, <2>3, <3>2, SessionIdAssumption DEF IndexExact
    <3> QED BY <3>1, <3>2
  <2> QED BY <2>4 DEF IndexExact
<1>4. ASSUME NEW d \in Device, FailSessionsForDevice(d) PROVE IndexExact'
  <2> DEFINE failing == {i \in SessionId : IsLive(i) /\ d \in Parties(i)}
             keys    == {KeyOf(i) : i \in failing}
  <2>1. ASSUME NEW j \in SessionId
        PROVE  (IsLive(j)' <=> IsLive(j) /\ j \notin failing) /\ KeyOf(j)' = KeyOf(j)
    BY <1>4 DEF FailSessionsForDevice, SessionsTypeOK, IsLive, LiveStatus, KeyOf
  <2>2. \A k \in PairKeys :
          activeSessionIdByPairKey'[k] = IF k \in keys THEN None
                                         ELSE activeSessionIdByPairKey[k]
    BY <1>4 DEF FailSessionsForDevice
  <2>3. \A j \in SessionId : IsLive(j) => (KeyOf(j) \in keys <=> j \in failing)
    <3> SUFFICES ASSUME NEW j \in SessionId, IsLive(j), NEW i \in failing,
                        KeyOf(j) = KeyOf(i)
                 PROVE  i = j
      OBVIOUS
    <3>1. KeyOf(i) \in PairKeys
      BY SessionFacts, LiveHasEntry
    <3> QED BY <3>1 DEF IndexExact
  <2> HIDE DEF failing, keys
  <2> QED BY <2>1, <2>2, <2>3, SessionIdAssumption DEF IndexExact
<1> QED BY <1>0, <1>1, <1>2, <1>3, <1>4 DEF SessionsNext

\* The index files exactly the live sessions, although it is updated by key
\* (getOrCreateSession, closeSession, failSessionsForDevice).
THEOREM IndexIsExact == SessionsSpec => []IndexExact
<1>1. SessionsInit => IndexExact
  BY SessionIdAssumption DEF SessionsInit, NoSession, IndexExact, IsLive, LiveStatus
<1> QED BY <1>1, IndexExactStep, SessionsTypeCorrect, PTL DEF SessionsSpec

\* One entry per key means one live session per pair.
LEMMA ExactMeansOne == SessionsTypeOK /\ IndexExact => OneLiveSessionPerPair
<1> SUFFICES ASSUME SessionsTypeOK, IndexExact,
                    NEW i \in SessionId, NEW j \in SessionId,
                    IsLive(i), IsLive(j), Parties(i) = Parties(j)
             PROVE  i = j
  BY DEF OneLiveSessionPerPair
<1>1. /\ sessions[i].deviceA \in Device /\ sessions[i].deviceB \in Device
      /\ sessions[j].deviceA \in Device /\ sessions[j].deviceB \in Device
      /\ KeyOf(i) \in PairKeys
  BY SessionFacts, LiveHasEntry
<1>2. KeyOf(i) = KeyOf(j)
  BY <1>1, SamePartiesSameKey DEF Parties, KeyOf
<1> QED BY <1>1, <1>2 DEF IndexExact

\* Two devices never have two live sessions, whatever their ids are.
THEOREM OneLiveSession == SessionsSpec => []OneLiveSessionPerPair
BY IndexIsExact, SessionsTypeCorrect, ExactMeansOne, PTL
-----------------------------------------------------------------------------
\* An ended session never changes again, and a live one keeps its parties: a
\* late answer finds nothing to revive (markSessionActive, closeSession).
THEOREM EndedSessionsStayEnded == SessionsSpec => EndedStaysEnded
<1> DEFINE Kept ==
      \A i \in SessionId :
        /\ sessions[i].status \in EndedStatus => sessions'[i] = sessions[i]
        /\ IsLive(i) => /\ sessions'[i].deviceA = sessions[i].deviceA
                        /\ sessions'[i].deviceB = sessions[i].deviceB
                        /\ sessions[i].connected => sessions'[i].connected
<1>1. SessionsTypeOK /\ [SessionsNext]_sessionVars => [Kept]_sessionVars
  <2> SUFFICES ASSUME SessionsTypeOK, SessionsNext PROVE Kept
    OBVIOUS
  <2> USE DEF SessionsTypeOK, IsLive, LiveStatus, EndedStatus
  <2>1. ASSUME NEW a \in Device, NEW b \in Device, NEW c \in Device,
               GetOrCreateSession(a, b, c)
        PROVE  Kept
    <3>1. CASE UNCHANGED sessionVars
      BY <3>1 DEF sessionVars
    <3>2. ASSUME NEW i \in SessionId, CreateSession(i, a, b, c) PROVE Kept
      BY <3>2 DEF CreateSession
    <3> QED BY <2>1, <3>1, <3>2 DEF GetOrCreateSession
  <2>2. ASSUME NEW i \in SessionId, MarkSessionActive(i) PROVE Kept
    BY <2>2 DEF MarkSessionActive
  <2>3. ASSUME NEW i \in SessionId, CloseSession(i) PROVE Kept
    BY <2>3 DEF CloseSession
  <2>4. ASSUME NEW d \in Device, FailSessionsForDevice(d) PROVE Kept
    BY <2>4 DEF FailSessionsForDevice
  <2> QED BY <2>1, <2>2, <2>3, <2>4 DEF SessionsNext
<1> QED BY <1>1, SessionsTypeCorrect, PTL DEF SessionsSpec, EndedStaysEnded
=============================================================================
