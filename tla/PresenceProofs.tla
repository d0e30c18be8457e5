--------------------------- MODULE PresenceProofs ---------------------------
(***************************************************************************)
(* The invariants of Presence, proved for every set of devices and sockets *)
(* and every timeout.  RegistryCoherent is inductive relative to the types;*)
(* no strengthening is needed, but its two halves need each other: a       *)
(* socket is taken from its device only through socketIdByDeviceId.        *)
(***************************************************************************)
EXTENDS Presence, TLAPS

\* Every handler keeps the types.
LEMMA PresenceTypeStep ==
  PresenceTypeOK /\ [PresenceNext]_presenceVars => PresenceTypeOK'
<1> SUFFICES ASSUME PresenceTypeOK, [PresenceNext]_presenceVars
             PROVE  PresenceTypeOK'
  OBVIOUS
<1> USE PresenceAssumption DEF PresenceTypeOK, DeviceRecord
<1>1. ASSUME NEW s \in Socket, HandleConnection(s) PROVE PresenceTypeOK'
  BY <1>1 DEF HandleConnection
<1>2. ASSUME NEW s \in Socket, NEW d \in Device, HandleRegister(s, d)
      PROVE  PresenceTypeOK'
  <2>1. /\ devices' \in [Device -> DeviceRecord]
        /\ deviceIdBySocketId' \in [Socket -> Device \cup {None}]
        /\ socketIdByDeviceId' \in [Device -> Socket \cup {None}]
    BY <1>2 DEF HandleRegister, RegisterDevice
  <2>2. connection' \in [Socket -> {"unused", "open", "closed"}]
    BY <1>2 DEF HandleRegister
  <2>3. shared' \subseteq Socket
    BY <1>2 DEF HandleRegister
  <2> QED BY <2>1, <2>2, <2>3
<1>3. ASSUME NEW s \in Socket, HandleHeartbeat(s) PROVE PresenceTypeOK'
  BY <1>3 DEF HandleHeartbeat, IsRegistered
<1>4. ASSUME NEW s \in Socket, SocketGone(s) PROVE PresenceTypeOK'
  <2>1. connection' \in [Socket -> {"unused", "open", "closed"}] /\ shared' \subseteq Socket
    BY <1>4 DEF SocketGone
  <2>2. deviceIdBySocketId' \in [Socket -> Device \cup {None}]
    BY <1>4 DEF SocketGone, UnregisterSocket
  <2>3. CASE UNCHANGED <<devices, socketIdByDeviceId>>
    BY <2>1, <2>2, <2>3
  <2>4. CASE ~ UNCHANGED <<devices, socketIdByDeviceId>>
    <3> DEFINE d == deviceIdBySocketId[s]
    <3>1. /\ d \in Device
          /\ socketIdByDeviceId' = [socketIdByDeviceId EXCEPT
                                      ![d] = IF @ = s THEN None ELSE @]
          /\ devices' = [devices EXCEPT ![d].status = "offline",
                                        ![d].socketId = None]
      BY <1>4, <2>4 DEF SocketGone, UnregisterSocket
    <3> HIDE DEF d
    <3>2. devices' \in [Device -> DeviceRecord]
      BY <3>1
    <3>3. socketIdByDeviceId' \in [Device -> Socket \cup {None}]
      BY <3>1
    <3> QED BY <2>1, <2>2, <3>2, <3>3
  <2> QED BY <2>3, <2>4
<1>5. CASE HandleHeartbeatTimeouts
  BY <1>5 DEF HandleHeartbeatTimeouts, PruneExpiredDevices
<1>6. CASE AgeDevices
  <2>1. devices' \in [Device -> DeviceRecord]
    BY <1>6 DEF AgeDevices
  <2> QED BY <2>1, <1>6 DEF AgeDevices
<1>7. CASE UNCHANGED presenceVars
  BY <1>7 DEF presenceVars
<1> QED BY <1>1, <1>2, <1>3, <1>4, <1>5, <1>6, <1>7 DEF PresenceNext

\* Types: the maps of the service keep their ranges, and no age passes the
\* timeout (every handler of Presence).
THEOREM PresenceTypeCorrect == PresenceSpec => []PresenceTypeOK
<1>1. PresenceInit => PresenceTypeOK
  BY PresenceAssumption DEF PresenceInit, PresenceTypeOK, DeviceRecord
<1> QED BY <1>1, PresenceTypeStep, PTL DEF PresenceSpec
-----------------------------------------------------------------------------
\* What a step that only rewrites the status or age of present devices does to
\* the coherence of the maps: nothing (pruneExpiredDevices and the clock).
LEMMA StatusStepKeepsCoherence ==
  ASSUME RegistryCoherent,
         UNCHANGED <<connection, deviceIdBySocketId, socketIdByDeviceId, shared>>,
         \A d \in Device :
           /\ devices'[d].socketId = devices[d].socketId
           /\ devices'[d].status \in {"unknown", "offline"} <=>
                devices[d].status \in {"unknown", "offline"}
  PROVE  RegistryCoherent'
BY DEF RegistryCoherent

\* Every handler keeps the three maps coherent.
LEMMA RegistryCoherentStep ==
  PresenceTypeOK /\ RegistryCoherent /\ [PresenceNext]_presenceVars => RegistryCoherent'
<1> SUFFICES ASSUME PresenceTypeOK, RegistryCoherent, [PresenceNext]_presenceVars
             PROVE  RegistryCoherent'
  OBVIOUS
<1> USE PresenceAssumption, DeviceAssumption DEF PresenceTypeOK, DeviceRecord
<1>1. ASSUME NEW s \in Socket, HandleConnection(s) PROVE RegistryCoherent'
  BY <1>1 DEF HandleConnection, RegistryCoherent
<1>2. ASSUME NEW s \in Socket, NEW d \in Device, HandleRegister(s, d)
      PROVE  RegistryCoherent'
  <2> DEFINE existing == socketIdByDeviceId[d]
  <2>1. /\ devices' = [devices EXCEPT
                         ![d] = [status |-> "online", socketId |-> s, age |-> 0]]
        /\ socketIdByDeviceId' = [socketIdByDeviceId EXCEPT ![d] = s]
        /\ \A x \in Socket :
             deviceIdBySocketId'[x] = IF x = s THEN d
                                      ELSE IF x = existing THEN None
                                      ELSE deviceIdBySocketId[x]
    BY <1>2 DEF HandleRegister, RegisterDevice
  <2>2. /\ connection[s] = "open"
        /\ connection'[s] = "open"
        /\ \A x \in Socket : x # existing => connection'[x] = connection[x]
        /\ shared \subseteq shared'
        /\ deviceIdBySocketId[s] \notin {None, d} => s \in shared'
    BY <1>2 DEF HandleRegister
  <2>3. ASSUME NEW x \in Socket, deviceIdBySocketId'[x] # None
        PROVE  /\ connection'[x] = "open"
               /\ socketIdByDeviceId'[deviceIdBySocketId'[x]] = x
    <3>1. CASE x = s
      BY <3>1, <2>1, <2>2
    <3>2. CASE x # s
      <4>1. x # existing /\ deviceIdBySocketId'[x] = deviceIdBySocketId[x]
        BY <3>2, <2>1, <2>3
      <4>2. deviceIdBySocketId[x] # d
        BY <4>1, <2>3 DEF RegistryCoherent
      <4> QED BY <4>1, <4>2, <2>1, <2>2, <2>3 DEF RegistryCoherent
    <3> QED BY <3>1, <3>2
  <2>4. ASSUME NEW e \in Device
        PROVE  /\ devices'[e].socketId = socketIdByDeviceId'[e]
               /\ devices'[e].socketId = None <=> devices'[e].status \in {"unknown", "offline"}
               /\ socketIdByDeviceId'[e] # None =>
                    \/ socketIdByDeviceId'[e] \in shared'
                    \/ deviceIdBySocketId'[socketIdByDeviceId'[e]] = e
    <3>1. CASE e = d
      BY <3>1, <2>1
    <3>2. CASE e # d
      <4> DEFINE x == socketIdByDeviceId[e]
      <4>1. devices'[e] = devices[e] /\ socketIdByDeviceId'[e] = x
        BY <3>2, <2>1
      <4>2. CASE x # None /\ x \notin shared
        <5>1. deviceIdBySocketId[x] = e /\ x \in Socket
          BY <4>2 DEF RegistryCoherent
        <5>2. CASE x = s
          BY <3>2, <4>1, <5>1, <5>2, <2>2 DEF RegistryCoherent
        <5>3. CASE x # s
          <6>1. x # existing
            BY <3>2, <4>2, <5>1 DEF RegistryCoherent
          <6> QED BY <4>1, <5>1, <5>3, <6>1, <2>1 DEF RegistryCoherent
        <5> QED BY <5>2, <5>3
      <4> QED BY <4>1, <4>2, <2>2 DEF RegistryCoherent
    <3> QED BY <3>1, <3>2
  <2> QED BY <2>3, <2>4 DEF RegistryCoherent
<1>3. ASSUME NEW s \in Socket, HandleHeartbeat(s) PROVE RegistryCoherent'
  BY <1>3 DEF HandleHeartbeat, IsRegistered, RegistryCoherent
<1>4. ASSUME NEW s \in Socket, SocketGone(s) PROVE RegistryCoherent'
  <2> DEFINE d == deviceIdBySocketId[s]
  <2>1. /\ connection[s] = "open"
        /\ connection' = [connection EXCEPT ![s] = "closed"]
        /\ deviceIdBySocketId' = [deviceIdBySocketId EXCEPT ![s] = None]
        /\ UNCHANGED shared
    BY <1>4 DEF SocketGone, UnregisterSocket
  <2>2. CASE d = None
    <3>1. UNCHANGED <<devices, socketIdByDeviceId>>
      BY <2>2, <1>4 DEF SocketGone, UnregisterSocket
    <3> QED BY <2>1, <2>2, <3>1 DEF RegistryCoherent
  <2>3. CASE d # None
    <3>1. d \in Device /\ socketIdByDeviceId[d] = s /\ devices[d].status # "unknown"
      BY <2>3 DEF RegistryCoherent
    <3>2. /\ socketIdByDeviceId' = [socketIdByDeviceId EXCEPT ![d] = None]
          /\ devices' = [devices EXCEPT ![d].status = "offline", ![d].socketId = None]
      BY <2>3, <3>1, <1>4 DEF SocketGone, UnregisterSocket
    <3> QED BY <2>1, <3>1, <3>2 DEF RegistryCoherent
  <2> QED BY <2>2, <2>3
<1>5. CASE HandleHeartbeatTimeouts
  BY <1>5, StatusStepKeepsCoherence
     DEF HandleHeartbeatTimeouts, PruneExpiredDevices, IsExpired, IsOnline
<1>6. CASE AgeDevices
  BY <1>6, StatusStepKeepsCoherence DEF AgeDevices
<1>7. CASE UNCHANGED presenceVars
  BY <1>7 DEF presenceVars, RegistryCoherent
<1> QED BY <1>1, <1>2, <1>3, <1>4, <1>5, <1>6, <1>7 DEF PresenceNext

\* The three maps agree in every reachable state, for any number of devices and
\* sockets and whether or not replaced sockets can be closed (registerDevice,
\* refreshHeartbeat, unregisterSocket).
THEOREM RegistryIsCoherent == PresenceSpec => []RegistryCoherent
<1>1. PresenceInit => RegistryCoherent
  BY PresenceAssumption DEF PresenceInit, RegistryCoherent
<1> QED BY <1>1, RegistryCoherentStep, PresenceTypeCorrect, PTL DEF PresenceSpec
-----------------------------------------------------------------------------
\* A device is stale only while its last heartbeat is as old as the timeout
\* (pruneExpiredDevices, refreshHeartbeat).
THEOREM StaleIsSilent == PresenceSpec => []StaleMeansSilent
<1>1. PresenceInit => StaleMeansSilent
  BY DEF PresenceInit, StaleMeansSilent
<1>2. PresenceTypeOK /\ StaleMeansSilent /\ [PresenceNext]_presenceVars => StaleMeansSilent'
  <2> SUFFICES ASSUME PresenceTypeOK, StaleMeansSilent, [PresenceNext]_presenceVars,
                      NEW d \in Device, devices'[d].status = "stale"
               PROVE  devices'[d].age = HeartbeatTimeout
    BY DEF StaleMeansSilent
  <2> USE PresenceAssumption DEF PresenceTypeOK, DeviceRecord
  <2>1. ASSUME NEW s \in Socket,
               \/ HandleConnection(s)
               \/ \E e \in Device : HandleRegister(s, e)
               \/ HandleHeartbeat(s)
               \/ SocketGone(s)
        PROVE  devices[d].status = "stale" /\ devices'[d] = devices[d]
    BY <2>1 DEF HandleConnection, HandleRegister, RegisterDevice, HandleHeartbeat,
                IsRegistered, SocketGone, UnregisterSocket
  <2>2. CASE HandleHeartbeatTimeouts
    <3>1. devices'[d].age = devices[d].age /\ devices[d].age \in 0..HeartbeatTimeout
      BY <2>2 DEF HandleHeartbeatTimeouts, PruneExpiredDevices
    <3>2. CASE IsExpired(d)
      <4>1. \A n \in 0..HeartbeatTimeout : n >= HeartbeatTimeout => n = HeartbeatTimeout
        OBVIOUS
      <4> QED BY <3>1, <3>2, <4>1 DEF IsExpired
    <3>3. CASE ~ IsExpired(d)
      <4>1. devices'[d] = devices[d]
        BY <3>3, <2>2 DEF HandleHeartbeatTimeouts, PruneExpiredDevices
      <4> QED BY <4>1 DEF StaleMeansSilent
    <3> QED BY <3>2, <3>3
  <2>3. CASE AgeDevices
    BY <2>3 DEF AgeDevices, StaleMeansSilent
  <2>4. CASE UNCHANGED presenceVars
    BY <2>4 DEF presenceVars, StaleMeansSilent
  <2> QED BY <2>1, <2>2, <2>3, <2>4 DEF PresenceNext, StaleMeansSilent
<1> QED BY <1>1, <1>2, PresenceTypeCorrect, PTL DEF PresenceSpec
=============================================================================
