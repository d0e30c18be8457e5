------------------------------ MODULE Presence ------------------------------
(***************************************************************************)
(* Device presence: the three maps of the signaling service that say which *)
(* device is registered on which socket, and the gateway handlers that     *)
(* change them and nothing else.  Handlers are synchronous, so each is one *)
(* step.  A heartbeat timestamp is kept as an age in ticks that stops at   *)
(* HeartbeatTimeout: the code only asks whether that age is reached.       *)
(***************************************************************************)
EXTENDS Identifiers

CONSTANTS
  Socket,            \* connections; socket.io never gives an id twice
  HeartbeatTimeout,  \* DEVICE_HEARTBEAT_TIMEOUT_MS, in ticks
  KickOutcomes       \* can the handler reach the socket it replaces?

ASSUME PresenceAssumption ==
  /\ None \notin Socket
  /\ HeartbeatTimeout \in Nat \ {0}
  /\ KickOutcomes \subseteq BOOLEAN

VARIABLES
  connection,          \* what socket.io knows of each socket
  devices,             \* devicesByDeviceId
  deviceIdBySocketId,
  socketIdByDeviceId,
  shared               \* history: the sockets that have come to speak for another device

presenceVars ==
  <<connection, devices, deviceIdBySocketId, socketIdByDeviceId, shared>>

\* "unknown" stands for a device id without an entry in devicesByDeviceId.
DeviceRecord ==
  [status   : {"unknown", "online", "stale", "offline"},
   socketId : Socket \cup {None},
   age      : 0..HeartbeatTimeout]

PresenceTypeOK ==
  /\ connection \in [Socket -> {"unused", "open", "closed"}]
  /\ devices \in [Device -> DeviceRecord]
  /\ deviceIdBySocketId \in [Socket -> Device \cup {None}]
  /\ socketIdByDeviceId \in [Device -> Socket \cup {None}]
  /\ shared \subseteq Socket

PresenceInit ==
  /\ connection = [s \in Socket |-> "unused"]
  /\ devices = [d \in Device |->
                  [status |-> "unknown", socketId |-> None, age |-> 0]]
  /\ deviceIdBySocketId = [s \in Socket |-> None]
  /\ socketIdByDeviceId = [d \in Device |-> None]
  /\ shared = {}
-----------------------------------------------------------------------------
\* getDeviceBySocketId answers a device: the first check of every handler.
IsRegistered(s) ==
  /\ connection[s] = "open"
  /\ deviceIdBySocketId[s] # None
  /\ devices[deviceIdBySocketId[s]].status # "unknown"

\* getDeviceByDeviceId answers a device: it can be the target of a message.
IsOnline(d) == devices[d].status = "online" /\ devices[d].socketId # None

\* Mutant: the replaced socket goes on speaking for the device.
RegisterKeepsOldSocket(s, d) ==
  /\ devices' = [devices EXCEPT ![d] = [status |-> "online", socketId |-> s, age |-> 0]]
  /\ deviceIdBySocketId' = [deviceIdBySocketId EXCEPT ![s] = d]
  /\ socketIdByDeviceId' = [socketIdByDeviceId EXCEPT ![d] = s]

RegisterDevice(s, d) ==
  LET existing == socketIdByDeviceId[d]
  IN  /\ devices' = [devices EXCEPT
                       ![d] = [status |-> "online", socketId |-> s, age |-> 0]]
      /\ deviceIdBySocketId' =
           [x \in Socket |-> IF x = s THEN d
                             ELSE IF x = existing THEN None
                             ELSE deviceIdBySocketId[x]]
      /\ socketIdByDeviceId' = [socketIdByDeviceId EXCEPT ![d] = s]

UnregisterSocket(s) ==
  LET d == deviceIdBySocketId[s]
  IN  IF d = None \/ devices[d].status = "unknown"
      THEN /\ deviceIdBySocketId' = [deviceIdBySocketId EXCEPT ![s] = None]
           /\ UNCHANGED <<devices, socketIdByDeviceId>>
      ELSE /\ deviceIdBySocketId' = [deviceIdBySocketId EXCEPT ![s] = None]
           /\ socketIdByDeviceId' = [socketIdByDeviceId EXCEPT
                                       ![d] = IF @ = s THEN None ELSE @]
           /\ devices' = [devices EXCEPT ![d].status = "offline",
                                         ![d].socketId = None]

\* Mutant: devices whose socket is closed are left to the disconnect handler.
IsExpiredWhileConnected(d) ==
  /\ IsOnline(d) /\ connection[devices[d].socketId] = "open"
  /\ devices[d].age >= HeartbeatTimeout

\* pruneExpiredDevices: only online devices with a socket are looked at.
IsExpired(d) == IsOnline(d) /\ devices[d].age >= HeartbeatTimeout

\* Mutant: a status that only connection requests have.
PruneToExpired ==
  devices' = [d \in Device |->
                IF IsExpired(d) THEN [devices[d] EXCEPT !.status = "expired"]
                                ELSE devices[d]]

PruneExpiredDevices ==
  devices' = [d \in Device |->
                IF IsExpired(d) THEN [devices[d] EXCEPT !.status = "stale"]
                                ELSE devices[d]]
-----------------------------------------------------------------------------
HandleConnection(s) ==
  /\ connection[s] = "unused"
  /\ connection' = [connection EXCEPT ![s] = "open"]
  /\ UNCHANGED <<devices, deviceIdBySocketId, socketIdByDeviceId, shared>>

\* The replaced socket is looked up in server.sockets.sockets and closed.  Its
\* own disconnect handler then finds no device (RegisterDevice removed it) and
\* returns early.  When the lookup fails nothing is closed: there is no such
\* socket, or the lookup throws because a gateway with a namespace is given a
\* socket.io Namespace, whose "sockets" is already the map.
HandleRegister(s, d) ==
  LET existing == socketIdByDeviceId[d]
  IN  /\ connection[s] = "open"
      /\ RegisterDevice(s, d)
      /\ shared' = IF deviceIdBySocketId[s] \in {None, d} THEN shared ELSE shared \cup {s}
      /\ IF existing \notin {None, s}
         THEN \E reached \in KickOutcomes :
                connection' = [connection EXCEPT
                                 ![existing] = IF reached THEN "closed" ELSE @]
         ELSE UNCHANGED connection

\* Mutant: the time is refreshed, the status is not.
HeartbeatKeepsStatus(s) ==
  /\ IsRegistered(s)
  /\ devices' = [devices EXCEPT ![deviceIdBySocketId[s]].age = 0]
  /\ UNCHANGED <<connection, deviceIdBySocketId, socketIdByDeviceId, shared>>

HandleHeartbeat(s) ==
  LET d == deviceIdBySocketId[s]
  IN  /\ IsRegistered(s)
      /\ devices' = [devices EXCEPT
                       ![d] = [status |-> "online", socketId |-> s, age |-> 0]]
      /\ deviceIdBySocketId' = [deviceIdBySocketId EXCEPT ![s] = d]
      /\ socketIdByDeviceId' = [socketIdByDeviceId EXCEPT ![d] = s]
      /\ UNCHANGED <<connection, shared>>

\* The part of handleDisconnect that concerns presence.
SocketGone(s) ==
  /\ connection[s] = "open"
  /\ connection' = [connection EXCEPT ![s] = "closed"]
  /\ UnregisterSocket(s)
  /\ UNCHANGED shared

HandleHeartbeatTimeouts ==
  /\ PruneExpiredDevices
  /\ UNCHANGED <<connection, deviceIdBySocketId, socketIdByDeviceId, shared>>

\* A tick of the clock: every timestamp gets older.
AgeDevices ==
  /\ devices' = [d \in Device |->
                   IF devices[d].status # "unknown"
                      /\ devices[d].age < HeartbeatTimeout
                   THEN [devices[d] EXCEPT !.age = @ + 1]
                   ELSE devices[d]]
  /\ UNCHANGED <<connection, deviceIdBySocketId, socketIdByDeviceId, shared>>

PresenceNext ==
  \/ \E s \in Socket :
       \/ HandleConnection(s)
       \/ \E d \in Device : HandleRegister(s, d)
       \/ HandleHeartbeat(s)
       \/ SocketGone(s)
  \/ HandleHeartbeatTimeouts
  \/ AgeDevices

PresenceSpec == PresenceInit /\ [][PresenceNext]_presenceVars
-----------------------------------------------------------------------------
\* How far the three maps agree.  A socket that speaks for a device is open and is
\* the one both other maps name for it.  The converse has one exception: the socket
\* a device is filed under speaks for it unless it has come to speak for another
\* device.  So it is whatever the order in which devices register again, sockets
\* change device, are replaced, closed or left open, and late disconnects arrive
\* (registerDevice and unregisterSocket each repair only part of the maps).
RegistryCoherent ==
  /\ \A s \in Socket :
       LET d == deviceIdBySocketId[s]
       IN  d # None => /\ connection[s] = "open"
                       /\ socketIdByDeviceId[d] = s
  /\ \A d \in Device :
       LET s == socketIdByDeviceId[d]
       IN  /\ devices[d].socketId = s
           /\ s = None <=> devices[d].status \in {"unknown", "offline"}
           /\ s # None => s \in shared \/ deviceIdBySocketId[s] = d

\* A device is stale only while its last heartbeat is at least the timeout old:
\* a heartbeat or a new registration always makes it online again
\* (pruneExpiredDevices against refreshHeartbeat and registerDevice).
StaleMeansSilent ==
  \A d \in Device : devices[d].status = "stale" => devices[d].age = HeartbeatTimeout

\* What doc/p2p-webrtc.md says of the statuses: an online or stale device still
\* has its connection, a device whose socket closed is offline.
PresentMeansConnected ==
  \A d \in Device :
    devices[d].status \in {"online", "stale"} => connection[devices[d].socketId] = "open"
=============================================================================
