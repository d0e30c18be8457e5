# Verification of the file transfer service

This directory holds TLA+ modules of the service in `src/`, the TLC configurations
that check them on small instances, and proofs, checked by TLAPS, that hold for every
value of the constants. Paths such as `src/src/signaling/signaling.service.ts` are
relative to the repository's root.

## 1. The system

A NestJS server has two halves that share nothing but the process.

* **Signaling** (`src/src/signaling`, `src/src/transfers`). Browsers open a socket.io
  connection to the namespace `/signaling`, register a device id, ask another device for
  a connection, exchange WebRTC offers, answers and candidates through the server, and
  report the progress of transfers that run on their own data channel. All state is in
  the maps of one `SignalingService`; nothing is persisted.
* **File storage** (`src/src/app.service.ts`, `app.controller.ts`). HTTP uploads and
  downloads through the server, with rows in a database, files on disk, a trash and a
  cleaner.

### Components

| Component | State | Operations | Hard behaviour | What makes it correct |
|---|---|---|---|---|
| Device presence | `devicesByDeviceId`, `deviceIdBySocketId`, `socketIdByDeviceId`, the sockets | register, heartbeat, heartbeat timer (15 s), disconnect | a device registers again from a second socket while the first is open; a socket changes its device; a late disconnect of a replaced socket; a heartbeat against the timer | the maps agree; stale means silent; silence is noticed |
| Connection requests | `requestsByRequestId` | create, respond, cancel, expiry timer (15 s) | four ways to decide a request race; both devices may go | decided once, and in the end always |
| Sessions | `sessionsBySessionId`, `activeSessionIdByPairKey` | get or create, mark active, close, fail for a device | late answers; both sides ask and accept at once; the index is deleted by key, not by session | exact index; one live session per pair; an ended session stays ended |
| Transfer records | `transferRecordsByTransferId` | start, progress, complete, failed, cancel; hide, restore and delete over HTTP | the two sides' events arrive in any order, also after the session ended or the record was deleted | handshake in order; outcome final; fields agree with the status |
| Signaling gateway | none of its own; the clients' view of the maps | every socket event on the four maps above, and what is pushed to whom | steps that touch several components; order of events of different sockets; a push goes to the socket a device has at that moment | consent, presence and transfers agree with sessions; the abstract links; what a client has read or been told never goes stale |
| File storage | rows, files, requests under way | upload, list, download, delete, trash, restore, empty, cleaner | every `await` between a check and its use: restore against the cleaner, download against delete, quota against uploads, a crash between file and row | a live row has its file; a file goes before its row; the limit holds; the trash empties |
| Rate limit | tokens of a stream | transform of a chunk, multer storage engine | a failed pipeline leaves a partial file | no more bytes than time allows |
| File names | the name in the row | normalise a latin1 name at storage, creation, answer, list and download | applied again to a name that is already right | a download has the name of the upload |
| Browser data channel | per page: `dataChannel`, `receivingTransfer`, the runs of `sendSelectedFile` | start, replace, close; send a file in chunks; receive control messages and chunks | a send awaits between chunks while the channel is closed or replaced or another file is sent; two ways to finish a file | what is offered for download is the file sent, once; it arrives unless something failed |
| Queries over HTTP | none of its own | list requests, sessions, a page of transfers | hidden and deleted records are left out by default; a client reads at any time, or never | an answer and what was pushed agree |
| Validation, wiring, deployment | none | | | |

How they interact: a socket event enters the gateway, which asks the service for the
device of the socket (`requireRegisteredDevice`), checks the caller's part in the request,
session or transfer, calls one or two operations of the service and pushes the result.
Accepting a request opens a session; an answer activates it; a disconnect fails the
sessions of the device; a transfer starts only inside an active session. The HTTP
controllers read the same maps and hide or delete transfer records.

### Concurrency

Every signaling handler is synchronous from its first check to its last assignment
(`async` handlers contain no `await` before they are done with the state), so a handler is
one step and what interleaves is the order in which sockets' events, HTTP calls and timers
arrive. A handler that throws has changed nothing, with one exception: in `handleRegister`
the lookup of the replaced socket comes after the registry has changed. The gateway is
declared with a namespace (`signaling.gateway.ts:43`), so `this.server` is a socket.io
`Namespace`, whose `sockets` is already the map: `this.server.sockets.sockets` is undefined
and `.get` on it throws (`signaling.gateway.ts:135`). The replaced socket then stays open
without a device. With a `Server` there, or a different adapter, the socket is closed.
`KickOutcomes` is the set of outcomes an instance explores; all runs explore both, and
every theorem holds for both. A restart of the process loses all maps and all sockets
and ids are random, so a restarted server is another behaviour from `Init`.

The HTTP half is the opposite: its state is in a database and on disk and survives a
restart, and each of its operations awaits between a check and what relies on it. There a
step is what happens up to the next `await`, requests and the cleaner interleave at every
one of them, a step may fail, and the process may stop between any two. One failure of
the HTTP half reaches the other: a download whose file is gone when its stream opens ends
the process (section 4), and with it all signaling state.

The browser page (`src/public/webrtc-test.js`) is a client of the signaling half and sends files
to another page, not through the server. Each click starts a run of `sendSelectedFile`, which
awaits the bytes of each chunk and, after every 32nd, a timer; runs interleave there, and the
channel may be closed or replaced meanwhile. What a page does with a message is one step.

## 2. The modules

| Module | Stands for | Contents |
|---|---|---|
| `Identifiers` | device ids, `getDevicePairKey` | ids as sequences of segments between `::`, the sort order as `Rank`, the pair key |
| `Presence` | the three maps and the sockets | `RegisterDevice`, `UnregisterSocket`, `PruneExpiredDevices`, the presence handlers, `PresenceSpec`; `shared` is a history variable of the sockets that have come to speak for another device |
| `ConnectionRequests` | `requestsByRequestId` | create, respond, cancel, expire, `RequestsSpec` |
| `Sessions` | session records and their index | get or create, activate, close, fail for a device, `SessionsSpec` |
| `Transfers` | transfer records | creation, `MarkTransferStatus` under each handler's conditions, visibility, deletion, `TransfersSpec`; `reports` is a history variable of who reported what |
| `Signaling` | the gateway over the service | one action per socket event, HTTP call and timer on the four components together; `Spec`, `FairSpec` |
| `PairLinks` | the abstract promise | devices that are there, and pairs that are connecting or active; no sockets, keys, ids or index |
| `Notifications` | the `emit...` methods of the gateway | every action of `Signaling` together with whom its emits reach; the GET queries; what the client behind each socket knows then, and the online list sent last; `NotifySpec` |
| `DataChannel` | the channel and the files of `webrtc-test.js` | the channels' ends on both pages, the runs of `sendSelectedFile`, the transfer being received; `ChannelSpec`, `FairChannelSpec` |
| `FileNames` | `file-name.util.ts` where it is called | UTF-8 and latin1 decoding, computed; upload and download of a name |
| `FileStore` | `AppService`, `AppController.downloadFile`, `RateLimitedDiskStorage` | rows, files, uploads and other requests under way, one action per `await`; the cleaner; failures and restarts; `FileSpec`, `FairFileSpec` |
| `TrashBin` | the abstract promise | files that are live, in the trash or gone; who may remove them; no requests, awaits, failures or restarts |
| `MCSignaling`, `MCNotifications`, `MCFileStore`, `MCDataChannel` | instances for TLC | ids, files, symmetry and the bounds `Quiet` and `Unshared` |
| `PresenceProofs`, `RequestsProofs`, `SessionsProofs`, `TransfersProofs` | | theorems of each component's own specification |
| `SignalingProofs` | | the composed system: it implements the four components; cross-component invariants; the refinement of `PairLinks` |
| `NotificationsProofs` | | `NotifySpec` implements `Signaling`; nobody is behind; the online list |
| `FileStoreProofs` | | theorems of the file storage; the refinement of `TrashBin` |
| `DataChannelProofs` | | theorems of the data channel |

An operation of the service keeps its name with a capital letter; the action of a
gateway handler is named after the handler. An entry that a map does not have is a record
with status `"none"` (`"unknown"` for a device) whose other fields are `None`. A time that
is only compared with a timeout is an age in ticks that stops at the timeout. A nullable
time that is only asked for null is a Boolean (`connected`, `started`, `completed`, ...).
An operator whose comment begins with "Mutant:" is a plausible wrong version of the
definition after it and is used by no specification: with it in place of the right one, the
run that checks the property fails.

In `FileStore` a file, its row and its upload are one value of `File`, since a path is a
random name that is never used again: `disk` says what is at the path, `rows` what the
database says. `uploads[f].pc` is how far the upload has come, `calls[c]` what another request
is about to do: to which file, and for `emptyTrash` and the cleaner to which files of the list
it has read. The sizes are counted in files (`Limit` is a number of files), and a file being
written may or may not count. `failures` counts what went wrong, up to the bound `MaxFailures`;
`recorded`, `trashed` and `missed` are history variables no action reads. `RefuseUpload` and
`SweepUnlinkFails` stand for every error the code catches there, `RefuseUploadFails` and
`UploadBreaks` for those after which nobody removes the file. `createFileRecord`'s check of a
single file's size never finds one too large, because multer cuts such a stream and discards
the file (`UploadDiscarded`); the second update, which sets the row's `url`, is not a
step, because nobody reads that column. `Entry`, `Data` and `Claimed` are the refinement mapping
to `TrashBin`: a file is `"gone"` when it had a row and has none, and it is claimed while it is on
the list of a sweep. `isTrashCleanupEnabled` is taken to be true and
the retention positive; otherwise the cleaner does nothing.

`Notifications` adds to each action of `Signaling` what the gateway emits in it. socket.io
delivers to an open socket in order and nothing is waited for, so an emit is part of its
handler's step. `known[s][x]` is the status of record `x` as the client behind socket `s` knows
it. A client that registers is told nothing of what is already there: it is `"unread"` until an
update of it reaches the socket or the client asks for it (`NotifyRead`), which it may do at any
time or never; no property assumes that it does. `GET /signaling/connection-requests` and
`GET /signaling/sessions` answer all records there are. `GET /transfers` answers a page of what
`QueryTransferRecords` lets through, by default neither hidden nor deleted records; a page, like the
filters by session, status and date, is any part of that. A record the answer leaves out
stays as it was to the client. Taken from the environment (`Read`): the answer is used in one
step, and does not replace what has been pushed since it was asked for. An update
goes to the socket the party's record names (`Reaches`),
which may have come to speak for another device; the client then takes no notice (`Concerns`).
`listed` is the list of the last `server:online-list`. Both are history variables.
`handleOffer` and `handleCandidate` only forward and have no action.

In `DataChannel` files go from one page to the other; each page sends and receives with separate
state, so the other direction is the same again. A chunk is `<<i, f>>`, but the code that
receives it looks at `i` alone, because the packet's header has nothing else. `sends[f].next` is
the next chunk and `pc` the `await` the run is at. An end that is closed drops what is on
its way to it, and a send on a channel that is not open throws (`SendThrows`); a send may also
fail otherwise, as when the channel's buffer is full (`SendFails`). `mixed` is the set
of runs that shared their channel with another one.

`FileNames` computes on code units: what the browser sends as UTF-8 and multer reads as
latin1 (`Received`, external), and `normalizeUploadedFilename` by what it does to each byte. Its
names are of the basic plane; the ASCII fallback `filename=` of the header is left out, since a
browser prefers `filename*`.

Left out: texts, sizes and the payloads of offers, answers and candidates, and close reasons.

## 3. The runs

| Run | Configuration | Instance | States | Checks |
|---|---|---|---|---|
| `one_pair` | `MCOnePair` | 2 devices, 3 sockets, 1 request, 1 session, timeouts of 1 tick, `NotifySpec` | 339 836 | `TypeOK`, `RegistryCoherent`, `StaleMeansSilent`, `ActivePartiesAreConnected`, `DecidedOnce`, `NotifyTypeOK`, `PartiesAreUpToDate`, `ListedAreOnline` |
| `many_pairs` | `MCManyPairs` | 3 devices, 3 sockets, 3 requests, 3 sessions, `Quiet` | 162 858 | `IndexExact`, `OneLiveSessionPerPair`, `AcceptedRequestOpensSession`, `ConsentBeforeSession`, `EndedStaysEnded`, `ImplementsPairLinks` |
| `transfers` | `MCTransfers` | 2 devices, 2 sockets, 1 request, 1 session, 1 transfer, `NotifySpec`, `Unshared` | 73 725 | `TransferInsideSession`, `HandshakeOrder`, `OutcomeFieldsAgree`, `OutcomeIsFinal`, `PartiesAreUpToDate` |
| `timeouts` | `MCTimeouts` | 2 devices, 2 sockets, 1 request, 1 session, timeouts of 2 ticks, `FairSpec` | 45 571 | `SilenceIsNoticed`, `RequestsAreDecided` |
| `ghost_device` | `MCGhostDevice` | presence with 2 devices | | violates `PresentMeansConnected` |
| `pair_key_collision` | `MCPairKeyCollision` | 4 devices with ids that contain `::`, 4 sockets, 2 requests, 2 sessions, `Quiet` | | violates `AcceptedRequestOpensSession` |
| `files` | `MCFiles` | 2 files, 2 clients and the cleaner, limit of 1 file, retention of 1 tick, 1 failure, `FairFileSpec` | 303 019 | `FileTypeOK`, `UntrashedIsSafe`, `RemovedLeavesNothing`, `RowsAndFilesMatch`, `LimitHoldsUnlessMissed`, `ImplementsTrashBin`, `TrashIsTemporary` |
| `restore_race` | `MCRestoreRace` | 1 file, 1 client and the cleaner | | violates `LiveIsNotRemoved` |
| `download_race` | `MCDownloadRace` | 1 file, 2 clients | | violates `DownloadFindsItsFile` |
| `data_channel` | `MCChannel` | files of 2, 1 and 0 chunks, 2 channels, a pause after every second chunk, `FairChannelSpec` | 615 560 | `ChannelTypeOK`, `AloneIsIntact`, `DownloadedOnce`, `AloneArrives` |
| `mixed_sends` | `MCMixedSends` | the same files, 1 channel | | violates `PutTogetherWhole` |
| `chinese_names` | `MCNames` | names of up to 2 of 5 characters | | violates `DownloadKeepsName` |

### What they show

* `one_pair`: whatever the order in which two devices register, register again, replace
  each other on three sockets, share a socket, fall silent and leave: a socket that speaks for
  a device is open and is what both other maps name for it, and the socket a device is
  filed under speaks for it unless it has come to speak for another one; a stale
  device was silent for the timeout; a request is decided once; both parties of an active
  session are online or stale on an open socket that speaks for them, with the same
  exception; what a registered client has read or been told of a request or session of its
  device never goes stale, and what begins later it is told of; and no device on the last
  online list has gone or fallen silent.
* `many_pairs`: with three devices the index files exactly the live sessions, two devices
  have at most one, every session has the consent of the device that was asked, an accept
  gives its pair a session, an ended session never changes again, and all of it together
  implements `PairLinks`: a link is opened, activated between two devices that are there,
  and dropped with either. There a device is there while the registry has it online or stale, so
  that a device on a closed socket (section 4) still counts.
* `transfers`: events of both sides, HTTP calls, and parties that fall silent, leave and come
  back, in every order, keep the handshake, the fields and the outcome, and a transfer in the
  session it was started in; and what either side has read or been told of it, also of a
  hidden or deleted record, never goes stale.
* `timeouts`: a device that falls silent does not stay online and every request is decided,
  also when nobody is connected any more.
* `files`: with every interleaving of two clients, two uploads and the cleaner, and a
  failure or a restart at any point, a file that was never in the trash keeps its row and its
  data; a removed row leaves no data; rows and files differ only while somebody is
  about to make them agree, or after a failure; uploads at the same time do not exceed the
  limit together unless a file vanished under a sum; all of it together implements
  `TrashBin`: only a sweep that found a file in the trash removes it, its data goes first, and
  nothing comes back; and a file in the trash is restored or removed in the end.
* `data_channel`: whatever either page does with its channels and whatever fails, a file
  whose sending no other one overlaps is offered as it was sent or not at all, at most once,
  and is offered in the end unless its sending failed or its channel was closed. The empty
  file is finished by `file-complete` alone, the others by their last chunk.

### Bounds, and why they are enough

Ids are only compared for equality, so the sets of sockets, requests, sessions and
transfers are symmetric, except that sockets are tied to their devices in the runs with
`Quiet`. Three sockets for two devices are enough for a replaced socket, a replacing one
and a socket that speaks for the other device. One request and one session are enough there,
because what presence does to them and who is told does not depend on others; three
requests and sessions, in `many_pairs`, let both devices ask each other at once and let a second
session follow an ended one, and three devices add pairs that share one party, for which the
index deletes several keys in one step. A timeout of one tick distinguishes "just heard of" from "expired"; `MCTimeouts`
uses two ticks so that there is something between. `Quiet` keeps the runs with three and
more devices small: no time passes, and each socket registers only the device it is given.
What it cuts off, expiry and shared sockets, is what `one_pair` explores. `Unshared` keeps
`transfers` small: it does not go on once a socket has come to speak for another device, and
its two sockets leave replaced connections to `one_pair`. The theorems of section 5 have no
such bounds. One transfer suffices since records do not
refer to each other; both directions are explored.

Files refer to each other only through the limit and through the list of one sweep. Two
files with a limit of one are enough for two uploads that exceed it together and for a sweep
that goes on after a failure. Two
clients and the cleaner let any two requests and a sweep overlap. One failure is enough for
"something failed, and then everything went well", which is what the properties under failures
speak of. Paths are never reused, so after each file has been uploaded the instance goes
on with what is left; a second life of the same path does not exist in the code.

In `data_channel` a file of two chunks has a first and a last one, a file of one chunk a last
one that is followed by a pause, and the empty file none; three runs let two be mixed while
a third is sent alone before or after them. Two channels are enough for one to be replaced
while a send holds on to it. The five characters of `chinese_names` are one of
ASCII, three whose low bytes are ASCII (U+4F60, U+597D and U+4E2D) and one whose low byte is not
valid UTF-8 (U+6587), so that a name with it is kept.

### Fairness

`FairSpec` assumes that time passes (`Tick`) and that the two `@Interval` timers of the
gateway go on firing (`HeartbeatTimer`, `RequestTimer`): Node runs an interval again and
again, and the handlers throw nothing that would stop it. Nothing is assumed of a client:
it may never answer, never send a heartbeat and never disconnect. Weak fairness is enough
because a step of a timer that finds nothing to do is always possible.

`FairFileSpec` assumes that time passes, that Node goes on with what a request has begun
(`UploadGoesOn`, `CallGoesOn`: each `await` is answered in the end) and that the `@Cron` job is
started while there is something for it to do. That a step fails is never assumed, nor that a
client deletes, restores or asks again. `TrashIsTemporary` depends on the bound on
failures: a file that can never be unlinked stays in the trash for ever.

`FairChannelSpec` assumes that both pages go on with what they have begun (`SendGoesOn`: the bytes
of a chunk are read and a timer of 0 ms fires in the end), that a channel open at both ends
delivers (it is reliable and ordered) and that a page is told of the channel the other
one has made. Nothing is assumed of who clicks or what is closed.

## 4. Findings

* **A device on a closed socket** (`ghost_device`). `registerDevice`
  (`signaling.service.ts:45`) overwrites the device a socket speaks for and leaves the
  previous one as it is. When the socket closes, only the last device goes offline: the
  first stays `online`, then `stale`, without a connection, against
  `doc/p2p-webrtc.md:34-35`, until it registers again, and it stays in its active sessions.
  `RegistryCoherent` and `ActivePartiesAreConnected` name this as their only exception: the
  device's socket is in `shared`.
* **Two pairs with one key** (`pair_key_collision`). `getDevicePairKey`
  (`signaling.service.ts:615`) joins two ids with `::`, which an id may contain. The pairs
  `a::b`, `c` and `a`, `b::c` share a key, so that accepting a request of the second answers
  the session of the first, and the second pair gets none, against
  `doc/p2p-webrtc.md:71`. Properties that depend on keys being distinct are stated
  and proved under `PlainIds`; the others hold for all ids.
* **A restored file is removed** (`restore_race`). `emptyTrash` and `cleanExpiredTrashFiles`
  read their list and then remove file after file without asking again (`app.service.ts:263`,
  `:318`). A file restored meanwhile was reported as restored and then loses its row and its
  data, against `doc/api.md:242`. `UntrashedIsSafe` says what still holds: only files
  that were in the trash can be lost.
* **A download ends the process** (`download_race`). The stream of a download opens its file
  after `access` and `stat` (`app.controller.ts:75`). When the file has gone in between, the
  stream's `error` event has no listener and the process ends, against `doc/api.md:179`.
* **Two files at once spoil each other** (`mixed_sends`). A packet says which chunk it is but not
  of which transfer, and `handleFileChunk` adds it to the transfer whose `file-meta` came
  last (`webrtc-test.js:496`), counts it and finishes when the count is right (`:513`); the
  search for missing chunks (`:525`) uses `some`, which skips the holes of `new Array(n)`. A
  second click while a file is being sent is enough for a file to be offered with chunks of the
  other one and without its own, against `doc/p2p-webrtc.md:879`. The document names one inbound
  transfer at a time as a limit of the page (`:926`), but the page keeps no second one from
  starting. `AloneIsIntact` says what holds of the others.
* **Chinese names change** (`chinese_names`). The row already has the right name when
  `serializeFileRecord` (`app.service.ts:394`) and then the header of the download normalise it once
  more. `Buffer.from(name, 'latin1')` keeps the low byte of each character, and when these bytes
  are valid UTF-8 they become the name: U+4E2D is offered as `-`, against `doc/api.md:181`.

The following deviations met while modelling have no run of their own:

* an upload can be kept over the limit when a listed file is removed before its `stat`, because
  `getUploadsDirectorySize` answers 0 for any `ENOENT` (`app.service.ts:379`): this is `missed` in
  `LimitHoldsUnlessMissed`, which says that nothing else leads there (`doc/api.md:96` names no
  exception);
* a connection that is replaced is not closed, because the lookup of its socket throws
  (`signaling.gateway.ts:135`, section 1), against `doc/p2p-webrtc.md:426` and `:494`, and the
  new connection is neither told that it is registered nor added to the online list;
  `RegistryCoherent` says that the old socket speaks for nobody;
* a session that is accepted after the requester has left stays `connecting`, and no disconnect
  fails it until the requester has come back and left again (`signaling.gateway.ts:262`).
  `ActivePartiesAreConnected` and `ImplementsPairLinks` show that it does not become active before
  both are there;
* a heartbeat brings a stale device back to `online` without a new online list (`signaling.gateway.ts:171`),
  so that the converse of `ListedAreOnline` does not hold;
* an update for a device whose socket has come to speak for another device goes to that socket
  (the ghost device again), and a record hidden or deleted over HTTP is not announced.

## 5. The proofs

TLAPS proves the following for all sets of devices, sockets, requests, sessions and
transfers, all timeouts and both `KickOutcomes`. The assumptions are those the modules name
(`DeviceAssumption`, `SessionIdAssumption`, `RankAssumption`, `PresenceAssumption`,
`RequestAssumption`, `RecordAssumption`): `None` is no id, no two kinds of record share an id,
the sort order is total, timeouts are positive.

For the file storage it is all finite sets of files, all sets of requests and cleaner slots and any
number of failures, under `FileAssumption`: the retention and `MaxFailures` are positive. For the
data channel it is all sets of clicks and channels and any number of chunks per file, also none,
under `ChannelAssumption`: `None` is neither a click nor a channel, and the sender pauses after a
positive number of chunks.

| Theorem | Module | Assumes `PlainIds` |
|---|---|---|
| `RegistryIsCoherent`, `StaleIsSilent` | `PresenceProofs` | no |
| `RequestsDecidedOnce` | `RequestsProofs` | no |
| `IndexIsExact`, `OneLiveSession`, `EndedSessionsStayEnded` | `SessionsProofs` | no |
| `HandshakeInOrder`, `OutcomeFieldsCorrect`, `OutcomesAreFinal` | `TransfersProofs` | no |
| `TypeCorrect`, `ImplementsComponents`, `Inherited` | `SignalingProofs` | no |
| `ConsentFirst`, `TransfersInsideSessions` | `SignalingProofs` | no |
| `ActiveMeansConnected`, `AcceptGivesSession` | `SignalingProofs` | yes |
| `ImplementsLinks` | `SignalingProofs` | yes |
| `NotifyImplementsSignaling`, `NotifyTypeCorrect`, `NobodyIsBehind`, `ListIsCurrent` | `NotificationsProofs` | no |
| `FileInvariant`, `FileTypeCorrect`, `UntrashedStaysSafe`, `RemovedIsGone`, `RowsMatchFiles`, `LimitIsKept`, `ImplementsBin` | `FileStoreProofs` | (no ids) |
| `ChannelInvariant`, `ChannelTypeCorrect`, `OfferedOnce`, `AloneStaysIntact` | `DataChannelProofs` | (no ids) |

The argument:

1. Each component is proved correct under its own next-state relation, in which its
   operations are called with any arguments. The type invariant comes first, the other
   invariants are inductive relative to it. `IndexExact` is the invariant the sessions rest
   on: `OneLiveSessionPerPair` is not inductive alone, because nothing in it says that the
   index finds the session that is there.
2. Every step of `Signaling` is a step of each component or leaves it alone (the four
   `...Simulated` lemmas), hence `ImplementsComponents` and `Inherited`.
3. The invariants that tie components together need only what a step may do to a session
   (`SessionStep`, `SessionKeepsParties`) and to a request (`AcceptedStays`).
   `TransferInsideSession` needs the strengthening `ActiveWasConnected`: a transfer starts
   in an active session, and the property says it was connected. `ActiveMeansConnected`
   follows from `ActiveArePresent`, that both parties are online or stale, and `RegistryCoherent`,
   which says on which socket they are. `ActiveArePresent` itself needs `RegistryCoherent` (the speaker of a registered socket is there), `IndexExact`, and
   `PlainKeysDistinct`: without separators a key determines its pair, so that the session an
   answer finds is the session of the two devices.
4. `ImplementsLinks` shows for every handler and timer which abstract step it is:
   register joins, disconnect leaves, accept opens, answer activates, close closes,
   everything else stutters. That a pair leaves `connecting` when its session does rests on
   `OneLiveSessionPerPair`, that an accepted pair had no link on `IndexExact`.

5. In the file storage nothing about rows and files is inductive alone, because a sweep
   works from a list that may be stale. `FileInv` says what each party relies on: an upload
   without a row owns what it has written (`UploadInv`); a row's file is complete, or the file
   was in the trash (`RowInv`); a list only holds files that were in the trash, and whoever is
   about to drop a row has removed its file (`CallInv`). `UntrashedIsSafe` and
   `RemovedLeavesNothing` follow from it; `RowsAndFilesMatch` is inductive relative to it.

   `LimitIsKept` needs more, because each upload compares only its own sum with the limit, and the
   order in which overlapping uploads listed the directory is forgotten once they are over. What
   is left of that order is `LimitInv`: of any set of files that are kept or being summed, larger
   than the limit, one is still being summed and has all of the set in its list or its sum: the one
   that listed last. Creating a row for it would need a sum within the limit.

   `ImplementsBin` names the abstract step of each action: a row that is created is `Add`, a
   sweep that starts is `Claim`, `unlink` is `Shred`, deleting the row is `Remove`, and whatever
   fails or is forgotten in a restart is `GiveUp`. That a claim is only made on what is in the trash
   is a guard of the code; that `Remove` finds no data, and that a row is created only for a file that
   never had one, is `FileInv`. Removing a restored file is part of the promise, because the code
   does so (`restore_race`).

6. `NobodyIsBehind` is inductive together with `TypeOK` and `RegistryCoherent` of `Signaling`,
   which hold since every step of `NotifySpec` is one of `Spec` (`NotifyImplementsSignaling`).
   The registry makes it true: a socket that speaks for a device is the one the device's record
   names (`SpeakerIsReached`), so that whoever is concerned is reached. `LearnKeeps` then
   asks of each handler only that it announces every record it changes. A registration makes what is
   there unread, and there is nothing else a record could be that its device is a party of
   (`PartyOfSomething`); a read brings the client up to date with what the answer holds,
   whatever the filter and the page (`ReadKeeps`).

7. On the data channel neither `AloneIsIntact` nor `DownloadedOnce` says anything of what is still
   on its way, so neither is inductive. `ChannelInv` is the argument in full. The packets of a run
   have numbers: 0 is its `file-meta`, 1 to `TotalChunks` its chunks, then `file-complete`.
   `OrderInv` looks at each place a packet of a file that is alone may be at, the transfer being
   received being place 0 of a channel: behind packet k comes packet k + 1 of the same file
   or the `file-meta` of another one, and if nothing is behind it, it is what the run has sent last.
   So a chunk that arrives is the next chunk of the transfer, whose number of chunks is therefore
   right exactly when it is whole (`NextChunk`, `GotCardinality`). The rest makes this inductive:
   two runs on one channel are mixed (`ApartInv`), and a run that is under way behind an older file
   has its `file-meta` between them (`BehindInv`); a `file-meta` is there once, and no more once its
   file has been begun or offered (`MetaInv`, `OfferedInv`), which is `OfferedOnce`; and a send
   that holds on to a channel that was replaced cannot reach the transfer of the new one, since the
   receiver hears one channel at a time (`CurrentInv`), each run has one channel (`OwnChannelInv`), and
   of a channel that is not open yet nothing has been taken (`UnheardInv`).
   Every step is of one of three kinds (`QuietStep`, `SendStep` and a delivery), and the proof has a
   part for each kind instead of one for each action.

Each inductive invariant was checked by TLC on the instance of its run before it was proved.

Only model-checked: `SilenceIsNoticed`, `RequestsAreDecided`, `TrashIsTemporary` and
`AloneArrives`, since liveness under fairness is beyond the prover. Every invariant and every
action property of the passing runs, and both refinements, are theorems. The properties of the
violating runs are false of the code; `AcceptedRequestOpensSession` is proved under `PlainIds`.

## 6. Not modelled, and the plan

Left out of the modelled parts: the negotiation of the peer connection (`handleOffer`,
`handleAnswer`, `handleCandidate` of the page), whose rules are the browser's; text messages and
pings, which change nothing; the ASCII fallback of a name; the pacing of
`RateLimitTransform`, which delays chunks and changes none.

Planned:

1. `RateLimit`: a stream passes no more bytes than time allows and one chunk.
2. The order in which files sent one after the other over one channel are offered.

Not planned: the rest of the GET queries (the order of the answers, single records, the lists of
devices), payload validation (it is the range of the inputs), bootstrap, deployment script, database
schema and static pages.
