---------------------------- MODULE DataChannel ----------------------------
(***************************************************************************)
(* Files over the data channel of the browser page.  sendSelectedFile is   *)
(* one run per click and awaits between two chunks, so several run at a    *)
(* time on one channel; a channel delivers in order while both ends are    *)
(* open; either page may close it, lose it and start a new one.  One       *)
(* direction of files is modelled: a page sends and receives with separate *)
(* state.  The peer connection that carries the channels is taken as given.*)
(***************************************************************************)
EXTENDS Naturals, Sequences, FiniteSets

CONSTANTS
  Click,       \* runs of sendSelectedFile, each with a transferId of its own
  TotalChunks, \* of the file that is sent
  PauseEvery,  \* chunks after which the sender waits for a timer: 32
  Channel,     \* data channels, used one after the other
  None

ASSUME ChannelAssumption ==
  /\ None \notin Click \cup Channel
  /\ TotalChunks \in [Click -> Nat]
  /\ PauseEvery \in Nat \ {0}

VARIABLES
  ends,       \* readyState of each channel on each page
  current,    \* state.dataChannel of each page
  wire,       \* what was sent on a channel and has not arrived
  sends,      \* the runs of sendSelectedFile
  receiving,  \* state.receivingTransfer
  downloads,  \* history: the files the receiver has put together
  mixed       \* history: runs that sent while another one used their channel

channelVars == <<ends, current, wire, sends, receiving, downloads, mixed>>

Page == {"sender", "receiver"}
Other(p) == IF p = "sender" THEN "receiver" ELSE "sender"

\* Chunk i of a file is <<i, f>>; the packet says i, but not f.
Whole(f) == {<<i, f>> : i \in 0 .. TotalChunks[f] - 1}
Chunk    == UNION {Whole(f) : f \in Click}

Message ==
  [type : {"file-meta", "file-complete"}, id : Click] \cup [type : {"chunk"}, chunk : Chunk]

Transfer == [id : Click, chunks : SUBSET Chunk]

ChannelTypeOK ==
  /\ ends \in [Channel -> [Page -> {"none", "connecting", "open", "closed"}]]
  /\ current \in [Page -> Channel \cup {None}]
  /\ wire \in [Channel -> Seq(Message)]
  /\ sends \in [Click -> [pc      : {"idle", "reading", "pausing", "done", "failed"},
                          next    : Nat,
                          channel : Channel \cup {None}]]
  /\ receiving \in Transfer \cup {None}
  /\ downloads \in Seq(Transfer)
  /\ mixed \subseteq Click

ChannelInit ==
  /\ ends = [c \in Channel |-> [p \in Page |-> "none"]]
  /\ current = [p \in Page |-> None]
  /\ wire = [c \in Channel |-> <<>>]
  /\ sends = [f \in Click |-> [pc |-> "idle", next |-> 0, channel |-> None]]
  /\ receiving = None
  /\ downloads = <<>>
  /\ mixed = {}
-----------------------------------------------------------------------------
IsOpen(c, p) == c # None /\ ends[c][p] = "open"

\* Mutant: the channel used before goes on.
AttachBeside(c, p, readyState) ==
  /\ ends' = [ends EXCEPT ![c][p] = readyState]
  /\ current' = [current EXCEPT ![p] = c]
  /\ UNCHANGED wire

\* attachDataChannel: the channel used before is closed on this page, and what is
\* still on its way to a closed end is dropped.
AttachDataChannel(c, p, readyState) ==
  LET old == current[p]
  IN  /\ ends' = [d \in Channel |-> IF d = c THEN [ends[d] EXCEPT ![p] = readyState]
                                    ELSE IF d = old THEN [ends[d] EXCEPT ![p] = "closed"]
                                    ELSE ends[d]]
      /\ current' = [current EXCEPT ![p] = c]
      /\ wire' = [d \in Channel |-> IF d = old /\ d # c /\ p = "receiver" THEN <<>>
                                    ELSE wire[d]]

\* A channel that is not closed, also one that still connects, is used again; otherwise
\* a new one is made.
StartRtcConnection(c, p) ==
  /\ current[p] # None => ends[current[p]][p] = "closed"
  /\ \A q \in Page : ends[c][q] = "none"
  /\ AttachDataChannel(c, p, "connecting")
  /\ UNCHANGED <<sends, receiving, downloads, mixed>>

ChannelOpens(c, p) ==
  /\ ends[c][p] = "connecting"
  /\ ends' = [ends EXCEPT ![c][p] = "open"]
  /\ UNCHANGED <<current, wire, sends, receiving, downloads, mixed>>

\* ondatachannel: the other page has made the channel.
RemoteChannelArrives(c, p) ==
  /\ ends[c][p] = "none" /\ ends[c][Other(p)] = "open"
  /\ AttachDataChannel(c, p, "open")
  /\ UNCHANGED <<sends, receiving, downloads, mixed>>

\* closeRtcConnection, by the button or because another socket registered the device.
CloseRtcConnection(p) ==
  LET c == current[p]
  IN  /\ c # None
      /\ ends' = [ends EXCEPT ![c][p] = "closed"]
      /\ current' = [current EXCEPT ![p] = None]
      /\ IF p = "receiver" THEN /\ receiving' = None
                                /\ wire' = [wire EXCEPT ![c] = <<>>]
                           ELSE UNCHANGED <<receiving, wire>>
      /\ UNCHANGED <<sends, downloads, mixed>>

\* onclose: the other end is closed, or the network has lost the channel or never
\* made it.  state.receivingTransfer stays.
ChannelCloses(c, p) ==
  /\ ends[c][p] \in {"connecting", "open"}
  /\ ends' = [ends EXCEPT ![c][p] = "closed"]
  /\ wire' = IF p = "receiver" THEN [wire EXCEPT ![c] = <<>>] ELSE wire
  /\ UNCHANGED <<current, sends, receiving, downloads, mixed>>
-----------------------------------------------------------------------------
\* sendSelectedFile, from one await to the next.
Active(f) == sends[f].pc \in {"reading", "pausing"}

Meta(f)     == [type |-> "file-meta", id |-> f]
Complete(f) == [type |-> "file-complete", id |-> f]

\* What is sent to an end that is closed never arrives.
Put(c, messages) ==
  wire' = IF ends[c]["receiver"] = "closed" THEN wire
          ELSE [wire EXCEPT ![c] = @ \o messages]

SendStarts(f) ==
  LET c      == current["sender"]
      others == {g \in Click : Active(g) /\ sends[g].channel = c}
  IN  /\ sends[f].pc = "idle" /\ IsOpen(c, "sender")
      /\ IF TotalChunks[f] = 0
         THEN /\ Put(c, <<Meta(f), Complete(f)>>)
              /\ sends' = [sends EXCEPT ![f] = [pc |-> "done", next |-> 0, channel |-> c]]
         ELSE /\ Put(c, <<Meta(f)>>)
              /\ sends' = [sends EXCEPT ![f] = [pc |-> "reading", next |-> 0, channel |-> c]]
      /\ mixed' = IF others = {} THEN mixed ELSE mixed \cup others \cup {f}
      /\ UNCHANGED <<ends, current, receiving, downloads>>

\* A chunk has been read; the pause comes before what the last chunk is followed by.
SendNext(f) ==
  LET c      == sends[f].channel
      i      == sends[f].next
      packet == [type |-> "chunk", chunk |-> <<i, f>>]
      pauses == i % PauseEvery = 0
      last   == i + 1 = TotalChunks[f]
  IN  /\ sends[f].pc = "reading" /\ IsOpen(c, "sender")
      /\ Put(c, IF last /\ ~ pauses THEN <<packet, Complete(f)>> ELSE <<packet>>)
      /\ sends' = [sends EXCEPT
                     ![f].pc = IF pauses THEN "pausing" ELSE IF last THEN "done" ELSE @,
                     ![f].next = i + 1]
      /\ UNCHANGED <<ends, current, receiving, downloads, mixed>>

\* Mutant: the loop goes on for one chunk more than there are.
SendResumesOnceMore(f) ==
  /\ sends[f].pc = "pausing" /\ sends[f].next <= TotalChunks[f]
  /\ sends' = [sends EXCEPT ![f].pc = "reading"]
  /\ UNCHANGED <<ends, current, wire, receiving, downloads, mixed>>

SendResumes(f) ==
  LET c == sends[f].channel
  IN  /\ sends[f].pc = "pausing"
      /\ IF sends[f].next < TotalChunks[f]
         THEN /\ sends' = [sends EXCEPT ![f].pc = "reading"]
              /\ UNCHANGED wire
         ELSE /\ IsOpen(c, "sender")
              /\ sends' = [sends EXCEPT ![f].pc = "done"]
              /\ Put(c, <<Complete(f)>>)
      /\ UNCHANGED <<ends, current, receiving, downloads, mixed>>

SendFails(f) ==
  /\ Active(f)
  /\ sends' = [sends EXCEPT ![f].pc = "failed"]
  /\ UNCHANGED <<ends, current, wire, receiving, downloads, mixed>>

\* send throws on a channel that is not open.
SendThrows(f) == ~ IsOpen(sends[f].channel, "sender") /\ SendFails(f)
-----------------------------------------------------------------------------
\* Mutant: the transfer is kept after its file has been put together.
FinalizeKeeps(transfer) ==
  /\ downloads' = Append(downloads, transfer)
  /\ receiving' = transfer

\* finalizeIncomingFile.  The search for missing chunks finds none: "some" passes
\* over the holes of an array.
FinalizeIncomingFile(transfer) ==
  /\ downloads' = Append(downloads, transfer)
  /\ receiving' = None

HandleFileMeta(m) ==
  /\ receiving' = [id |-> m.id, chunks |-> {}]
  /\ UNCHANGED downloads

\* A chunk whose index is filled is ignored.
HandleFileChunk(chunk) ==
  IF receiving = None THEN UNCHANGED <<receiving, downloads>>
  ELSE LET filled == \E old \in receiving.chunks : old[1] = chunk[1]
           now    == IF filled THEN receiving
                     ELSE [receiving EXCEPT !.chunks = @ \cup {chunk}]
       IN  IF Cardinality(now.chunks) = TotalChunks[now.id]
           THEN FinalizeIncomingFile(now)
           ELSE receiving' = now /\ UNCHANGED downloads

\* Mutant: only the last chunk finishes a file.
HandleFileCompleteNot(m) == UNCHANGED <<receiving, downloads>>

HandleFileComplete(m) ==
  IF receiving # None /\ receiving.id = m.id
  THEN FinalizeIncomingFile(receiving)
  ELSE UNCHANGED <<receiving, downloads>>

HandleDataChannelMessage(c) ==
  /\ IsOpen(c, "receiver") /\ wire[c] # <<>>
  /\ LET m == Head(wire[c])
     IN  \/ m.type = "file-meta" /\ HandleFileMeta(m)
         \/ m.type = "chunk" /\ HandleFileChunk(m.chunk)
         \/ m.type = "file-complete" /\ HandleFileComplete(m)
  /\ wire' = [wire EXCEPT ![c] = Tail(@)]
  /\ UNCHANGED <<ends, current, sends, mixed>>

SendGoesOn(f) == SendNext(f) \/ SendResumes(f) \/ SendThrows(f)

ChannelNext ==
  \/ \E c \in Channel, p \in Page :
       \/ StartRtcConnection(c, p) \/ ChannelOpens(c, p)
       \/ RemoteChannelArrives(c, p) \/ ChannelCloses(c, p)
  \/ \E p \in Page : CloseRtcConnection(p)
  \/ \E f \in Click : SendStarts(f) \/ SendGoesOn(f) \/ SendFails(f)
  \/ \E c \in Channel : HandleDataChannelMessage(c)

ChannelSpec == ChannelInit /\ [][ChannelNext]_channelVars

\* Both pages go on with what they have begun, and a channel that stays open at both
\* ends delivers.  Nobody need click anything, and nothing need fail.
ChannelFairness ==
  /\ \A f \in Click : WF_channelVars(SendGoesOn(f))
  /\ \A c \in Channel : /\ WF_channelVars(HandleDataChannelMessage(c))
                        /\ \A p \in Page : WF_channelVars(RemoteChannelArrives(c, p))

FairChannelSpec == ChannelSpec /\ ChannelFairness
-----------------------------------------------------------------------------
\* A file that is sent on its own arrives as it is or not at all: whatever failed,
\* was closed or was sent before and after it, none of another file's chunks is
\* in it and none of its own is missing (handleFileChunk, which cannot tell whose
\* chunk it is; attachDataChannel; the channel sendSelectedFile holds on to).
AloneIsIntact ==
  \A k \in DOMAIN downloads :
    LET file == downloads[k]
    IN  file.id \notin mixed => file.chunks = Whole(file.id)

\* Each file is offered for download at most once, although both its last chunk and
\* file-complete finish it (handleFileChunk, finalizeIncomingFile).
DownloadedOnce ==
  \A j, k \in DOMAIN downloads : downloads[j].id = downloads[k].id => j = k

\* A file is put together once all its chunks are there (finalizeIncomingFile;
\* doc/p2p-webrtc.md:879), however many files are sent at a time.
PutTogetherWhole ==
  \A k \in DOMAIN downloads :
    LET file == downloads[k]
    IN  0 .. TotalChunks[file.id] - 1 \subseteq {chunk[1] : chunk \in file.chunks}

\* A file that is sent on its own arrives, unless its sending failed or its channel
\* was closed on either page.
Lost(f) ==
  \/ f \in mixed \/ sends[f].pc = "failed"
  \/ sends[f].channel # None /\ \E p \in Page : ends[sends[f].channel][p] = "closed"

AloneArrives ==
  \A f \in Click :
    sends[f].pc # "idle" ~> Lost(f) \/ \E k \in DOMAIN downloads : downloads[k].id = f
=============================================================================
