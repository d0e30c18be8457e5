------------------------- MODULE DataChannelProofs -------------------------
(***************************************************************************)
(* What holds of the files that go over data channels, for any number of   *)
(* files, chunks and channels.  A file that is sent on its own is a block  *)
(* of packets in order, from the transfer the receiver has begun, over     *)
(* what is on the wire, to what its run sends next; the inductive          *)
(* invariant says so of each place the block may be at.                    *)
(***************************************************************************)
EXTENDS DataChannel, TLAPS, FiniteSetTheorems, FunctionTheorems, SequenceTheorems

\* What a run sends, in order: its number 0 is the file-meta, the last one file-complete.
Packet(f, k) ==
  IF k = 0 THEN Meta(f)
  ELSE IF k <= TotalChunks[f] THEN [type |-> "chunk", chunk |-> <<k - 1, f>>]
  ELSE Complete(f)

SenderOf(m) == IF m.type = "chunk" THEN m.chunk[2] ELSE m.id
IsMeta(m)   == m.type = "file-meta"

\* A transfer of which the first k chunks, and no others, have arrived.
Got(f, k) == [id |-> f, chunks |-> {<<i, f>> : i \in 0 .. k - 1}]

SendRecord ==
  [pc      : {"idle", "reading", "pausing", "done", "failed"},
   next    : Nat,
   channel : Channel \cup {None}]

Arrived(f) == receiving # None /\ receiving.id = f
Offered(f) == \E k \in DOMAIN downloads : downloads[k].id = f

Hears(c)   == ends[c]["receiver"] # "closed"
Unheard(c) == ends[c]["receiver"] \in {"none", "connecting"}
Uses(f, c) == Active(f) /\ sends[f].channel = c

\* The file-meta of g is on the wire, behind place i.
MetaBehind(c, g, i) == \E j \in 1 .. Len(wire[c]) : j > i /\ wire[c][j] = Meta(g)

\* Place 0 of a channel is the transfer being received, place i the i-th message.
At(c, i, f) == IF i = 0 THEN Arrived(f) ELSE SenderOf(wire[c][i]) = f

Stage(c, i, f, k) == IF i = 0 THEN receiving = Got(f, k) ELSE wire[c][i] = Packet(f, k)

-----------------------------------------------------------------------------
\* How far a run has come.
SendInv ==
  \A f \in Click :
    /\ sends[f].pc # "idle" => sends[f].channel \in Channel
    /\ Active(f) => sends[f].next <= TotalChunks[f]
    /\ sends[f].pc = "reading" => sends[f].next < TotalChunks[f]

\* The receiver hears one channel at a time.
CurrentInv ==
  \A c \in Channel : ends[c]["receiver"] \in {"connecting", "open"} => current["receiver"] = c

\* A run sends on one channel.
OwnChannelInv ==
  \A c \in Channel : \A i \in 1 .. Len(wire[c]) :
    LET f == SenderOf(wire[c][i])
    IN  sends[f].pc # "idle" /\ sends[f].channel = c

\* A file is begun once: its file-meta is there once, and then no more.
MetaInv ==
  \A c \in Channel : \A i \in 1 .. Len(wire[c]) :
    IsMeta(wire[c][i]) =>
      LET f == wire[c][i].id
      IN  /\ ~ Arrived(f) /\ ~ Offered(f)
          /\ \A j \in 1 .. Len(wire[c]) : IsMeta(wire[c][j]) /\ wire[c][j].id = f => i = j

OfferedInv ==
  \A f \in Click :
    /\ Arrived(f) => sends[f].pc # "idle" /\ ~ Offered(f)
    /\ Offered(f) => sends[f].pc # "idle"

\* Of a channel the receiver has not opened nothing has been taken.
UnheardInv ==
  \A c \in Channel : Unheard(c) =>
    /\ wire[c] # <<>> => IsMeta(wire[c][1])
    /\ \A g \in Click : Uses(g, c) => MetaBehind(c, g, 0)

\* Two runs on one channel are mixed.
ApartInv ==
  \A c \in Channel, f, g \in Click : Uses(f, c) /\ Uses(g, c) /\ f # g => f \in mixed

\* Behind a file that was sent on its own, another run begins with its file-meta.
BehindInv ==
  \A c \in Channel, f \in Click \ mixed, g \in Click : \A i \in 0 .. Len(wire[c]) :
    Hears(c) /\ At(c, i, f) /\ g # f /\ Uses(g, c) => MetaBehind(c, g, i)

\* At place i is packet k of f; behind it is the next one or another file; and if
\* nothing is behind it, it is the last one the run has sent.
InOrder(c, i, f, k) ==
  /\ Stage(c, i, f, k)
  /\ i < Len(wire[c]) => \/ k <= TotalChunks[f] /\ wire[c][i + 1] = Packet(f, k + 1)
                         \/ IsMeta(wire[c][i + 1])
  /\ i = Len(wire[c]) /\ Uses(f, c) => k = sends[f].next

OrderInv ==
  \A c \in Channel, f \in Click \ mixed : \A i \in 0 .. Len(wire[c]) :
    Hears(c) /\ At(c, i, f) => \E k \in 0 .. TotalChunks[f] + 1 : InOrder(c, i, f, k)

ChannelInv ==
  /\ SendInv /\ CurrentInv /\ OwnChannelInv
  /\ MetaInv /\ OfferedInv /\ DownloadedOnce
  /\ UnheardInv /\ ApartInv /\ BehindInv /\ OrderInv
  /\ AloneIsIntact
-----------------------------------------------------------------------------
\* What is on a wire, place by place.
LEMMA MessageFacts ==
  ASSUME NEW m \in Message
  PROVE  /\ SenderOf(m) \in Click
         /\ m.type \in {"file-meta", "file-complete", "chunk"}
         /\ m.type = "chunk" => m.chunk \in Chunk /\ m.chunk[1] \in Nat
         /\ m.type # "chunk" => m.id \in Click /\ SenderOf(m) = m.id
         /\ IsMeta(m) => m = Meta(m.id)
<1>1. CASE m \in [type : {"file-meta", "file-complete"}, id : Click]
  BY <1>1 DEF SenderOf, IsMeta, Meta
<1>2. CASE m \in [type : {"chunk"}, chunk : Chunk]
  <2>1. PICK f \in Click : m.chunk \in Whole(f)
    BY <1>2 DEF Chunk
  <2>2. PICK i \in 0 .. TotalChunks[f] - 1 : m.chunk = <<i, f>>
    BY <2>1 DEF Whole
  <2> QED BY <1>2, <2>2 DEF SenderOf, IsMeta
<1> QED BY <1>1, <1>2 DEF Message

\* The packets by name.
LEMMA PacketNames ==
  ASSUME NEW f \in Click, NEW i \in Nat
  PROVE  /\ Packet(f, 0) = Meta(f)
         /\ i < TotalChunks[f] => Packet(f, i + 1) = [type |-> "chunk", chunk |-> <<i, f>>]
         /\ i = TotalChunks[f] => Packet(f, i + 1) = Complete(f)
         /\ Meta(f) \in Message /\ Complete(f) \in Message
<1>1. TotalChunks[f] \in Nat /\ i + 1 # 0 /\ (i + 1) - 1 = i
  BY ChannelAssumption
<1> QED BY <1>1 DEF Packet, Message, Meta, Complete

LEMMA PacketFacts ==
  ASSUME NEW f \in Click, NEW k \in 0 .. TotalChunks[f] + 1
  PROVE  /\ Packet(f, k) \in Message
         /\ SenderOf(Packet(f, k)) = f
         /\ IsMeta(Packet(f, k)) <=> k = 0
         /\ Packet(f, k).type = "chunk" <=> k \in 1 .. TotalChunks[f]
         /\ Packet(f, k).type = "chunk" => Packet(f, k).chunk = <<k - 1, f>>
<1>0. TotalChunks[f] \in Nat
  BY ChannelAssumption
<1>1. CASE k = 0
  BY <1>0, <1>1 DEF Packet, Meta, Message, SenderOf, IsMeta
<1>2. CASE k \in 1 .. TotalChunks[f]
  <2>1. Packet(f, k) = [type |-> "chunk", chunk |-> <<k - 1, f>>]
    BY <1>0, <1>2 DEF Packet
  <2>2. k - 1 \in 0 .. TotalChunks[f] - 1
    BY <1>0, <1>2
  <2>3. <<k - 1, f>> \in Chunk
    BY <2>2 DEF Chunk, Whole
  <2> QED BY <1>0, <1>2, <2>1, <2>3 DEF Message, SenderOf, IsMeta
<1>3. CASE k = TotalChunks[f] + 1
  <2>1. Packet(f, k) = Complete(f)
    BY <1>0, <1>3 DEF Packet
  <2> QED BY <1>0, <1>3, <2>1 DEF Complete, Message, SenderOf, IsMeta
<1> QED BY <1>0, <1>1, <1>2, <1>3

\* A packet has one number.
LEMMA PacketInjective ==
  ASSUME NEW f \in Click, NEW k \in 0 .. TotalChunks[f] + 1,
         NEW l \in 0 .. TotalChunks[f] + 1, Packet(f, k) = Packet(f, l)
  PROVE  k = l
<1>0. TotalChunks[f] \in Nat
  BY ChannelAssumption
<1>1. CASE k \in 1 .. TotalChunks[f]
  <2>1. l \in 1 .. TotalChunks[f] /\ <<k - 1, f>> = <<l - 1, f>>
    BY <1>1, PacketFacts
  <2> QED BY <1>1, <2>1
<1>2. CASE k \notin 1 .. TotalChunks[f]
  <2>1. l \notin 1 .. TotalChunks[f] /\ (k = 0 <=> l = 0)
    BY <1>2, PacketFacts
  <2> QED BY <1>0, <1>2, <2>1
<1> QED BY <1>1, <1>2

\* The chunks 0 .. k-1 are k chunks.
LEMMA GotCardinality ==
  ASSUME NEW f \in Click, NEW k \in Nat
  PROVE  Cardinality(Got(f, k).chunks) = k
<1> DEFINE C == {<<i, f>> : i \in 0 .. k - 1}
           b == [i \in 0 .. k - 1 |-> <<i, f>>]
<1>1. IsFiniteSet(0 .. k - 1) /\ Cardinality(0 .. k - 1) = k
  BY FS_Interval
<1>2. b \in Bijection(0 .. k - 1, C)
  <2>1. b \in [0 .. k - 1 -> C]
    OBVIOUS
  <2>2. \A i, j \in 0 .. k - 1 : b[i] = b[j] => i = j
    OBVIOUS
  <2>3. \A t \in C : \E i \in 0 .. k - 1 : b[i] = t
    OBVIOUS
  <2> QED BY <2>1, <2>2, <2>3, Fun_IsBij
<1>3. Cardinality(C) = k
  BY <1>1, <1>2, FS_Bijection DEF ExistsBijection
<1> QED BY <1>3 DEF Got
-----------------------------------------------------------------------------
\* Every step is of one of three kinds.  Nothing is sent or delivered, but channels
\* open, close and are replaced, and runs wait or fail:
QuietStep ==
  /\ UNCHANGED <<downloads, mixed>>
  /\ receiving' = receiving \/ receiving' = None
  /\ \A c \in Channel :
       /\ wire'[c] = wire[c] \/ (wire'[c] = <<>> /\ ~ Hears(c)')
       /\ Hears(c)' => Hears(c)
       /\ Unheard(c)' => Unheard(c)
  /\ \A f \in Click :
       /\ sends'[f].pc = "idle" <=> sends[f].pc = "idle"
       /\ sends'[f].channel = sends[f].channel
       /\ Active(f)' => Active(f) /\ sends'[f].next = sends[f].next

\* ... or a run sends its next packets, beginning with number k:
SendStep(f, c, k, messages) ==
  /\ Len(messages) \in 1 .. 2 /\ messages \in Seq(Message)
  /\ \A j \in 1 .. Len(messages) :
       k + j - 1 \in 0 .. TotalChunks[f] + 1 /\ messages[j] = Packet(f, k + j - 1)
  /\ Put(c, messages)
  /\ UNCHANGED <<ends, current, receiving, downloads>>
  /\ \A g \in Click \ {f} : sends'[g] = sends[g]
  /\ sends'[f].pc # "idle" /\ sends'[f].channel = c
  /\ Active(f)' => sends'[f].next = k + Len(messages) - 1
  /\ \/ /\ sends[f].pc = "idle" /\ k = 0
        /\ mixed \subseteq mixed'
        /\ \A g \in Click : Uses(g, c) => {f, g} \subseteq mixed'
     \/ Uses(f, c) /\ k = sends[f].next + 1 /\ UNCHANGED mixed

\* ... or HandleDataChannelMessage(c).

\* What the pages do with their channels keeps the types.
LEMMA EndTypes ==
  ASSUME ChannelTypeOK, NEW c \in Channel, NEW p \in Page,
         \/ StartRtcConnection(c, p) \/ ChannelOpens(c, p) \/ RemoteChannelArrives(c, p)
         \/ ChannelCloses(c, p) \/ CloseRtcConnection(p)
  PROVE  ChannelTypeOK' /\ UNCHANGED <<sends, downloads, mixed>>
<1> DEFINE State == {"none", "connecting", "open", "closed"}
<1>e. /\ ends \in [Channel -> [Page -> State]] /\ None \notin Channel
      /\ wire \in [Channel -> Seq(Message)] /\ <<>> \in Seq(Message)
      /\ current \in [Page -> Channel \cup {None}]
  BY ChannelAssumption, EmptySeq DEF ChannelTypeOK
<1>t. ASSUME ends' \in [Channel -> [Page -> State]], wire' \in [Channel -> Seq(Message)],
             current' \in [Page -> Channel \cup {None}], receiving' \in {receiving, None},
             UNCHANGED <<sends, downloads, mixed>>
      PROVE  ChannelTypeOK'
  BY <1>t DEF ChannelTypeOK
<1>1. ASSUME NEW state \in {"connecting", "open"}, AttachDataChannel(c, p, state),
             UNCHANGED <<sends, receiving, downloads, mixed>>
      PROVE  ChannelTypeOK'
  <2>1. ends' \in [Channel -> [Page -> State]]
    <3>1. \A d \in Channel, x \in State : [ends[d] EXCEPT ![p] = x] \in [Page -> State]
      BY <1>e
    <3> QED BY <1>1, <1>e, <3>1 DEF AttachDataChannel
  <2>2. wire' \in [Channel -> Seq(Message)]
    BY <1>1, <1>e DEF AttachDataChannel
  <2>3. current' \in [Page -> Channel \cup {None}]
    BY <1>1, <1>e DEF AttachDataChannel
  <2> QED BY <1>1, <1>t, <2>1, <2>2, <2>3
<1>2. CASE StartRtcConnection(c, p)
  BY <1>1, <1>2 DEF StartRtcConnection
<1>3. CASE RemoteChannelArrives(c, p)
  BY <1>1, <1>3 DEF RemoteChannelArrives
<1>4. CASE ChannelOpens(c, p)
  BY <1>4, <1>e, <1>t DEF ChannelOpens
<1>5. CASE ChannelCloses(c, p)
  BY <1>5, <1>e, <1>t DEF ChannelCloses
<1>6. CASE CloseRtcConnection(p)
  BY <1>6, <1>e, <1>t DEF CloseRtcConnection
<1> QED BY <1>2, <1>3, <1>4, <1>5, <1>6
       DEF StartRtcConnection, RemoteChannelArrives, ChannelOpens, ChannelCloses, CloseRtcConnection

\* They send and deliver nothing, and what the receiver opens is its current channel.
LEMMA EndSteps ==
  ASSUME ChannelTypeOK, NEW c \in Channel, NEW p \in Page,
         \/ StartRtcConnection(c, p) \/ ChannelOpens(c, p) \/ RemoteChannelArrives(c, p)
         \/ ChannelCloses(c, p) \/ CloseRtcConnection(p)
  PROVE  QuietStep /\ (CurrentInv => CurrentInv')
<1> DEFINE State == {"none", "connecting", "open", "closed"}
           old == current[p]
<1>e. /\ ends \in [Channel -> [Page -> State]] /\ None \notin Channel
      /\ wire \in [Channel -> Seq(Message)]
      /\ current \in [Page -> Channel \cup {None}]
      /\ p = "receiver" \/ p = "sender"
  BY ChannelAssumption DEF ChannelTypeOK, Page
<1>u. UNCHANGED <<sends, downloads, mixed>>
  BY EndTypes
<1>s. CASE p = "sender"
  <2>1. UNCHANGED <<wire, receiving>> /\ current'["receiver"] = current["receiver"]
    BY <1>s, <1>e
       DEF StartRtcConnection, RemoteChannelArrives, ChannelOpens, ChannelCloses,
           CloseRtcConnection, AttachDataChannel, Page
  <2>2. \A d \in Channel : ends'[d]["receiver"] = ends[d]["receiver"]
    <3>1. ASSUME NEW state, AttachDataChannel(c, p, state)
          PROVE  \A d \in Channel : ends'[d]["receiver"] = ends[d]["receiver"]
      BY <1>s, <1>e, <3>1 DEF AttachDataChannel, Page
    <3>2. ASSUME NEW d \in Channel, NEW state, ends' = [ends EXCEPT ![d][p] = state]
          PROVE  \A e \in Channel : ends'[e]["receiver"] = ends[e]["receiver"]
      BY <1>s, <1>e, <3>2 DEF Page
    <3>3. CASE CloseRtcConnection(p)
      BY <1>e, <3>2, <3>3 DEF CloseRtcConnection
    <3> QED BY <3>1, <3>2, <3>3
            DEF StartRtcConnection, RemoteChannelArrives, ChannelOpens, ChannelCloses
  <2>3. QuietStep
    BY <1>u, <2>1, <2>2 DEF QuietStep, Hears, Unheard, Active
  <2> QED BY <2>1, <2>2, <2>3 DEF CurrentInv
<1>r. CASE p = "receiver"
  <2>a. ASSUME NEW state \in {"connecting", "open"}, AttachDataChannel(c, p, state),
               ends[c]["receiver"] = "none", UNCHANGED receiving
        PROVE  QuietStep /\ (CurrentInv => CurrentInv')
    <3>1. /\ \A d \in Channel :
               ends'[d]["receiver"] = IF d = c THEN state ELSE IF d = old THEN "closed"
                                      ELSE ends[d]["receiver"]
          /\ current'["receiver"] = c
          /\ \A d \in Channel : wire'[d] = IF d = old /\ d # c THEN <<>> ELSE wire[d]
      BY <1>r, <1>e, <2>a DEF AttachDataChannel, Page
    <3>2. QuietStep
      BY <1>u, <2>a, <3>1 DEF QuietStep, Hears, Unheard, Active
    <3> QED BY <1>r, <3>1, <3>2 DEF CurrentInv
  <2>c. ASSUME NEW d \in Channel, ends' = [ends EXCEPT ![d]["receiver"] = "closed"],
               wire' = [wire EXCEPT ![d] = <<>>], receiving' \in {receiving, None},
               current'["receiver"] = current["receiver"] \/ current["receiver"] = d
        PROVE  QuietStep /\ (CurrentInv => CurrentInv')
    <3>1. \A e \in Channel : /\ ends'[e]["receiver"] = IF e = d THEN "closed" ELSE ends[e]["receiver"]
                             /\ wire'[e] = IF e = d THEN <<>> ELSE wire[e]
      BY <1>e, <2>c DEF Page
    <3>2. QuietStep
      BY <1>u, <2>c, <3>1 DEF QuietStep, Hears, Unheard, Active
    <3> QED BY <2>c, <3>1, <3>2 DEF CurrentInv
  <2>1. CASE StartRtcConnection(c, p)
    BY <1>r, <2>1, <2>a DEF StartRtcConnection
  <2>2. CASE RemoteChannelArrives(c, p)
    BY <1>r, <2>2, <2>a DEF RemoteChannelArrives
  <2>3. CASE ChannelOpens(c, p)
    <3>1. /\ \A d \in Channel \ {c} : ends'[d]["receiver"] = ends[d]["receiver"]
          /\ ends'[c]["receiver"] = "open" /\ ends[c]["receiver"] = "connecting"
          /\ UNCHANGED <<wire, receiving, current>>
      BY <1>r, <1>e, <2>3 DEF ChannelOpens, Page
    <3>2. QuietStep
      BY <1>u, <3>1 DEF QuietStep, Hears, Unheard, Active
    <3> QED BY <3>1, <3>2 DEF CurrentInv
  <2>4. CASE ChannelCloses(c, p)
    BY <1>r, <2>4, <2>c DEF ChannelCloses
  <2>5. CASE CloseRtcConnection(p)
    BY <1>r, <1>e, <2>5, <2>c DEF CloseRtcConnection
  <2> QED BY <2>1, <2>2, <2>3, <2>4, <2>5
<1> QED BY <1>e, <1>s, <1>r

\* The sender's part of a step sends the next packets of a run, or nothing.
LEMMA SendSteps ==
  ASSUME ChannelTypeOK, SendInv, NEW f \in Click,
         SendStarts(f) \/ SendGoesOn(f) \/ SendFails(f)
  PROVE  /\ ChannelTypeOK' /\ SendInv' /\ UNCHANGED <<ends, current>>
         /\ \/ QuietStep
            \/ \E c \in Channel, k \in Nat, messages \in Seq(Message) :
                 SendStep(f, c, k, messages)
<1>e. /\ sends \in [Click -> SendRecord] /\ wire \in [Channel -> Seq(Message)]
      /\ TotalChunks[f] \in Nat /\ None \notin Channel
  BY ChannelAssumption DEF ChannelTypeOK, SendRecord
\* One run sends its packets from number k on.
<1>s. ASSUME NEW c \in Channel, NEW k \in Nat, NEW messages \in Seq(Message), NEW run \in SendRecord,
             sends' = [sends EXCEPT ![f] = run], run.pc # "idle", run.channel = c,
             run.pc \in {"reading", "pausing"} =>
               run.next = k + Len(messages) - 1 /\ run.next <= TotalChunks[f],
             run.pc = "reading" => run.next < TotalChunks[f],
             Len(messages) \in 1 .. 2,
             \A j \in 1 .. Len(messages) :
               k + j - 1 \in 0 .. TotalChunks[f] + 1 /\ messages[j] = Packet(f, k + j - 1),
             Put(c, messages), UNCHANGED <<ends, current, receiving, downloads>>,
             mixed' \subseteq Click,
             \/ /\ sends[f].pc = "idle" /\ k = 0
                /\ mixed \subseteq mixed'
                /\ \A g \in Click : Uses(g, c) => {f, g} \subseteq mixed'
             \/ Uses(f, c) /\ k = sends[f].next + 1 /\ UNCHANGED mixed
      PROVE  ChannelTypeOK' /\ SendInv' /\ SendStep(f, c, k, messages)
  <2>1. wire' \in [Channel -> Seq(Message)]
    <3>1. wire[c] \o messages \in Seq(Message)
      BY <1>e, <1>s, ConcatProperties
    <3> QED BY <1>e, <1>s, <3>1 DEF Put
  <2>2. sends' \in [Click -> SendRecord]
    BY <1>e, <1>s
  <2>3. ChannelTypeOK'
    BY <1>s, <2>1, <2>2 DEF ChannelTypeOK, SendRecord
  <2>4. sends'[f] = run /\ \A g \in Click \ {f} : sends'[g] = sends[g]
    BY <1>e, <1>s
  <2>5. SendInv'
    BY <1>s, <2>4 DEF SendInv, Active
  <2>6. SendStep(f, c, k, messages)
    BY <1>s, <2>4 DEF SendStep, Active
  <2> QED BY <2>3, <2>5, <2>6
\* One run fails, or goes on to read.
<1>q. ASSUME NEW run \in SendRecord, sends' = [sends EXCEPT ![f] = run], Active(f),
             run.pc \in {"failed", "reading"}, run.next = sends[f].next,
             run.channel = sends[f].channel,
             run.pc = "reading" => run.next < TotalChunks[f],
             UNCHANGED <<ends, current, wire, receiving, downloads, mixed>>
      PROVE  ChannelTypeOK' /\ SendInv' /\ QuietStep
  <2>1. sends'[f] = run /\ \A g \in Click \ {f} : sends'[g] = sends[g]
    BY <1>e, <1>q
  <2>2. ChannelTypeOK'
    BY <1>e, <1>q DEF ChannelTypeOK, SendRecord
  <2>3. SendInv'
    BY <1>q, <2>1 DEF SendInv, Active
  <2>4. QuietStep
    BY <1>q, <2>1 DEF QuietStep, Hears, Unheard, Active
  <2> QED BY <2>2, <2>3, <2>4
<1>1. CASE SendStarts(f)
  <2> DEFINE c == current["sender"]
             others == {g \in Click : Active(g) /\ sends[g].channel = c}
  <2>1. c \in Channel /\ sends[f].pc = "idle"
    BY <1>1 DEF SendStarts, IsOpen, ChannelTypeOK, Page
  <2>2. /\ mixed \subseteq mixed' /\ mixed' \subseteq Click
        /\ \A g \in Click : Uses(g, c) => {f, g} \subseteq mixed'
    BY <1>1 DEF SendStarts, ChannelTypeOK, Uses
  <2>3. CASE TotalChunks[f] = 0
    <3> DEFINE messages == <<Meta(f), Complete(f)>>
               run == [pc |-> "done", next |-> 0, channel |-> c]
    <3>1. Meta(f) = Packet(f, 0) /\ Complete(f) = Packet(f, 1)
      <4>1. 0 \in Nat /\ 0 + 1 = 1
        OBVIOUS
      <4> QED BY <2>3, <4>1, PacketNames
    <3>2. Meta(f) \in Message /\ Complete(f) \in Message
      BY PacketNames
    <3>3. /\ messages \in Seq(Message) /\ Len(messages) = 2
          /\ messages[1] = Packet(f, 0) /\ messages[2] = Packet(f, 1)
      BY <3>1, <3>2
    <3>4. /\ run \in SendRecord /\ run.pc # "idle" /\ run.channel = c
          /\ run.pc \notin {"reading", "pausing"} /\ run.pc # "reading"
          /\ 0 \in Nat /\ Len(messages) \in 1 .. 2
      BY <2>1, <3>3 DEF SendRecord
    <3>5. \A j \in 1 .. Len(messages) :
            0 + j - 1 \in 0 .. TotalChunks[f] + 1 /\ messages[j] = Packet(f, 0 + j - 1)
      <4> HIDE DEF messages
      <4> QED BY <2>3, <3>3
    <3>6. /\ sends' = [sends EXCEPT ![f] = run]
          /\ Put(c, messages) /\ UNCHANGED <<ends, current, receiving, downloads>>
      BY <1>1, <2>3 DEF SendStarts
    <3> HIDE DEF c, messages, run
    <3>7. SendStep(f, c, 0, messages) /\ ChannelTypeOK' /\ SendInv'
      BY <1>s, <2>1, <2>2, <2>3, <3>3, <3>4, <3>5, <3>6
    <3> QED BY <2>1, <3>3, <3>6, <3>7
  <2>4. CASE TotalChunks[f] # 0
    <3> DEFINE messages == <<Meta(f)>>
               run == [pc |-> "reading", next |-> 0, channel |-> c]
    <3>1. Meta(f) = Packet(f, 0) /\ Meta(f) \in Message
      BY PacketNames
    <3>2. /\ messages \in Seq(Message) /\ Len(messages) = 1
          /\ \A j \in 1 .. Len(messages) :
               0 + j - 1 \in 0 .. TotalChunks[f] + 1 /\ messages[j] = Packet(f, 0 + j - 1)
      BY <1>e, <3>1
    <3>3. /\ run \in SendRecord /\ run.pc # "idle" /\ run.channel = c
          /\ 0 \in Nat /\ Len(messages) \in 1 .. 2
          /\ run.next = 0 + Len(messages) - 1 /\ run.next <= TotalChunks[f]
          /\ run.next < TotalChunks[f]
      BY <1>e, <2>1, <2>4, <3>2 DEF SendRecord
    <3>4. /\ sends' = [sends EXCEPT ![f] = run]
          /\ Put(c, messages) /\ UNCHANGED <<ends, current, receiving, downloads>>
      BY <1>1, <2>4 DEF SendStarts
    <3> HIDE DEF c, messages, run
    <3>5. SendStep(f, c, 0, messages) /\ ChannelTypeOK' /\ SendInv'
      BY <1>e, <1>s, <2>1, <2>2, <2>4, <3>2, <3>3, <3>4
    <3> QED BY <2>1, <3>2, <3>4, <3>5
  <2> QED BY <2>3, <2>4
<1>2. CASE SendNext(f)
  <2> DEFINE c == sends[f].channel
             i == sends[f].next
             packet == [type |-> "chunk", chunk |-> <<i, f>>]
             pauses == i % PauseEvery = 0
             last == i + 1 = TotalChunks[f]
             run == [pc |-> IF pauses THEN "pausing" ELSE IF last THEN "done" ELSE "reading",
                     next |-> i + 1, channel |-> c]
             messages == IF last /\ ~ pauses THEN <<packet, Complete(f)>> ELSE <<packet>>
  <2>1. c \in Channel /\ sends[f].pc = "reading" /\ i \in Nat /\ i < TotalChunks[f]
    BY <1>2, <1>e DEF SendNext, SendInv, IsOpen, SendRecord
  <2>2. run \in SendRecord
    BY <2>1 DEF SendRecord
  <2>3. sends' = [sends EXCEPT ![f] = run]
    BY <1>2, <1>e, <2>1 DEF SendNext, SendRecord
  <2>4. Put(c, messages) /\ UNCHANGED <<ends, current, receiving, downloads, mixed>>
    BY <1>2 DEF SendNext
  <2>5. packet = Packet(f, i + 1) /\ packet \in Message
    <3>1. packet = Packet(f, i + 1)
      BY <2>1, PacketNames
    <3>2. i + 1 \in 0 .. TotalChunks[f] + 1
      BY <1>e, <2>1
    <3> QED BY <3>1, <3>2, PacketFacts
  <2>6. Complete(f) \in Message /\ (last => Complete(f) = Packet(f, i + 2))
    <3>1. i + 1 \in Nat /\ (i + 1) + 1 = i + 2
      BY <2>1
    <3> QED BY <3>1, PacketNames
  <2>7. /\ messages \in Seq(Message)
        /\ Len(messages) = IF last /\ ~ pauses THEN 2 ELSE 1
        /\ messages[1] = packet /\ (last /\ ~ pauses => messages[2] = Complete(f))
    <3> HIDE DEF packet, pauses, last, run, c, i
    <3> QED BY <2>5, <2>6
  <2>8. \A j \in 1 .. Len(messages) :
          (i + 1) + j - 1 \in 0 .. TotalChunks[f] + 1 /\ messages[j] = Packet(f, (i + 1) + j - 1)
    <3> HIDE DEF messages, packet, c, i, pauses
    <3> QED BY <1>e, <2>1, <2>5, <2>6, <2>7
  <2>9. /\ run.pc # "idle" /\ run.channel = c
        /\ run.pc \in {"reading", "pausing"} =>
             run.next = (i + 1) + Len(messages) - 1 /\ run.next <= TotalChunks[f]
        /\ run.pc = "reading" => run.next < TotalChunks[f]
        /\ Len(messages) \in 1 .. 2 /\ i + 1 \in Nat
    <3> HIDE DEF messages, packet, c, i, pauses
    <3> QED BY <1>e, <2>1, <2>7
  <2>10. Uses(f, c) /\ mixed' \subseteq Click
    BY <2>1, <2>4 DEF Uses, Active, ChannelTypeOK
  <2>11. UNCHANGED mixed /\ i + 1 = sends[f].next + 1
    BY <2>4
  <2> HIDE DEF messages, run, c, i
  <2>12. SendStep(f, c, i + 1, messages) /\ ChannelTypeOK' /\ SendInv'
    BY <1>s, <2>1, <2>2, <2>3, <2>4, <2>7, <2>8, <2>9, <2>10, <2>11
  <2> QED BY <2>1, <2>4, <2>7, <2>9, <2>12
<1>3. CASE SendResumes(f)
  <2> DEFINE c == sends[f].channel
             i == sends[f].next
             run(pc) == [pc |-> pc, next |-> i, channel |-> c]
             messages == <<Complete(f)>>
  <2>1. /\ sends[f].pc = "pausing" /\ Active(f) /\ i \in Nat /\ i <= TotalChunks[f]
        /\ UNCHANGED <<ends, current, receiving, downloads, mixed>>
    BY <1>3, <1>e DEF SendResumes, SendInv, Active, SendRecord
  <2>2. \A pc \in {"reading", "done"} :
           run(pc) \in SendRecord /\ run(pc) = [sends[f] EXCEPT !.pc = pc]
    BY <1>e DEF SendRecord
  <2>3. CASE i < TotalChunks[f]
    <3>1. sends' = [sends EXCEPT ![f] = run("reading")] /\ UNCHANGED wire
      BY <1>3, <2>2, <2>3 DEF SendResumes
    <3> QED BY <1>q, <2>1, <2>2, <2>3, <3>1
  <2>4. CASE ~ i < TotalChunks[f]
    <3>1. /\ sends' = [sends EXCEPT ![f] = run("done")]
          /\ Put(c, messages) /\ c \in Channel
      BY <1>3, <1>e, <2>2, <2>4 DEF SendResumes, IsOpen, SendRecord
    <3>2. i = TotalChunks[f] /\ Complete(f) = Packet(f, i + 1) /\ Complete(f) \in Message
      <4>1. i = TotalChunks[f]
        BY <1>e, <2>1, <2>4
      <4> QED BY <2>1, <4>1, PacketNames
    <3>3. /\ messages \in Seq(Message) /\ Len(messages) = 1
          /\ \A j \in 1 .. Len(messages) :
               (i + 1) + j - 1 \in 0 .. TotalChunks[f] + 1 /\ messages[j] = Packet(f, (i + 1) + j - 1)
      <4> HIDE DEF i
      <4> QED BY <1>e, <2>1, <3>2
    <3> DEFINE ended == run("done")
    <3>4. /\ ended.pc # "idle" /\ ended.channel = c
          /\ ended.pc \notin {"reading", "pausing"} /\ ended.pc # "reading"
          /\ Len(messages) \in 1 .. 2
          /\ Uses(f, c) /\ mixed' \subseteq Click /\ UNCHANGED mixed
          /\ i + 1 = sends[f].next + 1 /\ i + 1 \in Nat /\ ended \in SendRecord
      BY <2>1, <2>2, <3>3 DEF Uses, ChannelTypeOK
    <3>6. sends' = [sends EXCEPT ![f] = ended]
      BY <3>1
    <3> HIDE DEF messages, ended, c, i
    <3>5. SendStep(f, c, i + 1, messages) /\ ChannelTypeOK' /\ SendInv'
      BY <1>s, <2>1, <3>1, <3>3, <3>4, <3>6
    <3> QED BY <2>1, <3>1, <3>3, <3>4, <3>5
  <2> QED BY <2>3, <2>4
<1>4. CASE SendFails(f) \/ SendThrows(f)
  BY <1>4, <1>e, <1>q DEF SendFails, SendThrows, SendRecord
<1> QED BY <1>1, <1>2, <1>3, <1>4 DEF SendGoesOn

\* What handleFileChunk makes of a transfer.
Added(t, chunk) ==
  IF \E old \in t.chunks : old[1] = chunk[1] THEN t
  ELSE [t EXCEPT !.chunks = @ \cup {chunk}]

LEMMA AddedType ==
  ASSUME NEW t \in Transfer, NEW chunk \in Chunk
  PROVE  Added(t, chunk) \in Transfer /\ Added(t, chunk).id = t.id
BY DEF Added, Transfer

\* The first message is taken off the wire.
LEMMA Delivered ==
  ASSUME ChannelTypeOK, NEW c \in Channel, HandleDataChannelMessage(c)
  PROVE  /\ ends[c]["receiver"] = "open"
         /\ UNCHANGED <<ends, current, sends, mixed>>
         /\ wire' \in [Channel -> Seq(Message)]
         /\ Len(wire[c]) \in Nat \ {0} /\ Len(wire'[c]) = Len(wire[c]) - 1
         /\ \A i \in 1 .. Len(wire[c]) : wire[c][i] \in Message
         /\ \A i \in 1 .. Len(wire'[c]) : wire'[c][i] = wire[c][i + 1]
         /\ \A d \in Channel \ {c} : wire'[d] = wire[d]
<1>1. wire[c] \in Seq(Message) /\ wire[c] # <<>> /\ wire \in [Channel -> Seq(Message)]
  BY DEF HandleDataChannelMessage, ChannelTypeOK
<1>2. wire' = [wire EXCEPT ![c] = Tail(wire[c])]
  BY DEF HandleDataChannelMessage
<1>3. /\ Tail(wire[c]) \in Seq(Message) /\ Len(Tail(wire[c])) = Len(wire[c]) - 1
      /\ \A i \in 1 .. Len(Tail(wire[c])) : Tail(wire[c])[i] = wire[c][i + 1]
  BY <1>1, HeadTailProperties
<1>4. wire'[c] = Tail(wire[c]) /\ \A d \in Channel \ {c} : wire'[d] = wire[d]
  BY <1>1, <1>2
<1>5. wire' \in [Channel -> Seq(Message)]
  BY <1>1, <1>2, <1>3
<1>6. Len(wire[c]) \in Nat \ {0}
  BY <1>1, EmptySeq
<1>7. \A i \in 1 .. Len(wire[c]) : wire[c][i] \in Message
  BY <1>1, ElementOfSeq
<1>8. ends[c]["receiver"] = "open" /\ UNCHANGED <<ends, current, sends, mixed>>
  BY DEF HandleDataChannelMessage, IsOpen
<1> QED BY <1>3, <1>4, <1>5, <1>6, <1>7, <1>8

\* What the receiver makes of it.
LEMMA Handled ==
  ASSUME ChannelTypeOK, NEW c \in Channel, HandleDataChannelMessage(c), NEW m, m = wire[c][1]
  PROVE  \/ IsMeta(m) /\ receiving' = Got(m.id, 0) /\ UNCHANGED downloads
         \/ /\ m.type = "chunk" /\ receiving # None
            /\ \/ /\ receiving' = Added(receiving, m.chunk) /\ UNCHANGED downloads
                  /\ Cardinality(Added(receiving, m.chunk).chunks) # TotalChunks[receiving.id]
               \/ /\ receiving' = None
                  /\ downloads' = Append(downloads, Added(receiving, m.chunk))
                  /\ Cardinality(Added(receiving, m.chunk).chunks) = TotalChunks[receiving.id]
         \/ /\ m = Complete(m.id) /\ receiving # None /\ receiving.id = m.id
            /\ receiving' = None /\ downloads' = Append(downloads, receiving)
         \/ /\ receiving = None \/ (m = Complete(m.id) /\ receiving.id # m.id)
            /\ ~ IsMeta(m) /\ UNCHANGED <<receiving, downloads>>
<1>1. m = Head(wire[c]) /\ m \in Message
  BY Delivered DEF HandleDataChannelMessage, ChannelTypeOK
<1>2. m.type = "file-complete" => m = Complete(m.id)
  BY <1>1 DEF Message, Complete
<1>3. CASE m.type = "file-meta" /\ HandleFileMeta(m)
  <2>1. {<<i, m.id>> : i \in 0 .. 0 - 1} = {}
    OBVIOUS
  <2> QED BY <1>3, <2>1 DEF HandleFileMeta, IsMeta, Got
<1>4. CASE m.type = "chunk" /\ HandleFileChunk(m.chunk)
  <2>1. CASE receiving = None
    BY <1>4, <2>1 DEF HandleFileChunk, IsMeta
  <2>2. CASE receiving # None
    <3> DEFINE now == Added(receiving, m.chunk)
    <3>1. receiving \in Transfer /\ m.chunk \in Chunk
      BY <1>1, <1>4, <2>2, MessageFacts DEF ChannelTypeOK
    <3>2. now.id = receiving.id
      BY <3>1, AddedType
    <3>3. IF Cardinality(now.chunks) = TotalChunks[now.id] THEN FinalizeIncomingFile(now)
          ELSE receiving' = now /\ UNCHANGED downloads
      BY <1>4, <2>2 DEF HandleFileChunk, Added
    <3> QED BY <1>4, <2>2, <3>2, <3>3 DEF FinalizeIncomingFile
  <2> QED BY <2>1, <2>2
<1>5. CASE m.type = "file-complete" /\ HandleFileComplete(m)
  BY <1>2, <1>5 DEF HandleFileComplete, FinalizeIncomingFile, IsMeta
<1> QED BY <1>1, <1>3, <1>4, <1>5 DEF HandleDataChannelMessage

\* The receiver's part of a step keeps the types.
LEMMA DeliverTypes ==
  ASSUME ChannelTypeOK, NEW c \in Channel, HandleDataChannelMessage(c)
  PROVE  ChannelTypeOK'
<1> DEFINE m == wire[c][1]
<1>1. m \in Message
  BY Delivered
<1>2. m.type = "chunk" /\ receiving # None => Added(receiving, m.chunk) \in Transfer
  BY <1>1, MessageFacts, AddedType DEF ChannelTypeOK
<1>3. IsMeta(m) => Got(m.id, 0) \in Transfer
  <2>1. {<<i, m.id>> : i \in 0 .. 0 - 1} = {}
    OBVIOUS
  <2> QED BY <1>1, <2>1, MessageFacts DEF IsMeta, Got, Transfer
<1>4. \A t \in Transfer : Append(downloads, t) \in Seq(Transfer)
  BY DEF ChannelTypeOK
<1> HIDE DEF m
<1>5. receiving' \in Transfer \cup {None} /\ downloads' \in Seq(Transfer)
  BY <1>2, <1>3, <1>4, Handled DEF ChannelTypeOK, m
<1> QED BY <1>5, Delivered DEF ChannelTypeOK

-----------------------------------------------------------------------------
\* A step that sends and delivers nothing only takes away what the invariant speaks of.
LEMMA QuietKeeps ==
  ASSUME ChannelTypeOK, ChannelInv, QuietStep, SendInv', CurrentInv'
  PROVE  ChannelInv'
<1> USE DEF ChannelInv
<1>w. ASSUME NEW c \in Channel
      PROVE  /\ Hears(c)' => Hears(c) /\ wire'[c] = wire[c]
             /\ Unheard(c)' => Unheard(c) /\ wire'[c] = wire[c]
             /\ wire'[c] = wire[c] \/ wire'[c] = <<>>
             /\ \A g \in Click : Uses(g, c)' => Uses(g, c) /\ sends'[g].next = sends[g].next
  BY <1>w DEF QuietStep, Uses, Hears, Unheard
<1>e. \A c \in Channel : wire'[c] = <<>> => 1 .. Len(wire'[c]) = {}
  OBVIOUS
<1>r. ASSUME NEW f \in Click
      PROVE  /\ Arrived(f)' => Arrived(f) /\ receiving' = receiving
             /\ Offered(f)' <=> Offered(f)
             /\ sends'[f].pc = "idle" <=> sends[f].pc = "idle"
             /\ sends'[f].channel = sends[f].channel
  BY <1>r DEF QuietStep, Arrived, Offered
<1>m. ASSUME NEW c \in Channel, NEW i \in 1 .. Len(wire'[c])
      PROVE  /\ wire'[c] = wire[c] /\ wire[c][i] \in Message /\ SenderOf(wire[c][i]) \in Click
             /\ IsMeta(wire[c][i]) => wire[c][i].id \in Click
  <2>1. wire'[c] = wire[c]
    BY <1>w, <1>e, <1>m
  <2>2. wire[c][i] \in Message
    BY <1>m, <2>1, ElementOfSeq DEF ChannelTypeOK
  <2> QED BY <2>1, <2>2, MessageFacts DEF IsMeta
<1>1. OwnChannelInv'
  BY <1>m, <1>r DEF OwnChannelInv
<1>2. MetaInv'
  BY <1>m, <1>r DEF MetaInv
<1>3. OfferedInv'
  BY <1>r DEF OfferedInv
<1>4. DownloadedOnce' /\ AloneIsIntact'
  BY DEF QuietStep, DownloadedOnce, AloneIsIntact
<1>5. UnheardInv'
  BY <1>w DEF UnheardInv, MetaBehind
<1>6. ApartInv'
  BY <1>w DEF ApartInv, QuietStep
<1>7. ASSUME NEW c \in Channel, NEW f \in Click, NEW i \in 0 .. Len(wire'[c]), Hears(c)', At(c, i, f)'
      PROVE  wire'[c] = wire[c] /\ Hears(c) /\ At(c, i, f) /\ i \in 0 .. Len(wire[c])
  BY <1>7, <1>w, <1>r DEF At
<1>8. BehindInv'
  BY <1>7, <1>w DEF BehindInv, QuietStep, MetaBehind
<1>9. OrderInv'
  <2> SUFFICES ASSUME NEW c \in Channel, NEW f \in Click \ mixed, NEW i \in 0 .. Len(wire'[c]),
                      Hears(c)', At(c, i, f)'
               PROVE  \E k \in 0 .. TotalChunks[f] + 1 : InOrder(c, i, f, k)'
    BY DEF OrderInv, QuietStep
  <2>1. PICK k \in 0 .. TotalChunks[f] + 1 : InOrder(c, i, f, k)
    BY <1>7 DEF OrderInv
  <2>2. wire'[c] = wire[c] /\ (i = 0 => receiving' = receiving)
    BY <1>7, <1>r DEF At
  <2>3. Stage(c, i, f, k)'
    BY <2>1, <2>2 DEF Stage, InOrder
  <2>4. InOrder(c, i, f, k)'
    BY <1>w, <2>1, <2>2, <2>3 DEF InOrder
  <2> QED BY <2>4
<1> QED BY <1>1, <1>2, <1>3, <1>4, <1>5, <1>6, <1>8, <1>9

-----------------------------------------------------------------------------
\* What a sending step does to the wires and to the runs.
LEMMA Sent ==
  ASSUME ChannelTypeOK, NEW f \in Click, NEW c \in Channel, NEW k \in Nat,
         NEW messages \in Seq(Message), SendStep(f, c, k, messages)
  PROVE  /\ \A d \in Channel : Len(wire[d]) \in Nat /\ (~ Hears(c) \/ d # c => wire'[d] = wire[d])
         /\ Hears(c) =>
              /\ Len(wire'[c]) = Len(wire[c]) + Len(messages)
              /\ \A i \in 1 .. Len(wire[c]) : wire'[c][i] = wire[c][i]
              /\ \A i \in 1 .. Len(wire'[c]) : i > Len(wire[c]) =>
                   /\ k + (i - Len(wire[c])) - 1 \in 0 .. TotalChunks[f] + 1
                   /\ wire'[c][i] = Packet(f, k + (i - Len(wire[c])) - 1)
         /\ \A d \in Channel : \A i \in 1 .. Len(wire[d]) : wire[d][i] \in Message
<1>1. \A d \in Channel : wire[d] \in Seq(Message)
  BY DEF ChannelTypeOK
<1>2. \A d \in Channel : \A i \in 1 .. Len(wire[d]) : wire[d][i] \in Message
  BY <1>1, ElementOfSeq
<1>3. \A d \in Channel : Len(wire[d]) \in Nat
  BY <1>1, LenProperties
<1>4. \A d \in Channel : ~ Hears(c) \/ d # c => wire'[d] = wire[d]
  BY DEF SendStep, Put, Hears, ChannelTypeOK
<1>5. ASSUME Hears(c)
      PROVE  /\ Len(wire'[c]) = Len(wire[c]) + Len(messages)
             /\ \A i \in 1 .. Len(wire[c]) : wire'[c][i] = wire[c][i]
             /\ \A i \in 1 .. Len(wire'[c]) : i > Len(wire[c]) =>
                  /\ k + (i - Len(wire[c])) - 1 \in 0 .. TotalChunks[f] + 1
                  /\ wire'[c][i] = Packet(f, k + (i - Len(wire[c])) - 1)
  <2>1. wire'[c] = wire[c] \o messages
    BY <1>5 DEF SendStep, Put, Hears, ChannelTypeOK
  <2>2. /\ Len(wire'[c]) = Len(wire[c]) + Len(messages) /\ Len(messages) \in Nat
        /\ \A i \in 1 .. Len(wire[c]) + Len(messages) :
             wire'[c][i] = IF i <= Len(wire[c]) THEN wire[c][i] ELSE messages[i - Len(wire[c])]
    BY <1>1, <2>1, ConcatProperties, LenProperties
  <2>3. ASSUME NEW i \in 1 .. Len(wire'[c]), i > Len(wire[c])
        PROVE  /\ k + (i - Len(wire[c])) - 1 \in 0 .. TotalChunks[f] + 1
               /\ wire'[c][i] = Packet(f, k + (i - Len(wire[c])) - 1)
    <3> DEFINE j == i - Len(wire[c])
    <3>1. j \in 1 .. Len(messages) /\ wire'[c][i] = messages[j]
      BY <1>3, <2>2, <2>3
    <3>2. k + j - 1 \in 0 .. TotalChunks[f] + 1 /\ messages[j] = Packet(f, k + j - 1)
      BY <3>1 DEF SendStep
    <3> QED BY <3>1, <3>2
  <2>4. \A i \in 1 .. Len(wire[c]) : wire'[c][i] = wire[c][i]
    BY <1>3, <2>2
  <2> QED BY <2>2, <2>3, <2>4
<1> QED BY <1>2, <1>3, <1>4, <1>5

\* The old messages stay where they were, and the first new one is behind them.
LEMMA SentBehind ==
  ASSUME ChannelTypeOK, NEW f \in Click, NEW c \in Channel, NEW k \in Nat,
         NEW messages \in Seq(Message), SendStep(f, c, k, messages), Hears(c)
  PROVE  /\ Len(wire[c]) \in Nat /\ Len(wire[c]) + 1 \in 1 .. Len(wire'[c])
         /\ \A i \in 1 .. Len(wire[c]) : i \in 1 .. Len(wire'[c]) /\ wire'[c][i] = wire[c][i]
         /\ wire'[c][Len(wire[c]) + 1] = Packet(f, k)
<1> DEFINE n == Len(wire[c])
           l == Len(messages)
<1>1. n \in Nat /\ l \in 1 .. 2 /\ Len(wire'[c]) = n + l
  <2>1. l \in 1 .. 2
    BY DEF SendStep
  <2>2. n \in Nat /\ Len(wire'[c]) = n + l
    BY Sent
  <2> QED BY <2>1, <2>2
<1>2. n + 1 \in 1 .. Len(wire'[c]) /\ n + 1 > n /\ 1 .. n \subseteq 1 .. Len(wire'[c])
  <2> HIDE DEF n, l
  <2> QED BY <1>1
<1>3. k + ((n + 1) - n) - 1 = k
  <2> HIDE DEF n
  <2> QED BY <1>1
<1>4. wire'[c][n + 1] = Packet(f, k)
  <2>1. wire'[c][n + 1] = Packet(f, k + ((n + 1) - n) - 1)
    BY <1>2, Sent
  <2> QED BY <1>3, <2>1
<1>5. \A i \in 1 .. n : wire'[c][i] = wire[c][i]
  BY Sent
<1> QED BY <1>1, <1>2, <1>4, <1>5

\* The runs' part of it.
LEMMA SentRuns ==
  ASSUME NEW f \in Click, NEW c \in Channel, NEW k \in Nat,
         NEW messages \in Seq(Message), SendStep(f, c, k, messages), SendInv, OwnChannelInv
  PROVE  /\ UNCHANGED <<ends, current, receiving, downloads>>
         /\ sends'[f].pc # "idle" /\ sends'[f].channel = c
         /\ Uses(f, c)' => sends'[f].next = k + Len(messages) - 1
         /\ \A g \in Click \ {f}, d \in Channel : sends'[g] = sends[g] /\ (Uses(g, d)' <=> Uses(g, d))
         /\ \A d \in Channel \ {c} : ~ Uses(f, d)'
         /\ mixed \subseteq mixed'
         /\ \/ /\ sends[f].pc = "idle" /\ k = 0 /\ ~ Uses(f, c)
               /\ \A g \in Click : Uses(g, c) => {f, g} \subseteq mixed'
            \/ /\ sends[f].pc # "idle" /\ sends[f].channel = c /\ UNCHANGED mixed
               /\ Uses(f, c) /\ k = sends[f].next + 1 /\ sends[f].next <= TotalChunks[f]
BY DEF SendStep, Uses, Active, SendInv

\* Its messages are on their own channel, and begin with a file-meta that was not there.
LEMMA SendKeepsMeta ==
  ASSUME ChannelTypeOK, ChannelInv, NEW f \in Click, NEW c \in Channel, NEW k \in Nat,
         NEW messages \in Seq(Message), SendStep(f, c, k, messages)
  PROVE  OwnChannelInv' /\ MetaInv' /\ OfferedInv' /\ DownloadedOnce' /\ AloneIsIntact'
<1> USE DEF ChannelInv
<1>r. /\ UNCHANGED <<ends, current, receiving, downloads>>
      /\ sends'[f].pc # "idle" /\ sends'[f].channel = c
      /\ \A g \in Click \ {f} : sends'[g] = sends[g]
      /\ mixed \subseteq mixed'
      /\ \/ sends[f].pc = "idle" /\ k = 0
         \/ sends[f].pc # "idle" /\ sends[f].channel = c /\ k > 0
  <2>1. k = sends[f].next + 1 => k > 0
    BY DEF ChannelTypeOK
  <2> QED BY <2>1, SentRuns
<1>a. \A g \in Click : (Arrived(g)' <=> Arrived(g)) /\ (Offered(g)' <=> Offered(g))
  BY <1>r DEF Arrived, Offered
<1>o. ASSUME NEW d \in Channel, NEW i \in 1 .. Len(wire[d])
      PROVE  /\ SenderOf(wire[d][i]) \in Click
             /\ sends[SenderOf(wire[d][i])].pc # "idle"
             /\ sends[SenderOf(wire[d][i])].channel = d
             /\ IsMeta(wire[d][i]) => wire[d][i].id \in Click /\ SenderOf(wire[d][i]) = wire[d][i].id
  BY <1>o, Sent, MessageFacts DEF OwnChannelInv, IsMeta
\* A message is an old one or a packet of f.
<1>m. ASSUME NEW d \in Channel, NEW i \in 1 .. Len(wire'[d])
      PROVE  \/ i \in 1 .. Len(wire[d]) /\ wire'[d][i] = wire[d][i]
             \/ /\ d = c /\ i > Len(wire[c]) /\ SenderOf(wire'[d][i]) = f
                /\ IsMeta(wire'[d][i]) => /\ sends[f].pc = "idle" /\ wire'[d][i].id = f
                                          /\ i = Len(wire[c]) + 1
  <2>1. CASE ~ Hears(c) \/ d # c
    <3>1. wire'[d] = wire[d]
      BY <2>1, Sent
    <3> QED BY <1>m, <3>1
  <2>2. CASE Hears(c) /\ d = c /\ i <= Len(wire[c])
    <3>1. i \in 1 .. Len(wire[c])
      BY <1>m, <2>2, Sent
    <3> QED BY <2>2, <3>1, Sent
  <2>3. CASE Hears(c) /\ d = c /\ i > Len(wire[c])
    <3> DEFINE l == k + (i - Len(wire[c])) - 1
    <3>1. l \in 0 .. TotalChunks[f] + 1 /\ wire'[d][i] = Packet(f, l) /\ Len(wire[c]) \in Nat
      BY <1>m, <2>3, Sent
    <3>2. SenderOf(wire'[d][i]) = f /\ (IsMeta(wire'[d][i]) <=> l = 0)
      BY <3>1, PacketFacts
    <3>3. l = 0 => k = 0 /\ i = Len(wire[c]) + 1
      BY <1>m, <2>3, <3>1, LenProperties
    <3>4. IsMeta(wire'[d][i]) => wire'[d][i].id = f
      BY <3>2 DEF SenderOf, IsMeta
    <3> QED BY <1>r, <2>3, <3>2, <3>3, <3>4
  <2>4. i <= Len(wire[c]) \/ i > Len(wire[c])
    BY Sent
  <2> QED BY <2>1, <2>2, <2>3, <2>4
<1>1. OwnChannelInv'
  <2> SUFFICES ASSUME NEW d \in Channel, NEW i \in 1 .. Len(wire'[d])
               PROVE  /\ sends'[SenderOf(wire'[d][i])].pc # "idle"
                      /\ sends'[SenderOf(wire'[d][i])].channel = d
    BY DEF OwnChannelInv, SenderOf
  <2> QED BY <1>m, <1>o, <1>r
<1>2. MetaInv'
  <2> SUFFICES ASSUME NEW d \in Channel, NEW i \in 1 .. Len(wire'[d]), IsMeta(wire'[d][i])
               PROVE  /\ ~ Arrived(wire'[d][i].id) /\ ~ Offered(wire'[d][i].id)
                      /\ \A j \in 1 .. Len(wire'[d]) :
                           IsMeta(wire'[d][j]) /\ wire'[d][j].id = wire'[d][i].id => i = j
    BY <1>r DEF MetaInv, IsMeta, Arrived, Offered
  <2>1. CASE i \in 1 .. Len(wire[d]) /\ wire'[d][i] = wire[d][i]
    BY <1>m, <1>o, <2>1 DEF MetaInv
  <2>2. CASE d = c /\ sends[f].pc = "idle" /\ wire'[d][i].id = f /\ i = Len(wire[c]) + 1
    BY <1>m, <1>o, <2>2 DEF OfferedInv
  <2> QED BY <1>m, <2>1, <2>2
<1>3. OfferedInv'
  BY <1>a, <1>r DEF OfferedInv
<1>4. DownloadedOnce' /\ AloneIsIntact'
  BY <1>r DEF DownloadedOnce, AloneIsIntact, ChannelTypeOK
<1> QED BY <1>1, <1>2, <1>3, <1>4

\* Behind what is alone comes its own next packet, or the file-meta of another file.
LEMMA SendKeepsOrder ==
  ASSUME ChannelTypeOK, ChannelInv, NEW f \in Click, NEW c \in Channel, NEW k \in Nat,
         NEW messages \in Seq(Message), SendStep(f, c, k, messages)
  PROVE  UnheardInv' /\ ApartInv' /\ BehindInv' /\ OrderInv'
<1> USE DEF ChannelInv
<1>s. Len(messages) \in 1 .. 2
  BY DEF SendStep
<1>h. \A d \in Channel : (Hears(d)' <=> Hears(d)) /\ (Unheard(d)' <=> Unheard(d))
  BY SentRuns DEF Hears, Unheard
<1>m. ASSUME NEW d \in Channel, d # c \/ ~ Hears(c)
      PROVE  wire'[d] = wire[d] /\ \A g, i : MetaBehind(d, g, i)' <=> MetaBehind(d, g, i)
  BY <1>m, Sent DEF MetaBehind
\* A run that goes on has its file-meta where it was; a run that starts puts it last.
<1>n. ASSUME Hears(c), NEW g \in Click, NEW i \in 0 .. Len(wire[c]), MetaBehind(c, g, i)
      PROVE  MetaBehind(c, g, i)'
  <2>1. PICK j \in 1 .. Len(wire[c]) : j > i /\ wire[c][j] = Meta(g)
    BY <1>n DEF MetaBehind
  <2>2. j \in 1 .. Len(wire'[c]) /\ wire'[c][j] = Meta(g)
    BY <1>n, <2>1, SentBehind
  <2> QED BY <2>1, <2>2 DEF MetaBehind, Meta
<1>f. ASSUME Hears(c), sends[f].pc = "idle", k = 0, NEW i \in 0 .. Len(wire[c])
      PROVE  MetaBehind(c, f, i)'
  <2> DEFINE j == Len(wire[c]) + 1
  <2>1. j \in 1 .. Len(wire'[c]) /\ wire'[c][j] = Meta(f)
    BY <1>f, SentBehind, PacketNames
  <2>2. j > i
    BY <1>f, SentBehind
  <2> QED BY <2>1, <2>2 DEF MetaBehind, Meta
<1>1. ApartInv'
  <2> SUFFICES ASSUME NEW d \in Channel, NEW g \in Click, NEW h \in Click,
                      Uses(g, d)', Uses(h, d)', g # h
               PROVE  g \in mixed'
    BY DEF ApartInv
  <2>1. CASE g # f /\ h # f
    BY <2>1, SentRuns DEF ApartInv
  <2>2. CASE g = f \/ h = f
    <3>1. d = c
      BY <2>2, SentRuns
    <3> QED BY <2>2, <3>1, SentRuns DEF ApartInv
  <2> QED BY <2>1, <2>2
<1>2. UnheardInv'
  <2> SUFFICES ASSUME NEW d \in Channel, Unheard(d)
               PROVE  /\ wire'[d] # <<>> => IsMeta(wire'[d][1])
                      /\ \A g \in Click : Uses(g, d)' => MetaBehind(d, g, 0)'
    BY <1>h DEF UnheardInv, IsMeta
  <2>1. CASE d # c
    BY <1>m, <2>1, SentRuns DEF UnheardInv
  <2>2. CASE d = c
    <3>0. Hears(c)
      BY <2>2 DEF Hears, Unheard
    <3>1. IsMeta(wire'[c][1])
      <4>1. CASE wire[c] # <<>>
        <5>1. 1 \in 1 .. Len(wire[c])
          BY <4>1, EmptySeq DEF ChannelTypeOK
        <5> QED BY <2>2, <3>0, <4>1, <5>1, SentBehind DEF UnheardInv, IsMeta
      <4>2. CASE wire[c] = <<>>
        <5>1. Len(wire[c]) = 0 /\ ~ MetaBehind(c, f, 0)
          BY <4>2 DEF MetaBehind
        <5>2. k = 0
          BY <2>2, <5>1, SentRuns DEF UnheardInv
        <5>3. wire'[c][Len(wire[c]) + 1] = Packet(f, 0)
          BY <3>0, <5>2, SentBehind
        <5>4. Len(wire[c]) + 1 = 1
          BY <5>1
        <5> QED BY <5>3, <5>4 DEF Packet, IsMeta, Meta
      <4> QED BY <4>1, <4>2
    <3>2. ASSUME NEW g \in Click, Uses(g, c)' PROVE MetaBehind(c, g, 0)'
      <4>1. 0 \in 0 .. Len(wire[c])
        BY Sent
      <4>2. CASE g = f /\ sends[f].pc = "idle" /\ k = 0
        BY <1>f, <3>0, <4>1, <4>2
      <4>3. CASE Uses(g, c)
        BY <1>n, <2>2, <3>0, <4>1, <4>3 DEF UnheardInv
      <4> QED BY <3>2, <4>2, <4>3, SentRuns
    <3> QED BY <2>2, <3>1, <3>2
  <2> QED BY <2>1, <2>2
\* Where an unmixed file is now, it was before, or it is what has been sent.
<1>a. ASSUME NEW d \in Channel, NEW g \in Click, NEW i \in 0 .. Len(wire'[d]), Hears(d), At(d, i, g)'
      PROVE  \/ i \in 0 .. Len(wire[d]) /\ At(d, i, g)
             \/ d = c /\ g = f /\ i \in 1 .. Len(wire'[c]) /\ i > Len(wire[c])
  <2>0. Len(wire[d]) \in Nat
    BY Sent
  <2>1. CASE i = 0
    <3>1. i \in 0 .. Len(wire[d])
      BY <2>0, <2>1
    <3>2. At(d, 0, g)
      BY <1>a, <2>1, SentRuns DEF At, Arrived
    <3> QED BY <2>1, <3>1, <3>2
  <2>2. CASE i # 0 /\ d # c
    BY <1>a, <1>m, <2>2 DEF At
  <2>3. CASE i # 0 /\ d = c /\ i <= Len(wire[c])
    <3>1. i \in 1 .. Len(wire[c])
      BY <2>0, <2>3
    <3> QED BY <1>a, <2>3, <3>1, SentBehind DEF At, SenderOf
  <2>4. CASE i # 0 /\ d = c /\ i > Len(wire[c])
    <3>1. i \in 1 .. Len(wire'[c])
      BY <2>4
    <3>2. /\ k + (i - Len(wire[c])) - 1 \in 0 .. TotalChunks[f] + 1
          /\ wire'[c][i] = Packet(f, k + (i - Len(wire[c])) - 1)
      BY <1>a, <2>4, <3>1, Sent
    <3>3. SenderOf(wire'[c][i]) = f
      BY <3>2, PacketFacts
    <3> QED BY <1>a, <2>4, <3>1, <3>3 DEF At, SenderOf
  <2>5. i <= Len(wire[d]) \/ i > Len(wire[d])
    BY <2>0
  <2> QED BY <2>1, <2>2, <2>3, <2>4, <2>5
<1>3. BehindInv'
  <2> SUFFICES ASSUME NEW d \in Channel, NEW g \in Click \ mixed', NEW h \in Click,
                      NEW i \in 0 .. Len(wire'[d]), Hears(d), At(d, i, g)', h # g, Uses(h, d)'
               PROVE  MetaBehind(d, h, i)'
    BY <1>h DEF BehindInv
  <2>0. g \in Click \ mixed
    BY SentRuns
  <2>1. CASE i \in 0 .. Len(wire[d]) /\ At(d, i, g)
    <3>1. CASE Uses(h, d)
      <4>1. MetaBehind(d, h, i)
        BY <2>0, <2>1, <3>1 DEF BehindInv
      <4> QED BY <1>m, <1>n, <2>1, <4>1
    <3>2. CASE ~ Uses(h, d)
      <4>1. h = f /\ d = c /\ sends[f].pc = "idle" /\ k = 0
        BY <3>2, SentRuns
      <4> QED BY <1>f, <2>1, <4>1
    <3> QED BY <3>1, <3>2
  <2>2. CASE d = c /\ g = f
    <3>1. Uses(h, c)
      BY <2>2, SentRuns
    <3> QED BY <2>2, <3>1, SentRuns DEF ApartInv
  <2> QED BY <1>a, <2>1, <2>2
<1>4. OrderInv'
  <2> SUFFICES ASSUME NEW d \in Channel, NEW g \in Click \ mixed',
                      NEW i \in 0 .. Len(wire'[d]), Hears(d), At(d, i, g)'
               PROVE  \E l \in 0 .. TotalChunks[g] + 1 : InOrder(d, i, g, l)'
    BY <1>h DEF OrderInv
  <2>0. g \in Click \ mixed /\ receiving' = receiving
    BY SentRuns
  <2>1. CASE d # c
    <3>1. wire'[d] = wire[d]
      BY <1>m, <2>1
    <3>2. At(d, i, g) /\ i \in 0 .. Len(wire[d])
      BY <1>a, <2>1
    <3>3. PICK l \in 0 .. TotalChunks[g] + 1 : InOrder(d, i, g, l)
      BY <2>0, <3>2 DEF OrderInv
    <3>4. Uses(g, d)' => Uses(g, d) /\ sends'[g] = sends[g]
      BY <2>0, <2>1, SentRuns
    <3>5. InOrder(d, i, g, l)'
      BY <2>0, <3>1, <3>3, <3>4 DEF InOrder, Stage
    <3> QED BY <3>5
  <2>2. CASE d = c /\ i \in 0 .. Len(wire[c]) /\ At(c, i, g)
    <3>1. PICK l \in 0 .. TotalChunks[g] + 1 : InOrder(c, i, g, l)
      BY <2>0, <2>2 DEF OrderInv
    <3>2. Len(wire[c]) \in Nat /\ i < Len(wire'[c])
      BY <2>2, SentBehind
    <3>3. Stage(c, i, g, l)'
      BY <2>0, <2>2, <3>1, SentBehind DEF InOrder, Stage
    <3>4. CASE i < Len(wire[c])
      <4>1. i + 1 \in 1 .. Len(wire[c])
        BY <2>2, <3>2, <3>4
      <4>2. wire'[c][i + 1] = wire[c][i + 1]
        BY <2>2, <4>1, SentBehind
      <4>3. InOrder(c, i, g, l)'
        BY <3>1, <3>2, <3>3, <3>4, <4>2 DEF InOrder, IsMeta
      <4> QED BY <2>2, <4>3
    <3>5. CASE i = Len(wire[c])
      <4>1. wire'[c][i + 1] = Packet(f, k)
        BY <2>2, <3>5, SentBehind
      <4>2. \/ IsMeta(wire'[c][i + 1])
            \/ l <= TotalChunks[g] /\ wire'[c][i + 1] = Packet(g, l + 1)
        <5>1. CASE k = 0
          BY <4>1, <5>1 DEF Packet, IsMeta, Meta
        <5>2. CASE Uses(f, c) /\ k = sends[f].next + 1 /\ sends[f].next <= TotalChunks[f]
          <6>1. ~ MetaBehind(c, f, i)
            BY <3>2, <3>5 DEF MetaBehind
          <6>2. g = f
            BY <2>0, <2>2, <5>2, <6>1 DEF BehindInv
          <6>3. l = sends[f].next
            BY <3>1, <3>5, <5>2, <6>2 DEF InOrder
          <6> QED BY <4>1, <5>2, <6>2, <6>3
        <5> QED BY <5>1, <5>2, SentRuns
      <4>3. InOrder(c, i, g, l)'
        BY <3>2, <3>3, <4>2 DEF InOrder, IsMeta
      <4> QED BY <2>2, <4>3
    <3> QED BY <2>2, <3>2, <3>4, <3>5
  <2>3. CASE d = c /\ g = f /\ i \in 1 .. Len(wire'[c]) /\ i > Len(wire[c])
    <3>0. Hears(c) /\ i \in 1 .. Len(wire'[c]) /\ i > Len(wire[c])
      BY <2>3
    <3>p. \A j \in 1 .. Len(wire'[c]) : j > Len(wire[c]) =>
            /\ k + (j - Len(wire[c])) - 1 \in 0 .. TotalChunks[f] + 1
            /\ wire'[c][j] = Packet(f, k + (j - Len(wire[c])) - 1)
      BY <3>0, Sent
    <3>a. PICK l \in 0 .. TotalChunks[f] + 1 :
            l = k + (i - Len(wire[c])) - 1 /\ wire'[c][i] = Packet(f, l)
      BY <3>0, <3>p
    <3>b. Len(wire'[c]) = Len(wire[c]) + Len(messages) /\ Len(wire[c]) \in Nat
      BY <3>0, Sent
    <3>1. TotalChunks[f] \in Nat
      BY ChannelAssumption
    <3>2. i < Len(wire'[c]) => l <= TotalChunks[f] /\ wire'[c][i + 1] = Packet(f, l + 1)
      <4> SUFFICES ASSUME i < Len(wire'[c])
                   PROVE  l <= TotalChunks[f] /\ wire'[c][i + 1] = Packet(f, l + 1)
        OBVIOUS
      <4>1. /\ i + 1 \in 1 .. Len(wire'[c]) /\ i + 1 > Len(wire[c])
            /\ k + ((i + 1) - Len(wire[c])) - 1 = l + 1
        BY <2>3, <3>a, <3>b
      <4>2. /\ k + ((i + 1) - Len(wire[c])) - 1 \in 0 .. TotalChunks[f] + 1
            /\ wire'[c][i + 1] = Packet(f, k + ((i + 1) - Len(wire[c])) - 1)
        BY <3>p, <4>1
      <4>3. l + 1 \in 0 .. TotalChunks[f] + 1 /\ wire'[c][i + 1] = Packet(f, l + 1)
        BY <4>1, <4>2
      <4>4. l <= TotalChunks[f]
        BY <3>1, <4>3
      <4> QED BY <4>3, <4>4
    <3>3. i = Len(wire'[c]) /\ Uses(f, c)' => l = sends'[f].next
      <4>1. i = Len(wire'[c]) => l = k + Len(messages) - 1
        BY <1>s, <3>a, <3>b
      <4> QED BY <4>1, SentRuns
    <3>c. i # 0
      BY <3>0
    <3>4. Stage(c, i, f, l)'
      BY <3>a, <3>c DEF Stage, Packet, Meta, Complete
    <3>5. InOrder(c, i, f, l)'
      BY <3>2, <3>3, <3>4 DEF InOrder, Packet, Meta, Complete, IsMeta
    <3> QED BY <2>3, <3>a, <3>5
  <2> QED BY <1>a, <2>1, <2>2, <2>3
<1> QED BY <1>1, <1>2, <1>3, <1>4

-----------------------------------------------------------------------------
\* The transfer begins with a file-meta; it is put together at most once, and is no
\* more being received then.
LEMMA Progress ==
  ASSUME ChannelTypeOK, NEW c \in Channel, HandleDataChannelMessage(c)
  PROVE  \/ /\ IsMeta(wire[c][1]) /\ UNCHANGED downloads
            /\ \A g : Arrived(g)' => g = wire[c][1].id
         \/ (\A g : Arrived(g)' => Arrived(g)) /\ UNCHANGED downloads
         \/ /\ receiving # None /\ receiving' = None
            /\ \E t \in Transfer : t.id = receiving.id /\ downloads' = Append(downloads, t)
<1> DEFINE m == wire[c][1]
<1>1. CASE IsMeta(m) /\ receiving' = Got(m.id, 0) /\ UNCHANGED downloads
  BY <1>1 DEF Arrived, Got
<1>2. CASE m.type = "chunk" /\ receiving # None
  <2> DEFINE now == Added(receiving, m.chunk)
  <2>1. now \in Transfer /\ now.id = receiving.id
    <3>1. m \in Message /\ receiving \in Transfer
      BY <1>2, Delivered DEF ChannelTypeOK
    <3> QED BY <1>2, <3>1, MessageFacts, AddedType
  <2>2. \/ receiving' = now /\ UNCHANGED downloads
        \/ receiving' = None /\ downloads' = Append(downloads, now)
    BY <1>2, Handled DEF IsMeta, Complete
  <2> QED BY <1>2, <2>1, <2>2 DEF Arrived
<1>3. CASE /\ receiving # None /\ receiving' = None /\ downloads' = Append(downloads, receiving)
  BY <1>3 DEF ChannelTypeOK
<1>4. CASE UNCHANGED <<receiving, downloads>>
  BY <1>4 DEF Arrived
<1> QED BY <1>1, <1>2, <1>3, <1>4, Handled

\* A file that is put together was not offered before, and no file-meta of it is left.
LEMMA DeliverKeepsMeta ==
  ASSUME ChannelTypeOK, ChannelInv, NEW c \in Channel, HandleDataChannelMessage(c)
  PROVE  OwnChannelInv' /\ MetaInv' /\ OfferedInv' /\ DownloadedOnce'
<1> USE DEF ChannelInv
<1> DEFINE m == wire[c][1]
<1>1. /\ UNCHANGED sends /\ 1 \in 1 .. Len(wire[c])
      /\ \A g \in Click : Offered(g) /\ Arrived(g) => FALSE
  BY Delivered DEF OfferedInv
\* What is on a wire was there, one place further on the channel that delivers.
<1>w. ASSUME NEW d \in Channel, NEW i \in 1 .. Len(wire'[d])
      PROVE  \E j \in 1 .. Len(wire[d]) :
               /\ wire'[d][i] = wire[d][j] /\ j = IF d = c THEN i + 1 ELSE i
               /\ wire[d][j] \in Message
  <2>1. CASE d = c
    <3>1. i + 1 \in 1 .. Len(wire[c])
      BY <1>w, <2>1, Delivered
    <3> QED BY <1>w, <2>1, <3>1, Delivered
  <2>2. CASE d # c
    BY <1>w, <2>2, Delivered, ElementOfSeq DEF ChannelTypeOK
  <2> QED BY <2>1, <2>2
<1>m. /\ m \in Message /\ sends[SenderOf(m)].pc # "idle" /\ sends[SenderOf(m)].channel = c
      /\ IsMeta(m) => /\ m.id \in Click /\ SenderOf(m) = m.id
                      /\ ~ Arrived(m.id) /\ ~ Offered(m.id)
  BY <1>1, Delivered, MessageFacts DEF OwnChannelInv, MetaInv, IsMeta
\* A file has arrived, or is offered, that had arrived, or had been offered, or has just begun.
<1>a. ASSUME NEW g \in Click
      PROVE  /\ Arrived(g)' => Arrived(g) \/ (IsMeta(m) /\ m.id = g)
             /\ Arrived(g)' => downloads' = downloads
             /\ Offered(g)' => Offered(g) \/ Arrived(g)
  <2>1. CASE downloads' = downloads
    BY <2>1, Progress DEF Arrived, Offered
  <2>2. CASE /\ receiving # None /\ receiving' = None
             /\ \E t \in Transfer : t.id = receiving.id /\ downloads' = Append(downloads, t)
    <3>1. PICK t \in Transfer : t.id = receiving.id /\ downloads' = Append(downloads, t)
      BY <2>2
    <3>2. \A i \in DOMAIN downloads' : downloads'[i] = t \/ (i \in DOMAIN downloads /\ downloads'[i] = downloads[i])
      <4> downloads \in Seq(Transfer)
        BY DEF ChannelTypeOK
      <4> QED BY <3>1
    <3> QED BY <2>2, <3>1, <3>2 DEF Arrived, Offered
  <2> QED BY <2>1, <2>2, Progress
<1>2. OwnChannelInv'
  <2> SUFFICES ASSUME NEW d \in Channel, NEW i \in 1 .. Len(wire'[d])
               PROVE  /\ sends[SenderOf(wire'[d][i])].pc # "idle"
                      /\ sends[SenderOf(wire'[d][i])].channel = d
    BY <1>1 DEF OwnChannelInv, SenderOf
  <2> QED BY <1>w DEF OwnChannelInv
<1>3. MetaInv'
  <2> SUFFICES ASSUME NEW d \in Channel, NEW i \in 1 .. Len(wire'[d]), IsMeta(wire'[d][i]),
                      NEW g, g = wire'[d][i].id
               PROVE  /\ ~ Arrived(g)' /\ ~ Offered(g)'
                      /\ \A j \in 1 .. Len(wire'[d]) :
                           IsMeta(wire'[d][j]) /\ wire'[d][j].id = g => i = j
    BY DEF MetaInv, IsMeta, Arrived, Offered
  <2>1. PICK x \in 1 .. Len(wire[d]) :
          wire'[d][i] = wire[d][x] /\ x = (IF d = c THEN i + 1 ELSE i) /\ wire[d][x] \in Message
    BY <1>w
  <2>2. /\ g \in Click /\ SenderOf(wire[d][x]) = g /\ sends[g].channel = d
        /\ ~ Arrived(g) /\ ~ Offered(g)
    BY <2>1, MessageFacts DEF IsMeta, OwnChannelInv, MetaInv
  <2>3. IsMeta(m) => m.id # g
    <3> SUFFICES ASSUME IsMeta(m), m.id = g PROVE FALSE
      OBVIOUS
    <3>1. d = c
      BY <1>m, <2>2
    <3>2. x = 1
      BY <1>1, <2>1, <3>1 DEF MetaInv
    <3> QED BY <2>1, <3>1, <3>2
  <2>4. ASSUME NEW j \in 1 .. Len(wire'[d]), IsMeta(wire'[d][j]), wire'[d][j].id = g
        PROVE  i = j
    <3>1. PICK y \in 1 .. Len(wire[d]) : wire'[d][j] = wire[d][y] /\ y = IF d = c THEN j + 1 ELSE j
      BY <1>w, <2>4
    <3>2. x = y
      BY <2>1, <2>4, <3>1 DEF MetaInv
    <3> QED BY <2>1, <3>1, <3>2
  <2>5. ~ Arrived(g)' /\ ~ Offered(g)'
    BY <1>a, <2>2, <2>3
  <2> QED BY <2>4, <2>5
<1>4. OfferedInv'
  <2> SUFFICES ASSUME NEW g \in Click
               PROVE  /\ Arrived(g)' => sends[g].pc # "idle" /\ ~ Offered(g)'
                      /\ Offered(g)' => sends[g].pc # "idle"
    BY <1>1 DEF OfferedInv
  <2>1. Arrived(g)' => (Offered(g)' <=> Offered(g))
    BY <1>a DEF Offered
  <2>2. IsMeta(m) /\ m.id = g => sends[g].pc # "idle" /\ ~ Offered(g)
    BY <1>m
  <2> HIDE DEF m
  <2> QED BY <1>a, <2>1, <2>2 DEF OfferedInv
<1>5. DownloadedOnce'
  <2>1. CASE downloads' = downloads
    BY <2>1 DEF DownloadedOnce
  <2>2. ASSUME NEW t \in Transfer, receiving # None, t.id = receiving.id,
               downloads' = Append(downloads, t)
        PROVE  DownloadedOnce'
    <3>1. downloads \in Seq(Transfer) /\ t.id \in Click /\ Arrived(t.id)
      BY <2>2 DEF ChannelTypeOK, Arrived, Transfer
    <3>2. \A i \in DOMAIN downloads : downloads[i].id # t.id
      BY <1>1, <3>1 DEF Offered
    <3>3. /\ DOMAIN downloads' = DOMAIN downloads \cup {Len(downloads) + 1}
          /\ downloads'[Len(downloads) + 1] = t
          /\ \A i \in DOMAIN downloads : downloads'[i] = downloads[i]
      BY <2>2, <3>1
    <3> QED BY <3>2, <3>3 DEF DownloadedOnce
  <2> QED BY <2>1, <2>2, Progress
<1> QED BY <1>2, <1>3, <1>4, <1>5

\* The next packet of a transfer that has its first k chunks adds chunk k.
LEMMA NextChunk ==
  ASSUME NEW f \in Click, NEW k \in 0 .. TotalChunks[f]
  PROVE  /\ Added(Got(f, k), <<k, f>>) = Got(f, k + 1)
         /\ Cardinality(Got(f, k).chunks) = k /\ Cardinality(Got(f, k + 1).chunks) = k + 1
         /\ k = TotalChunks[f] => Got(f, k).chunks = Whole(f)
         /\ k + 1 = TotalChunks[f] => Got(f, k + 1).chunks = Whole(f)
<1>0. TotalChunks[f] \in Nat /\ k \in Nat /\ k + 1 \in Nat
  BY ChannelAssumption
<1>1. ~ \E old \in Got(f, k).chunks : old[1] = k
  BY <1>0 DEF Got
<1>2. {<<i, f>> : i \in 0 .. k - 1} \cup {<<k, f>>} = {<<i, f>> : i \in 0 .. (k + 1) - 1}
  <2>1. 0 .. (k + 1) - 1 = (0 .. k - 1) \cup {k}
    BY <1>0
  <2> QED BY <2>1
<1>3. Added(Got(f, k), <<k, f>>) = Got(f, k + 1)
  BY <1>1, <1>2 DEF Added, Got
<1>4. Cardinality(Got(f, k).chunks) = k /\ Cardinality(Got(f, k + 1).chunks) = k + 1
  BY <1>0, GotCardinality
<1> QED BY <1>3, <1>4 DEF Got, Whole

\* Of a file that is alone the receiver has the first chunks, and the next message is
\* the next packet, or another file's file-meta.
LEMMA AloneNext ==
  ASSUME ChannelTypeOK, ChannelInv, NEW c \in Channel, HandleDataChannelMessage(c),
         NEW f \in Click \ mixed, Arrived(f), ~ IsMeta(wire[c][1])
  PROVE  \E k \in 0 .. TotalChunks[f] :
           receiving = Got(f, k) /\ wire[c][1] = Packet(f, k + 1) /\ k + 1 \in 0 .. TotalChunks[f] + 1
<1>1. 0 \in 0 .. Len(wire[c]) /\ 0 < Len(wire[c]) /\ Hears(c) /\ 0 + 1 = 1
  BY Delivered DEF Hears
<1>2. PICK k \in 0 .. TotalChunks[f] + 1 : InOrder(c, 0, f, k)
  BY <1>1 DEF ChannelInv, OrderInv, At
<1>3. receiving = Got(f, k) /\ k <= TotalChunks[f] /\ wire[c][1] = Packet(f, k + 1)
  BY <1>1, <1>2 DEF InOrder, Stage
<1>4. TotalChunks[f] \in Nat
  BY ChannelAssumption
<1>5. k \in 0 .. TotalChunks[f] /\ k + 1 \in 0 .. TotalChunks[f] + 1
  BY <1>3, <1>4
<1> QED BY <1>3, <1>5

\* What is taken off the wire is what the transfer has come to.
LEMMA Follows ==
  ASSUME ChannelTypeOK, ChannelInv, NEW c \in Channel, HandleDataChannelMessage(c),
         NEW f \in Click \ mixed, Arrived(f)'
  PROVE  \E k \in 0 .. TotalChunks[f] + 1 : wire[c][1] = Packet(f, k) /\ receiving' = Got(f, k)
<1> DEFINE m == wire[c][1]
<1>0. TotalChunks[f] \in Nat /\ receiving' # None /\ receiving'.id = f /\ m \in Message
  BY ChannelAssumption, Delivered DEF Arrived
<1>1. CASE IsMeta(m) /\ receiving' = Got(m.id, 0)
  <2>1. m = Packet(f, 0) /\ receiving' = Got(f, 0)
    BY <1>0, <1>1, MessageFacts DEF Got, Packet
  <2>2. 0 \in 0 .. TotalChunks[f] + 1
    BY <1>0
  <2> QED BY <2>1, <2>2
<1>2. CASE /\ m.type = "chunk" /\ receiving # None /\ receiving' = Added(receiving, m.chunk)
  <2>1. Arrived(f)
    <3>1. receiving \in Transfer /\ m.chunk \in Chunk
      BY <1>0, <1>2, MessageFacts DEF ChannelTypeOK
    <3> QED BY <1>0, <1>2, <3>1, AddedType DEF Arrived
  <2>2. PICK k \in 0 .. TotalChunks[f] :
          receiving = Got(f, k) /\ m = Packet(f, k + 1) /\ k + 1 \in 0 .. TotalChunks[f] + 1
    BY <1>2, <2>1, AloneNext DEF IsMeta
  <2>3. m.chunk = <<k, f>>
    <3>1. m.chunk = <<(k + 1) - 1, f>>
      BY <1>2, <2>2, PacketFacts
    <3>2. (k + 1) - 1 = k
      OBVIOUS
    <3> QED BY <3>1, <3>2
  <2>4. receiving' = Got(f, k + 1)
    BY <1>2, <2>2, <2>3, NextChunk
  <2> QED BY <2>2, <2>4
<1>3. CASE /\ receiving = None \/ (m = Complete(m.id) /\ receiving.id # m.id)
           /\ ~ IsMeta(m) /\ UNCHANGED receiving
  <2>1. m = Complete(m.id) /\ m.id # f /\ Arrived(f) /\ ~ IsMeta(m)
    BY <1>0, <1>3 DEF Arrived
  <2>2. PICK k \in 0 .. TotalChunks[f] : m = Packet(f, k + 1) /\ k + 1 \in 0 .. TotalChunks[f] + 1
    BY <2>1, AloneNext
  <2>3. SenderOf(m) = f
    BY <2>2, PacketFacts
  <2>4. SenderOf(m) = m.id
    <3>1. Complete(m.id).type # "chunk"
      BY DEF Complete
    <3> QED BY <2>1, <3>1 DEF SenderOf
  <2> QED BY <2>1, <2>3, <2>4
<1> QED BY <1>0, <1>1, <1>2, <1>3, Handled

\* A file that was sent on its own is put together when, and only when, it is whole.
LEMMA DeliverKeepsIntact ==
  ASSUME ChannelTypeOK, ChannelInv, NEW c \in Channel, HandleDataChannelMessage(c)
  PROVE  AloneIsIntact'
<1> DEFINE m == wire[c][1]
<1>0. UNCHANGED mixed /\ m \in Message /\ downloads \in Seq(Transfer) /\ AloneIsIntact
  BY Delivered DEF ChannelTypeOK, ChannelInv
<1>1. ASSUME NEW t, t.id \notin mixed => t.chunks = Whole(t.id), downloads' = Append(downloads, t)
      PROVE  AloneIsIntact'
  <2>1. \A i \in DOMAIN downloads' :
          downloads'[i] = t \/ (i \in DOMAIN downloads /\ downloads'[i] = downloads[i])
    BY <1>0, <1>1
  <2> QED BY <1>0, <1>1, <2>1 DEF AloneIsIntact, Whole
<1>2. CASE /\ m.type = "chunk" /\ receiving # None
           /\ downloads' = Append(downloads, Added(receiving, m.chunk))
           /\ Cardinality(Added(receiving, m.chunk).chunks) = TotalChunks[receiving.id]
  <2> DEFINE f == receiving.id
             t == Added(receiving, m.chunk)
  <2>1. f \in Click /\ t.id = f /\ Arrived(f)
    <3>1. receiving \in Transfer /\ m.chunk \in Chunk
      BY <1>0, <1>2, MessageFacts DEF ChannelTypeOK
    <3> QED BY <1>2, <3>1, AddedType DEF Transfer, Arrived
  <2>2. ASSUME f \notin mixed PROVE t.chunks = Whole(f)
    <3>1. PICK k \in 0 .. TotalChunks[f] :
            receiving = Got(f, k) /\ m = Packet(f, k + 1) /\ k + 1 \in 0 .. TotalChunks[f] + 1
      BY <1>2, <2>1, <2>2, AloneNext DEF IsMeta
    <3>2. m.chunk = <<k, f>>
      <4>1. m.chunk = <<(k + 1) - 1, f>>
        BY <1>2, <2>1, <3>1, PacketFacts
      <4>2. (k + 1) - 1 = k
        OBVIOUS
      <4> QED BY <4>1, <4>2
    <3>3. t = Got(f, k + 1)
      BY <2>1, <3>1, <3>2, NextChunk
    <3>4. k + 1 = TotalChunks[f]
      BY <1>2, <2>1, <3>1, <3>3, NextChunk
    <3> QED BY <2>1, <3>3, <3>4, NextChunk
  <2> QED BY <1>1, <1>2, <2>1, <2>2
<1>3. CASE /\ m = Complete(m.id) /\ receiving # None /\ receiving.id = m.id
           /\ downloads' = Append(downloads, receiving)
  <2> DEFINE f == receiving.id
  <2>1. f \in Click /\ Arrived(f) /\ m.type = "file-complete"
    BY <1>3 DEF ChannelTypeOK, Transfer, Arrived, Complete
  <2>2. ASSUME f \notin mixed PROVE receiving.chunks = Whole(f)
    <3>1. PICK k \in 0 .. TotalChunks[f] :
            receiving = Got(f, k) /\ m = Packet(f, k + 1) /\ k + 1 \in 0 .. TotalChunks[f] + 1
      BY <2>1, <2>2, AloneNext DEF IsMeta
    <3>2. k = TotalChunks[f]
      <4>1. k + 1 \notin 1 .. TotalChunks[f]
        BY <2>1, <3>1, PacketFacts
      <4>2. TotalChunks[f] \in Nat
        BY <2>1, ChannelAssumption
      <4> QED BY <4>1, <4>2
    <3> QED BY <2>1, <3>1, <3>2, NextChunk
  <2> QED BY <1>1, <1>3, <2>2
<1>4. CASE UNCHANGED downloads
  BY <1>0, <1>4 DEF AloneIsIntact
<1> QED BY <1>2, <1>3, <1>4, Handled

\* The order moves one place on, with the first message into the transfer.
LEMMA DeliverKeepsOrder ==
  ASSUME ChannelTypeOK, ChannelInv, NEW c \in Channel, HandleDataChannelMessage(c)
  PROVE  UnheardInv' /\ ApartInv' /\ BehindInv' /\ OrderInv'
<1> USE DEF ChannelInv
<1>1. /\ UNCHANGED <<ends, sends, mixed>> /\ ends[c]["receiver"] = "open"
      /\ Len(wire[c]) \in Nat \ {0} /\ Len(wire'[c]) = Len(wire[c]) - 1
      /\ \A i \in 1 .. Len(wire'[c]) : wire'[c][i] = wire[c][i + 1]
      /\ \A d \in Channel \ {c} : wire'[d] = wire[d]
  BY Delivered
<1>h. /\ \A d \in Channel : (Hears(d)' <=> Hears(d)) /\ (Unheard(d)' <=> Unheard(d))
      /\ Hears(c) /\ ~ Unheard(c)
      /\ \A d \in Channel, g \in Click : Uses(g, d)' <=> Uses(g, d)
      /\ \A g \in Click : sends'[g] = sends[g]
  BY <1>1 DEF Hears, Unheard, Uses, Active
\* While the receiver hears one channel, the others it has not closed it has not opened.
<1>u. ASSUME NEW d \in Channel \ {c}, Hears(d)
      PROVE  Unheard(d)
  <2>1. ends[d]["receiver"] \in {"none", "connecting", "open", "closed"}
    BY DEF ChannelTypeOK, Page
  <2>2. current["receiver"] = c
    BY <1>1 DEF CurrentInv
  <2> QED BY <1>u, <2>1, <2>2 DEF CurrentInv, Hears, Unheard
\* What the receiver has begun was the first message of the channel that delivers.
<1>b. ASSUME NEW f \in Click \ mixed, Arrived(f)'
      PROVE  /\ SenderOf(wire[c][1]) = f /\ sends[f].channel = c
             /\ \E k \in 0 .. TotalChunks[f] + 1 : wire[c][1] = Packet(f, k) /\ receiving' = Got(f, k)
  <2>1. PICK k \in 0 .. TotalChunks[f] + 1 : wire[c][1] = Packet(f, k) /\ receiving' = Got(f, k)
    BY <1>b, Follows
  <2>2. SenderOf(wire[c][1]) = f
    BY <2>1, PacketFacts
  <2>3. 1 \in 1 .. Len(wire[c])
    BY <1>1
  <2>4. sends[f].channel = c
    BY <2>2, <2>3 DEF OwnChannelInv
  <2> QED BY <2>1, <2>2, <2>4
\* Where a file is now, on the channel that delivers, it was one place further on.
<1>a. ASSUME NEW f \in Click \ mixed, NEW i \in 0 .. Len(wire'[c]), At(c, i, f)'
      PROVE  i + 1 \in 1 .. Len(wire[c]) /\ i + 1 \in 0 .. Len(wire[c]) /\ At(c, i + 1, f)
  <2>1. i + 1 \in 1 .. Len(wire[c]) /\ i + 1 \in 0 .. Len(wire[c]) /\ i + 1 # 0
    BY <1>1
  <2>2. CASE i = 0
    <3>1. SenderOf(wire[c][1]) = f
      BY <1>a, <1>b, <2>2 DEF At
    <3>2. i + 1 = 1
      BY <2>2
    <3> QED BY <2>1, <3>1, <3>2 DEF At
  <2>3. CASE i # 0
    <3>1. wire'[c][i] = wire[c][i + 1]
      BY <1>1, <2>3
    <3> QED BY <1>a, <2>1, <2>3, <3>1 DEF At, SenderOf
  <2> QED BY <2>1, <2>2, <2>3
<1>m. ASSUME NEW g \in Click, NEW i \in 0 .. Len(wire'[c]), MetaBehind(c, g, i + 1)
      PROVE  MetaBehind(c, g, i)'
  <2>1. PICK j \in 1 .. Len(wire[c]) : j > i + 1 /\ wire[c][j] = Meta(g)
    BY <1>m DEF MetaBehind
  <2>2. j - 1 \in 1 .. Len(wire'[c]) /\ j - 1 > i /\ (j - 1) + 1 = j
    BY <1>1, <2>1
  <2>3. wire'[c][j - 1] = Meta(g)
    BY <1>1, <2>1, <2>2
  <2> QED BY <2>2, <2>3 DEF MetaBehind, Meta
<1>2. UnheardInv'
  <2> SUFFICES ASSUME NEW d \in Channel \ {c}, Unheard(d)
               PROVE  /\ wire'[d] # <<>> => IsMeta(wire'[d][1])
                      /\ \A g \in Click : Uses(g, d) => MetaBehind(d, g, 0)'
    BY <1>h DEF UnheardInv, IsMeta
  <2> QED BY <1>1 DEF UnheardInv, MetaBehind
<1>3. ApartInv'
  BY <1>1, <1>h DEF ApartInv
<1>4. BehindInv'
  <2> SUFFICES ASSUME NEW d \in Channel, NEW f \in Click \ mixed, NEW g \in Click,
                      NEW i \in 0 .. Len(wire'[d]), Hears(d), At(d, i, f)', g # f, Uses(g, d)
               PROVE  MetaBehind(d, g, i)'
    BY <1>1, <1>h DEF BehindInv
  <2>1. CASE d = c
    <3>1. i + 1 \in 0 .. Len(wire[c]) /\ At(c, i + 1, f)
      BY <1>a, <2>1
    <3>2. MetaBehind(c, g, i + 1)
      BY <2>1, <3>1 DEF BehindInv
    <3> QED BY <1>m, <2>1, <3>2
  <2>2. CASE d # c /\ i = 0
    <3>1. MetaBehind(d, g, 0)
      BY <1>u, <2>2 DEF UnheardInv
    <3> QED BY <1>1, <2>2, <3>1 DEF MetaBehind
  <2>3. CASE d # c /\ i # 0
    <3>1. wire'[d] = wire[d] /\ At(d, i, f)
      BY <1>1, <2>3 DEF At
    <3>2. MetaBehind(d, g, i)
      BY <3>1 DEF BehindInv
    <3> QED BY <3>1, <3>2 DEF MetaBehind
  <2> QED BY <2>1, <2>2, <2>3
<1>5. OrderInv'
  <2> SUFFICES ASSUME NEW d \in Channel, NEW f \in Click \ mixed,
                      NEW i \in 0 .. Len(wire'[d]), Hears(d), At(d, i, f)'
               PROVE  \E k \in 0 .. TotalChunks[f] + 1 : InOrder(d, i, f, k)'
    BY <1>1, <1>h DEF OrderInv
  <2>1. CASE d = c
    <3>1. /\ i + 1 \in 1 .. Len(wire[c]) /\ i + 1 \in 0 .. Len(wire[c]) /\ i + 1 # 0
          /\ At(c, i + 1, f)
      BY <1>a, <1>1, <2>1
    <3>2. PICK k \in 0 .. TotalChunks[f] + 1 : InOrder(c, i + 1, f, k)
      BY <1>h, <3>1 DEF OrderInv
    <3>3. wire[c][i + 1] = Packet(f, k)
      BY <3>1, <3>2 DEF InOrder, Stage
    <3>4. Stage(c, i, f, k)'
      <4>1. CASE i = 0
        <5>1. i + 1 = 1 /\ Arrived(f)'
          BY <2>1, <4>1 DEF At
        <5>2. PICK l \in 0 .. TotalChunks[f] + 1 : wire[c][1] = Packet(f, l) /\ receiving' = Got(f, l)
          BY <1>b, <5>1
        <5>3. l = k
          BY <3>3, <5>1, <5>2, PacketInjective
        <5> QED BY <4>1, <5>2, <5>3 DEF Stage, Got
      <4>2. CASE i # 0
        <5>1. wire'[c][i] = wire[c][i + 1]
          BY <1>1, <2>1, <4>2
        <5> QED BY <3>3, <4>2, <5>1 DEF Stage, Packet, Meta, Complete
      <4> QED BY <4>1, <4>2
    <3>5. i < Len(wire'[c]) => \/ k <= TotalChunks[f] /\ wire'[c][i + 1] = Packet(f, k + 1)
                               \/ IsMeta(wire'[c][i + 1])
      <4> SUFFICES ASSUME i < Len(wire'[c])
                   PROVE  \/ k <= TotalChunks[f] /\ wire'[c][i + 1] = Packet(f, k + 1)
                          \/ IsMeta(wire'[c][i + 1])
        OBVIOUS
      <4>1. i + 1 < Len(wire[c]) /\ i + 1 \in 1 .. Len(wire'[c])
        BY <1>1, <2>1
      <4>2. wire'[c][i + 1] = wire[c][(i + 1) + 1]
        BY <1>1, <4>1
      <4> QED BY <3>2, <4>1, <4>2 DEF InOrder
    <3>6. i = Len(wire'[c]) /\ Uses(f, c) => k = sends[f].next
      <4>1. i = Len(wire'[c]) => i + 1 = Len(wire[c])
        BY <1>1, <2>1
      <4> QED BY <3>2, <4>1 DEF InOrder
    <3>7. InOrder(c, i, f, k)'
      BY <1>h, <3>4, <3>5, <3>6 DEF InOrder, Packet, Meta, Complete, IsMeta
    <3> QED BY <2>1, <3>7
  <2>2. CASE d # c /\ i = 0
    <3>1. Arrived(f)'
      BY <2>2 DEF At
    <3>2. PICK k \in 0 .. TotalChunks[f] + 1 : receiving' = Got(f, k)
      BY <1>b, <3>1
    <3>3. Stage(d, i, f, k)'
      BY <2>2, <3>2 DEF Stage, Got
    <3>4. wire'[d] = wire[d] /\ ~ Uses(f, d)'
      BY <1>1, <1>b, <1>h, <2>2, <3>1 DEF Uses
    <3>5. i < Len(wire[d]) => IsMeta(wire[d][i + 1])
      <4>1. i < Len(wire[d]) => wire[d] # <<>>
        BY <2>2
      <4>2. i + 1 = 1
        BY <2>2
      <4> QED BY <1>u, <2>2, <4>1, <4>2 DEF UnheardInv
    <3>6. InOrder(d, i, f, k)'
      BY <3>3, <3>4, <3>5 DEF InOrder, IsMeta
    <3> QED BY <3>6
  <2>3. CASE d # c /\ i # 0
    <3>1. wire'[d] = wire[d] /\ At(d, i, f)
      BY <1>1, <2>3 DEF At
    <3>2. PICK k \in 0 .. TotalChunks[f] + 1 : InOrder(d, i, f, k)
      BY <3>1 DEF OrderInv
    <3>3. InOrder(d, i, f, k)'
      BY <1>h, <2>3, <3>1, <3>2 DEF InOrder, Stage
    <3> QED BY <3>3
  <2> QED BY <2>1, <2>2, <2>3
<1> QED BY <1>2, <1>3, <1>4, <1>5
-----------------------------------------------------------------------------
LEMMA ChannelInitially == ChannelInit => ChannelTypeOK /\ ChannelInv
<1> SUFFICES ASSUME ChannelInit PROVE ChannelTypeOK /\ ChannelInv
  OBVIOUS
<1> USE DEF ChannelInit
<1>1. /\ \A c \in Channel : wire[c] = <<>> /\ Len(wire[c]) = 0 /\ 1 .. Len(wire[c]) = {}
      /\ \A c \in Channel : ends[c]["receiver"] = "none"
      /\ \A f \in Click : sends[f].pc = "idle" /\ ~ Active(f) /\ ~ Arrived(f)
      /\ receiving = None /\ downloads = <<>> /\ DOMAIN downloads = {}
  BY DEF Page, Active, Arrived
<1>2. ChannelTypeOK
  BY DEF ChannelTypeOK, Page
<1>3. SendInv /\ CurrentInv /\ OwnChannelInv /\ MetaInv
  BY <1>1 DEF SendInv, CurrentInv, OwnChannelInv, MetaInv
<1>4. OfferedInv /\ DownloadedOnce /\ AloneIsIntact
  BY <1>1 DEF OfferedInv, DownloadedOnce, AloneIsIntact, Offered
<1>5. UnheardInv /\ ApartInv /\ BehindInv
  BY <1>1 DEF UnheardInv, ApartInv, BehindInv, Uses
<1>6. OrderInv
  <2>1. \A c \in Channel, f \in Click : \A i \in 0 .. Len(wire[c]) : ~ At(c, i, f)
    BY <1>1 DEF At
  <2> QED BY <2>1 DEF OrderInv
<1> QED BY <1>2, <1>3, <1>4, <1>5, <1>6 DEF ChannelInv

LEMMA ChannelInvariantStep ==
  ChannelTypeOK /\ ChannelInv /\ [ChannelNext]_channelVars => ChannelTypeOK' /\ ChannelInv'
<1> SUFFICES ASSUME ChannelTypeOK, ChannelInv, [ChannelNext]_channelVars
             PROVE  ChannelTypeOK' /\ ChannelInv'
  OBVIOUS
<1>i. SendInv /\ CurrentInv
  BY DEF ChannelInv
<1>1. ASSUME NEW c \in Channel, NEW p \in Page,
             \/ StartRtcConnection(c, p) \/ ChannelOpens(c, p) \/ RemoteChannelArrives(c, p)
             \/ ChannelCloses(c, p) \/ CloseRtcConnection(p)
      PROVE  ChannelTypeOK' /\ ChannelInv'
  <2>1. ChannelTypeOK' /\ UNCHANGED sends /\ QuietStep /\ CurrentInv'
    BY <1>1, <1>i, EndTypes, EndSteps
  <2>2. SendInv'
    BY <1>i, <2>1 DEF SendInv, Active
  <2> QED BY <2>1, <2>2, QuietKeeps
<1>2. ASSUME NEW p \in Page, CloseRtcConnection(p)
      PROVE  ChannelTypeOK' /\ ChannelInv'
  <2>1. current[p] \in Channel
    BY <1>2 DEF CloseRtcConnection, ChannelTypeOK
  <2> QED BY <1>1, <1>2, <2>1
<1>3. ASSUME NEW f \in Click, SendStarts(f) \/ SendGoesOn(f) \/ SendFails(f)
      PROVE  ChannelTypeOK' /\ ChannelInv'
  <2>1. ChannelTypeOK' /\ SendInv' /\ UNCHANGED <<ends, current>>
    BY <1>3, <1>i, SendSteps
  <2>2. CurrentInv'
    BY <1>i, <2>1 DEF CurrentInv
  <2>3. CASE QuietStep
    BY <2>1, <2>2, <2>3, QuietKeeps
  <2>4. ASSUME NEW c \in Channel, NEW k \in Nat, NEW messages \in Seq(Message),
               SendStep(f, c, k, messages)
        PROVE  ChannelInv'
    BY <2>1, <2>2, <2>4, SendKeepsMeta, SendKeepsOrder DEF ChannelInv
  <2> QED BY <1>3, <1>i, <2>1, <2>3, <2>4, SendSteps
<1>4. ASSUME NEW c \in Channel, HandleDataChannelMessage(c)
      PROVE  ChannelTypeOK' /\ ChannelInv'
  <2>1. SendInv' /\ CurrentInv'
    BY <1>4, <1>i, Delivered DEF SendInv, CurrentInv, Active
  <2> QED BY <1>4, <2>1, DeliverTypes, DeliverKeepsMeta, DeliverKeepsIntact, DeliverKeepsOrder
          DEF ChannelInv
<1>5. CASE UNCHANGED channelVars
  <2>1. UNCHANGED <<ends, current, wire, sends, receiving, downloads, mixed>>
    BY <1>5 DEF channelVars
  <2>2. ChannelTypeOK' /\ SendInv' /\ CurrentInv'
    BY <1>i, <2>1 DEF ChannelTypeOK, SendInv, CurrentInv, Active
  <2>3. QuietStep
    BY <2>1 DEF QuietStep, Hears, Unheard, Active
  <2> QED BY <2>2, <2>3, QuietKeeps
<1> QED BY <1>1, <1>2, <1>3, <1>4, <1>5 DEF ChannelNext

\* The order in which a file that is sent on its own travels, from the runs of
\* sendSelectedFile over the channels to the receiver's transfer, is never lost.
THEOREM ChannelInvariant == ChannelSpec => [](ChannelTypeOK /\ ChannelInv)
<1>1. ChannelInit => ChannelTypeOK /\ ChannelInv
  BY ChannelInitially
<1>2. ChannelTypeOK /\ ChannelInv /\ [ChannelNext]_channelVars => (ChannelTypeOK /\ ChannelInv)'
  BY ChannelInvariantStep
<1> QED BY <1>1, <1>2, PTL DEF ChannelSpec

\* State, messages and downloads keep their types (attachDataChannel, sendSelectedFile,
\* handleDataChannelMessage).
THEOREM ChannelTypeCorrect == ChannelSpec => []ChannelTypeOK
BY ChannelInvariant, PTL

\* Each file is offered for download at most once, however many are sent at a time
\* and whatever is closed (handleFileChunk and handleFileComplete both finish a file).
THEOREM OfferedOnce == ChannelSpec => []DownloadedOnce
<1>1. ChannelInv => DownloadedOnce
  BY DEF ChannelInv
<1> QED BY <1>1, ChannelInvariant, PTL

\* A file that is sent on its own arrives as it is or not at all, for any number of
\* chunks, files and channels (handleFileChunk, finalizeIncomingFile).
THEOREM AloneStaysIntact == ChannelSpec => []AloneIsIntact
<1>1. ChannelInv => AloneIsIntact
  BY DEF ChannelInv
<1> QED BY <1>1, ChannelInvariant, PTL
=============================================================================
