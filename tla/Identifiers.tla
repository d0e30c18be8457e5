---------------------------- MODULE Identifiers ----------------------------
(***************************************************************************)
(* Device ids and the key under which the service files the session of two *)
(* devices.  An id is any string its owner picks; what the pair key can    *)
(* tell apart is where the separator "::" occurs, so an id is a sequence   *)
(* of segments: "a::b" is <<"a", "b">>.  Rank is the order sort() gives.   *)
(***************************************************************************)
EXTENDS Naturals, Sequences

CONSTANTS
  Segment,   \* the pieces of an id between two separators
  Device,    \* the device ids in use
  Rank,      \* their position in the order of Array.prototype.sort
  SessionId, \* session ids: randomUUID never answers one twice
  None       \* what a Map lookup answers when there is no entry

ASSUME DeviceAssumption ==
  /\ Device \subseteq Seq(Segment)
  /\ None \notin Device

ASSUME SessionIdAssumption == None \notin SessionId

ASSUME RankAssumption ==
  /\ Rank \in [Device -> Nat]
  /\ \A a, b \in Device : Rank[a] = Rank[b] => a = b

\* [a, b].sort()
FirstOf(a, b)  == IF Rank[a] < Rank[b] THEN a ELSE b
SecondOf(a, b) == IF Rank[a] < Rank[b] THEN b ELSE a

\* Mutant: the key names one device only.
KeyOfFirst(a, b) == FirstOf(a, b)

\* [a, b].sort().join('::'): joining two ids appends their segments.
PairKey(a, b) == FirstOf(a, b) \o SecondOf(a, b)

PairKeys == { PairKey(a, b) : a \in Device, b \in Device }

\* No id contains the separator.  The service does not enforce it.
PlainIds == \A d \in Device : Len(d) = 1
=============================================================================
