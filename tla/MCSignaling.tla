---------------------------- MODULE MCSignaling ----------------------------
(***************************************************************************)
(* Small instances of Signaling.  The configurations choose how many       *)
(* devices, sockets, requests, sessions and transfers there are.           *)
(***************************************************************************)
EXTENDS Signaling, TLC

CONSTANTS a, b, c

\* Plain ids: one segment each, in alphabetical order.
TwoDevices   == {<<a>>, <<b>>}
TwoRanks     == <<a>> :> 1 @@ <<b>> :> 2
ThreeDevices == {<<a>>, <<b>>, <<c>>}
ThreeRanks   == TwoRanks @@ <<c>> :> 3

Segments == {a, b, c}

\* Ids that contain the separator: "a::b" with "c", and "a" with "b::c", are two
\* pairs with the key "a::b::c".
CollidingDevices == {<<a>>, <<a, b>>, <<b, c>>, <<c>>}
CollidingRanks   == <<a>> :> 1 @@ <<a, b>> :> 2 @@ <<b, c>> :> 3 @@ <<c>> :> 4

\* Ids are only compared for equality.
IdSymmetry ==
  Permutations(Socket) \cup Permutations(Request)
    \cup Permutations(SessionId) \cup Permutations(Transfer)

\* Bound of the runs with three devices or more: no time passes, and each socket only
\* registers the device given to it.
Owner == CHOOSE f \in [Socket -> Device] : \A s, t \in Socket : f[s] = f[t] => s = t
Quiet ==
  /\ \A d \in Device : devices[d].age = 0
  /\ \A r \in Request : requests[r].age = 0
  /\ \A s \in Socket : deviceIdBySocketId[s] \in {None, Owner[s]}
\* The ids whose permutations respect Owner.
QuietSymmetry == Permutations(Request) \cup Permutations(SessionId)

\* Bound of the run with a transfer: a socket does not change its device.
Unshared == shared = {}
=============================================================================
