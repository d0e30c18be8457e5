------------------------ MODULE ConnectionRequests ------------------------
(***************************************************************************)
(* Connection requests: requestsByRequestId and the service operations on  *)
(* it.  Who may call them is the gateway's business (module Signaling).    *)
(* The distance to expiredAt is kept as an age in ticks.                   *)
(***************************************************************************)
EXTENDS Identifiers

CONSTANTS
  Request,          \* request ids: randomUUID never answers one twice
  RequestTimeout    \* CONNECTION_REQUEST_TIMEOUT_MS, in ticks

ASSUME RequestAssumption == RequestTimeout \in Nat \ {0}

VARIABLE requests   \* requestsByRequestId

Decided == {"accepted", "rejected", "cancelled", "expired"}

RequestRecord ==
  [status : {"pending"} \cup Decided,
   from   : Device,
   to     : Device,
   age    : 0..RequestTimeout]

\* A request id without an entry.
NoRequest == [status |-> "none", from |-> None, to |-> None, age |-> 0]

RequestsTypeOK == requests \in [Request -> RequestRecord \cup {NoRequest}]

RequestsInit == requests = [r \in Request |-> NoRequest]

IsPending(r) == requests[r].status = "pending"
-----------------------------------------------------------------------------
CreateConnectionRequest(r, from, to) ==
  /\ requests[r].status = "none"
  /\ requests' = [requests EXCEPT
                    ![r] = [status |-> "pending", from |-> from, to |-> to, age |-> 0]]

\* Mutant: the answer is not checked against the request's status.
RespondAnyTime(r, answer) ==
  /\ requests[r].status # "none"
  /\ requests' = [requests EXCEPT ![r].status = answer]

RespondConnectionRequest(r, answer) ==
  /\ IsPending(r)
  /\ requests' = [requests EXCEPT ![r].status = answer]

CancelConnectionRequest(r) ==
  /\ IsPending(r)
  /\ requests' = [requests EXCEPT ![r].status = "cancelled"]

ExpireConnectionRequests ==
  requests' = [r \in Request |->
                 IF IsPending(r) /\ requests[r].age >= RequestTimeout
                 THEN [requests[r] EXCEPT !.status = "expired"]
                 ELSE requests[r]]

\* A tick of the clock.  The age of a decided request is never read again.
AgeRequests ==
  requests' = [r \in Request |->
                 IF IsPending(r) /\ requests[r].age < RequestTimeout
                 THEN [requests[r] EXCEPT !.age = @ + 1]
                 ELSE requests[r]]

RequestsNext ==
  \/ \E r \in Request :
       \/ \E from, to \in Device : CreateConnectionRequest(r, from, to)
       \/ \E answer \in {"accepted", "rejected"} : RespondConnectionRequest(r, answer)
       \/ CancelConnectionRequest(r)
  \/ ExpireConnectionRequests
  \/ AgeRequests

RequestsSpec == RequestsInit /\ [][RequestsNext]_requests
-----------------------------------------------------------------------------
\* Accept, reject, cancel and the expiry timer race for the same request: only
\* one of them wins.  A decided request never changes again, an undecided one
\* keeps its parties, and no request expires before its time is up.
DecidedOnce ==
  [][\A r \in Request :
       /\ requests[r].status \in Decided => requests'[r] = requests[r]
       /\ IsPending(r) => /\ requests'[r].from = requests[r].from
                          /\ requests'[r].to = requests[r].to
                          /\ requests'[r].status = "expired" =>
                               requests[r].age = RequestTimeout]_requests
=============================================================================
