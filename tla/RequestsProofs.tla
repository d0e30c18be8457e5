--------------------------- MODULE RequestsProofs ---------------------------
(***************************************************************************)
(* Types of ConnectionRequests and the race for a pending request, proved  *)
(* for every set of devices and requests and every timeout.                *)
(***************************************************************************)
EXTENDS ConnectionRequests, TLAPS

\* A request with an entry is between two devices.
LEMMA RequestFacts ==
  ASSUME RequestsTypeOK, NEW r \in Request, requests[r].status # "none"
  PROVE  /\ requests[r] \in RequestRecord
         /\ requests[r].from \in Device /\ requests[r].to \in Device
<1>1. requests[r] \in RequestRecord
  BY DEF RequestsTypeOK, NoRequest
<1> QED BY <1>1 DEF RequestRecord

\* Every operation keeps the types.
LEMMA RequestsTypeStep ==
  RequestsTypeOK /\ [RequestsNext]_requests => RequestsTypeOK'
<1> SUFFICES ASSUME RequestsTypeOK, [RequestsNext]_requests
             PROVE  RequestsTypeOK'
  OBVIOUS
<1> USE RequestAssumption
<1>1. ASSUME NEW r \in Request, NEW from \in Device, NEW to \in Device,
             CreateConnectionRequest(r, from, to)
      PROVE  RequestsTypeOK'
  <2>1. [status |-> "pending", from |-> from, to |-> to, age |-> 0] \in RequestRecord
    BY DEF RequestRecord
  <2> QED BY <1>1, <2>1 DEF CreateConnectionRequest, RequestsTypeOK
<1>2. ASSUME NEW r \in Request, NEW status \in Decided, IsPending(r),
             requests' = [requests EXCEPT ![r].status = status]
      PROVE  RequestsTypeOK'
  <2>1. [requests[r] EXCEPT !.status = status] \in RequestRecord
    BY <1>2, RequestFacts DEF IsPending, RequestRecord
  <2> QED BY <1>2, <2>1 DEF RequestsTypeOK
<1>3. CASE \E r \in Request, answer \in {"accepted", "rejected"} :
             RespondConnectionRequest(r, answer)
  BY <1>2, <1>3 DEF RespondConnectionRequest, Decided
<1>4. CASE \E r \in Request : CancelConnectionRequest(r)
  BY <1>2, <1>4 DEF CancelConnectionRequest, Decided
<1>5. ASSUME NEW r \in Request, IsPending(r)
      PROVE  /\ [requests[r] EXCEPT !.status = "expired"] \in RequestRecord
             /\ requests[r].age < RequestTimeout =>
                  [requests[r] EXCEPT !.age = @ + 1] \in RequestRecord
  BY <1>5, RequestFacts DEF IsPending, RequestRecord, Decided
<1>6. CASE ExpireConnectionRequests
  BY <1>5, <1>6 DEF ExpireConnectionRequests, RequestsTypeOK
<1>7. CASE AgeRequests
  BY <1>5, <1>7 DEF AgeRequests, RequestsTypeOK
<1>8. CASE UNCHANGED requests
  BY <1>8 DEF RequestsTypeOK
<1> QED BY <1>1, <1>3, <1>4, <1>6, <1>7, <1>8 DEF RequestsNext

\* Types of the connection requests.
THEOREM RequestsTypeCorrect == RequestsSpec => []RequestsTypeOK
<1>1. RequestsInit => RequestsTypeOK
  BY DEF RequestsInit, RequestsTypeOK
<1> QED BY <1>1, RequestsTypeStep, PTL DEF RequestsSpec

\* Accept, reject, cancel and expiry exclude each other, in any order, and no
\* request expires early (respondConnectionRequest, cancelConnectionRequest,
\* expireConnectionRequests).
THEOREM RequestsDecidedOnce == RequestsSpec => DecidedOnce
<1> DEFINE Once ==
      \A r \in Request :
        /\ requests[r].status \in Decided => requests'[r] = requests[r]
        /\ IsPending(r) => /\ requests'[r].from = requests[r].from
                           /\ requests'[r].to = requests[r].to
                           /\ requests'[r].status = "expired" =>
                                requests[r].age = RequestTimeout
<1>1. RequestsTypeOK /\ [RequestsNext]_requests => [Once]_requests
  <2> SUFFICES ASSUME RequestsTypeOK, RequestsNext PROVE Once
    OBVIOUS
  <2>1. ASSUME NEW r \in Request, NEW from \in Device, NEW to \in Device,
               CreateConnectionRequest(r, from, to)
        PROVE  Once
    BY <2>1 DEF CreateConnectionRequest, RequestsTypeOK, Decided, IsPending
  <2>2. ASSUME NEW r \in Request, NEW status \in Decided \ {"expired"}, IsPending(r),
               requests' = [requests EXCEPT ![r].status = status]
        PROVE  Once
    <3>1. requests'[r] = [requests[r] EXCEPT !.status = status]
      BY <2>2 DEF RequestsTypeOK
    <3>2. /\ requests'[r].from = requests[r].from
          /\ requests'[r].to = requests[r].to
          /\ requests'[r].status = status
      BY <2>2, <3>1, RequestFacts DEF IsPending, RequestRecord
    <3>3. requests[r].status \notin Decided
      BY <2>2 DEF IsPending, Decided
    <3>4. \A q \in Request \ {r} :
            requests'[q] = requests[q] /\ (IsPending(q) => requests[q].status # "expired")
      BY <2>2 DEF RequestsTypeOK, IsPending
    <3> QED BY <2>2, <3>2, <3>3, <3>4
  <2>3. CASE \E r \in Request, answer \in {"accepted", "rejected"} :
               RespondConnectionRequest(r, answer)
    BY <2>2, <2>3 DEF RespondConnectionRequest, Decided
  <2>4. CASE \E r \in Request : CancelConnectionRequest(r)
    BY <2>2, <2>4 DEF CancelConnectionRequest, Decided
  <2>5. CASE ExpireConnectionRequests
    <3> SUFFICES ASSUME NEW r \in Request, IsPending(r)
                 PROVE  /\ requests'[r].from = requests[r].from
                        /\ requests'[r].to = requests[r].to
                        /\ requests'[r].status = "expired" =>
                             requests[r].age = RequestTimeout
      BY <2>5 DEF ExpireConnectionRequests, IsPending, Decided
    <3>1. requests[r] \in RequestRecord
      BY RequestFacts DEF IsPending
    <3>2. requests[r].age \in 0..RequestTimeout
      BY <3>1 DEF RequestRecord
    <3>3. requests[r].age >= RequestTimeout => requests[r].age = RequestTimeout
      BY <3>2, RequestAssumption
    <3>4. /\ requests'[r].from = requests[r].from
          /\ requests'[r].to = requests[r].to
      BY <2>5, <3>1 DEF ExpireConnectionRequests, RequestRecord
    <3>5. requests'[r].status = "expired" => requests[r].age >= RequestTimeout
      BY <2>5 DEF ExpireConnectionRequests, IsPending
    <3> QED BY <3>3, <3>4, <3>5
  <2>6. CASE AgeRequests
    <3> SUFFICES ASSUME NEW r \in Request, IsPending(r)
                 PROVE  /\ requests'[r].from = requests[r].from
                        /\ requests'[r].to = requests[r].to
                        /\ requests'[r].status = "pending"
      BY <2>6 DEF AgeRequests, IsPending, Decided
    <3>1. requests[r] \in RequestRecord
      BY RequestFacts DEF IsPending
    <3> QED BY <2>6, <3>1 DEF AgeRequests, IsPending, RequestRecord
  <2> QED BY <2>1, <2>3, <2>4, <2>5, <2>6 DEF RequestsNext
<1> QED BY <1>1, RequestsTypeCorrect, PTL DEF RequestsSpec, DecidedOnce
=============================================================================
