----------------------------- MODULE Transfers -----------------------------
(***************************************************************************)
(* Transfer records: transferRecordsByTransferId and the operations on it, *)
(* those called for socket events and those the HTTP controller calls.     *)
(* A record is found by its id or its transferId; one value stands for     *)
(* both.                                                                   *)
(***************************************************************************)
EXTENDS Identifiers

CONSTANT Transfer   \* transfer ids: randomUUID never answers one twice

VARIABLES
  transfers,   \* transferRecordsByTransferId
  reports      \* history: which device moved the transfer to which status

transferVars == <<transfers, reports>>

TransferStatus ==
  {"pending", "sending", "receiving", "received", "sent", "failed", "cancelled"}

\* Mutant: a failure reported after the receipt still counts.
LateFailure ==
  [status \in TransferStatus |->
     CASE status = "pending"   -> {"sending", "receiving", "failed", "cancelled"}
       [] status = "sending"   -> {"receiving", "failed", "cancelled"}
       [] status = "receiving" -> {"received", "failed", "cancelled"}
       [] status = "received"  -> {"sent", "failed"}
       [] OTHER                -> {}]

\* allowedTransitions
AllowedTransitions ==
  [status \in TransferStatus |->
     CASE status = "pending"   -> {"sending", "receiving", "failed", "cancelled"}
       [] status = "sending"   -> {"receiving", "failed", "cancelled"}
       [] status = "receiving" -> {"received", "failed", "cancelled"}
       [] status = "received"  -> {"sent"}
       [] OTHER                -> {}]

\* started, completed, error, hidden and deleted say which of startedAt,
\* completedAt, errorMessage, hiddenAt and deletedAt are not null.
TransferRecord ==
  [status    : TransferStatus,
   session   : SessionId,
   sender    : Device,
   receiver  : Device,
   started   : BOOLEAN,
   completed : BOOLEAN,
   error     : BOOLEAN,
   hidden    : BOOLEAN,
   deleted   : BOOLEAN]

\* A transfer id without an entry.
NoTransfer ==
  [status |-> "none", session |-> None, sender |-> None, receiver |-> None,
   started |-> FALSE, completed |-> FALSE, error |-> FALSE,
   hidden |-> FALSE, deleted |-> FALSE]

TransfersTypeOK ==
  /\ transfers \in [Transfer -> TransferRecord \cup {NoTransfer}]
  /\ reports \in [Transfer -> SUBSET (Device \X TransferStatus)]

TransfersInit ==
  /\ transfers = [t \in Transfer |-> NoTransfer]
  /\ reports = [t \in Transfer |-> {}]

Exists(t) == transfers[t].status # "none"
-----------------------------------------------------------------------------
CreateTransferRecord(t, i, sender, receiver) ==
  /\ ~ Exists(t)
  /\ transfers' = [transfers EXCEPT
                     ![t] = [NoTransfer EXCEPT !.status = "pending", !.session = i,
                                               !.sender = sender, !.receiver = receiver]]
  /\ UNCHANGED reports

\* The last three arguments are what is in startedAt, completedAt and
\* errorMessage afterwards: an option left undefined passes the old value.
MarkTransferStatus(d, t, next, started, completed, error) ==
  /\ Exists(t)
  /\ ~ transfers[t].deleted
  /\ next \in AllowedTransitions[transfers[t].status]
  /\ transfers' = [transfers EXCEPT
                     ![t] = [@ EXCEPT !.status = next, !.started = started,
                                      !.completed = completed, !.error = error]]
  /\ reports' = [reports EXCEPT ![t] = @ \cup {<<d, next>>}]

IsTransferParticipant(d, t) ==
  Exists(t) /\ d \in {transfers[t].sender, transfers[t].receiver}

\* Mutant: either side reports any progress.
ReportAnyProgress(d, t, next) ==
  /\ IsTransferParticipant(d, t)
  /\ MarkTransferStatus(d, t, next, TRUE, transfers[t].completed, transfers[t].error)

\* requireSender and requireReceiver: each side reports only its own progress.
ReportProgress(d, t, next) ==
  /\ IsTransferParticipant(d, t)
  /\ d = IF next = "sending" THEN transfers[t].sender ELSE transfers[t].receiver
  /\ MarkTransferStatus(d, t, next, TRUE, transfers[t].completed, transfers[t].error)

CompleteTransfer(d, t) ==
  LET next == IF d = transfers[t].receiver THEN "received" ELSE "sent"
  IN  /\ IsTransferParticipant(d, t)
      /\ next = "sent" => transfers[t].status = "received"
      /\ MarkTransferStatus(d, t, next, transfers[t].started, TRUE, FALSE)

\* Mutant: the completion time is forgotten.
StopWithoutTime(d, t, next) ==
  /\ IsTransferParticipant(d, t)
  /\ MarkTransferStatus(d, t, next, transfers[t].started, transfers[t].completed, TRUE)

\* handleTransferFailed and handleTransferCancel differ only in next.
StopTransfer(d, t, next) ==
  /\ IsTransferParticipant(d, t)
  /\ MarkTransferStatus(d, t, next, transfers[t].started, TRUE, TRUE)

\* PATCH /signaling/transfers/:id, of a deleted record too
UpdateTransferRecordVisibility(t, action) ==
  /\ Exists(t)
  /\ transfers' = [transfers EXCEPT ![t].hidden = (action = "hide")]
  /\ UNCHANGED reports

\* DELETE /signaling/transfers/:id
DeleteTransferRecord(t) ==
  /\ Exists(t)
  /\ transfers' = [transfers EXCEPT ![t].deleted = TRUE]
  /\ UNCHANGED reports

TransferEvent(d, t) ==
  \/ \E next \in {"sending", "receiving"} : ReportProgress(d, t, next)
  \/ CompleteTransfer(d, t)
  \/ \E next \in {"failed", "cancelled"} : StopTransfer(d, t, next)

TransfersNext ==
  \E t \in Transfer :
    \/ \E d, e \in Device, i \in SessionId :
         d # e /\ CreateTransferRecord(t, i, d, e)   \* handleTransferStart
    \/ \E d \in Device : TransferEvent(d, t)
    \/ \E action \in {"hide", "restore"} : UpdateTransferRecordVisibility(t, action)
    \/ DeleteTransferRecord(t)

TransfersSpec == TransfersInit /\ [][TransfersNext]_transferVars
-----------------------------------------------------------------------------
\* A transfer is sent only when the receiver reported receiving, then received,
\* and the sender confirmed last; and only a party of the transfer ever moved
\* it.  The two sides' events arrive in any order (handleTransferProgress and
\* handleTransferComplete against allowedTransitions).
HandshakeOrder ==
  \A t \in Transfer :
    LET tr == transfers[t]
    IN  /\ tr.status \in {"receiving", "received", "sent"} =>
             <<tr.receiver, "receiving">> \in reports[t]
        /\ tr.status \in {"received", "sent"} => <<tr.receiver, "received">> \in reports[t]
        /\ tr.status = "sent" => <<tr.sender, "sent">> \in reports[t]
        /\ \A report \in reports[t] :
             /\ report[1] \in {tr.sender, tr.receiver}
             /\ report[2] \in {"sending", "sent"} => report[1] = tr.sender
             /\ report[2] \in {"receiving", "received"} => report[1] = tr.receiver

\* What a client reads of a record agrees with its status: a start time once data
\* moved, a completion time exactly when it is over, an error message exactly
\* when it failed or was cancelled (each event sets only some of the fields).
OutcomeFieldsAgree ==
  \A t \in Transfer :
    LET tr == transfers[t]
    IN  /\ tr.status \in {"sending", "receiving", "received", "sent"} => tr.started
        /\ tr.completed <=> tr.status \in {"received", "sent", "failed", "cancelled"}
        /\ tr.error <=> tr.status \in {"failed", "cancelled"}

\* Once the receiver has confirmed receipt no late failure or cancellation of
\* either side takes it back, an outcome is final, and an event that arrives
\* after the record was deleted over HTTP leaves the record as it is.
OutcomeIsFinal ==
  [][\A t \in Transfer :
       /\ transfers[t].status = "received" => transfers'[t].status \in {"received", "sent"}
       /\ transfers[t].status \in {"sent", "failed", "cancelled"} =>
            transfers'[t].status = transfers[t].status
       /\ transfers[t].deleted => /\ transfers'[t].status = transfers[t].status
                                  /\ transfers'[t].deleted]_transferVars
=============================================================================
