-------------------------- MODULE TransfersProofs --------------------------
(***************************************************************************)
(* The invariants of Transfers, for every set of devices and transfers.    *)
(* Every event of a party goes through MarkTransferStatus, so one lemma    *)
(* says what it does to a record; the rest is a case per kind of event.    *)
(***************************************************************************)
EXTENDS Transfers, TLAPS

\* markTransferStatus: it moves one existing, undeleted record along an allowed
\* transition, notes who asked, and keeps the parties of every record.
LEMMA MarkFacts ==
  ASSUME TransfersTypeOK, NEW d \in Device, NEW t \in Transfer,
         NEW next \in TransferStatus, NEW started \in BOOLEAN,
         NEW completed \in BOOLEAN, NEW error \in BOOLEAN,
         MarkTransferStatus(d, t, next, started, completed, error)
  PROVE  /\ transfers[t] \in TransferRecord /\ ~ transfers[t].deleted
         /\ next \in AllowedTransitions[transfers[t].status]
         /\ transfers'[t] \in TransferRecord
         /\ transfers'[t].status = next
         /\ transfers'[t].sender = transfers[t].sender
         /\ transfers'[t].receiver = transfers[t].receiver
         /\ transfers'[t].started = started
         /\ transfers'[t].completed = completed
         /\ transfers'[t].error = error
         /\ transfers'[t].deleted = transfers[t].deleted
         /\ transfers'[t].session = transfers[t].session
         /\ reports'[t] = reports[t] \cup {<<d, next>>}
         /\ \A u \in Transfer \ {t} : transfers'[u] = transfers[u] /\ reports'[u] = reports[u]
         /\ TransfersTypeOK'
<1>1. transfers[t] \in TransferRecord
  BY DEF MarkTransferStatus, Exists, TransfersTypeOK, NoTransfer
<1>2. /\ ~ transfers[t].deleted
      /\ next \in AllowedTransitions[transfers[t].status]
      /\ transfers'[t] = [transfers[t] EXCEPT !.status = next, !.started = started,
                                              !.completed = completed, !.error = error]
      /\ \A u \in Transfer \ {t} : transfers'[u] = transfers[u]
  BY DEF MarkTransferStatus, TransfersTypeOK
<1>3. transfers'[t] \in TransferRecord
  BY <1>1, <1>2 DEF TransferRecord
<1>4. /\ transfers'[t].status = next
      /\ transfers'[t].sender = transfers[t].sender
      /\ transfers'[t].receiver = transfers[t].receiver
      /\ transfers'[t].started = started
      /\ transfers'[t].completed = completed
      /\ transfers'[t].error = error
      /\ transfers'[t].deleted = transfers[t].deleted
      /\ transfers'[t].session = transfers[t].session
  BY <1>1, <1>2 DEF TransferRecord
<1>5. /\ reports'[t] = reports[t] \cup {<<d, next>>}
      /\ \A u \in Transfer \ {t} : reports'[u] = reports[u]
      /\ reports' \in [Transfer -> SUBSET (Device \X TransferStatus)]
  BY DEF MarkTransferStatus, TransfersTypeOK
<1>6. transfers' \in [Transfer -> TransferRecord \cup {NoTransfer}]
  BY <1>3 DEF MarkTransferStatus, TransfersTypeOK
<1> QED BY <1>1, <1>2, <1>3, <1>4, <1>5, <1>6 DEF TransfersTypeOK

\* The steps that are no event of a party: a new record, or its visibility and
\* deletion over HTTP, which leave everything else of the record as it is.
LEMMA OtherStepFacts ==
  ASSUME TransfersTypeOK, NEW t \in Transfer,
         \/ \E d, e \in Device, i \in SessionId : CreateTransferRecord(t, i, d, e)
         \/ \E action \in {"hide", "restore"} : UpdateTransferRecordVisibility(t, action)
         \/ DeleteTransferRecord(t)
  PROVE  /\ TransfersTypeOK'
         /\ UNCHANGED reports
         /\ \A u \in Transfer \ {t} : transfers'[u] = transfers[u]
         /\ \/ /\ ~ Exists(t)
               /\ transfers'[t].status = "pending"
               /\ ~ transfers'[t].started /\ ~ transfers'[t].completed
               /\ ~ transfers'[t].error /\ ~ transfers'[t].deleted
            \/ /\ Exists(t)
               /\ transfers'[t].status = transfers[t].status
               /\ transfers'[t].session = transfers[t].session
               /\ transfers'[t].sender = transfers[t].sender
               /\ transfers'[t].receiver = transfers[t].receiver
               /\ transfers'[t].started = transfers[t].started
               /\ transfers'[t].completed = transfers[t].completed
               /\ transfers'[t].error = transfers[t].error
               /\ transfers[t].deleted => transfers'[t].deleted
<1>1. ASSUME NEW d \in Device, NEW e \in Device, NEW i \in SessionId,
             CreateTransferRecord(t, i, d, e)
      PROVE  /\ ~ Exists(t)
             /\ transfers'[t] \in TransferRecord
             /\ transfers'[t].status = "pending"
             /\ ~ transfers'[t].started /\ ~ transfers'[t].completed
             /\ ~ transfers'[t].error /\ ~ transfers'[t].deleted
             /\ TransfersTypeOK'
             /\ UNCHANGED reports
             /\ \A u \in Transfer \ {t} : transfers'[u] = transfers[u]
  <2>1. [NoTransfer EXCEPT !.status = "pending", !.session = i,
                           !.sender = d, !.receiver = e] \in TransferRecord
    BY DEF NoTransfer, TransferRecord, TransferStatus
  <2> QED BY <1>1, <2>1 DEF CreateTransferRecord, TransfersTypeOK, NoTransfer
<1>2. ASSUME Exists(t), NEW hidden \in BOOLEAN, NEW deleted \in BOOLEAN,
             transfers' = [transfers EXCEPT ![t].hidden = hidden, ![t].deleted = deleted],
             UNCHANGED reports
      PROVE  /\ TransfersTypeOK'
             /\ \A u \in Transfer \ {t} : transfers'[u] = transfers[u]
             /\ transfers'[t].status = transfers[t].status
             /\ transfers'[t].session = transfers[t].session
             /\ transfers'[t].sender = transfers[t].sender
             /\ transfers'[t].receiver = transfers[t].receiver
             /\ transfers'[t].started = transfers[t].started
             /\ transfers'[t].completed = transfers[t].completed
             /\ transfers'[t].error = transfers[t].error
             /\ transfers'[t].deleted = deleted
  <2>1. transfers[t] \in TransferRecord
    BY <1>2 DEF Exists, TransfersTypeOK, NoTransfer
  <2>2. [transfers[t] EXCEPT !.hidden = hidden, !.deleted = deleted] \in TransferRecord
    BY <2>1 DEF TransferRecord
  <2> QED BY <1>2, <2>1, <2>2 DEF TransfersTypeOK, TransferRecord
<1>3. ASSUME NEW action, UpdateTransferRecordVisibility(t, action)
      PROVE  transfers' = [transfers EXCEPT ![t].hidden = (action = "hide"),
                                            ![t].deleted = transfers[t].deleted]
  BY <1>3 DEF UpdateTransferRecordVisibility, Exists, TransfersTypeOK, TransferRecord, NoTransfer
<1>4. ASSUME DeleteTransferRecord(t)
      PROVE  transfers' = [transfers EXCEPT ![t].hidden = transfers[t].hidden,
                                            ![t].deleted = TRUE]
  BY <1>4 DEF DeleteTransferRecord, Exists, TransfersTypeOK, TransferRecord, NoTransfer
<1>5. Exists(t) => transfers[t].hidden \in BOOLEAN /\ transfers[t].deleted \in BOOLEAN
  BY DEF Exists, TransfersTypeOK, TransferRecord, NoTransfer
<1>6. CASE \E d, e \in Device, i \in SessionId : CreateTransferRecord(t, i, d, e)
  BY <1>1, <1>6
<1>7. CASE \E action \in {"hide", "restore"} : UpdateTransferRecordVisibility(t, action)
  BY <1>2, <1>3, <1>5, <1>7 DEF UpdateTransferRecordVisibility
<1>8. CASE DeleteTransferRecord(t)
  BY <1>2, <1>4, <1>5, <1>8 DEF DeleteTransferRecord
<1> QED BY <1>6, <1>7, <1>8

\* What an event of a party is: one call of markTransferStatus by one of the two
\* parties.  Progress is reported by the side it belongs to, receipt by the
\* receiver, and the sender confirms only what was received.
LEMMA EventFacts ==
  ASSUME TransfersTypeOK, NEW d \in Device, NEW t \in Transfer, TransferEvent(d, t)
  PROVE  \E next \in TransferStatus, started, completed, error \in BOOLEAN :
           /\ MarkTransferStatus(d, t, next, started, completed, error)
           /\ d \in {transfers[t].sender, transfers[t].receiver}
           /\ next \in {"sending", "sent"} => d = transfers[t].sender
           /\ next \in {"receiving", "received"} => d = transfers[t].receiver
           /\ \/ /\ next \in {"sending", "receiving"}
                 /\ started /\ completed = transfers[t].completed
                 /\ error = transfers[t].error
              \/ /\ next \in {"received", "sent"}
                 /\ started = transfers[t].started /\ completed /\ ~ error
              \/ /\ next \in {"failed", "cancelled"}
                 /\ started = transfers[t].started /\ completed /\ error
<1>0. Exists(t)
  BY DEF TransferEvent, ReportProgress, CompleteTransfer, StopTransfer,
         IsTransferParticipant
<1>1. transfers[t] \in TransferRecord
  BY <1>0 DEF Exists, TransfersTypeOK, NoTransfer
<1>2. /\ transfers[t].started \in BOOLEAN /\ transfers[t].completed \in BOOLEAN
      /\ transfers[t].error \in BOOLEAN
  BY <1>1 DEF TransferRecord
<1>3. ASSUME NEW next \in {"sending", "receiving"}, ReportProgress(d, t, next)
      PROVE  /\ MarkTransferStatus(d, t, next, TRUE, transfers[t].completed, transfers[t].error)
             /\ d = IF next = "sending" THEN transfers[t].sender ELSE transfers[t].receiver
  BY <1>3 DEF ReportProgress
<1>4. CASE \E next \in {"sending", "receiving"} : ReportProgress(d, t, next)
  <2>1. PICK next \in {"sending", "receiving"} : ReportProgress(d, t, next)
    BY <1>4
  <2>2. next \in TransferStatus
    BY DEF TransferStatus
  <2> USE <1>2, <2>2
  <2> WITNESS next \in TransferStatus
  <2> WITNESS TRUE \in BOOLEAN, transfers[t].completed \in BOOLEAN,
              transfers[t].error \in BOOLEAN
  <2> QED BY <1>3, <2>1
<1>5. CASE CompleteTransfer(d, t)
  <2> DEFINE next == IF d = transfers[t].receiver THEN "received" ELSE "sent"
  <2>1. next \in TransferStatus
    BY DEF TransferStatus
  <2>2. /\ MarkTransferStatus(d, t, next, transfers[t].started, TRUE, FALSE)
        /\ d \in {transfers[t].sender, transfers[t].receiver}
    BY <1>5 DEF CompleteTransfer, IsTransferParticipant
  <2> USE <1>2, <2>1
  <2> WITNESS next \in TransferStatus
  <2> WITNESS transfers[t].started \in BOOLEAN, TRUE \in BOOLEAN, FALSE \in BOOLEAN
  <2> QED BY <2>2
<1>6. CASE \E next \in {"failed", "cancelled"} : StopTransfer(d, t, next)
  <2>1. PICK next \in {"failed", "cancelled"} : StopTransfer(d, t, next)
    BY <1>6
  <2>2. next \in TransferStatus
    BY DEF TransferStatus
  <2> USE <1>2, <2>2
  <2> WITNESS next \in TransferStatus
  <2> WITNESS transfers[t].started \in BOOLEAN, TRUE \in BOOLEAN, TRUE \in BOOLEAN
  <2> QED BY <2>1 DEF StopTransfer, IsTransferParticipant
<1> QED BY <1>4, <1>5, <1>6 DEF TransferEvent

\* A step is an event of a party, one of the other steps, or no step.
LEMMA StepCases ==
  ASSUME [TransfersNext]_transferVars
  PROVE  \/ \E t \in Transfer, d \in Device : TransferEvent(d, t)
         \/ \E t \in Transfer :
              \/ \E d, e \in Device, i \in SessionId : CreateTransferRecord(t, i, d, e)
              \/ \E action \in {"hide", "restore"} : UpdateTransferRecordVisibility(t, action)
              \/ DeleteTransferRecord(t)
         \/ UNCHANGED transferVars
BY DEF TransfersNext

\* Every operation keeps the types.
LEMMA TransfersTypeStep ==
  TransfersTypeOK /\ [TransfersNext]_transferVars => TransfersTypeOK'
<1> SUFFICES ASSUME TransfersTypeOK, [TransfersNext]_transferVars
             PROVE  TransfersTypeOK'
  OBVIOUS
<1>1. ASSUME NEW t \in Transfer, NEW d \in Device, TransferEvent(d, t)
      PROVE  TransfersTypeOK'
  BY <1>1, EventFacts, MarkFacts
<1>2. CASE UNCHANGED transferVars
  BY <1>2 DEF transferVars, TransfersTypeOK
<1> QED BY <1>1, <1>2, StepCases, OtherStepFacts

\* Types of the transfer records and of the history of reports.
THEOREM TransfersTypeCorrect == TransfersSpec => []TransfersTypeOK
<1>1. TransfersInit => TransfersTypeOK
  BY DEF TransfersInit, TransfersTypeOK
<1> QED BY <1>1, TransfersTypeStep, PTL DEF TransfersSpec
-----------------------------------------------------------------------------
\* A sent transfer was reported receiving and received by its receiver and sent
\* by its sender, and nobody else ever moved it, for any interleaving of the two
\* sides, of HTTP calls and of other transfers (handleTransferProgress,
\* handleTransferComplete, isAllowedTransferTransition).
THEOREM HandshakeInOrder == TransfersSpec => []HandshakeOrder
<1>1. TransfersInit => HandshakeOrder
  BY DEF TransfersInit, HandshakeOrder, NoTransfer
<1>2. TransfersTypeOK /\ HandshakeOrder /\ [TransfersNext]_transferVars => HandshakeOrder'
  <2> SUFFICES ASSUME TransfersTypeOK, HandshakeOrder, [TransfersNext]_transferVars
               PROVE  HandshakeOrder'
    OBVIOUS
  <2>1. ASSUME NEW t \in Transfer, NEW d \in Device, TransferEvent(d, t)
        PROVE  HandshakeOrder'
    <3>1. PICK next \in TransferStatus, started, completed, error \in BOOLEAN :
            /\ MarkTransferStatus(d, t, next, started, completed, error)
            /\ d \in {transfers[t].sender, transfers[t].receiver}
            /\ next \in {"sending", "sent"} => d = transfers[t].sender
            /\ next \in {"receiving", "received"} => d = transfers[t].receiver
      BY <2>1, EventFacts
    <3>2. /\ transfers[t] \in TransferRecord
          /\ next \in AllowedTransitions[transfers[t].status]
          /\ transfers'[t].status = next
          /\ transfers'[t].sender = transfers[t].sender
          /\ transfers'[t].receiver = transfers[t].receiver
          /\ reports'[t] = reports[t] \cup {<<d, next>>}
          /\ \A u \in Transfer \ {t} : transfers'[u] = transfers[u] /\ reports'[u] = reports[u]
      BY <3>1, MarkFacts
    <3>3. transfers[t].status \in TransferStatus
      BY <3>2 DEF TransferRecord
    <3>4. /\ next = "sent" => transfers[t].status = "received"
          /\ next = "received" => transfers[t].status = "receiving"
      BY <3>2, <3>3 DEF AllowedTransitions, TransferStatus
    <3>5. /\ next \in {"receiving", "received", "sent"} =>
               <<transfers[t].receiver, "receiving">> \in reports'[t]
          /\ next \in {"received", "sent"} => <<transfers[t].receiver, "received">> \in reports'[t]
          /\ next = "sent" => <<transfers[t].sender, "sent">> \in reports'[t]
      BY <3>1, <3>2, <3>4 DEF HandshakeOrder
    <3>6. ASSUME NEW report \in reports'[t]
          PROVE  /\ report[1] \in {transfers[t].sender, transfers[t].receiver}
                 /\ report[2] \in {"sending", "sent"} => report[1] = transfers[t].sender
                 /\ report[2] \in {"receiving", "received"} =>
                      report[1] = transfers[t].receiver
      <4>1. CASE report \in reports[t]
        BY <4>1 DEF HandshakeOrder
      <4>2. CASE report = <<d, next>>
        BY <3>1, <4>2
      <4> QED BY <3>2, <4>1, <4>2
    <3> QED BY <3>2, <3>5, <3>6 DEF HandshakeOrder
  <2>2. ASSUME NEW t \in Transfer,
               \/ \E d, e \in Device, i \in SessionId : CreateTransferRecord(t, i, d, e)
               \/ \E action \in {"hide", "restore"} : UpdateTransferRecordVisibility(t, action)
               \/ DeleteTransferRecord(t)
        PROVE  HandshakeOrder'
    <3>1. CASE ~ Exists(t) /\ transfers'[t].status = "pending"
      <4>1. transfers[t] = NoTransfer
        BY <3>1 DEF Exists, TransfersTypeOK, TransferRecord, TransferStatus
      <4>2. reports[t] = {}
        <5> SUFFICES ASSUME NEW report \in reports[t] PROVE FALSE
          OBVIOUS
        <5>1. report \in Device \X TransferStatus
          BY DEF TransfersTypeOK
        <5>2. report[1] \in Device
          BY <5>1
        <5>3. report[1] \in {transfers[t].sender, transfers[t].receiver}
          BY DEF HandshakeOrder
        <5> QED BY <4>1, <5>2, <5>3, DeviceAssumption DEF NoTransfer
      <4> QED BY <2>2, <3>1, <4>2, OtherStepFacts DEF HandshakeOrder
    <3>2. CASE Exists(t) /\ transfers'[t].status = transfers[t].status
      BY <2>2, <3>2, OtherStepFacts DEF HandshakeOrder
    <3> QED BY <2>2, <3>1, <3>2, OtherStepFacts
  <2>3. CASE UNCHANGED transferVars
    BY <2>3 DEF transferVars, HandshakeOrder
  <2> QED BY <2>1, <2>2, <2>3, StepCases
<1> QED BY <1>1, <1>2, TransfersTypeCorrect, PTL DEF TransfersSpec
-----------------------------------------------------------------------------
\* The times and the error message of a record agree with its status, although
\* each event sets only some of them (markTransferStatus and its callers).
THEOREM OutcomeFieldsCorrect == TransfersSpec => []OutcomeFieldsAgree
<1>1. TransfersInit => OutcomeFieldsAgree
  BY DEF TransfersInit, OutcomeFieldsAgree, NoTransfer
<1>2. TransfersTypeOK /\ OutcomeFieldsAgree /\ [TransfersNext]_transferVars
        => OutcomeFieldsAgree'
  <2> SUFFICES ASSUME TransfersTypeOK, OutcomeFieldsAgree, [TransfersNext]_transferVars
               PROVE  OutcomeFieldsAgree'
    OBVIOUS
  <2>1. ASSUME NEW t \in Transfer, NEW d \in Device, TransferEvent(d, t)
        PROVE  OutcomeFieldsAgree'
    <3>1. PICK next \in TransferStatus, started, completed, error \in BOOLEAN :
            /\ MarkTransferStatus(d, t, next, started, completed, error)
            /\ \/ /\ next \in {"sending", "receiving"}
                  /\ started /\ completed = transfers[t].completed
                  /\ error = transfers[t].error
               \/ /\ next \in {"received", "sent"}
                  /\ started = transfers[t].started /\ completed /\ ~ error
               \/ /\ next \in {"failed", "cancelled"}
                  /\ started = transfers[t].started /\ completed /\ error
      BY <2>1, EventFacts
    <3>2. /\ transfers[t] \in TransferRecord
          /\ next \in AllowedTransitions[transfers[t].status]
          /\ transfers'[t].status = next
          /\ transfers'[t].started = started
          /\ transfers'[t].completed = completed
          /\ transfers'[t].error = error
          /\ \A u \in Transfer \ {t} : transfers'[u] = transfers[u]
      BY <3>1, MarkFacts
    <3>3. transfers[t].status \in TransferStatus
      BY <3>2 DEF TransferRecord
    <3>4. /\ next \in {"sending", "receiving"} =>
               transfers[t].status \notin {"received", "sent", "failed", "cancelled"}
          /\ next = "received" => transfers[t].status = "receiving"
          /\ next = "sent" => transfers[t].status = "received"
      BY <3>2, <3>3 DEF AllowedTransitions, TransferStatus
    <3>5. /\ next \in {"sending", "receiving", "received", "sent"} => started
          /\ completed <=> next \in {"received", "sent", "failed", "cancelled"}
          /\ error <=> next \in {"failed", "cancelled"}
      BY <3>1, <3>4 DEF OutcomeFieldsAgree
    <3> QED BY <3>2, <3>5 DEF OutcomeFieldsAgree
  <2>2. ASSUME NEW t \in Transfer,
               \/ \E d, e \in Device, i \in SessionId : CreateTransferRecord(t, i, d, e)
               \/ \E action \in {"hide", "restore"} : UpdateTransferRecordVisibility(t, action)
               \/ DeleteTransferRecord(t)
        PROVE  OutcomeFieldsAgree'
    BY <2>2, OtherStepFacts DEF OutcomeFieldsAgree
  <2>3. CASE UNCHANGED transferVars
    BY <2>3 DEF transferVars, OutcomeFieldsAgree
  <2> QED BY <2>1, <2>2, <2>3, StepCases
<1> QED BY <1>1, <1>2, TransfersTypeCorrect, PTL DEF TransfersSpec
-----------------------------------------------------------------------------
\* No late event of either side takes back a receipt, an outcome or a deletion
\* (isAllowedTransferTransition, the deletedAt check of markTransferStatus).
THEOREM OutcomesAreFinal == TransfersSpec => OutcomeIsFinal
<1> DEFINE Final ==
      \A t \in Transfer :
        /\ transfers[t].status = "received" => transfers'[t].status \in {"received", "sent"}
        /\ transfers[t].status \in {"sent", "failed", "cancelled"} =>
             transfers'[t].status = transfers[t].status
        /\ transfers[t].deleted => /\ transfers'[t].status = transfers[t].status
                                   /\ transfers'[t].deleted
<1>1. TransfersTypeOK /\ [TransfersNext]_transferVars => [Final]_transferVars
  <2> SUFFICES ASSUME TransfersTypeOK, [TransfersNext]_transferVars, ~ UNCHANGED transferVars
               PROVE  Final
    OBVIOUS
  <2>1. ASSUME NEW t \in Transfer, NEW d \in Device, TransferEvent(d, t)
        PROVE  Final
    <3>1. PICK next \in TransferStatus, started, completed, error \in BOOLEAN :
            MarkTransferStatus(d, t, next, started, completed, error)
      BY <2>1, EventFacts
    <3>2. /\ transfers[t] \in TransferRecord /\ ~ transfers[t].deleted
          /\ next \in AllowedTransitions[transfers[t].status]
          /\ transfers'[t].status = next
          /\ \A u \in Transfer \ {t} : transfers'[u] = transfers[u]
      BY <3>1, MarkFacts
    <3>3. /\ transfers[t].status = "received" => next = "sent"
          /\ transfers[t].status \notin {"sent", "failed", "cancelled"}
      BY <3>2 DEF AllowedTransitions, TransferStatus
    <3> QED BY <3>2, <3>3
  <2>2. ASSUME NEW t \in Transfer,
               \/ \E d, e \in Device, i \in SessionId : CreateTransferRecord(t, i, d, e)
               \/ \E action \in {"hide", "restore"} : UpdateTransferRecordVisibility(t, action)
               \/ DeleteTransferRecord(t)
        PROVE  Final
    <3>1. CASE ~ Exists(t)
      <4>1. transfers[t] = NoTransfer
        BY <3>1 DEF Exists, TransfersTypeOK, TransferRecord, TransferStatus
      <4> QED BY <2>2, <4>1, OtherStepFacts DEF NoTransfer
    <3>2. CASE Exists(t)
      BY <2>2, <3>2, OtherStepFacts
    <3> QED BY <3>1, <3>2
  <2> QED BY <2>1, <2>2, StepCases
<1> QED BY <1>1, TransfersTypeCorrect, PTL DEF TransfersSpec, OutcomeIsFinal
=============================================================================
