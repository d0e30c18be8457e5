-------------------------- MODULE FileStoreProofs --------------------------
(***************************************************************************)
(* What holds of files and rows for any number of files, requests and      *)
(* failures.  The inductive invariant says how far an upload has come and  *)
(* what a request under way may rely on: the files it works on had a row,  *)
(* and those a sweep removes were in the trash.                            *)
(***************************************************************************)
EXTENDS FileStore, TLAPS, FiniteSetTheorems

UploadRecord ==
  [pc      : {"none", "writing", "written", "summing", "over"},
   listed  : SUBSET File,
   counted : SUBSET File]

CallRecord ==
  [pc   : {"idle", "deleting", "checking", "restoring",
           "sweeping", "dropping", "found", "opening"},
   file : File \cup {NoFile},
   todo : SUBSET File]

\* The file of an upload that has no row yet is what the upload has written.
UploadInv ==
  \A f \in File :
    /\ uploads[f].pc = "none" => disk[f] = "none" /\ f \notin recorded
    /\ uploads[f].pc = "writing" => disk[f] = "partial" /\ f \notin recorded
    /\ uploads[f].pc \in {"written", "summing"} => disk[f] = "full" /\ f \notin recorded

\* A row, or what is left of it.
RowInv ==
  \A f \in File :
    /\ rows[f] # "none" => f \in recorded
    /\ f \in trashed => f \in recorded
    /\ f \in recorded => /\ disk[f] # "partial"
                         /\ rows[f] = "none" => disk[f] = "none"
                         /\ f \notin trashed => rows[f] = "live" /\ disk[f] = "full"

\* What a request under way relies on.
CallInv ==
  \A c \in Call :
    /\ calls[c].pc \notin {"idle", "sweeping"} => calls[c].file \in recorded
    /\ calls[c].todo \subseteq trashed
    /\ calls[c].pc = "dropping" => calls[c].file \in trashed /\ disk[calls[c].file] = "none"

FileInv == UploadInv /\ RowInv /\ CallInv

\* The next call record of a sweep is one.
LEMMA ContinuedType ==
  ASSUME NEW c \in Call, NEW todo \in SUBSET File
  PROVE  Continued(c, todo) \in CallRecord
BY DEF Continued, Idle, CallRecord

\* The uploads' part of a step.
LEMMA UploadSteps ==
  ASSUME FileTypeOK, NEW f \in File,
         \/ UploadStarts(f) \/ UploadGoesOn(f) \/ UploadBreaks(f) \/ RefuseUploadFails(f)
  PROVE  FileTypeOK'
<1> USE DEF UploadStep, storeVars, history, Fails, FileTypeOK
<1>1. CASE UploadStarts(f)
  BY <1>1 DEF UploadStarts
<1>2. CASE UploadWritten(f) \/ UploadDiscarded(f)
  <2>1. CASE UploadWritten(f)
    BY <2>1 DEF UploadWritten
  <2>2. CASE UploadDiscarded(f)
    BY <2>2 DEF UploadDiscarded
  <2> QED BY <1>2, <2>1, <2>2
<1>3. CASE ListUploads(f)
  BY <1>3 DEF ListUploads, Summing, OnDisk
<1>4. ASSUME NEW g \in File, StatUpload(f, g) PROVE FileTypeOK'
  <2>1. uploads[f] \in UploadRecord
    BY DEF UploadRecord
  <2>2. PICK l \in SUBSET File, k \in SUBSET File : Summing(f, l, k)
    <3>1. /\ uploads[f].listed \ {g} \in SUBSET File
          /\ uploads[f].counted \in SUBSET File
          /\ uploads[f].counted \cup {g} \in SUBSET File
      BY <2>1 DEF UploadRecord
    <3> HIDE DEF FileTypeOK
    <3> QED BY <1>4, <3>1 DEF StatUpload
  <2>3. missed' \in BOOLEAN
    BY <1>4 DEF StatUpload
  <2> QED BY <2>2, <2>3 DEF Summing
<1>5. CASE CreateRow(f)
  BY <1>5 DEF CreateRow
<1>6. CASE RefuseUpload(f)
  BY <1>6, FileAssumption DEF RefuseUpload
<1>7. CASE UploadBreaks(f) \/ RefuseUploadFails(f)
  BY <1>7, FileAssumption DEF UploadBreaks, RefuseUploadFails
<1> QED BY <1>1, <1>2, <1>3, <1>4, <1>5, <1>6, <1>7 DEF UploadGoesOn

\* The other requests' part of a step: a call record stays one.
LEMMA CallSteps ==
  ASSUME FileTypeOK, CallInv, RowInv, NEW c \in Call,
         \/ CallGoesOn(c) \/ SweepDropFails(c)
         \/ \E f \in File : SweepUnlinkFails(c, f)
  PROVE  FileTypeOK'
<1>0. /\ calls[c] \in CallRecord /\ calls \in [Call -> CallRecord]
      /\ Idle \in CallRecord
  BY DEF FileTypeOK, CallRecord, Idle
<1>a. recorded \subseteq File
  BY DEF FileTypeOK
<1>1. ASSUME calls' \in [Call -> CallRecord], UNCHANGED <<uploads, recorded, missed>>,
             disk' \in [File -> {"none", "partial", "full"}],
             rows' \in [File -> {"none", "live", "trash"}],
             age' \in [File -> 0..Retention],
             failures' \in 0..MaxFailures, trashed' \subseteq File
      PROVE  FileTypeOK'
  BY <1>1 DEF FileTypeOK, CallRecord
<1>2. CASE DeleteUpdates(c)
  <2>1. calls[c].file \in File
    BY <1>2, <1>a DEF DeleteUpdates, CallInv
  <2>2. calls' \in [Call -> CallRecord]
    BY <1>2, <1>0 DEF DeleteUpdates, CallAnswers
  <2>3. CASE rows[calls[c].file] = "none"
    BY <1>1, <1>2, <2>2, <2>3 DEF DeleteUpdates, CallAnswers, FileTypeOK
  <2>4. CASE rows[calls[c].file] # "none"
    <3>1. /\ rows' = [rows EXCEPT ![calls[c].file] = "trash"]
          /\ age' = [age EXCEPT ![calls[c].file] = 0]
          /\ trashed' = trashed \cup {calls[c].file}
          /\ UNCHANGED <<disk, uploads, failures, recorded, missed>>
      BY <1>2, <2>4 DEF DeleteUpdates, CallAnswers
    <3>2. age' \in [File -> 0..Retention]
      <4>1. 0 \in 0..Retention
        BY FileAssumption
      <4>2. age \in [File -> 0..Retention]
        BY DEF FileTypeOK
      <4> QED BY <3>1, <4>1, <4>2
    <3> QED BY <1>1, <2>1, <2>2, <3>1, <3>2 DEF FileTypeOK
  <2> QED BY <2>3, <2>4
<1>3. CASE RestoreChecks(c) \/ DownloadLooks(c)
  <2>1. PICK next \in {"restoring", "opening"} : FileIsThere(c, next)
    BY <1>3 DEF RestoreChecks, DownloadLooks
  <2>2. calls' \in [Call -> CallRecord]
    BY <2>1, <1>0 DEF FileIsThere, CallRecord
  <2> QED BY <1>1, <2>1, <2>2 DEF FileIsThere, FileTypeOK, storeVars, history
<1>4. CASE RestoreUpdates(c) \/ DownloadOpens(c)
  <2>1. calls' \in [Call -> CallRecord]
    BY <1>4, <1>0 DEF RestoreUpdates, DownloadOpens, CallAnswers
  <2> QED BY <1>1, <1>4, <2>1
          DEF RestoreUpdates, DownloadOpens, CallAnswers, FileTypeOK, storeVars, history
<1>5. CASE DownloadBreaks(c)
  BY <1>5, FileAssumption DEF DownloadBreaks, Forget, FileTypeOK, Idle, storeVars, history
<1>6. ASSUME NEW f \in File, SweepUnlinks(c, f) PROVE FileTypeOK'
  <2>1. calls' \in [Call -> CallRecord]
    BY <1>6, <1>0 DEF SweepUnlinks, CallRecord
  <2> QED BY <1>1, <1>6, <2>1 DEF SweepUnlinks, FileTypeOK, history
<1>7. CASE SweepDrops(c) \/ SweepDropFails(c)
  <2>1. calls[c].todo \in SUBSET File
    BY <1>0 DEF CallRecord
  <2>2. calls' = [calls EXCEPT ![c] = Continued(c, calls[c].todo)]
    BY <1>7 DEF SweepDrops, SweepDropFails
  <2>3. calls' \in [Call -> CallRecord]
    BY <1>0, <2>1, <2>2, ContinuedType
  <2> QED BY <1>1, <1>7, <2>3, FileAssumption
          DEF SweepDrops, SweepDropFails, Fails, FileTypeOK, storeVars, history
<1>8. ASSUME NEW f \in File, SweepUnlinkFails(c, f) PROVE FileTypeOK'
  <2>1. calls[c].todo \ {f} \in SUBSET File
    BY <1>0 DEF CallRecord
  <2>2. calls' = [calls EXCEPT ![c] = Continued(c, calls[c].todo \ {f})]
    BY <1>8 DEF SweepUnlinkFails
  <2>3. calls' \in [Call -> CallRecord]
    BY <1>0, <2>1, <2>2, ContinuedType
  <2>4. failures' \in 0..MaxFailures /\ UNCHANGED <<storeVars, uploads, history>>
    BY <1>8, FileAssumption DEF SweepUnlinkFails, Fails, FileTypeOK
  <2> QED BY <1>1, <2>3, <2>4 DEF FileTypeOK, storeVars, history
<1> QED BY <1>2, <1>3, <1>4, <1>5, <1>6, <1>7, <1>8 DEF CallGoesOn

\* A request that starts is a call record of its own, and changes nothing else.
LEMMA StartSteps ==
  ASSUME FileTypeOK, NEW c \in Call, NEW f \in File,
         \/ DeleteStarts(c, f) \/ RestoreStarts(c, f) \/ DownloadStarts(c, f)
         \/ RemoveStarts(c, f) \/ EmptyStarts(c) \/ CleanerStarts(c)
  PROVE  FileTypeOK' /\ UNCHANGED <<storeVars, uploads, failures, history>>
<1>1. ASSUME NEW pc \in {"deleting", "checking", "found", "sweeping"},
             NEW file \in File \cup {NoFile}, NEW todo \in SUBSET File,
             CallStarts(c, pc, file, todo)
      PROVE  FileTypeOK' /\ UNCHANGED <<storeVars, uploads, failures, history>>
  <2>1. calls' \in [Call -> CallRecord]
    BY <1>1 DEF CallStarts, CallRecord, FileTypeOK
  <2> QED BY <1>1, <2>1 DEF CallStarts, CallRecord, FileTypeOK, storeVars, history
<1>2. CASE DeleteStarts(c, f) \/ RestoreStarts(c, f) \/ DownloadStarts(c, f)
  BY <1>1, <1>2 DEF DeleteStarts, RestoreStarts, DownloadStarts
<1>3. CASE RemoveStarts(c, f) \/ EmptyStarts(c) \/ CleanerStarts(c)
  <2>1. PICK todo \in SUBSET File : CallStarts(c, "sweeping", NoFile, todo)
    BY <1>3 DEF RemoveStarts, EmptyStarts, CleanerStarts, Trash
  <2> QED BY <1>1, <2>1
<1> QED BY <1>2, <1>3

\* A step of an upload keeps the invariant: it touches one file, which has no row yet.
LEMMA UploadInvSteps ==
  ASSUME FileTypeOK, FileInv, NEW f \in File,
         \/ UploadStarts(f) \/ UploadGoesOn(f) \/ UploadBreaks(f) \/ RefuseUploadFails(f)
  PROVE  FileInv'
<1> USE DEF UploadStep, storeVars, history
<1>1. CASE UploadStarts(f)
  BY <1>1 DEF UploadStarts, FileTypeOK, FileInv, UploadInv, RowInv, CallInv
<1>2. CASE UploadWritten(f) \/ UploadDiscarded(f)
  <2>1. CASE UploadWritten(f)
    BY <2>1 DEF UploadWritten, FileTypeOK, FileInv, UploadInv, RowInv, CallInv
  <2>2. CASE UploadDiscarded(f)
    BY <2>2 DEF UploadDiscarded, FileTypeOK, FileInv, UploadInv, RowInv, CallInv
  <2> QED BY <1>2, <2>1, <2>2
<1>3. ASSUME uploads[f].pc \in {"written", "summing"},
             NEW l \in SUBSET File, NEW k \in SUBSET File, Summing(f, l, k)
      PROVE  FileInv'
  <2>1. uploads'[f].pc = "summing" /\ \A g \in File \ {f} : uploads'[g] = uploads[g]
    BY <1>3 DEF Summing, FileTypeOK
  <2>2. UNCHANGED <<disk, rows, calls, recorded, trashed>>
    BY <1>3 DEF Summing
  <2> QED BY <1>3, <2>1, <2>2 DEF FileInv, UploadInv, RowInv, CallInv
<1>4. CASE ListUploads(f)
  BY <1>3, <1>4 DEF ListUploads, OnDisk
<1>5. ASSUME NEW g \in File, StatUpload(f, g) PROVE FileInv'
  <2>1. uploads[f].listed \ {g} \in SUBSET File /\ uploads[f].counted \in SUBSET File
        /\ uploads[f].counted \cup {g} \in SUBSET File
    BY DEF FileTypeOK
  <2> QED BY <1>3, <1>5, <2>1 DEF StatUpload
<1>6. CASE CreateRow(f)
  BY <1>6 DEF CreateRow, FileTypeOK, FileInv, UploadInv, RowInv, CallInv
<1>7. CASE RefuseUpload(f)
  BY <1>7 DEF RefuseUpload, FileTypeOK, FileInv, UploadInv, RowInv, CallInv
<1>8. CASE UploadBreaks(f) \/ RefuseUploadFails(f)
  <2>1. UNCHANGED <<disk, rows, calls, recorded, trashed>>
    BY <1>8 DEF UploadBreaks, RefuseUploadFails
  <2>2. \A g \in File : uploads'[g].pc \in {"over", uploads[g].pc}
    BY <1>8 DEF UploadBreaks, RefuseUploadFails, FileTypeOK
  <2> QED BY <2>1, <2>2 DEF FileInv, UploadInv, RowInv, CallInv
<1> QED BY <1>1, <1>2, <1>4, <1>5, <1>6, <1>7, <1>8 DEF UploadGoesOn

\* A request that starts relies on a row, a sweep on rows in the trash.
LEMMA StartInvSteps ==
  ASSUME FileTypeOK, FileInv, NEW c \in Call, NEW f \in File,
         \/ DeleteStarts(c, f) \/ RestoreStarts(c, f) \/ DownloadStarts(c, f)
         \/ RemoveStarts(c, f) \/ EmptyStarts(c) \/ CleanerStarts(c)
  PROVE  FileInv'
<1>0. Trash \subseteq trashed
  BY DEF Trash, FileInv, RowInv
<1>1. UNCHANGED <<disk, rows, uploads, recorded, trashed>>
  BY StartSteps DEF storeVars, history
<1>2. CallInv'
  <2>1. CASE DeleteStarts(c, f) \/ RestoreStarts(c, f) \/ DownloadStarts(c, f)
    <3>1. PICK pc \in {"deleting", "checking", "found"} : CallStarts(c, pc, f, {})
      BY <2>1 DEF DeleteStarts, RestoreStarts, DownloadStarts
    <3>2. f \in recorded
      BY <2>1 DEF DeleteStarts, RestoreStarts, DownloadStarts, FileInv, RowInv
    <3> QED BY <1>1, <3>1, <3>2 DEF CallStarts, FileTypeOK, FileInv, CallInv
  <2>2. CASE RemoveStarts(c, f) \/ EmptyStarts(c) \/ CleanerStarts(c)
    <3>1. PICK todo \in SUBSET Trash : CallStarts(c, "sweeping", NoFile, todo)
      BY <2>2 DEF RemoveStarts, EmptyStarts, CleanerStarts
    <3> QED BY <1>0, <1>1, <3>1 DEF CallStarts, FileTypeOK, FileInv, CallInv
  <2> QED BY <2>1, <2>2
<1> QED BY <1>1, <1>2 DEF FileInv, UploadInv, RowInv

\* A request that goes on keeps the invariant: a row that goes has no file, a file
\* that goes was in the trash.
LEMMA CallInvSteps ==
  ASSUME FileTypeOK, FileInv, NEW c \in Call,
         \/ CallGoesOn(c) \/ SweepDropFails(c)
         \/ \E f \in File : SweepUnlinkFails(c, f)
  PROVE  FileInv'
<1>0. recorded \subseteq File /\ trashed \subseteq recorded
  BY DEF FileTypeOK, FileInv, RowInv
<1>1. CASE DeleteUpdates(c)
  <2>1. calls[c].file \in recorded /\ calls[c].file \in File
    BY <1>0, <1>1 DEF DeleteUpdates, FileInv, CallInv
  <2>2. CallInv'
    BY <1>1, <2>1 DEF DeleteUpdates, CallAnswers, Idle, FileTypeOK, FileInv, CallInv
  <2>3. UploadInv' /\ RowInv'
    BY <1>1, <2>1 DEF DeleteUpdates, CallAnswers, FileTypeOK, FileInv, UploadInv, RowInv
  <2> QED BY <2>2, <2>3 DEF FileInv
<1>2. CASE RestoreChecks(c) \/ DownloadLooks(c)
  <2>1. PICK next \in {"restoring", "opening"} : FileIsThere(c, next)
    BY <1>2 DEF RestoreChecks, DownloadLooks
  <2>2. calls[c].file \in recorded
    BY <1>2 DEF RestoreChecks, DownloadLooks, FileInv, CallInv
  <2> QED BY <2>1, <2>2
          DEF FileIsThere, storeVars, history, Idle, FileTypeOK, FileInv, UploadInv, RowInv, CallInv
<1>3. CASE RestoreUpdates(c)
  <2>1. calls[c].file \in recorded /\ calls[c].file \in File
    BY <1>0, <1>3 DEF RestoreUpdates, FileInv, CallInv
  <2>2. CallInv'
    BY <1>3 DEF RestoreUpdates, CallAnswers, history, Idle, FileTypeOK, FileInv, CallInv
  <2>3. UploadInv' /\ RowInv'
    BY <1>3, <2>1 DEF RestoreUpdates, CallAnswers, history, FileTypeOK, FileInv, UploadInv, RowInv
  <2> QED BY <2>2, <2>3 DEF FileInv
<1>4. CASE DownloadOpens(c)
  BY <1>4 DEF DownloadOpens, CallAnswers, storeVars, history, Idle,
              FileTypeOK, FileInv, UploadInv, RowInv, CallInv
<1>5. CASE DownloadBreaks(c)
  BY <1>5 DEF DownloadBreaks, Forget, storeVars, history, Idle,
              FileTypeOK, FileInv, UploadInv, RowInv, CallInv
<1>6. ASSUME NEW f \in File, SweepUnlinks(c, f) PROVE FileInv'
  <2>1. f \in trashed /\ f \in recorded
    BY <1>0, <1>6 DEF SweepUnlinks, FileInv, CallInv
  <2>2. UploadInv' /\ RowInv'
    BY <1>6, <2>1 DEF SweepUnlinks, history, FileTypeOK, FileInv, UploadInv, RowInv
  <2>3. disk'[f] = "none" /\ \A d \in Call : disk[calls[d].file] = "none"
                                           /\ calls[d].file \in trashed
                             => disk'[calls[d].file] = "none"
    BY <1>0, <1>6 DEF SweepUnlinks, FileTypeOK
  <2>4. CallInv'
    BY <1>6, <2>1, <2>3 DEF SweepUnlinks, history, FileTypeOK, FileInv, CallInv
  <2> QED BY <2>2, <2>4 DEF FileInv
<1>7. CASE SweepDrops(c)
  <2>1. calls[c].file \in trashed /\ calls[c].file \in File /\ disk[calls[c].file] = "none"
    BY <1>0, <1>7 DEF SweepDrops, FileInv, CallInv
  <2>2. UploadInv' /\ RowInv'
    BY <1>7, <2>1 DEF SweepDrops, history, FileTypeOK, FileInv, UploadInv, RowInv
  <2>3. CallInv'
    BY <1>7 DEF SweepDrops, Continued, history, Idle, FileTypeOK, FileInv, CallInv
  <2> QED BY <2>2, <2>3 DEF FileInv
<1>8. CASE SweepDropFails(c)
  BY <1>8 DEF SweepDropFails, Continued, storeVars, history, Idle,
              FileTypeOK, FileInv, UploadInv, RowInv, CallInv
<1>9. ASSUME NEW f \in File, SweepUnlinkFails(c, f) PROVE FileInv'
  BY <1>9 DEF SweepUnlinkFails, Continued, storeVars, history, Idle,
              FileTypeOK, FileInv, UploadInv, RowInv, CallInv
<1> QED BY <1>1, <1>2, <1>3, <1>4, <1>5, <1>6, <1>7, <1>8, <1>9 DEF CallGoesOn

\* Both invariants are inductive.
LEMMA FileInvariantStep ==
  ASSUME FileTypeOK, FileInv, [FileNext]_fileVars
  PROVE  FileTypeOK' /\ FileInv'
<1>1. ASSUME NEW f \in File,
             \/ UploadStarts(f) \/ UploadGoesOn(f) \/ UploadBreaks(f) \/ RefuseUploadFails(f)
      PROVE  FileTypeOK' /\ FileInv'
  BY <1>1, UploadSteps, UploadInvSteps
<1>2. ASSUME NEW c \in Call, NEW f \in File,
             \/ DeleteStarts(c, f) \/ RestoreStarts(c, f) \/ DownloadStarts(c, f)
             \/ RemoveStarts(c, f)
      PROVE  FileTypeOK' /\ FileInv'
  BY <1>2, StartSteps, StartInvSteps
<1>3. ASSUME NEW c \in Call, EmptyStarts(c) \/ CleanerStarts(c)
      PROVE  FileTypeOK' /\ FileInv'
  <2>1. PICK f \in File : f \in Trash
    BY <1>3 DEF EmptyStarts, CleanerStarts, Trash
  <2> QED BY <1>3, StartSteps, StartInvSteps
<1>4. ASSUME NEW c \in Call,
             \/ CallGoesOn(c) \/ SweepDropFails(c)
             \/ \E f \in File : SweepUnlinkFails(c, f)
      PROVE  FileTypeOK' /\ FileInv'
  BY <1>4, CallSteps, CallInvSteps DEF FileInv
<1>5. CASE Restart
  <2>1. FileTypeOK'
    BY <1>5, FileAssumption DEF Restart, Fails, Forget, FileTypeOK, Idle, storeVars, history
  <2>2. FileInv'
    BY <1>5 DEF Restart, Forget, storeVars, history, Idle,
                FileTypeOK, FileInv, UploadInv, RowInv, CallInv
  <2> QED BY <2>1, <2>2
<1>6. CASE FileTick
  <2>1. age' \in [File -> 0..Retention]
    BY <1>6, FileAssumption DEF FileTick, FileTypeOK
  <2>2. FileTypeOK'
    BY <1>6, <2>1 DEF FileTick, FileTypeOK, history
  <2>3. FileInv'
    BY <1>6 DEF FileTick, FileInv, UploadInv, RowInv, CallInv, history
  <2> QED BY <2>2, <2>3
<1>7. CASE UNCHANGED fileVars
  BY <1>7 DEF fileVars, storeVars, history, FileTypeOK, FileInv, UploadInv, RowInv, CallInv
<1> QED
  BY <1>1, <1>2, <1>3, <1>4, <1>5, <1>6, <1>7, FileAssumption DEF FileNext

\* No row and no file exist at first.
LEMMA FileInitially == FileInit => FileTypeOK /\ FileInv
<1> SUFFICES ASSUME FileInit PROVE FileTypeOK /\ FileInv
  OBVIOUS
<1>1. 0 \in 0..Retention /\ 0 \in 0..MaxFailures
  BY FileAssumption
<1>2. FileTypeOK
  <2>1. calls \in [Call -> CallRecord]
    BY DEF FileInit, Idle, CallRecord
  <2>2. uploads \in [File -> UploadRecord]
    BY DEF FileInit, UploadRecord
  <2> QED BY <1>1, <2>1, <2>2 DEF FileInit, FileTypeOK, CallRecord, UploadRecord
<1>3. FileInv
  BY DEF FileInit, FileInv, UploadInv, RowInv, CallInv, Idle
<1> QED BY <1>2, <1>3

\* The invariant the others follow from.
THEOREM FileInvariant == FileSpec => [](FileTypeOK /\ FileInv)
<1>1. FileTypeOK /\ FileInv /\ [FileNext]_fileVars => FileTypeOK' /\ FileInv'
  BY FileInvariantStep
<1> QED BY <1>1, FileInitially, PTL DEF FileSpec

\* Every variable of the file storage has its type, for any number of files,
\* requests and failures.
THEOREM FileTypeCorrect == FileSpec => []FileTypeOK
BY FileInvariant, PTL

\* No file that was never in the trash loses its row or its data.
THEOREM UntrashedStaysSafe == FileSpec => []UntrashedIsSafe
<1>1. FileTypeOK /\ FileInv => UntrashedIsSafe
  BY DEF FileInv, RowInv, UntrashedIsSafe
<1> QED BY <1>1, FileInvariant, PTL

\* The file goes before its row, whatever fails in between.
THEOREM RemovedIsGone == FileSpec => []RemovedLeavesNothing
<1>1. FileTypeOK /\ FileInv => RemovedLeavesNothing
  BY DEF FileTypeOK, FileInv, RowInv, RemovedLeavesNothing
<1> QED BY <1>1, FileInvariant, PTL

\* A step without failures leaves rows and files agreed, or somebody at work on them.
LEMMA MatchStep ==
  ASSUME FileTypeOK, FileInv, FileTypeOK', RowsAndFilesMatch, [FileNext]_fileVars
  PROVE  RowsAndFilesMatch'
<1> SUFFICES ASSUME failures' = 0 PROVE RowsAndFilesMatch'
  BY DEF RowsAndFilesMatch
<1> DEFINE Removing(f) == \E c \in Call : calls[c].pc = "dropping" /\ calls[c].file = f
           Agree(f) == /\ rows[f] # "none" /\ disk[f] = "none" => Removing(f)
                       /\ rows[f] = "none" /\ disk[f] # "none" => uploads[f].pc # "over"
<1>a. ASSUME failures = 0 PROVE \A f \in File : Agree(f)
  BY <1>a DEF RowsAndFilesMatch
<1>b. (\A f \in File : Agree(f)') => RowsAndFilesMatch'
  BY DEF RowsAndFilesMatch
<1>c. ASSUME failures = 0, UNCHANGED <<disk, rows, uploads>>,
             \A c \in Call : calls[c].pc = "dropping" => calls'[c] = calls[c]
      PROVE  RowsAndFilesMatch'
  BY <1>a, <1>b, <1>c
<1>f. failures \in Nat /\ ~ Fails
  BY FileAssumption DEF FileTypeOK, Fails
<1>1. ASSUME NEW f \in File,
             \/ UploadStarts(f) \/ UploadGoesOn(f) \/ UploadBreaks(f) \/ RefuseUploadFails(f)
      PROVE  RowsAndFilesMatch'
  <2>1. UNCHANGED calls
    BY <1>1 DEF UploadStarts, UploadGoesOn, UploadWritten, UploadDiscarded, ListUploads, StatUpload, Summing,
                CreateRow, RefuseUpload, UploadBreaks, RefuseUploadFails, UploadStep
  <2>2. failures = 0
    BY <1>1, <1>f DEF UploadStarts, UploadGoesOn, UploadWritten, UploadDiscarded, ListUploads, StatUpload, Summing,
                CreateRow, RefuseUpload, UploadBreaks, RefuseUploadFails, UploadStep
  <2>3. \A g \in File \ {f} : rows'[g] = rows[g] /\ disk'[g] = disk[g] /\ uploads'[g] = uploads[g]
    BY <1>1 DEF UploadStarts, UploadGoesOn, UploadWritten, UploadDiscarded, ListUploads, StatUpload, Summing,
                CreateRow, RefuseUpload, UploadBreaks, RefuseUploadFails, UploadStep, storeVars,
                FileTypeOK
  <2>4. rows[f] = "none"
    BY <1>1, <1>f DEF UploadStarts, UploadGoesOn, UploadWritten, UploadDiscarded, ListUploads, StatUpload,
                CreateRow, RefuseUpload, UploadBreaks, RefuseUploadFails, UploadStep,
                FileInv, UploadInv, RowInv
  <2>5. CASE UploadStarts(f) \/ UploadWritten(f)
    BY <1>a, <1>b, <2>1, <2>2, <2>3, <2>4, <2>5
       DEF UploadStarts, UploadWritten, UploadStep, FileTypeOK
  <2>6. ASSUME NEW l, NEW k, Summing(f, l, k) PROVE RowsAndFilesMatch'
    BY <1>a, <1>b, <2>1, <2>2, <2>3, <2>4, <2>6 DEF Summing, storeVars, FileTypeOK
  <2>7. CASE CreateRow(f)
    <3>1. disk'[f] = "full" /\ rows'[f] = "live"
      BY <2>7 DEF CreateRow, UploadStep, FileInv, UploadInv, FileTypeOK
    <3> QED BY <1>a, <1>b, <2>1, <2>2, <2>3, <3>1
  <2>8. CASE RefuseUpload(f) \/ UploadDiscarded(f)
    <3>1. disk'[f] = "none" /\ rows'[f] = "none"
      BY <2>4, <2>8 DEF RefuseUpload, UploadDiscarded, FileTypeOK
    <3> QED BY <1>a, <1>b, <2>1, <2>2, <2>3, <3>1
  <2>9. CASE UploadBreaks(f) \/ RefuseUploadFails(f)
    BY <1>f, <2>9 DEF UploadBreaks, RefuseUploadFails
  <2> QED BY <1>1, <2>5, <2>6, <2>7, <2>8, <2>9 DEF UploadGoesOn, ListUploads, StatUpload
<1>2. ASSUME NEW c \in Call, NEW f \in File,
             \/ DeleteStarts(c, f) \/ RestoreStarts(c, f) \/ DownloadStarts(c, f)
             \/ RemoveStarts(c, f) \/ EmptyStarts(c) \/ CleanerStarts(c)
      PROVE  RowsAndFilesMatch'
  <2>1. UNCHANGED <<storeVars, uploads, failures, history>>
    BY <1>2, StartSteps
  <2>2. PICK pc, file, todo : CallStarts(c, pc, file, todo)
    BY <1>2 DEF DeleteStarts, RestoreStarts, DownloadStarts, RemoveStarts, EmptyStarts, CleanerStarts
  <2>3. \A d \in Call : calls[d].pc = "dropping" => calls'[d] = calls[d]
    BY <2>2 DEF CallStarts, Idle, FileTypeOK
  <2> QED BY <1>c, <2>1, <2>3 DEF storeVars
<1>3. ASSUME NEW c \in Call, CallGoesOn(c) PROVE RowsAndFilesMatch'
  <2>1. CASE DeleteUpdates(c) \/ RestoreUpdates(c)
    <3>1. UNCHANGED <<disk, uploads, failures>>
      BY <2>1 DEF DeleteUpdates, RestoreUpdates, CallAnswers, history
    <3>2. \A f \in File : rows'[f] = "none" <=> rows[f] = "none"
      BY <2>1 DEF DeleteUpdates, RestoreUpdates, FileTypeOK
    <3>3. \A d \in Call : calls[d].pc = "dropping" => calls'[d] = calls[d]
      BY <2>1 DEF DeleteUpdates, RestoreUpdates, CallAnswers, FileTypeOK
    <3> QED BY <1>a, <1>b, <3>1, <3>2, <3>3
  <2>2. CASE RestoreChecks(c) \/ DownloadLooks(c) \/ DownloadOpens(c)
    <3>1. UNCHANGED <<disk, rows, uploads, failures>>
      BY <2>2 DEF RestoreChecks, DownloadLooks, FileIsThere, DownloadOpens, CallAnswers, storeVars
    <3>2. \A d \in Call : calls[d].pc = "dropping" => calls'[d] = calls[d]
      BY <2>2 DEF RestoreChecks, DownloadLooks, FileIsThere, DownloadOpens, CallAnswers, FileTypeOK
    <3> QED BY <1>c, <3>1, <3>2
  <2>3. CASE DownloadBreaks(c)
    BY <2>3, <1>f, FileAssumption DEF DownloadBreaks
  <2>4. ASSUME NEW f \in File, SweepUnlinks(c, f) PROVE RowsAndFilesMatch'
    <3>1. calls'[c].pc = "dropping" /\ calls'[c].file = f
      BY <2>4 DEF SweepUnlinks, FileTypeOK
    <3>2. disk'[f] = "none" /\ \A g \in File \ {f} : disk'[g] = disk[g]
      BY <2>4 DEF SweepUnlinks, FileTypeOK
    <3>3. \A d \in Call : calls[d].pc = "dropping" => calls'[d] = calls[d]
      BY <2>4 DEF SweepUnlinks, FileTypeOK
    <3>4. UNCHANGED <<rows, uploads, failures>>
      BY <2>4 DEF SweepUnlinks
    <3> QED BY <1>a, <1>b, <3>1, <3>2, <3>3, <3>4
  <2>5. CASE SweepDrops(c)
    <3>1. calls[c].file \in File /\ disk[calls[c].file] = "none"
      BY <2>5 DEF SweepDrops, FileInv, CallInv, FileTypeOK
    <3>2. UNCHANGED <<disk, uploads, failures>> /\ rows'[calls[c].file] = "none"
          /\ \A g \in File \ {calls[c].file} : rows'[g] = rows[g]
      BY <2>5, <3>1 DEF SweepDrops, FileTypeOK
    <3>3. \A d \in Call \ {c} : calls'[d] = calls[d]
      BY <2>5 DEF SweepDrops, FileTypeOK
    <3> QED BY <1>a, <1>b, <3>1, <3>2, <3>3
  <2> QED BY <1>3, <2>1, <2>2, <2>3, <2>4, <2>5 DEF CallGoesOn
<1>4. ASSUME NEW c \in Call, SweepDropFails(c) \/ \E f \in File : SweepUnlinkFails(c, f)
      PROVE  RowsAndFilesMatch'
  BY <1>4, <1>f DEF SweepDropFails, SweepUnlinkFails
<1>5. CASE Restart
  BY <1>5, <1>f DEF Restart
<1>6. CASE FileTick
  BY <1>6, <1>c DEF FileTick
<1>7. CASE UNCHANGED fileVars
  BY <1>7, <1>c DEF fileVars, storeVars
<1>8. ASSUME NEW c \in Call, EmptyStarts(c) \/ CleanerStarts(c) PROVE RowsAndFilesMatch'
  <2>1. PICK f \in File : f \in Trash
    BY <1>8 DEF EmptyStarts, CleanerStarts, Trash
  <2> QED BY <1>2, <1>8
<1> QED BY <1>1, <1>2, <1>3, <1>4, <1>5, <1>6, <1>7, <1>8, FileAssumption DEF FileNext

\* Until something fails, a row without a file is being removed and a file without a
\* row is being uploaded.
THEOREM RowsMatchFiles == FileSpec => []RowsAndFilesMatch
<1>1. FileInit => RowsAndFilesMatch
  BY DEF FileInit, RowsAndFilesMatch
<1>2. FileTypeOK /\ FileInv /\ FileTypeOK' /\ RowsAndFilesMatch /\ [FileNext]_fileVars
      => RowsAndFilesMatch'
  BY MatchStep
<1> QED BY <1>1, <1>2, FileInvariant, PTL DEF FileSpec

-----------------------------------------------------------------------------
\* What counts against the limit, now or once its upload is done.
Held == {f \in File : disk[f] = "full" /\ (rows[f] # "none" \/ uploads[f].pc = "summing")}

\* The sum of an upload has, or will have, all of A in it.
Sees(f, A) == uploads[f].pc = "summing" /\ A \subseteq uploads[f].listed \cup uploads[f].counted

\* Of several files the one that listed the directory last saw the others; nothing
\* else is left of the order in which they did.
LimitInv ==
  missed \/ \A A \in SUBSET Held : Cardinality(A) <= Limit \/ \E f \in A : Sees(f, A)

\* A step that holds no more files, and goes on with every sum, keeps it.
LEMMA LimitCarries ==
  ASSUME LimitInv, UNCHANGED missed, Held' \subseteq Held,
         \A f \in Held', A \in SUBSET Held' : Sees(f, A) => Sees(f, A)'
  PROVE  LimitInv'
BY DEF LimitInv

\* A new file that finds the sum within the limit is within it with all it was seen with.
LEMMA LimitUploadSteps ==
  ASSUME FileTypeOK, FileInv, LimitInv, NEW f \in File,
         \/ UploadStarts(f) \/ UploadGoesOn(f) \/ UploadBreaks(f) \/ RefuseUploadFails(f)
  PROVE  LimitInv'
<1> USE DEF UploadStep, storeVars, history
<1>n. uploads[f].pc # "over" => rows[f] = "none"
  BY DEF FileInv, UploadInv, RowInv, FileTypeOK
\* The file is not held before or after.
<1>o. ASSUME \A g \in File \ {f} : /\ disk'[g] = disk[g] /\ rows'[g] = rows[g]
                                   /\ uploads'[g] = uploads[g],
             rows'[f] = "none", uploads'[f].pc # "summing", UNCHANGED missed
      PROVE  LimitInv'
  <2>1. f \notin Held' /\ Held' \subseteq Held
    BY <1>o DEF Held
  <2> QED BY <1>o, <2>1, LimitCarries DEF Sees, Held
<1>1. CASE UploadStarts(f) \/ UploadWritten(f) \/ UploadDiscarded(f) \/ RefuseUpload(f)
  <2>1. /\ \A g \in File \ {f} : disk'[g] = disk[g] /\ rows'[g] = rows[g] /\ uploads'[g] = uploads[g]
        /\ rows'[f] = "none" /\ uploads'[f].pc # "summing" /\ UNCHANGED missed
    BY <1>1, <1>n DEF UploadStarts, UploadWritten, UploadDiscarded, RefuseUpload, FileTypeOK
  <2> QED BY <1>o, <2>1
<1>2. CASE UploadBreaks(f) \/ RefuseUploadFails(f)
  <2>1. /\ \A g \in File \ {f} : disk'[g] = disk[g] /\ rows'[g] = rows[g] /\ uploads'[g] = uploads[g]
        /\ rows'[f] = "none" /\ uploads'[f].pc # "summing" /\ UNCHANGED missed
    BY <1>2, <1>n DEF UploadBreaks, RefuseUploadFails, FileTypeOK
  <2> QED BY <1>o, <2>1
<1>s. ASSUME NEW l \in SUBSET File, NEW k \in SUBSET File, Summing(f, l, k)
      PROVE  /\ uploads'[f] = [pc |-> "summing", listed |-> l, counted |-> k]
             /\ \A g \in File \ {f} : uploads'[g] = uploads[g]
             /\ UNCHANGED <<disk, rows>> /\ Held' \subseteq Held \cup {f}
  <2>1. /\ uploads'[f] = [pc |-> "summing", listed |-> l, counted |-> k]
        /\ \A g \in File \ {f} : uploads'[g] = uploads[g]
        /\ UNCHANGED <<disk, rows>>
    BY <1>s DEF Summing, FileTypeOK
  <2> QED BY <2>1 DEF Held
<1>3. CASE ListUploads(f)
  <2>1. /\ uploads'[f] = [pc |-> "summing", listed |-> OnDisk, counted |-> {}]
        /\ \A g \in File \ {f} : uploads'[g] = uploads[g]
        /\ UNCHANGED <<disk, rows, missed>> /\ Held' \subseteq Held \cup {f}
    BY <1>3, <1>s DEF ListUploads, OnDisk
  <2> SUFFICES ASSUME ~ missed, NEW A \in SUBSET Held', ~ Cardinality(A) <= Limit
               PROVE  \E g \in A : Sees(g, A)'
    BY <2>1 DEF LimitInv
  <2>2. CASE f \in A
    <3>1. A \subseteq OnDisk
      BY <2>1 DEF Held, OnDisk
    <3> QED BY <2>1, <2>2, <3>1 DEF Sees
  <2>3. CASE f \notin A
    <3>1. A \in SUBSET Held /\ A \subseteq File \ {f}
      BY <2>1, <2>3 DEF Held
    <3>2. PICK g \in A : Sees(g, A)
      BY <3>1 DEF LimitInv
    <3> QED BY <2>1, <3>1, <3>2 DEF Sees
  <2> QED BY <2>2, <2>3
<1>4. ASSUME NEW g \in File, StatUpload(f, g) PROVE LimitInv'
  <2> SUFFICES ASSUME ~ missed' PROVE LimitInv'
    BY DEF LimitInv
  <2>1. /\ uploads[f].pc = "summing" /\ UNCHANGED missed
        /\ \E k \in SUBSET File :
             /\ Summing(f, uploads[f].listed \ {g}, k)
             /\ k = uploads[f].counted \cup {g} \/ (disk[g] = "partial" /\ k = uploads[f].counted)
    <3>1. uploads[f].counted \cup {g} \in SUBSET File /\ uploads[f].counted \in SUBSET File
      BY DEF FileTypeOK
    <3> QED BY <1>4, <3>1 DEF StatUpload
  <2>2. PICK k \in SUBSET File :
          /\ Summing(f, uploads[f].listed \ {g}, k)
          /\ k = uploads[f].counted \cup {g} \/ (disk[g] = "partial" /\ k = uploads[f].counted)
    BY <2>1
  <2>3. /\ uploads'[f] = [pc |-> "summing", listed |-> uploads[f].listed \ {g}, counted |-> k]
        /\ \A h \in File \ {f} : uploads'[h] = uploads[h]
        /\ UNCHANGED <<disk, rows>>
    <3>1. uploads[f].listed \ {g} \in SUBSET File
      BY DEF FileTypeOK
    <3> QED BY <1>s, <2>2, <3>1
  <2>4. Held' = Held
    BY <2>1, <2>3 DEF Held
  <2>5. ASSUME NEW h \in Held, NEW A \in SUBSET Held, Sees(h, A) PROVE Sees(h, A)'
    <3>1. g \in A => disk[g] = "full"
      BY DEF Held
    <3>2. CASE h = f
      BY <2>2, <2>3, <2>5, <3>1, <3>2 DEF Sees
    <3>3. CASE h # f
      BY <2>3, <2>5, <3>3 DEF Sees, Held
    <3> QED BY <3>2, <3>3
  <2> QED BY <2>1, <2>4, <2>5, LimitCarries
<1>5. CASE CreateRow(f)
  <2>1. /\ uploads[f].pc = "summing" /\ disk[f] = "full"
        /\ uploads[f].listed = {} /\ ~ OverLimit(f) /\ UNCHANGED <<disk, missed>>
        /\ \A g \in File \ {f} : rows'[g] = rows[g] /\ uploads'[g] = uploads[g]
    BY <1>5 DEF CreateRow, FileTypeOK, FileInv, UploadInv
  <2>2. Held' \subseteq Held
    BY <2>1 DEF Held
  <2> SUFFICES ASSUME ~ missed, NEW A \in SUBSET Held', ~ Cardinality(A) <= Limit
               PROVE  \E g \in A : Sees(g, A)'
    BY <2>1 DEF LimitInv
  <2>3. PICK g \in A : Sees(g, A)
    BY <2>2 DEF LimitInv
  <2>4. g # f
    <3> SUFFICES ASSUME g = f PROVE FALSE
      OBVIOUS
    <3>1. A \subseteq uploads[f].counted /\ uploads[f].counted \subseteq File
      BY <2>1, <2>3 DEF Sees, FileTypeOK
    <3>2. Cardinality(A) <= Cardinality(uploads[f].counted)
      BY <3>1, FileAssumption, FS_Subset
    <3>3. Cardinality(A) \in Nat /\ Cardinality(uploads[f].counted) \in Nat /\ Limit \in Nat
      BY <3>1, FileAssumption, FS_Subset, FS_CardinalityType
    <3> QED BY <2>1, <3>2, <3>3 DEF OverLimit
  <2>5. g \in File
    BY DEF Held
  <2> QED BY <2>1, <2>3, <2>4, <2>5 DEF Sees
<1> QED BY <1>1, <1>2, <1>3, <1>4, <1>5 DEF UploadGoesOn

\* A request takes no row and no file into account that was not, and stops no sum.
LEMMA LimitOtherSteps ==
  ASSUME FileTypeOK, FileInv, LimitInv, UNCHANGED <<uploads, missed>>,
         \A f \in File : /\ disk'[f] = "full" => disk[f] = "full"
                         /\ rows'[f] # "none" => rows[f] # "none"
  PROVE  LimitInv'
<1>1. Held' \subseteq Held
  BY DEF Held
<1> QED BY <1>1, LimitCarries DEF Sees

\* After a restart no upload is under way, and nobody need see the files there are.
LEMMA LimitForget ==
  ASSUME FileTypeOK, FileInv, LimitInv, Forget
  PROVE  LimitInv'
<1>1. /\ UNCHANGED <<disk, rows, missed>>
      /\ \A f \in File : uploads'[f].pc # "summing"
  BY DEF Forget, storeVars, history, FileTypeOK
<1>2. \A f \in Held' : f \in Held /\ uploads[f].pc # "summing"
  BY <1>1 DEF Held, FileInv, UploadInv, RowInv, FileTypeOK
<1>3. \A f \in Held', A \in SUBSET Held' : Sees(f, A) => Sees(f, A)'
  BY <1>2 DEF Sees
<1> QED BY <1>1, <1>2, <1>3, LimitCarries

LEMMA LimitStep ==
  ASSUME FileTypeOK, FileInv, LimitInv, [FileNext]_fileVars
  PROVE  LimitInv'
<1>1. ASSUME NEW f \in File,
             \/ UploadStarts(f) \/ UploadGoesOn(f) \/ UploadBreaks(f) \/ RefuseUploadFails(f)
      PROVE  LimitInv'
  BY <1>1, LimitUploadSteps
<1>2. ASSUME NEW c \in Call, NEW f \in File,
             \/ DeleteStarts(c, f) \/ RestoreStarts(c, f) \/ DownloadStarts(c, f)
             \/ RemoveStarts(c, f) \/ EmptyStarts(c) \/ CleanerStarts(c)
      PROVE  LimitInv'
  BY <1>2, StartSteps, LimitOtherSteps DEF storeVars, history
<1>3. ASSUME NEW c \in Call, EmptyStarts(c) \/ CleanerStarts(c) PROVE LimitInv'
  <2>1. PICK f \in File : f \in Trash
    BY <1>3 DEF EmptyStarts, CleanerStarts, Trash
  <2> QED BY <1>2, <1>3
<1>4. ASSUME NEW c \in Call, CallGoesOn(c) PROVE LimitInv'
  <2>1. CASE DeleteUpdates(c) \/ RestoreUpdates(c)
    BY <2>1, LimitOtherSteps DEF DeleteUpdates, RestoreUpdates, CallAnswers, history, FileTypeOK
  <2>2. CASE RestoreChecks(c) \/ DownloadLooks(c) \/ DownloadOpens(c)
    BY <2>2, LimitOtherSteps
       DEF RestoreChecks, DownloadLooks, FileIsThere, DownloadOpens, CallAnswers, storeVars, history
  <2>3. CASE DownloadBreaks(c)
    BY <2>3, LimitForget DEF DownloadBreaks
  <2>4. ASSUME NEW f \in File, SweepUnlinks(c, f) PROVE LimitInv'
    BY <2>4, LimitOtherSteps DEF SweepUnlinks, history, FileTypeOK
  <2>5. CASE SweepDrops(c)
    BY <2>5, LimitOtherSteps DEF SweepDrops, history, FileTypeOK
  <2> QED BY <1>4, <2>1, <2>2, <2>3, <2>4, <2>5 DEF CallGoesOn
<1>5. ASSUME NEW c \in Call, SweepDropFails(c) \/ \E f \in File : SweepUnlinkFails(c, f)
      PROVE  LimitInv'
  BY <1>5, LimitOtherSteps DEF SweepDropFails, SweepUnlinkFails, storeVars, history
<1>6. CASE Restart
  BY <1>6, LimitForget DEF Restart
<1>7. CASE FileTick
  BY <1>7, LimitOtherSteps DEF FileTick, history
<1>8. CASE UNCHANGED fileVars
  BY <1>8, LimitOtherSteps DEF fileVars, storeVars, history
<1> QED BY <1>1, <1>2, <1>3, <1>4, <1>5, <1>6, <1>7, <1>8, FileAssumption DEF FileNext

\* However many uploads run at the same time, the files kept are within the limit,
\* unless a file vanished under a sum (createFileRecord, getUploadsDirectorySize).
THEOREM LimitIsKept == FileSpec => []LimitHoldsUnlessMissed
<1>1. FileInit => LimitInv
  <2> SUFFICES ASSUME FileInit PROVE LimitInv
    OBVIOUS
  <2>1. Held = {}
    BY DEF FileInit, Held
  <2>2. \A A \in SUBSET Held : Cardinality(A) <= Limit
    BY <2>1, FS_EmptySet, FileAssumption
  <2> QED BY <2>2 DEF LimitInv
<1>2. FileTypeOK /\ FileInv /\ LimitInv /\ [FileNext]_fileVars => LimitInv'
  BY LimitStep
<1>3. FileTypeOK /\ FileInv /\ LimitInv => LimitHoldsUnlessMissed
  <2> SUFFICES ASSUME FileTypeOK, FileInv, LimitInv, ~ missed PROVE WithinLimit
    BY DEF LimitHoldsUnlessMissed
  <2> DEFINE A == {f \in File : rows[f] # "none" /\ disk[f] = "full"}
  <2>1. A \in SUBSET Held
    BY DEF Held
  <2>2. \A f \in A : uploads[f].pc # "summing"
    BY DEF FileInv, UploadInv, RowInv, FileTypeOK
  <2> QED BY <2>1, <2>2 DEF LimitInv, Sees, WithinLimit
<1> QED BY <1>1, <1>2, <1>3, FileInvariant, PTL DEF FileSpec

-----------------------------------------------------------------------------
\* A step that touches no row and no recorded file, and claims what was claimed, is not
\* seen by TrashBin.
LEMMA BinUnseen ==
  ASSUME UNCHANGED <<rows, recorded>>, \A f \in recorded : disk'[f] = disk[f],
         \A c \in Call : Claims(c)' = Claims(c)
  PROVE  UNCHANGED <<Entry, Data, Claimed>>
BY DEF Entry, Data, Claimed

\* A step that only shortens lists gives claims up.
LEMMA BinGivesUp ==
  ASSUME UNCHANGED <<rows, disk, recorded>>, \A c \in Call : Claims(c)' \subseteq Claims(c)
  PROVE  Bin!GiveUp
<1>1. UNCHANGED <<Entry, Data>>
  BY DEF Entry, Data
<1>2. Claimed' \subseteq Claimed
  BY DEF Claimed
<1> QED BY <1>1, <1>2 DEF Bin!GiveUp

\* A call that goes from one step without claims to another changes no claims.
LEMMA NoClaims ==
  ASSUME FileTypeOK, NEW c \in Call, NEW next, calls' = [calls EXCEPT ![c] = next],
         calls[c].pc \notin {"sweeping", "dropping"}, next.pc \notin {"sweeping", "dropping"}
  PROVE  \A d \in Call : Claims(d)' = Claims(d)
BY DEF FileTypeOK, Claims

\* Uploads: a row is created for a file that never had one, with its data.
LEMMA BinUploadSteps ==
  ASSUME FileTypeOK, FileInv, NEW f \in File,
         \/ UploadStarts(f) \/ UploadGoesOn(f) \/ UploadBreaks(f) \/ RefuseUploadFails(f)
  PROVE  Bin!Add(f) \/ UNCHANGED <<Entry, Data, Claimed>>
<1> USE DEF UploadStep, storeVars, history
<1>1. UNCHANGED calls /\ \A c \in Call : Claims(c)' = Claims(c)
  BY DEF UploadStarts, UploadGoesOn, UploadWritten, UploadDiscarded, ListUploads, StatUpload, Summing,
         CreateRow, RefuseUpload, UploadBreaks, RefuseUploadFails, Claims
<1>2. CASE CreateRow(f)
  <2>1. f \notin recorded /\ disk[f] = "full" /\ rows[f] = "none"
    BY <1>2 DEF CreateRow, FileInv, UploadInv, RowInv
  <2>2. /\ rows' = [rows EXCEPT ![f] = "live"] /\ recorded' = recorded \cup {f}
        /\ UNCHANGED disk
    BY <1>2 DEF CreateRow
  <2>3. Entry[f] = "absent" /\ Entry' = [Entry EXCEPT ![f] = "live"]
    BY <2>1, <2>2 DEF Entry, FileTypeOK
  <2>4. Data' = Data \cup {f} /\ UNCHANGED Claimed
    BY <1>1, <2>1, <2>2 DEF Data, Claimed
  <2> QED BY <2>3, <2>4 DEF Bin!Add
<1>3. CASE ~ CreateRow(f)
  <2>1. UNCHANGED <<rows, recorded>>
    BY <1>3 DEF UploadStarts, UploadGoesOn, UploadWritten, UploadDiscarded, ListUploads, StatUpload,
                Summing, RefuseUpload, UploadBreaks, RefuseUploadFails
  <2>2. \A g \in recorded : disk'[g] = disk[g]
    BY <1>3 DEF UploadStarts, UploadGoesOn, UploadWritten, UploadDiscarded, ListUploads, StatUpload,
                Summing, RefuseUpload, UploadBreaks, RefuseUploadFails, FileTypeOK, FileInv, UploadInv
  <2> QED BY <1>1, <2>1, <2>2, BinUnseen
<1> QED BY <1>2, <1>3

\* A sweep that starts claims files that are in the trash; no other request claims any.
LEMMA BinStartSteps ==
  ASSUME FileTypeOK, NEW c \in Call, NEW f \in File,
         \/ DeleteStarts(c, f) \/ RestoreStarts(c, f) \/ DownloadStarts(c, f)
         \/ RemoveStarts(c, f) \/ EmptyStarts(c) \/ CleanerStarts(c)
  PROVE  \/ \E files \in SUBSET File : Bin!Claim(files)
         \/ UNCHANGED <<Entry, Data, Claimed>>
<1>1. UNCHANGED <<disk, rows, recorded>>
  BY StartSteps DEF storeVars, history
<1>2. CASE DeleteStarts(c, f) \/ RestoreStarts(c, f) \/ DownloadStarts(c, f)
  <2>1. PICK pc \in {"deleting", "checking", "found"} : CallStarts(c, pc, f, {})
    BY <1>2 DEF DeleteStarts, RestoreStarts, DownloadStarts
  <2> DEFINE next == [pc |-> pc, file |-> f, todo |-> {}]
  <2>2. /\ calls' = [calls EXCEPT ![c] = next] /\ calls[c].pc = "idle"
        /\ next.pc \notin {"sweeping", "dropping"}
    BY <2>1 DEF CallStarts, Idle
  <2> HIDE DEF next
  <2>3. \A d \in Call : Claims(d)' = Claims(d)
    BY <2>2, NoClaims
  <2> QED BY <1>1, <2>3, BinUnseen
<1>3. CASE RemoveStarts(c, f) \/ EmptyStarts(c) \/ CleanerStarts(c)
  <2>1. PICK todo \in SUBSET Trash : CallStarts(c, "sweeping", NoFile, todo)
    BY <1>3 DEF RemoveStarts, EmptyStarts, CleanerStarts
  <2>2. Claims(c) = {} /\ Claims(c)' = todo /\ \A d \in Call \ {c} : Claims(d)' = Claims(d)
    BY <2>1 DEF CallStarts, Idle, Claims, FileTypeOK
  <2>3. Claimed' = Claimed \cup todo
    BY <2>2 DEF Claimed
  <2>4. \A g \in todo : Entry[g] = "trash"
    BY DEF Trash, Entry
  <2>5. UNCHANGED <<Entry, Data>> /\ todo \in SUBSET File
    BY <1>1 DEF Entry, Data, Trash
  <2>6. Bin!Claim(todo)
    BY <2>3, <2>4, <2>5 DEF Bin!Claim
  <2> QED BY <2>5, <2>6
<1> QED BY <1>2, <1>3

\* Requests that go on: into the trash, out of it, data first and then the entry.
LEMMA BinCallSteps ==
  ASSUME FileTypeOK, FileInv, NEW c \in Call,
         \/ CallGoesOn(c) \/ SweepDropFails(c)
         \/ \E f \in File : SweepUnlinkFails(c, f)
  PROVE  \/ \E f \in File : Bin!PutInTrash(f) \/ Bin!TakeOut(f) \/ Bin!Shred(f) \/ Bin!Remove(f)
         \/ Bin!GiveUp \/ UNCHANGED <<Entry, Data, Claimed>>
<1>0. recorded \subseteq File /\ trashed \subseteq recorded
  BY DEF FileTypeOK, FileInv, RowInv
<1>1. CASE DeleteUpdates(c) \/ RestoreUpdates(c)
  <2> DEFINE f == calls[c].file
  <2>1. f \in File /\ f \in recorded
    BY <1>0, <1>1 DEF DeleteUpdates, RestoreUpdates, FileInv, CallInv
  <2>2. \A d \in Call : Claims(d)' = Claims(d)
    BY <1>1, NoClaims DEF DeleteUpdates, RestoreUpdates, CallAnswers, Idle
  <2>3. UNCHANGED <<disk, recorded>>
    BY <1>1 DEF DeleteUpdates, RestoreUpdates, history
  <2>4. UNCHANGED Data /\ UNCHANGED Claimed
    BY <2>2, <2>3 DEF Data, Claimed
  <2>5. CASE UNCHANGED rows
    BY <2>2, <2>3, <2>5, BinUnseen
  <2>6. CASE rows[f] = "live" /\ rows' = [rows EXCEPT ![f] = "trash"]
    <3>1. Entry[f] = "live" /\ Entry' = [Entry EXCEPT ![f] = "trash"]
      BY <2>1, <2>3, <2>6 DEF Entry, FileTypeOK
    <3> QED BY <2>1, <2>4, <3>1 DEF Bin!PutInTrash
  <2>7. CASE rows[f] = "trash" /\ rows' = [rows EXCEPT ![f] = "live"]
    <3>1. Entry[f] = "trash" /\ Entry' = [Entry EXCEPT ![f] = "live"]
      BY <2>1, <2>3, <2>7 DEF Entry, FileTypeOK
    <3> QED BY <2>1, <2>4, <3>1 DEF Bin!TakeOut
  <2>8. rows[f] \in {"none", "live", "trash"} /\ rows \in [File -> {"none", "live", "trash"}]
    BY <2>1 DEF FileTypeOK
  <2>9. \/ UNCHANGED rows
        \/ rows[f] = "live" /\ rows' = [rows EXCEPT ![f] = "trash"]
        \/ rows[f] = "trash" /\ rows' = [rows EXCEPT ![f] = "live"]
    <3>1. CASE DeleteUpdates(c)
      BY <2>8, <3>1 DEF DeleteUpdates
    <3>2. CASE RestoreUpdates(c)
      BY <2>8, <3>2 DEF RestoreUpdates
    <3> QED BY <1>1, <3>1, <3>2
  <2> QED BY <2>5, <2>6, <2>7, <2>9
<1>2. CASE RestoreChecks(c) \/ DownloadLooks(c) \/ DownloadOpens(c)
  <2>1. UNCHANGED <<disk, rows, recorded>>
    BY <1>2 DEF RestoreChecks, DownloadLooks, FileIsThere, DownloadOpens, storeVars, history
  <2>2. \A d \in Call : Claims(d)' = Claims(d)
    <3>1. CASE RestoreChecks(c) \/ DownloadLooks(c)
      <4>1. PICK pc \in {"restoring", "opening"} : FileIsThere(c, pc)
        BY <3>1 DEF RestoreChecks, DownloadLooks
      <4> DEFINE f == calls[c].file
                 next == IF disk[f] = "none" THEN Idle ELSE [pc |-> pc, file |-> f, todo |-> {}]
      <4>2. /\ calls' = [calls EXCEPT ![c] = next]
            /\ next.pc \notin {"sweeping", "dropping"}
        BY <4>1 DEF FileIsThere, Idle
      <4>3. calls[c].pc \in {"checking", "found"}
        BY <3>1 DEF RestoreChecks, DownloadLooks
      <4> HIDE DEF next
      <4> QED BY <4>2, <4>3, NoClaims
    <3>2. CASE DownloadOpens(c)
      BY <3>2, NoClaims DEF DownloadOpens, CallAnswers, Idle
    <3> QED BY <1>2, <3>1, <3>2
  <2> QED BY <2>1, <2>2, BinUnseen
<1>3. CASE DownloadBreaks(c)
  <2>1. UNCHANGED <<disk, rows, recorded>> /\ \A d \in Call : Claims(d)' = {}
    BY <1>3 DEF DownloadBreaks, Forget, Claims, Idle, storeVars, history
  <2> QED BY <2>1, BinGivesUp
<1>4. ASSUME NEW f \in File, SweepUnlinks(c, f) PROVE Bin!Shred(f)
  <2>1. f \in Claims(c) /\ f \in Claimed
    BY <1>4 DEF SweepUnlinks, Claims, Claimed
  <2>2. \A d \in Call : Claims(d)' = Claims(d)
    <3>1. Claims(c) = calls[c].todo /\ f \in calls[c].todo
      BY <1>4 DEF SweepUnlinks, Claims
    <3>2. /\ calls'[c] = [pc |-> "dropping", file |-> f, todo |-> calls[c].todo \ {f}]
          /\ \A d \in Call \ {c} : calls'[d] = calls[d]
      BY <1>4 DEF SweepUnlinks, FileTypeOK
    <3>3. Claims(c)' = (calls[c].todo \ {f}) \cup {f}
      BY <3>2 DEF Claims
    <3>4. \A d \in Call \ {c} : Claims(d)' = Claims(d)
      BY <3>2 DEF Claims
    <3> QED BY <3>1, <3>3, <3>4
  <2>3. UNCHANGED <<rows, recorded>> /\ disk' = [disk EXCEPT ![f] = "none"]
    BY <1>4 DEF SweepUnlinks, history
  <2>4. Data' = Data \ {f}
    BY <1>0, <2>3 DEF Data, FileTypeOK
  <2>5. UNCHANGED <<Entry, Claimed>>
    BY <2>2, <2>3 DEF Entry, Claimed
  <2> QED BY <2>1, <2>4, <2>5 DEF Bin!Shred
\* What is left of a sweep after one of its files.
<1>5. ASSUME NEW todo \in SUBSET calls[c].todo, calls[c].pc \in {"sweeping", "dropping"},
             calls' = [calls EXCEPT ![c] = Continued(c, todo)]
      PROVE  Claims(c)' = todo /\ \A d \in Call \ {c} : Claims(d)' = Claims(d)
  <2>1. calls'[c] = Continued(c, todo) /\ \A d \in Call \ {c} : calls'[d] = calls[d]
    BY <1>5 DEF FileTypeOK
  <2> QED BY <2>1 DEF Continued, Claims, Idle
<1>6. CASE SweepDrops(c)
  <2> DEFINE f == calls[c].file
  <2>1. f \in File /\ f \in recorded /\ disk[f] = "none" /\ f \notin Data
    BY <1>0, <1>6 DEF SweepDrops, FileInv, CallInv, Data
  <2>2. Claims(c) = calls[c].todo \cup {f}
    BY <1>6 DEF SweepDrops, Claims
  <2>3. Claims(c)' = calls[c].todo /\ \A d \in Call \ {c} : Claims(d)' = Claims(d)
    BY <1>5, <1>6 DEF SweepDrops
  <2>4. f \in Claimed /\ Claimed' \cup {f} = Claimed
    BY <2>2, <2>3 DEF Claimed
  <2>5. rows' = [rows EXCEPT ![f] = "none"] /\ UNCHANGED <<disk, recorded>>
    BY <1>6 DEF SweepDrops, history
  <2>6. Entry' = [Entry EXCEPT ![f] = "gone"]
    BY <2>1, <2>5 DEF Entry, FileTypeOK
  <2>7. UNCHANGED Data
    BY <2>5 DEF Data
  <2> HIDE DEF f
  <2>8. Claimed' \in {Claimed, Claimed \ {f}}
    BY <2>4
  <2> QED BY <2>1, <2>4, <2>6, <2>7, <2>8 DEF Bin!Remove
<1>7. CASE SweepDropFails(c)
  <2>1. Claims(c) = calls[c].todo \cup {calls[c].file}
    BY <1>7 DEF SweepDropFails, Claims
  <2>2. Claims(c)' = calls[c].todo /\ \A d \in Call \ {c} : Claims(d)' = Claims(d)
    BY <1>5, <1>7 DEF SweepDropFails
  <2>3. UNCHANGED <<disk, rows, recorded>>
    BY <1>7 DEF SweepDropFails, storeVars, history
  <2> QED BY <2>1, <2>2, <2>3, BinGivesUp
<1>8. ASSUME NEW f \in File, SweepUnlinkFails(c, f) PROVE Bin!GiveUp
  <2>1. Claims(c) = calls[c].todo
    BY <1>8 DEF SweepUnlinkFails, Claims
  <2>2. Claims(c)' = calls[c].todo \ {f} /\ \A d \in Call \ {c} : Claims(d)' = Claims(d)
    BY <1>5, <1>8 DEF SweepUnlinkFails
  <2>3. UNCHANGED <<disk, rows, recorded>>
    BY <1>8 DEF SweepUnlinkFails, storeVars, history
  <2> QED BY <2>1, <2>2, <2>3, BinGivesUp
<1> QED BY <1>1, <1>2, <1>3, <1>4, <1>6, <1>7, <1>8 DEF CallGoesOn

LEMMA BinStep ==
  ASSUME FileTypeOK, FileInv, [FileNext]_fileVars
  PROVE  Bin!BinNext \/ UNCHANGED <<Entry, Data, Claimed>>
<1> USE DEF Bin!BinNext
<1>1. ASSUME NEW f \in File,
             \/ UploadStarts(f) \/ UploadGoesOn(f) \/ UploadBreaks(f) \/ RefuseUploadFails(f)
      PROVE  Bin!BinNext \/ UNCHANGED <<Entry, Data, Claimed>>
  BY <1>1, BinUploadSteps
<1>2. ASSUME NEW c \in Call, NEW f \in File,
             \/ DeleteStarts(c, f) \/ RestoreStarts(c, f) \/ DownloadStarts(c, f)
             \/ RemoveStarts(c, f) \/ EmptyStarts(c) \/ CleanerStarts(c)
      PROVE  Bin!BinNext \/ UNCHANGED <<Entry, Data, Claimed>>
  BY <1>2, BinStartSteps
<1>3. ASSUME NEW c \in Call, EmptyStarts(c) \/ CleanerStarts(c)
      PROVE  Bin!BinNext \/ UNCHANGED <<Entry, Data, Claimed>>
  <2>1. PICK f \in File : f \in Trash
    BY <1>3 DEF EmptyStarts, CleanerStarts, Trash
  <2> QED BY <1>2, <1>3
<1>4. ASSUME NEW c \in Call,
             \/ CallGoesOn(c) \/ SweepDropFails(c)
             \/ \E f \in File : SweepUnlinkFails(c, f)
      PROVE  Bin!BinNext \/ UNCHANGED <<Entry, Data, Claimed>>
  BY <1>4, BinCallSteps
<1>5. CASE Restart
  <2>1. UNCHANGED <<disk, rows, recorded>> /\ \A d \in Call : Claims(d)' = {}
    BY <1>5 DEF Restart, Forget, Claims, Idle, storeVars, history
  <2> QED BY <2>1, BinGivesUp
<1>6. CASE FileTick \/ UNCHANGED fileVars
  <2>1. UNCHANGED <<disk, rows, recorded, calls>>
    BY <1>6 DEF FileTick, fileVars, storeVars, history
  <2>2. \A d \in Call : Claims(d)' = Claims(d)
    BY <2>1 DEF Claims
  <2> QED BY <2>1, <2>2, BinUnseen
<1> QED BY <1>1, <1>2, <1>3, <1>4, <1>5, <1>6, FileAssumption DEF FileNext

\* The file storage implements TrashBin, for any number of files, requests and failures
\* (deleteFileById, restoreTrashFileById, permanentlyDeleteTrashFileById, emptyTrash,
\* cleanExpiredTrashFiles, and the restarts between two of their steps).
THEOREM ImplementsBin == FileSpec => ImplementsTrashBin
<1>1. FileInit => Bin!BinInit
  BY DEF FileInit, Bin!BinInit, Entry, Data, Claimed, Claims, Idle
<1>2. FileTypeOK /\ FileInv /\ [FileNext]_fileVars => [Bin!BinNext]_(Bin!binVars)
  BY BinStep DEF Bin!binVars
<1> QED BY <1>1, <1>2, FileInvariant, PTL DEF FileSpec, ImplementsTrashBin, Bin!BinSpec
=============================================================================
