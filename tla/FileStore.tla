----------------------------- MODULE FileStore -----------------------------
(***************************************************************************)
(* Files over HTTP: the rows of fileRecord, the files of the upload        *)
(* directory, and the requests under way.  Every await of AppService ends  *)
(* a step, so requests interleave between a check and what relies on it;   *)
(* a step may fail, and the process may stop between two of them.  A file  *)
(* and its row are one value: the path is random and never used again.     *)
(* Sizes are counted in files.                                             *)
(***************************************************************************)
EXTENDS Naturals, FiniteSets

CONSTANTS
  File,          \* uploads, and the file and the row each may leave
  Call,          \* slots for requests on existing files
  CleanerCall,   \* the slots the cron job runs in
  NoFile,
  Limit,         \* UPLOADS_TOTAL_SIZE_LIMIT_BYTES, in files
  Retention,     \* FILE_TRASH_RETENTION_DAYS, in ticks
  MaxFailures    \* bound: how many operations fail before everything goes well

ASSUME FileAssumption ==
  /\ IsFiniteSet(File) /\ NoFile \notin File
  /\ CleanerCall \subseteq Call
  /\ Limit \in Nat
  /\ Retention \in Nat \ {0}
  /\ MaxFailures \in Nat \ {0}

VARIABLES
  disk,        \* the upload directory
  rows,        \* fileRecord: deletedAt is null ("live") or not ("trash")
  age,         \* ticks since deletedAt
  uploads,     \* POST /files/upload, one per file
  calls,       \* other requests, and runs of the cleaner
  failures,    \* what has failed so far
  recorded,    \* history: files that had a row
  trashed,     \* history: files that were in the trash
  missed       \* history: some sum of sizes met a file that had vanished

storeVars == <<disk, rows, age>>
history   == <<recorded, trashed, missed>>
fileVars  == <<storeVars, uploads, calls, failures, history>>

Idle == [pc |-> "idle", file |-> NoFile, todo |-> {}]

FileTypeOK ==
  /\ disk \in [File -> {"none", "partial", "full"}]
  /\ rows \in [File -> {"none", "live", "trash"}]
  /\ age \in [File -> 0..Retention]
  /\ uploads \in [File -> [pc      : {"none", "writing", "written", "summing", "over"},
                           listed  : SUBSET File,
                           counted : SUBSET File]]
  /\ calls \in [Call -> [pc   : {"idle", "deleting", "checking", "restoring",
                                 "sweeping", "dropping", "found", "opening"},
                         file : File \cup {NoFile},
                         todo : SUBSET File]]
  /\ failures \in 0..MaxFailures
  /\ recorded \subseteq File /\ trashed \subseteq File /\ missed \in BOOLEAN

FileInit ==
  /\ disk = [f \in File |-> "none"]
  /\ rows = [f \in File |-> "none"]
  /\ age = [f \in File |-> 0]
  /\ uploads = [f \in File |-> [pc |-> "none", listed |-> {}, counted |-> {}]]
  /\ calls = [c \in Call |-> Idle]
  /\ failures = 0
  /\ recorded = {} /\ trashed = {} /\ missed = FALSE

Fails == failures < MaxFailures /\ failures' = failures + 1
-----------------------------------------------------------------------------
\* Uploads: RateLimitedDiskStorage, then createFileRecord.
UploadStep(f, from, to) ==
  /\ uploads[f].pc = from
  /\ uploads' = [uploads EXCEPT ![f] = [pc |-> to, listed |-> {}, counted |-> {}]]
  /\ UNCHANGED calls

UploadStarts(f) ==
  /\ UploadStep(f, "none", "writing")
  /\ disk' = [disk EXCEPT ![f] = "partial"]
  /\ UNCHANGED <<rows, age, failures, history>>

UploadWritten(f) ==
  /\ UploadStep(f, "writing", "written")
  /\ disk' = [disk EXCEPT ![f] = "full"]
  /\ UNCHANGED <<rows, age, failures, history>>

\* Multer has cut the stream at the limit for a single file, and removes it:
\* the same check in createFileRecord never finds one too large.
UploadDiscarded(f) ==
  /\ UploadStep(f, "writing", "over")
  /\ disk' = [disk EXCEPT ![f] = "none"]
  /\ UNCHANGED <<rows, age, failures, history>>

\* The pipeline fails, and nobody removes what it wrote.
UploadBreaks(f) ==
  /\ UploadStep(f, "writing", "over")
  /\ Fails
  /\ UNCHANGED <<storeVars, history>>

\* The sum so far: files still to stat, files counted.
Summing(f, listed, counted) ==
  /\ uploads' = [uploads EXCEPT ![f] = [pc |-> "summing", listed |-> listed, counted |-> counted]]
  /\ UNCHANGED <<storeVars, calls, failures, recorded, trashed>>

OnDisk == {g \in File : disk[g] # "none"}

\* Mutant: the new file itself is not counted.
ListOtherUploads(f) ==
  uploads[f].pc = "written" /\ Summing(f, OnDisk \ {f}, {}) /\ UNCHANGED missed

\* getUploadsDirectorySize: readdir ...
ListUploads(f) ==
  uploads[f].pc = "written" /\ Summing(f, OnDisk, {}) /\ UNCHANGED missed

\* ... then stat, one after the other.  A partial file may still be empty; when
\* a file has vanished the sum is 0.
StatUpload(f, g) ==
  LET up == uploads[f]
  IN  /\ up.pc = "summing" /\ g \in up.listed
      /\ \/ disk[g] # "none" /\ Summing(f, up.listed \ {g}, up.counted \cup {g}) /\ UNCHANGED missed
         \/ disk[g] = "partial" /\ Summing(f, up.listed \ {g}, up.counted) /\ UNCHANGED missed
         \/ disk[g] = "none" /\ Summing(f, {}, {}) /\ missed' = TRUE

OverLimit(f) == Cardinality(uploads[f].counted) > Limit

\* The row is created.  Its url is set by a second update, and read by nobody.
CreateRow(f) ==
  /\ uploads[f].listed = {} /\ ~ OverLimit(f)
  /\ UploadStep(f, "summing", "over")
  /\ rows' = [rows EXCEPT ![f] = "live"]
  /\ recorded' = recorded \cup {f}
  /\ UNCHANGED <<disk, age, failures, trashed, missed>>

\* Over the limit, or the row could not be created: the file is removed.
RefuseUpload(f) ==
  /\ uploads[f].listed = {}
  /\ UploadStep(f, "summing", "over")
  /\ IF OverLimit(f) THEN UNCHANGED failures ELSE Fails
  /\ disk' = [disk EXCEPT ![f] = "none"]
  /\ UNCHANGED <<rows, age, history>>

\* It could not be removed either; or there is no sum, and nobody removes it.
RefuseUploadFails(f) ==
  /\ UploadStep(f, "summing", "over")
  /\ Fails
  /\ UNCHANGED <<storeVars, history>>
-----------------------------------------------------------------------------
\* Requests on files that have a row.
CallStarts(c, pc, f, todo) ==
  /\ calls[c] = Idle
  /\ calls' = [calls EXCEPT ![c] = [pc |-> pc, file |-> f, todo |-> todo]]
  /\ UNCHANGED <<storeVars, uploads, failures, history>>

\* A call goes on: the next file of its list, or it answers.
Continued(c, todo) ==
  IF todo = {} THEN Idle ELSE [pc |-> "sweeping", file |-> NoFile, todo |-> todo]

CallAnswers(c) == calls' = [calls EXCEPT ![c] = Idle] /\ UNCHANGED uploads

\* The file is looked for on disk: the call goes on, or answers with an error.
FileIsThere(c, next) ==
  LET f == calls[c].file
  IN  /\ calls' = [calls EXCEPT ![c] = IF disk[f] = "none" THEN Idle
                                       ELSE [pc |-> next, file |-> f, todo |-> {}]]
      /\ UNCHANGED <<storeVars, uploads, failures, history>>

\* deleteFileById: getFileById, then the update, which throws without a row.
DeleteStarts(c, f) == rows[f] = "live" /\ CallStarts(c, "deleting", f, {})

\* Mutant: a mark that no query asks for.
DeleteMarks(c) ==
  /\ calls[c].pc = "deleting"
  /\ rows' = [rows EXCEPT ![calls[c].file] = "deleted"]
  /\ CallAnswers(c)
  /\ UNCHANGED <<disk, age, failures, history>>

DeleteUpdates(c) ==
  LET f == calls[c].file
  IN  /\ calls[c].pc = "deleting"
      /\ IF rows[f] = "none" THEN UNCHANGED <<rows, age, trashed>>
         ELSE /\ rows' = [rows EXCEPT ![f] = "trash"]
              /\ age' = [age EXCEPT ![f] = 0]
              /\ trashed' = trashed \cup {f}
      /\ CallAnswers(c)
      /\ UNCHANGED <<disk, failures, recorded, missed>>

\* restoreTrashFileById: getTrashFileById, ensureFileExists, update.
RestoreStarts(c, f) == rows[f] = "trash" /\ CallStarts(c, "checking", f, {})

RestoreChecks(c) ==
  calls[c].pc = "checking" /\ FileIsThere(c, "restoring")

\* Mutant: an upsert, which brings back a row that was deleted meanwhile.
RestoreUpserts(c) ==
  /\ calls[c].pc = "restoring"
  /\ rows' = [rows EXCEPT ![calls[c].file] = "live"]
  /\ CallAnswers(c)
  /\ UNCHANGED <<disk, age, failures, history>>

RestoreUpdates(c) ==
  /\ calls[c].pc = "restoring"
  /\ rows' = [rows EXCEPT ![calls[c].file] = IF @ = "none" THEN @ ELSE "live"]
  /\ CallAnswers(c)
  /\ UNCHANGED <<disk, age, failures, history>>

\* downloadFile: getFileById, then access and stat, taken as one step.  A path is never
\* used again, so both succeed exactly when the second does; which of them fails
\* (ensureFileExists answers 404, stat 500) is not told apart.
DownloadStarts(c, f) == rows[f] = "live" /\ CallStarts(c, "found", f, {})

DownloadLooks(c) ==
  calls[c].pc = "found" /\ FileIsThere(c, "opening")

DownloadOpens(c) ==
  /\ calls[c].pc = "opening"
  /\ disk[calls[c].file] # "none"
  /\ CallAnswers(c)
  /\ UNCHANGED <<storeVars, failures, history>>

\* permanentlyDeleteTrashFileById, emptyTrash and cleanExpiredTrashFiles read the
\* rows first and then remove file and row of each, one after the other.
Trash == {f \in File : rows[f] = "trash"}

\* Mutant: the rows are not asked whether they are in the trash.
EmptyEverything(c) ==
  LET all == {f \in File : rows[f] # "none"}
  IN  all # {} /\ CallStarts(c, "sweeping", NoFile, all)

RemoveStarts(c, f) == f \in Trash /\ CallStarts(c, "sweeping", NoFile, {f})
EmptyStarts(c)     == Trash # {} /\ CallStarts(c, "sweeping", NoFile, Trash)

\* Mutant: a row is removed only once it is older than the oldest age there is.
CleanerStartsLate(c) ==
  LET expired == {f \in Trash : age[f] > Retention}
  IN  expired # {} /\ CallStarts(c, "sweeping", NoFile, expired)

CleanerStarts(c) ==
  LET expired == {f \in Trash : age[f] = Retention}
  IN  expired # {} /\ CallStarts(c, "sweeping", NoFile, expired)

\* removePhysicalFile: a file that is not there is no error.  A list is walked by
\* deletedAt, which may be any order of its files.
SweepUnlinks(c, f) ==
  /\ calls[c].pc = "sweeping" /\ f \in calls[c].todo
  /\ disk' = [disk EXCEPT ![f] = "none"]
  /\ calls' = [calls EXCEPT ![c] = [pc |-> "dropping", file |-> f, todo |-> @.todo \ {f}]]
  /\ UNCHANGED <<rows, age, uploads, failures, history>>

\* Mutant: every error of unlink is ignored, not only ENOENT.
SweepIgnoresError(c, f) ==
  /\ calls[c].pc = "sweeping" /\ f \in calls[c].todo
  /\ Fails
  /\ calls' = [calls EXCEPT ![c] = [pc |-> "dropping", file |-> f, todo |-> @.todo \ {f}]]
  /\ UNCHANGED <<storeVars, uploads, history>>

\* Any other error: the row stays, and the sweep goes on with the next file.
SweepUnlinkFails(c, f) ==
  /\ calls[c].pc = "sweeping" /\ f \in calls[c].todo
  /\ Fails
  /\ calls' = [calls EXCEPT ![c] = Continued(c, @.todo \ {f})]
  /\ UNCHANGED <<storeVars, uploads, history>>

\* Mutant: one query deletes every row in the trash.
SweepDropsTrash(c) ==
  /\ calls[c].pc = "dropping"
  /\ rows' = [f \in File |-> IF rows[f] = "trash" THEN "none" ELSE rows[f]]
  /\ calls' = [calls EXCEPT ![c] = Continued(c, @.todo)]
  /\ UNCHANGED <<disk, age, uploads, failures, history>>

\* The row may be gone already, or live again; delete asks for the id only.
SweepDrops(c) ==
  /\ calls[c].pc = "dropping"
  /\ rows' = [rows EXCEPT ![calls[c].file] = "none"]
  /\ calls' = [calls EXCEPT ![c] = Continued(c, @.todo)]
  /\ UNCHANGED <<disk, age, uploads, failures, history>>

SweepDropFails(c) ==
  /\ calls[c].pc = "dropping"
  /\ Fails
  /\ calls' = [calls EXCEPT ![c] = Continued(c, @.todo)]
  /\ UNCHANGED <<storeVars, uploads, history>>
-----------------------------------------------------------------------------
\* The process ends and is started again: what was under way is forgotten.
Forget ==
  /\ calls' = [c \in Call |-> Idle]
  /\ uploads' = [f \in File |-> IF uploads[f].pc = "none" THEN uploads[f]
                                ELSE [pc |-> "over", listed |-> {}, counted |-> {}]]
  /\ UNCHANGED <<storeVars, history>>

Restart == Fails /\ Forget

\* The stream of a download finds no file: an "error" event without a listener
\* ends the process, be it one failure too many for the bound.
DownloadBreaks(c) ==
  /\ calls[c].pc = "opening"
  /\ disk[calls[c].file] = "none"
  /\ failures' = IF failures < MaxFailures THEN failures + 1 ELSE failures
  /\ Forget

FileTick ==
  /\ age' = [f \in File |-> IF rows[f] = "trash" /\ age[f] < Retention
                            THEN age[f] + 1 ELSE age[f]]
  /\ UNCHANGED <<disk, rows, uploads, calls, failures, history>>

UploadGoesOn(f) ==
  \/ UploadWritten(f) \/ UploadDiscarded(f) \/ ListUploads(f) \/ (\E g \in File : StatUpload(f, g))
  \/ CreateRow(f) \/ RefuseUpload(f)

CallGoesOn(c) ==
  \/ DeleteUpdates(c) \/ RestoreChecks(c) \/ RestoreUpdates(c)
  \/ DownloadLooks(c) \/ DownloadOpens(c) \/ DownloadBreaks(c)
  \/ (\E f \in File : SweepUnlinks(c, f)) \/ SweepDrops(c)

FileNext ==
  \/ \E f \in File : UploadStarts(f) \/ UploadGoesOn(f)
  \/ \E f \in File : UploadBreaks(f) \/ RefuseUploadFails(f)
  \/ \E c \in Call \ CleanerCall, f \in File :
       DeleteStarts(c, f) \/ RestoreStarts(c, f) \/ DownloadStarts(c, f) \/ RemoveStarts(c, f)
  \/ \E c \in Call \ CleanerCall : EmptyStarts(c)
  \/ \E c \in CleanerCall : CleanerStarts(c)
  \/ \E c \in Call : CallGoesOn(c)
  \/ \E c \in Call, f \in File : SweepUnlinkFails(c, f)
  \/ \E c \in Call : SweepDropFails(c)
  \/ Restart
  \/ FileTick

FileSpec == FileInit /\ [][FileNext]_fileVars

\* Node goes on with what was begun, time passes and the cron job is started.
\* Nothing is assumed of clients; a failure is never assumed.
FileFairness ==
  /\ WF_fileVars(FileTick)
  /\ \A f \in File : WF_fileVars(UploadGoesOn(f))
  /\ \A c \in Call : WF_fileVars(CallGoesOn(c))
  /\ \A c \in CleanerCall : WF_fileVars(CleanerStarts(c))

FairFileSpec == FileSpec /\ FileFairness
-----------------------------------------------------------------------------
\* A file that was never in the trash is complete on disk for as long as it has a
\* row, whatever fails, and no row ever stands for a file that is still being
\* written (createFileRecord; removals that work from lists read earlier).
UntrashedIsSafe ==
  \A f \in File :
    rows[f] # "none" => /\ disk[f] # "partial"
                        /\ f \notin trashed => rows[f] = "live" /\ disk[f] = "full"

\* A removed file leaves nothing behind: once its row is gone no later request,
\* retry or restart can find its data, because the file always goes first
\* (permanentlyDeleteTrashFileById, emptyTrash, cleanExpiredTrashFiles).
RemovedLeavesNothing ==
  \A f \in recorded : rows[f] = "none" => disk[f] = "none"

\* As long as nothing failed, rows and files only differ while somebody is about to
\* make them agree: a row without a file is being removed, a file without a row
\* is being uploaded (every await between the two).
RowsAndFilesMatch ==
  failures = 0 =>
    \A f \in File :
      /\ rows[f] # "none" /\ disk[f] = "none" =>
           \E c \in Call : calls[c].pc = "dropping" /\ calls[c].file = f
      /\ rows[f] = "none" /\ disk[f] # "none" => uploads[f].pc # "over"

\* The files the service keeps are within the limit, as doc/api.md:96 says.  A file that
\* is removed while the directory is summed makes the sum 0, so that this does not hold.
WithinLimit ==
  Cardinality({f \in File : rows[f] # "none" /\ disk[f] = "full"}) <= Limit

\* Uploads that run at the same time do not exceed the limit together: each counts
\* the others' files, unless a file vanished under a sum
\* (createFileRecord, getUploadsDirectorySize).
LimitHoldsUnlessMissed == missed \/ WithinLimit

\* What doc/api.md says of a restored file: it is listed again.  A file that is not
\* in the trash is not removed without being put there first.
LiveIsNotRemoved == [][\A f \in File : rows[f] = "live" => rows'[f] # "none"]_fileVars

\* What doc/api.md says of a download: a file that is not there is answered by 404.
\* A stream is only opened on a file that is still there (downloadFile).
DownloadFindsItsFile ==
  \A c \in Call : calls[c].pc = "opening" => disk[calls[c].file] # "none"

\* What a request under way is to remove.
Claims(c) ==
  CASE calls[c].pc = "sweeping" -> calls[c].todo
    [] calls[c].pc = "dropping" -> calls[c].todo \cup {calls[c].file}
    [] OTHER                    -> {}

Entry   == [f \in File |-> IF rows[f] # "none" THEN rows[f]
                           ELSE IF f \in recorded THEN "gone" ELSE "absent"]
Data    == {f \in recorded : disk[f] = "full"}
Claimed == UNION {Claims(c) : c \in Call}

Bin == INSTANCE TrashBin WITH entry <- Entry, data <- Data, claimed <- Claimed

\* The requests on files together keep the promise of TrashBin, however they overlap,
\* fail or are cut off by a restart: a file is only removed by a sweep that found it
\* in the trash, data first, and none comes back (deleteFileById,
\* restoreTrashFileById, permanentlyDeleteTrashFileById, emptyTrash, cleanExpiredTrashFiles).
ImplementsTrashBin == Bin!BinSpec

\* The trash is emptied in the end: a file in it is restored or removed, also after
\* failures and restarts (cleanExpiredTrashFiles).
TrashIsTemporary == \A f \in File : rows[f] = "trash" ~> rows[f] # "trash"
=============================================================================
