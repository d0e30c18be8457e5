\* Two files, two clients and the cleaner, one failure.
CONSTANTS
  File = {f1, f2}
  Call = {client, client2, cleaner}
  CleanerCall = {cleaner}
  NoFile = NoFile
  Limit = 1
  Retention = 1
  MaxFailures = 1
SPECIFICATION FairFileSpec
INVARIANTS
  FileTypeOK
  UntrashedIsSafe
  RemovedLeavesNothing
  RowsAndFilesMatch
  LimitHoldsUnlessMissed
PROPERTIES
  ImplementsTrashBin
  TrashIsTemporary
