\* A file is removed between the stat and the open of its download.
CONSTANTS
  File = {f1}
  Call = {client, client2}
  CleanerCall = {}
  NoFile = NoFile
  Limit = 1
  Retention = 1
  MaxFailures = 1
SPECIFICATION FileSpec
INVARIANT DownloadFindsItsFile
