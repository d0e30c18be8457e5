\* A file is restored while the cleaner works from a list it is on.
CONSTANTS
  File = {f1}
  Call = {client, cleaner}
  CleanerCall = {cleaner}
  NoFile = NoFile
  Limit = 1
  Retention = 1
  MaxFailures = 1
SPECIFICATION FileSpec
PROPERTY LiveIsNotRemoved
