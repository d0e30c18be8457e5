----------------------------- MODULE FileNames -----------------------------
(***************************************************************************)
(* The name of an uploaded file, from the page that sends it to the header *)
(* of its download.  A name is a sequence of UTF-16 code units; multer     *)
(* reads the UTF-8 bytes the page sends as latin1, one unit per byte, and  *)
(* normalizeUploadedFilename undoes that.  It is called again wherever a   *)
(* row leaves the service.                                                 *)
(***************************************************************************)
EXTENDS Naturals, Sequences, SequencesExt

CONSTANTS
  Unit,        \* code units of the names a user gives: characters of the basic plane but
               \* the replacement character, whose low byte begins no encoding of four
               \* bytes (it is not in 240..244)
  MaxLength,   \* bound: of such a name
  NoName

Name == UNION {[1..n -> Unit] : n \in 1..MaxLength}

VARIABLES
  chosen,        \* the name the user's file has
  originalName,  \* of the row
  answered,      \* originalName in the answer to the upload
  downloaded     \* the name in Content-Disposition

nameVars == <<chosen, originalName, answered, downloaded>>

NameInit ==
  chosen = NoName /\ originalName = NoName /\ answered = NoName /\ downloaded = NoName
-----------------------------------------------------------------------------
Replacement == 65533

Utf8Bytes(u) ==
  IF u < 128 THEN <<u>>
  ELSE IF u < 2048 THEN <<192 + (u \div 64), 128 + (u % 64)>>
  ELSE <<224 + (u \div 4096), 128 + ((u \div 64) % 64), 128 + (u % 64)>>

\* What file.originalname is: the browser sends UTF-8, multer reads latin1.
Received(name) == FlattenSeq([i \in DOMAIN name |-> Utf8Bytes(name[i])])

\* toString('utf8'): what is not the encoding of a unit becomes the replacement character.
Decoded(bytes) ==
  LET encodes(i, k, u) == i + k - 1 <= Len(bytes) /\ Utf8Bytes(u) = SubSeq(bytes, i, i + k - 1)
      two(i)   == ((bytes[i] % 32) * 64) + (bytes[i + 1] % 64)
      three(i) == ((bytes[i] % 16) * 4096) + ((bytes[i + 1] % 64) * 64) + (bytes[i + 2] % 64)
      from[i \in 1..Len(bytes) + 1] ==
        IF i > Len(bytes) THEN <<>>
        ELSE IF bytes[i] < 128 THEN <<bytes[i]>> \o from[i + 1]
        ELSE IF i + 1 <= Len(bytes) /\ encodes(i, 2, two(i)) THEN <<two(i)>> \o from[i + 2]
        ELSE IF /\ i + 2 <= Len(bytes) /\ encodes(i, 3, three(i))
                /\ three(i) \notin 55296..57343
             THEN <<three(i)>> \o from[i + 3]
        ELSE <<Replacement>> \o from[i + 1]
  IN  from[1]

\* Buffer.from(filename, 'latin1') keeps the low byte of each unit.
NormalizeUploadedFilename(name) ==
  LET decoded == Decoded([i \in DOMAIN name |-> name[i] % 256])
  IN  IF Contains(decoded, Replacement) THEN name ELSE decoded
-----------------------------------------------------------------------------
\* createFileRecord, then the answer of uploadFile.
UploadFile(name) ==
  /\ chosen = NoName
  /\ chosen' = name
  /\ originalName' = NormalizeUploadedFilename(Received(name))
  /\ answered' = NormalizeUploadedFilename(originalName')
  /\ UNCHANGED downloaded

SerializeFileRecord(name) == NormalizeUploadedFilename(name)

\* filename*, which a browser prefers to filename and decodes from percent-encoded UTF-8.
BuildAttachmentContentDisposition(name) == NormalizeUploadedFilename(name)

DownloadFile ==
  /\ originalName # NoName
  /\ downloaded' = BuildAttachmentContentDisposition(SerializeFileRecord(originalName))
  /\ UNCHANGED <<chosen, originalName, answered>>

NameNext == (\E name \in Name : UploadFile(name)) \/ DownloadFile

NameSpec == NameInit /\ [][NameNext]_nameVars
-----------------------------------------------------------------------------
\* A download keeps the original name, Chinese names included (doc/api.md:181).
DownloadKeepsName == downloaded \in {NoName, chosen}
=============================================================================
