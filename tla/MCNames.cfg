\* The letter a and the characters U+4F60, U+597D, U+4E2D and U+6587: "ni", "hao",
\* "zhong", "wen".
CONSTANTS
  NoName = NoName
  Unit = {97, 20320, 22909, 20013, 25991}
  MaxLength = 2
SPECIFICATION NameSpec
INVARIANT DownloadKeepsName
CHECK_DEADLOCK FALSE
