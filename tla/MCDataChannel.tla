--------------------------- MODULE MCDataChannel ---------------------------
(***************************************************************************)
(* A small instance of DataChannel.                                        *)
(***************************************************************************)
EXTENDS DataChannel, TLC

CONSTANTS x, y, z

\* A file whose last chunk is not followed by a pause, one whose last is, an empty one.
Files       == {x, y, z}
ChunkCounts == x :> 2 @@ y :> 1 @@ z :> 0
=============================================================================
