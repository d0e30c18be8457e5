---------------------------- MODULE MCFileStore ----------------------------
(***************************************************************************)
(* Small instances of FileStore.                                           *)
(***************************************************************************)
EXTENDS FileStore, TLC

\* Files are only compared for equality.
FileSymmetry == Permutations(File)
=============================================================================
