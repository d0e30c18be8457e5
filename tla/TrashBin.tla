----------------------------- MODULE TrashBin ------------------------------
(***************************************************************************)
(* What the file service promises about a file, without requests, awaits,  *)
(* failures or restarts.  A file is added with its data and goes to the    *)
(* trash and back.  Whoever wants to remove files claims them while they   *)
(* are in the trash; the data goes first, then the entry, and a file that  *)
(* is gone stays gone.  That a claimed file may be restored meanwhile, and *)
(* is removed all the same, is part of the promise.                        *)
(***************************************************************************)
CONSTANT File

VARIABLES
  entry,     \* of each file: "absent", "live", "trash" or "gone"
  data,      \* files whose data can be read
  claimed    \* files that were in the trash and are to be removed

binVars == <<entry, data, claimed>>

BinInit ==
  /\ entry = [f \in File |-> "absent"]
  /\ data = {} /\ claimed = {}

Add(f) ==
  /\ entry[f] = "absent"
  /\ entry' = [entry EXCEPT ![f] = "live"]
  /\ data' = data \cup {f}
  /\ UNCHANGED claimed

PutInTrash(f) ==
  /\ entry[f] = "live"
  /\ entry' = [entry EXCEPT ![f] = "trash"]
  /\ UNCHANGED <<data, claimed>>

TakeOut(f) ==
  /\ entry[f] = "trash"
  /\ entry' = [entry EXCEPT ![f] = "live"]
  /\ UNCHANGED <<data, claimed>>

Claim(files) ==
  /\ \A f \in files : entry[f] = "trash"
  /\ claimed' = claimed \cup files
  /\ UNCHANGED <<entry, data>>

Shred(f) ==
  /\ f \in claimed
  /\ data' = data \ {f}
  /\ UNCHANGED <<entry, claimed>>

\* Another claim to the file may be left.
Remove(f) ==
  /\ f \in claimed \ data
  /\ entry' = [entry EXCEPT ![f] = "gone"]
  /\ claimed' \in {claimed, claimed \ {f}}
  /\ UNCHANGED data

GiveUp ==
  /\ claimed' \subseteq claimed
  /\ UNCHANGED <<entry, data>>

BinNext ==
  \/ \E f \in File : Add(f) \/ PutInTrash(f) \/ TakeOut(f) \/ Shred(f) \/ Remove(f)
  \/ \E files \in SUBSET File : Claim(files)
  \/ GiveUp

BinSpec == BinInit /\ [][BinNext]_binVars
=============================================================================
