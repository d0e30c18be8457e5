----------------------------- MODULE PairLinks -----------------------------
(***************************************************************************)
(* What the signaling service promises about two devices, without sockets, *)
(* ids, keys or an index: a pair is not linked, connecting, or linked.  A  *)
(* present device opens a link, two present devices activate it, either    *)
(* one of them closes it, and a device that leaves takes its links along.  *)
(***************************************************************************)
CONSTANT Device

Pairs == {{d, e} : d, e \in Device}

VARIABLES
  present,              \* devices that are there, heard of lately or not
  connecting, active    \* pairs

linkVars == <<present, connecting, active>>

LinksInit == present = {} /\ connecting = {} /\ active = {}

Join(d) ==
  /\ present' = present \cup {d}
  /\ UNCHANGED <<connecting, active>>

Leave(d) ==
  /\ d \in present
  /\ present' = present \ {d}
  /\ connecting' = {p \in connecting : d \notin p}
  /\ active' = {p \in active : d \notin p}

\* Consent of the device that was asked; the one that asked may be gone.
Open(p) ==
  /\ p \cap present # {}
  /\ p \notin connecting \cup active
  /\ connecting' = connecting \cup {p}
  /\ UNCHANGED <<present, active>>

Activate(p) ==
  /\ p \in connecting
  /\ p \subseteq present
  /\ connecting' = connecting \ {p}
  /\ active' = active \cup {p}
  /\ UNCHANGED present

Close(p) ==
  /\ p \in connecting \cup active
  /\ p \cap present # {}
  /\ connecting' = connecting \ {p}
  /\ active' = active \ {p}
  /\ UNCHANGED present

LinksNext ==
  \/ \E d \in Device : Join(d) \/ Leave(d)
  \/ \E p \in Pairs : Open(p) \/ Activate(p) \/ Close(p)

LinksSpec == LinksInit /\ [][LinksNext]_linkVars
=============================================================================
