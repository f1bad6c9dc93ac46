----------------------------- MODULE FencedLease -----------------------------
(***************************************************************************)
(* What the leases of a case promise to whoever reads its history: the      *)
(* fencing tokens of a case only grow, at most one of them is in force, and  *)
(* the writes the case accepted carry tokens in the order in which they were *)
(* granted.                                                                 *)
(***************************************************************************)
EXTENDS Naturals

CONSTANT Resources

VARIABLES granted,  \* the newest token ever granted on a resource, 0 before any
          held,     \* whether that token is in force
          written   \* the token of the last write the resource accepted

fencedVars == <<granted, held, written>>

FInit == /\ granted = [r \in Resources |-> 0]
         /\ held    = [r \in Resources |-> FALSE]
         /\ written = [r \in Resources |-> 0]

(* A new token supersedes every earlier one. *)
FGrant(r) == /\ granted'[r] > granted[r]
             /\ granted' = [granted EXCEPT ![r] = granted'[r]]
             /\ held' = [held EXCEPT ![r] = TRUE]
             /\ UNCHANGED written

(* The token in force writes, and may give itself up with the write. *)
FWrite(r) == /\ held[r]
             /\ written' = [written EXCEPT ![r] = granted[r]]
             /\ \/ UNCHANGED held
                \/ held' = [held EXCEPT ![r] = FALSE]
             /\ UNCHANGED granted

(* The token lapses or is taken back. *)
FDrop(r) == /\ held[r]
            /\ held' = [held EXCEPT ![r] = FALSE]
            /\ UNCHANGED <<granted, written>>

FNext == \E r \in Resources : FGrant(r) \/ FWrite(r) \/ FDrop(r)

FSpec == FInit /\ [][FNext]_fencedVars
=============================================================================
