---------------------------- MODULE MCApprovals ----------------------------
(***************************************************************************)
(* What users decide about: device authorizations (DeviceGrant) and        *)
(* transaction authorizations (TxnAuthorization), with and without a       *)
(* lagging replica.  The variables and properties of both are this         *)
(* module's own, and the two share no state in the server: a behaviour is  *)
(* one of the part it starts with, and the other stands still.  Challenges *)
(* are opened, remembered, forgotten and outlived in a part of their own,  *)
(* where nobody decides; in the part that decides, none passes its exp and *)
(* no guard loses an entry.                                                *)
(***************************************************************************)
EXTENDS DeviceGrant, TxnAuthorization, TLC

VARIABLE part

partVars == <<part, vars, txnVars>>

PartInit ==
    /\ part \in {"device", "opening", "deciding"}
    /\ Init
    /\ TxnInit

PartNext ==
    \/ part = "device" /\ Next /\ UNCHANGED <<part, txnVars>>
    \/ part = "opening" /\ TxnNext /\ UNCHANGED <<part, vars, sessions, txnLocals>>
    \/ /\ part = "deciding" /\ TxnNext /\ UNCHANGED <<part, vars, phase, evicted>>
       /\ \A p \in Process : seen[p] \subseteq seen'[p]

PartSpec == PartInit /\ [][PartNext]_partVars

Symmetry ==
    UNION {Permutations(Slot), Permutations(User), Permutations(Txn), Permutations(Process)}
=============================================================================
