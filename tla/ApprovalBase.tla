---------------------------- MODULE ApprovalBase ----------------------------
(***************************************************************************)
(* What the two grants that wait for a user's decision have in common: the *)
(* users, the steps of a poll and of a decision between which other        *)
(* requests run, and where their rows are read: on the primary, or on a    *)
(* read replica that may be behind it.                                     *)
(***************************************************************************)
CONSTANTS
    User,
    None   \* an absent value

VARIABLE lagging   \* a read replica is configured, for the life of the server

Redeeming == {"mint", "mark"}
Deciding == {"approve", "deny"}
=============================================================================
