---------------------------- MODULE HumanApproval ----------------------------
(***************************************************************************)
(* What the device grant and the transaction authorization grant promise:  *)
(* a human decides on a subject; a poll that finds the subject approved    *)
(* and not spent claims it for the approver; a claim becomes at most one   *)
(* token, for that approver; a subject is spent only once a token exists.  *)
(* Decisions may be changed, and several polls may claim a subject that is *)
(* not spent yet: the code does not exclude either.                        *)
(***************************************************************************)
CONSTANTS
    Subject,   \* device codes, or transaction authorizations
    User,
    Request,   \* polls
    None

VARIABLES
    verdict,   \* per subject: "pending", "approved" or "denied"
    approver,  \* per subject: the user of the last decision, or None
    spent,     \* subjects marked used
    claims,    \* <<poll, subject, approver>>: may be turned into a token
    tokens     \* <<poll, subject, approver>>: has been

vars == <<verdict, approver, spent, claims, tokens>>

Init ==
    /\ verdict = [x \in Subject |-> "pending"]
    /\ approver = [x \in Subject |-> None]
    /\ spent = {}
    /\ claims = {}
    /\ tokens = {}

Approve(x, u) ==
    /\ verdict' = [verdict EXCEPT ![x] = "approved"]
    /\ approver' = [approver EXCEPT ![x] = u]
    /\ UNCHANGED <<spent, claims, tokens>>

Deny(x, u) ==
    /\ verdict' = [verdict EXCEPT ![x] = "denied"]
    /\ approver' = [approver EXCEPT ![x] = u]
    /\ UNCHANGED <<spent, claims, tokens>>

Claim(r, x) ==
    /\ verdict[x] = "approved"
    /\ approver[x] # None
    /\ x \notin spent
    /\ \A c \in claims \cup tokens : c[1] # r
    /\ claims' = claims \cup {<<r, x, approver[x]>>}
    /\ UNCHANGED <<verdict, approver, spent, tokens>>

Issue(c) ==
    /\ c \in claims
    /\ claims' = claims \ {c}
    /\ tokens' = tokens \cup {c}
    /\ UNCHANGED <<verdict, approver, spent>>

\* A poll fails before its token is created.
Withdraw(c) ==
    /\ c \in claims
    /\ claims' = claims \ {c}
    /\ UNCHANGED <<verdict, approver, spent, tokens>>

Spend(x) ==
    /\ \E c \in tokens : c[2] = x
    /\ spent' = spent \cup {x}
    /\ UNCHANGED <<verdict, approver, claims, tokens>>

Next ==
    \/ \E x \in Subject, u \in User : Approve(x, u)
    \/ \E x \in Subject, u \in User \cup {None} : Deny(x, u)
    \/ \E r \in Request, x \in Subject : Claim(r, x)
    \/ \E c \in claims : Issue(c) \/ Withdraw(c)
    \/ \E x \in Subject : Spend(x)

Spec == Init /\ [][Next]_vars
=============================================================================
