----------------------------- MODULE DeviceGrant -----------------------------
(***************************************************************************)
(* The device authorization grant (RFC 8628): a client opens a device      *)
(* authorization, a user logged in elsewhere approves or denies it by its  *)
(* user code, and the client polls the token endpoint until it gets a      *)
(* token.  Every decision and every poll reads the row, checks it, and     *)
(* writes in a later statement; the writes have no condition but the key.  *)
(* When lagging, reads go to a replica that may be behind the primary.     *)
(***************************************************************************)
EXTENDS ApprovalBase

CONSTANTS
    Device,    \* device codes, each with its user code
    Client,
    Request    \* HTTP requests; each slot is used once

ASSUME NoneAssumption == None \notin Client

VARIABLES
    rows, replica,      \* device_authorizations, and what the replica has of it
    pc, device, user,   \* locals of a request: next step, its row, its user
    tokens,             \* <<request, device, user>> of each token created
    delivered,          \* requests whose response carried a token
    \* history: devices that two redemptions held at one time, or that one took
    \* up from a replica that was behind; devices whose last decision is a
    \* denial that nothing in flight, and no replica, can hide
    raced, refused

table == <<lagging, rows, replica>>
locals == <<pc, device, user>>
history == <<raced, refused>>
vars == <<table, locals, tokens, delivered, history>>

NoRow == [client |-> None, user |-> None, approved |-> FALSE, denied |-> FALSE,
          used |-> FALSE, expired |-> FALSE]

Exists(row) == row.client # None

\* The row a SELECT returns.
Read(d) == IF lagging THEN replica[d] ELSE rows[d]

InFlight(d, steps) == \E r \in Request : pc[r] \in steps /\ device[r] = d

\* A token or an approval of d may still come of what has been read.
Overtakable(d) == InFlight(d, Redeeming \cup {"approve"})

Update(d, row) ==
    /\ rows' = [rows EXCEPT ![d] = row]
    /\ UNCHANGED <<lagging, replica>>

Step(r, next) ==
    /\ pc' = [pc EXCEPT ![r] = next]
    /\ UNCHANGED <<device, user>>

Begin(r, next, d, u) ==
    /\ pc[r] = "idle"
    /\ pc' = [pc EXCEPT ![r] = next]
    /\ device' = [device EXCEPT ![r] = d]
    /\ user' = [user EXCEPT ![r] = u]

Init ==
    /\ lagging \in BOOLEAN
    /\ rows = [d \in Device |-> NoRow]
    /\ replica = [d \in Device |-> NoRow]
    /\ pc = [r \in Request |-> "idle"]
    /\ device = [r \in Request |-> None]
    /\ user = [r \in Request |-> None]
    /\ tokens = {}
    /\ delivered = {}
    /\ raced = {} /\ refused = {}

-----------------------------------------------------------------------------
\* A client authenticates and opens an authorization.
DeviceAuthorization(d, c) ==
    /\ ~Exists(rows[d])
    /\ Update(d, [NoRow EXCEPT !.client = c])
    /\ UNCHANGED <<locals, tokens, delivered, history>>

\* expires_at passes, for every copy of the row.
Expire(d) ==
    /\ Exists(rows[d])
    /\ ~rows[d].expired
    /\ rows' = [rows EXCEPT ![d].expired = TRUE]
    /\ replica' = [replica EXCEPT ![d].expired = Exists(replica[d])]
    /\ UNCHANGED <<lagging, locals, tokens, delivered, history>>

\* An administrator sets expires_at to the past.
ExpireDeviceAuthorization(d) ==
    /\ Exists(rows[d])
    /\ ~rows[d].expired
    /\ Update(d, [rows[d] EXCEPT !.expired = TRUE])
    /\ UNCHANGED <<locals, tokens, delivered, history>>

\* The replica catches up.
Replicate(d) ==
    /\ lagging
    /\ replica[d] # rows[d]
    /\ replica' = [replica EXCEPT ![d] = rows[d]]
    /\ refused' = IF rows[d].denied /\ ~Overtakable(d) THEN refused \cup {d} ELSE refused
    /\ UNCHANGED <<lagging, rows, locals, tokens, delivered, raced>>

\* verify_submit decides on rows neither expired nor used, decided or not.
Decidable(d) == Exists(Read(d)) /\ ~Read(d).expired /\ ~Read(d).used

\* A logged-in user submits the verification form.
BeginDecision(r, d, u, action) ==
    /\ Decidable(d)
    /\ Begin(r, action, d, u)
    /\ refused' = IF action = "approve" THEN refused \ {d} ELSE refused
    /\ UNCHANGED <<table, tokens, delivered, raced>>

\* UPDATE ... SET approved = 1, denied = 0, user_id = ? WHERE user_code = ?
ApproveDeviceAuthorization(r) ==
    /\ pc[r] = "approve"
    /\ Update(device[r], [rows[device[r]] EXCEPT !.approved = TRUE, !.denied = FALSE, !.user = user[r]])
    /\ Step(r, "done")
    /\ UNCHANGED <<tokens, delivered, history>>

\* Mutant: approved is not cleared.
DenyKeepsApproved(r) ==
    /\ pc[r] = "deny"
    /\ Update(device[r], [rows[device[r]] EXCEPT !.denied = TRUE])
    /\ refused' = IF lagging \/ Overtakable(device[r]) THEN refused ELSE refused \cup {device[r]}
    /\ Step(r, "done")
    /\ UNCHANGED <<tokens, delivered, raced>>

\* UPDATE ... SET denied = 1, approved = 0 WHERE user_code = ?
DenyDeviceAuthorization(r) ==
    /\ pc[r] = "deny"
    /\ Update(device[r], [rows[device[r]] EXCEPT !.approved = FALSE, !.denied = TRUE])
    /\ refused' = IF lagging \/ Overtakable(device[r]) THEN refused ELSE refused \cup {device[r]}
    /\ Step(r, "done")
    /\ UNCHANGED <<tokens, delivered, raced>>

-----------------------------------------------------------------------------
\* Mutant: used is not looked at.
RedeemableAgain(d, c) ==
    LET row == Read(d) IN
    row.client = c /\ ~row.expired /\ ~row.denied /\ row.approved /\ row.user # None

\* Mutant: a row with a user counts as approved.
RedeemableIfUser(d, c) ==
    LET row == Read(d) IN row.client = c /\ ~row.used /\ ~row.expired /\ row.user # None

\* The checks of handle_device_code_grant on the row it read.
Redeemable(d, c) ==
    LET row == Read(d) IN
    /\ row.client = c
    /\ ~row.used
    /\ ~row.expired
    /\ ~row.denied
    /\ row.approved
    /\ row.user # None

\* An authenticated client polls and finds the row approved; every other
\* outcome is an error response and changes nothing.
BeginPoll(r, d, c) ==
    /\ Redeemable(d, c)
    /\ Begin(r, "mint", d, Read(d).user)
    /\ raced' = IF InFlight(d, Redeeming) \/ Read(d) # rows[d] THEN raced \cup {d} ELSE raced
    /\ UNCHANGED <<table, tokens, delivered, refused>>

CreateToken(r) ==
    /\ pc[r] = "mint"
    /\ tokens' = tokens \cup {<<r, device[r], user[r]>>}
    /\ Step(r, "mark")
    /\ UNCHANGED <<table, delivered, history>>

\* Mutant: the mark is best effort.
MarkBestEffort(r) ==
    /\ pc[r] = "mark"
    /\ \/ Update(device[r], [rows[device[r]] EXCEPT !.used = TRUE])
       \/ UNCHANGED table
    /\ delivered' = delivered \cup {r}
    /\ Step(r, "done")
    /\ UNCHANGED <<tokens, history>>

\* UPDATE ... SET used = 1 WHERE device_code = ?; then the response is sent.
MarkDeviceAuthorizationUsed(r) ==
    /\ pc[r] = "mark"
    /\ Update(device[r], [rows[device[r]] EXCEPT !.used = TRUE])
    /\ delivered' = delivered \cup {r}
    /\ Step(r, "done")
    /\ UNCHANGED <<tokens, history>>

\* A storage error, a dropped connection or a crash ends a request.
Abort(r) ==
    /\ pc[r] \notin {"idle", "done"}
    /\ Step(r, "done")
    /\ UNCHANGED <<table, tokens, delivered, history>>

Next ==
    \/ \E d \in Device : Expire(d) \/ ExpireDeviceAuthorization(d) \/ Replicate(d)
    \/ \E d \in Device, c \in Client : DeviceAuthorization(d, c)
    \/ \E r \in Request, d \in Device, u \in User, action \in Deciding : BeginDecision(r, d, u, action)
    \/ \E r \in Request, d \in Device, c \in Client : BeginPoll(r, d, c)
    \/ \E r \in Request :
          \/ ApproveDeviceAuthorization(r)
          \/ DenyDeviceAuthorization(r)
          \/ CreateToken(r)
          \/ MarkDeviceAuthorizationUsed(r)
          \/ Abort(r)

Spec == Init /\ [][Next]_vars

-----------------------------------------------------------------------------
(* Properties *)

Row == [client : Client \cup {None}, user : User \cup {None}, approved : BOOLEAN,
        denied : BOOLEAN, used : BOOLEAN, expired : BOOLEAN]

\* Rows, locals and history keep their shape, and no row is approved and
\* denied at once.
TypeOK ==
    /\ lagging \in BOOLEAN
    /\ rows \in [Device -> Row]
    /\ replica \in [Device -> Row]
    /\ pc \in [Request -> Redeeming \cup Deciding \cup {"idle", "done"}]
    /\ device \in [Request -> Device \cup {None}]
    /\ user \in [Request -> User \cup {None}]
    /\ tokens \subseteq Request \X Device \X User
    /\ delivered \subseteq Request
    /\ raced \subseteq Device
    /\ refused \subseteq Device
    /\ \A d \in Device : ~(rows[d].approved /\ rows[d].denied)

\* A client gets one token out of a device code, whatever fails, unless two
\* polls overlapped between the read and the mark, or one read a stale row.
\* A token whose mark failed is not delivered, and the code stays redeemable.
DeliveredOnceUnlessRaced ==
    \A r, s \in delivered :
        r # s /\ device[r] = device[s] => device[r] \in raced

\* When the user's last word is a denial, no token is created from then on,
\* except by a poll, an approval or a replica that had not seen it.
DenialIsFinal == [][\A t \in tokens' \ tokens : t[2] \notin refused]_vars

\* Without a replica, decisions and polls implement the abstract approval: a
\* poll has its claim from the moment it reads the row.
Approval == INSTANCE HumanApproval WITH
    Subject <- Device,
    verdict <- [d \in Device |-> IF rows[d].approved THEN "approved"
                                 ELSE IF rows[d].denied THEN "denied" ELSE "pending"],
    approver <- [d \in Device |-> rows[d].user],
    spent <- {d \in Device : rows[d].used},
    claims <- {<<r, device[r], user[r]>> : r \in {q \in Request : pc[q] = "mint"}},
    tokens <- tokens

ImplementsApproval ==
    Approval!Init /\ [][lagging \/ Approval!Next]_(Approval!vars)
=============================================================================
