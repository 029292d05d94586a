---------------------------- MODULE UserAccounts ----------------------------
(***************************************************************************)
(* The users table and what hangs from it: the sessions, codes and tokens  *)
(* of a user, the three ways a user comes in (password, social login, an   *)
(* assertion of a trusted issuer), and the administrators' handlers, which *)
(* are several statements without a transaction.  A request waits for the  *)
(* database between any two of its steps.  A redemption stands for every   *)
(* grant that reads a user before it creates the user's token.             *)
(***************************************************************************)
EXTENDS Integers, FiniteSets

CONSTANTS
    UserId, Root,   \* user ids; the seeded administrator, one of them or not
    Browser, Request, Ip, Null,
    Kinds,          \* the operations that happen in this instance
    Edit,           \* what PUT /admin/api/users/{id} may ask for: [role, listed,
                    \* enabled], Null for a column the body leaves alone
    MaxPassword, MaxToken  \* bounds on passwords and tokens

ASSUME BoundsAssumption == MaxPassword \in Nat \ {0} /\ MaxToken \in Nat
ASSUME EditAssumption ==
    Edit \subseteq [role : {"admin", "user", "other", Null}, listed : {TRUE, FALSE, Null},
                   enabled : {TRUE, FALSE, Null}]

VARIABLES
    mongo,      \* the database is MongoDB, for the life of the server: no foreign
                \* keys, and what the adapter leaves to the port does nothing
    dbFails,    \* a statement may fail
    row,        \* the users table
    session,    \* each browser's session
    codes,      \* the authorization codes not used yet
    tokens,     \* the tokens table
    deny,       \* the active entries of the denylist: <<kind, value>>
    req,        \* the requests under way
    answer,     \* history: the last success reported to an administrator
    passwords,  \* history: number of passwords ever set
    ever,       \* history: users that existed at some time
    decided,    \* history: each row as the last decisions want it; Null once
                \* two administrators' requests have met at one user
    barred      \* history: per user, the requests for it during which it has
                \* never been enabled

history == <<answer, passwords, ever, decided, barred>>
deployment == <<mongo, dbFails>>
userVars == <<deployment, row, session, codes, tokens, deny, req, history>>

\* The columns the properties tell apart.  Password 0 can never be verified;
\* listed says that the email is one of OAUTH2_ADMIN_EMAILS.
Row == [pw : 0..MaxPassword, role : {"admin", "user"}, listed : BOOLEAN, enabled : BOOLEAN]

ASSUME AbsentAssumption == Null \notin UserId /\ Null \notin BOOLEAN /\ Null \notin Row

NewUser == [pw |-> 0, role |-> "user", listed |-> FALSE, enabled |-> TRUE]

Idle == [pc |-> "idle", op |-> Null, user |-> Null, arg |-> Null, copy |-> Null,
         by |-> Null, old |-> {}]

\* The server seeds an administrator when it starts.
UsersInit ==
    /\ mongo \in BOOLEAN /\ dbFails \in BOOLEAN
    /\ row = [u \in UserId |-> IF u = Root THEN [NewUser EXCEPT !.pw = 1, !.role = "admin"]
                             ELSE Null]
    /\ session = [b \in Browser |-> Null]
    /\ codes = {} /\ tokens = {} /\ deny = {}
    /\ req = [r \in Request |-> Idle]
    /\ answer = Null /\ passwords = 1 /\ ever = UserId \cap {Root}
    /\ decided = row
    /\ barred = [u \in UserId |-> {}]

AdminOps == {"create", "update", "delete", "enable", "role", "reset"}

Is(r, pc, ops) == req[r].pc = pc /\ req[r].op \in ops
Goto(r, pc) == req' = [req EXCEPT ![r].pc = pc]
Hold(r, copy, pc) == req' = [req EXCEPT ![r].pc = pc, ![r].copy = copy]
Done(r) == req' = [req EXCEPT ![r] = Idle]

LiveTokens(u) == {t \in tokens : t.user = u /\ t.live}

Begin(r, op, u, arg, by, pc) ==
    /\ req[r] = Idle
    /\ req' = [req EXCEPT ![r] = [pc |-> pc, op |-> op, user |-> u, arg |-> arg,
                 copy |-> Null, by |-> by, old |-> {t.id : t \in LiveTokens(u)}]]
    /\ decided' = IF op \in AdminOps /\ \E q \in Request :
                       req[q].op \in AdminOps /\ req[q].user = u THEN Null ELSE decided
    /\ answer' = Null
    /\ barred' = [barred EXCEPT ![u] = IF row[u] # Null /\ row[u].enabled
                                       THEN @ \ {r} ELSE @ \cup {r}]

\* One statement makes c the row of u.
SetRow(u, c) ==
    /\ row' = [row EXCEPT ![u] = c]
    /\ barred' = [barred EXCEPT ![u] = IF c # Null /\ c.enabled THEN {} ELSE @]

Update(u, c) == IF row[u] = Null THEN UNCHANGED <<row, barred>> ELSE SetRow(u, c)

-----------------------------------------------------------------------------
(* The denylist *)

add_denylist(kind, value) ==
    /\ "deny" \in Kinds
    /\ deny' = IF mongo THEN deny ELSE deny \cup {<<kind, value>>}
    /\ UNCHANGED <<row, session, codes, tokens, req, history>>

\* An entry is removed, or expires.
remove_denylist(entry) ==
    /\ entry \in deny
    /\ deny' = deny \ {entry}
    /\ UNCHANGED <<row, session, codes, tokens, req, history>>

\* Every request passes by its address; a failing lookup lets it through.
DenylistGuard(ip) == <<"ip", ip>> \notin deny \/ dbFails

-----------------------------------------------------------------------------
(* Users coming in *)

login_submit(r, ip, b, u, pw) ==
    /\ "password" \in Kinds /\ DenylistGuard(ip)
    /\ Begin(r, "password", u, pw, b, "find")
    /\ UNCHANGED <<row, session, codes, tokens, deny, passwords, ever>>

auth_callback(r, ip, b, u) ==
    /\ "social" \in Kinds /\ DenylistGuard(ip)
    /\ Begin(r, "social", u, Null, b, "find")
    /\ UNCHANGED <<row, session, codes, tokens, deny, passwords, ever>>

handle_jwt_bearer_grant(r, ip, u) ==
    /\ "assertion" \in Kinds /\ DenylistGuard(ip)
    /\ Begin(r, "assertion", u, Null, Null, "find")
    /\ UNCHANGED <<row, session, codes, tokens, deny, passwords, ever>>

\* Mutant: a session is signed in without its role.
SignInBare(b, u, c) ==
    session' = [session EXCEPT ![b] = [user |-> u, role |-> Null, listed |-> c.listed]]

\* The session keeps the role and the email of this moment.
SignIn(b, u, c) ==
    session' = [session EXCEPT ![b] = [user |-> u, role |-> c.role, listed |-> c.listed]]

FindForLogin(r) ==
    LET c == row[req[r].user]
    IN /\ Is(r, "find", {"password"})
       /\ IF c # Null /\ c.enabled THEN Hold(r, c, "verify") ELSE Done(r)
       /\ UNCHANGED <<row, session, codes, tokens, deny, history>>

VerifyPassword(r) ==
    LET q == req[r]
    IN /\ Is(r, "verify", {"password"})
       /\ IF q.copy.pw = q.arg /\ q.arg # 0 THEN SignIn(q.by, q.user, q.copy) ELSE UNCHANGED session
       /\ Done(r)
       /\ UNCHANGED <<row, codes, tokens, deny, history>>

\* A social user is signed in as found, enabled or not.
find_or_create_social_user(r) ==
    LET q == req[r]
        c == row[q.user]
    IN /\ Is(r, "find", {"social"})
       /\ IF c # Null THEN SignIn(q.by, q.user, c) /\ Done(r)
          ELSE Goto(r, "insert") /\ UNCHANGED session
       /\ UNCHANGED <<row, codes, tokens, deny, history>>

\* The insert fails when the name exists.  A new social user or one created
\* by an administrator has a new id, one from an assertion the issuer's sub.
save_user(r, c) ==
    /\ row[req[r].user] = Null
    /\ req[r].op # "assertion" => req[r].user \notin ever
    /\ SetRow(req[r].user, c)
    /\ ever' = ever \cup {req[r].user}
    /\ decided' = IF decided = Null THEN Null ELSE [decided EXCEPT ![req[r].user] = c]

InsertSocial(r) ==
    LET q == req[r]
    IN /\ Is(r, "insert", {"social"})
       /\ \/ save_user(r, NewUser) /\ SignIn(q.by, q.user, NewUser)
          \/ row[q.user] # Null /\ UNCHANGED <<row, barred, ever, decided, session>>
       /\ Done(r)
       /\ UNCHANGED <<codes, tokens, deny, answer, passwords>>

resolve_subject(r) ==
    LET c == row[req[r].user]
    IN /\ Is(r, "find", {"assertion"})
       /\ CASE c = Null -> Goto(r, "insert")
            [] c # Null /\ c.enabled -> Goto(r, "mint")
            [] OTHER -> Done(r)
       /\ UNCHANGED <<row, session, codes, tokens, deny, history>>

Provision(r) ==
    /\ Is(r, "insert", {"assertion"})
    /\ \/ save_user(r, NewUser) /\ Goto(r, "mint")
       \/ row[req[r].user] # Null /\ Goto(r, "reread") /\ UNCHANGED <<row, barred, ever, decided>>
    /\ UNCHANGED <<session, codes, tokens, deny, answer, passwords>>

\* Mutant: the loser of the insert takes the row as it is.
RereadAny(r) ==
    LET c == row[req[r].user]
    IN /\ Is(r, "reread", {"assertion"})
       /\ IF c # Null THEN Goto(r, "mint") ELSE Done(r)
       /\ UNCHANGED <<row, session, codes, tokens, deny, history>>

\* Somebody else made the row meanwhile; it is used if it is enabled.
Reread(r) ==
    LET c == row[req[r].user]
    IN /\ Is(r, "reread", {"assertion"})
       /\ IF c # Null /\ c.enabled THEN Goto(r, "mint") ELSE Done(r)
       /\ UNCHANGED <<row, session, codes, tokens, deny, history>>

\* The foreign key refuses a code or a token for a user that is gone.
MayRefer(u) == mongo \/ row[u] # Null

authorize(b) ==
    /\ "authorize" \in Kinds /\ session[b] # Null
    /\ MayRefer(session[b].user)
    /\ codes' = codes \cup {session[b].user}
    /\ UNCHANGED <<row, session, tokens, deny, req, history>>

\* The code is marked used; the token comes later.
redeem(r, u) ==
    /\ u \in codes
    /\ Begin(r, "redeem", u, Null, Null, "mint")
    /\ codes' = codes \ {u}
    /\ UNCHANGED <<row, session, tokens, deny, passwords, ever>>

\* owner is history: delete_user clears the column user.
save_token(r) ==
    /\ Is(r, "mint", {"redeem", "assertion"})
    /\ \/ /\ MayRefer(req[r].user) /\ Cardinality(tokens) < MaxToken
          /\ tokens' = tokens \cup {[id |-> Cardinality(tokens) + 1, owner |-> req[r].user,
                                     user |-> req[r].user, live |-> TRUE]}
       \/ ~MayRefer(req[r].user) /\ UNCHANGED tokens
    /\ Done(r)
    /\ UNCHANGED <<row, session, codes, deny, history>>

logout(b) ==
    /\ session[b] # Null
    /\ session' = [session EXCEPT ![b] = Null]
    /\ UNCHANGED <<row, codes, tokens, deny, req, history>>

-----------------------------------------------------------------------------
(* Administrators *)

is_admin(c) == c.role = "admin" \/ c.listed

\* The role and the email of the session, or, without a browser, a token of
\* a client the operator trusts.
AdminGuard(b) ==
    IF b = Null THEN "machine" \in Kinds ELSE session[b] # Null /\ is_admin(session[b])

Manage(r, b, op, u, arg, pc) ==
    /\ op \in Kinds /\ AdminGuard(b)
    /\ Begin(r, op, u, arg, b, pc)
    /\ UNCHANGED <<row, session, codes, tokens, deny, passwords, ever>>

\* Success is reported, after a revocation of the tokens the user had when
\* it was asked for.
Report(r) ==
    /\ answer' = [op |-> req[r].op, user |-> req[r].user,
                  old |-> IF req[r].pc = "revoke" THEN req[r].old ELSE {}]
    /\ Done(r)

\* create_user looks for the name first.
FindForCreate(r) ==
    /\ Is(r, "find", {"create"})
    /\ IF row[req[r].user] = Null THEN Goto(r, "insert") ELSE Done(r)
    /\ UNCHANGED <<row, session, codes, tokens, deny, history>>

create_user(r) ==
    /\ Is(r, "insert", {"create"})
    /\ \/ /\ passwords < MaxPassword
          /\ passwords' = passwords + 1
          /\ save_user(r, [req[r].arg EXCEPT !.pw = passwords + 1])
       \/ row[req[r].user] # Null /\ UNCHANGED <<row, barred, ever, decided, passwords>>
    /\ Done(r)
    /\ UNCHANGED <<session, codes, tokens, deny, answer>>

\* Mutant: an absent field is written with its default.
PatchDefaults(c, edit) ==
    [c EXCEPT !.role = IF edit.role \in {"admin", "user"} THEN edit.role ELSE @,
              !.listed = IF edit.listed = Null THEN @ ELSE edit.listed,
              !.enabled = IF edit.enabled = Null THEN TRUE ELSE edit.enabled]

\* The columns the body names; a role that is neither of the two is ignored.
Patch(c, edit) ==
    [c EXCEPT !.role = IF edit.role \in {"admin", "user"} THEN edit.role ELSE @,
              !.listed = IF edit.listed = Null THEN @ ELSE edit.listed,
              !.enabled = IF edit.enabled = Null THEN @ ELSE edit.enabled]

FindForUpdate(r) ==
    LET q == req[r]
    IN /\ Is(r, "find", {"update"})
       /\ IF row[q.user] = Null THEN Done(r) ELSE Hold(r, Patch(row[q.user], q.arg), "write")
       /\ UNCHANGED <<row, session, codes, tokens, deny, history>>

\* History: what the decision makes of the row decided so far.
Decide(u, c) ==
    decided' = IF decided = Null THEN Null
               ELSE [decided EXCEPT ![u] = IF decided[u] = Null THEN Null ELSE c]

\* Every column of the copy is written.
update_user(r) ==
    LET q == req[r]
    IN /\ Is(r, "write", {"update"})
       /\ Update(q.user, q.copy)
       /\ Decide(q.user, [decided[q.user] EXCEPT
                    !.role = IF q.arg.role \in {"admin", "user"} THEN q.arg.role ELSE @,
                    !.listed = IF q.arg.listed = Null THEN @ ELSE q.arg.listed,
                    !.enabled = IF q.arg.enabled = Null THEN @ ELSE q.arg.enabled])
       /\ Report(r)
       /\ UNCHANGED <<session, codes, tokens, deny, passwords, ever>>

FindForDelete(r) ==
    /\ Is(r, "find", {"delete"})
    /\ IF row[req[r].user] = Null THEN Done(r)
       ELSE Goto(r, IF mongo THEN "remove" ELSE "unlink")
    /\ UNCHANGED <<row, session, codes, tokens, deny, history>>

\* Mutant: deletion unlinks tokens without revoking them.
UnlinkOnly(r) ==
    /\ Is(r, "unlink", {"delete"})
    /\ tokens' = {IF t.user = req[r].user THEN [t EXCEPT !.user = Null] ELSE t : t \in tokens}
    /\ Goto(r, "codes")
    /\ UNCHANGED <<row, session, codes, deny, history>>

\* delete_user, first statement: revoked = 1, user_id = NULL
Unlink(r) ==
    /\ Is(r, "unlink", {"delete"})
    /\ tokens' = {IF t.user = req[r].user THEN [t EXCEPT !.user = Null, !.live = FALSE] ELSE t
                    : t \in tokens}
    /\ Goto(r, "codes")
    /\ UNCHANGED <<row, session, codes, deny, history>>

\* The second; device authorizations, the third, are not modelled.
DeleteCodes(r) ==
    /\ Is(r, "codes", {"delete"})
    /\ codes' = codes \ {req[r].user}
    /\ Goto(r, "remove")
    /\ UNCHANGED <<row, session, tokens, deny, history>>

Referenced(u) == u \in codes \/ \E t \in tokens : t.user = u

\* The fourth, unless a foreign key refuses it.
delete_user(r) ==
    LET u == req[r].user
    IN /\ ~mongo /\ Is(r, "remove", {"delete"})
       /\ \/ /\ ~Referenced(u)
             /\ SetRow(u, Null)
             /\ Decide(u, Null)
             /\ Goto(r, "revoke")
          \/ Referenced(u) /\ Done(r) /\ UNCHANGED <<row, barred, decided>>
       /\ UNCHANGED <<session, codes, tokens, deny, answer, passwords, ever>>

\* delete_user of MongoDB is one statement.
DeleteOne(r) ==
    /\ mongo /\ Is(r, "remove", {"delete"})
    /\ SetRow(req[r].user, Null)
    /\ Decide(req[r].user, Null)
    /\ Goto(r, "revoke")
    /\ UNCHANGED <<session, codes, tokens, deny, answer, passwords, ever>>

set_user_enabled(r) ==
    LET u == req[r].user
        on == req[r].arg
    IN /\ Is(r, "write", {"enable"})
       /\ Update(u, [row[u] EXCEPT !.enabled = on])
       /\ Decide(u, [decided[u] EXCEPT !.enabled = on])
       /\ IF on THEN Report(r) ELSE Goto(r, "revoke") /\ UNCHANGED answer
       /\ UNCHANGED <<session, codes, tokens, deny, passwords, ever>>

set_user_role(r) ==
    LET u == req[r].user
    IN /\ Is(r, "write", {"role"})
       /\ Update(u, [row[u] EXCEPT !.role = req[r].arg])
       /\ Decide(u, [decided[u] EXCEPT !.role = req[r].arg])
       /\ Report(r)
       /\ UNCHANGED <<session, codes, tokens, deny, passwords, ever>>

reset_user_password(r) ==
    LET u == req[r].user
    IN /\ Is(r, "write", {"reset"})
       /\ passwords < MaxPassword /\ passwords' = passwords + 1
       /\ Update(u, [row[u] EXCEPT !.pw = passwords + 1])
       /\ Decide(u, [decided[u] EXCEPT !.pw = passwords + 1])
       /\ Goto(r, "revoke")
       /\ UNCHANGED <<session, codes, tokens, deny, answer, ever>>

RevokeTokensOf(u) ==
    IF mongo THEN UNCHANGED tokens
    ELSE tokens' = {IF t.user = u THEN [t EXCEPT !.live = FALSE] ELSE t : t \in tokens}

\* Mutant: a password reset leaves the tokens alone.
RevokeOnDelete(r) ==
    /\ Is(r, "revoke", {"enable", "reset", "delete"})
    /\ IF req[r].op = "reset" THEN UNCHANGED tokens ELSE RevokeTokensOf(req[r].user)
    /\ Report(r)
    /\ UNCHANGED <<row, session, codes, deny, passwords, ever, decided, barred>>

\* The handlers' last statement, whose failure is ignored.
revoke_tokens_by_user_id(r) ==
    /\ Is(r, "revoke", {"enable", "reset", "delete"})
    /\ RevokeTokensOf(req[r].user) \/ (dbFails /\ UNCHANGED tokens)
    /\ Report(r)
    /\ UNCHANGED <<row, session, codes, deny, passwords, ever, decided, barred>>

bulk_revoke_by_user(b, u) ==
    /\ "bulk" \in Kinds /\ AdminGuard(b)
    /\ RevokeTokensOf(u)
    /\ UNCHANGED <<row, session, codes, deny, req, history>>

\* Any other statement that fails ends its request with an error.
StatementFails(r) ==
    /\ dbFails /\ req[r] # Idle /\ req[r].pc \notin {"revoke", "verify"}
    /\ Done(r)
    /\ UNCHANGED <<row, session, codes, tokens, deny, history>>

-----------------------------------------------------------------------------
Step(r) ==
    \/ FindForLogin(r) \/ VerifyPassword(r)
    \/ find_or_create_social_user(r) \/ InsertSocial(r)
    \/ resolve_subject(r) \/ Provision(r) \/ Reread(r) \/ save_token(r)
    \/ FindForCreate(r) \/ create_user(r) \/ FindForUpdate(r) \/ update_user(r)
    \/ FindForDelete(r) \/ Unlink(r) \/ DeleteCodes(r) \/ delete_user(r)
    \/ DeleteOne(r) \/ set_user_enabled(r) \/ set_user_role(r) \/ reset_user_password(r)
    \/ revoke_tokens_by_user_id(r) \/ StatementFails(r)

ManageUser(r, b, u) ==
    \/ \E c \in {NewUser, [NewUser EXCEPT !.role = "admin", !.enabled = FALSE]} :
          Manage(r, b, "create", u, c, "find")
    \/ \E edit \in Edit : Manage(r, b, "update", u, edit, "find")
    \/ Manage(r, b, "delete", u, Null, "find")
    \/ \E on \in BOOLEAN : Manage(r, b, "enable", u, on, "write")
    \/ \E role \in {"admin", "user"} : Manage(r, b, "role", u, role, "write")
    \/ Manage(r, b, "reset", u, Null, "write")

Happens ==
    \/ \E r \in Request : Step(r)
    \/ \E r \in Request, u \in UserId :
          \/ \E ip \in Ip, b \in Browser :
                \/ \E pw \in 1..MaxPassword : login_submit(r, ip, b, u, pw)
                \/ auth_callback(r, ip, b, u)
          \/ \E ip \in Ip : handle_jwt_bearer_grant(r, ip, u)
          \/ redeem(r, u)
          \/ \E b \in Browser \cup {Null} : ManageUser(r, b, u)
    \/ \E b \in Browser : authorize(b) \/ logout(b)
    \/ \E b \in Browser \cup {Null}, u \in UserId : bulk_revoke_by_user(b, u)
    \/ \E u \in UserId : add_denylist("username", u)
    \/ \E ip \in Ip : add_denylist("ip", ip)
    \/ \E entry \in deny : remove_denylist(entry)

UsersNext == Happens /\ UNCHANGED deployment

UsersSpec == UsersInit /\ [][UsersNext]_userVars

-----------------------------------------------------------------------------
(* Properties *)

\* The types of the state; what a request carries depends on what it is for.
Ops == {"password", "social", "assertion", "redeem"} \cup AdminOps

RequestOK(q) ==
    \/ q = Idle
    \/ /\ q \in [pc : {"find", "verify", "insert", "mint", "reread", "write", "unlink", "codes",
                       "remove", "revoke"},
                 op : Ops, user : UserId, arg : {q.arg}, copy : Row \cup {Null},
                 by : Browser \cup {Null}, old : SUBSET (1..MaxToken)]
       /\ q.op \in {"password", "social"} => q.by \in Browser
       /\ q.op = "create" => q.arg \in Row
       /\ q.op = "update" => q.arg \in Edit
       /\ q.op = "enable" => q.arg \in BOOLEAN
       /\ q.op = "role" => q.arg \in {"admin", "user"}
       /\ q.pc = "verify" \/ (q.pc = "write" /\ q.op = "update") => q.copy # Null

UsersTypeOK ==
    /\ mongo \in BOOLEAN /\ dbFails \in BOOLEAN
    /\ row \in [UserId -> Row \cup {Null}]
    /\ session \in [Browser -> {Null} \cup [user : UserId, role : {"admin", "user"},
                                             listed : BOOLEAN]]
    /\ codes \subseteq UserId
    /\ tokens \subseteq [id : 1..MaxToken, owner : UserId, user : UserId \cup {Null}, live : BOOLEAN]
    /\ IsFiniteSet(tokens)
    /\ deny \subseteq {"username", "ip"} \X (UserId \cup Ip)
    /\ req = [r \in Request |-> req[r]] /\ \A r \in Request : RequestOK(req[r])
    /\ answer # Null => answer \in [op : AdminOps, user : UserId, old : SUBSET (1..MaxToken)]
    /\ passwords \in 1..MaxPassword
    /\ ever \subseteq UserId
    /\ decided # Null => decided \in [UserId -> Row \cup {Null}]
    /\ barred \in [UserId -> SUBSET Request]

\* A live token belongs to a user that exists, although deleting a user is
\* four statements between which tokens may be created, and although the
\* same id may be provisioned again (delete_user, save_token).  MongoDB has
\* no foreign keys, and its delete_user leaves tokens alone.
DeletedLeaveNothing == ~mongo => \A t \in tokens : t.live => row[t.owner] # Null

\* When an administrator is told that a user was deleted or disabled or the
\* password was reset, the tokens from before the request are revoked
\* (revoke_tokens_by_user_id, whose failure is ignored, and which MongoDB has
\* not).
ReportedMeansRevoked ==
    ~mongo /\ ~dbFails /\ answer # Null => \A t \in tokens : t.id \in answer.old => ~t.live

\* As long as no two administrators' requests meet at one user, each row is
\* what the last decisions made it, whatever logins, provisioning and grants
\* run at the same time (update_user).
RowsAsDecided == decided # Null => row = decided

\* What administrators decided about users is done and stays done.
DecisionsStick == RowsAsDecided /\ ReportedMeansRevoked

\* A password login or an assertion for a user that is never enabled while
\* it runs yields no session and no token, whoever creates, disables or
\* provisions the row meanwhile (login_submit, resolve_subject).
DisabledStaysOut ==
    [][\A r \in Request : LET q == req[r] IN
          /\ (Is(r, "verify", {"password"}) /\ r \in barred[q.user] /\ req'[r] = Idle) => session' = session
          /\ (Is(r, "mint", {"assertion"}) /\ r \in barred[q.user] /\ req'[r] = Idle)
                => tokens' = tokens]_userVars
=============================================================================
