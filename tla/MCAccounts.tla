----------------------------- MODULE MCAccounts -----------------------------
(***************************************************************************)
(* Users, their sessions and what others do in their name: one browser at  *)
(* the authorization endpoint, in two tabs (LoginFlow), the users table    *)
(* under its administrators (UserAccounts), and tokens made from tokens    *)
(* (Delegation).  A behaviour is one of the part it starts with, and the   *)
(* others stand still.                                                     *)
(***************************************************************************)
EXTENDS Delegation, UserAccounts, LoginFlow, TLC

VARIABLE part

partVars == <<part, browserVars, userVars, vars>>

\* An agent may act on a front end's tokens and on its own.
Registered == "front" :> {"read", "write"} @@ "agent" :> {"read"}
Actors == "front" :> {"agent"} @@ "agent" :> {"agent"}

\* The peer knows the user's address under another name.
Address == "user" :> "peer" @@ "peer" :> None

Ask(name, par, prompt, maxAge, actor) ==
    [name |-> name, par |-> par, prompt |-> prompt, maxAge |-> maxAge, actor |-> actor]

\* Requests with max_age and with prompt=login, two of them in two tabs.
Aged == {Ask("aged", FALSE, "absent", 1, FALSE), Ask("forced", FALSE, "login", MaxAgeAbsent, FALSE)}

Sessions == INSTANCE LoginFlow WITH Req <- Aged

\* An agent's request, a pushed one and one with prompt=none.
Assorted ==
    {Ask("named", FALSE, "consent", MaxAgeAbsent, TRUE), Ask("par", TRUE, "absent", MaxAgeAbsent, FALSE),
     Ask("silent", FALSE, "none", 0, FALSE)}

Tabs == INSTANCE LoginFlow WITH Req <- Assorted, ParTtl <- 1, MaxTime <- 1

Visits == Aged \cup Assorted

Unnamed == [role |-> Null, listed |-> Null, enabled |-> Null]
Demote == [Unnamed EXCEPT !.role = "user"]
Disable == [Unnamed EXCEPT !.enabled = FALSE]
List == [Unnamed EXCEPT !.role = "other", !.listed = TRUE]
Edits == {Demote, Disable, List}
Everything == {"password", "social", "assertion", "authorize", "machine", "bulk", "deny",
               "create", "update", "delete", "enable", "role", "reset"}

\* A user is deleted, statement by statement, and provisioned again.
Deletion == INSTANCE UserAccounts WITH
    Kinds <- {"social", "assertion", "authorize", "machine", "delete", "bulk"},
    Edit <- {}, MaxPassword <- 1

\* Updates, resets, role changes and disabling by the administrator.
Decisions == INSTANCE UserAccounts WITH
    Kinds <- {"social", "authorize", "update", "enable", "reset"},
    Edit <- {Demote, Disable}, MaxToken <- 1

\* An administrator, a social login and assertions race to create one user.
Creation == INSTANCE UserAccounts WITH
    Root <- "admin", Kinds <- {"password", "social", "assertion", "create", "machine"},
    Edit <- {}, MaxToken <- 1

\* The same administration over MongoDB, with the denylist.
OverMongo == INSTANCE UserAccounts WITH
    Kinds <- {"assertion", "machine", "update", "role", "enable", "delete", "deny"},
    Edit <- {Demote, List}, MaxPassword <- 1, MaxToken <- 1

-----------------------------------------------------------------------------
NoTokens ==
    /\ issued = << >> /\ revoked = {} /\ users = {} /\ clock = 0
    /\ setup = [opaque |-> FALSE, byEmail |-> FALSE]

PartInit ==
    /\ part \in {"sessions", "tabs", "deletion", "decisions", "creation", "mongo", "delegation"}
    /\ IF part = "sessions" THEN Sessions!BrowserInit ELSE Tabs!BrowserInit
    /\ IF part = "creation" THEN Creation!UsersInit ELSE UsersInit
    /\ mongo = (part = "mongo") /\ dbFails = (part = "deletion")
    /\ IF part = "delegation" THEN Init /\ setup.opaque = setup.byEmail /\ issued[1].user # "peer" ELSE NoTokens

\* The properties of Delegation speak of the issued tokens only.  A revocation
\* takes derivations away and adds none, and nothing follows the last token, so
\* neither is explored any further.
PartNext ==
    \/ /\ \/ part = "sessions" /\ Sessions!BrowserNext
          \/ part = "tabs" /\ Tabs!BrowserNext
       /\ UNCHANGED <<part, userVars, vars>>
    \/ /\ \/ part = "deletion" /\ Deletion!UsersNext
          \/ part = "decisions" /\ Decisions!UsersNext
          \/ part = "creation" /\ Creation!UsersNext
          \/ part = "mongo" /\ OverMongo!UsersNext
       /\ UNCHANGED <<part, browserVars, vars>>
    \/ /\ part = "delegation" /\ Len(issued) < MaxTokens /\ revoked = {} /\ Next
       /\ UNCHANGED <<part, browserVars, userVars>>

PartSpec == PartInit /\ [][PartNext]_partVars

Symmetry == Permutations(Tab) \cup Permutations(Request)
=============================================================================
