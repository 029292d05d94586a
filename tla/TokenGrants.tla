------------------------------ MODULE TokenGrants ------------------------------
(***************************************************************************)
(* The grant core of the token endpoint: authorization codes, the token    *)
(* rows minted from them, refresh rotation, replay cascades over a token   *)
(* family, and /oauth/revoke.  Requests run concurrently; every step of a  *)
(* request is one SQL statement (or one actor message that is a single     *)
(* statement), because the handlers hold no lock and open no transaction   *)
(* across their awaits.  A storage error, a refused client or a crash may  *)
(* end a request between any two steps (Abort).                            *)
(*                                                                         *)
(* A table is a set of rows with one set per boolean column and one        *)
(* function per other column.  Validation caches are the subject of        *)
(* TokenCache; here every read is of the primary database.                 *)
(***************************************************************************)
EXTENDS FiniteSets

CONSTANTS
    Client,          \* registered client ids
    RefreshClient,   \* those whose grant_types list holds refresh_token
    Code,            \* authorization code strings
    LegacyCode,      \* code rows older than migration V18 (no token_family)
    Token,           \* token rows (an access token and its refresh token)
    Family,          \* token_family UUIDs
    Request,         \* slots for requests in flight
    None             \* an absent Option

ASSUME RefreshClientAssumption == RefreshClient \subseteq Client
ASSUME LegacyCodeAssumption == LegacyCode \subseteq Code
ASSUME NoneAssumption == None \notin Client \cup Code \cup Token \cup Family
ASSUME DistinctAssumption == Code \cap Token = {}

VARIABLES
    \* table authorization_codes: its rows, used, expires_at passed, columns
    codes, used, expired, codeClient, codeFamily,
    \* table tokens: its rows, revoked, refresh_token present, columns
    tokens, revoked, refreshable, tokenClient, tokenFamily,
    \* locals of each request: next statement, handler, client_id, whether
    \* redirect_uri and code_verifier match, the code or token presented, the
    \* family to mint into, the family its next revoke_token_family names
    pc, kind, caller, proven, grant, family, cascade,
    \* family UUIDs generated so far
    uuids,
    \* history: what each token was minted from, its root code, the grants two
    \* requests held at one time, the families cascaded while no request held
    \* them, the codes whose replay cascade was executed
    from, root, raced, sealed, replayed

codeTable == <<codes, used, expired, codeClient, codeFamily>>
tokenTable == <<tokens, revoked, refreshable, tokenClient, tokenFamily>>
locals == <<pc, kind, caller, proven, grant, family, cascade>>
history == <<from, root, raced, sealed, replayed>>
vars == <<codeTable, tokenTable, locals, uuids, history>>

-----------------------------------------------------------------------------
(* Requests *)

Step == {"idle", "validate_code", "lookup_code", "mark_used", "mint_code",
         "validate_refresh", "set_family", "read_row", "revoke_row",
         "cascade", "mint_refresh"}

Kind == {"none", "code", "refresh", "revoke", "replay"}

\* Validated, and able to reach a CreateToken without another validation.
Minting == {"mark_used", "mint_code", "set_family", "read_row", "revoke_row",
            "cascade", "mint_refresh"}

\* Request r is past validation of the code or refresh token g.
Holds(r, g) ==
    kind[r] \in {"code", "refresh"} /\ pc[r] \in Minting /\ grant[r] = g

\* Request r may still mint into family f.
HoldsFamily(r, f) ==
    kind[r] \in {"code", "refresh"} /\ pc[r] \in Minting /\ family[r] = f

\* A request slot takes up a new request.
Enter(r, step, k, cl, g) ==
    /\ pc[r] = "idle"
    /\ pc' = [pc EXCEPT ![r] = step]
    /\ kind' = [kind EXCEPT ![r] = k]
    /\ caller' = [caller EXCEPT ![r] = cl]
    /\ grant' = [grant EXCEPT ![r] = g]
    /\ UNCHANGED <<family, cascade>>

\* The response is sent and the slot is free again.
Finish(r) ==
    /\ pc' = [pc EXCEPT ![r] = "idle"]
    /\ kind' = [kind EXCEPT ![r] = "none"]
    /\ caller' = [caller EXCEPT ![r] = None]
    /\ proven' = proven \ {r}
    /\ grant' = [grant EXCEPT ![r] = None]
    /\ family' = [family EXCEPT ![r] = None]
    /\ cascade' = [cascade EXCEPT ![r] = None]

\* A detected replay goes on to cascade over family f, and to nothing else.
Replay(r, f) ==
    /\ pc' = [pc EXCEPT ![r] = "cascade"]
    /\ kind' = [kind EXCEPT ![r] = "replay"]
    /\ proven' = proven \ {r}
    /\ caller' = [caller EXCEPT ![r] = None]
    /\ cascade' = [cascade EXCEPT ![r] = f]
    /\ UNCHANGED <<grant, family>>

\* Two requests past the validation of the same grant.
NoteRace(r) ==
    raced' = IF \E s \in Request \ {r} : Holds(s, grant[r])
               THEN raced \cup {grant[r]} ELSE raced

Init ==
    /\ codes = LegacyCode
    /\ used = {} /\ expired = {}
    /\ \E owner \in Client :
         codeClient = [c \in Code |-> IF c \in LegacyCode THEN owner ELSE None]
    /\ codeFamily = [c \in Code |-> None]
    /\ tokens = {} /\ revoked = {} /\ refreshable = {}
    /\ tokenClient = [t \in Token |-> None]
    /\ tokenFamily = [t \in Token |-> None]
    /\ pc = [r \in Request |-> "idle"]
    /\ kind = [r \in Request |-> "none"]
    /\ caller = [r \in Request |-> None]
    /\ proven = {}
    /\ grant = [r \in Request |-> None]
    /\ family = [r \in Request |-> None]
    /\ cascade = [r \in Request |-> None]
    /\ uuids = {}
    /\ from = [t \in Token |-> None]
    /\ root = [t \in Token |-> None]
    /\ raced = {} /\ sealed = {} /\ replayed = {}

-----------------------------------------------------------------------------
(* Grants coming into being *)

\* The end of /oauth/authorize: CreateAuthorizationCode stores a row with a
\* fresh token_family.
CreateAuthorizationCode(c, cl, f) ==
    /\ c \notin codes
    /\ f \notin uuids
    /\ uuids' = uuids \cup {f}
    /\ codes' = codes \cup {c}
    /\ codeClient' = [codeClient EXCEPT ![c] = cl]
    /\ codeFamily' = [codeFamily EXCEPT ![c] = f]
    /\ UNCHANGED <<used, expired, tokenTable, locals, history>>

\* The clock passes the row's expires_at.
ExpireCode(c) ==
    /\ c \in codes \ expired
    /\ expired' = expired \cup {c}
    /\ UNCHANGED <<codes, used, codeClient, codeFamily, tokenTable, locals,
                   uuids, history>>

\* INSERT INTO tokens: a live row.
SaveToken(t, cl, f, refresh) ==
    /\ t \notin tokens
    /\ tokens' = tokens \cup {t}
    /\ refreshable' = IF refresh THEN refreshable \cup {t} ELSE refreshable
    /\ tokenClient' = [tokenClient EXCEPT ![t] = cl]
    /\ tokenFamily' = [tokenFamily EXCEPT ![t] = f]
    /\ UNCHANGED revoked

\* The other grants mint rows with no token_family: the device grant with a
\* refresh token if the client may use one, client_credentials, token exchange,
\* jwt-bearer and transaction authorization without.
CreateTokenFromOtherGrant(t, cl, refresh) ==
    /\ refresh => cl \in RefreshClient
    /\ SaveToken(t, cl, None, refresh)
    /\ UNCHANGED <<codeTable, locals, uuids, history>>

-----------------------------------------------------------------------------
(* grant_type=authorization_code *)

BeginCodeGrant(r, cl, c, ok) ==
    /\ c \in codes
    /\ Enter(r, "validate_code", "code", cl, c)
    /\ proven' = IF ok THEN proven \cup {r} ELSE proven
    /\ UNCHANGED <<codeTable, tokenTable, uuids, history>>

CodeAccepted(r) ==
    /\ grant[r] \notin used
    /\ grant[r] \notin expired
    /\ codeClient[grant[r]] = caller[r]
    /\ r \in proven

\* A validated code is remembered with the family of the row that was read.
ValidateAuthorizationCode(r) ==
    /\ pc[r] = "validate_code"
    /\ CodeAccepted(r)
    /\ pc' = [pc EXCEPT ![r] = "mark_used"]
    /\ family' = [family EXCEPT ![r] = codeFamily[grant[r]]]
    /\ NoteRace(r)
    /\ UNCHANGED <<codeTable, tokenTable, kind, caller, proven, grant, cascade,
                   uuids, from, root, sealed, replayed>>

RefuseAuthorizationCode(r) ==
    /\ pc[r] = "validate_code"
    /\ ~CodeAccepted(r)
    /\ pc' = [pc EXCEPT ![r] = "lookup_code"]
    /\ UNCHANGED <<codeTable, tokenTable, kind, caller, proven, grant, family,
                   cascade, uuids, history>>

\* The refused code is read again: a used row with a family is a replay.
LookupAuthorizationCode(r) ==
    /\ pc[r] = "lookup_code"
    /\ IF grant[r] \in used /\ codeFamily[grant[r]] # None
         THEN Replay(r, codeFamily[grant[r]])
         ELSE Finish(r)
    /\ UNCHANGED <<codeTable, tokenTable, uuids, history>>

\* Mutant: the UPDATE that burns the code is lost.
MarkUsedLost(r) ==
    /\ pc[r] = "mark_used"
    /\ pc' = [pc EXCEPT ![r] = "mint_code"]
    /\ UNCHANGED <<codeTable, tokenTable, kind, caller, proven, grant, family,
                   cascade, uuids, history>>

\* Reached only after the client is resolved, may use the grant, is
\* authenticated and has proved the named actor (a refusal is an Abort).
MarkAuthorizationCodeUsed(r) ==
    /\ pc[r] = "mark_used"
    /\ used' = used \cup {grant[r]}
    /\ pc' = [pc EXCEPT ![r] = "mint_code"]
    /\ UNCHANGED <<codes, expired, codeClient, codeFamily, tokenTable, kind,
                   caller, proven, grant, family, cascade, uuids, history>>

\* The family f of a token minted from a code: none without a refresh token,
\* else the code's, else (a legacy code) a fresh one.
CodeTokenFamily(r, f) ==
    IF caller[r] \notin RefreshClient THEN f = None /\ uuids' = uuids
    ELSE IF family[r] # None THEN f = family[r] /\ uuids' = uuids
    ELSE f \in Family \ uuids /\ uuids' = uuids \cup {f}

CreateTokenFromCode(r, t, f) ==
    /\ pc[r] = "mint_code"
    /\ CodeTokenFamily(r, f)
    /\ SaveToken(t, caller[r], f, caller[r] \in RefreshClient)
    /\ from' = [from EXCEPT ![t] = grant[r]]
    /\ root' = [root EXCEPT ![t] = grant[r]]
    /\ Finish(r)
    /\ UNCHANGED <<codeTable, raced, sealed, replayed>>

-----------------------------------------------------------------------------
(* grant_type=refresh_token *)

\* The client is authenticated and may use the grant before the row is read.
BeginRefreshGrant(r, cl, t) ==
    /\ cl \in RefreshClient
    /\ t \in tokens \cap refreshable
    /\ Enter(r, "validate_refresh", "refresh", cl, t)
    /\ UNCHANGED <<codeTable, tokenTable, proven, uuids, history>>

\* A live row starts its rotation.  Only a row without a family goes through
\* SetTokenFamily.
Rotate(r) ==
    /\ pc' = [pc EXCEPT ![r] = IF tokenFamily[grant[r]] = None
                                 THEN "set_family" ELSE "read_row"]
    /\ family' = [family EXCEPT ![r] = tokenFamily[grant[r]]]
    /\ NoteRace(r)
    /\ UNCHANGED <<codeTable, tokenTable, kind, caller, proven, grant, cascade,
                   uuids, from, root, sealed, replayed>>

\* Mutant: a revoked row still rotates.
RotateRevoked(r) ==
    /\ pc[r] = "validate_refresh"
    /\ tokenClient[grant[r]] = caller[r]
    /\ Rotate(r)

\* Mutant: the ownership check after ValidateRefreshToken is missing.
RotateAnyClient(r) ==
    /\ pc[r] = "validate_refresh"
    /\ grant[r] \notin revoked
    /\ Rotate(r)

ValidateRefreshToken(r) ==
    /\ pc[r] = "validate_refresh"
    /\ grant[r] \notin revoked
    /\ tokenClient[grant[r]] = caller[r]
    /\ Rotate(r)

\* A revoked row is a replay, whoever presents it; a live row of another
\* client is refused.
RefuseRefreshToken(r) ==
    /\ pc[r] = "validate_refresh"
    /\ grant[r] \in revoked \/ tokenClient[grant[r]] # caller[r]
    /\ IF grant[r] \in revoked /\ tokenFamily[grant[r]] # None
         THEN Replay(r, tokenFamily[grant[r]])
         ELSE Finish(r)
    /\ UNCHANGED <<codeTable, tokenTable, uuids, history>>

\* The rotation goes on in the fresh family f.
AdoptFamily(r, f) ==
    /\ pc[r] = "set_family"
    /\ f \notin uuids
    /\ uuids' = uuids \cup {f}
    /\ pc' = [pc EXCEPT ![r] = "read_row"]
    /\ family' = [family EXCEPT ![r] = f]
    /\ UNCHANGED <<codeTable, tokens, refreshable, tokenClient, kind, caller,
                   proven, grant, cascade, history>>

\* Mutant: the two strings of the UPDATE are swapped.
SetFamilySwapped(r, f, stored) ==
    /\ AdoptFamily(r, f)
    /\ tokenFamily' = [tokenFamily EXCEPT ![grant[r]] = grant[r]]
    /\ UNCHANGED revoked

\* Best effort: the fresh family is used for the new token even when the
\* UPDATE of the old row fails (stored = FALSE).
SetTokenFamily(r, f, stored) ==
    /\ AdoptFamily(r, f)
    /\ tokenFamily' = IF stored THEN [tokenFamily EXCEPT ![grant[r]] = f]
                                ELSE tokenFamily
    /\ UNCHANGED revoked

\* Mutant: the rotated row is minted without the family.
MintOutsideFamily(r, t) ==
    /\ pc[r] = "mint_refresh"
    /\ SaveToken(t, caller[r], None, TRUE)
    /\ from' = [from EXCEPT ![t] = grant[r]]
    /\ root' = [root EXCEPT ![t] = root[grant[r]]]
    /\ Finish(r)
    /\ UNCHANGED <<codeTable, uuids, raced, sealed, replayed>>

CreateTokenFromRefresh(r, t) ==
    /\ pc[r] = "mint_refresh"
    /\ SaveToken(t, caller[r], family[r], TRUE)
    /\ from' = [from EXCEPT ![t] = grant[r]]
    /\ root' = [root EXCEPT ![t] = root[grant[r]]]
    /\ Finish(r)
    /\ UNCHANGED <<codeTable, uuids, raced, sealed, replayed>>

-----------------------------------------------------------------------------
(* POST /oauth/revoke and the RevokeToken message *)

\* Mutant: any authenticated client may revoke.
RevokeAnyClient(r, cl, t) ==
    /\ t \in tokens
    /\ Enter(r, "read_row", "revoke", cl, t)
    /\ UNCHANGED <<codeTable, tokenTable, proven, uuids, history>>

\* The lookup and the ownership check; a row of another client is refused.
\* A row's client never changes, so the two reads are one step.
BeginRevoke(r, cl, t) ==
    /\ t \in tokens
    /\ tokenClient[t] = cl
    /\ Enter(r, "read_row", "revoke", cl, t)
    /\ UNCHANGED <<codeTable, tokenTable, proven, uuids, history>>

\* RevokeToken, statement 1: read the row, for the family to cascade over.
ReadTokenToRevoke(r) ==
    /\ pc[r] = "read_row"
    /\ pc' = [pc EXCEPT ![r] = "revoke_row"]
    /\ cascade' = [cascade EXCEPT ![r] = tokenFamily[grant[r]]]
    /\ UNCHANGED <<codeTable, tokenTable, kind, caller, proven, grant, family,
                   uuids, history>>

\* What a request does once its revocation is over: a rotation mints, a
\* revocation or a replay has nothing left to do.
AfterRevocation(r) ==
    IF kind[r] = "refresh"
      THEN /\ pc' = [pc EXCEPT ![r] = "mint_refresh"]
           /\ cascade' = [cascade EXCEPT ![r] = None]
           /\ UNCHANGED <<kind, caller, proven, grant, family>>
      ELSE Finish(r)

\* From the row to its family, if it has one.
AfterRow(r) ==
    IF cascade[r] # None
      THEN /\ pc' = [pc EXCEPT ![r] = "cascade"]
           /\ UNCHANGED <<kind, caller, proven, grant, family, cascade>>
      ELSE AfterRevocation(r)

\* Mutant: the row is left to the cascade when it has a family.
RevokeByCascadeOnly(r) ==
    /\ pc[r] = "revoke_row"
    /\ revoked' = IF cascade[r] # None THEN revoked ELSE revoked \cup {grant[r]}
    /\ AfterRow(r)
    /\ UNCHANGED <<codeTable, tokens, refreshable, tokenClient, tokenFamily,
                   uuids, history>>

\* RevokeToken, statement 2: revoke the row itself.
RevokeTokenRow(r) ==
    /\ pc[r] = "revoke_row"
    /\ revoked' = revoked \cup {grant[r]}
    /\ AfterRow(r)
    /\ UNCHANGED <<codeTable, tokens, refreshable, tokenClient, tokenFamily,
                   uuids, history>>

\* The cascade, from RevokeToken and from both kinds of replay:
\* UPDATE tokens SET revoked = 1 WHERE token_family = ?.
RevokeTokenFamily(r) ==
    /\ pc[r] = "cascade"
    /\ revoked' = revoked \cup {t \in tokens : tokenFamily[t] = cascade[r]}
    /\ AfterRevocation(r)
    /\ sealed' = IF \E s \in Request : HoldsFamily(s, cascade[r])
                   THEN sealed ELSE sealed \cup {cascade[r]}
    /\ replayed' = IF kind[r] = "replay" /\ grant[r] \in Code
                     THEN replayed \cup {grant[r]} ELSE replayed
    /\ UNCHANGED <<codeTable, tokens, refreshable, tokenClient, tokenFamily,
                   uuids, from, root, raced>>

\* The cascade is best effort at every call site: its error is dropped.
LoseCascade(r) ==
    /\ pc[r] = "cascade"
    /\ AfterRevocation(r)
    /\ UNCHANGED <<codeTable, tokenTable, uuids, history>>

\* Administration revokes one row by its id, or all rows of a client or of a
\* user, with a single UPDATE and no cascade.  Users are not modelled, so the
\* rows of one may be any.
AdminRevoke(rows) ==
    /\ rows \cap (tokens \ revoked) # {}
    /\ revoked' = revoked \cup (rows \cap tokens)
    /\ UNCHANGED <<codeTable, tokens, refreshable, tokenClient, tokenFamily,
                   locals, uuids, history>>

\* A refused client, a storage error propagated with `?`, a refresh token past
\* its own exp, a scope that is not a subset, or a crash.
Abort(r) ==
    /\ pc[r] # "idle"
    /\ Finish(r)
    /\ UNCHANGED <<codeTable, tokenTable, uuids, history>>

-----------------------------------------------------------------------------
CodeGrantStep(r) ==
    \/ \E cl \in Client, c \in Code, ok \in BOOLEAN : BeginCodeGrant(r, cl, c, ok)
    \/ ValidateAuthorizationCode(r)
    \/ RefuseAuthorizationCode(r)
    \/ LookupAuthorizationCode(r)
    \/ MarkAuthorizationCodeUsed(r)
    \/ \E t \in Token, f \in Family \cup {None} : CreateTokenFromCode(r, t, f)

RefreshGrantStep(r) ==
    \/ \E cl \in Client, t \in Token : BeginRefreshGrant(r, cl, t)
    \/ ValidateRefreshToken(r)
    \/ RefuseRefreshToken(r)
    \/ \E f \in Family, stored \in BOOLEAN : SetTokenFamily(r, f, stored)
    \/ \E t \in Token : CreateTokenFromRefresh(r, t)

RevocationStep(r) ==
    \/ \E cl \in Client, t \in Token : BeginRevoke(r, cl, t)
    \/ ReadTokenToRevoke(r)
    \/ RevokeTokenRow(r)
    \/ RevokeTokenFamily(r)
    \/ LoseCascade(r)

Environment ==
    \/ \E c \in Code, cl \in Client, f \in Family : CreateAuthorizationCode(c, cl, f)
    \/ \E c \in Code : ExpireCode(c)
    \/ \E t \in Token, cl \in Client, refresh \in BOOLEAN :
         CreateTokenFromOtherGrant(t, cl, refresh)
    \/ \E rows \in SUBSET Token : AdminRevoke(rows)

Next ==
    \/ \E r \in Request : \/ CodeGrantStep(r)
                          \/ RefreshGrantStep(r)
                          \/ RevocationStep(r)
                          \/ Abort(r)
    \/ Environment

Spec == Init /\ [][Next]_vars

-----------------------------------------------------------------------------
(* Properties *)

\* Every table and every local stays within its declared shape.
TypeOK ==
    /\ codes \subseteq Code
    /\ used \subseteq codes
    /\ expired \subseteq codes
    /\ codeClient \in [Code -> Client \cup {None}]
    /\ codeFamily \in [Code -> Family \cup {None}]
    /\ tokens \subseteq Token
    /\ revoked \subseteq tokens
    /\ refreshable \subseteq tokens
    /\ tokenClient \in [Token -> Client \cup {None}]
    /\ tokenFamily \in [Token -> Family \cup {None}]
    /\ pc \in [Request -> Step]
    /\ kind \in [Request -> Kind]
    /\ caller \in [Request -> Client \cup {None}]
    /\ proven \subseteq Request
    /\ grant \in [Request -> Code \cup Token \cup {None}]
    /\ family \in [Request -> Family \cup {None}]
    /\ cascade \in [Request -> Family \cup {None}]
    /\ uuids \subseteq Family
    /\ from \in [Token -> Code \cup Token \cup {None}]
    /\ root \in [Token -> Code \cup {None}]
    /\ raced \subseteq Code \cup Token
    /\ sealed \subseteq Family
    /\ replayed \subseteq Code

\* Token rows minted from the code or refresh token g.
Children(g) == {t \in tokens : from[t] = g}

\* A code or refresh token yields at most one token, unless two requests were
\* past its validation at the same time: handle_authorization_code_grant marks
\* before it mints, handle_refresh_token_grant revokes before it mints.
SingleUseUnlessRaced ==
    \A g \in (Code \cup Token) \ raced :
        \A t, u \in Children(g) : t = u

\* Revocation of a family is final: once a cascade over f has run while no
\* request held f, no row of f is ever live again and no request can mint
\* into f, whatever is presented, rotated, aborted or retried afterwards.
SealedFamilyDead ==
    \A f \in sealed :
        /\ \A t \in tokens : tokenFamily[t] = f => t \in revoked
        /\ \A r \in Request : ~HoldsFamily(r, f)

\* A row stays with the client its root code was issued to, through any number
\* of rotations: the two ownership checks are never bypassed.
ClientBinding ==
    \A t \in tokens : root[t] \in Code => tokenClient[t] = codeClient[root[t]]

\* Every refreshable row descended from a code carries that code's family, so
\* that a cascade by family reaches it (RFC 9700 section 2.1.5).
LineageKeepsFamily ==
    \A t \in refreshable : root[t] \in Code \ LegacyCode
        => tokenFamily[t] = codeFamily[root[t]]

\* A code or refresh token that has yielded a token is burned: a crash between
\* the two statements can lose a token, never leave the grant redeemable.
MintedFromBurned ==
    \A t \in tokens : from[t] # None => from[t] \in used \cup revoked

\* Nothing un-revokes a row or un-burns a code: no statement of the grant or
\* revocation handlers writes either flag back.
RevocationMonotone == [][revoked \subseteq revoked' /\ used \subseteq used']_vars

\* /oauth/revoke never touches a row of another client, its cascade included:
\* "a client may only revoke a token it owns" (handlers/token.rs).
RevokeOwnOnly ==
    [][\A r \in Request : kind[r] = "revoke" /\ pc'[r] # pc[r] =>
         \A t \in revoked' \ revoked : tokenClient[t] = caller[r]]_vars

-----------------------------------------------------------------------------
(* The strengthenings that make the invariants above inductive *)

\* What a request carries at each of its steps.
RequestShape ==
    \A r \in Request :
        /\ pc[r] = "idle" <=> kind[r] = "none"
        /\ pc[r] \in {"validate_code", "lookup_code", "mark_used", "mint_code"}
             <=> kind[r] = "code"
        /\ pc[r] \in {"validate_refresh", "set_family", "mint_refresh"}
             => kind[r] = "refresh"
        /\ pc[r] \in {"read_row", "revoke_row"} => kind[r] \in {"refresh", "revoke"}
        /\ pc[r] = "cascade" => cascade[r] \in Family
        /\ pc[r] \notin {"revoke_row", "cascade"} => cascade[r] = None
        /\ kind[r] = "refresh" /\ pc[r] \notin {"validate_refresh", "set_family"}
             => family[r] \in Family
        /\ pc[r] \in {"idle", "validate_code", "lookup_code", "validate_refresh",
                       "set_family"} => family[r] = None
        /\ kind[r] \in {"code", "refresh", "revoke"} => caller[r] \in Client
        /\ kind[r] = "code" => grant[r] \in codes
        /\ kind[r] \in {"refresh", "revoke"} => grant[r] \in tokens

\* A row that is not in the table has no history.
UnsavedUnlinked == \A t \in Token \ tokens : from[t] = None /\ root[t] = None

\* A request about to mint has burned what it mints from.
MintAfterBurn ==
    \A r \in Request :
        /\ pc[r] = "mint_code" => grant[r] \in used
        /\ kind[r] = "refresh" /\ pc[r] \in {"cascade", "mint_refresh"}
             => grant[r] \in revoked

\* A grant nobody raced for has one holder at most, and no token yet while
\* it is held.
UnracedHeldOnce ==
    \A r \in Request : \A g \in (Code \cup Token) \ raced :
        Holds(r, g) => /\ \A s \in Request : Holds(s, g) => s = r
                       /\ \A t \in tokens : from[t] # g

\* Past validation the caller is the client of what it presented.
CallerOwnsGrant ==
    /\ \A r \in Request : pc[r] \in Minting =>
         /\ kind[r] = "code" => caller[r] = codeClient[grant[r]]
         /\ kind[r] \in {"refresh", "revoke"} => caller[r] = tokenClient[grant[r]]
    /\ \A t \in tokens : tokenClient[t] \in Client
    /\ \A t \in tokens : root[t] \in Code => root[t] \in codes

\* Client cl has a stake in family f: a code, a row, a request that will mint
\* into f, or a revocation that will cascade over f.
Claims(cl, f) ==
    \/ \E c \in codes : codeFamily[c] = f /\ codeClient[c] = cl
    \/ \E t \in tokens : tokenFamily[t] = f /\ tokenClient[t] = cl
    \/ \E r \in Request : \/ HoldsFamily(r, f) /\ caller[r] = cl
                          \/ kind[r] = "revoke" /\ cascade[r] = f /\ caller[r] = cl

\* A family belongs to one client.
FamilyOfOneClient ==
    \A f \in Family : \A a, b \in Client : Claims(a, f) /\ Claims(b, f) => a = b

\* A rotation under way carries the family of the code its row descends from.
RotationKeepsFamily ==
    /\ \A c \in codes \ LegacyCode : codeFamily[c] \in Family
    /\ \A r \in Request : kind[r] = "refresh" =>
         /\ grant[r] \in refreshable
         /\ pc[r] \in Minting /\ root[grant[r]] \in Code \ LegacyCode
              => family[r] = codeFamily[root[grant[r]]]

\* Every family in use was generated; a family in use by a row, a rotation or
\* a cascade belongs to a code that is already burned, if to any.
FamilyInUse ==
    /\ sealed \subseteq uuids
    /\ \A t \in Token : tokenFamily[t] # None =>
         tokenFamily[t] \in uuids /\ t \in tokens
    /\ \A r \in Request :
         /\ family[r] # None => family[r] \in uuids
         /\ cascade[r] # None => cascade[r] \in uuids
         /\ kind[r] = "code" /\ pc[r] \in Minting
              => family[r] = codeFamily[grant[r]]
    /\ \A c \in Code : codeFamily[c] # None =>
         codeFamily[c] \in uuids /\ c \in codes

FamilyOfOneCode ==
    \A c, d \in Code : codeFamily[c] # None /\ codeFamily[c] = codeFamily[d] => c = d

\* Before a code is burned its family is nowhere but in the code and in the
\* requests redeeming it.
FreshCodeFamily ==
    \A c \in Code \ used : codeFamily[c] # None =>
        /\ codeFamily[c] \notin sealed
        /\ \A t \in Token : tokenFamily[t] # codeFamily[c]
        /\ \A r \in Request :
             /\ cascade[r] # codeFamily[c]
             /\ kind[r] # "code" => family[r] # codeFamily[c]

\* The inductive invariants, one per subject.
ShapeInv == TypeOK /\ RequestShape /\ UnsavedUnlinked
SingleUseInv == MintAfterBurn /\ MintedFromBurned /\ UnracedHeldOnce /\ SingleUseUnlessRaced
FamilyInv == FamilyInUse /\ FamilyOfOneCode /\ FreshCodeFamily /\ SealedFamilyDead
OwnershipInv == CallerOwnsGrant /\ ClientBinding /\ FamilyOfOneClient
LineageInv == RotationKeepsFamily /\ LineageKeepsFamily

-----------------------------------------------------------------------------
(* What the documentation says, and the code does not always do *)

\* "Authorization codes MUST be single-use; a second redemption of the same
\* code MUST be rejected." (docs/compliance/RFC_COMPLIANCE.md)
CodeSingleUse == \A c \in Code : \A t, u \in Children(c) : t = u

\* "Authorization-code replay must cascade-revoke every access/refresh token
\* issued from the original exchange." (docs/compliance/RFC_COMPLIANCE.md)
ReplayRevokesIssued ==
    \A c \in replayed : \A t \in tokens : root[t] = c => t \in revoked
=============================================================================
