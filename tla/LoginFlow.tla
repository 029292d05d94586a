----------------------------- MODULE LoginFlow -----------------------------
(***************************************************************************)
(* The user authentication gate of the authorization endpoint, pushed      *)
(* requests, password and social login, the device page and logout, as one *)
(* browser runs through them in several tabs.  The session is a cookie: a  *)
(* request carries the session as it was when the request was sent, and a  *)
(* response that wrote to it overwrites the browser's.  So every exchange  *)
(* is two steps, Send and the handler's, and other tabs come in between.   *)
(* A request that reaches the gate is valid; AuthorizeRequest judges the   *)
(* others.                                                                 *)
(***************************************************************************)
EXTENDS Naturals, FiniteSets

CONSTANTS
    Tab, PasswordUser, SocialUser,
    Req,            \* authorization requests: [name, par, prompt, maxAge, actor]
    Unset, Spent,    \* an absent session key or time; a request_uri already taken
    MaxAgeAbsent,   \* no max_age parameter
    Device,         \* the device page, as a return_to
    ReturnMaxAge,   \* RETURN_TO_MAX_AGE_SECS, in clock ticks
    ParTtl,         \* PAR_TTL_SECS, in clock ticks
    MaxTime, MaxStarts, \* bounds on time and visits
    Csrf            \* supply of csrf tokens

Account == PasswordUser \cup SocialUser
Time == 0..MaxTime

\* The session's keys.  user_id and authenticated are set and removed
\* together; client_display goes with agent (requested_actor_display).
Session ==
    [user : Account \cup {Unset}, authTime : Time \cup {Unset}, returnTo : Req \cup {Unset, Device},
     returnTs : Time \cup {Unset}, agent : Req \cup {Unset}, csrf : Csrf \cup {Unset}, consent : BOOLEAN]

ASSUME BrowserAssumption ==
    /\ \A r \in Req : r.par \in BOOLEAN /\ r.maxAge \in Nat \cup {MaxAgeAbsent}
    /\ Unset \notin Account /\ Unset \notin Time /\ Unset \notin Req /\ Unset \notin Session
    /\ Device \notin Req \cup {Unset} /\ Spent \notin Time \cup {Unset}
    /\ MaxTime \in Nat /\ ReturnMaxAge \in Nat

VARIABLES
    now,
    cookie,     \* the session the browser holds
    loc,        \* loc[t]: the page tab t is at
    sent,       \* sent[t]: the session its request under way carries, or Unset
    pushed,     \* pushed[r]: when r was pushed, Unset or Spent: the PAR store
    handed,     \* codes issued: [req, user, age], age since the user logged in
    starts,     \* visits started
    authAt,     \* history: when each user last authenticated, or Unset
    parkedAt,   \* history: when each request was last sent to the login page
    out, overlapped \* history: logged out since the last login; another
                    \* request ran during some logout

browserHistory == <<authAt, parkedAt, out, overlapped>>
browserVars == <<now, cookie, loc, sent, pushed, handed, starts, browserHistory>>

EmptySession ==
    [user |-> Unset, authTime |-> Unset, returnTo |-> Unset, returnTs |-> Unset,
     agent |-> Unset, csrf |-> Unset, consent |-> FALSE]

Page(p) == [page |-> p, req |-> Unset, flow |-> Unset]
AuthorizePage(r) == [page |-> "authorize", req |-> r, flow |-> Unset]
ProviderPage(c) == [page |-> "provider", req |-> Unset, flow |-> c]
PageFor(to) == IF to = Unset THEN Page("profile") ELSE IF to = Device THEN Page("device") ELSE AuthorizePage(to)

BrowserInit ==
    /\ now = 0 /\ cookie = EmptySession
    /\ loc = [t \in Tab |-> Page("idle")]
    /\ sent = [t \in Tab |-> Unset]
    /\ pushed = [r \in Req |-> Unset]
    /\ handed = {} /\ starts = 0
    /\ authAt = [u \in Account |-> Unset]
    /\ parkedAt = [r \in Req |-> Unset]
    /\ out = FALSE /\ overlapped = FALSE

-----------------------------------------------------------------------------
(* The browser *)

\* A client or the user opens a page; earlier ones are abandoned.
Open(t, page) ==
    /\ sent[t] = Unset /\ starts < MaxStarts
    /\ starts' = starts + 1
    /\ loc' = [loc EXCEPT ![t] = page]
    /\ UNCHANGED <<now, cookie, sent, pushed, handed, browserHistory>>

\* The request leaves with the cookie of this moment.
Send(t) ==
    /\ sent[t] = Unset /\ loc[t].page \in {"authorize", "login", "provider", "device", "logout"}
    /\ sent' = [sent EXCEPT ![t] = cookie]
    /\ UNCHANGED <<now, cookie, loc, pushed, handed, starts, browserHistory>>

\* The response of a handler that wrote to the session: the cookie is set again,
\* also when what was written is what was there.
Respond(t, session, page) ==
    /\ sent' = [sent EXCEPT ![t] = Unset]
    /\ loc' = [loc EXCEPT ![t] = page]
    /\ cookie' = session

\* The response of a handler that only read the session.
RespondOnly(t, page) ==
    /\ sent' = [sent EXCEPT ![t] = Unset]
    /\ loc' = [loc EXCEPT ![t] = page]
    /\ UNCHANGED cookie

-----------------------------------------------------------------------------
(* Pushed authorization requests *)

\* par, StorePARRequest
Push(r) ==
    /\ r.par /\ pushed[r] = Unset
    /\ pushed' = [pushed EXCEPT ![r] = now]
    /\ UNCHANGED <<now, cookie, loc, sent, handed, starts, browserHistory>>

\* Mutant: the entry stays until it expires.
GetPARKeeps(r) ==
    IF r.par THEN /\ pushed[r] \in Time /\ now - pushed[r] < ParTtl
                  /\ UNCHANGED pushed
    ELSE UNCHANGED pushed

\* GetPARRequest takes the entry out of the store.
GetPARRequest(r) ==
    IF r.par THEN /\ pushed[r] \in Time /\ now - pushed[r] < ParTtl
                  /\ pushed' = [pushed EXCEPT ![r] = Spent]
    ELSE UNCHANGED pushed

\* "Unknown or expired request_uri"
ParRefused(t) ==
    LET r == loc[t].req
    IN /\ sent[t] # Unset /\ loc[t].page = "authorize" /\ r.par
       /\ pushed[r] \in Time => now - pushed[r] >= ParTtl
       /\ RespondOnly(t, Page("error"))
       /\ UNCHANGED <<now, pushed, handed, starts, browserHistory>>

-----------------------------------------------------------------------------
(* The authorization endpoint *)

\* Mutant: no recorded auth_time counts as recent.
ExpiredIfRecorded(s, r) ==
    /\ r.maxAge # MaxAgeAbsent /\ s.authTime # Unset
    /\ now > s.authTime + r.maxAge

\* max_age: no recorded auth_time counts as expired.
AuthExpired(s, r) ==
    /\ r.maxAge # MaxAgeAbsent
    /\ s.authTime # Unset => now > s.authTime + r.maxAge

ForceLogin(r) == r.prompt = "login"

\* prompt=none without a user: login_required on the redirect URI.
LoginRequired(t) ==
    LET r == loc[t].req
    IN /\ sent[t] # Unset /\ loc[t].page = "authorize"
       /\ GetPARRequest(r)
       /\ r.prompt = "none" /\ sent[t].user = Unset
       /\ RespondOnly(t, Page("error"))
       /\ UNCHANGED <<now, handed, starts, browserHistory>>

\* Mutant: the agent of an earlier request stays on the login page.
ParkedKeepsAgent(s, r) ==
    [s EXCEPT !.returnTo = r, !.returnTs = now,
              !.agent = IF r.actor THEN r ELSE @,
              !.user = IF ForceLogin(r) \/ AuthExpired(s, r) THEN Unset ELSE @]

\* The session that remembers r until the user has logged in.
Parked(s, r) ==
    [s EXCEPT !.returnTo = r, !.returnTs = now,
              !.agent = IF r.actor THEN r ELSE Unset,
              !.user = IF ForceLogin(r) \/ AuthExpired(s, r) THEN Unset ELSE @]

\* To the login page
Park(t) ==
    LET r == loc[t].req
        s == sent[t]
    IN /\ s # Unset /\ loc[t].page = "authorize"
       /\ GetPARRequest(r)
       /\ ~(r.prompt = "none" /\ s.user = Unset)
       /\ s.user = Unset \/ ForceLogin(r) \/ AuthExpired(s, r)
       /\ Respond(t, Parked(s, r), Page("login"))
       /\ parkedAt' = [parkedAt EXCEPT ![r] = now]
       /\ UNCHANGED <<now, handed, starts, authAt, out, overlapped>>

\* CreateAuthorizationCode for the session's user; prompt=consent leaves a mark,
\* unless it is there.
IssueCode(t) ==
    LET r == loc[t].req
        s == sent[t]
    IN /\ s # Unset /\ loc[t].page = "authorize"
       /\ GetPARRequest(r)
       /\ s.user # Unset /\ ~ForceLogin(r) /\ ~AuthExpired(s, r)
       /\ handed' = handed \cup {[req |-> r, user |-> s.user, age |-> now - authAt[s.user]]}
       /\ IF r.prompt = "consent" /\ ~s.consent
          THEN Respond(t, [s EXCEPT !.consent = TRUE], Page("client")) ELSE RespondOnly(t, Page("client"))
       /\ UNCHANGED <<now, starts, browserHistory>>

\* verify_page of the device flow parks itself without a time stamp.
VerifyPage(t) ==
    /\ sent[t] # Unset /\ loc[t].page = "device"
    /\ IF sent[t].user = Unset
       THEN Respond(t, [sent[t] EXCEPT !.returnTo = Device], Page("login"))
       ELSE RespondOnly(t, Page("idle"))
    /\ UNCHANGED <<now, pushed, handed, starts, browserHistory>>

-----------------------------------------------------------------------------
(* Login *)

Authenticated(u) ==
    /\ authAt' = [authAt EXCEPT ![u] = now]
    /\ out' = FALSE
    /\ UNCHANGED <<parkedAt, overlapped>>

\* Mutant: login_submit follows any return_to.
ReturnAlways(s) == s.returnTo

\* Mutant: return_to is read after it has been removed.
ReturnAfterRemove(s) == Unset

\* The parked page, if it was stamped recently.
Return(s) ==
    IF s.returnTs # Unset /\ now - s.returnTs <= ReturnMaxAge THEN s.returnTo ELSE Unset

\* login_submit with valid credentials of an enabled user
LoginSubmit(t, u) ==
    LET s == sent[t]
    IN /\ s # Unset /\ loc[t].page = "login"
       /\ Respond(t, [s EXCEPT !.user = u, !.authTime = now, !.returnTo = Unset, !.returnTs = Unset, !.agent = Unset],
                  PageFor(Return(s)))
       /\ Authenticated(u)
       /\ UNCHANGED <<now, pushed, handed, starts>>

\* Wrong password, unknown or disabled user, too many attempts
LoginRefused(t) ==
    /\ sent[t] # Unset /\ loc[t].page = "login"
    /\ RespondOnly(t, Page("login"))
    /\ UNCHANGED <<now, pushed, handed, starts, browserHistory>>

\* google_login and its siblings: a fresh csrf token, and the provider, for the session
SocialLogin(t) ==
    \E c \in Csrf :
        /\ sent[t] # Unset /\ loc[t].page = "login"
        /\ cookie.csrf # c
        /\ \A x \in Tab : loc[x].flow # c /\ (sent[x] # Unset => sent[x].csrf # c)
        /\ Respond(t, [sent[t] EXCEPT !.csrf = c], ProviderPage(c))
        /\ UNCHANGED <<now, pushed, handed, starts, browserHistory>>

\* auth_callback: find_or_create_social_user, then the session keys.  It leaves
\* auth_time, return_to_ts and the prompt as they were.
AuthCallback(t, u) ==
    LET s == sent[t]
    IN /\ s # Unset /\ loc[t].page = "provider" /\ s.csrf = loc[t].flow
       /\ Respond(t, [s EXCEPT !.user = u, !.returnTo = Unset], PageFor(s.returnTo))
       /\ Authenticated(u)
       /\ UNCHANGED <<now, pushed, handed, starts>>

\* CSRF token mismatch, or the provider could not be asked
CallbackRefused(t) ==
    /\ sent[t] # Unset /\ loc[t].page = "provider"
    /\ RespondOnly(t, Page("callback error"))
    /\ UNCHANGED <<now, pushed, handed, starts, browserHistory>>

\* Mutant: logging out forgets the pending page, not the user.
LogoutKeepsUser(t) ==
    /\ sent[t] # Unset /\ loc[t].page = "logout"
    /\ Respond(t, [sent[t] EXCEPT !.returnTo = Unset, !.csrf = Unset], Page("idle"))
    /\ out' = TRUE
    /\ overlapped' = (overlapped \/ cookie # sent[t] \/ \E x \in Tab \ {t} : sent[x] # Unset)
    /\ UNCHANGED <<now, pushed, handed, starts, authAt, parkedAt>>

\* logout: purges the session, whatever id_token_hint it came with; a request
\* that came without one has no cookie to remove.
Logout(t) ==
    /\ sent[t] # Unset /\ loc[t].page = "logout"
    /\ IF sent[t] = EmptySession THEN RespondOnly(t, Page("idle")) ELSE Respond(t, EmptySession, Page("idle"))
    /\ out' = TRUE
    /\ overlapped' = (overlapped \/ cookie # sent[t] \/ \E x \in Tab \ {t} : sent[x] # Unset)
    /\ UNCHANGED <<now, pushed, handed, starts, authAt, parkedAt>>

ClockTicks ==
    /\ now < MaxTime /\ now' = now + 1
    /\ UNCHANGED <<cookie, loc, sent, pushed, handed, starts, browserHistory>>

Handle(t) ==
    \/ ParRefused(t) \/ LoginRequired(t) \/ Park(t) \/ IssueCode(t) \/ VerifyPage(t)
    \/ \E u \in PasswordUser : LoginSubmit(t, u)
    \/ LoginRefused(t) \/ SocialLogin(t)
    \/ \E u \in SocialUser : AuthCallback(t, u)
    \/ CallbackRefused(t) \/ Logout(t)

BrowserNext ==
    \/ ClockTicks
    \/ \E r \in Req : Push(r)
    \/ \E t \in Tab :
        \/ \E r \in Req : (r.par => pushed[r] # Unset) /\ Open(t, AuthorizePage(r))
        \/ \E p \in {"device", "logout"} : Open(t, Page(p))
        \/ Send(t)
        \/ Handle(t)

\* The browser follows redirects, the server answers, and a user who is asked
\* to log in does not fail for ever.
BrowserFairness ==
    \A t \in Tab :
        /\ WF_browserVars(Send(t)) /\ WF_browserVars(Handle(t))
        /\ \A u \in PasswordUser : SF_browserVars(LoginSubmit(t, u))
        /\ SF_browserVars(SocialLogin(t)) /\ \A u \in SocialUser : SF_browserVars(AuthCallback(t, u))

BrowserSpec == BrowserInit /\ [][BrowserNext]_browserVars /\ BrowserFairness

-----------------------------------------------------------------------------
(* Properties *)

\* A code for a request with max_age goes to a user who authenticated, by
\* password or at a provider, no longer ago than that, although sessions are
\* overwritten by other tabs and social login records no auth_time.
MaxAgeHonoured == \A c \in handed : c.req.maxAge # MaxAgeAbsent => c.age <= c.req.maxAge

\* The login page names the agent of the request that waits for this login,
\* and names none if that request has none.
AgentOfPending ==
    cookie.returnTo \in Req => cookie.agent = IF cookie.returnTo.actor THEN cookie.returnTo ELSE Unset

\* A pushed request leads to at most one code, in however many tabs its
\* request_uri is opened.
PushedOnce == \A r \in Req : r.par => Cardinality({c \in handed : c.req = r}) <= 1

\* After a logout the browser has no user until the next login, unless another
\* request ran at the same time and its response brought a session back.
LogoutSticks == out /\ ~overlapped => cookie.user = Unset

\* A password login does not replay a request abandoned too long ago.
StaleNotReplayed ==
    [][\A t \in Tab : loc[t].page = "login" /\ loc'[t].page = "authorize" /\ starts' = starts
           => now - parkedAt[loc'[t].req] <= ReturnMaxAge]_browserVars

\* What the user and the request asked of the login is kept through every detour:
\* a code for a request with max_age goes to a user who authenticated recently,
\* the login page names the agent of the request that waits, a pushed request
\* leads to at most one code, one abandoned too long ago is not replayed, and
\* after a logout the browser has no user, unless another request overlapped.
RequestHonoured ==
    [](MaxAgeHonoured /\ AgentOfPending /\ PushedOnce /\ LogoutSticks) /\ StaleNotReplayed

\* "After successful credential verification the user is redirected back ...
\* so the authorization code grant can complete": a request gets its code,
\* unless the user abandons it or the provider fails.
Completes ==
    \A t \in Tab : \A r \in Req : \A n \in 1..MaxStarts :
        loc[t] = AuthorizePage(r) /\ starts = n
            ~> (\E c \in handed : c.req = r) \/ starts > n \/ loc[t].page = "callback error"
=============================================================================
