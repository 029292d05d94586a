-------------------------- MODULE AuthorizeRequest --------------------------
(***************************************************************************)
(* How the authorization endpoint puts a request together and judges it.   *)
(* The parameters come from the query string, from a pushed request (PAR)  *)
(* that overrides the query, and from a signed request object (JAR) that   *)
(* overrides both.  A judgement is an outcome: an error answered directly, *)
(* an error sent to the redirect URI, the login page, or a code.           *)
(* login_hint, which only fills in the login form, is left out.            *)
(***************************************************************************)
EXTENDS Sequences, Naturals, FiniteSets

Absent == "absent"

\* AuthorizeQuery: the parameters of an authorization request.  A client may
\* push any of them, and put any into a request object.
Param == {"response_type", "redirect_uri", "scope", "state", "code_challenge",
          "code_challenge_method", "nonce", "prompt", "max_age", "response_mode", "resource",
          "acr_values", "claims", "authorization_details", "requested_actor"}

\* What is taken from a pushed request, and from a request object.
Pushed == {"redirect_uri", "scope", "code_challenge", "code_challenge_method", "nonce", "resource",
           "state", "authorization_details", "claims", "acr_values", "requested_actor"}
Signed == {"redirect_uri", "scope", "code_challenge", "code_challenge_method", "nonce", "resource",
           "state", "authorization_details", "claims", "acr_values", "response_type", "response_mode"}

NoParams == [p \in Param |-> Absent]

\* A request: the client as resolve_client finds it, the query, and what the
\* request_uri and the request parameter lead to.
\*   client:  known, codeGrant, requireState: Booleans;
\*            auth: its token_endpoint_auth_method
\*   twice:   whether the query has a parameter more than once
\*   par:     "none", "unknown" (or expired), "foreign" (another client's), "ours"
\*   jar:     "none", or its header's alg; sig: "empty", "valid" or "invalid"
\*   session: "none", or its auth_time is "old" or "new" for a max_age
\*   obo:     whether the server recognises requested_actor
\* No handler ever stores an acr in the session, so none satisfies acr_values.

-----------------------------------------------------------------------------
(* Putting the request together *)

\* Mutant: the parameter added last is not taken from the pushed request.
MergeForgetsActor(r) ==
    [p \in Param |-> IF r.par = "ours" /\ p \in Pushed \ {"requested_actor"} /\ r.pushed[p] # Absent
                     THEN r.pushed[p] ELSE r.query[p]]

\* PAR resolution: get(k).or_else(query)
Merge(r) ==
    [p \in Param |-> IF r.par = "ours" /\ p \in Pushed /\ r.pushed[p] # Absent
                     THEN r.pushed[p] ELSE r.query[p]]

\* JAR overlay: the effective parameters
Overlay(r) ==
    [p \in Param |-> IF r.jar # "none" /\ p \in Signed /\ r.claims[p] # Absent
                     THEN r.claims[p] ELSE Merge(r)[p]]

\* process_jar: public clients send unsigned objects, the others signed ones
\* whose iss, aud and exp are right (an object with a wrong one is "invalid").
ProcessJar(r) ==
    CASE r.client.auth = "none"            -> r.jar = "alg_none" /\ r.sig = "empty"
      [] r.client.auth = "secret"          -> r.jar = "HS256" /\ r.sig = "valid"
      [] r.client.auth = "private_key_jwt" -> r.jar = "RS256" /\ r.sig = "valid"
      [] OTHER -> FALSE

-----------------------------------------------------------------------------
(* Judging it *)

\* validate_redirect_uri: the URI matches a registered one (exactly, or up to
\* the port of an IP loopback address)
Registered(uri) == uri = "registered"

Supported == {"code", "code id_token"}

\* The response mode used for the code and for most errors.
ResponseMode(e) ==
    IF e["response_mode"] # Absent THEN e["response_mode"]
    ELSE IF e["response_type"] = "code id_token" THEN "fragment" ELSE "query"

Check(fails, channel, error) == [fails |-> fails, channel |-> channel, error |-> error]

\* The checks up to the redirect URI, in the code's order: answered directly.
ResolutionChecks(r) ==
    LET m == Merge(r)
        e == Overlay(r)
    IN <<Check(r.twice, "direct", "invalid_request"),
         Check(r.par = "unknown", "direct", "invalid_request"),
         Check(r.par = "foreign", "direct", "invalid_client"),
         Check(m["redirect_uri"] = Absent, "direct", "invalid_request"),
         Check(~r.client.known, "direct", "invalid_client"),
         Check(~r.client.codeGrant, "direct", "unauthorized_client"),
         Check(r.client.requireState /\ r.query["state"] = Absent, "direct", "invalid_request"),
         Check(r.jar # "none" /\ ~ProcessJar(r), "direct", "invalid_request"),
         Check(r.jar # "none" /\ e["response_type"] \notin Supported, "direct", "invalid_request"),
         Check(~Registered(e["redirect_uri"]), "direct", "invalid_request")>>

\* The checks between the redirect URI and the login gate.
ParameterChecks(r) ==
    LET e == Overlay(r)
    IN <<Check(ResponseMode(e) = "other", "direct", "invalid_request"),
         Check(r.jar = "none" /\ r.query["response_type"] = Absent, "redirect", "invalid_request"),
         Check(r.jar = "none" /\ r.query["response_type"] \notin Supported, "redirect", "unsupported_response_type"),
         Check(e["code_challenge"] \in {Absent, "empty"}, "redirect", "invalid_request"),
         Check(e["code_challenge_method"] # "S256", "redirect", "invalid_request"),
         Check(r.obo /\ e["requested_actor"] = "unknown", "redirect", "invalid_request"),
         Check(e["prompt"] = "none login", "direct", "invalid_request"),
         Check(e["prompt"] = "none" /\ r.session = "none", "redirect", "login_required")>>

\* The user authentication gate; LoginFlow models it in full.
LoginGate(r) ==
    LET e == Overlay(r)
    IN <<Check(\/ r.session = "none"
               \/ e["prompt"] \in {"login", "select_account"}
               \/ e["max_age"] # Absent /\ r.session = "old", "login", "none")>>

\* Scope and step-up are judged once the user is known.
GrantChecks(r) ==
    LET e == Overlay(r)
    IN <<Check(e["scope"] = "too_wide", "redirect", "invalid_scope"),
         Check(e["acr_values"] # Absent, "redirect", "insufficient_user_authentication")>>

\* authorize: the first check that fails decides; if none does, a code carries
\* the effective parameters.
Authorize(r) ==
    LET checks == ResolutionChecks(r) \o ParameterChecks(r) \o LoginGate(r) \o GrantChecks(r)
        failing == {i \in DOMAIN checks : checks[i].fails}
        first == checks[CHOOSE i \in failing : \A j \in failing : i <= j]
    IN IF failing = {}
       THEN [channel |-> "code", error |-> "none", with |-> Overlay(r)]
       ELSE [channel |-> first.channel, error |-> first.error, with |-> Overlay(r)]

\* What the endpoint tells the client, the user or the browser about r: an error
\* sent to the client goes to its redirect URI with its state; the login page
\* names the agent; the code and its delivery carry the rest.
Told(channel) ==
    CASE channel = "redirect" -> {"redirect_uri", "state"}
      [] channel = "login" -> {"requested_actor"}
      [] channel = "code" -> Param \ {"prompt", "max_age", "acr_values"}
      [] OTHER -> {}

Answer(r) ==
    LET a == Authorize(r)
        recognised == IF r.obo THEN Param ELSE Param \ {"requested_actor"}
    IN [channel |-> a.channel, error |-> a.error,
        told |-> [p \in Param |-> IF p \in Told(a.channel) \cap recognised THEN a.with[p] ELSE Absent]]

-----------------------------------------------------------------------------
(* One request, edited a parameter at a time: the inputs of the checks. *)

CONSTANTS
    Client,             \* client records
    Value(_),           \* Value(p): values of parameter p besides Absent
    Base, BasePushed,   \* query and pushed parameters to start from
    MaxEdits            \* bound on edits

Text == {Absent} \cup UNION {Value(p) : p \in Param}
ClientRecord == [known : BOOLEAN, codeGrant : BOOLEAN, requireState : BOOLEAN,
                 auth : {"none", "secret", "private_key_jwt", "other"}]
AuthorizationRequest ==
    [client : ClientRecord, twice : BOOLEAN, par : {"none", "unknown", "foreign", "ours"},
     jar : {"none", "alg_none", "HS256", "RS256"}, sig : {"empty", "valid", "invalid"},
     session : {"none", "old", "new"}, obo : BOOLEAN,
     query : [Param -> Text], pushed : [Param -> Text], claims : [Param -> Text]]

\* A parameter that is sent has a value.
ASSUME ParameterAssumption ==
    /\ Client \subseteq ClientRecord
    /\ \A p \in Param : Absent \notin Value(p)
    /\ Base \in [Param -> Text] /\ BasePushed \in [Param -> Text]

VARIABLES authReq, edits

authVars == <<authReq, edits>>

AuthorizeInit ==
    /\ edits = 0
    /\ \E c \in Client, par \in {"none", "ours"}, session \in {"none", "new"},
          obj \in {<<"none", "empty">>, <<"alg_none", "empty">>, <<"HS256", "valid">>, <<"RS256", "valid">>} :
           authReq = [client |-> c, twice |-> FALSE, par |-> par, jar |-> obj[1], sig |-> obj[2],
                      session |-> session, obo |-> TRUE,
                      query |-> Base, pushed |-> BasePushed, claims |-> NoParams]

EditQuery(p, v) == authReq' = [authReq EXCEPT !.query[p] = v]
\* Nothing is pushed without a response_type.
EditPushed(p, v) ==
    /\ authReq.par = "ours"
    /\ p = "response_type" => v # Absent
    /\ authReq' = [authReq EXCEPT !.pushed[p] = v]
EditClaims(p, v) == authReq.jar # "none" /\ authReq' = [authReq EXCEPT !.claims[p] = v]
EditResolution ==
    \/ \E par \in {"unknown", "foreign"} : authReq.par # "none" /\ authReq' = [authReq EXCEPT !.par = par]
    \/ authReq.jar # "none" /\ authReq' = [authReq EXCEPT !.sig = "invalid"]
    \/ \E f \in {"known", "codeGrant"} : authReq' = [authReq EXCEPT !.client[f] = FALSE]
    \/ authReq' = [authReq EXCEPT !.client.requireState = TRUE]
    \/ authReq' = [authReq EXCEPT !.twice = TRUE]
    \/ authReq' = [authReq EXCEPT !.obo = FALSE]
    \/ authReq.session = "new" /\ authReq' = [authReq EXCEPT !.session = "old"]

AuthorizeNext ==
    /\ edits < MaxEdits /\ edits' = edits + 1
    /\ \/ \E p \in Param : \E v \in Value(p) \cup {Absent} :
              EditQuery(p, v) \/ EditPushed(p, v) \/ EditClaims(p, v)
       \/ EditResolution

AuthorizeSpec == AuthorizeInit /\ [][AuthorizeNext]_authVars

-----------------------------------------------------------------------------
(* Properties *)

\* Whatever mixture of query, pushed request and request object names the
\* redirect URI, neither a code nor an error is sent to an unregistered one.
RedirectsOnlyToRegistered ==
    LET a == Authorize(authReq)
    IN a.channel \in {"redirect", "code"} => Registered(a.with["redirect_uri"])

\* A pushed parameter cannot be overridden in the browser: whatever a client
\* pushes, its value in the query changes nothing about the answer.  There are
\* four exceptions, which the endpoint reads from the query alone although the
\* client may have pushed them.  (The presence of a value may matter:
\* require_state looks at the query only.)
PushedBinds ==
    \A p \in Param \ {"response_type", "response_mode", "prompt", "max_age"} :
        authReq.par = "ours" /\ authReq.pushed[p] # Absent =>
            \A v, w \in Value(p) :
                Answer([authReq EXCEPT !.query[p] = v]) = Answer([authReq EXCEPT !.query[p] = w])

\* A parameter of the request object cannot be overridden either, neither in
\* the query nor by pushing it, with the exception of the three parameters that
\* are not taken from the object although it may contain them.
SignedBinds ==
    \A p \in Param \ {"prompt", "max_age", "requested_actor"} : authReq.jar # "none" /\ authReq.claims[p] # Absent =>
        \A v, w \in Value(p) :
            Answer([authReq EXCEPT !.query[p] = v, !.pushed[p] = w]) = Answer([authReq EXCEPT !.query[p] = w])

\* Neither a code nor an error goes to an unregistered redirect URI, and no
\* pushed or signed parameter can be overridden in the browser, but for the
\* named exceptions.
RequestBinds == RedirectsOnlyToRegistered /\ PushedBinds /\ SignedBinds
=============================================================================
