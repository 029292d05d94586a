----------------------------- MODULE MCClients -----------------------------
(***************************************************************************)
(* Clients and what they ask for: the registry (ClientRegistry), the       *)
(* documents it fetches (DocumentCache) and authorization requests         *)
(* (AuthorizeRequest); their variables are this module's own.  A behaviour *)
(* is one of the part it starts with; the others stand still.              *)
(***************************************************************************)
EXTENDS ClientRegistry, AuthorizeRequest, DocumentCache, TLC

VARIABLE part

partVars == <<part, vars, documentVars, authVars>>

-----------------------------------------------------------------------------
(* The registry: one client, and five selections of what happens to it.  In    *)
(* the parts without documents the client is none of theirs: Url is empty, and *)
(* so is the map of documents.                                                 *)

Vacant == [i \in Id |-> None]
Present(c) == [i \in Id |-> c]
Unknown == {Vacant, Present(NewClient)}
Everything == {"secret", "use", "put", "drop", "register", "edit", "create", "enable", "rotate",
               "delete"}

Plain == [priv |-> FALSE, agent |-> None, actors |-> FALSE, public |-> FALSE, usable |-> TRUE,
          ver |-> 0, statement |-> None]
Bodies == {Plain, [Plain EXCEPT !.usable = FALSE], [Plain EXCEPT !.priv = TRUE],
           [Plain EXCEPT !.agent = TRUE, !.actors = TRUE, !.public = TRUE]} \cup
          {[Plain EXCEPT !.priv = (st.priv = None), !.statement = st] :
             st \in {[priv |-> None, agent |-> TRUE], [priv |-> TRUE, agent |-> None],
                     [priv |-> FALSE, agent |-> FALSE]}}
Edits == {[enabled |-> None, priv |-> TRUE]}

\* Two lookups through both caches, while secrets change and clients go.
Caches == INSTANCE ClientRegistry WITH
    Url <- {}, docs <- <<>>, Seeds <- {Present([NewClient EXCEPT !.secret = 1, !.token = TRUE])},
    Kinds <- {"secret", "drop", "rotate", "delete"}, Cap <- 0

\* Two requests for one URL, unknown at first or registered by an operator, who
\* may delete the row of a document and register the URL again.
Documents == INSTANCE ClientRegistry WITH
    Kinds <- {"use", "enable", "delete", "create"}, Body <- {[Plain EXCEPT !.public = TRUE]},
    Redis <- FALSE, ReadsFail <- FALSE

\* The same while lookups of the row fail and the document stays as it is.
Blind == INSTANCE ClientRegistry WITH
    Seeds <- {Vacant}, Kinds <- {"use", "enable"}, MaxVersion <- 0, Redis <- FALSE

\* Updates by a client whose row an administrator deletes meanwhile.
Updates == INSTANCE ClientRegistry WITH
    Url <- {}, docs <- <<>>, Seeds <- {Present([NewClient EXCEPT !.secret = 1, !.token = TRUE])},
    Kinds <- {"secret", "put", "delete"}, Body <- {Plain}, Redis <- FALSE, ReadsFail <- FALSE

\* Registrations and updates with and without software statements.
SelfService == INSTANCE ClientRegistry WITH
    Url <- {}, docs <- <<>>, Seeds <- {Vacant},
    Kinds <- {"register", "put", "edit", "create"}, MaxLatency <- 0,
    Redis <- FALSE, ReadsFail <- FALSE

-----------------------------------------------------------------------------
(* Fetched documents: metadata of three clients, one on a denied host spelt    *)
(* with a final dot, and room for one document                                 *)

Hosts == [u \in DocUrl |-> IF u = "u3" THEN "h2" ELSE "h1"]

\* One key set, replaced twice, with every kind of lifetime.
KeySets == INSTANCE DocumentCache WITH
    Mode <- "jwks", DocUrl <- {"u1"}, Dotted <- {}, MaxAge <- {Nil, 0, 9}, MaxEdition <- 2

\* The metadata, with shorter lifetimes.
Metadata == INSTANCE DocumentCache WITH MaxTTL <- 1, DefaultTTL <- 1, Timeout <- 1

-----------------------------------------------------------------------------
(* Authorization requests: three kinds of clients, good and bad values *)

Values(p) ==
    CASE p = "redirect_uri" -> {"registered", "elsewhere"}
      [] p = "scope" -> {"allowed", "too_wide"}
      [] p = "code_challenge" -> {"c1", "c2", "empty"}
      [] p = "code_challenge_method" -> {"S256", "plain"}
      [] p = "state" -> {"s1", "s2"}
      [] p = "acr_values" -> {"high"}
      [] p \in {"nonce", "resource", "claims", "authorization_details"} -> {"v1", "v2"}
      [] p = "requested_actor" -> {"agent", "other", "unknown"}
      [] p = "response_type" -> {"code", "code id_token", "token"}
      [] p = "response_mode" -> {"form_post", "other"}
      [] p = "prompt" -> {"none", "login", "none login"}
      [] p = "max_age" -> {"short"}

Applicants == {[known |-> TRUE, codeGrant |-> TRUE, requireState |-> FALSE, auth |-> a] :
                   a \in {"none", "secret", "private_key_jwt"}}
Query == [NoParams EXCEPT !["redirect_uri"] = "registered", !["code_challenge"] = "c1",
                          !["code_challenge_method"] = "S256", !["response_type"] = "code"]
LeastPushed == [NoParams EXCEPT !["response_type"] = "code"]

-----------------------------------------------------------------------------
\* In the other parts the authorization request stands still.
OneRequest ==
    /\ AuthorizeInit
    /\ authReq.client.auth = "none" /\ authReq.par = "none" /\ authReq.jar = "none" /\ authReq.session = "new"

PartInit ==
    /\ part \in {"caches", "documents", "blind", "updates", "self_service", "key_sets",
                 "metadata", "requests"}
    /\ docs = [u \in Url |-> [ver |-> 0, priv |-> FALSE]]
    /\ CASE part = "documents" -> Documents!Init
         [] part = "blind" -> Blind!Init
         [] part = "updates" -> Updates!Init
         [] part = "self_service" -> SelfService!Init
         [] OTHER -> Caches!Init
    /\ IF part = "metadata" THEN Metadata!DocumentInit ELSE KeySets!DocumentInit
    /\ IF part = "requests" THEN AuthorizeInit ELSE OneRequest

PartNext ==
    \/ /\ \/ part = "caches" /\ Caches!Next /\ UNCHANGED docs
          \/ part = "documents" /\ Documents!Next
          \/ part = "blind" /\ Blind!Next
          \/ part = "updates" /\ Updates!Next /\ UNCHANGED docs
          \/ part = "self_service" /\ SelfService!Next /\ UNCHANGED docs
       /\ UNCHANGED <<part, documentVars, authVars>>
    \/ /\ \/ part = "key_sets" /\ KeySets!DocumentNext
          \/ part = "metadata" /\ Metadata!DocumentNext
       /\ UNCHANGED <<part, vars, authVars>>
    \/ /\ part = "requests" /\ AuthorizeNext
       /\ UNCHANGED <<part, vars, documentVars>>

PartSpec == PartInit /\ [][PartNext]_partVars

Symmetry == Permutations(Request)
=============================================================================
