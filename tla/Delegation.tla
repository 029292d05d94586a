----------------------------- MODULE Delegation -----------------------------
(***************************************************************************)
(* Tokens made from tokens: token exchange (RFC 8693), the transaction     *)
(* tokens and identity assertions (ID-JAG) it can issue instead of an      *)
(* access token, and the jwt-bearer grant that turns an ID-JAG into an     *)
(* access token at a server that trusts this one.  A holder presents any   *)
(* token it likes under any token type.  authorization_details narrow the  *)
(* way the scope does and are left out; may_act is never set by this       *)
(* server.  Single use of an assertion is TokenEndpoint's subject.         *)
(***************************************************************************)
EXTENDS Integers, Sequences, FiniteSets

CONSTANTS
    Client,          \* confidential clients, all registered for these grants
    User, Scope, Resource, Key,
    ClientScope,     \* ClientScope[c]: the scope c is registered for
    AllowedActors,   \* AllowedActors[c]: clients that may act on c's tokens
    Asymmetric,      \* clients that authenticate with a key
    JitProvision,    \* the trusted issuer provisions unknown subjects
    LocalUser,       \* LocalUser[u]: who has u's address where the ID-JAG goes
    TrustDomain, Target,  \* audience of transaction tokens; of ID-JAGs
    MaxDepth,        \* max_delegation_depth
    AccessTtl, TxnTtl, JagTtl,
    Leeway,          \* of the decoding of a JWT, past its expiry
    MaxTokens, MaxRevoked, MaxClock,  \* bounds
    None

\* Identifiers of different kinds differ: no user, resource, trust domain or
\* target is named like a client.
ASSUME DistinctAssumption ==
    /\ None \notin User \cup Client \cup Key
    /\ Client \cap (User \cup Resource \cup {TrustDomain, Target}) = {}
ASSUME RegistryAssumption ==
    /\ ClientScope \in [Client -> SUBSET Scope]
    /\ AllowedActors \in [Client -> SUBSET Client]
    /\ Asymmetric \subseteq Client
    /\ LocalUser \in [User -> User \cup {None}]
ASSUME BoundAssumption ==
    /\ MaxDepth \in Nat /\ AccessTtl \in Nat /\ TxnTtl \in Nat /\ JagTtl \in Nat /\ Leeway \in Nat
    /\ MaxTokens \in Nat /\ MaxRevoked \in Nat /\ MaxClock \in Nat

VARIABLES
    issued,    \* the tokens in order of issue; the first ones were not derived
    revoked,   \* indices of revoked rows
    users,     \* local user ids
    clock,
    setup      \* [opaque, byEmail]: access_tokens_opaque, and the trusted
               \* issuer's subject_mapping; as configured

vars == <<issued, revoked, users, clock, setup>>

Token == 1..Len(issued)

\* What a request may carry: a DPoP proof, a client certificate; resources.
Proof == [dpop : Key \cup {None}, cert : Key \cup {None}]
RequestedResources == {{}} \cup {{r} : r \in Resource}

\* The cnf claim of a request.
Cnf(proof) ==
    IF proof.dpop # None THEN [jkt |-> proof.dpop, x5t |-> None]
    ELSE [jkt |-> None, x5t |-> proof.cert]

Unbound == [jkt |-> None, x5t |-> None]

\* A token with no resource restriction has its client as audience.
Unrestricted(t) == t.aud = {t.client}

OriginalToken(i, kind, c, u, scope, aud, cnf) ==
    [kind |-> kind, client |-> c, user |-> u, sub |-> IF u = None THEN c ELSE u,
     scope |-> scope, aud |-> IF aud = {} THEN {c} ELSE aud, act |-> << >>,
     cnf |-> cnf, exp |-> AccessTtl, res |-> {}, parent |-> 0, root |-> i, chained |-> FALSE]

Init ==
    /\ \E kind \in {"access", "refresh", "id"}, c, agent \in Client, u \in User \cup {None},
          scope \in SUBSET Scope, aud \in RequestedResources, proof \in Proof :
          /\ c # agent
          /\ IF kind = "id" THEN u # None /\ scope = {} /\ aud = {} /\ Cnf(proof) = Unbound
             ELSE scope # {} /\ scope \subseteq ClientScope[c]
          /\ issued = << OriginalToken(1, kind, c, u, scope, aud, Cnf(proof)),
                         OriginalToken(2, "access", agent, None, ClientScope[agent], {}, Unbound) >>
    /\ revoked = {}
    /\ users = User
    /\ clock = 0
    /\ setup \in [opaque : BOOLEAN, byEmail : BOOLEAN]

-----------------------------------------------------------------------------
\* Not expired; and verify_jwt alone, which has a leeway
Live(t) == t.exp > clock
Decodes(t) == t.exp + Leeway >= clock

\* A row that lookup finds valid.
Valid(i) == i \notin revoked /\ Live(issued[i])

(* What presenting token i to resolve_token yields: the set of facts kept of *)
(* it, empty when it is refused.                                             *)

ResolveAccess(i) == {t \in {issued[i]} : t.kind = "access" /\ Valid(i)}

\* Mutant: the header of the JWT is not looked at, nor is its row.
ResolveAnyJwt(i) ==
    {[t EXCEPT !.user = IF t.sub = t.client THEN None ELSE t.sub] :
        t \in {u \in {issued[i]} : u.kind \in {"access", "refresh"} /\ Decodes(u)}}

\* Only the header tells an access token from a refresh token, and an opaque
\* one has none.
ResolveJwt(i) ==
    {[t EXCEPT !.user = IF t.sub = t.client THEN None ELSE t.sub] :
        t \in {u \in {issued[i]} : u.kind = "access" /\ ~setup.opaque /\ Valid(i)}}

ResolveRefresh(i, c) == {t \in {issued[i]} : t.kind = "refresh" /\ Valid(i) /\ t.client = c}

\* Mutant: an ID token stands for its client.
ResolveIdForgetsUser(i, c) ==
    {[t EXCEPT !.user = None, !.client = c, !.scope = {}, !.act = << >>, !.cnf = Unbound] :
        t \in {u \in {issued[i]} : u.kind \notin {"access", "refresh"} /\ u.aud = {c} /\ Decodes(u)}}

\* Whatever has neither the access-token header nor a row, and c as audience.
ResolveId(i, c) ==
    {[t EXCEPT !.user = t.sub, !.client = c, !.scope = {}, !.act = << >>, !.cnf = Unbound] :
        t \in {u \in {issued[i]} : u.kind \notin {"access", "refresh"} /\ u.aud = {c} /\ Decodes(u)}}

\* A transaction token belongs to its domain: whoever presents it holds it.
ResolveTxn(i, c) ==
    {[t EXCEPT !.user = None, !.client = c] : t \in {u \in {issued[i]} : u.kind = "txn" /\ Live(u)}}

ResolveToken(i, urn, c, allowRefresh) ==
    CASE urn = "access_token" -> ResolveAccess(i)
      [] urn = "jwt" -> ResolveJwt(i)
      [] urn = "refresh_token" -> IF allowRefresh THEN ResolveRefresh(i, c) ELSE {}
      [] urn = "id_token" -> ResolveId(i, c)
      [] urn = "txn_token" -> ResolveTxn(i, c)

\* Mutant: possession is not proved.
PossessionAssumed(subject, proof) == TRUE

\* enforce_subject_proof_of_possession
ProvesPossession(subject, proof) ==
    /\ subject.cnf.jkt # None => proof.dpop = subject.cnf.jkt
    /\ subject.cnf.x5t # None => proof.cert = subject.cnf.x5t

\* Mutant: the subject's chain is dropped when an actor is recorded.
ActForgetsSubject(subject, actor) ==
    IF actor = None THEN subject.act ELSE << issued[actor].sub >>

\* with_inner: the actor in front of the chain the subject carries.
ActChain(subject, actor) ==
    IF actor = None THEN subject.act ELSE << issued[actor].sub >> \o subject.act

\* Mutant: the depth of the subject's chain is checked, not that of the new one.
DelegationOneDeeper(c, subject, actor) ==
    /\ (actor = None /\ subject.client = c) \/ c \in AllowedActors[subject.client]
    /\ actor # None => Len(subject.act) <= MaxDepth

\* enforce_cross_client_exchange, authorize_delegation and validate_chain
DelegationAllowed(c, subject, actor) ==
    /\ (actor = None /\ subject.client = c) \/ c \in AllowedActors[subject.client]
    /\ actor # None => Len(ActChain(subject, actor)) <= MaxDepth

\* resolve_requested_resources: the audience asked for, within the subject's.
ResourcesAllowed(subject, resources) ==
    Unrestricted(subject) \/ resources \subseteq subject.aud

ResolvedResources(subject, resources) ==
    IF resources # {} THEN resources ELSE IF Unrestricted(subject) THEN {} ELSE subject.aud

\* Mutant: the scope is capped by the client alone.
ScopeOfClient(c, subject, requested) ==
    LET s == IF requested = {} THEN subject.scope ELSE requested IN
    IF s \subseteq ClientScope[c] THEN s ELSE {}

\* The effective scope; {} stands for "not requested" and for "refused".
EffectiveScope(c, subject, requested) ==
    LET s == IF requested = {} THEN subject.scope ELSE requested IN
    IF \/ ~(s \subseteq ClientScope[c])
       \/ subject.kind # "id" /\ ~(s \subseteq subject.scope)
    THEN {} ELSE s

Derived(i, kind, c, u, sub, scope, aud, act, cnf, exp, res) ==
    [kind |-> kind, client |-> c, user |-> u, sub |-> sub, scope |-> scope, aud |-> aud, act |-> act,
     cnf |-> cnf, exp |-> exp, res |-> res, parent |-> i, root |-> issued[i].root,
     chained |-> issued[i].chained \/ kind = "idjag"]

Issue(t) ==
    /\ issued' = Append(issued, t)
    /\ UNCHANGED <<revoked, clock, setup>>

\* CreateToken: the audience of a token without resources is its client.
AccessToken(i, c, subject, scope, resources, act, cnf) ==
    Derived(i, "access", c, subject.user, IF subject.user = None THEN c ELSE subject.user, scope,
            IF resources = {} THEN {c} ELSE resources, act, cnf, clock + AccessTtl, {})

\* The confirmation of an exchanged token.
ExchangedCnf(c, subject, proof) ==
    IF Cnf(proof) # Unbound THEN Cnf(proof)
    ELSE IF subject.client = c THEN subject.cnf ELSE Unbound

\* txn_token::issue
TxnToken(i, c, subject, scope, act) ==
    Derived(i, "txn", c, None, subject.sub, scope, {TrustDomain}, act, Unbound, clock + TxnTtl, {})

\* The subject's payload tells when it ends; an opaque access token has none.
JagExp(subject) ==
    IF (setup.opaque /\ subject.kind = "access") \/ clock + JagTtl < subject.exp THEN clock + JagTtl ELSE subject.exp

\* id_jag::issue, bound to the key of a DPoP proof only, with the resources as
\* they were asked for
IdJag(i, c, subject, scope, resources, act, proof) ==
    Derived(i, "idjag", c, subject.user, IF subject.user = None THEN subject.sub ELSE subject.user, scope, {Target}, act,
            [jkt |-> proof.dpop, x5t |-> None], JagExp(subject), resources)

\* handle_token_exchange_grant: delegation, audience, scope, then by the type
\* asked for
HandleTokenExchangeGrant(c, i, subject, actor, want, proof) ==
    \E requested \in SUBSET Scope, resources \in RequestedResources :
        LET scope == EffectiveScope(c, subject, requested)
            act == ActChain(subject, actor)
        IN
        /\ DelegationAllowed(c, subject, actor)
        /\ ResourcesAllowed(subject, resources)
        /\ scope # {}
        /\ CASE want = "access" -> Issue(AccessToken(i, c, subject, scope, ResolvedResources(subject, resources),
                                                     act, ExchangedCnf(c, subject, proof)))
             [] want = "txn" -> c \in Asymmetric /\ Issue(TxnToken(i, c, subject, scope, act))
             [] want = "idjag" -> JagExp(subject) > clock /\ Issue(IdJag(i, c, subject, scope, resources, act, proof))

\* exchange: an authenticated client presents a subject and perhaps an actor
\* token of its own
Exchange(c, i, urn, want) ==
    /\ Len(issued) < MaxTokens
    /\ urn = "txn_token" => want = "txn"
    /\ \E subject \in ResolveToken(i, urn, c, want = "idjag"), actor \in Token \cup {None}, proof \in Proof :
          /\ ProvesPossession(subject, proof)
          /\ actor # None => \E t \in ResolveAccess(actor) : t.client = c
          /\ HandleTokenExchangeGrant(c, i, subject, actor, want, proof)
    /\ UNCHANGED users

\* verify_assertion, against the keys of an issuer in the registry
AssertionVerifies(t) == t.kind = "idjag" /\ Decodes(t)

\* resolve_subject: the user of that address, who is never provisioned, or the
\* one of that id, or one provisioned on first use.  A lost race on the insert
\* ends in the same user.
SubjectResolves(t) ==
    IF setup.byEmail THEN {LocalUser[u] : u \in User \cap {t.user}} \cap users
    ELSE {u \in {t.sub} : u \in users \/ JitProvision}

\* The ID-JAG's own demands.
AssertionAdmits(c, t, proof) ==
    /\ t.client = c
    /\ t.cnf.jkt # None => proof.dpop = t.cnf.jkt
    /\ Len(t.act) <= MaxDepth

\* The resources the ID-JAG names are a ceiling, and without any there is none.
Ceiling(t) == [t EXCEPT !.aud = IF t.res = {} THEN {t.client} ELSE t.res]

\* handle_jwt_bearer_grant for an ID-JAG
JwtBearer(c, i) ==
    LET t == issued[i] IN
    /\ Len(issued) < MaxTokens
    /\ AssertionVerifies(t)
    /\ \E proof \in Proof, requested \in SUBSET Scope, resources \in RequestedResources, u \in SubjectResolves(t) :
          /\ AssertionAdmits(c, t, proof)
          /\ EffectiveScope(c, t, requested) # {}
          /\ ResourcesAllowed(Ceiling(t), resources)
          /\ users' = users \cup {u}
          /\ Issue(AccessToken(i, c, [t EXCEPT !.user = u], EffectiveScope(c, t, requested),
                               ResolvedResources(Ceiling(t), resources), t.act, Cnf(proof)))

Revoke(i) ==
    /\ issued[i].kind \in {"access", "refresh"}
    /\ i \notin revoked
    /\ Cardinality(revoked) < MaxRevoked
    /\ revoked' = revoked \cup {i}
    /\ UNCHANGED <<issued, users, clock, setup>>

Tick ==
    /\ clock < MaxClock
    /\ clock' = clock + 1
    /\ UNCHANGED <<issued, revoked, users, setup>>

Next ==
    \/ \E c \in Client, i \in Token, want \in {"access", "txn", "idjag"},
          urn \in {"access_token", "jwt", "refresh_token", "id_token", "txn_token"} : Exchange(c, i, urn, want)
    \/ \E c \in Client, i \in Token : JwtBearer(c, i)
    \/ \E i \in Token : Revoke(i)
    \/ Tick

Spec == Init /\ [][Next]_vars

-----------------------------------------------------------------------------
(* Properties *)

RootOf(t) == issued[t.root]

TokenRecord ==
    [kind : {"access", "refresh", "id", "txn", "idjag"}, client : Client, user : User \cup Client \cup {None},
     sub : User \cup Client, scope : SUBSET Scope, aud : SUBSET (Client \cup Resource \cup {TrustDomain, Target}),
     act : Seq(User \cup Client), cnf : [jkt : Key \cup {None}, x5t : Key \cup {None}],
     exp : Nat, res : SUBSET Resource, parent : 0..MaxTokens, root : 1..2, chained : BOOLEAN]

\* Tokens have their shape, and no act chain is deeper than the maximum.
TypeOK ==
    /\ issued \in Seq(TokenRecord)
    /\ \A i \in Token : Len(issued[i].act) <= MaxDepth
    /\ revoked \subseteq Token
    /\ users \subseteq User \cup Client
    /\ clock \in 0..MaxClock
    /\ setup \in [opaque : BOOLEAN, byEmail : BOOLEAN]

\* However many exchanges lie in between, a token has no scope its client is
\* not registered for and none the original token lacked (an ID token has
\* none, and caps nothing); it keeps an audience restriction until an ID-JAG
\* takes it to another domain, and there the resources that the ID-JAG names;
\* and an ID-JAG ends with its subject, unless that is an opaque access token,
\* which it outlives by less than its own lifetime.
NoEscalation ==
    \A i \in 3..Len(issued) :
        LET t == issued[i]
            p == issued[t.parent]
        IN
        /\ t.scope \subseteq ClientScope[t.client]
        /\ RootOf(t).kind # "id" => t.scope \subseteq RootOf(t).scope
        /\ t.kind = "access" /\ ~t.chained /\ ~Unrestricted(RootOf(t)) => t.aud \subseteq RootOf(t).aud
        /\ p.kind = "idjag" /\ p.res # {} => t.aud \subseteq p.res
        /\ t.kind = "idjag" => t.exp <= p.exp \/ (setup.opaque /\ p.kind = "access" /\ t.exp < p.exp + JagTtl)

\* Everything derived from a DPoP-bound token, through exchanges, ID-JAGs and
\* jwt-bearer, stays bound to the same key; only transaction tokens, which are
\* no credentials at a resource server, carry none.  A certificate-bound token
\* stays bound at least until an ID-JAG.
BindingKept ==
    \A i \in Token :
        LET t == issued[i] IN
        t.kind # "txn" =>
            /\ RootOf(t).cnf.jkt # None => t.cnf.jkt = RootOf(t).cnf.jkt
            /\ RootOf(t).cnf.x5t # None /\ ~t.chained => t.cnf # Unbound

\* A delegation is recorded on top of the history, which no exchange rewrites
\* or drops, and only a client that the subject's client named is recorded or
\* takes the token over.
DelegationRecorded ==
    \A i \in 3..Len(issued) :
        LET t == issued[i]
            p == issued[t.parent]
            holder == IF p.kind = "txn" THEN t.client ELSE p.client
        IN
        /\ t.act = p.act \/ (t.act # << >> /\ Tail(t.act) = p.act /\ t.client \in AllowedActors[holder])
        /\ t.client = holder \/ t.client \in AllowedActors[holder]

\* Whatever type a token is presented under, a refresh token becomes nothing
\* but an ID-JAG, and a transaction token nothing but its replacement.
KindsKept ==
    \A i \in 3..Len(issued) :
        LET t == issued[i]
            from == issued[t.parent].kind
        IN
        /\ from = "refresh" => t.kind = "idjag"
        /\ from = "txn" => t.kind = "txn"
        /\ from = "idjag" => t.kind = "access"

\* A user's token stands for that user in every token made from it; where
\* subjects are mapped by address, until an ID-JAG of his is redeemed for a
\* token of the user who has his address there.
UserKept ==
    \A i \in Token :
        LET t == issued[i]
            p == issued[t.parent]
        IN RootOf(t).user # None =>
              /\ ~(setup.byEmail /\ t.chained) => t.sub = RootOf(t).user
              /\ i > 2 => t.sub = IF setup.byEmail /\ p.kind = "idjag" THEN LocalUser[p.sub] ELSE p.sub

\* Along a chain of derivations scope and audience only shrink, what comes of a
\* bound token is bound to the same key, the delegation history is never
\* rewritten, no kind of token is laundered into another, and the user stays.
DerivationFaithful == NoEscalation /\ BindingKept /\ DelegationRecorded /\ KindsKept /\ UserKept
=============================================================================
