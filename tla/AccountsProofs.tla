--------------------------- MODULE AccountsProofs ---------------------------
(***************************************************************************)
(* Theorems about Delegation, UserAccounts and LoginFlow, for any clients, *)
(* users, scopes, keys, tokens, browsers, tabs, requests and edits and any *)
(* bounds, over either database and with or without failing statements.    *)
(*                                                                         *)
(* DerivationFaithful of Delegation rests on two relations between token   *)
(* records.  Derives(p, t, g): what one exchange, or one jwt-bearer grant, *)
(* that turns p into t makes sure of where the server is set up as g says. *)
(* Inherits(r, t, g): what a token t keeps of the original token r at the  *)
(* start of its chain.  One                                                *)
(* derivation after an inheritance is an inheritance (Compose), and that   *)
(* is the whole induction: rows are never rewritten, so each grant only    *)
(* has to establish Derives for the row it appends.                        *)
(*                                                                         *)
(* The promises of UserAccounts rest on UsersInv, which relates the rows,  *)
(* the tokens and the copies that requests carry (second part); those of   *)
(* LoginFlow on BrowserInv, which speaks of every session that may come    *)
(* back to the browser, its own and those under way (third part).          *)
(***************************************************************************)
EXTENDS Delegation, UserAccounts, LoginFlow, FiniteSetTheorems, TLAPS

-----------------------------------------------------------------------------
(* Delegation: tokens made from tokens *)

Urn == {"access_token", "jwt", "refresh_token", "id_token", "txn_token"}
Want == {"access", "txn", "idjag"}

\* An original token: not derived from any other.
Original(r) ==
    /\ r.kind \in {"access", "refresh", "id"}
    /\ r.user # None => r.user \in User /\ r.sub = r.user
    /\ r.kind = "id" => r.aud = {r.client} /\ r.cnf = Unbound
    /\ r.aud = {r.client} \/ (r.aud # {} /\ r.aud \subseteq Resource)
    /\ r.act = << >>

\* The marks of its kind that a token of this server carries.
Marked(t) ==
    /\ t.kind = "id" => t.aud = {t.client} /\ t.cnf = Unbound /\ t.act = << >>
    /\ t.kind = "txn" => t.aud = {TrustDomain}
    /\ t.kind = "idjag" => t.aud = {Target} /\ t.chained

\* What is sure of a token t made from p.
Derives(p, t, g) ==
    /\ t.kind \in Want
    /\ t.root = p.root
    /\ t.chained = (p.chained \/ t.kind = "idjag")
    /\ p.kind = "refresh" => t.kind = "idjag"
    /\ p.kind = "txn" => t.kind = "txn"
    /\ p.kind = "idjag" => t.kind = "access"
    /\ t.scope \subseteq ClientScope[t.client]
    /\ p.kind # "id" => t.scope \subseteq p.scope
    /\ t.kind = "txn" => t.aud = {TrustDomain}
    /\ t.kind = "idjag" =>
          t.aud = {Target} /\ (t.exp <= p.exp \/ (g.opaque /\ p.kind = "access" /\ t.exp < p.exp + JagTtl))
    /\ p.kind = "idjag" /\ p.res # {} => t.aud \subseteq p.res
    /\ t.kind = "access" /\ p.kind # "idjag" /\ p.aud # {p.client} /\ p.aud # {} =>
          t.aud \subseteq p.aud /\ t.aud # {}
    /\ \A u \in User :
          p.sub = u /\ (p.kind # "txn" => p.user = u) =>
              /\ t.sub = (IF g.byEmail /\ p.kind = "idjag" THEN LocalUser[u] ELSE u) /\ t.sub \in User
              /\ t.kind # "txn" => t.user = t.sub
    /\ t.kind # "txn" /\ p.cnf.jkt # None => t.cnf.jkt = p.cnf.jkt
    /\ t.kind = "access" /\ p.kind # "idjag" /\ p.cnf # Unbound => t.cnf # Unbound
    /\ LET holder == IF p.kind = "txn" THEN t.client ELSE p.client IN
       /\ t.act = p.act \/ (t.act # << >> /\ Tail(t.act) = p.act /\ t.client \in AllowedActors[holder])
       /\ t.client = holder \/ t.client \in AllowedActors[holder]

\* What a token t keeps of the original token r it goes back to.
Inherits(r, t, g) ==
    /\ Original(r)
    /\ Marked(t)
    /\ t.kind = "id" => t = r
    /\ r.kind # "id" => t.scope \subseteq r.scope
    /\ t.kind \in {"access", "refresh"} /\ ~t.chained /\ r.aud # {r.client} => t.aud \subseteq r.aud /\ t.aud # {}
    /\ t.kind # "txn" /\ r.cnf.jkt # None => t.cnf.jkt = r.cnf.jkt
    /\ t.kind # "txn" /\ r.cnf.x5t # None /\ ~t.chained => t.cnf # Unbound
    /\ r.user # None =>
          /\ t.sub \in User /\ (t.kind # "txn" => t.user = t.sub)
          /\ ~(g.byEmail /\ t.chained) => t.sub = r.user

\* Each derived token was derived from an earlier one.
Lineage ==
    \A k \in Token : k > 2 =>
        /\ issued[k].parent \in 1..(k - 1)
        /\ Derives(issued[issued[k].parent], issued[k], setup)

\* Each token goes back to one of the two original tokens.
Ancestry ==
    /\ Len(issued) >= 2
    /\ \A k \in Token : Inherits(issued[issued[k].root], issued[k], setup)

FaithfulInv == TypeOK /\ Lineage /\ Ancestry

-----------------------------------------------------------------------------
(* Records *)

\* The fields of a token record have their types.
LEMMA Fields ==
    ASSUME NEW t \in TokenRecord
    PROVE  /\ t.kind \in {"access", "refresh", "id", "txn", "idjag"}
           /\ t.client \in Client
           /\ t.user \in User \cup Client \cup {None}
           /\ t.sub \in User \cup Client
           /\ t.scope \in SUBSET Scope
           /\ t.aud \in SUBSET (Client \cup Resource \cup {TrustDomain, Target})
           /\ t.act \in Seq(User \cup Client)
           /\ t.cnf \in [jkt : Key \cup {None}, x5t : Key \cup {None}]
           /\ t.exp \in Nat
           /\ t.res \in SUBSET Resource
           /\ t.parent \in 0..MaxTokens
           /\ t.root \in 1..2
           /\ t.chained \in BOOLEAN
BY DEF TokenRecord

\* A derivation keeps what its subject inherited: this is the step of every
\* induction along a chain.
LEMMA Compose ==
    ASSUME NEW r \in TokenRecord, NEW p \in TokenRecord, NEW t \in TokenRecord,
           NEW g, Inherits(r, p, g), Derives(p, t, g)
    PROVE  Inherits(r, t, g)
<1>1. Marked(t)
  BY Fields DEF Marked, Derives, Inherits, Want
<1>2. t.kind # "id"
  BY DEF Derives, Want
<1>3. r.kind # "id" => t.scope \subseteq r.scope
  BY DEF Derives, Inherits
<1>4. t.kind \in {"access", "refresh"} /\ ~t.chained /\ r.aud # {r.client} => t.aud \subseteq r.aud /\ t.aud # {}
  <2> SUFFICES ASSUME t.kind \in {"access", "refresh"}, ~t.chained, r.aud # {r.client}
               PROVE  t.aud \subseteq r.aud /\ t.aud # {}
    OBVIOUS
  <2>1. t.kind = "access" /\ ~p.chained
    BY Fields DEF Derives, Want
  <2>2. p.kind \in {"access", "id"}
    BY <2>1, Fields DEF Derives, Inherits, Marked
  <2>3. p.kind = "access"
    BY <2>2 DEF Inherits, Marked
  <2>4. p.aud \subseteq r.aud /\ p.aud # {}
    BY <2>1, <2>3 DEF Inherits
  <2>5. r.aud \subseteq Resource
    BY DEF Inherits, Original
  <2>6. p.aud # {p.client}
    BY <2>4, <2>5, Fields, DistinctAssumption
  <2> QED
    BY <2>1, <2>3, <2>4, <2>6 DEF Derives
<1>5. t.kind # "txn" /\ r.cnf.jkt # None => t.cnf.jkt = r.cnf.jkt
  BY DEF Derives, Inherits
<1>6. t.kind # "txn" /\ r.cnf.x5t # None /\ ~t.chained => t.cnf # Unbound
  BY Fields DEF Derives, Inherits, Marked, Want
<1>7. r.user # None =>
          /\ t.sub \in User /\ (t.kind # "txn" => t.user = t.sub)
          /\ ~(g.byEmail /\ t.chained) => t.sub = r.user
  BY Fields DEF Derives, Inherits, Original, Marked
<1> QED
  BY <1>1, <1>2, <1>3, <1>4, <1>5, <1>6, <1>7 DEF Inherits

-----------------------------------------------------------------------------
(* What resolve_token keeps of a token *)

\* The facts kept of token p when client c presents it under a type.
Resolved(p, s, c, urn, allow) ==
    /\ s \in TokenRecord
    /\ s.kind = p.kind /\ s.sub = p.sub /\ s.aud = p.aud /\ s.exp = p.exp
    /\ \/ /\ p.kind = "access" /\ s.client = p.client /\ s.scope = p.scope /\ s.act = p.act /\ s.cnf = p.cnf
          /\ p.exp > clock
          /\ s.user = p.user \/ s.user = IF p.sub = p.client THEN None ELSE p.sub
       \/ p.kind = "refresh" /\ allow /\ s = p /\ p.client = c
       \/ /\ p.kind \notin {"access", "refresh"} /\ p.aud = {c} /\ s.user = p.sub /\ s.client = c
          /\ s.scope = {} /\ s.act = << >> /\ s.cnf = Unbound
       \/ /\ p.kind = "txn" /\ urn = "txn_token" /\ s.user = None /\ s.client = c
          /\ s.scope = p.scope /\ s.act = p.act /\ s.cnf = p.cnf

\* Resolved is what each of the five branches of resolve_token makes sure of.
LEMMA ResolveFacts ==
    ASSUME TypeOK, NEW i \in Token, NEW c \in Client, NEW urn \in Urn, NEW allow \in BOOLEAN,
           NEW s \in ResolveToken(i, urn, c, allow)
    PROVE  Resolved(issued[i], s, c, urn, allow)
<1> DEFINE p == issued[i]
<1>1. p \in TokenRecord
  BY DEF TypeOK, Token
<1>2. Unbound \in [jkt : Key \cup {None}, x5t : Key \cup {None}]
  BY DEF Unbound
<1> HIDE DEF p
<1>3. CASE urn = "access_token"
  BY <1>1, <1>3 DEF ResolveToken, ResolveAccess, Resolved, Valid, Live, p
<1>4. CASE urn = "jwt"
  <2>1. p.kind = "access" /\ p.exp > clock /\ s = [p EXCEPT !.user = IF p.sub = p.client THEN None ELSE p.sub]
    BY <1>4 DEF ResolveToken, ResolveJwt, Valid, Live, p
  <2>2. s \in TokenRecord
    BY <1>1, <2>1, Fields DEF TokenRecord
  <2> QED
    BY <1>1, <2>1, <2>2 DEF TokenRecord, Resolved, p
<1>5. CASE urn = "refresh_token"
  BY <1>1, <1>5 DEF ResolveToken, ResolveRefresh, Resolved, p
<1>6. CASE urn = "id_token"
  <2>1. /\ p.kind \notin {"access", "refresh"} /\ p.aud = {c}
        /\ s = [p EXCEPT !.user = p.sub, !.client = c, !.scope = {}, !.act = << >>, !.cnf = Unbound]
    BY <1>6 DEF ResolveToken, ResolveId, p
  <2>2. << >> \in Seq(User \cup Client)
    OBVIOUS
  <2>3. s \in TokenRecord
    BY <1>1, <1>2, <2>1, <2>2, Fields DEF TokenRecord
  <2> QED
    BY <1>1, <2>1, <2>3 DEF TokenRecord, Resolved, p
<1>7. CASE urn = "txn_token"
  <2>1. p.kind = "txn" /\ s = [p EXCEPT !.user = None, !.client = c]
    BY <1>7 DEF ResolveToken, ResolveTxn, p
  <2>2. s \in TokenRecord
    BY <1>1, <2>1, Fields DEF TokenRecord
  <2> QED
    BY <1>1, <1>7, <2>1, <2>2 DEF TokenRecord, Resolved, p
<1> QED
  BY <1>3, <1>4, <1>5, <1>6, <1>7 DEF Urn

\* Putting one actor in front of a chain leaves the chain behind it.
LEMMA ActorInFront ==
    ASSUME NEW S, NEW a \in S, NEW chain \in Seq(S)
    PROVE  /\ << a >> \o chain \in Seq(S)
           /\ << a >> \o chain # << >>
           /\ Tail(<< a >> \o chain) = chain
<1> DEFINE longer == << a >> \o chain
<1>1. longer \in Seq(S) /\ Len(longer) = 1 + Len(chain) /\ Len(chain) \in Nat
  OBVIOUS
<1>2. \A k \in 1..Len(chain) : longer[k + 1] = chain[k]
  OBVIOUS
<1>3. longer # << >>
  BY <1>1
<1>4. Tail(longer) \in Seq(S) /\ Len(Tail(longer)) = Len(chain)
  BY <1>1, <1>3
<1>5. \A k \in 1..Len(chain) : Tail(longer)[k] = chain[k]
  BY <1>1, <1>2, <1>3
<1>6. Tail(longer) = chain
  BY <1>4, <1>5
<1> QED
  BY <1>1, <1>3, <1>6

\* What a subject s that c presents keeps of the token p: everything that
\* matters, and c as the holder of a transaction token.
Presented(p, s, c, urn, want) ==
    /\ s \in TokenRecord
    /\ p.kind # "idjag"
    /\ p.kind = "refresh" => want = "idjag"
    /\ p.kind = "txn" => urn = "txn_token"
    /\ p.kind = "access" => p.exp > clock
    /\ s.kind = p.kind /\ s.sub = p.sub /\ s.aud = p.aud /\ s.exp = p.exp /\ s.act = p.act /\ s.cnf = p.cnf
    /\ p.kind # "id" => s.scope = p.scope
    /\ s.client = IF p.kind = "txn" THEN c ELSE p.client
    /\ \A u \in User : p.sub = u /\ p.user = u /\ p.kind # "txn" => s.user = u

\* No token is presented as something it is not: the marks of an ID-JAG and of
\* a transaction token keep them from passing for an ID token.
LEMMA PresentedFacts ==
    ASSUME NEW p \in TokenRecord, Marked(p), NEW c \in Client, NEW urn, NEW want, NEW s,
           Resolved(p, s, c, urn, want = "idjag")
    PROVE  Presented(p, s, c, urn, want)
<1>1. s \in TokenRecord
  BY DEF Resolved
<1>2. CASE p.kind = "access"
  BY <1>1, <1>2, Fields, DistinctAssumption DEF Resolved, Presented
<1>3. CASE p.kind = "refresh"
  BY <1>1, <1>3, Fields DEF Resolved, Presented
<1>4. CASE p.kind = "id"
  BY <1>1, <1>4, Fields DEF Resolved, Presented, Marked
<1>5. CASE p.kind = "txn"
  <2>1. p.aud # {c}
    BY <1>5, DistinctAssumption DEF Marked
  <2>2. /\ urn = "txn_token" /\ s.user = None /\ s.client = c
        /\ s.scope = p.scope /\ s.act = p.act /\ s.cnf = p.cnf
    BY <1>5, <2>1 DEF Resolved
  <2>3. s.kind = p.kind /\ s.sub = p.sub /\ s.aud = p.aud /\ s.exp = p.exp
    BY DEF Resolved
  <2> QED
    BY <1>1, <1>5, <2>2, <2>3 DEF Presented
<1>6. CASE p.kind = "idjag"
  <2>1. p.aud # {c}
    BY <1>6, DistinctAssumption DEF Marked
  <2> QED
    BY <1>6, <2>1 DEF Resolved
<1> QED
  BY <1>2, <1>3, <1>4, <1>5, <1>6, Fields

-----------------------------------------------------------------------------
(* The grants *)

\* The scope of a new token is within its client's and its subject's.
LEMMA ScopeFacts ==
    ASSUME NEW c \in Client, NEW s \in TokenRecord, NEW requested \in SUBSET Scope
    PROVE  /\ EffectiveScope(c, s, requested) \in SUBSET Scope
           /\ EffectiveScope(c, s, requested) \subseteq ClientScope[c]
           /\ s.kind # "id" => EffectiveScope(c, s, requested) \subseteq s.scope
BY Fields, RegistryAssumption DEF EffectiveScope

\* The cnf claim of a request has its type, and follows the proofs.
LEMMA CnfFacts ==
    ASSUME NEW proof \in Proof
    PROVE  /\ Cnf(proof) \in [jkt : Key \cup {None}, x5t : Key \cup {None}]
           /\ proof.dpop \in Key \cup {None} /\ proof.cert \in Key \cup {None}
           /\ Cnf(proof).jkt = proof.dpop
           /\ proof.dpop # None \/ proof.cert # None => Cnf(proof) # Unbound
BY DEF Proof, Cnf, Unbound

\* A cnf is Unbound exactly when it names neither key.
LEMMA UnboundFacts ==
    ASSUME NEW cnf \in [jkt : Key \cup {None}, x5t : Key \cup {None}]
    PROVE  cnf = Unbound <=> cnf.jkt = None /\ cnf.x5t = None
BY DEF Unbound

\* The chain of actors grows by at most one, and then with permission.
LEMMA ActFacts ==
    ASSUME TypeOK, NEW c \in Client, NEW s \in TokenRecord, NEW actor \in Token \cup {None},
           Len(s.act) <= MaxDepth, DelegationAllowed(c, s, actor)
    PROVE  /\ ActChain(s, actor) \in Seq(User \cup Client)
           /\ Len(ActChain(s, actor)) <= MaxDepth
           /\ \/ ActChain(s, actor) = s.act
              \/ /\ ActChain(s, actor) # << >> /\ Tail(ActChain(s, actor)) = s.act
                 /\ c \in AllowedActors[s.client]
           /\ c = s.client \/ c \in AllowedActors[s.client]
<1>1. CASE actor = None
  BY <1>1, Fields DEF ActChain, DelegationAllowed
<1>2. CASE actor # None
  <2>1. issued[actor] \in TokenRecord
    BY <1>2 DEF TypeOK, Token
  <2>2. issued[actor].sub \in User \cup Client /\ s.act \in Seq(User \cup Client)
    BY <2>1, Fields
  <2> QED
    BY <1>2, <2>2, ActorInFront DEF ActChain, DelegationAllowed
<1> QED
  BY <1>1, <1>2

\* What the fields of a token range over.
Subjects == User \cup Client
Audiences == SUBSET (Client \cup Resource \cup {TrustDomain, Target})
Chains == Seq(User \cup Client)
Confirmations == [jkt : Key \cup {None}, x5t : Key \cup {None}]

\* What the exchange and the jwt-bearer grant promise of the row they append.
Appends(i) ==
    \E t \in TokenRecord :
        /\ issued' = Append(issued, t) /\ UNCHANGED <<revoked, clock, setup>>
        /\ t.parent = i
        /\ Len(t.act) <= MaxDepth
        /\ Derives(issued[i], t, setup)

\* The token exchange appends a token derived from the one presented.
LEMMA ExchangeDerives ==
    ASSUME TypeOK, NEW c \in Client, NEW i \in Token, Marked(issued[i]), NEW urn \in Urn, NEW want \in Want,
           Exchange(c, i, urn, want)
    PROVE  Appends(i)
<1> DEFINE p == issued[i]
<1>1. PICK s \in ResolveToken(i, urn, c, want = "idjag"), actor \in Token \cup {None}, proof \in Proof :
          ProvesPossession(s, proof) /\ HandleTokenExchangeGrant(c, i, s, actor, want, proof)
  BY DEF Exchange
<1>2. Len(issued) < MaxTokens /\ (urn = "txn_token" => want = "txn")
  BY DEF Exchange
<1>3. p \in TokenRecord /\ Len(p.act) <= MaxDepth
  BY DEF TypeOK, Token
<1>4. Presented(p, s, c, urn, want)
  BY <1>3, ResolveFacts, PresentedFacts
<1>5. s \in TokenRecord
  BY <1>4 DEF Presented
<1>6. PICK requested \in SUBSET Scope, resources \in RequestedResources :
          /\ DelegationAllowed(c, s, actor)
          /\ ResourcesAllowed(s, resources)
          /\ CASE want = "access" ->
                      Issue(AccessToken(i, c, s, EffectiveScope(c, s, requested), ResolvedResources(s, resources),
                                        ActChain(s, actor), ExchangedCnf(c, s, proof)))
               [] want = "txn" -> Issue(TxnToken(i, c, s, EffectiveScope(c, s, requested), ActChain(s, actor)))
               [] want = "idjag" ->
                      Issue(IdJag(i, c, s, EffectiveScope(c, s, requested), resources, ActChain(s, actor), proof))
  BY <1>1 DEF HandleTokenExchangeGrant, Want
<1> DEFINE scope == EffectiveScope(c, s, requested)
           act == ActChain(s, actor)
           res == ResolvedResources(s, resources)
           cnf == ExchangedCnf(c, s, proof)
<1>7. scope \in SUBSET Scope /\ scope \subseteq ClientScope[c] /\ (p.kind # "id" => scope \subseteq p.scope)
  BY <1>4, <1>5, ScopeFacts DEF Presented
<1>8. /\ act \in Chains
      /\ Len(act) <= MaxDepth
      /\ act = s.act \/ (act # << >> /\ Tail(act) = s.act /\ c \in AllowedActors[s.client])
      /\ c = s.client \/ c \in AllowedActors[s.client]
  <2>1. Len(s.act) <= MaxDepth
    BY <1>3, <1>4 DEF Presented
  <2> QED
    BY <1>5, <1>6, <2>1, ActFacts DEF Chains
<1>9. clock \in Nat
  BY BoundAssumption DEF TypeOK
<1>x. p.root \in 1..2 /\ p.chained \in BOOLEAN /\ i \in 0..MaxTokens
  BY <1>2, <1>3, Fields, BoundAssumption DEF Token
<1>10. CASE want = "access"
  <2> DEFINE u == s.user
             sub == IF s.user = None THEN c ELSE s.user
             aud == IF res = {} THEN {c} ELSE res
             t == AccessToken(i, c, s, scope, res, act, cnf)
  <2>1. issued' = Append(issued, t) /\ UNCHANGED <<revoked, clock, setup>>
    BY <1>6, <1>10 DEF Issue
  <2>2. res \in Audiences
    BY <1>5, Fields DEF ResolvedResources, RequestedResources, Audiences
  <2>3. cnf \in Confirmations
    BY <1>5, Fields, CnfFacts DEF ExchangedCnf, Unbound, Confirmations
  <2>4. /\ u \in Subjects \cup {None} /\ sub \in Subjects
        /\ aud \in Audiences
        /\ clock + AccessTtl \in Nat
    BY <1>5, <1>9, <2>2, Fields, BoundAssumption DEF Subjects, Audiences
  <2>5. t = Derived(i, "access", c, u, sub, scope, aud, act, cnf, clock + AccessTtl, {})
    BY DEF AccessToken
  <2>6. p.aud # {p.client} /\ p.aud # {} => aud \subseteq p.aud /\ aud # {}
    BY <1>2, <1>4, <1>6, <1>10 DEF Presented, ResourcesAllowed, ResolvedResources, Unrestricted
  <2>7. \A v \in User : p.sub = v /\ p.kind # "txn" /\ p.user = v => sub = v /\ u = v
    BY <1>4, DistinctAssumption DEF Presented
  <2>8. /\ p.cnf.jkt # None => cnf.jkt = p.cnf.jkt
        /\ p.cnf # Unbound => cnf # Unbound
    <3>1. /\ p.cnf.jkt # None => proof.dpop = p.cnf.jkt
          /\ p.cnf.x5t # None => proof.cert = p.cnf.x5t
      BY <1>1, <1>4 DEF Presented, ProvesPossession
    <3>2. p.cnf # Unbound => p.cnf.jkt # None \/ p.cnf.x5t # None
      BY <1>3, Fields, UnboundFacts
    <3>3. p.cnf # Unbound => Cnf(proof) # Unbound
      BY <3>1, <3>2, CnfFacts
    <3>4. p.cnf # Unbound => cnf = Cnf(proof)
      BY <3>3 DEF ExchangedCnf
    <3>5. p.cnf.jkt # None => p.cnf # Unbound
      BY DEF Unbound
    <3> QED
      BY <3>1, <3>3, <3>4, <3>5, CnfFacts
  <2>9. p.kind # "txn" /\ p.kind # "refresh" /\ p.kind # "idjag"
    BY <1>2, <1>4, <1>10 DEF Presented
  <2> HIDE DEF u, sub, aud, t, scope, act, res, cnf
  <2>10. /\ t \in TokenRecord
         /\ t.kind = "access" /\ t.client = c /\ t.user = u /\ t.sub = sub /\ t.scope = scope /\ t.aud = aud
         /\ t.act = act /\ t.cnf = cnf /\ t.res = {} /\ t.parent = i /\ t.root = p.root /\ t.chained = (p.chained \/ FALSE)
    BY <1>2, <1>7, <1>8, <2>3, <2>4, <2>5, <1>x DEF Derived, TokenRecord, Want, Subjects, Audiences, Chains, Confirmations
  <2>11. Derives(p, t, setup)
    BY <1>4, <1>7, <1>8, <2>6, <2>7, <2>8, <2>9, <2>10 DEF Derives, Presented, Want
  <2> QED
    BY <1>8, <2>1, <2>10, <2>11 DEF Appends
<1>11. CASE want = "txn"
  <2> DEFINE aud == {TrustDomain}
             t == TxnToken(i, c, s, scope, act)
  <2>1. issued' = Append(issued, t) /\ UNCHANGED <<revoked, clock, setup>>
    BY <1>6, <1>11 DEF Issue
  <2>2. s.sub \in Subjects /\ Unbound \in Confirmations
    BY <1>5, Fields DEF Unbound, Subjects, Confirmations
  <2>3. clock + TxnTtl \in Nat
    BY <1>9, BoundAssumption
  <2>4. t = Derived(i, "txn", c, None, s.sub, scope, aud, act, Unbound, clock + TxnTtl, {})
    BY DEF TxnToken
  <2>a. None \in Subjects \cup {None} /\ aud \in Audiences
    BY DEF Audiences
  <2> HIDE DEF t, scope, act, aud, res, cnf
  <2>5. /\ t \in TokenRecord
        /\ t.kind = "txn" /\ t.client = c /\ t.sub = s.sub /\ t.scope = scope /\ t.aud = aud
        /\ t.act = act /\ t.parent = i /\ t.root = p.root /\ t.chained = (p.chained \/ "txn" = "idjag")
    BY <1>2, <1>7, <1>8, <2>2, <2>3, <2>4, <2>a, <1>x DEF Derived, TokenRecord, Want, Subjects, Audiences, Chains, Confirmations
  <2>6. Derives(p, t, setup)
    BY <1>4, <1>7, <1>8, <1>11, <2>5 DEF Derives, Presented, Want, aud
  <2> QED
    BY <1>8, <2>1, <2>5, <2>6 DEF Appends
<1>12. CASE want = "idjag"
  <2> DEFINE u == s.user
             sub == IF s.user = None THEN s.sub ELSE s.user
             jkt == [jkt |-> proof.dpop, x5t |-> None]
             aud == {Target}
             exp == JagExp(s)
             t == IdJag(i, c, s, scope, resources, act, proof)
  <2>1. issued' = Append(issued, t) /\ UNCHANGED <<revoked, clock, setup>>
    BY <1>6, <1>12 DEF Issue
  <2>2. u \in Subjects \cup {None} /\ sub \in Subjects
    BY <1>5, Fields DEF Subjects
  <2>3. jkt \in Confirmations /\ jkt.jkt = proof.dpop
    BY CnfFacts DEF Confirmations
  <2>4. exp \in Nat /\ (exp <= p.exp \/ (setup.opaque /\ p.kind = "access" /\ exp < p.exp + JagTtl))
    BY <1>3, <1>4, <1>5, <1>9, Fields, BoundAssumption DEF Presented, JagExp
  <2>b. resources \in SUBSET Resource
    BY DEF RequestedResources
  <2>5. t = Derived(i, "idjag", c, u, sub, scope, aud, act, jkt, exp, resources)
    BY DEF IdJag
  <2>6. \A v \in User : p.sub = v /\ p.kind # "txn" /\ p.user = v => sub = v /\ u = v
    BY <1>4, DistinctAssumption DEF Presented
  <2>7. p.cnf.jkt # None => jkt.jkt = p.cnf.jkt
    BY <1>1, <1>4, <2>3 DEF Presented, ProvesPossession
  <2>8. p.kind # "txn" /\ p.kind # "idjag"
    BY <1>2, <1>4, <1>12 DEF Presented
  <2>a. aud \in Audiences
    BY DEF Audiences
  <2> HIDE DEF u, sub, exp, t, scope, act, jkt, aud, res, cnf
  <2>9. /\ t \in TokenRecord
        /\ t.kind = "idjag" /\ t.client = c /\ t.user = u /\ t.sub = sub /\ t.scope = scope /\ t.aud = aud
        /\ t.act = act /\ t.cnf = jkt /\ t.exp = exp /\ t.parent = i /\ t.root = p.root /\ t.chained = (p.chained \/ "idjag" = "idjag")
    BY <1>2, <1>7, <1>8, <2>2, <2>3, <2>4, <2>5, <2>a, <2>b, <1>x DEF Derived, TokenRecord, Want, Subjects, Audiences, Chains, Confirmations
  <2>10. Derives(p, t, setup)
    BY <1>4, <1>7, <1>8, <2>4, <2>6, <2>7, <2>8, <2>9 DEF Derives, Presented, Want, aud
  <2> QED
    BY <1>8, <2>1, <2>9, <2>10 DEF Appends
<1> QED
  BY <1>10, <1>11, <1>12 DEF Want

\* The jwt-bearer grant appends an access token derived from the ID-JAG.
LEMMA JwtBearerDerives ==
    ASSUME TypeOK, NEW c \in Client, NEW i \in Token, Marked(issued[i]), JwtBearer(c, i)
    PROVE  Appends(i) /\ users' \subseteq User \cup Client
<1> DEFINE p == issued[i]
<1>1. p.kind = "idjag" /\ Len(issued) < MaxTokens
  BY DEF JwtBearer, AssertionVerifies
<1>2. PICK proof \in Proof, requested \in SUBSET Scope, resources \in RequestedResources, w \in SubjectResolves(p) :
          /\ AssertionAdmits(c, p, proof)
          /\ ResourcesAllowed(Ceiling(p), resources)
          /\ users' = users \cup {w}
          /\ Issue(AccessToken(i, c, [p EXCEPT !.user = w], EffectiveScope(c, p, requested),
                               ResolvedResources(Ceiling(p), resources), p.act, Cnf(proof)))
  BY DEF JwtBearer
<1>3. p \in TokenRecord /\ Len(p.act) <= MaxDepth
  BY DEF TypeOK, Token
<1> DEFINE s == [p EXCEPT !.user = w]
           scope == EffectiveScope(c, p, requested)
           res == ResolvedResources(Ceiling(p), resources)
           u == s.user
           sub == IF s.user = None THEN c ELSE s.user
           aud == IF res = {} THEN {c} ELSE res
           cnf == Cnf(proof)
           t == AccessToken(i, c, s, scope, res, p.act, cnf)
<1>4. issued' = Append(issued, t) /\ UNCHANGED <<revoked, clock, setup>>
  BY <1>2 DEF Issue
<1>5. scope \in SUBSET Scope /\ scope \subseteq ClientScope[c] /\ scope \subseteq p.scope
  BY <1>1, <1>3, ScopeFacts
<1>w. /\ w \in Subjects
      /\ \A v \in User : p.sub = v /\ p.user = v => w \in User /\ w = IF setup.byEmail THEN LocalUser[v] ELSE v
  <2>1. users \subseteq Subjects
    BY DEF TypeOK, Subjects
  <2>2. CASE setup.byEmail
    <3>1. PICK v \in User \cap {p.user} : w = LocalUser[v] /\ w \in users
      BY <1>2, <2>2 DEF SubjectResolves
    <3>2. w \in Subjects /\ w \in User
      BY <2>1, <3>1, RegistryAssumption, DistinctAssumption DEF Subjects
    <3> QED  BY <2>2, <3>1, <3>2
  <2>3. CASE ~setup.byEmail
    <3>1. w = p.sub
      BY <1>2, <2>3 DEF SubjectResolves
    <3> QED  BY <1>3, <2>3, <3>1, Fields DEF Subjects
  <2> QED  BY <2>2, <2>3
<1>6. u = w /\ u \in Subjects /\ sub = u
  BY <1>3, <1>w, DistinctAssumption DEF TokenRecord, Subjects
<1>c. Ceiling(p).client = p.client /\ Ceiling(p).aud = IF p.res = {} THEN {p.client} ELSE p.res
  BY <1>3 DEF Ceiling, TokenRecord
<1>7. aud \in Audiences /\ (p.res # {} => aud \subseteq p.res)
  <2>1. p.res \subseteq Resource /\ resources \subseteq Resource /\ p.client \in Client
    BY <1>3, Fields DEF RequestedResources
  <2>2. p.res # {} => ~Unrestricted(Ceiling(p))
    BY <1>c, <2>1, DistinctAssumption DEF Unrestricted
  <2>3. res \in SUBSET (Client \cup Resource) /\ (p.res # {} => res \subseteq p.res /\ res # {})
    BY <1>2, <1>c, <2>1, <2>2 DEF ResourcesAllowed, ResolvedResources
  <2> QED  BY <2>3 DEF Audiences
<1>8. cnf \in Confirmations /\ cnf.jkt = proof.dpop
  BY CnfFacts DEF Confirmations
<1>9. p.act \in Chains /\ p.root \in 1..2 /\ p.chained \in BOOLEAN /\ i \in 0..MaxTokens
  BY <1>1, <1>3, Fields, BoundAssumption DEF Token, Chains
<1>10. clock + AccessTtl \in Nat
  BY BoundAssumption DEF TypeOK
<1>11. t = Derived(i, "access", c, u, sub, scope, aud, p.act, cnf, clock + AccessTtl, {})
  BY DEF AccessToken
<1>12. p.client = c /\ (p.cnf.jkt # None => proof.dpop = p.cnf.jkt)
  BY <1>2 DEF AssertionAdmits
<1>15. users' \subseteq User \cup Client
  BY <1>2, <1>w DEF TypeOK, Subjects
<1> HIDE DEF scope, u, sub, aud, cnf, t, s, res
<1>13. /\ t \in TokenRecord
       /\ t.kind = "access" /\ t.client = c /\ t.user = u /\ t.sub = sub /\ t.scope = scope /\ t.aud = aud
       /\ t.act = p.act /\ t.cnf = cnf /\ t.parent = i /\ t.root = p.root /\ t.chained = (p.chained \/ FALSE)
  BY <1>5, <1>6, <1>7, <1>8, <1>9, <1>10, <1>11
     DEF Derived, TokenRecord, Want, Subjects, Audiences, Chains, Confirmations
<1>14. Derives(p, t, setup)
  BY <1>1, <1>5, <1>6, <1>7, <1>8, <1>12, <1>13, <1>w DEF Derives, Want
<1> QED
  BY <1>3, <1>4, <1>13, <1>14, <1>15 DEF Appends

-----------------------------------------------------------------------------
(* The invariant *)

\* The initial tokens are original, and nothing is derived yet.
LEMMA InitFaithful ==
    ASSUME Init
    PROVE  FaithfulInv
<1>1. PICK kind \in {"access", "refresh", "id"}, c \in Client, agent \in Client, u \in User \cup {None},
           scope \in SUBSET Scope, aud \in RequestedResources, proof \in Proof :
           /\ c # agent
           /\ IF kind = "id" THEN u # None /\ scope = {} /\ aud = {} /\ Cnf(proof) = Unbound
              ELSE scope # {} /\ scope \subseteq ClientScope[c]
           /\ issued = << OriginalToken(1, kind, c, u, scope, aud, Cnf(proof)),
                          OriginalToken(2, "access", agent, None, ClientScope[agent], {}, Unbound) >>
  BY Zenon DEF Init
<1> DEFINE first == OriginalToken(1, kind, c, u, scope, aud, Cnf(proof))
           second == OriginalToken(2, "access", agent, None, ClientScope[agent], {}, Unbound)
<1>2. Cnf(proof) \in Confirmations /\ Unbound \in Confirmations /\ << >> \in Chains
  BY CnfFacts DEF Confirmations, Unbound, Chains
<1>3. /\ first.kind = kind /\ first.client = c /\ first.user = u /\ first.sub = (IF u = None THEN c ELSE u)
      /\ first.scope = scope /\ first.aud = (IF aud = {} THEN {c} ELSE aud) /\ first.act = << >>
      /\ first.cnf = Cnf(proof) /\ first.root = 1 /\ first.chained = FALSE
  BY DEF OriginalToken
<1>4. /\ second.kind = "access" /\ second.client = agent /\ second.user = None /\ second.sub = agent
      /\ second.scope = ClientScope[agent] /\ second.aud = {agent} /\ second.act = << >>
      /\ second.cnf = Unbound /\ second.root = 2 /\ second.chained = FALSE
  BY DEF OriginalToken
<1>5. first \in TokenRecord
  <2>1. (IF aud = {} THEN {c} ELSE aud) \in SUBSET (Client \cup Resource \cup {TrustDomain, Target})
    BY DEF RequestedResources
  <2>2. (IF u = None THEN c ELSE u) \in User \cup Client
    OBVIOUS
  <2> QED
    BY <1>2, <2>1, <2>2, BoundAssumption DEF OriginalToken, TokenRecord, Confirmations, Chains
<1>6. second \in TokenRecord
  BY <1>2, BoundAssumption, RegistryAssumption DEF OriginalToken, TokenRecord, Confirmations, Chains
<1> HIDE DEF first, second
<1>7. Inherits(first, first, setup)
  <2>1. Original(first)
    BY <1>1, <1>3 DEF Original, RequestedResources
  <2> QED
    BY <1>1, <1>3, <2>1 DEF Inherits, Original, Marked, Unbound
<1>8. Inherits(second, second, setup)
  <2>1. Original(second)
    BY <1>4 DEF Original
  <2> QED
    BY <1>4, <2>1 DEF Inherits, Original, Marked, Unbound
<1>9. issued = << first, second >>
  BY <1>1 DEF first, second
<1>10. Len(issued) = 2 /\ issued[1] = first /\ issued[2] = second /\ issued \in Seq(TokenRecord)
  BY <1>5, <1>6, <1>9
<1>11. TypeOK
  <2>1. \A k \in Token : Len(issued[k].act) <= MaxDepth
    BY <1>3, <1>4, <1>10, BoundAssumption DEF Token
  <2> QED
    BY <1>10, <2>1, BoundAssumption DEF TypeOK, Init, Token
<1>12. Lineage
  BY <1>10 DEF Lineage, Token
<1>13. Ancestry
  BY <1>3, <1>4, <1>7, <1>8, <1>10 DEF Ancestry, Token
<1> QED
  BY <1>11, <1>12, <1>13 DEF FaithfulInv

\* Appending a derived token keeps the invariant: the rows before it are
\* unchanged, and the new one inherits by Compose.
LEMMA AppendFaithful ==
    ASSUME FaithfulInv, NEW i \in Token, Appends(i), users' \subseteq User \cup Client
    PROVE  FaithfulInv'
<1>1. PICK t \in TokenRecord :
          /\ issued' = Append(issued, t) /\ UNCHANGED <<revoked, clock, setup>>
          /\ t.parent = i /\ Len(t.act) <= MaxDepth /\ Derives(issued[i], t, setup)
  BY DEF Appends
<1>2. issued \in Seq(TokenRecord) /\ Len(issued) \in Nat /\ Len(issued) >= 2
  BY DEF FaithfulInv, TypeOK, Ancestry
<1>3. /\ issued' \in Seq(TokenRecord) /\ Len(issued') = Len(issued) + 1
      /\ issued'[Len(issued) + 1] = t
      /\ \A k \in Token : issued'[k] = issued[k]
  BY <1>1, <1>2 DEF Token
<1>4. Token' = Token \cup {Len(issued) + 1} /\ Token \subseteq Token'
  BY <1>2, <1>3 DEF Token
<1>5. \A k \in Token : issued[k] \in TokenRecord /\ issued[k].root \in Token
  BY <1>2, Fields DEF Token
<1>6. TypeOK'
  <2>1. \A k \in Token' : Len(issued'[k].act) <= MaxDepth
    BY <1>1, <1>3, <1>4 DEF FaithfulInv, TypeOK
  <2> QED
    BY <1>1, <1>3, <1>4, <2>1 DEF FaithfulInv, TypeOK
<1>7. Lineage'
  <2>1. ASSUME NEW k \in Token', k > 2
        PROVE  issued'[k].parent \in 1..(k - 1) /\ Derives(issued'[issued'[k].parent], issued'[k], setup')
    <3>1. CASE k \in Token
      <4>1. issued[k].parent \in 1..(k - 1) /\ Derives(issued[issued[k].parent], issued[k], setup)
        BY <2>1, <3>1 DEF FaithfulInv, Lineage
      <4>2. issued[k].parent \in Token
        BY <3>1, <4>1 DEF Token
      <4> QED
        BY <1>1, <1>3, <3>1, <4>1, <4>2
    <3>2. CASE k = Len(issued) + 1
      BY <1>1, <1>2, <1>3, <3>2 DEF Token
    <3> QED
      BY <1>4, <3>1, <3>2
  <2> QED
    BY <2>1 DEF Lineage
<1>8. Ancestry'
  <2>1. ASSUME NEW k \in Token'
        PROVE  Inherits(issued'[issued'[k].root], issued'[k], setup')
    <3>1. CASE k \in Token
      BY <1>1, <1>3, <1>5, <3>1 DEF FaithfulInv, Ancestry
    <3>2. CASE k = Len(issued) + 1
      <4>1. t.root = issued[i].root
        BY <1>1 DEF Derives
      <4>2. Inherits(issued[issued[i].root], issued[i], setup)
        BY DEF FaithfulInv, Ancestry
      <4>3. Inherits(issued[issued[i].root], t, setup)
        BY <1>1, <1>5, <4>2, Compose
      <4>4. issued'[k] = t /\ issued'[issued'[k].root] = issued[issued[i].root] /\ setup' = setup
        BY <1>1, <1>3, <1>5, <3>2, <4>1
      <4> QED
        BY <4>3, <4>4
    <3> QED
      BY <1>4, <3>1, <3>2
  <2> QED
    BY <1>2, <1>3, <2>1 DEF Ancestry
<1> QED
  BY <1>6, <1>7, <1>8 DEF FaithfulInv

\* No step breaks the invariant.
LEMMA StepFaithful ==
    ASSUME FaithfulInv, [Next]_vars
    PROVE  FaithfulInv'
<1>1. \A i \in Token : Marked(issued[i])
  BY DEF FaithfulInv, Ancestry, Inherits
<1>2. ASSUME NEW c \in Client, NEW i \in Token, NEW want \in Want, NEW urn \in Urn, Exchange(c, i, urn, want)
      PROVE  FaithfulInv'
  <2>1. Appends(i)
    BY <1>1, <1>2, ExchangeDerives DEF FaithfulInv
  <2>2. users' = users
    BY <1>2 DEF Exchange
  <2>3. users' \subseteq User \cup Client
    BY <2>2 DEF FaithfulInv, TypeOK
  <2> QED
    BY <2>1, <2>3, AppendFaithful
<1>3. ASSUME NEW c \in Client, NEW i \in Token, JwtBearer(c, i)
      PROVE  FaithfulInv'
  <2>1. Appends(i) /\ users' \subseteq User \cup Client
    BY <1>1, <1>3, JwtBearerDerives DEF FaithfulInv
  <2> QED
    BY <2>1, AppendFaithful
<1>4. ASSUME NEW i \in Token, Revoke(i)
      PROVE  FaithfulInv'
  BY <1>4 DEF Revoke, FaithfulInv, TypeOK, Lineage, Ancestry, Token
<1>5. CASE Tick
  BY <1>5, BoundAssumption DEF Tick, FaithfulInv, TypeOK, Lineage, Ancestry, Token
<1>6. CASE UNCHANGED vars
  BY <1>6 DEF vars, FaithfulInv, TypeOK, Lineage, Ancestry, Token
<1> QED
  BY <1>2, <1>3, <1>4, <1>5, <1>6 DEF Next, Want, Urn

\* What a token inherited and what its last derivation made sure of are the
\* five parts of DerivationFaithful.
LEMMA InvFaithful ==
    ASSUME FaithfulInv
    PROVE  DerivationFaithful
<1>1. \A k \in Token : issued[k] \in TokenRecord
  BY DEF FaithfulInv, TypeOK, Token
<1>2. \A k \in Token : Inherits(RootOf(issued[k]), issued[k], setup)
  BY DEF FaithfulInv, Ancestry, RootOf
<1>3. \A k \in 3..Len(issued) :
         k \in Token /\ issued[k].parent \in Token /\ Derives(issued[issued[k].parent], issued[k], setup)
  BY DEF FaithfulInv, TypeOK, Lineage, Token
<1>4. NoEscalation
  BY <1>2, <1>3 DEF NoEscalation, Inherits, Derives, Unrestricted
<1>5. BindingKept
  BY <1>2 DEF BindingKept, Inherits
<1>6. DelegationRecorded
  BY <1>3 DEF DelegationRecorded, Derives
<1>7. KindsKept
  BY <1>3 DEF KindsKept, Derives
<1>8. UserKept
  <2> SUFFICES ASSUME NEW k \in Token, RootOf(issued[k]).user # None
               PROVE  /\ ~(setup.byEmail /\ issued[k].chained) => issued[k].sub = RootOf(issued[k]).user
                      /\ k > 2 => issued[k].sub = IF setup.byEmail /\ issued[issued[k].parent].kind = "idjag"
                                                THEN LocalUser[issued[issued[k].parent].sub]
                                                ELSE issued[issued[k].parent].sub
    BY DEF UserKept
  <2>1. ~(setup.byEmail /\ issued[k].chained) => issued[k].sub = RootOf(issued[k]).user
    BY <1>2 DEF Inherits
  <2>2. ASSUME k > 2 PROVE issued[k].sub = IF setup.byEmail /\ issued[issued[k].parent].kind = "idjag"
                                           THEN LocalUser[issued[issued[k].parent].sub]
                                           ELSE issued[issued[k].parent].sub
    <3> DEFINE p == issued[issued[k].parent]
    <3>1. k \in 3..Len(issued)
      BY <2>2 DEF Token
    <3>2. issued[k].parent \in Token /\ Derives(p, issued[k], setup)
      BY <1>3, <3>1
    <3>3. issued[k].root = p.root
      BY <3>2 DEF Derives
    <3>4. RootOf(p).user # None /\ Inherits(RootOf(p), p, setup)
      BY <1>2, <3>2, <3>3 DEF RootOf
    <3>5. p.sub \in User /\ (p.kind # "txn" => p.user = p.sub)
      BY <3>4 DEF Inherits
    <3> HIDE DEF p
    <3>6. issued[k].sub = IF setup.byEmail /\ p.kind = "idjag" THEN LocalUser[p.sub] ELSE p.sub
      BY <3>2, <3>5 DEF Derives
    <3> QED  BY <3>6 DEF p
  <2> QED  BY <2>1, <2>2
<1> QED
  BY <1>4, <1>5, <1>6, <1>7, <1>8 DEF DerivationFaithful

\* The invariant holds in every reachable state.
LEMMA AlwaysFaithful == Spec => []FaithfulInv
<1>1. Init => FaithfulInv
  BY InitFaithful
<1>2. FaithfulInv /\ [Next]_vars => FaithfulInv'
  BY StepFaithful
<1> QED
  BY <1>1, <1>2, PTL DEF Spec

\* Every token row keeps its shape, whatever a client presents under whatever
\* type, and no act chain grows past max_delegation_depth.
THEOREM TypeCorrect == Spec => []TypeOK
<1>1. FaithfulInv => TypeOK
  BY DEF FaithfulInv
<1> QED
  BY <1>1, AlwaysFaithful, PTL

\* However long a chain of exchanges, transaction tokens, ID-JAGs and
\* jwt-bearer grants is, whoever presents its tokens and under whatever type,
\* scope and audience only shrink along it, a key binding is kept, the act
\* chain is never rewritten, no kind is laundered into another and the user
\* stays the same, up to the mapping of addresses.
THEOREM Faithful == Spec => []DerivationFaithful
<1>1. FaithfulInv => DerivationFaithful
  BY InvFaithful
<1> QED
  BY <1>1, AlwaysFaithful, PTL

-----------------------------------------------------------------------------
(* UserAccounts: the users table and what hangs on it *)

USE BoundsAssumption, AbsentAssumption

LEMMA NewRows ==
    /\ NewUser \in Row /\ NewUser # Null /\ NewUser.enabled
    /\ [NewUser EXCEPT !.role = "admin", !.enabled = FALSE] \in Row
    /\ [NewUser EXCEPT !.pw = 1, !.role = "admin"] \in Row
<1>0. 0 \in 0..MaxPassword /\ 1 \in 0..MaxPassword
  OBVIOUS
<1>1. NewUser \in Row /\ NewUser.enabled
  BY <1>0, Zenon DEF NewUser, Row
<1>2. \A c \in Row : [c EXCEPT !.role = "admin", !.enabled = FALSE] \in Row
  BY DEF Row
<1>3. \A c \in Row : [c EXCEPT !.pw = 1, !.role = "admin"] \in Row
  BY <1>0 DEF Row
<1> QED  BY <1>1, <1>2, <1>3

-----------------------------------------------------------------------------
(* The steps, grouped by what they can disturb *)

\* A new request: it carries what its operation needs, and nothing but its
\* slot, the histories and perhaps a code changes.
Arrival(r, op, u, arg, by, pc) ==
    /\ Begin(r, op, u, arg, by, pc)
    /\ op \in Ops /\ by \in Browser \cup {Null} /\ pc \in {"find", "write", "mint"}
    /\ op \in {"password", "social"} => by \in Browser
    /\ op = "create" => arg \in Row
    /\ op = "update" => arg \in Edit
    /\ op = "enable" => arg \in BOOLEAN
    /\ op = "role" => arg \in {"admin", "user"}
    /\ pc = "write" => op \in {"enable", "role", "reset"}
    /\ pc = "mint" => op = "redeem"
    /\ codes' \subseteq codes
    /\ UNCHANGED <<row, session, tokens, deny, passwords, ever>>

\* A step that is not one of a request under way.
Aside ==
    /\ session' = session \/ \E b \in Browser : session' = [session EXCEPT ![b] = Null]
    /\ codes' \subseteq codes \cup {session[b].user : b \in {x \in Browser : session[x] # Null}}
    /\ tokens' = tokens \/ (~mongo /\ \E u \in UserId : RevokeTokensOf(u))
    /\ deny' \subseteq deny \cup ({"username", "ip"} \X (UserId \cup Ip))
    /\ UNCHANGED <<row, req, history>>

LEMMA Groups ==
    Happens => \/ \E r \in Request : Step(r)
               \/ \E r \in Request, u \in UserId : \E op, arg, by, pc : Arrival(r, op, u, arg, by, pc)
               \/ Aside
<1> SUFFICES ASSUME Happens PROVE
       \/ \E r \in Request : Step(r)
       \/ \E r \in Request, u \in UserId : \E op, arg, by, pc : Arrival(r, op, u, arg, by, pc)
       \/ Aside
  OBVIOUS
<1> USE DEF Arrival, Ops, AdminOps
<1>1. ASSUME NEW r \in Request, NEW u \in UserId, NEW ip \in Ip, NEW b \in Browser,
             NEW pw \in 1..MaxPassword, login_submit(r, ip, b, u, pw)
      PROVE  Arrival(r, "password", u, pw, b, "find")
  BY <1>1 DEF login_submit
<1>2. ASSUME NEW r \in Request, NEW u \in UserId, NEW ip \in Ip, NEW b \in Browser,
             auth_callback(r, ip, b, u)
      PROVE  Arrival(r, "social", u, Null, b, "find")
  BY <1>2 DEF auth_callback
<1>3. ASSUME NEW r \in Request, NEW u \in UserId, NEW ip \in Ip, handle_jwt_bearer_grant(r, ip, u)
      PROVE  Arrival(r, "assertion", u, Null, Null, "find")
  BY <1>3 DEF handle_jwt_bearer_grant
<1>4. ASSUME NEW r \in Request, NEW u \in UserId, redeem(r, u)
      PROVE  Arrival(r, "redeem", u, Null, Null, "mint")
  BY <1>4 DEF redeem
<1>5. ASSUME NEW r \in Request, NEW u \in UserId, NEW b \in Browser \cup {Null}, ManageUser(r, b, u)
      PROVE  \E op, arg, by, pc : Arrival(r, op, u, arg, by, pc)
  <2>1. ASSUME NEW c \in {NewUser, [NewUser EXCEPT !.role = "admin", !.enabled = FALSE]},
               Manage(r, b, "create", u, c, "find")
        PROVE  Arrival(r, "create", u, c, b, "find")
    <3>1. c \in Row
      BY NewRows
    <3> QED  BY <2>1, <3>1 DEF Manage
  <2>2. ASSUME NEW edit \in Edit, Manage(r, b, "update", u, edit, "find")
        PROVE  Arrival(r, "update", u, edit, b, "find")
    BY <2>2 DEF Manage
  <2>3. ASSUME Manage(r, b, "delete", u, Null, "find")
        PROVE  Arrival(r, "delete", u, Null, b, "find")
    BY <2>3 DEF Manage
  <2>4. ASSUME NEW on \in BOOLEAN, Manage(r, b, "enable", u, on, "write")
        PROVE  Arrival(r, "enable", u, on, b, "write")
    BY <2>4 DEF Manage
  <2>5. ASSUME NEW role \in {"admin", "user"}, Manage(r, b, "role", u, role, "write")
        PROVE  Arrival(r, "role", u, role, b, "write")
    BY <2>5 DEF Manage
  <2>6. ASSUME Manage(r, b, "reset", u, Null, "write")
        PROVE  Arrival(r, "reset", u, Null, b, "write")
    BY <2>6 DEF Manage
  <2> HIDE DEF Arrival
  <2> QED  BY <1>5, <2>1, <2>2, <2>3, <2>4, <2>5, <2>6, Zenon DEF ManageUser
<1>6. ASSUME NEW b \in Browser, authorize(b) PROVE Aside
  BY <1>6 DEF authorize, Aside, history
<1>7. ASSUME NEW b \in Browser, logout(b) PROVE Aside
  BY <1>7 DEF logout, Aside, history
<1>8. ASSUME NEW b \in Browser \cup {Null}, NEW u \in UserId, bulk_revoke_by_user(b, u) PROVE Aside
  BY <1>8 DEF bulk_revoke_by_user, Aside, history, RevokeTokensOf
<1>9. ASSUME NEW u \in UserId, add_denylist("username", u) PROVE Aside
  BY <1>9 DEF add_denylist, Aside, history
<1>10. ASSUME NEW ip \in Ip, add_denylist("ip", ip) PROVE Aside
  BY <1>10 DEF add_denylist, Aside, history
<1>11. ASSUME NEW entry \in deny, remove_denylist(entry) PROVE Aside
  BY <1>11 DEF remove_denylist, Aside, history
<1> HIDE DEF Arrival
<1> QED
  BY <1>1, <1>2, <1>3, <1>4, <1>5, <1>6, <1>7, <1>8, <1>9, <1>10, <1>11, Zenon DEF Happens
-----------------------------------------------------------------------------
(* Types *)

Pc == {"find", "verify", "insert", "mint", "reread", "write", "unlink", "codes", "remove", "revoke"}

\* The conjunct of UsersTypeOK about the requests.
RequestsOK == req = [r \in Request |-> req[r]] /\ \A r \in Request : RequestOK(req[r])

LEMMA PatchRow == \A c \in Row, edit \in Edit : Patch(c, edit) \in Row
<1> SUFFICES ASSUME NEW c \in Row, NEW edit \in Edit PROVE Patch(c, edit) \in Row
  OBVIOUS
<1>1. edit.listed # Null => edit.listed \in BOOLEAN
  BY EditAssumption
<1>2. edit.enabled # Null => edit.enabled \in BOOLEAN
  BY EditAssumption
<1> QED  BY <1>1, <1>2 DEF Patch, Row

LEMMA EditedRow ==
    ASSUME NEW c \in Row
    PROVE  /\ \A on \in BOOLEAN : [c EXCEPT !.enabled = on] \in Row
           /\ \A role \in {"admin", "user"} : [c EXCEPT !.role = role] \in Row
           /\ \A pw \in 0..MaxPassword : [c EXCEPT !.pw = pw] \in Row
  BY DEF Row

LEMMA Moved ==
    ASSUME NEW r \in Request, NEW q, RequestsOK, RequestOK(q), req' = [req EXCEPT ![r] = q]
    PROVE  RequestsOK'
<1>1. req' = [x \in Request |-> req'[x]]
  BY DEF RequestsOK
<1>2. \A x \in Request : RequestOK(req'[x])
  BY DEF RequestsOK
<1> QED  BY <1>1, <1>2 DEF RequestsOK

LEMMA GoOn ==
    ASSUME NEW r \in Request, NEW pc \in Pc, RequestsOK, req[r].pc # "idle", Goto(r, pc),
           pc # "verify", ~(pc = "write" /\ req[r].op = "update")
    PROVE  RequestsOK'
<1>1. req' = [req EXCEPT ![r] = [req[r] EXCEPT !.pc = pc]]
  BY DEF RequestsOK, Goto
<1>2. RequestOK([req[r] EXCEPT !.pc = pc])
  BY DEF RequestsOK, RequestOK, Pc, Idle
<1> QED  BY <1>1, <1>2, Moved

LEMMA HoldOn ==
    ASSUME NEW r \in Request, NEW pc \in Pc, NEW c \in Row, RequestsOK, req[r].pc # "idle",
           Hold(r, c, pc)
    PROVE  RequestsOK'
<1>1. req' = [req EXCEPT ![r] = [req[r] EXCEPT !.pc = pc, !.copy = c]]
  BY DEF RequestsOK, Hold
<1> DEFINE q == req[r]
           n == [q EXCEPT !.pc = pc, !.copy = c]
<1>2. RequestOK(n)
  <2>1. q # Idle /\ RequestOK(q)
    BY DEF RequestsOK, Idle
  <2>2. q \in [pc : Pc, op : Ops, user : UserId, arg : {q.arg}, copy : Row \cup {Null},
               by : Browser \cup {Null}, old : SUBSET (1..MaxToken)]
    BY <2>1 DEF RequestOK, Pc
  <2>3. /\ n.pc = pc /\ n.op = q.op /\ n.user = q.user /\ n.arg = q.arg /\ n.copy = c
        /\ n.by = q.by /\ n.old = q.old
        /\ n \in [pc : Pc, op : Ops, user : UserId, arg : {n.arg}, copy : Row \cup {Null},
               by : Browser \cup {Null}, old : SUBSET (1..MaxToken)]
    BY <2>2
  <2> HIDE DEF n, q
  <2> QED  BY <2>1, <2>3 DEF RequestOK, Pc
<1> HIDE DEF n
<1> QED  BY <1>1, <1>2, Moved DEF n, q

LEMMA Ended ==
    ASSUME NEW r \in Request, RequestsOK, Done(r)
    PROVE  RequestsOK'
<1>1. RequestOK(Idle)
  BY DEF RequestOK
<1> QED  BY <1>1, Moved DEF Done

\* Only a request under way takes a step.
LEMMA Busy ==
    ASSUME RequestsOK, NEW r \in Request, Step(r)
    PROVE  req[r].pc # "idle"
  BY DEF Step, Is, FindForLogin, VerifyPassword, find_or_create_social_user, InsertSocial,
         resolve_subject, Provision, Reread, save_token, FindForCreate, create_user, FindForUpdate,
         update_user, FindForDelete, Unlink, DeleteCodes, delete_user, DeleteOne, set_user_enabled,
         set_user_role, reset_user_password, revoke_tokens_by_user_id, StatementFails, RequestsOK,
         RequestOK, Idle

\* What a request that is under way carries.
LEMMA UnderWay ==
    ASSUME RequestsOK, NEW r \in Request, req[r].pc # "idle"
    PROVE  /\ req[r].user \in UserId /\ req[r].op \in Ops /\ req[r].pc \in Pc
           /\ req[r].old \in SUBSET (1..MaxToken)
           /\ req[r].op \in {"password", "social"} => req[r].by \in Browser
           /\ req[r].op = "create" => req[r].arg \in Row
           /\ req[r].op = "update" => req[r].arg \in Edit
           /\ req[r].op = "enable" => req[r].arg \in BOOLEAN
           /\ req[r].op = "role" => req[r].arg \in {"admin", "user"}
           /\ req[r].pc = "verify" => req[r].copy \in Row
           /\ req[r].pc = "write" /\ req[r].op = "update" => req[r].copy \in Row
  BY DEF RequestsOK, RequestOK, Idle, Pc

-----------------------------------------------------------------------------
(* Tokens that fade *)

TokenRow == [id : 1..MaxToken, owner : UserId, user : UserId \cup {Null}, live : BOOLEAN]

\* Tokens are numbered in the order in which they were made.
Numbered ==
    /\ \A s, t \in tokens : s.id = t.id => s = t
    /\ \A t \in tokens : t.id <= Cardinality(tokens)

\* The tokens of u are revoked or unlinked, all others stay, and none is new.
Faded(u) ==
    /\ IsFiniteSet(tokens') /\ tokens' \subseteq TokenRow
    /\ \A s \in tokens' : \E t \in tokens :
          /\ s.id = t.id /\ s.owner = t.owner
          /\ s.live => s = t /\ t.user # u
          /\ s.user # Null => s.user = t.user
    /\ Numbered => Numbered' /\ Cardinality(tokens') = Cardinality(tokens)

LEMMA Image ==
    ASSUME NEW S, NEW f, NEW T, f \in [S -> T], T = {f[t] : t \in S}, IsFiniteSet(S)
    PROVE  IsFiniteSet(T)
<1>1. f \in Surjection(S, T)
  BY DEF Surjection
<1> QED  BY <1>1, FS_Surjection

LEMMA InjectiveImage ==
    ASSUME NEW S, NEW f, NEW T, f \in [S -> T], T = {f[t] : t \in S}, IsFiniteSet(S),
           \A a, b \in S : f[a] = f[b] => a = b
    PROVE  Cardinality(T) = Cardinality(S)
<1>1. f \in Surjection(S, T)
  BY DEF Surjection
<1>2. f \in Injection(S, T)
  BY DEF Injection, IsInjective
<1> QED  BY <1>1, <1>2, FS_Surjection

LEMMA Fading ==
    ASSUME NEW u \in UserId, IsFiniteSet(tokens), tokens \subseteq TokenRow, NEW f \in [tokens -> TokenRow],
           tokens' = {f[t] : t \in tokens},
           \A t \in tokens :
              /\ f[t].id = t.id /\ f[t].owner = t.owner
              /\ f[t].live => f[t] = t /\ t.user # u
              /\ f[t].user # Null => f[t].user = t.user
    PROVE  Faded(u)
<1>1. f \in [tokens -> tokens']
  OBVIOUS
<1>2. IsFiniteSet(tokens')
  BY <1>1, Image
<1>3. ASSUME Numbered PROVE Numbered' /\ Cardinality(tokens') = Cardinality(tokens)
  <2>1. \A a, b \in tokens : f[a] = f[b] => a = b
    BY <1>3 DEF Numbered
  <2>2. Cardinality(tokens') = Cardinality(tokens)
    BY <2>1, <1>1, InjectiveImage
  <2>3. \A s \in tokens' : s.id <= Cardinality(tokens)
    BY <1>3 DEF Numbered
  <2>4. ASSUME NEW a \in tokens, NEW b \in tokens, f[a].id = f[b].id PROVE f[a] = f[b]
    BY <1>3, <2>4 DEF Numbered
  <2>5. \A s, t \in tokens' : s.id = t.id => s = t
    BY <2>4
  <2> QED  BY <2>2, <2>3, <2>5 DEF Numbered
<1>4. tokens' \subseteq TokenRow
  OBVIOUS
<1>5. \A s \in tokens' : \E t \in tokens :
          /\ s.id = t.id /\ s.owner = t.owner
          /\ s.live => s = t /\ t.user # u
          /\ s.user # Null => s.user = t.user
  OBVIOUS
<1> QED  BY <1>2, <1>3, <1>4, <1>5 DEF Faded

LEMMA RevokeFades ==
    ASSUME NEW u \in UserId, IsFiniteSet(tokens), tokens \subseteq TokenRow, ~mongo, RevokeTokensOf(u)
    PROVE  Faded(u)
<1> DEFINE f == [t \in tokens |-> IF t.user = u THEN [t EXCEPT !.live = FALSE] ELSE t]
<1>1. f \in [tokens -> TokenRow]
  BY DEF TokenRow
<1>2. \A t \in tokens :
         /\ f[t].id = t.id /\ f[t].owner = t.owner
         /\ f[t].live => f[t] = t /\ t.user # u
         /\ f[t].user # Null => f[t].user = t.user
  BY DEF TokenRow
<1>3. tokens' = {f[t] : t \in tokens}
  BY DEF RevokeTokensOf
<1> HIDE DEF f
<1> QED  BY <1>1, <1>2, <1>3, Fading

LEMMA UnlinkFades ==
    ASSUME NEW r \in Request, RequestsOK, IsFiniteSet(tokens), tokens \subseteq TokenRow, Unlink(r)
    PROVE  Faded(req[r].user)
<1> DEFINE u == req[r].user
           f == [t \in tokens |-> IF t.user = u THEN [t EXCEPT !.user = Null, !.live = FALSE] ELSE t]
<1>0. u \in UserId
  BY UnderWay DEF Unlink, Is
<1>1. f \in [tokens -> TokenRow]
  BY DEF TokenRow
<1>2. \A t \in tokens :
         /\ f[t].id = t.id /\ f[t].owner = t.owner
         /\ f[t].live => f[t] = t /\ t.user # u
         /\ f[t].user # Null => f[t].user = t.user
  BY DEF TokenRow
<1>3. tokens' = {f[t] : t \in tokens}
  BY DEF Unlink
<1> HIDE DEF f, u
<1> QED  BY <1>0, <1>1, <1>2, <1>3, Fading DEF u

\* A new token gets the next number.
LEMMA Minting ==
    ASSUME NEW u \in UserId, IsFiniteSet(tokens), tokens \subseteq TokenRow, Cardinality(tokens) < MaxToken,
           tokens' = tokens \cup {[id |-> Cardinality(tokens) + 1, owner |-> u, user |-> u, live |-> TRUE]}
    PROVE  /\ IsFiniteSet(tokens') /\ tokens' \subseteq TokenRow
           /\ Numbered => Numbered' /\ Cardinality(tokens') = Cardinality(tokens) + 1
<1> DEFINE n == Cardinality(tokens)
           new == [id |-> n + 1, owner |-> u, user |-> u, live |-> TRUE]
<1>1. n \in Nat
  BY FS_CardinalityType
<1>2. new \in TokenRow
  BY <1>1 DEF TokenRow
<1>3. IsFiniteSet(tokens') /\ Cardinality(tokens') = IF new \in tokens THEN n ELSE n + 1
  BY FS_AddElement
<1>4. ASSUME Numbered PROVE Numbered' /\ Cardinality(tokens') = n + 1
  <2>1. \A t \in tokens : t.id \in Int /\ t.id <= n
    BY <1>4 DEF Numbered, TokenRow
  <2>2. new \notin tokens
    BY <2>1, <1>1
  <2>3. Cardinality(tokens') = n + 1
    BY <2>2, <1>3
  <2>4. \A t \in tokens' : t = new \/ (t \in tokens /\ t.id <= n /\ t.id \in Int)
    BY <2>1
  <2>5. new.id = n + 1
    OBVIOUS
  <2> HIDE DEF n, new
  <2>6. \A t \in tokens' : t.id <= n + 1
    BY <2>4, <2>5, <1>1
  <2>7. \A s, t \in tokens' : s.id = t.id => s = t
    BY <2>4, <2>5, <1>1, <1>4 DEF Numbered
  <2> QED  BY <2>3, <2>6, <2>7 DEF Numbered
<1> QED  BY <1>2, <1>3, <1>4

-----------------------------------------------------------------------------
(* The type invariant *)

SessionRow == [user : UserId, role : {"admin", "user"}, listed : BOOLEAN]

\* The conjuncts of UsersTypeOK about rows and their histories.
RowsOK ==
    /\ row \in [UserId -> Row \cup {Null}]
    /\ ever \subseteq UserId
    /\ decided # Null => decided \in [UserId -> Row \cup {Null}]
    /\ barred \in [UserId -> SUBSET Request]

RestOK ==
    /\ mongo \in BOOLEAN /\ dbFails \in BOOLEAN
    /\ session \in [Browser -> {Null} \cup SessionRow]
    /\ codes \subseteq UserId
    /\ tokens \subseteq TokenRow /\ IsFiniteSet(tokens)
    /\ deny \subseteq {"username", "ip"} \X (UserId \cup Ip)
    /\ answer # Null => answer \in [op : AdminOps, user : UserId, old : SUBSET (1..MaxToken)]
    /\ passwords \in 1..MaxPassword

LEMMA TypeParts == UsersTypeOK <=> RequestsOK /\ RowsOK /\ RestOK
  BY Zenon DEF UsersTypeOK, RequestsOK, RowsOK, RestOK, TokenRow, SessionRow

LEMMA SetRowType ==
    ASSUME RowsOK, NEW u \in UserId, NEW c \in Row \cup {Null}, SetRow(u, c)
    PROVE  row' \in [UserId -> Row \cup {Null}] /\ barred' \in [UserId -> SUBSET Request]
  BY DEF RowsOK, SetRow

LEMMA UpdateType ==
    ASSUME RowsOK, NEW u \in UserId, NEW c, Update(u, c), row[u] # Null => c \in Row
    PROVE  row' \in [UserId -> Row \cup {Null}] /\ barred' \in [UserId -> SUBSET Request]
  BY SetRowType DEF RowsOK, Update

LEMMA DecideType ==
    ASSUME RowsOK, NEW u \in UserId, NEW c, Decide(u, c),
           decided # Null /\ decided[u] # Null => c \in Row \cup {Null}
    PROVE  decided' # Null => decided' \in [UserId -> Row \cup {Null}]
  BY DEF RowsOK, Decide

LEMMA SavedType ==
    ASSUME RowsOK, RequestsOK, NEW r \in Request, req[r].pc # "idle", NEW c \in Row, save_user(r, c)
    PROVE  RowsOK'
<1>1. req[r].user \in UserId
  BY UnderWay
<1>2. row' \in [UserId -> Row \cup {Null}] /\ barred' \in [UserId -> SUBSET Request]
  BY <1>1, SetRowType DEF save_user
<1>3. decided' # Null => decided' \in [UserId -> Row \cup {Null}]
  BY <1>1 DEF save_user, RowsOK
<1> QED  BY <1>1, <1>2, <1>3 DEF save_user, RowsOK

LEMMA SignInType ==
    ASSUME RestOK, NEW b \in Browser, NEW u \in UserId, NEW c \in Row, SignIn(b, u, c)
    PROVE  session' \in [Browser -> {Null} \cup SessionRow]
<1>1. [user |-> u, role |-> c.role, listed |-> c.listed] \in SessionRow
  BY DEF Row, SessionRow
<1> QED  BY <1>1 DEF RestOK, SignIn

LEMMA ReportType ==
    ASSUME RequestsOK, NEW r \in Request, req[r].pc # "idle", req[r].op \in AdminOps, Report(r)
    PROVE  answer' \in [op : AdminOps, user : UserId, old : SUBSET (1..MaxToken)] /\ RequestsOK'
<1>1. answer' \in [op : AdminOps, user : UserId, old : SUBSET (1..MaxToken)]
  BY UnderWay DEF Report
<1> QED  BY <1>1, Ended DEF Report

\* Every step of a request under way keeps the types.
LEMMA StepType ==
    ASSUME RequestsOK, RowsOK, RestOK, NEW r \in Request, Step(r), UNCHANGED deployment
    PROVE  RequestsOK' /\ RowsOK' /\ RestOK'
<1> DEFINE q == req[r]
           u == q.user
<1>0. q.pc # "idle"
  BY Busy
<1>u. /\ u \in UserId /\ q.op \in Ops /\ q.pc \in Pc /\ q.old \in SUBSET (1..MaxToken)
      /\ q.op \in {"password", "social"} => q.by \in Browser
      /\ q.op = "create" => q.arg \in Row
      /\ q.op = "update" => q.arg \in Edit
      /\ q.op = "enable" => q.arg \in BOOLEAN
      /\ q.op = "role" => q.arg \in {"admin", "user"}
      /\ q.pc = "verify" => q.copy \in Row
      /\ q.pc = "write" /\ q.op = "update" => q.copy \in Row
      /\ row[u] # Null => row[u] \in Row
      /\ decided # Null /\ decided[u] # Null => decided[u] \in Row
  BY <1>0, UnderWay DEF RowsOK
<1>1. CASE FindForLogin(r)
  <2>1. RequestsOK'
    BY <1>1, <1>0, <1>u, HoldOn, Ended DEF FindForLogin, Is, AdminOps, Pc, RowsOK
  <2>2. RowsOK'
    BY <1>1, <1>0, <1>u DEF FindForLogin, RowsOK, history
  <2>3. RestOK'
    BY <1>1, <1>0, <1>u DEF FindForLogin, RestOK, history, deployment
  <2> QED  BY <2>1, <2>2, <2>3
<1>2. CASE VerifyPassword(r)
  <2>1. RequestsOK'
    BY <1>2, <1>0, <1>u, Ended DEF VerifyPassword, Is, AdminOps
  <2>2. RowsOK'
    BY <1>2, <1>0, <1>u DEF VerifyPassword, RowsOK, history
  <2>3. session' \in [Browser -> {Null} \cup SessionRow]
    BY <1>2, <1>0, <1>u, SignInType, NewRows DEF VerifyPassword, Is, RestOK
  <2>4. RestOK'
    BY <1>2, <1>0, <1>u, <2>3 DEF VerifyPassword, RestOK, history, deployment
  <2> QED  BY <2>1, <2>2, <2>4
<1>3. CASE find_or_create_social_user(r)
  <2>1. RequestsOK'
    BY <1>3, <1>0, <1>u, GoOn, Ended DEF find_or_create_social_user, Is, AdminOps, Pc
  <2>2. RowsOK'
    BY <1>3, <1>0, <1>u DEF find_or_create_social_user, RowsOK, history
  <2>3. session' \in [Browser -> {Null} \cup SessionRow]
    BY <1>3, <1>0, <1>u, SignInType, NewRows DEF find_or_create_social_user, Is, RestOK
  <2>4. RestOK'
    BY <1>3, <1>0, <1>u, <2>3 DEF find_or_create_social_user, RestOK, history, deployment
  <2> QED  BY <2>1, <2>2, <2>4
<1>4. CASE InsertSocial(r)
  <2>1. RequestsOK'
    BY <1>4, <1>0, <1>u, Ended DEF InsertSocial, Is, AdminOps
  <2>2. RowsOK'
    BY <1>4, <1>0, <1>u, SavedType, NewRows DEF InsertSocial, RowsOK
  <2>3. session' \in [Browser -> {Null} \cup SessionRow]
    BY <1>4, <1>0, <1>u, SignInType, NewRows DEF InsertSocial, Is, RestOK
  <2>4. RestOK'
    BY <1>4, <1>0, <1>u, <2>3 DEF InsertSocial, RestOK, history, deployment
  <2> QED  BY <2>1, <2>2, <2>4
<1>5. CASE resolve_subject(r)
  <2>1. RequestsOK'
    BY <1>5, <1>0, <1>u, GoOn, Ended DEF resolve_subject, Is, AdminOps, Pc
  <2>2. RowsOK'
    BY <1>5, <1>0, <1>u DEF resolve_subject, RowsOK, history
  <2>3. RestOK'
    BY <1>5, <1>0, <1>u DEF resolve_subject, RestOK, history, deployment
  <2> QED  BY <2>1, <2>2, <2>3
<1>6. CASE Provision(r)
  <2>1. RequestsOK'
    BY <1>6, <1>0, <1>u, GoOn DEF Provision, Is, AdminOps, Pc
  <2>2. RowsOK'
    BY <1>6, <1>0, <1>u, SavedType, NewRows DEF Provision, RowsOK
  <2>3. RestOK'
    BY <1>6, <1>0, <1>u DEF Provision, RestOK, history, deployment
  <2> QED  BY <2>1, <2>2, <2>3
<1>7. CASE Reread(r)
  <2>1. RequestsOK'
    BY <1>7, <1>0, <1>u, GoOn, Ended DEF Reread, Is, AdminOps, Pc
  <2>2. RowsOK'
    BY <1>7, <1>0, <1>u DEF Reread, RowsOK, history
  <2>3. RestOK'
    BY <1>7, <1>0, <1>u DEF Reread, RestOK, history, deployment
  <2> QED  BY <2>1, <2>2, <2>3
<1>8. CASE save_token(r)
  <2>1. RequestsOK'
    BY <1>8, <1>0, <1>u, Ended DEF save_token, Is, AdminOps
  <2>2. RowsOK'
    BY <1>8, <1>0, <1>u DEF save_token, RowsOK, history
  <2>3. tokens' \subseteq TokenRow /\ IsFiniteSet(tokens')
    BY <1>8, <1>0, <1>u, Minting DEF save_token, RestOK
  <2>4. RestOK'
    BY <1>8, <1>0, <1>u, <2>3 DEF save_token, RestOK, history, deployment
  <2> QED  BY <2>1, <2>2, <2>4
<1>9. CASE FindForCreate(r)
  <2>1. RequestsOK'
    BY <1>9, <1>0, <1>u, GoOn, Ended DEF FindForCreate, Is, AdminOps, Pc
  <2>2. RowsOK'
    BY <1>9, <1>0, <1>u DEF FindForCreate, RowsOK, history
  <2>3. RestOK'
    BY <1>9, <1>0, <1>u DEF FindForCreate, RestOK, history, deployment
  <2> QED  BY <2>1, <2>2, <2>3
<1>10. CASE create_user(r)
  <2>1. RequestsOK'
    BY <1>10, <1>0, <1>u, Ended DEF create_user, Is, AdminOps
  <2>2. RowsOK'
    <3>1. CASE passwords < MaxPassword /\ passwords' = passwords + 1
                 /\ save_user(r, [q.arg EXCEPT !.pw = passwords + 1])
      <4>1. passwords + 1 \in 0..MaxPassword
        BY <3>1 DEF RestOK
      <4>2. [q.arg EXCEPT !.pw = passwords + 1] \in Row
        BY <4>1, <1>10, <1>0, <1>u, EditedRow DEF create_user, Is
      <4> QED  BY <4>2, <3>1, <1>0, SavedType
    <3> QED  BY <3>1, <1>10, <1>0, <1>u DEF create_user, RowsOK
  <2>3. RestOK'
    BY <1>10, <1>0, <1>u DEF create_user, RestOK, history, deployment
  <2> QED  BY <2>1, <2>2, <2>3
<1>11. CASE FindForUpdate(r)
  <2>1. RequestsOK'
    BY <1>11, <1>0, <1>u, HoldOn, Ended, PatchRow DEF FindForUpdate, Is, AdminOps, Pc, RowsOK
  <2>2. RowsOK'
    BY <1>11, <1>0, <1>u DEF FindForUpdate, RowsOK, history
  <2>3. RestOK'
    BY <1>11, <1>0, <1>u DEF FindForUpdate, RestOK, history, deployment
  <2> QED  BY <2>1, <2>2, <2>3
<1>12. CASE update_user(r)
  <2>1. RequestsOK'
    BY <1>12, <1>0, <1>u, ReportType DEF update_user, Is, AdminOps
  <2>2. RowsOK'
    <3>1. row[u] # Null => q.copy \in Row
      BY <1>12, <1>0, <1>u DEF update_user, Is
    <3>2. decided # Null /\ decided[u] # Null => Patch(decided[u], q.arg) \in Row
      BY <1>12, <1>0, <1>u, PatchRow DEF update_user, Is
    <3>3. Decide(u, Patch(decided[u], q.arg))
      BY <1>12, <1>0, <1>u DEF update_user, Patch
    <3>4. Update(u, q.copy)
      BY <1>12, <1>0, <1>u DEF update_user
    <3>5. decided' # Null => decided' \in [UserId -> Row \cup {Null}]
      BY <1>u, <3>2, <3>3, DecideType
    <3>6. row' \in [UserId -> Row \cup {Null}] /\ barred' \in [UserId -> SUBSET Request]
      BY <1>u, <3>1, <3>4, UpdateType
    <3> QED  BY <1>12, <1>0, <1>u, <3>5, <3>6 DEF update_user, RowsOK
  <2>3. answer' = answer \/ answer' \in [op : AdminOps, user : UserId, old : SUBSET (1..MaxToken)]
    BY <1>12, <1>0, <1>u, ReportType DEF update_user, Is, AdminOps
  <2>4. RestOK'
    BY <1>12, <1>0, <1>u, <2>3 DEF update_user, RestOK, history, deployment
  <2> QED  BY <2>1, <2>2, <2>4
<1>13. CASE FindForDelete(r)
  <2>1. RequestsOK'
    BY <1>13, <1>0, <1>u, GoOn, Ended DEF FindForDelete, Is, AdminOps, Pc
  <2>2. RowsOK'
    BY <1>13, <1>0, <1>u DEF FindForDelete, RowsOK, history
  <2>3. RestOK'
    BY <1>13, <1>0, <1>u DEF FindForDelete, RestOK, history, deployment
  <2> QED  BY <2>1, <2>2, <2>3
<1>14. CASE Unlink(r)
  <2>1. RequestsOK'
    BY <1>14, <1>0, <1>u, GoOn DEF Unlink, Is, AdminOps, Pc
  <2>2. RowsOK'
    BY <1>14, <1>0, <1>u DEF Unlink, RowsOK, history
  <2>3. tokens' \subseteq TokenRow /\ IsFiniteSet(tokens')
    BY <1>14, <1>0, <1>u, UnlinkFades DEF RestOK, Faded
  <2>4. RestOK'
    BY <1>14, <1>0, <1>u, <2>3 DEF Unlink, RestOK, history, deployment
  <2> QED  BY <2>1, <2>2, <2>4
<1>15. CASE DeleteCodes(r)
  <2>1. RequestsOK'
    BY <1>15, <1>0, <1>u, GoOn DEF DeleteCodes, Is, AdminOps, Pc
  <2>2. RowsOK'
    BY <1>15, <1>0, <1>u DEF DeleteCodes, RowsOK, history
  <2>3. RestOK'
    BY <1>15, <1>0, <1>u DEF DeleteCodes, RestOK, history, deployment
  <2> QED  BY <2>1, <2>2, <2>3
<1>16. CASE delete_user(r)
  <2>1. RequestsOK'
    BY <1>16, <1>0, <1>u, GoOn, Ended DEF delete_user, Is, AdminOps, Pc
  <2>2. RowsOK'
    BY <1>16, <1>0, <1>u, SetRowType, DecideType DEF delete_user, RowsOK
  <2>3. RestOK'
    BY <1>16, <1>0, <1>u DEF delete_user, RestOK, history, deployment
  <2> QED  BY <2>1, <2>2, <2>3
<1>17. CASE DeleteOne(r)
  <2>1. RequestsOK'
    BY <1>17, <1>0, <1>u, GoOn DEF DeleteOne, Is, AdminOps, Pc
  <2>2. RowsOK'
    BY <1>17, <1>0, <1>u, SetRowType, DecideType DEF DeleteOne, RowsOK
  <2>3. RestOK'
    BY <1>17, <1>0, <1>u DEF DeleteOne, RestOK, history, deployment
  <2> QED  BY <2>1, <2>2, <2>3
<1>18. CASE set_user_enabled(r)
  <2>1. RequestsOK'
    BY <1>18, <1>0, <1>u, ReportType, GoOn DEF set_user_enabled, Is, AdminOps, Pc
  <2>2. RowsOK'
    <3>1. row[u] # Null => [row[u] EXCEPT !.enabled = q.arg] \in Row
      BY <1>18, <1>0, <1>u, EditedRow DEF set_user_enabled, Is
    <3>2. decided # Null /\ decided[u] # Null => [decided[u] EXCEPT !.enabled = q.arg] \in Row
      BY <1>18, <1>0, <1>u, EditedRow DEF set_user_enabled, Is
    <3>3. Decide(u, [decided[u] EXCEPT !.enabled = q.arg])
      BY <1>18, <1>0, <1>u DEF set_user_enabled
    <3>4. Update(u, [row[u] EXCEPT !.enabled = q.arg])
      BY <1>18, <1>0, <1>u DEF set_user_enabled
    <3>5. decided' # Null => decided' \in [UserId -> Row \cup {Null}]
      BY <1>u, <3>2, <3>3, DecideType
    <3>6. row' \in [UserId -> Row \cup {Null}] /\ barred' \in [UserId -> SUBSET Request]
      BY <1>u, <3>1, <3>4, UpdateType
    <3> QED  BY <1>18, <1>0, <1>u, <3>5, <3>6 DEF set_user_enabled, RowsOK
  <2>3. answer' = answer \/ answer' \in [op : AdminOps, user : UserId, old : SUBSET (1..MaxToken)]
    BY <1>18, <1>0, <1>u, ReportType DEF set_user_enabled, Is, AdminOps
  <2>4. RestOK'
    BY <1>18, <1>0, <1>u, <2>3 DEF set_user_enabled, RestOK, history, deployment
  <2> QED  BY <2>1, <2>2, <2>4
<1>19. CASE set_user_role(r)
  <2>1. RequestsOK'
    BY <1>19, <1>0, <1>u, ReportType DEF set_user_role, Is, AdminOps
  <2>2. RowsOK'
    <3>1. row[u] # Null => [row[u] EXCEPT !.role = q.arg] \in Row
      BY <1>19, <1>0, <1>u, EditedRow DEF set_user_role, Is
    <3>2. decided # Null /\ decided[u] # Null => [decided[u] EXCEPT !.role = q.arg] \in Row
      BY <1>19, <1>0, <1>u, EditedRow DEF set_user_role, Is
    <3>3. Decide(u, [decided[u] EXCEPT !.role = q.arg])
      BY <1>19, <1>0, <1>u DEF set_user_role
    <3>4. Update(u, [row[u] EXCEPT !.role = q.arg])
      BY <1>19, <1>0, <1>u DEF set_user_role
    <3>5. decided' # Null => decided' \in [UserId -> Row \cup {Null}]
      BY <1>u, <3>2, <3>3, DecideType
    <3>6. row' \in [UserId -> Row \cup {Null}] /\ barred' \in [UserId -> SUBSET Request]
      BY <1>u, <3>1, <3>4, UpdateType
    <3> QED  BY <1>19, <1>0, <1>u, <3>5, <3>6 DEF set_user_role, RowsOK
  <2>3. answer' = answer \/ answer' \in [op : AdminOps, user : UserId, old : SUBSET (1..MaxToken)]
    BY <1>19, <1>0, <1>u, ReportType DEF set_user_role, Is, AdminOps
  <2>4. RestOK'
    BY <1>19, <1>0, <1>u, <2>3 DEF set_user_role, RestOK, history, deployment
  <2> QED  BY <2>1, <2>2, <2>4
<1>20. CASE reset_user_password(r)
  <2>1. RequestsOK'
    BY <1>20, <1>0, <1>u, GoOn DEF reset_user_password, Is, AdminOps, Pc
  <2>2. RowsOK'
    <3>0. passwords + 1 \in 0..MaxPassword
      BY <1>20 DEF reset_user_password, RestOK
    <3>1. row[u] # Null => [row[u] EXCEPT !.pw = passwords + 1] \in Row
      BY <1>20, <1>0, <1>u, <3>0, EditedRow DEF reset_user_password, Is
    <3>2. decided # Null /\ decided[u] # Null => [decided[u] EXCEPT !.pw = passwords + 1] \in Row
      BY <1>20, <1>0, <1>u, <3>0, EditedRow DEF reset_user_password, Is
    <3>3. Decide(u, [decided[u] EXCEPT !.pw = passwords + 1])
      BY <1>20, <1>0, <1>u DEF reset_user_password
    <3>4. Update(u, [row[u] EXCEPT !.pw = passwords + 1])
      BY <1>20, <1>0, <1>u DEF reset_user_password
    <3>5. decided' # Null => decided' \in [UserId -> Row \cup {Null}]
      BY <1>u, <3>2, <3>3, DecideType
    <3>6. row' \in [UserId -> Row \cup {Null}] /\ barred' \in [UserId -> SUBSET Request]
      BY <1>u, <3>1, <3>4, UpdateType
    <3> QED  BY <1>20, <1>0, <1>u, <3>5, <3>6 DEF reset_user_password, RowsOK
  <2>3. RestOK'
    BY <1>20, <1>0, <1>u DEF reset_user_password, RestOK, history, deployment
  <2> QED  BY <2>1, <2>2, <2>3
<1>21. CASE revoke_tokens_by_user_id(r)
  <2>1. RequestsOK'
    BY <1>21, <1>0, <1>u, ReportType DEF revoke_tokens_by_user_id, Is, AdminOps
  <2>2. RowsOK'
    BY <1>21, <1>0, <1>u DEF revoke_tokens_by_user_id, RowsOK, history
  <2>3. tokens' \subseteq TokenRow /\ IsFiniteSet(tokens')
    <3>1. CASE mongo
      BY <3>1, <1>21, <1>0, <1>u DEF revoke_tokens_by_user_id, RevokeTokensOf, RestOK
    <3>2. CASE ~mongo /\ RevokeTokensOf(u)
      BY <3>2, <1>21, <1>0, <1>u, RevokeFades DEF RestOK, Faded
    <3> QED  BY <3>1, <3>2, <1>21, <1>0, <1>u DEF revoke_tokens_by_user_id, RestOK
  <2>4. answer' \in [op : AdminOps, user : UserId, old : SUBSET (1..MaxToken)]
    BY <1>21, <1>0, <1>u, ReportType DEF revoke_tokens_by_user_id, Is, AdminOps
  <2>5. RestOK'
    BY <1>21, <1>0, <1>u, <2>3, <2>4 DEF revoke_tokens_by_user_id, RestOK, history, deployment
  <2> QED  BY <2>1, <2>2, <2>5
<1>22. CASE StatementFails(r)
  <2>1. RequestsOK'
    BY <1>22, <1>0, <1>u, Ended DEF StatementFails, Is, AdminOps, Idle
  <2>2. RowsOK'
    BY <1>22, <1>0, <1>u DEF StatementFails, RowsOK, history
  <2>3. RestOK'
    BY <1>22, <1>0, <1>u DEF StatementFails, RestOK, history, deployment
  <2> QED  BY <2>1, <2>2, <2>3
<1> QED  BY <1>1, <1>2, <1>3, <1>4, <1>5, <1>6, <1>7, <1>8, <1>9, <1>10, <1>11,
         <1>12, <1>13, <1>14, <1>15, <1>16, <1>17, <1>18, <1>19, <1>20, <1>21, <1>22 DEF Step

LEMMA ArrivalType ==
    ASSUME RequestsOK, RowsOK, RestOK, NEW r \in Request, NEW u \in UserId, NEW op, NEW arg, NEW by,
           NEW pc, Arrival(r, op, u, arg, by, pc), UNCHANGED deployment
    PROVE  RequestsOK' /\ RowsOK' /\ RestOK'
<1> DEFINE q == [pc |-> pc, op |-> op, user |-> u, arg |-> arg, copy |-> Null, by |-> by,
                 old |-> {t.id : t \in LiveTokens(u)}]
<1>1. {t.id : t \in LiveTokens(u)} \in SUBSET (1..MaxToken)
  BY DEF LiveTokens, RestOK, TokenRow
<1>2. RequestOK(q)
  <2>1. q \in [pc : Pc, op : Ops, user : UserId, arg : {q.arg}, copy : Row \cup {Null},
               by : Browser \cup {Null}, old : SUBSET (1..MaxToken)]
    BY <1>1 DEF Arrival, Pc
  <2>2. /\ q.op = op /\ q.arg = arg /\ q.by = by /\ q.pc = pc
    OBVIOUS
  <2> HIDE DEF q
  <2> QED  BY <2>1, <2>2 DEF Arrival, RequestOK, Pc
<1>3. req' = [req EXCEPT ![r] = q]
  BY DEF Arrival, Begin
<1> HIDE DEF q
<1>4. RequestsOK'
  BY <1>2, <1>3, Moved
<1>5. RowsOK'
  <2>1. barred' \in [UserId -> SUBSET Request]
    BY DEF Arrival, Begin, RowsOK
  <2> QED  BY <2>1 DEF Arrival, Begin, RowsOK
<1>6. RestOK'
  BY DEF Arrival, Begin, RestOK, deployment
<1> QED  BY <1>4, <1>5, <1>6

LEMMA AsideType ==
    ASSUME RequestsOK, RowsOK, RestOK, Aside, UNCHANGED deployment
    PROVE  RequestsOK' /\ RowsOK' /\ RestOK'
<1>1. RequestsOK' /\ RowsOK'
  BY DEF Aside, RequestsOK, RowsOK, history
<1>2. session' \in [Browser -> {Null} \cup SessionRow]
  BY DEF Aside, RestOK
<1>3. codes' \subseteq UserId
  BY DEF Aside, RestOK, SessionRow
<1>4. tokens' \subseteq TokenRow /\ IsFiniteSet(tokens')
  BY RevokeFades DEF Aside, RestOK, Faded
<1> QED  BY <1>1, <1>2, <1>3, <1>4 DEF Aside, RestOK, history, deployment

LEMMA InitType == UsersInit => UsersTypeOK
<1> SUFFICES ASSUME UsersInit PROVE RequestsOK /\ RowsOK /\ RestOK
  BY TypeParts
<1>1. RequestsOK
  BY DEF UsersInit, RequestsOK, RequestOK
<1>2. row \in [UserId -> Row \cup {Null}]
  BY NewRows DEF UsersInit
<1>3. RowsOK
  BY <1>2 DEF UsersInit, RowsOK
<1>4. IsFiniteSet(tokens)
  BY FS_EmptySet DEF UsersInit
<1>5. RestOK
  BY <1>4 DEF UsersInit, RestOK
<1> QED  BY <1>1, <1>3, <1>5

LEMMA TypeStep == UsersTypeOK /\ [UsersNext]_userVars => UsersTypeOK'
<1>0. RequestsOK' /\ RowsOK' /\ RestOK' => UsersTypeOK'
  BY Zenon DEF UsersTypeOK, RequestsOK, RowsOK, RestOK, TokenRow, SessionRow
<1> SUFFICES ASSUME RequestsOK, RowsOK, RestOK, [UsersNext]_userVars
             PROVE  RequestsOK' /\ RowsOK' /\ RestOK'
  BY <1>0, TypeParts
<1>1. CASE UsersNext
  <2>1. Happens /\ UNCHANGED deployment
    BY <1>1 DEF UsersNext
  <2>2. ASSUME NEW r \in Request, Step(r) PROVE RequestsOK' /\ RowsOK' /\ RestOK'
    BY <2>1, <2>2, StepType
  <2>3. ASSUME NEW r \in Request, NEW u \in UserId, NEW op, NEW arg, NEW by, NEW pc,
               Arrival(r, op, u, arg, by, pc)
        PROVE  RequestsOK' /\ RowsOK' /\ RestOK'
    BY <2>1, <2>3, ArrivalType
  <2>4. ASSUME Aside PROVE RequestsOK' /\ RowsOK' /\ RestOK'
    BY <2>1, <2>4, AsideType
  <2> QED  BY <2>1, <2>2, <2>3, <2>4, Groups, Zenon
<1>2. CASE UNCHANGED userVars
  BY <1>2 DEF userVars, history, deployment, RequestsOK, RowsOK, RestOK
<1> QED  BY <1>1, <1>2

\* The users table, the sessions, codes and tokens of its users, the requests
\* under way and the histories keep their shape (Row, RequestOK), whichever
\* handlers run their statements in whatever order.
THEOREM UsersTypeCorrect == UsersSpec => []UsersTypeOK
<1> QED  BY InitType, TypeStep, PTL DEF UsersSpec

-----------------------------------------------------------------------------
(* What the step of a request does to its user's row, to the tokens, to the *)
(* last answer and to the request itself *)

\* While no two administrators met at a user, an update under way still holds
\* the row as it would write it.
CopiesFresh ==
    decided # Null => \A r \in Request : Is(r, "write", {"update"}) =>
        /\ row[req[r].user] # Null
        /\ req[r].copy = Patch(row[req[r].user], req[r].arg)

RowStep(r) ==
    LET u == req[r].user
    IN /\ decided = Null => decided' = Null
       /\ decided' # Null => row' = decided'
       /\ row' # row => req[r].op \in AdminOps \/ row[u] = Null
       /\ \/ UNCHANGED <<row, barred>>
          \/ \E c \in Row : SetRow(u, c)
          \/ SetRow(u, Null) /\ (mongo \/ ~Referenced(u)) /\ tokens' = tokens

TokenStep(r) ==
    LET u == req[r].user
    IN \/ tokens' = tokens
       \/ Faded(u) /\ row' = row
       \/ /\ MayRefer(u) /\ row' = row /\ Cardinality(tokens) < MaxToken
          /\ tokens' = tokens \cup {[id |-> Cardinality(tokens) + 1, owner |-> u, user |-> u,
                                     live |-> TRUE]}

AnswerStep(r) ==
    \/ answer' = answer
    \/ answer'.old = {}
    \/ answer'.old = req[r].old /\ (mongo \/ dbFails \/ Faded(req[r].user))

RequestStep(r) ==
    LET q == req[r]
        n == req'[r]
    IN /\ \A x \in Request \ {r} : req'[x] = req[x]
       /\ n = Idle \/ (n.op = q.op /\ n.user = q.user /\ n.arg = q.arg /\ n.old = q.old)
       /\ n.pc = "write" /\ n.op = "update" =>
             row' = row /\ row[q.user] # Null /\ n.copy = Patch(row[q.user], q.arg)
       /\ (n.pc = "verify" /\ n.op = "password") \/ (n.pc = "mint" /\ n.op = "assertion") =>
             row'[q.user] # Null /\ row'[q.user].enabled

LEMMA RowEffects ==
    ASSUME RequestsOK, RowsOK, RestOK, NEW r \in Request, Step(r), RowsAsDecided, CopiesFresh
    PROVE  RowStep(r)
<1> DEFINE q == req[r]
           u == q.user
<1>0. q.pc # "idle"
  BY Busy
<1>u. /\ u \in UserId
      /\ q.op = "create" => q.arg \in Row
      /\ q.op = "update" => q.arg \in Edit
      /\ q.op = "enable" => q.arg \in BOOLEAN
      /\ q.op = "role" => q.arg \in {"admin", "user"}
      /\ q.pc = "write" /\ q.op = "update" => q.copy \in Row
      /\ row[u] # Null => row[u] \in Row
  BY <1>0, UnderWay DEF RowsOK
<1>q. UNCHANGED <<row, barred, decided>> => RowStep(r)
  BY DEF RowStep, RowsAsDecided
<1>s. ASSUME NEW c \in Row, save_user(r, c) PROVE RowStep(r)
  BY <1>s, <1>u DEF RowStep, save_user, RowsAsDecided, SetRow, RowsOK
<1>d. ASSUME NEW c, NEW d, Update(u, c), Decide(u, d), q.op \in AdminOps, row[u] # Null => c \in Row,
             decided # Null /\ row[u] # Null => c = d
      PROVE  RowStep(r)
  <2>1. decided # Null => row = decided
    BY DEF RowsAsDecided
  <2>2. decided' # Null => row' = decided'
    BY <1>d, <1>u, <2>1 DEF Update, SetRow, Decide, RowsOK
  <2>3. UNCHANGED <<row, barred>> \/ \E e \in Row : SetRow(u, e)
    BY <1>d DEF Update
  <2>4. decided = Null => decided' = Null
    BY <1>d DEF Decide
  <2> QED  BY <1>d, <2>2, <2>3, <2>4 DEF RowStep
<1>r. ASSUME SetRow(u, Null), Decide(u, Null), q.op \in AdminOps, mongo \/ ~Referenced(u), tokens' = tokens
      PROVE  RowStep(r)
  <2>1. decided # Null => row = decided
    BY DEF RowsAsDecided
  <2>2. decided' # Null => row' = decided'
    BY <1>r, <1>u, <2>1 DEF SetRow, Decide, RowsOK
  <2> QED  BY <1>r, <2>2 DEF RowStep, Decide
<1>1. CASE FindForLogin(r)
  BY <1>1, <1>q DEF FindForLogin, history
<1>2. CASE VerifyPassword(r)
  BY <1>2, <1>q DEF VerifyPassword, history
<1>3. CASE find_or_create_social_user(r)
  BY <1>3, <1>q DEF find_or_create_social_user, history
<1>4. CASE InsertSocial(r)
  BY <1>4, <1>q, <1>s, NewRows DEF InsertSocial
<1>5. CASE resolve_subject(r)
  BY <1>5, <1>q DEF resolve_subject, history
<1>6. CASE Provision(r)
  BY <1>6, <1>q, <1>s, NewRows DEF Provision
<1>7. CASE Reread(r)
  BY <1>7, <1>q DEF Reread, history
<1>8. CASE save_token(r)
  BY <1>8, <1>q DEF save_token, history
<1>9. CASE FindForCreate(r)
  BY <1>9, <1>q DEF FindForCreate, history
<1>10. CASE create_user(r)
  <2>1. CASE passwords < MaxPassword /\ save_user(r, [q.arg EXCEPT !.pw = passwords + 1])
    <3>1. passwords + 1 \in 0..MaxPassword
      BY <2>1 DEF RestOK
    <3>2. [q.arg EXCEPT !.pw = passwords + 1] \in Row
      BY <1>10, <3>1, <1>u, EditedRow DEF create_user, Is
    <3> QED  BY <2>1, <3>2, <1>s
  <2> QED  BY <1>10, <2>1, <1>q DEF create_user
<1>11. CASE FindForUpdate(r)
  BY <1>11, <1>q DEF FindForUpdate, history
<1>12. CASE update_user(r)
  <2>1. Update(u, q.copy) /\ Decide(u, Patch(decided[u], q.arg)) /\ q.op = "update" /\ q.copy \in Row
    BY <1>12, <1>u DEF update_user, Is, Patch
  <2>2. decided # Null /\ row[u] # Null => q.copy = Patch(decided[u], q.arg)
    BY <1>12 DEF update_user, Is, CopiesFresh, RowsAsDecided
  <2> QED  BY <2>1, <2>2, <1>d DEF AdminOps
<1>13. CASE FindForDelete(r)
  BY <1>13, <1>q DEF FindForDelete, history
<1>14. CASE Unlink(r)
  BY <1>14, <1>q DEF Unlink, history
<1>15. CASE DeleteCodes(r)
  BY <1>15, <1>q DEF DeleteCodes, history
<1>16. CASE delete_user(r)
  BY <1>16, <1>q, <1>r DEF delete_user, Is, AdminOps
<1>17. CASE DeleteOne(r)
  BY <1>17, <1>q, <1>r DEF DeleteOne, Is, AdminOps
<1>18. CASE set_user_enabled(r)
  <2>1. /\ Update(u, [row[u] EXCEPT !.enabled = q.arg]) /\ Decide(u, [decided[u] EXCEPT !.enabled = q.arg])
        /\ q.op \in AdminOps
    BY <1>18 DEF set_user_enabled, Is, AdminOps
  <2>2. row[u] # Null => [row[u] EXCEPT !.enabled = q.arg] \in Row
    BY <1>18, <1>u, EditedRow DEF set_user_enabled, Is
  <2>3. decided # Null => [row[u] EXCEPT !.enabled = q.arg] = [decided[u] EXCEPT !.enabled = q.arg]
    BY DEF RowsAsDecided
  <2> QED  BY <2>1, <2>2, <2>3, <1>d
<1>19. CASE set_user_role(r)
  <2>1. /\ Update(u, [row[u] EXCEPT !.role = q.arg]) /\ Decide(u, [decided[u] EXCEPT !.role = q.arg])
        /\ q.op \in AdminOps
    BY <1>19 DEF set_user_role, Is, AdminOps
  <2>2. row[u] # Null => [row[u] EXCEPT !.role = q.arg] \in Row
    BY <1>19, <1>u, EditedRow DEF set_user_role, Is
  <2>3. decided # Null => [row[u] EXCEPT !.role = q.arg] = [decided[u] EXCEPT !.role = q.arg]
    BY DEF RowsAsDecided
  <2> QED  BY <2>1, <2>2, <2>3, <1>d
<1>20. CASE reset_user_password(r)
  <2>0. passwords + 1 \in 0..MaxPassword
    BY <1>20 DEF reset_user_password, RestOK
  <2>1. /\ Update(u, [row[u] EXCEPT !.pw = passwords + 1]) /\ Decide(u, [decided[u] EXCEPT !.pw = passwords + 1])
        /\ q.op \in AdminOps
    BY <1>20 DEF reset_user_password, Is, AdminOps
  <2>2. row[u] # Null => [row[u] EXCEPT !.pw = passwords + 1] \in Row
    BY <1>20, <1>u, EditedRow, <2>0 DEF reset_user_password, Is
  <2>3. decided # Null => [row[u] EXCEPT !.pw = passwords + 1] = [decided[u] EXCEPT !.pw = passwords + 1]
    BY DEF RowsAsDecided
  <2> QED  BY <2>1, <2>2, <2>3, <1>d
<1>21. CASE revoke_tokens_by_user_id(r)
  BY <1>21, <1>q DEF revoke_tokens_by_user_id, history
<1>22. CASE StatementFails(r)
  BY <1>22, <1>q DEF StatementFails, history
<1> QED  BY <1>1, <1>2, <1>3, <1>4, <1>5, <1>6, <1>7, <1>8, <1>9, <1>10, <1>11,
         <1>12, <1>13, <1>14, <1>15, <1>16, <1>17, <1>18, <1>19, <1>20, <1>21, <1>22 DEF Step

LEMMA TokenEffects ==
    ASSUME RequestsOK, RowsOK, RestOK, NEW r \in Request, Step(r)
    PROVE  TokenStep(r) /\ AnswerStep(r)
<1> DEFINE u == req[r].user
<1>0. req[r].pc # "idle"
  BY Busy
<1>u. u \in UserId /\ IsFiniteSet(tokens) /\ tokens \subseteq TokenRow
  BY <1>0, UnderWay DEF RestOK
<1>1. CASE FindForLogin(r)
  BY <1>1 DEF FindForLogin, TokenStep, AnswerStep, history
<1>2. CASE VerifyPassword(r)
  BY <1>2 DEF VerifyPassword, TokenStep, AnswerStep, history
<1>3. CASE find_or_create_social_user(r)
  BY <1>3 DEF find_or_create_social_user, TokenStep, AnswerStep, history
<1>4. CASE InsertSocial(r)
  BY <1>4 DEF InsertSocial, TokenStep, AnswerStep, history
<1>5. CASE resolve_subject(r)
  BY <1>5 DEF resolve_subject, TokenStep, AnswerStep, history
<1>6. CASE Provision(r)
  BY <1>6 DEF Provision, TokenStep, AnswerStep, history
<1>7. CASE Reread(r)
  BY <1>7 DEF Reread, TokenStep, AnswerStep, history
<1>8. CASE save_token(r)
  BY <1>8 DEF save_token, TokenStep, AnswerStep, history
<1>9. CASE FindForCreate(r)
  BY <1>9 DEF FindForCreate, TokenStep, AnswerStep, history
<1>10. CASE create_user(r)
  BY <1>10 DEF create_user, TokenStep, AnswerStep, history
<1>11. CASE FindForUpdate(r)
  BY <1>11 DEF FindForUpdate, TokenStep, AnswerStep, history
<1>12. CASE update_user(r)
  BY <1>12 DEF update_user, Is, TokenStep, AnswerStep, Report
<1>13. CASE FindForDelete(r)
  BY <1>13 DEF FindForDelete, TokenStep, AnswerStep, history
<1>14. CASE Unlink(r)
  BY <1>14, <1>u, UnlinkFades DEF Unlink, TokenStep, AnswerStep, history
<1>15. CASE DeleteCodes(r)
  BY <1>15 DEF DeleteCodes, TokenStep, AnswerStep, history
<1>16. CASE delete_user(r)
  BY <1>16 DEF delete_user, TokenStep, AnswerStep, history
<1>17. CASE DeleteOne(r)
  BY <1>17 DEF DeleteOne, TokenStep, AnswerStep, history
<1>18. CASE set_user_enabled(r)
  BY <1>18 DEF set_user_enabled, Is, TokenStep, AnswerStep, Report
<1>19. CASE set_user_role(r)
  BY <1>19 DEF set_user_role, Is, TokenStep, AnswerStep, Report
<1>20. CASE reset_user_password(r)
  BY <1>20 DEF reset_user_password, TokenStep, AnswerStep, history
<1>21. CASE revoke_tokens_by_user_id(r)
  <2>1. CASE ~mongo /\ RevokeTokensOf(u)
    <3>1. Faded(u)
      BY <2>1, <1>u, RevokeFades
    <3> QED  BY <1>21, <2>1, <3>1 DEF revoke_tokens_by_user_id, TokenStep, AnswerStep, Report
  <2>2. CASE mongo \/ (dbFails /\ tokens' = tokens)
    BY <1>21, <2>2 DEF revoke_tokens_by_user_id, TokenStep, AnswerStep, Report, RevokeTokensOf
  <2> QED  BY <1>21, <2>1, <2>2 DEF revoke_tokens_by_user_id
<1>22. CASE StatementFails(r)
  BY <1>22 DEF StatementFails, TokenStep, AnswerStep, history
<1> QED  BY <1>1, <1>2, <1>3, <1>4, <1>5, <1>6, <1>7, <1>8, <1>9, <1>10, <1>11,
         <1>12, <1>13, <1>14, <1>15, <1>16, <1>17, <1>18, <1>19, <1>20, <1>21, <1>22 DEF Step

LEMMA RequestEffects ==
    ASSUME RequestsOK, RowsOK, RestOK, NEW r \in Request, Step(r)
    PROVE  RequestStep(r)
<1> DEFINE q == req[r]
<1>0. q.pc # "idle"
  BY Busy
<1>u. /\ q.user \in UserId
      /\ q \in [pc : Pc, op : Ops, user : UserId, arg : {q.arg}, copy : Row \cup {Null},
                by : Browser \cup {Null}, old : SUBSET (1..MaxToken)]
      /\ req = [x \in Request |-> req[x]]
  BY <1>0 DEF RequestsOK, RequestOK, Idle, Pc
<1>i. ASSUME Done(r) PROVE RequestStep(r)
  BY <1>i, <1>u DEF RequestStep, Done, Idle
<1>g. ASSUME NEW pc, Goto(r, pc), pc \notin {"write", "verify"},
             pc = "mint" /\ q.op = "assertion" => row'[q.user] # Null /\ row'[q.user].enabled
      PROVE  RequestStep(r)
  <2> DEFINE n == [q EXCEPT !.pc = pc]
  <2>1. req'[r] = n /\ \A x \in Request \ {r} : req'[x] = req[x]
    BY <1>g, <1>u DEF Goto
  <2>2. n.pc = pc /\ n.op = q.op /\ n.user = q.user /\ n.arg = q.arg /\ n.old = q.old
    BY <1>u
  <2> HIDE DEF n
  <2> QED  BY <1>g, <2>1, <2>2 DEF RequestStep
<1>h. ASSUME NEW pc, NEW c, Hold(r, c, pc), row' = row, pc # "mint",
             pc = "write" => row[q.user] # Null /\ c = Patch(row[q.user], q.arg),
             pc = "verify" => row[q.user] # Null /\ row[q.user].enabled
      PROVE  RequestStep(r)
  <2> DEFINE n == [q EXCEPT !.pc = pc, !.copy = c]
  <2>1. req'[r] = n /\ \A x \in Request \ {r} : req'[x] = req[x]
    BY <1>h, <1>u DEF Hold
  <2>2. /\ n.pc = pc /\ n.op = q.op /\ n.user = q.user /\ n.arg = q.arg /\ n.old = q.old
        /\ n.copy = c
    BY <1>u
  <2> HIDE DEF n
  <2> QED  BY <1>h, <2>1, <2>2 DEF RequestStep
<1>1. CASE FindForLogin(r)
  BY <1>1, <1>i, <1>g, <1>h, <1>u DEF FindForLogin, Is
<1>2. CASE VerifyPassword(r)
  BY <1>2, <1>i, <1>g, <1>h, <1>u DEF VerifyPassword, Is
<1>3. CASE find_or_create_social_user(r)
  BY <1>3, <1>i, <1>g, <1>h, <1>u DEF find_or_create_social_user, Is
<1>4. CASE InsertSocial(r)
  BY <1>4, <1>i, <1>g, <1>h, <1>u DEF InsertSocial, Is
<1>5. CASE resolve_subject(r)
  BY <1>5, <1>i, <1>g, <1>h, <1>u DEF resolve_subject, Is
<1>6. CASE Provision(r)
  <2>1. CASE save_user(r, NewUser) /\ Goto(r, "mint")
    <3>1. row'[q.user] = NewUser
      BY <2>1, <1>u DEF save_user, SetRow, RowsOK
    <3> QED  BY <2>1, <3>1, <1>g, NewRows
  <2>2. CASE Goto(r, "reread")
    BY <2>2, <1>g
  <2> QED  BY <1>6, <2>1, <2>2 DEF Provision
<1>7. CASE Reread(r)
  BY <1>7, <1>i, <1>g, <1>h, <1>u DEF Reread, Is
<1>8. CASE save_token(r)
  BY <1>8, <1>i, <1>g, <1>h, <1>u DEF save_token, Is
<1>9. CASE FindForCreate(r)
  BY <1>9, <1>i, <1>g, <1>h, <1>u DEF FindForCreate, Is
<1>10. CASE create_user(r)
  BY <1>10, <1>i, <1>g, <1>h, <1>u DEF create_user, Is
<1>11. CASE FindForUpdate(r)
  BY <1>11, <1>i, <1>g, <1>h, <1>u DEF FindForUpdate, Is
<1>12. CASE update_user(r)
  BY <1>12, <1>i, <1>g, <1>h, <1>u DEF update_user, Is, Report
<1>13. CASE FindForDelete(r)
  BY <1>13, <1>i, <1>g, <1>h, <1>u DEF FindForDelete, Is
<1>14. CASE Unlink(r)
  BY <1>14, <1>i, <1>g, <1>h, <1>u DEF Unlink, Is
<1>15. CASE DeleteCodes(r)
  BY <1>15, <1>i, <1>g, <1>h, <1>u DEF DeleteCodes, Is
<1>16. CASE delete_user(r)
  BY <1>16, <1>i, <1>g, <1>h, <1>u DEF delete_user, Is
<1>17. CASE DeleteOne(r)
  BY <1>17, <1>i, <1>g, <1>h, <1>u DEF DeleteOne, Is
<1>18. CASE set_user_enabled(r)
  BY <1>18, <1>i, <1>g, <1>h, <1>u DEF set_user_enabled, Is, Report
<1>19. CASE set_user_role(r)
  BY <1>19, <1>i, <1>g, <1>h, <1>u DEF set_user_role, Is, Report
<1>20. CASE reset_user_password(r)
  BY <1>20, <1>i, <1>g, <1>h, <1>u DEF reset_user_password, Is
<1>21. CASE revoke_tokens_by_user_id(r)
  BY <1>21, <1>i, <1>g, <1>h, <1>u DEF revoke_tokens_by_user_id, Is, Report
<1>22. CASE StatementFails(r)
  BY <1>22, <1>i, <1>g, <1>h, <1>u DEF StatementFails, Is
<1> QED  BY <1>1, <1>2, <1>3, <1>4, <1>5, <1>6, <1>7, <1>8, <1>9, <1>10, <1>11,
         <1>12, <1>13, <1>14, <1>15, <1>16, <1>17, <1>18, <1>19, <1>20, <1>21, <1>22 DEF Step

-----------------------------------------------------------------------------
(* The inductive invariant *)

\* Where there are foreign keys, only a revocation parts a token from its
\* owner, and the user a token refers to exists.
Linked ==
    ~mongo => \A t \in tokens : /\ t.live => t.user = t.owner
                                /\ t.user # Null => row[t.user] # Null

\* The tokens a request found live at its start are tokens of its user.
OldOwn ==
    ~mongo => \A r \in Request : req[r].pc # "idle" =>
        /\ \A i \in req[r].old : i <= Cardinality(tokens)
        /\ \A t \in tokens : t.id \in req[r].old => t.owner = req[r].user

\* The tokens of the last answer are dead, and none of them is still to come.
AnswerOK ==
    ~mongo /\ ~dbFails /\ answer # Null =>
        /\ \A i \in answer.old : i <= Cardinality(tokens)
        /\ \A t \in tokens : t.id \in answer.old => ~t.live

\* Two requests of administrators are for different users, or nothing is
\* promised any more.
OneAdmin ==
    decided # Null => \A r, x \in Request :
        (/\ r # x /\ req[r].pc # "idle" /\ req[x].pc # "idle"
         /\ req[r].op \in AdminOps /\ req[x].op \in AdminOps) => req[r].user # req[x].user

\* No request is barred from a user that is enabled now.
Unbarred == \A u \in UserId : row[u] # Null /\ row[u].enabled => barred[u] = {}

\* A login that verifies its password and an assertion about to be honoured
\* have seen their user enabled.
SeenEnabled ==
    \A r \in Request : Is(r, "verify", {"password"}) \/ Is(r, "mint", {"assertion"}) =>
        r \notin barred[req[r].user]

TokensInv == Numbered /\ Linked /\ OldOwn /\ AnswerOK
RowsInv == RowsAsDecided /\ CopiesFresh /\ OneAdmin /\ Unbarred /\ SeenEnabled
UsersInv == UsersTypeOK /\ TokensInv /\ RowsInv

LEMMA StepTokens ==
    ASSUME RequestsOK, RowsOK, RestOK, TokensInv, NEW r \in Request, req[r].pc # "idle",
           RowStep(r), TokenStep(r), AnswerStep(r), RequestStep(r), UNCHANGED deployment
    PROVE  TokensInv'
<1> DEFINE u == req[r].user
           card == Cardinality(tokens)
<1>u. u \in UserId /\ req[r].old \subseteq 1..MaxToken
  BY UnderWay
<1>c. card \in Nat /\ \A t \in tokens : t \in TokenRow /\ t.id \in Nat
  BY FS_CardinalityType DEF RestOK, TokenRow
<1>m. mongo' = mongo /\ dbFails' = dbFails
  BY DEF deployment
<1>r. \A x \in Request : req'[x].pc # "idle" =>
         req[x].pc # "idle" /\ req'[x].old = req[x].old /\ req'[x].user = req[x].user
  <2>1. \A x \in Request \ {r} : req'[x] = req[x]
    BY DEF RequestStep
  <2>2. req'[r].pc # "idle" => req'[r].old = req[r].old /\ req'[r].user = req[r].user
    BY DEF RequestStep, Idle
  <2> QED  BY <2>1, <2>2
<1>1. CASE tokens' = tokens
  <2>1. Numbered'
    BY <1>1 DEF TokensInv, Numbered
  <2>2. Linked'
    <3> SUFFICES ASSUME ~mongo, NEW t \in tokens
                 PROVE  (t.live => t.user = t.owner) /\ (t.user # Null => row'[t.user] # Null)
      BY <1>1, <1>m DEF Linked
    <3>1. (t.live => t.user = t.owner) /\ (t.user # Null => row[t.user] # Null /\ t.user \in UserId)
      BY <1>c DEF TokensInv, Linked, TokenRow
    <3>2. CASE row' = row
      BY <3>1, <3>2
    <3>3. CASE \E c \in Row : SetRow(u, c)
      BY <3>1, <3>3, <1>u DEF SetRow, RowsOK
    <3>4. CASE SetRow(u, Null) /\ ~Referenced(u)
      BY <3>1, <3>4, <1>u DEF SetRow, RowsOK, Referenced
    <3> QED  BY <3>2, <3>3, <3>4 DEF RowStep
  <2>3. OldOwn'
    BY <1>1, <1>m, <1>r DEF TokensInv, OldOwn
  <2>4. AnswerOK'
    <3> SUFFICES ASSUME ~mongo, ~dbFails, answer' # Null
                 PROVE  /\ \A i \in answer'.old : i <= card
                        /\ \A t \in tokens : t.id \in answer'.old => ~t.live
      BY <1>1, <1>m DEF AnswerOK
    <3>1. CASE answer' = answer
      BY <3>1 DEF TokensInv, AnswerOK
    <3>2. CASE answer'.old = {}
      BY <3>2
    <3>3. CASE answer'.old = req[r].old /\ Faded(u)
      <4>1. \A t \in tokens : t.live => t.user # u /\ t.user = t.owner
        <5>1. \A s \in tokens : \E t \in tokens : s.live => s = t /\ t.user # u
          BY <3>3, <1>1 DEF Faded
        <5> QED  BY <5>1 DEF TokensInv, Linked
      <4>2. /\ \A i \in req[r].old : i <= card
            /\ \A t \in tokens : t.id \in req[r].old => t.owner = u
        BY DEF TokensInv, OldOwn
      <4> QED  BY <3>3, <4>1, <4>2
    <3> QED  BY <3>1, <3>2, <3>3 DEF AnswerStep
  <2> QED  BY <2>1, <2>2, <2>3, <2>4 DEF TokensInv
<1>2. CASE Faded(u) /\ row' = row
  <2>1. Numbered' /\ Cardinality(tokens') = card
    BY <1>2 DEF TokensInv, Faded
  <2>2. \A s \in tokens' : \E t \in tokens :
           /\ s.id = t.id /\ s.owner = t.owner
           /\ s.live => s = t /\ t.user # u
           /\ s.user # Null => s.user = t.user
    BY <1>2 DEF Faded
  <2>3. Linked'
    BY <2>2, <1>2, <1>m DEF TokensInv, Linked
  <2>4. OldOwn'
    BY <2>1, <2>2, <1>m, <1>r DEF TokensInv, OldOwn
  <2>5. AnswerOK'
    <3> SUFFICES ASSUME ~mongo, ~dbFails, answer' # Null
                 PROVE  /\ \A i \in answer'.old : i <= card
                        /\ \A s \in tokens' : s.id \in answer'.old => ~s.live
      BY <2>1, <1>m DEF AnswerOK
    <3>1. CASE answer' = answer
      BY <3>1, <2>2 DEF TokensInv, AnswerOK
    <3>2. CASE answer'.old = {}
      BY <3>2
    <3>3. CASE answer'.old = req[r].old
      <4>1. /\ \A i \in req[r].old : i <= card
            /\ \A t \in tokens : t.id \in req[r].old => t.owner = u
        BY DEF TokensInv, OldOwn
      <4>2. \A t \in tokens : t.live => t.user = t.owner
        BY DEF TokensInv, Linked
      <4> QED  BY <3>3, <2>2, <4>1, <4>2
    <3> QED  BY <3>1, <3>2, <3>3 DEF AnswerStep
  <2> QED  BY <2>1, <2>3, <2>4, <2>5 DEF TokensInv
<1> DEFINE new == [id |-> card + 1, owner |-> u, user |-> u, live |-> TRUE]
<1>3. CASE MayRefer(u) /\ row' = row /\ card < MaxToken /\ tokens' = tokens \cup {new}
  <2>1. Numbered' /\ Cardinality(tokens') = card + 1
    BY <1>3, <1>u, Minting DEF TokensInv, RestOK
  <2>2. new.id = card + 1 /\ new.owner = u /\ new.user = u
    OBVIOUS
  <2>3. \A s \in tokens' : s \in tokens \/ s = new
    BY <1>3
  <2>4. row' = row /\ (~mongo => row[u] # Null)
    BY <1>3 DEF MayRefer
  <2> HIDE DEF new
  <2>5. Linked'
    BY <2>2, <2>3, <2>4, <1>m DEF TokensInv, Linked
  <2>6. OldOwn'
    <3> SUFFICES ASSUME ~mongo, NEW x \in Request, req'[x].pc # "idle"
                 PROVE  /\ \A i \in req'[x].old : i <= card + 1
                        /\ \A s \in tokens' : s.id \in req'[x].old => s.owner = req'[x].user
      BY <2>1, <1>m DEF OldOwn
    <3>1. req[x].pc # "idle" /\ req'[x].old = req[x].old /\ req'[x].user = req[x].user
      BY <1>r
    <3>2. /\ \A i \in req[x].old : i <= card /\ i \in Int
          /\ \A t \in tokens : t.id \in req[x].old => t.owner = req[x].user
      BY <3>1, UnderWay DEF TokensInv, OldOwn
    <3> HIDE DEF card
    <3>3. new.id \notin req[x].old
      BY <3>2, <2>2, <1>c
    <3> QED  BY <3>1, <3>2, <3>3, <2>3, <1>c
  <2>7. AnswerOK'
    <3> SUFFICES ASSUME ~mongo, ~dbFails, answer' # Null
                 PROVE  /\ \A i \in answer'.old : i <= card + 1
                        /\ \A s \in tokens' : s.id \in answer'.old => ~s.live
      BY <2>1, <1>m DEF AnswerOK
    <3>1. CASE answer' = answer
      <4>1. answer.old \subseteq 1..MaxToken
        BY <3>1 DEF RestOK
      <4>2. /\ \A i \in answer.old : i <= card
            /\ \A t \in tokens : t.id \in answer.old => ~t.live
        BY <3>1 DEF TokensInv, AnswerOK
      <4> QED  BY <3>1, <4>1, <4>2, <1>c, <2>2, <2>3
    <3>2. CASE answer'.old = {}
      BY <3>2
    <3>3. CASE answer'.old = req[r].old /\ Faded(u)
      <4>1. new \in tokens' /\ \A t \in tokens : t.id <= card
        BY <1>3 DEF TokensInv, Numbered
      <4>2. \E t \in tokens : new.id = t.id
        BY <3>3, <4>1 DEF Faded
      <4>3. PICK t \in tokens : new.id = t.id
        BY <4>2
      <4>4. t.id <= card /\ t.id \in Nat /\ t.id = card + 1
        BY <4>1, <4>3, <2>2, <1>c
      <4> HIDE DEF card
      <4>5. FALSE
        BY <4>4, <1>c
      <4> QED  BY <4>5
    <3> QED  BY <3>1, <3>2, <3>3 DEF AnswerStep
  <2> QED  BY <2>1, <2>5, <2>6, <2>7 DEF TokensInv
<1> QED  BY <1>1, <1>2, <1>3 DEF TokenStep

LEMMA StepRows ==
    ASSUME RequestsOK, RowsOK, RowsInv, NEW r \in Request, req[r].pc # "idle", RowStep(r), RequestStep(r)
    PROVE  RowsInv'
<1> DEFINE u == req[r].user
<1>u. u \in UserId
  BY UnderWay
<1>d. decided' # Null => decided # Null
  BY DEF RowStep
<1>1. RowsAsDecided'
  BY DEF RowStep, RowsAsDecided
<1>2. \A x \in Request \ {r} : req'[x] = req[x]
  BY DEF RequestStep
<1>3. \A v \in UserId : v # u => row'[v] = row[v] /\ barred'[v] = barred[v]
  BY <1>u DEF RowStep, SetRow, RowsOK
<1>4. barred'[u] \subseteq barred[u]
  BY <1>u DEF RowStep, SetRow, RowsOK
<1>5. Unbarred'
  <2>1. row'[u] # Null /\ row'[u].enabled => barred'[u] = {}
    BY <1>u DEF RowStep, SetRow, RowsOK, RowsInv, Unbarred
  <2> QED  BY <2>1, <1>3 DEF RowsInv, Unbarred
<1>6. SeenEnabled'
  <2> SUFFICES ASSUME NEW x \in Request,
                      \/ req'[x].pc = "verify" /\ req'[x].op = "password"
                      \/ req'[x].pc = "mint" /\ req'[x].op = "assertion"
               PROVE  x \notin barred'[req'[x].user]
    BY DEF SeenEnabled, Is
  <2>1. CASE x = r
    <3>1. req'[r] # Idle
      BY <2>1 DEF Idle
    <3>2. req'[r].user = u /\ row'[u] # Null /\ row'[u].enabled
      BY <2>1, <3>1 DEF RequestStep
    <3> QED  BY <2>1, <3>2, <1>5, <1>u DEF Unbarred
  <2>2. CASE x # r
    <3>1. req'[x] = req[x] /\ req[x].user \in UserId
      BY <2>2, <1>2, UnderWay
    <3>2. x \notin barred[req[x].user]
      BY <3>1 DEF RowsInv, SeenEnabled, Is
    <3> QED  BY <3>1, <3>2, <1>3, <1>4
  <2> QED  BY <2>1, <2>2
<1>7. OneAdmin'
  <2>1. \A x \in Request : req'[x].pc # "idle" =>
           req[x].pc # "idle" /\ req'[x].op = req[x].op /\ req'[x].user = req[x].user
    <3>1. req'[r].pc # "idle" => req'[r].op = req[r].op /\ req'[r].user = req[r].user
      BY DEF RequestStep, Idle
    <3> QED  BY <3>1, <1>2
  <2> QED  BY <2>1, <1>d DEF RowsInv, OneAdmin
<1>8. CopiesFresh'
  <2> SUFFICES ASSUME decided' # Null, NEW x \in Request, req'[x].pc = "write", req'[x].op = "update"
               PROVE  row'[req'[x].user] # Null /\ req'[x].copy = Patch(row'[req'[x].user], req'[x].arg)
    BY DEF CopiesFresh, Is
  <2>1. CASE x = r
    <3>1. req'[r] # Idle
      BY <2>1 DEF Idle
    <3> QED  BY <2>1, <3>1 DEF RequestStep
  <2>2. CASE x # r
    <3>1. req'[x] = req[x] /\ req[x].user \in UserId /\ req[x].op \in AdminOps
      BY <2>2, <1>2, UnderWay DEF AdminOps
    <3>2. row[req[x].user] # Null /\ req[x].copy = Patch(row[req[x].user], req[x].arg)
      BY <3>1, <1>d DEF RowsInv, CopiesFresh, Is
    <3>3. row'[req[x].user] = row[req[x].user]
      <4>1. CASE req[x].user # u
        BY <4>1, <3>1, <1>3
      <4>2. CASE req[x].user = u
        <5>1. req[r].op \notin AdminOps
          BY <4>2, <3>1, <2>2, <1>d DEF RowsInv, OneAdmin
        <5>2. row[u] # Null
          BY <4>2, <3>2
        <5> QED  BY <5>1, <5>2 DEF RowStep
      <4> QED  BY <4>1, <4>2
    <3> QED  BY <3>1, <3>2, <3>3
  <2> QED  BY <2>1, <2>2
<1> QED  BY <1>1, <1>5, <1>6, <1>7, <1>8 DEF RowsInv

LEMMA ArrivalInv ==
    ASSUME RequestsOK, RowsOK, RestOK, TokensInv, RowsInv, NEW r \in Request, NEW u \in UserId,
           NEW op, NEW arg, NEW by, NEW pc, Arrival(r, op, u, arg, by, pc), UNCHANGED deployment
    PROVE  TokensInv' /\ RowsInv'
<1> DEFINE n == req'[r]
<1>1. /\ n.pc = pc /\ n.op = op /\ n.user = u /\ n.arg = arg /\ n.old = {t.id : t \in LiveTokens(u)}
      /\ \A x \in Request \ {r} : req'[x] = req[x]
      /\ req[r] = Idle
  BY DEF Arrival, Begin, RequestsOK
<1>2. /\ row' = row /\ tokens' = tokens /\ answer' = Null /\ mongo' = mongo /\ dbFails' = dbFails
      /\ decided' # Null => decided' = decided
  BY DEF Arrival, Begin, deployment
<1>3. /\ pc \in {"find", "write", "mint"} /\ (pc = "write" => op \in {"enable", "role", "reset"})
      /\ pc = "mint" => op = "redeem"
  BY DEF Arrival
<1>4. TokensInv'
  <2>1. Numbered'
    BY <1>2 DEF TokensInv, Numbered
  <2>2. Linked'
    BY <1>2 DEF TokensInv, Linked
  <2>3. AnswerOK'
    BY <1>2 DEF AnswerOK
  <2>4. OldOwn'
    <3> SUFFICES ASSUME ~mongo, NEW x \in Request, req'[x].pc # "idle"
                 PROVE  /\ \A i \in req'[x].old : i <= Cardinality(tokens)
                        /\ \A t \in tokens : t.id \in req'[x].old => t.owner = req'[x].user
      BY <1>2 DEF OldOwn
    <3>1. CASE x = r
      <4>1. \A i \in n.old : \E t \in tokens : t.id = i /\ t.live /\ t.user = u
        BY <1>1 DEF LiveTokens
      <4>2. \A i \in n.old : i <= Cardinality(tokens)
        BY <4>1 DEF TokensInv, Numbered
      <4>3. ASSUME NEW t \in tokens, t.id \in n.old PROVE t.owner = u
        <5>1. PICK s \in tokens : s.id = t.id /\ s.live /\ s.user = u
          BY <4>1, <4>3
        <5>2. s = t
          BY <5>1 DEF TokensInv, Numbered
        <5> QED  BY <5>1, <5>2 DEF TokensInv, Linked
      <4> QED  BY <3>1, <4>2, <4>3, <1>1
    <3>2. CASE x # r
      BY <3>2, <1>1 DEF TokensInv, OldOwn
    <3> QED  BY <3>1, <3>2
  <2> QED  BY <2>1, <2>2, <2>3, <2>4 DEF TokensInv
<1>5. RowsInv'
  <2>1. RowsAsDecided'
    BY <1>2 DEF RowsInv, RowsAsDecided
  <2>2. CopiesFresh'
    BY <1>1, <1>2, <1>3 DEF RowsInv, CopiesFresh, Is
  <2>3. OneAdmin'
    <3> SUFFICES ASSUME decided' # Null, NEW x \in Request, NEW y \in Request, x # y,
                        req'[x].pc # "idle", req'[y].pc # "idle",
                        req'[x].op \in AdminOps, req'[y].op \in AdminOps, req'[x].user = req'[y].user
                 PROVE  FALSE
      BY DEF OneAdmin
    <3>1. ~(op \in AdminOps /\ \E q \in Request : req[q].op \in AdminOps /\ req[q].user = u)
      BY DEF Arrival, Begin
    <3>2. CASE x = r \/ y = r
      BY <3>1, <3>2, <1>1
    <3>3. CASE x # r /\ y # r
      BY <3>3, <1>1, <1>2 DEF RowsInv, OneAdmin
    <3> QED  BY <3>2, <3>3
  <2>4. barred' = [barred EXCEPT ![u] = IF row[u] # Null /\ row[u].enabled
                                        THEN barred[u] \ {r} ELSE barred[u] \cup {r}]
    BY DEF Arrival, Begin
  <2>5. Unbarred'
    BY <1>2, <2>4 DEF RowsInv, Unbarred, RowsOK
  <2>6. SeenEnabled'
    <3> SUFFICES ASSUME NEW x \in Request,
                        \/ req'[x].pc = "verify" /\ req'[x].op = "password"
                        \/ req'[x].pc = "mint" /\ req'[x].op = "assertion"
                 PROVE  x \notin barred'[req'[x].user]
      BY DEF SeenEnabled, Is
    <3>1. x # r /\ req'[x] = req[x]
      BY <1>1, <1>3
    <3>2. x \notin barred[req[x].user] /\ req[x].user \in UserId
      BY <3>1, UnderWay DEF RowsInv, SeenEnabled, Is
    <3> QED  BY <3>1, <3>2, <2>4 DEF RowsOK
  <2> QED  BY <2>1, <2>2, <2>3, <2>5, <2>6 DEF RowsInv
<1> QED  BY <1>4, <1>5

LEMMA AsideInv ==
    ASSUME RequestsOK, RowsOK, RestOK, TokensInv, RowsInv, Aside, UNCHANGED deployment
    PROVE  TokensInv' /\ RowsInv'
<1>1. UNCHANGED <<row, req, answer, decided, barred, mongo, dbFails>>
  BY DEF Aside, history, deployment
<1>2. RowsInv'
  BY <1>1 DEF RowsInv, RowsAsDecided, CopiesFresh, OneAdmin, Unbarred, SeenEnabled, Is
<1>3. CASE tokens' = tokens
  BY <1>1, <1>2, <1>3 DEF TokensInv, Numbered, Linked, OldOwn, AnswerOK
<1>4. ASSUME NEW u \in UserId, Faded(u) PROVE TokensInv'
  <2>1. Numbered' /\ Cardinality(tokens') = Cardinality(tokens)
    BY <1>4 DEF TokensInv, Faded
  <2>2. \A s \in tokens' : \E t \in tokens :
           /\ s.id = t.id /\ s.owner = t.owner
           /\ s.live => s = t /\ t.user # u
           /\ s.user # Null => s.user = t.user
    BY <1>4 DEF Faded
  <2>3. Linked'
    BY <2>2, <1>1 DEF TokensInv, Linked
  <2>4. OldOwn'
    BY <2>1, <2>2, <1>1 DEF TokensInv, OldOwn
  <2>5. AnswerOK'
    BY <2>1, <2>2, <1>1 DEF TokensInv, AnswerOK
  <2> QED  BY <2>1, <2>3, <2>4, <2>5 DEF TokensInv
<1> QED  BY <1>2, <1>3, <1>4, RevokeFades DEF Aside, RestOK

LEMMA InitInv == UsersInit => UsersInv
<1> SUFFICES ASSUME UsersInit PROVE TokensInv /\ RowsInv
  BY InitType DEF UsersInv
<1>1. TokensInv
  BY DEF UsersInit, TokensInv, Numbered, Linked, OldOwn, AnswerOK, Idle
<1>2. \A r \in Request : req[r].pc = "idle"
  BY DEF UsersInit, Idle
<1>3. RowsInv
  BY <1>2 DEF UsersInit, RowsInv, RowsAsDecided, CopiesFresh, OneAdmin, Unbarred, SeenEnabled, Is
<1> QED  BY <1>1, <1>3

LEMMA StepInv ==
    ASSUME RequestsOK, RowsOK, RestOK, TokensInv, RowsInv, NEW r \in Request, Step(r), UNCHANGED deployment
    PROVE  TokensInv' /\ RowsInv'
<1>1. req[r].pc # "idle"
  BY Busy
<1>2. RowStep(r)
  BY RowEffects DEF RowsInv
<1>3. TokenStep(r) /\ AnswerStep(r) /\ RequestStep(r)
  BY TokenEffects, RequestEffects
<1> QED  BY <1>1, <1>2, <1>3, StepTokens, StepRows

LEMMA InvStep == UsersInv /\ [UsersNext]_userVars => UsersInv'
<1> SUFFICES ASSUME UsersTypeOK, TokensInv, RowsInv, [UsersNext]_userVars PROVE TokensInv' /\ RowsInv'
  BY TypeStep DEF UsersInv
<1>0. RequestsOK /\ RowsOK /\ RestOK
  BY TypeParts
<1>1. CASE UsersNext
  <2>1. Happens /\ UNCHANGED deployment
    BY <1>1 DEF UsersNext
  <2>2. ASSUME NEW r \in Request, Step(r) PROVE TokensInv' /\ RowsInv'
    BY <1>0, <2>1, <2>2, StepInv
  <2>3. ASSUME NEW r \in Request, NEW u \in UserId, NEW op, NEW arg, NEW by, NEW pc,
               Arrival(r, op, u, arg, by, pc)
        PROVE  TokensInv' /\ RowsInv'
    BY <1>0, <2>1, <2>3, ArrivalInv
  <2>4. ASSUME Aside PROVE TokensInv' /\ RowsInv'
    BY <1>0, <2>1, <2>4, AsideInv
  <2> QED  BY <2>1, <2>2, <2>3, <2>4, Groups, Zenon
<1>2. CASE UNCHANGED userVars
  <2>1. UNCHANGED <<mongo, dbFails, row, tokens, req, answer, decided, barred>>
    BY <1>2 DEF userVars, history, deployment
  <2>2. RowsInv'
    BY <2>1 DEF RowsInv, RowsAsDecided, CopiesFresh, OneAdmin, Unbarred, SeenEnabled, Is
  <2>3. TokensInv'
    BY <2>1 DEF TokensInv, Numbered, Linked, OldOwn, AnswerOK
  <2> QED  BY <2>2, <2>3
<1> QED  BY <1>1, <1>2

LEMMA Invariant == UsersSpec => []UsersInv
<1> QED  BY InitInv, InvStep, PTL DEF UsersSpec

-----------------------------------------------------------------------------
(* The theorems *)

\* Where the database has foreign keys, a live token belongs to a user that
\* exists, at every point between the statements of delete_user and whoever
\* creates tokens or provisions the same id meanwhile.
THEOREM NothingLeft == UsersSpec => []DeletedLeaveNothing
<1>1. UsersInv => DeletedLeaveNothing
  <2> SUFFICES ASSUME UsersInv, ~mongo, NEW t \in tokens, t.live PROVE row[t.owner] # Null
    BY DEF DeletedLeaveNothing
  <2>1. t.user = t.owner /\ (t.user # Null => row[t.user] # Null)
    BY DEF UsersInv, TokensInv, Linked
  <2>2. t.owner \in UserId
    BY DEF UsersInv, UsersTypeOK
  <2> QED  BY <2>1, <2>2
<1> QED  BY <1>1, Invariant, PTL

\* What administrators decided is done and stays done: each row is what the
\* decisions made it as long as no two of them met at one user, and a reported
\* deletion, disabling or reset has revoked the tokens from before the request
\* (update_user, revoke_tokens_by_user_id).
THEOREM DecisionsHold == UsersSpec => []DecisionsStick
<1>1. UsersInv => DecisionsStick
  BY DEF UsersInv, TokensInv, RowsInv, AnswerOK, DecisionsStick, ReportedMeansRevoked
<1> QED  BY <1>1, Invariant, PTL

\* No password login and no assertion goes through for a user that was never
\* enabled while the request ran (login_submit, resolve_subject).
THEOREM DisabledOut == UsersSpec => DisabledStaysOut
<1>1. UsersInv => \A r \in Request :
         Is(r, "verify", {"password"}) \/ Is(r, "mint", {"assertion"}) => r \notin barred[req[r].user]
  BY DEF UsersInv, RowsInv, SeenEnabled
<1>2. UsersInv /\ [UsersNext]_userVars =>
        [\A r \in Request : LET q == req[r] IN
          /\ (Is(r, "verify", {"password"}) /\ r \in barred[q.user] /\ req'[r] = Idle) => session' = session
          /\ (Is(r, "mint", {"assertion"}) /\ r \in barred[q.user] /\ req'[r] = Idle)
                => tokens' = tokens]_userVars
  BY <1>1
<1> QED  BY <1>2, Invariant, PTL DEF UsersSpec, DisabledStaysOut

-----------------------------------------------------------------------------
(* LoginFlow: the inductive invariant *)

PageName == {"idle", "authorize", "login", "provider", "device", "logout", "client", "profile",
             "error", "callback error"}
PageRecord == [page : PageName, req : Req \cup {Unset}, flow : Csrf \cup {Unset}]

BrowserTypeOK ==
    /\ now \in Time /\ cookie \in Session
    /\ loc \in [Tab -> PageRecord]
    /\ \A t \in Tab : loc[t].page = "authorize" => loc[t].req \in Req
    /\ sent \in [Tab -> Session \cup {Unset}]
    /\ pushed \in [Req -> Time \cup {Unset, Spent}]
    /\ authAt \in [Account -> Time \cup {Unset}]
    /\ parkedAt \in [Req -> Time \cup {Unset}]
    /\ out \in BOOLEAN /\ overlapped \in BOOLEAN /\ starts \in Nat

\* A session's user has authenticated, not before the time it records, and the
\* request it remembers was parked, not before the time it records, and is the
\* one whose agent it names.
Backed(s, at, parked) ==
    /\ s.user # Unset => at[s.user] # Unset /\ (s.authTime # Unset => s.authTime <= at[s.user])
    /\ s.returnTo \in Req =>
          /\ s.agent = IF s.returnTo.actor THEN s.returnTo ELSE Unset
          /\ s.returnTs # Unset /\ parked[s.returnTo] # Unset /\ s.returnTs <= parked[s.returnTo]

\* Sessions that could come back to the browser.
Held == {cookie} \cup {sent[t] : t \in {u \in Tab : sent[u] # Unset}}

SessionsBacked == \A s \in Held : Backed(s, authAt, parkedAt)

\* No time that is recorded is still to come.
PastRecorded ==
    /\ \A s \in Held : s.authTime # Unset => s.authTime <= now
    /\ \A u \in Account : authAt[u] # Unset => authAt[u] <= now
    /\ \A r \in Req : parkedAt[r] # Unset => parkedAt[r] <= now

CodesDue ==
    /\ MaxAgeHonoured
    /\ \A c \in handed : c.req \in Req /\ (c.req.par => pushed[c.req] = Spent)
    /\ \A c, d \in handed : c.req = d.req /\ c.req.par => c = d

NobodyHeld == out /\ ~overlapped => \A s \in Held : s.user = Unset

BrowserInv == BrowserTypeOK /\ SessionsBacked /\ PastRecorded /\ CodesDue /\ NobodyHeld

\* A response, with or without a session: without one, s is what came with the request.
Replied(t, s, p) == Respond(t, s, p) \/ (s = sent[t] /\ RespondOnly(t, p))

\* What a response leaves of the sessions: the handler's, or no new one.
LEMMA RespondKeeps ==
    ASSUME BrowserTypeOK, NEW t \in Tab, sent[t] # Unset, NEW s \in Session, NEW p \in PageRecord,
           p.page = "authorize" => p.req \in Req, Replied(t, s, p)
    PROVE  /\ cookie' \in Session /\ loc' \in [Tab -> PageRecord] /\ sent' \in [Tab -> Session \cup {Unset}]
           /\ \A x \in Tab : loc'[x].page = "authorize" => loc'[x].req \in Req
           /\ loc'[t] = p /\ \A x \in Tab : x # t => loc'[x] = loc[x]
           /\ sent[t] \in Held /\ sent[t] \in Session
           /\ Held' \subseteq Held \cup {s} /\ (cookie' # s => s = sent[t])
<1>1. /\ sent' = [sent EXCEPT ![t] = Unset] /\ loc' = [loc EXCEPT ![t] = p]
      /\ cookie' = s \/ (s = sent[t] /\ cookie' = cookie)
  BY DEF Replied, Respond, RespondOnly
<1>2. sent \in [Tab -> Session \cup {Unset}] /\ loc \in [Tab -> PageRecord] /\ cookie \in Session
  BY DEF BrowserTypeOK
<1>3. sent' \in [Tab -> Session \cup {Unset}] /\ \A x \in Tab : sent'[x] # Unset => x # t /\ sent'[x] = sent[x]
  BY <1>1, <1>2
<1>4. loc' \in [Tab -> PageRecord] /\ loc'[t] = p /\ \A x \in Tab : x # t => loc'[x] = loc[x]
  BY <1>1, <1>2
<1>5. cookie' \in Session
  BY <1>1, <1>2
<1>6. \A x \in Tab : loc'[x].page = "authorize" => loc'[x].req \in Req
  BY <1>4 DEF BrowserTypeOK
<1>7. Held' \subseteq Held \cup {s}
  BY <1>1, <1>3 DEF Held
<1>8. sent[t] \in Held /\ sent[t] \in Session
  BY <1>2 DEF Held
<1>9. cookie' # s => s = sent[t]
  BY <1>1
<1> QED  BY <1>3, <1>4, <1>5, <1>6, <1>7, <1>8, <1>9

LEMMA HeldTyped == ASSUME BrowserTypeOK PROVE Held \subseteq Session /\ cookie \in Held
  BY DEF BrowserTypeOK, Held

\* Sessions stay backed as times pass and records grow.
LEMMA BackedGrow ==
    ASSUME BrowserTypeOK, NEW s \in Session, Backed(s, authAt, parkedAt),
           authAt' \in [Account -> Time \cup {Unset}], parkedAt' \in [Req -> Time \cup {Unset}],
           \A u \in Account : authAt[u] # Unset => authAt'[u] # Unset /\ authAt[u] <= authAt'[u],
           \A r \in Req : parkedAt[r] # Unset => parkedAt'[r] # Unset /\ parkedAt[r] <= parkedAt'[r]
    PROVE  Backed(s, authAt', parkedAt')
<1>t. \A x \in Time : x \in Nat
  BY BrowserAssumption DEF Time
<1>1. ASSUME s.user # Unset
      PROVE  authAt'[s.user] # Unset /\ (s.authTime # Unset => s.authTime <= authAt'[s.user])
  <2>1. s.user \in Account /\ s.authTime \in Time \cup {Unset}
    BY <1>1 DEF Session
  <2>2. authAt[s.user] \in Time /\ authAt'[s.user] \in Time /\ authAt[s.user] <= authAt'[s.user]
    BY <1>1, <2>1 DEF Backed, BrowserTypeOK
  <2>3. s.authTime # Unset => s.authTime <= authAt[s.user]
    BY <1>1 DEF Backed
  <2> QED  BY <1>t, <2>1, <2>2, <2>3, BrowserAssumption
<1>2. ASSUME s.returnTo \in Req
      PROVE  parkedAt'[s.returnTo] # Unset /\ s.returnTs <= parkedAt'[s.returnTo]
  <2>1. s.returnTs \in Time /\ s.returnTs <= parkedAt[s.returnTo]
    BY <1>2 DEF Session, Backed
  <2>2. parkedAt[s.returnTo] \in Time /\ parkedAt'[s.returnTo] \in Time
        /\ parkedAt[s.returnTo] <= parkedAt'[s.returnTo]
    BY <1>2 DEF Backed, BrowserTypeOK
  <2> QED  BY <1>t, <2>1, <2>2, BrowserAssumption
<1> QED  BY <1>1, <1>2 DEF Backed

LEMMA Pages ==
    /\ \A p \in PageName : Page(p) \in PageRecord /\ Page(p).page = p
    /\ \A r \in Req : AuthorizePage(r) \in PageRecord /\ AuthorizePage(r).page = "authorize" /\ AuthorizePage(r).req = r
    /\ \A c \in Csrf : ProviderPage(c) \in PageRecord /\ ProviderPage(c).page = "provider"
    /\ \A to \in Req \cup {Unset, Device} :
          PageFor(to) \in PageRecord /\ (PageFor(to).page = "authorize" => to \in Req /\ PageFor(to).req = to)
<1>1. \A p \in PageName : Page(p) \in PageRecord /\ Page(p).page = p
  BY DEF Page, PageRecord
<1>n. {"idle", "authorize", "login", "provider", "device", "profile"} \subseteq PageName
  BY DEF PageName
<1>2. \A r \in Req : AuthorizePage(r) \in PageRecord /\ AuthorizePage(r).page = "authorize" /\ AuthorizePage(r).req = r
  BY DEF AuthorizePage, PageRecord, PageName
<1>3. \A c \in Csrf : ProviderPage(c) \in PageRecord /\ ProviderPage(c).page = "provider"
  BY DEF ProviderPage, PageRecord, PageName
<1>4. ASSUME NEW to \in Req \cup {Unset, Device}
      PROVE  PageFor(to) \in PageRecord /\ (PageFor(to).page = "authorize" => to \in Req /\ PageFor(to).req = to)
  <2>1. CASE to = Unset
    BY <1>1, <1>n, <2>1 DEF PageFor
  <2>2. CASE to # Unset /\ to = Device
    BY <1>1, <1>n, <2>2 DEF PageFor
  <2>3. CASE to # Unset /\ to # Device
    BY <1>2, <2>3 DEF PageFor
  <2> QED  BY <2>1, <2>2, <2>3
<1> QED  BY <1>1, <1>2, <1>3, <1>4

\* Every answer of the server: a session that is backed, of the user the
\* request came with unless he has just logged in.
Answers(t, s, p) ==
    /\ sent[t] # Unset /\ s \in Session /\ p \in PageRecord /\ (p.page = "authorize" => p.req \in Req)
    /\ Replied(t, s, p)
    /\ Backed(s, authAt', parkedAt') /\ (s.authTime # Unset => s.authTime <= now)
    /\ s.user = Unset \/ s.user = sent[t].user \/ ~out'

LEMMA HandleAnswers ==
    ASSUME BrowserTypeOK, SessionsBacked, PastRecorded, NEW t \in Tab, Handle(t)
    PROVE  \E s, p : Answers(t, s, p)
<1> USE DEF browserHistory
<1> DEFINE s == sent[t]
<1>0. s # Unset
  BY DEF Handle, ParRefused, LoginRequired, Park, IssueCode, VerifyPage, LoginSubmit, LoginRefused,
         SocialLogin, AuthCallback, CallbackRefused, Logout
<1>1. s \in Session /\ Backed(s, authAt, parkedAt) /\ (s.authTime # Unset => s.authTime <= now) /\ now \in Time
  BY <1>0 DEF BrowserTypeOK, Held, SessionsBacked, PastRecorded
<1>2. \A q \in PageName : Page(q) \in PageRecord /\ Page(q).page = q
  BY Pages
<1>n. {"idle", "login", "client", "error", "callback error"} \subseteq PageName
  BY DEF PageName
<1>3. /\ authAt \in [Account -> Time \cup {Unset}] /\ parkedAt \in [Req -> Time \cup {Unset}]
      /\ now <= now /\ Unset \notin Time
      /\ \A r \in Req : loc[t].page = "authorize" => loc[t].req \in Req
      /\ loc[t].page = "authorize" => loc[t].req \in Req
  BY BrowserAssumption DEF BrowserTypeOK, Time
<1> HIDE DEF s
<1>u. s = sent[t]
  BY DEF s
<1>a. ASSUME NEW q \in PageName, q # "authorize", RespondOnly(t, Page(q)), UNCHANGED <<authAt, parkedAt>>
      PROVE  Answers(t, s, Page(q))
  BY <1>0, <1>1, <1>2, <1>n, <1>u, <1>a DEF Answers, Replied
<1>4. ASSUME ParRefused(t) \/ LoginRequired(t) PROVE \E z, p : Answers(t, z, p)
  <2>1. RespondOnly(t, Page("error")) /\ UNCHANGED <<authAt, parkedAt>>
    BY <1>4, <1>u DEF ParRefused, LoginRequired
  <2>2. Answers(t, s, Page("error"))
    BY <1>a, <1>n, <2>1
  <2> QED  BY <2>2
<1>5. ASSUME LoginRefused(t) \/ CallbackRefused(t) PROVE \E z, p : Answers(t, z, p)
  <2>1. UNCHANGED <<authAt, parkedAt>> /\ (RespondOnly(t, Page("login")) \/ RespondOnly(t, Page("callback error")))
    BY <1>5, <1>u DEF LoginRefused, CallbackRefused
  <2>2. Answers(t, s, Page("login")) \/ Answers(t, s, Page("callback error"))
    BY <1>a, <1>n, <2>1
  <2> QED  BY <2>2
<1>6. ASSUME Park(t) PROVE \E z, p : Answers(t, z, p)
  <2> DEFINE r == loc[t].req
             z == Parked(s, r)
  <2>1. /\ r \in Req /\ Respond(t, z, Page("login")) /\ parkedAt' = [parkedAt EXCEPT ![r] = now]
        /\ UNCHANGED authAt
    BY <1>6, <1>3, <1>u DEF Park
  <2>2. /\ z \in Session /\ z.returnTo = r /\ z.returnTs = now /\ z.authTime = s.authTime
        /\ z.agent = (IF r.actor THEN r ELSE Unset) /\ (z.user = s.user \/ z.user = Unset)
    BY <1>1, <2>1 DEF Parked, Session
  <2>3. parkedAt'[r] = now
    BY <1>3, <2>1
  <2> HIDE DEF z, r
  <2>4. Backed(z, authAt', parkedAt')
    BY <1>1, <1>3, <2>1, <2>2, <2>3 DEF Backed
  <2>5. Answers(t, z, Page("login"))
    BY <1>0, <1>1, <1>2, <1>n, <1>u, <2>1, <2>2, <2>4 DEF Answers, Replied
  <2> QED  BY <2>5
<1>7. ASSUME IssueCode(t) PROVE \E z, p : Answers(t, z, p)
  <2> DEFINE z == [s EXCEPT !.consent = TRUE]
  <2>1. UNCHANGED <<authAt, parkedAt>> /\ (Respond(t, z, Page("client")) \/ RespondOnly(t, Page("client")))
    BY <1>7, <1>u DEF IssueCode
  <2>2. /\ z \in Session /\ z.returnTo = s.returnTo /\ z.returnTs = s.returnTs /\ z.authTime = s.authTime
        /\ z.agent = s.agent /\ z.user = s.user
    BY <1>1 DEF Session
  <2> HIDE DEF z
  <2>3. Backed(z, authAt', parkedAt')
    BY <1>1, <2>1, <2>2 DEF Backed
  <2>4. Answers(t, z, Page("client")) \/ Answers(t, s, Page("client"))
    <3>1. CASE Respond(t, z, Page("client"))
      BY <1>0, <1>1, <1>2, <1>n, <1>u, <2>1, <2>2, <2>3, <3>1 DEF Answers, Replied
    <3>2. CASE RespondOnly(t, Page("client"))
      BY <1>a, <1>n, <2>1, <3>2
    <3> QED  BY <2>1, <3>1, <3>2
  <2> QED  BY <2>4
<1>8. ASSUME VerifyPage(t) PROVE \E z, p : Answers(t, z, p)
  <2> DEFINE z == [s EXCEPT !.returnTo = Device]
  <2>1. UNCHANGED <<authAt, parkedAt>> /\ (Respond(t, z, Page("login")) \/ RespondOnly(t, Page("idle")))
    BY <1>8, <1>u DEF VerifyPage
  <2>2. z \in Session /\ z.returnTo = Device /\ z.authTime = s.authTime /\ z.user = s.user
    BY <1>1 DEF Session
  <2> HIDE DEF z
  <2>3. Backed(z, authAt', parkedAt')
    BY <1>1, <2>1, <2>2, BrowserAssumption DEF Backed
  <2>4. Answers(t, z, Page("login")) \/ Answers(t, s, Page("idle"))
    <3>1. CASE Respond(t, z, Page("login"))
      BY <1>0, <1>1, <1>2, <1>n, <1>u, <2>2, <2>3, <3>1 DEF Answers, Replied
    <3>2. CASE RespondOnly(t, Page("idle"))
      BY <1>a, <1>n, <2>1, <3>2
    <3> QED  BY <2>1, <3>1, <3>2
  <2> QED  BY <2>4
<1>9. ASSUME NEW u \in PasswordUser, LoginSubmit(t, u) PROVE \E z, p : Answers(t, z, p)
  <2> DEFINE z == [s EXCEPT !.user = u, !.authTime = now, !.returnTo = Unset, !.returnTs = Unset, !.agent = Unset]
             p == PageFor(Return(s))
  <2>1. Respond(t, z, p) /\ authAt' = [authAt EXCEPT ![u] = now] /\ out' = FALSE
    BY <1>9, <1>u DEF LoginSubmit, Authenticated
  <2>2. z \in Session /\ z.user = u /\ z.authTime = now /\ z.returnTo = Unset
    BY <1>1 DEF Session, Account
  <2>3. Return(s) \in Req \cup {Unset, Device}
    BY <1>1 DEF Return, Session
  <2>4. p \in PageRecord /\ (p.page = "authorize" => p.req \in Req)
    BY <2>3, Pages
  <2>5. authAt'[u] = now
    BY <1>3, <2>1 DEF Account
  <2> HIDE DEF z, p
  <2>6. Backed(z, authAt', parkedAt')
    BY <1>1, <1>3, <2>2, <2>5, BrowserAssumption DEF Backed
  <2>7. Answers(t, z, p)
    BY <1>0, <1>3, <1>u, <2>1, <2>2, <2>4, <2>6 DEF Answers, Replied
  <2> QED  BY <2>7
<1>10. ASSUME SocialLogin(t) PROVE \E z, p : Answers(t, z, p)
  <2>0. PICK c \in Csrf : Respond(t, [s EXCEPT !.csrf = c], ProviderPage(c)) /\ UNCHANGED <<authAt, parkedAt>>
    BY <1>10, <1>u DEF SocialLogin
  <2> DEFINE z == [s EXCEPT !.csrf = c]
  <2>2. /\ z \in Session /\ z.returnTo = s.returnTo /\ z.returnTs = s.returnTs /\ z.authTime = s.authTime
        /\ z.agent = s.agent /\ z.user = s.user
    BY <1>1 DEF Session
  <2>1. Respond(t, z, ProviderPage(c))
    BY <2>0
  <2> HIDE DEF z
  <2>3. Backed(z, authAt', parkedAt')
    BY <1>1, <2>0, <2>2 DEF Backed
  <2>4. ProviderPage(c) \in PageRecord /\ ProviderPage(c).page # "authorize"
    BY Pages
  <2>5. Answers(t, z, ProviderPage(c))
    BY <1>0, <1>1, <1>u, <2>1, <2>2, <2>3, <2>4 DEF Answers, Replied
  <2> QED  BY <2>5
<1>11. ASSUME NEW u \in SocialUser, AuthCallback(t, u) PROVE \E z, p : Answers(t, z, p)
  <2> DEFINE z == [s EXCEPT !.user = u, !.returnTo = Unset]
             p == PageFor(s.returnTo)
  <2>1. Respond(t, z, p) /\ authAt' = [authAt EXCEPT ![u] = now] /\ out' = FALSE
    BY <1>11, <1>u DEF AuthCallback, Authenticated
  <2>2. z \in Session /\ z.user = u /\ z.authTime = s.authTime /\ z.returnTo = Unset
    BY <1>1 DEF Session, Account
  <2>3. s.returnTo \in Req \cup {Unset, Device}
    BY <1>1 DEF Session
  <2>4. p \in PageRecord /\ (p.page = "authorize" => p.req \in Req)
    BY <2>3, Pages
  <2>5. authAt'[u] = now
    BY <1>3, <2>1 DEF Account
  <2> HIDE DEF z, p
  <2>6. Backed(z, authAt', parkedAt')
    BY <1>1, <1>3, <2>2, <2>5, BrowserAssumption DEF Backed
  <2>7. Answers(t, z, p)
    BY <1>0, <1>1, <1>u, <2>1, <2>2, <2>4, <2>6 DEF Answers, Replied
  <2> QED  BY <2>7
<1>12. ASSUME Logout(t) PROVE \E z, p : Answers(t, z, p)
  <2>1. Replied(t, EmptySession, Page("idle"))
    BY <1>12 DEF Logout, Replied
  <2>2. /\ EmptySession \in Session /\ EmptySession.user = Unset /\ EmptySession.returnTo = Unset
        /\ EmptySession.authTime = Unset
    BY DEF EmptySession, Session
  <2>3. Backed(EmptySession, authAt', parkedAt')
    BY <2>2, BrowserAssumption DEF Backed
  <2>4. Answers(t, EmptySession, Page("idle"))
    BY <1>0, <1>2, <1>n, <1>u, <2>1, <2>2, <2>3 DEF Answers
  <2> QED  BY <2>4
<1> QED  BY <1>4, <1>5, <1>6, <1>7, <1>8, <1>9, <1>10, <1>11, <1>12 DEF Handle

\* Recorded times only grow.
Grows ==
    /\ now' \in Time /\ now <= now'
    /\ authAt' \in [Account -> Time \cup {Unset}] /\ parkedAt' \in [Req -> Time \cup {Unset}]
    /\ \A u \in Account : authAt[u] # Unset => authAt'[u] # Unset /\ authAt[u] <= authAt'[u]
    /\ \A r \in Req : parkedAt[r] # Unset => parkedAt'[r] # Unset /\ parkedAt[r] <= parkedAt'[r]
    /\ \A u \in Account : authAt'[u] # Unset => authAt'[u] <= now'
    /\ \A r \in Req : parkedAt'[r] # Unset => parkedAt'[r] <= now'

LEMMA GrowsStep == ASSUME BrowserTypeOK, PastRecorded, [BrowserNext]_browserVars PROVE Grows
<1> USE DEF browserHistory
<1>1. /\ now \in Time /\ \A x \in Time : x \in Nat /\ x <= x /\ x # Unset
      /\ authAt \in [Account -> Time \cup {Unset}] /\ parkedAt \in [Req -> Time \cup {Unset}]
      /\ \A u \in Account : authAt[u] # Unset => authAt[u] \in Time /\ authAt[u] <= now
      /\ \A r \in Req : parkedAt[r] # Unset => parkedAt[r] \in Time /\ parkedAt[r] <= now
  BY BrowserAssumption DEF BrowserTypeOK, PastRecorded, Time
<1>2. ASSUME UNCHANGED <<now, authAt, parkedAt>> PROVE Grows
  BY <1>1, <1>2 DEF Grows
<1>3. ASSUME ClockTicks PROVE Grows
  <2>1. now' \in Time /\ now <= now' /\ UNCHANGED <<authAt, parkedAt>> /\ \A x \in Nat : x <= now => x <= now'
    BY <1>1, <1>3, BrowserAssumption DEF ClockTicks, Time
  <2> QED  BY <1>1, <2>1 DEF Grows
<1>4. ASSUME NEW u \in Account, authAt' = [authAt EXCEPT ![u] = now], UNCHANGED <<now, parkedAt>> PROVE Grows
  <2>1. \A w \in Account : authAt'[w] = IF w = u THEN now ELSE authAt[w]
    BY <1>1, <1>4
  <2>2. authAt' \in [Account -> Time \cup {Unset}]
    BY <1>1, <1>4
  <2> QED  BY <1>1, <1>4, <2>1, <2>2 DEF Grows
<1>5. ASSUME NEW r \in Req, parkedAt' = [parkedAt EXCEPT ![r] = now], UNCHANGED <<now, authAt>> PROVE Grows
  <2>1. \A w \in Req : parkedAt'[w] = IF w = r THEN now ELSE parkedAt[w]
    BY <1>1, <1>5
  <2>2. parkedAt' \in [Req -> Time \cup {Unset}]
    BY <1>1, <1>5
  <2> QED  BY <1>1, <1>5, <2>1, <2>2 DEF Grows
<1>6. ASSUME NEW t \in Tab, Handle(t) PROVE Grows
  <2>1. CASE Park(t)
    <3>1. loc[t].req \in Req /\ parkedAt' = [parkedAt EXCEPT ![loc[t].req] = now] /\ UNCHANGED <<now, authAt>>
      BY <2>1 DEF Park, BrowserTypeOK
    <3> QED  BY <1>5, <3>1
  <2>2. ASSUME NEW u \in PasswordUser, LoginSubmit(t, u) PROVE Grows
    BY <1>4, <2>2 DEF LoginSubmit, Authenticated, Account
  <2>3. ASSUME NEW u \in SocialUser, AuthCallback(t, u) PROVE Grows
    BY <1>4, <2>3 DEF AuthCallback, Authenticated, Account
  <2>4. CASE ParRefused(t) \/ LoginRequired(t) \/ IssueCode(t) \/ VerifyPage(t) \/ LoginRefused(t)
             \/ SocialLogin(t) \/ CallbackRefused(t) \/ Logout(t)
    BY <1>2, <2>4 DEF ParRefused, LoginRequired, IssueCode, VerifyPage, LoginRefused, SocialLogin,
                      CallbackRefused, Logout
  <2> QED  BY <1>6, <2>1, <2>2, <2>3, <2>4 DEF Handle
<1>7. ASSUME (\E r \in Req : Push(r)) \/ UNCHANGED browserVars PROVE Grows
  BY <1>2, <1>7 DEF Push, browserVars
<1>8. ASSUME NEW t \in Tab, Send(t) \/ \E p : Open(t, p) PROVE Grows
  BY <1>2, <1>8 DEF Send, Open
<1> QED  BY <1>3, <1>6, <1>7, <1>8 DEF BrowserNext

\* The store of pushed requests: what is taken out is spent.
LEMMA StoreKeeps ==
    ASSUME BrowserTypeOK, [BrowserNext]_browserVars
    PROVE  /\ pushed' \in [Req -> Time \cup {Unset, Spent}]
           /\ \A r \in Req : pushed[r] = Spent => pushed'[r] = Spent
<1> USE DEF browserHistory
<1>1. pushed \in [Req -> Time \cup {Unset, Spent}] /\ now \in Time /\ Spent # Unset
  BY BrowserAssumption DEF BrowserTypeOK
<1>2. CASE UNCHANGED pushed
  BY <1>1, <1>2
<1>3. ASSUME NEW r \in Req, Push(r)
      PROVE  /\ pushed' \in [Req -> Time \cup {Unset, Spent}]
             /\ \A q \in Req : pushed[q] = Spent => pushed'[q] = Spent
  BY <1>1, <1>3 DEF Push
<1>4. ASSUME NEW r \in Req, GetPARRequest(r)
      PROVE  /\ pushed' \in [Req -> Time \cup {Unset, Spent}]
             /\ \A q \in Req : pushed[q] = Spent => pushed'[q] = Spent
  BY <1>1, <1>4 DEF GetPARRequest
<1>5. ASSUME NEW t \in Tab, Handle(t) PROVE UNCHANGED pushed \/ \E r \in Req : GetPARRequest(r)
  BY <1>5 DEF Handle, ParRefused, LoginRequired, Park, IssueCode, VerifyPage, LoginSubmit, LoginRefused,
              SocialLogin, AuthCallback, CallbackRefused, Logout, BrowserTypeOK
<1>6. UNCHANGED pushed \/ (\E r \in Req : Push(r)) \/ (\E r \in Req : GetPARRequest(r))
  BY <1>5 DEF BrowserNext, ClockTicks, Open, Send, browserVars
<1> QED  BY <1>2, <1>3, <1>4, <1>6

\* A step of one tab, seen from the sessions: a request leaves, a page is
\* opened, or the server answers.
LEMMA TabSteps ==
    ASSUME BrowserTypeOK, SessionsBacked, PastRecorded, [BrowserNext]_browserVars
    PROVE  /\ cookie' \in Session /\ loc' \in [Tab -> PageRecord] /\ sent' \in [Tab -> Session \cup {Unset}]
           /\ \A t \in Tab : loc'[t].page = "authorize" => loc'[t].req \in Req
           /\ out' \in BOOLEAN /\ overlapped' \in BOOLEAN
           /\ \/ Held' \subseteq Held /\ UNCHANGED <<out, overlapped>>
              \/ \E t \in Tab : \E s, p : Handle(t) /\ Answers(t, s, p) /\ Held' \subseteq Held \cup {s}
<1> USE DEF browserHistory
<1> DEFINE Shape == /\ cookie' \in Session /\ loc' \in [Tab -> PageRecord] /\ sent' \in [Tab -> Session \cup {Unset}]
                    /\ \A t \in Tab : loc'[t].page = "authorize" => loc'[t].req \in Req
                    /\ out' \in BOOLEAN /\ overlapped' \in BOOLEAN
           Same == Held' \subseteq Held /\ UNCHANGED <<out, overlapped>>
           Answered == \E t \in Tab : \E s, p : Handle(t) /\ Answers(t, s, p) /\ Held' \subseteq Held \cup {s}
<1>1. ASSUME UNCHANGED <<cookie, loc, sent, out, overlapped>> PROVE Shape /\ Same
  BY <1>1 DEF BrowserTypeOK, Held
<1>2. ASSUME NEW t \in Tab, NEW p \in PageRecord, p.page = "authorize" => p.req \in Req, Open(t, p)
      PROVE  Shape /\ Same
  <2>1. loc' = [loc EXCEPT ![t] = p] /\ UNCHANGED <<cookie, sent, out, overlapped>>
    BY <1>2 DEF Open
  <2>2. loc' \in [Tab -> PageRecord] /\ \A x \in Tab : loc'[x] = IF x = t THEN p ELSE loc[x]
    BY <2>1 DEF BrowserTypeOK
  <2>3. \A x \in Tab : loc'[x].page = "authorize" => loc'[x].req \in Req
    BY <1>2, <2>2 DEF BrowserTypeOK
  <2> QED  BY <2>1, <2>2, <2>3 DEF BrowserTypeOK, Held
<1>3. ASSUME NEW t \in Tab, Send(t) PROVE Shape /\ Same
  <2>1. sent' = [sent EXCEPT ![t] = cookie] /\ UNCHANGED <<cookie, loc, out, overlapped>>
    BY <1>3 DEF Send
  <2>2. sent' \in [Tab -> Session \cup {Unset}] /\ \A x \in Tab : sent'[x] = IF x = t THEN cookie ELSE sent[x]
    BY <2>1 DEF BrowserTypeOK
  <2>3. Held' \subseteq Held
    BY <2>1, <2>2 DEF Held
  <2> QED  BY <2>1, <2>2, <2>3 DEF BrowserTypeOK
<1>4. ASSUME NEW t \in Tab, Handle(t) PROVE Shape /\ Answered
  <2>1. PICK s, p : Answers(t, s, p)
    BY <1>4, HandleAnswers
  <2>2. /\ cookie' \in Session /\ loc' \in [Tab -> PageRecord] /\ sent' \in [Tab -> Session \cup {Unset}]
        /\ \A x \in Tab : loc'[x].page = "authorize" => loc'[x].req \in Req
        /\ Held' \subseteq Held \cup {s}
    BY <2>1, RespondKeeps DEF Answers
  <2>3. out' \in BOOLEAN /\ overlapped' \in BOOLEAN
    <3>1. CASE Logout(t)
      BY <3>1 DEF Logout, BrowserTypeOK
    <3>2. CASE ~Logout(t)
      BY <1>4, <3>2 DEF Handle, ParRefused, LoginRequired, Park, IssueCode, VerifyPage, LoginSubmit,
         LoginRefused, SocialLogin, AuthCallback, CallbackRefused, Authenticated, BrowserTypeOK
    <3> QED  BY <3>1, <3>2
  <2>4. Answered
    BY <1>4, <2>1, <2>2
  <2> QED  BY <2>2, <2>3, <2>4
<1>5. /\ \A r \in Req : AuthorizePage(r) \in PageRecord /\ AuthorizePage(r).req = r
      /\ \A q \in {"device", "logout"} : Page(q) \in PageRecord /\ Page(q).page # "authorize"
  BY Pages DEF PageName
<1>6. ASSUME ClockTicks \/ (\E r \in Req : Push(r)) \/ UNCHANGED browserVars PROVE Shape /\ Same
  BY <1>1, <1>6 DEF ClockTicks, Push, browserVars
<1> HIDE DEF Shape, Same, Answered
<1>7. ASSUME NEW t \in Tab, NEW r \in Req, Open(t, AuthorizePage(r)) PROVE Shape /\ Same
  BY <1>2, <1>5, <1>7
<1>8. ASSUME NEW t \in Tab, NEW q \in {"device", "logout"}, Open(t, Page(q)) PROVE Shape /\ Same
  BY <1>2, <1>5, <1>8
<1>9. Shape /\ (Same \/ Answered)
  BY <1>3, <1>4, <1>6, <1>7, <1>8 DEF BrowserNext
<1> QED  BY <1>9 DEF Shape, Same, Answered

LEMMA StartsStep == ASSUME BrowserTypeOK, [BrowserNext]_browserVars PROVE starts' \in Nat
<1> USE DEF browserHistory
<1>1. UNCHANGED starts \/ starts' = starts + 1
  BY DEF BrowserNext, Handle, ParRefused, LoginRequired, Park, IssueCode, VerifyPage, LoginSubmit, LoginRefused,
         SocialLogin, AuthCallback, CallbackRefused, Logout, ClockTicks, Push, Open, Send, browserVars
<1> QED  BY <1>1 DEF BrowserTypeOK

LEMMA CodesStep ==
    ASSUME BrowserTypeOK, SessionsBacked, PastRecorded, CodesDue, [BrowserNext]_browserVars
    PROVE  CodesDue'
<1> USE DEF browserHistory
<1>1. \A r \in Req : pushed[r] = Spent => pushed'[r] = Spent
  BY StoreKeeps
<1>2. CASE UNCHANGED handed
  BY <1>1, <1>2 DEF CodesDue, MaxAgeHonoured
<1>3. ASSUME NEW t \in Tab, IssueCode(t) PROVE CodesDue'
  <2> DEFINE r == loc[t].req
             s == sent[t]
             c == [req |-> r, user |-> s.user, age |-> now - authAt[s.user]]
  <2>1. /\ s # Unset /\ r \in Req /\ GetPARRequest(r) /\ s.user # Unset /\ ~AuthExpired(s, r)
        /\ handed' = handed \cup {c}
    BY <1>3 DEF IssueCode, BrowserTypeOK
  <2>2. s \in Session /\ s \in Held
    BY <2>1 DEF BrowserTypeOK, Held
  <2>3. s.user \in Account /\ s.authTime \in Time \cup {Unset}
    BY <2>1, <2>2 DEF Session
  <2>4. authAt[s.user] \in Time /\ now \in Time /\ (s.authTime # Unset => s.authTime <= authAt[s.user])
    BY <2>1, <2>2, <2>3 DEF SessionsBacked, Backed, BrowserTypeOK
  <2>5. r.maxAge # MaxAgeAbsent => r.maxAge \in Nat /\ s.authTime \in Time /\ ~(now > s.authTime + r.maxAge)
    BY <2>1, <2>3, BrowserAssumption DEF AuthExpired
  <2>6. \A x \in Time : x \in Nat
    BY BrowserAssumption DEF Time
  <2>7. r.maxAge # MaxAgeAbsent => now - authAt[s.user] <= r.maxAge
    BY <2>4, <2>5, <2>6, BrowserAssumption
  <2>8. c.req = r /\ c.age = now - authAt[s.user]
    OBVIOUS
  <2>9. r.par => pushed[r] # Spent /\ pushed'[r] = Spent
    BY <2>1, BrowserAssumption DEF GetPARRequest, BrowserTypeOK
  <2> HIDE DEF r, s, c
  <2>10. MaxAgeHonoured'
    BY <2>1, <2>7, <2>8 DEF MaxAgeHonoured, CodesDue
  <2>11. \A d \in handed : d.req = r => ~r.par
    BY <2>9 DEF CodesDue
  <2>12. \A d \in handed' : d.req \in Req /\ (d.req.par => pushed'[d.req] = Spent)
    BY <1>1, <2>1, <2>8, <2>9 DEF CodesDue
  <2>13. \A d, e \in handed' : d.req = e.req /\ d.req.par => d = e
    BY <2>1, <2>8, <2>11 DEF CodesDue
  <2> QED  BY <2>10, <2>12, <2>13 DEF CodesDue
<1>4. (\E t \in Tab : IssueCode(t)) \/ UNCHANGED handed
  BY DEF BrowserNext, Handle, ParRefused, LoginRequired, Park, VerifyPage, LoginSubmit, LoginRefused,
         SocialLogin, AuthCallback, CallbackRefused, Logout, ClockTicks, Push, Open, Send, browserVars
<1> QED  BY <1>2, <1>3, <1>4

LEMMA NobodyStep ==
    ASSUME BrowserTypeOK, SessionsBacked, PastRecorded, NobodyHeld, [BrowserNext]_browserVars
    PROVE  NobodyHeld'
<1> USE DEF browserHistory
<1>1. CASE Held' \subseteq Held /\ UNCHANGED <<out, overlapped>>
  BY <1>1 DEF NobodyHeld
<1>2. ASSUME NEW t \in Tab, NEW s, NEW p, Handle(t), Answers(t, s, p), Held' \subseteq Held \cup {s} PROVE NobodyHeld'
  <2>0. sent[t] \in Held
    BY <1>2 DEF Answers, Held
  <2>1. CASE Logout(t)
    <3> SUFFICES ASSUME ~overlapped' PROVE \A z \in Held' : z.user = Unset
      BY DEF NobodyHeld
    <3>1. /\ cookie = sent[t] /\ (\A x \in Tab : x # t => sent[x] = Unset)
          /\ Replied(t, EmptySession, Page("idle"))
      BY <2>1 DEF Logout, Replied
    <3>2. cookie' = EmptySession /\ \A x \in Tab : sent'[x] = Unset
      BY <3>1 DEF Replied, Respond, RespondOnly, BrowserTypeOK
    <3>3. Held' = {EmptySession}
      BY <3>2 DEF Held
    <3> QED  BY <3>3 DEF EmptySession
  <2>2. CASE ~Logout(t)
    <3>1. UNCHANGED overlapped /\ (out' = out \/ out' = FALSE)
      BY <1>2, <2>2 DEF Handle, ParRefused, LoginRequired, Park, IssueCode, VerifyPage, LoginSubmit,
         LoginRefused, SocialLogin, AuthCallback, CallbackRefused, Authenticated
    <3>2. s.user = Unset \/ s.user = sent[t].user \/ ~out'
      BY <1>2 DEF Answers
    <3> QED  BY <1>2, <2>0, <3>1, <3>2 DEF NobodyHeld
  <2> QED  BY <2>1, <2>2
<1> QED  BY <1>1, <1>2, TabSteps

LEMMA BrowserInvStep == BrowserInv /\ [BrowserNext]_browserVars => BrowserInv'
<1> SUFFICES ASSUME BrowserInv, [BrowserNext]_browserVars PROVE BrowserInv'  OBVIOUS
<1>0. BrowserTypeOK /\ SessionsBacked /\ PastRecorded /\ CodesDue /\ NobodyHeld
  BY DEF BrowserInv
<1>1. Grows
  BY <1>0, GrowsStep
<1>2. BrowserTypeOK'
  <2>1. /\ cookie' \in Session /\ loc' \in [Tab -> PageRecord] /\ sent' \in [Tab -> Session \cup {Unset}]
        /\ \A t \in Tab : loc'[t].page = "authorize" => loc'[t].req \in Req
        /\ out' \in BOOLEAN /\ overlapped' \in BOOLEAN
    BY <1>0, TabSteps
  <2>2. pushed' \in [Req -> Time \cup {Unset, Spent}] /\ starts' \in Nat
    BY <1>0, StoreKeeps, StartsStep
  <2> QED  BY <1>1, <2>1, <2>2 DEF BrowserTypeOK, Grows
<1>3. SessionsBacked' /\ PastRecorded'
  <2> DEFINE New == {s \in Session : Backed(s, authAt', parkedAt') /\ (s.authTime # Unset => s.authTime <= now)}
  <2>1. Held' \subseteq Held \cup New
    BY <1>0, TabSteps DEF Answers
  <2>2. Held \subseteq Session
    BY <1>0, HeldTyped
  <2>3. \A s \in Held : Backed(s, authAt', parkedAt')
    BY <1>0, <1>1, <2>2, BackedGrow DEF Grows, SessionsBacked
  <2>4. \A s \in Held : s.authTime # Unset => s.authTime <= now
    BY <1>0 DEF PastRecorded
  <2>5. \A s \in Held' : s \in Session /\ Backed(s, authAt', parkedAt') /\ (s.authTime # Unset => s.authTime <= now)
    BY <2>1, <2>2, <2>3, <2>4
  <2>6. \A s \in Session : s.authTime # Unset /\ s.authTime <= now => s.authTime <= now'
    <3>1. now \in Nat /\ now' \in Nat /\ now <= now' /\ \A x \in Time : x \in Nat
      BY <1>0, <1>1, BrowserAssumption DEF Grows, BrowserTypeOK, Time
    <3>2. \A s \in Session : s.authTime # Unset => s.authTime \in Nat
      BY <3>1 DEF Session
    <3> QED  BY <3>1, <3>2
  <2> QED  BY <1>1, <2>5, <2>6 DEF SessionsBacked, PastRecorded, Grows
<1>4. CodesDue' /\ NobodyHeld'
  BY <1>0, CodesStep, NobodyStep
<1> QED  BY <1>2, <1>3, <1>4 DEF BrowserInv

LEMMA BrowserInvInit == BrowserInit => BrowserInv
<1> SUFFICES ASSUME BrowserInit PROVE BrowserInv  OBVIOUS
<1>1. EmptySession \in Session
  BY DEF EmptySession, Session
<1>2. Page("idle") \in PageRecord /\ Page("idle").page = "idle"
  BY Pages DEF PageName
<1>3. 0 \in Time
  BY BrowserAssumption DEF Time
<1>4. BrowserTypeOK
  BY <1>1, <1>2, <1>3 DEF BrowserInit, BrowserTypeOK
<1>5. Held = {EmptySession}
  BY DEF Held, BrowserInit
<1>6. EmptySession.user = Unset /\ EmptySession.authTime = Unset /\ EmptySession.returnTo = Unset
  BY DEF EmptySession
<1>7. SessionsBacked /\ NobodyHeld
  BY <1>5, <1>6, BrowserAssumption DEF SessionsBacked, Backed, NobodyHeld
<1>8. PastRecorded /\ CodesDue
  BY <1>5, <1>6 DEF PastRecorded, CodesDue, MaxAgeHonoured, BrowserInit
<1> QED  BY <1>4, <1>7, <1>8 DEF BrowserInv

\* What the user and the request asked of the login is kept through every
\* detour, for any number of tabs, users and requests: max_age, the agent on
\* the login page, the single use of a pushed request, what a logout leaves,
\* and which request a password login replays (authorize, login_submit,
\* auth_callback, logout).
THEOREM RequestsHonoured == BrowserSpec => RequestHonoured
<1> DEFINE Replay == \A t \in Tab : loc[t].page = "login" /\ loc'[t].page = "authorize" /\ starts' = starts
                         => now - parkedAt[loc'[t].req] <= ReturnMaxAge
<1>1. BrowserInv => MaxAgeHonoured /\ AgentOfPending /\ PushedOnce /\ LogoutSticks
  <2> SUFFICES ASSUME BrowserInv PROVE MaxAgeHonoured /\ AgentOfPending /\ PushedOnce /\ LogoutSticks
    OBVIOUS
  <2>1. BrowserTypeOK /\ SessionsBacked /\ CodesDue /\ NobodyHeld /\ cookie \in Held
    BY HeldTyped DEF BrowserInv
  <2>2. MaxAgeHonoured /\ LogoutSticks
    BY <2>1 DEF CodesDue, NobodyHeld, LogoutSticks
  <2>3. AgentOfPending
    BY <2>1 DEF SessionsBacked, Backed, AgentOfPending
  <2>4. ASSUME NEW r \in Req, r.par PROVE Cardinality({c \in handed : c.req = r}) <= 1
    <3> DEFINE S == {c \in handed : c.req = r}
    <3>1. \A c, d \in S : c = d
      BY <2>1, <2>4 DEF CodesDue
    <3>2. CASE S = {}
      BY <3>2, FS_EmptySet
    <3>3. CASE S # {}
      <4>1. PICK c : S = {c}
        BY <3>1, <3>3
      <4>2. Cardinality({c}) = 1
        BY FS_Singleton
      <4> QED  BY <4>1, <4>2
    <3> QED  BY <3>2, <3>3
  <2> QED  BY <2>2, <2>3, <2>4 DEF PushedOnce
<1>2. BrowserInv /\ [BrowserNext]_browserVars => [Replay]_browserVars
  <2> SUFFICES ASSUME BrowserInv, BrowserNext, NEW t \in Tab, loc[t].page = "login",
                      loc'[t].page = "authorize", starts' = starts
               PROVE  now - parkedAt[loc'[t].req] <= ReturnMaxAge
    OBVIOUS
  <2>1. BrowserTypeOK /\ SessionsBacked /\ PastRecorded
    BY DEF BrowserInv
  <2>2. loc'[t] # loc[t]
    OBVIOUS
  <2>3. \A x, p : ~Open(x, p)
    BY <2>1 DEF Open, BrowserTypeOK
  <2>4. PICK x \in Tab : Handle(x)
    BY <2>2, <2>3 DEF BrowserNext, ClockTicks, Push, Send, browserHistory
  <2>5. PICK s, p : Answers(x, s, p)
    BY <2>1, <2>4, HandleAnswers
  <2>6. x = t /\ \A z, q : Replied(t, z, q) => loc'[t] = q
    BY <2>1, <2>2, <2>5 DEF Answers, Replied, Respond, RespondOnly, BrowserTypeOK
  <2>7. Handle(t) /\ sent[t] # Unset
    BY <2>4, <2>5, <2>6 DEF Answers
  <2> DEFINE h == sent[t]
  <2>8. h \in Session /\ Backed(h, authAt, parkedAt) /\ now \in Time
    BY <2>1, <2>7 DEF BrowserTypeOK, Held, SessionsBacked
  <2>9. ASSUME NEW u \in PasswordUser, LoginSubmit(t, u) PROVE now - parkedAt[loc'[t].req] <= ReturnMaxAge
    <3>1. loc'[t] = PageFor(Return(h)) /\ Return(h) \in Req \cup {Unset, Device}
      BY <2>6, <2>8, <2>9 DEF LoginSubmit, Return, Session, Replied
    <3>2. Return(h) \in Req /\ loc'[t].req = Return(h)
      BY <3>1, Pages
    <3>3. h.returnTo \in Req /\ loc'[t].req = h.returnTo /\ h.returnTs # Unset /\ now - h.returnTs <= ReturnMaxAge
      BY <3>2, BrowserAssumption DEF Return
    <3>4. h.returnTs \in Time /\ parkedAt[h.returnTo] \in Time /\ h.returnTs <= parkedAt[h.returnTo]
      BY <2>1, <2>8, <3>3 DEF Session, Backed, BrowserTypeOK
    <3>5. \A y \in Time : y \in Nat
      BY BrowserAssumption DEF Time
    <3> HIDE DEF h
    <3> QED  BY <2>8, <3>3, <3>4, <3>5, BrowserAssumption
  <2>10. ASSUME LoginRefused(t) PROVE FALSE
    <3>1. loc'[t] = Page("login")
      BY <2>6, <2>10 DEF LoginRefused, Replied
    <3> QED  BY <3>1 DEF Page
  <2>11. ASSUME SocialLogin(t) PROVE FALSE
    <3>1. PICK c \in Csrf : loc'[t] = ProviderPage(c)
      BY <2>6, <2>11 DEF SocialLogin, Replied
    <3> QED  BY <3>1 DEF ProviderPage
  <2> QED  BY <2>7, <2>9, <2>10, <2>11 DEF Handle, ParRefused, LoginRequired, Park, IssueCode, VerifyPage,
             AuthCallback, CallbackRefused, Logout
<1> QED  BY <1>1, <1>2, BrowserInvInit, BrowserInvStep, PTL DEF BrowserSpec, RequestHonoured, StaleNotReplayed
=============================================================================
