----------------------------- MODULE Introspection -----------------------------
(***************************************************************************)
(* POST /oauth/introspect.  A request authenticates its caller, resolves   *)
(* the token (from the tokens table, from its JWT alone, or as a           *)
(* transaction token), checks the DPoP proof of a bound token, and answers *)
(* from the copy of the row it read.  Each of these waits for an actor or  *)
(* for storage, so that revocations, the clock and other requests come in  *)
(* between.  The caches of ValidateToken are the subject of TokenCache;    *)
(* here it reads the row.                                                  *)
(***************************************************************************)
EXTENDS Naturals, FiniteSets

CONSTANTS
    Client, Query, Absent,
    Token,      \* tokens: owner, form ("jwt", "opaque" or "txn"), bound key
    Proof,      \* DPoP proofs: the key that signed it, the token it names in ath
    Stateless,  \* stateless_validation is on
    Public,     \* public_introspection is on
    Expiry,     \* when the tokens expire
    MaxInstant, \* bound on the clock
    MaxAnswers  \* bound on the answers

ASSUME InstantAssumption == Expiry \in Nat /\ MaxInstant \in Nat

VARIABLES
    instant, revoked,      \* the clock, and the revoked rows
    used,                  \* proofs in the replay store
    pc, caller, token, proof,   \* queryLocals of each request
    began,                 \* history: what was revoked when it was resolved
    answers                \* history: the answers that say active

queryLocals == <<pc, caller, token, proof, began>>
introspectVars == <<instant, revoked, used, queryLocals, answers>>

-----------------------------------------------------------------------------
(* Authentication of the caller *)

\* A Basic header is Absent or an id with a good or bad secret; the body has an
\* id and a secret of its own, each of which may be missing.
Header == {Absent} \cup [id : Client, good : BOOLEAN]
BodySecret == {"none", "good", "bad"}

Rejected == "refused"

\* The client, Absent for an anonymous caller, or a refusal: two secrets, two
\* different ids, an id without a secret or a secret without an id, a wrong
\* secret, or nothing at all unless introspection is public.
Caller(header, id, secret) ==
    CASE header # Absent /\ secret # "none" -> Rejected
      [] header # Absent /\ id \notin {Absent, header.id} -> Rejected
      [] header # Absent -> IF header.good THEN header.id ELSE Rejected
      [] id = Absent /\ secret = "none" -> IF Public THEN Absent ELSE Rejected
      [] id = Absent \/ secret # "good" -> Rejected
      [] OTHER -> id

-----------------------------------------------------------------------------
(* The steps of a request *)

EndQuery(r) ==
    /\ pc' = [pc EXCEPT ![r] = "idle"]
    /\ caller' = [caller EXCEPT ![r] = Absent]
    /\ token' = [token EXCEPT ![r] = Absent]
    /\ proof' = [proof EXCEPT ![r] = Absent]
    /\ began' = [began EXCEPT ![r] = {}]

Await(r, step) ==
    /\ pc' = [pc EXCEPT ![r] = step]
    /\ UNCHANGED <<caller, token, proof, began>>

IntrospectInit ==
    /\ instant = 0 /\ revoked = {} /\ used = {} /\ answers = {}
    /\ pc = [r \in Query |-> "idle"]
    /\ caller = [r \in Query |-> Absent]
    /\ token = [r \in Query |-> Absent]
    /\ proof = [r \in Query |-> Absent]
    /\ began = [r \in Query |-> {}]

\* A refused caller gets an error and nothing changes.
BeginIntrospect(r, header, id, secret, t, p) ==
    LET c == Caller(header, id, secret)
    IN /\ pc[r] = "idle"
       /\ c # Rejected
       /\ pc' = [pc EXCEPT ![r] = IF t.form = "txn" THEN "txn" ELSE "resolve"]
       /\ caller' = [caller EXCEPT ![r] = c]
       /\ token' = [token EXCEPT ![r] = t]
       /\ proof' = [proof EXCEPT ![r] = p]
       /\ UNCHANGED <<instant, revoked, used, began, answers>>

AnswerActive(r, identity) ==
    /\ Cardinality(answers) < MaxAnswers
    /\ answers' = answers \cup {[caller |-> caller[r], token |-> token[r], proof |-> proof[r],
                                 identity |-> identity, live |-> token[r] \notin began[r],
                                 expired |-> instant > Expiry, nth |-> Cardinality(answers)]}
    /\ EndQuery(r)
    /\ UNCHANGED <<instant, revoked>>

\* The same few bytes for whatever reason; such answers are not recorded.
AnswerInactive(r) == EndQuery(r) /\ UNCHANGED <<instant, revoked, answers>>

TokensExpired == instant > Expiry

\* A transaction token is in no table: its signature and exp decide, and any
\* authenticated caller sees whom it is about.
AnswerTxn(r) ==
    /\ pc[r] = "txn"
    /\ IF instant < Expiry THEN AnswerActive(r, caller[r] # Absent) ELSE AnswerInactive(r)
    /\ UNCHANGED used

\* jsonwebtoken's Validation::default(), which names no audience, refuses a
\* token that has one; every access token of this server has.
DefaultValidation(t) == FALSE

\* ValidateTokenStateless decodes with the default validation, and knows
\* nothing of revocation; it is off for opaque tokens.
StatelessAccepts(t) == ~TokensExpired /\ DefaultValidation(t)

\* ValidateToken: the row is valid.
RowAccepts(t) == t \notin revoked /\ ~TokensExpired

Accepts(t) == IF Stateless /\ t.form # "opaque" THEN StatelessAccepts(t) ELSE RowAccepts(t)

\* Mutant: the owner of the token is not compared.
ResolveForAnyone(r) ==
    /\ pc[r] = "resolve"
    /\ IF Accepts(token[r])
         THEN /\ pc' = [pc EXCEPT ![r] = "proof"]
              /\ began' = [began EXCEPT ![r] = revoked]
              /\ UNCHANGED <<caller, token, proof, instant, revoked, answers>>
         ELSE AnswerInactive(r)
    /\ UNCHANGED used

\* An invalid token, and a token of another client, are both inactive.
Resolve(r) ==
    /\ pc[r] = "resolve"
    /\ IF Accepts(token[r]) /\ caller[r] \in {Absent, token[r].owner}
         THEN /\ pc' = [pc EXCEPT ![r] = "proof"]
              /\ began' = [began EXCEPT ![r] = revoked]
              /\ UNCHANGED <<caller, token, proof, instant, revoked, answers>>
         ELSE AnswerInactive(r)
    /\ UNCHANGED used

\* The proof is for this token, and this is its first use.
ProofFresh(r) == proof[r] # Absent /\ proof[r].ath = token[r] /\ proof[r] \notin used

\* Mutant: the store is read, but not written.
CheckWithoutRecord(r) ==
    /\ pc[r] = "proof"
    /\ IF token[r].form = "jwt" /\ token[r].bound # Absent
            /\ ~(ProofFresh(r) /\ proof[r].key = token[r].bound)
         THEN AnswerInactive(r)
         ELSE Await(r, "answer") /\ UNCHANGED <<instant, revoked, answers>>
    /\ UNCHANGED used

\* Only the claims of a JWT say that a token is bound.  A proof that passes is
\* recorded, also when its key turns out to be another.
CheckProof(r) ==
    LET required == token[r].form = "jwt" /\ token[r].bound # Absent
    IN /\ pc[r] = "proof"
       /\ IF required /\ ~(ProofFresh(r) /\ proof[r].key = token[r].bound)
            THEN AnswerInactive(r)
            ELSE Await(r, "answer") /\ UNCHANGED <<instant, revoked, answers>>
       /\ used' = IF required /\ ProofFresh(r) THEN used \cup {proof[r]} ELSE used

\* Mutant: the copy is returned as it was validated.
RespondFromCopy(r) ==
    /\ pc[r] = "answer"
    /\ AnswerActive(r, caller[r] # Absent)
    /\ UNCHANGED used

\* is_valid is asked again, of the copy: the clock counts, a later revocation
\* does not.
Respond(r) ==
    /\ pc[r] = "answer"
    /\ IF TokensExpired THEN AnswerInactive(r) ELSE AnswerActive(r, caller[r] # Absent)
    /\ UNCHANGED used

-----------------------------------------------------------------------------
RevokeRow(t) ==
    /\ t.form # "txn" /\ t \notin revoked
    /\ revoked' = revoked \cup {t}
    /\ UNCHANGED <<instant, used, queryLocals, answers>>

InstantPasses ==
    /\ instant < MaxInstant
    /\ instant' = instant + 1
    /\ UNCHANGED <<revoked, used, queryLocals, answers>>

IntrospectStep(r) == AnswerTxn(r) \/ Resolve(r) \/ CheckProof(r) \/ Respond(r)

IntrospectNext ==
    \/ \E r \in Query, h \in Header, id \in Client \cup {Absent}, s \in BodySecret,
          t \in Token, p \in Proof \cup {Absent} : BeginIntrospect(r, h, id, s, t, p)
    \/ \E r \in Query : IntrospectStep(r)
    \/ \E t \in Token : RevokeRow(t)
    \/ InstantPasses

IntrospectSpec == IntrospectInit /\ [][IntrospectNext]_introspectVars

-----------------------------------------------------------------------------
(* Properties *)

\* A request under way has its caller, its token and its proof.
IntrospectTypeOK ==
    /\ instant \in 0..MaxInstant
    /\ revoked \subseteq Token /\ used \subseteq Proof
    /\ pc \in [Query -> {"idle", "txn", "resolve", "proof", "answer"}]
    /\ caller \in [Query -> Client \cup {Absent}]
    /\ token \in [Query -> Token \cup {Absent}]
    /\ proof \in [Query -> Proof \cup {Absent}]
    /\ began \in [Query -> SUBSET Token]
    /\ \A r \in Query : pc[r] # "idle" => token[r] \in Token

\* Who a token is about (username, sub, act) is told to its owner only, or for
\* a transaction token to a caller that authenticated (introspect).
IdentityToOwner ==
    \A a \in answers : a.identity =>
        a.caller # Absent /\ (a.token.form # "txn" => a.caller = a.token.owner)

\* A bound JWT is reported active only to a caller with a proof by its key for
\* this very token, and one proof serves one answer, whatever requests are
\* under way at once (the DPoP branch of introspect).
OneProofPerAnswer ==
    LET bound == {a \in answers : a.token.form = "jwt" /\ a.token.bound # Absent}
    IN /\ \A a \in bound : a.proof # Absent /\ a.proof.key = a.token.bound /\ a.proof.ath = a.token
       /\ \A a, b \in bound : a.proof = b.proof => a = b

\* "active" is never said of a token that is expired at that moment, or whose
\* row was revoked when the request read it (is_valid, ValidateToken).
ActiveWasLive ==
    \A a \in answers : ~a.expired /\ (a.token.form # "txn" => a.live)

\* Introspection: a proof is good for one answer, the identity behind a token is
\* told to its owner only, and no token is called active that was revoked or
\* expired when it was read.
AnswersDue == OneProofPerAnswer /\ IdentityToOwner /\ ActiveWasLive
================================================================================
