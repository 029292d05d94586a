--------------------------- MODULE TokenEndpoint ---------------------------
(***************************************************************************)
(* A token request on its way to a client_credentials grant: the           *)
(* credentials it may carry, its DPoP proof and nonce, client              *)
(* authentication with the replay guard for assertions, and the mint.      *)
(* Several server processes share one database; each keeps its own         *)
(* memory of proofs and assertions and loses it when it restarts.  A       *)
(* request may be sent again, to any process, at any time.                 *)
(***************************************************************************)
EXTENDS Naturals, FiniteSets

CONSTANTS
    Proc,           \* server processes
    Slot,           \* requests under way at once
    Jti,            \* identifiers of DPoP proofs
    Request,        \* [client, basic, post, assertion, cert, proof]; an assertion is
                    \* well signed and addressed: [jti, exp]
    None,
    SharedSecret,   \* OAUTH2_DPOP_NONCE_SECRET is set
    Skew,           \* DPOP_IAT_SKEW_SECS
    ProofTtl,       \* how long a proof's jti is kept: twice the skew and more
    NonceLife,      \* OAUTH2_DPOP_NONCE_LIFETIME_SECS
    MaxTtl,         \* MAX_TTL_SECS of the replay guard
    MaxEntries,     \* its capacity
    MaxWait,        \* how long a request may wait for the database: its acquire timeout
    Leeway,         \* by how much jsonwebtoken lets exp pass
    MaxTime, MaxRestarts \* bounds

\* A proof's jti outlives the window of its iat, and a request that was waiting
\* for the database at the end of it.
ASSUME WindowAssumption ==
    /\ Skew \in Nat /\ MaxWait \in Nat /\ ProofTtl \in Nat
    /\ ProofTtl >= 2 * Skew + MaxWait
ASSUME NoneAssumption == None \notin Jti \cup {"right", "wrong"}
ASSUME BoundAssumption ==
    /\ NonceLife \in Nat \ {0} /\ MaxTtl \in Nat /\ MaxEntries \in Nat /\ Leeway \in Nat
    /\ MaxTime \in Nat /\ MaxRestarts \in Nat /\ SharedSecret \in BOOLEAN

\* The records kept: keys, nonces and proofs; jtis; assertions; requests.
SecretKey == {None} \cup [of : Proc, start : Nat]
NonceRecord == [bucket : Nat, secret : SecretKey, at : Nat]
Made == [iat : Nat, nonce : {None} \cup NonceRecord, fits : BOOLEAN]
JtiRecord == [jti : Jti, until : Nat]
Assertion == [jti : Nat, exp : Nat]
Accepted == [assertion : Assertion, at : Nat]
ClientRecord == [method : {"client_secret", "jwt", "tls", "tls_san", "self_signed_tls", "none"},
                 nonceRequired : BOOLEAN, named : BOOLEAN]
RequestRecord == [client : ClientRecord, basic : {None, "right", "wrong"}, post : {None, "right", "wrong"},
                  assertion : {None} \cup Assertion, cert : {None, "match", "other"}, proof : {None} \cup Jti]
UnderWay == [proc : Proc, req : RequestRecord, pc : {"row", "nonce", "grant", "mint"}, at : Nat]

ASSUME RequestAssumption == Request \subseteq RequestRecord
ASSUME RecordAssumption == None \notin NonceRecord \cup Made \cup UnderWay

VARIABLES
    now,
    proofs,     \* proofs[j]: the proof clients made with jti j, or None
    memory,     \* memory[p]: proofs seen by p, [jti, until]
    rows,       \* the table dpop_jtis: [jti, until]
    seen,       \* seen[p]: the replay guard of p: [assertion, until, at]
    secret,     \* secret[p]: the key p signs nonces with
    restarts,
    slot,       \* slot[s]: a request under way, [proc, req, pc, at], or None
    issued,     \* history: proofs that tokens were issued for
    doubled,    \* history: those for which more than one was
    again,      \* history: the last assertion accepted once more by the same process:
                \* [assertion, first, second, evicted], or None
    first,      \* first[p]: history: accepted by p since it started, [assertion, at]
    dropped,    \* dropped[p]: history: assertions evicted from seen[p]
    judged      \* history: nonces judged, [nonce, secret, at, ok]

history == <<issued, doubled, again, first, dropped, judged>>
vars == <<now, proofs, memory, rows, seen, secret, restarts, slot, history>>

Init ==
    /\ now = 0 /\ restarts = 0
    /\ proofs = [j \in Jti |-> None]
    /\ memory = [p \in Proc |-> {}] /\ rows = {}
    /\ seen = [p \in Proc |-> {}]
    /\ secret = [p \in Proc |-> IF SharedSecret THEN None ELSE [of |-> p, start |-> 0]]
    /\ slot = [s \in Slot |-> None]
    /\ issued = {} /\ doubled = {} /\ judged = {} /\ again = None
    /\ first = [p \in Proc |-> {}] /\ dropped = [p \in Proc |-> {}]

-----------------------------------------------------------------------------
(* Clients *)

\* Mutant: the bucket that has ended, of which there is none at first.
BucketEnded(t) == t \div NonceLife - 1

Bucket(t) == t \div NonceLife

\* A nonce as a process issues it; at is history.
Nonce(p) == [bucket |-> Bucket(now), secret |-> secret[p], at |-> now]

\* A client makes a proof by its own clock, with a nonce it was just given or
\* none.  fits: its type, signature, method and URI are right.
MakeProof(j, iat, nonce, fits) ==
    /\ proofs[j] = None
    /\ proofs' = [proofs EXCEPT ![j] = [iat |-> iat, nonce |-> nonce, fits |-> fits]]
    /\ UNCHANGED <<now, memory, rows, seen, secret, restarts, slot, history>>

-----------------------------------------------------------------------------
(* The front of the handler, up to its first await *)

\* Mutant: the body wins over the header.
UnambiguousEnough(r) == ~(r.basic # None /\ r.assertion # None)

\* reject_multiple_client_auth_methods, and two secrets must be one.
Unambiguous(r) ==
    /\ ~(r.basic # None /\ (r.post # None \/ r.assertion # None))
    /\ r.basic # None /\ r.post # None => r.basic = r.post

\* Steps 1 to 9 of validate_dpop_proof
ProofHolds(proof) == proof.fits /\ proof.iat <= now + Skew /\ now <= proof.iat + Skew

\* Mutant: the record is kept for the skew alone.
RecordBriefly(j, at) == [jti |-> j, until |-> at + Skew]

ProofRecord(j, at) == [jti |-> j, until |-> at + ProofTtl]

Live(records) == {e \in records : e.until > now}

\* token: the request arrives.  With a proof, check_and_insert_in_memory.
Arrive(s, p, r) ==
    /\ slot[s] = None
    /\ Unambiguous(r)
    /\ IF r.proof = None THEN UNCHANGED memory
       ELSE /\ proofs[r.proof] # None /\ ProofHolds(proofs[r.proof])
            /\ \A e \in Live(memory[p]) : e.jti # r.proof
            /\ memory' = [memory EXCEPT ![p] = Live(@) \cup {ProofRecord(r.proof, now)}]
    /\ slot' = [slot EXCEPT ![s] = [proc |-> p, req |-> r, pc |-> IF r.proof = None THEN "grant" ELSE "row", at |-> now]]
    /\ UNCHANGED <<now, proofs, rows, seen, secret, restarts, history>>

Goto(s, pc) == slot' = [slot EXCEPT ![s].pc = pc, ![s].at = 0]
Done(s) == slot' = [slot EXCEPT ![s] = None]

\* dpop_jti_check_and_insert: expired rows go, the insert decides.
CheckRow(s) ==
    LET j == slot[s].req.proof
        kept == {e \in rows : e.until >= now}
    IN /\ slot[s] # None /\ slot[s].pc = "row"
       /\ IF \E e \in kept : e.jti = j
          THEN rows' = kept /\ Done(s)
          ELSE rows' = kept \cup {ProofRecord(j, slot[s].at)} /\ Goto(s, "nonce")
       /\ UNCHANGED <<now, proofs, memory, seen, secret, restarts, history>>

\* The database fails: the request does, and memory keeps its record.
RowFails(s) ==
    /\ slot[s] # None /\ slot[s].pc = "row"
    /\ Done(s)
    /\ UNCHANGED <<now, proofs, memory, rows, seen, secret, restarts, history>>

-----------------------------------------------------------------------------
(* Nonces *)

\* Mutant: only the current bucket is accepted.
InGraceNow(n) == n.bucket = Bucket(now)

\* Mutant: an old bucket never expires.
InGraceEver(n) == n.bucket <= Bucket(now)

\* verify: the current bucket or the one before
InGrace(n) == n.bucket <= Bucket(now) /\ n.bucket + 1 >= Bucket(now)

\* enforce_dpop_nonce
NonceGood(n, p) == InGrace(n) /\ n.secret = secret[p]

\* For a client that requires it, once it has been looked up
CheckNonce(s) ==
    LET n == proofs[slot[s].req.proof].nonce
        p == slot[s].proc
    IN /\ slot[s] # None /\ slot[s].pc = "nonce"
       /\ IF ~slot[s].req.client.nonceRequired THEN Goto(s, "grant") /\ UNCHANGED judged
          ELSE IF n = None THEN Done(s) /\ UNCHANGED judged
          ELSE LET ok == NonceGood(n, p)
               IN /\ IF ok THEN Goto(s, "grant") ELSE Done(s)
                  /\ judged' = judged \cup {[nonce |-> n, secret |-> secret[p], at |-> now, ok |-> ok]}
       /\ UNCHANGED <<now, proofs, memory, rows, seen, secret, restarts, issued, doubled, again, first, dropped>>

-----------------------------------------------------------------------------
(* Client authentication *)

Secret(r) == IF r.post # None THEN r.post ELSE r.basic

\* Everything but the replay guard
Credentials(r) ==
    LET c == r.client
    IN \/ c.method = "client_secret" /\ Secret(r) = "right"
       \/ c.method = "jwt" /\ r.assertion # None /\ now <= r.assertion.exp + Leeway
       \/ c.method = "tls" /\ r.cert # None /\ (c.named => r.cert = "match")
       \/ c.method = "tls_san" /\ c.named /\ r.cert = "match"
       \/ c.method = "self_signed_tls" /\ r.cert # None

GuardTtl(a) == LET left == IF a.exp > now THEN a.exp - now ELSE 0 IN IF left < MaxTtl THEN left ELSE MaxTtl

GuardEntry(a) == [assertion |-> a, until |-> now + GuardTtl(a), at |-> now]

\* Mutant: a full guard records nothing.
ObserveIfRoom(p, a) ==
    LET live == Live(seen[p])
    IN /\ \A e \in live : e.assertion # a
       /\ seen' = [seen EXCEPT ![p] = IF Cardinality(live) >= MaxEntries THEN live ELSE live \cup {GuardEntry(a)}]
       /\ dropped' = [dropped EXCEPT ![p] = @ \ {a}]

\* JtiReplayGuard::observe finds a fresh: a full guard drops some entry for it.
Observe(p, a) ==
    LET live == Live(seen[p])
    IN /\ \A e \in live : e.assertion # a
       /\ IF Cardinality(live) < MaxEntries
          THEN /\ seen' = [seen EXCEPT ![p] = live \cup {GuardEntry(a)}]
               /\ dropped' = [dropped EXCEPT ![p] = @ \ {a}]
          ELSE \E e \in live :
                 /\ seen' = [seen EXCEPT ![p] = (live \ {e}) \cup {GuardEntry(a)}]
                 /\ dropped' = [dropped EXCEPT ![p] = (@ \ {a}) \cup {e.assertion}]

\* authenticate_confidential_client succeeds.
Authenticate(s) ==
    LET p == slot[s].proc
        r == slot[s].req
        a == r.assertion
    IN /\ slot[s] # None /\ slot[s].pc = "grant"
       /\ Credentials(r)
       /\ IF r.client.method # "jwt" THEN UNCHANGED <<seen, again, first, dropped>>
          ELSE /\ Observe(p, a)
               /\ again' \in IF \E f \in first[p] : f.assertion = a
                             THEN {[assertion |-> a, first |-> f.at, second |-> now, evicted |-> a \in dropped[p]] :
                                   f \in {x \in first[p] : x.assertion = a}}
                             ELSE {again}
               /\ first' = [first EXCEPT ![p] = {x \in @ : x.assertion # a} \cup {[assertion |-> a, at |-> now]}]
       /\ Goto(s, "mint")
       /\ UNCHANGED <<now, proofs, memory, rows, secret, restarts, issued, doubled, judged>>

\* invalid_client: wrong or missing credentials, a replayed assertion, or a
\* public client; the penalty for it is RateLimit's.
AuthenticationFails(s) ==
    LET r == slot[s].req
    IN /\ slot[s] # None /\ slot[s].pc = "grant"
       /\ Credentials(r) => r.client.method = "jwt" /\ \E e \in Live(seen[slot[s].proc]) : e.assertion = r.assertion
       /\ Done(s)
       /\ UNCHANGED <<now, proofs, memory, rows, seen, secret, restarts, history>>

\* materialize_cimd_client and CreateToken
Mint(s) ==
    /\ slot[s] # None /\ slot[s].pc = "mint"
    /\ LET j == slot[s].req.proof
       IN IF j = None THEN UNCHANGED <<issued, doubled>>
          ELSE /\ issued' = issued \cup {j}
               /\ doubled' = IF j \in issued THEN doubled \cup {j} ELSE doubled
    /\ Done(s)
    /\ UNCHANGED <<now, proofs, memory, rows, seen, secret, restarts, again, first, dropped, judged>>

\* A scope that is not allowed, or a storage error
MintFails(s) ==
    /\ slot[s] # None /\ slot[s].pc = "mint"
    /\ Done(s)
    /\ UNCHANGED <<now, proofs, memory, rows, seen, secret, restarts, history>>

-----------------------------------------------------------------------------

\* A process crashes and starts again.
Restart(p) ==
    /\ restarts < MaxRestarts /\ restarts' = restarts + 1
    /\ memory' = [memory EXCEPT ![p] = {}] /\ seen' = [seen EXCEPT ![p] = {}]
    /\ secret' = IF SharedSecret THEN secret ELSE [secret EXCEPT ![p].start = restarts + 1]
    /\ slot' = [s \in Slot |-> IF slot[s] # None /\ slot[s].proc = p THEN None ELSE slot[s]]
    /\ first' = [first EXCEPT ![p] = {}] /\ dropped' = [dropped EXCEPT ![p] = {}]
    /\ UNCHANGED <<now, proofs, rows, issued, doubled, again, judged>>

Tick ==
    /\ now < MaxTime /\ now' = now + 1
    /\ \A s \in Slot : slot[s] # None /\ slot[s].pc = "row" => now < slot[s].at + MaxWait
    /\ UNCHANGED <<proofs, memory, rows, seen, secret, restarts, slot, history>>

Step(s) ==
    \/ CheckRow(s) \/ RowFails(s) \/ CheckNonce(s)
    \/ Authenticate(s) \/ AuthenticationFails(s) \/ Mint(s) \/ MintFails(s)

Next ==
    \/ Tick
    \/ \E p \in Proc : Restart(p)
    \/ \E j \in Jti, iat \in {t \in 0..MaxTime + Skew : t <= now + Skew /\ now <= t + Skew}, fits \in BOOLEAN :
          \E nonce \in {None} \cup {Nonce(p) : p \in Proc} : MakeProof(j, iat, nonce, fits)
    \/ \E s \in Slot : Step(s) \/ \E p \in Proc, r \in Request : Arrive(s, p, r)

Spec == Init /\ [][Next]_vars

-----------------------------------------------------------------------------
(* Properties *)

\* Memories, rows and requests keep their shape.
TypeOK ==
    /\ now \in Nat /\ restarts \in Nat
    /\ proofs \in [Jti -> {None} \cup Made]
    /\ memory \in [Proc -> SUBSET JtiRecord] /\ rows \subseteq JtiRecord
    /\ seen \in [Proc -> SUBSET [assertion : Assertion, until : Nat, at : Nat]]
    /\ secret \in [Proc -> SecretKey]
    /\ slot \in [Slot -> {None} \cup UnderWay]
    /\ issued \subseteq Jti /\ doubled \subseteq issued
    /\ again \in {None} \cup [assertion : Assertion, first : Nat, second : Nat, evicted : BOOLEAN]
    /\ first \in [Proc -> SUBSET Accepted] /\ dropped \in [Proc -> SUBSET Assertion]
    /\ judged \subseteq [nonce : NonceRecord, secret : SecretKey, at : Nat, ok : BOOLEAN]

\* One proof, one token: a DPoP proof is not accepted twice by any two
\* processes, before or after restarts, as long as its iat is in the window.
ProofOnce == doubled = {}

\* A nonce that is accepted was issued less than two lifetimes before.
NonceRecent == \A n \in judged : n.ok => n.at < n.nonce.at + 2 * NonceLife

\* A nonce is honoured for at least one lifetime by every process that shares
\* the secret it was issued under.
NonceHonoured == \A n \in judged : ~n.ok /\ n.secret = n.nonce.secret => n.at >= n.nonce.at + NonceLife

\* A nonce is honoured for one lifetime and refused after two.
NonceWindow == NonceRecent /\ NonceHonoured

\* A process accepts an assertion a second time only once it has forgotten the
\* first: its entry was evicted, outlived MAX_TTL_SECS, or expired with it.
AssertionOnce ==
    again # None => again.evicted \/ again.second >= again.first + MaxTtl \/ again.second >= again.assertion.exp

\* A client is not authenticated by one secret while the request carries another
\* that is wrong, in the header or in the body.
SecretsAgree ==
    \A s \in Slot : slot[s] # None /\ slot[s].pc = "mint" /\ slot[s].req.client.method = "client_secret"
        => "wrong" \notin {slot[s].req.basic, slot[s].req.post}

\* A proof is good for one token, over processes and restarts, and an assertion
\* passes again only once the guard has forgotten it.
UsedOnce == ProofOnce /\ AssertionOnce
=============================================================================
