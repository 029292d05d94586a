-------------------------------- MODULE KeySet --------------------------------
(***************************************************************************)
(* The JWT signing keys: a list in memory, seeded from the configuration   *)
(* when the process starts, rotated by an administrator, and used to sign  *)
(* and to verify.  A key is a record; its key material is a number: 0 is   *)
(* jwt_secret, 1 the PEM of OAUTH2_ID_TOKEN_PRIVATE_KEY_PEM, and each      *)
(* generated key has the next one.  keys are only ever pushed at the end   *)
(* of the list, so that the order of the list is the order of the material *)
(* and the list is modelled by the set of its keys.  A signature verifies  *)
(* exactly under the material and the algorithm it was made with.          *)
(*                                                                         *)
(* Hours of grace and seconds of the clock are both ticks.  Everything but *)
(* the passing of a tick is done under the lock of the list.               *)
(***************************************************************************)
EXTENDS Naturals, FiniteSets

CONSTANTS
    HasPem,        \* an RSA key is configured for ID tokens
    Conformance,   \* the server was started with a conformance seed
    Asked,         \* values of grace_period_hours an administrator may send
    Default,       \* key_rotation_grace_hours
    DateLimit,     \* the longest grace that ends within chrono's calendar,
    DurationLimit, \* the longest chrono::Duration::from_std accepts,
    HoursLimit,    \* the most hours whose seconds fit in 64 bits
    Lifetime,      \* of every token, in ticks
    MaxRotations,  \* bound on rotations and restarts
    MaxTokens,     \* bound on the tokens issued
    MaxClock       \* bound on the clock

ASSUME SigningAssumption ==
    /\ HasPem \in BOOLEAN /\ Conformance \in BOOLEAN
    /\ Asked \subseteq Nat /\ Default \in Nat
    /\ DateLimit \in Nat /\ DurationLimit \in Nat /\ HoursLimit \in Nat
    /\ Lifetime \in Nat /\ MaxRotations \in Nat /\ MaxClock \in Nat \ {0, 1}

VARIABLES
    clock,   \* it starts at 2, so that a kid made of an algorithm
             \* and the time is never the kid of a seeded key
    keys,    \* the KeySet
    fresh,   \* the next key material
    tokens,  \* signed tokens, with the time until which each must verify
    retired  \* history: what each rotation asked for, and was granted

signingVars == <<clock, keys, fresh, tokens, retired>>

-----------------------------------------------------------------------------
(* The set of keys *)

Algorithm == {"HS256", "RS256"}
JwtSecret == 0
Pem == 1
Never == 0

SigningKey(kid, alg, material) ==
    [kid |-> kid, algorithm |-> alg, material |-> material, current |-> TRUE, expires |-> Never]

IsActive(k) == k.expires = Never \/ clock < k.expires

ActiveKeys == {k \in keys : IsActive(k)}

\* Iterator::find: the first of the list that is one of these keys.
First(hits) == {k \in hits : \A l \in hits : k.material <= l.material}

CurrentForAlg(alg) == First({k \in ActiveKeys : k.current /\ k.algorithm = alg})

Find(kid) == First({k \in ActiveKeys : k.kid = kid})

Retire(list, alg, until) ==
    {IF k.algorithm = alg /\ k.current THEN [k EXCEPT !.current = FALSE, !.expires = until] ELSE k : k \in list}

\* KeySet::rotate; the grace period is already a duration here.
Rotated(list, key, grace) == Retire(list, key.algorithm, clock + grace) \cup {key}

\* Mutant: pruning drops whatever is not current.
PruneRetired(list) == {k \in list : k.current}

Pruned(list) == {k \in list : IsActive(k)}

-----------------------------------------------------------------------------
(* Start-up *)

InitialKid(alg) == <<alg, 0>>
SeedKid(alg) == <<alg, 1>>
SeedKey(material) == SigningKey(SeedKid("RS256"), "RS256", material)

Install(list, key) == Rotated(list, key, 0)

\* The HMAC key is always there, the RSA key when it is configured; a
\* conformance seed always brings an RSA key, installed without a grace period.
Seeded(material) ==
    LET base == {SigningKey(InitialKid("HS256"), "HS256", JwtSecret)}
                \cup (IF HasPem THEN {SigningKey(InitialKid("RS256"), "RS256", Pem)} ELSE {})
    IN IF Conformance THEN Install(base, SeedKey(material)) ELSE base

SigningInit ==
    /\ clock = 2
    /\ fresh = 3
    /\ keys = Seeded(2)
    /\ tokens = {} /\ retired = {}

\* A restart reads the configuration again: rotated keys are gone, and with
\* them whatever they signed.
RestartServer ==
    /\ fresh < 3 + MaxRotations
    /\ keys' = Seeded(fresh)
    /\ fresh' = fresh + 1
    /\ tokens' = {[t EXCEPT !.until = IF t.material \in {JwtSecret, Pem} THEN @ ELSE clock] : t \in tokens}
    /\ retired' = {}
    /\ UNCHANGED clock

-----------------------------------------------------------------------------
(* POST /admin/api/keys/rotate *)

\* The duration a request for so many hours comes to.
\* Duration::from_std fails above its limit, and the failure counts as zero.
Granted(hours) == IF hours <= DurationLimit THEN hours ELSE 0

\* Adding a duration that runs past the calendar panics, before any change.
GraceAccepted(hours) == hours <= HoursLimit /\ (hours > DateLimit => hours > DurationLimit)

\* The new key becomes current, the old ones of its algorithm get their
\* expiry, and every key past its own is dropped.  The kid names the
\* algorithm and the second.
RotateKey(alg, hours) ==
    LET key == SigningKey(<<alg, clock>>, alg, fresh)
        grace == Granted(hours)
        old == {k \in keys : k.current /\ k.algorithm = alg}
    IN /\ fresh < 3 + MaxRotations
       /\ GraceAccepted(hours)
       /\ keys' = Pruned(Rotated(keys, key, grace))
       /\ fresh' = fresh + 1
       /\ tokens' = {IF \E k \in old : k.material = t.material /\ clock + grace < t.until
                       THEN [t EXCEPT !.until = clock + grace] ELSE t : t \in tokens}
       /\ retired' = retired \cup {[material |-> k.material, until |-> clock + hours] : k \in old}
       /\ UNCHANGED clock

\* The body may leave either field out: an absent algorithm is RS256.
RotateRequest(alg, hours) ==
    RotateKey(IF alg = {} THEN "RS256" ELSE CHOOSE a \in alg : TRUE,
              IF hours = {} THEN Default ELSE CHOOSE h \in hours : TRUE)

-----------------------------------------------------------------------------
(* Signing *)

NoKid == <<"none", 0>>

Signed(kind, kid, alg, material) ==
    [kind |-> kind, kid |-> kid, algorithm |-> alg, material |-> material, until |-> clock + Lifetime]

WithKey(kind, k) == Signed(kind, k.kid, k.algorithm, k.material)
WithSecret(kind) == Signed(kind, NoKid, "HS256", JwtSecret)

\* CreateToken: the current RSA key, else the current HMAC key, else the
\* secret.  Access and refresh token get the same key.
AccessToken ==
    LET rs == CurrentForAlg("RS256")
        hs == CurrentForAlg("HS256")
        chosen == IF rs # {} THEN rs ELSE hs
    IN IF chosen = {} THEN WithSecret("access") ELSE WithKey("access", CHOOSE k \in chosen : TRUE)

\* Transaction tokens: the current RSA key, else the secret.
TxnToken ==
    LET rs == CurrentForAlg("RS256")
    IN IF rs = {} THEN WithSecret("txn") ELSE WithKey("txn", CHOOSE k \in rs : TRUE)

\* ID tokens never look at the KeySet: the configured PEM or the secret.
IdToken ==
    IF HasPem THEN Signed("id", InitialKid("RS256"), "RS256", Pem) ELSE WithSecret("id")

Sign(t) ==
    /\ Cardinality(tokens) < MaxTokens
    /\ tokens' = tokens \cup {t}
    /\ UNCHANGED <<clock, keys, fresh, retired>>

HourPasses ==
    /\ clock < MaxClock
    /\ clock' = clock + 1
    /\ UNCHANGED <<keys, fresh, tokens, retired>>

SigningNext ==
    \/ \E alg \in {{}} \cup {{a} : a \in Algorithm}, hours \in {{}} \cup {{h} : h \in Asked} :
          RotateRequest(alg, hours)
    \/ Sign(AccessToken) \/ Sign(TxnToken) \/ Sign(IdToken)
    \/ RestartServer
    \/ HourPasses

SigningSpec == SigningInit /\ [][SigningNext]_signingVars

-----------------------------------------------------------------------------
(* Verification and publication *)

Fits(k, t) == k.material = t.material /\ k.algorithm = t.algorithm

\* verify_jwt: the key the kid names, or every active key when it names none,
\* and in any case the secret.
VerifyJwt(t) ==
    LET named == Find(t.kid)
        candidates == IF named # {} THEN named ELSE ActiveKeys
    IN \/ \E k \in candidates : Fits(k, t)
       \/ t.algorithm = "HS256" /\ t.material = JwtSecret

\* decode_with_keyset: the key the kid names, and no other; without one, the
\* active HMAC keys.  The secret is not tried.  (This is the signature; what
\* the decoder makes of the claims is in Introspection.)
DecodeWithKeyset(t) ==
    LET named == Find(t.kid)
        candidates == IF named # {} THEN named ELSE {k \in ActiveKeys : k.algorithm = "HS256"}
    IN \E k \in candidates : Fits(k, t)

\* The JWKS document: active RSA keys, or the configured one when there is none.
Jwks ==
    LET active == {k.material : k \in {k \in ActiveKeys : k.algorithm = "RS256"}}
    IN IF active = {} /\ HasPem THEN {Pem} ELSE active

-----------------------------------------------------------------------------
(* Properties *)

Kid == (Algorithm \cup {"none"}) \X Nat

\* Keys, tokens and the clock keep their shape through rotations and restarts;
\* expiries are times, whatever grace was asked for.
SigningTypeOK ==
    /\ clock \in 2..MaxClock
    /\ fresh \in 3..(3 + MaxRotations)
    /\ keys \subseteq [kid : Kid, algorithm : Algorithm, material : 0..(fresh - 1), current : BOOLEAN, expires : Nat]
    /\ tokens \subseteq [kind : {"access", "txn", "id"}, kid : Kid, algorithm : Algorithm,
                          material : 0..(fresh - 1), until : Nat]
    /\ retired \subseteq [material : 0..(fresh - 1), until : Nat]

\* Two keys of the list share a kid: two rotations in one second.
Ambiguous(kid) == \E k, l \in keys : k # l /\ k.kid = kid /\ l.kid = kid

\* Rotations, whatever their number, algorithm and grace, never leave the
\* server without a key to sign with (current_for_alg, KeySet::rotate,
\* prune_expired): there is exactly one current key of each algorithm held,
\* and it is active, and the HMAC key is always there.
AlwaysOneCurrentKey ==
    \A alg \in Algorithm :
        (alg = "HS256" \/ \E k \in keys : k.algorithm = alg)
            => \E k \in keys : /\ k.algorithm = alg /\ k.current /\ IsActive(k)
                               /\ \A l \in keys : l.algorithm = alg /\ l.current => l = k

\* A token outlives the rotation of its key: until it expires, or the grace
\* of the rotation that retired its key is over, or a restart forgot the key,
\* the server verifies it by both ways (verify_jwt, decode_with_keyset), unless
\* the kid is shared.  ID tokens are not verified with the KeySet.
GraceKeepsTokens ==
    \A t \in tokens :
        (t.kind # "id" /\ clock < t.until /\ ~Ambiguous(t.kid))
            => VerifyJwt(t) /\ (t.kid # NoKid => DecodeWithKeyset(t))

\* Rotation is how a compromised key is withdrawn: once the grace that the
\* rotation asked for is over, nothing the old key signed verifies by either
\* way, and the key is not published (KeySet::find, active_keys, jwks).  The
\* initial HMAC key is the exception: verify_jwt tries jwt_secret last, so that
\* what it signed goes on verifying there.
RetiredKeysAreDead ==
    \A r \in retired : clock >= r.until =>
        /\ r.material \notin Jwks
        /\ \A t \in tokens : t.material = r.material =>
              ~DecodeWithKeyset(t) /\ (r.material # JwtSecret => ~VerifyJwt(t))

\* Keys keep their shape, whatever grace a rotation is asked for; through
\* rotations and restarts there is one key to sign with, a token verifies for
\* the grace of its key, and after the grace nothing of a retired key verifies or
\* is published.
KeysServeTheirTime == SigningTypeOK /\ AlwaysOneCurrentKey /\ GraceKeepsTokens /\ RetiredKeysAreDead
===============================================================================
