----------------------------- MODULE MCEndpoint -----------------------------
(***************************************************************************)
(* What guards the endpoints that machines call: credentials, DPoP proofs  *)
(* and replayed assertions (TokenEndpoint), the signing keys (KeySet), the *)
(* rate limiters (RateLimit), the resilience middleware (Resilience),      *)
(* introspection (Introspection), and the ingestion of events              *)
(* (EventPipeline).  A behaviour is one of the part it starts with; the    *)
(* others stand still.  The parts of the token endpoint differ in the      *)
(* requests that come in and in the setting of the nonce secret.           *)
(***************************************************************************)
EXTENDS TokenEndpoint, KeySet, Introspection, Resilience, EventPipeline, TLC

VARIABLES
    part,           \* now is the clock of whatever part it is
    redis, buckets, counters, log, told, emptied, answer

endpoint == <<proofs, memory, rows, seen, secret, restarts, slot,
              issued, doubled, again, first, dropped, judged>>
limits == <<redis, buckets, counters, log, told, emptied, answer>>
partVars == <<part, now, endpoint, signingVars, limits, introspectVars, eventVars, resilienceVars>>

-----------------------------------------------------------------------------
(* The token endpoint *)

SecretClient(nonce) == [method |-> "client_secret", nonceRequired |-> nonce, named |-> FALSE]
JwtClient == [method |-> "jwt", nonceRequired |-> FALSE, named |-> FALSE]
Plain == [client |-> SecretClient(FALSE), basic |-> None, post |-> None,
          assertion |-> None, cert |-> None, proof |-> None]

ProofRequest(nonce) == [Plain EXCEPT !.client = SecretClient(nonce), !.basic = "right", !.proof = "j1"]
WithProof == {ProofRequest(n) : n \in BOOLEAN}

\* Assertions the guard forgets before they expire, and more than it holds.
WithAssertion ==
    {[Plain EXCEPT !.client = JwtClient, !.assertion = a] :
        a \in {[jti |-> 1, exp |-> 1], [jti |-> 2, exp |-> 2], [jti |-> 3, exp |-> 5]}}

\* Every way to authenticate, right and wrong, several at once.
Methods == {"client_secret", "jwt", "tls", "tls_san", "self_signed_tls", "none"}
Credentialled ==
    {[client |-> [method |-> m, nonceRequired |-> FALSE, named |-> n], basic |-> b, post |-> b2,
      assertion |-> a, cert |-> c, proof |-> None] :
        m \in Methods, n \in BOOLEAN, b \in {None, "right", "wrong"}, b2 \in {None, "right", "wrong"},
        a \in {None, [jti |-> 1, exp |-> 2]}, c \in {None, "match", "other"}}

Requests == WithProof \cup WithAssertion \cup Credentialled

\* The guard against replayed assertions is each process's own, so one of them
\* gets all; credentials do not interfere, so requests come one at a time; and
\* without a DPoP proof none is made.
Busy(p) == first[p] # {} \/ \E s \in Slot : slot[s] # None /\ slot[s].proc = p
OneProcess == \A p, q \in Proc : Busy(p)' /\ Busy(q)' => p = q
OneAtATime == \E s \in Slot : slot'[s] = None

\* One proof, sent again to two processes that restart.
Replays == INSTANCE TokenEndpoint WITH Request <- WithProof, SharedSecret <- FALSE

\* One nonce, from either of two processes, for as long as it may live.
Nonces == INSTANCE TokenEndpoint WITH Request <- {ProofRequest(TRUE)}, MaxRestarts <- 1

Assertions == INSTANCE TokenEndpoint WITH Request <- WithAssertion, MaxTime <- 4, MaxRestarts <- 0

Authentication == INSTANCE TokenEndpoint WITH Request <- Credentialled, MaxTime <- 1, MaxRestarts <- 0

-----------------------------------------------------------------------------
(* The keys: rotated by administrators, and seeded for a conformance run *)

Seeding == INSTANCE KeySet WITH HasPem <- FALSE, Conformance <- TRUE

-----------------------------------------------------------------------------
(* The limiters: a bucket in memory, a window in Redis, the login form with  *)
(* two keys to a check, the penalty bucket with a window of 0 and with one    *)
(* in Redis, and a bucket with both settings 0                                *)

InMemory == INSTANCE RateLimit WITH
    Ip <- {"i1"}, Backend <- "in_memory", LoginIp <- {}, Username <- {}, ClientId <- {},
    MaxRequestsSet <- 2, WindowSecs <- 3, Second <- 2, MaxTime <- 14, MaxLog <- 7, MaxCount <- 6

RedisWindow == INSTANCE RateLimit WITH
    Ip <- {"i1"}, Backend <- "redis", LoginIp <- {}, Username <- {}, ClientId <- {},
    MaxRequestsSet <- 2, WindowSecs <- 2, Second <- 2, MaxTime <- 10, MaxLog <- 6, MaxCount <- 6

LoginForm == INSTANCE RateLimit WITH
    Ip <- {}, Backend <- "in_memory", LoginIp <- {"i1"}, Username <- {"u1", "u2"}, ClientId <- {},
    MaxRequestsSet <- 2, WindowSecs <- 2, Second <- 2, MaxTime <- 5, MaxLog <- 4, MaxCount <- 6

Penalty == INSTANCE RateLimit WITH
    Ip <- {}, Backend <- "redis", LoginIp <- {}, Username <- {}, ClientId <- {"c1"},
    MaxRequestsSet <- 1, WindowSecs <- 0, Second <- 2, MaxTime <- 6, MaxLog <- 5, MaxCount <- 6

Clamped == INSTANCE RateLimit WITH
    Ip <- {"i1"}, Backend <- "in_memory", LoginIp <- {}, Username <- {}, ClientId <- {},
    MaxRequestsSet <- 0, WindowSecs <- 0, Second <- 2, MaxTime <- 6, MaxLog <- 5, MaxCount <- 6

-----------------------------------------------------------------------------
(* Introspection of a bound JWT, with proofs by two keys, and of a token     *)
(* that is in no table                                                       *)

BoundJwt == [owner |-> "c1", form |-> "jwt", bound |-> "k1"]
InspectedTxn == [owner |-> "c1", form |-> "txn", bound |-> Absent]

Inspected == {BoundJwt, InspectedTxn}
Shown == {[key |-> k, ath |-> BoundJwt] : k \in {"k1", "k2"}}

Introspect == INSTANCE Introspection WITH Token <- {BoundJwt}

IntrospectTxn == INSTANCE Introspection WITH Token <- {InspectedTxn}, Proof <- {}, Public <- FALSE

-----------------------------------------------------------------------------
(* Events: one sent twice under one key, while the store of keys expires,     *)
(* overflows and is lost in a restart                                         *)

Event(id, header, type) == [id |-> id, header |-> header, type |-> type]
Ingested == {Event("e1", "k1", "kept"), Event("e2", "k1", "kept"), Event("k2", Blank, "cut")}

Dedup == INSTANCE EventPipeline WITH ListCapacity <- 2

\* The endpoint and the bus fill the list in Redis at the same time.
RecentList == INSTANCE EventPipeline WITH
    Envelope <- {Event("k2", Blank, "kept"), Event("k2", Blank, "cut")}, EventKey <- {"k2"},
    RedisList <- TRUE, KeyTTL <- 0, MaxKeys <- 2, MaxItems <- 2

-----------------------------------------------------------------------------
\* Where a component stands still: the state of no request at all.
IdleLimits ==
    redis = FALSE /\ buckets = <<>> /\ counters = <<>> /\ log = <<>> /\ told = <<>> /\ emptied = <<>> /\ answer = None

PartInit ==
    /\ part \in {"replays", "nonces", "assertions", "credentials", "rotation", "seeding",
                 "bucket", "redis_window", "login_form", "penalty", "clamped", "introspect", "introspect_txn",
                 "dedup", "recent_list", "middleware"}
    /\ IF part = "replays" THEN Replays!Init ELSE Init
    /\ IF part = "seeding" THEN Seeding!SigningInit ELSE SigningInit
    /\ CASE part = "bucket" -> InMemory!Init
         [] part = "redis_window" -> RedisWindow!Init
         [] part = "login_form" -> LoginForm!Init
         [] part = "penalty" -> Penalty!Init
         [] part = "clamped" -> Clamped!Init
         [] OTHER -> IdleLimits
    /\ IntrospectInit
    /\ IF part = "recent_list" THEN RecentList!EventInit ELSE EventInit
    /\ ResilienceInit

PartNext ==
    \/ /\ \/ part = "replays" /\ Replays!Next
          \/ part = "nonces" /\ Nonces!Next
          \/ part = "assertions" /\ Assertions!Next /\ OneProcess /\ UNCHANGED proofs
          \/ part = "credentials" /\ Authentication!Next /\ OneProcess /\ OneAtATime /\ UNCHANGED proofs
       /\ UNCHANGED <<part, signingVars, limits, introspectVars, eventVars, resilienceVars>>
    \/ /\ \/ part = "rotation" /\ SigningNext
          \/ part = "seeding" /\ Seeding!SigningNext
       /\ UNCHANGED <<part, now, endpoint, limits, introspectVars, eventVars, resilienceVars>>
    \/ /\ \/ part = "bucket" /\ InMemory!Next
          \/ part = "redis_window" /\ RedisWindow!Next
          \/ part = "login_form" /\ LoginForm!Next
          \/ part = "penalty" /\ Penalty!Next
          \/ part = "clamped" /\ Clamped!Next
       /\ UNCHANGED <<part, endpoint, signingVars, introspectVars, eventVars, resilienceVars>>
    \/ /\ \/ part = "introspect" /\ Introspect!IntrospectNext
          \/ part = "introspect_txn" /\ IntrospectTxn!IntrospectNext
       /\ UNCHANGED <<part, now, endpoint, signingVars, limits, eventVars, resilienceVars>>
    \/ /\ \/ part = "dedup" /\ Dedup!EventNext
          \/ part = "recent_list" /\ RecentList!EventNext
       /\ UNCHANGED <<part, now, endpoint, signingVars, limits, introspectVars, resilienceVars>>
    \/ /\ part = "middleware" /\ ResilienceNext
       /\ UNCHANGED <<part, now, endpoint, signingVars, limits, introspectVars, eventVars>>

PartSpec == PartInit /\ [][PartNext]_partVars

Symmetry == Permutations(Slot) \cup Permutations(Proc)

-----------------------------------------------------------------------------
(* The property of the limiters; the others are the modules' own *)

\* A bucket admits a burst and its refill between any two admissions, a window
\* in Redis at most twice its limit in its length, and who waits as Retry-After
\* tells him is admitted, also where the counter was left without an expiry.
LimitsHonest ==
    /\ [](part = "bucket" => InMemory!BucketRate)
    /\ [](part = "login_form" => LoginForm!BucketRate)
    /\ [](part = "penalty" => Penalty!BucketRate)
    /\ [](part = "clamped" => Clamped!BucketRate)
    /\ [](part = "redis_window" => RedisWindow!WindowRate)
    /\ [][/\ part = "bucket" => InMemory!AdmittedAsTold
          /\ part = "redis_window" => RedisWindow!AdmittedAsTold
          /\ part = "penalty" => Penalty!AdmittedAsTold
          /\ part = "clamped" => Clamped!AdmittedAsTold]_partVars
=============================================================================
