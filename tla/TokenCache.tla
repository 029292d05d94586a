------------------------------ MODULE TokenCache ------------------------------
(***************************************************************************)
(* Validation of access tokens through two caches, while they are being    *)
(* revoked.  Every TokenActor (one per shard and server process) keeps an  *)
(* LRU of validated tokens (L1); all of them share Redis (L2); the tokens  *)
(* table is the source of truth.  ValidateToken looks in L1, in L2, then   *)
(* in the table; RevokeToken evicts one L1 entry and one L2 entry before   *)
(* it updates the table.                                                   *)
(*                                                                         *)
(* Only rows that were valid when they were read are ever cached, so an    *)
(* entry is the time until which it counts (0: no entry).  A request slot  *)
(* stays taken until the actor has handled the CacheValidatedToken message *)
(* the request sent.                                                       *)
(***************************************************************************)
EXTENDS Naturals, FiniteSets

CONSTANTS
    Actor,       \* TokenActors, of every shard and every server process
    Token,       \* access tokens
    Lineage,     \* those that share one token_family (the others have none)
    Request,     \* slots for messages in flight
    None,        \* an absent value
    TTL,         \* TOKEN_CACHE_TTL_SECS, in ticks
    Capacity,    \* TOKEN_CACHE_MAX_ENTRIES
    Expiry,      \* expires_at of the tokens
    MaxLatency,  \* ticks a message may spend in flight (an assumption)
    ReplicaLag,  \* ticks the read pool may be behind; 0 where it is the primary
    MaxTime      \* bound on the clock

ASSUME LineageAssumption == Lineage \subseteq Token
ASSUME NoneAssumption == None \notin Actor \cup Token
ASSUME TimeAssumption ==
    TTL \in Nat \ {0} /\ Capacity \in Nat \ {0} /\ Expiry \in Nat /\ MaxLatency \in Nat
    /\ ReplicaLag \in Nat /\ MaxTime \in Nat

VARIABLES
    now,                 \* the clock
    revoked,             \* rows of the tokens table with revoked = 1
    l1Until,             \* per actor and token: inserted_at + TTL
    l2Until,             \* per token: the instant its Redis key expires
    pc, actor, token,    \* locals of each message: next step, actor, token
    evicting,            \* revocations that name the access token string, and
                         \* whose evictions have succeeded so far
    began,               \* when each message was handled first
    \* history: when each row was revoked; the revocations under way that a
    \* validation of their token overlapped; the actors and tokens for which a
    \* RevokeToken has updated the row, and those it did without overlap
    revokedAt, overlapped, done, clean

caches == <<l1Until, l2Until>>
table == <<revoked, revokedAt>>
locals == <<pc, actor, token, evicting, began, overlapped>>
vars == <<now, caches, table, locals, done, clean>>

-----------------------------------------------------------------------------
Validating == {"redis", "db", "store", "deliver"}
Revoking == {"del", "update", "cascade"}

L1Hit(a, t) == now < l1Until[<<a, t>>]
L2Hit(t) == now < l2Until[t]

\* Token::is_valid for a cached copy, whose revoked flag is always clear.
Unexpired == now <= Expiry

\* A request carries a row of t that it read while t was not revoked.
Carries(r, t) == pc[r] \in {"store", "deliver"} /\ token[r] = t

Take(r, a, t, step) ==
    /\ pc[r] = "idle"
    /\ pc' = [pc EXCEPT ![r] = step]
    /\ actor' = [actor EXCEPT ![r] = a]
    /\ token' = [token EXCEPT ![r] = t]
    /\ began' = [began EXCEPT ![r] = now]

Goto(r, step) ==
    /\ pc' = [pc EXCEPT ![r] = step]
    /\ UNCHANGED <<actor, token, evicting, began, overlapped>>

Finish(r) ==
    /\ pc' = [pc EXCEPT ![r] = "idle"]
    /\ actor' = [actor EXCEPT ![r] = None]
    /\ token' = [token EXCEPT ![r] = None]
    /\ began' = [began EXCEPT ![r] = 0]
    /\ evicting' = evicting \ {r}
    /\ overlapped' = overlapped \ {r}

Init ==
    /\ now = 0
    /\ revoked = {}
    /\ l1Until = [k \in Actor \X Token |-> 0]
    /\ l2Until = [t \in Token |-> 0]
    /\ pc = [r \in Request |-> "idle"]
    /\ actor = [r \in Request |-> None]
    /\ token = [r \in Request |-> None]
    /\ evicting = {}
    /\ began = [r \in Request |-> 0]
    /\ revokedAt = [t \in Token |-> 0]
    /\ overlapped = {} /\ done = {} /\ clean = {}

\* The clock advances, but no message is in flight longer than MaxLatency.
Tick ==
    /\ now < MaxTime
    /\ \A r \in Request : pc[r] # "idle" => now < began[r] + MaxLatency
    /\ now' = now + 1
    /\ UNCHANGED <<caches, table, locals, done, clean>>

-----------------------------------------------------------------------------
(* ValidateToken *)

\* Mutant: a hit renews the entry.
HitRenewsEntry(a, t) ==
    /\ L1Hit(a, t)
    /\ Unexpired
    /\ l1Until' = [l1Until EXCEPT ![<<a, t>>] = now + TTL]
    /\ UNCHANGED <<now, l2Until, table, locals, done, clean>>

\* A live L1 entry answers in the handler itself; an entry of a token past its
\* expires_at refuses, and changes nothing.
AnswerFromL1(a, t) ==
    /\ L1Hit(a, t)
    /\ Unexpired
    /\ UNCHANGED <<now, caches, table, locals, done, clean>>

\* No live entry: a dead one is popped and the lookup goes on asynchronously.
BeginValidateToken(r, a, t) ==
    /\ ~L1Hit(a, t)
    /\ Take(r, a, t, "redis")
    /\ l1Until' = [l1Until EXCEPT ![<<a, t>>] = 0]
    /\ overlapped' = overlapped \cup {s \in Request : pc[s] \in Revoking /\ token[s] = t}
    /\ UNCHANGED <<now, l2Until, table, evicting, done, clean>>

\* An L2 hit is promoted to L1 whether or not it is past its expires_at, and
\* accepted only if it is not.
AnswerFromRedis(r) ==
    /\ pc[r] = "redis"
    /\ L2Hit(token[r])
    /\ Goto(r, "deliver")
    /\ UNCHANGED <<now, caches, table, done, clean>>

\* No key, no Redis, or an error: all go on to the table.
MissRedis(r) ==
    /\ pc[r] = "redis"
    /\ Goto(r, "db")
    /\ UNCHANGED <<now, caches, table, done, clean>>

\* get_token_by_access_token reads the read pool, where a row may still be
\* unrevoked.
SeenUnrevoked(t) ==
    t \notin revoked \/ (ReplicaLag > 0 /\ now <= revokedAt[t] + ReplicaLag)

\* Only a row that is valid as it was read goes on to the caches.
ReadRow(r) ==
    /\ pc[r] = "db"
    /\ \/ SeenUnrevoked(token[r]) /\ Unexpired /\ Goto(r, "store")
       \/ (token[r] \in revoked \/ ~Unexpired) /\ Finish(r)
    /\ UNCHANGED <<now, caches, table, done, clean>>

\* Mutant: the TTL is handed to SETEX in milliseconds.
SetexInMillis(r, stored) ==
    /\ pc[r] = "store"
    /\ l2Until' = IF stored THEN [l2Until EXCEPT ![token[r]] = now + 1000 * TTL] ELSE l2Until
    /\ Goto(r, "deliver")
    /\ UNCHANGED <<now, l1Until, table, done, clean>>

\* SETEX with the L1's TTL; its error is ignored (stored = FALSE).
StoreInRedis(r, stored) ==
    /\ pc[r] = "store"
    /\ l2Until' = IF stored THEN [l2Until EXCEPT ![token[r]] = now + TTL] ELSE l2Until
    /\ Goto(r, "deliver")
    /\ UNCHANGED <<now, l1Until, table, done, clean>>

\* Entries of actor a; a full LRU pushes one out (which one is abstracted).
Entries(a) == {t \in Token : l1Until[<<a, t>>] # 0}

Victims(a, t) ==
    IF t \in Entries(a) \/ Cardinality(Entries(a)) < Capacity THEN {t} ELSE Entries(a)

\* The actor handles CacheValidatedToken: inserted_at is the present time,
\* not the time at which the row was read.
CacheValidatedToken(r, victim) ==
    /\ pc[r] = "deliver"
    /\ victim \in Victims(actor[r], token[r])
    /\ l1Until' = [l1Until EXCEPT ![<<actor[r], victim>>] = 0, ![<<actor[r], token[r]>>] = now + TTL]
    /\ Finish(r)
    /\ UNCHANGED <<now, l2Until, table, done, clean>>

\* try_send finds the mailbox full, or storage fails: the message is over.
Drop(r) ==
    /\ pc[r] # "idle"
    /\ Finish(r)
    /\ UNCHANGED <<now, caches, table, done, clean>>

-----------------------------------------------------------------------------
(* RevokeToken, RevokeTokenFamily and administration *)

\* Mutant: the key is not normalised, and the L1 entry is not found.
EvictOtherKey(r, a, t, access) ==
    /\ Take(r, a, t, "del")
    /\ evicting' = IF access THEN evicting \cup {r} ELSE evicting
    /\ overlapped' = IF \E s \in Request : pc[s] \in Validating /\ token[s] = t
                       THEN overlapped \cup {r} ELSE overlapped
    /\ UNCHANGED <<now, caches, table, done, clean>>

\* RevokeToken evicts the string it was sent from the L1 of the actor that
\* handles it.  A refresh token is the key of no entry.
BeginRevokeToken(r, a, t, access) ==
    /\ Take(r, a, t, "del")
    /\ evicting' = IF access THEN evicting \cup {r} ELSE evicting
    /\ l1Until' = IF access THEN [l1Until EXCEPT ![<<a, t>>] = 0] ELSE l1Until
    /\ overlapped' = IF \E s \in Request : pc[s] \in Validating /\ token[s] = t
                       THEN overlapped \cup {r} ELSE overlapped
    /\ UNCHANGED <<now, l2Until, table, done, clean>>

\* DEL of the same string; its error is ignored (deleted = FALSE), but the
\* revocation then leaves the key behind.
DeleteFromRedis(r, deleted) ==
    /\ pc[r] = "del"
    /\ l2Until' = IF deleted /\ r \in evicting THEN [l2Until EXCEPT ![token[r]] = 0] ELSE l2Until
    /\ evicting' = IF deleted THEN evicting ELSE evicting \ {r}
    /\ pc' = [pc EXCEPT ![r] = "update"]
    /\ UNCHANGED <<now, l1Until, table, actor, token, began, overlapped, done, clean>>

\* Rows become revoked, for the first time or again.
Revoke(rows) ==
    /\ revoked' = revoked \cup rows
    /\ revokedAt' = [t \in Token |-> IF t \in rows \ revoked THEN now ELSE revokedAt[t]]

\* UPDATE tokens SET revoked = 1 WHERE access_token = ? OR refresh_token = ?
UpdateRow(r) ==
    /\ pc[r] = "update"
    /\ Revoke({token[r]})
    /\ done' = IF r \in evicting THEN done \cup {<<actor[r], token[r]>>} ELSE done
    /\ clean' = IF r \in evicting \ overlapped
                  THEN clean \cup {<<actor[r], token[r]>>} ELSE clean
    /\ IF token[r] \in Lineage THEN Goto(r, "cascade") ELSE Finish(r)
    /\ UNCHANGED <<now, caches>>

\* RevokeTokenFamily, sent on a code replay, clears the L1 of its actor.
BeginRevokeTokenFamily(r, a, t) ==
    /\ t \in Lineage
    /\ Take(r, a, t, "cascade")
    /\ l1Until' = [k \in Actor \X Token |-> IF k[1] = a THEN 0 ELSE l1Until[k]]
    /\ UNCHANGED <<now, l2Until, table, evicting, overlapped, done, clean>>

\* UPDATE tokens SET revoked = 1 WHERE token_family = ?: no cache is told.
Cascade(r) ==
    /\ pc[r] = "cascade"
    /\ Revoke(Lineage)
    /\ Finish(r)
    /\ UNCHANGED <<now, caches, done, clean>>

\* Administration writes the table only.
AdminRevoke(t) ==
    /\ t \notin revoked
    /\ Revoke({t})
    /\ UNCHANGED <<now, caches, locals, done, clean>>

-----------------------------------------------------------------------------
ValidateStep(r) ==
    \/ \E a \in Actor, t \in Token : BeginValidateToken(r, a, t)
    \/ AnswerFromRedis(r)
    \/ MissRedis(r)
    \/ ReadRow(r)
    \/ \E stored \in BOOLEAN : StoreInRedis(r, stored)
    \/ \E victim \in Token : CacheValidatedToken(r, victim)
    \/ Drop(r)

RevokeStep(r) ==
    \/ \E a \in Actor, t \in Token, access \in BOOLEAN : BeginRevokeToken(r, a, t, access)
    \/ \E deleted \in BOOLEAN : DeleteFromRedis(r, deleted)
    \/ UpdateRow(r)
    \/ \E a \in Actor, t \in Token : BeginRevokeTokenFamily(r, a, t)
    \/ Cascade(r)

Next ==
    \/ \E r \in Request : ValidateStep(r) \/ RevokeStep(r)
    \/ \E a \in Actor, t \in Token : AnswerFromL1(a, t)
    \/ \E t \in Token : AdminRevoke(t)
    \/ Tick

Spec == Init /\ [][Next]_vars

-----------------------------------------------------------------------------
(* Properties *)

\* Clocks, tables and locals stay within their shape; an entry never counts
\* for longer than TTL from now.
TypeOK ==
    /\ now \in 0..MaxTime
    /\ revoked \subseteq Token
    /\ l1Until \in [Actor \X Token -> 0..(MaxTime + TTL)]
    /\ l2Until \in [Token -> 0..(MaxTime + TTL)]
    /\ pc \in [Request -> Validating \cup Revoking \cup {"idle"}]
    /\ actor \in [Request -> Actor \cup {None}]
    /\ token \in [Request -> Token \cup {None}]
    /\ evicting \subseteq Request
    /\ began \in [Request -> 0..MaxTime]
    /\ revokedAt \in [Token -> 0..MaxTime]
    /\ overlapped \subseteq Request
    /\ done \subseteq Actor \X Token
    /\ clean \subseteq done

\* The longest a revoked token can live on in the caches: a row read just
\* before the read pool learns of the revocation may be in flight to Redis, live
\* there for a TTL, be read on its last instant, be in flight to an L1, and live
\* there for a TTL.
Window == ReplicaLag + 2 * (TTL + MaxLatency)

\* A revocation reaches every cache: from the end of the window on, no cache
\* entry and no request in flight can make any actor accept the token again,
\* whoever revoked it and whichever caches were evicted.
RevocationReachesCaches ==
    \A t \in revoked : now + 1 >= revokedAt[t] + Window =>
        /\ \A a \in Actor : ~L1Hit(a, t)
        /\ ~L2Hit(t)
        /\ \A r \in Request : ~Carries(r, t)

\* A RevokeToken that no validation of the token overlapped, and whose DEL
\* succeeded, is final for its actor at once: neither that actor's L1 nor
\* Redis holds the token from the UPDATE on, and no request will put it back.
\* With a read replica this has to wait until the replica follows.
CleanRevocationSticks ==
    ReplicaLag = 0 => \A k \in clean :
        /\ ~L1Hit(k[1], k[2])
        /\ ~L2Hit(k[2])
        /\ \A r \in Request : ~Carries(r, k[2])

\* "Evict from the validation cache immediately so subsequent ValidateToken
\* requests won't return a stale cached result." (token_actor.rs, RevokeToken)
NoStaleEntry == \A k \in done : ~L1Hit(k[1], k[2])
=============================================================================
