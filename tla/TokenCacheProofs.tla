--------------------------- MODULE TokenCacheProofs ---------------------------
(***************************************************************************)
(* Theorems about TokenCache for any number of actors, tokens and messages *)
(* in flight, and any TTL, capacity and latency.                           *)
(***************************************************************************)
EXTENDS TokenCache, TLAPS

USE LineageAssumption, NoneAssumption, TimeAssumption
USE DEF caches, table, locals, Validating, Revoking

-----------------------------------------------------------------------------
(* What the two theorems rest on *)

\* A message in flight knows its actor and token, and is not late; an entry
\* counts for at most a TTL from now, and rows were revoked in the past.
InFlight ==
    \A r \in Request : pc[r] # "idle" =>
        /\ actor[r] \in Actor /\ token[r] \in Token
        /\ began[r] <= now /\ now <= began[r] + MaxLatency

InThePast == \A t \in Token : revokedAt[t] <= now

Fresh ==
    /\ \A t \in Token : l2Until[t] <= now + TTL
    /\ \A a \in Actor, t \in Token : l1Until[<<a, t>>] <= now + TTL

Timely == InFlight /\ InThePast /\ Fresh

\* How far each hop of a row of a revoked token can be behind its revocation:
\* read before the read pool knows of it, stored in Redis within a latency of
\* that, read back from Redis within a TTL, cached in an L1 a latency later.
StoresDecay ==
    \A r \in Request : pc[r] = "store" /\ token[r] \in revoked => began[r] <= revokedAt[token[r]] + ReplicaLag

L2Decays == \A t \in revoked : l2Until[t] <= revokedAt[t] + ReplicaLag + MaxLatency + TTL

DeliveriesDecay ==
    \A r \in Request : pc[r] = "deliver" /\ token[r] \in revoked =>
        began[r] + 1 <= revokedAt[token[r]] + ReplicaLag + MaxLatency + TTL

L1Decays ==
    \A a \in Actor, t \in Token : t \in revoked =>
        l1Until[<<a, t>>] + 1 <= revokedAt[t] + ReplicaLag + MaxLatency + TTL + MaxLatency + TTL

Decaying == StoresDecay /\ L2Decays /\ DeliveriesDecay /\ L1Decays

\* A revocation that names the access token string and that no validation of
\* the token overlapped keeps empty every place it has cleared so far ...
Evicted(r) ==
    /\ l1Until[<<actor[r], token[r]>>] = 0
    /\ pc[r] = "update" => l2Until[token[r]] = 0
    /\ \A s \in Request : token[s] = token[r] => pc[s] \notin Validating

EvictionsHold ==
    /\ \A r \in evicting : pc[r] \in Revoking
    /\ \A r \in evicting \ overlapped : pc[r] \in {"del", "update"} => Evicted(r)

\* ... and once its row is revoked no request can carry the token again, where
\* the read pool is the primary.
CleanHolds ==
    ReplicaLag = 0 => \A a \in Actor, t \in Token : <<a, t>> \in clean =>
        /\ t \in revoked
        /\ l1Until[<<a, t>>] = 0
        /\ l2Until[t] = 0
        /\ \A r \in Request : ~Carries(r, t)

-----------------------------------------------------------------------------
\* Caching a row puts it into the entry of its actor and token and clears the
\* entry that the LRU pushes out; every other entry stays.
Caches(r, victim) ==
    /\ l1Until' \in [Actor \X Token -> 0..(MaxTime + TTL)]
    /\ \A a \in Actor, t \in Token : l1Until'[<<a, t>>] =
         IF a = actor[r] /\ t = token[r] THEN now + TTL
         ELSE IF a = actor[r] /\ t = victim THEN 0
         ELSE l1Until[<<a, t>>]

\* CacheValidatedToken writes these two entries of its actor's LRU.
LEMMA CachedEntry ==
    ASSUME TypeOK, InFlight, NEW r \in Request, NEW victim \in Token, CacheValidatedToken(r, victim)
    PROVE  Caches(r, victim)
<1> DEFINE popped == [l1Until EXCEPT ![<<actor[r], victim>>] = 0]
<1>1. actor[r] \in Actor /\ token[r] \in Token
  BY DEF InFlight, CacheValidatedToken
<1>2. popped \in [Actor \X Token -> 0..(MaxTime + TTL)]
  BY <1>1 DEF TypeOK
<1>3. \A a \in Actor, t \in Token : popped[<<a, t>>] =
        IF a = actor[r] /\ t = victim THEN 0 ELSE l1Until[<<a, t>>]
  BY <1>1 DEF TypeOK
<1>4. l1Until' = [popped EXCEPT ![<<actor[r], token[r]>>] = now + TTL]
  BY DEF CacheValidatedToken
<1>5. now + TTL \in 0..(MaxTime + TTL)
  BY DEF TypeOK
<1> HIDE DEF popped
<1> QED
  BY <1>1, <1>2, <1>3, <1>4, <1>5 DEF Caches

\* Tables, caches and locals keep their shape.
LEMMA TypeStep == TypeOK /\ InFlight /\ [Next]_vars => TypeOK'
<1> SUFFICES ASSUME TypeOK, InFlight, [Next]_vars PROVE TypeOK'
  OBVIOUS
<1> USE DEF TypeOK, InFlight
<1>1. ASSUME NEW r \in Request, ValidateStep(r) PROVE TypeOK'
  <2>1. ASSUME NEW a \in Actor, NEW t \in Token, BeginValidateToken(r, a, t) PROVE TypeOK'
    BY <2>1 DEF BeginValidateToken, Take
  <2>2. CASE AnswerFromRedis(r)
    BY <2>2 DEF AnswerFromRedis, Goto
  <2>3. CASE MissRedis(r)
    BY <2>3 DEF MissRedis, Goto
  <2>4. CASE ReadRow(r)
    BY <2>4 DEF ReadRow, SeenUnrevoked, Goto, Finish
  <2>5. ASSUME NEW stored \in BOOLEAN, StoreInRedis(r, stored) PROVE TypeOK'
    BY <2>5 DEF StoreInRedis, Goto
  <2>6. ASSUME NEW victim \in Token, CacheValidatedToken(r, victim) PROVE TypeOK'
    <3>1. Finish(r) /\ pc[r] = "deliver" /\ UNCHANGED <<now, l2Until, table, done, clean>>
      BY <2>6 DEF CacheValidatedToken
    <3>2. Caches(r, victim)
      BY <2>6, CachedEntry
    <3> QED
      BY <3>1, <3>2 DEF Caches, Finish
  <2>7. CASE Drop(r)
    BY <2>7 DEF Drop, Finish
  <2> QED
    BY <1>1, <2>1, <2>2, <2>3, <2>4, <2>5, <2>6, <2>7 DEF ValidateStep
<1>2. ASSUME NEW r \in Request, RevokeStep(r) PROVE TypeOK'
  <2>1. ASSUME NEW a \in Actor, NEW t \in Token, NEW access \in BOOLEAN, BeginRevokeToken(r, a, t, access) PROVE TypeOK'
    BY <2>1 DEF BeginRevokeToken, Take
  <2>2. ASSUME NEW deleted \in BOOLEAN, DeleteFromRedis(r, deleted) PROVE TypeOK'
    BY <2>2 DEF DeleteFromRedis
  <2>3. CASE UpdateRow(r)
    BY SMTT(30), <2>3 DEF UpdateRow, Revoke, Goto, Finish
  <2>4. ASSUME NEW a \in Actor, NEW t \in Token, BeginRevokeTokenFamily(r, a, t) PROVE TypeOK'
    BY <2>4 DEF BeginRevokeTokenFamily, Take
  <2>5. CASE Cascade(r)
    BY <2>5 DEF Cascade, Revoke, Finish
  <2> HIDE DEF TypeOK, InFlight
  <2> QED
    BY <1>2, <2>1, <2>2, <2>3, <2>4, <2>5 DEF RevokeStep
<1>3. ASSUME NEW a \in Actor, NEW t \in Token, AnswerFromL1(a, t) PROVE TypeOK'
  BY <1>3 DEF AnswerFromL1
<1>4. ASSUME NEW t \in Token, AdminRevoke(t) PROVE TypeOK'
  BY <1>4 DEF AdminRevoke, Revoke
<1>5. CASE Tick
  BY <1>5 DEF Tick
<1>6. CASE UNCHANGED vars
  BY <1>6 DEF vars
<1> QED
  BY <1>1, <1>2, <1>3, <1>4, <1>5, <1>6 DEF Next

\* No message is in flight for longer than MaxLatency.
LEMMA InFlightStep == TypeOK /\ InFlight /\ [Next]_vars => InFlight'
<1> SUFFICES ASSUME TypeOK, InFlight, [Next]_vars PROVE InFlight'
  OBVIOUS
<1> USE DEF TypeOK, InFlight
<1>1. ASSUME NEW r \in Request, ValidateStep(r) PROVE InFlight'
  <2>1. ASSUME NEW a \in Actor, NEW t \in Token, BeginValidateToken(r, a, t) PROVE InFlight'
    BY <2>1 DEF BeginValidateToken, Take
  <2>2. CASE AnswerFromRedis(r)
    BY <2>2 DEF AnswerFromRedis, Goto
  <2>3. CASE MissRedis(r)
    BY <2>3 DEF MissRedis, Goto
  <2>4. CASE ReadRow(r)
    BY <2>4 DEF ReadRow, SeenUnrevoked, Goto, Finish
  <2>5. ASSUME NEW stored \in BOOLEAN, StoreInRedis(r, stored) PROVE InFlight'
    BY <2>5 DEF StoreInRedis, Goto
  <2>6. ASSUME NEW victim \in Token, CacheValidatedToken(r, victim) PROVE InFlight'
    BY <2>6 DEF CacheValidatedToken, Finish
  <2>7. CASE Drop(r)
    BY <2>7 DEF Drop, Finish
  <2> QED
    BY <1>1, <2>1, <2>2, <2>3, <2>4, <2>5, <2>6, <2>7 DEF ValidateStep
<1>2. ASSUME NEW r \in Request, RevokeStep(r) PROVE InFlight'
  <2>1. ASSUME NEW a \in Actor, NEW t \in Token, NEW access \in BOOLEAN, BeginRevokeToken(r, a, t, access) PROVE InFlight'
    BY <2>1 DEF BeginRevokeToken, Take
  <2>2. ASSUME NEW deleted \in BOOLEAN, DeleteFromRedis(r, deleted) PROVE InFlight'
    BY <2>2 DEF DeleteFromRedis
  <2>3. CASE UpdateRow(r)
    BY <2>3 DEF UpdateRow, Revoke, Goto, Finish
  <2>4. ASSUME NEW a \in Actor, NEW t \in Token, BeginRevokeTokenFamily(r, a, t) PROVE InFlight'
    BY <2>4 DEF BeginRevokeTokenFamily, Take
  <2>5. CASE Cascade(r)
    BY <2>5 DEF Cascade, Revoke, Finish
  <2> QED
    BY <1>2, <2>1, <2>2, <2>3, <2>4, <2>5 DEF RevokeStep
<1>3. ASSUME NEW a \in Actor, NEW t \in Token, AnswerFromL1(a, t) PROVE InFlight'
  BY <1>3 DEF AnswerFromL1
<1>4. ASSUME NEW t \in Token, AdminRevoke(t) PROVE InFlight'
  BY <1>4 DEF AdminRevoke, Revoke
<1>5. CASE Tick
  BY <1>5 DEF Tick
<1>6. CASE UNCHANGED vars
  BY <1>6 DEF vars
<1> QED
  BY <1>1, <1>2, <1>3, <1>4, <1>5, <1>6 DEF Next

\* Rows are revoked now, never in the future.
LEMMA InThePastStep == TypeOK /\ InThePast /\ [Next]_vars => InThePast'
<1> SUFFICES ASSUME TypeOK, InThePast, [Next]_vars PROVE InThePast'
  OBVIOUS
<1> USE DEF TypeOK, InThePast
<1>1. ASSUME NEW r \in Request, ValidateStep(r) PROVE InThePast'
  <2>1. ASSUME NEW a \in Actor, NEW t \in Token, BeginValidateToken(r, a, t) PROVE InThePast'
    BY <2>1 DEF BeginValidateToken, Take
  <2>2. CASE AnswerFromRedis(r)
    BY <2>2 DEF AnswerFromRedis, Goto
  <2>3. CASE MissRedis(r)
    BY <2>3 DEF MissRedis, Goto
  <2>4. CASE ReadRow(r)
    BY <2>4 DEF ReadRow, SeenUnrevoked, Goto, Finish
  <2>5. ASSUME NEW stored \in BOOLEAN, StoreInRedis(r, stored) PROVE InThePast'
    BY <2>5 DEF StoreInRedis, Goto
  <2>6. ASSUME NEW victim \in Token, CacheValidatedToken(r, victim) PROVE InThePast'
    BY <2>6 DEF CacheValidatedToken, Finish
  <2>7. CASE Drop(r)
    BY <2>7 DEF Drop, Finish
  <2> QED
    BY <1>1, <2>1, <2>2, <2>3, <2>4, <2>5, <2>6, <2>7 DEF ValidateStep
<1>2. ASSUME NEW r \in Request, RevokeStep(r) PROVE InThePast'
  <2>1. ASSUME NEW a \in Actor, NEW t \in Token, NEW access \in BOOLEAN, BeginRevokeToken(r, a, t, access) PROVE InThePast'
    BY <2>1 DEF BeginRevokeToken, Take
  <2>2. ASSUME NEW deleted \in BOOLEAN, DeleteFromRedis(r, deleted) PROVE InThePast'
    BY <2>2 DEF DeleteFromRedis
  <2>3. CASE UpdateRow(r)
    BY <2>3 DEF UpdateRow, Revoke, Goto, Finish
  <2>4. ASSUME NEW a \in Actor, NEW t \in Token, BeginRevokeTokenFamily(r, a, t) PROVE InThePast'
    BY <2>4 DEF BeginRevokeTokenFamily, Take
  <2>5. CASE Cascade(r)
    BY <2>5 DEF Cascade, Revoke, Finish
  <2> QED
    BY <1>2, <2>1, <2>2, <2>3, <2>4, <2>5 DEF RevokeStep
<1>3. ASSUME NEW a \in Actor, NEW t \in Token, AnswerFromL1(a, t) PROVE InThePast'
  BY <1>3 DEF AnswerFromL1
<1>4. ASSUME NEW t \in Token, AdminRevoke(t) PROVE InThePast'
  BY <1>4 DEF AdminRevoke, Revoke
<1>5. CASE Tick
  BY <1>5 DEF Tick
<1>6. CASE UNCHANGED vars
  BY <1>6 DEF vars
<1> QED
  BY <1>1, <1>2, <1>3, <1>4, <1>5, <1>6 DEF Next

\* Every insertion counts for a TTL, and time only shortens what is left.
LEMMA FreshStep == TypeOK /\ InFlight /\ Fresh /\ [Next]_vars => Fresh'
<1> SUFFICES ASSUME TypeOK, InFlight, Fresh, [Next]_vars PROVE Fresh'
  OBVIOUS
<1> USE DEF TypeOK, InFlight, Fresh
<1>1. ASSUME NEW r \in Request, ValidateStep(r) PROVE Fresh'
  <2>1. ASSUME NEW a \in Actor, NEW t \in Token, BeginValidateToken(r, a, t) PROVE Fresh'
    BY <2>1 DEF BeginValidateToken, Take
  <2>2. CASE AnswerFromRedis(r)
    BY <2>2 DEF AnswerFromRedis, Goto
  <2>3. CASE MissRedis(r)
    BY <2>3 DEF MissRedis, Goto
  <2>4. CASE ReadRow(r)
    BY <2>4 DEF ReadRow, SeenUnrevoked, Goto, Finish
  <2>5. ASSUME NEW stored \in BOOLEAN, StoreInRedis(r, stored) PROVE Fresh'
    BY <2>5 DEF StoreInRedis, Goto
  <2>6. ASSUME NEW victim \in Token, CacheValidatedToken(r, victim) PROVE Fresh'
    <3>1. Finish(r) /\ pc[r] = "deliver" /\ UNCHANGED <<now, l2Until, table, done, clean>>
      BY <2>6 DEF CacheValidatedToken
    <3>2. Caches(r, victim)
      BY <2>6, CachedEntry
    <3> QED
      BY <3>1, <3>2 DEF Caches, Finish
  <2>7. CASE Drop(r)
    BY <2>7 DEF Drop, Finish
  <2> QED
    BY <1>1, <2>1, <2>2, <2>3, <2>4, <2>5, <2>6, <2>7 DEF ValidateStep
<1>2. ASSUME NEW r \in Request, RevokeStep(r) PROVE Fresh'
  <2>1. ASSUME NEW a \in Actor, NEW t \in Token, NEW access \in BOOLEAN, BeginRevokeToken(r, a, t, access) PROVE Fresh'
    BY <2>1 DEF BeginRevokeToken, Take
  <2>2. ASSUME NEW deleted \in BOOLEAN, DeleteFromRedis(r, deleted) PROVE Fresh'
    BY <2>2 DEF DeleteFromRedis
  <2>3. CASE UpdateRow(r)
    BY <2>3 DEF UpdateRow, Revoke, Goto, Finish
  <2>4. ASSUME NEW a \in Actor, NEW t \in Token, BeginRevokeTokenFamily(r, a, t) PROVE Fresh'
    BY <2>4 DEF BeginRevokeTokenFamily, Take
  <2>5. CASE Cascade(r)
    BY <2>5 DEF Cascade, Revoke, Finish
  <2> QED
    BY <1>2, <2>1, <2>2, <2>3, <2>4, <2>5 DEF RevokeStep
<1>3. ASSUME NEW a \in Actor, NEW t \in Token, AnswerFromL1(a, t) PROVE Fresh'
  BY <1>3 DEF AnswerFromL1
<1>4. ASSUME NEW t \in Token, AdminRevoke(t) PROVE Fresh'
  BY <1>4 DEF AdminRevoke, Revoke
<1>5. CASE Tick
  BY <1>5 DEF Tick
<1>6. CASE UNCHANGED vars
  BY <1>6 DEF vars
<1> QED
  BY <1>1, <1>2, <1>3, <1>4, <1>5, <1>6 DEF Next

\* A row on its way to Redis was read before its token was revoked.
LEMMA StoresDecayStep == TypeOK /\ InFlight /\ InThePast /\ StoresDecay /\ [Next]_vars => StoresDecay'
<1> SUFFICES ASSUME TypeOK, InFlight, InThePast, StoresDecay, [Next]_vars PROVE StoresDecay'
  OBVIOUS
<1> USE DEF TypeOK, InFlight, InThePast, StoresDecay
<1>1. ASSUME NEW r \in Request, ValidateStep(r) PROVE StoresDecay'
  <2>1. ASSUME NEW a \in Actor, NEW t \in Token, BeginValidateToken(r, a, t) PROVE StoresDecay'
    BY <2>1 DEF BeginValidateToken, Take
  <2>2. CASE AnswerFromRedis(r)
    BY <2>2 DEF AnswerFromRedis, Goto
  <2>3. CASE MissRedis(r)
    BY <2>3 DEF MissRedis, Goto
  <2>4. CASE ReadRow(r)
    BY <2>4 DEF ReadRow, SeenUnrevoked, Goto, Finish
  <2>5. ASSUME NEW stored \in BOOLEAN, StoreInRedis(r, stored) PROVE StoresDecay'
    BY <2>5 DEF StoreInRedis, Goto
  <2>6. ASSUME NEW victim \in Token, CacheValidatedToken(r, victim) PROVE StoresDecay'
    <3>1. Finish(r) /\ pc[r] = "deliver" /\ UNCHANGED <<now, l2Until, table, done, clean>>
      BY <2>6 DEF CacheValidatedToken
    <3>2. Caches(r, victim)
      BY <2>6, CachedEntry
    <3> QED
      BY <3>1, <3>2 DEF Caches, Finish
  <2>7. CASE Drop(r)
    BY <2>7 DEF Drop, Finish
  <2> QED
    BY <1>1, <2>1, <2>2, <2>3, <2>4, <2>5, <2>6, <2>7 DEF ValidateStep
<1>2. ASSUME NEW r \in Request, RevokeStep(r) PROVE StoresDecay'
  <2>1. ASSUME NEW a \in Actor, NEW t \in Token, NEW access \in BOOLEAN, BeginRevokeToken(r, a, t, access) PROVE StoresDecay'
    BY <2>1 DEF BeginRevokeToken, Take
  <2>2. ASSUME NEW deleted \in BOOLEAN, DeleteFromRedis(r, deleted) PROVE StoresDecay'
    BY <2>2 DEF DeleteFromRedis
  <2>3. CASE UpdateRow(r)
    BY <2>3 DEF UpdateRow, Revoke, Goto, Finish
  <2>4. ASSUME NEW a \in Actor, NEW t \in Token, BeginRevokeTokenFamily(r, a, t) PROVE StoresDecay'
    BY <2>4 DEF BeginRevokeTokenFamily, Take
  <2>5. CASE Cascade(r)
    BY <2>5 DEF Cascade, Revoke, Finish
  <2> QED
    BY <1>2, <2>1, <2>2, <2>3, <2>4, <2>5 DEF RevokeStep
<1>3. ASSUME NEW a \in Actor, NEW t \in Token, AnswerFromL1(a, t) PROVE StoresDecay'
  BY <1>3 DEF AnswerFromL1
<1>4. ASSUME NEW t \in Token, AdminRevoke(t) PROVE StoresDecay'
  BY <1>4 DEF AdminRevoke, Revoke
<1>5. CASE Tick
  BY <1>5 DEF Tick
<1>6. CASE UNCHANGED vars
  BY <1>6 DEF vars
<1> QED
  BY <1>1, <1>2, <1>3, <1>4, <1>5, <1>6 DEF Next

\* Redis receives a revoked token only from a message that began before.
LEMMA L2DecaysStep == TypeOK /\ InFlight /\ InThePast /\ Fresh /\ StoresDecay /\ L2Decays /\ [Next]_vars => L2Decays'
<1> SUFFICES ASSUME TypeOK, InFlight, InThePast, Fresh, StoresDecay, L2Decays, [Next]_vars PROVE L2Decays'
  OBVIOUS
<1> USE DEF TypeOK, InFlight, InThePast, Fresh, StoresDecay, L2Decays
<1>1. ASSUME NEW r \in Request, ValidateStep(r) PROVE L2Decays'
  <2>1. ASSUME NEW a \in Actor, NEW t \in Token, BeginValidateToken(r, a, t) PROVE L2Decays'
    BY <2>1 DEF BeginValidateToken, Take
  <2>2. CASE AnswerFromRedis(r)
    BY <2>2 DEF AnswerFromRedis, Goto
  <2>3. CASE MissRedis(r)
    BY <2>3 DEF MissRedis, Goto
  <2>4. CASE ReadRow(r)
    BY <2>4 DEF ReadRow, SeenUnrevoked, Goto, Finish
  <2>5. ASSUME NEW stored \in BOOLEAN, StoreInRedis(r, stored) PROVE L2Decays'
    BY <2>5 DEF StoreInRedis, Goto
  <2>6. ASSUME NEW victim \in Token, CacheValidatedToken(r, victim) PROVE L2Decays'
    <3>1. Finish(r) /\ pc[r] = "deliver" /\ UNCHANGED <<now, l2Until, table, done, clean>>
      BY <2>6 DEF CacheValidatedToken
    <3>2. Caches(r, victim)
      BY <2>6, CachedEntry
    <3> QED
      BY <3>1, <3>2 DEF Caches, Finish
  <2>7. CASE Drop(r)
    BY <2>7 DEF Drop, Finish
  <2> QED
    BY <1>1, <2>1, <2>2, <2>3, <2>4, <2>5, <2>6, <2>7 DEF ValidateStep
<1>2. ASSUME NEW r \in Request, RevokeStep(r) PROVE L2Decays'
  <2>1. ASSUME NEW a \in Actor, NEW t \in Token, NEW access \in BOOLEAN, BeginRevokeToken(r, a, t, access) PROVE L2Decays'
    BY <2>1 DEF BeginRevokeToken, Take
  <2>2. ASSUME NEW deleted \in BOOLEAN, DeleteFromRedis(r, deleted) PROVE L2Decays'
    BY <2>2 DEF DeleteFromRedis
  <2>3. CASE UpdateRow(r)
    BY <2>3 DEF UpdateRow, Revoke, Goto, Finish
  <2>4. ASSUME NEW a \in Actor, NEW t \in Token, BeginRevokeTokenFamily(r, a, t) PROVE L2Decays'
    BY <2>4 DEF BeginRevokeTokenFamily, Take
  <2>5. CASE Cascade(r)
    BY <2>5 DEF Cascade, Revoke, Finish
  <2> QED
    BY <1>2, <2>1, <2>2, <2>3, <2>4, <2>5 DEF RevokeStep
<1>3. ASSUME NEW a \in Actor, NEW t \in Token, AnswerFromL1(a, t) PROVE L2Decays'
  BY <1>3 DEF AnswerFromL1
<1>4. ASSUME NEW t \in Token, AdminRevoke(t) PROVE L2Decays'
  BY <1>4 DEF AdminRevoke, Revoke
<1>5. CASE Tick
  BY <1>5 DEF Tick
<1>6. CASE UNCHANGED vars
  BY <1>6 DEF vars
<1> QED
  BY <1>1, <1>2, <1>3, <1>4, <1>5, <1>6 DEF Next

\* A delivery carries what it read from the table before the revocation or from
\* Redis while the entry counted.
LEMMA DeliveriesDecayStep == TypeOK /\ InFlight /\ InThePast /\ L2Decays /\ StoresDecay /\ DeliveriesDecay /\ [Next]_vars => DeliveriesDecay'
<1> SUFFICES ASSUME TypeOK, InFlight, InThePast, L2Decays, StoresDecay, DeliveriesDecay, [Next]_vars PROVE DeliveriesDecay'
  OBVIOUS
<1> USE DEF TypeOK, InFlight, InThePast, L2Decays, StoresDecay, DeliveriesDecay
<1>1. ASSUME NEW r \in Request, ValidateStep(r) PROVE DeliveriesDecay'
  <2>1. ASSUME NEW a \in Actor, NEW t \in Token, BeginValidateToken(r, a, t) PROVE DeliveriesDecay'
    BY <2>1 DEF BeginValidateToken, Take
  <2>2. CASE AnswerFromRedis(r)
    BY <2>2 DEF AnswerFromRedis, Goto, L2Hit
  <2>3. CASE MissRedis(r)
    BY <2>3 DEF MissRedis, Goto
  <2>4. CASE ReadRow(r)
    BY <2>4 DEF ReadRow, SeenUnrevoked, Goto, Finish
  <2>5. ASSUME NEW stored \in BOOLEAN, StoreInRedis(r, stored) PROVE DeliveriesDecay'
    BY <2>5 DEF StoreInRedis, Goto
  <2>6. ASSUME NEW victim \in Token, CacheValidatedToken(r, victim) PROVE DeliveriesDecay'
    <3>1. Finish(r) /\ pc[r] = "deliver" /\ UNCHANGED <<now, l2Until, table, done, clean>>
      BY <2>6 DEF CacheValidatedToken
    <3>2. Caches(r, victim)
      BY <2>6, CachedEntry
    <3> QED
      BY <3>1, <3>2 DEF Caches, Finish
  <2>7. CASE Drop(r)
    BY <2>7 DEF Drop, Finish
  <2> QED
    BY <1>1, <2>1, <2>2, <2>3, <2>4, <2>5, <2>6, <2>7 DEF ValidateStep
<1>2. ASSUME NEW r \in Request, RevokeStep(r) PROVE DeliveriesDecay'
  <2>1. ASSUME NEW a \in Actor, NEW t \in Token, NEW access \in BOOLEAN, BeginRevokeToken(r, a, t, access) PROVE DeliveriesDecay'
    BY <2>1 DEF BeginRevokeToken, Take
  <2>2. ASSUME NEW deleted \in BOOLEAN, DeleteFromRedis(r, deleted) PROVE DeliveriesDecay'
    BY <2>2 DEF DeleteFromRedis
  <2>3. CASE UpdateRow(r)
    BY <2>3 DEF UpdateRow, Revoke, Goto, Finish
  <2>4. ASSUME NEW a \in Actor, NEW t \in Token, BeginRevokeTokenFamily(r, a, t) PROVE DeliveriesDecay'
    BY <2>4 DEF BeginRevokeTokenFamily, Take
  <2>5. CASE Cascade(r)
    BY <2>5 DEF Cascade, Revoke, Finish
  <2> QED
    BY <1>2, <2>1, <2>2, <2>3, <2>4, <2>5 DEF RevokeStep
<1>3. ASSUME NEW a \in Actor, NEW t \in Token, AnswerFromL1(a, t) PROVE DeliveriesDecay'
  BY <1>3 DEF AnswerFromL1
<1>4. ASSUME NEW t \in Token, AdminRevoke(t) PROVE DeliveriesDecay'
  BY <1>4 DEF AdminRevoke, Revoke
<1>5. CASE Tick
  BY <1>5 DEF Tick
<1>6. CASE UNCHANGED vars
  BY <1>6 DEF vars
<1> QED
  BY <1>1, <1>2, <1>3, <1>4, <1>5, <1>6 DEF Next

\* An L1 receives a revoked token only from such a delivery, within its latency.
LEMMA L1DecaysStep == TypeOK /\ InFlight /\ InThePast /\ Fresh /\ DeliveriesDecay /\ L1Decays /\ [Next]_vars => L1Decays'
<1> SUFFICES ASSUME TypeOK, InFlight, InThePast, Fresh, DeliveriesDecay, L1Decays, [Next]_vars PROVE L1Decays'
  OBVIOUS
<1> USE DEF TypeOK, InFlight, InThePast, Fresh, DeliveriesDecay, L1Decays
<1>1. ASSUME NEW r \in Request, ValidateStep(r) PROVE L1Decays'
  <2>1. ASSUME NEW a \in Actor, NEW t \in Token, BeginValidateToken(r, a, t) PROVE L1Decays'
    BY <2>1 DEF BeginValidateToken, Take
  <2>2. CASE AnswerFromRedis(r)
    BY <2>2 DEF AnswerFromRedis, Goto
  <2>3. CASE MissRedis(r)
    BY <2>3 DEF MissRedis, Goto
  <2>4. CASE ReadRow(r)
    BY <2>4 DEF ReadRow, SeenUnrevoked, Goto, Finish
  <2>5. ASSUME NEW stored \in BOOLEAN, StoreInRedis(r, stored) PROVE L1Decays'
    BY <2>5 DEF StoreInRedis, Goto
  <2>6. ASSUME NEW victim \in Token, CacheValidatedToken(r, victim) PROVE L1Decays'
    <3>1. Finish(r) /\ pc[r] = "deliver" /\ UNCHANGED <<now, l2Until, table, done, clean>>
      BY <2>6 DEF CacheValidatedToken
    <3>2. Caches(r, victim)
      BY <2>6, CachedEntry
    <3> QED
      BY <3>1, <3>2 DEF Caches, Finish
  <2>7. CASE Drop(r)
    BY <2>7 DEF Drop, Finish
  <2> QED
    BY <1>1, <2>1, <2>2, <2>3, <2>4, <2>5, <2>6, <2>7 DEF ValidateStep
<1>2. ASSUME NEW r \in Request, RevokeStep(r) PROVE L1Decays'
  <2>1. ASSUME NEW a \in Actor, NEW t \in Token, NEW access \in BOOLEAN, BeginRevokeToken(r, a, t, access) PROVE L1Decays'
    BY <2>1 DEF BeginRevokeToken, Take
  <2>2. ASSUME NEW deleted \in BOOLEAN, DeleteFromRedis(r, deleted) PROVE L1Decays'
    BY <2>2 DEF DeleteFromRedis
  <2>3. CASE UpdateRow(r)
    BY <2>3 DEF UpdateRow, Revoke, Goto, Finish
  <2>4. ASSUME NEW a \in Actor, NEW t \in Token, BeginRevokeTokenFamily(r, a, t) PROVE L1Decays'
    BY <2>4 DEF BeginRevokeTokenFamily, Take
  <2>5. CASE Cascade(r)
    BY <2>5 DEF Cascade, Revoke, Finish
  <2> QED
    BY <1>2, <2>1, <2>2, <2>3, <2>4, <2>5 DEF RevokeStep
<1>3. ASSUME NEW a \in Actor, NEW t \in Token, AnswerFromL1(a, t) PROVE L1Decays'
  BY <1>3 DEF AnswerFromL1
<1>4. ASSUME NEW t \in Token, AdminRevoke(t) PROVE L1Decays'
  BY <1>4 DEF AdminRevoke, Revoke
<1>5. CASE Tick
  BY <1>5 DEF Tick
<1>6. CASE UNCHANGED vars
  BY <1>6 DEF vars
<1> QED
  BY <1>1, <1>2, <1>3, <1>4, <1>5, <1>6 DEF Next

\* Nothing refills what an unoverlapped revocation cleared: a validation that
\* begins marks it overlapped.
LEMMA EvictionsHoldStep == TypeOK /\ InFlight /\ EvictionsHold /\ [Next]_vars => EvictionsHold'
<1> SUFFICES ASSUME TypeOK, InFlight, EvictionsHold, [Next]_vars PROVE EvictionsHold'
  OBVIOUS
<1> USE DEF TypeOK, InFlight, EvictionsHold, Evicted
<1>1. ASSUME NEW r \in Request, ValidateStep(r) PROVE EvictionsHold'
  <2>1. ASSUME NEW a \in Actor, NEW t \in Token, BeginValidateToken(r, a, t) PROVE EvictionsHold'
    BY <2>1 DEF BeginValidateToken, Take
  <2>2. CASE AnswerFromRedis(r)
    BY <2>2 DEF AnswerFromRedis, Goto
  <2>3. CASE MissRedis(r)
    BY <2>3 DEF MissRedis, Goto
  <2>4. CASE ReadRow(r)
    BY <2>4 DEF ReadRow, SeenUnrevoked, Goto, Finish
  <2>5. ASSUME NEW stored \in BOOLEAN, StoreInRedis(r, stored) PROVE EvictionsHold'
    BY <2>5 DEF StoreInRedis, Goto
  <2>6. ASSUME NEW victim \in Token, CacheValidatedToken(r, victim) PROVE EvictionsHold'
    <3>1. Finish(r) /\ pc[r] = "deliver" /\ UNCHANGED <<now, l2Until, table, done, clean>>
      BY <2>6 DEF CacheValidatedToken
    <3>2. Caches(r, victim)
      BY <2>6, CachedEntry
    <3> QED
      BY <3>1, <3>2 DEF Caches, Finish
  <2>7. CASE Drop(r)
    BY <2>7 DEF Drop, Finish
  <2> QED
    BY <1>1, <2>1, <2>2, <2>3, <2>4, <2>5, <2>6, <2>7 DEF ValidateStep
<1>2. ASSUME NEW r \in Request, RevokeStep(r) PROVE EvictionsHold'
  <2>1. ASSUME NEW a \in Actor, NEW t \in Token, NEW access \in BOOLEAN, BeginRevokeToken(r, a, t, access) PROVE EvictionsHold'
    BY <2>1 DEF BeginRevokeToken, Take
  <2>2. ASSUME NEW deleted \in BOOLEAN, DeleteFromRedis(r, deleted) PROVE EvictionsHold'
    BY <2>2 DEF DeleteFromRedis
  <2>3. CASE UpdateRow(r)
    BY <2>3 DEF UpdateRow, Revoke, Goto, Finish
  <2>4. ASSUME NEW a \in Actor, NEW t \in Token, BeginRevokeTokenFamily(r, a, t) PROVE EvictionsHold'
    BY <2>4 DEF BeginRevokeTokenFamily, Take
  <2>5. CASE Cascade(r)
    BY <2>5 DEF Cascade, Revoke, Finish
  <2> QED
    BY <1>2, <2>1, <2>2, <2>3, <2>4, <2>5 DEF RevokeStep
<1>3. ASSUME NEW a \in Actor, NEW t \in Token, AnswerFromL1(a, t) PROVE EvictionsHold'
  BY <1>3 DEF AnswerFromL1
<1>4. ASSUME NEW t \in Token, AdminRevoke(t) PROVE EvictionsHold'
  BY <1>4 DEF AdminRevoke, Revoke
<1>5. CASE Tick
  BY <1>5 DEF Tick
<1>6. CASE UNCHANGED vars
  BY <1>6 DEF vars
<1> QED
  BY <1>1, <1>2, <1>3, <1>4, <1>5, <1>6 DEF Next

\* After a clean revocation the table refuses every later read.
LEMMA CleanHoldsStep == TypeOK /\ InFlight /\ InThePast /\ EvictionsHold /\ CleanHolds /\ [Next]_vars => CleanHolds'
<1> SUFFICES ASSUME TypeOK, InFlight, InThePast, EvictionsHold, CleanHolds, [Next]_vars PROVE CleanHolds'
  OBVIOUS
<1> USE DEF TypeOK, InFlight, CleanHolds, Carries
<1>1. ASSUME NEW r \in Request, ValidateStep(r) PROVE CleanHolds'
  <2>1. ASSUME NEW a \in Actor, NEW t \in Token, BeginValidateToken(r, a, t) PROVE CleanHolds'
    BY <2>1 DEF BeginValidateToken, Take
  <2>2. CASE AnswerFromRedis(r)
    BY <2>2 DEF AnswerFromRedis, Goto, L2Hit
  <2>3. CASE MissRedis(r)
    BY <2>3 DEF MissRedis, Goto
  <2>4. CASE ReadRow(r)
    <3>1. token[r] \in Token /\ pc[r] = "db"
      BY <2>4 DEF ReadRow
    <3>2. ReplicaLag = 0 /\ SeenUnrevoked(token[r]) => token[r] \notin revoked
      BY <3>1 DEF SeenUnrevoked, InThePast
    <3> QED
      BY <2>4, <3>1, <3>2 DEF ReadRow, Goto, Finish
  <2>5. ASSUME NEW stored \in BOOLEAN, StoreInRedis(r, stored) PROVE CleanHolds'
    BY <2>5 DEF StoreInRedis, Goto
  <2>6. ASSUME NEW victim \in Token, CacheValidatedToken(r, victim) PROVE CleanHolds'
    <3>1. Finish(r) /\ pc[r] = "deliver" /\ UNCHANGED <<now, l2Until, table, done, clean>>
      BY <2>6 DEF CacheValidatedToken
    <3>2. Caches(r, victim)
      BY <2>6, CachedEntry
    <3> QED
      BY <3>1, <3>2 DEF Caches, Finish
  <2>7. CASE Drop(r)
    BY <2>7 DEF Drop, Finish
  <2> QED
    BY <1>1, <2>1, <2>2, <2>3, <2>4, <2>5, <2>6, <2>7 DEF ValidateStep
<1>2. ASSUME NEW r \in Request, RevokeStep(r) PROVE CleanHolds'
  <2>1. ASSUME NEW a \in Actor, NEW t \in Token, NEW access \in BOOLEAN, BeginRevokeToken(r, a, t, access) PROVE CleanHolds'
    BY <2>1 DEF BeginRevokeToken, Take
  <2>2. ASSUME NEW deleted \in BOOLEAN, DeleteFromRedis(r, deleted) PROVE CleanHolds'
    BY <2>2 DEF DeleteFromRedis
  <2>3. CASE UpdateRow(r)
    BY <2>3 DEF UpdateRow, Revoke, Goto, Finish, EvictionsHold, Evicted
  <2>4. ASSUME NEW a \in Actor, NEW t \in Token, BeginRevokeTokenFamily(r, a, t) PROVE CleanHolds'
    BY <2>4 DEF BeginRevokeTokenFamily, Take
  <2>5. CASE Cascade(r)
    BY <2>5 DEF Cascade, Revoke, Finish
  <2> QED
    BY <1>2, <2>1, <2>2, <2>3, <2>4, <2>5 DEF RevokeStep
<1>3. ASSUME NEW a \in Actor, NEW t \in Token, AnswerFromL1(a, t) PROVE CleanHolds'
  BY <1>3 DEF AnswerFromL1
<1>4. ASSUME NEW t \in Token, AdminRevoke(t) PROVE CleanHolds'
  BY <1>4 DEF AdminRevoke, Revoke
<1>5. CASE Tick
  BY <1>5 DEF Tick
<1>6. CASE UNCHANGED vars
  BY <1>6 DEF vars
<1> QED
  BY <1>1, <1>2, <1>3, <1>4, <1>5, <1>6 DEF Next

-----------------------------------------------------------------------------
TimelyInv == TypeOK /\ InFlight /\ InThePast /\ Fresh
RevocationInv == TimelyInv /\ Decaying
CleanInv == TypeOK /\ InFlight /\ InThePast /\ EvictionsHold /\ CleanHolds

\* The caches, the tokens table and the messages in flight keep their shape, and
\* no entry of an L1 or of Redis is ever set further ahead than TTL.
THEOREM TypeCorrect == Spec => []TypeOK
<1>1. Init => TypeOK /\ InFlight
  BY DEF Init, TypeOK, InFlight
<1>2. TypeOK /\ InFlight /\ [Next]_vars => (TypeOK /\ InFlight)'
  BY TypeStep, InFlightStep
<1> QED
  BY <1>1, <1>2, PTL DEF Spec

\* The bounds that a revocation puts on every hop are inductive.
THEOREM RevocationBounds == Spec => []RevocationInv
<1>1. Init => RevocationInv
  BY DEF Init, RevocationInv, TimelyInv, TypeOK, InFlight, InThePast, Fresh,
         Decaying, StoresDecay, L2Decays, DeliveriesDecay, L1Decays
<1>2. RevocationInv /\ [Next]_vars => RevocationInv'
  BY TypeStep, InFlightStep, InThePastStep, FreshStep,
     StoresDecayStep, L2DecaysStep, DeliveriesDecayStep, L1DecaysStep
     DEF RevocationInv, TimelyInv, Decaying
<1> QED
  BY <1>1, <1>2, PTL DEF Spec

\* Whoever revokes a token, and whichever caches are evicted, every actor
\* refuses it at the latest ReplicaLag + 2 * (TTL + MaxLatency) after its row was revoked:
\* RevokeToken, RevokeTokenFamily and administration alike.
THEOREM RevocationReaches == Spec => []RevocationReachesCaches
<1>1. RevocationInv => RevocationReachesCaches
  <2> SUFFICES ASSUME RevocationInv, NEW t \in revoked, now + 1 >= revokedAt[t] + Window
               PROVE  /\ \A a \in Actor : ~L1Hit(a, t)
                      /\ ~L2Hit(t)
                      /\ \A r \in Request : ~Carries(r, t)
    BY DEF RevocationReachesCaches
  <2> USE DEF RevocationInv, TimelyInv, TypeOK, Decaying
  <2>1. t \in Token /\ Window = ReplicaLag + MaxLatency + TTL + MaxLatency + TTL
    BY DEF Window
  <2>2. \A a \in Actor : ~L1Hit(a, t)
    BY <2>1 DEF L1Decays, L1Hit
  <2>3. ~L2Hit(t)
    BY <2>1 DEF L2Decays, L2Hit
  <2>4. \A r \in Request : ~Carries(r, t)
    BY <2>1 DEF Carries, InFlight, StoresDecay, DeliveriesDecay
  <2> QED
    BY <2>2, <2>3, <2>4
<1> QED
  BY <1>1, RevocationBounds, PTL

\* A RevokeToken whose DEL succeeded and that no validation of its token
\* overlapped is final at once for the actor that handled it and for Redis,
\* where the read pool is the primary.
THEOREM CleanRevocation == Spec => []CleanRevocationSticks
<1>1. Init => CleanInv
  BY DEF Init, CleanInv, TypeOK, InFlight, InThePast, EvictionsHold, CleanHolds
<1>2. CleanInv /\ [Next]_vars => CleanInv'
  BY TypeStep, InFlightStep, InThePastStep, EvictionsHoldStep, CleanHoldsStep DEF CleanInv
<1>3. CleanInv => CleanRevocationSticks
  <2> SUFFICES ASSUME CleanInv, ReplicaLag = 0, NEW k \in clean
               PROVE  /\ ~L1Hit(k[1], k[2])
                      /\ ~L2Hit(k[2])
                      /\ \A r \in Request : ~Carries(r, k[2])
    BY DEF CleanRevocationSticks
  <2>1. k[1] \in Actor /\ k[2] \in Token /\ k = <<k[1], k[2]>>
    BY DEF CleanInv, TypeOK
  <2>2. /\ l1Until[<<k[1], k[2]>>] = 0
        /\ l2Until[k[2]] = 0
        /\ \A r \in Request : ~Carries(r, k[2])
    BY <2>1 DEF CleanInv, CleanHolds
  <2>3. now \in Nat
    BY DEF CleanInv, TypeOK
  <2> QED
    BY <2>2, <2>3 DEF L1Hit, L2Hit
<1> QED
  BY <1>1, <1>2, <1>3, PTL DEF Spec
=============================================================================
