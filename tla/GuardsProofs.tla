---------------------------- MODULE GuardsProofs ----------------------------
(***************************************************************************)
(* KeysServeTheirTime of KeySet, for every number of rotations, restarts   *)
(* and tokens and any grace; AnswersDue of Introspection, for every number *)
(* of requests, tokens and proofs; SlotsExact of Resilience, for every     *)
(* number of concurrent calls and any limits and thresholds; and           *)
(* EventsAccounted of EventPipeline, for every number of requests, keys    *)
(* and plugins.                                                            *)
(***************************************************************************)
EXTENDS KeySet, Introspection, Resilience, EventPipeline, SequenceTheorems, FiniteSetTheorems, TLAPS

-----------------------------------------------------------------------------
(* KeySet: what keeps a key and its tokens together *)

KeyRecord(top) ==
    [kid : Kid, algorithm : Algorithm, material : 0..(top - 1), current : BOOLEAN, expires : Nat]
TokenRecord(top) ==
    [kind : {"access", "txn", "id"}, kid : Kid, algorithm : Algorithm, material : 0..(top - 1), until : Nat]

\* No two keys have the same material, and exactly the current ones never expire.
\* The configured keys have their kid and algorithm; one that a conformance seed
\* has replaced is not current.
KeysOwn ==
    /\ \A k, l \in keys : k.material = l.material => k = l
    /\ \A k \in keys :
          /\ k.current <=> k.expires = Never
          /\ k.material = JwtSecret => k.kid = InitialKid("HS256") /\ k.algorithm = "HS256"
          /\ k.material = Pem =>
                /\ HasPem /\ k.kid = InitialKid("RS256") /\ k.algorithm = "RS256"
                /\ Conformance => ~k.current

Current(k, alg) == k.current /\ k.algorithm = alg

\* One current key of each algorithm that is held or configured.
OneCurrent ==
    \A alg \in Algorithm :
        /\ \A k, l \in keys : Current(k, alg) /\ Current(l, alg) => k = l
        /\ (alg = "HS256" \/ HasPem \/ \E k \in keys : k.algorithm = alg) => \E k \in keys : Current(k, alg)

\* The key k signed t and will be there as long as t must verify.
Holds(k, t) == k.kid = t.kid /\ Fits(k, t) /\ (k.expires = Never \/ t.until <= k.expires)

\* A token of this server that must verify has such a key, or was made with the
\* secret and names none; a conformance server signs nothing with the PEM.
Covered ==
    \A t \in tokens : t.kind # "id" =>
        /\ t.material = Pem => ~Conformance
        /\ clock < t.until =>
              \/ t.kid = NoKid /\ t.algorithm = "HS256" /\ t.material = JwtSecret
              \/ \E k \in keys : Holds(k, t)

\* A retired key that is still in the list expires no later than was asked for.
RetiredExpire == \A r \in retired, k \in keys : k.material = r.material => ~k.current /\ k.expires <= r.until

KeysInv == SigningTypeOK /\ KeysOwn /\ OneCurrent /\ Covered /\ RetiredExpire

\* Types, with the sets of records named.
LEMMA SigningTypes ==
    SigningTypeOK <=>
        /\ clock \in 2..MaxClock /\ fresh \in 3..(3 + MaxRotations)
        /\ keys \subseteq KeyRecord(fresh) /\ tokens \subseteq TokenRecord(fresh)
        /\ retired \subseteq [material : 0..(fresh - 1), until : Nat]
  BY DEF SigningTypeOK, KeyRecord, TokenRecord

\* Records of an earlier time are records of a later one.
LEMMA RecordsGrow ==
    ASSUME NEW top \in Nat
    PROVE  /\ KeyRecord(top) \subseteq KeyRecord(top + 1) /\ TokenRecord(top) \subseteq TokenRecord(top + 1)
           /\ [material : 0..(top - 1), until : Nat] \subseteq [material : 0..top, until : Nat]
<1>1. 0..(top - 1) \subseteq 0..top /\ (top + 1) - 1 = top
  OBVIOUS
<1> QED  BY <1>1 DEF KeyRecord, TokenRecord

\* A new key.
LEMMA KeyFields ==
    ASSUME NEW kid, NEW alg, NEW m
    PROVE  LET k == SigningKey(kid, alg, m)
           IN /\ k.kid = kid /\ k.algorithm = alg /\ k.material = m /\ k.current /\ k.expires = Never
              /\ \A top \in Nat : kid \in Kid /\ alg \in Algorithm /\ m \in 0..(top - 1) => k \in KeyRecord(top)
<1> DEFINE k == SigningKey(kid, alg, m)
<1>1. k.kid = kid /\ k.algorithm = alg /\ k.material = m /\ k.current /\ k.expires = Never
  BY DEF SigningKey
<1>2. ASSUME NEW top \in Nat, kid \in Kid, alg \in Algorithm, m \in 0..(top - 1) PROVE k \in KeyRecord(top)
  <2>1. Never \in Nat
    BY DEF Never
  <2> QED  BY <1>2, <2>1 DEF SigningKey, KeyRecord
<1> QED  BY <1>1, <1>2

Out(k, until) == [k EXCEPT !.current = FALSE, !.expires = until]

\* The key a rotation retires keeps all but its currency and its expiry.
LEMMA OutFields ==
    \A top \in Nat : \A k \in KeyRecord(top) : \A until \in Nat :
        /\ Out(k, until) \in KeyRecord(top) /\ Out(k, until).kid = k.kid
        /\ Out(k, until).algorithm = k.algorithm /\ Out(k, until).material = k.material
        /\ ~Out(k, until).current /\ Out(k, until).expires = until
  BY DEF Out, KeyRecord

\* Every key of a list after a rotation is the new one, a key that was retired or
\* one that was left alone, and all of these are there.
LEMMA RotatedKeys ==
    ASSUME NEW list, NEW key, NEW grace
    PROVE  /\ key \in Rotated(list, key, grace)
           /\ \A k \in list : IF Current(k, key.algorithm) THEN Out(k, clock + grace) \in Rotated(list, key, grace)
                              ELSE k \in Rotated(list, key, grace)
           /\ \A j \in Rotated(list, key, grace) :
                 \/ j = key
                 \/ \E k \in list : Current(k, key.algorithm) /\ j = Out(k, clock + grace)
                 \/ j \in list /\ ~Current(j, key.algorithm)
  BY DEF Rotated, Retire, Current, Out

-----------------------------------------------------------------------------
(* Start-up *)

\* What a process starts with.
LEMMA SeededFacts ==
    ASSUME NEW m \in Nat \ {0, 1}, clock \in Nat \ {0}
    PROVE  LET list == Seeded(m)
           IN /\ list \subseteq KeyRecord(m + 1)
              /\ \A k, l \in list : k.material = l.material => k = l
              /\ \A k \in list :
                    /\ k.current <=> k.expires = Never
                    /\ k.material = JwtSecret => k.kid = InitialKid("HS256") /\ k.algorithm = "HS256"
                    /\ k.material = Pem =>
                          /\ HasPem /\ k.kid = InitialKid("RS256") /\ k.algorithm = "RS256"
                          /\ Conformance => ~k.current
              /\ \A alg \in Algorithm :
                    /\ \A k, l \in list : Current(k, alg) /\ Current(l, alg) => k = l
                    /\ (alg = "HS256" \/ HasPem \/ \E k \in list : k.algorithm = alg)
                          => \E k \in list : Current(k, alg)
              /\ \E k \in list : /\ k.material = JwtSecret /\ k.kid = InitialKid("HS256")
                                 /\ k.algorithm = "HS256" /\ k.expires = Never
              /\ HasPem /\ ~Conformance =>
                    \E k \in list : /\ k.material = Pem /\ k.kid = InitialKid("RS256")
                                    /\ k.algorithm = "RS256" /\ k.expires = Never
<1> DEFINE hs == SigningKey(InitialKid("HS256"), "HS256", JwtSecret)
           rs == SigningKey(InitialKid("RS256"), "RS256", Pem)
           seed == SeedKey(m)
           list == Seeded(m)
           old == Out(rs, clock)
<1>1. /\ hs.kid = InitialKid("HS256") /\ hs.algorithm = "HS256" /\ hs.material = 0 /\ hs.current /\ hs.expires = Never
      /\ rs.kid = InitialKid("RS256") /\ rs.algorithm = "RS256" /\ rs.material = 1 /\ rs.current /\ rs.expires = Never
      /\ seed.algorithm = "RS256" /\ seed.material = m /\ seed.current /\ seed.expires = Never
  BY KeyFields DEF SeedKey, JwtSecret, Pem
<1>2. hs \in KeyRecord(m + 1) /\ rs \in KeyRecord(m + 1) /\ seed \in KeyRecord(m + 1)
  <2>1. InitialKid("HS256") \in Kid /\ InitialKid("RS256") \in Kid /\ SeedKid("RS256") \in Kid
    BY DEF InitialKid, SeedKid, Kid, Algorithm
  <2>2. 0 \in 0..((m + 1) - 1) /\ 1 \in 0..((m + 1) - 1) /\ m \in 0..((m + 1) - 1) /\ m + 1 \in Nat
    OBVIOUS
  <2> QED  BY <2>1, <2>2, KeyFields DEF SeedKey, JwtSecret, Pem, Algorithm
<1>3. /\ old \in KeyRecord(m + 1) /\ old.kid = rs.kid /\ old.algorithm = "RS256" /\ old.material = 1
      /\ ~old.current /\ old.expires = clock /\ clock # Never
  <2>1. m + 1 \in Nat /\ clock \in Nat /\ clock # Never
    BY DEF Never
  <2>2. rs \in KeyRecord(m + 1)
    BY <1>2
  <2>3. /\ old \in KeyRecord(m + 1) /\ old.kid = rs.kid /\ old.algorithm = rs.algorithm
        /\ old.material = rs.material /\ ~old.current /\ old.expires = clock
    <3> HIDE DEF rs
    <3> QED  BY <2>1, <2>2, OutFields
  <2> QED  BY <1>1, <2>1, <2>3
<1>4. list = CASE ~Conformance /\ ~HasPem -> {hs}
               [] ~Conformance /\ HasPem -> {hs, rs}
               [] Conformance /\ ~HasPem -> {hs, seed}
               [] Conformance /\ HasPem -> {hs, old, seed}
  <2>1. CASE ~Conformance
    BY <2>1, SigningAssumption DEF Seeded
  <2>2. CASE Conformance
    <3> DEFINE base == {hs} \cup (IF HasPem THEN {rs} ELSE {})
    <3>1. list = Retire(base, "RS256", clock + 0) \cup {seed}
      BY <1>1, <2>2 DEF Seeded, Install, Rotated
    <3>2. Retire({hs}, "RS256", clock) = {hs} /\ Retire({hs, rs}, "RS256", clock) = {hs, old}
      BY <1>1 DEF Retire, Out
    <3>3. clock + 0 = clock
      OBVIOUS
    <3> QED  BY <3>1, <3>2, <3>3, <2>2, SigningAssumption
  <2> QED  BY <2>1, <2>2
<1>5. list \subseteq {hs, rs, old, seed} /\ hs \in list /\ (rs \in list <=> HasPem /\ ~Conformance)
      /\ (seed \in list <=> Conformance) /\ (old \in list <=> HasPem /\ Conformance)
  <2>1. hs # rs /\ hs # seed /\ hs # old /\ rs # seed /\ rs # old /\ seed # old
    BY <1>1, <1>3
  <2> QED  BY <1>4, <2>1, SigningAssumption
<1>6. list \subseteq KeyRecord(m + 1)
  BY <1>2, <1>3, <1>5
<1>7. \A k, l \in list : k.material = l.material => k = l
  BY <1>1, <1>3, <1>5
<1>8. \A k \in list :
         /\ k.current <=> k.expires = Never
         /\ k.material = JwtSecret => k.kid = InitialKid("HS256") /\ k.algorithm = "HS256"
         /\ k.material = Pem =>
               /\ HasPem /\ k.kid = InitialKid("RS256") /\ k.algorithm = "RS256"
               /\ Conformance => ~k.current
  BY <1>1, <1>3, <1>5 DEF JwtSecret, Pem
<1>9. ASSUME NEW alg \in Algorithm
      PROVE  /\ \A k, l \in list : Current(k, alg) /\ Current(l, alg) => k = l
             /\ (alg = "HS256" \/ HasPem \/ \E k \in list : k.algorithm = alg)
                   => \E k \in list : Current(k, alg)
  BY <1>1, <1>3, <1>5, SigningAssumption DEF Current, Algorithm
<1>10. /\ \E k \in list : /\ k.material = JwtSecret /\ k.kid = InitialKid("HS256")
                          /\ k.algorithm = "HS256" /\ k.expires = Never
       /\ HasPem /\ ~Conformance =>
             \E k \in list : /\ k.material = Pem /\ k.kid = InitialKid("RS256")
                             /\ k.algorithm = "RS256" /\ k.expires = Never
  BY <1>1, <1>5 DEF JwtSecret, Pem
<1> HIDE DEF hs, rs, seed, old, list
<1> QED  BY <1>6, <1>7, <1>8, <1>9, <1>10 DEF list

\* The state a process starts in.
LEMMA KeysInvInit == SigningInit => KeysInv
<1> SUFFICES ASSUME SigningInit PROVE KeysInv
  OBVIOUS
<1>1. clock = 2 /\ fresh = 3 /\ keys = Seeded(2) /\ tokens = {} /\ retired = {}
  BY DEF SigningInit
<1>2. keys \subseteq KeyRecord(3) /\ KeysOwn /\ OneCurrent
  BY <1>1, SeededFacts, 2 + 1 = 3 DEF KeysOwn, OneCurrent
<1>3. SigningTypeOK
  BY <1>1, <1>2, SigningAssumption, SigningTypes
<1> QED  BY <1>1, <1>2, <1>3 DEF KeysInv, Covered, RetiredExpire

\* A restart: what the configured keys signed is covered by them again, and
\* nothing else need be.
LEMMA RestartKeeps == ASSUME KeysInv, RestartServer PROVE KeysInv'
<1> DEFINE Image(t) == [t EXCEPT !.until = IF t.material \in {JwtSecret, Pem} THEN @ ELSE clock]
<1>1. /\ clock \in Nat \ {0} /\ fresh \in Nat \ {0, 1} /\ fresh \in 3..(3 + MaxRotations)
      /\ keys \subseteq KeyRecord(fresh) /\ tokens \subseteq TokenRecord(fresh)
      /\ clock \in 2..MaxClock
  BY SigningTypes, SigningAssumption DEF KeysInv
<1>2. keys' = Seeded(fresh) /\ fresh' = fresh + 1 /\ retired' = {} /\ clock' = clock
      /\ fresh < 3 + MaxRotations /\ tokens' = {Image(t) : t \in tokens}
  BY DEF RestartServer
<1>3. \A t \in TokenRecord(fresh) :
         /\ Image(t) \in TokenRecord(fresh + 1) /\ Image(t).kind = t.kind /\ Image(t).kid = t.kid
         /\ Image(t).algorithm = t.algorithm /\ Image(t).material = t.material
         /\ Image(t).until = IF t.material \in {JwtSecret, Pem} THEN t.until ELSE clock
  <2>1. \A t \in TokenRecord(fresh) : Image(t) \in TokenRecord(fresh)
    BY <1>1 DEF TokenRecord
  <2>2. \A t \in TokenRecord(fresh) :
           /\ Image(t).kind = t.kind /\ Image(t).kid = t.kid
           /\ Image(t).algorithm = t.algorithm /\ Image(t).material = t.material
           /\ Image(t).until = IF t.material \in {JwtSecret, Pem} THEN t.until ELSE clock
    BY DEF TokenRecord
  <2> QED  BY <2>1, <2>2, <1>1, RecordsGrow
<1> HIDE DEF Image
<1>4. keys' \subseteq KeyRecord(fresh + 1) /\ KeysOwn' /\ OneCurrent'
  BY <1>1, <1>2, SeededFacts DEF KeysOwn, OneCurrent
<1>5. SigningTypeOK'
  <2>1. tokens' \subseteq TokenRecord(fresh + 1) /\ fresh + 1 \in 3..(3 + MaxRotations)
    BY <1>1, <1>2, <1>3, SigningAssumption
  <2> QED  BY <1>1, <1>2, <1>4, <2>1 DEF SigningTypeOK, KeyRecord, TokenRecord
<1>6. Covered'
  <2> SUFFICES ASSUME NEW s \in tokens', s.kind # "id"
               PROVE  /\ s.material = Pem => ~Conformance
                      /\ clock < s.until =>
                            \/ s.kid = NoKid /\ s.algorithm = "HS256" /\ s.material = JwtSecret
                            \/ \E k \in keys' : Holds(k, s)
    BY <1>2 DEF Covered
  <2>1. PICK t \in tokens : s = Image(t)
    BY <1>2
  <2>2. /\ s.kind = t.kind /\ s.kid = t.kid /\ s.algorithm = t.algorithm /\ s.material = t.material
        /\ s.until = IF t.material \in {JwtSecret, Pem} THEN t.until ELSE clock
    BY <1>1, <1>3, <2>1
  <2>3. s.material = Pem => ~Conformance
    BY <2>2 DEF KeysInv, Covered
  <2>4. CASE clock < s.until /\ ~(s.kid = NoKid /\ s.algorithm = "HS256" /\ s.material = JwtSecret)
    <3>1. t.material \in {JwtSecret, Pem} /\ clock < t.until
      BY <1>1, <2>2, <2>4
    <3>2. PICK k \in keys : Holds(k, t)
      BY <2>2, <2>4, <3>1 DEF KeysInv, Covered
    <3>3. CASE t.material = JwtSecret
      <4>1. t.kid = InitialKid("HS256") /\ t.algorithm = "HS256"
        BY <3>2, <3>3 DEF KeysInv, KeysOwn, Holds, Fits
      <4>2. PICK j \in keys' : /\ j.material = JwtSecret /\ j.kid = InitialKid("HS256")
                               /\ j.algorithm = "HS256" /\ j.expires = Never
        BY <1>1, <1>2, SeededFacts
      <4> QED  BY <2>2, <2>3, <3>3, <4>1, <4>2 DEF Holds, Fits
    <3>4. CASE t.material = Pem
      <4>1. t.kid = InitialKid("RS256") /\ t.algorithm = "RS256" /\ HasPem /\ ~Conformance
        BY <2>2, <2>3, <3>2, <3>4 DEF KeysInv, KeysOwn, Holds, Fits
      <4>2. PICK j \in keys' : /\ j.material = Pem /\ j.kid = InitialKid("RS256")
                               /\ j.algorithm = "RS256" /\ j.expires = Never
        BY <1>1, <1>2, <4>1, SeededFacts
      <4> QED  BY <2>2, <2>3, <3>4, <4>1, <4>2 DEF Holds, Fits
    <3> QED  BY <3>1, <3>3, <3>4
  <2> QED  BY <2>3, <2>4
<1>7. RetiredExpire'
  BY <1>2 DEF RetiredExpire
<1> QED  BY <1>4, <1>5, <1>6, <1>7 DEF KeysInv

\* A rotation.  The keys after it, one by one.
LEMMA RotationKeys ==
    ASSUME KeysInv, NEW alg \in Algorithm, NEW hours \in Nat, RotateKey(alg, hours)
    PROVE  LET key == SigningKey(<<alg, clock>>, alg, fresh)
               end == clock + Granted(hours)
           IN /\ key \in keys'
              /\ \A k \in keys : Current(k, alg) /\ clock < end => Out(k, end) \in keys'
              /\ \A k \in keys : ~Current(k, alg) /\ IsActive(k) => k \in keys'
              /\ \A j \in keys' :
                    \/ j = key
                    \/ \E k \in keys : Current(k, alg) /\ j = Out(k, end)
                    \/ j \in keys /\ ~Current(j, alg)
<1> DEFINE key == SigningKey(<<alg, clock>>, alg, fresh)
           grace == Granted(hours)
           end == clock + grace
           list == Rotated(keys, key, grace)
<1>1. keys' = {k \in list : IsActive(k)}
  BY DEF RotateKey, Pruned
<1>2. key.algorithm = alg /\ key.expires = Never
  BY KeyFields
<1>3. /\ key \in list
      /\ \A k \in keys : IF Current(k, alg) THEN Out(k, end) \in list ELSE k \in list
      /\ \A j \in list : \/ j = key
                         \/ \E k \in keys : Current(k, alg) /\ j = Out(k, end)
                         \/ j \in keys /\ ~Current(j, alg)
  <2>1. /\ key \in list
        /\ \A k \in keys : IF Current(k, key.algorithm) THEN Out(k, clock + grace) \in list ELSE k \in list
        /\ \A j \in list : \/ j = key
                           \/ \E k \in keys : Current(k, key.algorithm) /\ j = Out(k, clock + grace)
                           \/ j \in keys /\ ~Current(j, key.algorithm)
    <3> HIDE DEF key, grace
    <3> QED  BY RotatedKeys
  <2> QED  BY <1>2, <2>1
<1>4. \A k \in keys : clock < end => IsActive(Out(k, end))
  <2>1. fresh \in Nat /\ end \in Nat /\ keys \subseteq KeyRecord(fresh)
    BY SigningTypes, SigningAssumption DEF KeysInv, Granted
  <2> QED  BY <2>1, OutFields DEF IsActive
<1>5. IsActive(key)
  BY <1>2 DEF IsActive
<1> HIDE DEF key, end, list
<1> QED  BY <1>1, <1>3, <1>4, <1>5 DEF key, end

\* A rotation gives the retired key the grace that its tokens keep.
LEMMA RotationKeeps ==
    ASSUME KeysInv, NEW alg \in Algorithm, NEW hours \in Nat, RotateKey(alg, hours) PROVE KeysInv'
<1> DEFINE key == SigningKey(<<alg, clock>>, alg, fresh)
           end == clock + Granted(hours)
           Touched(t) == \E k \in keys : Current(k, alg) /\ k.material = t.material /\ end < t.until
           Image(t) == IF Touched(t) THEN [t EXCEPT !.until = end] ELSE t
<1>1. /\ clock \in 2..MaxClock /\ clock \in Nat /\ fresh \in Nat /\ fresh \in 3..(3 + MaxRotations)
      /\ keys \subseteq KeyRecord(fresh) /\ tokens \subseteq TokenRecord(fresh)
      /\ retired \subseteq [material : 0..(fresh - 1), until : Nat]
      /\ end \in Nat /\ clock <= end /\ end <= clock + hours /\ end # Never
  BY SigningTypes, SigningAssumption DEF KeysInv, Granted, Never
<1>2. /\ fresh' = fresh + 1 /\ clock' = clock /\ fresh < 3 + MaxRotations
      /\ tokens' = {Image(t) : t \in tokens}
      /\ retired' = retired \cup {[material |-> k.material, until |-> clock + hours] :
                                    k \in {k \in keys : k.current /\ k.algorithm = alg}}
  <2>1. \A t : Touched(t) <=> \E k \in {k \in keys : k.current /\ k.algorithm = alg} :
                                 k.material = t.material /\ clock + Granted(hours) < t.until
    BY DEF Current
  <2> QED  BY <2>1 DEF RotateKey
<1>3. /\ key.kid = <<alg, clock>> /\ key.algorithm = alg /\ key.material = fresh /\ key.current
      /\ key.expires = Never /\ key \in KeyRecord(fresh + 1)
  <2>1. <<alg, clock>> \in Kid /\ fresh \in 0..((fresh + 1) - 1) /\ fresh + 1 \in Nat
    BY <1>1 DEF Kid
  <2> QED  BY <2>1, KeyFields
<1>4. /\ key \in keys'
      /\ \A k \in keys : Current(k, alg) /\ clock < end => Out(k, end) \in keys'
      /\ \A k \in keys : ~Current(k, alg) /\ IsActive(k) => k \in keys'
      /\ \A j \in keys' : \/ j = key
                          \/ \E k \in keys : Current(k, alg) /\ j = Out(k, end)
                          \/ j \in keys /\ ~Current(j, alg)
  BY RotationKeys
<1>5. \A k \in keys : /\ Out(k, end) \in KeyRecord(fresh) /\ Out(k, end).kid = k.kid
                      /\ Out(k, end).algorithm = k.algorithm /\ Out(k, end).material = k.material
                      /\ ~Out(k, end).current /\ Out(k, end).expires = end
  <2>1. end \in Nat /\ fresh \in Nat /\ keys \subseteq KeyRecord(fresh)
    BY <1>1
  <2> HIDE DEF end
  <2> QED  BY <2>1, OutFields
<1>6. \A t \in tokens :
         /\ Image(t) \in TokenRecord(fresh) /\ Image(t).kind = t.kind /\ Image(t).kid = t.kid
         /\ Image(t).algorithm = t.algorithm /\ Image(t).material = t.material
         /\ Image(t).until = IF Touched(t) THEN end ELSE t.until
  <2> HIDE DEF Touched, end
  <2> QED  BY <1>1 DEF TokenRecord
<1>7. \A k \in keys : k.material \in 0..(fresh - 1) /\ k.expires \in Nat
  BY <1>1 DEF KeyRecord
<1>8. \A t \in tokens : t.until \in Nat
  BY <1>1 DEF TokenRecord
<1> HIDE DEF key, end, Image
<1>9. SigningTypeOK'
  <2>1. KeyRecord(fresh) \subseteq KeyRecord(fresh + 1) /\ TokenRecord(fresh) \subseteq TokenRecord(fresh + 1)
    BY <1>1, RecordsGrow
  <2>2. keys' \subseteq KeyRecord(fresh + 1) /\ tokens' \subseteq TokenRecord(fresh + 1)
    BY <1>1, <1>2, <1>3, <1>4, <1>5, <1>6, <2>1
  <2>3. retired' \subseteq [material : 0..((fresh + 1) - 1), until : Nat]
    <3>1. clock + hours \in Nat /\ 0..(fresh - 1) \subseteq 0..((fresh + 1) - 1)
      BY <1>1
    <3> QED  BY <1>1, <1>2, <1>7, <3>1
  <2>4. fresh + 1 \in 3..(3 + MaxRotations)
    BY <1>1, <1>2, SigningAssumption
  <2> QED  BY <1>1, <1>2, <2>2, <2>3, <2>4 DEF SigningTypeOK, KeyRecord, TokenRecord
<1>10. KeysOwn'
  <2>1. \A j \in keys' : j = key \/ j.material \in 0..(fresh - 1)
    BY <1>4, <1>5, <1>7
  <2>2. \A j \in keys' : j # key => \E k \in keys : k.material = j.material /\ (j = k \/ j = Out(k, end))
    BY <1>4, <1>5
  <2>3. ASSUME NEW i \in keys', NEW j \in keys', i.material = j.material PROVE i = j
    <3>1. CASE i = key \/ j = key
      BY <1>1, <1>3, <2>1, <2>3, <3>1
    <3>2. CASE i # key /\ j # key
      <4>1. PICK k \in keys : (Current(k, alg) /\ i = Out(k, end)) \/ (i = k /\ ~Current(k, alg))
        BY <1>4, <3>2
      <4>2. PICK l \in keys : (Current(l, alg) /\ j = Out(l, end)) \/ (j = l /\ ~Current(l, alg))
        BY <1>4, <3>2
      <4>3. k = l
        BY <1>5, <2>3, <4>1, <4>2 DEF KeysInv, KeysOwn
      <4> QED  BY <4>1, <4>2, <4>3
    <3> QED  BY <3>1, <3>2
  <2>4. ASSUME NEW j \in keys'
        PROVE  /\ j.current <=> j.expires = Never
               /\ j.material = JwtSecret => j.kid = InitialKid("HS256") /\ j.algorithm = "HS256"
               /\ j.material = Pem =>
                     /\ HasPem /\ j.kid = InitialKid("RS256") /\ j.algorithm = "RS256"
                     /\ Conformance => ~j.current
    <3>1. CASE j = key
      BY <1>1, <1>3, <3>1 DEF JwtSecret, Pem
    <3>2. CASE \E k \in keys : Current(k, alg) /\ j = Out(k, end)
      BY <1>1, <1>5, <3>2 DEF KeysInv, KeysOwn
    <3>3. CASE j \in keys
      BY <3>3 DEF KeysInv, KeysOwn
    <3> QED  BY <1>4, <3>1, <3>2, <3>3
  <2> QED  BY <2>3, <2>4 DEF KeysOwn
<1>11. OneCurrent'
  <2> SUFFICES ASSUME NEW a \in Algorithm
               PROVE  /\ \A k, l \in keys' : Current(k, a) /\ Current(l, a) => k = l
                      /\ (a = "HS256" \/ HasPem \/ \E k \in keys' : k.algorithm = a)
                            => \E k \in keys' : Current(k, a)
    BY DEF OneCurrent
  <2>1. CASE a = alg
    <3>1. \A j \in keys' : Current(j, a) => j = key
      BY <1>4, <1>5, <2>1 DEF Current
    <3> QED  BY <1>3, <1>4, <2>1, <3>1 DEF Current
  <2>2. CASE a # alg
    <3>1. \A j \in keys' : j.algorithm = a => j \in keys
      BY <1>3, <1>4, <1>5, <2>2 DEF Current
    <3>2. \A k \in keys : Current(k, a) => k \in keys'
      BY <1>4, <2>2 DEF Current, IsActive, KeysInv, KeysOwn
    <3> QED  BY <3>1, <3>2 DEF KeysInv, OneCurrent, Current
  <2> QED  BY <2>1, <2>2
<1>12. Covered'
  <2> SUFFICES ASSUME NEW s \in tokens', s.kind # "id"
               PROVE  /\ s.material = Pem => ~Conformance
                      /\ clock < s.until =>
                            \/ s.kid = NoKid /\ s.algorithm = "HS256" /\ s.material = JwtSecret
                            \/ \E k \in keys' : Holds(k, s)
    BY <1>2 DEF Covered
  <2>1. PICK t \in tokens : s = Image(t)
    BY <1>2
  <2>2. /\ s.kind = t.kind /\ s.kid = t.kid /\ s.algorithm = t.algorithm /\ s.material = t.material
        /\ s.until = IF Touched(t) THEN end ELSE t.until
    BY <1>6, <2>1
  <2>3. s.material = Pem => ~Conformance
    BY <2>2 DEF KeysInv, Covered
  <2>4. s.until <= t.until
    BY <1>1, <1>8, <2>2
  <2>5. CASE clock < s.until /\ ~(s.kid = NoKid /\ s.algorithm = "HS256" /\ s.material = JwtSecret)
    <3>1. clock < t.until
      BY <1>1, <1>8, <2>2, <2>5
    <3>2. PICK k \in keys : Holds(k, t)
      BY <2>2, <2>5, <3>1 DEF KeysInv, Covered
    <3>3. CASE Current(k, alg)
      <4>1. s.until <= end
        BY <1>1, <1>8, <2>2, <3>2, <3>3 DEF Holds, Fits
      <4>2. clock < end
        BY <1>1, <1>8, <2>2, <2>5, <4>1
      <4>3. Out(k, end) \in keys'
        BY <1>4, <3>3, <4>2
      <4> QED  BY <1>5, <2>2, <2>3, <3>2, <4>1, <4>3 DEF Holds, Fits
    <3>4. CASE ~Current(k, alg)
      <4>1. IsActive(k)
        BY <1>1, <1>7, <1>8, <3>1, <3>2 DEF Holds, IsActive
      <4>2. k \in keys'
        BY <1>4, <3>4, <4>1
      <4>3. k.expires = Never \/ s.until <= k.expires
        BY <1>1, <1>7, <1>8, <2>2, <2>4, <3>2 DEF Holds
      <4> QED  BY <2>2, <2>3, <3>2, <4>2, <4>3 DEF Holds, Fits
    <3> QED  BY <3>3, <3>4
  <2> QED  BY <2>3, <2>5
<1>13. RetiredExpire'
  <2> SUFFICES ASSUME NEW r \in retired', NEW j \in keys', j.material = r.material
               PROVE  ~j.current /\ j.expires <= r.until
    BY DEF RetiredExpire
  <2>1. r.material \in 0..(fresh - 1)
    BY <1>1, <1>2, <1>7
  <2>2. j # key
    BY <1>1, <1>3, <2>1
  <2>3. CASE r \in retired
    BY <1>4, <1>5, <2>2, <2>3 DEF KeysInv, RetiredExpire, Current
  <2>4. CASE r \notin retired
    <3>1. PICK k \in keys : Current(k, alg) /\ r.material = k.material /\ r.until = clock + hours
      BY <1>2, <2>4 DEF Current
    <3>2. ASSUME NEW l \in keys, l.material = j.material PROVE l = k
      BY <3>1, <3>2 DEF KeysInv, KeysOwn
    <3>3. j = Out(k, end)
      BY <1>4, <1>5, <2>2, <3>1, <3>2
    <3> QED  BY <1>1, <1>5, <3>1, <3>3
  <2> QED  BY <2>3, <2>4
<1> QED  BY <1>9, <1>10, <1>11, <1>12, <1>13 DEF KeysInv

-----------------------------------------------------------------------------
(* Signing *)

\* A token names the key that signed it, or it is made with the secret.
LEMMA SignKeeps ==
    ASSUME KeysInv, Sign(AccessToken) \/ Sign(TxnToken) \/ Sign(IdToken) PROVE KeysInv'
<1>1. /\ clock \in Nat /\ fresh \in Nat /\ fresh \in 3..(3 + MaxRotations)
      /\ keys \subseteq KeyRecord(fresh) /\ tokens \subseteq TokenRecord(fresh)
  BY SigningTypes, SigningAssumption DEF KeysInv
<1>2. ASSUME NEW kind, NEW kid, NEW alg, NEW m
      PROVE  LET t == Signed(kind, kid, alg, m)
             IN /\ t.kind = kind /\ t.kid = kid /\ t.algorithm = alg /\ t.material = m
                /\ kind \in {"access", "txn", "id"} /\ kid \in Kid /\ alg \in Algorithm /\ m \in 0..(fresh - 1)
                      => t \in TokenRecord(fresh)
  <2>1. clock + Lifetime \in Nat
    BY <1>1, SigningAssumption
  <2> QED  BY <2>1 DEF Signed, TokenRecord
<1> DEFINE Good(t) ==
      /\ t \in TokenRecord(fresh)
      /\ t.kind # "id" =>
            /\ t.material = Pem => ~Conformance
            /\ \/ t.kid = NoKid /\ t.algorithm = "HS256" /\ t.material = JwtSecret
               \/ \E k \in keys : Holds(k, t)
<1>3. ASSUME NEW kind \in {"access", "txn", "id"} PROVE Good(WithSecret(kind))
  <2>1. NoKid \in Kid /\ JwtSecret \in 0..(fresh - 1) /\ "HS256" \in Algorithm /\ JwtSecret # Pem
    BY <1>1 DEF NoKid, Kid, JwtSecret, Algorithm, Pem
  <2> QED  BY <1>2, <2>1 DEF WithSecret
<1>4. ASSUME NEW kind \in {"access", "txn", "id"}, NEW k \in keys, k.current PROVE Good(WithKey(kind, k))
  <2>1. k.kid \in Kid /\ k.algorithm \in Algorithm /\ k.material \in 0..(fresh - 1)
    BY <1>1 DEF KeyRecord
  <2>2. k.expires = Never /\ (k.material = Pem => ~Conformance)
    BY <1>4 DEF KeysInv, KeysOwn
  <2>3. Holds(k, WithKey(kind, k))
    BY <1>2, <2>2 DEF Holds, Fits, WithKey
  <2> QED  BY <1>2, <2>1, <2>2, <2>3 DEF WithKey
<1>5. \A alg : CurrentForAlg(alg) \subseteq {k \in keys : k.current}
  BY DEF CurrentForAlg, First, ActiveKeys
<1>6. Good(AccessToken)
  <2> DEFINE chosen == IF CurrentForAlg("RS256") # {} THEN CurrentForAlg("RS256") ELSE CurrentForAlg("HS256")
  <2>1. CASE chosen = {}
    BY <1>3, <2>1 DEF AccessToken
  <2>2. CASE chosen # {}
    <3>1. (CHOOSE k \in chosen : TRUE) \in chosen
      BY <2>2
    <3>2. (CHOOSE k \in chosen : TRUE) \in {k \in keys : k.current}
      BY <1>5, <3>1
    <3>3. AccessToken = WithKey("access", CHOOSE k \in chosen : TRUE)
      BY <2>2 DEF AccessToken
    <3> HIDE DEF chosen
    <3> QED  BY <1>4, <3>2, <3>3
  <2> QED  BY <2>1, <2>2
<1>7. Good(TxnToken)
  <2> DEFINE chosen == CurrentForAlg("RS256")
  <2>1. CASE chosen = {}
    BY <1>3, <2>1 DEF TxnToken
  <2>2. CASE chosen # {}
    <3>1. (CHOOSE k \in chosen : TRUE) \in chosen
      BY <2>2
    <3>2. (CHOOSE k \in chosen : TRUE) \in {k \in keys : k.current}
      BY <1>5, <3>1
    <3>3. TxnToken = WithKey("txn", CHOOSE k \in chosen : TRUE)
      BY <2>2 DEF TxnToken
    <3> HIDE DEF chosen
    <3> QED  BY <1>4, <3>2, <3>3
  <2> QED  BY <2>1, <2>2
<1>8. Good(IdToken)
  <2>1. InitialKid("RS256") \in Kid /\ "RS256" \in Algorithm /\ Pem \in 0..(fresh - 1)
    BY <1>1 DEF InitialKid, Kid, Algorithm, Pem
  <2>2. Good(Signed("id", InitialKid("RS256"), "RS256", Pem))
    BY <1>2, <2>1
  <2> QED  BY <1>3, <2>2 DEF IdToken
<1>9. PICK t : Good(t) /\ tokens' = tokens \cup {t} /\ UNCHANGED <<clock, keys, fresh, retired>>
  <2> HIDE DEF Good
  <2> QED  BY <1>6, <1>7, <1>8 DEF Sign
<1>10. SigningTypeOK'
  BY <1>1, <1>9, SigningTypes DEF KeysInv, SigningTypeOK, KeyRecord, TokenRecord
<1>11. KeysOwn' /\ OneCurrent' /\ RetiredExpire'
  BY <1>9 DEF KeysInv, KeysOwn, OneCurrent, RetiredExpire
<1>12. Covered'
  BY <1>9 DEF KeysInv, Covered
<1> QED  BY <1>10, <1>11, <1>12 DEF KeysInv

-----------------------------------------------------------------------------

\* Every step keeps the keys and their tokens together.
LEMMA KeysInvStep == KeysInv /\ [SigningNext]_signingVars => KeysInv'
<1> SUFFICES ASSUME KeysInv, [SigningNext]_signingVars PROVE KeysInv'
  OBVIOUS
<1>1. ASSUME NEW alg \in {{}} \cup {{a} : a \in Algorithm}, NEW hours \in {{}} \cup {{h} : h \in Asked},
             RotateRequest(alg, hours)
      PROVE  KeysInv'
  <2>1. \A x : (CHOOSE a \in {x} : TRUE) = x
    OBVIOUS
  <2>2. (IF alg = {} THEN "RS256" ELSE CHOOSE a \in alg : TRUE) \in Algorithm
    BY <2>1 DEF Algorithm
  <2>3. (IF hours = {} THEN Default ELSE CHOOSE h \in hours : TRUE) \in Nat
    BY <2>1, SigningAssumption
  <2> QED  BY <1>1, <2>2, <2>3, RotationKeeps DEF RotateRequest
<1>2. CASE Sign(AccessToken) \/ Sign(TxnToken) \/ Sign(IdToken)
  BY <1>2, SignKeeps
<1>3. CASE RestartServer
  BY <1>3, RestartKeeps
<1>4. CASE HourPasses
  <2>1. /\ clock \in Nat /\ clock' = clock + 1 /\ clock' \in 2..MaxClock /\ clock < MaxClock
        /\ UNCHANGED <<keys, fresh, tokens, retired>>
    BY <1>4, SigningAssumption DEF HourPasses, KeysInv, SigningTypeOK
  <2>2. \A t \in tokens : t.until \in Nat
    BY DEF KeysInv, SigningTypeOK
  <2>3. \A t \in tokens : clock' < t.until => clock < t.until
    BY <2>1, <2>2
  <2>4. Covered'
    BY <2>1, <2>3 DEF KeysInv, Covered
  <2>5. SigningTypeOK'
    BY <2>1 DEF KeysInv, SigningTypeOK
  <2> QED  BY <2>1, <2>4, <2>5 DEF KeysInv, KeysOwn, OneCurrent, RetiredExpire
<1>5. CASE UNCHANGED signingVars
  BY <1>5 DEF signingVars, KeysInv, SigningTypeOK, KeysOwn, OneCurrent, Covered, RetiredExpire
<1> QED  BY <1>1, <1>2, <1>3, <1>4, <1>5 DEF SigningNext

\* The inductive invariant gives the promises of the KeySet.
LEMMA KeysInvServes == KeysInv => KeysServeTheirTime
<1> SUFFICES ASSUME KeysInv PROVE KeysServeTheirTime
  OBVIOUS
<1>1. /\ clock \in Nat /\ \A k \in keys : k.expires \in Nat /\ k.material \in Nat
      /\ \A t \in tokens : t.until \in Nat
      /\ \A r \in retired : r.until \in Nat
  BY DEF KeysInv, SigningTypeOK
<1>2. AlwaysOneCurrentKey
  <2>1. \A k \in keys : k.current => IsActive(k)
    BY DEF KeysInv, KeysOwn, IsActive
  <2> QED  BY <2>1 DEF KeysInv, OneCurrent, Current, AlwaysOneCurrentKey
<1>3. GraceKeepsTokens
  <2> SUFFICES ASSUME NEW t \in tokens, t.kind # "id", clock < t.until, ~Ambiguous(t.kid)
               PROVE  VerifyJwt(t) /\ (t.kid # NoKid => DecodeWithKeyset(t))
    BY DEF GraceKeepsTokens
  <2>1. CASE t.kid = NoKid /\ t.algorithm = "HS256" /\ t.material = JwtSecret
    BY <2>1 DEF VerifyJwt
  <2>2. CASE \E k \in keys : Holds(k, t)
    <3>1. PICK k \in keys : Holds(k, t)
      BY <2>2
    <3>2. k \in ActiveKeys /\ k.kid = t.kid /\ Fits(k, t)
      BY <1>1, <3>1 DEF ActiveKeys, IsActive, Holds
    <3>3. {j \in ActiveKeys : j.kid = t.kid} = {k}
      BY <3>2 DEF ActiveKeys, Ambiguous
    <3>4. Find(t.kid) = {k}
      BY <1>1, <3>3 DEF Find, First
    <3> QED  BY <3>2, <3>4 DEF VerifyJwt, DecodeWithKeyset
  <2> QED  BY <2>1, <2>2 DEF KeysInv, Covered
<1>4. RetiredKeysAreDead
  <2> SUFFICES ASSUME NEW r \in retired, clock >= r.until
               PROVE  /\ r.material \notin Jwks
                      /\ \A t \in tokens : t.material = r.material =>
                            ~DecodeWithKeyset(t) /\ (r.material # JwtSecret => ~VerifyJwt(t))
    BY DEF RetiredKeysAreDead
  <2>1. \A k \in ActiveKeys : k.material # r.material
    BY <1>1 DEF KeysInv, KeysOwn, RetiredExpire, ActiveKeys, IsActive
  <2>2. \A kid : Find(kid) \subseteq ActiveKeys
    BY DEF Find, First
  <2>3. HasPem => \E k \in ActiveKeys : k.algorithm = "RS256"
    BY DEF KeysInv, OneCurrent, Current, KeysOwn, ActiveKeys, IsActive, Algorithm
  <2>4. r.material \notin Jwks
    BY <2>1, <2>3 DEF Jwks
  <2> QED  BY <2>1, <2>2, <2>4 DEF DecodeWithKeyset, VerifyJwt, Fits
<1> QED  BY <1>2, <1>3, <1>4 DEF KeysServeTheirTime, KeysInv

\* Through any number of rotations of either algorithm, with any grace, and of
\* restarts, with or without a configured PEM or a conformance seed: there is one
\* active current key of each algorithm, what a key signed verifies for its
\* grace, and after the grace it verifies nothing and is not published.
THEOREM KeysServe == SigningSpec => []KeysServeTheirTime
  BY KeysInvInit, KeysInvStep, KeysInvServes, PTL DEF SigningSpec

-----------------------------------------------------------------------------
(* Introspection: what the answers rest on *)

\* Only a JWT with a cnf claim is answered for a proof.
NeedsProof(t) == t.form = "jwt" /\ t.bound # Absent

\* Request r has its proof accepted and is about to answer.
Vouched(r) == pc[r] = "answer" /\ NeedsProof(token[r])

\* A request past the row asks for its own token or anonymously, and read a row
\* that was not revoked; one for a transaction token has such a token.
ReadLive ==
    \A r \in Query :
        /\ pc[r] \in {"proof", "answer"} =>
              caller[r] \in {Absent, token[r].owner} /\ token[r] \notin began[r]
        /\ pc[r] = "txn" => token[r].form = "txn"

\* An accepted proof is of the right key and token, in the store, and nobody else's.
ProofsHeld ==
    \A r \in Query : Vouched(r) =>
        /\ proof[r] \in used /\ proof[r] # Absent
        /\ proof[r].key = token[r].bound /\ proof[r].ath = token[r]
        /\ \A s \in Query : Vouched(s) /\ proof[s] = proof[r] => s = r

\* A proof that was answered for is in the store, and no request under way has it.
ProofsSpent ==
    \A a \in answers : NeedsProof(a.token) =>
        a.proof \in used /\ \A r \in Query : Vouched(r) => proof[r] # a.proof

AnswersInv == ReadLive /\ ProofsHeld /\ ProofsSpent /\ AnswersDue

-----------------------------------------------------------------------------
LEMMA CallerType ==
    ASSUME NEW h \in Header, NEW id \in Client \cup {Absent}, NEW s, Caller(h, id, s) # Rejected
    PROVE  Caller(h, id, s) \in Client \cup {Absent}
  BY DEF Caller, Header

LEMMA IntrospectTypeStep == IntrospectTypeOK /\ [IntrospectNext]_introspectVars => IntrospectTypeOK'
<1> SUFFICES ASSUME IntrospectTypeOK, [IntrospectNext]_introspectVars PROVE IntrospectTypeOK'
  OBVIOUS
<1> USE InstantAssumption DEF IntrospectTypeOK
<1>1. ASSUME NEW r \in Query, NEW h \in Header, NEW id \in Client \cup {Absent}, NEW s \in BodySecret,
             NEW t \in Token, NEW p \in Proof \cup {Absent}, BeginIntrospect(r, h, id, s, t, p)
      PROVE  IntrospectTypeOK'
  BY <1>1, CallerType DEF BeginIntrospect
<1>2. ASSUME NEW r \in Query, AnswerTxn(r) PROVE IntrospectTypeOK'
  BY <1>2 DEF AnswerTxn, AnswerActive, AnswerInactive, EndQuery
<1>3. ASSUME NEW r \in Query, Resolve(r) PROVE IntrospectTypeOK'
  BY <1>3 DEF Resolve, AnswerInactive, EndQuery
<1>4. ASSUME NEW r \in Query, CheckProof(r) PROVE IntrospectTypeOK'
  BY <1>4 DEF CheckProof, ProofFresh, Await, AnswerInactive, EndQuery
<1>5. ASSUME NEW r \in Query, Respond(r) PROVE IntrospectTypeOK'
  BY <1>5 DEF Respond, AnswerActive, AnswerInactive, EndQuery
<1>6. ASSUME NEW t \in Token, RevokeRow(t) PROVE IntrospectTypeOK'
  BY <1>6 DEF RevokeRow, queryLocals
<1>7. CASE InstantPasses
  BY <1>7 DEF InstantPasses, queryLocals
<1>8. CASE UNCHANGED introspectVars
  BY <1>8 DEF introspectVars, queryLocals
<1> QED  BY <1>1, <1>2, <1>3, <1>4, <1>5, <1>6, <1>7, <1>8 DEF IntrospectNext, IntrospectStep

\* Every request but r stays where it is.
OthersStay(r) ==
    \A s \in Query \ {r} : /\ pc'[s] = pc[s] /\ token'[s] = token[s] /\ proof'[s] = proof[s]
                           /\ caller'[s] = caller[s] /\ began'[s] = began[s]

\* A step of r after which r does not vouch and nothing is answered, and which may
\* add to the store of proofs.
LEMMA QuietStep ==
    ASSUME IntrospectTypeOK, AnswersInv, NEW r \in Query, OthersStay(r), ~Vouched(r)',
           answers' = answers, used \subseteq used',
           pc'[r] \in {"proof", "answer"} =>
               caller'[r] \in {Absent, token'[r].owner} /\ token'[r] \notin began'[r],
           pc'[r] = "txn" => token'[r].form = "txn"
    PROVE  AnswersInv'
<1>1. \A s \in Query : Vouched(s)' => s # r /\ Vouched(s) /\ proof'[s] = proof[s] /\ token'[s] = token[s]
  BY DEF OthersStay, Vouched
<1>2. ReadLive'
  BY DEF AnswersInv, ReadLive, OthersStay
<1>3. ProofsHeld'
  BY <1>1 DEF AnswersInv, ProofsHeld
<1>4. ProofsSpent'
  BY <1>1 DEF AnswersInv, ProofsSpent
<1>5. AnswersDue'
  BY DEF AnswersInv, AnswersDue, OneProofPerAnswer, IdentityToOwner, ActiveWasLive
<1> QED  BY <1>2, <1>3, <1>4, <1>5 DEF AnswersInv

LEMMA EndFacts ==
    ASSUME IntrospectTypeOK, NEW r \in Query, EndQuery(r)
    PROVE  OthersStay(r) /\ pc'[r] = "idle" /\ ~Vouched(r)'
  BY DEF EndQuery, Vouched, OthersStay, IntrospectTypeOK

LEMMA InactiveStep ==
    ASSUME IntrospectTypeOK, AnswersInv, NEW r \in Query, AnswerInactive(r), used \subseteq used'
    PROVE  AnswersInv'
<1>1. EndQuery(r) /\ answers' = answers
  BY DEF AnswerInactive
<1> QED  BY <1>1, EndFacts, QuietStep

\* An answer that says active: the token is live, the identity goes to whom it
\* may, and a proof that is needed is the request's own.
LEMMA ActiveStep ==
    ASSUME IntrospectTypeOK, AnswersInv, NEW r \in Query, AnswerActive(r, caller[r] # Absent), used' = used,
           ~(instant > Expiry), pc[r] \in {"txn", "answer"}
    PROVE  AnswersInv'
<1> DEFINE a == [caller |-> caller[r], token |-> token[r], proof |-> proof[r],
                 identity |-> caller[r] # Absent, live |-> token[r] \notin began[r],
                 expired |-> instant > Expiry, nth |-> Cardinality(answers)]
<1>1. answers' = answers \cup {a} /\ EndQuery(r)
  BY DEF AnswerActive
<1>2. OthersStay(r) /\ pc'[r] = "idle" /\ ~Vouched(r)'
  BY <1>1, EndFacts
<1>3. \A s \in Query : Vouched(s)' => s # r /\ Vouched(s) /\ proof'[s] = proof[s] /\ token'[s] = token[s]
  BY <1>2 DEF OthersStay, Vouched
<1>4. a.caller = caller[r] /\ a.token = token[r] /\ a.proof = proof[r] /\ a.identity = (caller[r] # Absent)
      /\ a.live = (token[r] \notin began[r]) /\ a.expired = (instant > Expiry)
  OBVIOUS
<1> HIDE DEF a
<1>5. pc[r] = "txn" => token[r].form = "txn"
  BY DEF AnswersInv, ReadLive
<1>6. pc[r] = "answer" => caller[r] \in {Absent, token[r].owner} /\ token[r] \notin began[r]
  BY DEF AnswersInv, ReadLive
<1>7. NeedsProof(a.token) => Vouched(r)
  BY <1>4, <1>5 DEF Vouched, NeedsProof
<1>8. ReadLive'
  BY <1>2 DEF AnswersInv, ReadLive, OthersStay
<1>9. ProofsHeld'
  BY <1>3 DEF AnswersInv, ProofsHeld
<1>10. ProofsSpent'
  <2>1. ASSUME NEW b \in answers', NEW s \in Query, NeedsProof(b.token)
        PROVE  b.proof \in used /\ (Vouched(s)' => proof'[s] # b.proof)
    <3>1. CASE b \in answers
      BY <3>1, <2>1, <1>3 DEF AnswersInv, ProofsSpent
    <3>2. CASE b = a
      BY <3>2, <2>1, <1>3, <1>4, <1>7 DEF AnswersInv, ProofsHeld
    <3> QED  BY <3>1, <3>2, <1>1
  <2> QED  BY <2>1 DEF ProofsSpent
<1>11. IdentityToOwner'
  BY <1>1, <1>4, <1>5, <1>6 DEF AnswersInv, AnswersDue, IdentityToOwner
<1>12. ActiveWasLive'
  BY <1>1, <1>4, <1>5, <1>6 DEF AnswersInv, AnswersDue, ActiveWasLive
<1>13. OneProofPerAnswer'
  <2>1. ASSUME NEW b \in answers', NeedsProof(b.token)
        PROVE  b.proof # Absent /\ b.proof.key = b.token.bound /\ b.proof.ath = b.token
    <3>1. CASE b \in answers
      BY <3>1, <2>1 DEF AnswersInv, AnswersDue, OneProofPerAnswer, NeedsProof
    <3>2. CASE b = a
      BY <3>2, <2>1, <1>4, <1>7 DEF AnswersInv, ProofsHeld
    <3> QED  BY <3>1, <3>2, <1>1
  <2>2. ASSUME NEW b \in answers, NeedsProof(b.token), NeedsProof(a.token) PROVE b.proof # a.proof
    BY <2>2, <1>4, <1>7 DEF AnswersInv, ProofsSpent
  <2>3. ASSUME NEW b \in answers, NEW c \in answers, NeedsProof(b.token), NeedsProof(c.token), b.proof = c.proof
        PROVE  b = c
    BY <2>3 DEF AnswersInv, AnswersDue, OneProofPerAnswer, NeedsProof
  <2>4. \A b, c \in answers' : NeedsProof(b.token) /\ NeedsProof(c.token) /\ b.proof = c.proof => b = c
    BY <2>2, <2>3, <1>1
  <2> QED  BY <2>1, <2>4 DEF OneProofPerAnswer, NeedsProof
<1> QED  BY <1>8, <1>9, <1>10, <1>11, <1>12, <1>13 DEF AnswersInv, AnswersDue

\* The proof passes: it was in no store, so nobody has it and nothing was answered
\* for it.
LEMMA AcceptStep ==
    ASSUME IntrospectTypeOK, AnswersInv, NEW r \in Query, pc[r] = "proof", Await(r, "answer"),
           answers' = answers, NeedsProof(token[r]), ProofFresh(r), proof[r].key = token[r].bound,
           used' = used \cup {proof[r]}
    PROVE  AnswersInv'
<1>1. OthersStay(r) /\ pc'[r] = "answer" /\ token' = token /\ proof' = proof /\ caller' = caller /\ began' = began
  BY DEF Await, OthersStay, IntrospectTypeOK
<1>2. \A s \in Query : Vouched(s)' => s = r \/ Vouched(s)
  BY <1>1 DEF OthersStay, Vouched
<1>3. \A s \in Query : Vouched(s) => proof[s] # proof[r]
  BY DEF AnswersInv, ProofsHeld, ProofFresh
<1>4. \A a \in answers : NeedsProof(a.token) => a.proof # proof[r]
  BY DEF AnswersInv, ProofsSpent, ProofFresh
<1>5. ReadLive'
  BY <1>1 DEF AnswersInv, ReadLive, OthersStay
<1>6. ProofsHeld'
  BY <1>1, <1>2, <1>3 DEF AnswersInv, ProofsHeld, ProofFresh
<1>7. ProofsSpent'
  BY <1>1, <1>2, <1>4 DEF AnswersInv, ProofsSpent
<1>8. AnswersDue'
  BY DEF AnswersInv, AnswersDue, OneProofPerAnswer, IdentityToOwner, ActiveWasLive
<1> QED  BY <1>5, <1>6, <1>7, <1>8 DEF AnswersInv

LEMMA AnswersStep ==
    IntrospectTypeOK /\ AnswersInv /\ [IntrospectNext]_introspectVars => AnswersInv'
<1> SUFFICES ASSUME IntrospectTypeOK, AnswersInv, [IntrospectNext]_introspectVars PROVE AnswersInv'
  OBVIOUS
<1>1. ASSUME NEW r \in Query, NEW h \in Header, NEW id \in Client \cup {Absent}, NEW s \in BodySecret,
             NEW t \in Token, NEW p \in Proof \cup {Absent}, BeginIntrospect(r, h, id, s, t, p)
      PROVE  AnswersInv'
  <2>1. OthersStay(r) /\ pc'[r] = (IF t.form = "txn" THEN "txn" ELSE "resolve") /\ token'[r] = t
    BY <1>1 DEF BeginIntrospect, OthersStay, IntrospectTypeOK
  <2>2. ~Vouched(r)' /\ answers' = answers /\ used' = used
    BY <1>1, <2>1 DEF BeginIntrospect, Vouched
  <2> QED  BY <2>1, <2>2, QuietStep
<1>2. ASSUME NEW r \in Query, AnswerTxn(r) PROVE AnswersInv'
  <2>1. CASE instant < Expiry
    <3>1. AnswerActive(r, caller[r] # Absent) /\ used' = used /\ pc[r] = "txn"
      BY <1>2, <2>1 DEF AnswerTxn
    <3>2. ~(instant > Expiry)
      BY <2>1, InstantAssumption DEF IntrospectTypeOK
    <3> QED  BY <3>1, <3>2, ActiveStep
  <2>2. CASE ~(instant < Expiry)
    BY <1>2, <2>2, InactiveStep DEF AnswerTxn
  <2> QED  BY <2>1, <2>2
<1>3. ASSUME NEW r \in Query, Resolve(r) PROVE AnswersInv'
  <2>1. CASE Accepts(token[r]) /\ caller[r] \in {Absent, token[r].owner}
    <3>1. /\ pc' = [pc EXCEPT ![r] = "proof"] /\ began' = [began EXCEPT ![r] = revoked]
          /\ caller' = caller /\ token' = token /\ proof' = proof /\ answers' = answers /\ used' = used
      BY <1>3, <2>1 DEF Resolve
    <3>2. token[r] \notin revoked
      BY <2>1 DEF Accepts, StatelessAccepts, DefaultValidation, RowAccepts
    <3>3. OthersStay(r) /\ pc'[r] = "proof" /\ began'[r] = revoked
      BY <3>1 DEF OthersStay, IntrospectTypeOK
    <3> QED  BY <3>1, <3>2, <3>3, <2>1, QuietStep DEF Vouched
  <2>2. CASE ~(Accepts(token[r]) /\ caller[r] \in {Absent, token[r].owner})
    BY <1>3, <2>2, InactiveStep DEF Resolve
  <2> QED  BY <2>1, <2>2
<1>4. ASSUME NEW r \in Query, CheckProof(r) PROVE AnswersInv'
  <2>1. CASE NeedsProof(token[r]) /\ ~(ProofFresh(r) /\ proof[r].key = token[r].bound)
    <3>1. AnswerInactive(r) /\ used \subseteq used'
      BY <1>4, <2>1 DEF CheckProof, NeedsProof
    <3> QED  BY <3>1, InactiveStep
  <2>2. CASE NeedsProof(token[r]) /\ ProofFresh(r) /\ proof[r].key = token[r].bound
    <3>1. pc[r] = "proof" /\ Await(r, "answer") /\ answers' = answers /\ used' = used \cup {proof[r]}
      BY <1>4, <2>2 DEF CheckProof, NeedsProof
    <3> QED  BY <3>1, <2>2, AcceptStep
  <2>3. CASE ~NeedsProof(token[r])
    <3>1. pc[r] = "proof" /\ Await(r, "answer") /\ answers' = answers /\ used' = used
      BY <1>4, <2>3 DEF CheckProof, NeedsProof
    <3>2. OthersStay(r) /\ pc'[r] = "answer" /\ token' = token /\ caller' = caller /\ began' = began
      BY <3>1 DEF Await, OthersStay, IntrospectTypeOK
    <3>3. caller[r] \in {Absent, token[r].owner} /\ token[r] \notin began[r]
      BY <3>1 DEF AnswersInv, ReadLive
    <3>4. ~Vouched(r)'
      BY <3>2, <2>3 DEF Vouched, NeedsProof
    <3> QED  BY <3>1, <3>2, <3>3, <3>4, QuietStep
  <2> QED  BY <2>1, <2>2, <2>3
<1>5. ASSUME NEW r \in Query, Respond(r) PROVE AnswersInv'
  <2>1. CASE TokensExpired
    BY <1>5, <2>1, InactiveStep DEF Respond
  <2>2. CASE ~TokensExpired
    BY <1>5, <2>2, ActiveStep DEF Respond, TokensExpired
  <2> QED  BY <2>1, <2>2
<1>6. CASE UNCHANGED <<used, queryLocals, answers>>
  BY <1>6 DEF queryLocals, AnswersInv, ReadLive, ProofsHeld, ProofsSpent, AnswersDue, Vouched,
              OneProofPerAnswer, IdentityToOwner, ActiveWasLive
<1> QED  BY <1>1, <1>2, <1>3, <1>4, <1>5, <1>6
         DEF IntrospectNext, IntrospectStep, RevokeRow, InstantPasses, introspectVars, queryLocals

-----------------------------------------------------------------------------
LEMMA IntrospectInvariant == IntrospectSpec => [](IntrospectTypeOK /\ AnswersInv)
<1>1. IntrospectInit => IntrospectTypeOK /\ AnswersInv
  BY InstantAssumption DEF IntrospectInit, IntrospectTypeOK, AnswersInv, ReadLive, ProofsHeld, ProofsSpent,
     AnswersDue, Vouched, OneProofPerAnswer, IdentityToOwner, ActiveWasLive
<1>2. IntrospectTypeOK /\ AnswersInv /\ [IntrospectNext]_introspectVars => (IntrospectTypeOK /\ AnswersInv)'
  BY IntrospectTypeStep, AnswersStep
<1> QED  BY <1>1, <1>2, PTL DEF IntrospectSpec

\* Whatever introspections run at once and whatever is revoked or expires between
\* their steps: one proof serves one answer, identity goes to the owner, and
\* "active" was true of the row that was read (introspect).
THEOREM AnswersAreDue == IntrospectSpec => []AnswersDue
<1>1. AnswersInv => AnswersDue
  BY DEF AnswersInv
<1> QED  BY <1>1, IntrospectInvariant, PTL

-----------------------------------------------------------------------------
(* Resilience: types *)

\* fetch_sub wraps, within the width.
LEMMA Wraps == \A n \in 0..(Width - 1) : (n - 1) % Width \in 0..(Width - 1)
  BY LimitAssumption

\* A request that ends keeps the types of what it touches.
LEMMA LeaveType ==
    ASSUME ResilienceTypeOK, NEW r \in Call, Leave(r)
    PROVE  /\ holders' \subseteq Call /\ partition' \subseteq Call /\ stage' \in [Call -> Stage]
           /\ probe' \in [Call -> BOOLEAN] /\ failed' \in [Call -> BOOLEAN]
           /\ route' = route /\ op' = op /\ settling' = settling
  BY DEF Leave, ResilienceTypeOK, Stage

\* So does a request that goes on to its next operation inside the breaker.
LEMMA BreakerType ==
    ASSUME ResilienceTypeOK, NEW r \in Call, NEW next \in Op \ {"swap"}, NEW new \in {"closed", "open", "halfopen"},
           Then(r, next) \/ Transit(r, new)
    PROVE  /\ op' \in [Call -> Op] /\ settling' \in [Call -> {"no", "closed", "open", "halfopen"}]
           /\ \A s \in Call : op'[s] = "swap" => settling'[s] # "no"
           /\ stage' = stage /\ route' = route /\ probe' = probe /\ failed' = failed
<1>1. CASE Then(r, next)
  BY <1>1 DEF Then, ResilienceTypeOK, Op
<1>2. CASE Transit(r, new)
  BY <1>2 DEF Transit, ResilienceTypeOK, Op
<1> QED  BY <1>1, <1>2

\* Every step of a request keeps the types.
LEMMA ResilienceTypeStep == ResilienceTypeOK /\ [ResilienceNext]_resilienceVars => ResilienceTypeOK'
<1> SUFFICES ASSUME ResilienceTypeOK, [ResilienceNext]_resilienceVars PROVE ResilienceTypeOK'
  OBVIOUS
<1> USE LimitAssumption DEF ResilienceTypeOK, Stage, breaker, permits, callLocals, breakerHistory
<1>1. CASE Elapse
  BY <1>1 DEF Elapse
<1>2. ASSUME NEW r \in Call, NEW b \in Bulkhead \cup {NoBulkhead}, ArriveCall(r, b) PROVE ResilienceTypeOK'
  BY <1>2 DEF ArriveCall
<1>3. ASSUME NEW r \in Call, CutOff(r) PROVE ResilienceTypeOK'
  BY <1>3, LeaveType DEF CutOff
<1>4. ASSUME NEW r \in Call, NEW here, NEW next \in Stage, CheckTransition(r, here, next)
      PROVE  ResilienceTypeOK'
  BY <1>4 DEF CheckTransition, Op
<1>5. ASSUME NEW r \in Call, FastFail(r) PROVE ResilienceTypeOK'
  BY <1>5 DEF FastFail, GoOn
<1>6. ASSUME NEW r \in Call, AcquireGlobal(r) PROVE ResilienceTypeOK'
  BY <1>6 DEF AcquireGlobal, GoOn
<1>7. ASSUME NEW r \in Call, AcquireBulkhead(r) PROVE ResilienceTypeOK'
  <2>1. CASE ~BulkheadFull(r)
    BY <1>7, <2>1 DEF AcquireBulkhead, GoOn
  <2>2. CASE BulkheadFull(r)
    BY <1>7, <2>2, LeaveType DEF AcquireBulkhead
  <2> QED  BY <2>1, <2>2
<1>8. ASSUME NEW r \in Call, ProbeNeeded(r) PROVE ResilienceTypeOK'
  BY <1>8 DEF ProbeNeeded, GoOn
<1>9. ASSUME NEW r \in Call, AllowRequest(r) PROVE ResilienceTypeOK'
  <2>1. CASE state = "closed"
    BY <1>9, <2>1 DEF AllowRequest
  <2>2. CASE state = "halfopen"
    BY <1>9, <2>2 DEF AllowRequest, GoOn
  <2>3. CASE state = "open"
    BY <1>9, <2>3, LeaveType DEF AllowRequest
  <2> QED  BY <2>1, <2>2, <2>3
<1>10. ASSUME NEW r \in Call, TakeSlot(r) PROVE ResilienceTypeOK'
  <2>0. strayed' \in BOOLEAN
    BY <1>10 DEF TakeSlot
  <2>1. CASE probes < HalfOpenMaxProbes
    <3>1. probes' = probes + 1 /\ stage' = [stage EXCEPT ![r] = "call"] /\ probe' = [probe EXCEPT ![r] = TRUE]
      BY <1>10, <2>1 DEF TakeSlot
    <3>2. UNCHANGED <<route, op, settling, failed, holders, partition, gauge, state, failures, successes, timer,
                      cutOff, leaked, overtaken>>
      BY <1>10, <2>1 DEF TakeSlot
    <3>3. probes + 1 \in 0..(Width - 1)
      BY <2>1
    <3> QED  BY <2>0, <3>1, <3>2, <3>3
  <2>2. CASE ~(probes < HalfOpenMaxProbes)
    BY <1>10, <2>0, <2>2, LeaveType DEF TakeSlot
  <2> QED  BY <2>1, <2>2
<1>11. ASSUME NEW r \in Call, NEW err \in BOOLEAN, ServiceAnswers(r, err) PROVE ResilienceTypeOK'
  BY <1>11 DEF ServiceAnswers
<1>12. ASSUME NEW r \in Call, Tracked(r) PROVE ResilienceTypeOK'
  BY <1>12 DEF Tracked, GoOn
<1>13. ASSUME NEW r \in Call, RecordFailure(r) \/ RecordSuccess(r) PROVE ResilienceTypeOK'
  <2>1. PICK next \in {"failure", "forgive", "release", "none"} : op' = [op EXCEPT ![r] = next]
    BY <1>13 DEF RecordFailure, RecordSuccess
  <2> QED  BY <1>13, <2>1 DEF RecordFailure, RecordSuccess, Op
<1>14. ASSUME NEW r \in Call, Finish(r) PROVE ResilienceTypeOK'
  BY <1>14, LeaveType DEF Finish
<1>15. ASSUME NEW r \in Call, ReadTimer(r) PROVE ResilienceTypeOK'
  BY <1>15, BreakerType DEF ReadTimer, Op
<1>16. ASSUME NEW r \in Call, Swap(r) PROVE ResilienceTypeOK'
  <2>1. settling[r] \in {"closed", "open", "halfopen"} /\ state' = settling[r]
    BY <1>16 DEF Swap
  <2>2. PICK next \in {"none", "opened_at", "successes", "failures"} : Then(r, next)
    BY <1>16, <2>1 DEF Swap
  <2>3. overtaken' \in BOOLEAN /\ strayed' \in BOOLEAN /\ leaked' = leaked
    BY <1>16 DEF Swap
  <2>4. UNCHANGED <<failures, successes, probes, timer, permits, cutOff>>
    BY <1>16 DEF Swap
  <2> QED  BY <2>1, <2>2, <2>3, <2>4, BreakerType DEF Op
<1>17. ASSUME NEW r \in Call, ResetOpenedAt(r) \/ ResetFailures(r) \/ ResetSuccesses(r) \/ ResetProbes(r)
       PROVE  ResilienceTypeOK'
  BY <1>17, BreakerType DEF ResetOpenedAt, ResetFailures, ResetSuccesses, ResetProbes, Op
<1>18. ASSUME NEW r \in Call, Forgive(r) \/ CountSuccess(r) \/ CountFailure(r) PROVE ResilienceTypeOK'
  BY <1>18, BreakerType DEF Forgive, CountSuccess, CountFailure, Op
<1>19. ASSUME NEW r \in Call, Release(r) PROVE ResilienceTypeOK'
  BY <1>19, BreakerType, Wraps DEF Release, Op
<1>20. CASE UNCHANGED resilienceVars
  BY <1>20 DEF resilienceVars
<1> QED  BY <1>1, <1>2, <1>3, <1>4, <1>5, <1>6, <1>7, <1>8, <1>9, <1>10, <1>11, <1>12, <1>13, <1>14,
            <1>15, <1>16, <1>17, <1>18, <1>19, <1>20 DEF ResilienceNext, Proceed, InBreaker

-----------------------------------------------------------------------------
(* The permits and the gauge *)

\* Stages with a global permit, stages the gauge counts, and who is in them.
Inside == Stage \ {"idle", "enter", "entered", "global"}
Serving == {"bulkhead", "probe", "probing", "allow", "allowing", "slot", "call"}
Served == {r \in holders : stage[r] \in Serving}
Within(b) == {h \in partition : route[h] = b}

\* A request has its global permit from its admission to its end, and a permit of
\* its bulkhead only after that; the gauge counts those that are being served.
PermitInv ==
    /\ IsFiniteSet(holders) /\ Cardinality(holders) <= MaxConcurrent
    /\ \A r \in Call : r \in holders <=> stage[r] \in Inside
    /\ \A r \in partition : stage[r] \in Inside /\ stage[r] # "bulkhead"
    /\ \A b \in Bulkhead : Cardinality(Within(b)) <= BulkheadMax
    /\ gauge = cutOff + Cardinality(Served)

\* The sets that are counted are finite.
LEMMA PermitSets ==
    ASSUME ResilienceTypeOK, PermitInv
    PROVE  /\ IsFiniteSet(Served) /\ Cardinality(Served) \in Nat /\ Cardinality(holders) \in Nat
           /\ \A b : IsFiniteSet(Within(b)) /\ Cardinality(Within(b)) \in Nat
<1>1. partition \subseteq holders
  BY DEF PermitInv, ResilienceTypeOK
<1>2. Served \subseteq holders /\ \A b : Within(b) \subseteq holders
  BY <1>1 DEF Served, Within
<1> QED  BY <1>2, FS_Subset, FS_CardinalityType DEF PermitInv

\* A request goes on, and neither enters, leaves nor ends its service.
LEMMA MoveStep ==
    ASSUME ResilienceTypeOK, PermitInv, NEW r \in Call, NEW new \in Stage,
           stage' = [stage EXCEPT ![r] = new], UNCHANGED <<route, holders, partition, gauge, cutOff>>,
           stage[r] \in Inside <=> new \in Inside, stage[r] \in Serving <=> new \in Serving,
           new # "bulkhead"
    PROVE  PermitInv'
<1>1. \A s \in Call : (stage'[s] \in Inside <=> stage[s] \in Inside)
                     /\ (stage'[s] \in Serving <=> stage[s] \in Serving)
                     /\ (stage'[s] = "bulkhead" => stage[s] = "bulkhead")
  BY DEF ResilienceTypeOK
<1>2. Served' = Served /\ \A b : Within(b)' = Within(b)
  BY <1>1 DEF Served, Within, ResilienceTypeOK
<1> QED  BY <1>1, <1>2 DEF PermitInv, ResilienceTypeOK

\* A request with a permit ends; the gauge counts it no longer, or it was dropped.
LEMMA LeaveStep ==
    ASSUME ResilienceTypeOK, PermitInv, NEW r \in Call, Leave(r), stage[r] \in Inside,
           gauge' \in Int, cutOff' \in Int,
           gauge' - cutOff' = gauge - cutOff - (IF stage[r] \in Serving THEN 1 ELSE 0)
    PROVE  PermitInv'
<1>1. holders' = holders \ {r} /\ partition' = partition \ {r} /\ route' = route /\ stage'[r] = "idle"
      /\ \A s \in Call : s # r => stage'[s] = stage[s]
  BY DEF Leave, ResilienceTypeOK
<1>2. IsFiniteSet(holders') /\ Cardinality(holders') <= MaxConcurrent
  <2>1. IsFiniteSet(holders \ {r}) /\ Cardinality(holders \ {r}) <= Cardinality(holders)
        /\ Cardinality(holders \ {r}) \in Nat
    BY FS_Subset, FS_CardinalityType, holders \ {r} \in SUBSET holders DEF PermitInv
  <2> QED  BY <1>1, <2>1, PermitSets, LimitAssumption DEF PermitInv
<1>3. \A s \in Call : s \in holders' <=> stage'[s] \in Inside
  BY <1>1 DEF PermitInv, Inside
<1>4. \A s \in partition' : stage'[s] \in Inside /\ stage'[s] # "bulkhead"
  BY <1>1 DEF PermitInv, ResilienceTypeOK
<1>5. ASSUME NEW b \in Bulkhead PROVE Cardinality(Within(b)') <= BulkheadMax
  <2>1. Within(b)' \subseteq Within(b)
    BY <1>1 DEF Within
  <2>2. IsFiniteSet(Within(b))
    BY PermitSets
  <2>3. Cardinality(Within(b)') <= Cardinality(Within(b)) /\ Cardinality(Within(b)') \in Nat
    BY <2>1, <2>2, FS_Subset, FS_CardinalityType
  <2> QED  BY <2>3, PermitSets, LimitAssumption DEF PermitInv
<1>6. gauge' = cutOff' + Cardinality(Served')
  <2>1. Served' = Served \ {r}
    BY <1>1 DEF Served, Serving, ResilienceTypeOK
  <2>2. r \in Served <=> stage[r] \in Serving
    BY DEF Served, PermitInv
  <2>3. IsFiniteSet(Served) /\ Cardinality(Served) \in Nat
    BY PermitSets
  <2>4. Cardinality(Served') = IF r \in Served THEN Cardinality(Served) - 1 ELSE Cardinality(Served)
    BY <2>1, <2>3, FS_RemoveElement
  <2> QED  BY <2>2, <2>3, <2>4 DEF PermitInv, ResilienceTypeOK
<1> QED  BY <1>2, <1>3, <1>4, <1>5, <1>6 DEF PermitInv

\* Admission: a global permit, or a rejection that takes nothing.
LEMMA AdmitStep == ASSUME ResilienceTypeOK, PermitInv, NEW r \in Call, AcquireGlobal(r) PROVE PermitInv'
<1>1. CASE ~(Cardinality(holders) < MaxConcurrent)
  <2>1. stage[r] = "global" /\ stage' = [stage EXCEPT ![r] = "idle"]
        /\ UNCHANGED <<route, holders, partition, gauge, cutOff>>
    BY <1>1 DEF AcquireGlobal, GoOn
  <2> QED  BY <2>1, MoveStep DEF Inside, Serving, Stage
<1>2. CASE Cardinality(holders) < MaxConcurrent
  <2>1. stage[r] = "global" /\ stage' = [stage EXCEPT ![r] = "bulkhead"] /\ holders' = holders \cup {r}
        /\ gauge' = gauge + 1 /\ UNCHANGED <<route, partition, cutOff>>
    BY <1>2 DEF AcquireGlobal, GoOn
  <2>2. r \notin holders /\ r \notin partition
    BY <2>1 DEF PermitInv, Inside
  <2>3. stage'[r] = "bulkhead" /\ \A s \in Call : s # r => stage'[s] = stage[s]
    BY <2>1 DEF ResilienceTypeOK
  <2>4. Served' = Served \cup {r} /\ r \notin Served /\ \A b : Within(b)' = Within(b)
    BY <2>1, <2>2, <2>3 DEF Served, Serving, Within, ResilienceTypeOK
  <2>5. IsFiniteSet(holders') /\ Cardinality(holders') = Cardinality(holders) + 1
    BY <2>1, <2>2, FS_AddElement DEF PermitInv
  <2>6. Cardinality(Served') = Cardinality(Served) + 1
    BY <2>4, PermitSets, FS_AddElement
  <2>7. Cardinality(holders') <= MaxConcurrent /\ gauge' = cutOff' + Cardinality(Served')
    BY <2>1, <2>5, <2>6, <1>2, PermitSets, LimitAssumption DEF PermitInv, ResilienceTypeOK
  <2>8. \A s \in Call : s \in holders' <=> stage'[s] \in Inside
    BY <2>1, <2>3 DEF PermitInv, Inside, Stage
  <2>9. \A s \in partition' : stage'[s] \in Inside /\ stage'[s] # "bulkhead"
    BY <2>1, <2>2, <2>3 DEF PermitInv, ResilienceTypeOK
  <2> QED  BY <2>1, <2>4, <2>5, <2>7, <2>8, <2>9 DEF PermitInv
<1> QED  BY <1>1, <1>2

\* A bulkhead permit, or a rejection that gives the global one back.
LEMMA PartitionStep == ASSUME ResilienceTypeOK, PermitInv, NEW r \in Call, AcquireBulkhead(r) PROVE PermitInv'
<1>1. CASE BulkheadFull(r)
  <2>1. stage[r] = "bulkhead" /\ Leave(r) /\ gauge' = gauge - 1 /\ cutOff' = cutOff
    BY <1>1 DEF AcquireBulkhead
  <2> QED  BY <2>1, LeaveStep DEF Inside, Serving, Stage, ResilienceTypeOK
<1>2. CASE ~BulkheadFull(r)
  <2>1. /\ stage[r] = "bulkhead" /\ stage' = [stage EXCEPT ![r] = "probe"]
        /\ partition' = IF route[r] = NoBulkhead THEN partition ELSE partition \cup {r}
        /\ UNCHANGED <<route, holders, gauge, cutOff>>
    BY <1>2 DEF AcquireBulkhead, GoOn
  <2>2. stage'[r] = "probe" /\ \A s \in Call : s # r => stage'[s] = stage[s]
    BY <2>1 DEF ResilienceTypeOK
  <2>3. Served' = Served
    BY <2>1, <2>2 DEF Served, Serving, ResilienceTypeOK
  <2>4. \A s \in Call : s \in holders' <=> stage'[s] \in Inside
    BY <2>1, <2>2 DEF PermitInv, Inside, Stage
  <2>5. \A s \in partition' : stage'[s] \in Inside /\ stage'[s] # "bulkhead"
    BY <2>1, <2>2 DEF PermitInv, ResilienceTypeOK, Inside, Stage
  <2>6. ASSUME NEW b \in Bulkhead PROVE Cardinality(Within(b)') <= BulkheadMax
    <3>1. CASE route[r] # b \/ route[r] = NoBulkhead
      <4>1. Within(b)' = Within(b)
        BY <2>1, <3>1, LimitAssumption DEF Within
      <4> QED  BY <4>1 DEF PermitInv
    <3>2. CASE route[r] = b /\ route[r] # NoBulkhead
      <4>1. Within(b)' = Within(b) \cup {r}
        BY <2>1, <3>2 DEF Within
      <4>2. Cardinality(Within(b)) < BulkheadMax
        BY <1>2, <3>2, PermitSets, LimitAssumption DEF BulkheadFull, Within
      <4>3. IsFiniteSet(Within(b)) /\ Cardinality(Within(b)) \in Nat
        BY PermitSets
      <4>4. Cardinality(Within(b) \cup {r}) \in {Cardinality(Within(b)), Cardinality(Within(b)) + 1}
        BY <4>3, FS_AddElement
      <4> QED  BY <4>1, <4>2, <4>3, <4>4, LimitAssumption
    <3> QED  BY <3>1, <3>2
  <2> QED  BY <2>1, <2>3, <2>4, <2>5, <2>6 DEF PermitInv
<1> QED  BY <1>1, <1>2

\* The answer of the service takes the request off the gauge.
LEMMA AnswerStep ==
    ASSUME ResilienceTypeOK, PermitInv, NEW r \in Call, NEW err, ServiceAnswers(r, err) PROVE PermitInv'
<1>1. /\ stage[r] = "call" /\ gauge' = gauge - 1
      /\ stage' = [stage EXCEPT ![r] = IF probe[r] THEN "record" ELSE "outcome"]
      /\ UNCHANGED <<route, holders, partition, cutOff>>
  BY DEF ServiceAnswers
<1>2. stage'[r] \in {"outcome", "record"} /\ \A s \in Call : s # r => stage'[s] = stage[s]
  BY <1>1 DEF ResilienceTypeOK
<1>3. r \in Served /\ Served' = Served \ {r} /\ \A b : Within(b)' = Within(b)
  BY <1>1, <1>2 DEF Served, Serving, Within, PermitInv, Inside, Stage, ResilienceTypeOK
<1>4. IsFiniteSet(Served) /\ Cardinality(Served) \in Nat
  BY PermitSets
<1>5. Cardinality(Served') = Cardinality(Served) - 1
  BY <1>3, <1>4, FS_RemoveElement
<1>6. gauge' = cutOff' + Cardinality(Served')
  BY <1>1, <1>4, <1>5 DEF PermitInv, ResilienceTypeOK
<1>7. \A s \in Call : s \in holders' <=> stage'[s] \in Inside
  BY <1>1, <1>2 DEF PermitInv, Inside, Stage
<1>8. \A s \in partition' : stage'[s] \in Inside /\ stage'[s] # "bulkhead"
  BY <1>1, <1>2 DEF PermitInv, ResilienceTypeOK, Inside, Stage
<1> QED  BY <1>1, <1>3, <1>6, <1>7, <1>8 DEF PermitInv

\* A new request holds nothing yet, whatever its route.
LEMMA ArriveStep ==
    ASSUME ResilienceTypeOK, PermitInv, NEW r \in Call, NEW b, ArriveCall(r, b) PROVE PermitInv'
<1>1. /\ stage[r] = "idle" /\ stage' = [stage EXCEPT ![r] = "enter"] /\ route' = [route EXCEPT ![r] = b]
      /\ UNCHANGED <<holders, partition, gauge, cutOff>>
  BY DEF ArriveCall, permits
<1>2. \A s \in Call : s # r => stage'[s] = stage[s] /\ route'[s] = route[s]
  BY <1>1 DEF ResilienceTypeOK
<1>3. r \notin holders /\ r \notin partition /\ stage'[r] = "enter"
  BY <1>1 DEF PermitInv, Inside, ResilienceTypeOK
<1>4. Served' = Served /\ \A c : Within(c)' = Within(c)
  BY <1>1, <1>2, <1>3 DEF Served, Within, ResilienceTypeOK
<1>5. \A s \in Call : s \in holders' <=> stage'[s] \in Inside
  BY <1>1, <1>2, <1>3 DEF PermitInv, Inside, Stage
<1>6. \A s \in partition' : stage'[s] \in Inside /\ stage'[s] # "bulkhead"
  BY <1>1, <1>2, <1>3 DEF PermitInv, ResilienceTypeOK
<1> QED  BY <1>1, <1>4, <1>5, <1>6 DEF PermitInv

\* Nothing is admitted, served or ended.
LEMMA PermitsSame ==
    ASSUME ResilienceTypeOK, PermitInv, UNCHANGED <<stage, route, holders, partition, gauge, cutOff>>
    PROVE  PermitInv'
  BY DEF PermitInv, Served, Within

\* One step per action: it moves, ends, or is one of the lemmas above.
LEMMA PermitStep == ResilienceTypeOK /\ PermitInv /\ [ResilienceNext]_resilienceVars => PermitInv'
<1> SUFFICES ASSUME ResilienceTypeOK, PermitInv, [ResilienceNext]_resilienceVars PROVE PermitInv'
  OBVIOUS
<1> USE DEF breaker, permits, callLocals
<1> DEFINE Moves(r, here, new) ==
      /\ stage[r] = here /\ stage' = [stage EXCEPT ![r] = new]
      /\ UNCHANGED <<route, holders, partition, gauge, cutOff>>
<1>0. ASSUME NEW r \in Call, NEW here \in Stage, NEW new \in Stage, Moves(r, here, new),
             here \in Inside <=> new \in Inside, here \in Serving <=> new \in Serving, new # "bulkhead"
      PROVE  PermitInv'
  BY <1>0, MoveStep
<1>1. CASE Elapse
  BY <1>1, PermitsSame DEF Elapse
<1>2. ASSUME NEW r \in Call, NEW b \in Bulkhead \cup {NoBulkhead}, ArriveCall(r, b) PROVE PermitInv'
  BY <1>2, ArriveStep
<1>3. ASSUME NEW r \in Call, CutOff(r) PROVE PermitInv'
  <2>1. stage[r] = "call" /\ Leave(r) /\ gauge' = gauge /\ cutOff' = cutOff + 1
    BY <1>3 DEF CutOff
  <2> QED  BY <2>1, LeaveStep DEF ResilienceTypeOK, Inside, Serving, Stage
<1>4. ASSUME NEW r \in Call, NEW here \in Stage, NEW new \in Stage, CheckTransition(r, here, new),
             here \in Inside <=> new \in Inside, here \in Serving <=> new \in Serving, new # "bulkhead"
      PROVE  PermitInv'
  <2>1. Moves(r, here, new)
    BY <1>4 DEF CheckTransition
  <2> QED  BY <1>4, <2>1, <1>0
<1>5. ASSUME NEW r \in Call, FastFail(r) PROVE PermitInv'
  <2>1. Moves(r, "entered", "idle") \/ Moves(r, "entered", "global")
    BY <1>5 DEF FastFail, GoOn
  <2> QED  BY <2>1, <1>0 DEF Inside, Serving, Stage
<1>6. ASSUME NEW r \in Call, AcquireGlobal(r) PROVE PermitInv'
  BY <1>6, AdmitStep
<1>7. ASSUME NEW r \in Call, AcquireBulkhead(r) PROVE PermitInv'
  BY <1>7, PartitionStep
<1>8. ASSUME NEW r \in Call, ProbeNeeded(r) PROVE PermitInv'
  <2>1. Moves(r, "probing", "allow") \/ Moves(r, "probing", "call")
    BY <1>8 DEF ProbeNeeded, GoOn
  <2> QED  BY <2>1, <1>0 DEF Inside, Serving, Stage
<1>9. ASSUME NEW r \in Call, AllowRequest(r) PROVE PermitInv'
  <2>1. \/ Moves(r, "allowing", "call") \/ Moves(r, "allowing", "slot")
        \/ stage[r] = "allowing" /\ Leave(r) /\ gauge' = gauge - 1 /\ cutOff' = cutOff
    BY <1>9 DEF AllowRequest, GoOn, ResilienceTypeOK
  <2> QED  BY <2>1, <1>0, LeaveStep DEF Inside, Serving, Stage, ResilienceTypeOK
<1>10. ASSUME NEW r \in Call, TakeSlot(r) PROVE PermitInv'
  <2>1. \/ Moves(r, "slot", "call")
        \/ stage[r] = "slot" /\ Leave(r) /\ gauge' = gauge - 1 /\ cutOff' = cutOff
    BY <1>10 DEF TakeSlot
  <2> QED  BY <2>1, <1>0, LeaveStep DEF Inside, Serving, Stage, ResilienceTypeOK
<1>11. ASSUME NEW r \in Call, NEW err \in BOOLEAN, ServiceAnswers(r, err) PROVE PermitInv'
  BY <1>11, AnswerStep
<1>12. ASSUME NEW r \in Call, Tracked(r) PROVE PermitInv'
  <2>1. Moves(r, "tracking", "record") \/ Moves(r, "tracking", "final")
    BY <1>12 DEF Tracked, GoOn
  <2> QED  BY <2>1, <1>0 DEF Inside, Serving, Stage
<1>13. ASSUME NEW r \in Call, RecordFailure(r) PROVE PermitInv'
  <2>1. Moves(r, "record", "final")
    BY <1>13 DEF RecordFailure
  <2> QED  BY <2>1, <1>0 DEF Inside, Serving, Stage
<1>14. ASSUME NEW r \in Call, RecordSuccess(r) PROVE PermitInv'
  <2>1. Moves(r, "record", "final")
    BY <1>14 DEF RecordSuccess
  <2> QED  BY <2>1, <1>0 DEF Inside, Serving, Stage
<1>15. ASSUME NEW r \in Call, Finish(r) PROVE PermitInv'
  <2>1. stage[r] = "finish" /\ Leave(r) /\ gauge' = gauge /\ cutOff' = cutOff
    BY <1>15 DEF Finish
  <2> QED  BY <2>1, LeaveStep DEF ResilienceTypeOK, Inside, Serving, Stage
<1>16. ASSUME NEW r \in Call, InBreaker(r) PROVE PermitInv'
  <2>1. UNCHANGED <<stage, route, holders, partition, gauge, cutOff>>
    BY <1>16 DEF InBreaker, ReadTimer, Swap, ResetOpenedAt, ResetFailures, ResetSuccesses, ResetProbes,
       Forgive, Release, CountSuccess, CountFailure, Then, Transit
  <2> QED  BY <2>1, PermitsSame
<1>17. CASE UNCHANGED resilienceVars
  BY <1>17, PermitsSame DEF resilienceVars
<1>18. ASSUME NEW r \in Call,
              \/ CheckTransition(r, "enter", "entered") \/ CheckTransition(r, "probe", "probing")
              \/ CheckTransition(r, "allow", "allowing") \/ CheckTransition(r, "outcome", "tracking")
              \/ CheckTransition(r, "final", "finish")
       PROVE  PermitInv'
  BY <1>18, <1>4 DEF Inside, Serving, Stage
<1> QED  BY <1>1, <1>2, <1>3, <1>5, <1>6, <1>7, <1>8, <1>9, <1>10, <1>11, <1>12, <1>13, <1>14,
            <1>15, <1>16, <1>17, <1>18 DEF ResilienceNext, Proceed

-----------------------------------------------------------------------------
(* The probe slots *)

\* Stages after the outcome is recorded, and after a probe is let through.
Past == {"final", "finish"}
Late == {"call", "record"} \cup Past

\* Where a request may be inside the breaker.
Waiting == {"entered", "probing", "allowing", "tracking"} \cup Past

\* Only a request that was let through is a probe, it gives its slot back once
\* its outcome is recorded, and a request does nothing while it is in the breaker.
ProbesLate ==
    \A r \in Call : /\ probe[r] => stage[r] \in Late
                    /\ op[r] = "release" => stage[r] = "final"
                    /\ op[r] # "none" => stage[r] \in Waiting

\* The resets after a swap, and who has that of probe_count still to do.
Resets == {"opened_at", "failures", "successes", "probes"}
Ahead == {r \in Call : op[r] \in Resets \ {"opened_at"} \/ (op[r] = "opened_at" /\ settling[r] = "open")}

\* Once all resets are done, probe_count is the number of probes and of those
\* that were dropped; until then there is none, and probe_count is zero as soon
\* as nobody has it still to reset.  Only probes release a slot.
SlotsCounted ==
    state = "halfopen" /\ ~strayed =>
        /\ Settling = {} => probes = Cardinality(Probes) + leaked
        /\ Settling # {} => Probes = {}
        /\ Settling # {} /\ Ahead = {} => probes = 0 /\ leaked = 0
        /\ \A r \in Call : stage[r] = "record" \/ op[r] = "release" => probe[r]

\* A step of r leaves the other requests alone.
Aside(r) == \A s \in Call : s # r => /\ stage'[s] = stage[s] /\ probe'[s] = probe[s]
                                     /\ op'[s] = op[s] /\ settling'[s] = settling[s]

\* A request that ends is no probe.
LEMMA LeaveProbes ==
    ASSUME ResilienceTypeOK, NEW r \in Call, Leave(r)
    PROVE  ~probe'[r] /\ stage'[r] = "idle" /\ op'[r] = op[r] /\ settling'[r] = settling[r] /\ Aside(r)
  BY DEF Leave, ResilienceTypeOK, Aside

\* A request that goes on in the middleware.
LEMMA GoOnAside ==
    ASSUME ResilienceTypeOK, NEW r \in Call, NEW next, GoOn(r, next)
    PROVE  stage'[r] = next /\ probe'[r] = probe[r] /\ op'[r] = op[r] /\ settling'[r] = settling[r] /\ Aside(r)
  BY DEF GoOn, ResilienceTypeOK, Aside

\* A request that goes on inside the breaker.
LEMMA ThenAside ==
    ASSUME ResilienceTypeOK, NEW r \in Call, NEW next, Then(r, next)
    PROVE  /\ stage'[r] = stage[r] /\ probe'[r] = probe[r] /\ op'[r] = next /\ Aside(r)
           /\ settling'[r] = IF next = "none" THEN "no" ELSE settling[r]
  BY DEF Then, ResilienceTypeOK, Aside

LEMMA TransitAside ==
    ASSUME ResilienceTypeOK, NEW r \in Call, NEW new, Transit(r, new)
    PROVE  stage'[r] = stage[r] /\ probe'[r] = probe[r] /\ op'[r] = "swap" /\ settling'[r] = new /\ Aside(r)
  BY DEF Transit, ResilienceTypeOK, Aside

\* A request that becomes a probe.
LEMMA ProbeAside ==
    ASSUME ResilienceTypeOK, NEW r \in Call, stage' = [stage EXCEPT ![r] = "call"],
           probe' = [probe EXCEPT ![r] = TRUE], UNCHANGED <<op, settling>>
    PROVE  stage'[r] = "call" /\ probe'[r] /\ op'[r] = op[r] /\ settling'[r] = settling[r] /\ Aside(r)
  BY DEF ResilienceTypeOK, Aside

\* The check for an elapsed timer begins.
LEMMA CheckAside ==
    ASSUME ResilienceTypeOK, NEW r \in Call, NEW here, NEW next, CheckTransition(r, here, next)
    PROVE  /\ stage[r] = here /\ stage'[r] = next /\ probe'[r] = probe[r] /\ settling'[r] = settling[r]
           /\ op[r] = "none" /\ op'[r] \in {"elapsed", "none"} /\ Aside(r)
           /\ UNCHANGED <<state, probes, leaked, strayed>>
  BY DEF CheckTransition, ResilienceTypeOK, Aside, breaker, breakerHistory

\* An outcome is recorded.
LEMMA RecordAside ==
    ASSUME ResilienceTypeOK, NEW r \in Call, RecordFailure(r) \/ RecordSuccess(r)
    PROVE  /\ stage[r] = "record" /\ stage'[r] = "final" /\ probe'[r] = probe[r] /\ settling'[r] = settling[r]
           /\ op'[r] \in {"failure", "forgive", "release", "none"} /\ Aside(r)
           /\ state = "halfopen" => op'[r] = "release"
           /\ UNCHANGED <<state, probes, leaked, strayed>>
<1>1. PICK next \in {"failure", "forgive", "release", "none"} :
         op' = [op EXCEPT ![r] = next] /\ (state = "halfopen" => next = "release")
  BY DEF RecordFailure, RecordSuccess, ResilienceTypeOK
<1>2. /\ stage[r] = "record" /\ stage' = [stage EXCEPT ![r] = "final"]
      /\ UNCHANGED <<probe, settling, state, probes, leaked, strayed>>
  BY DEF RecordFailure, RecordSuccess, breaker, breakerHistory
<1> QED  BY <1>1, <1>2 DEF ResilienceTypeOK, Aside

\* The service answers.
LEMMA AnswerAside ==
    ASSUME ResilienceTypeOK, NEW r \in Call, NEW err, ServiceAnswers(r, err)
    PROVE  /\ stage[r] = "call" /\ stage'[r] = (IF probe[r] THEN "record" ELSE "outcome")
           /\ probe'[r] = probe[r] /\ op'[r] = op[r] /\ settling'[r] = settling[r] /\ Aside(r)
           /\ UNCHANGED <<state, probes, leaked, strayed>>
  BY DEF ServiceAnswers, ResilienceTypeOK, Aside, breaker, breakerHistory

\* A new request.
LEMMA ArriveAside ==
    ASSUME ResilienceTypeOK, NEW r \in Call, NEW b, ArriveCall(r, b)
    PROVE  /\ stage[r] = "idle" /\ stage'[r] = "enter"
           /\ probe'[r] = probe[r] /\ op'[r] = op[r] /\ settling'[r] = settling[r] /\ Aside(r)
           /\ UNCHANGED <<state, probes, leaked, strayed>>
  BY DEF ArriveCall, ResilienceTypeOK, Aside, breaker, breakerHistory

-----------------------------------------------------------------------------

\* A step of r that keeps it where it may be a probe.
LEMMA LateStep ==
    ASSUME ProbesLate, NEW r \in Call, Aside(r),
           probe'[r] => stage'[r] \in Late, op'[r] = "release" => stage'[r] = "final",
           op'[r] # "none" => stage'[r] \in Waiting
    PROVE  ProbesLate'
  BY DEF ProbesLate, Aside

\* Every step keeps probes among the requests that were let through.
LEMMA ProbesLateStep == ResilienceTypeOK /\ ProbesLate /\ [ResilienceNext]_resilienceVars => ProbesLate'
<1> SUFFICES ASSUME ResilienceTypeOK, ProbesLate, [ResilienceNext]_resilienceVars PROVE ProbesLate'
  OBVIOUS
<1> USE DEF breaker, permits, callLocals, Late, Past, Waiting
<1>0. \A r \in Call : /\ probe[r] => stage[r] \in Late
                      /\ op[r] = "release" => stage[r] = "final"
                      /\ op[r] # "none" => stage[r] \in Waiting
  BY DEF ProbesLate
<1>1. ASSUME NEW r \in Call, Leave(r), op[r] = "none" PROVE ProbesLate'
  BY <1>0, <1>1, LeaveProbes, LateStep
<1>2. ASSUME NEW r \in Call, op[r] = "none", stage' = [stage EXCEPT ![r] = "call"],
             probe' = [probe EXCEPT ![r] = TRUE], UNCHANGED <<op, settling>>
      PROVE  ProbesLate'
  BY <1>0, <1>2, ProbeAside, LateStep
<1>3. CASE UNCHANGED <<stage, probe, op>>
  BY <1>3 DEF ProbesLate
<1>4. ASSUME NEW r \in Call, NEW b \in Bulkhead \cup {NoBulkhead}, ArriveCall(r, b) PROVE ProbesLate'
  BY <1>0, <1>4, ArriveAside, LateStep
<1>5. ASSUME NEW r \in Call, NEW next, GoOn(r, next), op[r] = "none", stage[r] \in Late => next \in Late
      PROVE  ProbesLate'
  BY <1>0, <1>5, GoOnAside, LateStep
<1>6. ASSUME NEW r \in Call, FastFail(r) \/ ProbeNeeded(r) \/ Tracked(r) PROVE ProbesLate'
  <2>1. stage[r] \in {"entered", "probing", "tracking"} /\ op[r] = "none"
        /\ \E next : GoOn(r, next) /\ (stage[r] = "tracking" => next \in {"record", "final"})
    BY <1>6 DEF FastFail, ProbeNeeded, Tracked
  <2> QED  BY <2>1, <1>5
<1>7. ASSUME NEW r \in Call, AcquireGlobal(r) \/ AcquireBulkhead(r) PROVE ProbesLate'
  <2>1. stage[r] \in {"global", "bulkhead"} /\ (Leave(r) \/ \E next : GoOn(r, next))
    BY <1>7 DEF AcquireGlobal, AcquireBulkhead
  <2> QED  BY <2>1, <1>0, <1>1, <1>5
<1>8. ASSUME NEW r \in Call, AllowRequest(r) \/ TakeSlot(r) PROVE ProbesLate'
  <2>1. /\ stage[r] \in {"allowing", "slot"} /\ (stage[r] = "allowing" => op[r] = "none")
        /\ \/ /\ stage' = [stage EXCEPT ![r] = "call"] /\ probe' = [probe EXCEPT ![r] = TRUE]
              /\ UNCHANGED <<op, settling>>
           \/ GoOn(r, "slot")
           \/ Leave(r)
    BY <1>8 DEF AllowRequest, TakeSlot, ResilienceTypeOK
  <2>2. op[r] = "none"
    BY <2>1, <1>0
  <2> QED  BY <2>1, <2>2, <1>1, <1>2, <1>5
<1>9. ASSUME NEW r \in Call, NEW err \in BOOLEAN, ServiceAnswers(r, err) PROVE ProbesLate'
  <2>1. stage[r] = "call" /\ (probe[r] => stage'[r] \in Late)
    BY <1>9, AnswerAside
  <2> QED  BY <1>0, <1>9, <2>1, AnswerAside, LateStep
<1>10. ASSUME NEW r \in Call, RecordFailure(r) \/ RecordSuccess(r) PROVE ProbesLate'
  BY <1>10, RecordAside, LateStep
<1>11. ASSUME NEW r \in Call, CutOff(r) PROVE ProbesLate'
  BY <1>11, <1>0, <1>1 DEF CutOff
<1>12. ASSUME NEW r \in Call, Finish(r) PROVE ProbesLate'
  BY <1>12, <1>1 DEF Finish
<1>13. ASSUME NEW r \in Call, InBreaker(r) PROVE ProbesLate'
  <2>1. /\ op[r] # "none"
        /\ \/ \E next \in Op \ {"release"} : Then(r, next)
           \/ \E new : Transit(r, new)
    BY <1>13 DEF InBreaker, ReadTimer, Swap, ResetOpenedAt, ResetFailures, ResetSuccesses, ResetProbes,
       Forgive, Release, CountSuccess, CountFailure, Op, ResilienceTypeOK
  <2>2. stage'[r] = stage[r] /\ probe'[r] = probe[r] /\ op'[r] # "release" /\ Aside(r)
    BY <2>1, ThenAside, TransitAside
  <2>3. (probe'[r] => stage'[r] \in Late) /\ stage'[r] \in Waiting
    BY <1>0, <2>1, <2>2
  <2> QED  BY <2>2, <2>3, LateStep
<1>14. ASSUME NEW r \in Call, NEW here, NEW next \in Waiting, CheckTransition(r, here, next),
              here \in Late => next \in Late
       PROVE  ProbesLate'
  <2>1. stage[r] = here /\ stage'[r] = next /\ probe'[r] = probe[r] /\ op'[r] # "release" /\ Aside(r)
    BY <1>14, CheckAside
  <2>2. probe'[r] => stage'[r] \in Late
    BY <1>0, <1>14, <2>1
  <2> QED  BY <1>14, <2>1, <2>2, LateStep
<1>15. ASSUME NEW r \in Call,
              \/ CheckTransition(r, "enter", "entered") \/ CheckTransition(r, "probe", "probing")
              \/ CheckTransition(r, "allow", "allowing") \/ CheckTransition(r, "outcome", "tracking")
              \/ CheckTransition(r, "final", "finish")
       PROVE  ProbesLate'
  BY <1>15, <1>14
<1>16. CASE Elapse \/ UNCHANGED resilienceVars
  BY <1>16, <1>3 DEF Elapse, resilienceVars
<1> QED  BY <1>4, <1>6, <1>7, <1>8, <1>9, <1>10, <1>11, <1>12, <1>13, <1>15, <1>16
         DEF ResilienceNext, Proceed

-----------------------------------------------------------------------------

\* Probes hold a global permit, so there are finitely many of them.
LEMMA ProbesFinite ==
    ASSUME ResilienceTypeOK, PermitInv, ProbesLate
    PROVE  IsFiniteSet(Probes) /\ Cardinality(Probes) \in Nat
<1>1. Probes \subseteq holders
  BY DEF Probes, ProbesLate, PermitInv, Late, Past, Inside, Stage
<1>2. IsFiniteSet(holders)
  BY DEF PermitInv
<1> QED  BY <1>1, <1>2, FS_Subset, FS_CardinalityType

\* A step of r that leaves the slots alone, and keeps r a probe in flight, or none.
LEMMA QuietSlots ==
    ASSUME ResilienceTypeOK, SlotsCounted, NEW r \in Call, Aside(r), UNCHANGED <<state, probes, leaked, strayed>>,
           r \in Probes <=> probe'[r] /\ (stage'[r] \notin Past \/ op'[r] = "release"),
           op[r] \notin Resets, op'[r] \notin Resets,
           state = "halfopen" /\ ~strayed /\ (stage'[r] = "record" \/ op'[r] = "release") => probe'[r]
    PROVE  SlotsCounted'
<1>1. Probes' = Probes
  BY DEF Probes, Past, Aside
<1>2. Settling' = Settling /\ Ahead' = Ahead
  BY DEF Settling, Ahead, Resets, Aside
<1>3. ASSUME state = "halfopen" /\ ~strayed, NEW s \in Call, stage'[s] = "record" \/ op'[s] = "release"
      PROVE  probe'[s]
  BY <1>3 DEF SlotsCounted, Aside
<1> QED  BY <1>1, <1>2, <1>3 DEF SlotsCounted

\* A slot is taken by a request that was no probe.
LEMMA TakeSlotCounts ==
    ASSUME ResilienceTypeOK, PermitInv, ProbesLate, SlotsCounted, NEW r \in Call, TakeSlot(r)
    PROVE  SlotsCounted'
<1>1. r \notin Probes /\ stage[r] = "slot" /\ op[r] = "none"
  BY DEF TakeSlot, ProbesLate, Probes, Late, Past, Waiting
<1>2. CASE strayed' \/ state' # "halfopen"
  BY <1>2 DEF SlotsCounted
<1>3. CASE ~strayed' /\ state' = "halfopen"
  <2>1. ~strayed /\ Settling = {} /\ state = "halfopen" /\ UNCHANGED <<state, leaked, strayed>>
    BY <1>3 DEF TakeSlot, ResilienceTypeOK
  <2>2. probes = Cardinality(Probes) + leaked
    BY <2>1 DEF SlotsCounted
  <2>3. CASE probes < HalfOpenMaxProbes
    <3>1. probes' = probes + 1 /\ stage' = [stage EXCEPT ![r] = "call"]
          /\ probe' = [probe EXCEPT ![r] = TRUE] /\ UNCHANGED <<op, settling>>
      BY <2>3 DEF TakeSlot
    <3>2. Probes' = Probes \cup {r}
      BY <3>1 DEF Probes, ResilienceTypeOK
    <3>3. IsFiniteSet(Probes) /\ Cardinality(Probes) \in Nat
      BY ProbesFinite
    <3>4. Cardinality(Probes \cup {r}) = Cardinality(Probes) + 1
      BY <3>3, <1>1, FS_AddElement
    <3>5. Settling' = {}
      BY <3>1, <2>1 DEF Settling
    <3>6. \A s \in Call : stage'[s] = "record" \/ op'[s] = "release" => probe'[s]
      BY <1>1, <2>1, <3>1, ProbeAside DEF SlotsCounted, Aside
    <3>7. probes' = Cardinality(Probes') + leaked'
      BY <2>1, <2>2, <3>1, <3>2, <3>3, <3>4 DEF ResilienceTypeOK
    <3> QED  BY <3>5, <3>6, <3>7 DEF SlotsCounted
  <2>4. CASE ~(probes < HalfOpenMaxProbes)
    <3>1. Leave(r) /\ UNCHANGED probes
      BY <2>4 DEF TakeSlot
    <3>2. ~probe'[r] /\ stage'[r] = "idle" /\ op'[r] = op[r] /\ Aside(r)
      BY <3>1, LeaveProbes
    <3> QED  BY <1>1, <2>1, <3>1, <3>2, QuietSlots DEF Past, Resets
  <2> QED  BY <2>3, <2>4
<1> QED  BY <1>2, <1>3

\* A recorded outcome gives back the slot of its probe.
LEMMA ReleaseCounts ==
    ASSUME ResilienceTypeOK, PermitInv, ProbesLate, SlotsCounted, NEW r \in Call, Release(r)
    PROVE  SlotsCounted'
<1>1. CASE strayed' \/ state' # "halfopen"
  BY <1>1 DEF SlotsCounted
<1>2. CASE ~strayed' /\ state' = "halfopen"
  <2>1. /\ ~strayed /\ state = "halfopen" /\ op[r] = "release" /\ leaked' = leaked
        /\ probes' = (probes - 1) % Width
    BY <1>2 DEF Release, breakerHistory
  <2>2. stage[r] = "final" /\ probe[r] /\ r \in Probes
    BY <2>1 DEF ProbesLate, SlotsCounted, Probes
  <2>3. Settling = {} /\ probes = Cardinality(Probes) + leaked
    BY <2>1, <2>2 DEF SlotsCounted
  <2>4. stage'[r] = stage[r] /\ probe'[r] = probe[r] /\ op'[r] \in {"swap", "success"} /\ Aside(r)
    BY ThenAside, TransitAside DEF Release
  <2>5. Probes' = Probes \ {r}
    BY <2>2, <2>4 DEF Probes, Aside
  <2>6. Settling' = {}
    BY <2>3, <2>4 DEF Settling, Aside
  <2>7. IsFiniteSet(Probes) /\ Cardinality(Probes) \in Nat
    BY ProbesFinite
  <2>8. Cardinality(Probes \ {r}) = Cardinality(Probes) - 1 /\ Cardinality(Probes \ {r}) \in Nat
    <3>1. IsFiniteSet(Probes \ {r})
      BY <2>7, FS_RemoveElement
    <3> QED  BY <2>2, <2>7, <3>1, FS_RemoveElement, FS_CardinalityType
  <2>9. probes' = probes - 1
    <3>1. probes \in 0..(Width - 1) /\ leaked \in Nat /\ Width \in Nat
      BY LimitAssumption DEF ResilienceTypeOK
    <3>2. Cardinality(Probes) >= 1
      BY <2>7, <2>8
    <3>3. probes >= 1
      BY <2>3, <2>7, <3>1, <3>2
    <3> QED  BY <2>1, <3>1, <3>3
  <2>10. probes' = Cardinality(Probes') + leaked'
    BY <2>1, <2>3, <2>5, <2>7, <2>8, <2>9 DEF ResilienceTypeOK
  <2>11. \A s \in Call : stage'[s] = "record" \/ op'[s] = "release" => probe'[s]
    BY <2>1, <2>2, <2>4 DEF SlotsCounted, Aside
  <2> QED  BY <2>6, <2>10, <2>11 DEF SlotsCounted
<1> QED  BY <1>1, <1>2

\* A dropped probe keeps its slot.
LEMMA CutOffCounts ==
    ASSUME ResilienceTypeOK, PermitInv, ProbesLate, SlotsCounted, NEW r \in Call, CutOff(r)
    PROVE  SlotsCounted'
<1>1. stage[r] = "call" /\ Leave(r) /\ UNCHANGED <<state, probes, strayed>> /\ op[r] = "none"
  BY DEF CutOff, breaker, ProbesLate, Waiting, Past
<1>2. ~probe'[r] /\ stage'[r] = "idle" /\ op'[r] = op[r] /\ Aside(r)
  BY <1>1, LeaveProbes
<1>3. CASE ~probe[r]
  <2>1. leaked' = leaked /\ r \notin Probes
    BY <1>3 DEF CutOff, Probes
  <2> QED  BY <1>1, <1>2, <2>1, QuietSlots DEF Past, Resets
<1>4. CASE probe[r] /\ state = "halfopen" /\ ~strayed
  <2>1. leaked' = leaked + 1 /\ r \in Probes
    BY <1>1, <1>4 DEF CutOff, Probes
  <2>2. Settling = {} /\ probes = Cardinality(Probes) + leaked
    BY <1>4, <2>1 DEF SlotsCounted
  <2>3. Probes' = Probes \ {r}
    BY <1>2 DEF Probes, Aside
  <2>4. Settling' = {}
    BY <1>2, <2>2 DEF Settling, Aside
  <2>5. IsFiniteSet(Probes) /\ Cardinality(Probes) \in Nat
    BY ProbesFinite
  <2>6. Cardinality(Probes \ {r}) = Cardinality(Probes) - 1
    BY <2>1, <2>5, FS_RemoveElement
  <2>7. probes' = Cardinality(Probes') + leaked'
    BY <1>1, <2>1, <2>2, <2>3, <2>5, <2>6 DEF ResilienceTypeOK
  <2>8. \A s \in Call : stage'[s] = "record" \/ op'[s] = "release" => probe'[s]
    BY <1>1, <1>2, <1>4 DEF SlotsCounted, Aside
  <2> QED  BY <2>4, <2>7, <2>8 DEF SlotsCounted
<1>5. CASE state # "halfopen" \/ strayed
  BY <1>1, <1>5 DEF SlotsCounted
<1> QED  BY <1>3, <1>4, <1>5

\* The swap to half-open finds no probe, or one has strayed.
LEMMA SwapCounts ==
    ASSUME ResilienceTypeOK, ProbesLate, SlotsCounted, NEW r \in Call, Swap(r)
    PROVE  SlotsCounted'
<1>1. op[r] = "swap" /\ state' = settling[r] /\ UNCHANGED probes
  BY DEF Swap
<1>2. CASE state = settling[r]
  <2>1. Then(r, "none") /\ UNCHANGED <<state, leaked, strayed>>
    BY <1>1, <1>2 DEF Swap, breakerHistory
  <2>2. stage'[r] = stage[r] /\ probe'[r] = probe[r] /\ op'[r] = "none" /\ Aside(r)
    BY <2>1, ThenAside
  <2>3. state = "halfopen" /\ ~strayed /\ stage[r] = "record" => probe[r]
    BY DEF SlotsCounted
  <2> QED  BY <1>1, <2>1, <2>2, <2>3, QuietSlots DEF Probes, Past, Resets
<1>3. CASE state # settling[r] /\ settling[r] = "halfopen" /\ ~strayed'
  <2>1. Then(r, "successes") /\ Using = {}
    BY <1>3 DEF Swap
  <2>2. stage'[r] = stage[r] /\ probe'[r] = probe[r] /\ op'[r] = "successes" /\ Aside(r)
    BY <2>1, ThenAside
  <2>3. Probes' = {} /\ \A s \in Call : ~(stage'[s] = "record" \/ op'[s] = "release")
    BY <1>1, <2>1, <2>2 DEF Using, Probes, Aside
  <2>4. r \in Settling' /\ r \in Ahead'
    BY <2>2 DEF Settling, Ahead, Resets
  <2> QED  BY <2>3, <2>4 DEF SlotsCounted
<1>4. CASE settling[r] # "halfopen" \/ strayed'
  BY <1>1, <1>4 DEF SlotsCounted
<1> QED  BY <1>2, <1>3, <1>4

\* The resets after a swap set probe_count to zero, when there is no probe.
LEMMA ResetCounts ==
    ASSUME ResilienceTypeOK, ProbesLate, SlotsCounted, NEW r \in Call,
           ResetOpenedAt(r) \/ ResetFailures(r) \/ ResetSuccesses(r) \/ ResetProbes(r)
    PROVE  SlotsCounted'
<1> SUFFICES ASSUME state = "halfopen", ~strayed PROVE SlotsCounted'
  BY DEF SlotsCounted, ResetOpenedAt, ResetFailures, ResetSuccesses, ResetProbes, breakerHistory
<1>1. /\ op[r] \in Resets /\ UNCHANGED <<state, strayed>>
      /\ \E next \in Resets \cup {"none"} : Then(r, next)
  BY DEF ResetOpenedAt, ResetFailures, ResetSuccesses, ResetProbes, breakerHistory, Resets
<1>2. stage'[r] = stage[r] /\ probe'[r] = probe[r] /\ op'[r] # "release" /\ Aside(r)
  BY <1>1, ThenAside DEF Resets
<1>3. r \in Settling /\ Probes = {}
  BY <1>1 DEF Settling, Resets, SlotsCounted
<1>4. Probes' = {}
  BY <1>2, <1>3 DEF Probes, Aside
<1>5. \A s \in Call : stage'[s] = "record" \/ op'[s] = "release" => probe'[s]
  BY <1>2 DEF SlotsCounted, Aside
<1>6. Ahead' = {} => probes' = 0 /\ leaked' = 0
  <2>1. CASE ResetProbes(r)
    BY <2>1 DEF ResetProbes
  <2>2. CASE ResetOpenedAt(r) /\ settling[r] # "open"
    <3>1. UNCHANGED <<probes, leaked>> /\ r \notin Ahead
      BY <2>2 DEF ResetOpenedAt, Ahead, Resets, breakerHistory
    <3>2. Ahead' = {} => Ahead = {}
      BY <1>2, <3>1 DEF Ahead, Aside
    <3> QED  BY <1>3, <3>1, <3>2 DEF SlotsCounted
  <2>3. CASE ResetFailures(r) \/ ResetSuccesses(r) \/ (ResetOpenedAt(r) /\ settling[r] = "open")
    <3>1. Then(r, "successes") \/ Then(r, "probes") \/ Then(r, "failures")
      BY <2>3 DEF ResetFailures, ResetSuccesses, ResetOpenedAt
    <3>2. op'[r] \in {"successes", "probes", "failures"}
      BY <3>1, ThenAside
    <3>3. r \in Ahead'
      BY <3>2 DEF Ahead, Resets
    <3> QED  BY <3>3
  <2> QED  BY <2>1, <2>2, <2>3
<1>7. Settling' = {} => Ahead' = {}
  BY DEF Settling, Ahead, Resets
<1>8. Cardinality({}) = 0
  BY FS_EmptySet
<1> QED  BY <1>4, <1>5, <1>6, <1>7, <1>8 DEF SlotsCounted

\* One step per action: the quiet ones keep the probes, the others are above.
LEMMA SlotsCountedStep ==
    ResilienceTypeOK /\ PermitInv /\ ProbesLate /\ SlotsCounted /\ [ResilienceNext]_resilienceVars
        => SlotsCounted'
<1> SUFFICES ASSUME ResilienceTypeOK, PermitInv, ProbesLate, SlotsCounted, [ResilienceNext]_resilienceVars
             PROVE  SlotsCounted'
  OBVIOUS
<1> USE DEF breaker, permits, callLocals, breakerHistory, Past, Resets
<1> DEFINE Quiet == UNCHANGED <<state, probes, leaked, strayed>>
<1>0. /\ \A r \in Call : stage[r] \notin Waiting => op[r] = "none"
      /\ \A r \in Call : stage[r] \notin Late => ~probe[r]
  BY DEF ProbesLate
<1>1. ASSUME NEW r \in Call, Leave(r), r \notin Probes, op[r] = "none", Quiet PROVE SlotsCounted'
  BY <1>1, LeaveProbes, QuietSlots
<1>2. ASSUME NEW r \in Call, NEW next, GoOn(r, next), op[r] = "none", Quiet,
             r \in Probes <=> probe[r] /\ next \notin Past,
             next = "record" /\ state = "halfopen" => probe[r]
      PROVE  SlotsCounted'
  BY <1>2, GoOnAside, QuietSlots
<1>3. CASE UNCHANGED <<stage, probe, op, settling>> /\ Quiet
  BY <1>3 DEF SlotsCounted, Probes, Settling, Ahead
<1>4. ASSUME NEW r \in Call, NEW b \in Bulkhead \cup {NoBulkhead}, ArriveCall(r, b) PROVE SlotsCounted'
  <2>1. stage[r] = "idle" /\ op[r] = "none" /\ ~probe[r]
    BY <1>0, <1>4, ArriveAside DEF Waiting, Late
  <2> QED  BY <1>4, <2>1, ArriveAside, QuietSlots DEF Probes
<1>5. ASSUME NEW r \in Call, FastFail(r) \/ ProbeNeeded(r) \/ AcquireGlobal(r) PROVE SlotsCounted'
  <2>1. Quiet /\ stage[r] \in {"entered", "probing", "global"}
        /\ \E next \in {"idle", "global", "allow", "call", "bulkhead"} : GoOn(r, next)
    BY <1>5 DEF FastFail, ProbeNeeded, AcquireGlobal
  <2>2. ~probe[r] /\ op[r] = "none"
    BY <1>0, <1>5, <2>1 DEF FastFail, ProbeNeeded, AcquireGlobal, Late, Waiting
  <2> QED  BY <2>1, <2>2, <1>2 DEF Probes
<1>6. ASSUME NEW r \in Call, AcquireBulkhead(r) PROVE SlotsCounted'
  <2>1. stage[r] = "bulkhead" /\ Quiet /\ (GoOn(r, "probe") \/ Leave(r))
    BY <1>6 DEF AcquireBulkhead
  <2>2. ~probe[r] /\ op[r] = "none"
    BY <1>0, <2>1 DEF Late, Waiting
  <2> QED  BY <2>1, <2>2, <1>1, <1>2 DEF Probes
<1>7. ASSUME NEW r \in Call, AllowRequest(r) PROVE SlotsCounted'
  <2>1. stage[r] = "allowing" /\ op[r] = "none" /\ Quiet
    BY <1>7 DEF AllowRequest
  <2>2. CASE state # "halfopen"
    BY <2>1, <2>2 DEF SlotsCounted
  <2>3. CASE state = "halfopen"
    <3>1. GoOn(r, "slot")
      BY <1>7, <2>3 DEF AllowRequest
    <3>2. ~probe[r]
      BY <1>0, <2>1 DEF Late
    <3> QED  BY <2>1, <3>1, <3>2, <1>2 DEF Probes
  <2> QED  BY <2>2, <2>3
<1>8. ASSUME NEW r \in Call, NEW err \in BOOLEAN, ServiceAnswers(r, err) PROVE SlotsCounted'
  <2>1. stage[r] = "call" /\ op[r] = "none"
    BY <1>0, <1>8, AnswerAside DEF Waiting
  <2>2. stage'[r] \notin Past /\ (stage'[r] = "record" => probe[r])
    BY <1>8, AnswerAside
  <2> QED  BY <1>8, <2>1, <2>2, AnswerAside, QuietSlots DEF Probes
<1>9. ASSUME NEW r \in Call, Tracked(r) PROVE SlotsCounted'
  <2>1. stage[r] = "tracking" /\ op[r] = "none" /\ Quiet /\ GoOn(r, IF state = "closed" THEN "record" ELSE "final")
    BY <1>9 DEF Tracked
  <2>2. CASE state # "halfopen"
    BY <2>1, <2>2 DEF SlotsCounted
  <2>3. CASE state = "halfopen"
    BY <1>0, <2>1, <2>3, <1>2 DEF Probes, Late
  <2> QED  BY <2>2, <2>3
<1>10. ASSUME NEW r \in Call, RecordFailure(r) \/ RecordSuccess(r) PROVE SlotsCounted'
  <2>1. stage[r] = "record" /\ op[r] = "none"
    BY <1>0, <1>10, RecordAside DEF Waiting
  <2>2. CASE state # "halfopen" \/ strayed
    BY <1>10, <2>2, RecordAside DEF SlotsCounted
  <2>3. CASE state = "halfopen" /\ ~strayed
    <3>1. probe[r] /\ op'[r] = "release" /\ probe'[r]
      BY <1>10, <2>1, <2>3, RecordAside DEF SlotsCounted
    <3> QED  BY <1>10, <2>1, <3>1, RecordAside, QuietSlots DEF Probes
  <2> QED  BY <2>2, <2>3
<1>11. ASSUME NEW r \in Call, Finish(r) PROVE SlotsCounted'
  <2>1. r \notin Probes
    BY <1>11 DEF Finish, Probes
  <2> QED  BY <1>11, <2>1, <1>1 DEF Finish
<1>12. CASE Elapse \/ UNCHANGED resilienceVars
  BY <1>12, <1>3 DEF Elapse, resilienceVars
<1>13. ASSUME NEW r \in Call, NEW here, NEW next, CheckTransition(r, here, next),
              here \in Past <=> next \in Past, next # "record"
       PROVE  SlotsCounted'
  <2>1. /\ stage[r] = here /\ stage'[r] = next /\ probe'[r] = probe[r] /\ op[r] = "none"
        /\ op'[r] \in {"elapsed", "none"} /\ Aside(r) /\ Quiet
    BY <1>13, CheckAside
  <2> QED  BY <1>13, <2>1, QuietSlots DEF Probes
<1>14. ASSUME NEW r \in Call,
              \/ CheckTransition(r, "enter", "entered") \/ CheckTransition(r, "probe", "probing")
              \/ CheckTransition(r, "allow", "allowing") \/ CheckTransition(r, "outcome", "tracking")
              \/ CheckTransition(r, "final", "finish")
       PROVE  SlotsCounted'
  BY <1>14, <1>13
<1>15. ASSUME NEW r \in Call, ReadTimer(r) \/ Forgive(r) \/ CountSuccess(r) \/ CountFailure(r)
       PROVE  SlotsCounted'
  <2>1. /\ op[r] \in {"elapsed", "forgive", "success", "failure"} /\ Quiet
        /\ \/ Then(r, "none")
           \/ \E new : Transit(r, new)
    BY <1>15 DEF ReadTimer, Forgive, CountSuccess, CountFailure
  <2>2. stage'[r] = stage[r] /\ probe'[r] = probe[r] /\ op'[r] \in {"none", "swap"} /\ Aside(r)
    BY <2>1, ThenAside, TransitAside
  <2>3. stage[r] # "record"
    BY <2>1 DEF ProbesLate, Waiting
  <2> QED  BY <2>1, <2>2, <2>3, QuietSlots DEF Probes
<1>16. ASSUME NEW r \in Call, InBreaker(r) PROVE SlotsCounted'
  BY <1>15, <1>16, SwapCounts, ResetCounts, ReleaseCounts DEF InBreaker
<1> QED  BY <1>4, <1>5, <1>6, <1>7, <1>8, <1>9, <1>10, <1>11, <1>12, <1>14, <1>16,
            TakeSlotCounts, CutOffCounts DEF ResilienceNext, Proceed

-----------------------------------------------------------------------------

\* The inductive invariant of the permits, the gauge and the probe slots.
SlotsInv == ResilienceTypeOK /\ PermitInv /\ ProbesLate /\ SlotsCounted

\* A server that has just started holds nothing.
LEMMA SlotsInvInit == ResilienceInit => SlotsInv
<1> SUFFICES ASSUME ResilienceInit PROVE SlotsInv
  OBVIOUS
<1>1. ResilienceTypeOK
  <2>1. 0 \in 0..(Width - 1) /\ 0 \in 0..MaxCutOff
    BY LimitAssumption
  <2>2. \A r \in Call : "idle" \in Stage /\ NoBulkhead \in Bulkhead \cup {NoBulkhead}
    BY DEF Stage
  <2>3. /\ probe \in [Call -> BOOLEAN] /\ failed \in [Call -> BOOLEAN]
        /\ overtaken \in BOOLEAN /\ strayed \in BOOLEAN
    BY Zenon DEF ResilienceInit
  <2>4. /\ stage \in [Call -> Stage] /\ route \in [Call -> Bulkhead \cup {NoBulkhead}]
        /\ settling \in [Call -> {"no", "closed", "open", "halfopen"}] /\ op \in [Call -> Op]
        /\ \A r \in Call : op[r] = "none"
    BY <2>2 DEF ResilienceInit, Op
  <2>5. /\ state \in {"closed", "open", "halfopen"} /\ timer \in {"none", "running", "elapsed"}
        /\ failures \in Nat /\ successes \in Nat /\ gauge \in Int /\ leaked \in Nat
        /\ holders \subseteq Call /\ partition \subseteq Call
    BY DEF ResilienceInit
  <2>6. probes \in 0..(Width - 1) /\ cutOff \in 0..MaxCutOff
    BY <2>1 DEF ResilienceInit
  <2>7. \A r \in Call : op[r] = "swap" => settling[r] # "no"
    BY <2>4
  <2> QED  BY <2>3, <2>4, <2>5, <2>6, <2>7 DEF ResilienceTypeOK
<1>2. Served = {} /\ (\A b : Within(b) = {}) /\ holders = {} /\ partition = {}
  BY DEF ResilienceInit, Served, Within
<1>3. PermitInv
  <2>1. IsFiniteSet({}) /\ Cardinality({}) = 0
    BY FS_EmptySet
  <2>2. \A r \in Call : stage[r] \notin Inside
    BY DEF ResilienceInit, Inside
  <2>3. gauge = 0 /\ cutOff = 0
    BY DEF ResilienceInit
  <2> QED  BY <1>2, <2>1, <2>2, <2>3, LimitAssumption DEF PermitInv
<1>4. ProbesLate /\ SlotsCounted
  BY DEF ResilienceInit, ProbesLate, SlotsCounted
<1> QED  BY <1>1, <1>3, <1>4 DEF SlotsInv

\* The inductive invariant gives the limits, the gauge and the probe count.
LEMMA SlotsInvExact == SlotsInv => SlotsExact
<1> SUFFICES ASSUME SlotsInv PROVE SlotsExact
  OBVIOUS
<1>1. PermitsExact
  BY DEF SlotsInv, PermitsExact, PermitInv, Within, Inside, Stage
<1>2. ProbeSlotsExact
  BY DEF SlotsInv, SlotsCounted, ProbeSlotsExact
<1>3. GaugeCounts
  BY DEF SlotsInv, PermitInv, GaugeCounts, Served, Serving
<1> QED  BY <1>1, <1>2, <1>3 DEF SlotsExact

\* Every step keeps the permits, the gauge and the slots exact.
LEMMA SlotsInvStep == SlotsInv /\ [ResilienceNext]_resilienceVars => SlotsInv'
  BY ResilienceTypeStep, PermitStep, ProbesLateStep, SlotsCountedStep DEF SlotsInv

\* The resilience middleware's variables keep their types; in particular
\* probe_count, which wraps at its width, stays below it.
THEOREM ResilienceTypeCorrect == ResilienceSpec => []ResilienceTypeOK
<1>1. ResilienceInit => ResilienceTypeOK
  BY SlotsInvInit DEF SlotsInv
<1> QED  BY <1>1, ResilienceTypeStep, PTL DEF ResilienceSpec

\* Whatever the order of requests, rejections, answers and dropped futures:
\* no limit is exceeded, no ended request keeps a permit, the in-flight gauge is
\* what is being served plus what was dropped there, and a half-open
\* breaker counts exactly its probes in flight.
THEOREM SlotsAreExact == ResilienceSpec => []SlotsExact
  BY SlotsInvInit, SlotsInvStep, SlotsInvExact, PTL DEF ResilienceSpec

-----------------------------------------------------------------------------
(* EventPipeline: the sequences it is made of *)

\* The members of a sequence, and a sequence that repeats none.
Among(s) == {s[i] : i \in 1..Len(s)}
Distinct(s) == \A i, j \in 1..Len(s) : s[i] = s[j] => i = j

\* What Append adds.
LEMMA AppendAmong ==
    ASSUME NEW S, NEW s \in Seq(S), NEW x \in S
    PROVE  /\ Append(s, x) \in Seq(S) /\ Len(Append(s, x)) = Len(s) + 1
           /\ Among(Append(s, x)) = Among(s) \cup {x}
<1> DEFINE t == Append(s, x)
<1>1. t \in Seq(S) /\ Len(t) = Len(s) + 1 /\ (\A i \in 1..Len(s) : t[i] = s[i]) /\ t[Len(s) + 1] = x
  BY AppendProperties
<1>2. Len(s) \in Nat
  BY LenProperties
<1> HIDE DEF t
<1>3. Among(t) = Among(s) \cup {x}
  BY <1>1, <1>2 DEF Among
<1> QED  BY <1>1, <1>3 DEF t

LEMMA AppendDistinct ==
    ASSUME NEW S, NEW s \in Seq(S), NEW x \in S, Distinct(s), x \notin Among(s)
    PROVE  Distinct(Append(s, x))
<1> DEFINE t == Append(s, x)
<1>1. Len(t) = Len(s) + 1 /\ (\A i \in 1..Len(s) : t[i] = s[i]) /\ t[Len(s) + 1] = x
  BY AppendProperties
<1>2. Len(s) \in Nat
  BY LenProperties
<1>3. \A i \in 1..Len(s) : s[i] # x
  BY DEF Among
<1> HIDE DEF t
<1>4. Distinct(t)
  BY <1>1, <1>2, <1>3 DEF Distinct
<1> QED  BY <1>4 DEF t

\* What Tail leaves.
LEMMA TailAmong ==
    ASSUME NEW S, NEW s \in Seq(S), s # <<>>
    PROVE  /\ Tail(s) \in Seq(S) /\ Len(Tail(s)) = Len(s) - 1 /\ Head(s) \in Among(s)
           /\ Among(Tail(s)) \subseteq Among(s)
           /\ Distinct(s) => Distinct(Tail(s)) /\ Head(s) \notin Among(Tail(s))
<1> DEFINE t == Tail(s)
<1>1. t \in Seq(S) /\ Len(t) = Len(s) - 1 /\ \A i \in 1..Len(t) : t[i] = s[i + 1]
  BY HeadTailProperties
<1>2. Len(s) \in Nat /\ Len(s) # 0
  BY EmptySeq, LenProperties
<1>3. Head(s) = s[1]
  OBVIOUS
<1> HIDE DEF t
<1>4. \A i \in 1..Len(t) : i + 1 \in 1..Len(s) /\ i + 1 # 1
  BY <1>1, <1>2
<1>5. Head(s) \in Among(s)
  BY <1>2, <1>3 DEF Among
<1>6. Among(t) \subseteq Among(s)
  BY <1>1, <1>4 DEF Among
<1>7. ASSUME Distinct(s) PROVE Distinct(t) /\ Head(s) \notin Among(t)
  <2>1. Distinct(t)
    BY <1>1, <1>2, <1>4, <1>7 DEF Distinct
  <2>2. \A i \in 1..Len(t) : t[i] # s[1]
    BY <1>1, <1>2, <1>4, <1>7 DEF Distinct
  <2> QED  BY <1>3, <2>1, <2>2 DEF Among
<1> QED  BY <1>1, <1>5, <1>6, <1>7 DEF t

\* What Newest keeps.
LEMMA NewestKeeps ==
    ASSUME NEW S, NEW s \in Seq(S), NEW n \in Nat
    PROVE  /\ Newest(s, n) \in Seq(S)
           /\ Len(Newest(s, n)) = IF Len(s) < n THEN Len(s) ELSE n
           /\ \A i \in 1..Len(Newest(s, n)) : Newest(s, n)[i] = s[i]
<1> DEFINE m == IF Len(s) < n THEN Len(s) ELSE n
           t == Newest(s, n)
<1>1. Len(s) \in Nat /\ \A i \in 1..Len(s) : s[i] \in S
  BY LenProperties, ElementOfSeq
<1>2. m \in Nat /\ m <= Len(s)
  BY <1>1
<1>3. t = [i \in 1..m |-> s[i]]
  BY DEF Newest
<1> HIDE DEF m, t
<1>4. t \in [1..m -> S]
  BY <1>1, <1>2, <1>3
<1>5. t \in Seq(S)
  BY <1>2, <1>4, SeqDef
<1>6. DOMAIN t = 1..m
  BY <1>3
<1>7. Len(t) = m
  <2>1. DOMAIN t = 1..Len(t) /\ Len(t) \in Nat
    BY <1>5, LenProperties
  <2>2. 1..m = 1..Len(t)
    BY <1>6, <2>1
  <2> DEFINE l == Len(t)
  <2>3. l \in Nat /\ 1..m = 1..l
    BY <2>1, <2>2
  <2> HIDE DEF l
  <2>4. m = l
    BY <1>2, <2>3, SMT
  <2> QED  BY <2>4 DEF l
<1>8. \A i \in 1..Len(t) : t[i] = s[i]
  BY <1>3, <1>7
<1> QED  BY <1>5, <1>7, <1>8 DEF t, m

\* What is cut twice is cut.
LEMMA NewestTwice ==
    ASSUME NEW S, NEW s \in Seq(S), NEW n \in Nat
    PROVE  Newest(Newest(s, n), n) = Newest(s, n)
<1> DEFINE t == Newest(s, n)
           u == Newest(t, n)
<1>1. t \in Seq(S) /\ Len(t) = (IF Len(s) < n THEN Len(s) ELSE n) /\ Len(s) \in Nat
  BY NewestKeeps, LenProperties
<1> HIDE DEF t
<1>2. u \in Seq(S) /\ Len(u) = (IF Len(t) < n THEN Len(t) ELSE n) /\ \A i \in 1..Len(u) : u[i] = t[i]
  BY <1>1, NewestKeeps
<1> HIDE DEF u
<1>3. Len(u) = Len(t)
  BY <1>1, <1>2
<1>4. u = t
  BY <1>1, <1>2, <1>3, SeqEqual
<1> QED  BY <1>4 DEF u, t

\* Two lists that show the same still do when the same is pushed to both.
LEMMA NewestPush ==
    ASSUME NEW S, NEW a \in Seq(S), NEW b \in Seq(S), NEW x \in S, NEW n \in Nat, Newest(a, n) = Newest(b, n)
    PROVE  Newest(<<x>> \o a, n) = Newest(<<x>> \o b, n)
<1>0. ASSUME NEW s \in Seq(S)
      PROVE  /\ <<x>> \o s \in Seq(S) /\ Len(<<x>> \o s) = Len(s) + 1 /\ Len(s) \in Nat
             /\ \A i \in 1..(Len(s) + 1) : (<<x>> \o s)[i] = IF i = 1 THEN x ELSE s[i - 1]
  <2> DEFINE o == <<x>>
  <2>1. o \in Seq(S) /\ Len(o) = 1 /\ o[1] = x
    OBVIOUS
  <2>2. Len(s) \in Nat
    BY LenProperties
  <2> HIDE DEF o
  <2>3. o \o s \in Seq(S) /\ Len(o \o s) = Len(o) + Len(s)
    BY <2>1, ConcatProperties
  <2>4. \A i \in 1..Len(o) + Len(s) : (o \o s)[i] = IF i <= Len(o) THEN o[i] ELSE s[i - Len(o)]
    BY <2>1, ConcatProperties
  <2>5. \A i \in 1..(Len(s) + 1) : (o \o s)[i] = IF i = 1 THEN x ELSE s[i - 1]
    <3> TAKE i \in 1..(Len(s) + 1)
    <3>1. i \in 1..Len(o) + Len(s)
      BY <2>1, <2>2
    <3>2. (o \o s)[i] = IF i <= Len(o) THEN o[i] ELSE s[i - Len(o)]
      BY <2>4, <3>1
    <3>3. i <= Len(o) <=> i = 1
      BY <2>1, <2>2
    <3> QED  BY <2>1, <3>2, <3>3
  <2> QED  BY <2>1, <2>2, <2>3, <2>5 DEF o
<1> DEFINE c == <<x>> \o a
           d == <<x>> \o b
           na == Newest(a, n)
           nb == Newest(b, n)
           nc == Newest(c, n)
           nd == Newest(d, n)
<1>1. /\ c \in Seq(S) /\ Len(c) = Len(a) + 1 /\ Len(a) \in Nat
      /\ \A i \in 1..(Len(a) + 1) : c[i] = IF i = 1 THEN x ELSE a[i - 1]
  BY <1>0
<1>2. /\ d \in Seq(S) /\ Len(d) = Len(b) + 1 /\ Len(b) \in Nat
      /\ \A i \in 1..(Len(b) + 1) : d[i] = IF i = 1 THEN x ELSE b[i - 1]
  BY <1>0
<1> HIDE DEF c, d
<1>3. /\ Len(na) = (IF Len(a) < n THEN Len(a) ELSE n) /\ (\A i \in 1..Len(na) : na[i] = a[i])
      /\ Len(nb) = (IF Len(b) < n THEN Len(b) ELSE n) /\ (\A i \in 1..Len(nb) : nb[i] = b[i])
  BY NewestKeeps
<1>4. /\ nc \in Seq(S) /\ Len(nc) = (IF Len(c) < n THEN Len(c) ELSE n) /\ (\A i \in 1..Len(nc) : nc[i] = c[i])
      /\ nd \in Seq(S) /\ Len(nd) = (IF Len(d) < n THEN Len(d) ELSE n) /\ (\A i \in 1..Len(nd) : nd[i] = d[i])
  BY <1>1, <1>2, NewestKeeps
<1>5. na = nb
  OBVIOUS
<1> HIDE DEF na, nb, nc, nd
<1>6. Len(nc) = Len(nd)
  BY <1>1, <1>2, <1>3, <1>4, <1>5
<1>7. \A i \in 1..Len(nc) : nc[i] = nd[i]
  <2> SUFFICES ASSUME NEW i \in 1..Len(nc) PROVE nc[i] = nd[i]  OBVIOUS
  <2>1. nc[i] = c[i] /\ nd[i] = d[i] /\ i \in 1..(Len(a) + 1) /\ i \in 1..(Len(b) + 1) /\ i <= n
    BY <1>1, <1>2, <1>4, <1>6
  <2>2. CASE i = 1
    BY <1>1, <1>2, <2>1, <2>2
  <2>3. CASE i # 1
    <3>1. i - 1 \in 1..Len(na)
      BY <1>1, <1>3, <2>1, <2>3
    <3>2. c[i] = a[i - 1] /\ d[i] = b[i - 1]
      BY <1>1, <1>2, <2>1, <2>3
    <3>3. a[i - 1] = b[i - 1]
      BY <1>3, <1>5, <3>1
    <3> QED  BY <2>1, <3>2, <3>3
  <2> QED  BY <2>2, <2>3
<1>8. nc = nd
  BY <1>4, <1>6, <1>7, SeqEqual
<1> QED  BY <1>8 DEF nc, nd, c, d
-----------------------------------------------------------------------------
(* EventPipeline: the inductive invariant *)

ItemRecord == [env : Envelope, n : Nat]
IngestRecord == [pc : {"idle", "push", "publish"}, item : ItemRecord \cup {NoItem}]

EventTypeOK ==
    /\ keyAge \in [EventKey -> Nat \cup {Blank}]
    /\ ingesting \in [Ingest -> IngestRecord]
    /\ \A r \in Ingest : ingesting[r].pc # "idle" => ingesting[r].item \in ItemRecord
    /\ spawned \in SUBSET ItemRecord
    /\ mailbox \in Seq(ItemRecord)
    /\ emitting \in SUBSET (ItemRecord \X Plugin)
    /\ recent \in Seq(ItemRecord) /\ shown \in Seq(ItemRecord)
    /\ taken \in [Plugin -> Seq(ItemRecord)]
    /\ items \in Nat

\* Where an event can be: with the request that brought it, with a task of
\* its own, in the mailbox, and with the plugins.
Carried == {ingesting[r].item : r \in {q \in Ingest : ingesting[q].pc # "idle"}}
Underway == {e[1] : e \in emitting}
Logged == UNION {Among(taken[p]) : p \in Plugin}
Handed == Underway \cup Logged
Everywhere == Carried \cup spawned \cup Among(mailbox) \cup Handed

\* An event is in one of those places at a time, once.
OnePlace ==
    /\ \A a \in Everywhere : a.n <= items
    /\ \A q, r \in Ingest : ingesting[q].pc # "idle" /\ ingesting[r].pc # "idle"
                             /\ ingesting[q].item = ingesting[r].item => q = r
    /\ Carried \cap (spawned \cup Among(mailbox) \cup Handed) = {}
    /\ spawned \cap (Among(mailbox) \cup Handed) = {}
    /\ Among(mailbox) \cap Handed = {}
    /\ Distinct(mailbox)
    /\ \A p \in Plugin : Distinct(taken[p])
    /\ \A e \in emitting : e[1] \notin Among(taken[e[2]])

\* A key that is not forgotten is recorded and belongs to one event only.
OneKey ==
    \A a \in Everywhere : a.env.header # Blank /\ a.env.header \notin lapsed =>
        /\ keyAge[a.env.header] # Blank
        /\ \A b \in Everywhere : b.env.header = a.env.header => b = a

\* Whoever recorded a key is on his way, or has ended.
Accounted(k, requests, done) ==
    \/ k \in done
    \/ \E r \in Ingest : requests[r].pc # "idle"
                          /\ effective_idempotency_key(requests[r].item.env) = k
KeysAccounted ==
    \A k \in EventKey : keyAge[k] # Blank => Accounted(k, ingesting, published \cup hungUp)

EventsInv == EventTypeOK /\ OnePlace /\ OneKey /\ KeysAccounted /\ DuplicateOfSomething
             /\ SnapshotNewest /\ LoggerBounded

\* Pushing leaves sequences, and what is shown the newest.
LEMMA PushKeeps ==
    ASSUME EventTypeOK, NEW x \in ItemRecord, pushRecent(x)
    PROVE  /\ recent' \in Seq(ItemRecord) /\ shown' \in Seq(ItemRecord)
           /\ SnapshotNewest => SnapshotNewest'
<1>1. recent \in Seq(ItemRecord) /\ shown \in Seq(ItemRecord) /\ ListCapacity \in Nat
  BY EventAssumption DEF EventTypeOK
<1> DEFINE a == <<x>> \o recent
           b == <<x>> \o shown
<1>2. a \in Seq(ItemRecord) /\ b \in Seq(ItemRecord)
  <2>1. <<x>> \in Seq(ItemRecord)  OBVIOUS
  <2> QED  BY <1>1, <2>1, ConcatProperties
<1>3. SnapshotNewest => Newest(a, ListCapacity) = Newest(b, ListCapacity)
  BY <1>1, NewestPush DEF SnapshotNewest, snapshot
<1>4. shown' = b /\ recent' = IF RedisList THEN a ELSE Newest(a, ListCapacity)
  BY DEF pushRecent
<1> HIDE DEF a, b
<1>5. /\ Newest(a, ListCapacity) \in Seq(ItemRecord)
      /\ Newest(Newest(a, ListCapacity), ListCapacity) = Newest(a, ListCapacity)
  BY <1>1, <1>2, NewestKeeps, NewestTwice
<1>6. SnapshotNewest => Newest(recent', ListCapacity) = Newest(b, ListCapacity)
  BY <1>3, <1>4, <1>5
<1>7. SnapshotNewest' <=> Newest(recent', ListCapacity) = Newest(shown', ListCapacity)
  BY DEF SnapshotNewest, snapshot, Newest
<1> QED  BY <1>2, <1>4, <1>5, <1>6, <1>7

\* What a plugin's log is after it took an event.
LEMMA TakeKeeps ==
    ASSUME EventTypeOK, NEW x \in ItemRecord, NEW p \in Plugin, Take(p, x)
    PROVE  /\ taken' \in [Plugin -> Seq(ItemRecord)]
           /\ \A q \in Plugin : q # p => taken'[q] = taken[q]
           /\ Among(taken'[p]) \subseteq Among(taken[p]) \cup {x}
           /\ Distinct(taken[p]) /\ x \notin Among(taken[p]) => Distinct(taken'[p])
           /\ LoggerBounded => LoggerBounded'
<1> DEFINE l == Append(taken[p], x)
           m == IF p = Memory /\ Len(l) > MaxEvents THEN Tail(l) ELSE l
<1>0. taken \in [Plugin -> Seq(ItemRecord)] /\ taken[p] \in Seq(ItemRecord) /\ MaxEvents \in Nat \ {0}
  BY EventAssumption DEF EventTypeOK
<1>1. taken' = [taken EXCEPT ![p] = m]
  BY DEF Take
<1>2. /\ l \in Seq(ItemRecord) /\ Len(l) = Len(taken[p]) + 1 /\ Len(taken[p]) \in Nat
      /\ Among(l) = Among(taken[p]) \cup {x}
  BY <1>0, AppendAmong, LenProperties
<1>3. Distinct(taken[p]) /\ x \notin Among(taken[p]) => Distinct(l)
  BY <1>0, AppendDistinct
<1>4. l # <<>>
  BY <1>0
<1> HIDE DEF l
<1>5. /\ Tail(l) \in Seq(ItemRecord) /\ Len(Tail(l)) = Len(l) - 1 /\ Among(Tail(l)) \subseteq Among(l)
      /\ Distinct(l) => Distinct(Tail(l))
  BY <1>2, <1>4, TailAmong
<1>6. /\ m \in Seq(ItemRecord) /\ Among(m) \subseteq Among(taken[p]) \cup {x}
      /\ Distinct(taken[p]) /\ x \notin Among(taken[p]) => Distinct(m)
      /\ p = Memory /\ Len(taken[p]) <= MaxEvents => Len(m) <= MaxEvents
  <2>1. CASE p = Memory /\ Len(l) > MaxEvents
    BY <1>0, <1>2, <1>3, <1>5, <2>1
  <2>2. CASE ~(p = Memory /\ Len(l) > MaxEvents)
    <3>1. m = l  BY <2>2
    <3>2. p = Memory => Len(l) <= MaxEvents  BY <1>0, <1>2, <2>2
    <3> HIDE DEF m
    <3> QED  BY <1>2, <1>3, <3>1, <3>2
  <2> QED  BY <2>1, <2>2
<1> HIDE DEF m
<1>7. taken'[p] = m /\ (\A q \in Plugin : q # p => taken'[q] = taken[q]) /\ taken' \in [Plugin -> Seq(ItemRecord)]
  BY <1>0, <1>1, <1>6
<1>8. LoggerBounded => LoggerBounded'
  BY <1>6, <1>7 DEF LoggerBounded
<1> QED  BY <1>6, <1>7, <1>8

\* Ages and forgotten keys: what is forgotten counts as lapsed.
LEMMA RecordKeeps ==
    ASSUME EventTypeOK, NEW r \in Ingest, NEW env \in Envelope, is_duplicate_and_record(r, env)
    PROVE  LET k == effective_idempotency_key(env) IN
           /\ k \in EventKey /\ keyAge' \in [EventKey -> Nat \cup {Blank}] /\ lapsed \subseteq lapsed'
           /\ \A j \in EventKey : keyAge[j] # Blank => keyAge'[j] # Blank \/ j \in lapsed'
           /\ \A j \in EventKey : keyAge'[j] # Blank => keyAge[j] # Blank \/ j = k
           /\ \/ /\ keyAge[k] # Blank /\ repeated' = k /\ UNCHANGED <<ingesting, items>>
              \/ /\ repeated' = Blank /\ items' = items + 1 /\ keyAge'[k] # Blank
                 /\ keyAge[k] # Blank => k \in lapsed'
                 /\ ingesting' = [ingesting EXCEPT ![r] = [pc |-> "push", item |-> Item(env)]]
<1> DEFINE k == effective_idempotency_key(env)
           old == {j \in EventKey : Expired(j)}
           valid == {j \in EventKey : keyAge[j] # Blank} \ old
           clear == k \notin valid /\ Cardinality(valid) >= MaxKeys
           gone == old \cup IF clear THEN valid ELSE {}
<1>1. k \in EventKey /\ Blank \notin Nat /\ keyAge \in [EventKey -> Nat \cup {Blank}]
  BY EventAssumption DEF effective_idempotency_key, EventTypeOK
<1>2. /\ keyAge' = [j \in EventKey |-> IF j = k /\ k \notin valid THEN 0
                                      ELSE IF j \in gone THEN Blank ELSE keyAge[j]]
      /\ lapsed' = lapsed \cup gone
  BY DEF is_duplicate_and_record
<1>3. IF k \in valid
      THEN repeated' = k /\ UNCHANGED <<ingesting, items>>
      ELSE /\ ingesting' = [ingesting EXCEPT ![r] = [pc |-> "push", item |-> Item(env)]]
           /\ items' = items + 1 /\ repeated' = Blank
  BY DEF is_duplicate_and_record
<1>4. /\ \A j \in EventKey : j \in valid => keyAge[j] # Blank
      /\ \A j \in EventKey : keyAge[j] # Blank => j \in valid \/ j \in gone
  OBVIOUS
<1> HIDE DEF k, valid, gone
<1>5. keyAge' \in [EventKey -> Nat \cup {Blank}]
  BY <1>1, <1>2
<1>6. \A j \in EventKey : keyAge'[j] = IF j = k /\ k \notin valid THEN 0
                                      ELSE IF j \in gone THEN Blank ELSE keyAge[j]
  BY <1>2
<1>7. /\ \A j \in EventKey : keyAge[j] # Blank => keyAge'[j] # Blank \/ j \in lapsed'
      /\ \A j \in EventKey : keyAge'[j] # Blank => keyAge[j] # Blank \/ j = k
      /\ k \notin valid => keyAge'[k] # Blank /\ (keyAge[k] # Blank => k \in lapsed')
  BY <1>1, <1>2, <1>4, <1>6
<1> QED  BY <1>1, <1>2, <1>3, <1>4, <1>5, <1>7 DEF k

LEMMA EventTypeInit == EventInit => EventTypeOK
  <1> SUFFICES ASSUME EventInit PROVE EventTypeOK  OBVIOUS
  <1>1. \A S : <<>> \in Seq(S)  OBVIOUS
  <1> QED  BY <1>1 DEF EventInit, EventTypeOK, IngestRecord

\* The steps of a request, and what they do to what requests carry.
LEMMA RequestKeeps ==
    ASSUME EventTypeOK, NEW r \in Ingest, NEW to \in {"idle", "push", "publish"},
           NEW x \in ItemRecord \cup {NoItem}, to # "idle" => x \in ItemRecord,
           ingesting' = [ingesting EXCEPT ![r] = [pc |-> to, item |-> x]]
    PROVE  /\ ingesting' \in [Ingest -> IngestRecord]
           /\ \A q \in Ingest : ingesting'[q].pc # "idle" => ingesting'[q].item \in ItemRecord
           /\ ingesting'[r].pc = to /\ ingesting'[r].item = x
           /\ \A q \in Ingest : q # r => ingesting'[q] = ingesting[q]
<1>1. ingesting \in [Ingest -> IngestRecord] /\ [pc |-> to, item |-> x] \in IngestRecord
  BY DEF EventTypeOK, IngestRecord
<1>2. ingesting' \in [Ingest -> IngestRecord]
  BY <1>1
<1>3. ingesting'[r] = [pc |-> to, item |-> x] /\ \A q \in Ingest : q # r => ingesting'[q] = ingesting[q]
  BY <1>1
<1>4. \A q \in Ingest : ingesting'[q].pc # "idle" => ingesting'[q].item \in ItemRecord
  BY <1>3 DEF EventTypeOK
<1> QED  BY <1>2, <1>3, <1>4

LEMMA EventTypeStep == EventTypeOK /\ [EventNext]_eventVars => EventTypeOK'
<1> SUFFICES ASSUME EventTypeOK, [EventNext]_eventVars PROVE EventTypeOK'  OBVIOUS
<1> USE DEF eventHistory
<1>i. \A env \in Envelope : Item(env) \in ItemRecord
  BY DEF Item, ItemRecord, EventTypeOK
<1>n. NoItem \in {NoItem}
  OBVIOUS
<1>1. ASSUME NEW r \in Ingest, NEW env \in Envelope, is_duplicate_and_record(r, env) PROVE EventTypeOK'
  <2>1. keyAge' \in [EventKey -> Nat \cup {Blank}]
    BY <1>1, RecordKeeps
  <2>2. \/ UNCHANGED <<ingesting, items>>
        \/ items' = items + 1 /\ ingesting' = [ingesting EXCEPT ![r] = [pc |-> "push", item |-> Item(env)]]
    BY <1>1 DEF is_duplicate_and_record
  <2>3. /\ ingesting' \in [Ingest -> IngestRecord] /\ items' \in Nat
        /\ \A q \in Ingest : ingesting'[q].pc # "idle" => ingesting'[q].item \in ItemRecord
    <3>1. CASE UNCHANGED <<ingesting, items>>
      BY <3>1 DEF EventTypeOK
    <3>2. CASE items' = items + 1 /\ ingesting' = [ingesting EXCEPT ![r] = [pc |-> "push", item |-> Item(env)]]
      <4>1. items' \in Nat
        BY <3>2 DEF EventTypeOK
      <4>2. Item(env) \in ItemRecord
        BY <1>i
      <4> QED  BY <3>2, <4>1, <4>2, RequestKeeps
    <3> QED  BY <2>2, <3>1, <3>2
  <2> QED  BY <1>1, <2>1, <2>3 DEF is_duplicate_and_record, EventTypeOK
<1>2. ASSUME NEW r \in Ingest, PushIngested(r) PROVE EventTypeOK'
  <2> DEFINE x == ingesting[r].item
  <2>1. ingesting \in [Ingest -> IngestRecord] /\ x \in ItemRecord
    BY <1>2 DEF PushIngested, EventTypeOK
  <2>2. ingesting' = [ingesting EXCEPT ![r] = [pc |-> "publish", item |-> x]]
    <3>1. [ingesting[r] EXCEPT !.pc = "publish"] = [pc |-> "publish", item |-> x]
      BY <2>1 DEF IngestRecord
    <3> QED  BY <1>2, <2>1, <3>1 DEF PushIngested
  <2>3. recent' \in Seq(ItemRecord) /\ shown' \in Seq(ItemRecord)
    BY <1>2, <2>1, PushKeeps DEF PushIngested
  <2> HIDE DEF x
  <2>4. /\ ingesting' \in [Ingest -> IngestRecord]
        /\ \A q \in Ingest : ingesting'[q].pc # "idle" => ingesting'[q].item \in ItemRecord
    BY <2>1, <2>2, RequestKeeps
  <2> QED  BY <1>2, <2>3, <2>4 DEF PushIngested, EventTypeOK
<1>3. ASSUME NEW r \in Ingest, ingest(r) \/ HangUp(r) PROVE EventTypeOK'
  <2>1. ingesting[r].item \in ItemRecord
    BY <1>3 DEF ingest, HangUp, EventTypeOK
  <2>2. ingesting' = [ingesting EXCEPT ![r] = [pc |-> "idle", item |-> NoItem]]
    BY <1>3 DEF ingest, HangUp
  <2>3. /\ ingesting' \in [Ingest -> IngestRecord]
        /\ \A q \in Ingest : ingesting'[q].pc # "idle" => ingesting'[q].item \in ItemRecord
    BY <1>n, <2>2, RequestKeeps
  <2> QED  BY <1>3, <2>1, <2>3 DEF ingest, HangUp, EventTypeOK
<1>4. ASSUME NEW env \in Envelope, publish_best_effort(env) PROVE EventTypeOK'
  BY <1>4, <1>i DEF publish_best_effort, EventTypeOK
<1>5. ASSUME NEW item \in spawned, publish(item) PROVE EventTypeOK'
  <2>1. item \in ItemRecord /\ mailbox' \in Seq(ItemRecord)
    BY <1>5, AppendAmong DEF publish, EventTypeOK
  <2> QED  BY <1>5, <2>1 DEF publish, EventTypeOK
<1>6. ASSUME EmitEvent PROVE EventTypeOK'
  <2>1. mailbox' \in Seq(ItemRecord) /\ Head(mailbox) \in ItemRecord
    BY <1>6, HeadTailProperties DEF EmitEvent, EventTypeOK
  <2>2. emitting' \in SUBSET (ItemRecord \X Plugin)
    BY <1>6, <2>1 DEF EmitEvent, EventTypeOK
  <2> QED  BY <1>6, <2>1, <2>2 DEF EmitEvent, EventTypeOK
<1>7. ASSUME NEW e \in emitting, EmitFails(e[1], e[2]) PROVE EventTypeOK'
  BY <1>7 DEF EmitFails, EventTypeOK
<1>8. ASSUME NEW e \in emitting, emit(e[1], e[2]) PROVE EventTypeOK'
  <2>1. e[1] \in ItemRecord /\ e[2] \in Plugin
    BY DEF EventTypeOK
  <2>2. taken' \in [Plugin -> Seq(ItemRecord)]
    BY <1>8, <2>1, TakeKeeps DEF emit
  <2>3. recent' \in Seq(ItemRecord) /\ shown' \in Seq(ItemRecord)
    <3>1. CASE pushRecent(e[1])
      BY <2>1, <3>1, PushKeeps
    <3>2. CASE UNCHANGED <<recent, trimming, shown>>
      BY <3>2 DEF EventTypeOK
    <3> QED  BY <1>8, <3>1, <3>2 DEF emit
  <2> QED  BY <1>8, <2>2, <2>3 DEF emit, EventTypeOK
<1>9. ASSUME TrimRecent PROVE EventTypeOK'
  <2>1. recent' \in Seq(ItemRecord)
    BY <1>9, NewestKeeps, EventAssumption DEF TrimRecent, EventTypeOK
  <2> QED  BY <1>9, <2>1 DEF TrimRecent, EventTypeOK
<1>10. ASSUME Crash PROVE EventTypeOK'
  <2>1. <<>> \in Seq(ItemRecord)  OBVIOUS
  <2>2. recent' \in Seq(ItemRecord) /\ shown' \in Seq(ItemRecord)
    BY <1>10, <2>1 DEF Crash, EventTypeOK
  <2>3. taken' \in [Plugin -> Seq(ItemRecord)]
    BY <1>10, <2>1 DEF Crash, EventTypeOK
  <2>4. /\ ingesting' \in [Ingest -> IngestRecord]
        /\ \A q \in Ingest : ingesting'[q].pc # "idle" => ingesting'[q].item \in ItemRecord
    BY <1>10 DEF Crash, IngestRecord
  <2> QED  BY <1>10, <2>1, <2>2, <2>3, <2>4 DEF Crash, EventTypeOK
<1>11. ASSUME KeysAge PROVE EventTypeOK'
  <2>1. keyAge' \in [EventKey -> Nat \cup {Blank}]
    BY <1>11 DEF KeysAge, EventTypeOK
  <2> QED  BY <1>11, <2>1 DEF KeysAge, EventTypeOK
<1>12. ASSUME UNCHANGED eventVars PROVE EventTypeOK'
  BY <1>12 DEF eventVars, EventTypeOK
<1> QED  BY <1>1, <1>2, <1>3, <1>4, <1>5, <1>6, <1>7, <1>8, <1>9, <1>10, <1>11, <1>12 DEF EventNext, Deliver

\* What requests carry: r takes up a new event, keeps its own, or lets go of it.
LEMMA CarriedMoves ==
    ASSUME EventTypeOK, OnePlace, NEW r \in Ingest, NEW to \in {"idle", "push", "publish"},
           NEW x \in ItemRecord \cup {NoItem}, to # "idle" => x \in ItemRecord,
           ingesting' = [ingesting EXCEPT ![r] = [pc |-> to, item |-> x]]
    PROVE  /\ ingesting[r].pc = "idle" /\ to # "idle" => Carried' = Carried \cup {x}
           /\ ingesting[r].pc # "idle" /\ to # "idle" /\ x = ingesting[r].item => Carried' = Carried
           /\ ingesting[r].pc # "idle" /\ to = "idle" =>
                 ingesting[r].item \in Carried /\ Carried' = Carried \ {ingesting[r].item}
<1>1. /\ ingesting'[r].pc = to /\ ingesting'[r].item = x
      /\ \A q \in Ingest : q # r => ingesting'[q] = ingesting[q]
  BY RequestKeeps
<1>2. \A q \in Ingest : ingesting[q].pc # "idle" /\ ingesting[r].pc # "idle"
                         /\ ingesting[q].item = ingesting[r].item => q = r
  BY DEF OnePlace
<1>3. CASE ingesting[r].pc = "idle" /\ to # "idle"
  BY <1>1, <1>3 DEF Carried
<1>4. CASE ingesting[r].pc # "idle" /\ to # "idle" /\ x = ingesting[r].item
  BY <1>1, <1>4 DEF Carried
<1>5. CASE ingesting[r].pc # "idle" /\ to = "idle"
  BY <1>1, <1>2, <1>5 DEF Carried
<1> QED  BY <1>3, <1>4, <1>5

\* What is new is nowhere yet.
LEMMA FreshItem ==
    ASSUME EventTypeOK, OnePlace, NEW env \in Envelope
    PROVE  Item(env) \in ItemRecord /\ Item(env).n = items + 1 /\ Item(env) \notin Everywhere
<1>1. items \in Nat /\ items + 1 \in Nat /\ ~(items + 1 <= items)
  BY DEF EventTypeOK
<1>2. Item(env) \in ItemRecord /\ Item(env).n = items + 1
  BY <1>1 DEF Item, ItemRecord
<1>3. Item(env) \notin Everywhere
  BY <1>1, <1>2 DEF OnePlace
<1> QED  BY <1>2, <1>3

\* Items are records, wherever they are.
LEMMA EverywhereTyped == ASSUME EventTypeOK PROVE Everywhere \subseteq ItemRecord
<1>1. Carried \subseteq ItemRecord
  BY DEF Carried, EventTypeOK
<1>2. \A s \in Seq(ItemRecord) : Among(s) \subseteq ItemRecord
  BY ElementOfSeq DEF Among
<1>3. Logged \subseteq ItemRecord
  BY <1>2 DEF Logged, EventTypeOK
<1>4. Underway \subseteq ItemRecord
  BY DEF Underway, EventTypeOK
<1> QED  BY <1>1, <1>2, <1>3, <1>4 DEF Everywhere, Handed, EventTypeOK

\* An event that is new, and whose it is.
Fresh(env) ==
    /\ items' = items + 1 /\ Everywhere' \subseteq Everywhere \cup {Item(env)}
    /\ \/ publish_best_effort(env)
       \/ \E r \in Ingest : is_duplicate_and_record(r, env)

LEMMA PlaceStep ==
    ASSUME EventTypeOK, OnePlace, [EventNext]_eventVars
    PROVE  OnePlace' /\ (Everywhere' \subseteq Everywhere \/ \E env \in Envelope : Fresh(env))
<1> USE DEF eventHistory
<1> DEFINE Stays == Everywhere' \subseteq Everywhere
<1>t. items \in Nat /\ Everywhere \subseteq ItemRecord
  BY EverywhereTyped DEF EventTypeOK
<1>a. ASSUME UNCHANGED <<ingesting, spawned, mailbox, emitting, taken, items>> PROVE OnePlace' /\ Stays
  <2>1. Everywhere' = Everywhere
    BY <1>a DEF Everywhere, Carried, Handed, Underway, Logged
  <2> QED  BY <1>a, <2>1 DEF OnePlace, Carried, Handed, Underway, Logged
<1>1. ASSUME NEW r \in Ingest, NEW env \in Envelope, is_duplicate_and_record(r, env)
      PROVE  OnePlace' /\ (Stays \/ Fresh(env))
  <2>0. UNCHANGED <<spawned, mailbox, emitting, taken>> /\ ingesting[r].pc = "idle"
    BY <1>1 DEF is_duplicate_and_record
  <2>1. CASE UNCHANGED <<ingesting, items>>
    BY <1>a, <2>0, <2>1
  <2>2. CASE items' = items + 1 /\ ingesting' = [ingesting EXCEPT ![r] = [pc |-> "push", item |-> Item(env)]]
    <3> DEFINE x == Item(env)
    <3>1. x \in ItemRecord /\ x.n = items + 1 /\ x \notin Everywhere
      BY FreshItem
    <3> HIDE DEF x
    <3>2. ingesting' = [ingesting EXCEPT ![r] = [pc |-> "push", item |-> x]]
      BY <2>2 DEF x
    <3>3. Carried' = Carried \cup {x}
      BY <2>0, <3>1, <3>2, CarriedMoves
    <3>4. ingesting'[r].item = x /\ \A q \in Ingest : q # r => ingesting'[q] = ingesting[q]
      BY <3>1, <3>2, RequestKeeps
    <3>5. Underway' = Underway /\ Logged' = Logged
      BY <2>0 DEF Underway, Logged
    <3>6. Everywhere' = Everywhere \cup {x}
      BY <2>0, <3>3, <3>5 DEF Everywhere, Handed
    <3>7. \A a \in Everywhere' : a.n <= items'
      BY <1>t, <2>2, <3>1, <3>6 DEF OnePlace, ItemRecord
    <3>8. \A q, s \in Ingest : ingesting'[q].pc # "idle" /\ ingesting'[s].pc # "idle"
                                /\ ingesting'[q].item = ingesting'[s].item => q = s
      <4>1. \A q \in Ingest : q # r /\ ingesting'[q].pc # "idle" => ingesting'[q].item # x
        BY <3>1, <3>4 DEF Everywhere, Carried
      <4>2. \A q, s \in Ingest : q # r /\ s # r /\ ingesting'[q].pc # "idle" /\ ingesting'[s].pc # "idle"
                                  /\ ingesting'[q].item = ingesting'[s].item => q = s
        BY <3>4 DEF OnePlace
      <4> QED  BY <3>4, <4>1, <4>2
    <3>9. (Carried \cap (spawned \cup Among(mailbox) \cup Handed))' = {}
      BY <2>0, <3>1, <3>3, <3>5 DEF OnePlace, Handed, Everywhere
    <3>10. OnePlace'
      BY <2>0, <3>5, <3>7, <3>8, <3>9 DEF OnePlace, Handed
    <3> QED  BY <1>1, <2>2, <3>6, <3>10 DEF Fresh, x
  <2> QED  BY <1>1, <2>1, <2>2 DEF is_duplicate_and_record
<1>2. ASSUME NEW r \in Ingest, PushIngested(r) PROVE OnePlace' /\ Stays
  <2> DEFINE x == ingesting[r].item
  <2>1. ingesting \in [Ingest -> IngestRecord] /\ x \in ItemRecord /\ ingesting[r].pc # "idle"
    BY <1>2 DEF PushIngested, EventTypeOK
  <2>2. ingesting' = [ingesting EXCEPT ![r] = [pc |-> "publish", item |-> x]]
    <3>1. [ingesting[r] EXCEPT !.pc = "publish"] = [pc |-> "publish", item |-> x]
      BY <2>1 DEF IngestRecord
    <3> QED  BY <1>2, <2>1, <3>1 DEF PushIngested
  <2>3. Carried' = Carried
    BY <2>1, <2>2, CarriedMoves
  <2>4. ingesting'[r].item = ingesting[r].item /\ \A q \in Ingest : q # r => ingesting'[q] = ingesting[q]
    BY <2>1, <2>2, RequestKeeps
  <2>5. UNCHANGED <<spawned, mailbox, emitting, taken, items>>
    BY <1>2 DEF PushIngested
  <2> HIDE DEF x
  <2>6. \A q, s \in Ingest : ingesting'[q].pc # "idle" /\ ingesting'[s].pc # "idle"
                              /\ ingesting'[q].item = ingesting'[s].item => q = s
    BY <2>1, <2>4 DEF OnePlace
  <2>7. Everywhere' = Everywhere /\ Handed' = Handed
    BY <2>3, <2>5 DEF Everywhere, Handed, Underway, Logged
  <2> QED  BY <2>3, <2>5, <2>6, <2>7 DEF OnePlace
<1>3. ASSUME NEW r \in Ingest, ingest(r) \/ HangUp(r) PROVE OnePlace' /\ Stays
  <2> DEFINE x == ingesting[r].item
  <2>1. ingesting[r].pc # "idle" /\ UNCHANGED <<mailbox, emitting, taken, items>>
    BY <1>3 DEF ingest, HangUp
  <2>2. ingesting' = [ingesting EXCEPT ![r] = [pc |-> "idle", item |-> NoItem]]
    BY <1>3 DEF ingest, HangUp
  <2>3. spawned' = spawned \/ spawned' = spawned \cup {x}
    BY <1>3 DEF ingest, HangUp
  <2>4. x \in Carried /\ Carried' = Carried \ {x}
    BY <2>1, <2>2, CarriedMoves
  <2>5. ingesting'[r].pc = "idle" /\ \A q \in Ingest : q # r => ingesting'[q] = ingesting[q]
    BY <2>2, RequestKeeps
  <2> HIDE DEF x
  <2>6. \A q, s \in Ingest : ingesting'[q].pc # "idle" /\ ingesting'[s].pc # "idle"
                              /\ ingesting'[q].item = ingesting'[s].item => q = s
    BY <2>5 DEF OnePlace
  <2>7. Handed' = Handed
    BY <2>1 DEF Handed, Underway, Logged
  <2>8. Everywhere' \subseteq Everywhere
    BY <2>1, <2>3, <2>4, <2>7 DEF Everywhere
  <2>9. /\ (Carried \cap (spawned \cup Among(mailbox) \cup Handed))' = {}
        /\ (spawned \cap (Among(mailbox) \cup Handed))' = {}
    BY <2>1, <2>3, <2>4, <2>7 DEF OnePlace
  <2>10. \A a \in Everywhere' : a.n <= items'
    BY <2>1, <2>8 DEF OnePlace
  <2> QED  BY <2>1, <2>6, <2>7, <2>8, <2>9, <2>10 DEF OnePlace
<1>4. ASSUME NEW env \in Envelope, publish_best_effort(env) PROVE OnePlace' /\ Fresh(env)
  <2> DEFINE x == Item(env)
  <2>1. x \in ItemRecord /\ x.n = items + 1 /\ x \notin Everywhere
    BY FreshItem
  <2>2. /\ UNCHANGED <<ingesting, mailbox, emitting, taken>> /\ items' = items + 1
        /\ spawned' = spawned \cup {x}
    BY <1>4 DEF publish_best_effort
  <2> HIDE DEF x
  <2>3. Handed' = Handed /\ Carried' = Carried
    BY <2>2 DEF Handed, Underway, Logged, Carried
  <2>4. Everywhere' = Everywhere \cup {x}
    BY <2>2, <2>3 DEF Everywhere
  <2>5. \A a \in Everywhere' : a.n <= items'
    BY <1>t, <2>1, <2>2, <2>4 DEF OnePlace, ItemRecord
  <2>6. /\ (Carried \cap (spawned \cup Among(mailbox) \cup Handed))' = {}
        /\ (spawned \cap (Among(mailbox) \cup Handed))' = {}
    BY <2>1, <2>2, <2>3 DEF OnePlace, Everywhere
  <2>7. OnePlace'
    BY <2>2, <2>3, <2>5, <2>6 DEF OnePlace
  <2> QED  BY <1>4, <2>2, <2>4, <2>7 DEF Fresh, x
<1>5. ASSUME NEW item \in spawned, publish(item) PROVE OnePlace' /\ Stays
  <2>1. /\ UNCHANGED <<ingesting, emitting, taken, items>> /\ spawned' = spawned \ {item}
        /\ mailbox' = Append(mailbox, item) /\ mailbox \in Seq(ItemRecord) /\ item \in ItemRecord
    BY <1>5 DEF publish, EventTypeOK
  <2>2. item \notin Among(mailbox) /\ Distinct(mailbox)
    BY DEF OnePlace
  <2>3. Among(mailbox') = Among(mailbox) \cup {item} /\ Distinct(mailbox')
    BY <2>1, <2>2, AppendAmong, AppendDistinct
  <2>4. Handed' = Handed /\ Carried' = Carried
    BY <2>1 DEF Handed, Underway, Logged, Carried
  <2>5. Everywhere' \subseteq Everywhere
    BY <2>1, <2>3, <2>4 DEF Everywhere
  <2>6. /\ (Carried \cap (spawned \cup Among(mailbox) \cup Handed))' = {}
        /\ (spawned \cap (Among(mailbox) \cup Handed))' = {}
        /\ (Among(mailbox) \cap Handed)' = {}
    BY <2>1, <2>3, <2>4 DEF OnePlace
  <2>7. \A a \in Everywhere' : a.n <= items'
    BY <2>1, <2>5 DEF OnePlace
  <2> QED  BY <2>1, <2>3, <2>4, <2>5, <2>6, <2>7 DEF OnePlace
<1>6. ASSUME EmitEvent PROVE OnePlace' /\ Stays
  <2> DEFINE h == Head(mailbox)
  <2>1. /\ UNCHANGED <<ingesting, spawned, taken, items>> /\ mailbox' = Tail(mailbox)
        /\ emitting' = emitting \cup {<<h, p>> : p \in {q \in Plugin : should_emit(h.env.type)}}
        /\ mailbox \in Seq(ItemRecord) /\ mailbox # <<>>
    BY <1>6 DEF EmitEvent, EventTypeOK
  <2>2. h \in Among(mailbox) /\ Among(mailbox') \subseteq Among(mailbox) /\ Distinct(mailbox)
    BY <2>1, TailAmong DEF OnePlace
  <2>3. Distinct(mailbox') /\ h \notin Among(mailbox')
    BY <2>1, <2>2, TailAmong
  <2> HIDE DEF h
  <2>4. \A e \in emitting' : e \in emitting \/ (e[1] = h /\ e[2] \in Plugin)
    BY <2>1
  <2>5. Carried' = Carried /\ Logged' = Logged /\ Underway' \subseteq Underway \cup {h}
    BY <2>1, <2>4 DEF Logged, Underway, Carried
  <2>6. Everywhere' \subseteq Everywhere
    BY <2>1, <2>2, <2>5 DEF Everywhere, Handed
  <2>7. /\ (Carried \cap (spawned \cup Among(mailbox) \cup Handed))' = {}
        /\ (spawned \cap (Among(mailbox) \cup Handed))' = {}
        /\ (Among(mailbox) \cap Handed)' = {}
    BY <2>1, <2>2, <2>3, <2>5 DEF OnePlace, Handed
  <2>8. \A e \in emitting' : e[1] \notin Among(taken'[e[2]])
    <3>1. \A p \in Plugin : h \notin Among(taken[p])
      BY <2>2 DEF OnePlace, Handed, Logged
    <3> QED  BY <2>1, <2>4, <3>1 DEF OnePlace
  <2>9. \A a \in Everywhere' : a.n <= items'
    BY <2>1, <2>6 DEF OnePlace
  <2> QED  BY <2>1, <2>3, <2>6, <2>7, <2>8, <2>9 DEF OnePlace
<1>7. ASSUME UNCHANGED <<ingesting, spawned, mailbox, items>>, Handed' \subseteq Handed,
             \A p \in Plugin : Distinct(taken'[p]), \A e \in emitting' : e[1] \notin Among(taken'[e[2]])
      PROVE  OnePlace' /\ Stays
  <2>1. Carried' = Carried
    BY <1>7 DEF Carried
  <2>2. Everywhere' \subseteq Everywhere
    BY <1>7, <2>1 DEF Everywhere
  <2>3. /\ (Carried \cap (spawned \cup Among(mailbox) \cup Handed))' = {}
        /\ (spawned \cap (Among(mailbox) \cup Handed))' = {}
        /\ (Among(mailbox) \cap Handed)' = {}
    BY <1>7, <2>1 DEF OnePlace
  <2>4. \A a \in Everywhere' : a.n <= items'
    BY <1>7, <2>2 DEF OnePlace
  <2> QED  BY <1>7, <2>2, <2>3, <2>4 DEF OnePlace
<1>8. ASSUME NEW e \in emitting, EmitFails(e[1], e[2]) PROVE OnePlace' /\ Stays
  <2>1. UNCHANGED <<ingesting, spawned, mailbox, taken, items>> /\ emitting' \subseteq emitting
    BY <1>8 DEF EmitFails
  <2>2. Handed' \subseteq Handed
    BY <2>1 DEF Handed, Underway, Logged
  <2> QED  BY <1>7, <2>1, <2>2 DEF OnePlace
<1>9. ASSUME NEW e \in emitting, emit(e[1], e[2]) PROVE OnePlace' /\ Stays
  <2> DEFINE x == e[1]
             p == e[2]
  <2>0. x \in ItemRecord /\ p \in Plugin /\ e = <<x, p>>
    BY DEF EventTypeOK
  <2>1. UNCHANGED <<ingesting, spawned, mailbox, items>> /\ emitting' = emitting \ {e}
    BY <1>9, <2>0 DEF emit
  <2>2. x \notin Among(taken[p]) /\ Distinct(taken[p])
    BY <2>0 DEF OnePlace
  <2>3. /\ \A q \in Plugin : q # p => taken'[q] = taken[q]
        /\ Among(taken'[p]) \subseteq Among(taken[p]) \cup {x}
        /\ Distinct(taken'[p])
    BY <1>9, <2>0, <2>2, TakeKeeps DEF emit
  <2>5. x \in Underway
    BY DEF Underway
  <2>6. \A f \in emitting' : f \in emitting /\ f[2] \in Plugin /\ (f[2] = p => f[1] # x)
    BY <2>0, <2>1 DEF EventTypeOK
  <2> HIDE DEF x, p
  <2>7. Handed' \subseteq Handed
    <3>1. Underway' \subseteq Underway
      BY <2>1 DEF Underway
    <3>2. Logged' \subseteq Logged \cup {x}
      BY <2>0, <2>3 DEF Logged
    <3> QED  BY <2>5, <3>1, <3>2 DEF Handed
  <2>8. \A q \in Plugin : Distinct(taken'[q])
    BY <2>3 DEF OnePlace
  <2>9. \A f \in emitting' : f[1] \notin Among(taken'[f[2]])
    BY <2>3, <2>6 DEF OnePlace
  <2> QED  BY <1>7, <2>1, <2>7, <2>8, <2>9
<1>10. ASSUME Crash PROVE OnePlace' /\ Stays
  <2>1. /\ spawned' = {} /\ mailbox' = <<>> /\ emitting' = {} /\ UNCHANGED items
        /\ taken' = [taken EXCEPT ![Memory] = <<>>]
        /\ \A r \in Ingest : ingesting'[r].pc = "idle"
    BY <1>10 DEF Crash
  <2>2. Carried' = {} /\ Underway' = {} /\ Among(mailbox') = {} /\ Among(<<>>) = {} /\ Distinct(<<>>)
    BY <2>1 DEF Carried, Underway, Among, Distinct
  <2>3. \A p \in Plugin : taken'[p] = taken[p] \/ taken'[p] = <<>>
    BY <2>1 DEF EventTypeOK
  <2>4. Logged' \subseteq Logged
    BY <2>2, <2>3 DEF Logged
  <2>5. \A p \in Plugin : Distinct(taken'[p])
    BY <2>2, <2>3 DEF OnePlace
  <2>6. Everywhere' \subseteq Everywhere
    BY <2>1, <2>2, <2>4 DEF Everywhere, Handed
  <2>7. \A a \in Everywhere' : a.n <= items'
    BY <2>1, <2>6 DEF OnePlace
  <2> QED  BY <2>1, <2>2, <2>5, <2>6, <2>7 DEF OnePlace
<1>11. ASSUME TrimRecent \/ KeysAge \/ UNCHANGED eventVars PROVE OnePlace' /\ Stays
  BY <1>a, <1>11 DEF TrimRecent, KeysAge, eventVars
<1> QED  BY <1>1, <1>2, <1>3, <1>4, <1>5, <1>6, <1>8, <1>9, <1>10, <1>11 DEF EventNext, Deliver

LEMMA OneKeyStep ==
    EventTypeOK /\ OnePlace /\ OneKey /\ [EventNext]_eventVars => OneKey'
<1> SUFFICES ASSUME EventTypeOK, OnePlace, OneKey, [EventNext]_eventVars PROVE OneKey'  OBVIOUS
<1> USE DEF eventHistory
<1>t. Everywhere \subseteq ItemRecord /\ \A a \in ItemRecord : a.env.header \in EventKey \cup {Blank}
  BY EverywhereTyped, EventAssumption DEF ItemRecord
<1> DEFINE Forgets == /\ lapsed \subseteq lapsed'
                      /\ \A k \in EventKey : keyAge[k] # Blank => keyAge'[k] # Blank \/ k \in lapsed'
<1>1. Forgets
  <2>1. ASSUME NEW r \in Ingest, NEW env \in Envelope, is_duplicate_and_record(r, env) PROVE Forgets
    BY <2>1, RecordKeeps
  <2>2. ASSUME Crash PROVE Forgets
    BY <2>2 DEF Crash
  <2>3. ASSUME KeysAge PROVE Forgets
    <3>1. UNCHANGED lapsed
      BY <2>3 DEF KeysAge
    <3>2. \A k \in EventKey : keyAge[k] # Blank => keyAge'[k] \in Nat
      BY <2>3 DEF KeysAge, EventTypeOK
    <3> QED  BY <3>1, <3>2, EventAssumption
  <2>4. ASSUME UNCHANGED <<keyAge, lapsed>> PROVE Forgets
    BY <2>4
  <2> HIDE DEF Forgets
  <2> QED  BY <2>1, <2>2, <2>3, <2>4 DEF EventNext, Deliver, PushIngested, ingest, HangUp,
             publish_best_effort, publish, EmitEvent, EmitFails, emit, TrimRecent, eventVars
<1>2. CASE Everywhere' \subseteq Everywhere
  <2> SUFFICES ASSUME NEW a \in Everywhere', a.env.header # Blank, a.env.header \notin lapsed'
               PROVE  /\ keyAge'[a.env.header] # Blank
                      /\ \A b \in Everywhere' : b.env.header = a.env.header => b = a
    BY DEF OneKey
  <2>1. a.env.header \in EventKey /\ a \in Everywhere /\ a.env.header \notin lapsed
    BY <1>1, <1>2, <1>t
  <2> QED  BY <1>1, <1>2, <2>1 DEF OneKey
<1>3. ASSUME NEW env \in Envelope, Fresh(env) PROVE OneKey'
  <2> DEFINE x == Item(env)
  <2>1. Everywhere' \subseteq Everywhere \cup {x} /\ x.env = env /\ x \in ItemRecord
    BY <1>3, FreshItem DEF Fresh, Item
  <2>2. env.header # Blank => /\ env.header \in EventKey /\ keyAge'[env.header] # Blank
                              /\ keyAge[env.header] # Blank => env.header \in lapsed'
    <3> SUFFICES ASSUME env.header # Blank
                 PROVE  /\ env.header \in EventKey /\ keyAge'[env.header] # Blank
                        /\ keyAge[env.header] # Blank => env.header \in lapsed'
      OBVIOUS
    <3>1. PICK r \in Ingest : is_duplicate_and_record(r, env)
      BY <1>3 DEF Fresh, publish_best_effort
    <3>2. env.header = effective_idempotency_key(env)
      BY DEF effective_idempotency_key
    <3>3. items' # items
      BY <1>3 DEF Fresh, EventTypeOK
    <3> QED  BY <3>1, <3>2, <3>3, RecordKeeps
  <2> HIDE DEF x
  <2> SUFFICES ASSUME NEW a \in Everywhere', a.env.header # Blank, a.env.header \notin lapsed'
               PROVE  /\ keyAge'[a.env.header] # Blank
                      /\ \A b \in Everywhere' : b.env.header = a.env.header => b = a
    BY DEF OneKey
  <2>3. a.env.header \in EventKey /\ a.env.header \notin lapsed
    BY <1>1, <1>t, <2>1
  <2>4. a \in Everywhere =>
            keyAge[a.env.header] # Blank /\ \A b \in Everywhere : b.env.header = a.env.header => b = a
    BY <2>3 DEF OneKey
  <2>5. \A b \in Everywhere : b.env.header = a.env.header => keyAge[a.env.header] # Blank
    BY <2>3 DEF OneKey
  <2>6. keyAge'[a.env.header] # Blank
    BY <1>1, <2>1, <2>2, <2>3, <2>4
  <2>7. ASSUME NEW b \in Everywhere', b.env.header = a.env.header PROVE b = a
    <3>1. CASE a = x
      BY <2>1, <2>2, <2>5, <2>7, <3>1
    <3>2. CASE a # x /\ b = x
      BY <2>1, <2>2, <2>4, <2>7, <3>2
    <3>3. CASE a # x /\ b # x
      BY <2>1, <2>4, <2>7, <3>3
    <3> QED  BY <3>1, <3>2, <3>3
  <2> QED  BY <2>6, <2>7
<1> QED  BY <1>2, <1>3, PlaceStep

\* The keys recorded, and the key answered last, are accounted for.
LEMMA AccountedStep ==
    EventTypeOK /\ KeysAccounted /\ DuplicateOfSomething /\ [EventNext]_eventVars
        => KeysAccounted' /\ DuplicateOfSomething'
<1> SUFFICES ASSUME EventTypeOK, KeysAccounted, DuplicateOfSomething, [EventNext]_eventVars
             PROVE  KeysAccounted' /\ DuplicateOfSomething'
  OBVIOUS
<1> USE DEF eventHistory
<1> DEFINE key(x) == effective_idempotency_key(x.env)
           done == published \cup hungUp
           goal == KeysAccounted' /\ DuplicateOfSomething'
<1>d. /\ repeated # Blank => Accounted(repeated, ingesting, done)
      /\ DuplicateOfSomething' <=> (repeated' # Blank => Accounted(repeated', ingesting', done'))
  BY DEF DuplicateOfSomething, Accounted, effective_idempotency_key
<1>a. ASSUME \A k : Accounted(k, ingesting, done) => Accounted(k, ingesting', done'), UNCHANGED repeated,
             \A k \in EventKey : keyAge'[k] # Blank => keyAge[k] # Blank
      PROVE  goal
  <2>1. KeysAccounted'
    BY <1>a DEF KeysAccounted
  <2> QED  BY <1>a, <1>d, <2>1
<1>1. ASSUME NEW r \in Ingest, NEW env \in Envelope, is_duplicate_and_record(r, env) PROVE goal
  <2> DEFINE k == effective_idempotency_key(env)
  <2>0. UNCHANGED <<published, hungUp>> /\ ingesting[r].pc = "idle"
    BY <1>1 DEF is_duplicate_and_record
  <2>1. k \in EventKey /\ (\A j \in EventKey : keyAge'[j] # Blank => keyAge[j] # Blank \/ j = k)
    BY <1>1, RecordKeeps
  <2>2. \/ keyAge[k] # Blank /\ repeated' = k /\ UNCHANGED ingesting
        \/ repeated' = Blank /\ ingesting' = [ingesting EXCEPT ![r] = [pc |-> "push", item |-> Item(env)]]
    BY <1>1, RecordKeeps
  <2>i. Item(env) \in ItemRecord /\ Item(env).env = env
    BY DEF Item, ItemRecord, EventTypeOK
  <2>3. CASE keyAge[k] # Blank /\ repeated' = k /\ UNCHANGED ingesting
    <3>1. Accounted(k, ingesting, done)
      BY <2>1, <2>3 DEF KeysAccounted
    <3>2. KeysAccounted'
      BY <2>0, <2>1, <2>3, <3>1 DEF KeysAccounted
    <3> QED  BY <1>d, <2>0, <2>3, <3>1, <3>2
  <2>4. CASE repeated' = Blank /\ ingesting' = [ingesting EXCEPT ![r] = [pc |-> "push", item |-> Item(env)]]
    <3> DEFINE x == Item(env)
    <3>1. /\ ingesting'[r].pc = "push" /\ ingesting'[r].item = x
          /\ \A q \in Ingest : q # r => ingesting'[q] = ingesting[q]
      BY <2>i, <2>4, RequestKeeps
    <3>2. Accounted(k, ingesting', done')
      BY <2>i, <3>1 DEF Accounted
    <3>3. \A j : Accounted(j, ingesting, done) => Accounted(j, ingesting', done')
      BY <2>0, <3>1 DEF Accounted
    <3>4. KeysAccounted'
      BY <2>1, <3>2, <3>3 DEF KeysAccounted
    <3> QED  BY <1>d, <2>4, <3>4
  <2> QED  BY <2>2, <2>3, <2>4
<1>2. ASSUME NEW r \in Ingest, PushIngested(r) PROVE goal
  <2>1. UNCHANGED <<keyAge, repeated, published, hungUp>>
    BY <1>2 DEF PushIngested
  <2>2. \A q \in Ingest : /\ ingesting'[q].item = ingesting[q].item
                          /\ ingesting[q].pc # "idle" => ingesting'[q].pc # "idle"
    BY <1>2 DEF PushIngested, EventTypeOK, IngestRecord
  <2>3. \A k : Accounted(k, ingesting, done) => Accounted(k, ingesting', done')
    BY <2>1, <2>2 DEF Accounted
  <2> QED  BY <1>a, <2>1, <2>3
<1>3. ASSUME NEW r \in Ingest, ingest(r) \/ HangUp(r) PROVE goal
  <2>1. /\ UNCHANGED <<keyAge, repeated>> /\ done' = done \cup {key(ingesting[r].item)}
        /\ ingesting' = [ingesting EXCEPT ![r] = [pc |-> "idle", item |-> NoItem]]
    BY <1>3 DEF ingest, HangUp
  <2>2. \A q \in Ingest : q # r => ingesting'[q] = ingesting[q]
    BY <2>1 DEF EventTypeOK
  <2>3. \A k : Accounted(k, ingesting, done) => Accounted(k, ingesting', done')
    BY <2>1, <2>2 DEF Accounted
  <2> QED  BY <1>a, <2>1, <2>3
<1>4. ASSUME Crash PROVE goal
  BY <1>4, <1>d DEF Crash, KeysAccounted
<1>5. ASSUME KeysAge PROVE goal
  <2>1. UNCHANGED <<ingesting, repeated, published, hungUp>>
    BY <1>5 DEF KeysAge
  <2>2. \A k \in EventKey : keyAge'[k] # Blank => keyAge[k] # Blank
    BY <1>5 DEF KeysAge, EventTypeOK
  <2> QED  BY <1>a, <2>1, <2>2
<1>6. ASSUME UNCHANGED <<keyAge, ingesting, repeated, published, hungUp>> PROVE goal
  BY <1>a, <1>6
<1> HIDE DEF goal
<1>7. goal
  BY <1>1, <1>2, <1>3, <1>4, <1>5, <1>6 DEF EventNext, Deliver,
     publish_best_effort, publish, EmitEvent, EmitFails, emit, TrimRecent, eventVars
<1> QED  BY <1>7 DEF goal

LEMMA ShownStep ==
    EventTypeOK /\ SnapshotNewest /\ LoggerBounded /\ [EventNext]_eventVars
        => SnapshotNewest' /\ LoggerBounded'
<1> SUFFICES ASSUME EventTypeOK, SnapshotNewest, LoggerBounded, [EventNext]_eventVars
             PROVE  SnapshotNewest' /\ LoggerBounded'
  OBVIOUS
<1> USE DEF eventHistory
<1> DEFINE goal == SnapshotNewest' /\ LoggerBounded'
<1>s. /\ Newest(recent, ListCapacity) = Newest(shown, ListCapacity)
      /\ SnapshotNewest' <=> Newest(recent', ListCapacity) = Newest(shown', ListCapacity)
  BY DEF SnapshotNewest, snapshot, Newest
<1>1. ASSUME NEW r \in Ingest, PushIngested(r) PROVE goal
  <2>1. pushRecent(ingesting[r].item) /\ ingesting[r].item \in ItemRecord
    BY <1>1 DEF PushIngested, EventTypeOK
  <2>2. SnapshotNewest'
    BY <2>1, PushKeeps
  <2> QED  BY <1>1, <2>2 DEF PushIngested, LoggerBounded
<1>2. ASSUME NEW e \in emitting, emit(e[1], e[2]) PROVE goal
  <2>1. e[1] \in ItemRecord /\ e[2] \in Plugin
    BY DEF EventTypeOK
  <2>2. LoggerBounded'
    BY <1>2, <2>1, TakeKeeps DEF emit
  <2>3. pushRecent(e[1]) \/ UNCHANGED <<recent, shown>>
    BY <1>2 DEF emit
  <2>4. CASE pushRecent(e[1])
    BY <2>1, <2>2, <2>4, PushKeeps
  <2>5. CASE UNCHANGED <<recent, shown>>
    BY <1>s, <2>2, <2>5
  <2> QED  BY <2>3, <2>4, <2>5
<1>3. ASSUME TrimRecent PROVE goal
  <2>1. recent \in Seq(ItemRecord) /\ ListCapacity \in Nat
    BY EventAssumption DEF EventTypeOK
  <2>2. Newest(Newest(recent, ListCapacity), ListCapacity) = Newest(recent, ListCapacity)
    BY <2>1, NewestTwice
  <2>3. recent' = Newest(recent, ListCapacity) /\ UNCHANGED <<shown, taken>>
    BY <1>3 DEF TrimRecent
  <2> QED  BY <1>s, <2>2, <2>3 DEF LoggerBounded
<1>4. ASSUME Crash PROVE goal
  <2>1. SnapshotNewest'
    BY <1>4, <1>s DEF Crash
  <2>2. LoggerBounded'
    <3>1. Memory \in Plugin => taken'[Memory] = <<>>
      BY <1>4 DEF Crash, EventTypeOK
    <3>2. Len(<<>>) = 0 /\ 0 <= MaxEvents
      BY EventAssumption
    <3> QED  BY <3>1, <3>2 DEF LoggerBounded
  <2> QED  BY <2>1, <2>2
<1>5. ASSUME UNCHANGED <<recent, shown, taken>> PROVE goal
  BY <1>5, <1>s DEF LoggerBounded
<1> HIDE DEF goal
<1>6. goal
  BY <1>1, <1>2, <1>3, <1>4, <1>5 DEF EventNext, Deliver, is_duplicate_and_record, ingest, HangUp,
     publish_best_effort, publish, EmitEvent, EmitFails, KeysAge, eventVars
<1> QED  BY <1>6 DEF goal

\* No plugin takes two events under one key unless the key was forgotten,
\* "duplicate" is said of something that was, or is being, published, and the
\* list shows the newest events: for every number of requests, keys and
\* plugins, with the list in memory or in Redis (is_duplicate_and_record,
\* EmitEvent, RecentEventsStore).
THEOREM EventsAreAccounted == EventSpec => []EventsAccounted
<1>1. EventInit => EventsInv
  <2> SUFFICES ASSUME EventInit PROVE EventsInv  OBVIOUS
  <2>1. EventTypeOK
    BY EventTypeInit
  <2>2. /\ spawned = {} /\ mailbox = <<>> /\ emitting = {} /\ repeated = Blank
        /\ recent = <<>> /\ shown = <<>>
        /\ (\A r \in Ingest : ingesting[r].pc = "idle") /\ (\A p \in Plugin : taken[p] = <<>>)
        /\ (\A k \in EventKey : keyAge[k] = Blank)
    BY DEF EventInit
  <2>3. Among(<<>>) = {} /\ Distinct(<<>>)
    BY DEF Among, Distinct
  <2>4. Everywhere = {} /\ Carried = {} /\ Handed = {}
    BY <2>2, <2>3 DEF Everywhere, Carried, Handed, Underway, Logged
  <2>5. OnePlace
    BY <2>2, <2>3, <2>4 DEF OnePlace
  <2>6. OneKey /\ KeysAccounted /\ DuplicateOfSomething
    BY <2>2, <2>4 DEF OneKey, KeysAccounted, DuplicateOfSomething
  <2>7. SnapshotNewest
    BY <2>2 DEF SnapshotNewest, snapshot
  <2>8. LoggerBounded
    BY <2>2, EventAssumption DEF LoggerBounded
  <2> QED  BY <2>1, <2>5, <2>6, <2>7, <2>8 DEF EventsInv
<1>2. EventsInv /\ [EventNext]_eventVars => EventsInv'
  BY EventTypeStep, PlaceStep, OneKeyStep, AccountedStep, ShownStep DEF EventsInv
<1>3. EventsInv => EventsAccounted
  <2> SUFFICES ASSUME EventsInv PROVE DeliveredOnce  BY DEF EventsInv, EventsAccounted
  <2> SUFFICES ASSUME NEW p \in Plugin, NEW i \in 1..Len(taken[p]), NEW j \in 1..Len(taken[p]), i # j,
                      taken[p][i].env.header # Blank, taken[p][i].env.header = taken[p][j].env.header
               PROVE  taken[p][i].env.header \in lapsed
    BY DEF DeliveredOnce
  <2>1. taken[p][i] \in Everywhere /\ taken[p][j] \in Everywhere
    BY DEF Everywhere, Handed, Logged, Among
  <2>2. taken[p][i] # taken[p][j]
    BY DEF EventsInv, OnePlace, Distinct
  <2> QED  BY <2>1, <2>2 DEF EventsInv, OneKey
<1> QED  BY <1>1, <1>2, <1>3, PTL DEF EventSpec
=============================================================================
