------------------------ MODULE TokenEndpointProofs ------------------------
(***************************************************************************)
(* UsedOnce, NonceWindow and SecretsAgree of TokenEndpoint, for every      *)
(* number of processes, requests, proofs, assertions and restarts, and     *)
(* every length of the windows that WindowAssumption allows.               *)
(***************************************************************************)
EXTENDS TokenEndpoint, TLAPS

\* Request s has got past the row of proof j.
Past(s, j) == slot[s] # None /\ slot[s].pc # "row" /\ slot[s].req.proof = j

\* Proof j is spent: some request got past its row, and perhaps got its token.
Spent(j) == j \in issued \/ \E s \in Slot : Past(s, j)

\* A request that is before its row carries a proof that was in the window of
\* its iat when the request arrived, and has not waited longer than it may.
Waiting ==
    \A s \in Slot :
        slot[s] # None /\ slot[s].pc = "row" =>
            /\ slot[s].req.proof \in Jti
            /\ proofs[slot[s].req.proof] # None
            /\ proofs[slot[s].req.proof].iat <= slot[s].at + Skew
            /\ slot[s].at <= proofs[slot[s].req.proof].iat + Skew
            /\ slot[s].at <= now /\ now <= slot[s].at + MaxWait

\* A request whose nonce is looked at carries a proof.
WithProof ==
    \A s \in Slot :
        slot[s] # None /\ slot[s].pc = "nonce" => slot[s].req.proof \in Jti /\ proofs[slot[s].req.proof] # None

\* The row of a spent proof is there for as long as a request with that proof
\* can still reach the table.
RowKept ==
    \A j \in Jti : Spent(j) =>
        /\ proofs[j] # None
        /\ \/ \E e \in rows : e.jti = j /\ e.until + Skew >= proofs[j].iat + ProofTtl
           \/ now > proofs[j].iat + Skew + MaxWait

\* At most one request is past the row of a proof, and none once it is used.
OnePast ==
    \A s \in Slot, j \in Jti :
        Past(s, j) => j \notin issued /\ \A s2 \in Slot : Past(s2, j) => s2 = s

\* Without a shared secret each process has a key of its own.
OwnSecrets == ~SharedSecret => secret \in [Proc -> [of : Proc, start : Nat]]

\* A nonce carries the bucket of the time it was issued at.
NoncesDated ==
    \A j \in Jti : proofs[j] # None /\ proofs[j].nonce # None =>
        proofs[j].nonce.bucket = Bucket(proofs[j].nonce.at) /\ proofs[j].nonce.at <= now

\* A nonce was judged by its bucket, at a time after it was issued.
JudgedByBucket ==
    \A n \in judged :
        /\ n.nonce.bucket = Bucket(n.nonce.at) /\ n.nonce.at <= n.at
        /\ n.ok <=> /\ n.nonce.bucket <= Bucket(n.at) /\ n.nonce.bucket + 1 >= Bucket(n.at)
                    /\ n.nonce.secret = n.secret

\* The guard of a process remembers an assertion it accepted, or dropped it, or
\* had it long enough.
GuardRemembers ==
    \A p \in Proc : \A f \in first[p] :
        \/ f.assertion \in dropped[p]
        \/ \E e \in seen[p] : e.assertion = f.assertion
        \/ now >= f.at + MaxTtl
        \/ now >= f.assertion.exp

\* An entry of the guard stays until the assertion expires or for MAX_TTL_SECS.
GuardHolds ==
    \A p \in Proc : \A f \in first[p] : \A e \in seen[p] :
        e.assertion = f.assertion => e.until >= f.at + MaxTtl \/ e.until >= f.assertion.exp

\* A request under way shows one secret, and one that is to get a token by a
\* secret shows the right one.
OneSecret ==
    \A s \in Slot : slot[s] # None =>
        /\ Unambiguous(slot[s].req)
        /\ slot[s].pc = "mint" /\ slot[s].req.client.method = "client_secret" => Secret(slot[s].req) = "right"

ProofInv == Waiting /\ WithProof /\ OwnSecrets /\ RowKept /\ OnePast /\ ProofOnce
NonceInv == NoncesDated /\ JudgedByBucket
GuardInv == GuardRemembers /\ GuardHolds /\ AssertionOnce
-----------------------------------------------------------------------------
(* Types *)

\* A nonce of a process is a nonce record.
LEMMA NonceType ==
    ASSUME TypeOK, NEW p \in Proc
    PROVE  Nonce(p) \in NonceRecord
<1>1. Bucket(now) \in Nat
  BY BoundAssumption DEF TypeOK, Bucket
<1> QED
  BY <1>1 DEF TypeOK, Nonce, NonceRecord

\* The fields of a request under way have their types.
LEMMA SlotFields ==
    ASSUME TypeOK, NEW s \in Slot, slot[s] # None
    PROVE  /\ slot[s] \in UnderWay
           /\ slot[s].proc \in Proc
           /\ slot[s].req \in RequestRecord
           /\ slot[s].pc \in {"row", "nonce", "grant", "mint"}
           /\ slot[s].at \in Nat
           /\ slot[s].req.proof \in {None} \cup Jti
           /\ slot[s].req.assertion \in {None} \cup Assertion
BY DEF TypeOK, UnderWay, RequestRecord

\* A request moves on: its program counter changes, and what it is stays.
LEMMA GotoFacts ==
    ASSUME TypeOK, NEW s \in Slot, slot[s] # None, NEW pc \in {"nonce", "grant", "mint"}, Goto(s, pc)
    PROVE  /\ slot' \in [Slot -> {None} \cup UnderWay]
           /\ slot'[s] # None
           /\ slot'[s].pc = pc /\ slot'[s].req = slot[s].req /\ slot'[s].proc = slot[s].proc
           /\ \A s2 \in Slot : s2 # s => slot'[s2] = slot[s2]
<1> DEFINE new == [slot[s] EXCEPT !.pc = pc, !.at = 0]
<1>1. slot[s] \in UnderWay /\ slot \in [Slot -> {None} \cup UnderWay]
  BY SlotFields DEF TypeOK
<1>2. new \in UnderWay /\ new.pc = pc /\ new.req = slot[s].req /\ new.proc = slot[s].proc
  BY <1>1 DEF UnderWay
<1>3. slot' = [slot EXCEPT ![s] = new]
  BY DEF Goto
<1> HIDE DEF new
<1>4. new # None
  BY <1>2, RecordAssumption
<1> QED
  BY <1>1, <1>2, <1>3, <1>4

\* A request ends.
LEMMA DoneFacts ==
    ASSUME TypeOK, NEW s \in Slot, Done(s)
    PROVE  /\ slot' \in [Slot -> {None} \cup UnderWay]
           /\ slot'[s] = None
           /\ \A s2 \in Slot : s2 # s => slot'[s2] = slot[s2]
BY DEF TypeOK, Done

\* A request arrives.
LEMMA ArriveFacts ==
    ASSUME TypeOK, NEW s \in Slot, NEW p \in Proc, NEW r \in Request, Arrive(s, p, r)
    PROVE  /\ slot' \in [Slot -> {None} \cup UnderWay]
           /\ slot[s] = None /\ slot'[s] # None
           /\ slot'[s].pc = IF r.proof = None THEN "grant" ELSE "row"
           /\ slot'[s].req = r /\ slot'[s].at = now /\ slot'[s].proc = p
           /\ \A s2 \in Slot : s2 # s => slot'[s2] = slot[s2]
<1> DEFINE new == [proc |-> p, req |-> r, pc |-> IF r.proof = None THEN "grant" ELSE "row", at |-> now]
<1>1. slot \in [Slot -> {None} \cup UnderWay] /\ now \in Nat
  BY DEF TypeOK
<1>2. new \in UnderWay /\ new.pc = (IF r.proof = None THEN "grant" ELSE "row") /\ new.req = r /\ new.at = now
      /\ new.proc = p
  BY <1>1, RequestAssumption DEF UnderWay
<1>3. slot[s] = None /\ slot' = [slot EXCEPT ![s] = new]
  BY DEF Arrive
<1> HIDE DEF new
<1>4. new # None
  BY <1>2, RecordAssumption
<1> QED
  BY <1>1, <1>2, <1>3, <1>4

\* Every step keeps the types: what a row or an entry is made from is the proof or
\* the assertion of the request.
LEMMA TypeStep == TypeOK /\ Waiting /\ WithProof /\ OwnSecrets /\ [Next]_vars => TypeOK'
<1> SUFFICES ASSUME TypeOK, Waiting, WithProof, OwnSecrets, [Next]_vars PROVE TypeOK'
  OBVIOUS
<1>1. CASE Tick
  BY <1>1 DEF Tick, history, TypeOK
<1>2. ASSUME NEW p \in Proc, Restart(p) PROVE TypeOK'
  <2>1. secret' \in [Proc -> SecretKey]
    <3>1. CASE SharedSecret
      BY <1>2, <3>1 DEF Restart, TypeOK
    <3>2. CASE ~SharedSecret
      BY <1>2, <3>2 DEF Restart, OwnSecrets, TypeOK, SecretKey
    <3> QED
      BY <3>1, <3>2
  <2> QED
    BY <1>2, <2>1 DEF Restart, TypeOK
<1>3. ASSUME NEW j \in Jti, NEW iat \in Nat, NEW fits \in BOOLEAN,
             NEW nonce \in {None} \cup {Nonce(p) : p \in Proc}, MakeProof(j, iat, nonce, fits)
      PROVE  TypeOK'
  <2>1. nonce \in {None} \cup NonceRecord
    BY NonceType
  <2>2. [iat |-> iat, nonce |-> nonce, fits |-> fits] \in Made
    BY <2>1 DEF Made
  <2> QED
    BY <1>3, <2>2 DEF MakeProof, history, TypeOK
<1>4. ASSUME NEW s \in Slot, NEW p \in Proc, NEW r \in Request, Arrive(s, p, r) PROVE TypeOK'
  <2>1. memory' \in [Proc -> SUBSET JtiRecord]
    <3>1. CASE r.proof = None
      BY <1>4, <3>1 DEF Arrive, TypeOK
    <3>2. CASE r.proof # None
      <4>1. r.proof \in Jti
        BY <3>2, RequestAssumption DEF RequestRecord
      <4>2. ProofRecord(r.proof, now) \in JtiRecord
        BY <4>1, WindowAssumption DEF ProofRecord, JtiRecord, TypeOK
      <4> QED
        BY <1>4, <3>2, <4>2 DEF Arrive, TypeOK, Live
    <3> QED
      BY <3>1, <3>2
  <2>2. slot' \in [Slot -> {None} \cup UnderWay]
    BY <1>4, ArriveFacts
  <2> QED
    BY <1>4, <2>1, <2>2 DEF Arrive, history, TypeOK
<1>5. ASSUME NEW s \in Slot, Step(s) PROVE TypeOK'
  <2>1. CASE CheckRow(s)
    <3>1. slot[s] # None /\ slot[s].pc = "row"
      BY <2>1 DEF CheckRow
    <3>2. slot' \in [Slot -> {None} \cup UnderWay]
      BY <2>1, <3>1, GotoFacts, DoneFacts DEF CheckRow
    <3>3. slot[s].req.proof \in Jti
      BY <3>1 DEF Waiting
    <3>4. ProofRecord(slot[s].req.proof, slot[s].at) \in JtiRecord
      BY <3>1, <3>3, SlotFields, WindowAssumption DEF ProofRecord, JtiRecord
    <3>5. rows' \subseteq JtiRecord
      BY <2>1, <3>4 DEF CheckRow, TypeOK
    <3> QED
      BY <2>1, <3>2, <3>5 DEF CheckRow, history, TypeOK
  <2>2. CASE RowFails(s)
    BY <2>2, DoneFacts DEF RowFails, history, TypeOK
  <2>3. CASE CheckNonce(s)
    <3> DEFINE n == proofs[slot[s].req.proof].nonce
               p == slot[s].proc
    <3>1. slot[s] # None /\ slot[s].pc = "nonce"
      BY <2>3 DEF CheckNonce
    <3>2. slot' \in [Slot -> {None} \cup UnderWay]
      BY <2>3, <3>1, GotoFacts, DoneFacts DEF CheckNonce
    <3>3. judged' \subseteq [nonce : NonceRecord, secret : SecretKey, at : Nat, ok : BOOLEAN]
      <4>1. CASE UNCHANGED judged
        BY <4>1 DEF TypeOK
      <4>2. CASE /\ n # None
                 /\ judged' = judged \cup {[nonce |-> n, secret |-> secret[p], at |-> now, ok |-> NonceGood(n, p)]}
        <5>1. n \in NonceRecord
          BY <3>1, <4>2 DEF WithProof, TypeOK, Made
        <5>2. secret[p] \in SecretKey /\ now \in Nat
          BY <3>1, SlotFields DEF TypeOK
        <5>3. NonceGood(n, p) \in BOOLEAN
          BY DEF NonceGood, InGrace
        <5> QED
          BY <4>2, <5>1, <5>2, <5>3 DEF TypeOK
      <4> QED
        BY <2>3, <4>1, <4>2 DEF CheckNonce
    <3> QED
      BY <2>3, <3>2, <3>3 DEF CheckNonce, TypeOK
  <2>4. CASE Authenticate(s)
    <3> DEFINE p == slot[s].proc
               a == slot[s].req.assertion
    <3>1. slot[s] # None /\ slot[s].pc = "grant" /\ Goto(s, "mint") /\ Credentials(slot[s].req)
      BY <2>4 DEF Authenticate
    <3>2. slot' \in [Slot -> {None} \cup UnderWay]
      BY <3>1, GotoFacts
    <3>3. CASE slot[s].req.client.method # "jwt"
      BY <2>4, <3>2, <3>3 DEF Authenticate, TypeOK
    <3>4. CASE slot[s].req.client.method = "jwt"
      <4>1. p \in Proc /\ a \in Assertion
        BY <3>1, <3>4, SlotFields DEF Credentials
      <4>2. GuardEntry(a) \in [assertion : Assertion, until : Nat, at : Nat]
        BY <4>1, BoundAssumption DEF GuardEntry, GuardTtl, TypeOK, Assertion
      <4>3. Observe(p, a)
        BY <2>4, <3>4 DEF Authenticate
      <4>4. /\ seen' \in [Proc -> SUBSET [assertion : Assertion, until : Nat, at : Nat]]
            /\ dropped' \in [Proc -> SUBSET Assertion]
        BY <4>1, <4>2, <4>3 DEF Observe, Live, TypeOK
      <4>5. first' = [first EXCEPT ![p] = {x \in first[p] : x.assertion # a} \cup {[assertion |-> a, at |-> now]}]
        BY <2>4, <3>4 DEF Authenticate
      <4>6. first' \in [Proc -> SUBSET Accepted]
        BY <4>1, <4>5 DEF TypeOK, Accepted
      <4>7. again' \in {None} \cup [assertion : Assertion, first : Nat, second : Nat, evicted : BOOLEAN]
        <5>1. CASE \E f \in first[p] : f.assertion = a
          <6>1. PICK f \in first[p] : again' = [assertion |-> a, first |-> f.at, second |-> now, evicted |-> a \in dropped[p]]
            BY <2>4, <3>4, <5>1 DEF Authenticate
          <6>2. f.at \in Nat /\ now \in Nat
            BY <4>1 DEF TypeOK, Accepted
          <6> QED
            BY <4>1, <6>1, <6>2
        <5>2. CASE ~ \E f \in first[p] : f.assertion = a
          BY <2>4, <3>4, <5>2 DEF Authenticate, TypeOK
        <5> QED
          BY <5>1, <5>2
      <4> QED
        BY <2>4, <3>2, <4>4, <4>6, <4>7 DEF Authenticate, TypeOK
    <3> QED
      BY <3>3, <3>4
  <2>5. CASE AuthenticationFails(s)
    BY <2>5, DoneFacts DEF AuthenticationFails, history, TypeOK
  <2>6. CASE Mint(s)
    <3>1. slot[s] # None /\ slot' \in [Slot -> {None} \cup UnderWay]
      BY <2>6, DoneFacts DEF Mint
    <3>2. issued' \subseteq Jti /\ doubled' \subseteq issued'
      BY <2>6, <3>1, SlotFields DEF Mint, TypeOK
    <3> QED
      BY <2>6, <3>1, <3>2 DEF Mint, TypeOK
  <2>7. CASE MintFails(s)
    BY <2>7, DoneFacts DEF MintFails, history, TypeOK
  <2> QED
    BY <1>5, <2>1, <2>2, <2>3, <2>4, <2>5, <2>6, <2>7 DEF Step
<1>6. CASE UNCHANGED vars
  BY <1>6 DEF vars, history, TypeOK
<1> QED
  BY <1>1, <1>2, <1>3, <1>4, <1>5, <1>6 DEF Next

-----------------------------------------------------------------------------
(* Proofs of possession *)

\* A request waits from its arrival, in the window of its proof, and time does not
\* pass its timeout.
LEMMA WaitingStep == TypeOK /\ Waiting /\ [Next]_vars => Waiting'
<1> SUFFICES ASSUME TypeOK, Waiting, [Next]_vars PROVE Waiting'
  OBVIOUS
<1>1. CASE Tick
  <2>1. now \in Nat /\ now' = now + 1 /\ UNCHANGED <<slot, proofs>>
    BY <1>1 DEF Tick, TypeOK
  <2>2. \A s \in Slot : slot[s] # None => slot[s].at \in Nat
    BY SlotFields
  <2> QED
    BY <1>1, <2>1, <2>2, WindowAssumption DEF Tick, Waiting
<1>2. ASSUME NEW p \in Proc, Restart(p) PROVE Waiting'
  BY <1>2 DEF Restart, Waiting, TypeOK
<1>3. ASSUME NEW j \in Jti, NEW iat \in Nat, NEW fits \in BOOLEAN,
             NEW nonce \in {None} \cup {Nonce(p) : p \in Proc}, MakeProof(j, iat, nonce, fits)
      PROVE  Waiting'
  BY <1>3 DEF MakeProof, Waiting, TypeOK, history
<1>4. ASSUME NEW s \in Slot, NEW p \in Proc, NEW r \in Request, Arrive(s, p, r) PROVE Waiting'
  <2> DEFINE q == r.proof
  <2>1. slot[s] = None /\ slot'[s].req = r /\ slot'[s].at = now /\ now \in Nat
        /\ (slot'[s].pc = "row" <=> q # None) /\ \A s2 \in Slot : s2 # s => slot'[s2] = slot[s2]
    BY <1>4, ArriveFacts DEF TypeOK
  <2>2. q # None => /\ q \in Jti /\ proofs[q] # None
                    /\ proofs[q].iat <= now + Skew /\ now <= proofs[q].iat + Skew
    BY <1>4, RequestAssumption DEF Arrive, RequestRecord, ProofHolds
  <2>3. UNCHANGED <<now, proofs>>
    BY <1>4 DEF Arrive
  <2> QED
    BY <2>1, <2>2, <2>3, WindowAssumption DEF Waiting
<1>5. ASSUME NEW s \in Slot, Step(s) PROVE Waiting'
  <2>1. CASE CheckRow(s)
    <3>1. slot[s] # None /\ UNCHANGED <<now, proofs>> /\ (Goto(s, "nonce") \/ Done(s))
      BY <2>1 DEF CheckRow
    <3> QED
      BY <3>1, GotoFacts, DoneFacts DEF Waiting
  <2>2. CASE RowFails(s)
    BY <2>2, DoneFacts DEF RowFails, Waiting
  <2>3. CASE CheckNonce(s)
    <3>1. slot[s] # None /\ UNCHANGED <<now, proofs>> /\ (Goto(s, "grant") \/ Done(s))
      BY <2>3 DEF CheckNonce
    <3> QED
      BY <3>1, GotoFacts, DoneFacts DEF Waiting
  <2>4. CASE Authenticate(s)
    BY <2>4, GotoFacts DEF Authenticate, Waiting
  <2>5. CASE AuthenticationFails(s)
    BY <2>5, DoneFacts DEF AuthenticationFails, Waiting
  <2>6. CASE Mint(s)
    BY <2>6, DoneFacts DEF Mint, Waiting
  <2>7. CASE MintFails(s)
    BY <2>7, DoneFacts DEF MintFails, Waiting
  <2> QED
    BY <1>5, <2>1, <2>2, <2>3, <2>4, <2>5, <2>6, <2>7 DEF Step
<1>6. CASE UNCHANGED vars
  BY <1>6 DEF vars, history, Waiting
<1> QED
  BY <1>1, <1>2, <1>3, <1>4, <1>5, <1>6 DEF Next

\* A nonce is looked at only after a row was inserted for the proof.
LEMMA WithProofStep == TypeOK /\ Waiting /\ WithProof /\ [Next]_vars => WithProof'
<1> SUFFICES ASSUME TypeOK, Waiting, WithProof, [Next]_vars PROVE WithProof'
  OBVIOUS
<1>1. CASE Tick
  BY <1>1 DEF Tick, WithProof
<1>2. ASSUME NEW p \in Proc, Restart(p) PROVE WithProof'
  BY <1>2 DEF Restart, WithProof, TypeOK
<1>3. ASSUME NEW j \in Jti, NEW iat \in Nat, NEW fits \in BOOLEAN,
             NEW nonce \in {None} \cup {Nonce(p) : p \in Proc}, MakeProof(j, iat, nonce, fits)
      PROVE  WithProof'
  BY <1>3 DEF MakeProof, WithProof, TypeOK, history
<1>4. ASSUME NEW s \in Slot, NEW p \in Proc, NEW r \in Request, Arrive(s, p, r) PROVE WithProof'
  <2>1. slot'[s].pc # "nonce" /\ UNCHANGED proofs /\ \A s2 \in Slot : s2 # s => slot'[s2] = slot[s2]
    BY <1>4, ArriveFacts DEF Arrive
  <2> QED
    BY <2>1 DEF WithProof
<1>5. ASSUME NEW s \in Slot, Step(s) PROVE WithProof'
  <2>1. CASE CheckRow(s)
    <3>1. slot[s] # None /\ slot[s].pc = "row" /\ UNCHANGED proofs /\ (Goto(s, "nonce") \/ Done(s))
      BY <2>1 DEF CheckRow
    <3>2. slot[s].req.proof \in Jti /\ proofs[slot[s].req.proof] # None
      BY <3>1 DEF Waiting
    <3> QED
      BY <3>1, <3>2, GotoFacts, DoneFacts DEF WithProof
  <2>2. CASE RowFails(s)
    BY <2>2, DoneFacts DEF RowFails, WithProof
  <2>3. CASE CheckNonce(s)
    <3>1. slot[s] # None /\ UNCHANGED <<now, proofs>> /\ (Goto(s, "grant") \/ Done(s))
      BY <2>3 DEF CheckNonce
    <3> QED
      BY <3>1, GotoFacts, DoneFacts DEF WithProof
  <2>4. CASE Authenticate(s)
    BY <2>4, GotoFacts DEF Authenticate, WithProof
  <2>5. CASE AuthenticationFails(s)
    BY <2>5, DoneFacts DEF AuthenticationFails, WithProof
  <2>6. CASE Mint(s)
    BY <2>6, DoneFacts DEF Mint, WithProof
  <2>7. CASE MintFails(s)
    BY <2>7, DoneFacts DEF MintFails, WithProof
  <2> QED
    BY <1>5, <2>1, <2>2, <2>3, <2>4, <2>5, <2>6, <2>7 DEF Step
<1>6. CASE UNCHANGED vars
  BY <1>6 DEF vars, history, WithProof
<1> QED
  BY <1>1, <1>2, <1>3, <1>4, <1>5, <1>6 DEF Next

\* A restart draws a new key for the same process.
LEMMA OwnSecretsStep == TypeOK /\ OwnSecrets /\ [Next]_vars => OwnSecrets'
<1> SUFFICES ASSUME TypeOK, OwnSecrets, [Next]_vars PROVE OwnSecrets'
  OBVIOUS
<1>1. CASE Tick
  BY <1>1 DEF Tick, history, OwnSecrets
<1>2. ASSUME NEW p \in Proc, Restart(p) PROVE OwnSecrets'
  <2>1. CASE ~SharedSecret
    <3>1. secret \in [Proc -> [of : Proc, start : Nat]] /\ restarts \in Nat
      BY <2>1 DEF OwnSecrets, TypeOK
    <3>2. secret' = [secret EXCEPT ![p].start = restarts + 1]
      BY <1>2, <2>1 DEF Restart
    <3> QED
      BY <3>1, <3>2 DEF OwnSecrets
  <2> QED
    BY <2>1 DEF OwnSecrets
<1>3. ASSUME NEW j \in Jti, NEW iat \in Nat, NEW fits \in BOOLEAN,
             NEW nonce \in {None} \cup {Nonce(p) : p \in Proc}, MakeProof(j, iat, nonce, fits)
      PROVE  OwnSecrets'
  BY <1>3 DEF MakeProof, history, OwnSecrets
<1>4. ASSUME NEW s \in Slot, NEW p \in Proc, NEW r \in Request, Arrive(s, p, r) PROVE OwnSecrets'
  BY <1>4 DEF Arrive, history, OwnSecrets
<1>5. ASSUME NEW s \in Slot, Step(s) PROVE OwnSecrets'
  <2>1. CASE CheckRow(s)
    BY <2>1 DEF CheckRow, history, OwnSecrets
  <2>2. CASE RowFails(s)
    BY <2>2 DEF RowFails, history, OwnSecrets
  <2>3. CASE CheckNonce(s)
    BY <2>3 DEF CheckNonce, history, OwnSecrets
  <2>4. CASE Authenticate(s)
    BY <2>4 DEF Authenticate, history, OwnSecrets
  <2>5. CASE AuthenticationFails(s)
    BY <2>5 DEF AuthenticationFails, history, OwnSecrets
  <2>6. CASE Mint(s)
    BY <2>6 DEF Mint, history, OwnSecrets
  <2>7. CASE MintFails(s)
    BY <2>7 DEF MintFails, history, OwnSecrets
  <2> QED
    BY <1>5, <2>1, <2>2, <2>3, <2>4, <2>5, <2>6, <2>7 DEF Step
<1>6. CASE UNCHANGED vars
  BY <1>6 DEF vars, history, OwnSecrets
<1> QED
  BY <1>1, <1>2, <1>3, <1>4, <1>5, <1>6 DEF Next

\* No step but an insert lets a request past the row of a proof.
LEMMA PastShrinks ==
    ASSUME TypeOK, [Next]_vars, ~ \E s \in Slot : CheckRow(s)
    PROVE  \A s \in Slot, j \in Jti : Past(s, j)' => Past(s, j)
<1> DEFINE Shrinks == \A s \in Slot, j \in Jti : Past(s, j)' => Past(s, j)
<1> SUFFICES Shrinks
  OBVIOUS
<1>1. CASE Tick
  BY <1>1 DEF Tick, Past
<1>2. ASSUME NEW p \in Proc, Restart(p) PROVE Shrinks
  BY <1>2 DEF Restart, Past
<1>3. ASSUME NEW j \in Jti, NEW iat \in Nat, NEW fits \in BOOLEAN,
             NEW nonce \in {None} \cup {Nonce(p) : p \in Proc}, MakeProof(j, iat, nonce, fits)
      PROVE  Shrinks
  BY <1>3 DEF MakeProof, Past
<1>4. ASSUME NEW s \in Slot, NEW p \in Proc, NEW r \in Request, Arrive(s, p, r)
      PROVE  Shrinks
  BY <1>4, ArriveFacts, NoneAssumption DEF Past
<1>5. ASSUME NEW s \in Slot, Step(s) PROVE Shrinks
  <2>1. CASE CheckRow(s)
    BY <2>1
  <2>2. CASE RowFails(s)
    BY <2>2, DoneFacts DEF RowFails, Past
  <2>3. CASE CheckNonce(s)
    <3>1. slot[s] # None /\ slot[s].pc = "nonce" /\ (Goto(s, "grant") \/ Done(s))
      BY <2>3 DEF CheckNonce
    <3> QED
      BY <3>1, GotoFacts, DoneFacts DEF Past
  <2>4. CASE Authenticate(s)
    <3>1. slot[s] # None /\ slot[s].pc = "grant" /\ Goto(s, "mint")
      BY <2>4 DEF Authenticate
    <3> QED
      BY <3>1, GotoFacts DEF Past
  <2>5. CASE AuthenticationFails(s)
    BY <2>5, DoneFacts DEF AuthenticationFails, Past
  <2>6. CASE Mint(s)
    BY <2>6, DoneFacts DEF Mint, Past
  <2>7. CASE MintFails(s)
    BY <2>7, DoneFacts DEF MintFails, Past
  <2> QED
    BY <1>5, <2>1, <2>2, <2>3, <2>4, <2>5, <2>6, <2>7 DEF Step
<1>6. CASE UNCHANGED vars
  BY <1>6 DEF vars, Past
<1> QED
  BY <1>1, <1>2, <1>3, <1>4, <1>5, <1>6 DEF Next

\* An insert finds the proof unspent: had it been spent, its row would be there,
\* or this request would have waited too long.
LEMMA InsertFindsUnspent ==
    ASSUME TypeOK, Waiting, RowKept, NEW s \in Slot, CheckRow(s), Goto(s, "nonce")
    PROVE  LET j == slot[s].req.proof IN
           /\ j \in Jti
           /\ ~Spent(j)
           /\ proofs[j] # None
           /\ \E e \in rows' : e.jti = j /\ e.until + Skew >= proofs[j].iat + ProofTtl
<1> DEFINE j == slot[s].req.proof
           at == slot[s].at
           kept == {e \in rows : e.until >= now}
<1>1. /\ slot[s] # None /\ slot[s].pc = "row" /\ j \in Jti /\ proofs[j] # None
      /\ proofs[j].iat <= at + Skew /\ at <= proofs[j].iat + Skew /\ now <= at + MaxWait
  BY DEF CheckRow, Waiting
<1>2. proofs[j].iat \in Nat /\ at \in Nat /\ now \in Nat
  BY <1>1, SlotFields DEF TypeOK, Made
<1>3. slot'[s] # None
  BY <1>1, GotoFacts
<1>4. ~Done(s)
  BY <1>3, DoneFacts
<1>5. (~ \E e \in kept : e.jti = j) /\ rows' = kept \cup {ProofRecord(j, at)}
  BY <1>4 DEF CheckRow
<1>6. ~Spent(j)
  <2> SUFFICES ASSUME Spent(j) PROVE FALSE
    OBVIOUS
  <2>1. now <= proofs[j].iat + Skew + MaxWait
    BY <1>1, <1>2, WindowAssumption
  <2>2. PICK e \in rows : e.jti = j /\ e.until + Skew >= proofs[j].iat + ProofTtl
    BY <1>1, <1>2, <2>1, WindowAssumption DEF RowKept
  <2>3. e.until \in Nat
    BY DEF TypeOK, JtiRecord
  <2>4. e.until >= now
    BY <1>2, <2>1, <2>2, <2>3, WindowAssumption
  <2> QED
    BY <1>5, <2>2, <2>4
<1>7. ProofRecord(j, at) \in rows' /\ ProofRecord(j, at).jti = j /\ ProofRecord(j, at).until = at + ProofTtl
  BY <1>5 DEF ProofRecord
<1>8. at + ProofTtl + Skew >= proofs[j].iat + ProofTtl
  BY <1>1, <1>2, WindowAssumption
<1> QED
  BY <1>1, <1>6, <1>7, <1>8

\* Only MakeProof makes a proof.
MakesProof ==
    \E j \in Jti, iat \in Nat, fits \in BOOLEAN, nonce \in {None} \cup {Nonce(p) : p \in Proc} :
        MakeProof(j, iat, nonce, fits)

LEMMA OnlyMakeProof ==
    ASSUME TypeOK, [Next]_vars
    PROVE  proofs' = proofs \/ MakesProof
<1>1. CASE Tick
  BY <1>1 DEF Tick
<1>2. ASSUME NEW p \in Proc, Restart(p) PROVE proofs' = proofs
  BY <1>2 DEF Restart
<1>3. ASSUME NEW j \in Jti,
             NEW iat \in {t \in 0..MaxTime + Skew : t <= now + Skew /\ now <= t + Skew},
             NEW fits \in BOOLEAN, NEW nonce \in {None} \cup {Nonce(p) : p \in Proc},
             MakeProof(j, iat, nonce, fits)
      PROVE  MakesProof
  <2>1. iat \in Nat
    BY BoundAssumption, WindowAssumption
  <2> QED
    BY <1>3, <2>1 DEF MakesProof
<1>4. ASSUME NEW s \in Slot, NEW p \in Proc, NEW r \in Request, Arrive(s, p, r) PROVE proofs' = proofs
  BY <1>4 DEF Arrive
<1>5. ASSUME NEW s \in Slot, Step(s) PROVE proofs' = proofs
  BY <1>5 DEF Step, CheckRow, RowFails, CheckNonce, Authenticate, AuthenticationFails, Mint, MintFails
<1>6. CASE UNCHANGED vars
  BY <1>6 DEF vars
<1> QED
  BY <1>1, <1>2, <1>3, <1>4, <1>5, <1>6 DEF Next

\* Proofs are made once, and by nothing but MakeProof.
LEMMA ProofsMade ==
    ASSUME TypeOK, [Next]_vars
    PROVE  \/ proofs' = proofs
           \/ \E j \in Jti, x \in Made : proofs[j] = None /\ proofs' = [proofs EXCEPT ![j] = x]
<1>1. ASSUME NEW j \in Jti, NEW iat \in Nat, NEW fits \in BOOLEAN,
             NEW nonce \in {None} \cup {Nonce(p) : p \in Proc}, MakeProof(j, iat, nonce, fits)
      PROVE  \E x \in Made : proofs[j] = None /\ proofs' = [proofs EXCEPT ![j] = x]
  <2>1. [iat |-> iat, nonce |-> nonce, fits |-> fits] \in Made
    BY NonceType DEF Made
  <2> QED
    BY <1>1, <2>1 DEF MakeProof
<1> QED
  BY <1>1, OnlyMakeProof DEF MakesProof

\* The row of a spent proof goes only when no request can come to it any more.
LEMMA RowKeptStep == TypeOK /\ Waiting /\ RowKept /\ [Next]_vars => RowKept'
<1> SUFFICES ASSUME TypeOK, Waiting, RowKept, [Next]_vars, NEW j \in Jti, Spent(j)'
             PROVE  /\ proofs'[j] # None
                    /\ \/ \E e \in rows' : e.jti = j /\ e.until + Skew >= proofs'[j].iat + ProofTtl
                       \/ now' > proofs'[j].iat + Skew + MaxWait
  BY DEF RowKept
<1>1. ASSUME NEW s \in Slot, CheckRow(s), Goto(s, "nonce"), j = slot[s].req.proof
      PROVE  proofs'[j] # None /\ \E e \in rows' : e.jti = j /\ e.until + Skew >= proofs'[j].iat + ProofTtl
  <2>1. UNCHANGED proofs
    BY <1>1 DEF CheckRow
  <2> QED
    BY <1>1, <2>1, InsertFindsUnspent
<1>2. CASE Spent(j)
  <2>1. proofs[j] # None /\ proofs'[j] = proofs[j]
    <3>1. proofs[j] # None
      BY <1>2 DEF RowKept
    <3>2. CASE \E k \in Jti, x \in Made : proofs[k] = None /\ proofs' = [proofs EXCEPT ![k] = x]
      BY <3>1, <3>2 DEF TypeOK
    <3>3. CASE proofs' = proofs
      BY <3>1, <3>3
    <3> QED
      BY <3>2, <3>3, ProofsMade
  <2>2. proofs[j].iat \in Nat /\ now \in Nat /\ now' \in Nat /\ now' >= now
    <3>1. now' = now \/ now' = now + 1
      BY DEF Next, vars, Tick, Restart, MakeProof, Arrive, Step, CheckRow, RowFails, CheckNonce, Authenticate,
             AuthenticationFails, Mint, MintFails
    <3> QED
      BY <2>1, <3>1 DEF TypeOK, Made
  <2>3. CASE now > proofs[j].iat + Skew + MaxWait
    BY <2>1, <2>2, <2>3, WindowAssumption
  <2>4. CASE \E e \in rows : e.jti = j /\ e.until + Skew >= proofs[j].iat + ProofTtl
    <3>1. PICK e \in rows : e.jti = j /\ e.until + Skew >= proofs[j].iat + ProofTtl
      BY <2>4
    <3>2. CASE e \in rows'
      BY <2>1, <3>1, <3>2
    <3>3. CASE e \notin rows'
      <4>1. e.until < now
        <5>1. PICK s \in Slot : CheckRow(s)
          BY <3>3 DEF Next, vars, Tick, Restart, MakeProof, Arrive, Step, RowFails, CheckNonce, Authenticate,
                      AuthenticationFails, Mint, MintFails
        <5>2. e \notin {x \in rows : x.until >= now}
          BY <3>3, <5>1 DEF CheckRow
        <5> QED
          BY <2>2, <5>2 DEF TypeOK, JtiRecord
      <4>2. e.until \in Nat
        BY DEF TypeOK, JtiRecord
      <4> QED
        BY <2>1, <2>2, <3>1, <4>1, <4>2, WindowAssumption
    <3> QED
      BY <3>2, <3>3
  <2> QED
    BY <1>2, <2>3, <2>4 DEF RowKept
<1>3. CASE ~Spent(j)
  <2>1. PICK s \in Slot : CheckRow(s) /\ Goto(s, "nonce") /\ j = slot[s].req.proof
    <3>1. CASE \E s \in Slot : CheckRow(s)
      <4>1. PICK s \in Slot : CheckRow(s)
        BY <3>1
      <4>2. slot[s] # None /\ slot[s].pc = "row" /\ issued' = issued /\ (Done(s) \/ Goto(s, "nonce"))
        BY <4>1 DEF CheckRow, history
      <4>3. PICK s2 \in Slot : Past(s2, j)'
        BY <1>3, <4>2 DEF Spent
      <4>4. s2 = s
        BY <1>3, <4>2, <4>3, DoneFacts, GotoFacts DEF Spent, Past
      <4>5. Goto(s, "nonce")
        BY <4>2, <4>3, <4>4, DoneFacts DEF Past
      <4> QED
        BY <4>1, <4>2, <4>3, <4>4, <4>5, GotoFacts DEF Past
    <3>2. CASE ~ \E s \in Slot : CheckRow(s)
      <4>1. j \in issued'
        BY <1>3, <3>2, PastShrinks DEF Spent
      <4>2. PICK s \in Slot : Mint(s)
        BY <1>3, <3>2, <4>1 DEF Spent, Next, vars, history, Tick, Restart, MakeProof, Arrive, Step, RowFails,
                          CheckNonce, Authenticate, AuthenticationFails, MintFails
      <4>3. Past(s, j)
        BY <1>3, <4>1, <4>2 DEF Spent, Past, Mint
      <4> QED
        BY <1>3, <4>3 DEF Spent
    <3> QED
      BY <3>1, <3>2
  <2> QED
    BY <1>1, <2>1
<1> QED
  BY <1>2, <1>3

\* Only an insert lets a request past, and it finds the proof unspent; the token
\* is issued as the request ends.
LEMMA OnePastStep == TypeOK /\ Waiting /\ RowKept /\ OnePast /\ ProofOnce /\ [Next]_vars => OnePast' /\ ProofOnce'
<1> SUFFICES ASSUME TypeOK, Waiting, RowKept, OnePast, ProofOnce, [Next]_vars PROVE OnePast' /\ ProofOnce'
  OBVIOUS
<1>1. ASSUME NEW s \in Slot, CheckRow(s) PROVE OnePast' /\ ProofOnce'
  <2>1. slot[s] # None /\ slot[s].pc = "row" /\ UNCHANGED <<issued, doubled>> /\ (Done(s) \/ Goto(s, "nonce"))
    BY <1>1 DEF CheckRow, history
  <2>2. CASE Done(s)
    BY <2>1, <2>2, DoneFacts DEF OnePast, ProofOnce, Past
  <2>3. CASE Goto(s, "nonce")
    <3>1. slot[s].req.proof \in Jti /\ ~Spent(slot[s].req.proof)
      BY <1>1, <2>3, InsertFindsUnspent
    <3>2. /\ slot'[s] # None /\ slot'[s].req = slot[s].req
          /\ \A s2 \in Slot : s2 # s => slot'[s2] = slot[s2]
      BY <2>1, <2>3, GotoFacts
    <3>3. \A s2 \in Slot, j \in Jti : Past(s2, j)' => (s2 = s /\ j = slot[s].req.proof) \/ (s2 # s /\ Past(s2, j))
      BY <3>2 DEF Past
    <3>4. \A s2 \in Slot, j \in Jti : Past(s2, j) => j # slot[s].req.proof /\ j \notin issued
      BY <3>1 DEF Spent, OnePast
    <3>5. slot[s].req.proof \notin issued
      BY <3>1 DEF Spent
    <3> QED
      BY <2>1, <3>3, <3>4, <3>5 DEF OnePast, ProofOnce
  <2> QED
    BY <2>1, <2>2, <2>3
<1>2. ASSUME NEW s \in Slot, Mint(s) PROVE OnePast' /\ ProofOnce'
  <2> DEFINE j == slot[s].req.proof
  <2>1. slot[s] # None /\ slot[s].pc = "mint" /\ Done(s)
    BY <1>2 DEF Mint
  <2>2. \A s2 \in Slot, k \in Jti : Past(s2, k)' => s2 # s /\ Past(s2, k)
    BY <2>1, DoneFacts DEF Past
  <2>3. CASE j = None
    BY <1>2, <2>2, <2>3 DEF Mint, OnePast, ProofOnce
  <2>4. CASE j # None
    <3>1. j \in Jti /\ Past(s, j)
      BY <2>1, <2>4, SlotFields DEF Past
    <3>2. j \notin issued /\ \A s2 \in Slot : Past(s2, j) => s2 = s
      BY <3>1 DEF OnePast
    <3>3. issued' = issued \cup {j} /\ doubled' = doubled
      BY <1>2, <2>4, <3>2 DEF Mint
    <3> QED
      BY <2>2, <3>2, <3>3 DEF OnePast, ProofOnce
  <2> QED
    BY <2>3, <2>4
<1>3. CASE (~ \E s \in Slot : CheckRow(s)) /\ ~ \E s \in Slot : Mint(s)
  <2>1. UNCHANGED <<issued, doubled>>
    BY <1>3 DEF Next, vars, history, Tick, Restart, MakeProof, Arrive, Step, RowFails,
                CheckNonce, Authenticate, AuthenticationFails, MintFails
  <2>2. \A s \in Slot, j \in Jti : Past(s, j)' => Past(s, j)
    BY <1>3, PastShrinks
  <2> QED
    BY <2>1, <2>2 DEF OnePast, ProofOnce
<1> QED
  BY <1>1, <1>2, <1>3

-----------------------------------------------------------------------------
(* Nonces *)

\* Buckets are as long as the lifetime of a nonce.
LEMMA BucketBounds ==
    ASSUME NEW t \in Nat
    PROVE  /\ Bucket(t) \in Nat
           /\ NonceLife * Bucket(t) <= t
           /\ t < NonceLife * Bucket(t) + NonceLife
BY BoundAssumption DEF Bucket

\* A nonce of this bucket or of the one before is less than two lifetimes old,
\* and one of an earlier bucket is older than a lifetime.
LEMMA BucketAges ==
    ASSUME NEW t \in Nat, NEW u \in Nat, t <= u
    PROVE  /\ Bucket(t) <= Bucket(u)
           /\ Bucket(t) + 1 >= Bucket(u) => u < t + 2 * NonceLife
           /\ ~(Bucket(t) + 1 >= Bucket(u)) => u >= t + NonceLife
<1> DEFINE L == NonceLife
           a == Bucket(t)
           b == Bucket(u)
<1>1. L \in Nat /\ L > 0 /\ a \in Nat /\ b \in Nat
  BY BucketBounds, BoundAssumption
<1>2. L * a <= t /\ t < L * a + L /\ L * b <= u /\ u < L * b + L
  BY BucketBounds
<1> HIDE DEF L, a, b
<1>3. \A m, n \in Nat : m <= n => L * m <= L * n
  BY <1>1
<1>4. L * (a + 1) = L * a + L /\ L * (b + 1) = L * b + L /\ L * (a + 2) = L * a + 2 * L
  BY <1>1
<1>5. a <= b
  <2> SUFFICES ASSUME b + 1 <= a PROVE FALSE
    BY <1>1
  <2>1. L * (b + 1) <= L * a
    BY <1>1, <1>3
  <2> QED
    BY <1>1, <1>2, <1>4, <2>1
<1>6. a + 1 >= b => u < t + 2 * L
  <2> SUFFICES ASSUME a + 1 >= b PROVE u < t + 2 * L
    OBVIOUS
  <2>1. L * b <= L * (a + 1)
    BY <1>1, <1>3
  <2> QED
    BY <1>1, <1>2, <1>4, <2>1
<1>7. ~(a + 1 >= b) => u >= t + L
  <2> SUFFICES ASSUME a + 2 <= b PROVE u >= t + L
    BY <1>1
  <2>1. L * (a + 2) <= L * b
    BY <1>1, <1>3
  <2> QED
    BY <1>1, <1>2, <1>4, <2>1
<1> QED
  BY <1>5, <1>6, <1>7 DEF L, a, b

\* The clock does not go back.
LEMMA ClockStep ==
    ASSUME TypeOK, [Next]_vars
    PROVE  now \in Nat /\ now' \in Nat /\ now <= now'
<1>1. now' = now \/ now' = now + 1
  BY DEF Next, vars, Tick, Restart, MakeProof, Arrive, Step, CheckRow, RowFails,
              CheckNonce, Authenticate, AuthenticationFails, Mint, MintFails
<1> QED
  BY <1>1 DEF TypeOK

\* A nonce is dated when it is issued, and a proof is made once.
LEMMA NoncesDatedStep == TypeOK /\ NoncesDated /\ [Next]_vars => NoncesDated'
<1> SUFFICES ASSUME TypeOK, NoncesDated, [Next]_vars PROVE NoncesDated'
  OBVIOUS
<1>1. now \in Nat /\ now' \in Nat /\ now <= now'
  BY ClockStep
<1>2. \A k \in Jti : proofs[k] # None /\ proofs[k].nonce # None => proofs[k].nonce.at \in Nat
  BY DEF TypeOK, Made, NonceRecord
<1>3. CASE proofs' = proofs
  BY <1>1, <1>2, <1>3 DEF NoncesDated, Bucket
<1>4. ASSUME NEW j \in Jti, NEW iat \in Nat, NEW fits \in BOOLEAN,
             NEW nonce \in {None} \cup {Nonce(p) : p \in Proc}, MakeProof(j, iat, nonce, fits)
      PROVE  NoncesDated'
  <2> DEFINE x == [iat |-> iat, nonce |-> nonce, fits |-> fits]
  <2>1. nonce # None => nonce.bucket = Bucket(now) /\ nonce.at = now
    BY DEF Nonce
  <2>2. proofs' = [proofs EXCEPT ![j] = x] /\ now' = now /\ x.nonce = nonce
    BY <1>4 DEF MakeProof
  <2>3. \A k \in Jti : k # j => proofs'[k] = proofs[k]
    BY <2>2 DEF TypeOK
  <2>4. proofs'[j] = x
    BY <2>2 DEF TypeOK
  <2> HIDE DEF x
  <2> QED
    BY <1>1, <2>1, <2>2, <2>3, <2>4 DEF NoncesDated, Bucket
<1> QED
  BY <1>3, <1>4, OnlyMakeProof DEF MakesProof

\* A nonce is judged by its bucket and the bucket of the time.
LEMMA JudgedStep == TypeOK /\ WithProof /\ NoncesDated /\ JudgedByBucket /\ [Next]_vars => JudgedByBucket'
<1> SUFFICES ASSUME TypeOK, WithProof, NoncesDated, JudgedByBucket, [Next]_vars PROVE JudgedByBucket'
  OBVIOUS
<1>1. CASE judged' = judged
  BY <1>1 DEF JudgedByBucket, Bucket
<1>2. ASSUME NEW s \in Slot, CheckNonce(s), judged' # judged PROVE JudgedByBucket'
  <2> DEFINE n == proofs[slot[s].req.proof].nonce
             p == slot[s].proc
             x == [nonce |-> n, secret |-> secret[p], at |-> now, ok |-> NonceGood(n, p)]
  <2>1. slot[s] # None /\ slot[s].pc = "nonce" /\ n # None /\ judged' = judged \cup {x}
    BY <1>2 DEF CheckNonce
  <2>2. n.bucket = Bucket(n.at) /\ n.at <= now
    BY <2>1 DEF WithProof, NoncesDated
  <2>3. x.nonce = n /\ x.at = now /\ x.secret = secret[p]
    OBVIOUS
  <2>4. x.ok <=> n.bucket <= Bucket(now) /\ n.bucket + 1 >= Bucket(now) /\ n.secret = secret[p]
    BY DEF NonceGood, InGrace
  <2> HIDE DEF x
  <2> QED
    BY <2>1, <2>2, <2>3, <2>4 DEF JudgedByBucket, Bucket
<1> QED
  BY <1>1, <1>2 DEF Next, vars, history, Tick, Restart, MakeProof, Arrive, Step, CheckRow,
              RowFails, Authenticate, AuthenticationFails, Mint, MintFails

-----------------------------------------------------------------------------
(* Assertions *)

\* How long the guard keeps an assertion.
LEMMA GuardEntryFacts ==
    ASSUME TypeOK, NEW a \in Assertion
    PROVE  /\ GuardEntry(a).assertion = a
           /\ GuardEntry(a).until \in Nat
           /\ GuardEntry(a).until >= now + MaxTtl \/ GuardEntry(a).until >= a.exp
BY BoundAssumption DEF TypeOK, Assertion, GuardEntry, GuardTtl

\* What accepting an assertion a does to the guard of process p.
LEMMA ObserveFacts ==
    ASSUME TypeOK, NEW p \in Proc, NEW a \in Assertion, Observe(p, a)
    PROVE  /\ \A e \in seen[p] : e.assertion = a => e.until <= now
           /\ \A q \in Proc : q # p => seen'[q] = seen[q] /\ dropped'[q] = dropped[q]
           /\ GuardEntry(a) \in seen'[p]
           /\ \A e \in seen'[p] : e = GuardEntry(a) \/ (e \in seen[p] /\ e.assertion # a)
           /\ \A e \in seen[p] : e \in seen'[p] \/ e.until <= now \/ e.assertion \in dropped'[p]
           /\ \A b \in dropped[p] : b = a \/ b \in dropped'[p]
<1>1. seen \in [Proc -> SUBSET [assertion : Assertion, until : Nat, at : Nat]] /\ dropped \in [Proc -> SUBSET Assertion]
      /\ now \in Nat
  BY DEF TypeOK
<1>2. \A e \in seen[p] : e.until \in Nat
  BY <1>1
<1> DEFINE live == Live(seen[p])
<1>3. /\ live \subseteq seen[p] /\ \A e \in live : e.assertion # a
      /\ \A e \in seen[p] : e \notin live => e.until <= now
  BY <1>1, <1>2 DEF Observe, Live
<1> HIDE DEF live
<1>4. CASE /\ seen' = [seen EXCEPT ![p] = live \cup {GuardEntry(a)}]
           /\ dropped' = [dropped EXCEPT ![p] = @ \ {a}]
  BY <1>1, <1>2, <1>3, <1>4
<1>5. ASSUME NEW d \in live, seen' = [seen EXCEPT ![p] = (live \ {d}) \cup {GuardEntry(a)}],
             dropped' = [dropped EXCEPT ![p] = (@ \ {a}) \cup {d.assertion}]
      PROVE  /\ \A e \in seen[p] : e.assertion = a => e.until <= now
             /\ \A q \in Proc : q # p => seen'[q] = seen[q] /\ dropped'[q] = dropped[q]
             /\ GuardEntry(a) \in seen'[p]
             /\ \A e \in seen'[p] : e = GuardEntry(a) \/ (e \in seen[p] /\ e.assertion # a)
             /\ \A e \in seen[p] : e \in seen'[p] \/ e.until <= now \/ e.assertion \in dropped'[p]
             /\ \A b \in dropped[p] : b = a \/ b \in dropped'[p]
  BY <1>1, <1>2, <1>3, <1>5
<1> QED
  BY <1>4, <1>5 DEF Observe, live

\* The guard forgets only what it had long enough or evicts.
LEMMA GuardStep == TypeOK /\ GuardInv /\ [Next]_vars => GuardInv'
<1> SUFFICES ASSUME TypeOK, GuardInv, [Next]_vars PROVE GuardInv'
  OBVIOUS
<1>1. now \in Nat /\ now' \in Nat /\ now <= now'
  BY ClockStep
<1>2. \A p \in Proc : \A f \in first[p] : f.at \in Nat /\ f.assertion \in Assertion /\ f.assertion.exp \in Nat
  BY DEF TypeOK, Accepted, Assertion
<1>3. \A p \in Proc : \A e \in seen[p] : e.until \in Nat
  BY DEF TypeOK
<1>4. GuardRemembers /\ GuardHolds /\ AssertionOnce
  BY DEF GuardInv
<1>5. CASE UNCHANGED <<seen, first, dropped, again>>
  BY <1>1, <1>2, <1>4, <1>5, BoundAssumption DEF GuardInv, GuardRemembers, GuardHolds, AssertionOnce
<1>6. ASSUME NEW p \in Proc, Restart(p) PROVE GuardInv'
  <2>1. /\ first'[p] = {} /\ now' = now /\ again' = again
        /\ \A q \in Proc : q # p => first'[q] = first[q] /\ seen'[q] = seen[q] /\ dropped'[q] = dropped[q]
    BY <1>6 DEF Restart, TypeOK
  <2> QED
    BY <1>4, <2>1 DEF GuardInv, GuardRemembers, GuardHolds, AssertionOnce
<1>7. ASSUME NEW s \in Slot, Authenticate(s), slot[s].req.client.method = "jwt" PROVE GuardInv'
  <2> DEFINE p == slot[s].proc
             a == slot[s].req.assertion
             new == [assertion |-> a, at |-> now]
  <2>1. p \in Proc /\ a \in Assertion
    BY <1>7, SlotFields DEF Authenticate, Credentials
  <2>2. Observe(p, a) /\ now' = now
    BY <1>7 DEF Authenticate
  <2>3. first' = [first EXCEPT ![p] = {x \in first[p] : x.assertion # a} \cup {new}]
    BY <1>7 DEF Authenticate
  <2>4. new.assertion = a /\ new.at = now
    OBVIOUS
  <2> HIDE DEF p, a, new
  <2>5. /\ \A q \in Proc : q # p => first'[q] = first[q]
        /\ \A f \in first'[p] : f = new \/ (f \in first[p] /\ f.assertion # a)
    BY <2>1, <2>3 DEF TypeOK
  <2>6. GuardRemembers'
    <3> SUFFICES ASSUME NEW q \in Proc, NEW f \in first'[q]
                 PROVE  \/ f.assertion \in dropped'[q]
                        \/ \E e \in seen'[q] : e.assertion = f.assertion
                        \/ now >= f.at + MaxTtl
                        \/ now >= f.assertion.exp
      BY <2>2 DEF GuardRemembers
    <3>1. CASE q # p
      BY <1>4, <2>1, <2>2, <2>5, <3>1, ObserveFacts DEF GuardRemembers
    <3>2. CASE q = p /\ f = new
      BY <2>1, <2>2, <2>4, <3>2, ObserveFacts, GuardEntryFacts
    <3>3. CASE q = p /\ f \in first[p] /\ f.assertion # a
      <4>1. CASE f.assertion \in dropped[p]
        BY <2>1, <2>2, <3>3, <4>1, ObserveFacts
      <4>2. CASE now >= f.at + MaxTtl \/ now >= f.assertion.exp
        BY <4>2
      <4>3. CASE \E e \in seen[p] : e.assertion = f.assertion
        <5>1. PICK e \in seen[p] : e.assertion = f.assertion
          BY <4>3
        <5>2. e.until >= f.at + MaxTtl \/ e.until >= f.assertion.exp
          BY <1>4, <2>1, <3>3, <5>1 DEF GuardHolds
        <5>3. e \in seen'[p] \/ e.until <= now \/ e.assertion \in dropped'[p]
          BY <2>1, <2>2, <5>1, ObserveFacts
        <5>4. e.until \in Nat /\ f.at \in Nat /\ f.assertion.exp \in Nat
          BY <1>2, <1>3, <2>1, <3>3, <5>1
        <5> QED
          BY <1>1, <3>3, <5>1, <5>2, <5>3, <5>4, BoundAssumption
      <4> QED
        BY <1>4, <2>1, <3>3, <4>1, <4>2, <4>3 DEF GuardRemembers
    <3> QED
      BY <2>5, <3>1, <3>2, <3>3
  <2>7. GuardHolds'
    <3> SUFFICES ASSUME NEW q \in Proc, NEW f \in first'[q], NEW e \in seen'[q], e.assertion = f.assertion
                 PROVE  e.until >= f.at + MaxTtl \/ e.until >= f.assertion.exp
      BY DEF GuardHolds
    <3>1. CASE q # p
      BY <1>4, <2>1, <2>2, <2>5, <3>1, ObserveFacts DEF GuardHolds
    <3>2. CASE q = p
      <4>1. e = GuardEntry(a) \/ (e \in seen[p] /\ e.assertion # a)
        BY <2>1, <2>2, <3>2, ObserveFacts
      <4>2. CASE e = GuardEntry(a)
        BY <2>1, <2>4, <2>5, <3>2, <4>2, GuardEntryFacts
      <4>3. CASE e \in seen[p] /\ e.assertion # a
        BY <1>4, <2>1, <2>4, <2>5, <3>2, <4>3 DEF GuardHolds
      <4> QED
        BY <4>1, <4>2, <4>3
    <3> QED
      BY <3>1, <3>2
  <2>8. AssertionOnce'
    <3>1. CASE \E f \in first[p] : f.assertion = a
      <4>1. PICK f \in first[p] :
                f.assertion = a /\ again' = [assertion |-> a, first |-> f.at, second |-> now, evicted |-> a \in dropped[p]]
        BY <1>7, <3>1 DEF Authenticate, p, a
      <4>2. /\ again'.assertion = a /\ again'.first = f.at /\ again'.second = now
            /\ again'.evicted = (a \in dropped[p])
        BY <4>1
      <4>3. a \in dropped[p] \/ now >= f.at + MaxTtl \/ now >= a.exp
        <5>1. CASE \E e \in seen[p] : e.assertion = a
          <6>1. PICK e \in seen[p] : e.assertion = a
            BY <5>1
          <6>2. e.until <= now /\ (e.until >= f.at + MaxTtl \/ e.until >= a.exp)
            BY <1>4, <2>1, <2>2, <4>1, <6>1, ObserveFacts DEF GuardHolds
          <6>3. e.until \in Nat /\ f.at \in Nat /\ a.exp \in Nat
            BY <1>2, <1>3, <2>1, <4>1, <6>1
          <6> QED
            BY <1>1, <6>2, <6>3, BoundAssumption
        <5>2. CASE ~ \E e \in seen[p] : e.assertion = a
          BY <1>4, <2>1, <4>1, <5>2 DEF GuardRemembers
        <5> QED
          BY <5>1, <5>2
      <4> QED
        BY <4>2, <4>3 DEF AssertionOnce
    <3>2. CASE ~ \E f \in first[p] : f.assertion = a
      <4>1. again' = again
        BY <1>7, <3>2 DEF Authenticate, p, a
      <4> QED
        BY <1>4, <4>1 DEF AssertionOnce
    <3> QED
      BY <3>1, <3>2
  <2> QED
    BY <2>6, <2>7, <2>8 DEF GuardInv
<1>8. ASSUME NEW s \in Slot, Authenticate(s), slot[s].req.client.method # "jwt"
      PROVE  UNCHANGED <<seen, first, dropped, again>>
  BY <1>8 DEF Authenticate
<1> QED
  BY <1>5, <1>6, <1>7, <1>8 DEF Next, vars, history, Tick, MakeProof, Arrive, Step, CheckRow, RowFails,
              CheckNonce, AuthenticationFails, Mint, MintFails

-----------------------------------------------------------------------------
(* Secrets *)

\* Only an unambiguous request is let in, and a secret gets it a token only when
\* it is right.
LEMMA SecretStep == TypeOK /\ OneSecret /\ [Next]_vars => OneSecret'
<1> SUFFICES ASSUME TypeOK, OneSecret, [Next]_vars PROVE OneSecret'
  OBVIOUS
<1>1. CASE Tick
  BY <1>1 DEF Tick, OneSecret
<1>2. ASSUME NEW p \in Proc, Restart(p) PROVE OneSecret'
  BY <1>2 DEF Restart, OneSecret
<1>3. ASSUME NEW j \in Jti, NEW iat \in Nat, NEW fits \in BOOLEAN,
             NEW nonce \in {None} \cup {Nonce(p) : p \in Proc}, MakeProof(j, iat, nonce, fits)
      PROVE  OneSecret'
  BY <1>3 DEF MakeProof, OneSecret
<1>4. ASSUME NEW s \in Slot, NEW p \in Proc, NEW r \in Request, Arrive(s, p, r) PROVE OneSecret'
  <2>1. Unambiguous(r)
    BY <1>4 DEF Arrive
  <2> QED
    BY <1>4, <2>1, ArriveFacts DEF OneSecret
<1>5. ASSUME NEW s \in Slot, Step(s) PROVE OneSecret'
  <2>1. CASE CheckRow(s)
    <3>1. slot[s] # None /\ (Goto(s, "nonce") \/ Done(s))
      BY <2>1 DEF CheckRow
    <3> QED
      BY <3>1, GotoFacts, DoneFacts DEF OneSecret
  <2>2. CASE RowFails(s)
    BY <2>2, DoneFacts DEF RowFails, OneSecret
  <2>3. CASE CheckNonce(s)
    <3>1. slot[s] # None /\ (Goto(s, "grant") \/ Done(s))
      BY <2>3 DEF CheckNonce
    <3> QED
      BY <3>1, GotoFacts, DoneFacts DEF OneSecret
  <2>4. CASE Authenticate(s)
    <3>1. slot[s] # None /\ Goto(s, "mint")
          /\ (slot[s].req.client.method = "client_secret" => Secret(slot[s].req) = "right")
      BY <2>4 DEF Authenticate, Credentials
    <3> QED
      BY <3>1, GotoFacts DEF OneSecret
  <2>5. CASE AuthenticationFails(s)
    BY <2>5, DoneFacts DEF AuthenticationFails, OneSecret
  <2>6. CASE Mint(s)
    BY <2>6, DoneFacts DEF Mint, OneSecret
  <2>7. CASE MintFails(s)
    BY <2>7, DoneFacts DEF MintFails, OneSecret
  <2> QED
    BY <1>5, <2>1, <2>2, <2>3, <2>4, <2>5, <2>6, <2>7 DEF Step
<1>6. CASE UNCHANGED vars
  BY <1>6 DEF vars, history, OneSecret
<1> QED
  BY <1>1, <1>2, <1>3, <1>4, <1>5, <1>6 DEF Next

-----------------------------------------------------------------------------
(* The theorems *)

EndpointInv == TypeOK /\ ProofInv /\ NonceInv /\ GuardInv /\ OneSecret

\* No request is under way at first, and nothing is remembered.
LEMMA InitEndpoint == Init => EndpointInv
<1> SUFFICES ASSUME Init PROVE EndpointInv
  OBVIOUS
<1>1. TypeOK /\ OwnSecrets
  BY DEF Init, TypeOK, OwnSecrets, SecretKey
<1>2. ProofInv
  BY <1>1 DEF Init, ProofInv, Waiting, WithProof, RowKept, Spent, Past, OnePast, ProofOnce
<1>3. NonceInv /\ GuardInv /\ OneSecret
  BY DEF Init, NonceInv, NoncesDated, JudgedByBucket, GuardInv, GuardRemembers, GuardHolds, AssertionOnce, OneSecret
<1> QED
  BY <1>1, <1>2, <1>3 DEF EndpointInv

\* The invariant holds in every reachable state.
LEMMA AlwaysEndpoint == Spec => []EndpointInv
<1>1. EndpointInv /\ [Next]_vars => EndpointInv'
  BY TypeStep, WaitingStep, WithProofStep, OwnSecretsStep, RowKeptStep, OnePastStep, NoncesDatedStep, JudgedStep,
     GuardStep, SecretStep DEF EndpointInv, ProofInv, NonceInv
<1> QED
  BY <1>1, InitEndpoint, PTL DEF Spec

\* Memories, rows and requests keep their shape.
THEOREM TypeCorrect == Spec => []TypeOK
<1>1. EndpointInv => TypeOK
  BY DEF EndpointInv
<1> QED
  BY <1>1, AlwaysEndpoint, PTL

\* Whatever process a DPoP proof is sent to, how often and after how many
\* restarts, it gets one token; and a process accepts an assertion again only
\* when its guard evicted it, had it for MAX_TTL_SECS, or it has expired.
THEOREM OnlyOnce == Spec => []UsedOnce
<1>1. EndpointInv => UsedOnce
  BY DEF EndpointInv, ProofInv, GuardInv, UsedOnce
<1> QED
  BY <1>1, AlwaysEndpoint, PTL

\* Nonces of every length of life are honoured for one lifetime by whoever
\* shares the secret, and by nobody after two.
THEOREM NoncesInWindow == Spec => []NonceWindow
<1>1. EndpointInv => NonceWindow
  <2> SUFFICES ASSUME TypeOK, JudgedByBucket, NEW n \in judged
               PROVE  /\ n.ok => n.at < n.nonce.at + 2 * NonceLife
                      /\ ~n.ok /\ n.secret = n.nonce.secret => n.at >= n.nonce.at + NonceLife
    BY DEF EndpointInv, NonceInv, NonceWindow, NonceRecent, NonceHonoured
  <2>1. n.at \in Nat /\ n.nonce.at \in Nat
    BY DEF TypeOK, NonceRecord
  <2>2. /\ n.nonce.bucket = Bucket(n.nonce.at) /\ n.nonce.at <= n.at
        /\ n.ok <=> /\ n.nonce.bucket <= Bucket(n.at) /\ n.nonce.bucket + 1 >= Bucket(n.at)
                    /\ n.nonce.secret = n.secret
    BY DEF JudgedByBucket
  <2> QED
    BY <2>1, <2>2, BucketAges
<1> QED
  BY <1>1, AlwaysEndpoint, PTL

\* No client gets a token by a secret while the request shows a wrong one, in
\* the header or in the body.
THEOREM NoWrongSecret == Spec => []SecretsAgree
<1>1. EndpointInv => SecretsAgree
  BY NoneAssumption DEF EndpointInv, OneSecret, SecretsAgree, Unambiguous, Secret
<1> QED
  BY <1>1, AlwaysEndpoint, PTL
=============================================================================
