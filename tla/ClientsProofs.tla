--------------------------- MODULE ClientsProofs ---------------------------
(***************************************************************************)
(* Proofs about the client registry, the documents it fetches and the      *)
(* requests clients make: ClientRegistry for any clients, documents, nodes *)
(* and requests, with or without Redis and failing reads, and for whatever *)
(* selection of operations Kinds names; DocumentCache for either cache and *)
(* any URLs, lifetimes and bounds; AuthorizeRequest for any clients and    *)
(* values.                                                                 *)
(*                                                                         *)
(* A copy of a row travels from the table into a request, from there into  *)
(* Redis, into another request, into the LRU map and into the request that *)
(* answers.  The invariant says for each of these places how much older    *)
(* than the table a copy in it may be: each place adds the time a copy may *)
(* stay there, and Lag is their sum.  It says the same of what operators   *)
(* and statements gave, which is never lost on the way, and that a request *)
(* about to rewrite a row found one that a document had made.              *)
(***************************************************************************)
EXTENDS ClientRegistry, AuthorizeRequest, DocumentCache, SequenceTheorems, FiniteSetTheorems, TLAPS

\* The secret s was the row's no more than b ago.
Held(i, s, b) ==
    \/ row[i] # None /\ row[i].secret = s
    \/ left[i][s] # None /\ left[i][s] <= b

\* No operator has disabled the row, or no longer than b ago, or it was undone.
NotLongOff(i, b) == off[i] # None /\ undone[i] = None => off[i] <= b

\* What a copy c of the row of i says was true no more than b ago.
Recent(i, c, b) ==
    /\ c.secret # 0 /\ i \notin revived => Held(i, c.secret, b)
    /\ c.enabled => NotLongOff(i, b)

\* What a copy c says of i was given to i by those who may.
Earned(i, c) ==
    /\ c.priv => "priv" \in granted[i]
    /\ c.agent => "agent" \in granted[i]
    /\ c.actors => "actors" \in granted[i]

-----------------------------------------------------------------------------
(* What holds of a request q under way *)

Looking == {"look", "redis", "read"}
Making == {"materialize", "lookup", "rewrite", "count", "save", "adopt"}
Copying == {"set", "cache", "got", "rewrite", "keep"}

\* It carries what its next step needs.
Carries(q) ==
    /\ IF q.op = "edit" THEN q.pc = "write" /\ q.arg \in Edit ELSE q.node \in Node
    /\ q.op = "secret" => q.arg \in Presented
    /\ q.op = "put" => q.arg \in Body
    /\ q.op = "use" /\ q.id \in Url => q.arg \in Document /\ ~q.arg.priv
    /\ q.pc \in Looking => q.copy = None
    /\ q.pc \in Making => q.op = "use" /\ q.id \in Url
    /\ q.pc = "keep" => q.op \in {"put", "register"} \/ (q.op = "use" /\ q.id \in Url)
    /\ q.pc \in {"set", "cache", "rewrite", "keep", "write"} => q.copy \in Row
    /\ q.pc = "got" => q.copy \in Row \/ (q.op = "use" /\ q.id \in Url)
    /\ q.pc = "rewrite" \/ (q.pc = "keep" /\ q.op = "use") =>
          q.copy.secret = 0 /\ q.copy.managed

\* How much older than the request a copy may be that it holds at pc.
Behind(pc) == IF pc = "cache" THEN MaxLatency + TTL
              ELSE IF pc = "got" THEN 2 * (MaxLatency + TTL) ELSE 0

CopyRecent(q) ==
    q.pc \in Copying /\ q.copy # None => Recent(q.id, q.copy, Behind(q.pc) + q.age)

\* One for a document's client found no row, or one that was enabled.
Unobjected(q) ==
    /\ q.op = "use" /\ q.id \in Url /\ ~q.blind
    /\ \/ q.pc \in Making \cup {"keep"}
       \/ q.pc = "got" /\ q.copy = None
    => NotLongOff(q.id, Behind("got") + q.age)

\* An edit is an operator's, who may give what it asks for.
CopyEarned(q) ==
    q.copy # None =>
        /\ q.copy.agent => "agent" \in granted[q.id]
        /\ q.copy.actors => "actors" \in granted[q.id]
        /\ q.copy.priv => \/ "priv" \in granted[q.id]
                          \/ q.op = "edit" /\ q.arg.priv = TRUE

\* One about to rewrite a row found one that a document had made: if no document
\* made the row that is there, it was put there since.
Rightful(q) ==
    q.pc = "rewrite" /\ row[q.id] # None /\ ~row[q.id].managed =>
        placed[q.id] # None /\ placed[q.id] <= q.age

\* One about to write a copy that is enabled, unless to enable it is what an
\* operator asked for, read the row when it was.
Unaware(q) ==
    q.pc = "write" /\ q.copy.enabled /\ (q.op = "edit" => q.arg.enabled = None) =>
        NotLongOff(q.id, Behind("got") + q.age)

Sound(q) == /\ Carries(q) /\ CopyRecent(q) /\ Unobjected(q) /\ CopyEarned(q)
            /\ Rightful(q) /\ Unaware(q)

-----------------------------------------------------------------------------
(* The inductive invariant *)

\* What holds of an entry e of Redis, and of one of the LRU map.
SoundInRedis(i, e) ==
    Earned(i, e.row) /\ (e.age < TTL => Recent(i, e.row, MaxLatency + e.age))
SoundInMap(i, e) ==
    Earned(i, e.row) /\ (e.age < TTL => Recent(i, e.row, 2 * MaxLatency + TTL + e.age))

\* What holds of an answer a.
Due(a) ==
    /\ a.kind = "secret" /\ a.ok /\ a.id \notin revived => Held(a.id, a.secret, Lag)
    /\ a.kind = "use" /\ a.id \in Url /\ ~a.blind => NotLongOff(a.id, Lag)

\* A row that is missing is not counted as disabled, nor is one that is enabled
\* unless the decision was undone, soon after it was made; and the privileges of
\* a row were given to it.
RowsSound ==
    /\ \A i \in Id : row[i] = None => off[i] = None
    /\ \A i \in Id : row[i] # None /\ row[i].enabled => off[i] = None \/ undone[i] # None
    /\ \A i \in Id : undone[i] # None => undone[i] <= Lag
    /\ \A i \in Id : row[i] # None => Earned(i, row[i])

\* The shape of the table and of its history.
TableOK ==
    /\ row \in [Id -> Row \cup {None}]
    /\ left \in [Id -> [1..MaxSecret -> 0..(Lag + 1) \cup {None}]]
    /\ off \in [Id -> 0..(Lag + 1) \cup {None}]
    /\ undone \in [Id -> 0..(Lag + 1) \cup {None}]
    /\ placed \in [Id -> 0..(MaxLatency + 1) \cup {None}]

RequestsSound == \A r \in Request : req[r].pc # "idle" => Sound(req[r])
RedisSound == \A i \in Id : l2[i] # None => SoundInRedis(i, l2[i])
MapSound == \A n \in Node, i \in Id : l1[n][i] # None => SoundInMap(i, l1[n][i])
AnswerDue == answer # None => Due(answer)

RegistryInv == TypeOK /\ RowsSound /\ RequestsSound /\ RedisSound /\ MapSound /\ AnswerDue

-----------------------------------------------------------------------------
(* What a step other than Tick may do to the table, and what it must leave     *)
(* sound                                                                       *)

\* Secrets are dated when they leave the table, nothing that was given is taken
\* back, and a row that no document made is dated when it appears.
Moves ==
    /\ \A i \in Id, s \in 1..MaxSecret :
          /\ row[i] # None /\ row[i].secret = s =>
                (row'[i] # None /\ row'[i].secret = s) \/ left'[i][s] = 0
          /\ left'[i][s] \in {0, left[i][s]}
    /\ \A i \in Id : \/ off'[i] \in {None, 0}
                     \/ off'[i] = off[i] /\ (undone[i] # None => undone'[i] # None)
    /\ \A i \in Id : granted[i] \subseteq granted'[i]
    /\ revived \subseteq revived'
    /\ \A i \in Id : row'[i] # None /\ ~row'[i].managed =>
          \/ placed'[i] = 0
          \/ row[i] # None /\ ~row[i].managed /\ placed'[i] = placed[i]

NewRequestsSound ==
    \A r \in Request, q \in UnderWay : req'[r] = q => req[r] = q \/ Sound(q)'
NewInRedisSound ==
    \A i \in Id, e \in Entry : l2'[i] = e => l2[i] = e \/ SoundInRedis(i, e)'
NewInMapSound ==
    \A n \in Node, i \in Id, e \in Entry : l1'[n][i] = e => l1[n][i] = e \/ SoundInMap(i, e)'
NewAnswerDue == \A a \in Verdict \cup Use : answer' = a => answer = a \/ Due(a)'

LeavesSound ==
    /\ TypeOK' /\ Moves /\ RowsSound'
    /\ NewRequestsSound /\ NewInRedisSound /\ NewInMapSound /\ NewAnswerDue

\* The bounds are natural numbers.
LEMMA Bounds ==
    /\ Lag = 2 * TTL + 3 * MaxLatency /\ Lag \in Nat
    /\ \A pc \in Stage : Behind(pc) \in Nat
    /\ Behind("got") = 2 * (MaxLatency + TTL) /\ Behind("cache") = MaxLatency + TTL
    /\ Behind("set") = 0 /\ Behind("keep") = 0 /\ Behind("rewrite") = 0
BY BoundAssumption DEF Lag, Behind

\* What was recent before such a step is recent after it.
LEMMA RecentKept ==
    ASSUME TypeOK, Moves, NEW i \in Id, NEW c \in Row, NEW b \in Nat, Recent(i, c, b)
    PROVE  Recent(i, c, b)'
<1>1. c.secret # 0 => c.secret \in 1..MaxSecret
  BY BoundAssumption DEF Row
<1>2. ASSUME c.secret # 0, Held(i, c.secret, b) PROVE Held(i, c.secret, b)'
  BY <1>1, <1>2, NoneAssumption DEF Held, Moves
<1>3. ASSUME NotLongOff(i, b) PROVE NotLongOff(i, b)'
  BY <1>3 DEF NotLongOff, Moves
<1>4. i \notin revived' => i \notin revived
  BY DEF Moves
<1> QED
  BY <1>2, <1>3, <1>4 DEF Recent

LEMMA NotLongOffKept ==
    ASSUME Moves, NEW i \in Id, NEW b \in Nat, NotLongOff(i, b)
    PROVE  NotLongOff(i, b)'
BY DEF NotLongOff, Moves

\* What was earned before is earned after it.
LEMMA EarnedKept ==
    ASSUME Moves, NEW i \in Id, NEW c \in Row, Earned(i, c)
    PROVE  Earned(i, c)'
BY DEF Earned, Moves

\* The fields of a request under way.
LEMMA Fields ==
    ASSUME NEW q \in UnderWay
    PROVE  /\ q.pc \in Stage /\ q.pc # "idle" /\ q.node \in Node \cup {None} /\ q.op \in Operation
           /\ q.id \in Id /\ q.copy \in Row \cup {None} /\ q.age \in Nat /\ q.age <= MaxLatency
           /\ q.blind \in BOOLEAN
           /\ q.arg \in Document \cup Body \cup Edit \cup Presented \cup {None}
BY BoundAssumption DEF UnderWay, Stage

\* A request that such a step does not touch stays sound.
LEMMA SoundKept ==
    ASSUME TypeOK, Moves, NEW q \in UnderWay, Sound(q)
    PROVE  Sound(q)'
<1>1. /\ q.pc \in Stage /\ q.id \in Id /\ q.copy \in Row \cup {None} /\ q.age \in Nat
  BY Fields
<1>2. Carries(q)'
  BY DEF Sound, Carries
<1>3. CopyRecent(q)'
  <2> SUFFICES ASSUME q.pc \in Copying, q.copy # None
               PROVE  Recent(q.id, q.copy, Behind(q.pc) + q.age)'
    BY DEF CopyRecent
  <2>1. Recent(q.id, q.copy, Behind(q.pc) + q.age)
    BY DEF Sound, CopyRecent
  <2>2. Behind(q.pc) + q.age \in Nat /\ q.copy \in Row
    BY <1>1, Bounds
  <2> QED
    BY <1>1, <2>1, <2>2, RecentKept
<1>4. Unobjected(q)'
  <2>1. Behind("got") + q.age \in Nat
    BY <1>1, Bounds, BoundAssumption
  <2> QED
    BY <1>1, <2>1, NotLongOffKept DEF Sound, Unobjected
<1>5. CopyEarned(q)'
  BY <1>1 DEF Sound, CopyEarned, Moves
<1>6. Rightful(q)'
  <2> SUFFICES ASSUME q.pc = "rewrite", row'[q.id] # None, ~row'[q.id].managed
               PROVE  placed'[q.id] # None /\ placed'[q.id] <= q.age
    BY DEF Rightful
  <2>1. CASE placed'[q.id] = 0
    BY <1>1, <2>1, NoneAssumption
  <2>2. CASE row[q.id] # None /\ ~row[q.id].managed /\ placed'[q.id] = placed[q.id]
    BY <2>2 DEF Sound, Rightful
  <2> QED
    BY <1>1, <2>1, <2>2 DEF Moves
<1>7. Unaware(q)'
  <2>1. Behind("got") + q.age \in Nat
    BY <1>1, Bounds, BoundAssumption
  <2> QED
    BY <1>1, <2>1, NotLongOffKept DEF Sound, Unaware
<1> QED
  BY <1>2, <1>3, <1>4, <1>5, <1>6, <1>7 DEF Sound

\* A step that leaves everything it touches sound keeps the invariant.
LEMMA Assembly == RegistryInv /\ LeavesSound => RegistryInv'
<1> SUFFICES ASSUME RegistryInv, LeavesSound PROVE RegistryInv'
  OBVIOUS
<1> USE DEF RegistryInv, LeavesSound
<1>1. RequestsSound'
  <2> SUFFICES ASSUME NEW r \in Request, NEW q, q = req'[r], q.pc # "idle" PROVE Sound(q)'
    BY DEF RequestsSound, Sound, Carries, CopyRecent, Unobjected, CopyEarned, Rightful, Unaware, Recent, Held, NotLongOff,
           Behind
  <2>1. q \in UnderWay
    BY DEF TypeOK, Idle
  <2>2. CASE req[r] = q
    BY <2>1, <2>2, SoundKept DEF RequestsSound
  <2>3. CASE req[r] # q
    BY <2>1, <2>3 DEF NewRequestsSound
  <2> QED
    BY <2>2, <2>3
<1>2. RedisSound'
  <2> SUFFICES ASSUME NEW i \in Id, NEW e, e = l2'[i], e # None PROVE SoundInRedis(i, e)'
    BY DEF RedisSound, SoundInRedis, Earned, Recent, Held, NotLongOff
  <2>1. e \in Entry /\ e.row \in Row /\ e.age \in Nat
    BY BoundAssumption DEF TypeOK, Entry
  <2>2. CASE l2[i] = e
    <3>1. SoundInRedis(i, e)
      BY <2>2 DEF RedisSound
    <3>2. MaxLatency + e.age \in Nat
      BY <2>1, BoundAssumption
    <3> QED
      BY <2>1, <3>1, <3>2, RecentKept, EarnedKept DEF SoundInRedis
  <2>3. CASE l2[i] # e
    BY <2>1, <2>3 DEF NewInRedisSound
  <2> QED
    BY <2>2, <2>3
<1>3. MapSound'
  <2> SUFFICES ASSUME NEW n \in Node, NEW i \in Id, NEW e, e = l1'[n][i], e # None
               PROVE  SoundInMap(i, e)'
    BY DEF MapSound, SoundInMap, Earned, Recent, Held, NotLongOff
  <2>1. e \in Entry /\ e.row \in Row /\ e.age \in Nat
    BY BoundAssumption DEF TypeOK, Entry
  <2>2. CASE l1[n][i] = e
    <3>1. SoundInMap(i, e)
      BY <2>2 DEF MapSound
    <3>2. 2 * MaxLatency + TTL + e.age \in Nat
      BY <2>1, BoundAssumption
    <3> QED
      BY <2>1, <3>1, <3>2, RecentKept, EarnedKept DEF SoundInMap
  <2>3. CASE l1[n][i] # e
    BY <2>1, <2>3 DEF NewInMapSound
  <2> QED
    BY <2>2, <2>3
<1>4. AnswerDue'
  <2> SUFFICES ASSUME NEW a, a = answer', a # None PROVE Due(a)'
    BY DEF AnswerDue, Due, Held, NotLongOff, Lag
  <2>1. a \in Verdict \cup Use
    BY DEF TypeOK
  <2>2. CASE answer = a
    <3>1. Due(a)
      BY <2>2 DEF AnswerDue
    <3>2. Lag \in Nat
      BY Bounds
    <3>3. CASE a \in Verdict
      <4>1. a.kind = "secret" /\ a.id \in Id /\ a.secret \in 1..MaxSecret
        BY <3>3, BoundAssumption DEF Verdict
      <4>2. ASSUME Held(a.id, a.secret, Lag) PROVE Held(a.id, a.secret, Lag)'
        BY <3>2, <4>1, <4>2, NoneAssumption DEF Held, Moves, Lag
      <4>3. a.id \notin revived' => a.id \notin revived
        BY DEF Moves
      <4> QED
        BY <3>1, <4>1, <4>2, <4>3 DEF Due
    <3>4. CASE a \in Use
      <4>1. a.kind = "use" /\ a.id \in Id
        BY <3>4 DEF Use
      <4>2. NotLongOff(a.id, Lag) => NotLongOff(a.id, Lag)'
        BY <3>2, <4>1, NotLongOffKept DEF Lag
      <4> QED
        BY <3>1, <4>1, <4>2 DEF Due
    <3> QED
      BY <2>1, <3>3, <3>4
  <2>3. CASE answer # a
    BY <2>1, <2>3 DEF NewAnswerDue
  <2> QED
    BY <2>2, <2>3
<1> QED
  BY <1>1, <1>2, <1>3, <1>4

-----------------------------------------------------------------------------
(* How requests and the table change *)

\* Request r, alone, becomes new.
Becomes(r, new) == req' = [req EXCEPT ![r] = new]

\* It goes on as it is, except for where it is, the copy it holds, and whether
\* it is blind.
Goes(r, new) ==
    /\ new \in UnderWay /\ Becomes(r, new)
    /\ new.node = req[r].node /\ new.op = req[r].op /\ new.id = req[r].id
    /\ new.arg = req[r].arg /\ new.age = req[r].age

\* A request is under way, and sound, when it is somewhere.
LEMMA AtWork ==
    ASSUME RegistryInv, NEW r \in Request, req[r].pc # "idle"
    PROVE  req[r] \in UnderWay /\ Sound(req[r])
BY DEF RegistryInv, TypeOK, RequestsSound, Idle

LEMMA GotoGoes ==
    ASSUME TypeOK, NEW r \in Request, req[r] \in UnderWay, NEW pc \in Stage, Goto(r, pc)
    PROVE  \E new : Goes(r, new) /\ new.pc = pc /\ new.copy = req[r].copy /\ new.blind = req[r].blind
<1> DEFINE new == [req[r] EXCEPT !.pc = pc]
<1>1. /\ new \in UnderWay /\ new.pc = pc /\ new.copy = req[r].copy /\ new.blind = req[r].blind
      /\ new.node = req[r].node /\ new.op = req[r].op /\ new.id = req[r].id
      /\ new.arg = req[r].arg /\ new.age = req[r].age
  BY DEF UnderWay
<1>2. Becomes(r, new)
  BY DEF Goto, Becomes
<1> HIDE DEF new
<1> QED
  BY <1>1, <1>2 DEF Goes

LEMMA HoldGoes ==
    ASSUME TypeOK, NEW r \in Request, req[r] \in UnderWay, NEW pc \in Stage, NEW c \in Row, Hold(r, c, pc)
    PROVE  \E new : Goes(r, new) /\ new.pc = pc /\ new.copy = c /\ new.blind = req[r].blind
<1> DEFINE new == [req[r] EXCEPT !.pc = pc, !.copy = c]
<1>1. /\ new \in UnderWay /\ new.pc = pc /\ new.copy = c /\ new.blind = req[r].blind
      /\ new.node = req[r].node /\ new.op = req[r].op /\ new.id = req[r].id
      /\ new.arg = req[r].arg /\ new.age = req[r].age
  BY DEF UnderWay
<1>2. Becomes(r, new)
  BY DEF Hold, Becomes
<1> HIDE DEF new
<1> QED
  BY <1>1, <1>2 DEF Goes

\* Only what a request becomes has to be shown sound.
LEMMA BecomesSound ==
    ASSUME TypeOK, NEW r \in Request, NEW new \in UnderWay \cup {Idle}, Becomes(r, new),
           new \in UnderWay => Sound(new)'
    PROVE  req' \in [Request -> UnderWay \cup {Idle}] /\ NewRequestsSound
<1>1. req' \in [Request -> UnderWay \cup {Idle}] /\ req'[r] = new
      /\ \A s \in Request : s # r => req'[s] = req[s]
  BY DEF TypeOK, Becomes
<1>2. ASSUME NEW s \in Request, NEW q \in UnderWay, req'[s] = q PROVE req[s] = q \/ Sound(q)'
  BY <1>1, <1>2
<1> QED
  BY <1>1, <1>2 DEF NewRequestsSound

LEMMA DoneSound ==
    ASSUME TypeOK, NEW r \in Request, Done(r)
    PROVE  req' \in [Request -> UnderWay \cup {Idle}] /\ NewRequestsSound
<1>1. Idle \notin UnderWay
  BY DEF Idle, UnderWay, Stage
<1> QED
  BY <1>1, BecomesSound DEF Done, Becomes

\* What is not touched needs no argument.
LEMMA TableStill ==
    ASSUME RegistryInv, UNCHANGED <<table, hist>>
    PROVE  Moves /\ RowsSound'
<1>1. Moves
  BY DEF Moves, hist, table
<1>2. RowsSound'
  BY DEF RegistryInv, RowsSound, Earned, hist, table, Lag
<1> QED
  BY <1>1, <1>2

LEMMA MapStill == ASSUME UNCHANGED l1 PROVE NewInMapSound
BY DEF NewInMapSound

LEMMA RedisStill == ASSUME UNCHANGED l2 PROVE NewInRedisSound
BY DEF NewInRedisSound

LEMMA AnswerStill == ASSUME UNCHANGED answer PROVE NewAnswerDue
BY DEF NewAnswerDue

LEMMA RequestsStill == ASSUME UNCHANGED req PROVE NewRequestsSound
BY DEF NewRequestsSound

\* An entry that goes needs no argument, either.
LEMMA Evicts ==
    ASSUME TypeOK, NEW n \in Node, NEW i \in Id, l1' = [l1 EXCEPT ![n][i] = None]
    PROVE  l1' \in [Node -> [Id -> Entry \cup {None}]] /\ NewInMapSound
<1>1. \A m \in Node, j \in Id : l1'[m][j] = IF m = n /\ j = i THEN None ELSE l1[m][j]
  BY DEF TypeOK
<1>2. l1' \in [Node -> [Id -> Entry \cup {None}]]
  BY DEF TypeOK
<1> QED
  BY <1>1, <1>2, NoneAssumption DEF NewInMapSound

\* A copy that is recent and earned may be cached, or not.
LEMMA Inserts ==
    ASSUME TypeOK, NEW r \in Request, NEW q \in UnderWay, req[r] = q, q.node \in Node,
           q.copy \in Row, UNCHANGED <<table, hist>>,
           Earned(q.id, q.copy), Recent(q.id, q.copy, 2 * MaxLatency + TTL), Insert(r)
    PROVE  l1' \in [Node -> [Id -> Entry \cup {None}]] /\ NewInMapSound
<1>1. CASE UNCHANGED l1
  BY <1>1, MapStill DEF TypeOK
<1>2. CASE l1' = [l1 EXCEPT ![q.node][q.id] = [row |-> q.copy, age |-> 0]]
  <2>1. PICK e : e = [row |-> q.copy, age |-> 0]
    OBVIOUS
  <2>2. e \in Entry /\ e.row = q.copy /\ e.age = 0 /\ q.id \in Id
    BY <2>1, Fields, BoundAssumption DEF Entry
  <2>3. l1' = [l1 EXCEPT ![q.node][q.id] = e]
    BY <1>2, <2>1
  <2>4. l1' \in [Node -> [Id -> Entry \cup {None}]]
    BY <2>2, <2>3 DEF TypeOK
  <2>5. \A m \in Node, j \in Id : l1'[m][j] = IF m = q.node /\ j = q.id THEN e ELSE l1[m][j]
    BY <2>2, <2>3 DEF TypeOK
  <2>6. 2 * MaxLatency + TTL + e.age = 2 * MaxLatency + TTL
    BY <2>2, BoundAssumption
  <2>7. SoundInMap(q.id, e)'
    BY <2>2, <2>6 DEF SoundInMap, Earned, Recent, Held, NotLongOff, hist, table
  <2> QED
    BY <2>4, <2>5, <2>7 DEF NewInMapSound
<1> QED
  BY <1>1, <1>2 DEF Insert

\* A row is replaced.
LEMMA SetRowFacts ==
    ASSUME TypeOK, NEW i \in Id, NEW c \in Row \cup {None}, NEW d \in BOOLEAN, SetRow(i, c, d)
    PROVE  /\ TableOK'
           /\ row'[i] = c /\ \A j \in Id : j # i => UNCHANGED <<row[j], off[j], undone[j]>>
           /\ \A j \in Id, s \in 1..MaxSecret :
                 /\ row[j] # None /\ row[j].secret = s =>
                       (row'[j] # None /\ row'[j].secret = s) \/ left'[j][s] = 0
                 /\ left'[j][s] \in {0, left[j][s]}
           /\ \A j \in Id : \/ off'[j] \in {None, 0}
                            \/ off'[j] = off[j] /\ (undone[j] # None => undone'[j] # None)
           /\ \A j \in Id : row'[j] # None /\ ~row'[j].managed =>
                 \/ placed'[j] = 0
                 \/ row[j] # None /\ ~row[j].managed /\ placed'[j] = placed[j]
           /\ c = None => off'[i] = None
           /\ c # None /\ c.enabled => off'[i] = None \/ undone'[i] # None
           /\ undone'[i] \in {None, undone[i]} \/ (undone'[i] = off[i] /\ undone[i] = None /\ c # None /\ c.enabled /\ ~d)
<1>1. /\ row \in [Id -> Row \cup {None}] /\ left \in [Id -> [1..MaxSecret -> 0..(Lag + 1) \cup {None}]]
      /\ off \in [Id -> 0..(Lag + 1) \cup {None}] /\ undone \in [Id -> 0..(Lag + 1) \cup {None}]
      /\ placed \in [Id -> 0..(MaxLatency + 1) \cup {None}] /\ Lag \in Nat /\ MaxLatency \in Nat
  BY Bounds, BoundAssumption DEF TypeOK
<1>2. row' \in [Id -> Row \cup {None}] /\ row'[i] = c /\ \A j \in Id : j # i => row'[j] = row[j]
  BY <1>1 DEF SetRow
<1>3. PICK o : o = IF c = None THEN None ELSE IF ~d THEN off[i] ELSE IF c.enabled THEN None
                   ELSE IF off[i] = None \/ undone[i] # None THEN 0 ELSE off[i]
  OBVIOUS
<1>4. PICK u : u = IF c = None \/ d THEN None ELSE IF undone[i] = None /\ c.enabled THEN off[i] ELSE undone[i]
  OBVIOUS
<1>5. PICK p : p = IF c = None \/ c.managed THEN None
                   ELSE IF row[i] = None \/ row[i].managed THEN 0 ELSE placed[i]
  OBVIOUS
<1>6. off' = [off EXCEPT ![i] = o] /\ undone' = [undone EXCEPT ![i] = u] /\ placed' = [placed EXCEPT ![i] = p]
  BY <1>3, <1>4, <1>5 DEF SetRow
<1>7. /\ o \in 0..(Lag + 1) \cup {None} /\ u \in 0..(Lag + 1) \cup {None}
      /\ p \in 0..(MaxLatency + 1) \cup {None}
  BY <1>1, <1>3, <1>4, <1>5
<1>8. /\ off' \in [Id -> 0..(Lag + 1) \cup {None}] /\ undone' \in [Id -> 0..(Lag + 1) \cup {None}]
      /\ placed' \in [Id -> 0..(MaxLatency + 1) \cup {None}]
      /\ off'[i] = o /\ undone'[i] = u /\ placed'[i] = p
      /\ \A j \in Id : j # i => UNCHANGED <<off[j], undone[j], placed[j]>>
  BY <1>1, <1>6, <1>7
<1>9. /\ left' \in [Id -> [1..MaxSecret -> 0..(Lag + 1) \cup {None}]]
      /\ \A j \in Id, s \in 1..MaxSecret :
            /\ row[j] # None /\ row[j].secret = s =>
                  (row'[j] # None /\ row'[j].secret = s) \/ left'[j][s] = 0
            /\ left'[j][s] \in {0, left[j][s]}
  <2>1. CASE row[i] # None /\ row[i].secret # 0 /\ (c # None => c.secret # row[i].secret)
    <3>1. row[i].secret \in 1..MaxSecret
      BY <1>1, <2>1, BoundAssumption DEF Row
    <3>2. left' = [left EXCEPT ![i][row[i].secret] = 0]
      BY <2>1 DEF SetRow
    <3>3. left' \in [Id -> [1..MaxSecret -> 0..(Lag + 1) \cup {None}]]
      BY <1>1, <3>1, <3>2
    <3>4. \A j \in Id, s \in 1..MaxSecret :
             left'[j][s] = IF j = i /\ s = row[i].secret THEN 0 ELSE left[j][s]
      BY <1>1, <3>1, <3>2
    <3> QED
      BY <1>2, <3>3, <3>4
  <2>2. CASE ~(row[i] # None /\ row[i].secret # 0 /\ (c # None => c.secret # row[i].secret))
    <3>1. left' = left
      BY <2>2 DEF SetRow
    <3> QED
      BY <1>1, <1>2, <2>2, <3>1
  <2> QED
    BY <2>1, <2>2
<1>10. TableOK'
  BY <1>2, <1>8, <1>9 DEF TableOK, Lag
<1>11. /\ o \in {None, 0} \/ (o = off[i] /\ (undone[i] # None => u # None))
       /\ c = None => o = None
       /\ c # None /\ c.enabled => o = None \/ u # None
       /\ u \in {None, undone[i]} \/ (u = off[i] /\ undone[i] = None /\ c # None /\ c.enabled /\ ~d)
  BY <1>3, <1>4
<1>12. c # None /\ ~c.managed => p = 0 \/ (row[i] # None /\ ~row[i].managed /\ p = placed[i])
  BY <1>5
<1>13. \A j \in Id : \/ off'[j] \in {None, 0}
                     \/ off'[j] = off[j] /\ (undone[j] # None => undone'[j] # None)
  BY <1>8, <1>11
<1>14. \A j \in Id : row'[j] # None /\ ~row'[j].managed =>
          \/ placed'[j] = 0
          \/ row[j] # None /\ ~row[j].managed /\ placed'[j] = placed[j]
  BY <1>2, <1>8, <1>12
<1> QED
  BY <1>2, <1>8, <1>9, <1>10, <1>11, <1>13, <1>14

\* The rows stay sound when a row is replaced by one whose privileges were given,
\* and whose copy was made before a decision it undoes.
LEMMA RowsStaySound ==
    ASSUME RegistryInv, NEW i \in Id, NEW c \in Row \cup {None}, NEW d \in BOOLEAN, SetRow(i, c, d),
           \A j \in Id : granted[j] \subseteq granted'[j],
           c # None => Earned(i, c)',
           c # None /\ c.enabled /\ ~d => NotLongOff(i, Lag)
    PROVE  RowsSound'
<1>1. TypeOK
  BY DEF RegistryInv
<1>2. /\ row'[i] = c /\ (c = None => off'[i] = None)
      /\ c # None /\ c.enabled => off'[i] = None \/ undone'[i] # None
      /\ undone'[i] \in {None, undone[i]} \/ (undone'[i] = off[i] /\ undone[i] = None /\ c # None /\ c.enabled /\ ~d)
      /\ \A j \in Id : j # i => UNCHANGED <<row[j], off[j], undone[j]>>
  BY <1>1, SetRowFacts
<1>3. /\ \A j \in Id : row'[j] = None => off'[j] = None
      /\ \A j \in Id : row'[j] # None /\ row'[j].enabled => off'[j] = None \/ undone'[j] # None
  BY <1>2 DEF RegistryInv, RowsSound
<1>4. ASSUME NEW j \in Id, row'[j] # None PROVE Earned(j, row[j])'
  <2>1. CASE j = i
    BY <1>2, <1>4, <2>1 DEF Earned
  <2>2. CASE j # i
    BY <1>2, <1>4, <2>2 DEF RegistryInv, RowsSound, Earned
  <2> QED
    BY <2>1, <2>2
<1>5. ASSUME NEW j \in Id, undone'[j] # None PROVE undone'[j] <= Lag
  <2>1. undone[j] # None => undone[j] <= Lag
    BY DEF RegistryInv, RowsSound
  <2> QED
    BY <1>2, <1>5, <2>1 DEF NotLongOff
<1> QED
  BY <1>3, <1>4, <1>5 DEF RowsSound, Lag

-----------------------------------------------------------------------------
(* The steps of a lookup *)

\* What is recent within a bound is recent within a larger one.
LEMMA RecentLonger ==
    ASSUME TypeOK, NEW i \in Id, NEW c \in Row, NEW b \in Nat, NEW d \in Nat, b <= d, Recent(i, c, b)
    PROVE  Recent(i, c, d)
<1>1. Lag \in Nat
  BY Bounds
<1>2. ASSUME c.secret # 0, Held(i, c.secret, b) PROVE Held(i, c.secret, d)
  <2>1. c.secret \in 1..MaxSecret
    BY <1>2, BoundAssumption DEF Row
  <2>2. left[i][c.secret] \in 0..(Lag + 1) \cup {None}
    BY <2>1 DEF TypeOK
  <2> QED
    BY <1>1, <1>2, <2>2 DEF Held
<1>3. NotLongOff(i, b) => NotLongOff(i, d)
  BY <1>1 DEF NotLongOff, TypeOK
<1> QED
  BY <1>2, <1>3 DEF Recent

LEMMA NotLongOffLonger ==
    ASSUME TypeOK, NEW i \in Id, NEW b \in Nat, NEW d \in Nat, b <= d, NotLongOff(i, b)
    PROVE  NotLongOff(i, d)
<1>1. Lag \in Nat
  BY Bounds
<1> QED
  BY <1>1 DEF NotLongOff, TypeOK

\* A row is as recent as can be, and earned.
LEMMA RowRecent ==
    ASSUME RegistryInv, NEW i \in Id, row[i] # None, NEW b \in Nat
    PROVE  row[i] \in Row /\ Recent(i, row[i], b) /\ Earned(i, row[i])
BY NoneAssumption DEF RegistryInv, TypeOK, RowsSound, Recent, Held, NotLongOff

\* A step of a request that leaves the table and Redis alone.
LEMMA Quiet ==
    ASSUME RegistryInv, UNCHANGED <<world, l2, docs, hist>>,
           l1' \in [Node -> [Id -> Entry \cup {None}]], NewInMapSound,
           req' \in [Request -> UnderWay \cup {Idle}], NewRequestsSound,
           answer' \in Verdict \cup Use \cup {None}, NewAnswerDue
    PROVE  LeavesSound
<1>1. TypeOK'
  BY DEF RegistryInv, TypeOK, world, hist, table
<1>2. Moves /\ RowsSound'
  BY TableStill DEF world, table
<1> QED
  BY <1>1, <1>2, RedisStill DEF LeavesSound

\* A step of request r that leaves everything else alone.
LEMMA Lone ==
    ASSUME RegistryInv, NEW r \in Request, UNCHANGED <<world, l1, l2, docs, answer, hist>>,
           Done(r) \/ \E new \in UnderWay : Becomes(r, new) /\ Sound(new)
    PROVE  LeavesSound
<1>1. TypeOK
  BY DEF RegistryInv
<1>2. req' \in [Request -> UnderWay \cup {Idle}] /\ NewRequestsSound
  <2>1. CASE Done(r)
    BY <1>1, <2>1, DoneSound
  <2>2. ASSUME NEW new \in UnderWay, Becomes(r, new), Sound(new)
        PROVE  req' \in [Request -> UnderWay \cup {Idle}] /\ NewRequestsSound
    <3>1. Sound(new)'
      BY <1>1, <2>2, TableStill, SoundKept DEF world, table
    <3> QED
      BY <1>1, <2>2, <3>1, BecomesSound
  <2> QED
    BY <2>1, <2>2
<1>3. l1' \in [Node -> [Id -> Entry \cup {None}]] /\ answer' \in Verdict \cup Use \cup {None}
  BY <1>1 DEF TypeOK
<1> QED
  BY <1>2, <1>3, Quiet, MapStill, AnswerStill

\* A lookup begins.
LEMMA Begins ==
    ASSUME RegistryInv, NEW r \in Request, NEW n \in Node, NEW i \in Id,
           NEW op \in {"secret", "use", "put", "drop"},
           NEW arg \in Document \cup Body \cup Edit \cup Presented \cup {None},
           op = "secret" => arg \in Presented, op = "put" => arg \in Body,
           op = "use" /\ i \in Url => arg \in Document /\ ~arg.priv,
           req' = [req EXCEPT ![r] = [pc |-> "look", node |-> n, op |-> op, id |-> i, arg |-> arg,
                                      copy |-> None, age |-> 0, blind |-> FALSE]],
           UNCHANGED <<world, l1, l2, docs, answer, hist>>
    PROVE  LeavesSound
<1>1. PICK new : new = [pc |-> "look", node |-> n, op |-> op, id |-> i, arg |-> arg,
                        copy |-> None, age |-> 0, blind |-> FALSE]
  OBVIOUS
<1>2. /\ new \in UnderWay /\ new.pc = "look" /\ new.node = n /\ new.op = op /\ new.id = i
      /\ new.arg = arg /\ new.copy = None
  BY <1>1, BoundAssumption DEF UnderWay, Stage, Operation
<1>3. Sound(new)
  BY <1>2 DEF Sound, Carries, CopyRecent, Unobjected, CopyEarned, Rightful, Unaware, Copying, Making
<1>4. Becomes(r, new)
  BY <1>1 DEF Becomes
<1> QED
  BY <1>2, <1>3, <1>4, Lone

LEMMA BeginSecretSound ==
    ASSUME RegistryInv, NEW r \in Request, NEW n \in Node, NEW i \in Id, NEW s \in 1..MaxSecret,
           BeginSecret(r, n, i, s)
    PROVE  LeavesSound
<1>1. PICK arg : arg = [secret |-> s]
  OBVIOUS
<1>2. arg \in Presented
  BY <1>1 DEF Presented
<1> QED
  BY <1>1, <1>2, Begins DEF BeginSecret

LEMMA ResolveSound ==
    ASSUME RegistryInv, NEW r \in Request, NEW n \in Node, NEW i \in Id, resolve_client(r, n, i)
    PROVE  LeavesSound
<1>1. PICK arg : arg = IF i \in Url THEN docs[i] ELSE None
  OBVIOUS
<1>2. arg \in Document \cup {None} /\ (i \in Url => arg \in Document /\ ~arg.priv)
  BY <1>1 DEF resolve_client, validate_metadata_document, RegistryInv, TypeOK
<1> QED
  BY <1>1, <1>2, Begins DEF resolve_client

LEMMA BeginPutSound ==
    ASSUME RegistryInv, NEW r \in Request, NEW n \in Node, NEW i \in Id, NEW body \in Body,
           BeginPut(r, n, i, body)
    PROVE  LeavesSound
BY Begins DEF BeginPut

LEMMA BeginDropSound ==
    ASSUME RegistryInv, NEW r \in Request, NEW n \in Node, NEW i \in Id, BeginDrop(r, n, i)
    PROVE  LeavesSound
BY Begins DEF BeginDrop

\* The LRU map gives a copy no older than it may be, or nothing.
LEMMA LookSound ==
    ASSUME RegistryInv, NEW r \in Request, get_cached_client(r)
    PROVE  LeavesSound
<1>1. PICK q : q = req[r]
  OBVIOUS
<1>2. q.pc = "look" /\ q \in UnderWay /\ Sound(q) /\ TypeOK
  BY <1>1, AtWork DEF get_cached_client, RegistryInv
<1>3. q.op \in Operation /\ q.node \in Node /\ q.id \in Id /\ q.copy = None /\ q.age \in Nat /\ q.blind \in BOOLEAN
  BY <1>2, Fields DEF Sound, Carries, Looking
<1>4. PICK e : e = l1[q.node][q.id]
  OBVIOUS
<1>5. e \in Entry \cup {None}
  BY <1>2, <1>3, <1>4 DEF TypeOK
<1>6. CASE Fresh(e)
  <2>1. e \in Entry /\ e.row \in Row /\ e.age \in Nat /\ e.age < TTL /\ SoundInMap(q.id, e)
    BY <1>3, <1>4, <1>5, <1>6, BoundAssumption DEF Fresh, Entry, RegistryInv, MapSound
  <2>2. Hold(r, e.row, "got") /\ UNCHANGED <<world, l1, l2, docs, answer, hist>>
    BY <1>1, <1>4, <1>6 DEF get_cached_client
  <2>3. PICK new : Goes(r, new) /\ new.pc = "got" /\ new.copy = e.row /\ new.blind = q.blind
    BY <1>1, <1>2, <2>1, <2>2, HoldGoes DEF Stage
  <2>4. /\ new \in UnderWay /\ new.node = q.node /\ new.op = q.op /\ new.id = q.id
        /\ new.arg = q.arg /\ new.age = q.age /\ Becomes(r, new)
    BY <1>1, <2>3 DEF Goes
  <2>5. Recent(q.id, e.row, Behind("got") + q.age)
    <3>1. Recent(q.id, e.row, 2 * MaxLatency + TTL + e.age)
      BY <2>1 DEF SoundInMap
    <3>2. /\ 2 * MaxLatency + TTL + e.age \in Nat /\ Behind("got") + q.age \in Nat
          /\ 2 * MaxLatency + TTL + e.age <= Behind("got") + q.age
      BY <1>3, <2>1, Bounds, BoundAssumption
    <3> QED
      BY <1>2, <1>3, <2>1, <3>1, <3>2, RecentLonger
  <2>6. Carries(new)
    BY <1>2, <2>1, <2>3, <2>4 DEF Sound, Carries, Looking, Making
  <2>7. CopyRecent(new) /\ Unobjected(new) /\ Rightful(new) /\ Unaware(new)
    BY <2>1, <2>3, <2>4, <2>5, NoneAssumption DEF CopyRecent, Unobjected, Rightful, Unaware, Making
  <2>8. CopyEarned(new)
    BY <2>1, <2>3, <2>4 DEF CopyEarned, SoundInMap, Earned
  <2> QED
    BY <2>2, <2>4, <2>6, <2>7, <2>8, Lone DEF Sound
<1>7. CASE ~Fresh(e)
  <2>1. PICK pc : pc = IF Redis THEN "redis" ELSE "read"
    OBVIOUS
  <2>2. /\ Goto(r, pc) /\ l1' = [l1 EXCEPT ![q.node][q.id] = None]
        /\ UNCHANGED <<world, l2, docs, answer, hist>>
    BY <1>1, <1>4, <1>7, <2>1 DEF get_cached_client
  <2>3. PICK new : Goes(r, new) /\ new.pc = pc /\ new.copy = q.copy /\ new.blind = q.blind
    BY <1>1, <1>2, <2>1, <2>2, GotoGoes DEF Stage
  <2>4. /\ new \in UnderWay /\ new.node = q.node /\ new.op = q.op /\ new.id = q.id
        /\ new.arg = q.arg /\ new.age = q.age /\ Becomes(r, new)
    BY <1>1, <2>3 DEF Goes
  <2>5. Sound(new)
    BY <1>2, <1>3, <2>1, <2>3, <2>4
       DEF Sound, Carries, CopyRecent, Unobjected, CopyEarned, Rightful, Unaware, Copying, Making, Looking
  <2>6. Sound(new)'
    BY <1>2, <2>2, <2>4, <2>5, TableStill, SoundKept DEF world, table
  <2>7. req' \in [Request -> UnderWay \cup {Idle}] /\ NewRequestsSound
    BY <1>2, <2>4, <2>6, BecomesSound
  <2>8. l1' \in [Node -> [Id -> Entry \cup {None}]] /\ NewInMapSound
    BY <1>2, <1>3, <2>2, Evicts
  <2>9. answer' \in Verdict \cup Use \cup {None}
    BY <1>2, <2>2 DEF TypeOK
  <2> QED
    BY <2>2, <2>7, <2>8, <2>9, Quiet, AnswerStill
<1> QED
  BY <1>6, <1>7

\* So does Redis.
LEMMA ReadRedisSound ==
    ASSUME RegistryInv, NEW r \in Request, ReadRedis(r)
    PROVE  LeavesSound
<1>1. PICK q : q = req[r]
  OBVIOUS
<1>2. q.pc = "redis" /\ q \in UnderWay /\ Sound(q) /\ TypeOK
  BY <1>1, AtWork DEF ReadRedis, RegistryInv
<1>3. /\ q.op \in Operation /\ q.id \in Id /\ q.copy \in Row \cup {None} /\ q.age \in Nat
      /\ q.age <= MaxLatency /\ q.blind \in BOOLEAN
  BY <1>2, Fields
<1>4. UNCHANGED <<world, l1, l2, docs, answer, hist>>
  BY DEF ReadRedis
<1>5. PICK e : e = l2[q.id]
  OBVIOUS
<1>6. CASE Fresh(e) /\ Hold(r, e.row, "cache")
  <2>1. e \in Entry /\ e.row \in Row /\ e.age \in Nat /\ e.age < TTL /\ SoundInRedis(q.id, e)
    BY <1>2, <1>3, <1>5, <1>6, BoundAssumption DEF Fresh, TypeOK, Entry, RegistryInv, RedisSound
  <2>2. PICK new : Goes(r, new) /\ new.pc = "cache" /\ new.copy = e.row /\ new.blind = q.blind
    BY <1>1, <1>2, <1>6, <2>1, HoldGoes DEF Stage
  <2>3. /\ new \in UnderWay /\ new.node = q.node /\ new.op = q.op /\ new.id = q.id
        /\ new.arg = q.arg /\ new.age = q.age /\ Becomes(r, new)
    BY <1>1, <2>2 DEF Goes
  <2>4. Recent(q.id, e.row, Behind("cache") + q.age)
    <3>1. Recent(q.id, e.row, MaxLatency + e.age)
      BY <2>1 DEF SoundInRedis
    <3>2. /\ MaxLatency + e.age \in Nat /\ Behind("cache") + q.age \in Nat
          /\ MaxLatency + e.age <= Behind("cache") + q.age
      BY <1>3, <2>1, Bounds, BoundAssumption
    <3> QED
      BY <1>2, <1>3, <2>1, <3>1, <3>2, RecentLonger
  <2>5. Carries(new)
    BY <1>2, <2>1, <2>2, <2>3 DEF Sound, Carries, Looking, Making
  <2>6. CopyRecent(new) /\ Unobjected(new) /\ Rightful(new) /\ Unaware(new)
    BY <2>2, <2>3, <2>4 DEF CopyRecent, Unobjected, Rightful, Unaware, Making
  <2>7. CopyEarned(new)
    BY <2>1, <2>2, <2>3 DEF CopyEarned, SoundInRedis, Earned
  <2> QED
    BY <1>4, <2>3, <2>5, <2>6, <2>7, Lone DEF Sound
<1>7. CASE Goto(r, "read")
  <2>1. PICK new : Goes(r, new) /\ new.pc = "read" /\ new.copy = q.copy /\ new.blind = q.blind
    BY <1>1, <1>2, <1>7, GotoGoes DEF Stage
  <2>2. /\ new \in UnderWay /\ new.node = q.node /\ new.op = q.op /\ new.id = q.id
        /\ new.arg = q.arg /\ new.age = q.age /\ Becomes(r, new)
    BY <1>1, <2>1 DEF Goes
  <2>3. Sound(new)
    BY <1>2, <2>1, <2>2 DEF Sound, Carries, CopyRecent, Unobjected, CopyEarned, Rightful, Unaware, Copying, Making, Looking
  <2> QED
    BY <1>4, <2>2, <2>3, Lone
<1> QED
  BY <1>1, <1>5, <1>6, <1>7 DEF ReadRedis

\* The table gives the row, or there is none to object to a document.
LEMMA GetClientSound ==
    ASSUME RegistryInv, NEW r \in Request, get_client(r)
    PROVE  LeavesSound
<1>1. PICK q : q = req[r]
  OBVIOUS
<1>2. q.pc = "read" /\ q \in UnderWay /\ Sound(q) /\ TypeOK
  BY <1>1, AtWork DEF get_client, RegistryInv
<1>3. /\ q.op \in Operation /\ q.id \in Id /\ q.copy \in Row \cup {None} /\ q.age \in Nat
      /\ q.age <= MaxLatency /\ q.blind \in BOOLEAN
  BY <1>2, Fields
<1>4. UNCHANGED <<world, l1, l2, docs, answer, hist>>
  BY DEF get_client
<1>5. q.copy = None
  BY <1>2 DEF Sound, Carries, Looking
<1>6. CASE row[q.id] # None
  <2>1. PICK pc : pc = IF Redis THEN "set" ELSE "cache"
    OBVIOUS
  <2>2. PICK c : c = row[q.id]
    OBVIOUS
  <2>3. Hold(r, c, pc) /\ pc \in {"set", "cache"}
    BY <1>1, <1>6, <2>1, <2>2 DEF get_client
  <2>4. c \in Row /\ Recent(q.id, c, Behind(pc) + q.age) /\ Earned(q.id, c)
    <3>1. Behind(pc) + q.age \in Nat
      BY <1>3, <2>3, Bounds DEF Stage
    <3> QED
      BY <1>3, <1>6, <2>2, <3>1, RowRecent
  <2>5. PICK new : Goes(r, new) /\ new.pc = pc /\ new.copy = c /\ new.blind = q.blind
    BY <1>1, <1>2, <2>3, <2>4, HoldGoes DEF Stage
  <2>6. /\ new \in UnderWay /\ new.node = q.node /\ new.op = q.op /\ new.id = q.id
        /\ new.arg = q.arg /\ new.age = q.age /\ Becomes(r, new)
    BY <1>1, <2>5 DEF Goes
  <2>7. Carries(new)
    BY <1>2, <2>3, <2>4, <2>5, <2>6 DEF Sound, Carries, Looking, Making
  <2>8. CopyRecent(new) /\ Unobjected(new) /\ Rightful(new) /\ Unaware(new)
    BY <2>3, <2>4, <2>5, <2>6 DEF CopyRecent, Unobjected, Rightful, Unaware, Making
  <2>9. CopyEarned(new)
    BY <2>4, <2>5, <2>6 DEF CopyEarned, Earned
  <2> QED
    BY <1>4, <2>6, <2>7, <2>8, <2>9, Lone DEF Sound
<1>7. CASE row[q.id] = None /\ q.op = "use" /\ q.id \in Url
  <2>1. Goto(r, "got")
    BY <1>1, <1>7 DEF get_client
  <2>2. PICK new : Goes(r, new) /\ new.pc = "got" /\ new.copy = q.copy /\ new.blind = q.blind
    BY <1>1, <1>2, <2>1, GotoGoes DEF Stage
  <2>3. /\ new \in UnderWay /\ new.node = q.node /\ new.op = q.op /\ new.id = q.id
        /\ new.arg = q.arg /\ new.age = q.age /\ Becomes(r, new)
    BY <1>1, <2>2 DEF Goes
  <2>4. off[q.id] = None
    BY <1>3, <1>7 DEF RegistryInv, RowsSound
  <2>5. Sound(new)
    BY <1>2, <1>5, <1>7, <2>2, <2>3, <2>4 DEF Sound, Carries, CopyRecent,
       Unobjected, CopyEarned, Rightful, Unaware, Copying, Making, Looking, NotLongOff
  <2> QED
    BY <1>4, <2>3, <2>5, Lone
<1>8. CASE row[q.id] = None /\ ~(q.op = "use" /\ q.id \in Url)
  BY <1>1, <1>4, <1>8, Lone DEF get_client
<1> QED
  BY <1>6, <1>7, <1>8

\* A failed lookup stops the request or leaves it blind.
LEMMA ReadFailsSound ==
    ASSUME RegistryInv, NEW r \in Request, ReadFails(r)
    PROVE  LeavesSound
<1>1. PICK q : q = req[r]
  OBVIOUS
<1>2. q.pc = "read" /\ q \in UnderWay /\ Sound(q) /\ TypeOK
  BY <1>1, AtWork DEF ReadFails, RegistryInv
<1>3. /\ q.op \in Operation /\ q.id \in Id /\ q.copy \in Row \cup {None} /\ q.age \in Nat
      /\ q.age <= MaxLatency /\ q.blind \in BOOLEAN
  BY <1>2, Fields
<1>4. UNCHANGED <<world, l1, l2, docs, answer, hist>>
  BY DEF ReadFails
<1>5. CASE q.op = "use" /\ q.id \in Url
  <2>1. PICK new : new = [q EXCEPT !.pc = "got", !.blind = TRUE]
    OBVIOUS
  <2>2. /\ new \in UnderWay /\ new.pc = "got" /\ new.copy = q.copy /\ new.blind = TRUE
        /\ new.node = q.node /\ new.op = q.op /\ new.id = q.id /\ new.arg = q.arg
    BY <1>2, <2>1 DEF UnderWay, Stage
  <2>3. Becomes(r, new)
    BY <1>1, <1>5, <2>1 DEF ReadFails, Becomes
  <2>4. Sound(new)
    BY <1>2, <1>5, <2>2 DEF Sound, Carries, CopyRecent, Unobjected, CopyEarned, Rightful, Unaware, Copying, Making, Looking
  <2> QED
    BY <1>4, <2>2, <2>3, <2>4, Lone
<1>6. CASE ~(q.op = "use" /\ q.id \in Url)
  BY <1>1, <1>4, <1>6, Lone DEF ReadFails
<1> QED
  BY <1>5, <1>6

\* What goes into Redis was read by the request that writes it.
LEMMA WriteRedisSound ==
    ASSUME RegistryInv, NEW r \in Request, WriteRedis(r)
    PROVE  LeavesSound
<1>1. PICK q : q = req[r]
  OBVIOUS
<1>2. q.pc = "set" /\ q \in UnderWay /\ Sound(q) /\ TypeOK
  BY <1>1, AtWork DEF WriteRedis, RegistryInv
<1>3. /\ q.op \in Operation /\ q.id \in Id /\ q.copy \in Row \cup {None} /\ q.age \in Nat
      /\ q.age <= MaxLatency /\ q.blind \in BOOLEAN
  BY <1>2, Fields
<1>4. UNCHANGED <<world, l1, docs, answer, hist>>
  BY DEF WriteRedis
<1>5. q.copy \in Row /\ q.copy # None /\ Recent(q.id, q.copy, Behind("set") + q.age)
  BY <1>2, NoneAssumption DEF Sound, Carries, CopyRecent, Copying
<1>6. PICK new : Goes(r, new) /\ new.pc = "cache" /\ new.copy = q.copy /\ new.blind = q.blind
  <2>1. Goto(r, "cache")
    BY DEF WriteRedis
  <2> QED
    BY <1>1, <1>2, <2>1, GotoGoes DEF Stage
<1>7. /\ new \in UnderWay /\ new.node = q.node /\ new.op = q.op /\ new.id = q.id
      /\ new.arg = q.arg /\ new.age = q.age /\ Becomes(r, new)
  BY <1>1, <1>6 DEF Goes
<1>8. Recent(q.id, q.copy, Behind("cache") + q.age) /\ Recent(q.id, q.copy, MaxLatency)
  <2>1. /\ Behind("set") + q.age \in Nat /\ Behind("cache") + q.age \in Nat /\ MaxLatency \in Nat
        /\ Behind("set") + q.age <= Behind("cache") + q.age /\ Behind("set") + q.age <= MaxLatency
    BY <1>3, Bounds, BoundAssumption
  <2> QED
    BY <1>2, <1>3, <1>5, <2>1, RecentLonger
<1>9. Sound(new)
  <2>1. Carries(new)
    BY <1>2, <1>6, <1>7 DEF Sound, Carries, Making, Looking
  <2>2. CopyRecent(new) /\ Unobjected(new) /\ Rightful(new) /\ Unaware(new)
    BY <1>6, <1>7, <1>8 DEF CopyRecent, Unobjected, Rightful, Unaware, Making
  <2>3. CopyEarned(new)
    BY <1>2, <1>6, <1>7 DEF Sound, CopyEarned
  <2> QED
    BY <2>1, <2>2, <2>3 DEF Sound
<1>10. Moves /\ RowsSound'
  BY <1>4, TableStill DEF world, table
<1>11. req' \in [Request -> UnderWay \cup {Idle}] /\ NewRequestsSound
  BY <1>2, <1>7, <1>9, <1>10, SoundKept, BecomesSound
<1>12. l2' \in [Id -> Entry \cup {None}] /\ NewInRedisSound
  <2>1. PICK e : e = [row |-> q.copy, age |-> 0]
    OBVIOUS
  <2>2. e \in Entry /\ e.row = q.copy /\ e.age = 0
    BY <1>5, <2>1, BoundAssumption DEF Entry
  <2>3. l2' = [l2 EXCEPT ![q.id] = e]
    BY <1>1, <2>1 DEF WriteRedis
  <2>4. l2' \in [Id -> Entry \cup {None}] /\ \A i \in Id : l2'[i] = IF i = q.id THEN e ELSE l2[i]
    BY <1>2, <1>3, <2>2, <2>3 DEF TypeOK
  <2>5. MaxLatency + e.age = MaxLatency
    BY <2>2, BoundAssumption
  <2>6. Earned(q.id, q.copy)
    BY <1>2, <1>5, NoneAssumption DEF Sound, Carries, CopyEarned, Earned
  <2>7. SoundInRedis(q.id, e)'
    BY <1>3, <1>5, <1>8, <1>10, <2>2, <2>5, <2>6, RecentKept, EarnedKept, BoundAssumption, <1>2 DEF SoundInRedis
  <2> QED
    BY <2>4, <2>7 DEF NewInRedisSound
<1>13. TypeOK'
  BY <1>2, <1>4, <1>11, <1>12 DEF TypeOK, world, hist, table
<1> QED
  BY <1>4, <1>10, <1>11, <1>12, <1>13, MapStill, AnswerStill DEF LeavesSound

\* What goes into the LRU map comes from Redis or from the table.
LEMMA CacheClientSound ==
    ASSUME RegistryInv, NEW r \in Request, CacheClient(r)
    PROVE  LeavesSound
<1>1. PICK q : q = req[r]
  OBVIOUS
<1>2. q.pc = "cache" /\ q \in UnderWay /\ Sound(q) /\ TypeOK
  BY <1>1, AtWork DEF CacheClient, RegistryInv
<1>3. /\ q.op \in Operation /\ q.id \in Id /\ q.copy \in Row \cup {None} /\ q.age \in Nat
      /\ q.age <= MaxLatency /\ q.blind \in BOOLEAN
  BY <1>2, Fields
<1>4. UNCHANGED <<world, l2, docs, answer, hist>> /\ Insert(r)
  BY DEF CacheClient
<1>5. q.copy \in Row /\ q.copy # None /\ Recent(q.id, q.copy, Behind("cache") + q.age)
      /\ Earned(q.id, q.copy) /\ q.node \in Node
  BY <1>2, NoneAssumption DEF Sound, Carries, CopyRecent, Copying, CopyEarned, Earned
<1>6. PICK new : Goes(r, new) /\ new.pc = "got" /\ new.copy = q.copy /\ new.blind = q.blind
  <2>1. Goto(r, "got")
    BY DEF CacheClient
  <2> QED
    BY <1>1, <1>2, <2>1, GotoGoes DEF Stage
<1>7. /\ new \in UnderWay /\ new.node = q.node /\ new.op = q.op /\ new.id = q.id
      /\ new.arg = q.arg /\ new.age = q.age /\ Becomes(r, new)
  BY <1>1, <1>6 DEF Goes
<1>8. Recent(q.id, q.copy, Behind("got") + q.age) /\ Recent(q.id, q.copy, 2 * MaxLatency + TTL)
  <2>1. /\ Behind("cache") + q.age \in Nat /\ Behind("got") + q.age \in Nat
        /\ 2 * MaxLatency + TTL \in Nat
        /\ Behind("cache") + q.age <= Behind("got") + q.age
        /\ Behind("cache") + q.age <= 2 * MaxLatency + TTL
    BY <1>3, Bounds, BoundAssumption
  <2> QED
    BY <1>2, <1>3, <1>5, <2>1, RecentLonger
<1>9. Sound(new)
  <2>1. Carries(new)
    BY <1>2, <1>6, <1>7 DEF Sound, Carries, Making, Looking
  <2>2. CopyRecent(new) /\ Unobjected(new) /\ Rightful(new) /\ Unaware(new)
    BY <1>5, <1>6, <1>7, <1>8 DEF CopyRecent, Unobjected, Rightful, Unaware, Making
  <2>3. CopyEarned(new)
    BY <1>2, <1>6, <1>7 DEF Sound, CopyEarned
  <2> QED
    BY <2>1, <2>2, <2>3 DEF Sound
<1>10. Moves
  BY <1>4, TableStill DEF world, table
<1>11. req' \in [Request -> UnderWay \cup {Idle}] /\ NewRequestsSound
  BY <1>2, <1>7, <1>9, <1>10, SoundKept, BecomesSound
<1>12. l1' \in [Node -> [Id -> Entry \cup {None}]] /\ NewInMapSound
  BY <1>1, <1>2, <1>4, <1>5, <1>8, Inserts DEF world, table
<1>13. answer' \in Verdict \cup Use \cup {None}
  BY <1>2, <1>4 DEF TypeOK
<1> QED
  BY <1>4, <1>11, <1>12, <1>13, Quiet, AnswerStill

\* A secret is accepted for what a copy says that is not too old.
LEMMA ValidateClientSound ==
    ASSUME RegistryInv, NEW r \in Request, ValidateClient(r)
    PROVE  LeavesSound
<1>1. PICK q : q = req[r]
  OBVIOUS
<1>2. q.pc = "got" /\ q \in UnderWay /\ Sound(q) /\ TypeOK
  BY <1>1, AtWork DEF ValidateClient, Is, RegistryInv
<1>3. /\ q.op \in Operation /\ q.id \in Id /\ q.copy \in Row \cup {None} /\ q.age \in Nat
      /\ q.age <= MaxLatency /\ q.blind \in BOOLEAN
  BY <1>2, Fields
<1>4. UNCHANGED <<world, l1, l2, docs, hist>> /\ Done(r) /\ q.op = "secret"
  BY <1>1 DEF ValidateClient, Is
<1>5. q.copy \in Row /\ q.copy # None /\ Recent(q.id, q.copy, Behind("got") + q.age) /\ q.arg \in Presented
  BY <1>2, <1>4, NoneAssumption DEF Sound, Carries, CopyRecent, Copying
<1>6. Recent(q.id, q.copy, Lag)
  <2>1. Behind("got") + q.age \in Nat /\ Lag \in Nat /\ Behind("got") + q.age <= Lag
    BY <1>3, Bounds, BoundAssumption
  <2> QED
    BY <1>2, <1>3, <1>5, <2>1, RecentLonger
<1>7. PICK a : a = [kind |-> "secret", id |-> q.id, secret |-> q.arg.secret,
                    ok |-> q.copy.secret = q.arg.secret]
  OBVIOUS
<1>8. /\ a \in Verdict /\ a.kind = "secret" /\ a.id = q.id /\ a.secret = q.arg.secret
      /\ a.ok = (q.copy.secret = q.arg.secret) /\ a.secret # 0
  BY <1>3, <1>5, <1>7, BoundAssumption DEF Verdict, Presented
<1>9. answer' = a
  BY <1>1, <1>7 DEF ValidateClient
<1>10. Due(a)
  BY <1>6, <1>8 DEF Due, Recent
<1>11. Due(a)'
  BY <1>4, <1>10 DEF Due, Held, NotLongOff, Lag, world, hist, table
<1>12. answer' \in Verdict \cup Use \cup {None} /\ NewAnswerDue
  BY <1>8, <1>9, <1>11 DEF NewAnswerDue
<1>13. l1' \in [Node -> [Id -> Entry \cup {None}]]
  BY <1>2, <1>4 DEF TypeOK
<1> QED
  BY <1>2, <1>4, <1>12, <1>13, Quiet, DoneSound, MapStill

\* The use of a client that no document describes.
LEMMA UseRegisteredSound ==
    ASSUME RegistryInv, NEW r \in Request, UseRegistered(r)
    PROVE  LeavesSound
<1>1. PICK q : q = req[r]
  OBVIOUS
<1>2. q.pc = "got" /\ q \in UnderWay /\ Sound(q) /\ TypeOK
  BY <1>1, AtWork DEF UseRegistered, Is, RegistryInv
<1>3. /\ q.op \in Operation /\ q.id \in Id /\ q.copy \in Row \cup {None} /\ q.age \in Nat
      /\ q.age <= MaxLatency /\ q.blind \in BOOLEAN
  BY <1>2, Fields
<1>4. UNCHANGED <<world, l1, l2, docs, hist>> /\ Done(r) /\ q.op = "use" /\ q.id \notin Url
  BY <1>1 DEF UseRegistered, Is
<1>5. q.copy \in Row
  BY <1>2, <1>4 DEF Sound, Carries
<1>6. PICK a : a = [kind |-> "use", id |-> q.id, enabled |-> q.copy.enabled, blind |-> FALSE]
  OBVIOUS
<1>7. a \in Use /\ a.kind = "use" /\ a.id = q.id
  BY <1>3, <1>5, <1>6 DEF Use, Row
<1>8. answer' = a
  BY <1>1, <1>6 DEF UseRegistered
<1>9. Due(a)'
  BY <1>4, <1>7 DEF Due
<1>10. answer' \in Verdict \cup Use \cup {None} /\ NewAnswerDue
  BY <1>7, <1>8, <1>9 DEF NewAnswerDue
<1>11. l1' \in [Node -> [Id -> Entry \cup {None}]]
  BY <1>2, <1>4 DEF TypeOK
<1> QED
  BY <1>2, <1>4, <1>10, <1>11, Quiet, DoneSound, MapStill

-----------------------------------------------------------------------------
(* Clients from metadata documents *)

\* A request for a document's client gives no reason to object as long as it
\* takes no longer than MaxLatency.
LEMMA DocumentDue ==
    ASSUME TypeOK, NEW r \in Request, NEW q \in UnderWay, req[r] = q, q.id \in Url,
           UseDocument(r), UNCHANGED <<table, hist>>,
           ~q.blind => NotLongOff(q.id, Behind("got") + q.age)
    PROVE  answer' \in Verdict \cup Use \cup {None} /\ NewAnswerDue
<1>1. PICK a : a = [kind |-> "use", id |-> q.id, enabled |-> TRUE, blind |-> q.blind]
  OBVIOUS
<1>2. q.id \in Id /\ q.blind \in BOOLEAN /\ q.age \in Nat /\ q.age <= MaxLatency
  BY Fields
<1>3. a \in Use /\ a.kind = "use" /\ a.id = q.id /\ a.blind = q.blind
  BY <1>1, <1>2 DEF Use
<1>4. answer' = a
  BY <1>1 DEF UseDocument
<1>5. NotLongOff(q.id, Behind("got") + q.age) => NotLongOff(q.id, Lag)
  <2>1. Behind("got") + q.age \in Nat /\ Lag \in Nat /\ Behind("got") + q.age <= Lag
    BY <1>2, Bounds, BoundAssumption
  <2>2. off[q.id] \in 0..(Lag + 1) \cup {None}
    BY <1>2 DEF TypeOK
  <2>3. off[q.id] # None => off[q.id] \in Nat
    BY <2>1, <2>2
  <2> QED
    BY <2>1, <2>3 DEF NotLongOff
<1>6. Due(a)'
  BY <1>3, <1>5 DEF Due, NotLongOff, Lag, table
<1> QED
  BY <1>3, <1>4, <1>6 DEF NewAnswerDue

\* A new client is a row.
LEMMA NewRow ==
    /\ NewClient \in Row /\ NewClient.secret = 0 /\ NewClient.enabled /\ ~NewClient.agent
    /\ ~NewClient.actors /\ ~NewClient.priv
BY BoundAssumption DEF NewClient, Row

\* What a document alone makes.
LEMMA DocumentRow ==
    ASSUME NEW d \in Document
    PROVE  /\ FromDocument(d) \in Row
           /\ FromDocument(d).secret = 0 /\ FromDocument(d).managed /\ FromDocument(d).enabled
           /\ ~FromDocument(d).agent /\ ~FromDocument(d).actors /\ FromDocument(d).priv = d.priv
<1>1. PICK n : n = NewClient
  OBVIOUS
<1>2. n \in Row /\ n.secret = 0 /\ n.enabled /\ ~n.agent /\ ~n.actors
  BY <1>1, NewRow
<1>3. FromDocument(d) = [n EXCEPT !.ver = d.ver, !.priv = d.priv, !.managed = TRUE]
  BY <1>1 DEF FromDocument
<1>4. d.priv \in BOOLEAN /\ d.ver \in 0..MaxVersion
  BY DEF Document
<1> QED
  BY <1>2, <1>3, <1>4 DEF Row

\* What a document and an existing row make.
LEMMA PreservedRow ==
    ASSUME NEW d \in Document, NEW c \in Row
    PROVE  /\ preserve_operator_state(d, c) \in Row
           /\ preserve_operator_state(d, c).secret = 0 /\ preserve_operator_state(d, c).managed
           /\ preserve_operator_state(d, c).enabled = c.enabled
           /\ preserve_operator_state(d, c).agent = c.agent /\ preserve_operator_state(d, c).actors = c.actors
           /\ preserve_operator_state(d, c).priv = d.priv
<1>1. PICK n : n = FromDocument(d)
  OBVIOUS
<1>2. n \in Row /\ n.secret = 0 /\ n.managed /\ n.priv = d.priv
  BY <1>1, DocumentRow
<1>3. preserve_operator_state(d, c) =
        [n EXCEPT !.enabled = c.enabled, !.token = c.token, !.agent = c.agent, !.actors = c.actors]
  BY <1>1 DEF preserve_operator_state
<1>4. c.enabled \in BOOLEAN /\ c.token \in BOOLEAN /\ c.agent \in BOOLEAN /\ c.actors \in BOOLEAN
  BY DEF Row
<1> QED
  BY <1>2, <1>3, <1>4 DEF Row

\* A request for a document's client goes on with a row made from the document
\* and one that is in the table.
LEMMA Preserves ==
    ASSUME RegistryInv, NEW r \in Request, NEW q \in UnderWay, req[r] = q, Sound(q), q.pc \in Making,
           row[q.id] # None, NEW pc \in {"keep", "rewrite"}, pc = "rewrite" => row[q.id].managed,
           Hold(r, preserve_operator_state(q.arg, row[q.id]), pc),
           UNCHANGED <<world, l1, l2, docs, answer, hist>>
    PROVE  LeavesSound
<1>1. /\ q.op = "use" /\ q.id \in Url /\ q.arg \in Document /\ ~q.arg.priv
      /\ q.id \in Id /\ q.age \in Nat /\ TypeOK /\ q.node \in Node
  BY Fields DEF Sound, Carries, RegistryInv
<1>2. row[q.id] \in Row /\ Earned(q.id, row[q.id]) /\ (row[q.id].enabled => off[q.id] = None \/ undone[q.id] # None)
  BY <1>1 DEF RegistryInv, TypeOK, RowsSound
<1>3. PICK c : c = preserve_operator_state(q.arg, row[q.id])
  OBVIOUS
<1>4. /\ c \in Row /\ c.secret = 0 /\ c.managed /\ c.enabled = row[q.id].enabled
      /\ c.agent = row[q.id].agent /\ c.actors = row[q.id].actors /\ c.priv = q.arg.priv
  BY <1>1, <1>2, <1>3, PreservedRow
<1>5. PICK new : Goes(r, new) /\ new.pc = pc /\ new.copy = c /\ new.blind = q.blind
  BY <1>1, <1>3, <1>4, HoldGoes DEF Stage
<1>6. /\ new \in UnderWay /\ new.node = q.node /\ new.op = q.op /\ new.id = q.id
      /\ new.arg = q.arg /\ new.age = q.age /\ Becomes(r, new)
  BY <1>5 DEF Goes
<1>7. Carries(new)
  BY <1>1, <1>4, <1>5, <1>6 DEF Carries, Looking, Making
<1>8. CopyRecent(new)
  BY <1>2, <1>4, <1>5, <1>6 DEF CopyRecent, Recent, NotLongOff
<1>9. Unobjected(new)
  BY <1>1, <1>5, <1>6 DEF Sound, Unobjected
<1>10. CopyEarned(new)
  BY <1>1, <1>2, <1>4, <1>5, <1>6 DEF CopyEarned, Earned
<1>11. Rightful(new) /\ Unaware(new)
  BY <1>5, <1>6 DEF Rightful, Unaware
<1> QED
  BY <1>6, <1>7, <1>8, <1>9, <1>10, <1>11, Lone DEF Sound

\* A request for a document's client goes on as it is.
LEMMA GoesOn ==
    ASSUME RegistryInv, NEW r \in Request, NEW q \in UnderWay, req[r] = q, Sound(q), q.pc \in Making,
           NEW pc \in {"lookup", "count", "save", "adopt"}, Goto(r, pc),
           UNCHANGED <<world, l2, docs, answer, hist>>,
           l1' \in [Node -> [Id -> Entry \cup {None}]], NewInMapSound
    PROVE  LeavesSound
<1>1. TypeOK /\ answer' \in Verdict \cup Use \cup {None}
  BY DEF RegistryInv, TypeOK
<1>2. PICK new : Goes(r, new) /\ new.pc = pc /\ new.copy = q.copy /\ new.blind = q.blind
  BY <1>1, GotoGoes DEF Stage
<1>3. /\ new \in UnderWay /\ new.node = q.node /\ new.op = q.op /\ new.id = q.id
      /\ new.arg = q.arg /\ new.age = q.age /\ Becomes(r, new)
  BY <1>2 DEF Goes
<1>4. Carries(new)
  BY <1>2, <1>3 DEF Sound, Carries, Making, Looking
<1>5. Unobjected(new)
  BY <1>2, <1>3 DEF Sound, Unobjected
<1>6. CopyRecent(new) /\ CopyEarned(new) /\ Rightful(new) /\ Unaware(new)
  BY <1>2, <1>3 DEF Sound, CopyRecent, CopyEarned, Rightful, Unaware, Copying
<1>7. Sound(new)'
  BY <1>1, <1>3, <1>4, <1>5, <1>6, TableStill, SoundKept DEF Sound, world, table
<1>8. req' \in [Request -> UnderWay \cup {Idle}] /\ NewRequestsSound
  BY <1>1, <1>3, <1>7, BecomesSound
<1> QED
  BY <1>1, <1>8, Quiet, AnswerStill

\* A row that is disabled stops the request, if it was found.
LEMMA UseUrlSound ==
    ASSUME RegistryInv, NEW r \in Request, UseUrl(r)
    PROVE  LeavesSound
<1>1. PICK q : q = req[r]
  OBVIOUS
<1>2. q.pc = "got" /\ q \in UnderWay /\ Sound(q) /\ TypeOK
  BY <1>1, AtWork DEF UseUrl, Is, RegistryInv
<1>3. /\ q.op \in Operation /\ q.id \in Id /\ q.copy \in Row \cup {None} /\ q.age \in Nat
      /\ q.age <= MaxLatency /\ q.blind \in BOOLEAN
  BY <1>2, Fields
<1>4. UNCHANGED <<world, l1, l2, docs, answer, hist>> /\ q.op = "use" /\ q.id \in Url
  BY <1>1 DEF UseUrl, Is
<1>5. CASE Done(r)
  BY <1>4, <1>5, Lone
<1>6. CASE Goto(r, "materialize") /\ (q.copy # None => q.copy.enabled)
  <2>1. PICK new : Goes(r, new) /\ new.pc = "materialize" /\ new.copy = q.copy /\ new.blind = q.blind
    BY <1>1, <1>2, <1>6, GotoGoes DEF Stage
  <2>2. /\ new \in UnderWay /\ new.node = q.node /\ new.op = q.op /\ new.id = q.id
        /\ new.arg = q.arg /\ new.age = q.age /\ Becomes(r, new)
    BY <1>1, <2>1 DEF Goes
  <2>3. Carries(new)
    BY <1>2, <1>4, <2>1, <2>2 DEF Sound, Carries, Making, Looking
  <2>4. Unobjected(new)
    BY <1>2, <1>6, <2>1, <2>2 DEF Sound, Unobjected, CopyRecent, Copying, Recent
  <2>5. CopyRecent(new) /\ CopyEarned(new) /\ Rightful(new) /\ Unaware(new)
    BY <1>2, <2>1, <2>2 DEF Sound, CopyRecent, CopyEarned, Rightful, Unaware, Copying
  <2> QED
    BY <1>4, <2>2, <2>3, <2>4, <2>5, Lone DEF Sound
<1>7. Done(r) \/ (Goto(r, "materialize") /\ (q.copy # None => q.copy.enabled))
  BY <1>1 DEF UseUrl
<1> QED
  BY <1>5, <1>6, <1>7

\* A document that the LRU map knows is used as it is.
LEMMA MaterializeSound ==
    ASSUME RegistryInv, NEW r \in Request, MaterializeCimdClient(r)
    PROVE  LeavesSound
<1>1. PICK q : q = req[r]
  OBVIOUS
<1>2. q.pc = "materialize" /\ q \in UnderWay /\ Sound(q) /\ TypeOK
  BY <1>1, AtWork DEF MaterializeCimdClient, RegistryInv
<1>3. /\ q.op \in Operation /\ q.id \in Id /\ q.copy \in Row \cup {None} /\ q.age \in Nat
      /\ q.age <= MaxLatency /\ q.blind \in BOOLEAN
  BY <1>2, Fields
<1>4. /\ UNCHANGED <<world, l2, docs, hist>> /\ q.op = "use" /\ q.id \in Url /\ q.node \in Node
      /\ q.pc \in Making
  BY <1>1, <1>2 DEF MaterializeCimdClient, Sound, Carries, Making
<1>5. PICK e : e = l1[q.node][q.id]
  OBVIOUS
<1>6. l1' \in [Node -> [Id -> Entry \cup {None}]] /\ NewInMapSound
  <2>1. PICK f : f = IF Fresh(e) THEN e ELSE None
    OBVIOUS
  <2>2. l1' = [l1 EXCEPT ![q.node][q.id] = f]
    BY <1>1, <1>5, <2>1 DEF MaterializeCimdClient
  <2>3. CASE f = e
    <3>1. l1' = l1
      BY <1>2, <1>3, <1>4, <1>5, <2>2, <2>3 DEF TypeOK
    <3> QED
      BY <1>2, <3>1, MapStill DEF TypeOK
  <2>4. CASE f = None
    BY <1>2, <1>3, <1>4, <2>2, <2>4, Evicts
  <2> QED
    BY <2>1, <2>3, <2>4
<1>7. CASE Done(r) /\ UseDocument(r)
  <2>1. ~q.blind => NotLongOff(q.id, Behind("got") + q.age)
    BY <1>2, <1>4 DEF Sound, Unobjected
  <2>2. answer' \in Verdict \cup Use \cup {None} /\ NewAnswerDue
    BY <1>1, <1>2, <1>4, <1>7, <2>1, DocumentDue DEF world, table
  <2> QED
    BY <1>2, <1>4, <1>6, <1>7, <2>2, Quiet, DoneSound
<1>8. CASE Goto(r, "lookup") /\ UNCHANGED answer
  BY <1>1, <1>2, <1>4, <1>6, <1>8, GoesOn
<1> QED
  BY <1>7, <1>8 DEF MaterializeCimdClient

\* A row that a document made is kept or rewritten.
LEMMA LookupSound ==
    ASSUME RegistryInv, NEW r \in Request, Lookup(r)
    PROVE  LeavesSound
<1>1. PICK q : q = req[r]
  OBVIOUS
<1>2. q.pc = "lookup" /\ q \in UnderWay /\ Sound(q) /\ TypeOK
  BY <1>1, AtWork DEF Lookup, RegistryInv
<1>3. /\ q.op \in Operation /\ q.id \in Id /\ q.copy \in Row \cup {None} /\ q.age \in Nat
      /\ q.age <= MaxLatency /\ q.blind \in BOOLEAN
  BY <1>2, Fields
<1>4. UNCHANGED <<world, l1, l2, docs, answer, hist>> /\ q.pc \in Making
  BY <1>2 DEF Lookup, Making
<1>5. CASE row[q.id] = None
  <2>1. Goto(r, "count")
    BY <1>1, <1>5 DEF Lookup
  <2> QED
    BY <1>1, <1>2, <1>4, <2>1, GoesOn, MapStill DEF TypeOK
<1>6. CASE row[q.id] # None /\ (row[q.id].secret # 0 \/ ~row[q.id].managed)
  <2>1. Done(r)
    BY <1>1, <1>6 DEF Lookup
  <2> QED
    BY <1>4, <2>1, Lone
<1>7. CASE row[q.id] # None /\ ~(row[q.id].secret # 0 \/ ~row[q.id].managed)
  <2>1. PICK pc : pc = IF cimd_row_matches(row[q.id], q.arg) THEN "keep" ELSE "rewrite"
    OBVIOUS
  <2>2. Hold(r, preserve_operator_state(q.arg, row[q.id]), pc) /\ pc \in {"keep", "rewrite"}
    BY <1>1, <1>7, <2>1 DEF Lookup
  <2> QED
    BY <1>1, <1>2, <1>4, <1>7, <2>2, Preserves
<1> QED
  BY <1>5, <1>6, <1>7

\* The limit on such clients.
LEMMA CountSound ==
    ASSUME RegistryInv, NEW r \in Request, count_cimd_clients(r)
    PROVE  LeavesSound
<1>1. PICK q : q = req[r]
  OBVIOUS
<1>2. q.pc = "count" /\ q \in UnderWay /\ Sound(q) /\ TypeOK
  BY <1>1, AtWork DEF count_cimd_clients, RegistryInv
<1>3. /\ q.op \in Operation /\ q.id \in Id /\ q.copy \in Row \cup {None} /\ q.age \in Nat
      /\ q.age <= MaxLatency /\ q.blind \in BOOLEAN
  BY <1>2, Fields
<1>4. UNCHANGED <<world, l1, l2, docs, answer, hist>> /\ q.pc \in Making
  BY <1>2 DEF count_cimd_clients, Making
<1>5. CASE Done(r)
  BY <1>4, <1>5, Lone
<1>6. CASE Goto(r, "save")
  BY <1>1, <1>2, <1>4, <1>6, GoesOn, MapStill DEF TypeOK
<1> QED
  BY <1>5, <1>6 DEF count_cimd_clients

\* The row that another request has saved.
LEMMA AdoptSound ==
    ASSUME RegistryInv, NEW r \in Request, Adopt(r)
    PROVE  LeavesSound
<1>1. PICK q : q = req[r]
  OBVIOUS
<1>2. q.pc = "adopt" /\ q \in UnderWay /\ Sound(q) /\ TypeOK
  BY <1>1, AtWork DEF Adopt, RegistryInv
<1>3. /\ q.op \in Operation /\ q.id \in Id /\ q.copy \in Row \cup {None} /\ q.age \in Nat
      /\ q.age <= MaxLatency /\ q.blind \in BOOLEAN
  BY <1>2, Fields
<1>4. UNCHANGED <<world, l1, l2, docs, answer, hist>> /\ q.pc \in Making
  BY <1>2 DEF Adopt, Making
<1>5. CASE row[q.id] = None
  BY <1>1, <1>4, <1>5, Lone DEF Adopt
<1>6. CASE row[q.id] # None
  <2>1. Hold(r, preserve_operator_state(q.arg, row[q.id]), "keep")
    BY <1>1, <1>6 DEF Adopt
  <2> QED
    BY <1>1, <1>2, <1>4, <1>6, <2>1, Preserves
<1> QED
  BY <1>5, <1>6

\* What is cached and used was made from the table in this request.
LEMMA KeepDocumentSound ==
    ASSUME RegistryInv, NEW r \in Request, KeepDocument(r)
    PROVE  LeavesSound
<1>1. PICK q : q = req[r]
  OBVIOUS
<1>2. q.pc = "keep" /\ q \in UnderWay /\ Sound(q) /\ TypeOK
  BY <1>1, AtWork DEF KeepDocument, Is, RegistryInv
<1>3. /\ q.op \in Operation /\ q.id \in Id /\ q.copy \in Row \cup {None} /\ q.age \in Nat
      /\ q.age <= MaxLatency /\ q.blind \in BOOLEAN
  BY <1>2, Fields
<1>4. UNCHANGED <<world, l2, docs, hist>> /\ q.op = "use" /\ q.id \in Url /\ Insert(r) /\ UseDocument(r)
      /\ Done(r)
  BY <1>1, <1>2 DEF KeepDocument, Is, Sound, Carries
<1>5. q.copy \in Row /\ q.copy # None /\ Recent(q.id, q.copy, Behind("keep") + q.age)
      /\ Earned(q.id, q.copy) /\ q.node \in Node
  BY <1>2, <1>4, NoneAssumption DEF Sound, Carries, CopyRecent, Copying, CopyEarned, Earned
<1>6. Recent(q.id, q.copy, 2 * MaxLatency + TTL)
  <2>1. /\ Behind("keep") + q.age \in Nat /\ 2 * MaxLatency + TTL \in Nat
        /\ Behind("keep") + q.age <= 2 * MaxLatency + TTL
    BY <1>3, Bounds, BoundAssumption
  <2> QED
    BY <1>2, <1>3, <1>5, <2>1, RecentLonger
<1>7. l1' \in [Node -> [Id -> Entry \cup {None}]] /\ NewInMapSound
  BY <1>1, <1>2, <1>4, <1>5, <1>6, Inserts DEF world, table
<1>8. ~q.blind => NotLongOff(q.id, Behind("got") + q.age)
  BY <1>2, <1>4 DEF Sound, Unobjected
<1>9. answer' \in Verdict \cup Use \cup {None} /\ NewAnswerDue
  BY <1>1, <1>2, <1>4, <1>8, DocumentDue DEF world, table
<1> QED
  BY <1>2, <1>4, <1>7, <1>9, Quiet, DoneSound

-----------------------------------------------------------------------------
(* Steps that write the table *)

\* A row is replaced by one whose privileges were given, and that is not taken
\* from a document unnoticed.
LEMMA TableWritten ==
    ASSUME RegistryInv, NEW i \in Id, NEW c \in Row \cup {None}, NEW d \in BOOLEAN,
           SetRow(i, c, d) \/ (update_client(i, c, d) /\ c # None) \/ UNCHANGED table,
           granted' \in [Id -> SUBSET Privilege],
           \A j \in Id : granted[j] \subseteq granted'[j],
           revived' \subseteq Id, revived \subseteq revived',
           c # None => Earned(i, c)',
           c # None /\ c.enabled /\ ~d => NotLongOff(i, Lag)
    PROVE  Moves /\ RowsSound' /\ TableOK'
<1>1. TypeOK
  BY DEF RegistryInv
<1>2. CASE SetRow(i, c, d)
  <2>1. \A j \in Id, s \in 1..MaxSecret :
          /\ row[j] # None /\ row[j].secret = s =>
                (row'[j] # None /\ row'[j].secret = s) \/ left'[j][s] = 0
          /\ left'[j][s] \in {0, left[j][s]}
    BY <1>1, <1>2, SetRowFacts
  <2>2. Moves
    <3>1. \A j \in Id : \/ off'[j] \in {None, 0}
                        \/ off'[j] = off[j] /\ (undone[j] # None => undone'[j] # None)
      BY <1>1, <1>2, SetRowFacts
    <3>2. \A j \in Id : row'[j] # None /\ ~row'[j].managed =>
             \/ placed'[j] = 0
             \/ row[j] # None /\ ~row[j].managed /\ placed'[j] = placed[j]
      BY <1>1, <1>2, SetRowFacts
    <3> QED
      BY <2>1, <3>1, <3>2 DEF Moves
  <2>4. TableOK'
    BY <1>1, <1>2, SetRowFacts
  <2>3. RowsSound'
    BY <1>2, RowsStaySound
  <2> QED
    BY <2>2, <2>3, <2>4
<1>3. CASE UNCHANGED table
  <2>1. Moves
    BY <1>3 DEF Moves, table
  <2>2. RowsSound'
    BY <1>3 DEF RegistryInv, RowsSound, Earned, table, Lag
  <2>3. TypeOK
    BY DEF RegistryInv
  <2> QED
    BY <1>3, <2>1, <2>2, <2>3 DEF TypeOK, TableOK, table, Lag
<1> QED
  BY <1>2, <1>3 DEF update_client

\* The rest of such a step.
LEMMA Written ==
    ASSUME RegistryInv, UNCHANGED <<l1, l2, docs, answer>>, Moves, RowsSound',
           TableOK',
           issued' \in [ids : SUBSET Id, secrets : 1..(MaxSecret + 1)],
           granted' \in [Id -> SUBSET Privilege], revived' \subseteq Id,
           req' \in [Request -> UnderWay \cup {Idle}], NewRequestsSound
    PROVE  LeavesSound
<1>1. TypeOK'
  BY DEF RegistryInv, TypeOK, TableOK, Lag
<1> QED
  BY <1>1, MapStill, RedisStill, AnswerStill DEF LeavesSound

\* The histories when they are left alone.
LEMMA HistoryStill ==
    ASSUME TypeOK, UNCHANGED hist
    PROVE  /\ granted' \in [Id -> SUBSET Privilege]
           /\ \A j \in Id : granted[j] \subseteq granted'[j]
           /\ revived' \subseteq Id /\ revived \subseteq revived'
BY DEF TypeOK, hist

\* What operators and statements give is added to what they gave.
LEMMA GrantsGrow ==
    ASSUME TypeOK, NEW i \in Id, NEW g \in SUBSET Privilege,
           granted' = [granted EXCEPT ![i] = granted[i] \cup g]
    PROVE  /\ granted' \in [Id -> SUBSET Privilege]
           /\ granted'[i] = granted[i] \cup g
           /\ \A j \in Id : granted[j] \subseteq granted'[j]
BY DEF TypeOK

\* A row made from a document is written from it again.
LEMMA RewriteSound ==
    ASSUME RegistryInv, NEW r \in Request, Rewrite(r)
    PROVE  LeavesSound
<1>1. PICK q : q = req[r]
  OBVIOUS
<1>2. q.pc = "rewrite" /\ q \in UnderWay /\ Sound(q) /\ TypeOK
  BY <1>1, AtWork DEF Rewrite, RegistryInv
<1>3. /\ q.op \in Operation /\ q.id \in Id /\ q.copy \in Row \cup {None} /\ q.age \in Nat
      /\ q.age <= MaxLatency /\ q.blind \in BOOLEAN
  BY <1>2, Fields
<1>4. /\ UNCHANGED <<issued, l1, l2, docs, answer, hist>> /\ update_client(q.id, q.copy, FALSE) /\ Goto(r, "keep")
      /\ q.op = "use" /\ q.id \in Url
  BY <1>1, <1>2 DEF Rewrite, Sound, Carries, Making
<1>5. q.copy \in Row /\ q.copy # None /\ q.copy.secret = 0 /\ q.copy.managed /\ q.node \in Node
  BY <1>2, <1>4, NoneAssumption DEF Sound, Carries
<1>6. Earned(q.id, q.copy)'
  BY <1>2, <1>4, <1>5 DEF Sound, CopyEarned, Earned, hist
<1>7. /\ granted' \in [Id -> SUBSET Privilege] /\ \A j \in Id : granted[j] \subseteq granted'[j]
      /\ revived' \subseteq Id /\ revived \subseteq revived'
  BY <1>2, <1>4, HistoryStill
<1>8. /\ Moves /\ RowsSound' /\ TableOK'
  <2>1. q.copy.enabled => NotLongOff(q.id, Behind("rewrite") + q.age)
    BY <1>2, <1>5 DEF Sound, CopyRecent, Copying, Recent
  <2>2. Behind("rewrite") + q.age \in Nat /\ Lag \in Nat /\ Behind("rewrite") + q.age <= Lag
    BY <1>3, Bounds, BoundAssumption
  <2>3. q.copy.enabled => NotLongOff(q.id, Lag)
    BY <1>2, <1>3, <2>1, <2>2, NotLongOffLonger
  <2> QED
    BY <1>3, <1>4, <1>5, <1>6, <1>7, <2>3, TableWritten
<1>9. PICK new : Goes(r, new) /\ new.pc = "keep" /\ new.copy = q.copy /\ new.blind = q.blind
  BY <1>1, <1>2, <1>4, GotoGoes DEF Stage
<1>10. /\ new \in UnderWay /\ new.node = q.node /\ new.op = q.op /\ new.id = q.id
      /\ new.arg = q.arg /\ new.age = q.age /\ Becomes(r, new)
  BY <1>1, <1>9 DEF Goes
<1>11. Carries(new)
  BY <1>2, <1>4, <1>5, <1>9, <1>10 DEF Sound, Carries, Making, Looking
<1>12. CopyRecent(new)
  BY <1>2, <1>5, <1>9, <1>10, Bounds DEF Sound, CopyRecent, Copying
<1>13. Unobjected(new) /\ CopyEarned(new) /\ Rightful(new) /\ Unaware(new)
  BY <1>2, <1>9, <1>10 DEF Sound, Unobjected, CopyEarned, Rightful, Unaware, Making
<1>14. Sound(new)'
  BY <1>2, <1>8, <1>10, <1>11, <1>12, <1>13, SoundKept DEF Sound
<1>15. req' \in [Request -> UnderWay \cup {Idle}] /\ NewRequestsSound
  BY <1>2, <1>10, <1>14, BecomesSound
<1>16. issued' \in [ids : SUBSET Id, secrets : 1..(MaxSecret + 1)]
  BY <1>2, <1>4 DEF TypeOK
<1> QED
  BY <1>4, <1>7, <1>8, <1>15, <1>16, Written

\* A row that was missing is made from the document.
LEMMA SaveDocumentSound ==
    ASSUME RegistryInv, NEW r \in Request, SaveDocument(r)
    PROVE  LeavesSound
<1>1. PICK q : q = req[r]
  OBVIOUS
<1>2. q.pc = "save" /\ q \in UnderWay /\ Sound(q) /\ TypeOK
  BY <1>1, AtWork DEF SaveDocument, RegistryInv
<1>3. /\ q.op \in Operation /\ q.id \in Id /\ q.copy \in Row \cup {None} /\ q.age \in Nat
      /\ q.age <= MaxLatency /\ q.blind \in BOOLEAN
  BY <1>2, Fields
<1>4. /\ UNCHANGED <<l1, l2, docs, answer, hist>> /\ q.op = "use" /\ q.id \in Url /\ q.pc \in Making
      /\ q.arg \in Document /\ ~q.arg.priv /\ q.node \in Node
  BY <1>2 DEF SaveDocument, Sound, Carries, Making
<1>5. CASE row[q.id] # None
  <2>1. Goto(r, "adopt") /\ UNCHANGED world
    BY <1>1, <1>5 DEF SaveDocument
  <2> QED
    BY <1>1, <1>2, <1>4, <2>1, GoesOn, MapStill DEF TypeOK
<1>6. CASE row[q.id] = None
  <2>1. PICK c : c = FromDocument(q.arg)
    OBVIOUS
  <2>2. c \in Row /\ c # None /\ c.secret = 0 /\ c.managed /\ c.enabled /\ ~c.agent /\ ~c.actors /\ ~c.priv
    BY <1>4, <2>1, DocumentRow, NoneAssumption
  <2>3. /\ SetRow(q.id, c, FALSE) /\ issued' = [issued EXCEPT !.ids = @ \cup {q.id}] /\ Hold(r, c, "keep")
    BY <1>1, <1>6, <2>1 DEF SaveDocument
  <2>4. Earned(q.id, c)'
    BY <2>2 DEF Earned
  <2>5. /\ granted' \in [Id -> SUBSET Privilege] /\ \A j \in Id : granted[j] \subseteq granted'[j]
        /\ revived' \subseteq Id /\ revived \subseteq revived'
    BY <1>2, <1>4, HistoryStill
  <2>6. /\ Moves /\ RowsSound' /\ TableOK'
    <3>1. NotLongOff(q.id, Lag)
      BY <1>3, <1>6 DEF RegistryInv, RowsSound, NotLongOff
    <3> QED
      BY <1>3, <2>2, <2>3, <2>4, <2>5, <3>1, TableWritten
  <2>7. PICK new : Goes(r, new) /\ new.pc = "keep" /\ new.copy = c /\ new.blind = q.blind
    BY <1>1, <1>2, <2>2, <2>3, HoldGoes DEF Stage
  <2>8. /\ new \in UnderWay /\ new.node = q.node /\ new.op = q.op /\ new.id = q.id
        /\ new.arg = q.arg /\ new.age = q.age /\ Becomes(r, new)
    BY <1>1, <2>7 DEF Goes
  <2>9. Carries(new)
    BY <1>4, <2>2, <2>7, <2>8 DEF Carries, Making, Looking
  <2>10. off[q.id] = None
    BY <1>3, <1>6 DEF RegistryInv, RowsSound
  <2>11. CopyRecent(new) /\ Unobjected(new)
    BY <2>2, <2>7, <2>8, <2>10 DEF CopyRecent, Unobjected, Recent, NotLongOff
  <2>12. CopyEarned(new) /\ Rightful(new) /\ Unaware(new)
    BY <2>2, <2>7, <2>8 DEF CopyEarned, Rightful, Unaware
  <2>13. Sound(new)'
    BY <1>2, <2>6, <2>8, <2>9, <2>11, <2>12, SoundKept DEF Sound
  <2>14. req' \in [Request -> UnderWay \cup {Idle}] /\ NewRequestsSound
    BY <1>2, <2>8, <2>13, BecomesSound
  <2>15. issued' \in [ids : SUBSET Id, secrets : 1..(MaxSecret + 1)]
    BY <1>2, <1>3, <2>3 DEF TypeOK
  <2> QED
    BY <1>4, <2>5, <2>6, <2>14, <2>15, Written
<1> QED
  BY <1>5, <1>6

\* A copy about to be written was read when it said what the row did.
LEMMA UnawareWithin ==
    ASSUME TypeOK, NEW q \in UnderWay, Sound(q), q.pc = "write", q.copy.enabled,
           q.op = "edit" => q.arg.enabled = None
    PROVE  NotLongOff(q.id, Lag)
<1>1. q.id \in Id /\ q.age \in Nat /\ q.age <= MaxLatency
  BY Fields
<1>2. Behind("got") + q.age \in Nat /\ Lag \in Nat /\ Behind("got") + q.age <= Lag
  BY <1>1, Bounds, BoundAssumption
<1>3. NotLongOff(q.id, Behind("got") + q.age)
  BY DEF Sound, Unaware
<1> QED
  BY <1>1, <1>2, <1>3, NotLongOffLonger

\* An update writes its copy, and it is as recent as can be, unless the row was gone.
LEMMA UpdateClientSound ==
    ASSUME RegistryInv, NEW r \in Request, UpdateClient(r)
    PROVE  LeavesSound
<1>1. PICK q : q = req[r]
  OBVIOUS
<1>2. q.pc = "write" /\ q \in UnderWay /\ Sound(q) /\ TypeOK
  BY <1>1, AtWork DEF UpdateClient, Is, RegistryInv
<1>3. /\ q.op \in Operation /\ q.id \in Id /\ q.copy \in Row \cup {None} /\ q.age \in Nat
      /\ q.age <= MaxLatency /\ q.blind \in BOOLEAN
  BY <1>2, Fields
<1>4. /\ UNCHANGED <<issued, l1, l2, docs, answer, granted>> /\ update_client(q.id, q.copy, FALSE) /\ Goto(r, "keep")
      /\ q.op = "put"
      /\ revived' = IF row[q.id] = None THEN revived \cup {q.id} ELSE revived
  BY <1>1 DEF UpdateClient, Is
<1>5. q.copy \in Row /\ q.copy # None /\ q.node \in Node
  BY <1>2, <1>4, NoneAssumption DEF Sound, Carries
<1>6. Earned(q.id, q.copy)'
  BY <1>2, <1>4, <1>5 DEF Sound, CopyEarned, Earned
<1>7. /\ granted' \in [Id -> SUBSET Privilege] /\ \A j \in Id : granted[j] \subseteq granted'[j]
      /\ revived' \subseteq Id /\ revived \subseteq revived'
  BY <1>2, <1>3, <1>4 DEF TypeOK
<1>8. /\ Moves /\ RowsSound' /\ TableOK'
  <2>1. q.copy.enabled => NotLongOff(q.id, Lag)
    BY <1>2, <1>3, <1>4, UnawareWithin
  <2> QED
    BY <1>3, <1>4, <1>5, <1>6, <1>7, <2>1, TableWritten
<1>9. PICK new : Goes(r, new) /\ new.pc = "keep" /\ new.copy = q.copy /\ new.blind = q.blind
  BY <1>1, <1>2, <1>4, GotoGoes DEF Stage
<1>10. /\ new \in UnderWay /\ new.node = q.node /\ new.op = q.op /\ new.id = q.id
      /\ new.arg = q.arg /\ new.age = q.age /\ Becomes(r, new)
  BY <1>1, <1>9 DEF Goes
<1>11. Recent(q.id, q.copy, Behind("keep") + q.age)'
  <2>1. CASE row[q.id] = None
    <3>1. off'[q.id] = None /\ q.id \in revived'
      BY <1>3, <1>4, <2>1 DEF update_client, RegistryInv, RowsSound, table
    <3> QED
      BY <3>1 DEF Recent, NotLongOff
  <2>2. CASE row[q.id] # None
    <3>1. SetRow(q.id, q.copy, FALSE)
      BY <1>4, <2>2 DEF update_client
    <3>2. row'[q.id] = q.copy /\ (q.copy.enabled => off'[q.id] = None \/ undone'[q.id] # None)
      BY <1>2, <1>3, <1>5, <3>1, SetRowFacts
    <3> QED
      BY <1>5, <3>2, NoneAssumption DEF Recent, Held, NotLongOff
  <2> QED
    BY <2>1, <2>2
<1>12. Carries(new)'
  BY <1>2, <1>4, <1>5, <1>9, <1>10 DEF Sound, Carries, Making, Looking
<1>13. CopyRecent(new)'
  BY <1>9, <1>10, <1>11 DEF CopyRecent
<1>14. Unobjected(new)' /\ Rightful(new)' /\ Unaware(new)'
  BY <1>4, <1>9, <1>10 DEF Unobjected, Rightful, Unaware
<1>15. CopyEarned(new)'
  BY <1>6, <1>9, <1>10 DEF CopyEarned, Earned
<1>16. Sound(new)'
  BY <1>12, <1>13, <1>14, <1>15 DEF Sound
<1>17. req' \in [Request -> UnderWay \cup {Idle}] /\ NewRequestsSound
  BY <1>2, <1>10, <1>16, BecomesSound
<1>18. issued' \in [ids : SUBSET Id, secrets : 1..(MaxSecret + 1)]
  BY <1>2, <1>4 DEF TypeOK
<1> QED
  BY <1>4, <1>7, <1>8, <1>17, <1>18, Written

\* What was just written is cached.
LEMMA KeepRegisteredSound ==
    ASSUME RegistryInv, NEW r \in Request, KeepRegistered(r)
    PROVE  LeavesSound
<1>1. PICK q : q = req[r]
  OBVIOUS
<1>2. q.pc = "keep" /\ q \in UnderWay /\ Sound(q) /\ TypeOK
  BY <1>1, AtWork DEF KeepRegistered, Is, RegistryInv
<1>3. /\ q.op \in Operation /\ q.id \in Id /\ q.copy \in Row \cup {None} /\ q.age \in Nat
      /\ q.age <= MaxLatency /\ q.blind \in BOOLEAN
  BY <1>2, Fields
<1>4. UNCHANGED <<world, l2, docs, answer, hist>> /\ Insert(r) /\ Done(r) /\ q.op \in {"put", "register"}
  BY <1>1 DEF KeepRegistered, Is
<1>5. q.copy \in Row /\ q.copy # None /\ Recent(q.id, q.copy, Behind("keep") + q.age)
      /\ Earned(q.id, q.copy) /\ q.node \in Node
  BY <1>2, <1>4, NoneAssumption DEF Sound, Carries, CopyRecent, Copying, CopyEarned, Earned
<1>6. Recent(q.id, q.copy, 2 * MaxLatency + TTL)
  <2>1. /\ Behind("keep") + q.age \in Nat /\ 2 * MaxLatency + TTL \in Nat
        /\ Behind("keep") + q.age <= 2 * MaxLatency + TTL
    BY <1>3, Bounds, BoundAssumption
  <2> QED
    BY <1>2, <1>3, <1>5, <2>1, RecentLonger
<1>7. l1' \in [Node -> [Id -> Entry \cup {None}]] /\ NewInMapSound
  BY <1>1, <1>2, <1>4, <1>5, <1>6, Inserts DEF world, table
<1>8. answer' \in Verdict \cup Use \cup {None} /\ NewAnswerDue
  BY <1>2, <1>4, AnswerStill DEF TypeOK
<1> QED
  BY <1>2, <1>4, <1>7, <1>8, Quiet, DoneSound

\* A deletion evicts an entry first.
LEMMA DeleteClientSound ==
    ASSUME RegistryInv, NEW r \in Request, DeleteClient(r)
    PROVE  LeavesSound
<1>1. PICK q : q = req[r]
  OBVIOUS
<1>2. q.pc = "got" /\ q \in UnderWay /\ Sound(q) /\ TypeOK
  BY <1>1, AtWork DEF DeleteClient, Is, RegistryInv
<1>3. /\ q.op \in Operation /\ q.id \in Id /\ q.copy \in Row \cup {None} /\ q.age \in Nat
      /\ q.age <= MaxLatency /\ q.blind \in BOOLEAN
  BY <1>2, Fields
<1>4. UNCHANGED <<world, l2, docs, answer, hist>> /\ q.op = "drop" /\ q.node \in Node
  BY <1>1, <1>2 DEF DeleteClient, Is, Sound, Carries
<1>5. CASE Done(r) /\ UNCHANGED l1
  BY <1>4, <1>5, Lone
<1>6. CASE Goto(r, "delete") /\ l1' = [l1 EXCEPT ![q.node][q.id] = None]
  <2>1. PICK new : Goes(r, new) /\ new.pc = "delete" /\ new.copy = q.copy /\ new.blind = q.blind
    BY <1>1, <1>2, <1>6, GotoGoes DEF Stage
  <2>2. /\ new \in UnderWay /\ new.node = q.node /\ new.op = q.op /\ new.id = q.id
        /\ new.arg = q.arg /\ new.age = q.age /\ Becomes(r, new)
    BY <1>1, <2>1 DEF Goes
  <2>3. Carries(new)
    BY <1>2, <1>4, <2>1, <2>2 DEF Carries, Making, Looking
  <2>4. CopyRecent(new) /\ Unobjected(new) /\ CopyEarned(new) /\ Rightful(new) /\ Unaware(new)
    BY <1>2, <1>4, <2>1, <2>2 DEF Sound, CopyRecent, Unobjected, CopyEarned, Rightful, Unaware, Copying
  <2>5. Sound(new)'
    BY <1>2, <1>4, <2>2, <2>3, <2>4, TableStill, SoundKept DEF Sound, world, table
  <2>6. req' \in [Request -> UnderWay \cup {Idle}] /\ NewRequestsSound
    BY <1>2, <2>2, <2>5, BecomesSound
  <2>7. l1' \in [Node -> [Id -> Entry \cup {None}]] /\ NewInMapSound
    BY <1>2, <1>3, <1>4, <1>6, Evicts
  <2>8. answer' \in Verdict \cup Use \cup {None} /\ NewAnswerDue
    BY <1>2, <1>4, AnswerStill DEF TypeOK
  <2> QED
    BY <1>4, <2>6, <2>7, <2>8, Quiet
<1> QED
  BY <1>1, <1>5, <1>6 DEF DeleteClient

\* Then the row goes, or stays.
LEMMA DeletedSound ==
    ASSUME RegistryInv, NEW r \in Request, delete_client(r)
    PROVE  LeavesSound
<1>1. PICK q : q = req[r]
  OBVIOUS
<1>2. q.pc = "delete" /\ q \in UnderWay /\ Sound(q) /\ TypeOK
  BY <1>1, AtWork DEF delete_client, Is, RegistryInv
<1>3. /\ q.op \in Operation /\ q.id \in Id /\ q.copy \in Row \cup {None} /\ q.age \in Nat
      /\ q.age <= MaxLatency /\ q.blind \in BOOLEAN
  BY <1>2, Fields
<1>4. UNCHANGED <<issued, l1, l2, docs, answer, hist>> /\ Done(r)
      /\ (SetRow(q.id, None, FALSE) \/ UNCHANGED table)
  BY <1>1 DEF delete_client
<1>5. /\ granted' \in [Id -> SUBSET Privilege] /\ \A j \in Id : granted[j] \subseteq granted'[j]
      /\ revived' \subseteq Id /\ revived \subseteq revived'
  BY <1>2, <1>4, HistoryStill
<1>6. /\ Moves /\ RowsSound' /\ TableOK'
  BY <1>3, <1>4, <1>5, TableWritten
<1>7. issued' \in [ids : SUBSET Id, secrets : 1..(MaxSecret + 1)]
  BY <1>2, <1>4 DEF TypeOK
<1>8. req' \in [Request -> UnderWay \cup {Idle}] /\ NewRequestsSound
  BY <1>2, <1>4, DoneSound
<1> QED
  BY <1>4, <1>5, <1>6, <1>7, <1>8, Written

\* An edit writes the copy it made, and gives what it asks for.
LEMMA WriteEditSound ==
    ASSUME RegistryInv, NEW r \in Request, WriteEdit(r)
    PROVE  LeavesSound
<1>1. PICK q : q = req[r]
  OBVIOUS
<1>2. q.pc = "write" /\ q \in UnderWay /\ Sound(q) /\ TypeOK
  BY <1>1, AtWork DEF WriteEdit, Is, RegistryInv
<1>3. /\ q.op \in Operation /\ q.id \in Id /\ q.copy \in Row \cup {None} /\ q.age \in Nat
      /\ q.age <= MaxLatency /\ q.blind \in BOOLEAN
  BY <1>2, Fields
<1>4. /\ UNCHANGED <<issued, l1, l2, docs, answer, revived>> /\ Done(r)
      /\ update_client(q.id, q.copy, q.arg.enabled # None) /\ q.op = "edit"
      /\ granted' = [granted EXCEPT ![q.id] = IF q.arg.priv = TRUE THEN @ \cup {"priv"} ELSE @]
  BY <1>1 DEF WriteEdit, Is
<1>5. q.copy \in Row /\ q.copy # None
  BY <1>2, <1>4, NoneAssumption DEF Sound, Carries
<1>6. PICK g : g = IF q.arg.priv = TRUE THEN {"priv"} ELSE {}
  OBVIOUS
<1>7. granted' = [granted EXCEPT ![q.id] = granted[q.id] \cup g] /\ g \in SUBSET Privilege
  BY <1>2, <1>4, <1>6 DEF Privilege, TypeOK
<1>8. granted'[q.id] = granted[q.id] \cup g
  BY <1>2, <1>3, <1>7, GrantsGrow
<1>9. /\ granted' \in [Id -> SUBSET Privilege] /\ \A j \in Id : granted[j] \subseteq granted'[j]
      /\ revived' \subseteq Id /\ revived \subseteq revived'
  BY <1>2, <1>3, <1>4, <1>7, GrantsGrow DEF TypeOK
<1>10. Earned(q.id, q.copy)'
  BY <1>2, <1>5, <1>6, <1>8 DEF Sound, CopyEarned, Earned
<1>11. /\ Moves /\ RowsSound' /\ TableOK'
  <2>1. PICK d : d = (q.arg.enabled # None)
    OBVIOUS
  <2>2. d \in BOOLEAN /\ update_client(q.id, q.copy, d)
    BY <1>4, <2>1
  <2>3. q.copy.enabled /\ ~d => NotLongOff(q.id, Lag)
    BY <1>2, <2>1, UnawareWithin
  <2> QED
    BY <1>3, <1>5, <1>9, <1>10, <2>2, <2>3, TableWritten
<1>12. issued' \in [ids : SUBSET Id, secrets : 1..(MaxSecret + 1)]
  BY <1>2, <1>4 DEF TypeOK
<1>13. req' \in [Request -> UnderWay \cup {Idle}] /\ NewRequestsSound
  BY <1>2, <1>4, DoneSound
<1> QED
  BY <1>4, <1>9, <1>11, <1>12, <1>13, Written

-----------------------------------------------------------------------------
(* Registration, updates and the administrator *)

\* What is given, and what a client says of itself, with or without a statement.
LEMMA Asserted ==
    ASSUME NEW body \in Body
    PROVE  /\ Attested(body) \in SUBSET Privilege
           /\ SelfAsserted(body).priv \in BOOLEAN /\ SelfAsserted(body).agent \in BOOLEAN \cup {None}
           /\ SelfAsserted(body).actors = FALSE
           /\ Operator(body).priv \in BOOLEAN /\ Operator(body).agent \in BOOLEAN \cup {None}
           /\ Operator(body).actors \in BOOLEAN
           /\ SelfAsserted(body).ok => ~SelfAsserted(body).priv
           /\ SelfAsserted(body).agent # None /\ SelfAsserted(body).agent = TRUE => "agent" \in Attested(body)
<1>1. body \in BodyRecord
  BY InputAssumption
<1>2. PICK m : m = [body EXCEPT !.agent = None]
  OBVIOUS
<1>3. m \in BodyRecord /\ m.agent = None /\ m.priv = body.priv /\ m.statement = body.statement
  BY <1>1, <1>2 DEF BodyRecord
<1>4. ASSUME NEW b \in BodyRecord
      PROVE  /\ apply_software_statement(b).agent =
                   IF b.statement = None THEN b.agent
                   ELSE IF b.statement.agent = None THEN b.agent ELSE b.statement.agent
             /\ apply_software_statement(b) \in BodyRecord
  <2>1. CASE b.statement = None
    BY <2>1 DEF apply_software_statement
  <2>2. CASE b.statement # None
    <3>1. b.statement \in Statement /\ b.priv \in BOOLEAN /\ b.agent \in BOOLEAN \cup {None}
      BY <2>2 DEF BodyRecord
    <3>2. PICK x, y : /\ x = (IF b.statement.priv = None THEN b.priv ELSE b.statement.priv)
                      /\ y = (IF b.statement.agent = None THEN b.agent ELSE b.statement.agent)
      OBVIOUS
    <3>3. x \in BOOLEAN /\ y \in BOOLEAN \cup {None}
      BY <3>1, <3>2 DEF Statement
    <3>4. apply_software_statement(b) = [b EXCEPT !.priv = x, !.agent = y]
      BY <2>2, <3>2 DEF apply_software_statement
    <3> QED
      BY <2>2, <3>2, <3>3, <3>4 DEF BodyRecord
  <2> QED
    BY <2>1, <2>2
<1>5. PICK w : w = apply_software_statement(m)
  OBVIOUS
<1>6. PICK v : v = apply_software_statement(body)
  OBVIOUS
<1>7. SelfAsserted(body) =
        [priv |-> w.priv, agent |-> w.agent, actors |-> FALSE, ok |-> validate_registration(w)]
  BY <1>2, <1>5 DEF SelfAsserted, clear_self_asserted_software_metadata
<1>8. Operator(body) =
        [priv |-> v.priv, agent |-> v.agent, actors |-> v.actors, ok |-> UsableMetadata(v)]
  BY <1>6 DEF Operator
<1>9. /\ w \in BodyRecord /\ v \in BodyRecord
      /\ w.agent # None => body.statement # None /\ w.agent = body.statement.agent
  BY <1>1, <1>3, <1>4, <1>5, <1>6
<1>10. /\ w.priv \in BOOLEAN /\ w.agent \in BOOLEAN \cup {None} /\ v.priv \in BOOLEAN
       /\ v.agent \in BOOLEAN \cup {None} /\ v.actors \in BOOLEAN
  BY <1>9 DEF BodyRecord
<1>11. SelfAsserted(body).ok => ~w.priv
  <2>1. SelfAsserted(body).ok = validate_registration(w)
    BY <1>7
  <2>2. validate_registration(w) => ~w.priv
    BY DEF validate_registration
  <2> QED
    BY <2>1, <2>2
<1>12. Attested(body) \in SUBSET Privilege
  BY DEF Attested, Privilege
<1>13. w.agent # None /\ w.agent = TRUE => "agent" \in Attested(body)
  BY <1>9 DEF Attested
<1>14. /\ SelfAsserted(body).priv = w.priv /\ SelfAsserted(body).agent = w.agent
       /\ SelfAsserted(body).actors = FALSE /\ Operator(body).actors = v.actors
       /\ Operator(body).priv = v.priv /\ Operator(body).agent = v.agent
  BY <1>7, <1>8
<1> QED
  BY <1>10, <1>11, <1>12, <1>13, <1>14

\* The columns of a row.
LEMMA Columns ==
    ASSUME NEW c \in Row
    PROVE  /\ c.secret \in 0..MaxSecret /\ c.enabled \in BOOLEAN /\ c.priv \in BOOLEAN /\ c.agent \in BOOLEAN
           /\ c.actors \in BOOLEAN /\ c.managed \in BOOLEAN /\ c.token \in BOOLEAN /\ c.ver \in 0..MaxVersion
BY DEF Row

\* A client asks for what it may, or what a statement gives it.
LEMMA PutSound ==
    ASSUME RegistryInv, NEW r \in Request, update_client_configuration(r)
    PROVE  LeavesSound
<1>1. PICK q : q = req[r]
  OBVIOUS
<1>2. q.pc = "got" /\ q \in UnderWay /\ Sound(q) /\ TypeOK
  BY <1>1, AtWork DEF update_client_configuration, Is, RegistryInv
<1>3. /\ q.op \in Operation /\ q.id \in Id /\ q.copy \in Row \cup {None} /\ q.age \in Nat
      /\ q.age <= MaxLatency /\ q.blind \in BOOLEAN
  BY <1>2, Fields
<1>4. /\ UNCHANGED <<world, l1, l2, docs, answer, revived>> /\ q.op = "put" /\ q.node \in Node
      /\ q.arg \in Body /\ q.copy \in Row
  BY <1>1, <1>2 DEF update_client_configuration, Is, Sound, Carries
<1>5. CASE Done(r) /\ UNCHANGED granted
  <2>1. UNCHANGED hist
    BY <1>4, <1>5 DEF hist
  <2> QED
    BY <1>4, <1>5, <2>1, Lone
<1>6. CASE /\ Hold(r, [q.copy EXCEPT !.ver = q.arg.ver, !.priv = SelfAsserted(q.arg).priv,
                                     !.agent = IF SelfAsserted(q.arg).agent = None THEN @
                                               ELSE SelfAsserted(q.arg).agent], "write")
           /\ granted' = [granted EXCEPT ![q.id] = @ \cup Attested(q.arg)]
           /\ SelfAsserted(q.arg).ok
  <2>1. PICK p, a, v : /\ p = SelfAsserted(q.arg).priv /\ v = q.arg.ver
                       /\ a = IF SelfAsserted(q.arg).agent = None THEN q.copy.agent ELSE SelfAsserted(q.arg).agent
    OBVIOUS
  <2>2. /\ p = FALSE /\ a \in BOOLEAN /\ v \in 0..MaxVersion
        /\ a => q.copy.agent \/ "agent" \in Attested(q.arg)
    <3>1. q.copy.agent \in BOOLEAN /\ q.arg.ver \in 0..MaxVersion
      BY <1>4, Columns, InputAssumption DEF BodyRecord
    <3> QED
      BY <1>4, <1>6, <2>1, <3>1, Asserted
  <2>3. PICK c : c = [q.copy EXCEPT !.ver = v, !.priv = p, !.agent = a]
    OBVIOUS
  <2>4. /\ c \in Row /\ ~c.priv /\ c.agent = a /\ c.actors = q.copy.actors /\ c.enabled = q.copy.enabled
    BY <1>4, <2>2, <2>3 DEF Row
  <2>5. Hold(r, c, "write")
    BY <1>6, <2>1, <2>3
  <2>6. PICK new : Goes(r, new) /\ new.pc = "write" /\ new.copy = c /\ new.blind = q.blind
    BY <1>1, <1>2, <2>4, <2>5, HoldGoes DEF Stage
  <2>7. /\ new \in UnderWay /\ new.node = q.node /\ new.op = q.op /\ new.id = q.id
        /\ new.arg = q.arg /\ new.age = q.age /\ Becomes(r, new)
    BY <1>1, <2>6 DEF Goes
  <2>8. PICK g : g = Attested(q.arg)
    OBVIOUS
  <2>9. g \in SUBSET Privilege /\ granted' = [granted EXCEPT ![q.id] = granted[q.id] \cup g]
    BY <1>4, <1>6, <2>8, Asserted
  <2>10. /\ granted'[q.id] = granted[q.id] \cup g
         /\ granted' \in [Id -> SUBSET Privilege] /\ \A j \in Id : granted[j] \subseteq granted'[j]
         /\ revived' \subseteq Id /\ revived \subseteq revived'
    BY <1>2, <1>3, <1>4, <2>9, GrantsGrow DEF TypeOK
  <2>11. /\ Moves /\ RowsSound' /\ TableOK'
    <3>1. UNCHANGED table
      BY <1>4 DEF world, table
    <3> QED
      BY <1>3, <2>10, <3>1, TableWritten
  <2>12. Carries(new)'
    BY <1>2, <1>4, <2>4, <2>6, <2>7 DEF Sound, Carries, Making, Looking
  <2>13. CopyRecent(new)' /\ Unobjected(new)' /\ Rightful(new)' /\ Unaware(new)'
    <3>1. q.copy.enabled => NotLongOff(q.id, Behind("got") + q.age)
      BY <1>2, <1>4, NoneAssumption DEF Sound, CopyRecent, Copying, Recent
    <3>2. UNCHANGED <<off, undone>>
      BY <1>4 DEF world, table
    <3> QED
      BY <1>4, <2>4, <2>6, <2>7, <3>1, <3>2
         DEF CopyRecent, Unobjected, Rightful, Unaware, Copying, NotLongOff, Behind
  <2>14. CopyEarned(new)'
    BY <1>2, <1>4, <2>2, <2>4, <2>6, <2>7, <2>8, <2>10, NoneAssumption DEF Sound, CopyEarned
  <2>15. Sound(new)'
    BY <2>12, <2>13, <2>14 DEF Sound
  <2>16. req' \in [Request -> UnderWay \cup {Idle}] /\ NewRequestsSound
    BY <1>2, <2>7, <2>15, BecomesSound
  <2>17. issued' \in [ids : SUBSET Id, secrets : 1..(MaxSecret + 1)]
    BY <1>2, <1>4 DEF TypeOK, world, table
  <2> QED
    BY <1>4, <2>10, <2>11, <2>16, <2>17, Written
<1> QED
  BY <1>1, <1>5, <1>6 DEF update_client_configuration

\* A row with a new secret, or none.
LEMMA Secrets ==
    ASSUME TypeOK, NEW i \in Id, NEW public \in BOOLEAN, public \/ issued.secrets <= MaxSecret,
           issued' = [ids |-> issued.ids \cup {i}, secrets |-> issued.secrets + IF public THEN 0 ELSE 1]
    PROVE  /\ (IF public THEN 0 ELSE issued.secrets) \in 0..MaxSecret
           /\ issued' \in [ids : SUBSET Id, secrets : 1..(MaxSecret + 1)]
<1>1. issued.ids \in SUBSET Id /\ issued.secrets \in 1..(MaxSecret + 1)
  BY DEF TypeOK
<1>2. PICK n : n = issued.secrets + IF public THEN 0 ELSE 1
  OBVIOUS
<1>3. n \in 1..(MaxSecret + 1) /\ (IF public THEN 0 ELSE issued.secrets) \in 0..MaxSecret
  BY <1>1, <1>2, BoundAssumption
<1> QED
  BY <1>1, <1>2, <1>3

\* A registration gives no more than the operator or a statement does.
LEMMA RegisterClientSound ==
    ASSUME RegistryInv, NEW r \in Request, NEW n \in Node, NEW i \in Id,
           NEW by \in {"operator", "self"}, NEW body \in Body, RegisterClient(r, n, i, by, body)
    PROVE  LeavesSound
<1>1. TypeOK /\ body.public \in BOOLEAN /\ body.ver \in 0..MaxVersion
  BY InputAssumption DEF RegistryInv, BodyRecord
<1>2. PICK m : m = IF by = "operator" THEN Operator(body) ELSE SelfAsserted(body)
  OBVIOUS
<1>3. PICK s, p, a, t, v : /\ s = (IF body.public THEN 0 ELSE issued.secrets) /\ p = m.priv
                           /\ a = (m.agent = TRUE) /\ t = m.actors /\ v = body.ver
  OBVIOUS
<1>4. PICK c : c = [NewClient EXCEPT !.secret = s, !.priv = p, !.agent = a, !.actors = t,
                                     !.token = TRUE, !.ver = v]
  OBVIOUS
<1>9. PICK g : g = IF by = "operator" THEN Privileges(c) ELSE Attested(body)
  OBVIOUS
<1>5. /\ i \notin Url /\ m.ok /\ SetRow(i, c, TRUE) /\ UNCHANGED <<l1, l2, docs, answer, revived>>
      /\ body.public \/ issued.secrets <= MaxSecret
      /\ issued' = [ids |-> issued.ids \cup {i}, secrets |-> issued.secrets + IF body.public THEN 0 ELSE 1]
      /\ granted' = [granted EXCEPT ![i] = granted[i] \cup g]
      /\ req' = [req EXCEPT ![r] = [pc |-> "keep", node |-> n, op |-> "register", id |-> i, arg |-> None,
                                    copy |-> c, age |-> 0, blind |-> FALSE]]
  BY <1>2, <1>3, <1>4, <1>9 DEF RegisterClient
<1>6. issued' \in [ids : SUBSET Id, secrets : 1..(MaxSecret + 1)] /\ s \in 0..MaxSecret
  BY <1>1, <1>3, <1>5, Secrets
<1>7. /\ p \in BOOLEAN /\ a \in BOOLEAN /\ t \in BOOLEAN /\ (p => by = "operator") /\ (t => by = "operator")
      /\ a => by = "operator" \/ "agent" \in Attested(body)
  <2>1. CASE by = "operator"
    BY <1>2, <1>3, <2>1, Asserted
  <2>2. CASE by # "operator"
    <3>1. m = SelfAsserted(body)
      BY <1>2, <2>2
    <3>2. (m.agent = TRUE) => m.agent # None
      BY NoneAssumption
    <3> QED
      BY <1>3, <1>5, <3>1, <3>2, Asserted
  <2> QED
    BY <2>1, <2>2
<1>8. c \in Row /\ c # None /\ c.priv = p /\ c.agent = a /\ c.actors = t
  <2>1. PICK w : w = NewClient
    OBVIOUS
  <2>2. w \in Row /\ c = [w EXCEPT !.secret = s, !.priv = p, !.agent = a, !.actors = t, !.token = TRUE, !.ver = v]
    BY <1>4, <2>1, NewRow
  <2>3. c \in Row /\ c.priv = p /\ c.agent = a /\ c.actors = t
    <3>1. s \in 0..MaxSecret /\ p \in BOOLEAN /\ a \in BOOLEAN /\ t \in BOOLEAN /\ v \in 0..MaxVersion
      BY <1>1, <1>3, <1>6, <1>7
    <3> QED
      BY <2>2, <3>1 DEF Row
  <2> QED
    BY <2>3, NoneAssumption
<1>10. g \in SUBSET Privilege
  BY <1>9, Asserted DEF Privileges
<1>11. granted'[i] = granted[i] \cup g
  BY <1>1, <1>10, <1>5, GrantsGrow
<1>12. /\ granted' \in [Id -> SUBSET Privilege] /\ \A j \in Id : granted[j] \subseteq granted'[j]
      /\ revived' \subseteq Id /\ revived \subseteq revived'
  BY <1>1, <1>10, <1>5, GrantsGrow DEF TypeOK
<1>13. Earned(i, c)'
  <2>1. CASE by = "operator"
    BY <1>9, <1>11, <2>1 DEF Earned, Privileges, Privilege
  <2>2. CASE by # "operator"
    <3>1. ~p /\ ~t /\ (a => "agent" \in g)
      BY <1>9, <1>7, <2>2
    <3> QED
      BY <1>8, <1>11, <3>1 DEF Earned
  <2> QED
    BY <2>1, <2>2
<1>14. /\ Moves /\ RowsSound' /\ TableOK'
  BY <1>5, <1>8, <1>12, <1>13, TableWritten
<1>15. PICK new : new = [pc |-> "keep", node |-> n, op |-> "register", id |-> i, arg |-> None,
                         copy |-> c, age |-> 0, blind |-> FALSE]
  OBVIOUS
<1>16. /\ new \in UnderWay /\ new.pc = "keep" /\ new.node = n /\ new.op = "register" /\ new.id = i
       /\ new.copy = c /\ new.age = 0
  BY <1>8, <1>15, BoundAssumption DEF UnderWay, Stage, Operation
<1>17. Becomes(r, new)
  BY <1>5, <1>15 DEF Becomes
<1>18. row'[i] = c /\ (c.enabled => off'[i] = None \/ undone'[i] # None)
  BY <1>1, <1>5, <1>8, SetRowFacts
<1>19. Carries(new)'
  BY <1>8, <1>16 DEF Carries, Making, Looking
<1>20. CopyRecent(new)'
  BY <1>8, <1>16, <1>18, NoneAssumption DEF CopyRecent, Recent, Held, NotLongOff
<1>21. Unobjected(new)' /\ Rightful(new)' /\ Unaware(new)'
  BY <1>16 DEF Unobjected, Rightful, Unaware
<1>22. CopyEarned(new)'
  BY <1>13, <1>16 DEF CopyEarned, Earned
<1>23. Sound(new)'
  BY <1>19, <1>20, <1>21, <1>22 DEF Sound
<1>24. req' \in [Request -> UnderWay \cup {Idle}] /\ NewRequestsSound
  BY <1>1, <1>16, <1>17, <1>23, BecomesSound
<1> QED
  BY <1>5, <1>6, <1>12, <1>14, <1>24, Written

\* An edit takes a copy of the row.
LEMMA ReadForEditSound ==
    ASSUME RegistryInv, NEW r \in Request, NEW i \in Id, NEW edit \in Edit, ReadForEdit(r, i, edit)
    PROVE  LeavesSound
<1>1. TypeOK /\ edit \in EditRecord /\ row[i] \in Row /\ Earned(i, row[i])
      /\ UNCHANGED <<world, l1, l2, docs, answer, hist>>
  BY InputAssumption DEF ReadForEdit, RegistryInv, TypeOK, RowsSound
<1>2. PICK k : k = row[i]
  OBVIOUS
<1>3. PICK on, p : on = (IF edit.enabled = None THEN k.enabled ELSE edit.enabled)
                   /\ p = (IF edit.priv = None THEN k.priv ELSE edit.priv)
  OBVIOUS
<1>4. on \in BOOLEAN /\ p \in BOOLEAN /\ (p => k.priv \/ edit.priv = TRUE)
  BY <1>1, <1>2, <1>3, Columns DEF EditRecord
<1>5. PICK c : c = [k EXCEPT !.enabled = on, !.priv = p]
  OBVIOUS
<1>6. c \in Row /\ c.priv = p /\ c.agent = k.agent /\ c.actors = k.actors /\ c.enabled = on
  BY <1>1, <1>2, <1>4, <1>5 DEF Row
<1>7. PICK new : new = [pc |-> "write", node |-> None, op |-> "edit", id |-> i, arg |-> edit, age |-> 0,
                        blind |-> FALSE, copy |-> c]
  OBVIOUS
<1>8. /\ new \in UnderWay /\ new.pc = "write" /\ new.op = "edit" /\ new.id = i /\ new.arg = edit /\ new.copy = c
  BY <1>6, <1>7, BoundAssumption DEF UnderWay, Stage, Operation
<1>9. Becomes(r, new)
  BY <1>2, <1>3, <1>5, <1>7 DEF ReadForEdit, Becomes
<1>10. Carries(new)
  BY <1>6, <1>8 DEF Carries, Making, Looking
<1>11. CopyRecent(new) /\ Unobjected(new) /\ Rightful(new)
  BY <1>8, <1>10 DEF CopyRecent, Unobjected, Rightful, Copying, Making
<1>13. Unaware(new)
  <2>1. row[i].enabled => off[i] = None \/ undone[i] # None
    BY <1>1 DEF RegistryInv, RowsSound, ReadForEdit
  <2> QED
    BY <1>2, <1>3, <1>6, <1>8, <2>1 DEF Unaware, NotLongOff
<1>12. CopyEarned(new)
  BY <1>1, <1>2, <1>4, <1>6, <1>8 DEF CopyEarned, Earned
<1> QED
  BY <1>1, <1>8, <1>9, <1>10, <1>11, <1>12, <1>13, Lone DEF Sound

\* Documents change without anyone being told.
LEMMA PublishSound ==
    ASSUME RegistryInv, NEW u \in Url, NEW d \in Document, PublishDocument(u, d)
    PROVE  LeavesSound
<1>1. TypeOK /\ UNCHANGED <<world, l1, l2, req, answer, hist>>
  BY DEF PublishDocument, RegistryInv
<1>2. docs' \in [Url -> Document]
  BY <1>1 DEF PublishDocument, TypeOK
<1>3. TypeOK'
  BY <1>1, <1>2 DEF TypeOK, world, hist, table
<1>4. Moves /\ RowsSound'
  BY <1>1, TableStill DEF world, table
<1> QED
  BY <1>1, <1>3, <1>4, RedisStill, MapStill, AnswerStill, RequestsStill DEF LeavesSound

\* An operator creates a client.
LEMMA CreateClientSound ==
    ASSUME RegistryInv, NEW i \in Id, NEW body \in Body, create_client(i, body)
    PROVE  LeavesSound
<1>1. TypeOK /\ body.public \in BOOLEAN /\ body.priv \in BOOLEAN
  BY InputAssumption DEF RegistryInv, BodyRecord
<1>2. PICK s, p : s = (IF body.public THEN 0 ELSE issued.secrets) /\ p = body.priv
  OBVIOUS
<1>3. PICK c : c = [NewClient EXCEPT !.secret = s, !.priv = p]
  OBVIOUS
<1>35. PICK g : g = IF p THEN {"priv"} ELSE {}
  OBVIOUS
<1>4. /\ SetRow(i, c, TRUE) /\ UNCHANGED <<l1, l2, docs, req, answer, revived>>
      /\ body.public \/ issued.secrets <= MaxSecret
      /\ issued' = [ids |-> issued.ids \cup {i}, secrets |-> issued.secrets + IF body.public THEN 0 ELSE 1]
      /\ granted' = [granted EXCEPT ![i] = granted[i] \cup g]
  BY <1>2, <1>3, <1>35 DEF create_client
<1>5. issued' \in [ids : SUBSET Id, secrets : 1..(MaxSecret + 1)] /\ s \in 0..MaxSecret
  BY <1>1, <1>2, <1>4, Secrets
<1>6. c \in Row /\ ~c.agent /\ ~c.actors /\ c.priv = p
  <2>1. PICK w : w = NewClient
    OBVIOUS
  <2>2. w \in Row /\ ~w.agent /\ ~w.actors /\ c = [w EXCEPT !.secret = s, !.priv = p]
    BY <1>3, <2>1, NewRow
  <2> QED
    BY <1>1, <1>2, <1>5, <2>2 DEF Row
<1>65. g \in SUBSET Privilege
  BY <1>35 DEF Privilege
<1>7. granted'[i] = granted[i] \cup g
  BY <1>1, <1>4, <1>65, GrantsGrow
<1>8. /\ granted' \in [Id -> SUBSET Privilege] /\ \A j \in Id : granted[j] \subseteq granted'[j]
      /\ revived' \subseteq Id /\ revived \subseteq revived'
  BY <1>1, <1>4, <1>65, GrantsGrow DEF TypeOK
<1>9. Earned(i, c)'
  BY <1>35, <1>6, <1>7 DEF Earned
<1>10. /\ Moves /\ RowsSound' /\ TableOK'
  BY <1>4, <1>6, <1>8, <1>9, TableWritten
<1> QED
  BY <1>1, <1>4, <1>5, <1>8, <1>10, Written, RequestsStill DEF TypeOK

\* An operator disables or enables a client.
LEMMA SetEnabledSound ==
    ASSUME RegistryInv, NEW i \in Id, NEW on \in BOOLEAN, set_client_enabled(i, on)
    PROVE  LeavesSound
<1>1. TypeOK /\ row[i] \in Row /\ row[i] # None /\ Earned(i, row[i])
  BY DEF RegistryInv, TypeOK, RowsSound, set_client_enabled
<1>2. PICK k : k = row[i]
  OBVIOUS
<1>3. PICK c : c = [k EXCEPT !.enabled = on]
  OBVIOUS
<1>4. SetRow(i, c, TRUE) /\ UNCHANGED <<l1, l2, docs, req, answer, hist>>
  BY <1>2, <1>3 DEF set_client_enabled, update_client
<1>5. issued' \in [ids : SUBSET Id, secrets : 1..(MaxSecret + 1)]
  BY <1>1 DEF TypeOK, set_client_enabled
<1>6. c \in Row /\ c.priv = k.priv /\ c.agent = k.agent /\ c.actors = k.actors
  BY <1>1, <1>2, <1>3, <1>5 DEF Row
<1>7. /\ granted' \in [Id -> SUBSET Privilege] /\ \A j \in Id : granted[j] \subseteq granted'[j]
      /\ revived' \subseteq Id /\ revived \subseteq revived'
  BY <1>1, <1>4, HistoryStill
<1>8. Earned(i, c)'
  BY <1>1, <1>2, <1>4, <1>6 DEF Earned, hist
<1>9. /\ Moves /\ RowsSound' /\ TableOK'
  BY <1>1, <1>2, <1>4, <1>6, <1>7, <1>8, TableWritten
<1> QED
  BY <1>1, <1>4, <1>5, <1>7, <1>9, Written, RequestsStill DEF TypeOK

\* An operator replaces the secret of a client.
LEMMA RegenerateSound ==
    ASSUME RegistryInv, NEW i \in Id, regenerate_client_secret(i)
    PROVE  LeavesSound
<1>1. TypeOK /\ row[i] \in Row /\ row[i] # None /\ Earned(i, row[i])
  BY DEF RegistryInv, TypeOK, RowsSound, regenerate_client_secret
<1>2. PICK k : k = row[i]
  OBVIOUS
<1>3. PICK c : c = [k EXCEPT !.secret = issued.secrets]
  OBVIOUS
<1>4. SetRow(i, c, FALSE) /\ UNCHANGED <<l1, l2, docs, req, answer, hist>>
  BY <1>2, <1>3 DEF regenerate_client_secret, update_client
<1>5. issued' \in [ids : SUBSET Id, secrets : 1..(MaxSecret + 1)] /\ issued.secrets \in 0..MaxSecret
  <2>1. PICK n : n = issued.secrets
    OBVIOUS
  <2>2. issued.ids \in SUBSET Id /\ n \in 1..(MaxSecret + 1) /\ n <= MaxSecret
    BY <1>1, <2>1 DEF TypeOK, regenerate_client_secret
  <2>3. n \in 0..MaxSecret /\ n + 1 \in 1..(MaxSecret + 1)
    BY <2>2, BoundAssumption
  <2>4. issued' = [issued EXCEPT !.secrets = n + 1]
    BY <2>1 DEF regenerate_client_secret
  <2> QED
    BY <1>1, <2>1, <2>3, <2>4 DEF TypeOK
<1>6. c \in Row /\ c.priv = k.priv /\ c.agent = k.agent /\ c.actors = k.actors /\ c.enabled = k.enabled
  BY <1>1, <1>2, <1>3, <1>5 DEF Row
<1>7. /\ granted' \in [Id -> SUBSET Privilege] /\ \A j \in Id : granted[j] \subseteq granted'[j]
      /\ revived' \subseteq Id /\ revived \subseteq revived'
  BY <1>1, <1>4, HistoryStill
<1>8. Earned(i, c)'
  BY <1>1, <1>2, <1>4, <1>6 DEF Earned, hist
<1>9. /\ Moves /\ RowsSound' /\ TableOK'
  <2>1. c.enabled => NotLongOff(i, Lag)
    BY <1>1, <1>2, <1>6 DEF RegistryInv, RowsSound, NotLongOff
  <2> QED
    BY <1>1, <1>2, <1>4, <1>6, <1>7, <1>8, <2>1, TableWritten
<1> QED
  BY <1>1, <1>4, <1>5, <1>7, <1>9, Written, RequestsStill DEF TypeOK

\* An operator deletes a client.
LEMMA AdminDeleteSound ==
    ASSUME RegistryInv, NEW i \in Id, AdminDelete(i)
    PROVE  LeavesSound
<1>1. TypeOK /\ SetRow(i, None, FALSE) /\ UNCHANGED <<issued, l1, l2, docs, req, answer, hist>>
  BY DEF RegistryInv, AdminDelete
<1>2. /\ granted' \in [Id -> SUBSET Privilege] /\ \A j \in Id : granted[j] \subseteq granted'[j]
      /\ revived' \subseteq Id /\ revived \subseteq revived'
  BY <1>1, HistoryStill
<1>3. /\ Moves /\ RowsSound' /\ TableOK'
  BY <1>1, <1>2, TableWritten
<1>4. issued' \in [ids : SUBSET Id, secrets : 1..(MaxSecret + 1)] /\ req' \in [Request -> UnderWay \cup {Idle}]
  BY <1>1 DEF TypeOK
<1> QED
  BY <1>1, <1>2, <1>3, <1>4, Written, RequestsStill

-----------------------------------------------------------------------------
(* Time passes *)

\* The histories, the caches and the requests, one tick later.
LEMMA TickFacts ==
    ASSUME TypeOK, Tick
    PROVE  /\ \A i \in Id, s \in 1..MaxSecret :
                 left'[i][s] = IF left[i][s] = None THEN None ELSE Older(left[i][s], Lag + 1)
           /\ \A i \in Id : off'[i] = IF off[i] = None THEN None ELSE Older(off[i], Lag + 1)
           /\ \A i \in Id : placed'[i] = IF placed[i] = None THEN None ELSE Older(placed[i], MaxLatency + 1)
           /\ \A n \in Node, i \in Id :
                 l1'[n][i] = IF l1[n][i] = None THEN None ELSE [l1[n][i] EXCEPT !.age = Older(@, TTL)]
           /\ \A i \in Id : l2'[i] = IF l2[i] = None THEN None ELSE [l2[i] EXCEPT !.age = Older(@, TTL)]
           /\ \A r \in Request : req'[r] = IF req[r] = Idle THEN Idle ELSE [req[r] EXCEPT !.age = @ + 1]
           /\ \A r \in Request : req[r] # Idle => req[r].age < MaxLatency
           /\ answer' = None /\ UNCHANGED <<row, undone, issued, docs, hist>>
BY DEF Tick

LEMMA OlderFacts ==
    ASSUME NEW t \in Nat, NEW limit \in Nat, t <= limit
    PROVE  /\ Older(t, limit) \in 0..limit /\ Older(t, limit) <= t + 1
           /\ Older(t, limit) < limit => Older(t, limit) = t + 1 /\ t < limit
BY DEF Older

LEMMA HistoryAges ==
    ASSUME TypeOK, Tick
    PROVE  /\ TableOK'
           /\ \A i \in Id, s \in 1..MaxSecret :
                 left[i][s] # None => /\ left[i][s] \in Nat /\ left'[i][s] \in Nat /\ left'[i][s] # None
                                      /\ left'[i][s] <= left[i][s] + 1
           /\ \A i \in Id : /\ off'[i] # None => /\ off[i] # None /\ off[i] \in Nat /\ off'[i] \in Nat
                                                 /\ off'[i] <= off[i] + 1
                            /\ off[i] = None => off'[i] = None
           /\ \A i \in Id : placed[i] # None =>
                 placed[i] \in Nat /\ placed'[i] \in Nat /\ placed'[i] # None /\ placed'[i] <= placed[i] + 1
<1>1. Lag \in Nat /\ None \notin Nat /\ MaxLatency \in Nat
  BY Bounds, NoneAssumption, BoundAssumption
<1>2. /\ left \in [Id -> [1..MaxSecret -> 0..(Lag + 1) \cup {None}]]
      /\ off \in [Id -> 0..(Lag + 1) \cup {None}] /\ placed \in [Id -> 0..(MaxLatency + 1) \cup {None}]
  BY DEF TypeOK
<1>3. PICK lim \in Nat : lim = Lag + 1
  BY <1>1
<1>4. ASSUME NEW i \in Id, NEW s \in 1..MaxSecret
      PROVE  /\ left'[i][s] \in 0..lim \cup {None}
             /\ left[i][s] # None => /\ left[i][s] \in Nat /\ left'[i][s] \in Nat /\ left'[i][s] # None
                                     /\ left'[i][s] <= left[i][s] + 1
  <2>1. PICK t : t = left[i][s]
    OBVIOUS
  <2>2. t \in 0..lim \cup {None}
    <3>1. left[i] \in [1..MaxSecret -> 0..(Lag + 1) \cup {None}]
      BY <1>2
    <3> QED
      BY <1>3, <2>1, <3>1
  <2>3. left'[i][s] = IF t = None THEN None ELSE Older(t, lim)
    BY <1>3, <2>1, TickFacts
  <2>4. t # None => t \in Nat /\ t <= lim /\ Older(t, lim) \in 0..lim /\ Older(t, lim) <= t + 1
    BY <1>3, <2>2, OlderFacts
  <2> QED
    BY <1>1, <1>3, <2>1, <2>3, <2>4
<1>5. ASSUME NEW i \in Id
      PROVE  /\ off'[i] \in 0..lim \cup {None}
             /\ off'[i] # None => /\ off[i] # None /\ off[i] \in Nat /\ off'[i] \in Nat
                                  /\ off'[i] <= off[i] + 1
             /\ off[i] = None => off'[i] = None
  <2>1. PICK t : t = off[i]
    OBVIOUS
  <2>2. t \in 0..lim \cup {None}
    BY <1>2, <1>3, <2>1
  <2>3. off'[i] = IF t = None THEN None ELSE Older(t, lim)
    BY <1>3, <2>1, TickFacts
  <2>4. t # None => t \in Nat /\ t <= lim /\ Older(t, lim) \in 0..lim /\ Older(t, lim) <= t + 1
    BY <1>3, <2>2, OlderFacts
  <2> QED
    BY <1>1, <1>3, <2>1, <2>3, <2>4
<1>6. ASSUME NEW i \in Id
      PROVE  /\ placed'[i] \in 0..(MaxLatency + 1) \cup {None}
             /\ placed[i] # None => /\ placed[i] \in Nat /\ placed'[i] \in Nat /\ placed'[i] # None
                                    /\ placed'[i] <= placed[i] + 1
  <2>1. PICK t, m : t = placed[i] /\ m = MaxLatency + 1
    OBVIOUS
  <2>2. t \in 0..m \cup {None} /\ m \in Nat
    BY <1>1, <1>2, <2>1
  <2>3. placed'[i] = IF t = None THEN None ELSE Older(t, m)
    BY <2>1, TickFacts
  <2>4. t # None => t \in Nat /\ t <= m /\ Older(t, m) \in 0..m /\ Older(t, m) <= t + 1
    BY <2>2, OlderFacts
  <2> QED
    BY <1>1, <2>1, <2>2, <2>3, <2>4
<1>7. TableOK'
  <2>1. /\ left' = [i \in Id |-> [s \in 1..MaxSecret |-> left'[i][s]]]
        /\ off' = [i \in Id |-> off'[i]] /\ placed' = [i \in Id |-> placed'[i]]
        /\ UNCHANGED <<row, undone>>
    BY DEF Tick
  <2>2. /\ left' \in [Id -> [1..MaxSecret -> 0..(Lag + 1) \cup {None}]]
        /\ off' \in [Id -> 0..(Lag + 1) \cup {None}] /\ placed' \in [Id -> 0..(MaxLatency + 1) \cup {None}]
    BY <1>3, <1>4, <1>5, <1>6, <2>1
  <2> QED
    BY <2>1, <2>2 DEF TypeOK, TableOK, Lag
<1> QED
  BY <1>3, <1>4, <1>5, <1>6, <1>7

\* What was recent is recent within a bound one larger.
LEMMA RecentAges ==
    ASSUME TypeOK, Tick, NEW i \in Id, NEW c \in Row, NEW b \in Nat, NEW d \in Nat, b + 1 <= d,
           Recent(i, c, b)
    PROVE  Recent(i, c, d)'
<1>1. c.secret # 0 => c.secret \in 1..MaxSecret
  BY Columns, BoundAssumption
<1>2. UNCHANGED <<row, undone, revived>>
  BY TickFacts DEF hist
<1>3. c.secret # 0 => (Held(i, c.secret, b) => Held(i, c.secret, d)')
  BY <1>1, <1>2, HistoryAges DEF Held
<1>4. NotLongOff(i, b) => NotLongOff(i, d)'
  BY <1>2, HistoryAges DEF NotLongOff
<1> QED
  BY <1>2, <1>3, <1>4 DEF Recent

\* An entry of a cache, one tick later.
LEMMA EntryAges ==
    ASSUME NEW e \in Entry, NEW f, f = [e EXCEPT !.age = Older(@, TTL)]
    PROVE  f \in Entry /\ f.row = e.row /\ e.row \in Row /\ e.age \in Nat /\ f.age \in Nat
           /\ (f.age < TTL => e.age < TTL /\ f.age = e.age + 1)
<1>1. e.age \in 0..TTL /\ e.row \in Row /\ f.row = e.row /\ f.age = Older(e.age, TTL)
  BY DEF Entry
<1>2. Older(e.age, TTL) \in 0..TTL /\ (Older(e.age, TTL) < TTL => Older(e.age, TTL) = e.age + 1 /\ e.age < TTL)
  BY <1>1, BoundAssumption, OlderFacts
<1>3. f \in Entry
  BY <1>1, <1>2 DEF Entry
<1> QED
  BY <1>1, <1>2, <1>3, BoundAssumption

\* A request, one tick later.
LEMMA RequestAges ==
    ASSUME RegistryInv, Tick, NEW r \in Request, req[r].pc # "idle"
    PROVE  req'[r] \in UnderWay /\ Sound(req[r])'
<1>1. PICK q : q = req[r]
  OBVIOUS
<1>2. q \in UnderWay /\ Sound(q) /\ TypeOK /\ q # Idle
  BY <1>1, AtWork DEF RegistryInv, Idle
<1>3. PICK p : p = [q EXCEPT !.age = @ + 1]
  OBVIOUS
<1>4. req'[r] = p /\ q.age < MaxLatency
  BY <1>1, <1>2, <1>3, TickFacts
<1>5. /\ q.pc \in Stage /\ q.id \in Id /\ q.copy \in Row \cup {None} /\ q.age \in Nat
  BY <1>2, Fields
<1>6. q.age + 1 \in 0..MaxLatency
  BY <1>4, <1>5, BoundAssumption
<1>7. /\ p \in UnderWay /\ p.pc = q.pc /\ p.node = q.node /\ p.op = q.op /\ p.id = q.id /\ p.arg = q.arg
      /\ p.copy = q.copy /\ p.blind = q.blind /\ p.age = q.age + 1
  BY <1>2, <1>3, <1>6 DEF UnderWay
<1>8. UNCHANGED <<row, undone, granted, revived>>
  BY <1>2, TickFacts DEF hist
<1>9. Carries(p)'
  BY <1>2, <1>7 DEF Sound, Carries
<1>10. CopyRecent(p)'
  <2> SUFFICES ASSUME q.pc \in Copying, q.copy # None
               PROVE  Recent(q.id, q.copy, Behind(q.pc) + p.age)'
    BY <1>7 DEF CopyRecent
  <2>1. Recent(q.id, q.copy, Behind(q.pc) + q.age)
    BY <1>2 DEF Sound, CopyRecent
  <2>2. /\ Behind(q.pc) + q.age \in Nat /\ Behind(q.pc) + p.age \in Nat
        /\ Behind(q.pc) + q.age + 1 <= Behind(q.pc) + p.age
    BY <1>5, <1>7, Bounds
  <2> QED
    BY <1>2, <1>5, <2>1, <2>2, RecentAges
<1>11. Unobjected(p)' /\ Unaware(p)'
  <2>1. NotLongOff(q.id, Behind("got") + q.age) => NotLongOff(q.id, Behind("got") + p.age)'
    <3>1. PICK b, d : b = Behind("got") + q.age /\ d = Behind("got") + p.age
      OBVIOUS
    <3>2. b \in Nat /\ d = b + 1
      BY <1>5, <1>7, <3>1, Bounds, BoundAssumption
    <3>3. NotLongOff(q.id, b) => NotLongOff(q.id, d)'
      BY <1>2, <1>5, <1>8, <3>2, HistoryAges DEF NotLongOff
    <3> QED
      BY <3>1, <3>3
  <2> QED
    BY <1>2, <1>7, <2>1 DEF Sound, Unobjected, Unaware
<1>12. CopyEarned(p)' /\ Rightful(p)'
  BY <1>2, <1>5, <1>7, <1>8, HistoryAges DEF Sound, CopyEarned, Rightful
<1>13. Sound(p)'
  BY <1>9, <1>10, <1>11, <1>12 DEF Sound
<1>14. Sound(req[r])'
  BY <1>4, <1>13 DEF Sound, Carries, CopyRecent, Unobjected, CopyEarned, Rightful, Unaware, Recent, Held, NotLongOff, Behind
<1> QED
  BY <1>4, <1>7, <1>14

LEMMA TickSound ==
    ASSUME RegistryInv, Tick
    PROVE  RegistryInv'
<1>1. TypeOK /\ UNCHANGED <<row, undone, issued, docs, granted, revived>> /\ answer' = None
  BY TickFacts DEF RegistryInv, hist
<1>2. ASSUME NEW i \in Id, l2'[i] # None
      PROVE  l2'[i] \in Entry /\ SoundInRedis(i, l2[i])'
  <2>1. PICK e, f : e = l2[i] /\ f = l2'[i]
    OBVIOUS
  <2>2. e # None /\ e \in Entry /\ f = [e EXCEPT !.age = Older(@, TTL)]
    BY ZenonT(20), <1>1, <1>2, <2>1, TickFacts DEF TypeOK
  <2>3. f \in Entry /\ f.row = e.row /\ e.row \in Row /\ e.age \in Nat /\ f.age \in Nat
        /\ (f.age < TTL => e.age < TTL /\ f.age = e.age + 1)
    BY <2>2, EntryAges
  <2>4. SoundInRedis(i, e)
    BY <2>1, <2>2 DEF RegistryInv, RedisSound
  <2>5. Earned(i, f.row)'
    BY <1>1, <2>3, <2>4 DEF SoundInRedis, Earned
  <2>6. ASSUME f.age < TTL PROVE Recent(i, f.row, MaxLatency + f.age)'
    <3>1. Recent(i, f.row, MaxLatency + e.age)
      BY <2>3, <2>4, <2>6 DEF SoundInRedis
    <3>2. MaxLatency + e.age \in Nat /\ MaxLatency + f.age \in Nat /\ MaxLatency + e.age + 1 <= MaxLatency + f.age
      BY <2>3, <2>6, BoundAssumption
    <3> QED
      BY <1>1, <2>3, <3>1, <3>2, RecentAges
  <2>7. SoundInRedis(i, f)'
    BY <2>5, <2>6 DEF SoundInRedis
  <2> QED
    BY <2>1, <2>3, <2>7 DEF SoundInRedis, Earned, Recent, Held, NotLongOff
<1>3. ASSUME NEW n \in Node, NEW i \in Id, l1'[n][i] # None
      PROVE  l1'[n][i] \in Entry /\ SoundInMap(i, l1[n][i])'
  <2>1. PICK e, f : e = l1[n][i] /\ f = l1'[n][i]
    OBVIOUS
  <2>2. e # None /\ e \in Entry /\ f = [e EXCEPT !.age = Older(@, TTL)]
    <3>1. e \in Entry \cup {None}
      BY <1>1, <2>1 DEF TypeOK
    <3>2. f = IF e = None THEN None ELSE [e EXCEPT !.age = Older(@, TTL)]
      BY <1>1, <2>1, TickFacts
    <3> QED
      BY <1>3, <2>1, <3>1, <3>2
  <2>3. f \in Entry /\ f.row = e.row /\ e.row \in Row /\ e.age \in Nat /\ f.age \in Nat
        /\ (f.age < TTL => e.age < TTL /\ f.age = e.age + 1)
    BY <2>2, EntryAges
  <2>4. SoundInMap(i, e)
    BY <2>1, <2>2 DEF RegistryInv, MapSound
  <2>5. Earned(i, f.row)'
    BY <1>1, <2>3, <2>4 DEF SoundInMap, Earned
  <2>6. ASSUME f.age < TTL PROVE Recent(i, f.row, 2 * MaxLatency + TTL + f.age)'
    <3>1. Recent(i, f.row, 2 * MaxLatency + TTL + e.age)
      BY <2>3, <2>4, <2>6 DEF SoundInMap
    <3>2. /\ 2 * MaxLatency + TTL + e.age \in Nat /\ 2 * MaxLatency + TTL + f.age \in Nat
          /\ 2 * MaxLatency + TTL + e.age + 1 <= 2 * MaxLatency + TTL + f.age
      BY <2>3, <2>6, BoundAssumption
    <3> QED
      BY <1>1, <2>3, <3>1, <3>2, RecentAges
  <2>7. SoundInMap(i, f)'
    BY <2>5, <2>6 DEF SoundInMap
  <2> QED
    BY <2>1, <2>3, <2>7 DEF SoundInMap, Earned, Recent, Held, NotLongOff
<1>4. \A r \in Request : req'[r] \in UnderWay \cup {Idle} /\ (req'[r].pc # "idle" => Sound(req[r])')
  <2> TAKE r \in Request
  <2>1. CASE req[r] = Idle
    <3>1. req'[r] = Idle
      BY <1>1, <2>1, TickFacts
    <3>2. Idle.pc = "idle"
      BY DEF Idle
    <3> QED
      BY <3>1, <3>2
  <2>2. CASE req[r] # Idle
    <3>1. req[r].pc # "idle"
      BY <1>1, <2>2, Fields DEF TypeOK
    <3> QED
      BY <3>1, RequestAges
  <2> QED
    BY <2>1, <2>2
<1>5. TypeOK'
  <2>1. l1' \in [Node -> [Id -> Entry \cup {None}]]
    BY <1>3 DEF Tick
  <2>2. l2' \in [Id -> Entry \cup {None}]
    BY <1>2 DEF Tick
  <2>3. req' \in [Request -> UnderWay \cup {Idle}]
    BY <1>4 DEF Tick
  <2> QED
    BY <1>1, <2>1, <2>2, <2>3, HistoryAges DEF TypeOK, TableOK, Lag
<1>6. RowsSound'
  BY <1>1, HistoryAges DEF RegistryInv, RowsSound, Earned, Lag
<1>7. RequestsSound' /\ RedisSound' /\ MapSound' /\ AnswerDue'
  BY <1>1, <1>2, <1>3, <1>4 DEF RequestsSound, RedisSound, MapSound, AnswerDue
<1> QED
  BY <1>5, <1>6, <1>7 DEF RegistryInv

-----------------------------------------------------------------------------
(* The invariant holds initially and every step keeps it *)

LEMMA InitSound == Init => RegistryInv
<1> SUFFICES ASSUME Init PROVE RegistryInv
  OBVIOUS
<1>1. row \in [Id -> Row \cup {None}] /\ Lag \in Nat
  BY InputAssumption, Bounds DEF Init
<1>2. issued \in [ids : SUBSET Id, secrets : 1..(MaxSecret + 1)]
  <2>1. 1 \in 1..(MaxSecret + 1)
    BY BoundAssumption
  <2> QED
    BY <2>1 DEF Init
<1>3. docs \in [Url -> Document]
  <2>1. [ver |-> 0, priv |-> FALSE] \in Document
    BY BoundAssumption DEF Document
  <2> QED
    BY <2>1 DEF Init
<1>4. /\ off \in [Id -> 0..(Lag + 1) \cup {None}] /\ left \in [Id -> [1..MaxSecret -> 0..(Lag + 1) \cup {None}]]
      /\ undone \in [Id -> 0..(Lag + 1) \cup {None}] /\ placed \in [Id -> 0..(MaxLatency + 1) \cup {None}]
  BY <1>1 DEF Init
<1>5. granted \in [Id -> SUBSET Privilege]
  BY DEF Init, Privileges
<1>6. TypeOK
  BY <1>1, <1>2, <1>3, <1>4, <1>5 DEF Init, TypeOK
<1>7. RowsSound
  <2>1. \A i \in Id : (row[i] = None \/ row[i].enabled => off[i] = None) /\ undone[i] = None
    BY DEF Init
  <2>2. ASSUME NEW i \in Id, row[i] # None PROVE Earned(i, row[i])
    <3>1. granted[i] = Privileges(row[i])
      BY <2>2 DEF Init
    <3> QED
      BY <3>1 DEF Earned, Privileges, Privilege
  <2> QED
    BY <2>1, <2>2 DEF RowsSound
<1>8. RequestsSound /\ RedisSound /\ MapSound /\ AnswerDue
  BY DEF Init, RequestsSound, RedisSound, MapSound, AnswerDue, Idle
<1> QED
  BY <1>6, <1>7, <1>8 DEF RegistryInv

LEMMA StepSound ==
    ASSUME RegistryInv, NEW r \in Request, Step(r)
    PROVE  LeavesSound
BY LookSound, ReadRedisSound, GetClientSound, ReadFailsSound, WriteRedisSound, CacheClientSound,
   ValidateClientSound, UseRegisteredSound, UseUrlSound, MaterializeSound, LookupSound, RewriteSound,
   CountSound, SaveDocumentSound, AdoptSound, KeepDocumentSound, PutSound, UpdateClientSound,
   KeepRegisteredSound, DeleteClientSound, DeletedSound, WriteEditSound
   DEF Step

LEMMA ArriveSound ==
    ASSUME RegistryInv, NEW r \in Request, Arrive(r)
    PROVE  LeavesSound
BY BeginSecretSound, ResolveSound, BeginPutSound, BeginDropSound, RegisterClientSound, ReadForEditSound
   DEF Arrive

LEMMA NextSound == RegistryInv /\ [Next]_vars => RegistryInv'
<1> SUFFICES ASSUME RegistryInv, [Next]_vars PROVE RegistryInv'
  OBVIOUS
<1>1. CASE Tick
  BY <1>1, TickSound
<1>2. ASSUME NEW r \in Request, Step(r) PROVE RegistryInv'
  BY <1>2, StepSound, Assembly
<1>3. ASSUME NEW r \in Request, Arrive(r) PROVE RegistryInv'
  BY <1>3, ArriveSound, Assembly
<1>4. ASSUME NEW u \in Url, NEW d \in Document, PublishDocument(u, d) PROVE RegistryInv'
  BY <1>4, PublishSound, Assembly
<1>5. ASSUME NEW i \in Id,
             \/ \E on \in BOOLEAN : set_client_enabled(i, on)
             \/ regenerate_client_secret(i)
             \/ AdminDelete(i)
             \/ \E body \in Body : create_client(i, body)
      PROVE  RegistryInv'
  BY <1>5, SetEnabledSound, RegenerateSound, AdminDeleteSound, CreateClientSound, Assembly
<1>6. CASE UNCHANGED vars
  <2>1. UNCHANGED <<world, l1, l2, docs, answer, hist>> /\ UNCHANGED req
    BY <1>6 DEF vars
  <2>2. LeavesSound
    BY <2>1, Quiet, RequestsStill, MapStill, AnswerStill DEF RegistryInv, TypeOK
  <2> QED
    BY <2>2, Assembly
<1> QED
  BY <1>1, <1>2, <1>3, <1>4, <1>5, <1>6 DEF Next

-----------------------------------------------------------------------------
(* Theorems *)

\* The table, the caches, the requests under way and the answers keep their
\* shape, and ages, secrets and versions their bounds, through every operation of
\* client_actor.rs and the admin API.
THEOREM TypeCorrect == Spec => []TypeOK
<1>1. RegistryInv => TypeOK
  BY DEF RegistryInv
<1> QED
  BY <1>1, InitSound, NextSound, PTL DEF Spec

\* A secret that was replaced or whose client was deleted, and a document's
\* client that was disabled, outlive the change by no more than Lag, whatever
\* the caches hold and whichever requests interleave (get_cached_client,
\* ReadRedis, CacheClient, resolve_client).
THEOREM StaleCopies == Spec => []StaleCopiesDie
<1>1. RegistryInv => StaleCopiesDie
  BY DEF RegistryInv, RowsSound, AnswerDue, Due, Held, NotLongOff, StaleCopiesDie, SecretDiesInTime, DisabledStaysOut
<1> QED
  BY <1>1, InitSound, NextSound, PTL DEF Spec

\* No client gives itself a privileged scope or the status of an agent, in
\* however many registrations, updates and edits, through whichever stale copy
\* (validate_registration, apply_software_statement, update_client).
THEOREM SelfGranted == Spec => []NothingSelfGranted
<1>1. RegistryInv => NothingSelfGranted
  BY DEF RegistryInv, RowsSound, Earned, NothingSelfGranted, Privileges
<1> QED
  BY <1>1, InitSound, NextSound, PTL DEF Spec

-----------------------------------------------------------------------------
(* No document takes over a row that it did not make *)

\* What a step of request r may do to the row it is about.
LeavesRow(r) ==
    LET u == req[r].id
    IN (req[r].op = "use" /\ req'[r] # req[r] /\ row[u] # None /\ ~row[u].managed) =>
          row'[u] = row[u] \/ (placed[u] # None /\ placed[u] <= MaxLatency)

\* A request that becomes another writes the table only with the documents'
\* steps, or with a step that is not for a document.
LEMMA StepLeaves ==
    ASSUME RegistryInv, NEW r \in Request, Step(r)
    PROVE  LeavesRow(r)
<1>1. TypeOK /\ Idle.op # "use"
  BY NoneAssumption DEF RegistryInv, Idle, Operation
<1>2. CASE Rewrite(r)
  <2>1. PICK q : q = req[r]
    OBVIOUS
  <2>2. q \in UnderWay /\ Sound(q) /\ q.pc = "rewrite"
    BY <1>2, <2>1, AtWork DEF Rewrite
  <2>3. q.id \in Id /\ q.age \in Nat /\ q.age <= MaxLatency
    BY <2>2, Fields
  <2>4. row[q.id] # None /\ ~row[q.id].managed => placed[q.id] # None /\ placed[q.id] <= q.age
    BY <2>2 DEF Sound, Rightful
  <2>5. placed[q.id] \in 0..(MaxLatency + 1) \cup {None}
    BY <1>1, <2>3 DEF TypeOK
  <2>6. placed[q.id] # None /\ placed[q.id] <= q.age => placed[q.id] <= MaxLatency
    BY <2>3, <2>5, BoundAssumption
  <2> QED
    BY <2>1, <2>4, <2>6 DEF LeavesRow
<1>3. CASE SaveDocument(r)
  BY <1>3 DEF SaveDocument, LeavesRow, world, table
<1>4. CASE UpdateClient(r) \/ WriteEdit(r) \/ delete_client(r)
  BY <1>4 DEF UpdateClient, WriteEdit, delete_client, Is, LeavesRow
<1>5. Rewrite(r) \/ SaveDocument(r) \/ UpdateClient(r) \/ WriteEdit(r) \/ delete_client(r) \/ UNCHANGED row
  BY DEF Step, get_cached_client, ReadRedis, get_client, ReadFails, WriteRedis, CacheClient, ValidateClient,
         UseRegistered, UseUrl, MaterializeCimdClient, Lookup, count_cimd_clients, Adopt, KeepDocument,
         update_client_configuration, KeepRegistered, DeleteClient, world, table
<1>6. CASE UNCHANGED row
  BY <1>6 DEF LeavesRow
<1> QED
  BY <1>2, <1>3, <1>4, <1>5, <1>6

\* A request that arrives was none before.
LEMMA ArriveLeaves ==
    ASSUME NEW r \in Request, Arrive(r)
    PROVE  LeavesRow(r)
<1>1. req[r] = Idle
  <2>1. ASSUME NEW n, NEW i, NEW by, NEW body, RegisterClient(r, n, i, by, body) PROVE req[r] = Idle
    BY <2>1, Zenon DEF RegisterClient
  <2>2. ASSUME NEW n, NEW i, NEW x,
               \/ BeginSecret(r, n, i, x) \/ resolve_client(r, n, i) \/ BeginPut(r, n, i, x)
               \/ BeginDrop(r, n, i) \/ ReadForEdit(r, i, x)
        PROVE  req[r] = Idle
    BY <2>2, Zenon DEF BeginSecret, resolve_client, BeginPut, BeginDrop, ReadForEdit
  <2> QED
    BY <2>1, <2>2, Zenon DEF Arrive
<1>2. Idle.op # "use"
  BY NoneAssumption DEF Idle, Operation
<1> QED
  BY <1>1, <1>2 DEF LeavesRow

\* A step of r leaves the others where they are.
LEMMA OthersStay ==
    ASSUME RegistryInv, NEW r \in Request, Step(r) \/ Arrive(r), NEW s \in Request, s # r
    PROVE  req'[s] = req[s]
<1>1. req \in [Request -> UnderWay \cup {Idle}]
  BY DEF RegistryInv, TypeOK
<1>2. \A pc, c : Goto(r, pc) \/ Hold(r, c, pc) \/ Done(r) => req'[s] = req[s]
  BY <1>1 DEF Goto, Hold, Done
<1>3. ASSUME Arrive(r) PROVE req'[s] = req[s]
  <2>1. ASSUME NEW new, req' = [req EXCEPT ![r] = new] PROVE req'[s] = req[s]
    BY <1>1, <2>1
  <2>2. ASSUME NEW n, NEW i, NEW by, NEW body, RegisterClient(r, n, i, by, body) PROVE req'[s] = req[s]
    BY <2>1, <2>2, Zenon DEF RegisterClient
  <2>3. ASSUME NEW n, NEW i, NEW x,
               \/ BeginSecret(r, n, i, x) \/ resolve_client(r, n, i) \/ BeginPut(r, n, i, x)
               \/ BeginDrop(r, n, i) \/ ReadForEdit(r, i, x)
        PROVE  req'[s] = req[s]
    BY <2>1, <2>3, Zenon DEF BeginSecret, resolve_client, BeginPut, BeginDrop, ReadForEdit
  <2> QED
    BY <1>3, <2>2, <2>3, Zenon DEF Arrive
<1>4. ASSUME ReadFails(r) PROVE req'[s] = req[s]
  BY <1>1, <1>2, <1>4 DEF ReadFails
<1>5. ASSUME Step(r), ~ReadFails(r) PROVE req'[s] = req[s]
  BY <1>2, <1>5 DEF Step, get_cached_client, ReadRedis, get_client, WriteRedis, CacheClient, ValidateClient,
         UseRegistered, UseUrl, MaterializeCimdClient, Lookup, Rewrite, count_cimd_clients, SaveDocument, Adopt,
         KeepDocument, update_client_configuration, UpdateClient, KeepRegistered, DeleteClient, delete_client,
         WriteEdit
<1> QED
  BY <1>3, <1>4, <1>5

\* No request for a document changes a row that no document made, whoever put it
\* there, unless it took the place of a document's after the request had looked,
\* no longer than MaxLatency ago (MaterializeCimdClient).
THEOREM Takeover == Spec => NoTakeover
<1>1. RegistryInv /\ [Next]_vars => [\A r \in Request : LeavesRow(r)]_vars
  <2> SUFFICES ASSUME RegistryInv, Next, NEW r \in Request PROVE LeavesRow(r)
    OBVIOUS
  <2>1. CASE Tick
    BY <2>1 DEF Tick, LeavesRow
  <2>2. CASE UNCHANGED req
    BY <2>2 DEF LeavesRow
  <2>3. ASSUME NEW s \in Request, Step(s) \/ Arrive(s) PROVE LeavesRow(r)
    <3>1. CASE s = r
      BY <2>3, <3>1, StepLeaves, ArriveLeaves
    <3>2. CASE s # r
      <4>1. req'[r] = req[r]
        BY <2>3, <3>2, OthersStay
      <4> QED
        BY <4>1 DEF LeavesRow
    <3> QED
      BY <3>1, <3>2
  <2> QED
    BY <2>1, <2>2, <2>3 DEF Next, PublishDocument, set_client_enabled, regenerate_client_secret,
       AdminDelete, create_client
<1>2. [\A r \in Request : LeavesRow(r)]_vars =>
        [\A r \in Request :
           LET u == req[r].id
           IN (req[r].op = "use" /\ req'[r] # req[r] /\ row[u] # None /\ ~row[u].managed) =>
                 row'[u] = row[u] \/ (placed[u] # None /\ placed[u] <= MaxLatency)]_vars
  BY DEF LeavesRow
<1> QED
  BY <1>1, <1>2, InitSound, NextSound, PTL DEF Spec, NoTakeover

-----------------------------------------------------------------------------
(* AuthorizeRequest *)

\* What is edited stays a request.
RequestTypeOK == authReq \in AuthorizationRequest

\* A request put together anew, and every edit of one, has all its fields.
LEMMA RequestTypeStep == RequestTypeOK /\ [AuthorizeNext]_authVars => RequestTypeOK'
<1> SUFFICES ASSUME RequestTypeOK, [AuthorizeNext]_authVars PROVE RequestTypeOK'
  OBVIOUS
<1> USE DEF RequestTypeOK, AuthorizationRequest
<1>1. ASSUME NEW p \in Param, NEW v \in Value(p) \cup {Absent},
             EditQuery(p, v) \/ EditPushed(p, v) \/ EditClaims(p, v)
      PROVE  RequestTypeOK'
  <2>1. v \in Text
    BY Zenon DEF Text
  <2>2. /\ [authReq.query EXCEPT ![p] = v] \in [Param -> Text] /\ [authReq.pushed EXCEPT ![p] = v] \in [Param -> Text]
        /\ [authReq.claims EXCEPT ![p] = v] \in [Param -> Text]
    BY <2>1
  <2> QED  BY <1>1, <2>2 DEF EditQuery, EditPushed, EditClaims
<1>2. CASE EditResolution
  <2>1. \A f \in {"known", "codeGrant", "requireState"}, b \in BOOLEAN :
           [authReq.client EXCEPT ![f] = b] \in ClientRecord
    BY DEF ClientRecord
  <2>2. ASSUME NEW c \in ClientRecord, authReq' = [authReq EXCEPT !.client = c] PROVE RequestTypeOK'
    BY <2>2
  <2>3. ASSUME NEW b \in BOOLEAN,
               authReq' = [authReq EXCEPT !.twice = b] \/ authReq' = [authReq EXCEPT !.obo = b]
        PROVE  RequestTypeOK'
    BY <2>3
  <2>4. ASSUME \/ \E par \in {"unknown", "foreign"} : authReq' = [authReq EXCEPT !.par = par]
               \/ authReq' = [authReq EXCEPT !.sig = "invalid"]
               \/ authReq' = [authReq EXCEPT !.session = "old"]
        PROVE  RequestTypeOK'
    BY <2>4
  <2>5. \/ \E c \in ClientRecord : authReq' = [authReq EXCEPT !.client = c]
        \/ \E b \in BOOLEAN : authReq' = [authReq EXCEPT !.twice = b] \/ authReq' = [authReq EXCEPT !.obo = b]
        \/ \E par \in {"unknown", "foreign"} : authReq' = [authReq EXCEPT !.par = par]
        \/ authReq' = [authReq EXCEPT !.sig = "invalid"]
        \/ authReq' = [authReq EXCEPT !.session = "old"]
    BY <1>2, <2>1 DEF EditResolution
  <2> QED  BY <2>2, <2>3, <2>4, <2>5
<1>3. CASE UNCHANGED authVars
  BY <1>3 DEF authVars
<1> QED  BY <1>1, <1>2, <1>3 DEF AuthorizeNext

\* A request starts with all its fields.
LEMMA RequestTypeInit == AuthorizeInit => RequestTypeOK
<1> SUFFICES ASSUME AuthorizeInit PROVE RequestTypeOK
  OBVIOUS
<1>1. NoParams \in [Param -> Text]
  <2>1. Absent \in Text
    BY Zenon DEF Text
  <2> QED  BY <2>1 DEF NoParams
<1>2. PICK c \in Client, par \in {"none", "ours"}, session \in {"none", "new"},
           obj \in {<<"none", "empty">>, <<"alg_none", "empty">>, <<"HS256", "valid">>, <<"RS256", "valid">>} :
        authReq = [client |-> c, twice |-> FALSE, par |-> par, jar |-> obj[1], sig |-> obj[2],
                   session |-> session, obo |-> TRUE,
                   query |-> Base, pushed |-> BasePushed, claims |-> NoParams]
  BY DEF AuthorizeInit
<1>3. obj[1] \in {"none", "alg_none", "HS256", "RS256"} /\ obj[2] \in {"empty", "valid", "invalid"}
  OBVIOUS
<1>4. c \in ClientRecord /\ Base \in [Param -> Text] /\ BasePushed \in [Param -> Text]
  BY ParameterAssumption
<1> QED  BY <1>1, <1>2, <1>3, <1>4 DEF RequestTypeOK, AuthorizationRequest

-----------------------------------------------------------------------------
(* Redirects *)

\* Among the first ten of some numbers there is a least one.
LEMMA LeastOfTen ==
    ASSUME NEW F \in SUBSET (Nat \ {0}), 10 \in F
    PROVE  \E i \in F : i <= 10 /\ \A j \in F : i <= j
<1>1. CASE 1 \in F  BY <1>1
<1>2. CASE 1 \notin F /\ 2 \in F  BY <1>2
<1>3. CASE 1 \notin F /\ 2 \notin F /\ 3 \in F  BY <1>3
<1>4. CASE (\A n \in 1..3 : n \notin F) /\ 4 \in F  BY <1>4
<1>5. CASE (\A n \in 1..4 : n \notin F) /\ 5 \in F  BY <1>5
<1>6. CASE (\A n \in 1..5 : n \notin F) /\ 6 \in F  BY <1>6
<1>7. CASE (\A n \in 1..6 : n \notin F) /\ 7 \in F  BY <1>7
<1>8. CASE (\A n \in 1..7 : n \notin F) /\ 8 \in F  BY <1>8
<1>9. CASE (\A n \in 1..8 : n \notin F) /\ 9 \in F  BY <1>9
<1>10. CASE \A n \in 1..9 : n \notin F  BY <1>10
<1> QED  BY <1>1, <1>2, <1>3, <1>4, <1>5, <1>6, <1>7, <1>8, <1>9, <1>10

Checks(r) == ResolutionChecks(r) \o ParameterChecks(r) \o LoginGate(r) \o GrantChecks(r)

\* Appending keeps what is there.
LEMMA LongerKeeps ==
    ASSUME NEW S, NEW a \in Seq(S), NEW b \in Seq(S)
    PROVE  \A i \in 1..Len(a) : (a \o b)[i] = a[i]
<1>1. Len(a) \in Nat /\ Len(b) \in Nat
  BY LenProperties
<1>2. \A i \in 1..Len(a) + Len(b) : (a \o b)[i] = IF i <= Len(a) THEN a[i] ELSE b[i - Len(a)]
  BY ConcatProperties
<1> QED  BY <1>1, <1>2

\* The first ten checks are those up to the redirect URI: the tenth fails for an
\* unregistered one, and all ten are answered directly.
LEMMA FirstTen ==
    ASSUME NEW r
    PROVE  /\ DOMAIN Checks(r) = 1..21
           /\ \A i \in 1..10 : Checks(r)[i] = ResolutionChecks(r)[i] /\ ResolutionChecks(r)[i].channel = "direct"
           /\ ResolutionChecks(r)[10].fails = ~Registered(Overlay(r)["redirect_uri"])
<1>1. Len(ResolutionChecks(r)) = 10 /\ Len(ParameterChecks(r)) = 8 /\ Len(LoginGate(r)) = 1 /\ Len(GrantChecks(r)) = 2
  BY DEF ResolutionChecks, ParameterChecks, LoginGate, GrantChecks
<1>2. /\ \A i \in 1..10 : ResolutionChecks(r)[i].channel = "direct"
      /\ ResolutionChecks(r)[10].fails = ~Registered(Overlay(r)["redirect_uri"])
  BY DEF ResolutionChecks, Check
<1> DEFINE one == ResolutionChecks(r)
           two == ParameterChecks(r)
           three == LoginGate(r)
           four == GrantChecks(r)
           S == {one[i] : i \in 1..10} \cup {two[i] : i \in 1..8} \cup {three[1]} \cup {four[1], four[2]}
<1>3. \A a, b, c, d, e, f, g, h, j, k : <<a, b, c, d, e, f, g, h, j, k>> = [i \in 1..10 |-> <<a, b, c, d, e, f, g, h, j, k>>[i]]
  OBVIOUS
<1>4. one = [i \in 1..10 |-> one[i]]
  BY <1>3 DEF ResolutionChecks
<1>5. two = [i \in 1..8 |-> two[i]]
  BY DEF ParameterChecks
<1>6. three = [i \in 1..1 |-> three[i]] /\ four = [i \in 1..2 |-> four[i]]
  BY DEF LoginGate, GrantChecks
<1> HIDE DEF one, two, three, four
<1>7. one \in Seq(S) /\ two \in Seq(S) /\ three \in Seq(S) /\ four \in Seq(S)
  <2>1. one \in [1..10 -> S]
    BY <1>4
  <2>2. two \in [1..8 -> S]
    BY <1>5
  <2>3. three \in [1..1 -> S] /\ four \in [1..2 -> S]
    BY <1>6
  <2> HIDE DEF S
  <2>4. ASSUME NEW n \in Nat, NEW f \in [1..n -> S]
        PROVE  f \in Seq(S)
    BY SeqDef
  <2>5. one \in Seq(S)  BY <2>1, <2>4, 10 \in Nat
  <2>6. two \in Seq(S)  BY <2>2, <2>4, 8 \in Nat
  <2>7. three \in Seq(S)  BY <2>3, <2>4, 1 \in Nat
  <2>8. four \in Seq(S)  BY <2>3, <2>4, 2 \in Nat
  <2> QED  BY <2>5, <2>6, <2>7, <2>8
<1> HIDE DEF S
<1>8. Len(one) = 10 /\ Len(two) = 8 /\ Len(three) = 1 /\ Len(four) = 2
  BY <1>1 DEF one, two, three, four
<1>9. one \o two \in Seq(S) /\ Len(one \o two) = 18 /\ \A i \in 1..10 : (one \o two)[i] = one[i]
  <2>1. one \o two \in Seq(S)  BY <1>7, ConcatProperties
  <2>2. Len(one \o two) = Len(one) + Len(two)  BY <1>7, ConcatProperties
  <2>3. \A i \in 1..Len(one) : (one \o two)[i] = one[i]  BY <1>7, LongerKeeps
  <2> QED  BY <1>8, <2>1, <2>2, <2>3
<1> DEFINE twos == one \o two
<1> HIDE DEF twos
<1>10. twos \o three \in Seq(S) /\ Len(twos \o three) = 19 /\ \A i \in 1..10 : (twos \o three)[i] = one[i]
  <2>0. twos \in Seq(S)  BY <1>9 DEF twos
  <2>1. three \in Seq(S)  BY <1>7
  <2>2. Len(twos) = 18 /\ \A i \in 1..10 : twos[i] = one[i]  BY <1>9 DEF twos
  <2>3. twos \o three \in Seq(S)  BY <2>0, <2>1, ConcatProperties
  <2>4. Len(twos \o three) = Len(twos) + Len(three)  BY <2>0, <2>1, ConcatProperties
  <2>5. \A i \in 1..Len(twos) : (twos \o three)[i] = twos[i]  BY <2>0, <2>1, LongerKeeps
  <2>6. \A i \in 1..10 : (twos \o three)[i] = one[i]
    <3> SUFFICES ASSUME NEW i \in 1..10 PROVE (twos \o three)[i] = one[i]  OBVIOUS
    <3>1. i \in 1..Len(twos)  BY <2>2
    <3>2. (twos \o three)[i] = twos[i]  BY <2>5, <3>1
    <3>3. twos[i] = one[i]  BY <2>2
    <3> QED  BY <3>2, <3>3
  <2> QED  BY <1>8, <2>2, <2>3, <2>4, <2>6
<1> DEFINE threes == twos \o three
<1> HIDE DEF threes
<1>11. threes \o four \in Seq(S) /\ Len(threes \o four) = 21 /\ \A i \in 1..10 : (threes \o four)[i] = one[i]
  <2>0. threes \in Seq(S)  BY <1>10 DEF threes
  <2>1. four \in Seq(S)  BY <1>7
  <2>2. Len(threes) = 19 /\ \A i \in 1..10 : threes[i] = one[i]  BY <1>10 DEF threes
  <2>3. threes \o four \in Seq(S)  BY <2>0, <2>1, ConcatProperties
  <2>4. Len(threes \o four) = Len(threes) + Len(four)  BY <2>0, <2>1, ConcatProperties
  <2>5. \A i \in 1..Len(threes) : (threes \o four)[i] = threes[i]  BY <2>0, <2>1, LongerKeeps
  <2>6. \A i \in 1..10 : (threes \o four)[i] = one[i]
    <3> SUFFICES ASSUME NEW i \in 1..10 PROVE (threes \o four)[i] = one[i]  OBVIOUS
    <3>1. i \in 1..Len(threes)  BY <2>2
    <3>2. (threes \o four)[i] = threes[i]  BY <2>5, <3>1
    <3>3. threes[i] = one[i]  BY <2>2
    <3> QED  BY <3>2, <3>3
  <2> QED  BY <1>8, <2>2, <2>3, <2>4, <2>6
<1>12. DOMAIN (threes \o four) = 1..21
  BY <1>11, LenProperties
<1>13. Checks(r) = threes \o four
  BY DEF Checks, twos, threes, one, two, three, four
<1> QED  BY <1>2, <1>11, <1>12, <1>13 DEF one

\* A redirect URI that is not registered fails the tenth check, so whatever
\* fails first is answered directly.
LEMMA AnsweredDirectly ==
    ASSUME NEW r
    PROVE  LET a == Authorize(r)
           IN a.channel \in {"redirect", "code"} => Registered(a.with["redirect_uri"])
<1> DEFINE failing == {i \in DOMAIN Checks(r) : Checks(r)[i].fails}
           best == CHOOSE i \in failing : \A j \in failing : i <= j
<1>1. Authorize(r) = IF failing = {}
                     THEN [channel |-> "code", error |-> "none", with |-> Overlay(r)]
                     ELSE [channel |-> Checks(r)[best].channel, error |-> Checks(r)[best].error, with |-> Overlay(r)]
  BY DEF Authorize, Checks
<1>2. Authorize(r).with = Overlay(r)
  BY <1>1
<1>3. ASSUME ~Registered(Overlay(r)["redirect_uri"])
      PROVE  Authorize(r).channel = "direct"
  <2>1. Checks(r)[10].fails
    <3>1. Checks(r)[10] = ResolutionChecks(r)[10]
      BY FirstTen
    <3>2. ResolutionChecks(r)[10].fails = ~Registered(Overlay(r)["redirect_uri"])
      BY FirstTen
    <3>3. ResolutionChecks(r)[10].fails = TRUE
      BY <1>3, <3>2, Zenon
    <3> QED  BY <3>1, <3>3
  <2>2. 10 \in failing /\ failing \subseteq 1..21
    BY <2>1, FirstTen
  <2> HIDE DEF failing
  <2>3. \E i \in failing : \A j \in failing : i <= j
    <3>1. failing \in SUBSET (Nat \ {0}) /\ 10 \in failing
      BY <2>2
    <3> QED  BY <3>1, LeastOfTen
  <2>4. best \in failing /\ \A j \in failing : best <= j
    BY <2>3, Zenon
  <2>6. best \in 1..10
    <3>1. best \in 1..21 /\ best <= 10
      BY <2>2, <2>4
    <3> HIDE DEF best
    <3> QED  BY <3>1
  <2> HIDE DEF best
  <2>5. Checks(r)[best].channel = "direct"
    BY <2>6, FirstTen
  <2> QED  BY <1>1, <2>2, <2>5
<1> QED  BY <1>2, <1>3

-----------------------------------------------------------------------------
(* Overriding *)

\* Two requests alike in everything the checks read.
Alike(r, s) ==
    /\ r.client = s.client /\ r.par = s.par /\ r.jar = s.jar /\ r.sig = s.sig
    /\ r.twice = s.twice /\ r.session = s.session /\ r.obo = s.obo
    /\ Overlay(r) = Overlay(s)
    /\ (Merge(r)["redirect_uri"] = Absent) = (Merge(s)["redirect_uri"] = Absent)
    /\ (r.query["state"] = Absent) = (s.query["state"] = Absent)
    /\ r.jar = "none" => r.query["response_type"] = s.query["response_type"]

LEMMA AlikeJudged ==
    ASSUME NEW r, NEW s, Alike(r, s)
    PROVE  Answer(r) = Answer(s)
<1>0. /\ r.client = s.client /\ r.par = s.par /\ r.jar = s.jar /\ r.sig = s.sig
      /\ r.twice = s.twice /\ r.session = s.session /\ r.obo = s.obo
      /\ Overlay(r) = Overlay(s)
  BY DEF Alike
<1>1. (Merge(r)["redirect_uri"] = Absent) = (Merge(s)["redirect_uri"] = Absent)
  BY Zenon DEF Alike
<1>2. (r.client.requireState /\ r.query["state"] = Absent) = (s.client.requireState /\ s.query["state"] = Absent)
  BY Zenon DEF Alike
<1>3. ProcessJar(r) = ProcessJar(s)
  BY <1>0, Zenon DEF ProcessJar
<1>4. ResolutionChecks(r) = ResolutionChecks(s)
  <2> DEFINE c0(x) == Check(x.twice, "direct", "invalid_request")
             c1(x) == Check(x.par = "unknown", "direct", "invalid_request")
             c2(x) == Check(x.par = "foreign", "direct", "invalid_client")
             c3(x) == Check(Merge(x)["redirect_uri"] = Absent, "direct", "invalid_request")
             c4(x) == Check(~x.client.known, "direct", "invalid_client")
             c5(x) == Check(~x.client.codeGrant, "direct", "unauthorized_client")
             c6(x) == Check(x.client.requireState /\ x.query["state"] = Absent, "direct", "invalid_request")
             c7(x) == Check(x.jar # "none" /\ ~ProcessJar(x), "direct", "invalid_request")
             c8(x) == Check(x.jar # "none" /\ Overlay(x)["response_type"] \notin Supported, "direct", "invalid_request")
             c9(x) == Check(~Registered(Overlay(x)["redirect_uri"]), "direct", "invalid_request")
  <2>1. /\ ResolutionChecks(r) = <<c0(r), c1(r), c2(r), c3(r), c4(r), c5(r), c6(r), c7(r), c8(r), c9(r)>>
        /\ ResolutionChecks(s) = <<c0(s), c1(s), c2(s), c3(s), c4(s), c5(s), c6(s), c7(s), c8(s), c9(s)>>
    BY Zenon DEF ResolutionChecks
  <2>2. c0(r) = c0(s) /\ c1(r) = c1(s) /\ c2(r) = c2(s) /\ c4(r) = c4(s) /\ c5(r) = c5(s)
    BY <1>0, Zenon
  <2>3. c3(r) = c3(s) /\ c6(r) = c6(s) /\ c7(r) = c7(s)
    BY <1>0, <1>1, <1>2, <1>3, Zenon
  <2>4. c8(r) = c8(s) /\ c9(r) = c9(s)
    BY <1>0, Zenon
  <2> HIDE DEF c0, c1, c2, c3, c4, c5, c6, c7, c8, c9
  <2> QED  BY <2>1, <2>2, <2>3, <2>4
<1>5. /\ (r.jar = "none" /\ r.query["response_type"] = Absent) = (s.jar = "none" /\ s.query["response_type"] = Absent)
      /\ (r.jar = "none" /\ r.query["response_type"] \notin Supported)
            = (s.jar = "none" /\ s.query["response_type"] \notin Supported)
  BY Zenon DEF Alike
<1>6. ParameterChecks(r) = ParameterChecks(s)
  <2> DEFINE c1(x) == Check(ResponseMode(Overlay(x)) = "other", "direct", "invalid_request")
             c2(x) == Check(x.jar = "none" /\ x.query["response_type"] = Absent, "redirect", "invalid_request")
             c3(x) == Check(x.jar = "none" /\ x.query["response_type"] \notin Supported, "redirect",
                            "unsupported_response_type")
             c4(x) == Check(Overlay(x)["code_challenge"] \in {Absent, "empty"}, "redirect", "invalid_request")
             c5(x) == Check(Overlay(x)["code_challenge_method"] # "S256", "redirect", "invalid_request")
             c6(x) == Check(x.obo /\ Overlay(x)["requested_actor"] = "unknown", "redirect", "invalid_request")
             c7(x) == Check(Overlay(x)["prompt"] = "none login", "direct", "invalid_request")
             c8(x) == Check(Overlay(x)["prompt"] = "none" /\ x.session = "none", "redirect", "login_required")
  <2>1. /\ ParameterChecks(r) = <<c1(r), c2(r), c3(r), c4(r), c5(r), c6(r), c7(r), c8(r)>>
        /\ ParameterChecks(s) = <<c1(s), c2(s), c3(s), c4(s), c5(s), c6(s), c7(s), c8(s)>>
    BY Zenon DEF ParameterChecks
  <2>2. c2(r) = c2(s) /\ c3(r) = c3(s)
    BY <1>5, Zenon
  <2>3. c1(r) = c1(s) /\ c4(r) = c4(s) /\ c5(r) = c5(s) /\ c7(r) = c7(s)
    BY <1>0, Zenon
  <2>4. c6(r) = c6(s) /\ c8(r) = c8(s)
    BY <1>0, Zenon
  <2> HIDE DEF c1, c2, c3, c4, c5, c6, c7, c8
  <2> QED  BY <2>1, <2>2, <2>3, <2>4
<1>7. LoginGate(r) = LoginGate(s) /\ GrantChecks(r) = GrantChecks(s)
  BY <1>0, Zenon DEF LoginGate, GrantChecks
<1>8. Authorize(r) = Authorize(s)
  BY <1>0, <1>4, <1>6, <1>7, Zenon DEF Authorize
<1> QED  BY <1>0, <1>8, Zenon DEF Answer

\* The query cannot override what was pushed.
LEMMA PushedPart ==
    ASSUME authReq \in AuthorizationRequest
    PROVE  PushedBinds
<1> SUFFICES ASSUME NEW p \in Param \ {"response_type", "response_mode", "prompt", "max_age"}, authReq.par = "ours", authReq.pushed[p] # Absent,
                    NEW v \in Value(p), NEW w \in Value(p)
             PROVE  Answer([authReq EXCEPT !.query[p] = v]) = Answer([authReq EXCEPT !.query[p] = w])
  BY DEF PushedBinds
<1> DEFINE r == [authReq EXCEPT !.query[p] = v]
           s == [authReq EXCEPT !.query[p] = w]
<1>1. p \in Param /\ p \in Pushed /\ p # "response_type" /\ "state" \in Param /\ "response_type" \in Param /\ "redirect_uri" \in Param
  BY DEF Param, Pushed, Signed
<1>2. v # Absent /\ w # Absent
  BY <1>1, ParameterAssumption
<1>3. /\ r.client = s.client /\ r.par = s.par /\ r.jar = s.jar /\ r.sig = s.sig
      /\ r.twice = s.twice /\ r.session = s.session /\ r.obo = s.obo
      /\ r.claims = s.claims /\ r.pushed = s.pushed /\ r.pushed = authReq.pushed /\ r.par = "ours"
      /\ r.query = [authReq.query EXCEPT ![p] = v] /\ s.query = [authReq.query EXCEPT ![p] = w]
      /\ authReq.query \in [Param -> Text]
  BY DEF AuthorizationRequest
<1> HIDE DEF r, s
<1>4. /\ \A q \in Param : q # p => r.query[q] = s.query[q]
      /\ r.query[p] = v /\ s.query[p] = w
  BY <1>1, <1>3
<1>5. Merge(r) = Merge(s)
  BY <1>1, <1>3, <1>4 DEF Merge
<1>6. Overlay(r) = Overlay(s)
  BY <1>3, <1>5 DEF Overlay
<1>7. (r.query["state"] = Absent) <=> (s.query["state"] = Absent)
  BY <1>1, <1>2, <1>4
<1>8. r.query["response_type"] = s.query["response_type"]
  BY <1>1, <1>4
<1>9. Alike(r, s)
  BY <1>3, <1>5, <1>6, <1>7, <1>8, Zenon DEF Alike
<1> QED  BY <1>9, AlikeJudged DEF r, s

\* Neither the query nor a pushed request can override what was signed.
LEMMA SignedPart ==
    ASSUME authReq \in AuthorizationRequest
    PROVE  SignedBinds
<1> SUFFICES ASSUME NEW p \in Param \ {"prompt", "max_age", "requested_actor"}, authReq.jar # "none", authReq.claims[p] # Absent,
                    NEW v \in Value(p), NEW w \in Value(p)
             PROVE  Answer([authReq EXCEPT !.query[p] = v, !.pushed[p] = w]) = Answer([authReq EXCEPT !.query[p] = w])
  BY DEF SignedBinds
<1> DEFINE r == [authReq EXCEPT !.query[p] = v, !.pushed[p] = w]
           s == [authReq EXCEPT !.query[p] = w]
<1>1. p \in Param /\ p \in Signed /\ "state" \in Param /\ "redirect_uri" \in Param
  BY DEF Param, Pushed, Signed
<1>2. v # Absent /\ w # Absent
  BY <1>1, ParameterAssumption
<1>3. /\ r.client = s.client /\ r.par = s.par /\ r.jar = s.jar /\ r.sig = s.sig
      /\ r.twice = s.twice /\ r.session = s.session /\ r.obo = s.obo
      /\ r.claims = s.claims /\ r.claims = authReq.claims /\ r.jar # "none"
      /\ r.pushed = [authReq.pushed EXCEPT ![p] = w] /\ s.pushed = authReq.pushed
      /\ r.query = [authReq.query EXCEPT ![p] = v] /\ s.query = [authReq.query EXCEPT ![p] = w]
      /\ authReq.query \in [Param -> Text] /\ authReq.pushed \in [Param -> Text]
  BY DEF AuthorizationRequest
<1> HIDE DEF r, s
<1>4. /\ \A q \in Param : q # p => r.query[q] = s.query[q] /\ r.pushed[q] = s.pushed[q]
      /\ r.query[p] = v /\ s.query[p] = w /\ r.pushed[p] = w
  BY <1>1, <1>3
<1>5. \A q \in Param : q # p => Merge(r)[q] = Merge(s)[q]
  BY <1>3, <1>4 DEF Merge
<1>6. Merge(r)[p] # Absent /\ Merge(s)[p] # Absent
  BY <1>1, <1>2, <1>4 DEF Merge
<1>7. Overlay(r) = Overlay(s)
  BY <1>1, <1>3, <1>5 DEF Overlay
<1>8. (r.query["state"] = Absent) <=> (s.query["state"] = Absent)
  BY <1>1, <1>2, <1>4
<1>9. (Merge(r)["redirect_uri"] = Absent) <=> (Merge(s)["redirect_uri"] = Absent)
  BY <1>1, <1>5, <1>6
<1>10. Alike(r, s)
  BY <1>3, <1>7, <1>8, <1>9, Zenon DEF Alike
<1> QED  BY <1>10, AlikeJudged DEF r, s

\* Neither a code nor an error goes to an unregistered redirect URI, and no
\* pushed or signed parameter can be overridden in the browser, but for the
\* named exceptions.
THEOREM RequestsBind == AuthorizeSpec => []RequestBinds
<1>1. AuthorizeInit => RequestTypeOK
  BY RequestTypeInit
<1>2. RequestTypeOK /\ [AuthorizeNext]_authVars => RequestTypeOK'
  BY RequestTypeStep
<1>3. RequestTypeOK => RequestBinds
  BY AnsweredDirectly, PushedPart, SignedPart DEF RequestTypeOK, RequestBinds, RedirectsOnlyToRegistered
<1> QED  BY <1>1, <1>2, <1>3, PTL DEF AuthorizeSpec

-----------------------------------------------------------------------------
(* DocumentCache: the order of use *)

\* The cached URLs have the places 1 to n, one each.
Ranking(order, n) ==
    /\ order \in [DocUrl -> 0..n]
    /\ \A u, w \in DocUrl : order[u] = order[w] /\ order[u] # 0 => u = w
    /\ \A k \in 1..n : \E u \in DocUrl : order[u] = k

\* A ranking up to n places n URLs.
LEMMA RankingCounts ==
    ASSUME NEW order, NEW n \in Nat, Ranking(order, n)
    PROVE  Cardinality(Placed(order)) = n
<1> DEFINE at == [k \in 1..n |-> CHOOSE u \in DocUrl : order[u] = k]
<1>1. \A k \in 1..n : at[k] \in DocUrl /\ order[at[k]] = k
  BY DEF Ranking
<1> HIDE DEF at
<1>2. at \in [1..n -> Placed(order)]
  <2>1. at = [k \in 1..n |-> at[k]]  BY DEF at
  <2>2. \A k \in 1..n : at[k] \in Placed(order)  BY <1>1 DEF Placed
  <2> QED  BY <2>1, <2>2
<1>3. \A j, k \in 1..n : at[j] = at[k] => j = k
  BY <1>1
<1>4. \A u \in Placed(order) : \E k \in 1..n : at[k] = u
  <2> SUFFICES ASSUME NEW u \in Placed(order) PROVE \E k \in 1..n : at[k] = u  OBVIOUS
  <2>1. u \in DocUrl /\ order[u] \in 1..n  BY DEF Placed, Ranking
  <2>2. at[order[u]] = u  BY <1>1, <2>1 DEF Ranking
  <2> QED  BY <2>1, <2>2
<1>5. at \in Bijection(1..n, Placed(order))
  BY <1>2, <1>3, <1>4 DEF Bijection, Injection, Surjection, IsInjective
<1>6. ExistsBijection(1..n, Placed(order))
  BY <1>5 DEF ExistsBijection
<1>7. IsFiniteSet(1..n) /\ Cardinality(1..n) = n
  BY FS_Interval
<1>8. IsFiniteSet(1..n)  BY <1>7
<1>9. Cardinality(Placed(order)) = Cardinality(1..n)
  BY <1>6, <1>8, FS_Bijection
<1> QED  BY <1>7, <1>9

\* Taking u out leaves the others in their order.
LEMMA PopRanks ==
    ASSUME NEW order, NEW n \in Nat, Ranking(order, n), NEW u \in DocUrl
    PROVE  \E m \in Nat : /\ Ranking(Pop(order, u), m) /\ m <= n
                          /\ order[u] # 0 => m < n
<1>1. CASE order[u] = 0
  <2>1. Pop(order, u) = order
    BY <1>1 DEF Pop, Ranking
  <2> QED  BY <1>1, <2>1
<1>2. CASE order[u] # 0
  <2> DEFINE p == Pop(order, u)
  <2>1. order[u] \in 1..n /\ n - 1 \in Nat
    BY <1>2 DEF Ranking
  <2>2. \A w \in DocUrl : p[w] = IF w = u THEN 0 ELSE IF order[w] > order[u] THEN order[w] - 1 ELSE order[w]
    BY <1>2 DEF Pop
  <2>3. \A w \in DocUrl : w # u => order[w] \in 0..n /\ order[w] # order[u]
    BY <1>2 DEF Ranking
  <2>4. p \in [DocUrl -> 0..(n - 1)]
    <3>1. \A w \in DocUrl : p[w] \in 0..(n - 1)
      BY <2>1, <2>2, <2>3
    <3>2. p = [w \in DocUrl |-> p[w]]
      BY DEF Pop
    <3> HIDE DEF p
    <3> QED  BY <3>1, <3>2
  <2> HIDE DEF p
  <2>5. \A v, w \in DocUrl : p[v] = p[w] /\ p[v] # 0 => v = w
    BY <2>1, <2>2, <2>3 DEF Ranking
  <2>6. \A k \in 1..(n - 1) : \E w \in DocUrl : p[w] = k
    <3> SUFFICES ASSUME NEW k \in 1..(n - 1) PROVE \E w \in DocUrl : p[w] = k  OBVIOUS
    <3>1. CASE k < order[u]
      <4>1. PICK w \in DocUrl : order[w] = k  BY <2>1 DEF Ranking
      <4> QED  BY <2>1, <2>2, <3>1, <4>1
    <3>2. CASE ~(k < order[u])
      <4>1. k + 1 \in 1..n  BY <2>1
      <4>2. PICK w \in DocUrl : order[w] = k + 1  BY <4>1 DEF Ranking
      <4> QED  BY <2>1, <2>2, <3>2, <4>2
    <3> QED  BY <3>1, <3>2
  <2>7. Ranking(p, n - 1)
    BY <2>4, <2>5, <2>6 DEF Ranking
  <2> QED  BY <2>1, <2>7 DEF p
<1> QED  BY <1>1, <1>2

\* A URL that is used goes to the end of the order, which grows only if the
\* URL was not in it.
LEMMA PromoteRanks ==
    ASSUME NEW order, NEW n \in Nat, Ranking(order, n), NEW u \in DocUrl
    PROVE  \E m \in Nat : /\ Ranking(Promote(order, u), m) /\ m <= n + 1
                          /\ order[u] # 0 => m <= n
<1>1. PICK m \in Nat : Ranking(Pop(order, u), m) /\ m <= n /\ (order[u] # 0 => m < n)
  BY PopRanks
<1> DEFINE p == Pop(order, u)
           q == [p EXCEPT ![u] = m + 1]
<1>2. p[u] = 0
  BY DEF Pop
<1>3. Promote(order, u) = q
  BY <1>1, RankingCounts DEF Promote
<1> HIDE DEF p
<1>4. Ranking(p, m)
  BY <1>1 DEF p
<1>5. q \in [DocUrl -> 0..(m + 1)]
  BY <1>4 DEF Ranking
<1>6. \A v, w \in DocUrl : q[v] = q[w] /\ q[v] # 0 => v = w
  BY <1>4 DEF Ranking
<1>7. \A k \in 1..(m + 1) : \E w \in DocUrl : q[w] = k
  <2> SUFFICES ASSUME NEW k \in 1..(m + 1) PROVE \E w \in DocUrl : q[w] = k  OBVIOUS
  <2>1. CASE k = m + 1
    <3>1. q[u] = k  BY <1>4, <2>1 DEF Ranking
    <3> QED  BY <3>1
  <2>2. CASE k # m + 1
    <3>1. k \in 1..m  BY <2>2
    <3>2. PICK w \in DocUrl : p[w] = k  BY <1>4, <3>1 DEF Ranking
    <3>3. q[w] = k  BY <1>2, <1>4, <3>1, <3>2 DEF Ranking
    <3> QED  BY <3>3
  <2> QED  BY <2>1, <2>2
<1>8. Ranking(q, m + 1)
  BY <1>5, <1>6, <1>7 DEF Ranking
<1> HIDE DEF q
<1> QED  BY <1>1, <1>3, <1>8

\* The URL has a place then, and the others keep theirs.
LEMMA PromoteKeeps ==
    ASSUME NEW order, NEW n \in Nat, Ranking(order, n), NEW u \in DocUrl
    PROVE  \A w \in DocUrl : Promote(order, u)[w] = 0 => w # u /\ order[w] = 0
<1> SUFFICES ASSUME NEW w \in DocUrl, Promote(order, u)[w] = 0 PROVE w # u /\ order[w] = 0
  OBVIOUS
<1>1. CASE w = u
  <2>1. Promote(order, u)[u] = Cardinality(Placed(Pop(order, u))) + 1
    BY DEF Promote, Pop
  <2>2. PICK k \in Nat : Ranking(Pop(order, u), k)
    BY PopRanks
  <2>3. Cardinality(Placed(Pop(order, u))) = k
    BY <2>2, RankingCounts
  <2> QED  BY <1>1, <2>1, <2>3
<1>2. CASE w # u
  <2>1. Promote(order, u)[w] = Pop(order, u)[w]
    BY <1>2 DEF Promote, Pop
  <2> QED  BY <1>2, <2>1 DEF Pop, Ranking
<1> QED  BY <1>1, <1>2

\* When the first one leaves, the others move up.
LEMMA EvictRanks ==
    ASSUME NEW order, NEW n \in Nat, Ranking(order, n + 1)
    PROVE  Ranking(Evict(order), n)
<1> DEFINE e == Evict(order)
<1>1. \A w \in DocUrl : order[w] \in 0..(n + 1) /\ e[w] = IF order[w] = 0 THEN 0 ELSE order[w] - 1
  BY DEF Ranking, Evict
<1>2. e = [w \in DocUrl |-> e[w]]
  BY DEF Evict
<1> HIDE DEF e
<1>3. e \in [DocUrl -> 0..n]
  <2>1. \A w \in DocUrl : e[w] \in 0..n  BY <1>1
  <2> QED  BY <1>2, <2>1
<1>4. \A v, w \in DocUrl : e[v] = e[w] /\ e[v] # 0 => v = w
  BY <1>1 DEF Ranking
<1>5. \A k \in 1..n : \E w \in DocUrl : e[w] = k
  <2> SUFFICES ASSUME NEW k \in 1..n PROVE \E w \in DocUrl : e[w] = k  OBVIOUS
  <2>1. k + 1 \in 1..(n + 1)  OBVIOUS
  <2>2. PICK w \in DocUrl : order[w] = k + 1  BY <2>1 DEF Ranking
  <2>3. e[w] = k  BY <1>1, <2>2
  <2> QED  BY <2>3
<1>6. Ranking(e, n)
  BY <1>3, <1>4, <1>5 DEF Ranking
<1> QED  BY <1>6 DEF e

-----------------------------------------------------------------------------
(* DocumentCache: the invariant *)

CachedDoc == [doc : Doc, left : 0..MaxTTL]
Fetching == [pc : {"resolve", "fetch", "store"}, url : DocUrl, addrs : SUBSET Address,
             copy : Doc \cup {Nil}, ttl : 0..MaxTTL, age : 0..Timeout]
GivenDoc == [url : DocUrl, doc : Doc]

DocumentTypeOK ==
    /\ doc \in [DocUrl -> Doc]
    /\ gone \in [DocUrl -> [0..MaxEdition -> Nat \cup {Nil}]]
    /\ cache \in [DocUrl -> CachedDoc \cup {Nil}]
    /\ fetcher \in [Fetcher -> Fetching \cup {NoFetch}]
    /\ given \in GivenDoc \cup {Nil}

\* Only versions older than the one served are replaced.
ServedNotGone == \A u \in DocUrl, v \in 0..MaxEdition : v >= doc[u].ver => gone[u][v] = Nil

\* The version v of u is still served, or was no longer than b ago.
GoneFor(u, v, b) == gone[u][v] # Nil => gone[u][v] <= b

\* A fetched copy was current when the request began, or later.
CopiesYoung ==
    \A r \in Fetcher : fetcher[r].pc = "store" =>
        fetcher[r].copy \in Doc /\ GoneFor(fetcher[r].url, fetcher[r].copy.ver, fetcher[r].age)

\* A cached document is valid, and the rest of its lifetime and the time it has
\* been outdated add up to no more than the lag.
CachedSound ==
    \A u \in DocUrl : cache[u] # Nil =>
        /\ cache[u].doc.valid
        /\ cache[u].left # 0 => GoneFor(u, cache[u].doc.ver, ServedLag - cache[u].left)

\* A request for metadata goes to an admitted host, and to checked addresses.
FetchesChecked ==
    \A r \in Fetcher : Mode = "cimd" /\ fetcher[r].pc \in {"resolve", "fetch"} =>
        /\ Admitted(fetcher[r].url)
        /\ \A a \in fetcher[r].addrs : a = "public"

\* The map's entries are ranked by their use, and no more than fit.
InOrder ==
    /\ \E n \in Nat : Ranking(place, n) /\ (Mode = "cimd" => n <= Capacity)
    /\ \A u \in DocUrl : place[u] = 0 => cache[u] = Nil

DocumentsInv ==
    /\ DocumentTypeOK /\ ServedNotGone /\ CopiesYoung /\ CachedSound /\ FetchesChecked /\ InOrder
    /\ OnlyValidServed /\ ServedInTime /\ ReachedAsChecked

\* The invariant is what is promised.
LEMMA DocumentsInvChecked == DocumentsInv => OnlyCheckedServed
<1> SUFFICES ASSUME DocumentsInv, Mode = "cimd"
             PROVE  Cardinality({u \in DOMAIN cache : cache[u] # Nil}) <= Capacity
  BY DEF DocumentsInv, OnlyCheckedServed, MapBounded
<1> DEFINE held == {u \in DOMAIN cache : cache[u] # Nil}
<1>1. PICK n \in Nat : Ranking(place, n) /\ n <= Capacity
  BY DEF DocumentsInv, InOrder
<1>2. held \subseteq Placed(place) /\ Placed(place) \subseteq DocUrl
  BY DEF DocumentsInv, DocumentTypeOK, InOrder, Placed
<1>3. IsFiniteSet(DocUrl)
  BY DocumentAssumption
<1>4. IsFiniteSet(Placed(place))
  BY <1>2, <1>3, FS_Subset
<1>5. Cardinality(Placed(place)) = n
  BY <1>1, RankingCounts
<1> HIDE DEF held
<1>6. Cardinality(held) <= Cardinality(Placed(place)) /\ IsFiniteSet(held)
  <2>1. held \in SUBSET Placed(place)  BY <1>2
  <2> QED  BY <1>4, <2>1, FS_Subset
<1>7. Cardinality(held) \in Nat
  BY <1>6, FS_CardinalityType
<1>8. Capacity \in Nat
  BY DocumentAssumption
<1> QED  BY <1>1, <1>5, <1>6, <1>7, <1>8 DEF held

\* A lifetime is bounded whatever the server asks for.
LEMMA LifetimeBounded ==
    \A age \in MaxAge : parse_cache_control_max_age(age) \in 0..MaxTTL
BY DocumentAssumption DEF parse_cache_control_max_age

\* The lists admit no host that they name as denied.
LEMMA AdmittedHost ==
    ASSUME NEW u \in DocUrl, Mode = "cimd", Admitted(u)
    PROVE  Host[u] \notin Denied /\ (Allowed # {} => Host[u] \in Allowed)
<1>1. normalize_host(RawHost(u)) = [host |-> Host[u], dot |-> FALSE]
  BY DEF normalize_host, RawHost
<1> DEFINE h == [host |-> Host[u], dot |-> FALSE]
<1>2. h \notin Listed(Denied) /\ (Allowed # {} => h \in Listed(Allowed))
  BY <1>1 DEF Admitted, check_host_lists
<1>3. \A hosts : h \in Listed(hosts) <=> Host[u] \in hosts
  BY DEF Listed
<1> QED  BY <1>2, <1>3

LEMMA DocumentsInitially == DocumentInit => DocumentsInv
<1> SUFFICES ASSUME DocumentInit PROVE DocumentsInv
  OBVIOUS
<1> USE DocumentAssumption DEF DocumentInit
<1>1. DocumentTypeOK
  BY DEF DocumentTypeOK, Doc
<1>2. ServedNotGone /\ CopiesYoung /\ CachedSound /\ FetchesChecked
  BY DEF ServedNotGone, CopiesYoung, CachedSound, FetchesChecked, NoFetch
<1>3. InOrder
  <2>1. Ranking(place, 0)
    BY DEF Ranking
  <2> QED  BY <2>1 DEF InOrder
<1>4. OnlyValidServed /\ ServedInTime /\ ReachedAsChecked
  BY DEF OnlyValidServed, ServedInTime, ReachedAsChecked
<1> QED  BY <1>1, <1>2, <1>3, <1>4 DEF DocumentsInv

\* A hit: the entry's lifetime is not over, so neither is the lag.
LEMMA HitKeeps ==
    ASSUME DocumentsInv, NEW r \in Fetcher, NEW u \in DocUrl, Begin(r, u), is_fresh(u)
    PROVE  DocumentsInv'
<1>1. /\ given' = [url |-> u, doc |-> cache[u].doc] /\ place' = Promote(place, u)
      /\ UNCHANGED <<doc, gone, cache, fetcher, reached>>
  BY DEF Begin, remote
<1>2. /\ DocumentTypeOK /\ ServedNotGone /\ CopiesYoung /\ CachedSound /\ FetchesChecked /\ InOrder
      /\ ReachedAsChecked
  BY DEF DocumentsInv
<1>3. cache[u] \in CachedDoc /\ cache[u].left \in 1..MaxTTL
  BY <1>2, DocumentAssumption DEF DocumentTypeOK, is_fresh, CachedDoc
<1>4. DocumentTypeOK'
  BY <1>1, <1>2, <1>3 DEF DocumentTypeOK, GivenDoc, CachedDoc
<1>5. ServedNotGone' /\ CopiesYoung' /\ CachedSound' /\ FetchesChecked' /\ ReachedAsChecked'
  BY <1>1, <1>2 DEF ServedNotGone, CopiesYoung, CachedSound, FetchesChecked, ReachedAsChecked, GoneFor
<1>6. OnlyValidServed'
  BY <1>1, <1>2 DEF OnlyValidServed, CachedSound, document_to_client, is_fresh
<1>7. ServedInTime'
  <2>1. cache[u].doc.ver \in 0..MaxEdition
    BY <1>3 DEF CachedDoc, Doc
  <2>2. gone[u][cache[u].doc.ver] \in Nat \cup {Nil}
    BY <1>2, <2>1 DEF DocumentTypeOK
  <2>3. gone[u][cache[u].doc.ver] # Nil => gone[u][cache[u].doc.ver] <= ServedLag - cache[u].left
    BY <1>2, <1>3 DEF CachedSound, GoneFor, is_fresh
  <2>4. gone[u][cache[u].doc.ver] # Nil => gone[u][cache[u].doc.ver] <= ServedLag
    BY <1>3, <2>2, <2>3, DocumentAssumption DEF ServedLag
  <2> QED  BY <1>1, <2>4 DEF ServedInTime, ServedLag
<1>8. InOrder'
  <2>1. PICK n \in Nat : Ranking(place, n) /\ (Mode = "cimd" => n <= Capacity)
    BY <1>2 DEF InOrder
  <2>2. place[u] # 0
    BY <1>2 DEF InOrder, is_fresh
  <2>3. PICK m \in Nat : Ranking(place', m) /\ m <= n
    BY <1>1, <2>1, <2>2, PromoteRanks
  <2>4. Mode = "cimd" => m <= Capacity
    BY <2>1, <2>3, DocumentAssumption
  <2>5. \A w \in DocUrl : place'[w] = 0 => cache'[w] = Nil
    BY <1>1, <1>2, <2>1, PromoteKeeps DEF InOrder
  <2> QED  BY <2>3, <2>4, <2>5 DEF InOrder
<1> QED  BY <1>4, <1>5, <1>6, <1>7, <1>8 DEF DocumentsInv

\* A miss: the request begins, and an expired entry leaves the LRU map.
LEMMA MissKeeps ==
    ASSUME DocumentsInv, NEW r \in Fetcher, NEW u \in DocUrl, Begin(r, u), ~is_fresh(u)
    PROVE  DocumentsInv'
<1> DEFINE pc == IF Mode = "cimd" THEN "resolve" ELSE "fetch"
           begun == [NoFetch EXCEPT !.url = u, !.pc = pc]
<1>1. /\ fetcher' = [fetcher EXCEPT ![r] = begun] /\ Admitted(u)
      /\ \/ Mode = "cimd" /\ cache' = [cache EXCEPT ![u] = Nil] /\ place' = Pop(place, u)
         \/ UNCHANGED <<cache, place>>
      /\ UNCHANGED <<doc, gone, given, reached>>
  BY DEF Begin, remote
<1>2. /\ DocumentTypeOK /\ ServedNotGone /\ CopiesYoung /\ CachedSound /\ FetchesChecked /\ InOrder
      /\ ReachedAsChecked /\ OnlyValidServed /\ ServedInTime
  BY DEF DocumentsInv
<1>3. begun \in Fetching /\ begun.pc \in {"resolve", "fetch"} /\ begun.url = u /\ begun.addrs = {}
  <2>4. pc \in {"resolve", "fetch"}
    OBVIOUS
  <2> HIDE DEF pc
  <2>0. NoFetch \in [pc : {"idle"}, url : {Nil}, addrs : {{}}, copy : {Nil}, ttl : {0}, age : {0}]
    BY DEF NoFetch
  <2>1. begun \in [pc : {pc}, url : {u}, addrs : {{}}, copy : {Nil}, ttl : {0}, age : {0}]
    BY <2>0
  <2>3. 0 \in 0..MaxTTL /\ 0 \in 0..Timeout
    BY DocumentAssumption
  <2> HIDE DEF begun
  <2> QED  BY <2>1, <2>3, <2>4 DEF Fetching
<1> HIDE DEF pc, begun
<1>4. \A w \in DocUrl : cache'[w] # Nil => cache'[w] = cache[w]
  BY <1>1, <1>2 DEF DocumentTypeOK
<1>5. \A q \in Fetcher : fetcher'[q] = IF q = r THEN begun ELSE fetcher[q]
  BY <1>1, <1>2 DEF DocumentTypeOK
<1>6. DocumentTypeOK'
  <2>1. cache' \in [DocUrl -> CachedDoc \cup {Nil}]
    BY <1>1, <1>2 DEF DocumentTypeOK
  <2>2. fetcher' \in [Fetcher -> Fetching \cup {NoFetch}]
    BY <1>1, <1>2, <1>3 DEF DocumentTypeOK
  <2> QED  BY <1>1, <1>2, <2>1, <2>2 DEF DocumentTypeOK
<1>7. ServedNotGone' /\ ReachedAsChecked' /\ OnlyValidServed' /\ ServedInTime'
  BY <1>1, <1>2 DEF ServedNotGone, ReachedAsChecked, OnlyValidServed, ServedInTime
<1>8. CopiesYoung'
  BY <1>1, <1>2, <1>3, <1>5 DEF CopiesYoung, GoneFor
<1>9. CachedSound'
  BY <1>1, <1>2, <1>4 DEF CachedSound, GoneFor
<1>10. FetchesChecked'
  BY <1>1, <1>2, <1>3, <1>5 DEF FetchesChecked
<1>11. InOrder'
  <2>1. PICK n \in Nat : Ranking(place, n) /\ (Mode = "cimd" => n <= Capacity)
    BY <1>2 DEF InOrder
  <2>2. CASE UNCHANGED <<cache, place>>
    BY <1>2, <2>2 DEF InOrder
  <2>3. CASE Mode = "cimd" /\ cache' = [cache EXCEPT ![u] = Nil] /\ place' = Pop(place, u)
    <3>1. PICK m \in Nat : Ranking(place', m) /\ m <= n
      BY <2>1, <2>3, PopRanks
    <3>2. Mode = "cimd" => m <= Capacity
      BY <2>1, <3>1, DocumentAssumption
    <3>3. \A w \in DocUrl : w # u /\ place'[w] = 0 => place[w] = 0
      BY <2>1, <2>3 DEF Pop, Ranking
    <3>4. \A w \in DocUrl : place'[w] = 0 => cache'[w] = Nil
      BY <1>2, <2>3, <3>3 DEF InOrder, DocumentTypeOK
    <3> QED  BY <3>1, <3>2, <3>4 DEF InOrder
  <2> QED  BY <1>1, <2>2, <2>3
<1> QED  BY <1>6, <1>7, <1>8, <1>9, <1>10, <1>11 DEF DocumentsInv

\* The name server's answer is taken only if every address in it is public.
LEMMA ResolveKeeps ==
    ASSUME DocumentsInv, NEW r \in Fetcher, resolve_host(r)
    PROVE  DocumentsInv'
<1>1. PICK addrs \in SUBSET Address :
         fetcher' = [fetcher EXCEPT ![r] =
                       IF addrs = {} \/ \E a \in addrs : is_special_use(a) THEN NoFetch
                       ELSE [fetcher[r] EXCEPT !.pc = "fetch", !.addrs = addrs]]
  BY DEF resolve_host
<1>2. UNCHANGED <<doc, gone, cache, place, reached, given>> /\ fetcher[r].pc = "resolve"
  BY DEF resolve_host, remote
<1>3. /\ DocumentTypeOK /\ ServedNotGone /\ CopiesYoung /\ CachedSound /\ FetchesChecked /\ InOrder
      /\ ReachedAsChecked /\ OnlyValidServed /\ ServedInTime
  BY DEF DocumentsInv
<1>4. fetcher[r] \in Fetching
  BY <1>2, <1>3 DEF DocumentTypeOK, NoFetch
<1> DEFINE q == [fetcher[r] EXCEPT !.pc = "fetch", !.addrs = addrs]
<1>5. q \in Fetching /\ q.pc = "fetch" /\ q.url = fetcher[r].url /\ q.addrs = addrs
  BY <1>4 DEF Fetching
<1>6. \/ fetcher' = [fetcher EXCEPT ![r] = NoFetch]
      \/ fetcher' = [fetcher EXCEPT ![r] = q] /\ \A a \in addrs : a = "public"
  BY <1>1 DEF is_special_use, Address
<1> HIDE DEF q
<1>7. fetcher' \in [Fetcher -> Fetching \cup {NoFetch}]
  BY <1>3, <1>5, <1>6 DEF DocumentTypeOK
<1>8. \A s \in Fetcher : \/ fetcher'[s] = fetcher[s] \/ fetcher'[s] = NoFetch
                         \/ s = r /\ fetcher'[s] = q /\ \A a \in addrs : a = "public"
  BY <1>3, <1>6 DEF DocumentTypeOK
<1>9. DocumentTypeOK' /\ ServedNotGone' /\ ReachedAsChecked' /\ OnlyValidServed' /\ ServedInTime'
  BY <1>2, <1>3, <1>7 DEF DocumentTypeOK, ServedNotGone, ReachedAsChecked, OnlyValidServed, ServedInTime
<1>10. CachedSound' /\ InOrder'
  BY <1>2, <1>3 DEF CachedSound, InOrder, GoneFor
<1>11. CopiesYoung'
  BY <1>2, <1>3, <1>5, <1>8 DEF CopiesYoung, GoneFor, NoFetch
<1>12. FetchesChecked'
  BY <1>2, <1>3, <1>5, <1>8 DEF FetchesChecked, NoFetch
<1> QED  BY <1>9, <1>10, <1>11, <1>12 DEF DocumentsInv

\* What is fetched is what the server serves at that moment.
LEMMA FetchKeeps ==
    ASSUME DocumentsInv, NEW r \in Fetcher, fetch(r)
    PROVE  DocumentsInv'
<1>1. UNCHANGED <<doc, gone, cache, place, given>> /\ fetcher[r].pc = "fetch"
  BY DEF fetch, remote
<1>2. /\ DocumentTypeOK /\ ServedNotGone /\ CopiesYoung /\ CachedSound /\ FetchesChecked /\ InOrder
      /\ ReachedAsChecked /\ OnlyValidServed /\ ServedInTime
  BY DEF DocumentsInv
<1>3. fetcher[r] \in Fetching
  BY <1>1, <1>2 DEF DocumentTypeOK, NoFetch
<1>4. \E q \in Fetching \cup {NoFetch} :
         /\ fetcher' = [fetcher EXCEPT ![r] = q]
         /\ q = NoFetch \/ (q.pc = "store" /\ q.url = fetcher[r].url /\ q.age = fetcher[r].age
                              /\ q.copy = doc[q.url])
  <2>1. CASE fetcher' = [fetcher EXCEPT ![r] = NoFetch]
    BY <2>1
  <2>2. CASE \E age \in MaxAge :
                fetcher' = [fetcher EXCEPT ![r].pc = "store", ![r].copy = doc[fetcher[r].url],
                                           ![r].ttl = parse_cache_control_max_age(age)]
    <3>1. PICK age \in MaxAge :
                fetcher' = [fetcher EXCEPT ![r].pc = "store", ![r].copy = doc[fetcher[r].url],
                                           ![r].ttl = parse_cache_control_max_age(age)]
      BY <2>2
    <3> DEFINE ttl == parse_cache_control_max_age(age)
               q == [fetcher[r] EXCEPT !.pc = "store", !.copy = doc[fetcher[r].url], !.ttl = ttl]
    <3>2. ttl \in 0..MaxTTL
      BY LifetimeBounded
    <3>3. fetcher' = [fetcher EXCEPT ![r] = q]
      BY <1>2, <3>1 DEF DocumentTypeOK
    <3> HIDE DEF ttl
    <3>4. /\ q \in Fetching /\ q.pc = "store" /\ q.url = fetcher[r].url /\ q.age = fetcher[r].age
          /\ q.copy = doc[q.url]
      BY <1>2, <1>3, <3>2 DEF Fetching, DocumentTypeOK
    <3> QED  BY <3>3, <3>4
  <2> QED  BY <2>1, <2>2 DEF fetch
<1>5. PICK q \in Fetching \cup {NoFetch} :
         /\ fetcher' = [fetcher EXCEPT ![r] = q]
         /\ q = NoFetch \/ (q.pc = "store" /\ q.url = fetcher[r].url /\ q.age = fetcher[r].age
                              /\ q.copy = doc[q.url])
  BY <1>4
<1>6. fetcher' \in [Fetcher -> Fetching \cup {NoFetch}]
  BY <1>2, <1>5 DEF DocumentTypeOK
<1>7. \A s \in Fetcher : fetcher'[s] = IF s = r THEN q ELSE fetcher[s]
  BY <1>2, <1>5 DEF DocumentTypeOK
<1>8. DocumentTypeOK' /\ ServedNotGone' /\ OnlyValidServed' /\ ServedInTime'
  BY <1>1, <1>2, <1>6 DEF DocumentTypeOK, ServedNotGone, OnlyValidServed, ServedInTime
<1>9. CachedSound' /\ InOrder'
  BY <1>1, <1>2 DEF CachedSound, InOrder, GoneFor
<1>10. FetchesChecked'
  BY <1>1, <1>2, <1>5, <1>7 DEF FetchesChecked, NoFetch
<1>11. CopiesYoung'
  <2>1. ASSUME q.pc = "store"
        PROVE  q.copy \in Doc /\ gone[q.url][q.copy.ver] = Nil
    <3>1. q.url \in DocUrl /\ q.copy = doc[q.url] /\ doc[q.url] \in Doc
      BY <1>2, <1>3, <1>5, <2>1 DEF NoFetch, Fetching, DocumentTypeOK
    <3>2. doc[q.url].ver \in 0..MaxEdition
      BY <3>1 DEF Doc
    <3> QED  BY <1>2, <3>1, <3>2 DEF ServedNotGone
  <2> QED  BY <1>1, <1>2, <1>7, <2>1 DEF CopiesYoung, GoneFor
<1>12. ReachedAsChecked'
  <2>1. CASE UNCHANGED reached
    BY <1>2, <2>1 DEF ReachedAsChecked
  <2>2. CASE Mode # "jwks" /\ \E a \in fetcher[r].addrs :
               reached' = reached \cup {[host |-> Host[fetcher[r].url], address |-> a]}
    <3>1. PICK a \in fetcher[r].addrs : reached' = reached \cup {[host |-> Host[fetcher[r].url], address |-> a]}
      BY <2>2
    <3>2. Mode = "cimd" /\ Admitted(fetcher[r].url) /\ a = "public" /\ fetcher[r].url \in DocUrl
      BY <1>1, <1>2, <1>3, <2>2, <3>1, DocumentAssumption DEF FetchesChecked, Fetching
    <3>3. LET h == Host[fetcher[r].url] IN h \notin Denied /\ (Allowed # {} => h \in Allowed)
      BY <3>2, AdmittedHost
    <3> QED  BY <1>2, <3>1, <3>2, <3>3 DEF ReachedAsChecked
  <2> QED  BY <2>1, <2>2 DEF fetch
<1> QED  BY <1>8, <1>9, <1>10, <1>11, <1>12 DEF DocumentsInv

\* What is stored was current no longer ago than the request took, is valid,
\* and takes the place of the entry that was not used for longest.
LEMMA StoreKeeps ==
    ASSUME DocumentsInv, NEW r \in Fetcher, store(r)
    PROVE  DocumentsInv'
<1> DEFINE q == fetcher[r]
           entry == [doc |-> q.copy, left |-> q.ttl]
           used == Promote(place, q.url)
           full == Mode = "cimd" /\ Cardinality(Placed(used)) > Capacity
           kept == [cache EXCEPT ![q.url] = entry]
<1>1. /\ q.pc = "store" /\ fetcher' = [fetcher EXCEPT ![r] = NoFetch]
      /\ UNCHANGED <<doc, gone, reached>>
  BY DEF store, remote
<1>2. /\ DocumentTypeOK /\ ServedNotGone /\ CopiesYoung /\ CachedSound /\ FetchesChecked /\ InOrder
      /\ ReachedAsChecked /\ OnlyValidServed /\ ServedInTime
  BY DEF DocumentsInv
<1>3. /\ q \in Fetching /\ q.url \in DocUrl /\ q.ttl \in 0..MaxTTL /\ q.age \in 0..Timeout
      /\ q.copy \in Doc /\ q.copy.ver \in 0..MaxEdition
      /\ GoneFor(q.url, q.copy.ver, q.age)
  BY <1>1, <1>2 DEF DocumentTypeOK, NoFetch, Fetching, CopiesYoung, Doc
<1>4. fetcher' \in [Fetcher -> Fetching \cup {NoFetch}]
  BY <1>1, <1>2 DEF DocumentTypeOK
<1>5. \A s \in Fetcher : fetcher'[s] = fetcher[s] \/ fetcher'[s] = NoFetch
  BY <1>1, <1>2 DEF DocumentTypeOK
<1>6. ServedNotGone' /\ ReachedAsChecked'
  BY <1>1, <1>2 DEF ServedNotGone, ReachedAsChecked
<1>7. CopiesYoung'
  BY <1>1, <1>2, <1>5 DEF CopiesYoung, GoneFor, NoFetch
<1>8. FetchesChecked'
  BY <1>1, <1>2, <1>5 DEF FetchesChecked, NoFetch
<1>9. CASE UNCHANGED <<cache, place, given>>
  <2>1. DocumentTypeOK'
    BY <1>1, <1>2, <1>4, <1>9 DEF DocumentTypeOK
  <2>2. CachedSound' /\ InOrder' /\ OnlyValidServed' /\ ServedInTime'
    BY <1>1, <1>2, <1>9 DEF CachedSound, GoneFor, InOrder, OnlyValidServed, ServedInTime
  <2> QED  BY <1>6, <1>7, <1>8, <2>1, <2>2 DEF DocumentsInv
<1>10. CASE /\ document_to_client(q.copy)
            /\ cache' = [u \in DocUrl |-> IF full /\ used[u] = 1 THEN Nil ELSE kept[u]]
            /\ place' = (IF full THEN Evict(used) ELSE used)
            /\ given' = [url |-> q.url, doc |-> q.copy]
  <2>1. entry \in CachedDoc /\ entry.doc.valid /\ entry.doc = q.copy /\ entry.left = q.ttl
    BY <1>3, <1>10 DEF CachedDoc, document_to_client
  <2>2. gone[q.url][q.copy.ver] \in Nat \cup {Nil}
    BY <1>2, <1>3 DEF DocumentTypeOK
  <2>3. GoneFor(q.url, q.copy.ver, ServedLag - q.ttl) /\ GoneFor(q.url, q.copy.ver, ServedLag)
    BY <1>3, <2>2, DocumentAssumption DEF GoneFor, ServedLag
  <2> HIDE DEF entry, used, full, q
  <2>4. \A u \in DocUrl : cache'[u] = Nil \/ cache'[u] = (IF u = q.url THEN entry ELSE cache[u])
    BY <1>2, <1>10 DEF DocumentTypeOK
  <2>5. DocumentTypeOK'
    <3>1. cache' \in [DocUrl -> CachedDoc \cup {Nil}]
      BY <1>2, <1>10, <2>1, <2>4 DEF DocumentTypeOK
    <3>2. given' \in GivenDoc \cup {Nil}
      BY <1>3, <1>10 DEF GivenDoc
    <3> QED  BY <1>1, <1>2, <1>4, <3>1, <3>2 DEF DocumentTypeOK
  <2>6. CachedSound'
    <3> SUFFICES ASSUME NEW u \in DocUrl, cache'[u] # Nil
                 PROVE  /\ cache'[u].doc.valid
                        /\ cache'[u].left # 0 => GoneFor(u, cache'[u].doc.ver, ServedLag - cache'[u].left)
      BY <1>1 DEF CachedSound, GoneFor, ServedLag
    <3>1. CASE u = q.url
      <4>1. cache'[u] = entry  BY <2>4, <3>1
      <4> QED  BY <2>1, <2>3, <3>1, <4>1
    <3>2. CASE u # q.url
      <4>1. cache'[u] = cache[u] /\ cache[u] # Nil  BY <2>4, <3>2
      <4> QED  BY <1>2, <4>1 DEF CachedSound
    <3> QED  BY <3>1, <3>2
  <2>7. OnlyValidServed' /\ ServedInTime'
    BY <1>1, <1>10, <2>3 DEF OnlyValidServed, ServedInTime, GoneFor, ServedLag, document_to_client
  <2>8. InOrder'
    <3>1. PICK n \in Nat : Ranking(place, n) /\ (Mode = "cimd" => n <= Capacity)
      BY <1>2 DEF InOrder
    <3>2. PICK m \in Nat : Ranking(used, m) /\ m <= n + 1
      BY <1>3, <3>1, PromoteRanks DEF used
    <3>3. \A w \in DocUrl : used[w] = 0 => w # q.url /\ place[w] = 0
      BY <1>3, <3>1, PromoteKeeps DEF used
    <3>4. full <=> Mode = "cimd" /\ m > Capacity
      BY <3>2, RankingCounts DEF full
    <3>5. \A w \in DocUrl : used[w] = 0 => cache'[w] = Nil
      BY <1>2, <2>4, <3>3 DEF InOrder
    <3>6. CASE ~full
      <4>1. Ranking(place', m)  BY <1>10, <3>2, <3>6
      <4>2. Mode = "cimd" => m <= Capacity  BY <3>4, <3>6, DocumentAssumption
      <4> QED  BY <1>10, <3>5, <3>6, <4>1, <4>2 DEF InOrder
    <3>7. CASE full
      <4>1. m = n + 1 /\ n <= Capacity  BY <3>1, <3>2, <3>4, <3>7, DocumentAssumption
      <4>2. Ranking(place', n)  BY <1>10, <3>2, <3>7, <4>1, EvictRanks
      <4>3. \A w \in DocUrl : used[w] \in Nat /\ (place'[w] = 0 => used[w] = 0 \/ used[w] = 1)
        BY <1>10, <3>2, <3>7 DEF Evict, Ranking
      <4>4. \A w \in DocUrl : place'[w] = 0 => cache'[w] = Nil  BY <1>10, <3>5, <3>7, <4>3
      <4> QED  BY <4>1, <4>2, <4>4 DEF InOrder
    <3> QED  BY <3>6, <3>7
  <2> QED  BY <1>6, <1>7, <1>8, <2>5, <2>6, <2>7, <2>8 DEF DocumentsInv
<1> QED  BY <1>9, <1>10 DEF store

\* A document is replaced: only the version that was served becomes outdated,
\* and that only now.
LEMMA PublishKeeps ==
    ASSUME DocumentsInv, NEW x \in DocUrl, NEW valid \in BOOLEAN, Publish(x, valid)
    PROVE  DocumentsInv'
<1> DEFINE now == doc[x].ver
<1>1. /\ doc[x].ver < MaxEdition
      /\ doc' = [doc EXCEPT ![x] = [ver |-> doc[x].ver + 1, valid |-> valid]]
      /\ gone' = [gone EXCEPT ![x][now] = 0]
      /\ UNCHANGED <<cache, place, fetcher, reached, given>>
  BY DEF Publish
<1>2. /\ DocumentTypeOK /\ ServedNotGone /\ CopiesYoung /\ CachedSound /\ FetchesChecked /\ InOrder
      /\ ReachedAsChecked /\ OnlyValidServed /\ ServedInTime
  BY DEF DocumentsInv
<1>3. now \in 0..MaxEdition /\ now + 1 \in 0..MaxEdition
  BY <1>1, <1>2, DocumentAssumption DEF DocumentTypeOK, Doc
<1> HIDE DEF now
<1>4. \A u \in DocUrl, v \in 0..MaxEdition :
         /\ gone[u][v] \in Nat \cup {Nil}
         /\ gone'[u][v] = (IF u = x /\ v = now THEN 0 ELSE gone[u][v])
  BY <1>1, <1>2, <1>3 DEF DocumentTypeOK
<1>5. DocumentTypeOK'
  <2>1. doc' \in [DocUrl -> Doc]
    <3>1. [ver |-> now + 1, valid |-> valid] \in Doc  BY <1>3 DEF Doc
    <3> QED  BY <1>1, <1>2, <3>1 DEF DocumentTypeOK, now
  <2>2. gone' \in [DocUrl -> [0..MaxEdition -> Nat \cup {Nil}]]
    <3>1. [gone[x] EXCEPT ![now] = 0] \in [0..MaxEdition -> Nat \cup {Nil}]
      BY <1>2 DEF DocumentTypeOK
    <3>2. gone' = [gone EXCEPT ![x] = [gone[x] EXCEPT ![now] = 0]]
      BY <1>1
    <3> QED  BY <1>2, <3>1, <3>2 DEF DocumentTypeOK
  <2> QED  BY <1>1, <1>2, <2>1, <2>2 DEF DocumentTypeOK
<1>6. ServedNotGone'
  <2> SUFFICES ASSUME NEW u \in DocUrl, NEW v \in 0..MaxEdition, v >= doc'[u].ver
               PROVE  gone'[u][v] = Nil
    BY DEF ServedNotGone
  <2>1. CASE u = x
    <3>1. doc'[u].ver = now + 1  BY <1>1, <1>2, <2>1 DEF DocumentTypeOK, now
    <3>2. v >= now /\ v # now  BY <1>3, <3>1
    <3> QED  BY <1>2, <1>4, <2>1, <3>2 DEF ServedNotGone, now
  <2>2. CASE u # x
    <3>1. doc'[u] = doc[u]  BY <1>1, <1>2, <2>2 DEF DocumentTypeOK
    <3> QED  BY <1>2, <1>4, <2>2, <3>1 DEF ServedNotGone
  <2> QED  BY <2>1, <2>2
\* Nothing is outdated for longer than before.
<1>7. \A u \in DocUrl, v \in 0..MaxEdition, b \in Nat :
         (gone[u][v] # Nil => gone[u][v] <= b) => (gone'[u][v] # Nil => gone'[u][v] <= b)
  BY <1>4
<1>8. CopiesYoung'
  <2> SUFFICES ASSUME NEW r \in Fetcher, fetcher[r].pc = "store"
               PROVE  /\ fetcher[r].copy \in Doc
                      /\ gone'[fetcher[r].url][fetcher[r].copy.ver] # Nil =>
                            gone'[fetcher[r].url][fetcher[r].copy.ver] <= fetcher[r].age
    BY <1>1 DEF CopiesYoung, GoneFor
  <2>1. /\ fetcher[r].url \in DocUrl /\ fetcher[r].copy \in Doc /\ fetcher[r].age \in Nat
        /\ fetcher[r].copy.ver \in 0..MaxEdition
    BY <1>2, DocumentAssumption DEF DocumentTypeOK, NoFetch, Fetching, CopiesYoung, Doc
  <2>2. GoneFor(fetcher[r].url, fetcher[r].copy.ver, fetcher[r].age)
    BY <1>2 DEF CopiesYoung
  <2> QED  BY <1>7, <2>1, <2>2 DEF GoneFor
<1>9. CachedSound'
  <2> SUFFICES ASSUME NEW u \in DocUrl, cache[u] # Nil
               PROVE  /\ cache[u].doc.valid
                      /\ cache[u].left # 0 =>
                            (gone'[u][cache[u].doc.ver] # Nil =>
                               gone'[u][cache[u].doc.ver] <= ServedLag - cache[u].left)
    BY <1>1 DEF CachedSound, GoneFor, ServedLag
  <2>1. cache[u].doc.ver \in 0..MaxEdition /\ cache[u].left \in 0..MaxTTL
    BY <1>2 DEF DocumentTypeOK, CachedDoc, Doc
  <2>2. ServedLag - cache[u].left \in Nat
    BY <2>1, DocumentAssumption DEF ServedLag
  <2> QED  BY <1>2, <1>7, <2>1, <2>2 DEF CachedSound, GoneFor
<1>10. ServedInTime'
  <2> SUFFICES ASSUME given # Nil
               PROVE  gone'[given.url][given.doc.ver] # Nil => gone'[given.url][given.doc.ver] <= ServedLag
    BY <1>1 DEF ServedInTime, ServedLag
  <2>1. given.url \in DocUrl /\ given.doc.ver \in 0..MaxEdition /\ ServedLag \in Nat
    BY <1>2, DocumentAssumption DEF DocumentTypeOK, GivenDoc, Doc, ServedLag
  <2> QED  BY <1>2, <1>7, <2>1 DEF ServedInTime
<1>11. FetchesChecked' /\ InOrder' /\ OnlyValidServed' /\ ReachedAsChecked'
  BY <1>1, <1>2 DEF FetchesChecked, InOrder, OnlyValidServed, ReachedAsChecked
<1> QED  BY <1>5, <1>6, <1>8, <1>9, <1>10, <1>11 DEF DocumentsInv

\* Time passes: what an entry has been outdated for grows as its lifetime
\* shrinks, and with the age of the request that carries a copy.
LEMMA TimePassesKeeps ==
    ASSUME DocumentsInv, TimePasses
    PROVE  DocumentsInv'
<1>1. /\ \A r \in Fetcher : fetcher[r] # NoFetch => fetcher[r].age < Timeout
      /\ cache' = [u \in DocUrl |-> IF cache[u] = Nil \/ cache[u].left = 0
                                     THEN cache[u] ELSE [cache[u] EXCEPT !.left = @ - 1]]
      /\ gone' = [u \in DocUrl |-> [v \in 0..MaxEdition |->
                    IF gone[u][v] \in {Nil, ServedLag + 1} THEN gone[u][v] ELSE gone[u][v] + 1]]
      /\ fetcher' = [r \in Fetcher |-> IF fetcher[r] = NoFetch THEN NoFetch
                                        ELSE [fetcher[r] EXCEPT !.age = @ + 1]]
      /\ given' = Nil
      /\ UNCHANGED <<doc, place, reached>>
  BY DEF TimePasses
<1>2. /\ DocumentTypeOK /\ ServedNotGone /\ CopiesYoung /\ CachedSound /\ FetchesChecked /\ InOrder
      /\ ReachedAsChecked /\ OnlyValidServed /\ ServedInTime
  BY DEF DocumentsInv
<1>3. \A u \in DocUrl, v \in 0..MaxEdition :
         /\ gone[u][v] \in Nat \cup {Nil}
         /\ gone[u][v] = Nil => gone'[u][v] = Nil
         /\ gone[u][v] # Nil => gone'[u][v] \in {gone[u][v], gone[u][v] + 1}
         /\ gone'[u][v] \in Nat \cup {Nil}
  BY <1>1, <1>2, DocumentAssumption DEF DocumentTypeOK
<1>4. \A u \in DocUrl :  \/ cache'[u] = cache[u] /\ (cache[u] = Nil \/ cache[u].left = 0)
                         \/ /\ cache[u] # Nil /\ cache[u].left \in 1..MaxTTL /\ cache'[u] \in CachedDoc
                            /\ cache'[u].doc = cache[u].doc /\ cache'[u].left = cache[u].left - 1
  <2> SUFFICES ASSUME NEW u \in DocUrl, cache[u] # Nil, cache[u].left # 0
               PROVE  /\ cache[u].left \in 1..MaxTTL /\ cache'[u] \in CachedDoc
                      /\ cache'[u].doc = cache[u].doc /\ cache'[u].left = cache[u].left - 1
    BY <1>1
  <2>1. cache[u] \in CachedDoc
    BY <1>2 DEF DocumentTypeOK
  <2>2. cache'[u] = [cache[u] EXCEPT !.left = @ - 1]
    BY <1>1
  <2>3. cache[u].left \in 1..MaxTTL /\ cache[u].left - 1 \in 0..MaxTTL
    BY <2>1, DocumentAssumption DEF CachedDoc
  <2> QED  BY <2>1, <2>2, <2>3 DEF CachedDoc
<1>5. \A r \in Fetcher : \/ fetcher'[r] = NoFetch
                         \/ /\ fetcher[r] \in Fetching /\ fetcher'[r] \in Fetching
                            /\ fetcher'[r].pc = fetcher[r].pc /\ fetcher'[r].url = fetcher[r].url
                            /\ fetcher'[r].addrs = fetcher[r].addrs /\ fetcher'[r].copy = fetcher[r].copy
                            /\ fetcher'[r].age = fetcher[r].age + 1
  <2> SUFFICES ASSUME NEW r \in Fetcher, fetcher[r] # NoFetch
               PROVE  /\ fetcher[r] \in Fetching /\ fetcher'[r] \in Fetching
                      /\ fetcher'[r].pc = fetcher[r].pc /\ fetcher'[r].url = fetcher[r].url
                      /\ fetcher'[r].addrs = fetcher[r].addrs /\ fetcher'[r].copy = fetcher[r].copy
                      /\ fetcher'[r].age = fetcher[r].age + 1
    BY <1>1
  <2>1. fetcher[r] \in Fetching
    BY <1>2 DEF DocumentTypeOK
  <2>2. fetcher'[r] = [fetcher[r] EXCEPT !.age = @ + 1]
    BY <1>1
  <2>3. fetcher[r].age + 1 \in 0..Timeout
    BY <1>1, <2>1, DocumentAssumption DEF Fetching
  <2> QED  BY <2>1, <2>2, <2>3 DEF Fetching
<1>6. DocumentTypeOK'
  <2>1. cache' \in [DocUrl -> CachedDoc \cup {Nil}]
    <3>1. \A u \in DocUrl : cache'[u] \in CachedDoc \cup {Nil}  BY <1>2, <1>4 DEF DocumentTypeOK
    <3>2. cache' = [u \in DocUrl |-> cache'[u]]  BY <1>1
    <3> QED  BY <3>1, <3>2
  <2>2. gone' \in [DocUrl -> [0..MaxEdition -> Nat \cup {Nil}]]
    <3> DEFINE g(u, v) == IF gone[u][v] \in {Nil, ServedLag + 1} THEN gone[u][v] ELSE gone[u][v] + 1
    <3>1. gone' = [u \in DocUrl |-> [v \in 0..MaxEdition |-> g(u, v)]]  BY <1>1
    <3>2. \A u \in DocUrl, v \in 0..MaxEdition : g(u, v) \in Nat \cup {Nil}  BY <1>3, DocumentAssumption
    <3> HIDE DEF g
    <3> QED  BY <3>1, <3>2
  <2>3. fetcher' \in [Fetcher -> Fetching \cup {NoFetch}]
    <3>1. \A r \in Fetcher : fetcher'[r] \in Fetching \cup {NoFetch}  BY <1>5
    <3>2. fetcher' = [r \in Fetcher |-> fetcher'[r]]  BY <1>1
    <3> QED  BY <3>1, <3>2
  <2> QED  BY <1>1, <1>2, <2>1, <2>2, <2>3 DEF DocumentTypeOK
<1>7. ServedNotGone'
  BY <1>1, <1>2, <1>3 DEF ServedNotGone
<1>8. CopiesYoung'
  <2> SUFFICES ASSUME NEW r \in Fetcher, fetcher'[r].pc = "store"
               PROVE  /\ fetcher'[r].copy \in Doc
                      /\ gone'[fetcher'[r].url][fetcher'[r].copy.ver] # Nil =>
                            gone'[fetcher'[r].url][fetcher'[r].copy.ver] <= fetcher'[r].age
    BY DEF CopiesYoung, GoneFor
  <2> DEFINE u == fetcher[r].url
             v == fetcher[r].copy.ver
  <2>1. /\ fetcher[r] \in Fetching /\ fetcher[r].pc = "store" /\ fetcher'[r].url = u
        /\ fetcher'[r].copy = fetcher[r].copy /\ fetcher'[r].age = fetcher[r].age + 1
    BY <1>5 DEF NoFetch
  <2>2. fetcher[r].copy \in Doc /\ GoneFor(u, v, fetcher[r].age)
    BY <1>2, <2>1 DEF CopiesYoung
  <2>3. u \in DocUrl /\ v \in 0..MaxEdition /\ fetcher[r].age \in Nat
    BY <2>1, <2>2, DocumentAssumption DEF Fetching, Doc
  <2> HIDE DEF u, v
  <2>4. gone'[u][v] # Nil => gone'[u][v] <= fetcher[r].age + 1
    BY <1>3, <2>2, <2>3 DEF GoneFor
  <2> QED  BY <2>1, <2>2, <2>4 DEF v
<1>9. CachedSound'
  <2> SUFFICES ASSUME NEW u \in DocUrl, cache'[u] # Nil
               PROVE  /\ cache'[u].doc.valid
                      /\ cache'[u].left # 0 =>
                            (gone'[u][cache'[u].doc.ver] # Nil =>
                               gone'[u][cache'[u].doc.ver] <= ServedLag - cache'[u].left)
    BY DEF CachedSound, GoneFor, ServedLag
  <2>1. cache[u] # Nil /\ cache[u].doc.valid /\ cache'[u].doc = cache[u].doc
    BY <1>2, <1>4 DEF CachedSound
  <2>2. ASSUME cache'[u].left # 0, gone'[u][cache[u].doc.ver] # Nil
        PROVE  gone'[u][cache[u].doc.ver] <= ServedLag - cache'[u].left
    <3>1. cache[u].left \in 1..MaxTTL /\ cache'[u].left = cache[u].left - 1
      BY <1>4, <2>1, <2>2
    <3>2. cache[u].doc.ver \in 0..MaxEdition
      BY <1>2, <2>1 DEF DocumentTypeOK, CachedDoc, Doc
    <3>3. gone[u][cache[u].doc.ver] # Nil /\ gone[u][cache[u].doc.ver] \in Nat
      BY <1>3, <2>2, <3>2
    <3>4. gone[u][cache[u].doc.ver] <= ServedLag - cache[u].left
      BY <1>2, <2>1, <3>1, <3>3 DEF CachedSound, GoneFor
    <3>5. gone'[u][cache[u].doc.ver] \in {gone[u][cache[u].doc.ver], gone[u][cache[u].doc.ver] + 1}
      BY <1>3, <3>2, <3>3
    <3> QED  BY <3>1, <3>3, <3>4, <3>5, DocumentAssumption DEF ServedLag
  <2> QED  BY <2>1, <2>2
<1>10. FetchesChecked'
  BY <1>2, <1>5 DEF FetchesChecked, NoFetch
<1>11. InOrder'
  <2>1. \A u \in DocUrl : cache[u] = Nil => cache'[u] = Nil  BY <1>1
  <2> QED  BY <1>1, <1>2, <2>1 DEF InOrder
<1>12. OnlyValidServed' /\ ServedInTime' /\ ReachedAsChecked'
  BY <1>1, <1>2 DEF OnlyValidServed, ServedInTime, ReachedAsChecked
<1> QED  BY <1>6, <1>7, <1>8, <1>9, <1>10, <1>11, <1>12 DEF DocumentsInv

LEMMA DocumentsStep == DocumentsInv /\ [DocumentNext]_documentVars => DocumentsInv'
<1> SUFFICES ASSUME DocumentsInv, [DocumentNext]_documentVars PROVE DocumentsInv'
  OBVIOUS
<1>1. ASSUME NEW r \in Fetcher, FetchStep(r) PROVE DocumentsInv'
  BY <1>1, ResolveKeeps, FetchKeeps, StoreKeeps DEF FetchStep
<1>2. ASSUME NEW r \in Fetcher, NEW u \in DocUrl, Begin(r, u) PROVE DocumentsInv'
  BY <1>2, HitKeeps, MissKeeps
<1>3. ASSUME NEW u \in DocUrl, NEW valid \in BOOLEAN, Publish(u, valid) PROVE DocumentsInv'
  BY <1>3, PublishKeeps
<1>4. CASE TimePasses
  BY <1>4, TimePassesKeeps
<1>5. CASE UNCHANGED documentVars
  <2>1. UNCHANGED <<doc, gone, cache, place, fetcher, reached, given>>
    BY <1>5 DEF documentVars, remote
  <2> QED  BY <2>1 DEF DocumentsInv, DocumentTypeOK, ServedNotGone, CopiesYoung, CachedSound, FetchesChecked,
               InOrder, OnlyValidServed, ServedInTime, ReachedAsChecked, GoneFor
<1> QED  BY <1>1, <1>2, <1>3, <1>4, <1>5 DEF DocumentNext

\* What failed validation is never found in either cache, a withdrawn document
\* is served no longer than its lifetime and a request allow, and metadata comes
\* from admitted hosts and checked addresses into a map within its bound.
THEOREM DocumentsChecked == DocumentSpec => []OnlyCheckedServed
BY DocumentsInitially, DocumentsStep, DocumentsInvChecked, PTL DEF DocumentSpec
=============================================================================
