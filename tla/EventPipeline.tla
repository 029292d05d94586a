---------------------------- MODULE EventPipeline ----------------------------
(***************************************************************************)
(* Events on their way out of the server: the core flows and the ingest    *)
(* endpoint publish, a spawned task hands each event to the event actor,   *)
(* which filters it and lets every plugin emit it in parallel.  The        *)
(* endpoint drops repeated requests by their idempotency key, in memory.   *)
(* One plugin, and the endpoint itself, keep a list of recent events for   *)
(* the administrators, in memory or in Redis.                              *)
(***************************************************************************)
EXTENDS Naturals, Sequences, FiniteSets

CONSTANTS
    Envelope,       \* what producers send: [id, header, type], header Blank or a key
    EventKey, Blank,    \* ids and idempotency keys
    Kept,           \* the event types the filter lets through
    Plugin, Memory, Recent, \* the plugins; the in-memory logger; the list of recent events
    RedisList,      \* the list of recent events is in Redis
    Ingest,         \* concurrent requests to the ingest endpoint
    KeyTTL, MaxKeys,    \* lifetime and number of the recorded keys
    ListCapacity, MaxEvents, \* of the list of recent events and the in-memory logger
    MaxItems, MaxCrashes    \* bounds on events and crashes

ASSUME EventAssumption ==
    /\ \A env \in Envelope : env.id \in EventKey /\ env.header \in EventKey \cup {Blank}
    /\ Blank \notin EventKey /\ Blank \notin Nat
    /\ RedisList \in BOOLEAN /\ KeyTTL \in Nat /\ ListCapacity \in Nat /\ MaxEvents \in Nat \ {0}

VARIABLES
    keyAge,     \* IdempotencyStore: the age of each key, or Blank
    ingesting,  \* ingest requests under way
    spawned,    \* tasks of publish_best_effort
    mailbox,    \* of the event actor
    emitting,   \* <<item, plugin>>: emits under way
    trimming,   \* LTRIMs still to come
    recent,     \* the list of recent events, newest first
    taken,      \* what each plugin has taken, oldest first
    items,      \* history: number of events so far
    crashes,    \* history: number of crashes
    shown,      \* history: everything put into the list, newest first
    lapsed,     \* history: keys forgotten after they were recorded
    hungUp,     \* history: keys of requests dropped before they published
    repeated,   \* history: the last key answered "duplicate"
    published,  \* history: keys published by the endpoint
    attempted   \* history: <<number, plugin>> of every emit that has ended

eventHistory == <<items, crashes, shown, lapsed, hungUp, repeated, published, attempted>>
eventVars == <<keyAge, ingesting, spawned, mailbox, emitting, trimming, recent, taken, eventHistory>>

\* An event on its way: its number tells apart what envelopes do not.
Item(env) == [env |-> env, n |-> items + 1]
NoItem == [env |-> Blank, n |-> 0]

EventInit ==
    /\ keyAge = [k \in EventKey |-> Blank]
    /\ ingesting = [r \in Ingest |-> [pc |-> "idle", item |-> NoItem]]
    /\ spawned = {} /\ mailbox = <<>> /\ emitting = {} /\ trimming = 0
    /\ recent = <<>>
    /\ taken = [p \in Plugin |-> <<>>]
    /\ items = 0 /\ crashes = 0 /\ shown = <<>> /\ lapsed = {} /\ hungUp = {}
    /\ repeated = Blank /\ published = {} /\ attempted = {}

Newest(list, n) == [i \in 1..(IF Len(list) < n THEN Len(list) ELSE n) |-> list[i]]

-----------------------------------------------------------------------------
(* The endpoint *)

\* Mutant: the idempotency header is ignored.
EventIdOnly(env) == env.id

effective_idempotency_key(env) == IF env.header # Blank THEN env.header ELSE env.id

Expired(k) == keyAge[k] # Blank /\ keyAge[k] > KeyTTL

\* ingest up to the dedup check: the store is locked while it forgets what
\* is too old, looks for the key and records it, emptied first when full.
is_duplicate_and_record(r, env) ==
    LET k == effective_idempotency_key(env)
        old == {j \in EventKey : Expired(j)}
        valid == {j \in EventKey : keyAge[j] # Blank} \ old
        clear == k \notin valid /\ Cardinality(valid) >= MaxKeys
        gone == old \cup IF clear THEN valid ELSE {}
    IN /\ ingesting[r].pc = "idle" /\ items < MaxItems
       /\ keyAge' = [j \in EventKey |-> IF j = k /\ k \notin valid THEN 0
                                        ELSE IF j \in gone THEN Blank ELSE keyAge[j]]
       /\ lapsed' = lapsed \cup gone
       /\ IF k \in valid
          THEN repeated' = k /\ UNCHANGED <<ingesting, items>>
          ELSE /\ ingesting' = [ingesting EXCEPT ![r] = [pc |-> "push", item |-> Item(env)]]
               /\ items' = items + 1 /\ repeated' = Blank
       /\ UNCHANGED <<spawned, mailbox, emitting, trimming, recent, taken, crashes, shown,
                      hungUp, published, attempted>>

\* RecentEventsStore::push in memory, or the LPUSH that an LTRIM follows.
pushRecent(item) ==
    /\ recent' = IF RedisList THEN <<item>> \o recent
                 ELSE Newest(<<item>> \o recent, ListCapacity)
    /\ trimming' = IF RedisList THEN trimming + 1 ELSE trimming
    /\ shown' = <<item>> \o shown

\* LTRIM 0, capacity - 1
TrimRecent ==
    /\ trimming > 0
    /\ recent' = Newest(recent, ListCapacity)
    /\ trimming' = trimming - 1
    /\ UNCHANGED <<keyAge, ingesting, spawned, mailbox, emitting, taken, eventHistory>>

\* What GET /admin/api/events shows.
snapshot == Newest(recent, ListCapacity)

PushIngested(r) ==
    /\ ingesting[r].pc = "push"
    /\ pushRecent(ingesting[r].item)
    /\ ingesting' = [ingesting EXCEPT ![r].pc = "publish"]
    /\ UNCHANGED <<keyAge, spawned, mailbox, emitting, taken, items, crashes, lapsed, hungUp,
                   repeated, published, attempted>>

ingest(r) ==
    LET item == ingesting[r].item
    IN /\ ingesting[r].pc = "publish"
       /\ spawned' = spawned \cup {item}
       /\ published' = published \cup {effective_idempotency_key(item.env)}
       /\ ingesting' = [ingesting EXCEPT ![r] = [pc |-> "idle", item |-> NoItem]]
       /\ UNCHANGED <<keyAge, mailbox, emitting, trimming, recent, taken, items, crashes, shown,
                      lapsed, hungUp, repeated, attempted>>

\* The producer hangs up, and the server drops the handler where it waits.
HangUp(r) ==
    /\ ingesting[r].pc \in {"push", "publish"}
    /\ hungUp' = hungUp \cup {effective_idempotency_key(ingesting[r].item.env)}
    /\ ingesting' = [ingesting EXCEPT ![r] = [pc |-> "idle", item |-> NoItem]]
    /\ UNCHANGED <<keyAge, spawned, mailbox, emitting, trimming, recent, taken, items, crashes,
                   shown, lapsed, repeated, published, attempted>>

-----------------------------------------------------------------------------
(* The bus *)

\* A core flow publishes an event of its own, without a key; nothing dedups it.
publish_best_effort(env) ==
    /\ items < MaxItems /\ env.header = Blank
    /\ spawned' = spawned \cup {Item(env)}
    /\ items' = items + 1
    /\ UNCHANGED <<keyAge, ingesting, mailbox, emitting, trimming, recent, taken, crashes, shown,
                   lapsed, hungUp, repeated, published, attempted>>

\* do_send: tasks run in any order, and the mailbox takes every message.
publish(item) ==
    /\ item \in spawned
    /\ spawned' = spawned \ {item}
    /\ mailbox' = Append(mailbox, item)
    /\ UNCHANGED <<keyAge, ingesting, emitting, trimming, recent, taken, eventHistory>>

should_emit(type) == type \in Kept

EmitEvent ==
    /\ mailbox # <<>>
    /\ mailbox' = Tail(mailbox)
    /\ emitting' = emitting \cup
          {<<Head(mailbox), p>> : p \in {q \in Plugin : should_emit(Head(mailbox).env.type)}}
    /\ UNCHANGED <<keyAge, ingesting, spawned, trimming, recent, taken, eventHistory>>

\* The in-memory logger forgets its oldest events.
Take(p, item) ==
    LET l == Append(taken[p], item)
    IN taken' = [taken EXCEPT ![p] = IF p = Memory /\ Len(l) > MaxEvents THEN Tail(l) ELSE l]

\* A broker refuses the event, or loses it after the plugin let go of it.
EmitFails(item, p) ==
    /\ <<item, p>> \in emitting /\ p \notin {Memory, Recent}
    /\ emitting' = emitting \ {<<item, p>>}
    /\ attempted' = attempted \cup {<<item.n, p>>}
    /\ UNCHANGED <<keyAge, ingesting, spawned, mailbox, trimming, recent, taken, items,
                   crashes, shown, lapsed, hungUp, repeated, published>>

emit(item, p) ==
    /\ <<item, p>> \in emitting
    /\ emitting' = emitting \ {<<item, p>>}
    /\ attempted' = attempted \cup {<<item.n, p>>}
    /\ Take(p, item)
    /\ IF p = Recent THEN pushRecent(item) ELSE UNCHANGED <<recent, trimming, shown>>
    /\ UNCHANGED <<keyAge, ingesting, spawned, mailbox, items, crashes, lapsed, hungUp, repeated,
                   published>>

-----------------------------------------------------------------------------
\* Everything in memory is lost; the brokers and Redis are not.
Crash ==
    /\ crashes < MaxCrashes
    /\ crashes' = crashes + 1
    /\ keyAge' = [k \in EventKey |-> Blank]
    /\ lapsed' = lapsed \cup {k \in EventKey : keyAge[k] # Blank}
    /\ ingesting' = [r \in Ingest |-> [pc |-> "idle", item |-> NoItem]]
    /\ spawned' = {} /\ mailbox' = <<>> /\ emitting' = {} /\ trimming' = 0
    /\ IF RedisList THEN UNCHANGED <<recent, shown>> ELSE recent' = <<>> /\ shown' = <<>>
    /\ taken' = [taken EXCEPT ![Memory] = <<>>]
    /\ repeated' = Blank
    /\ UNCHANGED <<items, hungUp, published, attempted>>

KeysAge ==
    /\ \E k \in EventKey : keyAge[k] # Blank /\ keyAge[k] <= KeyTTL
    /\ keyAge' = [k \in EventKey |-> IF keyAge[k] # Blank /\ keyAge[k] <= KeyTTL
                                     THEN keyAge[k] + 1 ELSE keyAge[k]]
    /\ UNCHANGED <<ingesting, spawned, mailbox, emitting, trimming, recent, taken, eventHistory>>

Deliver ==
    \/ \E item \in spawned : publish(item)
    \/ EmitEvent

EventNext ==
    \/ \E r \in Ingest :
          \/ \E env \in Envelope : is_duplicate_and_record(r, env)
          \/ PushIngested(r) \/ ingest(r) \/ HangUp(r)
    \/ \E env \in Envelope : publish_best_effort(env)
    \/ Deliver
    \/ \E e \in emitting : emit(e[1], e[2]) \/ EmitFails(e[1], e[2])
    \/ TrimRecent \/ Crash \/ KeysAge

\* The runtime polls every task that can go on, and a broker's client gives
\* up in the end.
Ended(n, p) == \E e \in emitting : e[1].n = n /\ e[2] = p /\ (emit(e[1], p) \/ EmitFails(e[1], p))

EventFairness ==
    /\ \A n \in 1..MaxItems : WF_eventVars(\E item \in spawned : item.n = n /\ publish(item))
    /\ WF_eventVars(EmitEvent)
    /\ \A n \in 1..MaxItems, p \in Plugin : WF_eventVars(Ended(n, p))

EventSpec == EventInit /\ [][EventNext]_eventVars /\ EventFairness

-----------------------------------------------------------------------------
(* Properties *)

\* However requests are repeated, also at the same time and with a new event
\* id, no plugin takes two events of the endpoint under one key, unless the
\* key was forgotten in between: too old, too many, or a restart
\* (is_duplicate_and_record).
DeliveredOnce ==
    \A p \in Plugin : \A i, j \in 1..Len(taken[p]) :
        LET a == taken[p][i].env
            b == taken[p][j].env
        IN (i # j /\ a.header # Blank /\ a.header = b.header) => a.header \in lapsed

\* A request answered "duplicate" repeats one that published, or is about
\* to, unless that one was dropped on its way (ingest).
DuplicateOfSomething ==
    repeated # Blank =>
        \/ repeated \in published \cup hungUp
        \/ \E r \in Ingest : ingesting[r].pc # "idle"
                               /\ effective_idempotency_key(ingesting[r].item.env) = repeated

\* The list shows the newest events put into it, whoever puts and trims at
\* the same time and wherever the server crashes (push, snapshot).
SnapshotNewest == snapshot = Newest(shown, ListCapacity)

\* The in-memory logger keeps within its bound (Take).
LoggerBounded == Memory \in Plugin => Len(taken[Memory]) <= MaxEvents

\* No plugin takes two events under one key unless the key was forgotten,
\* "duplicate" is said of something that was, or is being, published, and the
\* list shows the newest events.
EventsAccounted == DeliveredOnce /\ DuplicateOfSomething /\ SnapshotNewest /\ LoggerBounded

\* Every event published that the filter lets through is offered to every
\* plugin, whatever other plugins do (EmitEvent).
OfferedToAll ==
    \A n \in 1..MaxItems :
        (\E item \in spawned : item.n = n /\ should_emit(item.env.type))
            ~> \A p \in Plugin : <<n, p>> \in attempted
=============================================================================
