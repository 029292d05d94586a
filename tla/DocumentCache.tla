----------------------------- MODULE DocumentCache -----------------------------
(***************************************************************************)
(* The two caches of remote documents: JwksCache (key sets of clients and  *)
(* issuers) and CimdFetcher (client metadata, named by the client itself). *)
(* Each looks in its map under a lock, lets go of the lock to fetch, and   *)
(* takes it again to store; nothing keeps two requests from fetching the   *)
(* same URL at once, nor their answers from arriving in another order.     *)
(* CimdFetcher checks host and addresses first and bounds its map.         *)
(***************************************************************************)
EXTENDS Integers, FiniteSets

CONSTANTS
    Mode,           \* "jwks" or "cimd"
    DocUrl, Fetcher, Nil,  \* URLs of documents; concurrent requests for them
    Host,           \* the host of each URL, without a final dot
    Dotted,         \* URLs that spell their host with a final dot
    Malformed,      \* URLs that are not client ids
    Denied, Allowed,        \* host lists; an empty Allowed allows all
    MaxAge,         \* the max-age values servers send, Nil for no header
    MinTTL, MaxTTL, DefaultTTL,
    Timeout,        \* bound on resolving and fetching
    Capacity,       \* CACHE_MAX_ENTRIES
    MaxEdition      \* bound on the versions of a document

ASSUME DocumentAssumption ==
    /\ Mode \in {"jwks", "cimd"} /\ IsFiniteSet(DocUrl)
    /\ MaxAge \subseteq Nat \cup {Nil} /\ Nil \notin Nat
    /\ MinTTL \in Nat /\ MaxTTL \in Nat /\ DefaultTTL \in Nat /\ Timeout \in Nat
    /\ Capacity \in Nat \ {0} /\ MaxEdition \in Nat

VARIABLES
    doc,        \* what each server serves
    gone,       \* how long ago each version was replaced, or Nil
    cache,      \* URL -> Nil, or a document and the rest of its lifetime
    place,      \* URL -> its place in the order of use, 0 when it is not cached
    fetcher,    \* the requests under way
    reached,    \* history: the connections made for metadata
    given       \* history: the last document given out

remote == <<doc, gone>>
documentVars == <<remote, cache, place, fetcher, reached, given>>

Doc == [ver : 0..MaxEdition, valid : BOOLEAN]
NoFetch == [pc |-> "idle", url |-> Nil, addrs |-> {}, copy |-> Nil, ttl |-> 0, age |-> 0]

DocumentInit ==
    /\ doc = [u \in DocUrl |-> [ver |-> 0, valid |-> TRUE]]
    /\ gone = [u \in DocUrl |-> [v \in 0..MaxEdition |-> Nil]]
    /\ cache = [u \in DocUrl |-> Nil]
    /\ place = [u \in DocUrl |-> 0]
    /\ fetcher = [r \in Fetcher |-> NoFetch]
    /\ reached = {}
    /\ given = Nil

-----------------------------------------------------------------------------
(* The LRU map's order: place 1 is the entry that was not used for longest, the *)
(* last place the one used last.  An order is a function like place.            *)

Placed(order) == {u \in DocUrl : order[u] # 0}

\* LruCache::pop: those behind u move up.
Pop(order, u) ==
    [w \in DocUrl |-> IF w = u THEN 0
                      ELSE IF order[u] # 0 /\ order[w] > order[u] THEN order[w] - 1 ELSE order[w]]

\* LruCache::get and put: u goes to the end.
Promote(order, u) == [Pop(order, u) EXCEPT ![u] = Cardinality(Placed(Pop(order, u))) + 1]

\* The first one leaves.
Evict(order) == [u \in DocUrl |-> IF order[u] = 0 THEN 0 ELSE order[u] - 1]

-----------------------------------------------------------------------------
is_fresh(u) == cache[u] # Nil /\ cache[u].left > 0

RawHost(u) == [host |-> Host[u], dot |-> u \in Dotted]
normalize_host(h) == [host |-> h.host, dot |-> FALSE]
Listed(hosts) == {[host |-> h, dot |-> FALSE] : h \in hosts}

\* The deny list wins; both compare the host without its final dot.
check_host_lists(u) ==
    LET h == normalize_host(RawHost(u))
    IN /\ h \notin Listed(Denied)
       /\ Allowed # {} => h \in Listed(Allowed)

Admitted(u) == Mode = "cimd" => u \notin Malformed /\ check_host_lists(u)

\* A hit is answered under the lock (the LRU map notes the use, and drops an
\* entry that has expired); otherwise the request goes to the network.
Begin(r, u) ==
    /\ fetcher[r] = NoFetch /\ Admitted(u)
    /\ IF is_fresh(u)
       THEN /\ given' = [url |-> u, doc |-> cache[u].doc]
            /\ place' = Promote(place, u)
            /\ UNCHANGED <<cache, fetcher>>
       ELSE /\ fetcher' = [fetcher EXCEPT ![r] = [NoFetch EXCEPT !.url = u,
                             !.pc = IF Mode = "cimd" THEN "resolve" ELSE "fetch"]]
            /\ IF Mode = "cimd"
               THEN cache' = [cache EXCEPT ![u] = Nil] /\ place' = Pop(place, u)
               ELSE UNCHANGED <<cache, place>>
            /\ UNCHANGED given
    /\ UNCHANGED <<remote, reached>>

\* Addresses are public or special-use; one of the latter refuses the host.
is_special_use(a) == a = "special"
Address == {"public", "special"}

\* The name server answers what it likes, or nothing.
resolve_host(r) ==
    /\ fetcher[r].pc = "resolve"
    /\ \E addrs \in SUBSET Address :
          fetcher' = [fetcher EXCEPT ![r] =
                        IF addrs = {} \/ \E a \in addrs : is_special_use(a) THEN NoFetch
                        ELSE [fetcher[r] EXCEPT !.pc = "fetch", !.addrs = addrs]]
    /\ UNCHANGED <<remote, cache, place, reached, given>>

\* Key sets are kept for MinTTL at least, everything for MaxTTL at most.
parse_cache_control_max_age(age) ==
    LET secs == IF age = Nil THEN DefaultTTL ELSE age
        low == IF Mode = "jwks" /\ secs < MinTTL THEN MinTTL ELSE secs
    IN IF low > MaxTTL THEN MaxTTL ELSE low

\* The server answers with what it serves now, or the fetch fails; metadata
\* is fetched from one of the addresses that were checked.
fetch(r) ==
    LET q == fetcher[r]
    IN /\ q.pc = "fetch"
       /\ \/ \E age \in MaxAge :
                fetcher' = [fetcher EXCEPT ![r].pc = "store", ![r].copy = doc[q.url],
                                           ![r].ttl = parse_cache_control_max_age(age)]
          \/ fetcher' = [fetcher EXCEPT ![r] = NoFetch]
       /\ IF Mode = "jwks" THEN UNCHANGED reached
          ELSE \E a \in q.addrs : reached' = reached \cup {[host |-> Host[q.url], address |-> a]}
       /\ UNCHANGED <<remote, cache, place, given>>

\* A key set has a keys array; metadata names its own URL, has no secret and
\* has redirect URIs and an authentication method fit for a public client.
document_to_client(d) == d.valid

\* Mutant: the document is stored before it is validated.
StoreThenCheck(r) ==
    LET q == fetcher[r]
    IN /\ q.pc = "store"
       /\ cache' = [cache EXCEPT ![q.url] = [doc |-> q.copy, left |-> q.ttl]]
       /\ place' = Promote(place, q.url)
       /\ given' = IF document_to_client(q.copy) THEN [url |-> q.url, doc |-> q.copy] ELSE given
       /\ fetcher' = [fetcher EXCEPT ![r] = NoFetch]
       /\ UNCHANGED <<remote, reached>>

\* Only a valid document is stored, over whatever is there; the LRU map
\* makes room by dropping the entry that was not used for longest.
store(r) ==
    LET q == fetcher[r]
        used == Promote(place, q.url)
        full == Mode = "cimd" /\ Cardinality(Placed(used)) > Capacity
        kept == [cache EXCEPT ![q.url] = [doc |-> q.copy, left |-> q.ttl]]
    IN /\ q.pc = "store"
       /\ IF document_to_client(q.copy)
          THEN /\ cache' = [u \in DocUrl |-> IF full /\ used[u] = 1 THEN Nil ELSE kept[u]]
               /\ place' = IF full THEN Evict(used) ELSE used
               /\ given' = [url |-> q.url, doc |-> q.copy]
          ELSE UNCHANGED <<cache, place, given>>
       /\ fetcher' = [fetcher EXCEPT ![r] = NoFetch]
       /\ UNCHANGED <<remote, reached>>

-----------------------------------------------------------------------------
\* The owner replaces the document.
Publish(u, valid) ==
    /\ doc[u].ver < MaxEdition
    /\ doc' = [doc EXCEPT ![u] = [ver |-> doc[u].ver + 1, valid |-> valid]]
    /\ gone' = [gone EXCEPT ![u][doc[u].ver] = 0]
    /\ UNCHANGED <<cache, place, fetcher, reached, given>>

\* How long a replaced document may still be given out.
ServedLag == MaxTTL + Timeout

\* Time passes; a request is over within Timeout.
TimePasses ==
    /\ \A r \in Fetcher : fetcher[r] # NoFetch => fetcher[r].age < Timeout
    /\ cache' = [u \in DocUrl |-> IF cache[u] = Nil \/ cache[u].left = 0
                                  THEN cache[u] ELSE [cache[u] EXCEPT !.left = @ - 1]]
    /\ gone' = [u \in DocUrl |-> [v \in 0..MaxEdition |->
                  IF gone[u][v] \in {Nil, ServedLag + 1} THEN gone[u][v] ELSE gone[u][v] + 1]]
    /\ fetcher' = [r \in Fetcher |-> IF fetcher[r] = NoFetch THEN NoFetch
                                     ELSE [fetcher[r] EXCEPT !.age = @ + 1]]
    /\ given' = Nil
    /\ UNCHANGED <<doc, place, reached>>

FetchStep(r) == resolve_host(r) \/ fetch(r) \/ store(r)

DocumentNext ==
    \/ \E r \in Fetcher : FetchStep(r) \/ \E u \in DocUrl : Begin(r, u)
    \/ \E u \in DocUrl, valid \in BOOLEAN : Publish(u, valid)
    \/ TimePasses

\* Time passes, and a timeout ends every fetch.
DocumentSpec ==
    /\ DocumentInit /\ [][DocumentNext]_documentVars
    /\ WF_documentVars(TimePasses) /\ \A r \in Fetcher : WF_documentVars(FetchStep(r))

-----------------------------------------------------------------------------
(* Properties *)

\* Whatever lifetime its server asked for, and even if a late answer replaces
\* a newer one, a document is not given out later than ServedLag after its
\* owner replaced it: a key withdrawn from a key set dies in time
\* (parse_cache_control_max_age, fetch, store).
ServedInTime ==
    (given # Nil /\ gone[given.url][given.doc.ver] # Nil) =>
        gone[given.url][given.doc.ver] <= ServedLag

\* What failed validation is never found in the cache afterwards.
OnlyValidServed == given # Nil => document_to_client(given.doc)

\* However many documents are fetched at once, the map of metadata keeps
\* within its bound (store).
MapBounded == Mode = "cimd" => Cardinality({u \in DOMAIN cache : cache[u] # Nil}) <= Capacity

\* Metadata comes only from hosts the lists admit, under either spelling, and
\* from addresses that were checked, although the name server may answer
\* differently the next time (resolve_host, check_host_lists).
ReachedAsChecked ==
    \A c \in reached : /\ c.address = "public"
                       /\ c.host \notin Denied
                       /\ Allowed # {} => c.host \in Allowed

\* What failed validation is never found in the cache, a withdrawn document is
\* served no longer than its lifetime allows, and metadata comes from admitted
\* hosts and checked addresses into a map that stays within its bound.
OnlyCheckedServed == OnlyValidServed /\ ServedInTime /\ MapBounded /\ ReachedAsChecked

\* An outdated entry does not stay fresh for ever: the current document gets
\* its turn without anyone clearing the cache.
OldEntriesGo ==
    \A u \in DocUrl : []<>~(is_fresh(u) /\ cache[u].doc # doc[u])
=============================================================================
