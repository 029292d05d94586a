----------------------------- MODULE RateLimit -----------------------------
(***************************************************************************)
(* The rate limiters: token buckets in memory with their cleanup task, the *)
(* fixed-window counters in Redis, and their three callers: the middleware *)
(* keyed by address, the login form keyed by address and by user, and the  *)
(* penalty bucket for invalid_client at the token endpoint.                *)
(*                                                                         *)
(* Time is counted in ticks, Second of them to a second, so that rounding  *)
(* a wait to whole seconds shows.  A bucket's f64 tokens are counted in    *)
(* units of 1/Window of a token: a request costs Window units and a tick   *)
(* brings MaxRequests of them, exactly.                                    *)
(***************************************************************************)
EXTENDS Naturals, Sequences, FiniteSets

CONSTANTS
    Ip,                 \* addresses limited by the middleware
    LoginIp, Username,  \* addresses and users of the login form
    ClientId,
    None,
    Backend,        \* rate_limit.backend: "redis" or another
    MaxRequestsSet, \* max_requests as configured, possibly 0
    WindowSecs,     \* window_secs as configured, possibly 0
    Second,         \* ticks to a second
    MaxTime, MaxLog, \* bounds on time and on admissions to one key
    MaxCount        \* bound on a counter in Redis

AtLeast(least, n) == IF n < least THEN least ELSE n
AtMost(most, n) == IF n > most THEN most ELSE n

\* TokenBucket::new clamps both settings; nothing else does.
WindowSet == Second * WindowSecs
MaxRequests == AtLeast(1, MaxRequestsSet)
Window == AtLeast(Second, WindowSet)
Full == MaxRequests * Window

IpKey(i) == [kind |-> "ip", of |-> i]
LoginIpKey(i) == [kind |-> "login:ip", of |-> i]
LoginUserKey(u) == [kind |-> "login:user", of |-> u]
ClientKey(c) == [kind |-> "client", of |-> c]
Key == {IpKey(i) : i \in Ip} \cup {LoginIpKey(i) : i \in LoginIp} \cup {LoginUserKey(u) : u \in Username}
          \cup {ClientKey(c) : c \in ClientId}

VARIABLES
    now,
    redis,      \* whether the middleware and the penalty bucket use Redis
    buckets,    \* buckets[k]: None or [tokens, refilled, seen]
    counters,   \* counters[k]: None or [count, expires]: the keys in Redis
    log,        \* history: log[k], the times requests of k were admitted
    told,       \* history: told[k], the earliest retry time named since then
    emptied,    \* history: emptied[k], how many had been admitted when the
                \* cleanup task last dropped a bucket that was not full
    answer      \* the last answer of the token endpoint: [client, status]

vars == <<now, redis, buckets, counters, log, told, emptied, answer>>

\* Without a reachable Redis the limiters fall back to memory.
Limiter == {Backend = "redis" /\ reachable : reachable \in BOOLEAN}

\* A counter without an expiry, written by hand or by an older version.
Leftover == [count |-> MaxRequestsSet, expires |-> None]

Init ==
    /\ now = 0
    /\ redis \in Limiter
    /\ buckets = [k \in Key |-> None]
    /\ counters \in [Key -> {None} \cup IF redis THEN {Leftover} ELSE {}]
    /\ log = [k \in Key |-> <<>>]
    /\ told = [k \in Key |-> None]
    /\ emptied = [k \in Key |-> 0]
    /\ answer = None

-----------------------------------------------------------------------------
(* Token buckets *)

NewEntry == [tokens |-> Full, refilled |-> now, seen |-> now]
Entry(k) == IF buckets[k] = None THEN NewEntry ELSE buckets[k]

Refill(e) ==
    [tokens |-> AtMost(Full, e.tokens + (now - e.refilled) * MaxRequests),
     refilled |-> now, seen |-> now]

\* try_consume: the refilled entry, and whether it holds a token
Allows(e) == e.tokens >= Window
Consume(e) == IF Allows(e) THEN [e EXCEPT !.tokens = @ - Window] ELSE e

\* seconds_until_refill, as the callers report it: whole seconds, at least one
RetryAfter(e) == Second * AtLeast(1, ((Window - e.tokens) \div MaxRequests) \div Second)

Record(k, allowed, wait) ==
    /\ log' = [log EXCEPT ![k] = IF allowed THEN Append(@, now) ELSE @]
    /\ told' = [told EXCEPT ![k] = IF allowed THEN None ELSE IF @ = None THEN now + wait ELSE AtMost(now + wait, @)]

\* check
Check(k) ==
    LET e == Refill(Entry(k))
    IN /\ Len(log[k]) < MaxLog
       /\ buckets' = [buckets EXCEPT ![k] = Consume(e)]
       /\ Record(k, Allows(e), RetryAfter(e))

\* The cleanup task drops entries not seen for twice the window as it was
\* configured: at window 0 it drops every entry.
Cleanup ==
    LET stale == {k \in Key : buckets[k] # None /\ now - buckets[k].seen >= 2 * WindowSet}
    IN /\ buckets' = [k \in Key |-> IF k \in stale THEN None ELSE buckets[k]]
       /\ emptied' = [k \in Key |-> IF k \in stale /\ Refill(buckets[k]).tokens < Full THEN Len(log[k]) ELSE emptied[k]]
       /\ UNCHANGED <<now, redis, counters, log, told, answer>>

-----------------------------------------------------------------------------
(* Redis: a counter per key that expires with its window; nothing is clamped *)

Lasts(c) == c # None /\ (c.expires = None \/ c.expires > now)

\* Mutant: a counter that has no expiry is never given one.
CountUnrepaired(k) ==
    IF Lasts(counters[k]) THEN [counters[k] EXCEPT !.count = @ + 1] ELSE [count |-> 1, expires |-> now + WindowSet]

\* The Lua script: INCR, and EXPIRE for a new key and for one without expiry
Count(k) ==
    LET n == IF Lasts(counters[k]) THEN counters[k].count + 1 ELSE 1
    IN [count |-> n, expires |-> IF n = 1 \/ counters[k].expires = None THEN now + WindowSet ELSE counters[k].expires]

\* TTL, in seconds, rounded; without an expiry it is negative
Ttl(c) == IF c.expires = None THEN 0 ELSE (c.expires - now + Second \div 2) \div Second

CheckRedis(k) ==
    LET c == Count(k)
    IN /\ Len(log[k]) < MaxLog /\ c.count <= MaxCount
       /\ counters' = [counters EXCEPT ![k] = c]
       /\ Record(k, c.count <= MaxRequestsSet, Second * AtLeast(1, Ttl(c)))

-----------------------------------------------------------------------------
(* The callers *)

Admits(k) == IF redis THEN Count(k).count <= MaxRequestsSet ELSE Allows(Refill(Entry(k)))

Ask(k) ==
    IF redis THEN CheckRedis(k) /\ UNCHANGED buckets ELSE Check(k) /\ UNCHANGED counters

\* RateLimitMiddleware.  A backend error admits the request and changes
\* nothing, as an exempt path does.
RequestFrom(i) == Ask(IpKey(i)) /\ UNCHANGED <<now, redis, emptied, answer>>

\* LoginRateLimiter::check: the address first, then the user, and the user's
\* bucket is not touched when the address is over its limit.
LoginAttempt(i, u) ==
    LET e == Refill(Entry(LoginIpKey(i)))
        f == Refill(Entry(LoginUserKey(u)))
    IN /\ Len(log[LoginIpKey(i)]) < MaxLog /\ Len(log[LoginUserKey(u)]) < MaxLog
       /\ IF Allows(e)
          THEN /\ buckets' = [buckets EXCEPT ![LoginIpKey(i)] = Consume(e), ![LoginUserKey(u)] = Consume(f)]
               /\ log' = [log EXCEPT ![LoginIpKey(i)] = Append(@, now),
                                     ![LoginUserKey(u)] = IF Allows(f) THEN Append(@, now) ELSE @]
               /\ told' = [told EXCEPT ![LoginIpKey(i)] = None,
                                       ![LoginUserKey(u)] = IF Allows(f) THEN None
                                                            ELSE IF @ = None THEN now + RetryAfter(f) ELSE AtMost(now + RetryAfter(f), @)]
          ELSE Check(LoginIpKey(i))
       /\ UNCHANGED <<now, redis, counters, emptied, answer>>

\* The token endpoint consults the penalty bucket after an invalid_client.
TokenFails(c) ==
    /\ Ask(ClientKey(c))
    /\ answer' = [client |-> c, status |-> IF Admits(ClientKey(c)) THEN "invalid_client" ELSE "too_many_requests"]
    /\ UNCHANGED <<now, redis, emptied>>

TokenIssued(c) ==
    /\ answer' = [client |-> c, status |-> "issued"]
    /\ UNCHANGED <<now, redis, buckets, counters, log, told, emptied>>

Tick ==
    /\ now < MaxTime /\ now' = now + 1
    /\ UNCHANGED <<redis, buckets, counters, log, told, emptied, answer>>

Next ==
    \/ Tick \/ Cleanup
    \/ \E i \in Ip : RequestFrom(i)
    \/ \E i \in LoginIp, u \in Username : LoginAttempt(i, u)
    \/ \E c \in ClientId : TokenFails(c) \/ TokenIssued(c)

Spec == Init /\ [][Next]_vars

-----------------------------------------------------------------------------
(* Properties *)

InRedis(k) == redis /\ k.kind \in {"ip", "client"}

\* What a token bucket promises: from any admission to any later one, no more
\* than a full bucket plus what that time refills, whatever was refused, and
\* although the cleanup task forgets buckets: it forgets only full ones, except
\* with a window of 0, where the promise begins anew with each cleanup.
BucketRate ==
    \A k \in Key : ~InRedis(k) =>
        /\ WindowSecs > 0 => emptied[k] = 0
        /\ \A i, j \in DOMAIN log[k] :
              emptied[k] < i /\ i <= j => (j - i + 1) * Window <= Full + (log[k][j] - log[k][i]) * MaxRequests

\* A fixed window admits at most twice its limit within any time of its length.
WindowRate ==
    \A k \in Key : InRedis(k) =>
        \A i \in DOMAIN log[k] :
            Cardinality({j \in DOMAIN log[k] : j >= i /\ log[k][j] < log[k][i] + WindowSet}) <= 2 * MaxRequestsSet

Consulted(k) == (buckets'[k] # None /\ buckets'[k] # buckets[k]) \/ counters'[k] # counters[k]

\* Retry-After is honest to the second: a second after the earliest time named
\* since the last admission, no request is refused.
AdmittedAsTold == \A k \in Key : told[k] # None /\ Consulted(k) /\ log'[k] = log[k] => now < told[k] + Second
=============================================================================
