# Verification of rust-oauth2-server

TLA+ models of the OAuth 2.0 authorization server in this repository, the TLC
runs that check them on small instances, and TLAPS proofs of the results that
hold for instances of any size. Modules are translated from the Rust source;
`PROJECT.json` maps every definition to the lines it stands for.

## 1. The system

An actix-web server. HTTP handlers (`crates/oauth2-actix/src/handlers`) call
actors (`actors/`), actors and handlers call the storage port
(`crates/oauth2-ports`), implemented over SQLite/Postgres
(`crates/oauth2-storage-sqlx`) and MongoDB. There is no transaction and no lock
around a handler: **every await is a point where another request may run, in
this process or in another one that shares the database.** The unit of
atomicity is the SQL statement, the actor message handler up to its first
await, the critical section of a mutex, or one operation on an atomic.

| Component | State | Operations | What is hard | Module |
|---|---|---|---|---|
| Token endpoint: code and refresh grants (`handlers/oauth.rs`, `actors/auth_actor.rs`, `actors/token_actor.rs`) | tables `authorization_codes`, `tokens` | validate, detect replay, cascade, burn, adopt a family, revoke, mint | check and burn are two statements; cascades race with mints; best-effort steps; crash between burn and mint | `TokenGrants` |
| Revocation (`handlers/token.rs`, `admin*.rs`) | `tokens.revoked` | `/oauth/revoke`, family cascade, admin by id/client/user | ownership through the cascade; caches | `TokenGrants`, `TokenCache` |
| Validation caches (`token_actor.rs`, `token_actor_pool.rs`) | one LRU per actor, Redis, `tokens` | `ValidateToken`, `CacheValidatedToken`, evictions | in-flight validations re-insert; a promotion restarts the TTL; evictions reach one actor | `TokenCache` |
| Device grant (`handlers/device.rs`, `oauth.rs`) | `device_authorizations`, its replica | request, approve, deny, poll, redeem | unconditional decisions; mint before mark; a lagging replica | `DeviceGrant` |
| Transaction authorization (`transaction_authorization.rs`) | `transaction_authorizations`, sessions | challenge, step-up, settle, redeem | the same, with two clients and a session that may age between page and submit | `TxnAuthorization` |
| Derived tokens (`token_exchange.rs`, `jwt_bearer.rs`, ID-JAG, transaction tokens) | the tokens themselves | exchange, assert, redeem an assertion | hop-by-hop checks must add up; three issuing paths share a key | `Delegation` |
| Client authentication, DPoP, assertions (`oauth.rs`, `dpop*.rs`, `jti_replay.rs`) | replay maps, a shared table, nonce buckets | authenticate, prove, observe | restarts forget; capacity; bucket edges | `TokenEndpoint` |
| Introspection (`handlers/token.rs`) | `tokens` | authenticate, resolve, check proof, answer | the answer comes from a row read before | `Introspection` |
| Authorization endpoint, PAR, JAR (`oauth.rs`) | pushed requests | merge, check, answer | three sources for eleven parameters | `AuthorizeRequest` |
| Login, sessions, logout (`login.rs`, `oidc_logout.rs`, `device.rs`, `oauth2-social-login`) | a session cookie | park, log in, replay, log out | tabs overwrite each other's session | `LoginFlow` |
| Users and administration (`admin_extra.rs`, `denylist.rs`, `admin_guard.rs`) | `users` and what references it | create, update, disable, delete, revoke | several statements without a transaction | `UserAccounts` |
| Client registry (`client_actor.rs`, `client.rs`, `client_resolver.rs`) | `clients`, two caches | look up, register, update, materialise a document | whole-row writes; decisions on stale copies | `ClientRegistry` |
| Fetched documents (`jwks_cache.rs`, `cimd.rs`) | two TTL maps | look up, fetch, store | answers that cross; hosts and addresses | `DocumentCache` |
| Signing keys (`key_set.rs`, `admin_keys.rs`, `wellknown.rs`) | key list in memory | rotate, prune, find, publish | grace against token lifetime; limits of the calendar | `KeySet` |
| Rate limiting (`oauth2-ratelimit` and callers) | buckets, Redis counters | check, refill, clean up | eviction refills; rounding; fallback | `RateLimit` |
| Resilience (`oauth2-resilience`, `middleware/resilience.rs`) | atomics, semaphores | allow, record, transition | counters reset while probes are out; lost slots | `Resilience` |
| Social login breaker (`oauth2-social-login`) | one mutex per provider | allow, report | a probe that never reports | `SocialBreaker` |
| Events (`oauth2-events`, `handlers/events.rs`) | idempotency store, mailbox, recent list | ingest, publish, filter, emit | repeats of requests under way; one failing plugin | `EventPipeline` |
| Server assembly, configuration, observability, OpenAPI, MCP server, assets | - | - | wiring: no protocol state | - |

What each hazard at its source line is, and the properties that cover it, is in
`PROJECT.json` (`hazards`).

## 2. Modules

Every module has one action per operation, or one per statement where another
request can come in between. History variables (they are marked) record what the
properties speak of and influence nothing. A definition whose comment starts
with `Mutant:` is a plausible wrong version of the definition that follows it.
`PROJECT.json` (`mutants`) lists one for each property of each run; the others
break a part of a conjunction each and can be tried in the same way.

### TokenGrants

The grant core. A *table* is a set of rows, with one set per boolean column
(`used`, `revoked`, `expired`, `refreshable`) and one function per other column
(`codeClient`, `tokenFamily`, ...). A token row stands for an access token and,
if it is in `refreshable`, its refresh token; the code keeps both in one row
and revokes both by one flag. `Request` is a set of slots for requests in
flight; `pc` names the statement a request runs next.

| Code | Actions |
|---|---|
| `CreateAuthorizationCode`, expiry of a code | `CreateAuthorizationCode`, `ExpireCode` |
| `handle_authorization_code_grant` | `BeginCodeGrant`; `ValidateAuthorizationCode` or `RefuseAuthorizationCode`, `LookupAuthorizationCode` (replay); `MarkAuthorizationCodeUsed`; `CreateTokenFromCode` |
| `handle_refresh_token_grant` | `BeginRefreshGrant`; `ValidateRefreshToken` or `RefuseRefreshToken` (replay); `SetTokenFamily` for a row without a family; `ReadTokenToRevoke`, `RevokeTokenRow`, `RevokeTokenFamily`; `CreateTokenFromRefresh` |
| `revoke` (`/oauth/revoke`) | `BeginRevoke`, then the three statements of `RevokeToken` |
| a cascade whose error is dropped (`let _ =`) | `LoseCascade` |
| administration, logout | `AdminRevoke` |
| the other grants | `CreateTokenFromOtherGrant` |
| an early return, a storage error, a crash | `Abort`, at any step |

Abstractions: client authentication, PKCE, redirect URI and scope checks are
the outcome of a check (`proven`, or an `Abort`); a UUID is fresh; the sqlx
backend is meant: MongoDB keeps the port's no-op for families, so the results
about families hold for SQL only. Reads see the primary database. The code reads
through `read_pool` (`sqlx.rs:145`), which is the primary unless the deployment
configures a replica; the results of `TokenGrants`, `UserAccounts` and
`ClientRegistry` are for a deployment without one, and `TokenCache`,
`DeviceGrant` and `TxnAuthorization` have the replica. For the same reason
`BeginRevoke` has no arm for a token that is not found (`token.rs:620`): it
forwards the message without an ownership check, which on the primary finds no
row to update.

### TokenCache

`ValidateToken` through the LRU of an actor, Redis and the table, against
`RevokeToken`, `RevokeTokenFamily` and administrators. Only valid rows are
cached, so an entry is just the time until which it counts. `Actor` ranges over
the actors of every shard and every process, since hashing and load balancing
decide which one gets a message; a revocation that names the refresh token
finds no cache key, as in the code. Redis errors, and a mailbox too full for
`CacheValidatedToken`, are choices. The row is read from the read pool, where a
revocation shows up to `ReplicaLag` later. `MaxLatency` bounds how long a message may
be in flight (a request slot is taken until its `CacheValidatedToken` has been
handled). Both are assumptions on the environment, the latency stated in the
guard of `Tick`: with no such bounds no bound on staleness exists.

### HumanApproval, DeviceGrant, TxnAuthorization

`HumanApproval` is the abstract specification: a human decides; a poll that
finds the subject approved and not spent claims it for the approver; a claim
becomes at most one token, for that approver; a subject is spent only once a
token exists. Decisions may change and several polls may claim: the code
excludes neither. `DeviceGrant` and `TxnAuthorization` are the two grants
statement by statement (read, check, mint, mark; read, check, settle), with
failures between any two; each defines `Approval == INSTANCE HumanApproval WITH`
a refinement mapping (a request past its check is a claim) and the property
`ImplementsApproval` or `TransactionApproval`. `ApprovalBase` is what they share:
the users, the steps between which others run, and whether the deployment has a
replica (`lagging`, fixed at the start of a behaviour), which catches up when it
likes. `TxnAuthorization` has processes with their own replay guards, and
browsers whose sessions age or change user between page and submit. A challenge
is valid, then within the 60 s of leeway of the signature check, then over
(`phase`); the entry of its `jti` ends at `exp` (`PassExp`), after
`MAX_TTL_SECS` if that is earlier (`ForgetJti`), or when a full guard drops it
(`EvictJti`). So the code's "exactly one pending approval"
(`transaction_authorization.rs:381`) does not hold as it stands, and
`ChallengeOncePerProcess` says what does: a second transaction in one process is
due to one of these three gaps.

### Delegation

Every token is a record (kind, user, scope, audience, act chain, binding,
expiry); a holder presents any token under any token type. The exchanges to
access tokens, transaction tokens and ID-JAGs, and the jwt-bearer grant at a
server that trusts this one, are actions. `authorization_details` narrow as the
scope does and are left out, `may_act` is never set by this server. Whether
access tokens are opaque and whether the trusted issuer's subjects are mapped by
address (`LocalUser`) is `setup`. A token decoded as a JWT is accepted for
`Leeway` past its expiry, one looked up in the table is not. An ID-JAG takes the
resources it was asked for with it, and ends with its subject, unless that is an
opaque access token: then `id_jag.rs:177` finds no `exp` and gives it the whole
`JagTtl`. A chain through another server may drop the audience restriction, as in
the code. `NoEscalation` and `UserKept` state both exceptions with their extent.

### TokenEndpoint, Introspection

`TokenEndpoint` is a token request from its credentials to the mint: the check
for several methods, DPoP proof and nonce, the method of the client, the replay
guard and its eviction, over processes that restart and share one table.
Signatures are an attribute of what is presented. The wait for the database is
assumed to be below the pool's acquire timeout (`MaxWait`). `Introspection`
resolves a token by table, JWT or transaction token and checks its proof; it
reads the row directly (caches are `TokenCache`'s subject), and the signed
answer of RFC 9701 is abstracted to the answer.

### AuthorizeRequest, LoginFlow

`AuthorizeRequest` merges query, pushed request and request object as
`authorize` does and judges the result; requests are a base request with up to
`MaxEdits` parameters changed. `Param` is every parameter of the endpoint but
`login_hint`, which only fills in the form, and the properties quantify over all
of it, not over the lists that the merge goes through: what is missing from a
list must be named as an exception. There are four for a pushed request
(`response_type`, `response_mode`, `prompt` and `max_age` are read from the query
alone, `oauth.rs:983`) and three for a request object (`prompt`, `max_age`,
`requested_actor`). `LoginFlow` is a browser with tabs: a request
carries the session of the moment it was sent, and the response of a handler that
wrote to the session (`Respond`), even what was there before, overwrites the
cookie, so every exchange is two steps. Its `StaleNotReplayed` is about the
password login; the social callback replays whatever `return_to` is there
(`auth.rs:260`). `LogoutSticks` is about logouts that no other response
overlapped: one under way brings the session back, since all of it is in the
cookie. Left out: back- and front-channel logout
notices, token revocation at OIDC logout, the approval page (it is in
`TxnAuthorization`).

### UserAccounts

Users, their sessions, codes and tokens; password, social login and trusted
assertions; the administrators' handlers as the statements they are, any of
which may fail if `dbFails`. `mongo` selects the behaviour of the MongoDB
adapter; both are fixed at the start of a behaviour. A redemption stands for every grant that reads a user and
later creates that user's token. What the properties except is named by
histories: a statement that failed unseen, two administrators at one user
(`decided`), and a login that found its user enabled before the decision
(`barred`). One code per user at a time; the expiry of a
denylist entry is its removal; unlinking of device authorizations is left out.

### ClientRegistry, DocumentCache

`ClientRegistry` is the clients table with the actor's cache, Redis and all
writers. Metadata is reduced to what the properties tell apart (secret, enabled,
privileged scopes, a `software_id` of an agent, trust in actors, origin, a
version); ages stand for the clock; sending and handling `CacheClient` is one
step; `MaxLatency` is assumed as in `TokenCache`. Whole rows are read, held and
written back, and the histories mark where the code therefore promises less:

* `revived`: a PUT whose row is deleted before it writes caches its own copy all
  the same (`client_actor.rs:478`).
* `blind`: a document client resolved after a lookup that failed, which skips the
  `enabled` check (`client_resolver.rs:64`).
* `off` and `undone`: `off` is the age of an operator's decision to disable, which
  only another decision ends. A refresh from the document, a PUT or an edit that
  read the row before the decision and writes it afterwards puts `enabled` back,
  although `client_actor.rs:603` says that refreshing "never reverts an operator
  decision". `undone` records how old the decision was then: `DisabledStaysOut`
  says that it was no older than `Lag`, and that while nothing has undone it the
  client is used for no longer than `Lag`.
* `placed`: when the row of a URL became one that no document made. A refresh that
  read a document's row, which an operator then deletes and registers again,
  overwrites the operator's row (`client_actor.rs:666`), although line 570 says
  that a document "can never take over" such a client. `NoTakeover` says that no
  request for a document changes any column of such a row, seeded or made later,
  but in this race, which is over `MaxLatency` after the row was made.

The revocation of tokens at disabling is left
out. `DocumentCache` is both caches of documents: lifetimes, order of answers,
failing fetches, host lists, addresses checked and connected to. The order of
the LRU map is the place of each URL in it; the shapes of URLs and documents
are flags.

### KeySet, RateLimit

`KeySet`: keys are only pushed at the end of the list and each has the next
material, so the list is the set of its keys, ordered by material. Hours of
grace and seconds are both ticks, with the limits of `chrono` (`DateLimit`,
`DurationLimit`) and of the multiplication (`HoursLimit`) as constants.
`encrypt_key_material` and its inverse have no caller. `RateLimit`: the `f64` bucket is counted in units of `1/Window` of a
token, so that refill is exact; a tick is a fraction of a second so that
rounding shows, that of Redis TTLs included. The bucket clamps its settings, the
cleanup task does not: with a window of 0 it drops every bucket it finds, full or
not, and hands each key a full one. `emptied` records it, and `BucketRate` says
that it happens with a window of 0 only; the bound then counts from the last
such cleanup. A Redis counter may be there without an expiry (`Leftover`), as
one written by hand or by an older version, and the script gives it one. A limiter
with `max_requests` 0 is not built for the penalty (`oauth2-server/src/lib.rs:71`),
so that instance
has 1; the instance with both settings 0 is the limiter of addresses. Response
headers and switching limiters off are left out.

### Resilience, SocialBreaker

`Resilience` is the lock-free breaker, with the bulkhead permits, load shedding
and the middleware around it. Every load, store, swap, `fetch_add` and
`fetch_sub`, and the locked accesses to `opened_at`, are steps of their own (`op`
says which is next); the compare-and-swap loop of `allow_request` is one step, the
round that ends it. Steps of all threads are interleaved, so what weaker
orderings of the atomics would allow beyond that is not modelled. `Width` is the
width of the probe counter, which wraps. A request may be cut off in the inner
call (`CutOff`): `svc.call(req).await?` returns on an error, and a dropped future
ends there too, so the gauge keeps its increment, although
`middleware/resilience.rs:162` says "exactly once regardless of the exit path",
and a probe keeps its slot. What is claimed of the breaker excepts only named
interleavings, of the current open or half-open period, not for ever:

* `strayed`: the circuit became half-open while a request of an earlier period
  could still release a slot, or gave a slot away before the resets were through.
  Such a request subtracts from a counter that does not count it; at 0 it wraps,
  every request is refused and the circuit stays half-open.
* `overtaken`: the circuit was opened while a thread that had closed it was not
  through with its resets, the last of which clears `opened_at`. The circuit is
  then open with no timer, for ever, although `circuit_breaker.rs:7` says that "a
  recovery timer is running".
* `leaked`: slots of dropped probes. With as many as there are slots the circuit
  stays half-open.

`ProbeSlotsExact`, `OpenEnds` and `HalfOpenDecided` say that there are no other
ways: in every other interleaving the count is exact and the circuit is decided.
`SocialBreaker` is the breaker of a
provider, whose calls are critical sections.

### EventPipeline

The ingest endpoint with its idempotency store, spawned publishers, the actor
with its filter, plugins in parallel, the recent list in memory or Redis.
Failing Redis pushes, the expiry of the list, trace headers and the health
endpoint are left out. That a broker client gives up in the end (`HangUp`) is
external.

### MC modules

`MCTokenGrants` and `MCTokenCache` add the symmetry sets. `MCApprovals`,
`MCAccounts`, `MCClients`, `MCEndpoint` and `MCProgress` each hold several
components that share no state in the server. The variable `part` says which
instance a behaviour is of, and the others stand still; so one run is the union
of the state spaces, not their product. Each EXTENDS the components that have
proofs, so that the formula TLC checks is the very definition the theorem
states: `MCApprovals` `DeviceGrant` and `TxnAuthorization`, `MCAccounts`
`Delegation`, `UserAccounts` and `LoginFlow`, `MCClients` `ClientRegistry`,
`AuthorizeRequest` and `DocumentCache`, `MCEndpoint` `TokenEndpoint`, `KeySet`,
`Introspection`, `Resilience` and `EventPipeline`, `MCProgress` `SocialBreaker`.
Components extended together have names of their own for specification and
clock (`SigningSpec`, `BrowserSpec`, `EventSpec`, ...). The others (`RateLimit`,
and those whose liveness `MCProgress` checks) are INSTANCEs. Where an extended
component is explored in several selections, these are INSTANCEs over the same
variables: `MCEndpoint` has `replays`, `nonces`, `assertions` and `credentials`
of `TokenEndpoint`, `MCClients` has `caches`, `documents`, `blind` (failing
lookups), `updates` and `self_service` of `ClientRegistry`, `MCAccounts` has two
selections of requests for `LoginFlow`. In `MCApprovals` a transaction is explored
twice: `opening`, where challenges pass their `exp`, guards forget and evict and
nobody decides, and `deciding`, where users decide and poll and the guards stand
still.

### Proof modules

| Module | Proves of |
|---|---|
| `TokenGrantsProofs`, `TokenCacheProofs`, `TokenEndpointProofs`, `SocialBreakerProofs` | the component of that name |
| `ApprovalsProofs` | `DeviceGrant`, `TxnAuthorization` |
| `AccountsProofs` | `Delegation`, `UserAccounts`, `LoginFlow` |
| `ClientsProofs` | `ClientRegistry`, `AuthorizeRequest`, `DocumentCache` |
| `GuardsProofs` | `KeySet`, `Introspection`, `Resilience`, `EventPipeline` |

They EXTEND the components and hold the invariants, lemmas and theorems of
section 6.

## 3. Runs

| Run | Instance | Shows |
|---|---|---|
| `grant_rotation` | 1 client, 1 code, 3 rows, 1 family, 2 requests | single use unless two requests overlapped; a sealed family stays dead; lineage; burn before mint |
| `grant_ownership` | 2 clients, 1 legacy code, 2 rows, 1 family, 2 requests | rows stay with their client; `/oauth/revoke` stays with the caller |
| `code_single_use` (violation) | 1 client, 1 code, 2 rows, 2 requests | two overlapping redemptions both mint |
| `replay_cascade` (violation) | a client without `refresh_token` | the replay cascade does not reach its token |
| `cache_window` | 2 actors, 1 token, 2 messages, TTL 2, latency 1, replica lag 1 | a revocation is everywhere after `lag + 2 * (TTL + latency)` |
| `cache_siblings` | 1 actor, 2 tokens of a family, LRU of 1 | a revocation no validation overlapped is final at once |
| `stale_entry` (violation) | 1 actor, 1 token, 2 messages | an overlapped one is not |
| `approvals` | 1 device, 4 requests, 2 users; 2 challenges, 2 rows, 2 processes, 3 requests; with and without replica | one delivered token unless polls overlapped or read a stale row; denial is final; tokens as decided, under step-up, one transaction per challenge and process but for the guard's three gaps (`AsDecided`); both grants implement `HumanApproval` where there is no replica |
| `accounts` | 2 tabs on one cookie; 2 administrators' and users' requests over SQL and MongoDB; chains of derived tokens | what a request asked of the login is kept; logout, deletion, disabling and decisions stick; derivation adds nothing and loses nothing |
| `clients` | 2 lookups through 2 caches; 2 requests for one URL, whose row is disabled, deleted and registered meanwhile, also with failing lookups; updates whose row is deleted meanwhile; registrations; 2 fetches; authorization requests with up to 2 edits | stale copies die in time; only operators and statements grant; a document takes over no row of others; only what was checked is served; parameters bind |
| `endpoint` | 2 requests, 2 processes, five limiters with their clocks (window 0 and a counter without expiry among them), 3 rotations, 2 threads | one use of proofs and assertions; nonce window; no token by a secret next to a wrong one; keys serve their time; rates and Retry-After; answers to whom they are due; events once; slots and gauge exact |
| `progress` | the breakers, the middleware's with 2 threads, both thresholds 1, 2 probe slots and 1 dropped request, one tab, one key set, two plugins, with fairness | one probe at a time; circuits recover; logins complete, old key sets go, events reach every plugin (`CarriedThrough`) |

Bounds. Two requests are what a race needs, and a third poll or decision what
follows it. Three rows give a token, its successor and the successor's successor
(or two rivals). One family suffices where every row can only be in it or in
none: properties speak of one family at a time, and the proofs cover any number.
In `cache_window` the window is 7 ticks and is exact: with one tick less TLC
finds a counterexample, and the clock runs one tick past it. Clocks elsewhere run
past the longest lifetime of the instance, so that everything that can expire
does; the rate limiters run for two windows and a burst. Properties of `KeySet`
are about one token at a time, so one token and three rotations show a key in
use, in grace and gone. Derivation is not followed past the last token or past
a revocation: `DerivationFaithful` speaks of the issued tokens only, and neither
adds one that could not be issued without it. Deadlock is not checked: request slots, rows and
clocks are finite, and an instance that has used them up has nothing left to do.

Symmetry: the sets that are permuted (rows, families, requests, actors,
processes, tabs, users) appear in no constant that tells their members apart.
`progress`, the only run with liveness properties, uses none.

Fairness, in `progress` only, is that of each module:

* `Resilience`: a thread that can take its next step takes it, the inner service
  answers in the end, time passes, and clients keep calling. The answer of one
  request may never come (`CutOff`). Bulkheads are in `endpoint`.
* `SocialBreaker`: time passes, a fetch ends because the HTTP client has a
  timeout, and users keep trying to log in.
* `LoginFlow`: the browser follows redirects and the server answers (weak); the
  user does not fail to log in for ever while the form is there (strong).
* `DocumentCache`: time passes and the timeouts end every fetch.
* `EventPipeline`: the runtime polls its tasks, the actor takes messages from
  its mailbox, and the clients of brokers answer or give up.

What is not assumed: that a request that was started anywhere else is finished.

## 4. What the violation runs show

* **A code is not single-use under concurrency.** Validation reads `used`,
  `mark_authorization_code_used` later sets it unconditionally and its row count
  is ignored. `SingleUseUnlessRaced` says exactly how far the guarantee goes:
  only requests that were past validation at one time can share a code. The
  same holds of a refresh token.
* **A code replay does not reach tokens without a refresh token.** They get
  `token_family = None` although the code has a family.
* **Eviction is not immediate.** `RevokeToken` evicts before it updates the row;
  a validation that has read the row puts it back. `RevocationReachesCaches`
  bounds the effect: twice the TTL and not once, because a Redis hit is promoted
  with a new `inserted_at`.

## 5. Observations

Places met while modelling where a comment, a document or a test promises more
than the code does. The models follow the code, and the properties are stated so
as to hold of it; no run is spent on these. Paths are under `src/crates/` unless
they begin with `src/`; `oauth.rs` and the other handlers are in
`oauth2-actix/src/handlers/`.

Grants and approvals
* `transaction_authorization.rs:382`: the replay guard keeps a `jti` in one process,
  for 300 s at most, until it is evicted, and not past `exp`, which the signature
  check may be by 60 s: a challenge can open another approval ("exactly one
  pending approval", line 381).
* `token.rs:620`: a token the read pool does not have is revoked whoever asks; with
  a replica this may be one just issued to another client.
* `id_jag.rs:177`: the lifetime is not capped by that of an opaque subject.
* `transaction_authorization.rs:879`, `oauth.rs:2210`: the token is minted before
  the row is marked, unconditionally: overlapping polls each get one.
* `token_exchange.rs:652`: `jwt_secret` is a candidate key whatever the `KeySet`
  says, so tokens of a retired HMAC key are still accepted there.

Authentication and limits
* `oauth.rs:112`: a secret and an assertion in one body pass the check for
  several methods. `oauth.rs:1609`: an assertion up to 60 s past its `exp` is
  accepted, and its guard entry expires at once.
* `oauth2-actix/src/security/jti_replay.rs:105`: a full guard drops an arbitrary
  entry, not the oldest.
* `src/oauth2-ratelimit/src/in_memory.rs:37`: the stale threshold is twice the raw
  window (as line 17 says), but the bucket clamps its window to a second: at window
  0 every cleanup drops every bucket, full or not.
* `oauth.rs:2061`: the penalty bucket is consulted only after `invalid_client`,
  so right credentials are answered 200 with the budget exhausted.
* `token.rs:304`: the proof of possession is asked for by the claims of a JWT; an
  opaque bound token needs none. `oauth2-core/src/models/token.rs:395`: the
  default validation refuses any `aud`, so stateless introspection reports every
  access token inactive.

Authorization endpoint and login
* `oauth.rs:1072`: `prompt=none` with another value is a direct 400, not a
  redirect. `oauth.rs:983`: `response_type`, `response_mode`, `prompt` and
  `max_age` of a pushed request are not read back. `oauth.rs:1135`:
  `prompt=none` with an expired `max_age` shows the login page.
* `oauth.rs:1152`: `prompt=login` is replayed with the request, so it forces a
  login without end. `oauth.rs:783`: a pushed request is consumed before the
  login it leads to. The social callback
  (`oauth2-social-login/src/handlers/auth.rs:242`) sets no `auth_time`, so
  `max_age` never completes with it. `Completes` excludes these three.
* `device.rs:190`: the device page leaves the agent of an abandoned request on
  the login page.

Keys
* `admin_keys.rs:53`: two keys of one second have one `kid`; `:43`: the default
  algorithm is RS256, not the current one. `oauth2-core/src/models/key_set.rs:144`:
  a grace too long for `chrono` becomes zero. `wellknown.rs:207`: after a rotation
  and its grace the key of ID tokens is not published.

Clients
* `oauth2-actix/src/actors/client_actor.rs:668`: count and insert are two
  statements, so the cap can be exceeded; `:665`: a refresh writes back what an
  operator changed meanwhile, a disabled client is enabled again and a row that
  was registered in its place overwritten (section 2); `:684`: after a failed insert any row is adopted;
  `:504` and `client.rs:569`: an update writes every column of a cached copy.
* `client_resolver.rs:79`: `enabled` is looked at for clients from documents only;
  `:64`: a failing lookup counts as an absent row.

Users
* `oauth2-storage-sqlx/src/sqlx.rs:1888`: `delete_user` has no transaction; a code
  issued in between makes the foreign key refuse the deletion.
* `admin_extra.rs:223`: an update of one column writes the whole row; `:286`: the
  result of the revocation is dropped; `:261`: MongoDB has no revocation by user.
* `oauth2-actix/src/middleware/admin_guard.rs:153`: the role is the session's.
  Sessions outlive the disabling of their user, and social login signs disabled
  users in. The denylist of subjects has no caller.

Resilience and events
* `src/oauth2-resilience/src/circuit_breaker.rs:278`: a closing thread that is
  overtaken can leave the circuit open without a timer; `:188`: a probe of an
  earlier window takes the counter below zero (`overtaken` and `strayed` in
  section 2).
* `oauth2-actix/src/middleware/resilience.rs:269`: an error or a dropped future
  leaves the gauge and the probe slot taken.
* `oauth2-social-login/src/circuit_breaker.rs:66`: a dropped probe is never
  reported and the circuit stays half-open.
* `events.rs:224`: an ingested event is listed twice.

## 6. What is proved

For every value of the constants that satisfies the named assumptions. In each
proof module the parts of the invariant come first, then one lemma per part (a
step keeps it, given the parts it needs; inside, one step per action), then the
theorems.

**`TokenGrantsProofs`**, from `RefreshClient` and `LegacyCode` being subsets,
`None` being nothing else, and codes and rows being distinct. Theorems:
`TypeCorrect`, `SingleUse`, `BurnedBeforeMinted`, `SealedForEver`,
`RowsStayWithClient`, `RowsStayInFamily`, and the action properties
`NothingIsUnrevoked` and `RevocationStaysWithCaller`. The invariant:

| Part | Contents | Why |
|---|---|---|
| `ShapeInv` | `TypeOK`, `RequestShape`, `UnsavedUnlinked` | a request past validation carries a code or row that exists; a cascade has a family to name |
| `SingleUseInv` | `MintAfterBurn`, `UnracedHeldOnce` and the two properties | a grant nobody raced for has one holder, and no token while it is held; once burned nobody can come to hold it |
| `FamilyInv` | `FamilyInUse`, `FamilyOfOneCode`, `FreshCodeFamily`, `SealedFamilyDead` | a family of an unburned code is nowhere else, so it cannot have been sealed when the code is redeemed |
| `OwnershipInv` | `CallerOwnsGrant`, `FamilyOfOneClient`, `ClientBinding` | a cascade by family stays with one client only because families do |
| `LineageInv` | `RotationKeepsFamily`, `LineageKeepsFamily` | the family read at validation is still the row's when it is minted into |

**`TokenCacheProofs`**, for any number of actors, tokens and messages, any TTL
and capacity above zero and any latency and lag. `RevocationReaches` says that a
revoked token is out of every place after `ReplicaLag + 2 * (TTL + MaxLatency)`. Nothing in the state
says so directly; the invariant (`RevocationBounds`) dates each hop against the
revocation: a message that will store a row began before the replica knew of it
(`StoresDecay`), so Redis holds it until at most a latency and a TTL after (`L2Decays`), so a
message that read it from Redis began before that (`DeliveriesDecay`), so an LRU
holds it for a latency and a TTL more (`L1Decays`). `CleanRevocation`, for a read
pool that is the primary, rests on
`EvictionsHold`: a revocation no validation overlapped keeps empty every place
it has cleared so far, until the row is revoked and no message can carry the
token.

**`ApprovalsProofs`**, for any number of rows, users, processes and polls, from
`None` being no client and no challenge. Delivered once: a poll that delivered has marked its row, and a row nobody raced
for is held by one poll, which still finds it unused (`MarkedBeforeDelivered`,
`HeldOnce`). `DenialFinal`: a denial that counts as final reads as denied, on
the replica too, and nothing in flight can overtake it (`RefusalHolds`).
`TxnDecided` (`AsDecided`) has four parts, each a theorem too: an uncontested row
is settled by one request, once (`SettledOnce`), so a poll that found it approved
acts for whoever approved it; and step-up is not skipped, a transaction delivers
once and a challenge begins one transaction per process but for three gaps
(`ChallengeOnce`: while none of them applies, the process that opened a
transaction still has the `jti`, so it cannot open another). `DeviceImplementsApproval` and
`TxnImplementsApproval`: the refinement of `HumanApproval`, action by action; the
invariant it needs is `TokensFollowPolls`, since a claim may become a token only
once. Both grants refine it without a replica: with one, a poll may claim a
row already spent, which is what their properties say instead.

**`SocialBreakerProofs`**, from `MaxFetch < Cooldown`: a fetch is one request, or
two one after the other, each given up after 10 s, and a circuit stays open for
30 s (`oauth2-social-login/src/service.rs:76-80`). `ProbesAccounted` needs `ProbesOlder`:
while the circuit is open a probe is at least as old as the opening, so it has
ended before the next one is admitted.

**`AccountsProofs`, `Delegation`**, for any registry, any maximum depth and chains of any
length, from clients not being users, resources or server names. `Faithful`
relates a token to the original it goes back to, however many hops away. The
invariant relates it to its parent (`Lineage`, with `Derives` for one hop) and to
its root (`Ancestry`, with `Inherits`); `Compose` is the lemma that one more hop
keeps what was inherited up to the mapping of users by address, and needs the marks of every kind, because it is
the marks that keep a transaction token or an ID-JAG from being presented as
something else.

**`AccountsProofs`, `UserAccounts`**, for any number of users, browsers and
requests, over SQL or MongoDB, with or without failing statements, from edits
being edits of the three columns and `Null` being no user, row or flag.
`UsersInv` is `TokensInv` and `RowsInv`. Tokens: over SQL only a revocation parts
a token from its owner (`Linked`), which is `NothingLeft`; a request's list of
tokens to revoke names its own user's (`OldOwn`), and those of a reported answer
are dead (`AnswerOK`). Rows: copies held between a read and a whole-row write
are still the row (`CopiesFresh`) as long as administrators do not meet at a user
(`OneAdmin`), which is `DecisionsHold`; a login past its check has seen its user
enabled (`SeenEnabled`, `Unbarred`), which is the action property `DisabledOut`.

**`AccountsProofs`, `LoginFlow`**, for any number of tabs, accounts and requests,
from the markers (`Unset`, `Device`, `Spent`) being nothing else.
The cookie is not the whole state: every session that was sent and has not come
back may still become the cookie. `BrowserInv` therefore speaks of all of them
(`Held`): each records an authentication and a parked request that happened
(`SessionsBacked`), none of them later than now (`PastRecorded`); after a logout
nothing overlapped none names a user (`NobodyHeld`); the pushed request of a code
is spent (`CodesDue`). `RequestsHonoured` follows, its action part
`StaleNotReplayed` from the parking times.

**`TokenEndpointProofs`**, for any number of processes, requests, proofs and
restarts, from `ProofTtl >= 2 * Skew + MaxWait`: the code keeps a `jti` for 660 s
with a skew of 300 s (`dpop.rs:97`, `dpop.rs:304`), which leaves 60 s for the
wait for the database, and by default the pool gives up after 30 s. A deployment
that configures an acquire timeout above 60 s is outside the theorem. `OnlyOnce`: the row of
a spent proof is in the table for as long as a request with that proof can still
reach it (`RowKept`), so one request gets past it (`OnePast`); and a guard still
has an assertion it accepted, or dropped it, or had it long enough
(`GuardRemembers`, `GuardHolds`). `NoncesInWindow`: nonces are judged by buckets,
and two lemmas about the division (`BucketBounds`, `BucketAges`) turn buckets
into ages. `NoWrongSecret`: a request under way shows one secret (`OneSecret`).

**`ClientsProofs`, `ClientRegistry`**, for any number of clients, nodes and requests, any
TTL, latency and limit, from the inputs being of their types and `None` being
none of the records. Every part of `RegistryInv` says how much older than the
table a copy may be in one place: in a request, by the step it is at (`Behind`);
in Redis, in the LRU map, in an answer. They add up to
`Lag == 2 * TTL + 3 * MaxLatency`, and `StaleCopies` follows. The same copies are
what updates write back, so the invariant also says that a copy's privileges were
given to the client (`Earned`), hence `SelfGranted`; that a copy which says
enabled is no older than an operator's decision to the contrary allows, hence the
part of `StaleCopies` about what undoes it; and that a request about to rewrite a
row found one that a document had made, no longer ago than its own age
(`Rightful`), so that a row of another's making it meets was placed since, hence
the action property `Takeover`. The module has many actions, each of which touches little:
`Assembly` shows once that a step keeps the invariant if what it writes is sound
(`LeavesSound`), and each action has a lemma that it is.

**`ClientsProofs`, `AuthorizeRequest`**, for any clients and parameter values,
from `Absent` being no value. `RequestsBind` needs no more than the type of a
request: it is about the function from a request to its answer. `AlikeJudged`
says what the answer depends on, the overlay of the three sources and whether
`state` and `redirect_uri` were given, and two requests that differ in the query,
where something was pushed or signed, are alike in that (`SignedPart` and its
like for pushed requests).

**`ClientsProofs`, `DocumentCache`**, for either cache, any number of requests and
URLs, any lifetimes and a capacity above zero. The order of the LRU map is a
place for each URL: `Ranking` (the places are 1 to n, each taken once) is kept by
using, removing and evicting an entry (`PromoteRanks`, `PopRanks`, `EvictRanks`),
which gives the bound. `DocumentsInv` dates the copies as `TokenCacheProofs`
does: a fetched copy was current when its request began (`CopiesYoung`), and a
cached one's remaining life and time out of date add up to no more than
`ServedLag` (`CachedSound`), however answers cross.

**`GuardsProofs`, `KeySet`**, for any grace, any number of rotations, seeds,
restarts and tokens, and any limits of the calendar. `KeysInv`: no two keys share
their material and exactly the current never expire (`KeysOwn`), an algorithm
has one current key (`OneCurrent`), a token that must verify has its key in the
set for that long (`Covered`), and a retired key expires (`RetiredExpire`).

**`GuardsProofs`, `Introspection`**, for any number of requests, tokens and
proofs. `AnswersInv`: a request past the row read one that was not revoked and
asks as its owner or as nobody (`ReadLive`); a proof accepted is in the store and
with one request (`ProofsHeld`), and one answered for is with none (`ProofsSpent`).

**`GuardsProofs`, `Resilience`**, for any number of concurrent requests and any
limits and thresholds that fit the counter's width. `PermitInv` counts: permits
are held in exactly the stages between acquiring and leaving, and the gauge is
what is served plus what was dropped there. `SlotsCounted` is about a half-open
circuit that has not `strayed`: while the resets are under way nobody uses a
slot, and the one reset of `probe_count` is ahead; from then on `probe_count` is
the number of probes in flight and of those dropped. Taking a slot, releasing it
and being dropped each change both sides alike, and nobody else may release:
whoever could have, had to be about when the circuit became half-open.

**`GuardsProofs`, `EventPipeline`**, for any number of requests, keys, plugins and
events. `EventsInv`: an event is in one place at a time, once (`OnePlace`), so a
plugin takes it once; a key not forgotten belongs to one event (`OneKey`) and
whoever recorded it is on his way or has ended (`KeysAccounted`), so "duplicate" is
said of something; and what the list shows is a prefix of what was pushed
(`SnapshotNewest`).

### Only model-checked

* Liveness (`BreakersRecover`, `CarriedThrough`): fairness is out of reach of
  the prover.
* `LimitsHonest`: the rates of `RateLimit` are bounds on how many entries of a
  growing log lie in a window. Induction needs a sum over the log, in units of
  `1/Window` with a division at every refill; the prover has neither induction
  over sequences nor reliable nonlinear arithmetic.
* The `violation` runs: that a property fails is an example, found by TLC.

## 7. Not modelled, and what is left

Not modelled: server assembly, configuration, observability, OpenAPI
generation, the MCP server and the front-end assets, which keep no protocol
state (what start-up establishes is the `Init` of the models that need it). Of
the SQL storage, pages, lists, resources, the audit log and migrations; of the
MongoDB storage, whatever is not one of the differences `UserAccounts` models or
the same statement as in SQL.

Left to do: an abstract ledger of grants that `TokenGrants` implements (its
properties are proved directly), and the rates of `RateLimit` for every limit.
