----------------------------- MODULE MCProgress -----------------------------
(***************************************************************************)
(* What must happen in the end: the circuit breakers close again           *)
(* (Resilience, SocialBreaker), a user who logs in gets back to the        *)
(* request (LoginFlow), an outdated key set is dropped (DocumentCache),    *)
(* and an event is offered to every plugin (EventPipeline).  The provider  *)
(* part's variables are this module's own.  A behaviour is one of the part *)
(* it starts with; the others stand still, and only its own fairness binds *)
(* it.                                                                     *)
(***************************************************************************)
EXTENDS SocialBreaker, TLC

CONSTANTS None, Spent, Absent, Device

VARIABLES
    part,
    circuit, streak, successes, probes, timer, pc, route, op, settling, probing, failed,
    holders, partition, gauge, abandoned, leaked, overtaken, strayed,
    now, cookie, loc, sent, pushed, handed, starts, authAt, parkedAt, out, overlapped,
    doc, gone, cache, place, fetcher, reached, given,
    keyAge, ingesting, spawned, mailbox, emitting, trimming, recent, taken,
    items, crashes, shown, lapsed, hungUp, repeated, published, attempted

breaker == <<circuit, streak, successes, probes, timer, pc, route, op, settling, probing, failed,
             holders, partition, gauge, abandoned, leaked, overtaken, strayed>>
browser == <<now, cookie, loc, sent, pushed, handed, starts, authAt, parkedAt, out, overlapped>>
documents == <<doc, gone, cache, place, fetcher, reached, given>>
events == <<keyAge, ingesting, spawned, mailbox, emitting, trimming, recent, taken,
            items, crashes, shown, lapsed, hungUp, repeated, published, attempted>>
partVars == <<part, breaker, vars, browser, documents, events>>

-----------------------------------------------------------------------------
\* Two threads share the breaker; all calls but one are answered in the end.
Slots == {"r1", "r2"}
Breaker == INSTANCE Resilience WITH
    Call <- Slots, Bulkhead <- {}, NoBulkhead <- "other",
    FailureThreshold <- 1, SuccessThreshold <- 1, HalfOpenMaxProbes <- 2,
    MaxConcurrent <- 2, BulkheadMax <- 1, Width <- 4, MaxCutOff <- 1,
    state <- circuit, failures <- streak, probe <- probing, stage <- pc, cutOff <- abandoned

Ask(name, prompt, actor) ==
    [name |-> name, par |-> FALSE, prompt |-> prompt, maxAge |-> Absent, actor |-> actor]

\* An agent's request, by password or at a provider.
Login == INSTANCE LoginFlow WITH
    Tab <- {"t1"}, PasswordUser <- {"p1"}, SocialUser <- {"s1"},
    Req <- {Ask("named", "consent", TRUE)},
    MaxAgeAbsent <- Absent, Unset <- None, ReturnMaxAge <- 1, ParTtl <- 2, MaxTime <- 1, MaxStarts <- 2,
    Csrf <- {"c1", "c2"}

\* A key set that is replaced twice.
KeySets == INSTANCE DocumentCache WITH
    Mode <- "jwks", DocUrl <- {"u1"}, Fetcher <- Slots, Host <- [u \in {"u1"} |-> "h1"],
    Dotted <- {}, Malformed <- {}, Denied <- {}, Allowed <- {},
    Nil <- None, MaxAge <- {None, 0, 9}, MinTTL <- 1, MaxTTL <- 2, DefaultTTL <- 2,
    Timeout <- 1, Capacity <- 1, MaxEdition <- 2

\* Two events for two plugins, one of which may fail.
Plugins == {"memory", "broker"}
MostItems == 2
Event(type) == [id |-> "e1", header |-> None, type |-> type]
Events == INSTANCE EventPipeline WITH
    Envelope <- {Event("kept"), Event("cut")}, EventKey <- {"e1"}, Blank <- None, Kept <- {"kept"},
    Plugin <- Plugins, Memory <- "memory", Recent <- "recent", RedisList <- FALSE,
    Ingest <- {"r1"}, KeyTTL <- 0, MaxKeys <- 1, ListCapacity <- 2, MaxEvents <- 1,
    MaxItems <- MostItems, MaxCrashes <- 0

-----------------------------------------------------------------------------
PartInit ==
    /\ part \in {"breaker", "provider", "login", "key_sets", "events"}
    /\ Breaker!ResilienceInit /\ Init /\ Login!BrowserInit /\ KeySets!DocumentInit /\ Events!EventInit

PartNext ==
    \/ part = "breaker" /\ Breaker!ResilienceNext /\ UNCHANGED <<part, vars, browser, documents, events>>
    \/ part = "provider" /\ Next /\ UNCHANGED <<part, breaker, browser, documents, events>>
    \/ part = "login" /\ Login!BrowserNext /\ UNCHANGED <<part, breaker, vars, documents, events>>
    \/ part = "key_sets" /\ KeySets!DocumentNext /\ UNCHANGED <<part, breaker, vars, browser, events>>
    \/ part = "events" /\ Events!EventNext /\ UNCHANGED <<part, breaker, vars, browser, documents>>

\* The Fairness of each module, of the part that runs.
PartFairness ==
    /\ WF_breaker(part = "breaker" /\ Breaker!Elapse)
    /\ \A r \in Slots :
          /\ WF_breaker(part = "breaker" /\ Breaker!Proceed(r))
          /\ WF_breaker(part = "breaker" /\ Breaker!ArriveCall(r, "other"))
    /\ WF_vars(part = "provider" /\ Tick)
    /\ \A f \in Fetch :
          /\ WF_vars(part = "provider" /\ Report(f))
          /\ WF_vars(part = "provider" /\ (AllowClosed(f) \/ AllowProbe(f)))
    /\ WF_browser(part = "login" /\ Login!Send("t1"))
    /\ WF_browser(part = "login" /\ Login!Handle("t1"))
    /\ SF_browser(part = "login" /\ Login!LoginSubmit("t1", "p1"))
    /\ SF_browser(part = "login" /\ Login!SocialLogin("t1"))
    /\ SF_browser(part = "login" /\ Login!AuthCallback("t1", "s1"))
    /\ WF_documents(part = "key_sets" /\ KeySets!TimePasses)
    /\ \A r \in Slots : WF_documents(part = "key_sets" /\ KeySets!FetchStep(r))
    /\ WF_events(part = "events" /\ Events!EmitEvent)
    /\ \A n \in 1..MostItems :
          /\ WF_events(part = "events" /\ \E item \in spawned : item.n = n /\ Events!publish(item))
          /\ \A p \in Plugins : WF_events(part = "events" /\ Events!Ended(n, p))

PartSpec == PartInit /\ [][PartNext]_partVars /\ PartFairness

-----------------------------------------------------------------------------
(* The properties of the other parts; the provider's are SocialBreaker's *)

\* No circuit refuses for ever: the middleware's does not stay open unless it was
\* opened before another thread's resets were through, nor half-open unless a
\* request from before reached into it or all slots were lost; and a provider is
\* asked again unless its probe was abandoned.
BreakersRecover == Breaker!OpenEnds /\ Breaker!HalfOpenDecided /\ Reopens

\* What was accepted is carried through, and what is out of date goes: a request
\* gets its code once the user has logged in, an event that the filter lets
\* through is offered to every plugin, and an outdated key set is dropped.
CarriedThrough == Login!Completes /\ Events!OfferedToAll /\ KeySets!OldEntriesGo
=============================================================================
