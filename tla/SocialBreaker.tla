--------------------------- MODULE SocialBreaker ---------------------------
(***************************************************************************)
(* The per-provider circuit breaker of social login, and the user-info     *)
(* fetches that go through it.  Each call of the breaker holds its mutex,  *)
(* so it is one step; a fetch reports its outcome later, when the breaker  *)
(* may have moved on.  The HTTP client gives up after MaxFetch, which is   *)
(* shorter than the cooldown.  A handler's future may be dropped when its  *)
(* caller disconnects, and then nothing is reported.                       *)
(***************************************************************************)
EXTENDS Integers, FiniteSets

CONSTANTS
    Fetch,              \* slots for fetches under way
    FailureThreshold,
    Cooldown, MaxFetch, \* in clock ticks
    MaxDropped          \* bound on dropped futures

ASSUME TimeoutAssumption == MaxFetch \in Nat /\ Cooldown \in Nat /\ MaxFetch < Cooldown
ASSUME BoundAssumption == FailureThreshold \in Nat \ {0} /\ MaxDropped \in Nat

VARIABLES
    state,      \* "closed", "open" or "halfopen"
    since,      \* ticks since the circuit opened, up to Cooldown
    failures,   \* consecutive_failures, up to FailureThreshold
    age,        \* age[f]: ticks since f was admitted, or Idle
    probe,      \* fetches admitted as the probe
    dropped, lost   \* history: number of futures dropped; whether one was a probe

vars == <<state, since, failures, age, probe, dropped, lost>>

Idle == -1

Capped(n, max) == IF n > max THEN max ELSE n

Init ==
    /\ state = "closed" /\ since = 0 /\ failures = 0
    /\ age = [f \in Fetch |-> Idle]
    /\ probe = {} /\ dropped = 0 /\ lost = FALSE

Admit(f, asProbe) ==
    /\ age' = [age EXCEPT ![f] = 0]
    /\ probe' = IF asProbe THEN probe \cup {f} ELSE probe
    /\ UNCHANGED <<since, failures, dropped, lost>>

\* allow_request in the closed circuit
AllowClosed(f) ==
    /\ age[f] = Idle /\ state = "closed"
    /\ Admit(f, FALSE)
    /\ UNCHANGED state

\* Mutant: every caller after the cooldown is let through.
AllowAfterCooldown(f) ==
    /\ age[f] = Idle /\ state \in {"open", "halfopen"} /\ since = Cooldown
    /\ state' = "halfopen"
    /\ Admit(f, TRUE)

\* Mutant: the open circuit admits nobody.
AllowNoProbe(f) ==
    /\ age[f] = Idle /\ state = "open" /\ since > Cooldown
    /\ state' = "halfopen"
    /\ Admit(f, TRUE)

\* allow_request in the open circuit: the first caller after the cooldown is
\* the probe; until then, and in the half-open circuit, callers are refused.
AllowProbe(f) ==
    /\ age[f] = Idle /\ state = "open" /\ since = Cooldown
    /\ state' = "halfopen"
    /\ Admit(f, TRUE)

End(f) ==
    /\ age' = [age EXCEPT ![f] = Idle]
    /\ probe' = probe \ {f}

\* Any success closes the circuit, a late one too.
OnSuccess(f) ==
    /\ age[f] # Idle
    /\ state' = "closed" /\ failures' = 0
    /\ End(f)
    /\ UNCHANGED <<since, dropped, lost>>

\* Mutant: a failed probe is counted like any other failure.
OnFailureCounted(f) ==
    /\ age[f] # Idle
    /\ failures' = Capped(failures + 1, FailureThreshold)
    /\ IF failures + 1 = FailureThreshold
       THEN state' = "open" /\ since' = 0
       ELSE UNCHANGED <<state, since>>
    /\ End(f)
    /\ UNCHANGED <<dropped, lost>>

\* A failure in the open circuit restarts the cooldown.
OnFailure(f) ==
    /\ age[f] # Idle
    /\ failures' = Capped(failures + 1, FailureThreshold)
    /\ IF failures + 1 >= FailureThreshold \/ state = "halfopen"
       THEN state' = "open" /\ since' = 0
       ELSE UNCHANGED <<state, since>>
    /\ End(f)
    /\ UNCHANGED <<dropped, lost>>

\* fetch_google_user_info and its siblings report what the fetch returned.
Report(f) == OnSuccess(f) \/ OnFailure(f)

Drop(f) ==
    /\ age[f] # Idle /\ dropped < MaxDropped
    /\ dropped' = dropped + 1
    /\ lost' = (lost \/ f \in probe)
    /\ End(f)
    /\ UNCHANGED <<state, since, failures>>

\* Mutant: the client has no timeout.
TickNoTimeout ==
    /\ age' = [f \in Fetch |-> IF age[f] = Idle THEN Idle ELSE age[f] + 1]
    /\ since' = IF state = "open" THEN Capped(since + 1, Cooldown) ELSE since
    /\ UNCHANGED <<state, failures, probe, dropped, lost>>

\* Time passes; a fetch does not outlast its timeout.
Tick ==
    /\ \A f \in Fetch : age[f] < MaxFetch
    /\ age' = [f \in Fetch |-> IF age[f] = Idle THEN Idle ELSE age[f] + 1]
    /\ since' = IF state = "open" THEN Capped(since + 1, Cooldown) ELSE since
    /\ UNCHANGED <<state, failures, probe, dropped, lost>>

Next ==
    \/ Tick
    \/ \E f \in Fetch : AllowClosed(f) \/ AllowProbe(f) \/ Report(f) \/ Drop(f)

\* Time passes, a fetch ends, and users keep logging in.
Fairness ==
    /\ WF_vars(Tick)
    /\ \A f \in Fetch : WF_vars(Report(f)) /\ WF_vars(AllowClosed(f) \/ AllowProbe(f))

Spec == Init /\ [][Next]_vars /\ Fairness

-----------------------------------------------------------------------------
(* Properties *)

\* A fetch does not outlast its timeout, and every probe is a fetch under way.
TypeOK ==
    /\ state \in {"closed", "open", "halfopen"}
    /\ since \in 0..Cooldown /\ failures \in 0..FailureThreshold
    /\ age \in [Fetch -> Idle..MaxFetch]
    /\ probe \subseteq {f \in Fetch : age[f] # Idle}
    /\ dropped \in 0..MaxDropped /\ lost \in BOOLEAN

\* One probe at a time, although late outcomes of older fetches may close and
\* reopen the circuit around it: a probe ends before the next cooldown does.
OneProbe == Cardinality(probe) <= 1

\* A half-open circuit has its probe under way, unless the probe was lost; it
\* is never half-open with nobody to decide it otherwise.
HalfOpenHasProbe == state = "halfopen" /\ ~lost => probe # {}

\* The probes of a provider are accounted for: one at a time, and one whenever
\* the circuit is half-open, unless it was abandoned.
ProbeAccounted == OneProbe /\ HalfOpenHasProbe

\* Callers are not refused for ever, unless a probe was lost.
Reopens == []<>(state = "closed" \/ probe # {} \/ lost)
=============================================================================
