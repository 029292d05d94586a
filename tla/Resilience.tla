----------------------------- MODULE Resilience -----------------------------
(***************************************************************************)
(* The resilience middleware and the lock-free circuit breaker it shares   *)
(* between worker threads, with the global and the per-route concurrency   *)
(* limits.  A request runs on one thread, and every load, store, swap,     *)
(* fetch_add and fetch_sub it does on the breaker is a step of its own:    *)
(* stage is where it is in the middleware, op the next operation inside    *)
(* the breaker.  Only the compare-and-swap loop of allow_request is one    *)
(* step, the round that ends it; the others change nothing.  Request slots *)
(* are reused; trip counters and metrics other than the in-flight gauge    *)
(* are left out.                                                           *)
(***************************************************************************)
EXTENDS Integers, FiniteSets

CONSTANTS
    Call,               \* request slots
    Bulkhead,           \* route groups with a limit of their own
    NoBulkhead,         \* a route outside of them
    FailureThreshold, SuccessThreshold, HalfOpenMaxProbes,
    MaxConcurrent,      \* global permits
    BulkheadMax,        \* permits of each bulkhead
    Width,              \* probe_count is an unsigned number below Width
    MaxCutOff           \* bound on requests whose future is dropped or fails

ASSUME LimitAssumption ==
    /\ MaxConcurrent \in Nat /\ BulkheadMax \in Nat /\ MaxCutOff \in Nat
    /\ Width \in Nat \ {0} /\ HalfOpenMaxProbes \in 0..(Width - 1)
    /\ FailureThreshold \in Nat /\ SuccessThreshold \in Nat
    /\ NoBulkhead \notin Bulkhead

VARIABLES
    state, failures, successes, probes,
    timer,       \* opened_at: "none", "running", or "elapsed" by open_duration
    stage, route,  \* of a request: next step, bulkhead
    op,          \* its next atomic operation inside the breaker, or "none"
    settling,    \* the state it is moving the circuit to, by a swap and the resets after it
    probe,       \* is_cb_probe
    failed,      \* the inner service answered with a 5xx
    holders, partition,  \* requests with a global permit, with a bulkhead permit
    gauge,       \* concurrent_requests_in_flight
    cutOff,      \* number of requests that ended without an answer
    leaked,      \* slots of dropped probes, in probe_count since it was last reset
    overtaken,   \* history: the circuit was opened while another's resets were unfinished
    strayed      \* history: it became half-open with a request about that may release a
                 \* slot, or gave a slot away before all resets were through

breaker == <<state, failures, successes, probes, timer>>
permits == <<holders, partition, gauge>>
callLocals == <<stage, route, op, settling, probe, failed>>
breakerHistory == <<leaked, overtaken, strayed>>
resilienceVars == <<breaker, permits, callLocals, cutOff, breakerHistory>>

ResilienceInit ==
    /\ state = "closed" /\ failures = 0 /\ successes = 0 /\ probes = 0 /\ timer = "none"
    /\ stage = [r \in Call |-> "idle"]
    /\ route = [r \in Call |-> NoBulkhead]
    /\ op = [r \in Call |-> "none"]
    /\ settling = [r \in Call |-> "no"]
    /\ probe = [r \in Call |-> FALSE]
    /\ failed = [r \in Call |-> FALSE]
    /\ holders = {} /\ partition = {} /\ gauge = 0 /\ cutOff = 0
    /\ leaked = 0 /\ overtaken = FALSE /\ strayed = FALSE

GoOn(r, next) ==
    /\ stage' = [stage EXCEPT ![r] = next]
    /\ UNCHANGED <<route, op, settling, probe, failed>>

-----------------------------------------------------------------------------
(* The breaker, one atomic operation at a time *)

\* Who has swapped the state and not finished the resets that follow.
Settling == {r \in Call : op[r] \in {"opened_at", "failures", "successes", "probes"}}

\* Probes that have not given back their slot.
Probes == {r \in Call : probe[r] /\ (stage[r] \notin {"final", "finish"} \/ op[r] = "release")}

\* Requests that may still release a slot.
Using == Probes \cup {r \in Call : stage[r] = "record" \/ op[r] = "release"}

\* The request's next operation inside the breaker.
Then(r, next) ==
    /\ op' = [op EXCEPT ![r] = next]
    /\ settling' = [settling EXCEPT ![r] = IF next = "none" THEN "no" ELSE @]
    /\ UNCHANGED <<stage, route, probe, failed>>

\* transition_to begins: the swap is next.
Transit(r, new) ==
    /\ op' = [op EXCEPT ![r] = "swap"]
    /\ settling' = [settling EXCEPT ![r] = new]
    /\ UNCHANGED <<stage, route, probe, failed>>

\* open_duration passes.
Elapse ==
    /\ timer = "running"
    /\ timer' = "elapsed"
    /\ UNCHANGED <<state, failures, successes, probes, permits, callLocals, cutOff, breakerHistory>>

\* check_transition, at a call of state() or allow_request: it loads the state;
\* the step after it loads it again.
CheckTransition(r, here, next) ==
    /\ stage[r] = here /\ op[r] = "none"
    /\ stage' = [stage EXCEPT ![r] = next]
    /\ op' = [op EXCEPT ![r] = IF state = "open" THEN "elapsed" ELSE "none"]
    /\ UNCHANGED <<breaker, permits, route, settling, probe, failed, cutOff, breakerHistory>>

\* check_transition reads opened_at.
ReadTimer(r) ==
    /\ op[r] = "elapsed"
    /\ IF timer = "elapsed" THEN Transit(r, "halfopen") ELSE Then(r, "none")
    /\ UNCHANGED <<breaker, permits, cutOff, breakerHistory>>

\* transition_to swaps the state.  Nothing is reset if the state was new.
Swap(r) ==
    /\ op[r] = "swap"
    /\ state' = settling[r]
    /\ IF state = settling[r] THEN Then(r, "none") /\ UNCHANGED breakerHistory
       ELSE /\ Then(r, CASE settling[r] = "open" -> "opened_at"
                        [] settling[r] = "halfopen" -> "successes"
                        [] settling[r] = "closed" -> "failures")
            /\ overtaken' = (settling[r] = "open" /\ Settling # {})
            /\ strayed' = (settling[r] = "halfopen" /\ Using # {})
            /\ UNCHANGED leaked
    /\ UNCHANGED <<failures, successes, probes, timer, permits, cutOff>>

\* Mutant: opening the circuit does not start the timer.
OpenedAtNotStarted(r) ==
    /\ op[r] = "opened_at"
    /\ timer' = "none"
    /\ Then(r, IF settling[r] = "open" THEN "failures" ELSE "none")
    /\ UNCHANGED <<state, failures, successes, probes, permits, cutOff, breakerHistory>>

\* The resets: first in opening the circuit, last in closing it, opened_at.
ResetOpenedAt(r) ==
    /\ op[r] = "opened_at"
    /\ timer' = IF settling[r] = "open" THEN "running" ELSE "none"
    /\ Then(r, IF settling[r] = "open" THEN "failures" ELSE "none")
    /\ UNCHANGED <<state, failures, successes, probes, permits, cutOff, breakerHistory>>

ResetFailures(r) ==
    /\ op[r] = "failures"
    /\ failures' = 0
    /\ Then(r, "successes")
    /\ UNCHANGED <<state, successes, probes, timer, permits, cutOff, breakerHistory>>

ResetSuccesses(r) ==
    /\ op[r] = "successes"
    /\ successes' = 0
    /\ Then(r, "probes")
    /\ UNCHANGED <<state, failures, probes, timer, permits, cutOff, breakerHistory>>

ResetProbes(r) ==
    /\ op[r] = "probes"
    /\ probes' = 0 /\ leaked' = 0
    /\ Then(r, IF settling[r] = "closed" THEN "opened_at" ELSE "none")
    /\ UNCHANGED <<state, failures, successes, timer, permits, cutOff, overtaken, strayed>>

\* record_success in the closed circuit: failure_count.store(0).
Forgive(r) ==
    /\ op[r] = "forgive"
    /\ failures' = 0
    /\ Then(r, "none")
    /\ UNCHANGED <<state, successes, probes, timer, permits, cutOff, breakerHistory>>

\* Of a probe: fetch_sub wraps.  A failure opens the circuit, a success counts.
Release(r) ==
    /\ op[r] = "release"
    /\ probes' = (probes - 1) % Width
    /\ IF failed[r] THEN Transit(r, "open") ELSE Then(r, "success")
    /\ UNCHANGED <<state, failures, successes, timer, permits, cutOff, breakerHistory>>

CountSuccess(r) ==
    /\ op[r] = "success"
    /\ successes' = successes + 1
    /\ IF successes + 1 >= SuccessThreshold THEN Transit(r, "closed") ELSE Then(r, "none")
    /\ UNCHANGED <<state, failures, probes, timer, permits, cutOff, breakerHistory>>

CountFailure(r) ==
    /\ op[r] = "failure"
    /\ failures' = failures + 1
    /\ IF failures + 1 >= FailureThreshold THEN Transit(r, "open") ELSE Then(r, "none")
    /\ UNCHANGED <<state, successes, probes, timer, permits, cutOff, breakerHistory>>

\* A step of a request inside the breaker.
InBreaker(r) ==
    \/ ReadTimer(r) \/ Swap(r)
    \/ ResetOpenedAt(r) \/ ResetFailures(r) \/ ResetSuccesses(r) \/ ResetProbes(r)
    \/ Forgive(r) \/ Release(r) \/ CountSuccess(r) \/ CountFailure(r)

-----------------------------------------------------------------------------
(* The middleware *)

ArriveCall(r, b) ==
    /\ stage[r] = "idle"
    /\ stage' = [stage EXCEPT ![r] = "enter"]
    /\ route' = [route EXCEPT ![r] = b]
    /\ UNCHANGED <<breaker, op, settling, probe, failed, permits, cutOff, breakerHistory>>

\* The response is sent and the permits are dropped with the future.
Leave(r) ==
    /\ holders' = holders \ {r}
    /\ partition' = partition \ {r}
    /\ stage' = [stage EXCEPT ![r] = "idle"]
    /\ probe' = [probe EXCEPT ![r] = FALSE]
    /\ failed' = [failed EXCEPT ![r] = FALSE]
    /\ UNCHANGED <<route, op, settling>>

\* The open circuit rejects before anything is acquired.
FastFail(r) ==
    /\ stage[r] = "entered" /\ op[r] = "none"
    /\ GoOn(r, IF state = "open" THEN "idle" ELSE "global")
    /\ UNCHANGED <<breaker, permits, cutOff, breakerHistory>>

AcquireGlobal(r) ==
    /\ stage[r] = "global"
    /\ IF Cardinality(holders) < MaxConcurrent
       THEN holders' = holders \cup {r} /\ gauge' = gauge + 1 /\ GoOn(r, "bulkhead")
       ELSE UNCHANGED <<holders, gauge>> /\ GoOn(r, "idle")
    /\ UNCHANGED <<breaker, partition, cutOff, breakerHistory>>

\* Only a route with a bulkhead can find it full.
BulkheadFull(r) ==
    route[r] # NoBulkhead /\ Cardinality({h \in partition : route[h] = route[r]}) >= BulkheadMax

\* Mutant: a rejection forgets the gauge.
BulkheadForgetsGauge(r) ==
    /\ stage[r] = "bulkhead"
    /\ \/ /\ ~BulkheadFull(r)
          /\ partition' = IF route[r] = NoBulkhead THEN partition ELSE partition \cup {r}
          /\ GoOn(r, "probe")
          /\ UNCHANGED <<holders, gauge>>
       \/ BulkheadFull(r) /\ Leave(r) /\ UNCHANGED gauge
    /\ UNCHANGED <<breaker, cutOff, breakerHistory>>

AcquireBulkhead(r) ==
    /\ stage[r] = "bulkhead"
    /\ \/ /\ ~BulkheadFull(r)
          /\ partition' = IF route[r] = NoBulkhead THEN partition ELSE partition \cup {r}
          /\ GoOn(r, "probe")
          /\ UNCHANGED <<holders, gauge>>
       \/ BulkheadFull(r) /\ Leave(r) /\ gauge' = gauge - 1
    /\ UNCHANGED <<breaker, cutOff, breakerHistory>>

\* Whether the request is a probe.
ProbeNeeded(r) ==
    /\ stage[r] = "probing" /\ op[r] = "none"
    /\ GoOn(r, IF state = "halfopen" THEN "allow" ELSE "call")
    /\ UNCHANGED <<breaker, permits, cutOff, breakerHistory>>

\* allow_request, by the state it loads.
AllowRequest(r) ==
    /\ stage[r] = "allowing" /\ op[r] = "none"
    /\ CASE state = "closed" -> stage' = [stage EXCEPT ![r] = "call"] /\ probe' = [probe EXCEPT ![r] = TRUE]
                                /\ UNCHANGED <<route, op, settling, failed, permits>>
         [] state = "halfopen" -> GoOn(r, "slot") /\ UNCHANGED permits
         [] state = "open" -> Leave(r) /\ gauge' = gauge - 1
    /\ UNCHANGED <<breaker, cutOff, breakerHistory>>

\* The compare-and-swap loop: a rejected request takes no slot.
TakeSlot(r) ==
    /\ stage[r] = "slot"
    /\ IF probes < HalfOpenMaxProbes
       THEN /\ probes' = probes + 1
            /\ stage' = [stage EXCEPT ![r] = "call"]
            /\ probe' = [probe EXCEPT ![r] = TRUE]
            /\ UNCHANGED <<route, op, settling, failed, permits>>
       ELSE Leave(r) /\ gauge' = gauge - 1 /\ UNCHANGED probes
    /\ strayed' = (strayed \/ (state = "halfopen" /\ Settling # {}))
    /\ UNCHANGED <<state, failures, successes, timer, cutOff, leaked, overtaken>>

\* The inner service answers.  The outcome of a probe is recorded at once.
ServiceAnswers(r, err) ==
    /\ stage[r] = "call"
    /\ stage' = [stage EXCEPT ![r] = IF probe[r] THEN "record" ELSE "outcome"]
    /\ failed' = [failed EXCEPT ![r] = err]
    /\ gauge' = gauge - 1
    /\ UNCHANGED <<breaker, holders, partition, route, op, settling, probe, cutOff, breakerHistory>>

\* It returns Err, or the future is dropped: the permits go, the rest stays.
CutOff(r) ==
    /\ stage[r] = "call" /\ cutOff < MaxCutOff
    /\ Leave(r)
    /\ cutOff' = cutOff + 1
    /\ leaked' = IF probe[r] THEN leaked + 1 ELSE leaked
    /\ UNCHANGED <<breaker, gauge, overtaken, strayed>>

\* Another's counts while the circuit is closed.
Tracked(r) ==
    /\ stage[r] = "tracking" /\ op[r] = "none"
    /\ GoOn(r, IF state = "closed" THEN "record" ELSE "final")
    /\ UNCHANGED <<breaker, permits, cutOff, breakerHistory>>

\* record_failure and record_success, by the state they load.
RecordFailure(r) ==
    /\ stage[r] = "record" /\ failed[r]
    /\ stage' = [stage EXCEPT ![r] = "final"]
    /\ op' = [op EXCEPT ![r] = CASE state = "closed" -> "failure"
                                 [] state = "halfopen" -> "release" [] state = "open" -> "none"]
    /\ UNCHANGED <<breaker, permits, route, settling, probe, failed, cutOff, breakerHistory>>

RecordSuccess(r) ==
    /\ stage[r] = "record" /\ ~failed[r]
    /\ stage' = [stage EXCEPT ![r] = "final"]
    /\ op' = [op EXCEPT ![r] = CASE state = "closed" -> "forgive"
                                 [] state = "halfopen" -> "release" [] state = "open" -> "none"]
    /\ UNCHANGED <<breaker, permits, route, settling, probe, failed, cutOff, breakerHistory>>

\* The state is read once more for the metrics, and the response goes out.
Finish(r) ==
    /\ stage[r] = "finish" /\ op[r] = "none"
    /\ Leave(r)
    /\ UNCHANGED <<breaker, gauge, cutOff, breakerHistory>>

\* The next step of a request that has been let in.
Proceed(r) ==
    \/ CheckTransition(r, "enter", "entered")
    \/ CheckTransition(r, "probe", "probing")
    \/ CheckTransition(r, "allow", "allowing")
    \/ CheckTransition(r, "outcome", "tracking")
    \/ CheckTransition(r, "final", "finish")
    \/ FastFail(r) \/ AcquireGlobal(r) \/ AcquireBulkhead(r)
    \/ ProbeNeeded(r) \/ AllowRequest(r) \/ TakeSlot(r)
    \/ \E err \in BOOLEAN : ServiceAnswers(r, err)
    \/ Tracked(r) \/ RecordFailure(r) \/ RecordSuccess(r) \/ Finish(r)
    \/ InBreaker(r)

ResilienceNext ==
    \/ Elapse
    \/ \E r \in Call : Proceed(r) \/ CutOff(r)
    \/ \E r \in Call, b \in Bulkhead \cup {NoBulkhead} : ArriveCall(r, b)

\* Threads run, the inner service answers, time passes and clients keep
\* calling.
ResilienceFairness ==
    /\ WF_resilienceVars(Elapse)
    /\ \A r \in Call :
          /\ WF_resilienceVars(Proceed(r))
          /\ WF_resilienceVars(\E b \in Bulkhead \cup {NoBulkhead} : ArriveCall(r, b))

ResilienceSpec == ResilienceInit /\ [][ResilienceNext]_resilienceVars /\ ResilienceFairness

-----------------------------------------------------------------------------
(* Properties *)

Stage == {"idle", "enter", "entered", "global", "bulkhead", "probe", "probing", "allow", "allowing",
          "slot", "call", "outcome", "tracking", "record", "final", "finish"}

Op == {"none", "elapsed", "swap", "opened_at", "failures", "successes", "probes",
       "forgive", "release", "success", "failure"}

\* probe_count stays within its width, and the rest in its range.
ResilienceTypeOK ==
    /\ state \in {"closed", "open", "halfopen"} /\ timer \in {"none", "running", "elapsed"}
    /\ failures \in Nat /\ successes \in Nat /\ probes \in 0..(Width - 1)
    /\ stage \in [Call -> Stage]
    /\ route \in [Call -> Bulkhead \cup {NoBulkhead}]
    /\ op \in [Call -> Op]
    /\ settling \in [Call -> {"no", "closed", "open", "halfopen"}]
    /\ \A r \in Call : op[r] = "swap" => settling[r] # "no"
    /\ probe \in [Call -> BOOLEAN] /\ failed \in [Call -> BOOLEAN]
    /\ holders \subseteq Call /\ partition \subseteq Call /\ gauge \in Int
    /\ cutOff \in 0..MaxCutOff
    /\ leaked \in Nat /\ overtaken \in BOOLEAN /\ strayed \in BOOLEAN

\* The limits hold, and every exit, rejections and dropped futures included,
\* gives its permits back (ConcurrencyPermit, BulkheadRegistry).
PermitsExact ==
    /\ Cardinality(holders) <= MaxConcurrent
    /\ \A b \in Bulkhead : Cardinality({h \in partition : route[h] = b}) <= BulkheadMax
    /\ \A r \in Call : r \in holders \cup partition => stage[r] # "idle"

\* In a half-open circuit that no earlier request reached into, probe_count is
\* the number of probes in flight and of those that were dropped there: a
\* rejected request takes no slot and every recorded outcome releases one.
ProbeSlotsExact ==
    state = "halfopen" /\ Settling = {} /\ ~strayed =>
        probes = Cardinality(Probes) + leaked

\* The gauge counts the requests between admission and answer, and those
\* that were dropped there.
GaugeCounts ==
    gauge = cutOff + Cardinality({r \in holders :
        stage[r] \in {"bulkhead", "probe", "probing", "allow", "allowing", "slot", "call"}})

\* Every request gives its permits back; the gauge is what is in flight or was
\* dropped there; and so is probe_count, unless a request of an earlier state
\* of the circuit reached into this one.
SlotsExact == PermitsExact /\ ProbeSlotsExact /\ GaugeCounts

\* The circuit does not stay open for ever, unless it was opened before another
\* thread had finished its resets, which may stop the timer.
OpenEnds == []<>(state # "open" \/ overtaken)

\* A half-open circuit is decided, unless a request of an earlier state reached
\* into it or every slot was lost with a dropped probe.
HalfOpenDecided ==
    []<>(state # "halfopen" \/ strayed \/ leaked >= HalfOpenMaxProbes)
=============================================================================
