------------------------- MODULE SocialBreakerProofs -------------------------
(***************************************************************************)
(* Theorems about SocialBreaker for any number of fetches, any threshold   *)
(* and any timeout shorter than the cooldown.                              *)
(***************************************************************************)
EXTENDS SocialBreaker, FiniteSetTheorems, TLAPS

USE TimeoutAssumption, BoundAssumption DEF Idle

-----------------------------------------------------------------------------
(* What the theorem rests on *)

\* In an open circuit every probe still under way was admitted before the
\* circuit opened.
ProbesOlder == state = "open" => \A f \in probe : since <= age[f]

Alone == \A f, g \in probe : f = g

ProbeInv == TypeOK /\ ProbesOlder /\ Alone /\ HalfOpenHasProbe

-----------------------------------------------------------------------------
\* Clocks and counters stay within their bounds; a fetch does not outlast its timeout.
LEMMA TypeStep == TypeOK /\ [Next]_vars => TypeOK'
<1> SUFFICES ASSUME TypeOK, [Next]_vars PROVE TypeOK'
  OBVIOUS
<1> USE DEF TypeOK
<1>1. CASE Tick
  BY <1>1 DEF Tick, Capped
<1>2. ASSUME NEW f \in Fetch, AllowClosed(f) PROVE TypeOK'
  BY <1>2 DEF AllowClosed, Admit
<1>3. ASSUME NEW f \in Fetch, AllowProbe(f) PROVE TypeOK'
  BY <1>3 DEF AllowProbe, Admit
<1>4. ASSUME NEW f \in Fetch, OnSuccess(f) PROVE TypeOK'
  BY <1>4 DEF OnSuccess, End
<1>5. ASSUME NEW f \in Fetch, OnFailure(f) PROVE TypeOK'
  BY <1>5 DEF OnFailure, End, Capped
<1>6. ASSUME NEW f \in Fetch, Drop(f) PROVE TypeOK'
  BY <1>6 DEF Drop, End
<1>7. CASE UNCHANGED vars
  BY <1>7 DEF vars
<1> QED
  BY <1>1, <1>2, <1>3, <1>4, <1>5, <1>6, <1>7 DEF Next, Report

\* The circuit opens with since = 0, and from then on both clocks advance together.
LEMMA OlderStep == TypeOK /\ ProbesOlder /\ [Next]_vars => ProbesOlder'
<1> SUFFICES ASSUME TypeOK, ProbesOlder, [Next]_vars PROVE ProbesOlder'
  OBVIOUS
<1> USE DEF TypeOK, ProbesOlder
<1>1. CASE Tick
  BY <1>1 DEF Tick, Capped
<1>2. ASSUME NEW f \in Fetch, AllowClosed(f) PROVE ProbesOlder'
  BY <1>2 DEF AllowClosed, Admit
<1>3. ASSUME NEW f \in Fetch, AllowProbe(f) PROVE ProbesOlder'
  BY <1>3 DEF AllowProbe, Admit
<1>4. ASSUME NEW f \in Fetch, OnSuccess(f) PROVE ProbesOlder'
  BY <1>4 DEF OnSuccess, End
<1>5. ASSUME NEW f \in Fetch, OnFailure(f) PROVE ProbesOlder'
  BY <1>5 DEF OnFailure, End, Capped
<1>6. ASSUME NEW f \in Fetch, Drop(f) PROVE ProbesOlder'
  BY <1>6 DEF Drop, End
<1>7. CASE UNCHANGED vars
  BY <1>7 DEF vars
<1> QED
  BY <1>1, <1>2, <1>3, <1>4, <1>5, <1>6, <1>7 DEF Next, Report

\* When the cooldown is over, no probe can be under way: it would be older than
\* its timeout.
LEMMA AloneStep == TypeOK /\ ProbesOlder /\ Alone /\ [Next]_vars => Alone'
<1> SUFFICES ASSUME TypeOK, ProbesOlder, Alone, [Next]_vars PROVE Alone'
  OBVIOUS
<1> USE DEF TypeOK, ProbesOlder, Alone
<1>1. CASE Tick
  BY <1>1 DEF Tick, Capped
<1>2. ASSUME NEW f \in Fetch, AllowClosed(f) PROVE Alone'
  BY <1>2 DEF AllowClosed, Admit
<1>3. ASSUME NEW f \in Fetch, AllowProbe(f) PROVE Alone'
  BY <1>3 DEF AllowProbe, Admit
<1>4. ASSUME NEW f \in Fetch, OnSuccess(f) PROVE Alone'
  BY <1>4 DEF OnSuccess, End
<1>5. ASSUME NEW f \in Fetch, OnFailure(f) PROVE Alone'
  BY <1>5 DEF OnFailure, End, Capped
<1>6. ASSUME NEW f \in Fetch, Drop(f) PROVE Alone'
  BY <1>6 DEF Drop, End
<1>7. CASE UNCHANGED vars
  BY <1>7 DEF vars
<1> QED
  BY <1>1, <1>2, <1>3, <1>4, <1>5, <1>6, <1>7 DEF Next, Report

\* The half-open circuit is left by the outcome of a fetch, and its probe goes
\* unreported only when it is dropped.
LEMMA HalfOpenStep == TypeOK /\ HalfOpenHasProbe /\ [Next]_vars => HalfOpenHasProbe'
<1> SUFFICES ASSUME TypeOK, HalfOpenHasProbe, [Next]_vars PROVE HalfOpenHasProbe'
  OBVIOUS
<1> USE DEF TypeOK, HalfOpenHasProbe
<1>1. CASE Tick
  BY <1>1 DEF Tick, Capped
<1>2. ASSUME NEW f \in Fetch, AllowClosed(f) PROVE HalfOpenHasProbe'
  BY <1>2 DEF AllowClosed, Admit
<1>3. ASSUME NEW f \in Fetch, AllowProbe(f) PROVE HalfOpenHasProbe'
  BY <1>3 DEF AllowProbe, Admit
<1>4. ASSUME NEW f \in Fetch, OnSuccess(f) PROVE HalfOpenHasProbe'
  BY <1>4 DEF OnSuccess, End
<1>5. ASSUME NEW f \in Fetch, OnFailure(f) PROVE HalfOpenHasProbe'
  BY <1>5 DEF OnFailure, End, Capped
<1>6. ASSUME NEW f \in Fetch, Drop(f) PROVE HalfOpenHasProbe'
  BY <1>6 DEF Drop, End
<1>7. CASE UNCHANGED vars
  BY <1>7 DEF vars
<1> QED
  BY <1>1, <1>2, <1>3, <1>4, <1>5, <1>6, <1>7 DEF Next, Report

-----------------------------------------------------------------------------
\* The invariant behind the theorem.
LEMMA ProbeInvariant == Spec => []ProbeInv
<1>1. Init => ProbeInv
  <2>1. Idle \in Idle..MaxFetch /\ 0 \in 0..Cooldown /\ 0 \in 0..FailureThreshold /\ 0 \in 0..MaxDropped
    OBVIOUS
  <2>2. Init => TypeOK
    BY <2>1 DEF Init, TypeOK
  <2>3. Init => ProbesOlder /\ Alone /\ HalfOpenHasProbe
    BY DEF Init, ProbesOlder, Alone, HalfOpenHasProbe
  <2> QED
    BY <2>2, <2>3 DEF ProbeInv
<1>2. ProbeInv /\ [Next]_vars => ProbeInv'
  BY TypeStep, OlderStep, AloneStep, HalfOpenStep DEF ProbeInv
<1> QED
  BY <1>1, <1>2, PTL DEF Spec

\* The breaker's clock and counters keep their ranges, and a fetch ends with its
\* timeout.
THEOREM TypeCorrect == Spec => []TypeOK
<1>1. ProbeInv => TypeOK
  BY DEF ProbeInv
<1> QED
  BY <1>1, ProbeInvariant, PTL

\* At most one probe of a provider is under way, whatever late outcomes of older
\* fetches do to the circuit around it, and a half-open circuit is waiting for
\* one unless its future was dropped.
THEOREM ProbesAccounted == Spec => []ProbeAccounted
<1>1. ProbeInv => ProbeAccounted
  <2> SUFFICES ASSUME ProbeInv PROVE OneProbe
    BY DEF ProbeInv, ProbeAccounted
  <2>1. CASE probe = {}
    BY <2>1, FS_EmptySet DEF OneProbe
  <2>2. CASE probe # {}
    <3>1. PICK f : probe = {f}
      BY <2>2 DEF ProbeInv, Alone
    <3>2. Cardinality({f}) = 1
      BY FS_Singleton
    <3> QED
      BY <3>1, <3>2 DEF OneProbe
  <2> QED
    BY <2>1, <2>2
<1> QED
  BY <1>1, ProbeInvariant, PTL
=============================================================================
