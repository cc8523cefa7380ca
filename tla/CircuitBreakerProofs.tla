------------------------ MODULE CircuitBreakerProofs ------------------------
(***************************************************************************)
(* Proofs about CircuitBreaker, for any callers, threshold and timeout.    *)
(***************************************************************************)
EXTENDS CircuitBreaker, TLAPS

\* The strengthening: the circuit has an opening time exactly when the count has
\* reached the threshold, and is half open only after the timeout.
BreakerInv ==
  /\ inside \subseteq Caller
  /\ failures \in Nat /\ now \in Nat /\ openedAt \in Nat \cup {Never}
  /\ halfOpen \in BOOLEAN
  /\ openedAt # Never <=> failures >= Threshold
  /\ halfOpen => openedAt # Never /\ now - openedAt >= ResetTimeout

\* The property state, spelled out.
LEMMA WhatStateSays ==
  /\ state = "closed" <=> openedAt = Never
  /\ state = "half-open" <=> openedAt # Never /\ halfOpen
  /\ state = "open" <=> openedAt # Never /\ ~halfOpen
  BY DEF state

\* The strengthening is inductive.
LEMMA BreakerInvariant ==
  ASSUME Parameters
  PROVE  Spec => []BreakerInv
<1> USE DEF Parameters
<1>1. Init => BreakerInv
  <2> SUFFICES ASSUME Init
               PROVE  BreakerInv
    OBVIOUS
  <2>1. /\ failures \in Nat /\ now \in Nat /\ openedAt = Never
        /\ ~(failures >= Threshold) /\ inside \subseteq Caller
    BY DEF Init
  <2>2. halfOpen = FALSE
    BY DEF Init
  <2> QED
    BY <2>1, <2>2 DEF BreakerInv
<1>2. BreakerInv /\ [Next]_vars => BreakerInv'
  <2> SUFFICES ASSUME BreakerInv, [Next]_vars
               PROVE  BreakerInv'
    OBVIOUS
  <2> USE DEF BreakerInv
  <2>1. ASSUME NEW c \in Caller, Call(c)
        PROVE  BreakerInv'
    <3>1. /\ UNCHANGED <<failures, openedAt, now>> /\ halfOpen' \in BOOLEAN
          /\ inside' \subseteq Caller
          /\ halfOpen' <=> openedAt # Never
      BY <2>1, WhatStateSays DEF Call
    <3>2. halfOpen' => now - openedAt >= ResetTimeout
      BY <2>1, <3>1, WhatStateSays DEF Call
    <3> QED
      BY <3>1, <3>2
  <2>2. ASSUME NEW c \in Caller, Succeeds(c)
        PROVE  BreakerInv'
    <3>1. /\ failures' \in Nat /\ ~(failures' >= Threshold)
          /\ openedAt' = Never /\ now' \in Nat /\ inside' \subseteq Caller
      BY <2>2 DEF Succeeds
    <3>2. halfOpen' = FALSE
      BY <2>2 DEF Succeeds
    <3> QED
      BY <3>1, <3>2
  <2>3. ASSUME NEW c \in Caller, Fails(c)
        PROVE  BreakerInv'
    <3>1. /\ failures' = failures + 1 /\ now' = now /\ failures' \in Nat
          /\ inside' \subseteq Caller
      BY <2>3 DEF Fails
    <3>2. CASE failures' >= Threshold
      <4>1. openedAt' = now
        BY <2>3, <3>2 DEF Fails
      <4>2. halfOpen' = FALSE
        BY <2>3, <3>2 DEF Fails
      <4> QED
        BY <3>1, <3>2, <4>1, <4>2
    <3>3. CASE ~(failures' >= Threshold)
      <4>1. UNCHANGED <<openedAt, halfOpen>>
        BY <2>3, <3>3 DEF Fails
      <4> QED
        BY <3>1, <3>3, <4>1
    <3> QED
      BY <3>2, <3>3
  <2>4. ASSUME NEW c \in Caller, Cancelled(c)
        PROVE  BreakerInv'
    BY <2>4 DEF Cancelled, breaker
  <2>5. CASE Tick
    BY <2>5 DEF Tick, breaker
  <2>6. CASE UNCHANGED vars
    BY <2>6 DEF vars, breaker
  <2> QED
    BY <2>1, <2>2, <2>3, <2>4, <2>5, <2>6 DEF Next
<1> QED
  BY <1>1, <1>2, PTL DEF Spec

\* Open or half open means: as many failures as the threshold since the last
\* success, for answers in any order.
THEOREM OpensByFailures ==
  ASSUME Parameters
  PROVE  Spec => []OpenByFailures
<1>1. BreakerInv => OpenByFailures
  BY WhatStateSays DEF BreakerInv, OpenByFailures
<1> QED
  BY <1>1, BreakerInvariant, PTL

\* Probes come after the timeout only.
THEOREM ProbesAfterTimeout ==
  ASSUME Parameters
  PROVE  Spec => LetInAfterTimeout
<1>1. BreakerInv /\ [Next]_vars =>
        [\A c \in Caller : Call(c) /\ state # "closed" =>
           now - openedAt >= ResetTimeout]_vars
  BY WhatStateSays DEF BreakerInv, Call
<1> QED
  BY <1>1, BreakerInvariant, PTL DEF Spec, LetInAfterTimeout

\* Every failure of a circuit that is not closed opens it again and starts the
\* timeout anew, late answers included; a cancelled probe changes nothing.
THEOREM FailuresReopen ==
  ASSUME Parameters
  PROVE  Spec => FailureReopens
<1>1. BreakerInv /\ [Next]_vars =>
        [state # "closed" =>
           \A c \in Caller : /\ Fails(c) => state' = "open" /\ openedAt' = now
                             /\ Cancelled(c) => state' = state]_vars
  <2> SUFFICES ASSUME BreakerInv, state # "closed", NEW c \in Caller
               PROVE  /\ Fails(c) => state' = "open" /\ openedAt' = now
                      /\ Cancelled(c) => state' = state
    OBVIOUS
  <2>1. ASSUME Fails(c)
        PROVE  state' = "open" /\ openedAt' = now
    <3>1. failures' >= Threshold
      BY <2>1, WhatStateSays DEF BreakerInv, Fails, Parameters
    <3>2. openedAt' = now /\ now \in Nat
      BY <2>1, <3>1 DEF Fails, BreakerInv
    <3>3. halfOpen' = FALSE
      BY <2>1, <3>1 DEF Fails
    <3> QED
      BY <3>2, <3>3 DEF state, Parameters
  <2>2. ASSUME Cancelled(c)
        PROVE  state' = state
    BY <2>2 DEF Cancelled, breaker, state
  <2> QED
    BY <2>1, <2>2
<1> QED
  BY <1>1, BreakerInvariant, PTL DEF Spec, FailureReopens

\* The types of the breaker.
THEOREM BreakerTyping ==
  ASSUME Parameters
  PROVE  Spec => []TypeOK
<1>1. BreakerInv => TypeOK
  BY DEF BreakerInv, TypeOK
<1> QED
  BY <1>1, BreakerInvariant, PTL
=============================================================================
