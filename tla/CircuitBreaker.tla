--------------------------- MODULE CircuitBreaker ---------------------------
(***************************************************************************)
(* safety/circuit_breaker.py.  Calls overlap at their await: one that was  *)
(* let in while the circuit was closed may answer when it is open or half  *)
(* open.  The locked blocks have no suspension, so each is one step with   *)
(* what leads to it.  Nothing in the application uses the class.           *)
(***************************************************************************)
EXTENDS Integers

CONSTANTS
  Caller,
  Threshold,            \* failure_threshold, at least 1: it is clipped
  ResetTimeout,         \* reset_timeout_sec, likewise
  Never,                \* None, for the time of opening
  MaxTime, MaxFailures  \* bounds: the clock and the counter stop here

Parameters ==
  /\ Threshold \in Nat \ {0} /\ ResetTimeout \in Nat \ {0}
  /\ Never \notin Nat

VARIABLES
  failures, openedAt, halfOpen,  \* the fields of the breaker
  now,                           \* time.monotonic()
  inside                         \* callers whose upstream call is under way

breaker == <<failures, openedAt, halfOpen>>
vars == <<breaker, now, inside>>

Init ==
  /\ failures = 0 /\ openedAt = Never /\ halfOpen = FALSE
  /\ now = 0 /\ inside = {}

state ==
  IF openedAt = Never THEN "closed" ELSE IF halfOpen THEN "half-open" ELSE "open"

\* The first call after the timeout makes the circuit half open; from then on
\* every call is let in, not only this one.  Others raise CircuitOpenError.
Call(c) ==
  /\ c \notin inside
  /\ state = "open" => now - openedAt >= ResetTimeout
  /\ halfOpen' = (state # "closed")
  /\ inside' = inside \cup {c}
  /\ UNCHANGED <<failures, openedAt, now>>

\* _on_success(), also of a call that began before the circuit opened.
Succeeds(c) ==
  /\ c \in inside /\ inside' = inside \ {c}
  /\ failures' = 0 /\ openedAt' = Never /\ halfOpen' = FALSE
  /\ UNCHANGED now

\* _on_failure().
Fails(c) ==
  /\ c \in inside /\ inside' = inside \ {c}
  /\ failures < MaxFailures /\ failures' = failures + 1
  /\ IF failures' >= Threshold
       THEN openedAt' = now /\ halfOpen' = FALSE
       ELSE UNCHANGED <<openedAt, halfOpen>>
  /\ UNCHANGED now

\* A cancelled call is no Exception and tells the breaker nothing.
Cancelled(c) ==
  /\ c \in inside /\ inside' = inside \ {c}
  /\ UNCHANGED <<breaker, now>>

Tick ==
  /\ now < MaxTime /\ now' = now + 1
  /\ UNCHANGED <<breaker, inside>>

Next ==
  \/ \E c \in Caller : Call(c) \/ Succeeds(c) \/ Fails(c) \/ Cancelled(c)
  \/ Tick

Spec == Init /\ [][Next]_vars

-----------------------------------------------------------------------------
\* The types of the breaker; the flag is only set while there is a time of
\* opening, or state would call a circuit closed that comes back half open.
TypeOK ==
  /\ failures \in Nat /\ now \in Nat /\ openedAt \in Nat \cup {Never}
  /\ halfOpen \in BOOLEAN /\ inside \subseteq Caller
  /\ halfOpen => openedAt # Never

\* The circuit is closed exactly while there were fewer failures than the
\* threshold since the last success, in whatever order the calls answered.
OpenByFailures == state # "closed" <=> failures >= Threshold

\* No call is let in before the timeout is over, counted from the last failure
\* that opened the circuit, those of late calls and failed probes included.
LetInAfterTimeout ==
  [][\A c \in Caller : Call(c) /\ state # "closed" =>
       now - openedAt >= ResetTimeout]_vars

\* Whoever fails while the circuit is not closed, be it a probe or a late call,
\* opens it again and starts the timeout anew; a lost probe leaves it as it is.
FailureReopens ==
  [][state # "closed" =>
       \A c \in Caller : /\ Fails(c) => state' = "open" /\ openedAt' = now
                         /\ Cancelled(c) => state' = state]_vars
=============================================================================
