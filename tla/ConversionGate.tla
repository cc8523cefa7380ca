--------------------------- MODULE ConversionGate ---------------------------
(***************************************************************************)
(* safety/conversion_gate.py: at most max_concurrent conversions at once,  *)
(* at most max_queue requests waiting for their turn, the rest refused.    *)
(*                                                                         *)
(* The gate's locked blocks do not suspend, so each of them is one step    *)
(* with what follows it.  The only suspension of acquire() is the wait in  *)
(* asyncio.Semaphore, whose queue of futures is modelled here as Python    *)
(* 3.11 implements it, because the gate's promises depend on it: a future  *)
(* that was granted keeps its place in the queue until its task resumes,   *)
(* and a task may be cancelled before and after the grant.                 *)
(***************************************************************************)
EXTENDS Naturals, FiniteSets, Sequences

CONSTANTS
  Request,        \* requests that use the gate, each any number of times
  MaxConcurrent,  \* max_concurrent, positive: the constructor checks it
  MaxQueue        \* max_queue, not negative: the constructor clips it

ASSUME GateAssumption ==
  MaxConcurrent \in Nat \ {0} /\ MaxQueue \in Nat /\ IsFiniteSet(Request)

VARIABLES
  pc,        \* pc[r]: where request r is
  waiters,   \* the semaphore's deque of futures, named by their requests
  value,     \* the semaphore's counter
  waiting, inflight   \* the gate's counters

vars == <<pc, waiters, value, waiting, inflight>>

\* A waiter's future is pending ("queued"), has a result its task has yet to
\* see ("granted", or "doomed" when the task was cancelled meanwhile), or is
\* cancelled itself ("cancelled").
Place == {"out", "refused", "queued", "granted", "doomed", "cancelled",
          "running"}

At(places) == {r \in Request : pc[r] \in places}
Running == At({"running"})
Promised == At({"granted", "doomed"})                    \* hold a unit already
InLine == At({"queued", "granted", "doomed", "cancelled"})

TypeOK ==
  /\ pc \in [Request -> Place]
  /\ waiters \in Seq(Request)
  /\ value \in Nat /\ waiting \in Nat /\ inflight \in Nat

Init ==
  /\ pc = [r \in Request |-> "out"]
  /\ waiters = <<>>
  /\ value = MaxConcurrent
  /\ waiting = 0 /\ inflight = 0

-----------------------------------------------------------------------------
(* asyncio.Semaphore.                                                      *)

Locked == value = 0 \/ \E i \in DOMAIN waiters : pc[waiters[i]] # "cancelled"

\* The deque without its i-th future.
Without(i) == SubSeq(waiters, 1, i - 1) \o SubSeq(waiters, i + 1, Len(waiters))

\* _wake_up_next() on deque ws, with v units and the tasks at p: the first
\* pending future, if any, gets a unit.
WakeNext(ws, v, p) ==
  LET pending == {i \in DOMAIN ws : p[ws[i]] = "queued"}
  IN  /\ waiters' = ws
      /\ \/ /\ pending = {}
            /\ value' = v /\ pc' = p
         \/ \E i \in pending :
              /\ \A j \in pending : i <= j
              /\ value' = v - 1
              /\ pc' = [p EXCEPT ![ws[i]] = "granted"]

-----------------------------------------------------------------------------
(* acquire(), up to its yield or its wait.                                 *)

\* Mutant: the requests in line are not counted.
InUseRunning == inflight

InUse == inflight + waiting
\* Mutants: one place is refused too early, or given too often.
FullEarly == InUse + 1 >= MaxConcurrent + MaxQueue
FullLate == InUse >= MaxConcurrent /\ InUse - MaxConcurrent > MaxQueue

\* The test of acquire(): the queue engages once all capacity is in use.
Full == InUse >= MaxConcurrent /\ InUse - MaxConcurrent >= MaxQueue

Refuse(r) ==
  /\ pc[r] = "out" /\ Full
  /\ pc' = [pc EXCEPT ![r] = "refused"]
  /\ UNCHANGED <<waiters, value, waiting, inflight>>

\* Mutant: a conversion that did not wait is not counted.
EnterUncounted(r) ==
  /\ pc[r] = "out" /\ ~Full /\ ~Locked
  /\ value' = value - 1
  /\ pc' = [pc EXCEPT ![r] = "running"]
  /\ UNCHANGED <<waiters, waiting, inflight>>

\* A unit is free and nobody is ahead: no suspension before the conversion.
EnterAtOnce(r) ==
  /\ pc[r] = "out" /\ ~Full /\ ~Locked
  /\ value' = value - 1
  /\ inflight' = inflight + 1
  /\ pc' = [pc EXCEPT ![r] = "running"]
  /\ UNCHANGED <<waiters, waiting>>

Queue(r) ==
  /\ pc[r] = "out" /\ ~Full /\ Locked
  /\ waiting' = waiting + 1
  /\ waiters' = Append(waiters, r)
  /\ pc' = [pc EXCEPT ![r] = "queued"]
  /\ UNCHANGED <<value, inflight>>

\* The task of a granted future resumes.  The loop runs tasks in the order
\* their wakeups were scheduled, and the grants are scheduled in queue order.
Resume(r) ==
  /\ pc[r] = "granted"
  /\ \E i \in DOMAIN waiters :
       /\ waiters[i] = r
       /\ \A j \in 1..(i - 1) : pc[waiters[j]] \notin {"granted", "doomed"}
       /\ LET started == [pc EXCEPT ![r] = "running"]
          IN  IF value > 0
              THEN WakeNext(Without(i), value, started)
              ELSE waiters' = Without(i) /\ pc' = started /\ value' = value
  /\ waiting' = waiting - 1
  /\ inflight' = inflight + 1

\* The task of a waiter is cancelled, before or after the grant.
Cancel(r) ==
  /\ \/ pc[r] = "queued" /\ pc' = [pc EXCEPT ![r] = "cancelled"]
     \/ pc[r] = "granted" /\ pc' = [pc EXCEPT ![r] = "doomed"]
  /\ UNCHANGED <<waiters, value, waiting, inflight>>

\* Mutant: the unit of a task that was cancelled after its grant is lost.
UnwindForgets(r) ==
  /\ pc[r] \in {"cancelled", "doomed"}
  /\ \E i \in DOMAIN waiters : waiters[i] = r /\ waiters' = Without(i)
  /\ pc' = [pc EXCEPT ![r] = "out"]
  /\ waiting' = waiting - 1
  /\ UNCHANGED <<value, inflight>>

\* The cancelled task runs its handlers: the semaphore's, which passes a unit
\* it was granted on, then the gate's.
Unwind(r) ==
  /\ \E i \in DOMAIN waiters :
       /\ waiters[i] = r
       /\ LET gone == [pc EXCEPT ![r] = "out"]
          IN  \/ /\ pc[r] = "cancelled"
                 /\ waiters' = Without(i) /\ pc' = gone /\ value' = value
              \/ /\ pc[r] = "doomed"
                 /\ \A j \in 1..(i - 1) :
                      pc[waiters[j]] \notin {"granted", "doomed"}
                 /\ WakeNext(Without(i), value + 1, gone)
  /\ waiting' = waiting - 1
  /\ UNCHANGED inflight

\* Mutant: the unit is given back without waking anybody.
LeaveSilently(r) ==
  /\ pc[r] = "running"
  /\ inflight' = inflight - 1
  /\ value' = value + 1
  /\ pc' = [pc EXCEPT ![r] = "out"]
  /\ UNCHANGED <<waiters, waiting>>

\* The conversion ends, in any way: the finally clause, and release().
Leave(r) ==
  /\ pc[r] = "running"
  /\ inflight' = inflight - 1
  /\ WakeNext(waiters, value + 1, [pc EXCEPT ![r] = "out"])
  /\ UNCHANGED waiting

\* A refused request is answered; its client may come again.
Answer(r) ==
  /\ pc[r] = "refused"
  /\ pc' = [pc EXCEPT ![r] = "out"]
  /\ UNCHANGED <<waiters, value, waiting, inflight>>

Next ==
  \E r \in Request :
    \/ Refuse(r) \/ EnterAtOnce(r) \/ Queue(r)
    \/ Resume(r) \/ Cancel(r) \/ Unwind(r)
    \/ Leave(r) \/ Answer(r)

Spec == Init /\ [][Next]_vars

\* The loop runs the tasks that are ready, and every conversion ends: the
\* route bounds it with request_timeout_sec.
Fairness ==
  \A r \in Request : /\ WF_vars(Resume(r)) /\ WF_vars(Unwind(r))
                     /\ WF_vars(Leave(r))

FairSpec == Spec /\ Fairness

-----------------------------------------------------------------------------
(* What the gate promises.                                                 *)

\* Every unit of the semaphore is free, promised to a waiter or used by a
\* conversion, and the gate's counters are the numbers of requests they stand
\* for: no cancellation and no wakeup leaks or duplicates a unit.
UnitsConserved ==
  /\ value + Cardinality(Running) + Cardinality(Promised) = MaxConcurrent
  /\ inflight = Cardinality(Running)
  /\ waiting = Cardinality(InLine)

\* At most max_concurrent conversions run, and never more than max_concurrent
\* + max_queue requests are inside.
Bounded ==
  /\ Cardinality(Running) <= MaxConcurrent
  /\ Cardinality(Running) + Cardinality(InLine) <= MaxConcurrent + MaxQueue

\* Nobody sleeps next to a free unit: if there is one and a future is pending,
\* some granted task has yet to resume or unwind, and will pass it on.
NoLostWakeup == value > 0 /\ At({"queued"}) # {} => Promised # {}

\* A request is refused only while max_concurrent + max_queue others are
\* running or in line.
RefusedOnlyWhenFull ==
  [][\A r \in Request : pc[r] # "refused" /\ pc'[r] = "refused" =>
       Cardinality(Running) + Cardinality(InLine) >= MaxConcurrent + MaxQueue
    ]_vars

\* Every request in line gets its turn, unless it gives up.
EveryoneServed ==
  \A r \in Request : pc[r] = "queued" ~> pc[r] \in {"running", "out"}

-----------------------------------------------------------------------------
(* The gate implements the line before the door.                           *)

Door == INSTANCE Admission WITH inside <- Running, line <- waiters,
                                leaving <- At({"doomed", "cancelled"})

\* Semaphore, futures and counters together behave as one line that is served
\* in order: no newcomer overtakes it, and no unit is used twice.
ImplementsAdmission == Door!Spec
=============================================================================
