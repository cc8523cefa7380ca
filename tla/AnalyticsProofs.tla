--------------------------- MODULE AnalyticsProofs ---------------------------
(***************************************************************************)
(* Proofs about the usage counters of Analytics: type correctness, and     *)
(* that increments are neither lost nor invented.                          *)
(***************************************************************************)
EXTENDS Analytics, TLAPS

\* The arithmetic of counters stays within counters.
LEMMA CounterTypes ==
  ASSUME NEW f \in Counter, NEW g \in Counter, NEW S
  PROVE  Zero \in Counter /\ Plus(f, g) \in Counter /\ On(f, S) \in Counter
BY DEF Counter, Zero, Plus, On

\* What an access adds is a counter.
LEMMA BumpType ==
  ASSUME NEW i \in Instant, NEW t \in Token
  PROVE  Bump(i, t) \in Counter
BY AnalyticsAssumption DEF Bump, Counter

\* Every value of every variable is of its type in every reachable state of
\* the service, its store and its process.
THEOREM Typing == Spec => []TypeOK
<1>1. Init => TypeOK
  <2> SUFFICES ASSUME Init
               PROVE  TypeOK
    OBVIOUS
  <2>1. 0 \in 0..MaxRetries /\ 0 \in Nat
    BY AnalyticsAssumption
  <2>2. Zero \in Counter
    BY DEF Zero, Counter
  <2> QED
    BY <2>1, <2>2, Zenon DEF Init, TypeOK
<1>2. TypeOK /\ [Next]_vars => TypeOK'
  <2> SUFFICES ASSUME TypeOK, [Next]_vars
               PROVE  TypeOK'
    OBVIOUS
  <2> USE DEF TypeOK, memory, counts, call, backend, history
  <2>1. CASE Start
    BY <2>1 DEF Start, Up, Metric
  <2>2. CASE LoadRead
    BY <2>2 DEF LoadRead, Metric, Counter
  <2>3. CASE LoadReturns
    BY <2>3, CounterTypes DEF LoadReturns, Merged, Up
  <2>4. CASE LoadFails
    BY <2>4, CounterTypes DEF LoadFails, Up
  <2>5. ASSUME NEW i \in Instant, NEW t \in Token, Access(i, t)
        PROVE  TypeOK'
    BY <2>5, CounterTypes, BumpType DEF Access
  <2>6. CASE SyncIdle \/ SyncWake
    BY <2>6, AnalyticsAssumption DEF SyncIdle, SyncWake
  <2>7. CASE SyncFlush
    BY <2>7, CounterTypes DEF SyncFlush, TakePending
  <2>8. ASSUME NEW S \in Batch, StoreApplies(S)
        PROVE  TypeOK'
    BY <2>8, CounterTypes DEF StoreApplies
  <2>9. CASE CallReturns
    <3>1. phase' \in Up \cup {"down"} /\ sync' \in {"off", "wait", "apply", "sleep"}
      BY <2>9, Zenon DEF CallReturns, Calling, Up
    <3>2. healthy' \in BOOLEAN /\ payload' \in Counter
      BY <2>9, CounterTypes DEF CallReturns
    <3>6. retries' \in 0..MaxRetries
      BY <2>9, AnalyticsAssumption DEF CallReturns
    <3> QED
      BY <2>9, <3>6, <3>1, <3>2, Zenon DEF CallReturns
  <2>10. ASSUME NEW goesOn \in BOOLEAN, CallFails(goesOn)
         PROVE  TypeOK'
    <3>1. ambiguous' \in Nat
      BY <2>10 DEF CallFails
    <3>2. drift' \in BOOLEAN
      BY <2>10, Zenon DEF CallFails
    <3>3. pending' \in Counter /\ orphan' \in Counter
      BY <2>10, CounterTypes DEF CallFails, RestorePending
    <3>4. phase' \in Up \cup {"down"} /\ sync' \in {"off", "wait", "apply", "sleep"}
      BY <2>10, Zenon DEF CallFails, Calling, Up
    <3>5. healthy' \in BOOLEAN /\ payload' \in Counter /\ unsent' \in Counter
      BY <2>10, CounterTypes DEF CallFails
    <3>6. retries' \in 0..MaxRetries
      BY <2>10, AnalyticsAssumption DEF CallFails, MayBackOff
    <3> QED
      BY <2>10, <3>6, <3>1, <3>2, <3>3, <3>4, <3>5, Zenon DEF CallFails
  <2>11. CASE Stop
    BY <2>11, CounterTypes DEF Stop, AbandonCall, Up
  <2>12. CASE FinalFlush
    BY <2>12, CounterTypes DEF FinalFlush, TakePending, Up
  <2>13. CASE Exit \/ Crash
    <3> SUFFICES ASSUME LoseMemory
                 PROVE  TypeOK'
      BY <2>13 DEF Exit, Crash
    <3>1. cut' \in BOOLEAN
      BY Zenon DEF LoseMemory
    <3>2. orphan' \in Counter /\ Zero \in Counter /\ 0 \in 0..MaxRetries
      BY CounterTypes, AnalyticsAssumption DEF LoseMemory, AbandonCall
    <3> QED
      BY <3>1, <3>2, Zenon DEF LoseMemory, AbandonCall
  <2>14. ASSUME NEW S \in Batch, OrphanLands(S)
         PROVE  TypeOK'
    BY <2>14, CounterTypes DEF OrphanLands
  <2>15. CASE OrphanDropped
    BY <2>15, CounterTypes DEF OrphanDropped
  <2>16. CASE UNCHANGED vars
    BY <2>16 DEF vars
  <2> QED
    BY <2>1, <2>2, <2>3, <2>4, <2>5, <2>6, <2>7, <2>8, <2>9, <2>10, <2>11,
       <2>12, <2>13, <2>14, <2>15, <2>16 DEF Next
<1> QED
  BY <1>1, <1>2, PTL DEF Spec

-----------------------------------------------------------------------------
(* The ledger.  A call applies at most its payload, there is a call only   *)
(* while a flush awaits it, and the flush of the loop and the last flush   *)
(* of stop() exclude each other: that is what makes restoring a whole      *)
(* payload enough, and taking a new one harmless.                          *)

CallShape ==
  /\ AtMost(unsent, payload)
  /\ ~Calling => payload = Zero /\ unsent = Zero
  /\ sync # "off" => phase = "running"

\* The three facts above hold of every reachable state.
LEMMA CallShapeInv == Spec => []CallShape
<1>1. Init => CallShape
  BY DEF Init, CallShape, AtMost, Zero
<1>2. TypeOK /\ CallShape /\ [Next]_vars => CallShape'
  <2> SUFFICES ASSUME TypeOK, CallShape, [Next]_vars
               PROVE  CallShape'
    OBVIOUS
  <2> USE DEF CallShape, memory, counts, call, backend, history, Calling
  <2>0. AtMost(Zero, Zero) /\ \A f \in Counter : AtMost(f, f)
    BY DEF AtMost, Zero, Counter
  <2>1. CASE Start
    BY <2>1, <2>0 DEF Start, AtMost
  <2>2. CASE LoadRead
    BY <2>2 DEF LoadRead, AtMost
  <2>3. CASE LoadReturns \/ LoadFails
    BY <2>3 DEF LoadReturns, LoadFails, AtMost
  <2>4. ASSUME NEW i \in Instant, NEW t \in Token, Access(i, t)
        PROVE  CallShape'
    BY <2>4 DEF Access, AtMost
  <2>5. CASE SyncIdle \/ SyncWake
    BY <2>5 DEF SyncIdle, SyncWake, AtMost
  <2>6. CASE SyncFlush
    BY <2>6, <2>0 DEF SyncFlush, TakePending, TypeOK
  <2>7. ASSUME NEW S \in Batch, StoreApplies(S)
        PROVE  CallShape'
    <3>1. AtMost(unsent', payload')
      BY <2>7 DEF StoreApplies, AtMost, On, TypeOK, Counter
    <3> QED
      BY <2>7, <3>1 DEF StoreApplies
  <2>8. CASE CallReturns
    BY <2>8, <2>0 DEF CallReturns
  <2>9. ASSUME NEW goesOn \in BOOLEAN, CallFails(goesOn)
        PROVE  CallShape'
    <3>1. payload' = Zero /\ unsent' = Zero
      BY <2>9 DEF CallFails
    <3>2. sync' # "off" => phase' = "running"
      BY <2>9, Zenon DEF CallFails
    <3> QED
      BY <3>1, <3>2, <2>0
  <2>10. CASE Stop
    BY <2>10, <2>0 DEF Stop, AbandonCall
  <2>11. CASE FinalFlush
    BY <2>11, <2>0 DEF FinalFlush, TakePending, TypeOK
  <2>12. CASE Exit \/ Crash
    BY <2>12, <2>0 DEF Exit, Crash, LoseMemory, AbandonCall
  <2>13. ASSUME NEW S \in Batch, OrphanLands(S)
         PROVE  CallShape'
    BY <2>13 DEF OrphanLands, AtMost
  <2>14. CASE OrphanDropped
    BY <2>14 DEF OrphanDropped, AtMost
  <2>15. CASE UNCHANGED vars
    BY <2>15 DEF vars, AtMost
  <2> QED
    BY <2>1, <2>2, <2>3, <2>4, <2>5, <2>6, <2>7, <2>8, <2>9, <2>10, <2>11,
       <2>12, <2>13, <2>14, <2>15 DEF Next
<1> QED
  BY <1>1, <1>2, Typing, PTL DEF Spec

\* A call that fails gives back at least what it takes: whatever the store had
\* applied by then, no increment leaves the ledger.
THEOREM LedgerLosesNothing == Spec => []NothingLost
<1>1. Init => NothingLost
  BY DEF Init, NothingLost, AtMost, Plus, Zero
<1>2. TypeOK /\ CallShape /\ NothingLost /\ [Next]_vars => NothingLost'
  <2> SUFFICES ASSUME TypeOK, CallShape, NothingLost, [Next]_vars, ~cut',
                      NEW c \in Cell
               PROVE  recorded'[c] <= store'[c] + pending'[c] + unsent'[c]
    BY DEF NothingLost, AtMost, Plus
  <2> USE DEF memory, counts, call, backend, history
  <2> DEFINE Kept == recorded[c] <= store[c] + pending[c] + unsent[c]
  <2>0. /\ ~cut => Kept
        /\ unsent[c] <= payload[c]
        /\ recorded[c] \in Nat /\ store[c] \in Nat /\ pending[c] \in Nat
        /\ unsent[c] \in Nat /\ payload[c] \in Nat /\ orphan[c] \in Nat
    BY DEF NothingLost, CallShape, AtMost, Plus, TypeOK, Counter
  <2>1. CASE Start \/ LoadRead \/ LoadReturns \/ LoadFails
    BY <2>0, <2>1 DEF Start, LoadRead, LoadReturns, LoadFails
  <2>2. ASSUME NEW i \in Instant, NEW t \in Token, Access(i, t)
        PROVE  Kept'
    <3>1. Bump(i, t)[c] \in Nat
      BY BumpType DEF Counter
    <3> QED
      BY <2>0, <2>2, <3>1 DEF Access, Plus
  <2>3. CASE SyncIdle \/ SyncWake
    BY <2>0, <2>3 DEF SyncIdle, SyncWake
  <2>4. CASE SyncFlush
    <3>1. unsent = Zero
      BY <2>4 DEF SyncFlush, CallShape, Calling
    <3> QED
      BY <2>0, <2>4, <3>1 DEF SyncFlush, TakePending, Zero
  <2>5. ASSUME NEW S \in Batch, StoreApplies(S)
        PROVE  Kept'
    BY <2>0, <2>5 DEF StoreApplies, Plus, On
  <2>6. CASE CallReturns
    BY <2>0, <2>6 DEF CallReturns
  <2>7. ASSUME NEW goesOn \in BOOLEAN, CallFails(goesOn)
        PROVE  Kept'
    <3>1. /\ pending' = Plus(pending, payload) /\ unsent' = Zero
          /\ UNCHANGED <<recorded, store, cut>>
      BY <2>7 DEF CallFails, RestorePending
    <3> QED
      BY <2>0, <3>1 DEF Plus, Zero
  <2>8. CASE Stop
    BY <2>0, <2>8 DEF Stop, AbandonCall, Zero
  <2>9. CASE FinalFlush
    <3>1. unsent = Zero
      BY <2>9 DEF FinalFlush, CallShape, Calling
    <3> QED
      BY <2>0, <2>9, <3>1 DEF FinalFlush, TakePending, Zero
  <2>10. CASE Exit \/ Crash
    <3>1. pending = Zero /\ unsent = Zero /\ ~cut
      BY <2>10 DEF Exit, Crash, LoseMemory
    <3> QED
      BY <2>0, <2>10, <3>1 DEF Exit, Crash, LoseMemory, AbandonCall, Zero
  <2>11. ASSUME NEW S \in Batch, OrphanLands(S)
         PROVE  Kept'
    BY <2>0, <2>11 DEF OrphanLands, Plus, On
  <2>12. CASE OrphanDropped
    BY <2>0, <2>12 DEF OrphanDropped
  <2>13. CASE UNCHANGED vars
    BY <2>0, <2>13 DEF vars
  <2> QED
    BY <2>1, <2>2, <2>3, <2>4, <2>5, <2>6, <2>7, <2>8, <2>9, <2>10, <2>11,
       <2>12, <2>13 DEF Next
<1> QED
  BY <1>1, <1>2, Typing, CallShapeInv, PTL DEF Spec

\* The process holds no increment twice: what it gives to the store it no longer
\* counts as pending.
HeldOnce == \A c \in Cell : pending[c] + payload[c] <= recorded[c]

LEMMA HeldOnceInv == Spec => []HeldOnce
<1>1. Init => HeldOnce
  BY DEF Init, HeldOnce, Zero
<1>2. TypeOK /\ CallShape /\ HeldOnce /\ [Next]_vars => HeldOnce'
  <2> SUFFICES ASSUME TypeOK, CallShape, HeldOnce, [Next]_vars, NEW c \in Cell
               PROVE  pending'[c] + payload'[c] <= recorded'[c]
    BY DEF HeldOnce
  <2> USE DEF memory, counts, call, backend, history
  <2> DEFINE Held == pending[c] + payload[c] <= recorded[c]
  <2>0. /\ Held
        /\ recorded[c] \in Nat /\ pending[c] \in Nat /\ payload[c] \in Nat
    BY DEF HeldOnce, TypeOK, Counter
  <2>1. CASE Start \/ LoadRead \/ LoadReturns \/ LoadFails
    BY <2>0, <2>1 DEF Start, LoadRead, LoadReturns, LoadFails
  <2>2. ASSUME NEW i \in Instant, NEW t \in Token, Access(i, t)
        PROVE  Held'
    <3>1. Bump(i, t)[c] \in Nat
      BY BumpType DEF Counter
    <3> QED
      BY <2>0, <2>2, <3>1 DEF Access, Plus
  <2>3. CASE SyncIdle \/ SyncWake
    BY <2>0, <2>3 DEF SyncIdle, SyncWake
  <2>4. CASE SyncFlush
    BY <2>0, <2>4 DEF SyncFlush, TakePending, Zero
  <2>5. ASSUME NEW S \in Batch, StoreApplies(S)
        PROVE  Held'
    BY <2>0, <2>5 DEF StoreApplies
  <2>6. CASE CallReturns
    BY <2>0, <2>6 DEF CallReturns, Zero
  <2>7. ASSUME NEW goesOn \in BOOLEAN, CallFails(goesOn)
        PROVE  Held'
    <3>1. /\ pending' = Plus(pending, payload) /\ payload' = Zero
          /\ recorded' = recorded
      BY <2>7 DEF CallFails, RestorePending
    <3> QED
      BY <2>0, <3>1 DEF Plus, Zero
  <2>8. CASE Stop
    BY <2>0, <2>8 DEF Stop, AbandonCall, Zero
  <2>9. CASE FinalFlush
    BY <2>0, <2>9 DEF FinalFlush, TakePending, Zero
  <2>10. CASE Exit \/ Crash
    BY <2>0, <2>10 DEF Exit, Crash, LoseMemory, AbandonCall, Zero
  <2>11. ASSUME NEW S \in Batch, OrphanLands(S)
         PROVE  Held'
    BY <2>0, <2>11 DEF OrphanLands
  <2>12. CASE OrphanDropped
    BY <2>0, <2>12 DEF OrphanDropped
  <2>13. CASE UNCHANGED vars
    BY <2>0, <2>13 DEF vars
  <2> QED
    BY <2>1, <2>2, <2>3, <2>4, <2>5, <2>6, <2>7, <2>8, <2>9, <2>10, <2>11,
       <2>12, <2>13 DEF Next
<1> QED
  BY <1>1, <1>2, Typing, CallShapeInv, PTL DEF Spec

\* Products are monotone in both factors.
LEMMA MoreTimes ==
  ASSUME NEW a \in Nat, NEW r \in Nat
  PROVE  /\ (1 + (a + 1)) * r = (1 + a) * r + r
         /\ \A n \in Nat : (1 + a) * (r + n) >= (1 + a) * r + n
<1>1. ASSUME NEW n \in Nat
      PROVE  (1 + a) * (r + n) >= (1 + a) * r + n
  <2>1. (1 + a) * (r + n) = (1 + a) * r + n + a * n
    OBVIOUS
  <2>2. a * n >= 0 /\ a * n \in Nat /\ (1 + a) * r \in Nat
    OBVIOUS
  <2> QED
    BY <2>1, <2>2
<1>2. (1 + (a + 1)) * r = (1 + a) * r + r
  OBVIOUS
<1> QED
  BY <1>1, <1>2

\* A failed call may repeat what it has already written, and no more than that;
\* a retry, a restart or an abandoned call as such never counts an access twice.
THEOREM LedgerInventsNothing == Spec => []NothingInvented
<1>1. Init => NothingInvented
  BY DEF Init, NothingInvented, Zero
<1>2. /\ TypeOK /\ CallShape /\ HeldOnce /\ NothingInvented /\ [Next]_vars
      => NothingInvented'
  <2> SUFFICES ASSUME TypeOK, CallShape, HeldOnce, NothingInvented,
                      [Next]_vars, NEW c \in Cell
               PROVE  store'[c] + pending'[c] + (unsent'[c] + orphan'[c])
                        <= (1 + ambiguous') * recorded'[c]
    BY DEF NothingInvented
  <2> USE DEF memory, counts, call, backend, history
  <2> DEFINE Due == store[c] + pending[c] + (unsent[c] + orphan[c])
                      <= (1 + ambiguous) * recorded[c]
  <2>0. /\ Due /\ ambiguous \in Nat
        /\ recorded[c] \in Nat /\ store[c] \in Nat /\ pending[c] \in Nat
        /\ unsent[c] \in Nat /\ payload[c] \in Nat /\ orphan[c] \in Nat
    BY DEF NothingInvented, TypeOK, Counter
  <2>1. CASE Start \/ LoadRead \/ LoadReturns \/ LoadFails
    BY <2>0, <2>1 DEF Start, LoadRead, LoadReturns, LoadFails
  <2>2. ASSUME NEW i \in Instant, NEW t \in Token, Access(i, t)
        PROVE  Due'
    <3> DEFINE n == Bump(i, t)[c]
    <3>1. n \in Nat
      BY BumpType DEF Counter
    <3>2. /\ pending'[c] = pending[c] + n /\ recorded'[c] = recorded[c] + n
          /\ UNCHANGED <<store, unsent, orphan, ambiguous>>
      BY <2>2 DEF Access, Plus
    <3> HIDE DEF n
    <3>3. (1 + ambiguous) * (recorded[c] + n) >= (1 + ambiguous) * recorded[c] + n
      BY <2>0, <3>1, MoreTimes
    <3>4. (1 + ambiguous) * recorded[c] \in Nat
          /\ (1 + ambiguous) * (recorded[c] + n) \in Nat
      BY <2>0, <3>1
    <3> QED
      BY <2>0, <3>1, <3>2, <3>3, <3>4
  <2>3. CASE SyncIdle \/ SyncWake
    BY <2>0, <2>3 DEF SyncIdle, SyncWake
  <2>4. CASE SyncFlush
    <3>1. unsent = Zero
      BY <2>4 DEF SyncFlush, CallShape, Calling
    <3> QED
      BY <2>0, <2>4, <3>1 DEF SyncFlush, TakePending, Zero
  <2>5. ASSUME NEW S \in Batch, StoreApplies(S)
        PROVE  Due'
    BY <2>0, <2>5 DEF StoreApplies, Plus, On
  <2>6. CASE CallReturns
    BY <2>0, <2>6 DEF CallReturns
  <2>7. ASSUME NEW goesOn \in BOOLEAN, CallFails(goesOn)
        PROVE  Due'
    <3>1. /\ pending'[c] = pending[c] + payload[c] /\ unsent'[c] = 0
          /\ UNCHANGED <<recorded, store>>
      BY <2>7 DEF CallFails, RestorePending, Plus, Zero
    <3>2. CASE ambiguous' = ambiguous
      <4>1. unsent = payload /\ (~goesOn \/ unsent = Zero)
        BY <2>0, <2>7, <3>2 DEF CallFails
      <4>2. orphan'[c] = orphan[c]
        BY <2>0, <2>7, <4>1 DEF CallFails, Plus, Zero
      <4> QED
        BY <2>0, <3>1, <3>2, <4>1, <4>2
    <3>3. CASE ambiguous' = ambiguous + 1
      <4>1. orphan'[c] <= orphan[c] + unsent[c] /\ orphan'[c] \in Nat
        BY <2>0, <2>7 DEF CallFails, Plus
      <4>2. payload[c] <= recorded[c]
        BY <2>0 DEF HeldOnce
      <4>3. (1 + (ambiguous + 1)) * recorded[c] = (1 + ambiguous) * recorded[c] + recorded[c]
        BY <2>0, MoreTimes
      <4>4. (1 + ambiguous) * recorded[c] \in Nat
        BY <2>0
      <4> QED
        BY <2>0, <3>1, <3>3, <4>1, <4>2, <4>3, <4>4
    <3> QED
      BY <2>7, <3>2, <3>3 DEF CallFails
  <2>8. CASE Stop
    BY <2>0, <2>8 DEF Stop, AbandonCall, Plus, Zero
  <2>9. CASE FinalFlush
    <3>1. unsent = Zero
      BY <2>9 DEF FinalFlush, CallShape, Calling
    <3> QED
      BY <2>0, <2>9, <3>1 DEF FinalFlush, TakePending, Zero
  <2>10. CASE Exit \/ Crash
    BY <2>0, <2>10 DEF Exit, Crash, LoseMemory, AbandonCall, Plus, Zero
  <2>11. ASSUME NEW S \in Batch, OrphanLands(S)
         PROVE  Due'
    BY <2>0, <2>11 DEF OrphanLands, Plus, On
  <2>12. CASE OrphanDropped
    BY <2>0, <2>12 DEF OrphanDropped, Zero
  <2>13. CASE UNCHANGED vars
    BY <2>0, <2>13 DEF vars
  <2> QED
    BY <2>1, <2>2, <2>3, <2>4, <2>5, <2>6, <2>7, <2>8, <2>9, <2>10, <2>11,
       <2>12, <2>13 DEF Next
<1> QED
  BY <1>1, <1>2, Typing, CallShapeInv, HeldOnceInv, PTL DEF Spec

-----------------------------------------------------------------------------
(* The totals.  While the initial load runs nothing writes to the store,   *)
(* the totals hold the accesses of this process only, and so does pending; *)
(* what has been read of the store is what is there.  Merging the two is   *)
(* therefore exact.                                                        *)

HasRead(c) == reading = "nothing" \/ (reading = "tokens" /\ c[1] = "access")

TotalsInv ==
  /\ phase = "down" => pending = Zero /\ totals = Zero /\ loaded = Zero
  /\ phase = "down" => snapshot = Zero
  /\ phase # "down" => snapshot = totals
  /\ phase # "down" /\ ~drift => orphan = Zero
  /\ phase = "loading" /\ ~drift =>
       \A c \in Cell : /\ totals[c] = pending[c]
                       /\ loaded[c] = IF HasRead(c) THEN store[c] ELSE 0
  /\ TotalsMatchStore

\* The parts of TotalsInv are inductive together.
LEMMA TotalsInvariant == Spec => []TotalsInv
<1>1. Init => TotalsInv
  BY DEF Init, TotalsInv, TotalsMatchStore, Up
<1>2. TypeOK /\ CallShape /\ TotalsInv /\ [Next]_vars => TotalsInv'
  <2> SUFFICES ASSUME TypeOK, CallShape, TotalsInv, [Next]_vars
               PROVE  TotalsInv'
    OBVIOUS
  <2> USE DEF TotalsInv, TotalsMatchStore, HasRead, Up, memory, counts, call,
              backend, history
  <2>0. /\ phase \in Up \cup {"down"}
        /\ sync # "off" => phase = "running"
        /\ ~Calling => payload = Zero /\ unsent = Zero
        /\ \A c \in Cell : c[1] \in Metric
    BY DEF CallShape, TypeOK, Cell
  <2>1. CASE Start
    BY <2>0, <2>1 DEF Start, Zero, Metric
  <2>2. CASE LoadRead
    BY <2>0, <2>2 DEF LoadRead, Metric
  <2>3. CASE LoadReturns
    <3>1. unsent = Zero
      BY <2>0, <2>3 DEF LoadReturns, Calling
    <3>2. ASSUME NEW c \in Cell, ~drift
          PROVE  snapshot'[c] = store[c] + pending[c] + unsent[c]
      BY <2>3, <3>1, <3>2 DEF LoadReturns, Merged, Plus, Zero, TypeOK, Counter
    <3> QED
      BY <2>0, <2>3, <3>2 DEF LoadReturns, Merged
  <2>4. CASE LoadFails
    BY <2>0, <2>4 DEF LoadFails
  <2>5. ASSUME NEW i \in Instant, NEW t \in Token, Access(i, t)
        PROVE  TotalsInv'
    <3> DEFINE bump == Bump(i, t)
    <3>0. bump \in Counter
      BY BumpType
    <3> HIDE DEF bump
    <3>1. ASSUME NEW c \in Cell
          PROVE  /\ totals'[c] = totals[c] + bump[c]
                 /\ pending'[c] = pending[c] + bump[c]
                 /\ bump[c] \in Nat /\ totals[c] \in Nat /\ pending[c] \in Nat
                 /\ store[c] \in Nat /\ unsent[c] \in Nat
      BY <2>5, <3>0 DEF Access, Plus, TypeOK, Counter, bump
    <3>2. UNCHANGED <<phase, reading, loaded, orphan, drift, store, unsent>>
          /\ snapshot' = totals' /\ phase # "down"
      BY <2>5 DEF Access
    <3> QED
      BY <3>1, <3>2
  <2>6. CASE SyncIdle \/ SyncWake
    BY <2>0, <2>6 DEF SyncIdle, SyncWake
  <2>7. CASE SyncFlush
    <3>1. unsent = Zero /\ phase = "running" /\ pending' = Zero
          /\ unsent' = pending
      BY <2>0, <2>7 DEF SyncFlush, Calling, TakePending
    <3>2. \A c \in Cell : store[c] + pending[c] + unsent[c]
                            = store[c] + pending'[c] + unsent'[c]
      BY <3>1 DEF Zero, TypeOK, Counter
    <3> QED
      BY <2>7, <3>1, <3>2 DEF SyncFlush
  <2>8. ASSUME NEW S \in Batch, StoreApplies(S)
        PROVE  TotalsInv'
    <3>1. phase \in {"running", "final"}
      BY <2>0, <2>8 DEF StoreApplies, Calling
    <3>2. \A c \in Cell : store[c] + pending[c] + unsent[c]
                            = store'[c] + pending[c] + unsent'[c]
      BY <2>8 DEF StoreApplies, Plus, On, TypeOK, Counter
    <3> QED
      BY <2>8, <3>1, <3>2 DEF StoreApplies
  <2>9. CASE CallReturns
    <3>1. phase \in {"running", "final"} /\ phase' \in {"running", "stopped"}
      BY <2>0, <2>9, Zenon DEF CallReturns, Calling
    <3> QED
      BY <2>9, <3>1 DEF CallReturns
  <2>10. ASSUME NEW goesOn \in BOOLEAN, CallFails(goesOn)
         PROVE  TotalsInv'
    <3>1. phase \in {"running", "final"} /\ phase' \in {"running", "stopped"}
      BY <2>0, <2>10, Zenon DEF CallFails, Calling
    <3>2. /\ pending' = Plus(pending, payload) /\ unsent' = Zero
          /\ UNCHANGED <<totals, snapshot, store>>
      BY <2>10 DEF CallFails, RestorePending
    <3>3. ~drift' => ~drift /\ unsent = payload /\ (~goesOn \/ unsent = Zero)
      BY <2>10, Zenon DEF CallFails
    <3>4. ~drift' => orphan' = Zero
      BY <2>10, <3>1, <3>3 DEF CallFails, Plus, Zero
    <3>5. ASSUME NEW c \in Cell, ~drift'
          PROVE  store[c] + pending[c] + unsent[c]
                   = store'[c] + pending'[c] + unsent'[c]
      BY <3>2, <3>3, <3>5 DEF Plus, Zero, TypeOK, Counter
    <3>6. ASSUME ~drift'
          PROVE  \A c \in Cell : snapshot'[c] = store'[c] + pending'[c]
                                                  + unsent'[c]
      BY <3>1, <3>2, <3>3, <3>5, <3>6
    <3> QED
      BY <3>1, <3>2, <3>4, <3>6
  <2>11. CASE Stop
    <3>1. /\ phase = "running" /\ phase' = "stopping" /\ unsent' = Zero
          /\ UNCHANGED <<pending, totals, snapshot, store>>
      BY <2>11 DEF Stop, AbandonCall
    <3>2. ~drift' => ~drift /\ unsent = Zero
      BY <2>11, Zenon DEF Stop
    <3>3. ~drift' => orphan' = Zero
      BY <2>11, <3>1, <3>2 DEF Stop, AbandonCall, Plus, Zero
    <3> QED
      BY <3>1, <3>2, <3>3
  <2>12. CASE FinalFlush
    <3>1. phase = "stopping" /\ phase' \in {"final", "stopped"}
      BY <2>12 DEF FinalFlush
    <3>2. unsent = Zero
      BY <2>0, <3>1 DEF Calling
    <3>3. \A c \in Cell : store[c] + pending[c] + unsent[c]
                            = store[c] + pending'[c] + unsent'[c]
      BY <2>12, <3>2 DEF FinalFlush, TakePending, Zero, TypeOK, Counter
    <3> QED
      BY <2>12, <3>1, <3>3 DEF FinalFlush
  <2>13. CASE Exit \/ Crash
    BY <2>13 DEF Exit, Crash, LoseMemory
  <2>14. ASSUME NEW S \in Batch, OrphanLands(S)
         PROVE  TotalsInv'
    <3>1. orphan # Zero
      BY <2>14, AnalyticsAssumption DEF OrphanLands, Zero, TypeOK, Counter
    <3> QED
      BY <2>14, <3>1 DEF OrphanLands
  <2>15. CASE OrphanDropped
    BY <2>15 DEF OrphanDropped
  <2>16. CASE UNCHANGED vars
    BY <2>16 DEF vars
  <2> QED
    BY <2>1, <2>2, <2>3, <2>4, <2>5, <2>6, <2>7, <2>8, <2>9, <2>10, <2>11,
       <2>12, <2>13, <2>14, <2>15, <2>16 DEF Next
<1> QED
  BY <1>1, <1>2, Typing, CallShapeInv, PTL DEF Spec

\* The numbers of /stats are the store's and what is on its way there.
THEOREM TotalsAreExact == Spec => []TotalsMatchStore
<1>1. TotalsInv => TotalsMatchStore
  BY DEF TotalsInv
<1> QED
  BY <1>1, TotalsInvariant, PTL

\* No step of a process makes a number of /stats smaller.
THEOREM StatsMonotone == Spec => StatsNeverGoBack
<1>1. TypeOK /\ TotalsInv /\ [Next]_vars
        => [phase # "down" /\ phase' # "down"
              => AtMost(snapshot, snapshot')]_vars
  <2> SUFFICES ASSUME TypeOK, TotalsInv, Next, phase # "down", phase' # "down"
               PROVE  AtMost(snapshot, snapshot')
    OBVIOUS
  <2> USE DEF memory, counts, call, backend, history, AtMost
  <2>0. snapshot = totals /\ totals \in Counter /\ loaded \in Counter
    BY DEF TotalsInv, TypeOK
  <2>1. CASE LoadReturns
    BY <2>0, <2>1 DEF LoadReturns, Merged, Plus, Counter
  <2>2. ASSUME NEW i \in Instant, NEW t \in Token, Access(i, t)
        PROVE  AtMost(snapshot, snapshot')
    <3>1. Bump(i, t) \in Counter
      BY BumpType
    <3> QED
      BY <2>0, <2>2, <3>1 DEF Access, Plus, Counter
  <2>3. ASSUME snapshot' = snapshot
        PROVE  AtMost(snapshot, snapshot')
    BY <2>0, <2>3 DEF Counter
  <2> QED
    BY <2>1, <2>2, <2>3
       DEF Next, Start, LoadRead, LoadFails, SyncIdle, SyncFlush, SyncWake,
           StoreApplies, CallReturns, CallFails, Stop, FinalFlush, Exit, Crash,
           LoseMemory, OrphanLands, OrphanDropped
<1> QED
  BY <1>1, Typing, TotalsInvariant, PTL DEF Spec, StatsNeverGoBack

\* When nothing is pending or on its way, the store has exactly what access()
\* accepted, unless a process or a cancelled call took counts with it or a failed
\* call had left something: the two ledgers meet, across retries and restarts.
THEOREM StoreIsExact ==
  Spec => [](~cut /\ ambiguous = 0 /\ ~HasPending(pending) /\ ~Calling
               => store = recorded)
<1>1. TypeOK /\ CallShape /\ NothingLost /\ NothingInvented =>
        (~cut /\ ambiguous = 0 /\ ~HasPending(pending) /\ ~Calling
           => store = recorded)
  <2> SUFFICES ASSUME TypeOK, CallShape, NothingLost, NothingInvented,
                      ~cut, ambiguous = 0, ~HasPending(pending), ~Calling
               PROVE  store = recorded
    OBVIOUS
  <2>1. \A c \in Cell : pending[c] = 0 /\ unsent[c] = 0
    BY DEF HasPending, CallShape, Zero
  <2>2. /\ store \in [Cell -> Nat] /\ recorded \in [Cell -> Nat]
        /\ orphan \in [Cell -> Nat]
    BY DEF TypeOK, Counter
  <2>3. \A c \in Cell : recorded[c] <= store[c]
    BY <2>1, <2>2 DEF NothingLost, AtMost, Plus
  <2>4. \A c \in Cell : store[c] <= recorded[c]
    BY <2>1, <2>2 DEF NothingInvented, AtMost, Plus
  <2>5. \A c \in Cell : store[c] = recorded[c]
    BY <2>2, <2>3, <2>4
  <2> QED
    BY <2>2, <2>5
<1> QED
  BY <1>1, Typing, CallShapeInv, LedgerLosesNothing, LedgerInventsNothing, PTL
=============================================================================
