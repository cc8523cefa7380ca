------------------------------ MODULE Analytics ------------------------------
(***************************************************************************)
(* docsifer's usage counters: the AnalyticsService of analytics/service.py *)
(* together with the store of analytics/store.py it writes to.             *)
(*                                                                         *)
(* The service runs on one asyncio loop.  Its locked blocks contain no     *)
(* await, so the lock is never contended and each block is atomic with the *)
(* code around it, up to the next call that really suspends: the store's   *)
(* load and apply, the wait of the sync loop and its backoff sleep.  Those *)
(* suspensions are the borders of the actions below.  The store works in   *)
(* threads of the default executor and at the remote Redis: it moves while *)
(* the loop waits, and it may go on after the loop stopped waiting.        *)
(***************************************************************************)
EXTENDS Naturals, Periods

CONSTANTS
  Instant,      \* the days on which access() reads the clock
  Token,        \* token counts an access may carry
  Batch,        \* sets of cells whose writes may reach Redis in one step
  MaxRetries,   \* max_retries of the service
  MaxAccess,    \* bound: accesses recorded in a behaviour
  MaxAmbiguous, \* bound: failed calls that left something in the store
  MaxStarts     \* bound: incarnations of the process

Period == {Total} \cup UNION {period_keys(i) : i \in Instant}
Metric == {"access", "tokens"}
Cell == Metric \X Period        \* one number: a metric in a period

ASSUME AnalyticsAssumption ==
  /\ Instant \subseteq Nat \ {0}
  /\ Token \subseteq Nat
  /\ Batch \subseteq SUBSET Cell /\ Cell \in Batch
  /\ MaxRetries \in Nat /\ MaxAccess \in Nat
  /\ MaxAmbiguous \in Nat /\ MaxStarts \in Nat

VARIABLES
  phase,     \* where the process is in its life
  reading,   \* what load_all still has to read
  sync,      \* where the sync task is
  retries,   \* consecutive failed flushes the loop has slept for
  pending, totals, snapshot, healthy,  \* the fields of the service
  loaded,    \* what load_all has read so far
  payload,   \* the argument of the apply_increments call being awaited
  unsent,    \* the part of that call the store has not applied
  store,     \* the counters in Redis
  orphan,    \* writes nobody awaits that may still reach Redis
  recorded,  \* history: every increment access() accepted
  cut,       \* history: increments died with a process or a cancelled call
  ambiguous, \* history: failed calls that left something in the store
  drift,     \* history: this incarnation's totals and the store may differ
  starts     \* history: incarnations so far

memory  == <<phase, reading, sync, retries, healthy, loaded, starts>>
counts  == <<pending, totals, snapshot>>
call    == <<payload, unsent>>
backend == <<store, orphan>>
history == <<recorded, cut, ambiguous, drift>>
vars    == <<memory, counts, call, backend, history>>

-----------------------------------------------------------------------------
(* Counters and their arithmetic.                                          *)

Counter == [Cell -> Nat]
Zero == [c \in Cell |-> 0]
Plus(f, g) == [c \in Cell |-> f[c] + g[c]]
On(f, S) == [c \in Cell |-> IF c \in S THEN f[c] ELSE 0]  \* f on S only
AtMost(f, g) == \A c \in Cell : f[c] <= g[c]

HasPending(f) == \E c \in Cell : f[c] # 0

PeriodKeys == [i \in Instant |-> period_keys(i)]

\* What one access at instant i with t tokens adds to the counters.
Bump(i, t) ==
  [c \in Cell |-> IF c[2] \notin PeriodKeys[i] THEN 0
                  ELSE IF c[1] = "access" THEN 1 ELSE t]

Up == {"loading", "running", "stopping", "final", "stopped"}
Calling == sync = "apply" \/ phase = "final"   \* a flush awaits the store

TypeOK ==
  /\ phase \in Up \cup {"down"}
  /\ reading \in Metric \cup {"nothing"}
  /\ sync \in {"off", "wait", "apply", "sleep"}
  /\ retries \in 0..MaxRetries
  /\ pending \in Counter /\ totals \in Counter /\ snapshot \in Counter
  /\ healthy \in BOOLEAN
  /\ loaded \in Counter
  /\ payload \in Counter /\ unsent \in Counter
  /\ store \in Counter /\ orphan \in Counter
  /\ recorded \in Counter
  /\ cut \in BOOLEAN /\ ambiguous \in Nat /\ drift \in BOOLEAN
  /\ starts \in Nat

Init ==
  /\ phase = "down" /\ reading = "nothing" /\ sync = "off"
  /\ retries = 0 /\ healthy = TRUE
  /\ pending = Zero /\ totals = Zero /\ snapshot = Zero /\ loaded = Zero
  /\ payload = Zero /\ unsent = Zero
  /\ store = Zero /\ orphan = Zero
  /\ recorded = Zero /\ cut = FALSE /\ ambiguous = 0 /\ drift = FALSE
  /\ starts = 0

-----------------------------------------------------------------------------
(* start(), and the process around it.                                     *)

\* A new process: fresh fields, and load_all() begins.
Start ==
  /\ phase = "down" /\ starts < MaxStarts
  /\ phase' = "loading" /\ reading' = "access"
  /\ starts' = starts + 1
  /\ drift' = (orphan # Zero)
  /\ UNCHANGED <<sync, retries, healthy, loaded, counts, call, backend,
                 recorded, cut, ambiguous>>

\* load_all() reads the hashes of one metric, then those of the next.
LoadRead ==
  /\ phase = "loading" /\ reading \in Metric
  /\ loaded' = [c \in Cell |-> IF c[1] = reading THEN store[c] ELSE loaded[c]]
  /\ reading' = IF reading = "access" THEN "tokens" ELSE "nothing"
  /\ UNCHANGED <<phase, sync, retries, healthy, starts, counts, call, backend,
                 history>>

\* Mutant: the load replaces the totals.
LoadedOnly == loaded

Merged == Plus(totals, loaded)

\* The load is complete: it is merged into the totals, and the loop starts.
LoadReturns ==
  /\ phase = "loading" /\ reading = "nothing"
  /\ totals' = Merged
  /\ snapshot' = totals'
  /\ loaded' = Zero
  /\ phase' = "running" /\ sync' = "wait"
  /\ UNCHANGED <<reading, retries, healthy, starts, pending, call, backend,
                 history>>

\* The load fails: what it read is discarded, and the loop starts all the same.
LoadFails ==
  /\ phase = "loading"
  /\ healthy' = FALSE
  /\ loaded' = Zero /\ reading' = "nothing"
  /\ drift' = TRUE
  /\ phase' = "running" /\ sync' = "wait"
  /\ UNCHANGED <<retries, starts, counts, call, backend, recorded, cut,
                 ambiguous>>

-----------------------------------------------------------------------------
(* access(): one locked block, possible at any time the process is up.     *)

Access(i, t) ==
  /\ phase # "down"
  /\ recorded[<<"access", Total>>] < MaxAccess
  /\ pending' = Plus(pending, Bump(i, t))
  /\ totals' = Plus(totals, Bump(i, t))
  /\ snapshot' = totals'
  /\ recorded' = Plus(recorded, Bump(i, t))
  /\ UNCHANGED <<memory, call, backend, cut, ambiguous, drift>>

-----------------------------------------------------------------------------
(* _flush_once(): take the pending increments, await the store, restore    *)
(* them if it failed.                                                      *)

\* Mutant: the increments are sent and kept as well.
SendPending ==
  /\ HasPending(pending)
  /\ payload' = pending /\ unsent' = pending
  /\ pending' = pending

TakePending ==
  /\ HasPending(pending)
  /\ payload' = pending /\ unsent' = pending
  /\ pending' = Zero

\* Mutant: the payload comes back, and what arrived meanwhile is overwritten.
OverwritePending == pending' = payload

RestorePending == pending' = Plus(pending, payload)

\* The interval is over with nothing to write: back to waiting.
SyncIdle ==
  /\ sync = "wait" /\ ~HasPending(pending)
  /\ retries' = 0
  /\ UNCHANGED <<phase, reading, sync, healthy, loaded, starts, counts, call,
                 backend, history>>

\* The interval is over: the loop's flush calls the store.
SyncFlush ==
  /\ sync = "wait"
  /\ TakePending
  /\ sync' = "apply"
  /\ UNCHANGED <<phase, reading, retries, healthy, loaded, starts, totals,
                 snapshot, backend, history>>

\* Mutant: the task ends after a backoff.
SyncEnds ==
  /\ sync = "sleep"
  /\ sync' = "off"
  /\ UNCHANGED <<phase, reading, retries, healthy, loaded, starts, counts,
                 call, backend, history>>

\* The backoff is over: the loop goes back to waiting a whole interval.
SyncWake ==
  /\ sync = "sleep"
  /\ sync' = "wait"
  /\ UNCHANGED <<phase, reading, retries, healthy, loaded, starts, counts,
                 call, backend, history>>

\* The store applies some of the call's increments while the loop waits.
StoreApplies(S) ==
  /\ Calling
  /\ \E c \in S : unsent[c] # 0
  /\ store' = Plus(store, On(unsent, S))
  /\ unsent' = On(unsent, Cell \ S)
  /\ UNCHANGED <<memory, counts, payload, orphan, history>>

\* The awaited call succeeds: everything was applied.
CallReturns ==
  /\ Calling /\ unsent = Zero
  /\ payload' = Zero
  /\ healthy' = TRUE
  /\ \/ /\ sync = "apply" /\ sync' = "wait" /\ retries' = 0
        /\ phase' = phase
     \/ /\ phase = "final" /\ phase' = "stopped"
        /\ UNCHANGED <<sync, retries>>
  /\ UNCHANGED <<reading, loaded, starts, counts, unsent, backend, history>>

\* Mutant: one backoff too many.
MayBackOffOnceMore == retries <= MaxRetries

\* A failed flush is followed by a backoff, until the retries are used up.
MayBackOff == retries < MaxRetries

\* The awaited call fails.  What the store has not applied by then is dropped,
\* or goes on without anybody awaiting it (the other members of a gather, or a
\* request that only timed out); the payload is restored as a whole.
CallFails(goesOn) ==
  LET left == unsent # payload \/ (goesOn /\ unsent # Zero)
  IN  /\ Calling
      /\ RestorePending
      /\ healthy' = FALSE
      /\ payload' = Zero /\ unsent' = Zero
      /\ orphan' = IF goesOn THEN Plus(orphan, unsent) ELSE orphan
      /\ IF left THEN /\ ambiguous < MaxAmbiguous
                      /\ ambiguous' = ambiguous + 1 /\ drift' = TRUE
                 ELSE UNCHANGED <<ambiguous, drift>>
      /\ \/ /\ sync = "apply" /\ MayBackOff
            /\ retries' = retries + 1 /\ sync' = "sleep"
            /\ phase' = phase
         \/ /\ sync = "apply" /\ ~MayBackOff
            /\ sync' = "wait"
            /\ UNCHANGED <<phase, retries>>
         \/ /\ phase = "final" /\ phase' = "stopped"
            /\ UNCHANGED <<sync, retries>>
      /\ UNCHANGED <<reading, loaded, starts, totals, snapshot, store,
                     recorded, cut>>

-----------------------------------------------------------------------------
(* stop(), and the ways a process ends.                                    *)

\* A call nobody awaits any more: its writes may land or be dropped, and they
\* are counted as cut because no payload will be restored for them.
AbandonCall ==
  /\ payload' = Zero /\ unsent' = Zero
  /\ orphan' = Plus(orphan, unsent)

\* stop() cancels the sync task wherever it is.  CancelledError is not an
\* Exception: a flush that is cancelled in its call restores nothing.
Stop ==
  /\ phase = "running"
  /\ phase' = "stopping" /\ sync' = "off"
  /\ AbandonCall
  /\ cut' = (cut \/ unsent # Zero)
  /\ drift' = (drift \/ unsent # Zero)
  /\ UNCHANGED <<reading, retries, healthy, loaded, starts, counts, store,
                 recorded, ambiguous>>

\* The last flush of stop(), and its early return when nothing is pending.
FinalFlush ==
  /\ phase = "stopping"
  /\ \/ /\ TakePending /\ phase' = "final"
     \/ /\ ~HasPending(pending) /\ phase' = "stopped"
        /\ UNCHANGED <<pending, call>>
  /\ UNCHANGED <<reading, sync, retries, healthy, loaded, starts, totals,
                 snapshot, backend, history>>

\* The process is gone, and its memory with it.
LoseMemory ==
  /\ phase' = "down" /\ reading' = "nothing" /\ sync' = "off"
  /\ retries' = 0 /\ healthy' = TRUE
  /\ pending' = Zero /\ totals' = Zero /\ snapshot' = Zero /\ loaded' = Zero
  /\ AbandonCall
  /\ cut' = (cut \/ pending # Zero \/ unsent # Zero)
  /\ UNCHANGED <<starts, store, recorded, ambiguous, drift>>

Exit == phase = "stopped" /\ LoseMemory

Crash == phase \in Up \ {"stopped"} /\ LoseMemory

\* Writes nobody awaits reach the store, or are given up.
OrphanLands(S) ==
  /\ \E c \in S : orphan[c] # 0
  /\ store' = Plus(store, On(orphan, S))
  /\ orphan' = On(orphan, Cell \ S)
  /\ UNCHANGED <<memory, counts, call, history>>

OrphanDropped ==
  /\ orphan # Zero
  /\ orphan' = Zero
  /\ UNCHANGED <<memory, counts, call, store, history>>

-----------------------------------------------------------------------------
Next ==
  \/ Start \/ LoadRead \/ LoadReturns \/ LoadFails
  \/ \E i \in Instant, t \in Token : Access(i, t)
  \/ SyncIdle \/ SyncFlush \/ SyncWake
  \/ \E S \in Batch : StoreApplies(S)
  \/ CallReturns
  \/ \E goesOn \in BOOLEAN : CallFails(goesOn)
  \/ Stop \/ FinalFlush \/ Exit \/ Crash
  \/ \E S \in Batch : OrphanLands(S)
  \/ OrphanDropped

Spec == Init /\ [][Next]_vars

\* Timers fire, the loop runs its callbacks, and a store that is called again
\* and again eventually applies a whole call and answers.
Fairness ==
  /\ WF_vars(LoadRead) /\ WF_vars(LoadReturns)
  /\ WF_vars(SyncFlush) /\ WF_vars(SyncWake)
  /\ SF_vars(StoreApplies(Cell))
  /\ SF_vars(CallReturns)
  /\ WF_vars(FinalFlush)

FairSpec == Spec /\ Fairness

-----------------------------------------------------------------------------
(* What the counters promise.                                              *)

\* While no process died with counts in memory and no call was cancelled,
\* every increment access() accepted is in the store, in the pending counters
\* or in the part of the awaited call that has yet to be applied.
NothingLost ==
  ~cut => AtMost(recorded, Plus(Plus(store, pending), unsent))

\* The store and all that may still be written to it never exceed what access()
\* accepted, but for the failed calls that had left something in the store: each
\* of them counts an access once more at most, however often it is tried again
\* and whatever restarts intervene.
NothingInvented ==
  \A c \in Cell : store[c] + pending[c] + (unsent[c] + orphan[c])
                  <= (1 + ambiguous) * recorded[c]

\* The totals that /stats shows are the store's counters and what is on its
\* way there, once the initial load succeeded, whatever accesses came during
\* the load and whatever flushes failed since.
TotalsMatchStore ==
  phase \in Up \ {"loading"} /\ ~drift =>
    \A c \in Cell : snapshot[c] = store[c] + pending[c] + unsent[c]

\* Within one process the numbers of /stats never decrease, the end of the
\* initial load included.
StatsNeverGoBack ==
  [][phase # "down" /\ phase' # "down" => AtMost(snapshot, snapshot')]_vars

\* A process that goes on running brings every accepted increment to the
\* store, however many calls failed before.
EventuallyStored ==
  <>[](phase = "running" /\ ~cut) => <>[]AtMost(recorded, store)

-----------------------------------------------------------------------------
(* What the documents say and the code does not do.                        *)

\* "Failures keep `pending` intact for the next attempt; on shutdown the
\* service performs one final flush": until the process is gone an accepted
\* increment is still kept somewhere.
KeptUntilStored ==
  phase # "down" /\ starts = 1 =>
    AtMost(recorded, Plus(Plus(store, pending), Plus(unsent, orphan)))

\* "an optional reconnection backoff retries the sync immediately when
\* possible": the loop that wakes from its backoff calls the store again.
BackoffRetries ==
  [][sync = "sleep" /\ sync' # "sleep" /\ phase' = "running"
       => sync' = "apply"]_vars
=============================================================================
