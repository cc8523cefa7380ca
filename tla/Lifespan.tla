------------------------------ MODULE Lifespan ------------------------------
(***************************************************************************)
(* main.py's _lifespan(): what is started in which order, and how it is    *)
(* stopped while requests, worker threads and loops are under way.         *)
(*                                                                         *)
(* On SIGTERM the server (uvicorn) stops accepting, waits for the requests *)
(* of the API with their background tasks, and only then lets _lifespan()  *)
(* go on.  Tasks of the UI's queue and threads are not waited for there.   *)
(* The store of the analytics is up: its failures are those of Analytics.  *)
(***************************************************************************)
EXTENDS LLMRegistry, SequencesExt

CONSTANTS
  Api, Ui,  \* requests with a conversion, to the route and to the UI
  Workers   \* worker_pool_size

ASSUME LifespanAssumption ==
  /\ Job = Api \cup Ui /\ Api \cap Ui = {} /\ IsFiniteSet(Job)
  /\ Workers \in Nat \ {0}

Loops == {"docsifer-disk-cleanup", "docsifer-memory-watchdog"}

VARIABLES
  phase,     \* where _lifespan() is
  running,   \* the background loops whose tasks have not ended
  task,      \* task[r]: where the handler of r is
  pool,      \* the work queue of the executor
  poolOpen,  \* the executor accepts work
  counted,   \* requests analytics.access() was called for
  flushing,  \* those a flush has taken along and awaits the store for
  stored,    \* those whose counts are in the store
  cutOff,    \* history: those taken along by a flush that was cancelled
  refused    \* requests that met a closed executor

lifecycle == <<phase, running>>
handlers  == <<task, pool, poolOpen, refused>>
analytics == <<counted, flushing, stored, cutOff>>
vars == <<registry, lifecycle, handlers, analytics>>

Phases == {"off", "starting", "serving", "draining", "loops", "flushing",
           "clearing", "closing", "joining", "exited"}

TypeOK ==
  /\ RegistryTypeOK
  /\ phase \in Phases /\ running \subseteq Loops
  /\ task \in [Job -> {"new", "awaiting", "answering", "over"}]
  /\ pool \in Seq(Job) /\ poolOpen \in BOOLEAN
  /\ flushing \subseteq counted /\ stored \subseteq counted
  /\ cutOff \subseteq counted
  /\ counted \cup refused \subseteq Job

Init ==
  /\ RegistryInit
  /\ phase = "off" /\ running = {}
  /\ task = [r \in Job |-> "new"] /\ pool = <<>> /\ poolOpen = FALSE
  /\ counted = {} /\ flushing = {} /\ stored = {} /\ cutOff = {}
  /\ refused = {}

\* clear() blocks the loop while a thread has the lock of the registry.
LoopRuns == phase \notin {"off", "clearing", "exited"}

Moves(r, place) == task' = [task EXCEPT ![r] = place]

-----------------------------------------------------------------------------
(* Handlers and threads.                                                   *)

\* convert_file(): the server lets no request of the API in any more once it
\* was told to stop, the queue of the UI goes on.
Submit(r) ==
  /\ LoopRuns /\ task[r] = "new"
  /\ phase = "serving" \/ (r \in Ui /\ phase # "starting")
  /\ IF poolOpen
       THEN /\ Moves(r, "awaiting") /\ pool' = Append(pool, r)
            /\ UNCHANGED refused
       ELSE /\ Moves(r, "over") /\ refused' = refused \cup {r}
            /\ UNCHANGED pool
  /\ UNCHANGED <<registry, lifecycle, poolOpen, analytics>>

Answer(r) ==
  /\ LoopRuns /\ task[r] = "awaiting" /\ at[r] = "ended"
  /\ Moves(r, "answering") \/ Moves(r, "over")
  /\ UNCHANGED <<registry, lifecycle, pool, poolOpen, refused, analytics>>

Busy == {j \in Job : at[j] \in {"asking", "building", "converting"}}

\* The timeout.  A conversion no thread has begun is cancelled, its work item
\* stays in the queue; one that runs goes on.
GiveUp(r) ==
  /\ LoopRuns /\ task[r] = "awaiting"
  /\ Moves(r, "over")
  /\ UNCHANGED <<registry, lifecycle, pool, poolOpen, refused, analytics>>

\* The background task of the route, or the task the UI has created.
Record(r) ==
  /\ LoopRuns /\ task[r] = "answering"
  /\ Moves(r, "over") /\ counted' = counted \cup {r}
  /\ UNCHANGED <<registry, lifecycle, pool, poolOpen, refused, flushing,
                 stored, cutOff>>

\* A free worker takes the next work item, and drops it if it was cancelled.
WorkerTakes(r) ==
  /\ pool # <<>> /\ Head(pool) = r /\ Cardinality(Busy) < Workers
  /\ pool' = Tail(pool)
  /\ IF task[r] = "awaiting" THEN Ask(r) ELSE UNCHANGED registry
  /\ UNCHANGED <<lifecycle, task, poolOpen, refused, analytics>>

\* A thread goes on to its conversion, or is done with it, or time passes for
\* the cache.
ThreadGetsClient(j) ==
  /\ Hit(j) \/ Miss(j) \/ Built(j) \/ FallsBack(j)
  /\ UNCHANGED <<lifecycle, handlers, analytics>>

ThreadDone(j) == Done(j) /\ UNCHANGED <<lifecycle, handlers, analytics>>

CacheAges ==
  /\ phase # "exited" /\ Expire
  /\ UNCHANGED <<lifecycle, handlers, analytics>>

-----------------------------------------------------------------------------
(* Starting and stopping.                                                  *)

\* The converter and its pool exist before analytics.start() is awaited.
Start ==
  /\ phase = "off" /\ phase' = "starting" /\ poolOpen' = TRUE
  /\ UNCHANGED <<registry, running, task, pool, refused, analytics>>

Started ==
  /\ phase = "starting" /\ phase' = "serving" /\ running' = Loops
  /\ UNCHANGED <<registry, handlers, analytics>>

\* A constructor rejects its settings: the finally clause is not reached.
StartFails ==
  /\ phase = "starting" /\ phase' = "exited"
  /\ UNCHANGED <<registry, running, handlers, analytics>>

FlushDue == counted \ (stored \cup flushing)

\* Mutant: a flush takes along what was answered and not yet recorded.
SyncFlushAhead ==
  /\ phase \in {"serving", "draining", "loops"}
  /\ flushing = {} /\ FlushDue # {}
  /\ flushing' = FlushDue \cup {r \in Job : task[r] = "answering"}
  /\ UNCHANGED <<registry, lifecycle, handlers, counted, stored, cutOff>>

\* The sync loop takes along what is pending ...
SyncFlush ==
  /\ phase \in {"serving", "draining", "loops"}
  /\ flushing = {} /\ FlushDue # {}
  /\ flushing' = FlushDue
  /\ UNCHANGED <<registry, lifecycle, handlers, counted, stored, cutOff>>

\* ... and has the answer of the store.
SyncStored ==
  /\ phase \in {"serving", "draining", "loops"} /\ flushing # {}
  /\ stored' = stored \cup flushing /\ flushing' = {}
  /\ UNCHANGED <<registry, lifecycle, handlers, counted, cutOff>>

\* SIGTERM from outside.
Terminate ==
  /\ phase = "serving" /\ phase' = "draining"
  /\ UNCHANGED <<registry, running, handlers, analytics>>

\* SIGTERM from memory_watchdog_loop(), which returns.
WatchdogFires ==
  /\ phase \in {"serving", "draining"}
  /\ "docsifer-memory-watchdog" \in running
  /\ running' = running \ {"docsifer-memory-watchdog"}
  /\ phase' = "draining"
  /\ UNCHANGED <<registry, handlers, analytics>>

Drained ==
  /\ phase = "draining" /\ phase' = "loops"
  /\ \A r \in Api : task[r] \in {"new", "over"}
  /\ UNCHANGED <<registry, running, handlers, analytics>>

\* stop_event.set(); each loop is cancelled and awaited.
StopLoop(l) ==
  /\ phase = "loops" /\ l \in running
  /\ running' = running \ {l}
  /\ UNCHANGED <<registry, phase, handlers, analytics>>

\* Mutant: the loop is stopped, the rest is not flushed.
StopWithoutFlush ==
  /\ phase = "loops" /\ running = {} /\ phase' = "flushing"
  /\ cutOff' = cutOff \cup flushing /\ flushing' = {}
  /\ UNCHANGED <<registry, running, handlers, counted, stored>>

\* analytics.stop() cancels the sync loop.  What a flush has under way is not
\* put back, whether it has reached the store or not; the final flush takes
\* along the rest ...
FinalFlush ==
  /\ phase = "loops" /\ running = {} /\ phase' = "flushing"
  /\ cutOff' = cutOff \cup flushing /\ flushing' = FlushDue
  /\ stored' \in {stored, stored \cup flushing}
  /\ UNCHANGED <<registry, running, handlers, counted>>

\* ... and ends, and converter.shutdown() follows without suspension.
FlushEnds ==
  /\ phase = "flushing" /\ phase' = "clearing"
  /\ stored' = stored \cup flushing /\ flushing' = {}
  /\ UNCHANGED <<registry, running, handlers, counted, cutOff>>

\* Mutant: the lock is kept until the pool has ended.
ClearKeepsLock ==
  /\ phase = "clearing" /\ phase' = "closing"
  /\ lock = Nobody /\ cache' = <<>> /\ lock' = CHOOSE j \in Job : TRUE
  /\ UNCHANGED <<at, uses, running, handlers, analytics>>

ClearRegistry ==
  /\ phase = "clearing" /\ phase' = "closing"
  /\ clear
  /\ UNCHANGED <<running, handlers, analytics>>

\* executor.shutdown(True) in a thread: no more work is accepted ...
ClosePool ==
  /\ phase = "closing" /\ phase' = "joining" /\ poolOpen' = FALSE
  /\ UNCHANGED <<registry, running, task, pool, refused, analytics>>

\* ... and every conversion that was accepted is run to its end.
PoolJoined ==
  /\ phase = "joining" /\ phase' = "exited"
  /\ pool = <<>> /\ Busy = {}
  /\ UNCHANGED <<registry, running, handlers, analytics>>

Next ==
  \/ \E r \in Job : \/ Submit(r) \/ Answer(r) \/ GiveUp(r) \/ Record(r)
                    \/ WorkerTakes(r) \/ ThreadGetsClient(r) \/ ThreadDone(r)
  \/ CacheAges
  \/ Start \/ Started \/ StartFails \/ SyncFlush \/ SyncStored
  \/ Terminate \/ WatchdogFires \/ Drained
  \/ \E l \in Loops : StopLoop(l)
  \/ FinalFlush \/ FlushEnds \/ ClearRegistry \/ ClosePool \/ PoolJoined

Spec == Init /\ [][Next]_vars

\* The loop goes on, the timers of the requests fire, and threads get at their
\* clients.  Nothing says that a conversion ends or that the store answers.
Fairness ==
  /\ \A r \in Job : /\ WF_vars(Answer(r)) /\ WF_vars(GiveUp(r))
                    /\ WF_vars(Record(r)) /\ WF_vars(WorkerTakes(r))
                    /\ WF_vars(ThreadGetsClient(r))
  /\ WF_vars(Drained) /\ \A l \in Loops : WF_vars(StopLoop(l))
  /\ WF_vars(FinalFlush)
  /\ WF_vars(ClearRegistry) /\ WF_vars(ClosePool) /\ WF_vars(PoolJoined)

FairSpec == Spec /\ Fairness

-----------------------------------------------------------------------------
(* What the order of the shutdown is for.                                  *)

\* What the API counted is in the store when the process ends, unless a flush
\* had taken it along that stop() cut off.
ApiCountsStored == phase = "exited" => counted \cap Api \subseteq stored \cup cutOff

\* Told to stop, by the watchdog or from outside, the process comes to its end
\* although requests are under way and threads need the registry that is being
\* cleared and the pool that is being closed: nothing keeps it but a store that
\* never answers the final flush, or a conversion that never ends.
NothingHangs ==
  []<>(phase # "flushing") /\ \A j \in Job : []<>(at[j] # "converting")

ShutdownCompletes ==
  NothingHangs => (phase = "draining" ~> phase = "exited")
=============================================================================
