----------------------------- MODULE Conversions -----------------------------
(***************************************************************************)
(* The life of a conversion request: the route of api/v1/convert.py and    *)
(* the UI handler of ui/gradio_app.py, the admission in front of the       *)
(* route, the worker pool of core/service.py, and the temporary directory  *)
(* each of them fills, reads and removes.                                  *)
(*                                                                         *)
(* Handlers are tasks of one asyncio loop.  What a handler does between    *)
(* two suspensions runs without any other handler: "turn" is the handler   *)
(* that is in the middle of such a stretch.  Threads ignore the turn.  A   *)
(* thread cannot be cancelled: the handler only stops awaiting it.         *)
(*                                                                         *)
(* The gate appears as the line it implements (Admission), the limiter as  *)
(* the set of requests it counts exactly (PerIPLimiter!SlotsExact).        *)
(***************************************************************************)
EXTENDS Naturals, FiniteSets, Sequences, SequencesExt

CONSTANTS
  Api, Ui,        \* requests to the route and to the UI, each used once
  Uploads,        \* the requests that carry a file; the others name a URL
  IpOf,           \* IpOf[r]: the client address of request r of the route
  MaxPerIp, MaxConcurrent, MaxQueue,
  Workers,        \* worker_pool_size
  Nobody

Request == Api \cup Ui

ASSUME ConversionsAssumption ==
  /\ IsFiniteSet(Request) /\ Api \cap Ui = {} /\ Uploads \subseteq Request
  /\ Nobody \notin Request
  /\ MaxPerIp \in Nat \ {0} /\ MaxConcurrent \in Nat \ {0}
  /\ MaxQueue \in Nat /\ Workers \in Nat \ {0}

VARIABLES
  pc,                     \* pc[r]: where the handler of r is
  turn,                   \* the handler that runs without suspension
  inside, line, leaving,  \* the gate, as in Admission
  holders,                \* the requests that hold a slot of their address
  copy,                   \* copy[r]: the thread that stores the upload
  job, pool,              \* the conversions, and the work queue of the executor
  dirs, file,             \* temporary directories, and the entries of each
  listing,                \* what rmtree() saw in the directory it removes
  outcome,                \* outcome[r]: how the wait for the conversion ended
  outputs,                \* UI requests whose markdown file is in tmp_dir
  counted                 \* the requests analytics.access() was called for

admission == <<inside, line, leaving, holders>>
work  == <<copy, job, pool>>
disk  == <<dirs, file, listing, outputs>>
vars  == <<pc, turn, admission, work, disk, outcome, counted>>

Gate == INSTANCE Admission WITH Request <- Api

Place == {"new", "atGate", "line", "leaving", "inside", "copying", "awaiting",
          "removing", "rmdir", "answering", "over"}

Stretch == {"atGate", "inside", "removing", "rmdir"}  \* no other handler runs

HasDir(r) == r \in Uploads \cup Ui
Busy == {r \in Request : job[r] \in {"starting", "working"}}
Awaiting == {r \in Request : pc[r] = "awaiting"}

TypeOK ==
  /\ pc \in [Request -> Place]
  /\ turn \in {Nobody} \cup {r \in Request : pc[r] \in Stretch}
  /\ inside \subseteq Api /\ line \in Seq(Api) /\ leaving \subseteq Api
  /\ holders \subseteq Api
  /\ copy \in [Request -> {"none", "todo", "open", "done", "failed"}]
  /\ job \in [Request -> {"none", "queued", "starting", "working",
                          "succeeded", "failed", "cancelled"}]
  /\ pool \in Seq(Request)
  /\ dirs \subseteq Request
  /\ file \in [Request -> SUBSET {"upload", "renamed"}]
  /\ listing \subseteq {"upload", "renamed"}
  /\ outcome \in [Request -> {"none", "ok", "failed", "givenUp"}]
  /\ outputs \subseteq Ui
  /\ counted \subseteq Request

Init ==
  /\ pc = [r \in Request |-> "new"] /\ turn = Nobody
  /\ inside = {} /\ line = <<>> /\ leaving = {} /\ holders = {}
  /\ copy = [r \in Request |-> "none"]
  /\ job = [r \in Request |-> "none"] /\ pool = <<>>
  /\ dirs = {} /\ file = [r \in Request |-> {}] /\ listing = {}
  /\ outcome = [r \in Request |-> "none"]
  /\ outputs = {} /\ counted = {}

Goes(r, place) == pc' = [pc EXCEPT ![r] = place]

\* The handler of r is resumed at this place, no other being in its stretch.
Resumes(r, place) == turn = Nobody /\ pc[r] = place

-----------------------------------------------------------------------------
(* Before the conversion: the limiter, then the gate.                      *)

\* Mutant: the limiter counts only those the gate has let in.
ShareTakenInside(r) ==
  Cardinality({q \in inside : IpOf[q] = IpOf[r]}) >= MaxPerIp

ShareTaken(r) == Cardinality({q \in holders : IpOf[q] = IpOf[r]}) >= MaxPerIp

\* 429, without a trace.  Requests whose forms are invalid end before this.
Refuse(r) ==
  /\ Resumes(r, "new") /\ ShareTaken(r)
  /\ Goes(r, "over")
  /\ UNCHANGED <<turn, admission, work, disk, outcome, counted>>

TakeSlot(r) ==
  /\ Resumes(r, "new") /\ ~ShareTaken(r)
  /\ holders' = holders \cup {r}
  /\ Goes(r, "atGate") /\ turn' = r
  /\ UNCHANGED <<inside, line, leaving, work, disk, outcome, counted>>

EnterGate(r) ==
  /\ turn = r /\ pc[r] = "atGate"
  /\ \/ Gate!WalkIn(r) /\ Goes(r, "inside") /\ UNCHANGED turn
     \/ Gate!Join(r) /\ Goes(r, "line") /\ turn' = Nobody
  /\ UNCHANGED <<holders, work, disk, outcome, counted>>

\* Mutant: the slot is not given back by the limiter's finally clause.
RefusedKeepsSlot(r) ==
  /\ turn = r /\ pc[r] = "atGate" /\ ~Gate!HasPlace
  /\ Goes(r, "over") /\ turn' = Nobody
  /\ UNCHANGED <<admission, work, disk, outcome, counted>>

\* 503: the slot that was taken before the gate refused is given back.
RefusedAtGate(r) ==
  /\ turn = r /\ pc[r] = "atGate" /\ ~Gate!HasPlace
  /\ holders' = holders \ {r}
  /\ Goes(r, "over") /\ turn' = Nobody
  /\ UNCHANGED <<inside, line, leaving, work, disk, outcome, counted>>

CalledIn(r) ==
  /\ Resumes(r, "line")
  /\ Gate!Admit(r) /\ Goes(r, "inside") /\ turn' = r
  /\ UNCHANGED <<holders, work, disk, outcome, counted>>

\* The task is cancelled in the line, and unwinds later.
CancelInLine(r) ==
  /\ Resumes(r, "line")
  /\ Gate!GiveUp(r) /\ Goes(r, "leaving")
  /\ UNCHANGED <<turn, holders, work, disk, outcome, counted>>

\* Mutant: the share is kept.
UnwindKeepsShare(r) ==
  /\ Resumes(r, "leaving")
  /\ Gate!LeaveLine(r) /\ Goes(r, "over")
  /\ UNCHANGED <<turn, holders, work, disk, outcome, counted>>

UnwindInLine(r) ==
  /\ Resumes(r, "leaving")
  /\ Gate!LeaveLine(r) /\ holders' = holders \ {r} /\ Goes(r, "over")
  /\ UNCHANGED <<turn, work, disk, outcome, counted>>

-----------------------------------------------------------------------------
(* The ends of a handler.                                                  *)

\* Mutant: the access is recorded whatever the result.
ExitsAnswering(r, how) ==
  /\ Goes(r, "answering")
  /\ turn' = Nobody
  /\ IF r \in Api THEN Gate!Finish(r) /\ holders' = holders \ {r}
                  ELSE UNCHANGED admission

\* The two exits of the context managers; the answer and, after it, the
\* background task follow only a result.
Exits(r, how) ==
  /\ Goes(r, IF how = "ok" THEN "answering" ELSE "over")
  /\ turn' = Nobody
  /\ IF r \in Api THEN Gate!Finish(r) /\ holders' = holders \ {r}
                  ELSE UNCHANGED admission

\* The finally clause: rmtree() lists the directory first.
CleansUp(r) ==
  /\ Goes(r, "removing") /\ turn' = r
  /\ listing' = file[r]
  /\ UNCHANGED <<admission, dirs, file>>

\* The wait for the conversion of r is over.  The UI writes its result before
\* the directory is removed, unless writing fails.
Ends(r, how) ==
  /\ outcome' = [outcome EXCEPT ![r] = how]
  /\ IF HasDir(r) THEN CleansUp(r)
                  ELSE Exits(r, how) /\ UNCHANGED <<dirs, file, listing>>
  /\ \/ outputs' = outputs
     \/ r \in Ui /\ how = "ok" /\ outputs' = outputs \cup {r}

\* rmtree() unlinks what it listed, ignoring what is no longer there ...
Unlink(r) ==
  /\ turn = r /\ pc[r] = "removing"
  /\ file' = [file EXCEPT ![r] = @ \ listing]
  /\ Goes(r, "rmdir")
  /\ UNCHANGED <<turn, admission, work, dirs, listing, outputs, outcome,
                 counted>>

\* ... and removes the directory, ignoring the error if it is not empty.
RemoveDir(r) ==
  /\ turn = r /\ pc[r] = "rmdir"
  /\ dirs' = IF file[r] = {} THEN dirs \ {r} ELSE dirs
  /\ listing' = {}
  /\ Exits(r, outcome[r])
  /\ UNCHANGED <<work, file, outputs, outcome, counted>>

\* The background task of the route, or the task the UI has created.
Record(r) ==
  /\ Resumes(r, "answering")
  /\ counted' = counted \cup {r}
  /\ Goes(r, "over")
  /\ UNCHANGED <<turn, admission, work, disk, outcome>>

\* The answer cannot be sent: the background task never runs.
LoseAnswer(r) ==
  /\ Resumes(r, "answering") /\ r \in Api
  /\ Goes(r, "over")
  /\ UNCHANGED <<turn, admission, work, disk, outcome, counted>>

-----------------------------------------------------------------------------
(* The handlers.                                                           *)

\* Mutant: the loop is not given back.
SubmitsAndBlocks(r) ==
  /\ job' = [job EXCEPT ![r] = "queued"]
  /\ pool' = Append(pool, r)
  /\ Goes(r, "awaiting") /\ turn' = r

\* run_in_executor(), and the wait for it.
Submits(r) ==
  /\ job' = [job EXCEPT ![r] = "queued"]
  /\ pool' = Append(pool, r)
  /\ Goes(r, "awaiting") /\ turn' = Nobody

\* The stretch after the gate: guard, extension and mkdtemp() may fail; an
\* upload is handed to a thread, a URL to the worker pool.
Begin(r) ==
  /\ turn = r /\ pc[r] = "inside"
  /\ \/ /\ outcome' = [outcome EXCEPT ![r] = "failed"]
        /\ Exits(r, "failed")
        /\ UNCHANGED <<work, disk>>
     \/ /\ r \in Uploads
        /\ dirs' = dirs \cup {r}
        /\ copy' = [copy EXCEPT ![r] = "todo"]
        /\ Goes(r, "copying") /\ turn' = Nobody
        /\ UNCHANGED <<admission, job, pool, file, listing, outputs, outcome>>
     \/ /\ r \notin Uploads
        /\ Submits(r)
        /\ UNCHANGED <<admission, copy, disk, outcome>>
  /\ UNCHANGED counted

\* The UI has no admission but its own queue; it stages the file at once, which
\* may fail half way.
UiBegin(r) ==
  /\ Resumes(r, "new")
  /\ Cardinality({q \in Ui : pc[q] = "awaiting"}) < MaxConcurrent
  /\ dirs' = dirs \cup {r}
  /\ file' = [file EXCEPT ![r] = IF r \in Uploads THEN {"upload"} ELSE {}]
  /\ \/ Submits(r) /\ UNCHANGED <<listing, outcome>>
     \/ /\ r \in Uploads
        /\ outcome' = [outcome EXCEPT ![r] = "failed"]
        /\ Goes(r, "removing") /\ turn' = r
        /\ listing' = {"upload"}
        /\ UNCHANGED <<job, pool>>
  /\ UNCHANGED <<admission, copy, outputs, counted>>

\* Mutant: the upload is submitted as soon as its thread has begun.
CopiedTooEarly(r) ==
  /\ Resumes(r, "copying") /\ copy[r] \in {"open", "done"}
  /\ Submits(r)
  /\ UNCHANGED <<admission, disk, outcome, copy, counted>>

\* The upload is on disk, and the guard looks at its size.
Copied(r) ==
  /\ Resumes(r, "copying") /\ copy[r] = "done"
  /\ \/ Submits(r) /\ UNCHANGED <<admission, disk, outcome>>
     \/ Ends(r, "failed") /\ UNCHANGED <<job, pool>>
  /\ UNCHANGED <<copy, counted>>

\* Mutant: a failed upload returns without the finally clause.
CopyFailedReturns(r) ==
  /\ Resumes(r, "copying") /\ copy[r] = "failed"
  /\ Exits(r, "failed")
  /\ outcome' = [outcome EXCEPT ![r] = "failed"]
  /\ UNCHANGED <<work, disk, counted>>

CopyFailed(r) ==
  /\ Resumes(r, "copying") /\ copy[r] = "failed"
  /\ Ends(r, "failed")
  /\ UNCHANGED <<work, counted>>

\* The task is cancelled while the thread copies; the thread goes on.
CancelCopy(r) ==
  /\ Resumes(r, "copying")
  /\ Ends(r, "givenUp")
  /\ UNCHANGED <<work, counted>>

Converted(r) ==
  /\ Resumes(r, "awaiting")
  /\ \/ job[r] = "succeeded" /\ Ends(r, "ok")
     \/ job[r] = "failed" /\ Ends(r, "failed")
  /\ UNCHANGED <<work, counted>>

\* Mutant: the conversion is shielded from its request's end.
ShieldsJob(r) == job[r] = "queued" /\ UNCHANGED job

\* Cancelling the future of a queued conversion; its work item stays where it
\* is until a worker comes to it.
CancelsJob(r) == job[r] = "queued" /\ job' = [job EXCEPT ![r] = "cancelled"]

\* Mutant: a running conversion is awaited without limit.
GiveUpQueued(r) ==
  /\ Resumes(r, "awaiting") /\ CancelsJob(r)
  /\ Ends(r, "givenUp")
  /\ UNCHANGED <<copy, pool, counted>>

\* wait_for() reaches its timeout, or the task is cancelled.  A conversion no
\* worker has taken is cancelled with it; one that runs goes on, unawaited.
GiveUpWait(r) ==
  /\ Resumes(r, "awaiting")
  /\ CancelsJob(r) \/ (job[r] # "queued" /\ UNCHANGED job)
  /\ Ends(r, "givenUp")
  /\ UNCHANGED <<copy, pool, counted>>

-----------------------------------------------------------------------------
(* The threads.                                                            *)

\* dst.open("wb") in the directory, if it is still there.
CopyOpens(r) ==
  /\ copy[r] = "todo"
  /\ IF r \in dirs
       THEN /\ copy' = [copy EXCEPT ![r] = "open"]
            /\ file' = [file EXCEPT ![r] = @ \cup {"upload"}]
       ELSE copy' = [copy EXCEPT ![r] = "failed"] /\ UNCHANGED file
  /\ UNCHANGED <<pc, turn, admission, job, pool, dirs, listing, outputs,
                 outcome, counted>>

\* The whole upload is written, or it is too large, or the disk fails.
CopyEnds(r) ==
  /\ copy[r] = "open"
  /\ \E end \in {"done", "failed"} : copy' = [copy EXCEPT ![r] = end]
  /\ UNCHANGED <<pc, turn, admission, job, pool, disk, outcome, counted>>

\* A free worker takes the next work item, and drops it if it was cancelled.
WorkerTakes(r) ==
  /\ pool # <<>> /\ Head(pool) = r
  /\ Cardinality(Busy) < Workers
  /\ pool' = Tail(pool)
  /\ job' = IF job[r] = "queued" THEN [job EXCEPT ![r] = "starting"] ELSE job
  /\ UNCHANGED <<pc, turn, admission, copy, disk, outcome, counted>>

\* normalize_extension(): a file of unknown extension is renamed in place.
Normalizes(r) ==
  \/ file' = file
  \/ file[r] # {} /\ file' = [file EXCEPT ![r] = {"renamed"}]

\* _convert_sync() up to the conversion proper: the file must be there.
WorkerPrepares(r) ==
  /\ job[r] = "starting"
  /\ \/ /\ r \in Uploads => file[r] # {}
        /\ job' = [job EXCEPT ![r] = "working"]
        /\ Normalizes(r)
     \/ /\ r \in Uploads /\ file[r] = {}
        /\ job' = [job EXCEPT ![r] = "failed"] /\ file' = file
  /\ UNCHANGED <<pc, turn, admission, copy, pool, dirs, listing, outputs,
                 outcome, counted>>

JobEnds(r) ==
  /\ job[r] = "working"
  /\ \E end \in {"succeeded", "failed"} : job' = [job EXCEPT ![r] = end]
  /\ UNCHANGED <<pc, turn, admission, copy, pool, disk, outcome, counted>>

\* disk_cleanup_loop(): whatever matches the pattern, is older than the limit
\* and is a regular file.
Sweep ==
  /\ outputs # {}
  /\ \E old \in SUBSET outputs : outputs' = outputs \ old
  /\ UNCHANGED <<pc, turn, admission, work, dirs, file, listing, outcome,
                 counted>>

-----------------------------------------------------------------------------
Next ==
  \/ \E r \in Api : \/ Refuse(r) \/ TakeSlot(r)
                    \/ EnterGate(r) \/ RefusedAtGate(r) \/ CalledIn(r)
                    \/ CancelInLine(r) \/ UnwindInLine(r) \/ Begin(r)
  \/ \E r \in Ui : UiBegin(r)
  \/ \E r \in Request :
       \/ Copied(r) \/ CopyFailed(r) \/ CancelCopy(r)
       \/ Converted(r) \/ GiveUpWait(r) \/ Unlink(r) \/ RemoveDir(r)
       \/ Record(r) \/ LoseAnswer(r)
       \/ CopyOpens(r) \/ CopyEnds(r)
       \/ WorkerTakes(r) \/ WorkerPrepares(r) \/ JobEnds(r)
  \/ Sweep

Spec == Init /\ [][Next]_vars

\* The loop resumes who is ready, a copy from the request's own spool file
\* ends, the timer of wait_for() fires and the sweeper comes by.  Nothing says
\* that a conversion ends, or that a worker ever becomes free.
Fairness ==
  /\ \A r \in Api : /\ WF_vars(EnterGate(r)) /\ WF_vars(RefusedAtGate(r))
                    /\ WF_vars(CalledIn(r)) /\ WF_vars(UnwindInLine(r))
                    /\ WF_vars(Begin(r))
  /\ \A r \in Request :
       /\ WF_vars(Copied(r)) /\ WF_vars(CopyFailed(r)) /\ WF_vars(Converted(r))
       /\ WF_vars(GiveUpWait(r))
       /\ WF_vars(Unlink(r)) /\ WF_vars(RemoveDir(r)) /\ WF_vars(Record(r))
       /\ WF_vars(CopyOpens(r)) /\ WF_vars(CopyEnds(r))
  /\ WF_vars(Sweep)

FairSpec == Spec /\ Fairness

-----------------------------------------------------------------------------
(* What a conversion request may rely on, and leaves behind.               *)

\* A request that is over holds nothing of the gate or of its address's share,
\* whichever of its many ends it came to.
NothingHeldAfterwards ==
  \A r \in Api : pc[r] \in {"new", "answering", "over"} =>
    r \notin holders \cup inside \cup leaving \cup ToSet(line)

\* No address takes more than its share of the gate, its line included, even
\* while cancelled requests have yet to leave the line.
NoMonopoly ==
  \A ip \in {IpOf[r] : r \in Api} :
    Cardinality({r \in inside \cup ToSet(line) : IpOf[r] = ip}) <= MaxPerIp

\* A conversion a worker may still start is awaited by its request: what was
\* given up never keeps a worker from others, and no more of them are due at a
\* time than the gate and the UI let wait, however many workers hang.
BacklogIsAwaited ==
  LET due == {r \in Request : job[r] = "queued"} IN
  due \subseteq Awaiting /\ Cardinality(due) <= 2 * MaxConcurrent

\* The file of an awaited conversion is complete, and nobody takes it away.
FileThereWhileAwaited ==
  \A r \in Awaiting \cap Uploads :
    /\ r \in dirs /\ file[r] # {}
    /\ r \in Api => copy[r] = "done"

\* A directory can outlive its request only if the request gave up on a thread
\* that was still using it.
LeftoverOnlyIfGivenUp ==
  \A r \in dirs : pc[r] \in {"answering", "over"} => outcome[r] = "givenUp"

\* Analytics counts requests that got a result, never one that gave up, even if
\* its conversion succeeds afterwards; a result of the UI is always counted.
CountsResults ==
  /\ \A r \in counted : outcome[r] = "ok" /\ pc[r] = "over"
  /\ \A r \in Ui : outcome[r] = "ok" /\ pc[r] = "over" => r \in counted

\* Every request comes to its end, even if no conversion ever does: a hanging
\* conversion may occupy its worker, but neither its request nor the line.
EveryRequestEnds == \A r \in Request : pc[r] # "new" ~> pc[r] = "over"

-----------------------------------------------------------------------------
(* What the documents say and the code does not do.                        *)

\* "One global asyncio.Semaphore (in ConversionGate) bounds in-flight
\* conversions": no more of them occupy a worker than the gate admits.
InFlightBounded == Cardinality(Busy) <= MaxConcurrent

\* "Removes stale files matching docsifer-* in the configured tmp directory so
\* long-running containers don't accumulate gigabytes of leftovers": what a
\* request left behind is removed sooner or later.
LeftoversSwept ==
  \A r \in Request : pc[r] = "over" /\ r \in dirs ~> r \notin dirs
=============================================================================
