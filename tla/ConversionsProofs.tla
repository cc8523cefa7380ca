-------------------------- MODULE ConversionsProofs --------------------------
(***************************************************************************)
(* Proofs about Conversions, for any number of requests and addresses, any *)
(* share, gate, queue and pool: what a request holds on its way, what it   *)
(* leaves behind, and which conversions the pool may still start.          *)
(***************************************************************************)
EXTENDS Conversions, FiniteSetTheorems, SequenceTheorems, TLAPS

-----------------------------------------------------------------------------
(* The inductive invariant.                                                *)

Early   == {"new", "atGate", "line", "leaving", "inside"}
Pending == Early \cup {"copying", "awaiting"}
Within  == {"inside", "copying", "awaiting", "removing", "rmdir"}
Outside == {"new", "answering", "over"}

\* What is settled at each place of a request: before its work begins, while it
\* is stored, while it is awaited, while its directory is removed, and after it.
\* Threads may still come to the directory only if the request gave up.
Flow(r) ==
  /\ pc[r] \in Stretch => turn = r
  /\ r \in dirs => HasDir(r)
  /\ pc[r] \in {"atGate", "line", "leaving", "inside", "copying"} => r \in Api
  /\ pc[r] \in Early =>
       copy[r] = "none" /\ job[r] = "none" /\ file[r] = {} /\ r \notin dirs
  /\ pc[r] \in Pending => outcome[r] = "none"
  /\ pc[r] = "copying" =>
       /\ r \in Uploads /\ r \in dirs /\ job[r] = "none"
       /\ copy[r] \in {"open", "done"} => file[r] # {}
  /\ pc[r] = "awaiting" =>
       /\ HasDir(r) => r \in dirs
       /\ r \in Uploads => file[r] # {}
       /\ r \in Api \cap Uploads => copy[r] = "done"
  /\ copy[r] = "todo" => pc[r] = "copying" \/ outcome[r] = "givenUp"
  /\ job[r] = "queued" => pc[r] = "awaiting"
  /\ job[r] = "starting" => pc[r] = "awaiting" \/ outcome[r] = "givenUp"
  /\ pc[r] = "removing" => outcome[r] = "givenUp" \/ file[r] \subseteq listing
  /\ pc[r] = "rmdir" => outcome[r] = "givenUp" \/ file[r] = {}
  /\ pc[r] = "answering" => outcome[r] = "ok"
  /\ pc[r] \in {"answering", "over"} /\ r \in dirs => outcome[r] = "givenUp"
  /\ r \in counted => outcome[r] = "ok" /\ pc[r] = "over"
  /\ r \in Ui /\ outcome[r] = "ok" /\ pc[r] = "over" => r \in counted

\* The place of a request says what it holds of the limiter and of the gate.
Booked ==
  /\ holders = {r \in Api : pc[r] \notin Outside}
  /\ inside = {r \in Api : pc[r] \in Within}
  /\ leaving = {r \in Api : pc[r] = "leaving"}
  /\ \A r \in Api : pc[r] \in {"line", "leaving"} <=> \E i \in DOMAIN line : line[i] = r
  /\ \A i, k \in DOMAIN line : line[i] = line[k] => i = k

Share(ip) == {r \in holders : IpOf[r] = ip}
UiAwaiting == {q \in Ui : pc[q] = "awaiting"}

Rooms ==
  /\ Cardinality(inside) <= MaxConcurrent
  /\ Cardinality(UiAwaiting) <= MaxConcurrent
  /\ \A r \in Api : Cardinality(Share(IpOf[r])) <= MaxPerIp

ConvInv == TypeOK /\ (\A r \in Request : Flow(r)) /\ Booked /\ Rooms
USE DEF Place, Stretch, Early, Pending, Within, Outside

LEMMA Starts == Init => ConvInv
<1> SUFFICES ASSUME Init
             PROVE  ConvInv
  OBVIOUS
<1>1. /\ pc \in [Request -> Place] /\ \A r \in Request : pc[r] = "new"
      /\ line = <<>> /\ pool = <<>> /\ inside = {} /\ holders = {} /\ leaving = {}
      /\ turn = Nobody /\ dirs = {} /\ listing = {} /\ outputs = {} /\ counted = {}
      /\ \A r \in Request : /\ copy[r] = "none" /\ job[r] = "none"
                            /\ file[r] = {} /\ outcome[r] = "none"
  BY DEF Init
<1>2. TypeOK
  BY DEF Init, TypeOK
<1>3. \A r \in Request : Flow(r)
  BY <1>1 DEF Flow
<1>4. Booked
  BY <1>1 DEF Booked, Request
<1>6. inside = {} /\ UiAwaiting = {} /\ \A r \in Api : Share(IpOf[r]) = {}
  BY <1>1 DEF UiAwaiting, Share, Request
<1>7. Rooms
  BY <1>6, FS_EmptySet, ConversionsAssumption DEF Rooms
<1> QED
  BY <1>2, <1>3, <1>4, <1>7 DEF ConvInv

-----------------------------------------------------------------------------
(* The flow of a request.                                                  *)

\* A step leaves the other requests alone.
Alone(r) ==
  \A q \in Request \ {r} :
    /\ pc'[q] = pc[q] /\ copy'[q] = copy[q] /\ job'[q] = job[q]
    /\ file'[q] = file[q] /\ outcome'[q] = outcome[q]
    /\ q \in dirs' <=> q \in dirs
    /\ q \in counted' <=> q \in counted

LEMMA StepOfOne ==
  ASSUME ConvInv, NEW r \in Request, TypeOK', Flow(r)', Alone(r),
         turn \in {Nobody, r} \/ UNCHANGED <<turn, listing>>
  PROVE  TypeOK' /\ \A q \in Request : Flow(q)'
<1>1. ASSUME NEW q \in Request, q # r
      PROVE  Flow(q)'
  <2>1. /\ pc'[q] = pc[q] /\ copy'[q] = copy[q] /\ job'[q] = job[q]
        /\ file'[q] = file[q] /\ outcome'[q] = outcome[q]
        /\ q \in dirs' <=> q \in dirs
        /\ q \in counted' <=> q \in counted
    BY <1>1 DEF Alone
  <2>2. Flow(q) /\ q # Nobody
    BY ConversionsAssumption DEF ConvInv
  <2>3. CASE turn \in {Nobody, r}
    <3>1. pc[q] \notin Stretch
      BY <1>1, <2>2, <2>3 DEF Flow
    <3> QED
      BY <2>1, <2>2, <3>1 DEF Flow, HasDir
  <2>4. CASE UNCHANGED <<turn, listing>>
    BY <2>1, <2>2, <2>4 DEF Flow, HasDir
  <2> QED
    BY <2>3, <2>4
<1> QED
  BY <1>1

LEMMA GoesTo ==
  ASSUME TypeOK, NEW r \in Request, NEW place \in Place, Goes(r, place)
  PROVE  /\ pc' \in [Request -> Place] /\ pc'[r] = place
         /\ \A q \in Request \ {r} : pc'[q] = pc[q]
  BY DEF Goes, TypeOK

\* A sequence without its i-th element: the others keep their order.
LEMMA RemovedShape ==
  ASSUME NEW S, NEW s \in Seq(S), NEW i \in DOMAIN s
  PROVE  LET d == SubSeq(s, 1, i - 1) \o SubSeq(s, i + 1, Len(s))
         IN  /\ d \in Seq(S) /\ Len(d) = Len(s) - 1
             /\ \A k \in 1..(Len(s) - 1) :
                  d[k] = IF k < i THEN s[k] ELSE s[k + 1]
<1> DEFINE front == SubSeq(s, 1, i - 1)
           back == SubSeq(s, i + 1, Len(s))
<1>1. i \in 1..Len(s) /\ Len(s) \in Nat
  OBVIOUS
<1>2. /\ front \in Seq(S) /\ Len(front) = i - 1
      /\ \A k \in 1..(i - 1) : front[k] = s[k]
  BY <1>1
<1>3. /\ back \in Seq(S) /\ Len(back) = Len(s) - i
      /\ \A k \in 1..(Len(s) - i) : back[k] = s[i + k]
  BY <1>1
<1> HIDE DEF front, back
<1>4. front \o back \in Seq(S) /\ Len(front \o back) = Len(s) - 1
  BY <1>1, <1>2, <1>3
<1>5. \A k \in 1..(Len(front) + Len(back)) :
        (front \o back)[k] = IF k <= Len(front) THEN front[k]
                             ELSE back[k - Len(front)]
  BY <1>2, <1>3, ConcatProperties, Zenon
<1>6. ASSUME NEW k \in 1..(Len(s) - 1)
      PROVE  (front \o back)[k] = IF k < i THEN s[k] ELSE s[k + 1]
  <2>1. k \in 1..(Len(front) + Len(back))
    BY <1>1, <1>2, <1>3
  <2>2. CASE k < i
    <3>1. k \in 1..(i - 1) /\ k <= Len(front)
      BY <1>1, <1>2, <2>2
    <3> QED
      BY <1>2, <1>5, <2>1, <2>2, <3>1
  <2>3. CASE ~(k < i)
    <3>1. k - Len(front) \in 1..(Len(s) - i) /\ ~(k <= Len(front))
          /\ i + (k - Len(front)) = k + 1
      BY <1>1, <1>2, <2>3
    <3>2. (front \o back)[k] = back[k - Len(front)]
      BY <1>5, <2>1, <3>1
    <3>3. back[k - Len(front)] = s[i + (k - Len(front))]
      BY <1>3, <3>1
    <3> QED
      BY <2>3, <3>1, <3>2, <3>3
  <2> QED
    BY <2>2, <2>3
<1> QED
  BY <1>4, <1>6 DEF front, back

\* ... and what it held at most once it holds no longer.
LEMMA RemovedOnce ==
  ASSUME NEW S, NEW s \in Seq(S), NEW i \in DOMAIN s,
         \A j, k \in DOMAIN s : s[j] = s[k] => j = k
  PROVE  LET d == SubSeq(s, 1, i - 1) \o SubSeq(s, i + 1, Len(s))
         IN  /\ d \in Seq(S)
             /\ \A j, k \in DOMAIN d : d[j] = d[k] => j = k
             /\ \A x : (\E k \in DOMAIN d : d[k] = x)
                       <=> x # s[i] /\ \E k \in DOMAIN s : s[k] = x
<1> DEFINE d == SubSeq(s, 1, i - 1) \o SubSeq(s, i + 1, Len(s))
           old(k) == IF k < i THEN k ELSE k + 1
<1>0. Len(s) \in Nat /\ i \in 1..Len(s) /\ DOMAIN s = 1..Len(s)
  OBVIOUS
<1>1. /\ d \in Seq(S) /\ Len(d) = Len(s) - 1
      /\ \A k \in 1..(Len(s) - 1) : d[k] = IF k < i THEN s[k] ELSE s[k + 1]
  BY RemovedShape, Zenon
<1> HIDE DEF d
<1>2. DOMAIN d = 1..(Len(s) - 1)
  BY <1>0, <1>1
<1>3. \A k \in DOMAIN d : old(k) \in DOMAIN s /\ old(k) # i /\ d[k] = s[old(k)]
  BY <1>0, <1>1, <1>2
<1>4. \A j, k \in DOMAIN d : old(j) = old(k) => j = k
  BY <1>0, <1>1, <1>2
<1>5. \A m \in DOMAIN s : m # i => \E k \in DOMAIN d : old(k) = m
  <2> SUFFICES ASSUME NEW m \in DOMAIN s, m # i
               PROVE  \E k \in DOMAIN d : old(k) = m
    OBVIOUS
  <2>1. CASE m < i
    BY <1>0, <1>1, <1>2, <2>1
  <2>2. CASE ~(m < i)
    <3>1. m - 1 \in DOMAIN d /\ old(m - 1) = m
      BY <1>0, <1>1, <1>2, <2>2
    <3> QED
      BY <3>1
  <2> QED
    BY <2>1, <2>2
<1> HIDE DEF old
<1>6. \A j, k \in DOMAIN d : d[j] = d[k] => j = k
  BY <1>3, <1>4
<1>7. ASSUME NEW x
      PROVE  (\E k \in DOMAIN d : d[k] = x)
             <=> x # s[i] /\ \E k \in DOMAIN s : s[k] = x
  BY <1>3, <1>5
<1> QED
  BY <1>1, <1>6, <1>7 DEF d

LEMMA GateStep ==
  ASSUME TypeOK, NEW r \in Api,
         \/ Gate!WalkIn(r) \/ Gate!Join(r) \/ Gate!Admit(r)
         \/ Gate!GiveUp(r) \/ Gate!LeaveLine(r) \/ Gate!Finish(r)
  PROVE  inside' \subseteq Api /\ line' \in Seq(Api) /\ leaving' \subseteq Api
<1> USE DEF TypeOK
<1>1. \A i \in DOMAIN line : Gate!LineWithout(i) \in Seq(Api)
  <2> SUFFICES ASSUME NEW i \in DOMAIN line
               PROVE  Gate!LineWithout(i) \in Seq(Api)
    OBVIOUS
  <2>1. SubSeq(line, 1, i - 1) \o SubSeq(line, i + 1, Len(line)) \in Seq(Api)
    BY RemovedShape, Zenon
  <2> QED
    BY <2>1 DEF Gate!LineWithout
<1>2. CASE Gate!WalkIn(r)
  BY <1>2 DEF Gate!WalkIn
<1>3. CASE Gate!Join(r)
  BY <1>3 DEF Gate!Join
<1>4. CASE Gate!Admit(r)
  BY <1>1, <1>4 DEF Gate!Admit
<1>5. CASE Gate!GiveUp(r)
  BY <1>5 DEF Gate!GiveUp
<1>6. CASE Gate!LeaveLine(r)
  BY <1>1, <1>6 DEF Gate!LeaveLine
<1>7. CASE Gate!Finish(r)
  BY <1>7 DEF Gate!Finish
<1> QED
  BY <1>2, <1>3, <1>4, <1>5, <1>6, <1>7

AdmissionTypes ==
  /\ inside \subseteq Api /\ line \in Seq(Api) /\ leaving \subseteq Api
  /\ holders \subseteq Api

WorkTypes ==
  /\ copy \in [Request -> {"none", "todo", "open", "done", "failed"}]
  /\ job \in [Request -> {"none", "queued", "starting", "working",
                          "succeeded", "failed", "cancelled"}]
  /\ pool \in Seq(Request)

DiskTypes ==
  /\ dirs \subseteq Request
  /\ file \in [Request -> SUBSET {"upload", "renamed"}]
  /\ listing \subseteq {"upload", "renamed"}
  /\ outputs \subseteq Ui

OutcomeTypes == outcome \in [Request -> {"none", "ok", "failed", "givenUp"}]

LEMMA TypesByPart ==
  TypeOK <=> /\ pc \in [Request -> Place]
             /\ turn \in {Nobody} \cup {r \in Request : pc[r] \in Stretch}
             /\ AdmissionTypes /\ WorkTypes /\ DiskTypes /\ OutcomeTypes
             /\ counted \subseteq Request
  BY Zenon DEF TypeOK, AdmissionTypes, WorkTypes, DiskTypes, OutcomeTypes

LEMMA ExitsShape ==
  ASSUME TypeOK, NEW r \in Request, NEW how, Exits(r, how)
  PROVE  /\ pc' \in [Request -> Place] /\ turn' = Nobody /\ AdmissionTypes'
         /\ pc'[r] = IF how = "ok" THEN "answering" ELSE "over"
         /\ \A q \in Request \ {r} : pc'[q] = pc[q]
<1>1. /\ pc' \in [Request -> Place] /\ turn' = Nobody
      /\ pc'[r] = IF how = "ok" THEN "answering" ELSE "over"
      /\ \A q \in Request \ {r} : pc'[q] = pc[q]
  BY GoesTo DEF Exits
<1>2. AdmissionTypes'
  <2>1. CASE r \in Api
    BY <2>1, GateStep DEF Exits, AdmissionTypes, TypeOK
  <2>2. CASE r \notin Api
    BY <2>2 DEF Exits, AdmissionTypes, TypeOK, admission
  <2> QED
    BY <2>1, <2>2
<1> QED
  BY <1>1, <1>2

\* How a wait ends: the directory is removed, or there is none.
LEMMA EndsShape ==
  ASSUME TypeOK, NEW r \in Request, NEW how \in {"ok", "failed", "givenUp"},
         Ends(r, how)
  PROVE  /\ pc' \in [Request -> Place]
         /\ turn' \in {Nobody} \cup {q \in Request : pc'[q] \in Stretch}
         /\ AdmissionTypes' /\ DiskTypes' /\ OutcomeTypes'
         /\ outcome'[r] = how /\ file' = file /\ dirs' = dirs
         /\ \A q \in Request \ {r} : pc'[q] = pc[q] /\ outcome'[q] = outcome[q]
         /\ IF HasDir(r)
              THEN /\ pc'[r] = "removing" /\ turn' = r /\ listing' = file[r]
                   /\ UNCHANGED admission
              ELSE /\ pc'[r] = IF how = "ok" THEN "answering" ELSE "over"
                   /\ Exits(r, how)
<1>1. /\ OutcomeTypes' /\ outcome'[r] = how /\ outputs' \subseteq Ui
      /\ \A q \in Request \ {r} : outcome'[q] = outcome[q]
  BY DEF Ends, TypeOK, OutcomeTypes
<1>2. CASE HasDir(r)
  <2>1. CleansUp(r)
    BY <1>2 DEF Ends
  <2>2. /\ pc' \in [Request -> Place] /\ pc'[r] = "removing"
        /\ \A q \in Request \ {r} : pc'[q] = pc[q]
        /\ turn' = r /\ listing' = file[r] /\ file' = file /\ dirs' = dirs
        /\ UNCHANGED admission
    BY <2>1, GoesTo DEF CleansUp
  <2>3. AdmissionTypes' /\ DiskTypes'
    BY <1>1, <2>2 DEF AdmissionTypes, DiskTypes, TypeOK, admission
  <2> QED
    BY <1>1, <1>2, <2>2, <2>3
<1>3. CASE ~HasDir(r)
  <2>1. Exits(r, how) /\ UNCHANGED <<dirs, file, listing>>
    BY <1>3 DEF Ends
  <2>2. /\ pc' \in [Request -> Place] /\ turn' = Nobody /\ AdmissionTypes'
        /\ pc'[r] = IF how = "ok" THEN "answering" ELSE "over"
        /\ \A q \in Request \ {r} : pc'[q] = pc[q]
    BY <2>1, ExitsShape
  <2>3. DiskTypes'
    BY <1>1, <2>1 DEF DiskTypes, TypeOK
  <2> QED
    BY <1>1, <1>3, <2>1, <2>2, <2>3
<1> QED
  BY <1>2, <1>3

LEMMA SubmitsShape ==
  ASSUME TypeOK, NEW r \in Request, Submits(r), copy' = copy
  PROVE  /\ pc' \in [Request -> Place] /\ turn' = Nobody /\ WorkTypes'
         /\ pc'[r] = "awaiting" /\ job'[r] = "queued"
         /\ \A q \in Request \ {r} : pc'[q] = pc[q] /\ job'[q] = job[q]
<1>1. /\ pc' \in [Request -> Place] /\ pc'[r] = "awaiting"
      /\ \A q \in Request \ {r} : pc'[q] = pc[q]
  BY GoesTo DEF Submits
<1>2. /\ job'[r] = "queued" /\ \A q \in Request \ {r} : job'[q] = job[q]
      /\ WorkTypes' /\ turn' = Nobody
  BY DEF Submits, TypeOK, WorkTypes
<1> QED
  BY <1>1, <1>2

LEMMA CancelsShape ==
  ASSUME TypeOK, NEW r \in Request, CancelsJob(r), UNCHANGED <<copy, pool>>
  PROVE  /\ WorkTypes' /\ job'[r] = "cancelled"
         /\ \A q \in Request \ {r} : job'[q] = job[q]
  BY DEF CancelsJob, TypeOK, WorkTypes

LEMMA FlowSteps == ConvInv /\ Next => TypeOK' /\ \A r \in Request : Flow(r)'
<1> SUFFICES ASSUME ConvInv, Next
             PROVE  TypeOK' /\ \A r \in Request : Flow(r)'
  OBVIOUS
<1> USE DEF admission, work, disk
<1>0. /\ TypeOK /\ \A r \in Request : Flow(r)
      /\ pc \in [Request -> Place]
      /\ turn \in {Nobody} \cup {r \in Request : pc[r] \in Stretch}
      /\ AdmissionTypes /\ WorkTypes /\ DiskTypes /\ OutcomeTypes
      /\ counted \subseteq Request
      /\ Nobody \notin Request /\ Api \subseteq Request /\ Ui \subseteq Request
      /\ \A r \in Ui : r \notin Api
  BY TypesByPart, ConversionsAssumption DEF ConvInv, Request
<1>1. ASSUME NEW r \in Api, Refuse(r)
      PROVE  TypeOK' /\ \A q \in Request : Flow(q)'
  <2>1. /\ turn = Nobody /\ pc[r] = "new" /\ r \in Request
        /\ UNCHANGED <<turn, admission, work, disk, outcome, counted>>
        /\ pc' \in [Request -> Place] /\ pc'[r] = "over"
        /\ \A q \in Request \ {r} : pc'[q] = pc[q]
    BY <1>0, <1>1, GoesTo DEF Refuse, Resumes
  <2>2. TypeOK'
    BY <1>0, <2>1 DEF TypeOK
  <2>3. Flow(r)' /\ Alone(r)
    BY <1>0, <2>1 DEF Flow, Alone, HasDir
  <2> QED
    BY <2>1, <2>2, <2>3, StepOfOne
<1>24. ASSUME NEW r \in Api, TakeSlot(r)
       PROVE  TypeOK' /\ \A q \in Request : Flow(q)'
  <2>1. /\ turn = Nobody /\ pc[r] = "new" /\ r \in Request /\ turn' = r
        /\ UNCHANGED <<inside, line, leaving, work, disk, outcome, counted>>
        /\ holders' = holders \cup {r}
        /\ pc' \in [Request -> Place] /\ pc'[r] = "atGate"
        /\ \A q \in Request \ {r} : pc'[q] = pc[q]
    BY <1>0, <1>24, GoesTo DEF TakeSlot, Resumes
  <2>2. TypeOK'
    BY <1>0, <2>1 DEF TypeOK
  <2>3. Flow(r)' /\ Alone(r)
    BY <1>0, <2>1 DEF Flow, Alone, HasDir
  <2> QED
    BY <2>1, <2>2, <2>3, StepOfOne
<1>25. ASSUME NEW r \in Api, RefusedAtGate(r)
       PROVE  TypeOK' /\ \A q \in Request : Flow(q)'
  <2>1. /\ turn = r /\ pc[r] = "atGate" /\ r \in Request /\ turn' = Nobody
        /\ UNCHANGED <<inside, line, leaving, work, disk, outcome, counted>>
        /\ holders' = holders \ {r}
        /\ pc' \in [Request -> Place] /\ pc'[r] = "over"
        /\ \A q \in Request \ {r} : pc'[q] = pc[q]
    BY <1>0, <1>25, GoesTo DEF RefusedAtGate
  <2>2. TypeOK'
    BY <1>0, <2>1 DEF TypeOK
  <2>3. Flow(r)' /\ Alone(r)
    BY <1>0, <2>1 DEF Flow, Alone, HasDir
  <2> QED
    BY <2>1, <2>2, <2>3, StepOfOne
<1>2. ASSUME NEW r \in Api, EnterGate(r)
      PROVE  TypeOK' /\ \A q \in Request : Flow(q)'
  <2>1. /\ turn = r /\ pc[r] = "atGate" /\ r \in Request
        /\ UNCHANGED <<holders, work, disk, outcome, counted>>
    BY <1>0, <1>2 DEF EnterGate
  <2>2. AdmissionTypes'
    BY <1>0, <1>2, <2>1, GateStep DEF AdmissionTypes, EnterGate
  <2>3. /\ pc' \in [Request -> Place]
        /\ \/ pc'[r] = "inside" /\ turn' = r
           \/ pc'[r] = "line" /\ turn' = Nobody
        /\ \A q \in Request \ {r} : pc'[q] = pc[q]
    <3>1. \/ Goes(r, "inside") /\ turn' = turn
          \/ Goes(r, "line") /\ turn' = Nobody
      BY <1>2 DEF EnterGate
    <3>2. CASE Goes(r, "inside") /\ turn' = turn
      BY <1>0, <2>1, <3>2, GoesTo
    <3>3. CASE Goes(r, "line") /\ turn' = Nobody
      BY <1>0, <2>1, <3>3, GoesTo
    <3> QED
      BY <3>1, <3>2, <3>3
  <2>4. TypeOK'
    BY <1>0, <2>1, <2>2, <2>3 DEF TypeOK, AdmissionTypes
  <2>5. Flow(r)' /\ Alone(r)
    BY <1>0, <2>1, <2>3 DEF Flow, Alone, HasDir
  <2> QED
    BY <2>1, <2>4, <2>5, StepOfOne
<1>3. ASSUME NEW r \in Api, CalledIn(r)
      PROVE  TypeOK' /\ \A q \in Request : Flow(q)'
  <2>1. /\ turn = Nobody /\ pc[r] = "line" /\ r \in Request
        /\ UNCHANGED <<holders, work, disk, outcome, counted>>
        /\ pc' \in [Request -> Place] /\ pc'[r] = "inside" /\ turn' = r
        /\ \A q \in Request \ {r} : pc'[q] = pc[q]
    BY <1>0, <1>3, GoesTo DEF CalledIn, Resumes
  <2>2. AdmissionTypes'
    BY <1>0, <1>3, <2>1, GateStep DEF AdmissionTypes, CalledIn
  <2>3. TypeOK'
    BY <1>0, <2>1, <2>2 DEF TypeOK, AdmissionTypes
  <2>4. Flow(r)' /\ Alone(r)
    BY <1>0, <2>1 DEF Flow, Alone, HasDir
  <2> QED
    BY <2>1, <2>3, <2>4, StepOfOne
<1>4. ASSUME NEW r \in Api, CancelInLine(r)
      PROVE  TypeOK' /\ \A q \in Request : Flow(q)'
  <2>1. /\ turn = Nobody /\ pc[r] = "line" /\ r \in Request
        /\ UNCHANGED <<turn, holders, work, disk, outcome, counted>>
        /\ pc' \in [Request -> Place] /\ pc'[r] = "leaving"
        /\ \A q \in Request \ {r} : pc'[q] = pc[q]
    BY <1>0, <1>4, GoesTo DEF CancelInLine, Resumes
  <2>2. AdmissionTypes'
    BY <1>0, <1>4, <2>1, GateStep DEF AdmissionTypes, CancelInLine
  <2>3. TypeOK'
    BY <1>0, <2>1, <2>2 DEF TypeOK, AdmissionTypes
  <2>4. Flow(r)' /\ Alone(r)
    BY <1>0, <2>1 DEF Flow, Alone, HasDir
  <2> QED
    BY <2>1, <2>3, <2>4, StepOfOne
<1>5. ASSUME NEW r \in Api, UnwindInLine(r)
      PROVE  TypeOK' /\ \A q \in Request : Flow(q)'
  <2>1. /\ turn = Nobody /\ pc[r] = "leaving" /\ r \in Request
        /\ UNCHANGED <<turn, work, disk, outcome, counted>>
        /\ holders' = holders \ {r}
        /\ pc' \in [Request -> Place] /\ pc'[r] = "over"
        /\ \A q \in Request \ {r} : pc'[q] = pc[q]
    BY <1>0, <1>5, GoesTo DEF UnwindInLine, Resumes
  <2>2. AdmissionTypes'
    BY <1>0, <1>5, <2>1, GateStep DEF AdmissionTypes, UnwindInLine
  <2>3. TypeOK'
    BY <1>0, <2>1, <2>2 DEF TypeOK, AdmissionTypes
  <2>4. Flow(r)' /\ Alone(r)
    BY <1>0, <2>1 DEF Flow, Alone, HasDir
  <2> QED
    BY <2>1, <2>3, <2>4, StepOfOne
<1>6. ASSUME NEW r \in Api, Begin(r)
      PROVE  TypeOK' /\ \A q \in Request : Flow(q)'
  <2>0. turn = r /\ pc[r] = "inside" /\ counted' = counted /\ r \in Request
    BY <1>0, <1>6 DEF Begin
  <2>1. CASE /\ outcome' = [outcome EXCEPT ![r] = "failed"]
             /\ Exits(r, "failed") /\ UNCHANGED <<work, disk>>
    <3>1. /\ pc' \in [Request -> Place] /\ turn' = Nobody /\ AdmissionTypes'
          /\ pc'[r] = "over" /\ \A q \in Request \ {r} : pc'[q] = pc[q]
      BY <1>0, <2>0, <2>1, ExitsShape
    <3>2. /\ OutcomeTypes' /\ outcome'[r] = "failed"
          /\ \A q \in Request \ {r} : outcome'[q] = outcome[q]
      BY <1>0, <2>0, <2>1 DEF OutcomeTypes
    <3>3. TypeOK'
      BY <1>0, <2>0, <2>1, <3>1, <3>2 DEF TypeOK, AdmissionTypes, OutcomeTypes
    <3>4. Flow(r)' /\ Alone(r)
      BY <1>0, <2>0, <2>1, <3>1, <3>2 DEF Flow, Alone, HasDir
    <3> QED
      BY <2>0, <3>3, <3>4, StepOfOne
  <2>2. CASE /\ r \in Uploads /\ dirs' = dirs \cup {r}
             /\ copy' = [copy EXCEPT ![r] = "todo"]
             /\ Goes(r, "copying") /\ turn' = Nobody
             /\ UNCHANGED <<admission, job, pool, file, listing, outputs, outcome>>
    <3>1. /\ pc' \in [Request -> Place] /\ pc'[r] = "copying"
          /\ \A q \in Request \ {r} : pc'[q] = pc[q]
      BY <1>0, <2>0, <2>2, GoesTo
    <3>2. /\ WorkTypes' /\ copy'[r] = "todo"
          /\ \A q \in Request \ {r} : copy'[q] = copy[q]
      BY <1>0, <2>0, <2>2 DEF WorkTypes
    <3>3. TypeOK'
      BY <1>0, <2>0, <2>2, <3>1, <3>2 DEF TypeOK, WorkTypes
    <3>4. Flow(r)' /\ Alone(r)
      BY <1>0, <2>0, <2>2, <3>1, <3>2 DEF Flow, Alone, HasDir
    <3> QED
      BY <2>0, <3>3, <3>4, StepOfOne
  <2>3. CASE /\ r \notin Uploads /\ Submits(r)
             /\ UNCHANGED <<admission, copy, disk, outcome>>
    <3>1. /\ pc' \in [Request -> Place] /\ turn' = Nobody /\ WorkTypes'
          /\ pc'[r] = "awaiting" /\ job'[r] = "queued"
          /\ \A q \in Request \ {r} : pc'[q] = pc[q] /\ job'[q] = job[q]
      BY <1>0, <2>0, <2>3, SubmitsShape
    <3>2. TypeOK'
      BY <1>0, <2>0, <2>3, <3>1 DEF TypeOK, WorkTypes
    <3>3. Flow(r)' /\ Alone(r)
      BY <1>0, <2>0, <2>3, <3>1 DEF Flow, Alone, HasDir
    <3> QED
      BY <2>0, <3>2, <3>3, StepOfOne
  <2> QED
    BY <1>6, <2>1, <2>2, <2>3 DEF Begin
<1>7. ASSUME NEW r \in Ui, UiBegin(r)
      PROVE  TypeOK' /\ \A q \in Request : Flow(q)'
  <2>0. /\ turn = Nobody /\ pc[r] = "new" /\ r \in Request /\ r \notin Api
        /\ dirs' = dirs \cup {r} /\ UNCHANGED <<admission, copy, outputs, counted>>
    BY <1>0, <1>7 DEF UiBegin, Resumes
  <2>1. /\ file' \in [Request -> SUBSET {"upload", "renamed"}]
        /\ r \in Uploads => file'[r] = {"upload"}
        /\ \A q \in Request \ {r} : file'[q] = file[q]
    BY <1>0, <1>7, <2>0 DEF UiBegin, DiskTypes
  <2>2. CASE Submits(r) /\ UNCHANGED <<listing, outcome>>
    <3>1. /\ pc' \in [Request -> Place] /\ turn' = Nobody /\ WorkTypes'
          /\ pc'[r] = "awaiting" /\ job'[r] = "queued"
          /\ \A q \in Request \ {r} : pc'[q] = pc[q] /\ job'[q] = job[q]
      BY <1>0, <2>0, <2>2, SubmitsShape
    <3>2. TypeOK'
      BY <1>0, <2>0, <2>1, <2>2, <3>1 DEF TypeOK, WorkTypes
    <3>3. Flow(r)' /\ Alone(r)
      BY <1>0, <2>0, <2>1, <2>2, <3>1 DEF Flow, Alone, HasDir
    <3> QED
      BY <2>0, <3>2, <3>3, StepOfOne
  <2>3. CASE /\ r \in Uploads
             /\ outcome' = [outcome EXCEPT ![r] = "failed"]
             /\ Goes(r, "removing") /\ turn' = r
             /\ listing' = {"upload"}
             /\ UNCHANGED <<job, pool>>
    <3>1. /\ pc' \in [Request -> Place] /\ pc'[r] = "removing"
          /\ \A q \in Request \ {r} : pc'[q] = pc[q]
      BY <1>0, <2>0, <2>3, GoesTo
    <3>2. /\ OutcomeTypes' /\ outcome'[r] = "failed"
          /\ \A q \in Request \ {r} : outcome'[q] = outcome[q]
      BY <1>0, <2>0, <2>3 DEF OutcomeTypes
    <3>3. TypeOK'
      BY <1>0, <2>0, <2>1, <2>3, <3>1, <3>2 DEF TypeOK, OutcomeTypes
    <3>4. Flow(r)' /\ Alone(r)
      BY <1>0, <2>0, <2>1, <2>3, <3>1, <3>2 DEF Flow, Alone, HasDir
    <3> QED
      BY <2>0, <3>3, <3>4, StepOfOne
  <2> QED
    BY <1>7, <2>2, <2>3 DEF UiBegin
<1>8. ASSUME NEW r \in Request, NEW how \in {"ok", "failed", "givenUp"},
             turn = Nobody, pc[r] \in {"copying", "awaiting"}, Ends(r, how),
             WorkTypes', counted' = counted, copy' = copy,
             how # "givenUp" => copy[r] # "todo" /\ job'[r] # "starting",
             job'[r] # "queued",
             \A q \in Request \ {r} : job'[q] = job[q]
      PROVE  TypeOK' /\ \A q \in Request : Flow(q)'
  <2>1. /\ pc' \in [Request -> Place]
        /\ turn' \in {Nobody} \cup {q \in Request : pc'[q] \in Stretch}
        /\ AdmissionTypes' /\ DiskTypes' /\ OutcomeTypes'
        /\ outcome'[r] = how /\ file' = file /\ dirs' = dirs
        /\ \A q \in Request \ {r} : pc'[q] = pc[q] /\ outcome'[q] = outcome[q]
        /\ HasDir(r) => pc'[r] = "removing" /\ turn' = r /\ listing' = file[r]
        /\ ~HasDir(r) => pc'[r] = IF how = "ok" THEN "answering" ELSE "over"
    BY <1>0, <1>8, EndsShape
  <2>2. TypeOK'
    BY <1>0, <1>8, <2>1 DEF TypeOK, AdmissionTypes, DiskTypes, OutcomeTypes, WorkTypes
  <2>3. Alone(r)
    BY <1>8, <2>1 DEF Alone
  <2>4. r \in Ui => HasDir(r)
    BY DEF HasDir
  <2>5. Flow(r) /\ r \in dirs => HasDir(r)
    BY <1>0 DEF Flow
  <2>6. Flow(r)'
    BY <1>0, <1>8, <2>1, <2>4, <2>5 DEF Flow, HasDir
  <2> QED
    BY <1>8, <2>2, <2>3, <2>6, StepOfOne
<1>9. ASSUME NEW r \in Request, Copied(r)
      PROVE  TypeOK' /\ \A q \in Request : Flow(q)'
  <2>0. /\ turn = Nobody /\ pc[r] = "copying" /\ copy[r] = "done"
        /\ UNCHANGED <<copy, counted>>
    BY <1>9 DEF Copied, Resumes
  <2>1. CASE Submits(r) /\ UNCHANGED <<admission, disk, outcome>>
    <3>1. /\ pc' \in [Request -> Place] /\ turn' = Nobody /\ WorkTypes'
          /\ pc'[r] = "awaiting" /\ job'[r] = "queued"
          /\ \A q \in Request \ {r} : pc'[q] = pc[q] /\ job'[q] = job[q]
      BY <1>0, <2>0, <2>1, SubmitsShape
    <3>2. TypeOK'
      BY <1>0, <2>0, <2>1, <3>1 DEF TypeOK, WorkTypes
    <3>3. Flow(r)' /\ Alone(r)
      BY <1>0, <2>0, <2>1, <3>1 DEF Flow, Alone, HasDir
    <3> QED
      BY <2>0, <3>2, <3>3, StepOfOne
  <2>2. CASE Ends(r, "failed") /\ UNCHANGED <<job, pool>>
    <3>1. WorkTypes' /\ job' = job /\ job[r] = "none"
      BY <1>0, <2>0, <2>2 DEF WorkTypes, Flow
    <3> QED
      BY <1>8, <2>0, <2>2, <3>1
  <2> QED
    BY <1>9, <2>1, <2>2 DEF Copied
<1>10. ASSUME NEW r \in Request, CopyFailed(r)
       PROVE  TypeOK' /\ \A q \in Request : Flow(q)'
  <2>1. /\ turn = Nobody /\ pc[r] = "copying" /\ copy[r] = "failed"
        /\ Ends(r, "failed") /\ UNCHANGED <<copy, job, pool, counted>>
    BY <1>10 DEF CopyFailed, Resumes
  <2>2. WorkTypes' /\ job[r] = "none"
    BY <1>0, <2>1 DEF WorkTypes, Flow
  <2> QED
    BY <1>8, <2>1, <2>2
<1>11. ASSUME NEW r \in Request, CancelCopy(r)
       PROVE  TypeOK' /\ \A q \in Request : Flow(q)'
  <2>1. /\ turn = Nobody /\ pc[r] = "copying"
        /\ Ends(r, "givenUp") /\ UNCHANGED <<copy, job, pool, counted>>
    BY <1>11 DEF CancelCopy, Resumes
  <2>2. WorkTypes' /\ job[r] = "none"
    BY <1>0, <2>1 DEF WorkTypes, Flow
  <2> QED
    BY <1>8, <2>1, <2>2
<1>12. ASSUME NEW r \in Request, Converted(r)
       PROVE  TypeOK' /\ \A q \in Request : Flow(q)'
  <2>1. /\ turn = Nobody /\ pc[r] = "awaiting" /\ job[r] \in {"succeeded", "failed"}
        /\ UNCHANGED <<copy, job, pool, counted>>
        /\ Ends(r, "ok") \/ Ends(r, "failed")
    BY <1>12 DEF Converted, Resumes
  <2>2. WorkTypes' /\ copy[r] # "todo"
    BY <1>0, <2>1 DEF WorkTypes, Flow
  <2> QED
    BY <1>8, <2>1, <2>2
<1>13. ASSUME NEW r \in Request, GiveUpWait(r)
       PROVE  TypeOK' /\ \A q \in Request : Flow(q)'
  <2>1. /\ turn = Nobody /\ pc[r] = "awaiting"
        /\ Ends(r, "givenUp") /\ UNCHANGED <<copy, pool, counted>>
    BY <1>13 DEF GiveUpWait, Resumes
  <2>2. CASE CancelsJob(r)
    <3>1. /\ WorkTypes' /\ job'[r] = "cancelled"
          /\ \A q \in Request \ {r} : job'[q] = job[q]
      BY <1>0, <2>1, <2>2, CancelsShape
    <3> QED
      BY <1>8, <2>1, <3>1
  <2>3. CASE job[r] # "queued" /\ UNCHANGED job
    <3>1. WorkTypes'
      BY <1>0, <2>1, <2>3 DEF WorkTypes
    <3> QED
      BY <1>8, <2>1, <2>3, <3>1
  <2> QED
    BY <1>13, <2>2, <2>3 DEF GiveUpWait
<1>14. ASSUME NEW r \in Request, Unlink(r)
       PROVE  TypeOK' /\ \A q \in Request : Flow(q)'
  <2>1. /\ turn = r /\ pc[r] = "removing"
        /\ UNCHANGED <<turn, admission, work, dirs, listing, outputs, outcome, counted>>
        /\ pc' \in [Request -> Place] /\ pc'[r] = "rmdir"
        /\ \A q \in Request \ {r} : pc'[q] = pc[q]
    BY <1>0, <1>14, GoesTo DEF Unlink
  <2>2. /\ file' \in [Request -> SUBSET {"upload", "renamed"}]
        /\ file'[r] = file[r] \ listing
        /\ \A q \in Request \ {r} : file'[q] = file[q]
    BY <1>0, <1>14 DEF Unlink, DiskTypes
  <2>3. TypeOK'
    BY <1>0, <2>1, <2>2 DEF TypeOK
  <2>4. Flow(r)' /\ Alone(r)
    BY <1>0, <2>1, <2>2 DEF Flow, Alone, HasDir
  <2> QED
    BY <2>1, <2>3, <2>4, StepOfOne
<1>15. ASSUME NEW r \in Request, RemoveDir(r)
       PROVE  TypeOK' /\ \A q \in Request : Flow(q)'
  <2>1. /\ turn = r /\ pc[r] = "rmdir" /\ listing' = {}
        /\ dirs' = IF file[r] = {} THEN dirs \ {r} ELSE dirs
        /\ UNCHANGED <<work, file, outputs, outcome, counted>>
        /\ Exits(r, outcome[r])
    BY <1>15 DEF RemoveDir
  <2>2. /\ pc' \in [Request -> Place] /\ turn' = Nobody /\ AdmissionTypes'
        /\ pc'[r] = IF outcome[r] = "ok" THEN "answering" ELSE "over"
        /\ \A q \in Request \ {r} : pc'[q] = pc[q]
    BY <1>0, <2>1, ExitsShape
  <2>3. TypeOK'
    BY <1>0, <2>1, <2>2 DEF TypeOK, AdmissionTypes
  <2>4. Flow(r)' /\ Alone(r)
    BY <1>0, <2>1, <2>2 DEF Flow, Alone, HasDir
  <2> QED
    BY <2>1, <2>3, <2>4, StepOfOne
<1>16. ASSUME NEW r \in Request, Record(r)
       PROVE  TypeOK' /\ \A q \in Request : Flow(q)'
  <2>1. /\ turn = Nobody /\ pc[r] = "answering" /\ counted' = counted \cup {r}
        /\ UNCHANGED <<turn, admission, work, disk, outcome>>
        /\ pc' \in [Request -> Place] /\ pc'[r] = "over"
        /\ \A q \in Request \ {r} : pc'[q] = pc[q]
    BY <1>0, <1>16, GoesTo DEF Record, Resumes
  <2>2. TypeOK'
    BY <1>0, <2>1 DEF TypeOK
  <2>3. Flow(r)' /\ Alone(r)
    BY <1>0, <2>1 DEF Flow, Alone, HasDir
  <2> QED
    BY <2>1, <2>2, <2>3, StepOfOne
<1>17. ASSUME NEW r \in Request, LoseAnswer(r)
       PROVE  TypeOK' /\ \A q \in Request : Flow(q)'
  <2>1. /\ turn = Nobody /\ pc[r] = "answering" /\ r \in Api
        /\ UNCHANGED <<turn, admission, work, disk, outcome, counted>>
        /\ pc' \in [Request -> Place] /\ pc'[r] = "over"
        /\ \A q \in Request \ {r} : pc'[q] = pc[q]
    BY <1>0, <1>17, GoesTo DEF LoseAnswer, Resumes
  <2>2. TypeOK'
    BY <1>0, <2>1 DEF TypeOK
  <2>3. Flow(r)' /\ Alone(r)
    BY <1>0, <2>1 DEF Flow, Alone, HasDir
  <2> QED
    BY <2>1, <2>2, <2>3, StepOfOne
<1>18. ASSUME NEW r \in Request, CopyOpens(r)
       PROVE  TypeOK' /\ \A q \in Request : Flow(q)'
  <2>1. /\ copy[r] = "todo"
        /\ UNCHANGED <<pc, turn, admission, job, pool, dirs, listing, outputs,
                       outcome, counted>>
    BY <1>18 DEF CopyOpens
  <2>2. /\ WorkTypes' /\ file' \in [Request -> SUBSET {"upload", "renamed"}]
        /\ \/ r \in dirs /\ copy'[r] = "open" /\ file'[r] = file[r] \cup {"upload"}
           \/ r \notin dirs /\ copy'[r] = "failed" /\ file'[r] = file[r]
        /\ \A q \in Request \ {r} : copy'[q] = copy[q] /\ file'[q] = file[q]
    BY <1>0, <1>18, <2>1 DEF CopyOpens, WorkTypes, DiskTypes
  <2>3. TypeOK'
    BY <1>0, <2>1, <2>2 DEF TypeOK, WorkTypes
  <2>4. Flow(r)' /\ Alone(r)
    BY <1>0, <2>1, <2>2 DEF Flow, Alone, HasDir
  <2> QED
    BY <2>1, <2>3, <2>4, StepOfOne
<1>19. ASSUME NEW r \in Request, CopyEnds(r)
       PROVE  TypeOK' /\ \A q \in Request : Flow(q)'
  <2>1. /\ copy[r] = "open"
        /\ UNCHANGED <<pc, turn, admission, job, pool, disk, outcome, counted>>
        /\ WorkTypes' /\ copy'[r] \in {"done", "failed"}
        /\ \A q \in Request \ {r} : copy'[q] = copy[q]
    BY <1>0, <1>19 DEF CopyEnds, WorkTypes
  <2>2. TypeOK'
    BY <1>0, <2>1 DEF TypeOK, WorkTypes
  <2>3. Flow(r)' /\ Alone(r)
    BY <1>0, <2>1 DEF Flow, Alone, HasDir
  <2> QED
    BY <2>1, <2>2, <2>3, StepOfOne
<1>20. ASSUME NEW r \in Request, WorkerTakes(r)
       PROVE  TypeOK' /\ \A q \in Request : Flow(q)'
  <2>1. /\ pool # <<>> /\ pool' = Tail(pool)
        /\ UNCHANGED <<pc, turn, admission, copy, disk, outcome, counted>>
        /\ job'[r] = IF job[r] = "queued" THEN "starting" ELSE job[r]
        /\ \A q \in Request \ {r} : job'[q] = job[q]
        /\ WorkTypes'
    BY <1>0, <1>20 DEF WorkerTakes, WorkTypes
  <2>2. TypeOK'
    BY <1>0, <2>1 DEF TypeOK, WorkTypes
  <2>3. Flow(r)' /\ Alone(r)
    BY <1>0, <2>1 DEF Flow, Alone, HasDir
  <2> QED
    BY <2>1, <2>2, <2>3, StepOfOne
<1>21. ASSUME NEW r \in Request, WorkerPrepares(r)
       PROVE  TypeOK' /\ \A q \in Request : Flow(q)'
  <2>1. /\ job[r] = "starting"
        /\ UNCHANGED <<pc, turn, admission, copy, pool, dirs, listing, outputs,
                       outcome, counted>>
        /\ WorkTypes' /\ job'[r] \in {"working", "failed"}
        /\ \A q \in Request \ {r} : job'[q] = job[q]
    BY <1>0, <1>21 DEF WorkerPrepares, WorkTypes
  <2>2. /\ file' \in [Request -> SUBSET {"upload", "renamed"}]
        /\ file[r] = {} => file'[r] = {}
        /\ file[r] # {} => file'[r] # {}
        /\ \A q \in Request \ {r} : file'[q] = file[q]
    BY <1>0, <1>21 DEF WorkerPrepares, Normalizes, DiskTypes
  <2>3. TypeOK'
    BY <1>0, <2>1, <2>2 DEF TypeOK, WorkTypes
  <2>4. Flow(r)' /\ Alone(r)
    BY <1>0, <2>1, <2>2 DEF Flow, Alone, HasDir
  <2> QED
    BY <2>1, <2>3, <2>4, StepOfOne
<1>22. ASSUME NEW r \in Request, JobEnds(r)
       PROVE  TypeOK' /\ \A q \in Request : Flow(q)'
  <2>1. /\ job[r] = "working"
        /\ UNCHANGED <<pc, turn, admission, copy, pool, disk, outcome, counted>>
        /\ WorkTypes' /\ job'[r] \in {"succeeded", "failed"}
        /\ \A q \in Request \ {r} : job'[q] = job[q]
    BY <1>0, <1>22 DEF JobEnds, WorkTypes
  <2>2. TypeOK'
    BY <1>0, <2>1 DEF TypeOK, WorkTypes
  <2>3. Flow(r)' /\ Alone(r)
    BY <1>0, <2>1 DEF Flow, Alone, HasDir
  <2> QED
    BY <2>1, <2>2, <2>3, StepOfOne
<1>23. CASE Sweep
  <2>1. /\ UNCHANGED <<pc, turn, admission, work, dirs, file, listing, outcome, counted>>
        /\ outputs' \subseteq Ui
    BY <1>0, <1>23 DEF Sweep, DiskTypes
  <2>2. TypeOK'
    BY <1>0, <2>1 DEF TypeOK
  <2> QED
    BY <1>0, <2>1, <2>2 DEF Flow, HasDir
<1> QED
  BY <1>1, <1>2, <1>3, <1>4, <1>5, <1>6, <1>7, <1>9, <1>10, <1>11, <1>12, <1>13,
     <1>14, <1>15, <1>16, <1>17, <1>18, <1>19, <1>20, <1>21, <1>22, <1>23, <1>24,
     <1>25 DEF Next

-----------------------------------------------------------------------------
(* The books of the limiter and of the gate.                               *)

USE DEF admission

LEMMA BooksStay ==
  ASSUME ConvInv, UNCHANGED admission,
         \A q \in Api : \/ pc'[q] = pc[q]
                        \/ pc[q] \in Within /\ pc'[q] \in Within
                        \/ pc[q] \in Outside /\ pc'[q] \in Outside
  PROVE  Booked'
<1>1. UNCHANGED <<inside, line, leaving, holders>> /\ Booked
  BY DEF ConvInv
<1>2. \A q \in Api : /\ pc'[q] \in Outside <=> pc[q] \in Outside
                     /\ pc'[q] \in Within <=> pc[q] \in Within
                     /\ pc'[q] = "leaving" <=> pc[q] = "leaving"
                     /\ pc'[q] \in {"line", "leaving"} <=> pc[q] \in {"line", "leaving"}
  OBVIOUS
<1> QED
  BY <1>1, <1>2 DEF Booked

LEMMA LeavesBooks ==
  ASSUME ConvInv, NEW r \in Request, pc[r] \in Within, NEW how, Exits(r, how)
  PROVE  Booked'
<1>1. /\ pc'[r] \in Outside /\ \A q \in Request \ {r} : pc'[q] = pc[q]
      /\ Api \subseteq Request
  BY ExitsShape DEF ConvInv, Request
<1>2. CASE r \in Api
  <2>1. /\ holders' = holders \ {r} /\ inside' = inside \ {r}
        /\ UNCHANGED <<line, leaving>>
    BY <1>2 DEF Exits, Gate!Finish
  <2> QED
    BY <1>1, <1>2, <2>1 DEF Booked, ConvInv
<1>3. CASE r \notin Api
  <2>1. UNCHANGED admission
    BY <1>3 DEF Exits
  <2> QED
    BY <1>1, <1>3, <2>1, BooksStay
<1> QED
  BY <1>2, <1>3

LEMMA EndsBooks ==
  ASSUME ConvInv, NEW r \in Request, pc[r] \in {"copying", "awaiting"},
         NEW how \in {"ok", "failed", "givenUp"}, Ends(r, how)
  PROVE  Booked'
<1>1. /\ \A q \in Request \ {r} : pc'[q] = pc[q]
      /\ HasDir(r) => pc'[r] = "removing" /\ UNCHANGED admission
      /\ ~HasDir(r) => Exits(r, how)
      /\ Api \subseteq Request
  BY EndsShape DEF ConvInv, Request
<1>2. CASE HasDir(r)
  BY <1>1, <1>2, BooksStay
<1>3. CASE ~HasDir(r)
  BY <1>1, <1>3, LeavesBooks
<1> QED
  BY <1>2, <1>3

\* Whoever leaves the line for another place, r alone leaves it.
LEMMA OutOfLine ==
  ASSUME ConvInv, NEW r \in Api, NEW i \in DOMAIN line, line[i] = r,
         line' = Gate!LineWithout(i),
         \A q \in Api \ {r} : pc'[q] = pc[q],
         pc'[r] \notin {"line", "leaving"}
  PROVE  /\ \A q \in Api : pc'[q] \in {"line", "leaving"}
                            <=> \E k \in DOMAIN line' : line'[k] = q
         /\ \A j, k \in DOMAIN line' : line'[j] = line'[k] => j = k
<1>1. line \in Seq(Api) /\ Booked
  BY DEF ConvInv, TypeOK
<1>2. \A j, k \in DOMAIN line : line[j] = line[k] => j = k
  BY <1>1 DEF Booked
<1> DEFINE d == SubSeq(line, 1, i - 1) \o SubSeq(line, i + 1, Len(line))
<1>3. /\ \A j, k \in DOMAIN d : d[j] = d[k] => j = k
      /\ \A x : (\E k \in DOMAIN d : d[k] = x)
                <=> x # line[i] /\ \E k \in DOMAIN line : line[k] = x
  BY <1>1, <1>2, RemovedOnce, Zenon
<1>4. line' = d
  BY DEF Gate!LineWithout
<1> HIDE DEF d
<1>5. \A q \in Api : pc[q] \in {"line", "leaving"} <=> \E k \in DOMAIN line : line[k] = q
  BY <1>1 DEF Booked
<1>6. ASSUME NEW q \in Api
      PROVE  pc'[q] \in {"line", "leaving"} <=> \E k \in DOMAIN d : d[k] = q
  <2>1. (\E k \in DOMAIN d : d[k] = q)
        <=> q # r /\ \E k \in DOMAIN line : line[k] = q
    BY <1>3
  <2>2. q # r => pc'[q] = pc[q]
    OBVIOUS
  <2> QED
    BY <1>5, <2>1, <2>2
<1> QED
  BY <1>3, <1>4, <1>6

LEMMA BookSteps == ConvInv /\ Next => Booked'
<1> SUFFICES ASSUME ConvInv, Next
             PROVE  Booked'
  OBVIOUS
<1>0. /\ TypeOK /\ Booked /\ Api \subseteq Request /\ Ui \subseteq Request
      /\ pc \in [Request -> Place] /\ line \in Seq(Api)
      /\ \A r \in Ui : r \notin Api
  BY ConversionsAssumption DEF ConvInv, TypeOK, Request
<1>1. ASSUME NEW r \in Api, Refuse(r)
      PROVE  Booked'
  <2>1. /\ pc[r] = "new" /\ pc'[r] = "over" /\ UNCHANGED admission
        /\ \A q \in Request \ {r} : pc'[q] = pc[q]
    BY <1>0, <1>1, GoesTo DEF Refuse, Resumes
  <2> QED
    BY <1>0, <2>1, BooksStay
<1>15. ASSUME NEW r \in Api, TakeSlot(r) \/ RefusedAtGate(r)
       PROVE  Booked'
  <2>1. /\ UNCHANGED <<inside, line, leaving>>
        /\ \A q \in Request \ {r} : pc'[q] = pc[q]
        /\ \/ /\ pc[r] = "new" /\ pc'[r] = "atGate" /\ holders' = holders \cup {r}
           \/ /\ pc[r] = "atGate" /\ pc'[r] = "over" /\ holders' = holders \ {r}
    BY <1>0, <1>15, GoesTo DEF TakeSlot, RefusedAtGate, Resumes
  <2>2. \A q \in Api : /\ pc'[q] \in Within <=> pc[q] \in Within
                       /\ pc'[q] = "leaving" <=> pc[q] = "leaving"
                       /\ pc'[q] \in {"line", "leaving"} <=> pc[q] \in {"line", "leaving"}
    BY <1>0, <2>1
  <2>3. holders' = {q \in Api : pc'[q] \notin Outside}
    BY <1>0, <2>1 DEF Booked
  <2> QED
    BY <1>0, <2>1, <2>2, <2>3 DEF Booked
<1>2. ASSUME NEW r \in Api, EnterGate(r)
      PROVE  Booked'
  <2>1. pc[r] = "atGate" /\ holders' = holders
    BY <1>2 DEF EnterGate
  <2>2. CASE Gate!WalkIn(r) /\ Goes(r, "inside")
    <3>1. /\ pc'[r] = "inside" /\ \A q \in Request \ {r} : pc'[q] = pc[q]
          /\ inside' = inside \cup {r} /\ UNCHANGED <<line, leaving>>
      BY <1>0, <2>2, GoesTo DEF Gate!WalkIn
    <3> QED
      BY <1>0, <2>1, <3>1 DEF Booked
  <2>3. CASE Gate!Join(r) /\ Goes(r, "line")
    <3>1. /\ pc'[r] = "line" /\ \A q \in Request \ {r} : pc'[q] = pc[q]
          /\ line' = Append(line, r) /\ UNCHANGED <<inside, leaving>>
      BY <1>0, <2>3, GoesTo DEF Gate!Join
    <3>2. /\ Len(line) \in Nat /\ DOMAIN line = 1..Len(line)
          /\ DOMAIN line' = 1..(Len(line) + 1) /\ line'[Len(line) + 1] = r
          /\ \A k \in 1..Len(line) : line'[k] = line[k]
      BY <1>0, <3>1
    <3>3. \A k \in DOMAIN line : line[k] # r
      BY <1>0, <2>1 DEF Booked
    <3>4. \A j, k \in DOMAIN line' : line'[j] = line'[k] => j = k
      <4> SUFFICES ASSUME NEW j \in DOMAIN line', NEW k \in DOMAIN line',
                          line'[j] = line'[k]
                   PROVE  j = k
        OBVIOUS
      <4>1. \A m \in DOMAIN line' : m \in DOMAIN line \/ m = Len(line) + 1
        BY <3>2
      <4> QED
        BY <1>0, <3>2, <3>3, <4>1 DEF Booked
    <3>5. \A q : (\E k \in DOMAIN line' : line'[k] = q)
                <=> q = r \/ \E k \in DOMAIN line : line[k] = q
      <4>1. \A m \in DOMAIN line' : m \in DOMAIN line \/ m = Len(line) + 1
        BY <3>2
      <4>2. DOMAIN line \subseteq DOMAIN line' /\ Len(line) + 1 \in DOMAIN line'
        BY <3>2
      <4> QED
        BY <3>2, <4>1, <4>2
    <3>6. \A q \in Api : pc'[q] \in {"line", "leaving"}
                         <=> \E k \in DOMAIN line' : line'[k] = q
      BY <1>0, <3>1, <3>5 DEF Booked
    <3>7. /\ holders' = {q \in Api : pc'[q] \notin Outside}
          /\ inside' = {q \in Api : pc'[q] \in Within}
          /\ leaving' = {q \in Api : pc'[q] = "leaving"}
      BY <1>0, <2>1, <3>1 DEF Booked
    <3> QED
      BY <3>4, <3>6, <3>7 DEF Booked
  <2> QED
    BY <1>2, <2>2, <2>3 DEF EnterGate
<1>3. ASSUME NEW r \in Api, CalledIn(r)
      PROVE  Booked'
  <2>1. /\ pc[r] = "line" /\ holders' = holders /\ Gate!Admit(r)
        /\ pc'[r] = "inside" /\ \A q \in Request \ {r} : pc'[q] = pc[q]
    BY <1>0, <1>3, GoesTo DEF CalledIn, Resumes
  <2>2. PICK i \in DOMAIN line : line[i] = r /\ line' = Gate!LineWithout(i)
    BY <2>1 DEF Gate!Admit
  <2>3. inside' = inside \cup {r} /\ leaving' = leaving
    BY <2>1 DEF Gate!Admit
  <2>4. /\ \A q \in Api : pc'[q] \in {"line", "leaving"}
                          <=> \E k \in DOMAIN line' : line'[k] = q
        /\ \A j, k \in DOMAIN line' : line'[j] = line'[k] => j = k
    BY <1>0, <2>1, <2>2, OutOfLine
  <2>5. /\ holders' = {q \in Api : pc'[q] \notin Outside}
        /\ inside' = {q \in Api : pc'[q] \in Within}
        /\ leaving' = {q \in Api : pc'[q] = "leaving"}
    BY <1>0, <2>1, <2>3 DEF Booked
  <2> QED
    BY <2>4, <2>5 DEF Booked
<1>4. ASSUME NEW r \in Api, CancelInLine(r)
      PROVE  Booked'
  <2>1. /\ pc[r] = "line" /\ holders' = holders /\ Gate!GiveUp(r)
        /\ pc'[r] = "leaving" /\ \A q \in Request \ {r} : pc'[q] = pc[q]
    BY <1>0, <1>4, GoesTo DEF CancelInLine, Resumes
  <2>2. leaving' = leaving \cup {r} /\ UNCHANGED <<inside, line>>
    BY <2>1 DEF Gate!GiveUp
  <2> QED
    BY <1>0, <2>1, <2>2 DEF Booked
<1>5. ASSUME NEW r \in Api, UnwindInLine(r)
      PROVE  Booked'
  <2>1. /\ pc[r] = "leaving" /\ holders' = holders \ {r} /\ Gate!LeaveLine(r)
        /\ pc'[r] = "over" /\ \A q \in Request \ {r} : pc'[q] = pc[q]
    BY <1>0, <1>5, GoesTo DEF UnwindInLine, Resumes
  <2>2. PICK i \in DOMAIN line : line[i] = r /\ line' = Gate!LineWithout(i)
    BY <2>1 DEF Gate!LeaveLine
  <2>3. inside' = inside /\ leaving' = leaving \ {r}
    BY <2>1 DEF Gate!LeaveLine
  <2>4. /\ \A q \in Api : pc'[q] \in {"line", "leaving"}
                          <=> \E k \in DOMAIN line' : line'[k] = q
        /\ \A j, k \in DOMAIN line' : line'[j] = line'[k] => j = k
    BY <1>0, <2>1, <2>2, OutOfLine
  <2>5. /\ holders' = {q \in Api : pc'[q] \notin Outside}
        /\ inside' = {q \in Api : pc'[q] \in Within}
        /\ leaving' = {q \in Api : pc'[q] = "leaving"}
    BY <1>0, <2>1, <2>3 DEF Booked
  <2> QED
    BY <2>4, <2>5 DEF Booked
<1>6. ASSUME NEW r \in Api, Begin(r)
      PROVE  Booked'
  <2>1. pc[r] = "inside" /\ r \in Request
    BY <1>0, <1>6 DEF Begin
  <2>2. CASE Exits(r, "failed")
    BY <2>1, <2>2, LeavesBooks
  <2>3. CASE UNCHANGED admission /\ (Goes(r, "copying") \/ Goes(r, "awaiting"))
    <3>1. pc'[r] \in Within /\ \A q \in Request \ {r} : pc'[q] = pc[q]
      BY <1>0, <2>1, <2>3, GoesTo
    <3> QED
      BY <1>0, <2>1, <2>3, <3>1, BooksStay
  <2> QED
    BY <1>6, <2>2, <2>3 DEF Begin, Submits
<1>7. ASSUME NEW r \in Ui, UiBegin(r)
      PROVE  Booked'
  <2>1. UNCHANGED admission /\ (Goes(r, "awaiting") \/ Goes(r, "removing"))
    BY <1>7 DEF UiBegin, Submits
  <2>2. \A q \in Request \ {r} : pc'[q] = pc[q]
    BY <1>0, <2>1, GoesTo
  <2> QED
    BY <1>0, <2>1, <2>2, BooksStay
<1>8. ASSUME NEW r \in Request, Copied(r)
      PROVE  Booked'
  <2>1. pc[r] = "copying"
    BY <1>8 DEF Copied, Resumes
  <2>2. CASE Goes(r, "awaiting") /\ UNCHANGED admission
    <3>1. pc'[r] = "awaiting" /\ \A q \in Request \ {r} : pc'[q] = pc[q]
      BY <1>0, <2>2, GoesTo
    <3> QED
      BY <1>0, <2>1, <2>2, <3>1, BooksStay
  <2>3. CASE Ends(r, "failed")
    BY <2>1, <2>3, EndsBooks
  <2> QED
    BY <1>8, <2>2, <2>3 DEF Copied, Submits
<1>9. ASSUME NEW r \in Request,
             CopyFailed(r) \/ CancelCopy(r) \/ Converted(r) \/ GiveUpWait(r)
      PROVE  Booked'
  <2>1. /\ pc[r] \in {"copying", "awaiting"}
        /\ Ends(r, "ok") \/ Ends(r, "failed") \/ Ends(r, "givenUp")
    BY <1>9, Zenon DEF CopyFailed, CancelCopy, Converted, GiveUpWait, Resumes
  <2> QED
    BY <2>1, EndsBooks
<1>10. ASSUME NEW r \in Request, RemoveDir(r)
       PROVE  Booked'
  <2>1. pc[r] = "rmdir" /\ Exits(r, outcome[r])
    BY <1>10 DEF RemoveDir
  <2> QED
    BY <2>1, LeavesBooks
<1>11. ASSUME NEW r \in Request, Unlink(r) \/ Record(r) \/ LoseAnswer(r)
       PROVE  Booked'
  <2>1. /\ UNCHANGED admission
        /\ \/ pc[r] = "removing" /\ Goes(r, "rmdir")
           \/ pc[r] = "answering" /\ Goes(r, "over")
    BY <1>11, Zenon DEF Unlink, Record, LoseAnswer, Resumes
  <2>2. /\ \/ pc[r] \in Within /\ pc'[r] \in Within
           \/ pc[r] \in Outside /\ pc'[r] \in Outside
        /\ \A q \in Request \ {r} : pc'[q] = pc[q]
    BY <1>0, <2>1, GoesTo
  <2> QED
    BY <1>0, <2>1, <2>2, BooksStay
<1>12. ASSUME UNCHANGED <<pc, admission>>
       PROVE  Booked'
  BY <1>12, BooksStay
<1>13. ASSUME NEW r \in Request,
              \/ CopyOpens(r) \/ CopyEnds(r)
              \/ WorkerTakes(r) \/ WorkerPrepares(r) \/ JobEnds(r)
       PROVE  UNCHANGED <<pc, admission>>
  BY <1>13 DEF CopyOpens, CopyEnds, WorkerTakes, WorkerPrepares, JobEnds
<1>14. Sweep => UNCHANGED <<pc, admission>>
  BY DEF Sweep
<1> QED
  BY <1>1, <1>2, <1>3, <1>4, <1>5, <1>6, <1>7, <1>8, <1>9, <1>10, <1>11,
     <1>12, <1>13, <1>14, <1>15 DEF Next

-----------------------------------------------------------------------------
(* The room at the gate and in the UI, and the shares.                     *)

LEMMA PartsAreFinite ==
  ASSUME ConvInv
  PROVE  /\ IsFiniteSet(inside) /\ IsFiniteSet(UiAwaiting)
         /\ \A ip : IsFiniteSet(Share(ip))
<1>1. IsFiniteSet(Request) /\ inside \subseteq Request /\ UiAwaiting \subseteq Request
      /\ \A ip : Share(ip) \subseteq Request
  BY ConversionsAssumption DEF ConvInv, TypeOK, Request, UiAwaiting, Share
<1> QED
  BY <1>1, FS_Subset, Zenon

LEMMA SameCardinality == \A S : Gate!Cardinality(S) = Cardinality(S)
BY DEF Gate!Cardinality, Cardinality

LEMMA NoMoreRoom ==
  ASSUME ConvInv, inside' \subseteq inside, holders' \subseteq holders,
         UiAwaiting' \subseteq UiAwaiting
  PROVE  Rooms'
<1>1. /\ IsFiniteSet(inside) /\ IsFiniteSet(UiAwaiting)
      /\ \A ip : IsFiniteSet(Share(ip))
  BY PartsAreFinite
<1>2. \A ip : Share(ip)' \subseteq Share(ip)
  BY DEF Share
<1>3. /\ Cardinality(inside') <= Cardinality(inside)
      /\ Cardinality(UiAwaiting') <= Cardinality(UiAwaiting)
      /\ \A ip : Cardinality(Share(ip)') <= Cardinality(Share(ip))
  BY <1>1, <1>2, FS_Subset
<1>4. /\ Cardinality(inside) \in Nat /\ Cardinality(inside') \in Nat
      /\ Cardinality(UiAwaiting) \in Nat /\ Cardinality(UiAwaiting') \in Nat
      /\ \A ip : Cardinality(Share(ip)) \in Nat /\ Cardinality(Share(ip)') \in Nat
  BY <1>1, <1>2, FS_Subset, FS_CardinalityType
<1>5. /\ MaxConcurrent \in Nat /\ MaxPerIp \in Nat
  BY ConversionsAssumption
<1>6. Rooms
  BY DEF ConvInv
<1> QED
  BY <1>3, <1>4, <1>5, <1>6 DEF Rooms

\* One more in a room that is not full.
LEMMA OneMore ==
  ASSUME NEW S, IsFiniteSet(S), NEW x, NEW n \in Nat, Cardinality(S) < n,
         NEW T, T \subseteq S \cup {x}
  PROVE  Cardinality(T) <= n
<1>1. /\ IsFiniteSet(S \cup {x}) /\ Cardinality(S \cup {x}) <= Cardinality(S) + 1
      /\ Cardinality(S) \in Nat /\ Cardinality(S \cup {x}) \in Nat
  BY FS_AddElement, FS_CardinalityType
<1>2. Cardinality(T) <= Cardinality(S \cup {x}) /\ Cardinality(T) \in Nat
  BY <1>1, FS_Subset, FS_CardinalityType
<1> QED
  BY <1>1, <1>2

LEMMA ExitsRoom ==
  ASSUME NEW r, NEW how, Exits(r, how)
  PROVE  inside' \subseteq inside /\ holders' \subseteq holders
  BY DEF Exits, Gate!Finish

LEMMA EndsRoom ==
  ASSUME ConvInv, NEW r \in Request,
         NEW how \in {"ok", "failed", "givenUp"}, Ends(r, how)
  PROVE  Rooms'
<1>1. /\ \A q \in Request \ {r} : pc'[q] = pc[q]
      /\ pc'[r] \in {"removing", "answering", "over"}
      /\ HasDir(r) => UNCHANGED admission
      /\ ~HasDir(r) => Exits(r, how)
  BY EndsShape DEF ConvInv
<1>2. inside' \subseteq inside /\ holders' \subseteq holders
  BY <1>1, ExitsRoom
<1>3. UiAwaiting' \subseteq UiAwaiting
  BY <1>1 DEF UiAwaiting, Request
<1> QED
  BY <1>2, <1>3, NoMoreRoom

LEMMA RoomSteps == ConvInv /\ Next => Rooms'
<1> SUFFICES ASSUME ConvInv, Next
             PROVE  Rooms'
  OBVIOUS
<1>0. /\ TypeOK /\ Booked /\ Rooms /\ Api \subseteq Request /\ Ui \subseteq Request
      /\ pc \in [Request -> Place]
      /\ \A r \in Ui : r \notin Api
      /\ \A r \in Request : Flow(r)
      /\ MaxConcurrent \in Nat /\ MaxPerIp \in Nat
  BY ConversionsAssumption DEF ConvInv, TypeOK, Request
\* A step of r that takes no place anywhere.
<1>1. ASSUME NEW r \in Request, pc'[r] # "awaiting" \/ r \notin Ui,
             \A q \in Request \ {r} : pc'[q] = pc[q],
             inside' \subseteq inside, holders' \subseteq holders
      PROVE  Rooms'
  <2>1. UiAwaiting' \subseteq UiAwaiting
    BY <1>0, <1>1 DEF UiAwaiting
  <2> QED
    BY <1>1, <2>1, NoMoreRoom
<1>2. ASSUME NEW r \in Request, NEW place \in Place, Goes(r, place),
             place # "awaiting" \/ r \notin Ui,
             inside' \subseteq inside, holders' \subseteq holders
      PROVE  Rooms'
  <2>1. pc'[r] = place /\ \A q \in Request \ {r} : pc'[q] = pc[q]
    BY <1>0, <1>2, GoesTo
  <2> QED
    BY <1>1, <1>2, <2>1
<1>3. ASSUME NEW r \in Api, TakeSlot(r)
      PROVE  Rooms'
  <2>1. /\ holders' = holders \cup {r} /\ inside' = inside /\ ~ShareTaken(r)
        /\ pc'[r] = "atGate" /\ \A q \in Request \ {r} : pc'[q] = pc[q]
    BY <1>0, <1>3, GoesTo DEF TakeSlot
  <2>2. Cardinality(Share(IpOf[r])) < MaxPerIp
    <3>1. ~(Cardinality(Share(IpOf[r])) >= MaxPerIp)
      BY <2>1 DEF ShareTaken, Share
    <3>2. Cardinality(Share(IpOf[r])) \in Nat
      BY PartsAreFinite, FS_CardinalityType
    <3> QED
      BY <1>0, <3>1, <3>2
  <2>3. UiAwaiting' = UiAwaiting
    BY <1>0, <2>1 DEF UiAwaiting
  <2>4. ASSUME NEW q \in Api
        PROVE  Cardinality(Share(IpOf[q])') <= MaxPerIp
    <3>1. CASE IpOf[q] = IpOf[r]
      <4>1. Share(IpOf[q])' \subseteq Share(IpOf[r]) \cup {r}
        BY <2>1, <3>1 DEF Share
      <4> QED
        BY <1>0, <2>2, <4>1, OneMore, PartsAreFinite
    <3>2. CASE IpOf[q] # IpOf[r]
      <4>1. Share(IpOf[q])' = Share(IpOf[q])
        BY <2>1, <3>2 DEF Share
      <4> QED
        BY <1>0, <4>1 DEF Rooms
    <3> QED
      BY <3>1, <3>2
  <2> QED
    BY <1>0, <2>1, <2>3, <2>4 DEF Rooms
\* A step of r through the gate.
<1>4. ASSUME NEW r \in Api, pc'[r] # "awaiting", holders' = holders,
             \A q \in Request \ {r} : pc'[q] = pc[q],
             inside' = inside \cup {r}, Cardinality(inside) < MaxConcurrent
      PROVE  Rooms'
  <2>1. UiAwaiting' = UiAwaiting
    BY <1>0, <1>4 DEF UiAwaiting
  <2>2. Cardinality(inside') <= MaxConcurrent
    BY <1>0, <1>4, OneMore, PartsAreFinite
  <2>3. \A q \in Api : Share(IpOf[q])' = Share(IpOf[q])
    BY <1>4 DEF Share
  <2> QED
    BY <1>0, <2>1, <2>2, <2>3 DEF Rooms
<1>5. ASSUME NEW r \in Api, EnterGate(r)
      PROVE  Rooms'
  <2>1. CASE Gate!WalkIn(r) /\ Goes(r, "inside")
    <3>1. /\ pc'[r] = "inside" /\ \A q \in Request \ {r} : pc'[q] = pc[q]
          /\ inside' = inside \cup {r} /\ Cardinality(inside) < MaxConcurrent
          /\ holders' = holders
      BY <1>0, <1>5, <2>1, GoesTo, SameCardinality DEF EnterGate, Gate!WalkIn
    <3> QED
      BY <1>4, <3>1
  <2>2. CASE Gate!Join(r) /\ Goes(r, "line")
    BY <1>0, <1>2, <1>5, <2>2 DEF EnterGate, Gate!Join
  <2> QED
    BY <1>5, <2>1, <2>2 DEF EnterGate
<1>6. ASSUME NEW r \in Api, CalledIn(r)
      PROVE  Rooms'
  <2>1. /\ pc'[r] = "inside" /\ \A q \in Request \ {r} : pc'[q] = pc[q]
        /\ inside' = inside \cup {r} /\ Cardinality(inside) < MaxConcurrent
        /\ holders' = holders
    BY <1>0, <1>6, GoesTo, SameCardinality DEF CalledIn, Gate!Admit
  <2> QED
    BY <1>4, <2>1
<1>7. ASSUME NEW r \in Api,
             \/ Refuse(r) \/ RefusedAtGate(r) \/ CancelInLine(r) \/ UnwindInLine(r)
      PROVE  Rooms'
  <2>1. /\ Goes(r, "over") \/ Goes(r, "leaving")
        /\ inside' = inside /\ holders' \subseteq holders
    BY <1>7 DEF Refuse, RefusedAtGate, CancelInLine, UnwindInLine,
       Gate!GiveUp, Gate!LeaveLine
  <2> QED
    BY <1>0, <1>2, <2>1
<1>8. ASSUME NEW r \in Api, Begin(r)
      PROVE  Rooms'
  <2>1. CASE Exits(r, "failed")
    BY <1>0, <1>1, <2>1, ExitsShape, ExitsRoom
  <2>2. CASE UNCHANGED admission /\ (Goes(r, "copying") \/ Goes(r, "awaiting"))
    BY <1>0, <1>2, <2>2
  <2> QED
    BY <1>8, <2>1, <2>2 DEF Begin, Submits
<1>9. ASSUME NEW r \in Ui, UiBegin(r)
      PROVE  Rooms'
  <2>1. /\ UNCHANGED admission /\ r \in Request
        /\ Cardinality(UiAwaiting) < MaxConcurrent
    BY <1>0, <1>9 DEF UiBegin, UiAwaiting
  <2>2. CASE Goes(r, "awaiting")
    <3>1. \A q \in Request \ {r} : pc'[q] = pc[q]
      BY <1>0, <2>1, <2>2, GoesTo
    <3>2. UiAwaiting' \subseteq UiAwaiting \cup {r}
      BY <1>0, <3>1 DEF UiAwaiting
    <3>3. Cardinality(UiAwaiting') <= MaxConcurrent
      BY <1>0, <2>1, <3>2, OneMore, PartsAreFinite
    <3>4. \A q \in Api : Share(IpOf[q])' = Share(IpOf[q])
      BY <2>1 DEF Share
    <3> QED
      BY <1>0, <2>1, <3>3, <3>4 DEF Rooms
  <2>3. CASE Goes(r, "removing")
    BY <1>2, <2>1, <2>3
  <2> QED
    BY <1>9, <2>2, <2>3 DEF UiBegin, Submits
<1>10. ASSUME NEW r \in Request, Copied(r)
       PROVE  Rooms'
  <2>1. r \in Api
    BY <1>0, <1>10 DEF Copied, Resumes, Flow
  <2>2. CASE Goes(r, "awaiting") /\ UNCHANGED admission
    BY <1>0, <1>2, <2>1, <2>2
  <2>3. CASE Ends(r, "failed")
    BY <2>3, EndsRoom
  <2> QED
    BY <1>10, <2>2, <2>3 DEF Copied, Submits
<1>11. ASSUME NEW r \in Request,
              CopyFailed(r) \/ CancelCopy(r) \/ Converted(r) \/ GiveUpWait(r)
       PROVE  Rooms'
  <2>1. \E how \in {"ok", "failed", "givenUp"} : Ends(r, how)
    BY <1>11, Zenon DEF CopyFailed, CancelCopy, Converted, GiveUpWait
  <2> QED
    BY <2>1, EndsRoom
<1>12. ASSUME NEW r \in Request, RemoveDir(r)
       PROVE  Rooms'
  <2>1. Exits(r, outcome[r])
    BY <1>12 DEF RemoveDir
  <2> QED
    BY <1>0, <1>1, <2>1, ExitsShape, ExitsRoom
<1>13. ASSUME NEW r \in Request, Unlink(r) \/ Record(r) \/ LoseAnswer(r)
       PROVE  Rooms'
  <2>1. UNCHANGED admission /\ (Goes(r, "rmdir") \/ Goes(r, "over"))
    BY <1>13 DEF Unlink, Record, LoseAnswer
  <2> QED
    BY <1>2, <2>1
<1>14. ASSUME UNCHANGED <<pc, admission>>
       PROVE  Rooms'
  <2>1. UiAwaiting' = UiAwaiting
    BY <1>14 DEF UiAwaiting
  <2> QED
    BY <1>14, <2>1, NoMoreRoom
<1>15. ASSUME NEW r \in Request,
              \/ CopyOpens(r) \/ CopyEnds(r)
              \/ WorkerTakes(r) \/ WorkerPrepares(r) \/ JobEnds(r)
       PROVE  UNCHANGED <<pc, admission>>
  BY <1>15 DEF CopyOpens, CopyEnds, WorkerTakes, WorkerPrepares, JobEnds
<1>16. Sweep => UNCHANGED <<pc, admission>>
  BY DEF Sweep
<1> QED
  BY <1>3, <1>5, <1>6, <1>7, <1>8, <1>9, <1>10, <1>11, <1>12, <1>13, <1>14,
     <1>15, <1>16 DEF Next

-----------------------------------------------------------------------------
(* The theorems.                                                           *)

LEMMA ConvInvariant == Spec => []ConvInv
<1>1. ConvInv /\ [Next]_vars => ConvInv'
  <2> SUFFICES ASSUME ConvInv, [Next]_vars
               PROVE  ConvInv'
    OBVIOUS
  <2>1. CASE Next
    BY <2>1, FlowSteps, BookSteps, RoomSteps DEF ConvInv
  <2>2. CASE UNCHANGED vars
    <3>1. UNCHANGED <<pc, turn, inside, line, leaving, holders, copy, job, pool,
                      dirs, file, listing, outputs, outcome, counted>>
      BY <2>2 DEF vars, work, disk
    <3>2. TypeOK' /\ \A r \in Request : Flow(r)'
      BY <3>1 DEF ConvInv, TypeOK, Flow, HasDir
    <3>3. Booked' /\ Rooms'
      BY <3>1 DEF ConvInv, Booked, Rooms, UiAwaiting, Share
    <3> QED
      BY <3>2, <3>3 DEF ConvInv
  <2> QED
    BY <2>1, <2>2
<1> QED
  BY <1>1, Starts, PTL DEF Spec

\* The types of the conversions.
THEOREM ConversionsTyping == Spec => []TypeOK
<1>1. ConvInv => TypeOK
  BY DEF ConvInv
<1> QED
  BY <1>1, ConvInvariant, PTL

\* Refused, cancelled, failed, timed out or answered: a request that is over
\* has given back its slot and its place at the gate, on every path of
\* convert_document().
THEOREM EverythingIsGivenBack == Spec => []NothingHeldAfterwards
<1>1. ConvInv => NothingHeldAfterwards
  BY DEF ConvInv, Booked, NothingHeldAfterwards, ToSet
<1> QED
  BY <1>1, ConvInvariant, PTL

\* The slots taken before the gate bound what an address has at the gate.
THEOREM SharesAreKept == Spec => []NoMonopoly
<1>1. ConvInv => NoMonopoly
  <2> SUFFICES ASSUME ConvInv, NEW r \in Api
               PROVE  Cardinality({q \in inside \cup ToSet(line) : IpOf[q] = IpOf[r]})
                      <= MaxPerIp
    BY DEF NoMonopoly
  <2> DEFINE there == {q \in inside \cup ToSet(line) : IpOf[q] = IpOf[r]}
  <2>1. there \subseteq Share(IpOf[r])
    <3>1. line \in Seq(Api) /\ Booked
      BY DEF ConvInv, TypeOK
    <3>2. ToSet(line) \subseteq holders
      BY <3>1 DEF Booked, ToSet
    <3>3. inside \subseteq holders
      BY <3>1 DEF Booked
    <3> QED
      BY <3>2, <3>3 DEF Share
  <2> HIDE DEF there
  <2>2. /\ Cardinality(there) <= Cardinality(Share(IpOf[r]))
        /\ Cardinality(there) \in Nat /\ Cardinality(Share(IpOf[r])) \in Nat
    BY <2>1, PartsAreFinite, FS_Subset, FS_CardinalityType
  <2>3. Cardinality(Share(IpOf[r])) <= MaxPerIp /\ MaxPerIp \in Nat
    BY ConversionsAssumption DEF ConvInv, Rooms
  <2>4. Cardinality(there) <= MaxPerIp
    BY <2>2, <2>3
  <2> QED
    BY <2>4 DEF there
<1> QED
  BY <1>1, ConvInvariant, PTL

\* A conversion the pool may still start belongs to a request that awaits it,
\* and there are no more of these than the gate of the route and the UI's own
\* limit let wait together.
THEOREM BacklogStaysAwaited == Spec => []BacklogIsAwaited
<1>1. ASSUME ConvInv
      PROVE  BacklogIsAwaited
  <2> DEFINE due == {r \in Request : job[r] = "queued"}
             who == inside \cup UiAwaiting
  <2>1. due \subseteq Awaiting
    BY <1>1 DEF ConvInv, Flow, Awaiting
  <2>2. Awaiting \subseteq who
    BY <1>1 DEF ConvInv, Booked, Awaiting, UiAwaiting, Request
  <2>3. /\ IsFiniteSet(who) /\ IsFiniteSet(inside \cap UiAwaiting)
        /\ Cardinality(who) = Cardinality(inside) + Cardinality(UiAwaiting)
                              - Cardinality(inside \cap UiAwaiting)
    BY <1>1, PartsAreFinite, FS_Union, FS_Intersection
  <2>4. Cardinality(due) <= Cardinality(who) /\ Cardinality(due) \in Nat
    BY <2>1, <2>2, <2>3, FS_Subset, FS_CardinalityType
  <2> HIDE DEF who, due
  <2>5. /\ Cardinality(who) \in Nat /\ Cardinality(inside) \in Nat
        /\ Cardinality(UiAwaiting) \in Nat
        /\ Cardinality(inside \cap UiAwaiting) \in Nat
    BY <1>1, <2>3, PartsAreFinite, FS_CardinalityType
  <2>6. /\ Cardinality(inside) <= MaxConcurrent /\ MaxConcurrent \in Nat
        /\ Cardinality(UiAwaiting) <= MaxConcurrent
    BY <1>1, ConversionsAssumption DEF ConvInv, Rooms
  <2>7. Cardinality(due) <= 2 * MaxConcurrent
    BY <2>3, <2>4, <2>5, <2>6
  <2> QED
    BY <2>1, <2>7 DEF BacklogIsAwaited, due
<1> QED
  BY <1>1, ConvInvariant, PTL

\* The file of an awaited conversion is complete and in its place, whatever
\* threads, sweeps and removals go on beside it.
THEOREM FilesAreThere == Spec => []FileThereWhileAwaited
<1>1. ConvInv => FileThereWhileAwaited
  BY DEF ConvInv, Flow, FileThereWhileAwaited, Awaiting, HasDir
<1> QED
  BY <1>1, ConvInvariant, PTL

\* rmtree() leaves a directory only to a thread its request gave up on.
THEOREM LeftoversWereGivenUp == Spec => []LeftoverOnlyIfGivenUp
<1>1. ConvInv => LeftoverOnlyIfGivenUp
  BY DEF ConvInv, TypeOK, Flow, LeftoverOnlyIfGivenUp
<1> QED
  BY <1>1, ConvInvariant, PTL

\* access() is called for results and for nothing else, late ones excluded.
THEOREM ResultsAreCounted == Spec => []CountsResults
<1>1. ConvInv => CountsResults
  BY DEF ConvInv, TypeOK, Flow, CountsResults, Request
<1> QED
  BY <1>1, ConvInvariant, PTL
=============================================================================
