------------------------ MODULE ConversionGateProofs ------------------------
(***************************************************************************)
(* Proofs about ConversionGate, for any number of requests, any capacity   *)
(* and any queue bound.  The units of the semaphore are conserved through  *)
(* grants, cancellations and releases, so the bounds hold; the gate serves *)
(* its line in order, so it implements Admission and loses no wakeup.      *)
(***************************************************************************)
EXTENDS ConversionGate, FiniteSetTheorems, SequenceTheorems, TLAPS

-----------------------------------------------------------------------------
(* Counting requests by their place.                                       *)

Count(p, P) == Cardinality({r \in Request : p[r] \in P})

\* Every count is a natural number.
LEMMA CountType ==
  ASSUME NEW p, NEW P
  PROVE  Count(p, P) \in Nat
<1>1. IsFiniteSet({r \in Request : p[r] \in P})
  BY GateAssumption, FS_Subset
<1> QED
  BY <1>1, FS_CardinalityType DEF Count

\* Moving one request changes the count of a set of places by at most one.
LEMMA Move ==
  ASSUME NEW p, NEW q, NEW r \in Request, NEW P,
         \A s \in Request \ {r} : q[s] = p[s]
  PROVE  /\ (p[r] \in P <=> q[r] \in P) => Count(q, P) = Count(p, P)
         /\ p[r] \in P /\ q[r] \notin P => Count(q, P) = Count(p, P) - 1
         /\ p[r] \notin P /\ q[r] \in P => Count(q, P) = Count(p, P) + 1
<1> DEFINE S == {s \in Request : p[s] \in P}
           T == {s \in Request : q[s] \in P}
<1>1. IsFiniteSet(S) /\ IsFiniteSet(T)
  BY GateAssumption, FS_Subset
<1>2. Cardinality(S) \in Nat /\ Cardinality(T) \in Nat
  BY <1>1, FS_CardinalityType
<1>3. CASE p[r] \in P /\ q[r] \in P
  <2>1. S = T
    BY <1>3
  <2> QED
    BY <1>2, <1>3, <2>1 DEF Count
<1>4. CASE p[r] \in P /\ q[r] \notin P
  <2>1. T = S \ {r} /\ r \in S
    BY <1>4
  <2>2. Cardinality(T) = Cardinality(S) - 1
    BY <1>1, <2>1, FS_RemoveElement
  <2> QED
    BY <1>2, <1>4, <2>2 DEF Count
<1>5. CASE p[r] \notin P /\ q[r] \in P
  <2>1. T = S \cup {r} /\ r \notin S
    BY <1>5
  <2>2. Cardinality(T) = Cardinality(S) + 1
    BY <1>1, <2>1, FS_AddElement
  <2> QED
    BY <1>2, <1>5, <2>2 DEF Count
<1>6. CASE p[r] \notin P /\ q[r] \notin P
  <2>1. S = T
    BY <1>6
  <2> QED
    BY <1>2, <1>6, <2>1 DEF Count
<1> QED
  BY <1>3, <1>4, <1>5, <1>6

-----------------------------------------------------------------------------
(* The books of the gate, for tasks at p, v free units, w counted as       *)
(* waiting and n as in flight.                                             *)

Busy == {"running"}
Held == {"granted", "doomed"}
Lined == {"queued", "granted", "doomed", "cancelled"}

Books(p, v, w, n) ==
  /\ v + Count(p, Busy) + Count(p, Held) = MaxConcurrent
  /\ n = Count(p, Busy)
  /\ w = Count(p, Lined)

\* The books are what UnitsConserved says.
LEMMA BooksAreUnits == UnitsConserved <=> Books(pc, value, waiting, inflight)
BY DEF UnitsConserved, Books, Count, Running, Promised, InLine, At, Busy, Held,
       Lined

\* Taking a future out of the deque leaves a deque.
LEMMA WithoutType ==
  ASSUME waiters \in Seq(Request), NEW i \in DOMAIN waiters
  PROVE  Without(i) \in Seq(Request)
BY DEF Without

\* Waking the next waiter moves one unit from the free ones to a promise, or
\* changes nothing.
LEMMA WakeKeepsBooks ==
  ASSUME NEW p \in [Request -> Place], NEW ws \in Seq(Request),
         NEW v \in Nat \ {0}, NEW w \in Nat, NEW n \in Nat,
         Books(p, v, w, n), WakeNext(ws, v, p)
  PROVE  /\ Books(pc', value', w, n)
         /\ pc' \in [Request -> Place] /\ value' \in Nat
         /\ waiters' = ws
<1>0. waiters' = ws
  BY DEF WakeNext
<1>1. CASE value' = v /\ pc' = p
  BY <1>0, <1>1
<1>2. CASE \E i \in DOMAIN ws : /\ p[ws[i]] = "queued"
                               /\ value' = v - 1
                               /\ pc' = [p EXCEPT ![ws[i]] = "granted"]
  <2>1. PICK i \in DOMAIN ws : /\ p[ws[i]] = "queued"
                               /\ value' = v - 1
                               /\ pc' = [p EXCEPT ![ws[i]] = "granted"]
    BY <1>2
  <2>2. ws[i] \in Request /\ "granted" \in Place
    BY DEF Place
  <2>3. /\ pc' \in [Request -> Place] /\ value' = v - 1
        /\ p[ws[i]] = "queued" /\ pc'[ws[i]] = "granted"
        /\ \A r \in Request \ {ws[i]} : pc'[r] = p[r]
    BY <2>1, <2>2
  <2>4. /\ p[ws[i]] \notin Busy /\ pc'[ws[i]] \notin Busy
        /\ p[ws[i]] \notin Held /\ pc'[ws[i]] \in Held
        /\ p[ws[i]] \in Lined /\ pc'[ws[i]] \in Lined
    BY <2>3 DEF Busy, Held, Lined
  <2>5. /\ Count(pc', Busy) = Count(p, Busy)
        /\ Count(pc', Held) = Count(p, Held) + 1
        /\ Count(pc', Lined) = Count(p, Lined)
    BY <2>2, <2>3, <2>4, Move
  <2>6. Count(p, Busy) \in Nat /\ Count(p, Held) \in Nat
        /\ v - 1 \in Nat /\ MaxConcurrent \in Nat
    BY CountType, GateAssumption
  <2>7. Books(pc', value', w, n)
    BY <2>3, <2>5, <2>6 DEF Books
  <2> QED
    BY <1>0, <2>3, <2>6, <2>7
<1> QED
  BY <1>1, <1>2 DEF WakeNext

-----------------------------------------------------------------------------
(* The inductive invariant: the types, the books and the bound on InUse.   *)
(* The types need the books, since a counter stays natural only because    *)
(* somebody is counted in it when it is decremented.                       *)

UnitsInv ==
  /\ TypeOK
  /\ Books(pc, value, waiting, inflight)
  /\ InUse <= MaxConcurrent + MaxQueue

\* A task that changes place from a to b, the others staying, changes the
\* counts by what a and b contribute.
LEMMA MoveAll ==
  ASSUME NEW p, NEW q, NEW r \in Request,
         \A s \in Request \ {r} : q[s] = p[s]
  PROVE  \A P \in {Busy, Held, Lined} :
           /\ Count(p, P) \in Nat /\ Count(q, P) \in Nat
           /\ (p[r] \in P <=> q[r] \in P) => Count(q, P) = Count(p, P)
           /\ p[r] \in P /\ q[r] \notin P => Count(q, P) = Count(p, P) - 1
           /\ p[r] \notin P /\ q[r] \in P => Count(q, P) = Count(p, P) + 1
BY Move, CountType

LEMMA UnitsInvariant == Spec => []UnitsInv
<1>1. Init => UnitsInv
  <2> SUFFICES ASSUME Init
               PROVE  UnitsInv
    OBVIOUS
  <2>1. \A P \in {Busy, Held, Lined} : {r \in Request : pc[r] \in P} = {}
    BY DEF Init, Busy, Held, Lined
  <2>2. Count(pc, Busy) = 0 /\ Count(pc, Held) = 0 /\ Count(pc, Lined) = 0
    BY <2>1, FS_EmptySet DEF Count
  <2> QED
    BY <2>2, GateAssumption DEF Init, UnitsInv, TypeOK, Place, Books, InUse
<1>2. UnitsInv /\ [Next]_vars => UnitsInv'
  <2> SUFFICES ASSUME UnitsInv, [Next]_vars
               PROVE  UnitsInv'
    OBVIOUS
  <2>0. /\ pc \in [Request -> Place] /\ waiters \in Seq(Request)
        /\ value \in Nat /\ waiting \in Nat /\ inflight \in Nat
        /\ Books(pc, value, waiting, inflight)
        /\ InUse <= MaxConcurrent + MaxQueue
        /\ MaxConcurrent \in Nat /\ MaxQueue \in Nat
    BY GateAssumption DEF UnitsInv, TypeOK
  <2>9. /\ value \in Nat /\ waiting \in Nat /\ inflight \in Nat
        /\ value + Count(pc, Busy) + Count(pc, Held) = MaxConcurrent
        /\ inflight = Count(pc, Busy)
        /\ waiting = Count(pc, Lined)
    BY <2>0 DEF Books
  <2>1. ASSUME NEW r \in Request, Refuse(r) \/ Answer(r)
        PROVE  UnitsInv'
    <3>1. /\ pc[r] \in {"out", "refused"} /\ pc'[r] \in {"out", "refused"}
          /\ pc' \in [Request -> Place]
          /\ \A s \in Request \ {r} : pc'[s] = pc[s]
          /\ UNCHANGED <<waiters, value, waiting, inflight>>
      BY <2>0, <2>1 DEF Refuse, Answer, Place
    <3>2. /\ Count(pc', Busy) = Count(pc, Busy)
          /\ Count(pc', Held) = Count(pc, Held)
          /\ Count(pc', Lined) = Count(pc, Lined)
      BY <3>1, MoveAll DEF Busy, Held, Lined
    <3> QED
      BY <2>0, <3>1, <3>2 DEF UnitsInv, TypeOK, Books, InUse
  <2>2. ASSUME NEW r \in Request, EnterAtOnce(r)
        PROVE  UnitsInv'
    <3>1. /\ pc[r] = "out" /\ pc'[r] = "running"
          /\ pc' \in [Request -> Place]
          /\ \A s \in Request \ {r} : pc'[s] = pc[s]
          /\ value # 0 /\ value' = value - 1 /\ inflight' = inflight + 1
          /\ UNCHANGED <<waiters, waiting>>
          /\ ~Full
      BY <2>0, <2>2 DEF EnterAtOnce, Place, Locked
    <3>2. /\ Count(pc', Busy) = Count(pc, Busy) + 1
          /\ Count(pc', Held) = Count(pc, Held)
          /\ Count(pc', Lined) = Count(pc, Lined)
          /\ Count(pc, Busy) \in Nat /\ Count(pc, Held) \in Nat
      BY <3>1, MoveAll DEF Busy, Held, Lined
    <3>3. Books(pc', value', waiting', inflight') /\ value' \in Nat
      BY <2>9, <3>1, <3>2 DEF Books
    <3>4. InUse' <= MaxConcurrent + MaxQueue
      BY <2>0, <3>1 DEF InUse, Full
    <3> QED
      BY <2>0, <3>1, <3>3, <3>4 DEF UnitsInv, TypeOK
  <2>3. ASSUME NEW r \in Request, Queue(r)
        PROVE  UnitsInv'
    <3>1. /\ pc[r] = "out" /\ pc'[r] = "queued"
          /\ pc' \in [Request -> Place]
          /\ \A s \in Request \ {r} : pc'[s] = pc[s]
          /\ waiters' \in Seq(Request) /\ waiting' = waiting + 1
          /\ UNCHANGED <<value, inflight>>
          /\ ~Full
      BY <2>0, <2>3 DEF Queue, Place
    <3>2. /\ Count(pc', Busy) = Count(pc, Busy)
          /\ Count(pc', Held) = Count(pc, Held)
          /\ Count(pc', Lined) = Count(pc, Lined) + 1
      BY <3>1, MoveAll DEF Busy, Held, Lined
    <3>3. Books(pc', value', waiting', inflight')
      BY <2>9, <3>1, <3>2 DEF Books
    <3>4. InUse' <= MaxConcurrent + MaxQueue
      BY <2>0, <3>1 DEF InUse, Full
    <3> QED
      BY <2>0, <3>1, <3>3, <3>4 DEF UnitsInv, TypeOK
  <2>4. ASSUME NEW r \in Request, Resume(r)
        PROVE  UnitsInv'
    <3> DEFINE started == [pc EXCEPT ![r] = "running"]
    <3>1. /\ pc[r] = "granted" /\ started[r] = "running"
          /\ started \in [Request -> Place]
          /\ \A s \in Request \ {r} : started[s] = pc[s]
          /\ waiting' = waiting - 1 /\ inflight' = inflight + 1
      BY <2>0, <2>4 DEF Resume, Place
    <3>2. PICK i \in DOMAIN waiters :
            IF value > 0 THEN WakeNext(Without(i), value, started)
            ELSE waiters' = Without(i) /\ pc' = started /\ value' = value
      BY <2>4 DEF Resume
    <3> HIDE DEF started
    <3>3. /\ Count(started, Busy) = Count(pc, Busy) + 1
          /\ Count(started, Held) = Count(pc, Held) - 1
          /\ Count(started, Lined) = Count(pc, Lined) - 1
          /\ Count(pc, Busy) \in Nat /\ Count(started, Lined) \in Nat
          /\ Count(pc, Held) \in Nat /\ Count(pc, Lined) \in Nat
      BY <3>1, MoveAll DEF Busy, Held, Lined
    <3>4. Books(started, value, waiting - 1, inflight + 1)
          /\ waiting - 1 \in Nat /\ inflight + 1 \in Nat
      BY <2>9, <3>3 DEF Books
    <3>5. Without(i) \in Seq(Request)
      BY <2>0, WithoutType
    <3>6. /\ Books(pc', value', waiting - 1, inflight + 1)
          /\ pc' \in [Request -> Place] /\ value' \in Nat
          /\ waiters' = Without(i)
      <4>1. CASE value > 0
        <5>1. WakeNext(Without(i), value, started) /\ value \in Nat \ {0}
          BY <2>0, <3>2, <4>1
        <5> QED
          BY <3>1, <3>4, <3>5, <5>1, WakeKeepsBooks
      <4>2. CASE ~(value > 0)
        BY <2>0, <3>1, <3>2, <3>4, <4>2
      <4> QED
        BY <4>1, <4>2
    <3> QED
      BY <2>0, <3>1, <3>4, <3>5, <3>6 DEF UnitsInv, TypeOK, InUse
  <2>5. ASSUME NEW r \in Request, Cancel(r)
        PROVE  UnitsInv'
    <3>1. /\ \/ pc[r] = "queued" /\ pc'[r] = "cancelled"
             \/ pc[r] = "granted" /\ pc'[r] = "doomed"
          /\ pc' \in [Request -> Place]
          /\ \A s \in Request \ {r} : pc'[s] = pc[s]
          /\ UNCHANGED <<waiters, value, waiting, inflight>>
      BY <2>0, <2>5 DEF Cancel, Place
    <3>2. /\ Count(pc', Busy) = Count(pc, Busy)
          /\ Count(pc', Held) = Count(pc, Held)
          /\ Count(pc', Lined) = Count(pc, Lined)
      BY <3>1, MoveAll DEF Busy, Held, Lined
    <3> QED
      BY <2>0, <3>1, <3>2 DEF UnitsInv, TypeOK, Books, InUse
  <2>6. ASSUME NEW r \in Request, Unwind(r)
        PROVE  UnitsInv'
    <3> DEFINE gone == [pc EXCEPT ![r] = "out"]
    <3>1. /\ gone[r] = "out" /\ gone \in [Request -> Place]
          /\ \A s \in Request \ {r} : gone[s] = pc[s]
          /\ waiting' = waiting - 1 /\ inflight' = inflight
      BY <2>0, <2>6 DEF Unwind, Place
    <3>2. PICK i \in DOMAIN waiters :
            \/ /\ pc[r] = "cancelled"
               /\ waiters' = Without(i) /\ pc' = gone /\ value' = value
            \/ /\ pc[r] = "doomed"
               /\ WakeNext(Without(i), value + 1, gone)
      BY <2>6 DEF Unwind
    <3> HIDE DEF gone
    <3>3. /\ Count(pc, Busy) \in Nat /\ Count(gone, Lined) \in Nat
          /\ Count(pc, Held) \in Nat /\ Count(pc, Lined) \in Nat
          /\ Count(gone, Busy) = Count(pc, Busy)
          /\ Count(gone, Lined) = Count(pc, Lined) - 1
          /\ pc[r] = "cancelled" => Count(gone, Held) = Count(pc, Held)
          /\ pc[r] = "doomed" => Count(gone, Held) = Count(pc, Held) - 1
      BY <3>1, <3>2, MoveAll DEF Busy, Held, Lined
    <3>4. Without(i) \in Seq(Request) /\ waiting - 1 \in Nat
      BY <2>0, <3>3, WithoutType DEF Books
    <3>5. /\ Books(pc', value', waiting - 1, inflight)
          /\ pc' \in [Request -> Place] /\ value' \in Nat
          /\ waiters' = Without(i)
      <4>1. CASE pc[r] = "cancelled" /\ waiters' = Without(i) /\ pc' = gone
                                     /\ value' = value
        BY <2>0, <3>1, <3>3, <4>1 DEF Books
      <4>2. CASE pc[r] = "doomed" /\ WakeNext(Without(i), value + 1, gone)
        <5>1. Books(gone, value + 1, waiting - 1, inflight)
              /\ value + 1 \in Nat \ {0}
          BY <2>9, <3>3, <4>2 DEF Books
        <5> QED
          BY <2>0, <3>1, <3>4, <4>2, <5>1, WakeKeepsBooks
      <4> QED
        BY <3>2, <4>1, <4>2
    <3> QED
      BY <2>0, <3>1, <3>4, <3>5 DEF UnitsInv, TypeOK, InUse
  <2>7. ASSUME NEW r \in Request, Leave(r)
        PROVE  UnitsInv'
    <3> DEFINE gone == [pc EXCEPT ![r] = "out"]
    <3>1. /\ pc[r] = "running" /\ gone[r] = "out"
          /\ gone \in [Request -> Place]
          /\ \A s \in Request \ {r} : gone[s] = pc[s]
          /\ inflight' = inflight - 1 /\ waiting' = waiting
          /\ WakeNext(waiters, value + 1, gone)
      BY <2>0, <2>7 DEF Leave, Place
    <3> HIDE DEF gone
    <3>2. /\ Count(gone, Busy) = Count(pc, Busy) - 1
          /\ Count(gone, Busy) \in Nat /\ Count(pc, Busy) \in Nat
          /\ Count(gone, Held) = Count(pc, Held) /\ Count(pc, Held) \in Nat
          /\ Count(gone, Lined) = Count(pc, Lined)
      BY <3>1, MoveAll DEF Busy, Held, Lined
    <3>3. Books(gone, value + 1, waiting, inflight - 1)
          /\ value + 1 \in Nat \ {0} /\ inflight - 1 \in Nat
      BY <2>0, <3>2 DEF Books
    <3>4. /\ Books(pc', value', waiting, inflight - 1)
          /\ pc' \in [Request -> Place] /\ value' \in Nat
          /\ waiters' = waiters
      BY <2>0, <3>1, <3>3, WakeKeepsBooks
    <3> QED
      BY <2>0, <3>1, <3>3, <3>4 DEF UnitsInv, TypeOK, InUse
  <2>8. CASE UNCHANGED vars
    BY <2>0, <2>8 DEF vars, UnitsInv, TypeOK, InUse
  <2> QED
    BY <2>1, <2>2, <2>3, <2>4, <2>5, <2>6, <2>7, <2>8 DEF Next
<1> QED
  BY <1>1, <1>2, PTL DEF Spec

\* Types, as part of the invariant.
THEOREM GateTyping == Spec => []TypeOK
<1>1. UnitsInv => TypeOK
  BY DEF UnitsInv
<1> QED
  BY <1>1, UnitsInvariant, PTL

\* No interleaving of grants, cancellations and releases leaks or duplicates a
\* unit of the semaphore, and the gate's two counters are exact.
THEOREM GateConservesUnits == Spec => []UnitsConserved
<1>1. UnitsInv => UnitsConserved
  BY BooksAreUnits DEF UnitsInv
<1> QED
  BY <1>1, UnitsInvariant, PTL

\* The documented bounds hold for every capacity and every number of clients.
THEOREM GateIsBounded == Spec => []Bounded
<1>1. UnitsInv => Bounded
  <2> SUFFICES ASSUME UnitsInv
               PROVE  Bounded
    OBVIOUS
  <2>1. UnitsConserved /\ value \in Nat /\ InUse <= MaxConcurrent + MaxQueue
    BY BooksAreUnits DEF UnitsInv, TypeOK
  <2>2. Cardinality(Running) \in Nat /\ Cardinality(Promised) \in Nat
    BY CountType DEF Count, Running, Promised, At
  <2> QED
    BY <2>1, <2>2, GateAssumption DEF UnitsConserved, Bounded, InUse
<1> QED
  BY <1>1, UnitsInvariant, PTL

\* A wakeup refuses nobody.
LEMMA WakeRefusesNobody ==
  ASSUME NEW p \in [Request -> Place], NEW ws \in Seq(Request), NEW v,
         WakeNext(ws, v, p), NEW r \in Request, pc'[r] = "refused"
  PROVE  p[r] = "refused"
BY DEF WakeNext

\* Whoever is refused meets a gate with no place left.
THEOREM RefusalsAreDue == Spec => RefusedOnlyWhenFull
<1> DEFINE Due ==
      \A r \in Request : pc[r] # "refused" /\ pc'[r] = "refused" =>
        Cardinality(Running) + Cardinality(InLine) >= MaxConcurrent + MaxQueue
<1>1. UnitsInv /\ [Next]_vars => [Due]_vars
  <2> SUFFICES ASSUME UnitsInv, Next,
                      NEW r \in Request, pc[r] # "refused", pc'[r] = "refused"
               PROVE  Cardinality(Running) + Cardinality(InLine)
                        >= MaxConcurrent + MaxQueue
    OBVIOUS
  <2>0. /\ TypeOK
        /\ inflight = Cardinality(Running) /\ waiting = Cardinality(InLine)
    BY BooksAreUnits DEF UnitsInv, UnitsConserved
  <2>1. PICK q \in Request :
          \/ Refuse(q) \/ EnterAtOnce(q) \/ Queue(q) \/ Resume(q)
          \/ Cancel(q) \/ Unwind(q) \/ Leave(q) \/ Answer(q)
    BY DEF Next
  <2>2. CASE Refuse(q)
    BY <2>0, <2>2, GateAssumption DEF Refuse, Full, InUse, TypeOK
  <2>3. CASE EnterAtOnce(q) \/ Queue(q) \/ Cancel(q) \/ Answer(q)
    BY <2>0, <2>3 DEF EnterAtOnce, Queue, Cancel, Answer, TypeOK
  <2>4. CASE Resume(q)
    <3> DEFINE started == [pc EXCEPT ![q] = "running"]
    <3>1. /\ started \in [Request -> Place] /\ started[r] # "refused"
      BY <2>0 DEF TypeOK, Place
    <3>2. \E i \in DOMAIN waiters :
            WakeNext(Without(i), value, started) \/ pc' = started
      BY <2>4 DEF Resume
    <3> HIDE DEF started
    <3> QED
      BY <2>0, <3>1, <3>2, WithoutType, WakeRefusesNobody DEF TypeOK
  <2>5. CASE Unwind(q)
    <3> DEFINE gone == [pc EXCEPT ![q] = "out"]
    <3>1. /\ gone \in [Request -> Place] /\ gone[r] # "refused"
      BY <2>0 DEF TypeOK, Place
    <3>2. \E i \in DOMAIN waiters :
            WakeNext(Without(i), value + 1, gone) \/ pc' = gone
      BY <2>5 DEF Unwind
    <3> HIDE DEF gone
    <3> QED
      BY <2>0, <3>1, <3>2, WithoutType, WakeRefusesNobody DEF TypeOK
  <2>6. CASE Leave(q)
    <3> DEFINE gone == [pc EXCEPT ![q] = "out"]
    <3>1. /\ gone \in [Request -> Place] /\ gone[r] # "refused"
      BY <2>0 DEF TypeOK, Place
    <3>2. WakeNext(waiters, value + 1, gone)
      BY <2>6 DEF Leave
    <3> HIDE DEF gone
    <3> QED
      BY <2>0, <3>1, <3>2, WakeRefusesNobody DEF TypeOK
  <2> QED
    BY <2>1, <2>2, <2>3, <2>4, <2>5, <2>6
<1> QED
  BY <1>1, UnitsInvariant, PTL DEF Spec, RefusedOnlyWhenFull
-----------------------------------------------------------------------------
(* The deque holds each request in line exactly once, the counter waiting  *)
(* is its length, and no pending future stands before a granted one.       *)

LineOf(ws, p, n) ==
  /\ n = Len(ws)
  /\ \A i, j \in DOMAIN ws : ws[i] = ws[j] => i = j
  /\ \A i \in DOMAIN ws : p[ws[i]] \in Lined
  /\ \A r \in Request : p[r] \in Lined => \E i \in DOMAIN ws : ws[i] = r
  /\ \A i, j \in DOMAIN ws :
       i < j /\ p[ws[i]] = "queued" => p[ws[j]] \notin Held

LineInv == LineOf(waiters, pc, waiting)

\* The deque without its i-th future: the others keep their order.
LEMMA WithoutShape ==
  ASSUME waiters \in Seq(Request), NEW i \in DOMAIN waiters
  PROVE  /\ Without(i) \in Seq(Request)
         /\ Len(Without(i)) = Len(waiters) - 1
         /\ \A j \in 1..(Len(waiters) - 1) :
              Without(i)[j] = IF j < i THEN waiters[j] ELSE waiters[j + 1]
<1> DEFINE front == SubSeq(waiters, 1, i - 1)
           back == SubSeq(waiters, i + 1, Len(waiters))
<1>1. i \in 1..Len(waiters) /\ Len(waiters) \in Nat
  OBVIOUS
<1>2. /\ front \in Seq(Request) /\ Len(front) = i - 1
      /\ \A j \in 1..(i - 1) : front[j] = waiters[j]
  BY <1>1
<1>3. /\ back \in Seq(Request) /\ Len(back) = Len(waiters) - i
      /\ \A j \in 1..(Len(waiters) - i) : back[j] = waiters[i + j]
  BY <1>1
<1>4. Without(i) = front \o back
  BY DEF Without
<1> HIDE DEF front, back
<1>5. Without(i) \in Seq(Request) /\ Len(Without(i)) = Len(waiters) - 1
  BY <1>1, <1>2, <1>3, <1>4
<1>6. \A k \in 1..(Len(front) + Len(back)) :
        (front \o back)[k] = IF k <= Len(front) THEN front[k]
                             ELSE back[k - Len(front)]
  BY <1>2, <1>3, ConcatProperties, Zenon
<1>7. ASSUME NEW j \in 1..(Len(waiters) - 1)
      PROVE  Without(i)[j] = IF j < i THEN waiters[j] ELSE waiters[j + 1]
  <2>1. CASE j < i
    <3>1. j \in 1..Len(front)
      BY <1>1, <1>2, <2>1
    <3> QED
      BY <1>2, <1>3, <1>4, <2>1, <3>1
  <2>2. CASE ~(j < i)
    <3>1. j \in (Len(front) + 1)..(Len(front) + Len(back))
          /\ j - Len(front) \in 1..(Len(waiters) - i)
      BY <1>1, <1>2, <1>3, <2>2
    <3>2. /\ j \in 1..(Len(front) + Len(back)) /\ ~(j <= Len(front))
          /\ (front \o back)[j] = back[j - Len(front)]
      BY <1>1, <1>2, <1>3, <1>6, <2>2
    <3>3. i + (j - Len(front)) = j + 1
      BY <1>1, <1>2
    <3> QED
      BY <1>3, <1>4, <2>2, <3>1, <3>2, <3>3
  <2> QED
    BY <2>1, <2>2
<1> QED
  BY <1>5, <1>7

\* What waking the next waiter does to the tasks: at most one changes place,
\* from the queue to a grant, the first that can; and if nobody is granted,
\* then nobody was pending.
LEMMA WakeShape ==
  ASSUME NEW p \in [Request -> Place], NEW ws \in Seq(Request), NEW v \in Nat,
         WakeNext(ws, v, p)
  PROVE  /\ waiters' = ws
         /\ pc' \in [Request -> Place]
         /\ \/ /\ pc' = p
               /\ \A i \in DOMAIN ws : p[ws[i]] # "queued"
            \/ \E k \in DOMAIN ws :
                 /\ p[ws[k]] = "queued" /\ pc'[ws[k]] = "granted"
                 /\ \A s \in Request \ {ws[k]} : pc'[s] = p[s]
                 /\ \A j \in DOMAIN ws : p[ws[j]] = "queued" => k <= j
<1>1. waiters' = ws
  BY DEF WakeNext
<1>2. CASE pc' = p /\ \A i \in DOMAIN ws : p[ws[i]] # "queued"
  BY <1>1, <1>2
<1>3. CASE \E k \in DOMAIN ws :
             /\ p[ws[k]] = "queued" /\ pc' = [p EXCEPT ![ws[k]] = "granted"]
             /\ \A j \in DOMAIN ws : p[ws[j]] = "queued" => k <= j
  <2>1. PICK k \in DOMAIN ws :
             /\ p[ws[k]] = "queued" /\ pc' = [p EXCEPT ![ws[k]] = "granted"]
             /\ \A j \in DOMAIN ws : p[ws[j]] = "queued" => k <= j
    BY <1>3
  <2>2. ws[k] \in Request /\ "granted" \in Place
    BY DEF Place
  <2>3. /\ pc' \in [Request -> Place]
        /\ pc'[ws[k]] = "granted"
        /\ \A s \in Request \ {ws[k]} : pc'[s] = p[s]
    BY <2>1, <2>2
  <2> QED
    BY <1>1, <2>1, <2>3
<1> QED
  BY <1>2, <1>3 DEF WakeNext

\* Taking the future of a request that leaves the line keeps the others in
\* order.
LEMMA RemovalKeepsLine ==
  ASSUME waiters \in Seq(Request), NEW i \in DOMAIN waiters, NEW n,
         LineOf(waiters, pc, n),
         NEW q, q[waiters[i]] \notin Lined,
         \A s \in Request \ {waiters[i]} : q[s] = pc[s]
  PROVE  LineOf(Without(i), q, n - 1)
<1> DEFINE ws == Without(i)
           At0(j) == IF j < i THEN j ELSE j + 1
<1>1. /\ ws \in Seq(Request) /\ Len(ws) = Len(waiters) - 1
      /\ \A j \in 1..(Len(waiters) - 1) : ws[j] = waiters[At0(j)]
  BY WithoutShape
<1>2. /\ DOMAIN ws = 1..(Len(waiters) - 1) /\ DOMAIN waiters = 1..Len(waiters)
      /\ Len(waiters) \in Nat /\ i \in 1..Len(waiters)
  BY <1>1
<1>3. \A j \in DOMAIN ws : At0(j) \in DOMAIN waiters /\ At0(j) # i
  BY <1>2
<1>4. \A j, k \in DOMAIN ws : (j < k <=> At0(j) < At0(k))
                              /\ (At0(j) = At0(k) => j = k)
  BY <1>2
<1>5. \A k \in DOMAIN waiters : k # i => \E j \in DOMAIN ws : At0(j) = k
  <2> SUFFICES ASSUME NEW k \in DOMAIN waiters, k # i
               PROVE  \E j \in DOMAIN ws : At0(j) = k
    OBVIOUS
  <2>1. CASE k < i
    BY <1>2, <2>1
  <2>2. CASE k > i
    <3>1. k - 1 \in DOMAIN ws /\ At0(k - 1) = k
      BY <1>2, <2>2
    <3> QED
      BY <3>1
  <2> QED
    BY <1>2, <2>1, <2>2
<1>6. \A j \in DOMAIN ws : ws[j] = waiters[At0(j)]
  BY <1>1, <1>2
<1> HIDE DEF At0, ws
<1>7. \A k \in DOMAIN waiters : waiters[k] \in Request
  OBVIOUS
<1>8. \A j \in DOMAIN ws : ws[j] \in Request /\ ws[j] # waiters[i]
                           /\ q[ws[j]] = pc[ws[j]]
  BY <1>3, <1>6, <1>7 DEF LineOf
<1>9. n - 1 = Len(ws)
  BY <1>1 DEF LineOf
<1>10. \A j, k \in DOMAIN ws : ws[j] = ws[k] => j = k
  BY <1>3, <1>4, <1>6 DEF LineOf
<1>11. \A j \in DOMAIN ws : q[ws[j]] \in Lined
  BY <1>3, <1>6, <1>8 DEF LineOf
<1>12. ASSUME NEW r \in Request, q[r] \in Lined
       PROVE  \E j \in DOMAIN ws : ws[j] = r
  <2>1. r # waiters[i] /\ pc[r] \in Lined
    BY <1>12
  <2>2. PICK k \in DOMAIN waiters : waiters[k] = r
    BY <2>1 DEF LineOf
  <2> QED
    BY <1>5, <1>6, <2>1, <2>2
<1>13. \A j, k \in DOMAIN ws :
         j < k /\ q[ws[j]] = "queued" => q[ws[k]] \notin Held
  BY <1>3, <1>4, <1>6, <1>8 DEF LineOf
<1>14. LineOf(ws, q, n - 1)
  BY <1>9, <1>10, <1>11, <1>12, <1>13 DEF LineOf
<1> QED
  BY <1>14 DEF ws

\* Granting the first pending future keeps the grants in front.
LEMMA WakeKeepsLine ==
  ASSUME NEW p \in [Request -> Place], NEW ws \in Seq(Request), NEW v \in Nat,
         NEW n, LineOf(ws, p, n), WakeNext(ws, v, p)
  PROVE  LineOf(waiters', pc', n)
<1>1. waiters' = ws
  BY DEF WakeNext
<1>2. CASE pc' = p
  BY <1>1, <1>2
<1>3. CASE \E k \in DOMAIN ws :
             /\ p[ws[k]] = "queued" /\ pc'[ws[k]] = "granted"
             /\ \A s \in Request \ {ws[k]} : pc'[s] = p[s]
             /\ \A j \in DOMAIN ws : p[ws[j]] = "queued" => k <= j
  <2>1. PICK k \in DOMAIN ws :
             /\ p[ws[k]] = "queued" /\ pc'[ws[k]] = "granted"
             /\ \A s \in Request \ {ws[k]} : pc'[s] = p[s]
             /\ \A j \in DOMAIN ws : p[ws[j]] = "queued" => k <= j
    BY <1>3
  <2>2. \A j \in DOMAIN ws : ws[j] \in Request
    OBVIOUS
  <2>3. \A j \in DOMAIN ws : j # k => pc'[ws[j]] = p[ws[j]]
    BY <2>1, <2>2 DEF LineOf
  <2>4. \A j \in DOMAIN ws : pc'[ws[j]] \in Lined
    BY <2>1, <2>3 DEF LineOf, Lined
  <2>5. \A r \in Request : pc'[r] \in Lined => \E j \in DOMAIN ws : ws[j] = r
    BY <2>1 DEF LineOf, Lined
  <2>6. ASSUME NEW i \in DOMAIN ws, NEW j \in DOMAIN ws, i < j,
               pc'[ws[i]] = "queued"
        PROVE  pc'[ws[j]] \notin Held
    <3>1. i # k /\ p[ws[i]] = "queued"
      BY <2>1, <2>3, <2>6
    <3>2. k <= i /\ p[ws[j]] \notin Held
      BY <2>1, <2>6, <3>1 DEF LineOf
    <3>3. j # k
      BY <2>6, <3>1, <3>2
    <3> QED
      BY <2>3, <3>2, <3>3
  <2> QED
    BY <1>1, <2>4, <2>5, <2>6 DEF LineOf
<1> QED
  BY <1>2, <1>3, WakeShape

\* The line is in order in every reachable state.
LEMMA LineInvariant == Spec => []LineInv
<1>1. Init => LineInv
  BY DEF Init, LineInv, LineOf, Lined
<1>2. UnitsInv /\ LineInv /\ [Next]_vars => LineInv'
  <2> SUFFICES ASSUME UnitsInv, LineInv, [Next]_vars
               PROVE  LineInv'
    OBVIOUS
  <2>0. /\ pc \in [Request -> Place] /\ waiters \in Seq(Request)
        /\ value \in Nat
        /\ LineOf(waiters, pc, waiting)
        /\ \A i \in DOMAIN waiters : waiters[i] \in Request
    BY DEF UnitsInv, TypeOK, LineInv
  <2>1. ASSUME NEW r \in Request, Refuse(r) \/ Answer(r) \/ EnterAtOnce(r)
        PROVE  LineInv'
    <3>1. /\ pc[r] \notin Lined /\ pc'[r] \notin Lined
          /\ \A s \in Request \ {r} : pc'[s] = pc[s]
          /\ waiters' = waiters /\ waiting' = waiting
      BY <2>0, <2>1 DEF Refuse, Answer, EnterAtOnce, Lined
    <3>2. \A i \in DOMAIN waiters : pc'[waiters[i]] = pc[waiters[i]]
      BY <2>0, <3>1 DEF LineOf
    <3>3. \A s \in Request : pc'[s] \in Lined => pc[s] \in Lined
      BY <3>1
    <3> QED
      BY <2>0, <3>1, <3>2, <3>3 DEF LineInv, LineOf
  <2>2. ASSUME NEW r \in Request, Queue(r)
        PROVE  LineInv'
    <3>1. /\ pc[r] \notin Lined /\ pc'[r] = "queued"
          /\ \A s \in Request \ {r} : pc'[s] = pc[s]
          /\ waiters' = Append(waiters, r) /\ waiting' = waiting + 1
      BY <2>0, <2>2 DEF Queue, Lined
    <3> DEFINE n == Len(waiters)
               ws == Append(waiters, r)
    <3>2. /\ n \in Nat /\ DOMAIN waiters = 1..n
          /\ Len(ws) = n + 1 /\ DOMAIN ws = 1..(n + 1)
          /\ ws[n + 1] = r /\ \A i \in 1..n : ws[i] = waiters[i]
      BY <2>0
    <3> HIDE DEF n, ws
    <3>3. \A i \in 1..n : ws[i] # r /\ pc'[ws[i]] = pc[ws[i]]
      BY <2>0, <3>1, <3>2 DEF LineOf
    <3>4. waiting + 1 = Len(ws)
      BY <2>0, <3>2 DEF LineOf, n
    <3>5. \A i, j \in DOMAIN ws : ws[i] = ws[j] => i = j
      BY <2>0, <3>2, <3>3 DEF LineOf
    <3>6. \A i \in DOMAIN ws : pc'[ws[i]] \in Lined
      BY <2>0, <3>1, <3>2, <3>3 DEF LineOf, Lined
    <3>7. ASSUME NEW s \in Request, pc'[s] \in Lined
          PROVE  \E i \in DOMAIN ws : ws[i] = s
      <4>1. CASE s = r
        BY <3>2, <4>1
      <4>2. CASE s # r
        <5>1. PICK i \in 1..n : waiters[i] = s
          BY <2>0, <3>1, <3>2, <3>7, <4>2 DEF LineOf
        <5> QED
          BY <3>2, <5>1
      <4> QED
        BY <4>1, <4>2
    <3>8. ASSUME NEW i \in DOMAIN ws, NEW j \in DOMAIN ws, i < j,
                 pc'[ws[i]] = "queued"
          PROVE  pc'[ws[j]] \notin Held
      <4>1. CASE j = n + 1
        BY <3>1, <3>2, <4>1 DEF Held
      <4>2. CASE j # n + 1
        <5>1. i \in 1..n /\ j \in 1..n
          BY <3>2, <3>8, <4>2
        <5> QED
          BY <2>0, <3>2, <3>3, <3>8, <5>1 DEF LineOf
      <4> QED
        BY <4>1, <4>2
    <3>9. LineOf(ws, pc', waiting + 1)
      BY <3>4, <3>5, <3>6, <3>7, <3>8 DEF LineOf
    <3> QED
      BY <3>1, <3>9 DEF LineInv, ws
  <2>3. ASSUME NEW r \in Request, Resume(r)
        PROVE  LineInv'
    <3> DEFINE started == [pc EXCEPT ![r] = "running"]
    <3>1. /\ started[r] \notin Lined /\ started \in [Request -> Place]
          /\ \A s \in Request \ {r} : started[s] = pc[s]
          /\ waiting' = waiting - 1
      BY <2>0, <2>3 DEF Resume, Place, Lined
    <3>2. PICK i \in DOMAIN waiters :
            /\ waiters[i] = r
            /\ IF value > 0 THEN WakeNext(Without(i), value, started)
               ELSE waiters' = Without(i) /\ pc' = started /\ value' = value
      BY <2>3 DEF Resume
    <3> HIDE DEF started
    <3>3. LineOf(Without(i), started, waiting - 1)
          /\ Without(i) \in Seq(Request)
      BY <2>0, <3>1, <3>2, RemovalKeepsLine, WithoutShape
    <3> QED
      BY <2>0, <3>1, <3>2, <3>3, WakeKeepsLine DEF LineInv
  <2>4. ASSUME NEW r \in Request, Cancel(r)
        PROVE  LineInv'
    <3>1. /\ \/ pc[r] = "queued" /\ pc'[r] = "cancelled"
             \/ pc[r] = "granted" /\ pc'[r] = "doomed"
          /\ \A s \in Request \ {r} : pc'[s] = pc[s]
          /\ waiters' = waiters /\ waiting' = waiting
      BY <2>0, <2>4 DEF Cancel
    <3>2. \A s \in Request : /\ pc'[s] \in Lined <=> pc[s] \in Lined
                             /\ pc'[s] \in Held <=> pc[s] \in Held
                             /\ pc'[s] = "queued" => pc[s] = "queued"
      BY <3>1 DEF Lined, Held
    <3> QED
      BY <2>0, <3>1, <3>2 DEF LineInv, LineOf
  <2>5. ASSUME NEW r \in Request, Unwind(r)
        PROVE  LineInv'
    <3> DEFINE gone == [pc EXCEPT ![r] = "out"]
    <3>1. /\ gone[r] \notin Lined /\ gone \in [Request -> Place]
          /\ \A s \in Request \ {r} : gone[s] = pc[s]
          /\ waiting' = waiting - 1
      BY <2>0, <2>5 DEF Unwind, Place, Lined
    <3>2. PICK i \in DOMAIN waiters :
            /\ waiters[i] = r
            /\ \/ waiters' = Without(i) /\ pc' = gone
               \/ WakeNext(Without(i), value + 1, gone)
      BY <2>5 DEF Unwind
    <3> HIDE DEF gone
    <3>3. LineOf(Without(i), gone, waiting - 1)
          /\ Without(i) \in Seq(Request) /\ value + 1 \in Nat
      BY <2>0, <3>1, <3>2, RemovalKeepsLine, WithoutShape
    <3> QED
      BY <2>0, <3>1, <3>2, <3>3, WakeKeepsLine DEF LineInv
  <2>6. ASSUME NEW r \in Request, Leave(r)
        PROVE  LineInv'
    <3> DEFINE gone == [pc EXCEPT ![r] = "out"]
    <3>1. /\ pc[r] \notin Lined /\ gone[r] \notin Lined
          /\ gone \in [Request -> Place]
          /\ \A s \in Request \ {r} : gone[s] = pc[s]
          /\ waiting' = waiting /\ WakeNext(waiters, value + 1, gone)
          /\ value + 1 \in Nat
      BY <2>0, <2>6 DEF Leave, Place, Lined
    <3> HIDE DEF gone
    <3>2. LineOf(waiters, gone, waiting)
      <4>1. \A i \in DOMAIN waiters : gone[waiters[i]] = pc[waiters[i]]
        BY <2>0, <3>1 DEF LineOf
      <4>2. \A s \in Request : gone[s] \in Lined => pc[s] \in Lined
        BY <3>1
      <4> QED
        BY <2>0, <4>1, <4>2 DEF LineOf
    <3> QED
      BY <2>0, <3>1, <3>2, WakeKeepsLine DEF LineInv
  <2>7. CASE UNCHANGED vars
    BY <2>0, <2>7 DEF vars, LineInv, LineOf
  <2> QED
    BY <2>1, <2>2, <2>3, <2>4, <2>5, <2>6, <2>7 DEF Next
<1> QED
  BY <1>1, <1>2, UnitsInvariant, PTL DEF Spec

-----------------------------------------------------------------------------
(* No wakeup is lost.                                                      *)

\* After a wakeup somebody holds a grant, or nobody is pending.
LEMMA WakeWakes ==
  ASSUME NEW p \in [Request -> Place], NEW ws \in Seq(Request), NEW v \in Nat,
         NEW n, LineOf(ws, p, n), WakeNext(ws, v, p)
  PROVE  NoLostWakeup'
<1>1. CASE pc' = p /\ \A i \in DOMAIN ws : p[ws[i]] # "queued"
  <2>1. ASSUME NEW r \in Request, pc'[r] = "queued"
        PROVE  FALSE
    BY <1>1, <2>1 DEF LineOf, Lined
  <2> QED
    BY <2>1 DEF NoLostWakeup, At
<1>2. CASE \E k \in DOMAIN ws : pc'[ws[k]] = "granted"
  <2>1. PICK k \in DOMAIN ws : pc'[ws[k]] = "granted"
    BY <1>2
  <2>2. ws[k] \in Request
    OBVIOUS
  <2> QED
    BY <2>1, <2>2 DEF NoLostWakeup, Promised, At
<1> QED
  BY <1>1, <1>2, WakeShape

\* Whatever the order of releases and cancellations, no request sleeps beside
\* a free unit unless a task that was granted one is about to pass it on.
THEOREM NoWakeupIsLost == Spec => []NoLostWakeup
<1>1. Init => NoLostWakeup
  BY DEF Init, NoLostWakeup, At
<1>2. UnitsInv /\ LineInv /\ NoLostWakeup /\ [Next]_vars => NoLostWakeup'
  <2> SUFFICES ASSUME UnitsInv, LineInv, NoLostWakeup, [Next]_vars
               PROVE  NoLostWakeup'
    OBVIOUS
  <2>0. /\ pc \in [Request -> Place] /\ waiters \in Seq(Request)
        /\ value \in Nat /\ LineOf(waiters, pc, waiting)
    BY DEF UnitsInv, TypeOK, LineInv
  <2>1. ASSUME NEW r \in Request, Refuse(r) \/ Answer(r)
        PROVE  NoLostWakeup'
    <3>1. /\ pc[r] \in {"out", "refused"} /\ pc'[r] \in {"out", "refused"}
          /\ \A s \in Request \ {r} : pc'[s] = pc[s]
          /\ value' = value
      BY <2>0, <2>1 DEF Refuse, Answer
    <3> QED
      BY <3>1 DEF NoLostWakeup, Promised, At
  <2>2. ASSUME NEW r \in Request, EnterAtOnce(r)
        PROVE  NoLostWakeup'
    <3>1. /\ pc'[r] = "running" /\ \A s \in Request \ {r} : pc'[s] = pc[s]
          /\ \A i \in DOMAIN waiters : pc[waiters[i]] = "cancelled"
      BY <2>0, <2>2 DEF EnterAtOnce, Locked
    <3>2. \A s \in Request : pc[s] # "queued"
      BY <2>0, <3>1 DEF LineOf, Lined
    <3> QED
      BY <3>1, <3>2 DEF NoLostWakeup, At
  <2>3. ASSUME NEW r \in Request, Queue(r)
        PROVE  NoLostWakeup'
    <3>1. /\ pc[r] = "out" /\ value' = value
          /\ \A s \in Request \ {r} : pc'[s] = pc[s]
          /\ \/ value = 0
             \/ \E i \in DOMAIN waiters : pc[waiters[i]] # "cancelled"
      BY <2>0, <2>3 DEF Queue, Locked
    <3>2. CASE value = 0
      BY <3>1, <3>2 DEF NoLostWakeup
    <3>3. CASE value # 0
      <4>1. PICK i \in DOMAIN waiters : pc[waiters[i]] # "cancelled"
        BY <3>1, <3>3
      <4>2. waiters[i] \in Request
            /\ pc[waiters[i]] \in {"queued", "granted", "doomed"}
        BY <2>0, <4>1 DEF LineOf, Lined
      <4>3. PICK s \in Request : pc[s] \in {"granted", "doomed"}
        BY <2>0, <3>3, <4>2 DEF NoLostWakeup, Promised, At
      <4> QED
        BY <3>1, <4>3 DEF NoLostWakeup, Promised, At
    <3> QED
      BY <3>2, <3>3
  <2>4. ASSUME NEW r \in Request, Resume(r)
        PROVE  NoLostWakeup'
    <3> DEFINE started == [pc EXCEPT ![r] = "running"]
    <3>1. /\ started[r] \notin Lined /\ started \in [Request -> Place]
          /\ \A s \in Request \ {r} : started[s] = pc[s]
      BY <2>0, <2>4 DEF Resume, Place, Lined
    <3>2. PICK i \in DOMAIN waiters :
            /\ waiters[i] = r
            /\ IF value > 0 THEN WakeNext(Without(i), value, started)
               ELSE waiters' = Without(i) /\ pc' = started /\ value' = value
      BY <2>4 DEF Resume
    <3> HIDE DEF started
    <3>3. LineOf(Without(i), started, waiting - 1)
          /\ Without(i) \in Seq(Request)
      BY <2>0, <3>1, <3>2, RemovalKeepsLine, WithoutShape
    <3>4. CASE value > 0
      BY <2>0, <3>1, <3>2, <3>3, <3>4, WakeWakes
    <3>5. CASE ~(value > 0)
      BY <2>0, <3>2, <3>5 DEF NoLostWakeup
    <3> QED
      BY <3>4, <3>5
  <2>5. ASSUME NEW r \in Request, Cancel(r)
        PROVE  NoLostWakeup'
    <3>1. /\ \/ pc[r] = "queued" /\ pc'[r] = "cancelled"
             \/ pc[r] = "granted" /\ pc'[r] = "doomed"
          /\ \A s \in Request \ {r} : pc'[s] = pc[s]
          /\ value' = value
      BY <2>0, <2>5 DEF Cancel
    <3> QED
      BY <3>1 DEF NoLostWakeup, Promised, At
  <2>6. ASSUME NEW r \in Request, Unwind(r)
        PROVE  NoLostWakeup'
    <3> DEFINE gone == [pc EXCEPT ![r] = "out"]
    <3>1. /\ gone[r] = "out" /\ gone \in [Request -> Place]
          /\ \A s \in Request \ {r} : gone[s] = pc[s]
      BY <2>0, <2>6 DEF Unwind, Place
    <3>2. PICK i \in DOMAIN waiters :
            /\ waiters[i] = r
            /\ \/ pc[r] = "cancelled" /\ pc' = gone /\ value' = value
               \/ WakeNext(Without(i), value + 1, gone)
      BY <2>6 DEF Unwind
    <3> HIDE DEF gone
    <3>3. CASE pc[r] = "cancelled" /\ pc' = gone /\ value' = value
      BY <3>1, <3>3 DEF NoLostWakeup, Promised, At
    <3>4. CASE WakeNext(Without(i), value + 1, gone)
      <4>1. gone[r] \notin Lined
        BY <3>1 DEF Lined
      <4>2. LineOf(Without(i), gone, waiting - 1)
            /\ Without(i) \in Seq(Request) /\ value + 1 \in Nat
        BY <2>0, <3>1, <3>2, <4>1, RemovalKeepsLine, WithoutShape
      <4> QED
        BY <3>1, <3>4, <4>2, WakeWakes
    <3> QED
      BY <3>2, <3>3, <3>4
  <2>7. ASSUME NEW r \in Request, Leave(r)
        PROVE  NoLostWakeup'
    <3> DEFINE gone == [pc EXCEPT ![r] = "out"]
    <3>1. /\ pc[r] \notin Lined /\ gone[r] \notin Lined
          /\ gone \in [Request -> Place]
          /\ \A s \in Request \ {r} : gone[s] = pc[s]
          /\ WakeNext(waiters, value + 1, gone) /\ value + 1 \in Nat
      BY <2>0, <2>7 DEF Leave, Place, Lined
    <3> HIDE DEF gone
    <3>2. LineOf(waiters, gone, waiting)
      <4>1. \A i \in DOMAIN waiters : gone[waiters[i]] = pc[waiters[i]]
        BY <2>0, <3>1 DEF LineOf
      <4>2. \A s \in Request : gone[s] \in Lined => pc[s] \in Lined
        BY <3>1
      <4> QED
        BY <2>0, <4>1, <4>2 DEF LineOf
    <3> QED
      BY <2>0, <3>1, <3>2, WakeWakes
  <2>8. CASE UNCHANGED vars
    BY <2>8 DEF vars, NoLostWakeup, Promised, At
  <2> QED
    BY <2>1, <2>2, <2>3, <2>4, <2>5, <2>6, <2>7, <2>8 DEF Next
<1> QED
  BY <1>1, <1>2, UnitsInvariant, LineInvariant, PTL DEF Spec

-----------------------------------------------------------------------------
(* The refinement.                                                         *)

Giving == {"doomed", "cancelled"}

\* The instance counts like the gate.
LEMMA SameCardinality == \A S : Door!Cardinality(S) = Cardinality(S)
BY DEF Door!Cardinality, Cardinality

\* The gate's view of the room, the line and those leaving it is unchanged by
\* a wakeup: a granted request still stands in line.
LEMMA WakeIsInvisible ==
  ASSUME NEW p \in [Request -> Place], NEW ws \in Seq(Request), NEW v \in Nat,
         WakeNext(ws, v, p)
  PROVE  /\ waiters' = ws
         /\ \A r \in Request : /\ pc'[r] = "running" <=> p[r] = "running"
                               /\ pc'[r] \in Giving <=> p[r] \in Giving
<1>1. CASE pc' = p
  BY <1>1, WakeShape
<1>2. CASE \E k \in DOMAIN ws :
             /\ p[ws[k]] = "queued" /\ pc'[ws[k]] = "granted"
             /\ \A s \in Request \ {ws[k]} : pc'[s] = p[s]
  BY <1>2, WakeShape DEF Giving
<1> QED
  BY <1>1, <1>2, WakeShape

\* The numbers of the gate are those of the room and of the line.
LEMMA DoorCounts ==
  ASSUME UnitsInv, LineInv
  PROVE  /\ InUse = Cardinality(Running) + Len(waiters)
         /\ value > 0 => Cardinality(Running) < MaxConcurrent
         /\ Promised # {} => Cardinality(Running) < MaxConcurrent
         /\ ~Full => Door!HasPlace
<1>1. /\ inflight = Cardinality(Running) /\ waiting = Len(waiters)
      /\ value + Cardinality(Running) + Cardinality(Promised) = MaxConcurrent
  BY BooksAreUnits DEF UnitsInv, LineInv, LineOf, UnitsConserved
<1>2. /\ Cardinality(Running) \in Nat /\ Cardinality(Promised) \in Nat
      /\ value \in Nat /\ MaxConcurrent \in Nat
  BY CountType, GateAssumption
     DEF Count, Running, Promised, At, UnitsInv, TypeOK
<1>3. ASSUME Promised # {}
      PROVE  Cardinality(Promised) # 0
  <2>1. IsFiniteSet(Promised)
    BY GateAssumption, FS_Subset DEF Promised, At
  <2> QED
    BY <1>3, <2>1, FS_EmptySet
<1>4. InUse = Cardinality(Running) + Len(waiters)
  BY <1>1 DEF InUse
<1>5. value > 0 => Cardinality(Running) < MaxConcurrent
  BY <1>1, <1>2
<1>6. Promised # {} => Cardinality(Running) < MaxConcurrent
  BY <1>1, <1>2, <1>3
<1>7. ~Full => InUse < MaxConcurrent + MaxQueue
  <2>1. InUse \in Nat /\ MaxConcurrent \in Nat /\ MaxQueue \in Nat
    BY GateAssumption DEF InUse, UnitsInv, TypeOK
  <2> QED
    BY <2>1 DEF Full
<1>8. ~Full => Door!HasPlace
  BY <1>4, <1>7, SameCardinality DEF Door!HasPlace
<1> QED
  BY <1>4, <1>5, <1>6, <1>8

\* The gate behaves as one line before one room, served in order: each of its
\* steps is a step of Admission or leaves its variables unchanged.
THEOREM GateImplementsAdmission == Spec => ImplementsAdmission
<1> DEFINE leaving == At(Giving)
<1>1. Init => Door!Init
  BY DEF Init, Door!Init, Running, At
<1>2. UnitsInv /\ LineInv /\ [Next]_vars => [Door!Next]_(Door!vars)
  <2> SUFFICES ASSUME UnitsInv, LineInv, [Next]_vars
               PROVE  [Door!Next]_(Door!vars)
    OBVIOUS
  <2>0. /\ pc \in [Request -> Place] /\ waiters \in Seq(Request)
        /\ value \in Nat /\ LineOf(waiters, pc, waiting)
        /\ MaxConcurrent \in Nat /\ MaxQueue \in Nat
        /\ inflight \in Nat /\ waiting \in Nat
    BY GateAssumption DEF UnitsInv, TypeOK, LineInv
  <2>1. ASSUME NEW r \in Request, Refuse(r) \/ Answer(r)
        PROVE  UNCHANGED Door!vars
    <3>1. /\ pc[r] \in {"out", "refused"} /\ pc'[r] \in {"out", "refused"}
          /\ \A s \in Request \ {r} : pc'[s] = pc[s]
          /\ waiters' = waiters
      BY <2>0, <2>1 DEF Refuse, Answer
    <3> QED
      BY <3>1 DEF Door!vars, Running, At
  <2>2. ASSUME NEW r \in Request, EnterAtOnce(r)
        PROVE  Door!WalkIn(r)
    <3>1. /\ pc[r] = "out" /\ pc'[r] = "running" /\ waiters' = waiters
          /\ \A s \in Request \ {r} : pc'[s] = pc[s]
          /\ value > 0 /\ ~Full
          /\ \A i \in DOMAIN waiters : pc[waiters[i]] = "cancelled"
      BY <2>0, <2>2 DEF EnterAtOnce, Locked
    <3>2. r \notin Running \cup Door!InLine
      BY <2>0, <3>1 DEF LineOf, Lined, Running, At, Door!InLine
    <3>3. Door!HasPlace
      BY <3>1, DoorCounts
    <3>4. Cardinality(Running) < MaxConcurrent
      BY <3>1, DoorCounts
    <3>5. Door!InLine \subseteq At({"doomed", "cancelled"})
      BY <2>0, <3>1 DEF Door!InLine, At, LineOf
    <3>6. /\ Running' = Running \cup {r}
          /\ At({"doomed", "cancelled"})' = At({"doomed", "cancelled"})
      BY <3>1 DEF Running, At
    <3> QED
      BY <3>1, <3>2, <3>3, <3>4, <3>5, <3>6, SameCardinality
         DEF Door!WalkIn
  <2>3. ASSUME NEW r \in Request, Queue(r)
        PROVE  Door!Join(r)
    <3>1. /\ pc[r] = "out" /\ pc'[r] = "queued" /\ ~Full
          /\ waiters' = Append(waiters, r)
          /\ \A s \in Request \ {r} : pc'[s] = pc[s]
      BY <2>0, <2>3 DEF Queue
    <3>2. r \notin Running \cup Door!InLine
      BY <2>0, <3>1 DEF LineOf, Lined, Running, At, Door!InLine
    <3>3. Door!HasPlace
      BY <3>1, DoorCounts
    <3>4. /\ Running' = Running
          /\ At({"doomed", "cancelled"})' = At({"doomed", "cancelled"})
      BY <3>1 DEF Running, At
    <3> QED
      BY <3>1, <3>2, <3>3, <3>4 DEF Door!Join
  <2>4. ASSUME NEW r \in Request, Resume(r)
        PROVE  Door!Admit(r)
    <3> DEFINE started == [pc EXCEPT ![r] = "running"]
    <3>1. /\ pc[r] = "granted" /\ started[r] = "running"
          /\ started \in [Request -> Place]
          /\ \A s \in Request \ {r} : started[s] = pc[s]
      BY <2>0, <2>4 DEF Resume, Place
    <3>2. PICK i \in DOMAIN waiters :
            /\ waiters[i] = r
            /\ \A j \in 1..(i - 1) : pc[waiters[j]] \notin {"granted", "doomed"}
            /\ IF value > 0 THEN WakeNext(Without(i), value, started)
               ELSE waiters' = Without(i) /\ pc' = started /\ value' = value
      BY <2>4 DEF Resume
    <3> HIDE DEF started
    <3>3. Without(i) \in Seq(Request)
      BY <2>0, WithoutShape
    <3>4. /\ waiters' = Without(i)
          /\ \A s \in Request :
               /\ pc'[s] = "running" <=> started[s] = "running"
               /\ pc'[s] \in Giving <=> started[s] \in Giving
      <4>1. CASE value > 0
        BY <2>0, <3>1, <3>2, <3>3, <4>1, WakeIsInvisible
      <4>2. CASE ~(value > 0)
        BY <2>0, <3>2, <4>2
      <4> QED
        BY <4>1, <4>2
    <3>5. /\ Running' = Running \cup {r}
          /\ At({"doomed", "cancelled"})' = At({"doomed", "cancelled"})
      BY <3>1, <3>4 DEF Running, At, Giving
    <3>6. r \notin At({"doomed", "cancelled"}) /\ r \in Promised
      BY <3>1 DEF At, Promised
    <3>7. Cardinality(Running) < MaxConcurrent
      BY <3>6, DoorCounts
    <3>8. \A j \in 1..(i - 1) : waiters[j] \in At({"doomed", "cancelled"})
      <4> SUFFICES ASSUME NEW j \in 1..(i - 1)
                   PROVE  waiters[j] \in At({"doomed", "cancelled"})
        OBVIOUS
      <4>1. j \in DOMAIN waiters /\ j < i /\ waiters[j] \in Request
        BY <2>0
      <4>2. pc[waiters[j]] # "queued"
        BY <2>0, <3>1, <3>2, <4>1 DEF LineOf, Held
      <4>3. pc[waiters[j]] \in Lined
        BY <2>0, <4>1 DEF LineOf
      <4> QED
        BY <3>2, <4>1, <4>2, <4>3 DEF At, Lined
    <3>9. waiters' = Door!LineWithout(i)
      BY <3>4 DEF Door!LineWithout, Without
    <3>10. waiters[i] = r
      BY <3>2
    <3> QED
      BY <3>5, <3>6, <3>7, <3>8, <3>9, <3>10, SameCardinality
         DEF Door!Admit
  <2>5. ASSUME NEW r \in Request, Cancel(r)
        PROVE  Door!GiveUp(r)
    <3>1. /\ \/ pc[r] = "queued" /\ pc'[r] = "cancelled"
             \/ pc[r] = "granted" /\ pc'[r] = "doomed"
          /\ \A s \in Request \ {r} : pc'[s] = pc[s]
          /\ waiters' = waiters
      BY <2>0, <2>5 DEF Cancel
    <3>2. r \in Door!InLine
      <4>1. pc[r] \in Lined
        BY <3>1 DEF Lined
      <4> QED
        BY <2>0, <4>1 DEF LineOf, Door!InLine
    <3>3. /\ Running' = Running
          /\ r \notin At({"doomed", "cancelled"})
          /\ At({"doomed", "cancelled"})'
               = At({"doomed", "cancelled"}) \cup {r}
      BY <3>1 DEF Running, At
    <3> QED
      BY <3>1, <3>2, <3>3 DEF Door!GiveUp
  <2>6. ASSUME NEW r \in Request, Unwind(r)
        PROVE  Door!LeaveLine(r)
    <3> DEFINE gone == [pc EXCEPT ![r] = "out"]
    <3>1. /\ gone[r] = "out" /\ gone \in [Request -> Place]
          /\ \A s \in Request \ {r} : gone[s] = pc[s]
          /\ pc[r] \in {"cancelled", "doomed"}
      BY <2>0, <2>6 DEF Unwind, Place
    <3>2. PICK i \in DOMAIN waiters :
            /\ waiters[i] = r
            /\ \/ waiters' = Without(i) /\ pc' = gone
               \/ WakeNext(Without(i), value + 1, gone)
      BY <2>6 DEF Unwind
    <3> HIDE DEF gone
    <3>3. Without(i) \in Seq(Request) /\ value + 1 \in Nat
      BY <2>0, WithoutShape
    <3>4. /\ waiters' = Without(i)
          /\ \A s \in Request :
               /\ pc'[s] = "running" <=> gone[s] = "running"
               /\ pc'[s] \in Giving <=> gone[s] \in Giving
      BY <3>1, <3>2, <3>3, WakeIsInvisible
    <3>5. /\ Running' = Running
          /\ r \in At({"doomed", "cancelled"})
          /\ At({"doomed", "cancelled"})'
               = At({"doomed", "cancelled"}) \ {r}
      BY <3>1, <3>4 DEF Running, At, Giving
    <3>6. Door!LineWithout(i) = Without(i)
      BY DEF Door!LineWithout, Without
    <3> QED
      BY <3>2, <3>4, <3>5, <3>6 DEF Door!LeaveLine
  <2>7. ASSUME NEW r \in Request, Leave(r)
        PROVE  Door!Finish(r)
    <3> DEFINE gone == [pc EXCEPT ![r] = "out"]
    <3>1. /\ pc[r] = "running" /\ gone[r] = "out"
          /\ gone \in [Request -> Place]
          /\ \A s \in Request \ {r} : gone[s] = pc[s]
          /\ WakeNext(waiters, value + 1, gone) /\ value + 1 \in Nat
      BY <2>0, <2>7 DEF Leave, Place
    <3> HIDE DEF gone
    <3>2. /\ waiters' = waiters
          /\ \A s \in Request :
               /\ pc'[s] = "running" <=> gone[s] = "running"
               /\ pc'[s] \in Giving <=> gone[s] \in Giving
      BY <2>0, <3>1, WakeIsInvisible
    <3>3. /\ Running' = Running \ {r} /\ r \in Running
          /\ At({"doomed", "cancelled"})' = At({"doomed", "cancelled"})
      BY <3>1, <3>2 DEF Running, At, Giving
    <3> QED
      BY <3>2, <3>3 DEF Door!Finish
  <2>8. CASE UNCHANGED vars
    BY <2>8 DEF vars, Door!vars, Running, At
  <2> QED
    BY <2>1, <2>2, <2>3, <2>4, <2>5, <2>6, <2>7, <2>8 DEF Next, Door!Next
<1> QED
  BY <1>1, <1>2, UnitsInvariant, LineInvariant, PTL
     DEF Spec, ImplementsAdmission, Door!Spec
=============================================================================
