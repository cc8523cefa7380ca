------------------------------ MODULE Admission ------------------------------
(***************************************************************************)
(* What the conversion gate promises its users, without semaphore, futures *)
(* or counters: a room for max_concurrent requests and a line of max_queue *)
(* more before it, from which they are admitted in the order they came.    *)
(* A request that gives up keeps its place until it has left the line, and *)
(* is passed over.                                                         *)
(***************************************************************************)
EXTENDS Naturals, FiniteSets, Sequences

CONSTANTS Request, MaxConcurrent, MaxQueue

VARIABLES
  inside,   \* the requests that are being converted
  line,     \* the requests before the door, in order of arrival
  leaving   \* those in the line that gave up

vars == <<inside, line, leaving>>

InLine == {line[i] : i \in DOMAIN line}

Init == inside = {} /\ line = <<>> /\ leaving = {}

\* A newcomer is turned away when all places are taken; that changes nothing.
HasPlace == Cardinality(inside) + Len(line) < MaxConcurrent + MaxQueue

\* Straight in, when there is room and nobody is waiting for it.
WalkIn(r) ==
  /\ r \notin inside \cup InLine
  /\ HasPlace
  /\ Cardinality(inside) < MaxConcurrent
  /\ InLine \subseteq leaving
  /\ inside' = inside \cup {r}
  /\ UNCHANGED <<line, leaving>>

Join(r) ==
  /\ r \notin inside \cup InLine
  /\ HasPlace
  /\ line' = Append(line, r)
  /\ UNCHANGED <<inside, leaving>>

LineWithout(i) == SubSeq(line, 1, i - 1) \o SubSeq(line, i + 1, Len(line))

\* The first in the line that has not given up.
Admit(r) ==
  /\ r \notin leaving
  /\ Cardinality(inside) < MaxConcurrent
  /\ \E i \in DOMAIN line :
       /\ line[i] = r
       /\ \A j \in 1..(i - 1) : line[j] \in leaving
       /\ line' = LineWithout(i)
  /\ inside' = inside \cup {r}
  /\ UNCHANGED leaving

GiveUp(r) ==
  /\ r \in InLine \ leaving
  /\ leaving' = leaving \cup {r}
  /\ UNCHANGED <<inside, line>>

LeaveLine(r) ==
  /\ r \in leaving
  /\ \E i \in DOMAIN line : line[i] = r /\ line' = LineWithout(i)
  /\ leaving' = leaving \ {r}
  /\ UNCHANGED inside

Finish(r) ==
  /\ r \in inside
  /\ inside' = inside \ {r}
  /\ UNCHANGED <<line, leaving>>

Next ==
  \E r \in Request :
    WalkIn(r) \/ Join(r) \/ Admit(r) \/ GiveUp(r) \/ LeaveLine(r) \/ Finish(r)

Spec == Init /\ [][Next]_vars
=============================================================================
