---------------------------- MODULE PerIPLimiter ----------------------------
(***************************************************************************)
(* safety/per_ip_limiter.py: at most max_per_ip requests of one client     *)
(* address at a time.  The table of slots is cleaned of idle addresses by  *)
(* whoever enters, so a slot may vanish and come back between two requests *)
(* of its address; it must never vanish under one.                         *)
(*                                                                         *)
(* _enter() and _leave() are locked blocks without suspension: each is one *)
(* step.                                                                   *)
(***************************************************************************)
EXTENDS Integers, FiniteSets

CONSTANTS
  Request,    \* requests, each any number of times
  Ip,         \* client addresses
  IpOf,       \* IpOf[r]: the address request r comes from
  MaxPerIp,   \* max_per_ip, at least 1: the constructor clips it
  IdleEvict,  \* idle_evict_sec
  MaxTime     \* bound: the clock stops here

ASSUME LimiterAssumption ==
  /\ IpOf \in [Request -> Ip] /\ IsFiniteSet(Request)
  /\ MaxPerIp \in Nat \ {0} /\ IdleEvict \in Nat /\ MaxTime \in Nat

VARIABLES
  known,    \* the addresses that have a slot
  active,   \* active[ip], last_seen[ip]: the fields of their slots
  lastSeen,
  now,      \* time.monotonic()
  holders   \* the requests between their _enter() and their _leave()

slots == <<known, active, lastSeen>>
vars == <<slots, now, holders>>

TypeOK ==
  /\ known \subseteq Ip
  /\ active \in [Ip -> Nat] /\ lastSeen \in [Ip -> Nat]
  /\ now \in Nat
  /\ holders \subseteq Request

\* Addresses without a slot read as 0.
Init ==
  /\ known = {} /\ active = [ip \in Ip |-> 0] /\ lastSeen = [ip \in Ip |-> 0]
  /\ now = 0
  /\ holders = {}

\* Mutant: a slot is evicted by its age alone.
StaleByAge == {ip \in known : lastSeen[ip] < now - IdleEvict}

\* The slots _evict_idle() removes.
Stale == {ip \in known : active[ip] = 0 /\ lastSeen[ip] < now - IdleEvict}

\* What the slots count after _evict_idle().
Swept == [ip \in Ip |-> IF ip \in Stale THEN 0 ELSE active[ip]]

\* The table after _evict_idle(), setdefault(ip) and n increments.  A slot that
\* is created, or incremented, was seen now.
Enters(ip, n) ==
  LET created == ip \notin known \ Stale
  IN  /\ known' = (known \ Stale) \cup {ip}
      /\ active' = [Swept EXCEPT ![ip] = @ + n]
      /\ lastSeen' = [j \in Ip |-> IF j = ip /\ (created \/ n > 0) THEN now
                                   ELSE IF j \in Stale THEN 0
                                   ELSE lastSeen[j]]

\* Mutant: one request more than the share.
EnterOneMore(r) ==
  /\ r \notin holders
  /\ Swept[IpOf[r]] <= MaxPerIp
  /\ Enters(IpOf[r], 1)
  /\ holders' = holders \cup {r}
  /\ UNCHANGED now

Enter(r) ==
  /\ r \notin holders
  /\ Swept[IpOf[r]] < MaxPerIp
  /\ Enters(IpOf[r], 1)
  /\ holders' = holders \cup {r}
  /\ UNCHANGED now

\* TooManyRequestsError; the eviction has happened all the same.
Refuse(r) ==
  /\ r \notin holders
  /\ Swept[IpOf[r]] >= MaxPerIp
  /\ Enters(IpOf[r], 0)
  /\ UNCHANGED <<now, holders>>

\* The finally clause of acquire(); it does nothing to an address that lost its
\* slot.
Leave(r) ==
  LET ip == IpOf[r]
  IN  /\ r \in holders
      /\ active' = [active EXCEPT ![ip] =
           IF ip \in known /\ @ > 0 THEN @ - 1 ELSE 0]
      /\ lastSeen' = [lastSeen EXCEPT ![ip] = IF ip \in known THEN now ELSE @]
      /\ holders' = holders \ {r}
      /\ UNCHANGED <<known, now>>

Tick ==
  /\ now < MaxTime
  /\ now' = now + 1
  /\ UNCHANGED <<slots, holders>>

Next ==
  \/ \E r \in Request : Enter(r) \/ Refuse(r) \/ Leave(r)
  \/ Tick

Spec == Init /\ [][Next]_vars

-----------------------------------------------------------------------------
(* What the limiter promises.                                              *)

Of(ip) == {r \in holders : IpOf[r] = ip}

\* The counter of an address is the number of its requests inside, across any
\* number of evictions; in particular the slot of a request inside is there.
SlotsExact ==
  \A ip \in Ip : /\ active[ip] = Cardinality(Of(ip))
                 /\ Of(ip) # {} => ip \in known

\* No address ever has more than max_per_ip requests inside.
FairShare == \A ip \in Ip : Cardinality(Of(ip)) <= MaxPerIp
=============================================================================
