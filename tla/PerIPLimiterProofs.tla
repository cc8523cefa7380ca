------------------------- MODULE PerIPLimiterProofs -------------------------
(***************************************************************************)
(* Proofs about PerIPLimiter, for any addresses, requests and limits: the  *)
(* slots count exactly, so no address exceeds its share.                   *)
(***************************************************************************)
EXTENDS PerIPLimiter, FiniteSetTheorems, TLAPS

\* Counting the requests of an address.
LEMMA OfCounts ==
  ASSUME NEW ip \in Ip, holders \subseteq Request
  PROVE  /\ IsFiniteSet(Of(ip)) /\ Cardinality(Of(ip)) \in Nat
         /\ Cardinality(Of(ip)) = 0 <=> Of(ip) = {}
<1>1. IsFiniteSet(Of(ip))
  BY LimiterAssumption, FS_Subset DEF Of
<1> QED
  BY <1>1, FS_CardinalityType, FS_EmptySet

\* Sweeping the table changes no count.
LEMMA SweepIsHarmless ==
  ASSUME TypeOK
  PROVE  Swept = active
<1>1. \A ip \in Ip : ip \in Stale => active[ip] = 0
  BY DEF Stale
<1>2. active = [ip \in Ip |-> active[ip]]
  BY DEF TypeOK
<1> QED
  BY <1>1, <1>2, Zenon DEF Swept

LimiterInv ==
  /\ TypeOK
  /\ SlotsExact
  /\ \A ip \in Ip : active[ip] <= MaxPerIp

\* The types, the exact slots and the limit are inductive together.
LEMMA LimiterInvariant == Spec => []LimiterInv
<1>1. Init => LimiterInv
  <2> SUFFICES ASSUME Init
               PROVE  LimiterInv
    OBVIOUS
  <2>1. \A ip \in Ip : Of(ip) = {}
    BY DEF Init, Of
  <2> QED
    BY <2>1, FS_EmptySet, LimiterAssumption
       DEF Init, LimiterInv, TypeOK, SlotsExact
<1>2. LimiterInv /\ [Next]_vars => LimiterInv'
  <2> SUFFICES ASSUME LimiterInv, [Next]_vars
               PROVE  LimiterInv'
    OBVIOUS
  <2>0. /\ known \subseteq Ip
        /\ active \in [Ip -> Nat] /\ lastSeen \in [Ip -> Nat]
        /\ now \in Nat /\ holders \subseteq Request
        /\ \A ip \in Ip : /\ active[ip] = Cardinality(Of(ip))
                          /\ Of(ip) # {} => ip \in known
                          /\ active[ip] <= MaxPerIp
        /\ MaxPerIp \in Nat /\ IpOf \in [Request -> Ip]
    BY LimiterAssumption DEF LimiterInv, TypeOK, SlotsExact
  <2>1. ASSUME NEW r \in Request, NEW n \in {0, 1}, Enters(IpOf[r], n)
        PROVE  /\ known' \subseteq Ip /\ lastSeen' \in [Ip -> Nat]
               /\ active' = [active EXCEPT ![IpOf[r]] = @ + n]
               /\ IpOf[r] \in known'
               /\ \A ip \in Ip : Of(ip) # {} => ip \in known'
    <3>1. active' = [active EXCEPT ![IpOf[r]] = @ + n]
      BY <2>1, SweepIsHarmless DEF Enters, LimiterInv
    <3>2. \A ip \in Ip : Of(ip) # {} => ip \notin Stale
      BY <2>0, OfCounts DEF Stale
    <3>3. known' = (known \ Stale) \cup {IpOf[r]} /\ IpOf[r] \in Ip
      BY <2>0, <2>1 DEF Enters
    <3>4. lastSeen' \in [Ip -> Nat]
      BY <2>0, <2>1 DEF Enters
    <3> QED
      BY <2>0, <3>1, <3>2, <3>3, <3>4
  <2>2. ASSUME NEW r \in Request, Enter(r)
        PROVE  LimiterInv'
    <3> DEFINE ip == IpOf[r]
    <3>1. /\ r \notin holders /\ active[ip] < MaxPerIp /\ Enters(ip, 1)
          /\ holders' = holders \cup {r} /\ now' = now
          /\ ip \in Ip
      BY <2>0, <2>2, SweepIsHarmless DEF Enter, LimiterInv
    <3>2. /\ known' \subseteq Ip /\ lastSeen' \in [Ip -> Nat]
          /\ active' = [active EXCEPT ![ip] = @ + 1]
          /\ ip \in known'
          /\ \A j \in Ip : Of(j) # {} => j \in known'
      BY <2>1, <3>1
    <3> HIDE DEF ip
    <3>3. active' \in [Ip -> Nat] /\ active'[ip] = active[ip] + 1
          /\ \A j \in Ip \ {ip} : active'[j] = active[j]
      BY <2>0, <3>1, <3>2
    <3>4. Of(ip)' = Of(ip) \cup {r} /\ r \notin Of(ip)
      BY <3>1 DEF Of, ip
    <3>5. \A j \in Ip \ {ip} : Of(j)' = Of(j)
      BY <3>1 DEF Of, ip
    <3>6. Cardinality(Of(ip)') = Cardinality(Of(ip)) + 1
      BY <2>0, <3>1, <3>4, OfCounts, FS_AddElement
    <3>7. TypeOK'
      BY <2>0, <3>1, <3>2, <3>3 DEF TypeOK
    <3>8. \A j \in Ip : /\ active'[j] = Cardinality(Of(j)')
                        /\ Of(j)' # {} => j \in known'
                        /\ active'[j] <= MaxPerIp
      BY <2>0, <3>1, <3>2, <3>3, <3>5, <3>6
    <3> QED
      BY <3>7, <3>8 DEF LimiterInv, SlotsExact
  <2>3. ASSUME NEW r \in Request, Refuse(r)
        PROVE  LimiterInv'
    <3>1. Enters(IpOf[r], 0) /\ now' = now /\ holders' = holders
          /\ IpOf[r] \in Ip
      BY <2>0, <2>3 DEF Refuse
    <3>2. /\ known' \subseteq Ip /\ lastSeen' \in [Ip -> Nat]
          /\ active' = [active EXCEPT ![IpOf[r]] = @ + 0]
          /\ \A j \in Ip : Of(j) # {} => j \in known'
      BY <2>1, <3>1
    <3>3. active' = active
      BY <2>0, <3>1, <3>2
    <3>4. \A j \in Ip : Of(j)' = Of(j)
      BY <3>1 DEF Of
    <3> QED
      BY <2>0, <3>1, <3>2, <3>3, <3>4 DEF LimiterInv, TypeOK, SlotsExact
  <2>4. ASSUME NEW r \in Request, Leave(r)
        PROVE  LimiterInv'
    <3> DEFINE ip == IpOf[r]
    <3>1. r \in Of(ip) /\ ip \in Ip /\ ip \in known
      BY <2>0, <2>4 DEF Leave, Of
    <3>2. active[ip] > 0
      BY <2>0, <3>1, OfCounts
    <3>3. /\ active' \in [Ip -> Nat] /\ lastSeen' \in [Ip -> Nat]
          /\ active'[ip] = active[ip] - 1
          /\ \A j \in Ip \ {ip} : active'[j] = active[j]
          /\ known' = known /\ now' = now /\ holders' = holders \ {r}
      BY <2>0, <2>4, <3>1, <3>2 DEF Leave
    <3> HIDE DEF ip
    <3>4. Of(ip)' = Of(ip) \ {r}
      BY <3>3 DEF Of
    <3>5. \A j \in Ip \ {ip} : Of(j)' = Of(j)
      BY <3>3 DEF Of, ip
    <3>6. Cardinality(Of(ip)') = Cardinality(Of(ip)) - 1
      BY <2>0, <3>1, <3>4, OfCounts, FS_RemoveElement
    <3>7. TypeOK'
      BY <2>0, <3>3 DEF TypeOK
    <3>8. ASSUME NEW j \in Ip
          PROVE  /\ active'[j] = Cardinality(Of(j)')
                 /\ Of(j)' # {} => j \in known'
                 /\ active'[j] <= MaxPerIp
      <4>1. CASE j = ip
        <5>1. active'[ip] = Cardinality(Of(ip)')
          BY <2>0, <3>1, <3>3, <3>6
        <5>2. active'[ip] <= MaxPerIp
          <6>1. active[ip] \in Nat /\ active[ip] <= MaxPerIp
            BY <2>0, <3>1
          <6>2. active'[ip] = active[ip] - 1
            BY <3>3
          <6> QED
            BY <6>1, <6>2, LimiterAssumption
        <5> QED
          BY <3>1, <3>3, <4>1, <5>1, <5>2
      <4>2. CASE j # ip
        <5>1. active'[j] = active[j] /\ Of(j)' = Of(j) /\ known' = known
          BY <3>3, <3>5, <4>2
        <5> QED
          BY <2>0, <5>1
      <4> QED
        BY <4>1, <4>2
    <3> QED
      BY <3>7, <3>8 DEF LimiterInv, SlotsExact
  <2>5. CASE Tick \/ UNCHANGED vars
    <3>1. UNCHANGED <<known, active, lastSeen, holders>> /\ now' \in Nat
      BY <2>0, <2>5 DEF Tick, vars, slots
    <3>2. \A j \in Ip : Of(j)' = Of(j)
      BY <3>1 DEF Of
    <3> QED
      BY <2>0, <3>1, <3>2 DEF LimiterInv, TypeOK, SlotsExact
  <2> QED
    BY <2>2, <2>3, <2>4, <2>5 DEF Next
<1> QED
  BY <1>1, <1>2, PTL DEF Spec

\* The types of the limiter.
THEOREM LimiterTyping == Spec => []TypeOK
<1>1. LimiterInv => TypeOK
  BY DEF LimiterInv
<1> QED
  BY <1>1, LimiterInvariant, PTL

\* Evictions never lose or invent a request inside.
THEOREM LimiterCountsExactly == Spec => []SlotsExact
<1>1. LimiterInv => SlotsExact
  BY DEF LimiterInv
<1> QED
  BY <1>1, LimiterInvariant, PTL

\* No address exceeds its share, whatever is evicted meanwhile.
THEOREM LimiterIsFair == Spec => []FairShare
<1>1. LimiterInv => FairShare
  BY DEF LimiterInv, SlotsExact, FairShare
<1> QED
  BY <1>1, LimiterInvariant, PTL
=============================================================================
