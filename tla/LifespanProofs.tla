--------------------------- MODULE LifespanProofs ---------------------------
(***************************************************************************)
(* Proofs about LLMRegistry and Lifespan, for any number of conversions,   *)
(* configurations and workers, and any size of the cache.                  *)
(***************************************************************************)
EXTENDS Lifespan, SequenceTheorems, TLAPS

-----------------------------------------------------------------------------
(* What is done to the sequence of entries.                                *)

Entries == [key : {Key(j) : j \in Asker}, client : Asker]

\* Entries of clients that were built for their keys.
Good(c) ==
  /\ c \in Seq(Entries)
  /\ \A i \in DOMAIN c : c[i].key = Key(c[i].client)

\* Everything in c is in d.
Within(c, d) == \A i \in DOMAIN c : \E k \in DOMAIN d : c[i] = d[k]

\* A sequence without its i-th element: the others keep their order.
LEMMA DropShape ==
  ASSUME NEW S, NEW s \in Seq(S), NEW i \in DOMAIN s
  PROVE  LET d == SubSeq(s, 1, i - 1) \o SubSeq(s, i + 1, Len(s))
         IN  /\ d \in Seq(S) /\ Len(d) = Len(s) - 1
             /\ \A k \in 1..(Len(s) - 1) :
                  d[k] = IF k < i THEN s[k] ELSE s[k + 1]
<1> DEFINE front == SubSeq(s, 1, i - 1)
           back == SubSeq(s, i + 1, Len(s))
<1>1. i \in 1..Len(s) /\ Len(s) \in Nat
  OBVIOUS
<1>2. /\ front \in Seq(S) /\ Len(front) = i - 1
      /\ \A k \in 1..(i - 1) : front[k] = s[k]
  BY <1>1
<1>3. /\ back \in Seq(S) /\ Len(back) = Len(s) - i
      /\ \A k \in 1..(Len(s) - i) : back[k] = s[i + k]
  BY <1>1
<1> HIDE DEF front, back
<1>4. front \o back \in Seq(S) /\ Len(front \o back) = Len(s) - 1
  BY <1>1, <1>2, <1>3
<1>5. \A k \in 1..(Len(front) + Len(back)) :
        (front \o back)[k] = IF k <= Len(front) THEN front[k]
                             ELSE back[k - Len(front)]
  BY <1>2, <1>3, ConcatProperties, Zenon
<1>6. ASSUME NEW k \in 1..(Len(s) - 1)
      PROVE  (front \o back)[k] = IF k < i THEN s[k] ELSE s[k + 1]
  <2>1. k \in 1..(Len(front) + Len(back))
    BY <1>1, <1>2, <1>3
  <2>2. CASE k < i
    <3>1. k \in 1..(i - 1) /\ k <= Len(front)
      BY <1>1, <1>2, <2>2
    <3> QED
      BY <1>2, <1>5, <2>1, <2>2, <3>1
  <2>3. CASE ~(k < i)
    <3>1. k - Len(front) \in 1..(Len(s) - i) /\ ~(k <= Len(front))
          /\ i + (k - Len(front)) = k + 1
      BY <1>1, <1>2, <2>3
    <3>2. (front \o back)[k] = back[k - Len(front)]
      BY <1>5, <2>1, <3>1
    <3>3. back[k - Len(front)] = s[i + (k - Len(front))]
      BY <1>3, <3>1
    <3> QED
      BY <2>3, <3>1, <3>2, <3>3
  <2> QED
    BY <2>2, <2>3
<1> QED
  BY <1>4, <1>6 DEF front, back

LEMMA DropKeepsGood ==
  ASSUME Good(cache), NEW i \in DOMAIN cache
  PROVE  Good(Without(i)) /\ Within(Without(i), cache)
<1> DEFINE d == Without(i)
<1>1. cache \in Seq(Entries) /\ Len(cache) \in Nat /\ i \in 1..Len(cache)
  BY DEF Good
<1>2. /\ d \in Seq(Entries) /\ Len(d) = Len(cache) - 1
      /\ \A k \in 1..(Len(cache) - 1) :
           d[k] = IF k < i THEN cache[k] ELSE cache[k + 1]
  BY <1>1, DropShape DEF Without
<1> HIDE DEF d
<1>3. DOMAIN d = 1..(Len(cache) - 1)
  BY <1>1, <1>2
<1>4. \A k \in DOMAIN d : \E m \in DOMAIN cache : d[k] = cache[m]
  BY <1>1, <1>2, <1>3
<1>5. Good(d) /\ Within(d, cache)
  BY <1>2, <1>4 DEF Good, Within
<1> QED
  BY <1>5 DEF d

LEMMA AppendKeepsGood ==
  ASSUME NEW c, Good(c), NEW e \in Entries, e.key = Key(e.client)
  PROVE  Good(Append(c, e))
<1> DEFINE d == Append(c, e)
<1>1. /\ d \in Seq(Entries) /\ Len(c) \in Nat
      /\ DOMAIN d = 1..(Len(c) + 1) /\ DOMAIN c = 1..Len(c)
      /\ d[Len(c) + 1] = e /\ \A i \in 1..Len(c) : d[i] = c[i]
  BY DEF Good
<1> HIDE DEF d
<1>2. \A i \in DOMAIN d : i = Len(c) + 1 \/ i \in DOMAIN c
  BY <1>1
<1>3. \A i \in DOMAIN d : d[i].key = Key(d[i].client)
  BY <1>1, <1>2 DEF Good
<1> QED
  BY <1>1, <1>3 DEF Good, d

LEMMA RoomKeepsGood ==
  ASSUME Good(cache), MaxSize > 0
  PROVE  Good(MakesRoom(cache))
<1>1. cache \in Seq(Entries) /\ Len(cache) \in Nat /\ MaxSize \in Nat
  BY RegistryAssumption DEF Good
<1>2. CASE Len(cache) >= MaxSize
  <2> DEFINE d == Tail(cache)
  <2>1. /\ d \in Seq(Entries) /\ DOMAIN d = 1..(Len(cache) - 1)
        /\ \A i \in 1..(Len(cache) - 1) : d[i] = cache[i + 1]
    BY <1>1, <1>2
  <2> HIDE DEF d
  <2>2. \A i \in DOMAIN d : i + 1 \in DOMAIN cache /\ d[i] = cache[i + 1]
    BY <1>1, <2>1
  <2>3. \A i \in DOMAIN d : d[i].key = Key(d[i].client)
    BY <2>2 DEF Good
  <2>4. MakesRoom(cache) = d
    BY <1>2 DEF MakesRoom, d
  <2> QED
    BY <2>1, <2>3, <2>4 DEF Good
<1>3. CASE ~(Len(cache) >= MaxSize)
  BY <1>3 DEF MakesRoom
<1> QED
  BY <1>2, <1>3

-----------------------------------------------------------------------------
(* What a key tells.                                                       *)

\* Both texts of a configuration have a piece at least.
LEMMA TextsOfAsker ==
  ASSUME NEW j \in Asker
  PROVE  /\ Config(j)[2] \in Text /\ Config(j)[3] \in Text
         /\ j \in Job
<1>1. j \in Job /\ Config(j) # NoConfig
  BY DEF Asker
<1>2. Config(j) = <<Strip(Form[j].api_key),
                    StripUrl(OrDefault(Form[j].base_url, DefaultUrl)),
                    Strip(OrDefault(Form[j].model, DefaultModel))>>
  BY <1>1 DEF Config, from_dict
<1>3. /\ OrDefault(Form[j].base_url, DefaultUrl) \in Fields \cup {DefaultUrl}
      /\ OrDefault(Form[j].model, DefaultModel) \in Fields \cup {DefaultModel}
  BY <1>1 DEF OrDefault, Fields
<1> QED
  BY <1>1, <1>2, <1>3, RegistryAssumption

\* A key, piece by piece.
KeyOf(d, u, m) == <<d>> \o u \o m

LEMMA KeyShape ==
  ASSUME NEW S, NEW d \in S, NEW u \in Seq(S), Len(u) = 1, NEW m \in Seq(S)
  PROVE  /\ Len(KeyOf(d, u, m)) = Len(m) + 2
         /\ KeyOf(d, u, m)[1] = d /\ KeyOf(d, u, m)[2] = u[1]
         /\ \A i \in 1..Len(m) : KeyOf(d, u, m)[i + 2] = m[i]
<1> DEFINE head == <<d>> \o u
<1>1. /\ head \in Seq(S) /\ Len(head) = 2 /\ head[1] = d /\ head[2] = u[1]
  <2>1. <<d>> \in Seq(S) /\ Len(<<d>>) = 1 /\ <<d>>[1] = d
    OBVIOUS
  <2>2. /\ head \in Seq(S) /\ Len(head) = Len(<<d>>) + Len(u)
        /\ \A i \in 1..(Len(<<d>>) + Len(u)) :
             head[i] = IF i <= Len(<<d>>) THEN <<d>>[i] ELSE u[i - Len(<<d>>)]
    BY <2>1, ConcatProperties, Zenon
  <2> HIDE DEF head
  <2> QED
    BY <2>1, <2>2
<1> HIDE DEF head
<1>2. Len(m) \in Nat /\ Len(head \o m) = Len(m) + 2
  <2>1. Len(head \o m) = Len(head) + Len(m)
    BY <1>1, ConcatProperties, Zenon
  <2> QED
    BY <1>1, <2>1
<1>3. \A i \in 1..(Len(head) + Len(m)) :
        (head \o m)[i] = IF i <= Len(head) THEN head[i] ELSE m[i - Len(head)]
  BY <1>1, ConcatProperties, Zenon
<1>4. (head \o m)[1] = d /\ (head \o m)[2] = u[1]
  BY <1>1, <1>2, <1>3
<1>5. ASSUME NEW i \in 1..Len(m)
      PROVE  (head \o m)[i + 2] = m[i]
  <2>1. /\ i + 2 \in 1..(Len(head) + Len(m)) /\ ~(i + 2 <= Len(head))
        /\ (i + 2) - Len(head) = i
    BY <1>1, <1>2
  <2>2. (head \o m)[i + 2] = m[(i + 2) - Len(head)]
    BY <1>3, <2>1
  <2> QED
    BY <2>1, <2>2
<1> QED
  BY <1>2, <1>4, <1>5 DEF head, KeyOf

\* What a key says of its parts, if there is no bar in the address.
LEMMA KeysDiffer ==
  ASSUME NEW S, NEW d \in S, NEW u \in Seq(S), Len(u) = 1, NEW m \in Seq(S),
         NEW e \in S, NEW v \in Seq(S), Len(v) = 1, NEW n \in Seq(S),
         KeyOf(d, u, m) = KeyOf(e, v, n)
  PROVE  d = e /\ u = v /\ m = n
<1> DEFINE key == KeyOf(d, u, m)
           other == KeyOf(e, v, n)
<1>1. key = other
  OBVIOUS
<1>2. /\ Len(key) = Len(m) + 2 /\ key[1] = d /\ key[2] = u[1]
      /\ \A i \in 1..Len(m) : key[i + 2] = m[i]
  BY KeyShape
<1>3. /\ Len(other) = Len(n) + 2 /\ other[1] = e /\ other[2] = v[1]
      /\ \A i \in 1..Len(n) : other[i + 2] = n[i]
  BY KeyShape
<1> HIDE DEF key, other
<1>4. d = e /\ u[1] = v[1] /\ Len(m) = Len(n)
  BY <1>1, <1>2, <1>3
<1>5. \A i \in 1..Len(m) : m[i] = n[i]
  BY <1>1, <1>2, <1>3, <1>4
<1>6. u = v
  BY <1>4
<1>7. m = n
  BY <1>4, <1>5
<1> QED
  BY <1>4, <1>6, <1>7

\* Equal keys of two addresses without bars come from equal digests, addresses
\* and models.
LEMMA KeyTells ==
  ASSUME NEW j \in Asker, NEW k \in Asker, Key(j) = Key(k),
         Unbarred(j), Unbarred(k)
  PROVE  SameClient(k, j)
<1> DEFINE uj == Config(j)[2]  mj == Config(j)[3]  dj == Digest(Config(j)[1])
           uk == Config(k)[2]  mk == Config(k)[3]  dk == Digest(Config(k)[1])
           Pieces == Piece \cup {dj, dk}
<1>1. /\ uj \in Seq(Pieces) /\ mj \in Seq(Pieces) /\ Len(uj) = 1
      /\ uk \in Seq(Pieces) /\ mk \in Seq(Pieces) /\ Len(uk) = 1
  <2>1. /\ uj \in Seq(Piece) /\ mj \in Seq(Piece)
        /\ uk \in Seq(Piece) /\ mk \in Seq(Piece)
    BY TextsOfAsker DEF Text
  <2> QED
    BY <2>1 DEF Unbarred
<1>2. dj \in Pieces /\ dk \in Pieces
  OBVIOUS
<1>3. KeyOf(dj, uj, mj) = KeyOf(dk, uk, mk)
  BY DEF Key, cache_key, KeyOf
<1> HIDE DEF uj, mj, dj, uk, mk, dk, Pieces
<1>4. dj = dk /\ uj = uk /\ mj = mk
  BY <1>1, <1>2, <1>3, KeysDiffer
<1> QED
  BY <1>4 DEF SameClient, uj, mj, dj, uk, mk, dk

-----------------------------------------------------------------------------
(* The registry.                                                           *)

RegistryInv ==
  /\ RegistryTypeOK
  /\ Good(cache)
  /\ \A j \in Job : at[j] = "building" => lock = j /\ ~Cached(Key(j))
  /\ lock # Nobody => lock \in Job /\ at[lock] = "building"
  /\ \A j \in Job : at[j] \in {"asking", "building"} => j \in Asker
  /\ \A j \in Job : uses[j] \in Job =>
       j \in Asker /\ uses[j] \in Asker /\ Key(uses[j]) = Key(j)

LEMMA RegistryStarts == RegistryInit => RegistryInv
<1> SUFFICES ASSUME RegistryInit
             PROVE  RegistryInv
  OBVIOUS
<1>1. /\ at \in [Job -> Places] /\ lock = Nobody /\ uses \in [Job -> {Nobody}]
      /\ \A j \in Job : at[j] = "idle" /\ uses[j] = Nobody
      /\ cache = <<>>
  BY DEF RegistryInit, Places
<1>2. Good(cache)
  BY <1>1, RegistryAssumption DEF Good
<1>3. RegistryTypeOK
  BY <1>1, <1>2 DEF RegistryTypeOK, Good, Entries
<1> QED
  BY <1>1, <1>2, <1>3, RegistryAssumption DEF RegistryInv

\* Fewer entries hide nothing that was not hidden.
LEMMA FewerCached ==
  ASSUME NEW c, Within(c, cache), cache' = c, NEW k, ~Cached(k)
  PROVE  ~Cached(k)'
  BY DEF Within, Cached

\* A thread that goes where no lock is needed, with a client of its own.
LEMMA GoesOn ==
  ASSUME RegistryInv, NEW j \in Job,
         Goes(j, "converting"), lock' = Nobody,
         lock = Nobody \/ at[j] = "building",
         Good(cache'),
         NEW client \in Job \cup {Basic}, uses' = [uses EXCEPT ![j] = client],
         client \in Job => j \in Asker /\ client \in Asker /\ Key(client) = Key(j)
  PROVE  RegistryInv'
<1>0. /\ at \in [Job -> Places] /\ uses \in [Job -> Job \cup {Basic, Nobody}]
      /\ lock \in Job \cup {Nobody} /\ Nobody \notin Job
      /\ \A i \in Job : at[i] = "building" => lock = i
  BY RegistryAssumption DEF RegistryInv, RegistryTypeOK
<1>1. /\ at' \in [Job -> Places] /\ at'[j] = "converting"
      /\ \A i \in Job \ {j} : at'[i] = at[i]
  BY <1>0 DEF Goes, Places
<1>2. \A i \in Job : at'[i] # "building"
  BY <1>0, <1>1
<1>3. /\ uses' \in [Job -> Job \cup {Basic, Nobody}] /\ uses'[j] = client
      /\ \A i \in Job \ {j} : uses'[i] = uses[i]
  BY <1>0
<1>4. RegistryTypeOK'
  BY <1>1, <1>3 DEF RegistryTypeOK, Good, Entries, Asker, Key, Config
<1>5. \A i \in Job : at'[i] \in {"asking", "building"} => i \in Asker
  BY <1>1 DEF RegistryInv
<1>6. \A i \in Job : uses'[i] \in Job =>
        i \in Asker /\ uses'[i] \in Asker /\ Key(uses'[i]) = Key(i)
  BY <1>3, RegistryAssumption DEF RegistryInv
<1> QED
  BY <1>2, <1>4, <1>5, <1>6 DEF RegistryInv, Good, Asker, Key, Config

LEMMA RegistrySteps == RegistryInv /\ [RegistryNext]_registry => RegistryInv'
<1> SUFFICES ASSUME RegistryInv, [RegistryNext]_registry
             PROVE  RegistryInv'
  OBVIOUS
<1>0. /\ at \in [Job -> Places] /\ uses \in [Job -> Job \cup {Basic, Nobody}]
      /\ lock \in Job \cup {Nobody} /\ Nobody \notin Job /\ Basic \notin Job
      /\ Good(cache)
      /\ \A i \in Job : at[i] \in {"asking", "building"} => i \in Asker
      /\ \A i \in Job : uses[i] \in Job =>
           i \in Asker /\ uses[i] \in Asker /\ Key(uses[i]) = Key(i)
      /\ \A i \in Job : at[i] = "building" => lock = i /\ ~Cached(Key(i))
      /\ lock # Nobody => lock \in Job /\ at[lock] = "building"
  BY RegistryAssumption DEF RegistryInv, RegistryTypeOK
<1>1. ASSUME NEW j \in Job, Ask(j)
      PROVE  RegistryInv'
  <2>1. /\ at[j] = "idle" /\ UNCHANGED <<lock, cache>>
        /\ \/ Goes(j, "converting") /\ uses' = [uses EXCEPT ![j] = Basic]
           \/ Goes(j, "asking") /\ uses' = uses /\ j \in Asker
    BY <1>1 DEF Ask, Asker
  <2>2. /\ at' \in [Job -> Places] /\ at'[j] \in {"converting", "asking"}
        /\ \A i \in Job \ {j} : at'[i] = at[i]
    BY <1>0, <2>1 DEF Goes, Places
  <2>3. /\ uses' \in [Job -> Job \cup {Basic, Nobody}]
        /\ \A i \in Job : uses'[i] \in {uses[i], Basic}
    BY <1>0, <2>1
  <2>4. RegistryTypeOK'
    BY <1>0, <2>1, <2>2, <2>3 DEF RegistryInv, RegistryTypeOK
  <2>5. \A i \in Job : uses'[i] \in Job =>
          i \in Asker /\ uses'[i] \in Asker /\ Key(uses'[i]) = Key(i)
    BY <1>0, <2>3
  <2>6. \A i \in Job : at'[i] \in {"asking", "building"} => i \in Asker
    BY <1>0, <2>1, <2>2 DEF Goes
  <2> QED
    BY <1>0, <2>1, <2>2, <2>4, <2>5, <2>6 DEF RegistryInv, Cached, Good, Asker, Key, Config
<1>2. ASSUME NEW j \in Job, Hit(j)
      PROVE  RegistryInv'
  <2>1. PICK i \in DOMAIN cache :
          /\ cache[i].key = Key(j)
          /\ cache' = Append(Without(i), cache[i])
          /\ uses' = [uses EXCEPT ![j] = cache[i].client]
    BY <1>2 DEF Hit
  <2>2. lock = Nobody /\ lock' = Nobody /\ Goes(j, "converting")
    BY <1>2 DEF Hit
  <2> DEFINE e == cache[i]
  <2>3. e \in Entries /\ e.key = Key(e.client) /\ e.client \in Asker
    <3>1. e \in Entries /\ e.key = Key(e.client)
      BY <1>0 DEF Good
    <3> QED
      BY <3>1 DEF Entries
  <2>4. j \in Asker
    BY <1>0, <1>2 DEF Hit
  <2>5. Good(Without(i))
    BY <1>0, DropKeepsGood
  <2> DEFINE c == Without(i)
  <2> HIDE DEF e, c
  <2>6. Good(Append(c, e))
    BY <2>3, <2>5, AppendKeepsGood DEF c
  <2>7. Good(cache')
    BY <2>1, <2>6 DEF c, e
  <2>8. Key(e.client) = Key(j)
    BY <2>1, <2>3 DEF e
  <2>9. uses' = [uses EXCEPT ![j] = e.client] /\ e.client \in Job
    BY <2>1, <2>3 DEF e, Asker
  <2> QED
    BY <2>2, <2>3, <2>4, <2>7, <2>8, <2>9, GoesOn
<1>3. ASSUME NEW j \in Job, Miss(j)
      PROVE  RegistryInv'
  <2>1. /\ at[j] = "asking" /\ lock = Nobody /\ ~Cached(Key(j))
        /\ lock' = j /\ Goes(j, "building") /\ UNCHANGED <<cache, uses>>
    BY <1>3 DEF Miss
  <2>2. /\ at' \in [Job -> Places] /\ at'[j] = "building"
        /\ \A i \in Job \ {j} : at'[i] = at[i]
    BY <1>0, <2>1 DEF Goes, Places
  <2>3. \A i \in Job : at'[i] = "building" => i = j
    BY <1>0, <2>1, <2>2
  <2>4. RegistryTypeOK'
    BY <1>0, <2>1, <2>2 DEF RegistryInv, RegistryTypeOK
  <2> QED
    BY <1>0, <2>1, <2>2, <2>3, <2>4 DEF RegistryInv, Cached, Good, Asker, Key, Config
<1>4. ASSUME NEW j \in Job, Built(j)
      PROVE  RegistryInv'
  <2>1. /\ at[j] = "building" /\ MaxSize > 0 /\ lock' = Nobody
        /\ cache' = Append(MakesRoom(cache), Entry(j, j))
        /\ uses' = [uses EXCEPT ![j] = j] /\ Goes(j, "converting")
    BY <1>4 DEF Built
  <2> DEFINE e == Entry(j, j)
             c == MakesRoom(cache)
  <2>2. j \in Asker
    BY <1>0, <2>1
  <2>3. e \in Entries /\ e.key = Key(e.client)
    BY <2>2 DEF Entry, Entries
  <2>4. Good(c)
    BY <1>0, <2>1, RoomKeepsGood
  <2> HIDE DEF e, c
  <2>5. Good(Append(c, e))
    BY <2>3, <2>4, AppendKeepsGood
  <2>6. Good(cache')
    BY <2>1, <2>5 DEF c, e
  <2> QED
    BY <2>1, <2>2, <2>6, GoesOn
<1>5. ASSUME NEW j \in Job, FallsBack(j)
      PROVE  RegistryInv'
  <2>1. /\ lock' = Nobody /\ Goes(j, "converting")
        /\ uses' = [uses EXCEPT ![j] = Basic]
    BY <1>5 DEF FallsBack
  <2>2. /\ lock = Nobody \/ at[j] = "building"
        /\ cache' = cache \/ \E i \in DOMAIN cache : cache' = Without(i)
    BY <1>5 DEF FallsBack
  <2>3. Good(cache')
    BY <1>0, <2>2, DropKeepsGood
  <2> QED
    BY <1>0, <2>1, <2>2, <2>3, GoesOn
<1>6. ASSUME NEW j \in Job, Done(j)
      PROVE  RegistryInv'
  <2>1. at[j] = "converting" /\ Goes(j, "ended") /\ UNCHANGED <<lock, cache, uses>>
    BY <1>6 DEF Done
  <2>2. /\ at' \in [Job -> Places] /\ at'[j] = "ended"
        /\ \A i \in Job \ {j} : at'[i] = at[i]
    BY <1>0, <2>1 DEF Goes, Places
  <2>3. RegistryTypeOK'
    BY <1>0, <2>1, <2>2 DEF RegistryInv, RegistryTypeOK
  <2> QED
    BY <1>0, <2>1, <2>2, <2>3 DEF RegistryInv, Cached, Good, Asker, Key, Config
<1>7. ASSUME Good(cache'), Within(cache', cache), UNCHANGED <<at, lock, uses>>
      PROVE  RegistryInv'
  <2>1. RegistryTypeOK'
    BY <1>0, <1>7 DEF RegistryTypeOK, Good, Entries, Asker, Key, Config
  <2>2. \A i \in Job : at'[i] = "building" => lock' = i /\ ~Cached(Key(i))'
    BY <1>0, <1>7 DEF Within, Cached, Key, Config
  <2> QED
    BY <1>0, <1>7, <2>1, <2>2 DEF RegistryInv, Good, Asker, Config, Key
<1>8. CASE Expire
  BY <1>0, <1>7, <1>8, DropKeepsGood DEF Expire
<1>9. CASE clear
  <2>1. cache' = <<>> /\ UNCHANGED <<at, lock, uses>>
    BY <1>9 DEF clear
  <2>2. Good(cache') /\ Within(cache', cache)
    BY <2>1, RegistryAssumption DEF Good, Within
  <2> QED
    BY <1>7, <2>1, <2>2
<1>10. CASE UNCHANGED registry
  <2>1. UNCHANGED <<at, lock, cache, uses>>
    BY <1>10 DEF registry
  <2>2. Good(cache') /\ Within(cache', cache)
    BY <1>0, <2>1 DEF Within
  <2> QED
    BY <1>7, <2>1, <2>2
<1> QED
  BY <1>1, <1>2, <1>3, <1>4, <1>5, <1>6, <1>8, <1>9, <1>10 DEF RegistryNext

\* Whoever uses the registry as RegistrySpec says has these.
LEMMA RegistryInvariant == RegistrySpec => []RegistryInv
  BY RegistryStarts, RegistrySteps, PTL DEF RegistrySpec

-----------------------------------------------------------------------------
(* The lifespan.                                                           *)

\* No step of the lifespan, of a handler or of a worker treats the registry
\* otherwise than its specification allows.
LEMMA StepsOfRegistry == [Next]_vars => [RegistryNext]_registry
<1> SUFFICES ASSUME [Next]_vars
             PROVE  [RegistryNext]_registry
  OBVIOUS
<1>1. ASSUME NEW r \in Job,
             Submit(r) \/ Answer(r) \/ GiveUp(r) \/ Record(r)
      PROVE  UNCHANGED registry
  BY <1>1 DEF Submit, Answer, GiveUp, Record
<1>2. ASSUME NEW r \in Job, WorkerTakes(r) \/ ThreadGetsClient(r) \/ ThreadDone(r)
      PROVE  [RegistryNext]_registry
  BY <1>2 DEF WorkerTakes, ThreadGetsClient, ThreadDone, RegistryNext
<1>3. ASSUME CacheAges \/ ClearRegistry
      PROVE  RegistryNext
  BY <1>3 DEF CacheAges, ClearRegistry, RegistryNext
<1>4. ASSUME \/ Start \/ Started \/ StartFails \/ SyncFlush \/ SyncStored \/ Terminate
             \/ WatchdogFires \/ Drained \/ \E l \in Loops : StopLoop(l)
             \/ FinalFlush \/ FlushEnds \/ ClosePool \/ PoolJoined
             \/ UNCHANGED vars
      PROVE  UNCHANGED registry
  BY <1>4 DEF Start, Started, StartFails, SyncFlush, SyncStored, Terminate, WatchdogFires,
     Drained, StopLoop, FinalFlush, FlushEnds, ClosePool, PoolJoined, vars
<1> QED
  BY <1>1, <1>2, <1>3, <1>4, Zenon DEF Next

\* The lifespan takes the steps of the registry.
LEMMA LifespanUsesRegistry == Spec => RegistrySpec
<1>1. Init => RegistryInit
  BY DEF Init
<1> QED
  BY <1>1, StepsOfRegistry, PTL DEF Spec, RegistrySpec

\* A client that is there is never built again.
THEOREM SessionsAreShared == Spec => []NoBuildForCached
<1>1. RegistryInv => NoBuildForCached
  BY DEF RegistryInv, NoBuildForCached
<1> QED
  BY <1>1, LifespanUsesRegistry, RegistryInvariant, PTL

\* Conversions share a client only if its key tells them apart from nobody:
\* with addresses without bars, digest, address and model agree.
THEOREM ClientsAreOwn == Spec => []OwnClient
<1>1. RegistryInv => OwnClient
  BY KeyTells DEF RegistryInv, OwnClient
<1> QED
  BY <1>1, LifespanUsesRegistry, RegistryInvariant, PTL

\* What holds in each phase.
Beginning ==
  phase \in {"off", "starting"} =>
    /\ pool = <<>> /\ counted = {}
    /\ \A j \in Job : at[j] = "idle" /\ task[j] = "new"
Flushed ==
  /\ phase = "flushing" => counted \cap Api \subseteq stored \cup flushing \cup cutOff
  /\ phase \in {"clearing", "closing", "joining", "exited"} =>
       counted \cap Api \subseteq stored \cup cutOff
\* A handler of the API met an open executor, and has ended before the loops.
ApiBeforeShutdown ==
  /\ refused \subseteq Ui
  /\ phase \notin {"serving", "draining"} =>
       \A r \in Api : task[r] \notin {"awaiting", "answering"}
Quiet == phase = "exited" => Busy = {} /\ pool = <<>>

LifeInv ==
  /\ TypeOK /\ RegistryInv
  /\ Beginning /\ ApiBeforeShutdown /\ Flushed /\ Quiet
  /\ phase \in {"starting", "serving"} => poolOpen

LEMMA LifeStarts == Init => LifeInv
<1> SUFFICES ASSUME Init
             PROVE  LifeInv
  OBVIOUS
<1>1. RegistryInv
  BY RegistryStarts DEF Init
<1>2. /\ phase = "off" /\ running = {} /\ pool = <<>> /\ poolOpen = FALSE
      /\ task = [r \in Job |-> "new"] /\ at = [j \in Job |-> "idle"]
      /\ counted = {} /\ flushing = {} /\ stored = {} /\ cutOff = {} /\ refused = {}
  BY DEF Init, RegistryInit
<1>3. /\ task \in [Job -> {"new", "awaiting", "answering", "over"}]
      /\ \A r \in Job : task[r] = "new" /\ at[r] = "idle"
  BY <1>2
<1>4. pool \in Seq(Job)
  BY <1>2
<1>5. TypeOK
  BY <1>1, <1>2, <1>3, <1>4 DEF TypeOK, RegistryInv, Phases
<1>6. Beginning /\ Flushed /\ Quiet
  BY <1>2, <1>3 DEF Beginning, Flushed, Quiet
<1>7. ApiBeforeShutdown
  BY <1>2, <1>3, LifespanAssumption DEF ApiBeforeShutdown
<1> QED
  BY <1>1, <1>2, <1>5, <1>6, <1>7 DEF LifeInv

LEMMA LifeSteps == LifeInv /\ [Next]_vars => LifeInv'
<1> SUFFICES ASSUME LifeInv, [Next]_vars
             PROVE  LifeInv'
  OBVIOUS
<1> DEFINE Tasks == {"new", "awaiting", "answering", "over"}
<1>0. /\ phase \in Phases /\ running \subseteq Loops
      /\ task \in [Job -> Tasks] /\ pool \in Seq(Job) /\ poolOpen \in BOOLEAN
      /\ flushing \subseteq counted /\ stored \subseteq counted
      /\ cutOff \subseteq counted
      /\ counted \cup refused \subseteq Job
      /\ Beginning /\ ApiBeforeShutdown /\ Flushed /\ Quiet
      /\ phase \in {"starting", "serving"} => poolOpen
      /\ Job = Api \cup Ui /\ Api \cap Ui = {}
  BY LifespanAssumption DEF LifeInv, TypeOK
<1>1. RegistryInv'
  BY StepsOfRegistry, RegistrySteps DEF LifeInv
<1>2. RegistryTypeOK'
  BY <1>1 DEF RegistryInv
<1> USE DEF handlers, analytics, lifecycle, registry
<1>3. ASSUME NEW r \in Job, NEW there \in Tasks, Moves(r, there)
      PROVE  /\ task' \in [Job -> Tasks] /\ task'[r] = there
             /\ \A q \in Job \ {r} : task'[q] = task[q]
  BY <1>0, <1>3 DEF Moves
<1>4. ASSUME NEW r \in Job, Submit(r)
      PROVE  LifeInv'
  <2>1. /\ phase \notin {"off", "starting", "exited"} /\ phase' = phase
        /\ r \in Api => phase = "serving"
        /\ UNCHANGED <<at, running, poolOpen, counted, flushing, stored, cutOff>>
    BY <1>0, <1>4 DEF Submit, LoopRuns
  <2>2. CASE poolOpen
    <3>1. /\ Moves(r, "awaiting") /\ pool' = Append(pool, r) /\ refused' = refused
      BY <1>4, <2>2 DEF Submit
    <3>2. pool' \in Seq(Job)
      BY <1>0, <3>1
    <3>3. TypeOK'
      BY <1>0, <1>2, <1>3, <2>1, <3>1, <3>2 DEF TypeOK
    <3>4. ApiBeforeShutdown'
      BY <1>0, <1>3, <2>1, <3>1 DEF ApiBeforeShutdown
    <3> QED
      BY <1>0, <1>1, <2>1, <3>3, <3>4 DEF LifeInv, Beginning, Flushed, Quiet
  <2>3. CASE ~poolOpen
    <3>1. Moves(r, "over") /\ refused' = refused \cup {r} /\ pool' = pool
      BY <1>4, <2>3 DEF Submit
    <3>2. r \in Ui
      BY <1>0, <2>1, <2>3
    <3>3. TypeOK'
      BY <1>0, <1>2, <1>3, <2>1, <3>1 DEF TypeOK
    <3>4. ApiBeforeShutdown'
      BY <1>0, <1>3, <2>1, <3>1, <3>2 DEF ApiBeforeShutdown
    <3> QED
      BY <1>0, <1>1, <2>1, <3>3, <3>4 DEF LifeInv, Beginning, Flushed, Quiet
  <2> QED
    BY <2>2, <2>3
<1>5. ASSUME NEW r \in Job, Answer(r)
      PROVE  LifeInv'
  <2>1. /\ phase \notin {"off", "exited"} /\ task[r] = "awaiting"
        /\ UNCHANGED <<at, phase, running, pool, poolOpen, refused, counted,
                      flushing, stored, cutOff>>
    BY <1>5 DEF Answer, LoopRuns
  <2>2. PICK there \in {"answering", "over"} : Moves(r, there)
    BY <1>5 DEF Answer
  <2>3. phase # "starting"
    BY <1>0, <2>1 DEF Beginning
  <2>4. TypeOK'
    BY <1>0, <1>2, <1>3, <2>1, <2>2 DEF TypeOK
  <2>5. ApiBeforeShutdown'
    BY <1>0, <1>3, <2>1, <2>2 DEF ApiBeforeShutdown
  <2> QED
    BY <1>0, <1>1, <2>1, <2>3, <2>4, <2>5 DEF LifeInv, Beginning, Flushed, Quiet
<1>6. ASSUME NEW r \in Job, GiveUp(r)
      PROVE  LifeInv'
  <2>1. /\ phase \notin {"off", "exited"} /\ task[r] = "awaiting" /\ Moves(r, "over")
        /\ UNCHANGED <<at, phase, running, pool, poolOpen, refused, counted, flushing,
                      stored, cutOff>>
    BY <1>6 DEF GiveUp, LoopRuns
  <2>2. phase # "starting"
    BY <1>0, <2>1 DEF Beginning
  <2>4. TypeOK'
    BY <1>0, <1>2, <1>3, <2>1 DEF TypeOK
  <2>5. ApiBeforeShutdown'
    BY <1>0, <1>3, <2>1 DEF ApiBeforeShutdown
  <2> QED
    BY <1>0, <1>1, <2>1, <2>2, <2>4, <2>5 DEF LifeInv, Beginning, Flushed, Quiet
<1>7. ASSUME NEW r \in Job, Record(r)
      PROVE  LifeInv'
  <2>1. /\ phase \notin {"off", "exited"} /\ task[r] = "answering" /\ Moves(r, "over")
        /\ counted' = counted \cup {r}
        /\ UNCHANGED <<at, phase, running, pool, poolOpen, refused, flushing,
                      stored, cutOff>>
    BY <1>7 DEF Record, LoopRuns
  <2>2. phase # "starting" /\ (phase \notin {"serving", "draining"} => r \notin Api)
    BY <1>0, <2>1 DEF Beginning, ApiBeforeShutdown
  <2>3. TypeOK'
    BY <1>0, <1>2, <1>3, <2>1 DEF TypeOK
  <2>4. ApiBeforeShutdown'
    BY <1>0, <1>3, <2>1 DEF ApiBeforeShutdown
  <2>5. Flushed'
    BY <1>0, <2>1, <2>2 DEF Flushed
  <2> QED
    BY <1>0, <1>1, <2>1, <2>2, <2>3, <2>4, <2>5 DEF LifeInv, Beginning, Quiet
<1>8. ASSUME NEW r \in Job, WorkerTakes(r)
      PROVE  LifeInv'
  <2>1. /\ pool # <<>> /\ pool' = Tail(pool)
        /\ UNCHANGED <<phase, running, task, poolOpen, refused, counted, flushing,
                      stored, cutOff>>
    BY <1>8 DEF WorkerTakes
  <2>2. pool' \in Seq(Job)
    BY <1>0, <2>1
  <2>3. phase \notin {"off", "starting", "exited"}
    BY <1>0, <2>1 DEF Beginning, Quiet
  <2>4. TypeOK'
    BY <1>0, <1>2, <2>1, <2>2 DEF TypeOK
  <2> QED
    BY <1>0, <1>1, <2>1, <2>3, <2>4
       DEF LifeInv, Beginning, ApiBeforeShutdown, Flushed, Quiet
<1>9. ASSUME NEW r \in Job, ThreadGetsClient(r) \/ ThreadDone(r)
      PROVE  LifeInv'
  <2>1. /\ r \in Busy
        /\ UNCHANGED <<phase, running, task, pool, poolOpen, refused, counted,
                      flushing, stored, cutOff>>
    BY <1>9 DEF ThreadGetsClient, ThreadDone, Hit, Miss, Built, FallsBack, Done, Busy
  <2>2. phase \notin {"off", "starting", "exited"}
    BY <1>0, <2>1 DEF Beginning, Quiet, Busy
  <2>3. TypeOK'
    BY <1>0, <1>2, <2>1 DEF TypeOK
  <2> QED
    BY <1>0, <1>1, <2>1, <2>2, <2>3
       DEF LifeInv, Beginning, ApiBeforeShutdown, Flushed, Quiet
<1>10. ASSUME UNCHANGED <<at, task, pool, refused, counted>>,
              phase' \in Phases, running' \subseteq Loops, poolOpen' \in BOOLEAN,
              flushing' \subseteq counted, stored' \subseteq counted,
              cutOff' \subseteq counted,
              phase' = "off" => phase = "off",
              phase' = "starting" => phase \in {"off", "starting"},
              phase' \in {"starting", "serving"} => poolOpen',
              phase' \notin {"serving", "draining"} =>
                \/ phase \notin {"serving", "draining"}
                \/ \A r \in Api : task[r] \in {"new", "over"},
              Flushed', phase' = "exited" => Busy = {} /\ pool = <<>>
       PROVE  LifeInv'
  <2>1. TypeOK'
    BY <1>0, <1>2, <1>10 DEF TypeOK
  <2>2. ApiBeforeShutdown'
    BY <1>0, <1>10 DEF ApiBeforeShutdown
  <2>3. Beginning' /\ Quiet'
    BY <1>0, <1>10 DEF Beginning, Quiet, Busy
  <2> QED
    BY <1>1, <1>10, <2>1, <2>2, <2>3 DEF LifeInv
<1>11. CASE CacheAges \/ UNCHANGED vars
  <2>1. UNCHANGED <<at, phase, running, task, pool, poolOpen, refused, counted,
                    flushing, stored, cutOff>>
    BY <1>11 DEF CacheAges, Expire, vars
  <2> QED
    BY <1>0, <1>10, <2>1 DEF Flushed, Quiet
<1>12. CASE Start
  BY <1>0, <1>10, <1>12 DEF Start, Phases, Beginning, Flushed
<1>13. CASE Started
  BY <1>0, <1>10, <1>13 DEF Started, Phases, Flushed
<1>14. CASE StartFails
  <2>1. Busy = {} /\ counted = {} /\ pool = <<>>
    BY <1>0, <1>14 DEF StartFails, Beginning, Busy
  <2> QED
    BY <1>0, <1>10, <1>14, <2>1 DEF StartFails, Phases, Flushed
<1>15. CASE SyncFlush \/ SyncStored
  BY <1>0, <1>10, <1>15 DEF SyncFlush, SyncStored, FlushDue, Flushed
<1>16. CASE Terminate \/ WatchdogFires
  BY <1>0, <1>10, <1>16 DEF Terminate, WatchdogFires, Phases, Flushed
<1>17. CASE Drained
  BY <1>0, <1>10, <1>17 DEF Drained, Phases, Flushed
<1>18. ASSUME NEW l \in Loops, StopLoop(l)
       PROVE  LifeInv'
  BY <1>0, <1>10, <1>18 DEF StopLoop, Flushed
<1>19. CASE FinalFlush
  BY <1>0, <1>10, <1>19 DEF FinalFlush, FlushDue, Phases, Flushed
<1>20. CASE FlushEnds
  BY <1>0, <1>10, <1>20 DEF FlushEnds, Phases, Flushed
<1>21. CASE ClearRegistry
  BY <1>0, <1>10, <1>21 DEF ClearRegistry, clear, Phases, Flushed
<1>22. CASE ClosePool
  BY <1>0, <1>10, <1>22 DEF ClosePool, Phases, Flushed
<1>23. CASE PoolJoined
  BY <1>0, <1>10, <1>23 DEF PoolJoined, Phases, Flushed
<1> QED
  BY <1>4, <1>5, <1>6, <1>7, <1>8, <1>9, <1>11, <1>12, <1>13, <1>14, <1>15,
     <1>16, <1>17, <1>18, <1>19, <1>20, <1>21, <1>22, <1>23 DEF Next

LEMMA LifeInvariant == Spec => []LifeInv
  BY LifeStarts, LifeSteps, PTL DEF Spec

\* The types of the lifespan and of the registry in it.
THEOREM LifespanTyping == Spec => []TypeOK
<1>1. LifeInv => TypeOK
  BY DEF LifeInv
<1> QED
  BY <1>1, LifeInvariant, PTL

\* The final flush comes after the last count of the API: none is left behind
\* but those of a flush that stop() has cut off.
THEOREM ApiCountsReachStore == Spec => []ApiCountsStored
<1>1. LifeInv => ApiCountsStored
  BY DEF LifeInv, Flushed, ApiCountsStored
<1> QED
  BY <1>1, LifeInvariant, PTL
=============================================================================
