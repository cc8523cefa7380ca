--------------------------- MODULE StatisticsProofs ---------------------------
(***************************************************************************)
(* Proofs about Periods and Statistics, for any finite set of days, any    *)
(* token counts and any behaviour of the store.  The calendar first: every *)
(* day has a date, and ISO week keys name the weeks from Monday to Sunday. *)
(* Then the buckets: an access counts in one day, in its week and in the   *)
(* total alike, so the shown counters add up.  The sums are folds over the *)
(* set of days; what is needed of them is proved before.                   *)
(***************************************************************************)
EXTENDS Statistics, AnalyticsProofs, FiniteSetTheorems, WellFoundedInduction

-----------------------------------------------------------------------------
(* Sums over finite sets.  A set of counterexamples that is not empty has  *)
(* a smallest member: that is how the inductions below are carried out.    *)

\* Among some subsets of a finite set there is one that contains no other.
LEMMA SmallestSet ==
  ASSUME NEW S, IsFiniteSet(S), NEW T \in SUBSET (SUBSET S), T # {}
  PROVE  \E U \in T : \A V \in T : V \subseteq U => V = U
<1>1. IsWellFoundedOn(StrictSubsetOrdering(S), SUBSET S)
  BY FS_StrictSubsetOrderingWellFounded, FS_FiniteSubsetsOfFinite
<1>2. PICK U \in T : \A V \in T : ~(<<V, U>> \in StrictSubsetOrdering(S))
  BY <1>1, WFMin
<1> QED
  BY <1>2 DEF StrictSubsetOrdering

\* The member the fold takes first.
Pick(S) == CHOOSE x \in S : TRUE

\* g has the sums of f over the subsets of S.
IsSum(g, f, S) ==
  g = [s \in SUBSET S |->
         IF s = {} THEN 0 ELSE f[Pick(s)] + g[s \ {Pick(s)}]]

\* A set that is not empty has one.
LEMMA PickIn == \A S : S # {} => Pick(S) \in S
  BY DEF Pick

\* Two such functions agree where both are defined.
LEMMA SumUnique ==
  ASSUME NEW f, NEW S, IsFiniteSet(S), NEW A, S \subseteq A, NEW B, S \subseteq B,
         NEW g, IsSum(g, f, A), NEW h, IsSum(h, f, B)
  PROVE  g[S] = h[S]
<1> DEFINE Bad == {s \in SUBSET S : g[s] # h[s]}
<1>1. SUFFICES ASSUME Bad # {}
               PROVE  FALSE
  OBVIOUS
<1>2. PICK s \in Bad : \A v \in Bad : v \subseteq s => v = s
  <2>1. Bad \in SUBSET (SUBSET S)
    OBVIOUS
  <2> HIDE DEF Bad
  <2> QED
    BY <1>1, <2>1, SmallestSet
<1>3. s \in SUBSET A /\ s \in SUBSET B /\ g[s] # h[s] /\ s \subseteq S
  OBVIOUS
<1>4. /\ g[s] = IF s = {} THEN 0 ELSE f[Pick(s)] + g[s \ {Pick(s)}]
      /\ h[s] = IF s = {} THEN 0 ELSE f[Pick(s)] + h[s \ {Pick(s)}]
  BY <1>3 DEF IsSum
<1>5. s # {}
  BY <1>3, <1>4
<1>6. s \ {Pick(s)} \in SUBSET S /\ s \ {Pick(s)} # s /\ s \ {Pick(s)} \subseteq s
  BY <1>3, <1>5, PickIn
<1>7. g[s \ {Pick(s)}] = h[s \ {Pick(s)}]
  BY <1>2, <1>6
<1> QED
  BY <1>3, <1>4, <1>5, <1>7

\* There is one for every finite set.
LEMMA SumExists ==
  ASSUME NEW f, NEW S, IsFiniteSet(S)
  PROVE  \E g : IsSum(g, f, S)
<1> DEFINE Bad == {s \in SUBSET S : ~ \E g : IsSum(g, f, s)}
<1>1. SUFFICES ASSUME Bad # {}
               PROVE  FALSE
  OBVIOUS
<1>2. PICK U \in Bad : \A v \in Bad : v \subseteq U => v = U
  <2>1. Bad \in SUBSET (SUBSET S)
    OBVIOUS
  <2> HIDE DEF Bad
  <2> QED
    BY <1>1, <2>1, SmallestSet
<1> DEFINE G(s) == CHOOSE g : IsSum(g, f, s)
<1>3. \A s \in SUBSET U : s # U => IsSum(G(s), f, s)
  <2> SUFFICES ASSUME NEW s \in SUBSET U, s # U
               PROVE  IsSum(G(s), f, s)
    OBVIOUS
  <2>1. \E g : IsSum(g, f, s)
    BY <1>2
  <2> QED
    BY <2>1
<1> DEFINE Less(s) == s \ {Pick(s)}
           h == [s \in SUBSET U |->
                   IF s = {} THEN 0 ELSE f[Pick(s)] + G(Less(s))[Less(s)]]
<1> HIDE DEF G
<1>4. ASSUME NEW s \in SUBSET U, s # {}
      PROVE  G(Less(s))[Less(s)] = h[Less(s)]
  <2> DEFINE t == Less(s)
  <2>1. t \in SUBSET U /\ t # U /\ IsFiniteSet(t)
    BY <1>4, PickIn, FS_Subset
  <2>2. IsSum(G(t), f, t)
    BY <1>3, <2>1
  <2>3. G(t)[t] = IF t = {} THEN 0 ELSE f[Pick(t)] + G(t)[Less(t)]
    <3> HIDE DEF t
    <3> QED
      BY <2>2 DEF IsSum
  <2>4. h[t] = IF t = {} THEN 0 ELSE f[Pick(t)] + G(Less(t))[Less(t)]
    <3> HIDE DEF t
    <3> QED
      BY <2>1
  <2>5. CASE t = {}
    BY <2>3, <2>4, <2>5
  <2>6. ASSUME t # {}
        PROVE  G(t)[t] = h[t]
    <3> HIDE DEF t, h
    <3>1. /\ Less(t) \in SUBSET U /\ Less(t) # U /\ Less(t) \subseteq t
          /\ IsFiniteSet(Less(t))
      BY <2>1, <2>6, PickIn, FS_RemoveElement
    <3>2. IsSum(G(Less(t)), f, Less(t))
      BY <1>3, <3>1
    <3>3. G(t)[Less(t)] = G(Less(t))[Less(t)]
      BY <2>2, <3>1, <3>2, SumUnique
    <3> QED
      BY <2>3, <2>4, <2>6, <3>3
  <2> QED
    BY <2>5, <2>6
<1>5. h = [s \in SUBSET U |->
             IF s = {} THEN 0 ELSE f[Pick(s)] + h[s \ {Pick(s)}]]
  BY <1>4
<1>6. \E g : IsSum(g, f, U)
  BY <1>5 DEF IsSum
<1> QED
  BY <1>6

Sum(f, S) == SumFunctionOnSet(f, S)

\* The library's fold is this function, at S.
LEMMA SumIsSum ==
  ASSUME NEW f, NEW S, IsFiniteSet(S)
  PROVE  \E g : IsSum(g, f, S) /\ Sum(f, S) = g[S]
<1> DEFINE g == CHOOSE g : IsSum(g, f, S)
<1>1. IsSum(g, f, S)
  BY SumExists
<1>2. Sum(f, S) = g[S]
  BY DEF Sum, SumFunctionOnSet, FoldFunctionOnSet, MapThenFoldSet, IsSum, Pick
<1> QED
  BY <1>1, <1>2

\* The recursive equation of the sum.
LEMMA SumUnfolds ==
  ASSUME NEW f, NEW S, IsFiniteSet(S)
  PROVE  Sum(f, S) = IF S = {} THEN 0 ELSE f[Pick(S)] + Sum(f, S \ {Pick(S)})
<1>1. PICK g : IsSum(g, f, S) /\ Sum(f, S) = g[S]
  BY SumIsSum
<1>2. g[S] = IF S = {} THEN 0 ELSE f[Pick(S)] + g[S \ {Pick(S)}]
  BY <1>1 DEF IsSum
<1> DEFINE R == S \ {Pick(S)}
<1>3. IsFiniteSet(R) /\ R \subseteq S
  BY FS_RemoveElement
<1>4. g[R] = Sum(f, R)
  <2> HIDE DEF R
  <2>1. PICK h : IsSum(h, f, R) /\ Sum(f, R) = h[R]
    BY <1>3, SumIsSum
  <2> QED
    BY <1>1, <1>3, <2>1, SumUnique
<1> QED
  BY <1>1, <1>2, <1>4

\* A sum of naturals is a natural, and may begin with any of its terms.
LEMMA SumTakes ==
  ASSUME NEW D, NEW f \in [D -> Nat], NEW S \in SUBSET D, IsFiniteSet(S)
  PROVE  /\ Sum(f, S) \in Nat
         /\ \A x \in S : Sum(f, S) = f[x] + Sum(f, S \ {x})
<1> DEFINE Bad == {s \in SUBSET S :
                     ~ /\ Sum(f, s) \in Nat
                       /\ \A x \in s : Sum(f, s) = f[x] + Sum(f, s \ {x})}
<1>1. SUFFICES ASSUME Bad # {}
               PROVE  FALSE
  OBVIOUS
<1>2. PICK s \in Bad : \A v \in Bad : v \subseteq s => v = s
  <2>1. Bad \in SUBSET (SUBSET S)
    OBVIOUS
  <2> HIDE DEF Bad
  <2> QED
    BY <1>1, <2>1, SmallestSet
<1> DEFINE p == Pick(s)
<1>3. s \in SUBSET S /\ IsFiniteSet(s)
  BY FS_Subset
<1>4. Sum(f, s) = IF s = {} THEN 0 ELSE f[p] + Sum(f, s \ {p})
  BY <1>3, SumUnfolds
<1>5. s # {}
  BY <1>4
<1>6. p \in s
  BY <1>5, PickIn
<1> HIDE DEF p
<1>7. \A x \in s : s \ {x} \in SUBSET S /\ s \ {x} \notin Bad
  BY <1>2, <1>3
<1>8. \A x \in s : /\ Sum(f, s \ {x}) \in Nat /\ f[x] \in Nat
                   /\ \A y \in s \ {x} :
                        Sum(f, s \ {x}) = f[y] + Sum(f, (s \ {x}) \ {y})
  BY <1>3, <1>7
<1>9. Sum(f, s) = f[p] + Sum(f, s \ {p}) /\ Sum(f, s) \in Nat
  BY <1>4, <1>5, <1>6, <1>8
<1>10. ASSUME NEW x \in s, x # p
       PROVE  Sum(f, s) = f[x] + Sum(f, s \ {x})
  <2>1. /\ Sum(f, s \ {p}) = f[x] + Sum(f, (s \ {p}) \ {x})
        /\ Sum(f, s \ {x}) = f[p] + Sum(f, (s \ {x}) \ {p})
    BY <1>6, <1>8, <1>10
  <2>2. (s \ {p}) \ {x} = (s \ {x}) \ {p}
    OBVIOUS
  <2>3. Sum(f, (s \ {x}) \ {p}) \in Nat
    <3>1. (s \ {x}) \ {p} \in SUBSET S /\ (s \ {x}) \ {p} # s
      BY <1>3, <1>6
    <3> QED
      BY <1>2, <3>1
  <2> DEFINE a == f[p]  b == f[x]  c == Sum(f, (s \ {x}) \ {p})
  <2>4. a \in Nat /\ b \in Nat /\ c \in Nat
    BY <1>6, <1>8, <2>3
  <2>5. Sum(f, s \ {p}) = b + c /\ Sum(f, s \ {x}) = a + c
    BY <2>1, <2>2, Zenon
  <2>6. Sum(f, s) = a + (b + c)
    BY <1>9, <2>5, Zenon
  <2> HIDE DEF a, b, c
  <2>7. a + (b + c) = b + (a + c)
    BY <2>4
  <2>8. Sum(f, s) = b + (a + c)
    BY <2>6, <2>7, Zenon
  <2> QED
    BY <2>5, <2>8, Zenon DEF b
<1> QED
  BY <1>9, <1>10

\* Functions that agree on a set have the same sum over it.
LEMMA SumAgrees ==
  ASSUME NEW D, NEW f \in [D -> Nat], NEW g \in [D -> Nat],
         NEW S \in SUBSET D, IsFiniteSet(S), \A x \in S : f[x] = g[x]
  PROVE  Sum(f, S) = Sum(g, S)
<1> DEFINE Bad == {s \in SUBSET S : Sum(f, s) # Sum(g, s)}
<1>1. SUFFICES ASSUME Bad # {}
               PROVE  FALSE
  OBVIOUS
<1>2. PICK s \in Bad : \A v \in Bad : v \subseteq s => v = s
  <2>1. Bad \in SUBSET (SUBSET S)
    OBVIOUS
  <2> HIDE DEF Bad
  <2> QED
    BY <1>1, <2>1, SmallestSet
<1>3. s \in SUBSET S /\ IsFiniteSet(s) /\ Sum(f, s) # Sum(g, s)
  BY FS_Subset
<1>4. /\ Sum(f, s) = IF s = {} THEN 0 ELSE f[Pick(s)] + Sum(f, s \ {Pick(s)})
      /\ Sum(g, s) = IF s = {} THEN 0 ELSE g[Pick(s)] + Sum(g, s \ {Pick(s)})
  BY <1>3, SumUnfolds
<1>5. s # {} /\ Pick(s) \in s
  BY <1>3, <1>4, PickIn
<1>6. Sum(f, s \ {Pick(s)}) = Sum(g, s \ {Pick(s)})
  BY <1>2, <1>3, <1>5
<1> QED
  BY <1>3, <1>4, <1>5, <1>6

\* Raising one term raises the sum by as much; terms outside do not matter.
LEMMA SumRaised ==
  ASSUME NEW D, NEW f \in [D -> Nat], NEW S \in SUBSET D, IsFiniteSet(S),
         NEW i \in D, NEW v \in Nat,
         NEW g \in [D -> Nat],
         g[i] = f[i] + v, \A x \in D : x # i => g[x] = f[x]
  PROVE  /\ i \in S => Sum(g, S) = Sum(f, S) + v
         /\ i \notin S => Sum(g, S) = Sum(f, S)
<1>1. CASE i \notin S
  <2>1. \A x \in S : f[x] = g[x]
    BY <1>1
  <2> QED
    BY <1>1, <2>1, SumAgrees, SumTakes
<1>2. CASE i \in S
  <2>1. IsFiniteSet(S \ {i}) /\ S \ {i} \in SUBSET D
    BY FS_RemoveElement
  <2>2. \A x \in S \ {i} : f[x] = g[x]
    OBVIOUS
  <2>3. Sum(f, S \ {i}) = Sum(g, S \ {i}) /\ Sum(f, S \ {i}) \in Nat
    <3> DEFINE R == S \ {i}
    <3>1. R \in SUBSET D /\ IsFiniteSet(R) /\ \A x \in R : f[x] = g[x]
      BY <2>1, <2>2
    <3> HIDE DEF R
    <3>2. Sum(f, R) = Sum(g, R) /\ Sum(f, R) \in Nat
      BY <3>1, SumAgrees, SumTakes
    <3> QED
      BY <3>2 DEF R
  <2>4. Sum(f, S) = f[i] + Sum(f, S \ {i}) /\ Sum(g, S) = g[i] + Sum(g, S \ {i})
    BY <1>2, SumTakes
  <2> QED
    BY <1>2, <2>3, <2>4
<1> QED
  BY <1>1, <1>2

\* Nothing added up is nothing.
LEMMA SumOfZeros ==
  ASSUME NEW D, NEW f \in [D -> Nat], NEW S \in SUBSET D, IsFiniteSet(S),
         \A x \in S : f[x] = 0
  PROVE  Sum(f, S) = 0
<1> DEFINE Bad == {s \in SUBSET S : Sum(f, s) # 0}
<1>1. SUFFICES ASSUME Bad # {}
               PROVE  FALSE
  OBVIOUS
<1>2. PICK s \in Bad : \A v \in Bad : v \subseteq s => v = s
  <2>1. Bad \in SUBSET (SUBSET S)
    OBVIOUS
  <2> HIDE DEF Bad
  <2> QED
    BY <1>1, <2>1, SmallestSet
<1>3. s \in SUBSET S /\ IsFiniteSet(s) /\ Sum(f, s) # 0
  BY FS_Subset
<1>4. Sum(f, s) = IF s = {} THEN 0 ELSE f[Pick(s)] + Sum(f, s \ {Pick(s)})
  BY <1>3, SumUnfolds
<1>5. s # {} /\ Pick(s) \in s
  BY <1>3, <1>4, PickIn
<1>6. Sum(f, s \ {Pick(s)}) = 0
  BY <1>2, <1>3, <1>5
<1> QED
  BY <1>3, <1>4, <1>5, <1>6

-----------------------------------------------------------------------------
(* The calendar.                                                           *)

\* A year has 365 or 366 days, and some years after year 0 their leap days.
LEMMA YearLengths ==
  ASSUME NEW y \in Nat
  PROVE  /\ DaysBefore(y + 1) \in Int
         /\ DaysBefore(y + 1) <= 366 * y /\ 365 * y <= DaysBefore(y + 1)
         /\ DaysBefore(y + 2) - DaysBefore(y + 1) \in {365, 366}
BY DEF DaysBefore

\* Every day lies in the year YearOf() gives.
LEMMA YearOfDay ==
  ASSUME NEW n \in Nat \ {0}
  PROVE  /\ YearOf(n) \in Nat \ {0}
         /\ DaysBefore(YearOf(n)) < n /\ n <= DaysBefore(YearOf(n) + 1)
<1> DEFINE T == {y \in Nat : n <= DaysBefore(y + 1)}
<1>1. T # {} /\ T \subseteq Nat
  BY YearLengths
<1>2. PICK y \in T : \A z \in T : ~(<<z, y>> \in OpToRel(<, Nat))
  <2> HIDE DEF T
  <2> QED
    BY <1>1, NatLessThanWellFounded, WFMin
<1>3. \A z \in T : ~(z < y)
  BY <1>2 DEF OpToRel
<1>4. y # 0
  BY DEF DaysBefore
<1>5. DaysBefore(y) < n
  <2>1. y - 1 \in Nat /\ y - 1 \notin T
    BY <1>3, <1>4
  <2>2. (y - 1) + 1 = y
    OBVIOUS
  <2>3. DaysBefore(y) \in Int
    BY <2>1, <2>2, YearLengths
  <2> QED
    BY <2>1, <2>2, <2>3
<1>6. y \in (n \div 366)..(n \div 365 + 1)
  <2>1. n <= 366 * y
    BY YearLengths
  <2>2. 365 * (y - 1) < n
    <3> DEFINE z == y - 1
    <3>1. z \in Nat /\ z + 1 = y
      BY <1>4
    <3> HIDE DEF z
    <3>2. 365 * z < n
      BY <1>5, <3>1, YearLengths
    <3> QED
      BY <3>2 DEF z
  <2>3. n \div 366 <= y /\ y <= n \div 365 + 1
    BY <2>1, <2>2
  <2> QED
    BY <2>3
<1>7. \E z \in (n \div 366)..(n \div 365 + 1) :
        DaysBefore(z) < n /\ n <= DaysBefore(z + 1)
  BY <1>5, <1>6
<1>8. /\ YearOf(n) \in (n \div 366)..(n \div 365 + 1)
      /\ DaysBefore(YearOf(n)) < n /\ n <= DaysBefore(YearOf(n) + 1)
  BY <1>7 DEF YearOf
<1>9. YearOf(n) # 0
  <2>1. DaysBefore(0 + 1) = 0
    BY DEF DaysBefore
  <2> QED
    BY <1>8, <2>1
<1> QED
  BY <1>8, <1>9

\* The number of a day's week: the first of its seven days is a Monday, the
\* fourth a Thursday.
Week(n) == (n - 1) \div 7

\* Two days have one ISO week key exactly if they lie in one week from Monday to
\* Sunday, be it across the turn of a year.
THEOREM WeekKeysAreWeeks ==
  ASSUME NEW n \in Nat \ {0}, NEW k \in Nat \ {0}
  PROVE  WeekKey(n) = WeekKey(k) <=> Week(n) = Week(k)
<1> DEFINE Th(d) == 7 * Week(d) + 4
           In(d) == (Th(d) - DaysBefore(YearOf(Th(d))) + 6) \div 7
<1>1. \A d \in Nat \ {0} : Th(d) \in Nat \ {0} /\ Week(d) \in Nat
  BY DEF Week
<1>2. \A d \in Nat \ {0} : WeekKey(d) = <<"week", YearOf(Th(d)), In(d)>>
  BY DEF WeekKey, Week
<1>3. ASSUME YearOf(Th(n)) = YearOf(Th(k)), In(n) = In(k)
      PROVE  Week(n) = Week(k)
  <2>1. PICK b \in Int : b = DaysBefore(YearOf(Th(n)))
    <3>1. YearOf(Th(n)) \in Nat \ {0}
      BY <1>1, YearOfDay
    <3> DEFINE z == YearOf(Th(n)) - 1
    <3>2. z \in Nat /\ z + 1 = YearOf(Th(n))
      BY <3>1
    <3> QED
      BY <3>2, YearLengths
  <2>2. ((7 * Week(n) + 4) - b + 6) \div 7 = ((7 * Week(k) + 4) - b + 6) \div 7
    <3>1. In(n) = ((7 * Week(n) + 4) - b + 6) \div 7
      BY <2>1, Zenon
    <3>2. In(k) = ((7 * Week(k) + 4) - b + 6) \div 7
      BY <1>3, <2>1, Zenon
    <3> QED
      BY <1>3, <3>1, <3>2, Zenon
  <2>3. ASSUME NEW v \in Nat, NEW w \in Nat,
               ((7 * v + 4) - b + 6) \div 7 = ((7 * w + 4) - b + 6) \div 7
        PROVE  v = w
    BY <2>3
  <2> QED
    BY <1>1, <2>2, <2>3
<1> HIDE DEF Th, In
<1>4. WeekKey(n) = WeekKey(k) <=> YearOf(Th(n)) = YearOf(Th(k)) /\ In(n) = In(k)
  BY <1>2
<1>5. Week(n) = Week(k) => Th(n) = Th(k) /\ In(n) = In(k)
  BY DEF Th, In
<1> QED
  BY <1>3, <1>4, <1>5

Leap(y) == DaysBefore(y + 1) - DaysBefore(y) = 366

\* Every day lies in the month MonthOf() gives.
LEMMA MonthOfDay ==
  ASSUME NEW n \in Nat \ {0}
  PROVE  /\ MonthOf(n) \in 1..12
         /\ n - DaysBefore(YearOf(n)) \in
              DaysBeforeMonth(YearOf(n), MonthOf(n)) + 1
                ..DaysBeforeMonth(YearOf(n), MonthOf(n) + 1)
<1> DEFINE y == YearOf(n)  d == n - DaysBefore(y)
           In(m) == d \in DaysBeforeMonth(y, m) + 1..DaysBeforeMonth(y, m + 1)
<1>1. /\ y \in Nat \ {0} /\ DaysBefore(y) \in Int
      /\ d \in 1..366 /\ (~Leap(y) => d \in 1..365)
  <2>1. /\ y \in Nat \ {0}
        /\ DaysBefore(y) < n /\ n <= DaysBefore(y + 1)
    BY YearOfDay
  <2> DEFINE z == y - 1
  <2>2. z \in Nat /\ z + 1 = y /\ z + 2 = y + 1
    BY <2>1
  <2> HIDE DEF z, y
  <2>3. /\ DaysBefore(y) \in Int /\ DaysBefore(y + 1) \in Int
        /\ DaysBefore(y + 1) - DaysBefore(y) \in {365, 366}
    BY <2>1, <2>2, YearLengths
  <2> QED
    BY <2>1, <2>3 DEF Leap
<1> HIDE DEF d, y
<1>2. ASSUME ~Leap(y)
      PROVE  \E m \in 1..12 : In(m)
  <2>1. /\ DaysBeforeMonth(y, 1) = 0 /\ DaysBeforeMonth(y, 2) = 31
        /\ DaysBeforeMonth(y, 3) = 59 /\ DaysBeforeMonth(y, 4) = 90
        /\ DaysBeforeMonth(y, 5) = 120 /\ DaysBeforeMonth(y, 6) = 151
        /\ DaysBeforeMonth(y, 7) = 181 /\ DaysBeforeMonth(y, 8) = 212
        /\ DaysBeforeMonth(y, 9) = 243 /\ DaysBeforeMonth(y, 10) = 273
        /\ DaysBeforeMonth(y, 11) = 304 /\ DaysBeforeMonth(y, 12) = 334
        /\ DaysBeforeMonth(y, 13) = 365
    BY <1>2 DEF DaysBeforeMonth, Leap
  <2>2. In(1) \/ In(2) \/ In(3) \/ In(4) \/ In(5) \/ In(6) \/ In(7) \/ In(8)
          \/ In(9) \/ In(10) \/ In(11) \/ In(12)
    BY <1>1, <1>2, <2>1
  <2> HIDE DEF In
  <2> QED
    BY <2>2
<1>3. ASSUME Leap(y)
      PROVE  \E m \in 1..12 : In(m)
  <2>1. /\ DaysBeforeMonth(y, 1) = 0 /\ DaysBeforeMonth(y, 2) = 31
        /\ DaysBeforeMonth(y, 3) = 60 /\ DaysBeforeMonth(y, 4) = 91
        /\ DaysBeforeMonth(y, 5) = 121 /\ DaysBeforeMonth(y, 6) = 152
        /\ DaysBeforeMonth(y, 7) = 182 /\ DaysBeforeMonth(y, 8) = 213
        /\ DaysBeforeMonth(y, 9) = 244 /\ DaysBeforeMonth(y, 10) = 274
        /\ DaysBeforeMonth(y, 11) = 305 /\ DaysBeforeMonth(y, 12) = 335
        /\ DaysBeforeMonth(y, 13) = 366
    BY <1>3 DEF DaysBeforeMonth, Leap
  <2>2. In(1) \/ In(2) \/ In(3) \/ In(4) \/ In(5) \/ In(6) \/ In(7) \/ In(8)
          \/ In(9) \/ In(10) \/ In(11) \/ In(12)
    BY <1>1, <1>3, <2>1
  <2> HIDE DEF In
  <2> QED
    BY <2>2
<1>4. \E m \in 1..12 : In(m)
  BY <1>2, <1>3
<1> QED
  BY <1>4 DEF MonthOf, d, y

\* Every day has a month and an ISO week, and lies in them: period_keys() never
\* formats a date that does not exist.
THEOREM KeysAreDates ==
  ASSUME NEW n \in Nat \ {0}
  PROVE  /\ MonthOf(n) \in 1..12
         /\ n - DaysBefore(YearOf(n)) \in
              DaysBeforeMonth(YearOf(n), MonthOf(n)) + 1
                ..DaysBeforeMonth(YearOf(n), MonthOf(n) + 1)
         /\ \E year \in Nat \ {0}, week \in 1..53 :
              WeekKey(n) = <<"week", year, week>>
<1> DEFINE th == 7 * Week(n) + 4  year == YearOf(th)
           week == (th - DaysBefore(year) + 6) \div 7
<1>1. th \in Nat \ {0}
  BY DEF Week
<1> HIDE DEF th
<1>2. year \in Nat \ {0} /\ DaysBefore(year) < th /\ th <= DaysBefore(year + 1)
  BY <1>1, YearOfDay
<1> HIDE DEF year
<1>3. PICK z \in Nat : z + 1 = year /\ z + 2 = year + 1
  <2> DEFINE z == year - 1
  <2>1. z \in Nat /\ z + 1 = year /\ z + 2 = year + 1
    BY <1>2
  <2> QED
    BY <2>1
<1>4. /\ DaysBefore(year) \in Int /\ DaysBefore(year + 1) \in Int
      /\ DaysBefore(year + 1) - DaysBefore(year) \in {365, 366}
  BY <1>2, <1>3, YearLengths
<1>5. th - DaysBefore(year) + 6 \in 7..372
  BY <1>1, <1>2, <1>4
<1>6. week \in 1..53
  BY <1>5
<1>7. WeekKey(n) = <<"week", year, week>>
  BY DEF WeekKey, Week, th, year
<1> QED
  BY <1>2, <1>6, <1>7, MonthOfDay

-----------------------------------------------------------------------------
(* The buckets.                                                            *)

\* An access counts under its own day and no other, under the week of its day
\* and no other, and in the total.
LEMMA KeysOfDay ==
  ASSUME NEW n \in Nat \ {0}, NEW i \in Nat \ {0}
  PROVE  /\ Total \in period_keys(i)
         /\ DayKey(n) \in period_keys(i) <=> n = i
         /\ WeekKey(n) \in period_keys(i) <=> Week(n) = Week(i)
<1>1. DayKey(n) = DayKey(i) <=> n = i
  BY DEF DayKey
<1>2. \A k \in Nat \ {0} : \E y, w : WeekKey(k) = <<"week", y, w>>
  BY DEF WeekKey
<1>3. WeekKey(n) = WeekKey(i) <=> Week(n) = Week(i)
  BY WeekKeysAreWeeks
<1> QED
  BY <1>1, <1>2, <1>3 DEF period_keys, Total, DayKey

\* The counts a counter f has under the days, and the days of one week.
Days(f, m) == [n \in Instant |-> f[<<m, DayKey(n)>>]]
WeekOf(i) == {n \in Instant : Week(n) = Week(i)}

\* The counter f adds up: its total over all days, its weeks over their days.
AddsUp(f) ==
  \A m \in Metric :
    /\ f[<<m, Total>>] = Sum(Days(f, m), Instant)
    /\ \A i \in Instant : f[<<m, WeekKey(i)>>] = Sum(Days(f, m), WeekOf(i))

\* Every day has its cells in the table of the counters.
LEMMA CellsOfDay ==
  ASSUME NEW m \in Metric, NEW n \in Instant
  PROVE  /\ n \in Nat \ {0}
         /\ <<m, Total>> \in Cell /\ <<m, DayKey(n)>> \in Cell
         /\ <<m, WeekKey(n)>> \in Cell
  BY AnalyticsAssumption DEF Cell, Period, period_keys

\* Counts of days are naturals.
LEMMA DaysType ==
  ASSUME NEW f \in Counter, NEW m \in Metric
  PROVE  Days(f, m) \in [Instant -> Nat]
  BY CellsOfDay DEF Days, Counter

\* The sets summed over are finite.
LEMMA DaysAreFinite ==
  /\ IsFiniteSet(Instant) /\ Instant \in SUBSET Instant
  /\ \A i : IsFiniteSet(WeekOf(i)) /\ WeekOf(i) \in SUBSET Instant
  BY StatisticsAssumption, FS_Subset DEF WeekOf

\* A counter nothing was recorded in adds up.
LEMMA ZeroAddsUp == AddsUp(Zero)
<1> SUFFICES ASSUME NEW m \in Metric
             PROVE  /\ Zero[<<m, Total>>] = Sum(Days(Zero, m), Instant)
                    /\ \A i \in Instant :
                         Zero[<<m, WeekKey(i)>>] = Sum(Days(Zero, m), WeekOf(i))
  BY DEF AddsUp
<1>1. Zero \in Counter
  BY DEF Zero, Counter
<1>2. /\ Days(Zero, m) \in [Instant -> Nat]
      /\ \A n \in Instant : Days(Zero, m)[n] = 0
  BY <1>1, DaysType, CellsOfDay DEF Days, Zero
<1>3. /\ Sum(Days(Zero, m), Instant) = 0
      /\ \A i \in Instant : Sum(Days(Zero, m), WeekOf(i)) = 0
  BY <1>2, DaysAreFinite, SumOfZeros DEF WeekOf
<1>4. \A c \in Cell : Zero[c] = 0
  BY DEF Zero
<1>5. <<m, Total>> \in Cell /\ \A i \in Instant : <<m, WeekKey(i)>> \in Cell
  BY CellsOfDay DEF Cell, Period
<1> QED
  BY <1>3, <1>4, <1>5

\* An access at any day leaves the buckets adding up.
LEMMA AccessAddsUp ==
  ASSUME NEW f \in Counter, AddsUp(f), NEW i \in Instant, NEW t \in Token
  PROVE  AddsUp(Plus(f, Bump(i, t)))
<1> DEFINE g == Plus(f, Bump(i, t))
<1> SUFFICES ASSUME NEW m \in Metric
             PROVE  /\ g[<<m, Total>>] = Sum(Days(g, m), Instant)
                    /\ \A j \in Instant :
                         g[<<m, WeekKey(j)>>] = Sum(Days(g, m), WeekOf(j))
  BY DEF AddsUp
<1> DEFINE v == IF m = "access" THEN 1 ELSE t
<1>0. v \in Nat
  BY AnalyticsAssumption
<1>1. ASSUME NEW p \in Period
      PROVE  g[<<m, p>>] = f[<<m, p>>] + (IF p \in period_keys(i) THEN v ELSE 0)
  BY <1>1 DEF Plus, Bump, PeriodKeys, Cell
<1>2. g \in Counter
  BY BumpType DEF Plus, Counter
<1> HIDE DEF g, v
<1>3. /\ Total \in Period
      /\ \A n \in Instant : DayKey(n) \in Period /\ WeekKey(n) \in Period
  BY DEF Period, period_keys
<1>4. /\ Days(f, m) \in [Instant -> Nat] /\ Days(g, m) \in [Instant -> Nat]
      /\ Days(g, m)[i] = Days(f, m)[i] + v
      /\ \A n \in Instant : n # i => Days(g, m)[n] = Days(f, m)[n]
  <2>1. ASSUME NEW n \in Instant
        PROVE  g[<<m, DayKey(n)>>]
                 = f[<<m, DayKey(n)>>] + (IF n = i THEN v ELSE 0)
    BY <1>1, <1>3, CellsOfDay, KeysOfDay
  <2> QED
    BY <1>2, <2>1, DaysType DEF Days
<1>5. ASSUME NEW S \in SUBSET Instant, IsFiniteSet(S)
      PROVE  /\ i \in S => Sum(Days(g, m), S) = Sum(Days(f, m), S) + v
             /\ i \notin S => Sum(Days(g, m), S) = Sum(Days(f, m), S)
  <2> DEFINE F == Days(f, m)  G == Days(g, m)
  <2>1. F \in [Instant -> Nat] /\ G \in [Instant -> Nat]
    BY <1>4
  <2>2. G[i] = F[i] + v /\ \A n \in Instant : n # i => G[n] = F[n]
    BY <1>4
  <2> HIDE DEF F, G
  <2>3. /\ i \in S => Sum(G, S) = Sum(F, S) + v
        /\ i \notin S => Sum(G, S) = Sum(F, S)
    BY <1>0, <1>5, <2>1, <2>2, SumRaised
  <2> QED
    BY <2>3 DEF F, G
<1>6. g[<<m, Total>>] = Sum(Days(g, m), Instant)
  <2>1. g[<<m, Total>>] = f[<<m, Total>>] + v
    BY <1>1, <1>3, CellsOfDay, KeysOfDay
  <2>2. f[<<m, Total>>] = Sum(Days(f, m), Instant)
    BY DEF AddsUp
  <2>3. Sum(Days(g, m), Instant) = Sum(Days(f, m), Instant) + v
    BY <1>5, DaysAreFinite
  <2> QED
    BY <2>1, <2>2, <2>3
<1>7. ASSUME NEW j \in Instant
      PROVE  g[<<m, WeekKey(j)>>] = Sum(Days(g, m), WeekOf(j))
  <2>1. WeekKey(j) \in period_keys(i) <=> i \in WeekOf(j)
    BY CellsOfDay, KeysOfDay DEF WeekOf
  <2>2. f[<<m, WeekKey(j)>>] = Sum(Days(f, m), WeekOf(j))
    BY DEF AddsUp
  <2>3. /\ <<m, WeekKey(j)>> \in Cell /\ f[<<m, WeekKey(j)>>] \in Nat
        /\ WeekOf(j) \in SUBSET Instant /\ IsFiniteSet(WeekOf(j))
    BY CellsOfDay, DaysAreFinite DEF Counter
  <2>4. CASE i \in WeekOf(j)
    <3>1. g[<<m, WeekKey(j)>>] = f[<<m, WeekKey(j)>>] + v
      BY <1>1, <1>3, <2>1, <2>4
    <3>2. Sum(Days(g, m), WeekOf(j)) = Sum(Days(f, m), WeekOf(j)) + v
      BY <1>5, <2>3, <2>4
    <3> QED
      BY <2>2, <3>1, <3>2
  <2>5. CASE i \notin WeekOf(j)
    <3>1. g[<<m, WeekKey(j)>>] = f[<<m, WeekKey(j)>>]
      BY <1>1, <1>3, <2>1, <2>3, <2>5
    <3>2. Sum(Days(g, m), WeekOf(j)) = Sum(Days(f, m), WeekOf(j))
      BY <1>5, <2>3, <2>5
    <3> QED
      BY <2>2, <3>1, <3>2
  <2> QED
    BY <2>4, <2>5
<1> QED
  BY <1>6, <1>7

\* What BucketsAddUp rests on: until the first load is over the store is empty,
\* so that the totals are nothing but the accesses of this process.
BucketsInv ==
  /\ starts = 0 => phase = "down"
  /\ starts = 0 \/ (starts = 1 /\ phase = "loading") =>
       store = Zero /\ orphan = Zero /\ loaded = Zero
  /\ starts = 1 => AddsUp(snapshot)

\* The strengthening is inductive, relative to the types and the ledgers.
LEMMA BucketsInvariant == Spec => []BucketsInv
<1>1. Init => BucketsInv
  BY DEF Init, BucketsInv
<1>2. TypeOK /\ CallShape /\ TotalsInv /\ BucketsInv /\ [Next]_vars => BucketsInv'
  <2> SUFFICES ASSUME TypeOK, CallShape, TotalsInv, BucketsInv, [Next]_vars
               PROVE  BucketsInv'
    OBVIOUS
  <2> USE DEF BucketsInv, memory, counts, call, backend, history
  <2>0. /\ ~Calling => unsent = Zero
        /\ phase = "down" => loaded = Zero /\ snapshot = Zero
        /\ phase # "down" => snapshot = totals
        /\ sync # "off" => phase = "running"
        /\ snapshot \in Counter /\ starts \in Nat
    BY DEF CallShape, TotalsInv, TypeOK
  <2>1. CASE Start
    <3>1. starts = 0 => starts' = 1 /\ AddsUp(snapshot')
      BY <2>0, <2>1, ZeroAddsUp DEF Start
    <3> QED
      BY <2>0, <2>1, <3>1 DEF Start
  <2>2. CASE LoadRead
    <3>1. starts = 1 => loaded' = Zero
      BY <2>2 DEF LoadRead, Zero
    <3> QED
      BY <2>2, <3>1 DEF LoadRead
  <2>3. CASE LoadReturns
    <3>1. starts = 1 => snapshot' = snapshot
      <4> SUFFICES ASSUME starts = 1
                   PROVE  Plus(totals, Zero) = totals
        BY <2>0, <2>3 DEF LoadReturns, Merged
      <4> QED
        BY DEF Plus, Zero, TypeOK, Counter
    <3> QED
      BY <2>3, <3>1 DEF LoadReturns
  <2>4. CASE LoadFails
    BY <2>4 DEF LoadFails
  <2>5. ASSUME NEW i \in Instant, NEW t \in Token, Access(i, t)
        PROVE  BucketsInv'
    <3>1. snapshot' = Plus(snapshot, Bump(i, t))
      BY <2>0, <2>5 DEF Access
    <3>2. starts = 1 => AddsUp(snapshot')
      BY <2>0, <3>1, AccessAddsUp
    <3> QED
      BY <2>5, <3>2 DEF Access
  <2>6. ASSUME UNCHANGED <<starts, snapshot>>, phase \notin {"down", "loading"},
               phase' # "loading"
        PROVE  BucketsInv'
    BY <2>6
  <2>7. CASE SyncIdle \/ SyncFlush \/ SyncWake
    <3>1. phase = "running" /\ UNCHANGED <<starts, snapshot, phase>>
      BY <2>0, <2>7 DEF SyncIdle, SyncFlush, SyncWake
    <3> QED
      BY <2>6, <3>1
  <2>8. ASSUME NEW S \in Batch, StoreApplies(S)
        PROVE  BucketsInv'
    BY <2>0, <2>6, <2>8 DEF StoreApplies, Calling
  <2>9. CASE CallReturns
    <3>1. phase \in {"running", "final"} /\ phase' \in {"running", "stopped"}
      BY <2>0, <2>9, Zenon DEF CallReturns, Calling
    <3> QED
      BY <2>6, <2>9, <3>1 DEF CallReturns
  <2>10. ASSUME NEW goesOn \in BOOLEAN, CallFails(goesOn)
         PROVE  BucketsInv'
    <3>1. phase \in {"running", "final"} /\ phase' \in {"running", "stopped"}
      BY <2>0, <2>10, Zenon DEF CallFails, Calling
    <3>2. UNCHANGED <<starts, snapshot>>
      BY <2>10 DEF CallFails
    <3> QED
      BY <2>6, <3>1, <3>2
  <2>11. CASE Stop \/ FinalFlush
    <3>1. /\ phase \in {"running", "stopping"} /\ phase' # "loading"
          /\ UNCHANGED <<starts, snapshot>>
      BY <2>11 DEF Stop, FinalFlush
    <3> QED
      BY <2>6, <3>1
  <2>12. CASE Exit \/ Crash
    <3>1. /\ phase' = "down" /\ snapshot' = Zero /\ starts' = starts
          /\ phase # "down"
      BY <2>12 DEF Exit, Crash, LoseMemory, Up
    <3> QED
      BY <3>1, ZeroAddsUp
  <2>13. ASSUME NEW S \in Batch, OrphanLands(S)
         PROVE  BucketsInv'
    <3>1. orphan # Zero
      BY <2>13, AnalyticsAssumption DEF OrphanLands, Zero, TypeOK, Counter
    <3> QED
      BY <2>13, <3>1 DEF OrphanLands
  <2>14. CASE OrphanDropped
    BY <2>14 DEF OrphanDropped
  <2>15. CASE UNCHANGED vars
    BY <2>15 DEF vars
  <2> QED
    BY <2>1, <2>2, <2>3, <2>4, <2>5, <2>7, <2>8, <2>9, <2>10, <2>11, <2>12,
       <2>13, <2>14, <2>15 DEF Next
<1> QED
  BY <1>1, <1>2, Typing, CallShapeInv, TotalsInvariant, PTL DEF Spec

\* What /stats shows of the first process on an empty store adds up, for accesses
\* on any days: each ISO week to its seven days, the total to all days.
THEOREM BucketsAreConsistent == Spec => []BucketsAddUp
<1>1. BucketsInv => BucketsAddUp
  <2> SUFFICES ASSUME BucketsInv, starts = 1, NEW m \in Metric
               PROVE  /\ stats[m][Total] = DaysTotal(m, Instant)
                      /\ \A i \in Instant :
                           stats[m][WeekKey(i)] =
                             DaysTotal(m, {n \in Instant :
                                             (n - 1) \div 7 = (i - 1) \div 7})
    BY DEF BucketsAddUp
  <2>1. \A p \in Period : stats[m][p] = snapshot[<<m, p>>]
    BY DEF stats, Metric
  <2>2. /\ Total \in Period
        /\ \A i \in Instant : DayKey(i) \in Period /\ WeekKey(i) \in Period
    BY DEF Period, period_keys
  <2>3. [n \in Instant |-> stats[m][DayKey(n)]] = Days(snapshot, m)
    BY <2>1, <2>2 DEF Days
  <2>4. \A S : DaysTotal(m, S) = Sum(Days(snapshot, m), S)
    BY <2>3 DEF DaysTotal, Sum
  <2>5. /\ snapshot[<<m, Total>>] = Sum(Days(snapshot, m), Instant)
        /\ \A i \in Instant :
             snapshot[<<m, WeekKey(i)>>] = Sum(Days(snapshot, m), WeekOf(i))
    BY DEF BucketsInv, AddsUp
  <2>6. \A i \in Instant :
          WeekOf(i) = {n \in Instant : (n - 1) \div 7 = (i - 1) \div 7}
    BY DEF WeekOf, Week
  <2> QED
    BY <2>1, <2>2, <2>4, <2>5, <2>6
<1> QED
  BY <1>1, BucketsInvariant, PTL
=============================================================================
