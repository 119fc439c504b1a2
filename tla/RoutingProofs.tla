---------------------------- MODULE RoutingProofs ----------------------------
(***************************************************************************)
(* What holds of a search for every schedule, airports table and criteria  *)
(* that IsInput describes: the time arithmetic, the completeness of what   *)
(* the engine generates, and the answers.                                  *)
(*                                                                         *)
(* The argument for the answers: the tuples are ordered strictly, and the  *)
(* ranks of a finite ordered set are the numbers below its cardinality     *)
(* (Orders, Ranks); generation yields the journeys there are               *)
(* (Generation); deduplication keeps one itinerary for each identity,      *)
(* which decides its sort key, so that sorting is by rank (Keys,           *)
(* Deduplication and sorting); cut, that is the best of the choice, and    *)
(* only one list of keys is (The results of a search).                     *)
(***************************************************************************)
EXTENDS Routing, FiniteSetTheorems, SequenceTheorems, WellFoundedInduction, TLAPS

-----------------------------------------------------------------------------
\* A local time is resolved to an instant at which the clock shows it.
LEMMA LocalizeInverts ==
    ASSUME NEW zone \in Zone, NEW local \in Int, Localize(zone, local) # None
    PROVE  /\ Localize(zone, local) \in Int
           /\ Instants(zone, local) = {Localize(zone, local)}
           /\ LocalTime(zone, Localize(zone, local)) = local
<1>1. PICK t \in Instants(zone, local) : Instants(zone, local) = {t}
  BY DEF Localize
<1>2. Localize(zone, local) = t
  <2>1. Localize(zone, local) = CHOOSE u \in Instants(zone, local) : TRUE
    BY <1>1 DEF Localize
  <2>2. QED BY <1>1, <2>1
<1>3. t \in Int /\ LocalTime(zone, t) = local
  BY <1>1, SMT DEF Instants, Zone
<1>4. QED BY <1>1, <1>2, <1>3

\* Local times that exist once are ordered as their instants: a gap or a fold
\* cannot turn the order of two flights around.
LEMMA ClockOrder ==
    ASSUME NEW zone \in Zone, NEW a \in Int, NEW b \in Int,
           Localize(zone, a) # None, Localize(zone, b) # None
    PROVE  a < b <=> Localize(zone, a) < Localize(zone, b)
<1> DEFINE t == Localize(zone, a)
           u == Localize(zone, b)
<1>1. /\ t \in Int /\ Instants(zone, a) = {t} /\ LocalTime(zone, t) = a
      /\ u \in Int /\ Instants(zone, b) = {u} /\ LocalTime(zone, u) = b
  BY LocalizeInverts
<1>2. \A v \in {a - zone.before, a - zone.after} : LocalTime(zone, v) = a => v = t
  BY <1>1 DEF Instants
<1>3. \A v \in {b - zone.before, b - zone.after} : LocalTime(zone, v) = b => v = u
  BY <1>1 DEF Instants
<1> HIDE DEF t, u
<1>4. a < b <=> t < u
  BY <1>1, <1>2, <1>3, SMT DEF LocalTime, Zone
<1>5. QED BY <1>4 DEF t, u

\* A clock jumps by no more than the shift between two of its times.
LEMMA ClockDistance ==
    ASSUME NEW zone \in Zone, NEW a \in Int, NEW b \in Int,
           Localize(zone, a) # None, Localize(zone, b) # None
    PROVE  b - a <= Localize(zone, b) - Localize(zone, a) + Shift(zone)
<1> DEFINE t == Localize(zone, a)
           u == Localize(zone, b)
<1>1. t \in Int /\ LocalTime(zone, t) = a /\ u \in Int /\ LocalTime(zone, u) = b
  BY LocalizeInverts
<1> HIDE DEF t, u
<1>2. b - a <= u - t + Shift(zone)
  BY <1>1, SMT DEF LocalTime, Zone, Shift
<1>3. QED BY <1>2 DEF t, u

\* A number of whole minutes and what it is the floor of.
LEMMA FloorBounds ==
    ASSUME NEW n \in Int
    PROVE  /\ n \div Minute \in Int
           /\ n \div Minute > 0 => n > 0
           /\ n < Minute * (n \div Minute) + Minute
BY TimeAssumption, SMT

LEMMA MinutesIncrease ==
    ASSUME NEW p \in Int, NEW q \in Int, p <= q
    PROVE  Minute * p <= Minute * q
<1>1. \A m \in Nat : m * p <= m * q
  BY SMT
<1>2. QED BY <1>1, TimeAssumption

\* The local times of a row are integers.
LEMMA LocalTimesAreIntegers ==
    ASSUME NEW f \in Flight, NEW date \in Int
    PROVE  DepartsLocal(f, date) \in Int /\ ArrivesLocal(f, date) \in Int
BY TimeAssumption, SMT DEF Flight, ClockTimes, DepartsLocal, ArrivesLocal

\* What a resolved row is.
LEMMA ResolvedInstance ==
    ASSUME NEW f, NEW date, NEW origin, NEW destination,
           NEW x, x = Resolve(f, date, origin, destination), x # None
    PROVE  /\ x.flight = f /\ x.date = date
           /\ x.departure = Localize(origin.zone, DepartsLocal(f, date))
           /\ x.arrival = Localize(destination.zone, ArrivesLocal(f, date))
           /\ x.departure # None /\ x.arrival # None
           /\ IF origin.zone = destination.zone
              THEN DepartsLocal(f, date) < ArrivesLocal(f, date)
              ELSE x.departure < x.arrival
           /\ OperatesOn(f, date)
BY DEF Resolve

-----------------------------------------------------------------------------
\* The duration of an instance is positive between its instants
\* (flight_instance.py), although the code compares clocks in one zone.
THEOREM PositiveDuration ==
    ASSUME NEW f \in Flight, NEW date \in Int,
           NEW origin, origin.zone \in Zone,
           NEW destination, destination.zone \in Zone,
           NEW x, x = Resolve(f, date, origin, destination), x # None
    PROVE  x.departure < x.arrival
<1>1. CASE origin.zone = destination.zone
  BY <1>1, ResolvedInstance, LocalTimesAreIntegers, ClockOrder
<1>2. CASE origin.zone # destination.zone
  BY <1>2, ResolvedInstance
<1>3. QED BY <1>1, <1>2

\* A valid connection is one the itinerary accepts: the layover is counted
\* between instants, Itinerary.__post_init__ compares the clocks of the airport.
THEOREM ConnectionAdvances ==
    ASSUME NEW f \in Flight, NEW fDate \in Int,
           NEW g \in Flight, NEW gDate \in Int,
           NEW from, NEW mid, mid.zone \in Zone, NEW to,
           NEW x, x = Resolve(f, fDate, from, mid), x # None,
           NEW y, y = Resolve(g, gDate, mid, to), y # None,
           NEW origin, NEW policy, ValidConnection(x, y, origin, policy)
    PROVE  ArrivesLocal(f, fDate) < DepartsLocal(g, gDate)
<1> DEFINE a == ArrivesLocal(f, fDate)
           b == DepartsLocal(g, gDate)
<1>1. a \in Int /\ b \in Int
  BY LocalTimesAreIntegers
<1>2. /\ x.arrival = Localize(mid.zone, a) /\ x.arrival # None
      /\ y.departure = Localize(mid.zone, b) /\ y.departure # None
  BY ResolvedInstance
<1>3. x.arrival \in Int /\ y.departure \in Int
  BY <1>1, <1>2, LocalizeInverts
<1>4. x.arrival < y.departure
  <2>1. (y.departure - x.arrival) \div Minute > 0
    BY DEF ValidConnection, Layover
  <2>2. y.departure - x.arrival \in Int
    BY <1>3
  <2>3. y.departure - x.arrival > 0
    BY <2>1, <2>2, FloorBounds
  <2>4. QED BY <1>3, <2>3
<1>5. QED BY <1>1, <1>2, <1>4, ClockOrder

\* No valid connection departs on a date the engine does not look at
\* (search.py), as long as the longest layover and the clock's jump fit a day.
THEOREM CandidateDatesSuffice ==
    ASSUME NEW f \in Flight, NEW fDate \in Int,
           NEW g \in Flight, NEW gDate \in Int,
           NEW from, NEW mid, mid.zone \in Zone, NEW to,
           NEW x, x = Resolve(f, fDate, from, mid), x # None,
           NEW y, y = Resolve(g, gDate, mid, to), y # None,
           NEW origin, NEW policy, ValidConnection(x, y, origin, policy),
           policy.maxConnection \in Int,
           Minute * policy.maxConnection + Minute + Shift(mid.zone) <= DayLength
    PROVE  gDate \in CandidateDates(x)
<1> DEFINE a == ArrivesLocal(f, fDate)
           b == DepartsLocal(g, gDate)
<1>1. a \in Int /\ b \in Int /\ a < b
  BY LocalTimesAreIntegers, ConnectionAdvances
<1>2. /\ x.arrival = Localize(mid.zone, a) /\ x.arrival # None
      /\ y.departure = Localize(mid.zone, b) /\ y.departure # None
      /\ x.flight = f /\ x.date = fDate
  BY ResolvedInstance
<1>3. x.arrival \in Int /\ y.departure \in Int
  BY <1>1, <1>2, LocalizeInverts
<1>4. y.departure - x.arrival < Minute * policy.maxConnection + Minute
  <2> DEFINE n == y.departure - x.arrival
             q == n \div Minute
  <2>1. q <= policy.maxConnection
    BY DEF ValidConnection, Layover
  <2>2. q \in Int /\ n < Minute * q + Minute
    BY <1>3, FloorBounds
  <2> HIDE DEF q
  <2>3. Minute * q <= Minute * policy.maxConnection
    BY <2>1, <2>2, MinutesIncrease
  <2> HIDE DEF n
  <2>4. n \in Int
    BY <1>3 DEF n
  <2>5. Minute * q \in Int /\ Minute * policy.maxConnection \in Int /\ Minute \in Int
    BY <2>2, TimeAssumption, SMT
  <2>6. n < Minute * policy.maxConnection + Minute
    BY <2>2, <2>3, <2>4, <2>5, SMT
  <2>7. QED BY <2>6 DEF n
<1>5. b - a < DayLength
  <2>1. b - a <= y.departure - x.arrival + Shift(mid.zone)
    BY <1>1, <1>2, ClockDistance
  <2>2. Shift(mid.zone) \in Int
    BY SMT DEF Shift, Zone
  <2>3. Minute * policy.maxConnection \in Int /\ Minute \in Int /\ DayLength \in Int
    BY TimeAssumption, SMT
  <2>4. QED BY <1>1, <1>3, <1>4, <2>1, <2>2, <2>3, SMT
<1> DEFINE k == fDate + f.dayOffset
<1>6. /\ k \in Int
      /\ a - DayLength * k \in ClockTimes
      /\ b - DayLength * gDate \in ClockTimes
  BY TimeAssumption, SMT DEF Flight, ClockTimes, ArrivesLocal, DepartsLocal
<1>7. gDate \in {k, k + 1}
  <2> HIDE DEF a, b, k
  <2>1. DayLength * k < DayLength * (gDate + 1)
    BY <1>1, <1>6, TimeAssumption, SMT DEF ClockTimes
  <2>2. DayLength * gDate < DayLength * (k + 2)
    BY <1>1, <1>5, <1>6, TimeAssumption, SMT DEF ClockTimes
  <2>3. k < gDate + 1 /\ gDate < k + 2
    BY <1>6, <2>1, <2>2, TimeAssumption, SMT
  <2>4. QED BY <1>6, <2>3
<1>8. QED BY <1>2, <1>7 DEF CandidateDates

-----------------------------------------------------------------------------
(* Orders.                                                                 *)

\* Every non-empty set of numbers has a least one.
LEMMA LeastNumber ==
    ASSUME NEW S \in SUBSET Nat, S # {}
    PROVE  \E n \in S : \A m \in S : n <= m
<1> DEFINE R == {ss \in Nat \X Nat : ss[1] < ss[2]}
<1>1. IsWellFoundedOn(R, Nat)
  BY NatLessThanWellFounded DEF OpToRel
<1>2. PICK n \in S : \A m \in S : ~ (<<m, n>> \in R)
  <2> HIDE DEF R
  <2> QED BY <1>1, WFMin
<1>3. ASSUME NEW m \in S PROVE n <= m
  <2>1. m \in Nat /\ n \in Nat /\ ~ (<<m, n>> \in R)
    BY <1>2
  <2>2. QED BY <2>1
<1>4. QED BY <1>3

\* The order of tuples is strict, transitive and total.
LEMMA LessIrreflexive ==
    ASSUME NEW a \in Seq(Int)
    PROVE  ~ Less(a, a)
BY DEF Less

LEMMA FirstDifference ==
    ASSUME NEW a, NEW b, NEW i \in DOMAIN a \cap DOMAIN b, a[i] < b[i],
           \A j \in 1..(i - 1) : a[j] = b[j]
    PROVE  Less(a, b)
BY Zenon DEF Less

LEMMA LessTransitive ==
    ASSUME NEW a \in Seq(Int), NEW b \in Seq(Int), NEW c \in Seq(Int),
           Less(a, b), Less(b, c)
    PROVE  Less(a, c)
<1>1. /\ DOMAIN a = 1..Len(a) /\ Len(a) \in Nat /\ \A i \in DOMAIN a : a[i] \in Int
      /\ DOMAIN b = 1..Len(b) /\ Len(b) \in Nat /\ \A i \in DOMAIN b : b[i] \in Int
      /\ DOMAIN c = 1..Len(c) /\ Len(c) \in Nat /\ \A i \in DOMAIN c : c[i] \in Int
  OBVIOUS
<1>2. ASSUME NEW i \in DOMAIN a \cap DOMAIN b, a[i] < b[i],
             \A j \in 1..(i - 1) : a[j] = b[j]
      PROVE  Less(a, c)
  <2>1. ASSUME NEW k \in DOMAIN b \cap DOMAIN c, b[k] < c[k],
               \A j \in 1..(k - 1) : b[j] = c[j]
        PROVE  Less(a, c)
    <3>1. CASE i <= k
      <4>1. i \in DOMAIN a \cap DOMAIN c
        BY <1>1, <2>1, <3>1
      <4>2. ASSUME i < k PROVE b[i] = c[i]
        <5>1. i \in 1..(k - 1)
          BY <1>1, <4>2
        <5>2. QED BY <2>1, <5>1
      <4>3. a[i] < c[i]
        BY <1>1, <1>2, <2>1, <3>1, <4>1, <4>2
      <4>4. \A j \in 1..(i - 1) : a[j] = c[j]
        BY <1>1, <1>2, <2>1, <3>1
      <4>5. QED BY <4>1, <4>3, <4>4, FirstDifference
    <3>2. CASE k < i
      <4>1. k \in DOMAIN a \cap DOMAIN c /\ k \in 1..(i - 1)
        BY <1>1, <3>2
      <4>2. a[k] < c[k]
        BY <1>2, <2>1, <4>1
      <4>3. \A j \in 1..(k - 1) : a[j] = c[j]
        BY <1>1, <1>2, <2>1, <3>2
      <4>4. QED BY <4>1, <4>2, <4>3, FirstDifference
    <3>3. QED BY <1>1, <3>1, <3>2
  <2>2. ASSUME Len(b) < Len(c), \A j \in DOMAIN b : b[j] = c[j]
        PROVE  Less(a, c)
    <3>1. i \in DOMAIN a \cap DOMAIN c
      BY <1>1, <2>2
    <3>2. a[i] < c[i]
      BY <1>2, <2>2
    <3>3. \A j \in 1..(i - 1) : j \in DOMAIN b
      BY <1>1
    <3>4. \A j \in 1..(i - 1) : a[j] = c[j]
      BY <1>2, <2>2, <3>3
    <3>5. QED BY <3>1, <3>2, <3>4, FirstDifference
  <2>3. QED BY <2>1, <2>2 DEF Less
<1>3. ASSUME Len(a) < Len(b), \A j \in DOMAIN a : a[j] = b[j]
      PROVE  Less(a, c)
  <2>1. ASSUME NEW k \in DOMAIN b \cap DOMAIN c, b[k] < c[k],
               \A j \in 1..(k - 1) : b[j] = c[j]
        PROVE  Less(a, c)
    <3>1. CASE k \in DOMAIN a
      <4>1. a[k] < c[k]
        BY <1>3, <2>1, <3>1
      <4>2. \A j \in 1..(k - 1) : j \in DOMAIN a
        BY <1>1, <3>1
      <4>3. \A j \in 1..(k - 1) : a[j] = c[j]
        BY <1>3, <2>1, <4>2
      <4>4. k \in DOMAIN a \cap DOMAIN c
        BY <2>1, <3>1
      <4>5. QED BY <4>1, <4>3, <4>4, FirstDifference
    <3>2. CASE k \notin DOMAIN a
      <4>1. Len(a) < Len(c)
        BY <1>1, <2>1, <3>2
      <4>2. \A j \in DOMAIN a : j \in 1..(k - 1)
        BY <1>1, <3>2
      <4>3. \A j \in DOMAIN a : a[j] = c[j]
        BY <1>3, <2>1, <4>2
      <4>4. QED BY <4>1, <4>3 DEF Less
    <3>3. QED BY <3>1, <3>2
  <2>2. ASSUME Len(b) < Len(c), \A j \in DOMAIN b : b[j] = c[j]
        PROVE  Less(a, c)
    <3>1. Len(a) < Len(c) /\ \A j \in DOMAIN a : a[j] = c[j]
      BY <1>1, <1>3, <2>2
    <3>2. QED BY <3>1 DEF Less
  <2>3. QED BY <2>1, <2>2 DEF Less
<1>4. QED BY <1>2, <1>3 DEF Less

LEMMA LessTotal ==
    ASSUME NEW a \in Seq(Int), NEW b \in Seq(Int), a # b
    PROVE  Less(a, b) \/ Less(b, a)
<1> DEFINE D == {i \in DOMAIN a \cap DOMAIN b : a[i] # b[i]}
<1>1. CASE D = {}
  <2>1. \A i \in DOMAIN a \cap DOMAIN b : a[i] = b[i]
    BY <1>1
  <2>2. Len(a) # Len(b)
    BY <2>1
  <2>3. QED BY <2>1, <2>2 DEF Less
<1>2. CASE D # {}
  <2>1. D \in SUBSET Nat
    OBVIOUS
  <2>2. PICK n \in D : \A m \in D : n <= m
    <3> HIDE DEF D
    <3> QED BY <1>2, <2>1, LeastNumber
  <2>3. n \in DOMAIN a \cap DOMAIN b /\ a[n] # b[n]
    OBVIOUS
  <2>4. \A j \in 1..(n - 1) : a[j] = b[j]
    BY <2>2, <2>3
  <2>5. a[n] < b[n] \/ b[n] < a[n]
    BY <2>3
  <2>6. QED BY <2>3, <2>4, <2>5 DEF Less
<1>3. QED BY <1>1, <1>2

\* So is the order of sort keys.
Keys == [rank : Seq(Int), id : Seq(Int)]

LEMMA KeyOrder ==
    /\ \A k \in Keys : ~ KeyLess(k, k)
    /\ \A k, l, m \in Keys : KeyLess(k, l) /\ KeyLess(l, m) => KeyLess(k, m)
    /\ \A k, l \in Keys : k # l => KeyLess(k, l) \/ KeyLess(l, k)
<1>1. ASSUME NEW k \in Keys PROVE ~ KeyLess(k, k)
  BY LessIrreflexive DEF KeyLess, Keys
<1>2. ASSUME NEW k \in Keys, NEW l \in Keys, NEW m \in Keys,
             KeyLess(k, l), KeyLess(l, m)
      PROVE  KeyLess(k, m)
  <2>1. /\ k.rank \in Seq(Int) /\ l.rank \in Seq(Int) /\ m.rank \in Seq(Int)
        /\ k.id \in Seq(Int) /\ l.id \in Seq(Int) /\ m.id \in Seq(Int)
    BY DEF Keys
  <2>2. Less(k.rank, l.rank) /\ Less(l.rank, m.rank) => Less(k.rank, m.rank)
    BY <2>1, LessTransitive
  <2>3. Less(k.id, l.id) /\ Less(l.id, m.id) => Less(k.id, m.id)
    BY <2>1, LessTransitive
  <2>4. QED BY <1>2, <2>2, <2>3 DEF KeyLess
<1>3. ASSUME NEW k \in Keys, NEW l \in Keys, k # l
      PROVE  KeyLess(k, l) \/ KeyLess(l, k)
  <2>1. /\ k.rank \in Seq(Int) /\ l.rank \in Seq(Int)
        /\ k.id \in Seq(Int) /\ l.id \in Seq(Int)
        /\ k.rank # l.rank \/ k.id # l.id
    BY <1>3 DEF Keys
  <2>2. QED BY <2>1, LessTotal DEF KeyLess
<1>4. QED BY <1>1, <1>2, <1>3

-----------------------------------------------------------------------------
(* Ranks.                                                                  *)

\* A strict order on a set, and a total one.
PartOrders(R, S) ==
    /\ \A x \in S : <<x, x>> \notin R
    /\ \A x, y, z \in S : <<x, y>> \in R /\ <<y, z>> \in R => <<x, z>> \in R

Orders(R, S) ==
    /\ PartOrders(R, S)
    /\ \A x, y \in S : x # y => <<x, y>> \in R \/ <<y, x>> \in R

Rank(x, R, S) == Cardinality({y \in S : <<y, x>> \in R})

\* A smaller element has a smaller rank.
LEMMA RankIncreases ==
    ASSUME NEW S, IsFiniteSet(S), NEW R, PartOrders(R, S),
           NEW x \in S, NEW y \in S, <<x, y>> \in R
    PROVE  Rank(x, R, S) < Rank(y, R, S)
<1> DEFINE A == {z \in S : <<z, x>> \in R}
           B == {z \in S : <<z, y>> \in R}
<1>1. A \subseteq B /\ x \in B /\ x \notin A /\ A \in SUBSET B /\ B \in SUBSET S
  BY DEF PartOrders
<1> HIDE DEF A, B
<1>2. IsFiniteSet(B)
  BY <1>1, FS_Subset
<1>3. /\ IsFiniteSet(A) /\ Cardinality(A) <= Cardinality(B)
      /\ Cardinality(B) = Cardinality(A) => B = A
  BY <1>1, <1>2, FS_Subset
<1>4. Cardinality(A) \in Nat /\ Cardinality(B) \in Nat /\ A # B
  BY <1>1, <1>2, <1>3, FS_CardinalityType
<1>5. QED BY <1>3, <1>4 DEF A, B, Rank

\* So a finite set has an element that none is before.
LEMMA Minimal ==
    ASSUME NEW S, IsFiniteSet(S), S # {}, NEW R, PartOrders(R, S)
    PROVE  \E x \in S : \A y \in S : <<y, x>> \notin R
<1> DEFINE N == {Rank(x, R, S) : x \in S}
<1>1. ASSUME NEW x \in S PROVE Rank(x, R, S) \in Nat
  <2> DEFINE A == {y \in S : <<y, x>> \in R}
  <2>1. A \in SUBSET S
    OBVIOUS
  <2> HIDE DEF A
  <2>2. Cardinality(A) \in Nat
    BY <2>1, FS_Subset, FS_CardinalityType
  <2>3. QED BY <2>2 DEF A, Rank
<1>2. PICK n \in N : \A m \in N : n <= m
  <2>1. N \in SUBSET Nat /\ N # {}
    BY <1>1
  <2> HIDE DEF N
  <2>2. QED BY <2>1, LeastNumber
<1>3. PICK x \in S : n = Rank(x, R, S)
  OBVIOUS
<1>4. ASSUME NEW y \in S, <<y, x>> \in R PROVE FALSE
  <2>1. Rank(y, R, S) < Rank(x, R, S)
    BY <1>4, RankIncreases
  <2>2. Rank(x, R, S) <= Rank(y, R, S)
    BY <1>2, <1>3
  <2>3. QED BY <1>1, <2>1, <2>2
<1>5. QED BY <1>4

\* The ranks of a finite set are the numbers below its cardinality.
LEMMA Ranks ==
    ASSUME NEW S, IsFiniteSet(S), NEW R, Orders(R, S)
    PROVE  /\ Cardinality(S) \in Nat
           /\ \A x \in S : Rank(x, R, S) \in 0..(Cardinality(S) - 1)
           /\ \A x, y \in S : Rank(x, R, S) < Rank(y, R, S) <=> <<x, y>> \in R
           /\ \A x, y \in S : Rank(x, R, S) = Rank(y, R, S) => x = y
           /\ \A k \in 0..(Cardinality(S) - 1) : \E x \in S : Rank(x, R, S) = k
<1> DEFINE n == Cardinality(S)
           rank == [x \in S |-> Rank(x, R, S)]
<1>1. n \in Nat
  BY FS_CardinalityType
<1>2. ASSUME NEW x \in S PROVE Rank(x, R, S) \in 0..(n - 1)
  <2> DEFINE A == {y \in S : <<y, x>> \in R}
  <2>1. A \in SUBSET S /\ x \notin A
    BY DEF Orders, PartOrders
  <2> HIDE DEF A
  <2>2. IsFiniteSet(A) /\ Cardinality(A) <= n /\ (n = Cardinality(A) => S = A)
    BY <2>1, FS_Subset
  <2>3. Cardinality(A) \in Nat /\ Cardinality(A) # n
    BY <2>1, <2>2, FS_CardinalityType
  <2>4. QED BY <1>1, <2>2, <2>3 DEF A, Rank
<1>3. ASSUME NEW x \in S, NEW y \in S
      PROVE  /\ Rank(x, R, S) < Rank(y, R, S) <=> <<x, y>> \in R
             /\ Rank(x, R, S) = Rank(y, R, S) => x = y
  <2>1. Rank(x, R, S) \in Nat /\ Rank(y, R, S) \in Nat
    BY <1>1, <1>2
  <2>2. CASE x = y
    BY <2>1, <2>2 DEF Orders, PartOrders
  <2>3. CASE <<x, y>> \in R
    BY <2>1, <2>3, RankIncreases DEF Orders
  <2>4. CASE x # y /\ <<x, y>> \notin R
    <3>1. <<y, x>> \in R
      BY <2>4 DEF Orders, PartOrders
    <3>2. Rank(y, R, S) < Rank(x, R, S)
      BY <3>1, RankIncreases DEF Orders
    <3>3. QED BY <2>1, <2>4, <3>2
  <2>5. QED BY <2>2, <2>3, <2>4
<1>4. ASSUME NEW k \in 0..(n - 1) PROVE \E x \in S : Rank(x, R, S) = k
  <2>1. rank \in [S -> 0..(n - 1)]
    BY <1>2
  <2>2. rank \in Injection(S, 0..(n - 1))
    <3>1. \A x, y \in S : rank[x] = rank[y] => x = y
      BY <1>3
    <3> HIDE DEF rank
    <3>2. QED BY <2>1, <3>1 DEF Injection, IsInjective
  <2>3. IsFiniteSet(0..(n - 1)) /\ Cardinality(0..(n - 1)) = n
    BY <1>1, FS_Interval
  <2>4. rank \in Surjection(S, 0..(n - 1))
    <3> HIDE DEF rank
    <3> QED BY <2>2, <2>3, FS_Injection
  <2>5. \E x \in S : rank[x] = k
    <3> HIDE DEF rank
    <3> QED BY <2>4 DEF Surjection
  <2>6. QED BY <2>5
<1>5. QED BY <1>1, <1>2, <1>3, <1>4

-----------------------------------------------------------------------------
(* Instances and itineraries.                                              *)

\* The itineraries the factory can build from instances, valid or not.
Trips(table) ==
    {Direct(x, table) : x \in Instance} \cup
    {OneStop(xy[1], xy[2], table) : xy \in Instance \X Instance}

LEMMA ResolvedIsInstance ==
    ASSUME NEW f \in Flight, NEW date \in Int,
           NEW origin, origin.zone \in Zone,
           NEW destination, destination.zone \in Zone,
           NEW x, x = Resolve(f, date, origin, destination), x # None
    PROVE  x \in Instance
<1>1. DepartsLocal(f, date) \in Int /\ ArrivesLocal(f, date) \in Int
  BY LocalTimesAreIntegers
<1>2. /\ Localize(origin.zone, DepartsLocal(f, date)) # None
      /\ Localize(destination.zone, ArrivesLocal(f, date)) # None
  BY ResolvedInstance
<1>3. /\ Localize(origin.zone, DepartsLocal(f, date)) \in Int
      /\ Localize(destination.zone, ArrivesLocal(f, date)) \in Int
  BY <1>1, <1>2, LocalizeInverts
<1>4. x = [flight |-> f, date |-> date,
           departure |-> Localize(origin.zone, DepartsLocal(f, date)),
           arrival |-> Localize(destination.zone, ArrivesLocal(f, date))]
  BY DEF Resolve
<1>5. QED BY <1>3, <1>4 DEF Instance

\* The parts of an itinerary.
LEMMA DirectSegments ==
    ASSUME NEW x, NEW table
    PROVE  LET it == Direct(x, table)
           IN it.segments = <<x>> /\ DOMAIN it.segments = 1..1 /\ Len(it.segments) = 1
BY DEF Direct

LEMMA DirectParts ==
    ASSUME NEW x, NEW table
    PROVE  LET it == Direct(x, table)
           IN FirstOf(it) = x /\ LastOf(it) = x /\ ConnectionCount(it) = 0
BY DirectSegments DEF FirstOf, LastOf, ConnectionCount

LEMMA DirectPrice ==
    ASSUME NEW x, NEW table
    PROVE  Direct(x, table).price
           = Price({x.flight.origin, x.flight.destination}, 1, table)
BY Zenon DEF Direct

LEMMA DirectNames ==
    ASSUME NEW x, NEW table
    PROVE  /\ Identity(Direct(x, table)) = <<x.date>> \o Signature(x)
           /\ Place(Direct(x, table)) = RowPlace(x)
BY DirectParts, Zenon DEF Identity, Place, Along

LEMMA OneStopSegments ==
    ASSUME NEW x, NEW y, NEW table
    PROVE  LET it == OneStop(x, y, table)
           IN it.segments = <<x, y>> /\ DOMAIN it.segments = 1..2 /\ Len(it.segments) = 2
BY DEF OneStop

LEMMA OneStopParts ==
    ASSUME NEW x, NEW y, NEW table
    PROVE  LET it == OneStop(x, y, table)
           IN FirstOf(it) = x /\ LastOf(it) = y /\ ConnectionCount(it) = 1
BY OneStopSegments DEF FirstOf, LastOf, ConnectionCount

LEMMA OneStopPrice ==
    ASSUME NEW x, NEW y, NEW table
    PROVE  OneStop(x, y, table).price
           = Price({x.flight.origin, x.flight.destination, y.flight.destination}, 2, table)
BY Zenon DEF OneStop

LEMMA OneStopNames ==
    ASSUME NEW x, NEW y, NEW table
    PROVE  /\ Identity(OneStop(x, y, table)) = <<x.date>> \o (Signature(x) \o Signature(y))
           /\ Place(OneStop(x, y, table)) = RowPlace(x) \o RowPlace(y)
<1>1. ConnectionCount(OneStop(x, y, table)) # 0
  BY OneStopParts
<1>2. QED BY <1>1, OneStopParts, Zenon DEF Identity, Place, Along

\* Of two concatenations, the parts are equal if the first ones are as long.
LEMMA Concatenation ==
    ASSUME NEW a \in Seq(Int), NEW b \in Seq(Int)
    PROVE  a \o b \in Seq(Int) /\ Len(a \o b) = Len(a) + Len(b)
BY ConcatProperties

LEMMA Cancel ==
    ASSUME NEW a \in Seq(Int), NEW b \in Seq(Int), NEW c \in Seq(Int), NEW d \in Seq(Int),
           Len(a) = Len(c), a \o b = c \o d
    PROVE  a = c /\ b = d
<1>1. Len(a) \in Nat /\ Len(b) \in Nat /\ Len(c) \in Nat /\ Len(d) \in Nat
  OBVIOUS
<1>2. Len(b) = Len(d)
  <2>1. Len(a \o b) = Len(a) + Len(b)
    BY Concatenation
  <2>2. Len(c \o d) = Len(c) + Len(d)
    BY Concatenation
  <2>3. Len(a) + Len(b) = Len(c) + Len(d)
    BY <2>1, <2>2, Zenon
  <2>4. QED BY <1>1, <2>3
<1>3. /\ \A i \in 1..(Len(a) + Len(b)) :
            (a \o b)[i] = IF i <= Len(a) THEN a[i] ELSE b[i - Len(a)]
      /\ \A i \in 1..(Len(c) + Len(d)) :
            (c \o d)[i] = IF i <= Len(c) THEN c[i] ELSE d[i - Len(c)]
  BY ConcatProperties
<1> DEFINE e == a \o b
<1>4. /\ \A i \in 1..(Len(a) + Len(b)) :
            e[i] = IF i <= Len(a) THEN a[i] ELSE b[i - Len(a)]
      /\ \A i \in 1..(Len(a) + Len(b)) :
            e[i] = IF i <= Len(a) THEN c[i] ELSE d[i - Len(a)]
  BY <1>2, <1>3
<1> HIDE DEF e
<1>5. ASSUME NEW i \in 1..Len(a) PROVE a[i] = c[i]
  <2>1. i \in 1..(Len(a) + Len(b)) /\ i <= Len(a)
    BY <1>1
  <2>2. QED BY <1>4, <2>1
<1>6. ASSUME NEW i \in 1..Len(b) PROVE b[i] = d[i]
  <2>1. i + Len(a) \in 1..(Len(a) + Len(b)) /\ ~ (i + Len(a) <= Len(a))
        /\ (i + Len(a)) - Len(a) = i
    BY <1>1
  <2>2. QED BY <1>4, <2>1
<1>7. a = c
  BY <1>5, SeqEqual
<1>8. b = d
  BY <1>2, <1>6, SeqEqual
<1>9. QED BY <1>7, <1>8

\* The tuples of instances.
LEMMA Tuples ==
    ASSUME NEW x \in Instance
    PROVE  /\ <<x.date>> \in Seq(Int) /\ Len(<<x.date>>) = 1
           /\ Signature(x) \in Seq(Int) /\ Len(Signature(x)) = 6
           /\ RowPlace(x) \in Seq(Int) /\ Len(RowPlace(x)) = 4
<1>1. /\ x.date \in Int /\ x.departure \in Int /\ x.arrival \in Int
      /\ x.flight.carrier \in Int /\ x.flight.number \in Int /\ x.flight.id \in Int
      /\ x.flight.origin \in Int /\ x.flight.destination \in Int
      /\ x.flight.departs \in Int
  BY TimeAssumption DEF Instance, Flight, ClockTimes
<1>2. <<x.date>> \in Seq(Int) /\ Len(<<x.date>>) = 1
  BY <1>1
<1>3. Signature(x) \in Seq(Int) /\ Len(Signature(x)) = 6
  BY <1>1 DEF Signature
<1>4. RowPlace(x) \in Seq(Int) /\ Len(RowPlace(x)) = 4
  BY <1>1 DEF RowPlace
<1>5. QED BY <1>2, <1>3, <1>4

\* The identity and the place of an itinerary are sequences of integers, and
\* tell a direct one from one with a stop.
LEMMA DirectTuples ==
    ASSUME NEW x \in Instance, NEW table
    PROVE  LET it == Direct(x, table)
           IN /\ Identity(it) \in Seq(Int) /\ Len(Identity(it)) = 7
              /\ Place(it) \in Seq(Int) /\ Len(Place(it)) = 4
              /\ WinnerKey(it) \in Seq(Int)
<1>1. x.flight.id \in Int
  BY DEF Instance, Flight
<1>2. <<x.date>> \o Signature(x) \in Seq(Int) /\ Len(<<x.date>> \o Signature(x)) = 7
  <2>1. /\ <<x.date>> \in Seq(Int) /\ Len(<<x.date>>) = 1
        /\ Signature(x) \in Seq(Int) /\ Len(Signature(x)) = 6
    BY Tuples
  <2>2. /\ <<x.date>> \o Signature(x) \in Seq(Int)
        /\ Len(<<x.date>> \o Signature(x)) = Len(<<x.date>>) + Len(Signature(x))
    BY <2>1, Concatenation
  <2>3. QED BY <2>1, <2>2
<1>3. RowPlace(x) \in Seq(Int) /\ Len(RowPlace(x)) = 4
  BY Tuples
<1>4. <<x.flight.id>> \in Seq(Int)
  BY <1>1
<1> DEFINE it == Direct(x, table)
<1>5. /\ Identity(it) = <<x.date>> \o Signature(x) /\ Place(it) = RowPlace(x)
      /\ WinnerKey(it) = <<x.flight.id>>
  <2>1. WinnerKey(Direct(x, table)) = <<x.flight.id>>
    BY DEF WinnerKey, Direct
  <2>2. QED BY <2>1, DirectNames, Zenon
<1> HIDE DEF it
<1>6. Identity(it) \in Seq(Int) /\ Len(Identity(it)) = 7
  BY <1>2, <1>5, Zenon
<1>7. Place(it) \in Seq(Int) /\ Len(Place(it)) = 4 /\ WinnerKey(it) \in Seq(Int)
  BY <1>3, <1>4, <1>5, Zenon
<1>8. QED BY <1>6, <1>7 DEF it

LEMMA OneStopTuples ==
    ASSUME NEW x \in Instance, NEW y \in Instance, NEW table
    PROVE  LET it == OneStop(x, y, table)
           IN /\ Identity(it) \in Seq(Int) /\ Len(Identity(it)) = 13
              /\ Place(it) \in Seq(Int) /\ Len(Place(it)) = 8
              /\ WinnerKey(it) \in Seq(Int)
<1>1. x.flight.id \in Int /\ y.flight.id \in Int
  BY DEF Instance, Flight
<1>2. /\ Signature(x) \o Signature(y) \in Seq(Int)
      /\ Len(Signature(x) \o Signature(y)) = 12
  <2>1. /\ Signature(x) \in Seq(Int) /\ Len(Signature(x)) = 6
        /\ Signature(y) \in Seq(Int) /\ Len(Signature(y)) = 6
    BY Tuples
  <2>2. /\ Signature(x) \o Signature(y) \in Seq(Int)
        /\ Len(Signature(x) \o Signature(y)) = Len(Signature(x)) + Len(Signature(y))
    BY <2>1, Concatenation
  <2>3. QED BY <2>1, <2>2
<1>3. /\ <<x.date>> \o (Signature(x) \o Signature(y)) \in Seq(Int)
      /\ Len(<<x.date>> \o (Signature(x) \o Signature(y))) = 13
  <2> DEFINE tail == Signature(x) \o Signature(y)
  <2>1. <<x.date>> \in Seq(Int) /\ Len(<<x.date>>) = 1 /\ tail \in Seq(Int) /\ Len(tail) = 12
    BY <1>2, Tuples
  <2> HIDE DEF tail
  <2>2. <<x.date>> \o tail \in Seq(Int) /\ Len(<<x.date>> \o tail) = Len(<<x.date>>) + Len(tail)
    BY <2>1, Concatenation
  <2>3. <<x.date>> \o tail \in Seq(Int) /\ Len(<<x.date>> \o tail) = 13
    BY <2>1, <2>2
  <2>4. QED BY <2>3 DEF tail
<1>4. RowPlace(x) \o RowPlace(y) \in Seq(Int) /\ Len(RowPlace(x) \o RowPlace(y)) = 8
  <2>1. /\ RowPlace(x) \in Seq(Int) /\ Len(RowPlace(x)) = 4
        /\ RowPlace(y) \in Seq(Int) /\ Len(RowPlace(y)) = 4
    BY Tuples
  <2>2. /\ RowPlace(x) \o RowPlace(y) \in Seq(Int)
        /\ Len(RowPlace(x) \o RowPlace(y)) = Len(RowPlace(x)) + Len(RowPlace(y))
    BY <2>1, Concatenation
  <2>3. QED BY <2>1, <2>2
<1>5. <<x.flight.id, y.flight.id>> \in Seq(Int)
  BY <1>1
<1> DEFINE it == OneStop(x, y, table)
<1>6. /\ Identity(it) = <<x.date>> \o (Signature(x) \o Signature(y))
      /\ Place(it) = RowPlace(x) \o RowPlace(y)
      /\ WinnerKey(it) = <<x.flight.id, y.flight.id>>
  <2>1. WinnerKey(OneStop(x, y, table)) = <<x.flight.id, y.flight.id>>
    BY DEF WinnerKey, OneStop
  <2>2. QED BY <2>1, OneStopNames, Zenon
<1> HIDE DEF it
<1>7. Identity(it) \in Seq(Int) /\ Len(Identity(it)) = 13
  BY <1>3, <1>6, Zenon
<1>8. Place(it) \in Seq(Int) /\ Len(Place(it)) = 8 /\ WinnerKey(it) \in Seq(Int)
  BY <1>4, <1>5, <1>6, Zenon
<1>9. QED BY <1>7, <1>8 DEF it

\* What the code compares of an instance.
SameFlight(x, v) ==
    /\ x.flight.origin = v.flight.origin /\ x.flight.destination = v.flight.destination
    /\ x.departure = v.departure /\ x.arrival = v.arrival

\* Itineraries of one identity fly the same airports at the same times.
LEMMA SameIdentity ==
    ASSUME NEW table
    PROVE  /\ \A x, v \in Instance :
                 Identity(Direct(x, table)) = Identity(Direct(v, table)) => SameFlight(x, v)
           /\ \A x, y, v, w \in Instance :
                 Identity(OneStop(x, y, table)) = Identity(OneStop(v, w, table))
                 => SameFlight(x, v) /\ SameFlight(y, w)
<1>1. ASSUME NEW x \in Instance, NEW v \in Instance, Signature(x) = Signature(v)
      PROVE  SameFlight(x, v)
  BY <1>1 DEF Signature, SameFlight
<1>2. ASSUME NEW x \in Instance, NEW v \in Instance,
             Identity(Direct(x, table)) = Identity(Direct(v, table))
      PROVE  SameFlight(x, v)
  <2>1. <<x.date>> \o Signature(x) = <<v.date>> \o Signature(v)
    <3>1. Identity(Direct(x, table)) = <<x.date>> \o Signature(x)
      BY DirectNames, Zenon
    <3>2. Identity(Direct(v, table)) = <<v.date>> \o Signature(v)
      BY DirectNames, Zenon
    <3>3. QED BY <1>2, <3>1, <3>2, Zenon
  <2>2. /\ <<x.date>> \in Seq(Int) /\ Len(<<x.date>>) = 1
        /\ <<v.date>> \in Seq(Int) /\ Len(<<v.date>>) = 1
        /\ Signature(x) \in Seq(Int) /\ Signature(v) \in Seq(Int)
    BY Tuples
  <2>3. Signature(x) = Signature(v)
    BY <2>1, <2>2, Cancel
  <2>4. QED BY <1>1, <2>3
<1>3. ASSUME NEW x \in Instance, NEW y \in Instance, NEW v \in Instance, NEW w \in Instance,
             Identity(OneStop(x, y, table)) = Identity(OneStop(v, w, table))
      PROVE  SameFlight(x, v) /\ SameFlight(y, w)
  <2>1. <<x.date>> \o (Signature(x) \o Signature(y))
        = <<v.date>> \o (Signature(v) \o Signature(w))
    <3>1. Identity(OneStop(x, y, table)) = <<x.date>> \o (Signature(x) \o Signature(y))
      BY OneStopNames, Zenon
    <3>2. Identity(OneStop(v, w, table)) = <<v.date>> \o (Signature(v) \o Signature(w))
      BY OneStopNames, Zenon
    <3>3. QED BY <1>3, <3>1, <3>2, Zenon
  <2>2. /\ <<x.date>> \in Seq(Int) /\ Len(<<x.date>>) = 1
        /\ <<v.date>> \in Seq(Int) /\ Len(<<v.date>>) = 1
        /\ Signature(x) \in Seq(Int) /\ Len(Signature(x)) = 6
        /\ Signature(v) \in Seq(Int) /\ Len(Signature(v)) = 6
        /\ Signature(y) \in Seq(Int) /\ Signature(w) \in Seq(Int)
    BY Tuples
  <2>3. Signature(x) \o Signature(y) \in Seq(Int) /\ Signature(v) \o Signature(w) \in Seq(Int)
    BY <2>2, Concatenation
  <2>4. Signature(x) \o Signature(y) = Signature(v) \o Signature(w)
    BY <2>1, <2>2, <2>3, Cancel
  <2>5. Signature(x) = Signature(v) /\ Signature(y) = Signature(w)
    BY <2>2, <2>4, Cancel
  <2>6. QED BY <1>1, <2>5
<1>4. QED BY <1>2, <1>3

-----------------------------------------------------------------------------
(* Generation finds every journey.                                         *)

Loaded(rows, table, c) == [a \in Prefetched(rows, c) \cap DOMAIN table |-> table[a]]

LEMMA MinMax ==
    ASSUME NEW a \in Int, NEW b \in Int, a <= b
    PROVE  /\ Min(a..b) = a /\ Max(a..b) = b
           /\ Min({a, b}) = a /\ Max({a, b}) = b
<1>1. ASSUME NEW S, a \in S, b \in S, \A s \in S : s \in a..b
      PROVE  Min(S) = a /\ Max(S) = b
  <2>1. Min(S) \in S /\ \A s \in S : Min(S) <= s
    <3>1. \A s \in S : a <= s
      BY <1>1
    <3>2. QED BY <1>1, <3>1 DEF Min
  <2>2. Max(S) \in S /\ \A s \in S : Max(S) >= s
    <3>1. \A s \in S : b >= s
      BY <1>1
    <3>2. QED BY <1>1, <3>1 DEF Max
  <2>3. Min(S) \in a..b /\ Max(S) \in a..b /\ Min(S) <= a /\ Max(S) >= b
    BY <1>1, <2>1, <2>2
  <2>4. QED BY <2>3
<1>2. a \in a..b /\ b \in a..b
  OBVIOUS
<1>3. Min(a..b) = a /\ Max(a..b) = b
  BY <1>1, <1>2
<1>4. Min({a, b}) = a /\ Max({a, b}) = b
  BY <1>1, <1>2
<1>5. QED BY <1>3, <1>4

\* An instance of a search is one of its rows, resolved on a date.
LEMMA ResolvedRows ==
    ASSUME NEW rows, NEW table, NEW c, IsInput(rows, table, c),
           NEW x \in Resolved(rows, table, c)
    PROVE  /\ x \in Instance /\ x # None /\ x.flight \in rows
           /\ x.date \in (c.date - 3)..(c.date + 6)
           /\ x = Resolve(x.flight, x.date, table[x.flight.origin],
                          table[x.flight.destination])
           /\ OperatesOn(x.flight, x.date)
<1>1. PICK f \in rows, d \in (c.date - 3)..(c.date + 6) :
          x = Resolve(f, d, table[f.origin], table[f.destination]) /\ x # None
  BY DEF Resolved
<1>2. /\ f \in Flight /\ d \in Int
      /\ table[f.origin].zone \in Zone /\ table[f.destination].zone \in Zone
  BY DEF IsInput
<1>3. x.flight = f /\ x.date = d /\ OperatesOn(f, d)
  BY <1>1, ResolvedInstance
<1>4. x \in Instance
  BY <1>1, <1>2, ResolvedIsInstance
<1>5. QED BY <1>1, <1>3, <1>4

LEMMA JourneysAreTrips ==
    ASSUME NEW rows, NEW table, NEW c, IsInput(rows, table, c)
    PROVE  Journeys(rows, table, c) \subseteq Trips(table)
<1>1. Resolved(rows, table, c) \subseteq Instance
  BY ResolvedRows
<1>2. QED BY <1>1 DEF Journeys, Trips

\* The first flights of a search are those its query finds.
LEMMA FirstFlights ==
    ASSUME NEW rows, NEW table, NEW c, IsInput(rows, table, c), c.origin \in DOMAIN table
    PROVE  {x \in ResolveAll(FindDepartures(rows, c.origin, c.date) \X {c.date},
                             Loaded(rows, table, c)) :
              x.flight.origin # x.flight.destination}
           = {x \in Resolved(rows, table, c) : x.flight.origin = c.origin /\ x.date = c.date}
<1> DEFINE L == Loaded(rows, table, c)
           Found == ResolveAll(FindDepartures(rows, c.origin, c.date) \X {c.date}, L)
           There == {x \in Resolved(rows, table, c) :
                       x.flight.origin = c.origin /\ x.date = c.date}
<1>1. DOMAIN L = Prefetched(rows, c) \cap DOMAIN table /\ \A a \in DOMAIN L : L[a] = table[a]
  BY DEF Loaded
<1>2. c.date \in Int /\ c.date \in (c.date - 3)..(c.date + 6)
  BY DEF IsInput
<1> HIDE DEF L
<1>3. ASSUME NEW x \in Found PROVE x \in There
  <2>1. PICK f \in FindDepartures(rows, c.origin, c.date) :
            /\ {f.origin, f.destination} \subseteq DOMAIN L
            /\ x = Resolve(f, c.date, L[f.origin], L[f.destination]) /\ x # None
    BY <1>3 DEF ResolveAll
  <2>2. f \in rows /\ f.origin = c.origin
    BY <2>1 DEF FindDepartures, Departures
  <2>3. x = Resolve(f, c.date, table[f.origin], table[f.destination])
    BY <1>1, <2>1
  <2>4. x \in Resolved(rows, table, c)
    BY <1>2, <2>1, <2>2, <2>3 DEF Resolved
  <2>5. x.flight = f /\ x.date = c.date
    BY <2>1, <2>3, ResolvedInstance
  <2>6. QED BY <2>2, <2>4, <2>5
<1>4. ASSUME NEW x \in There PROVE x \in Found /\ x.flight.origin # x.flight.destination
  <2> DEFINE f == x.flight
  <2>1. /\ f \in rows /\ f.origin = c.origin /\ x # None
        /\ x = Resolve(f, c.date, table[f.origin], table[f.destination])
        /\ OperatesOn(f, c.date)
    BY ResolvedRows
  <2>2. f \in FindDepartures(rows, c.origin, c.date)
    <3>1. f.start \in Int /\ f.end \in Int \cup {None}
      BY <2>1 DEF IsInput, Flight
    <3>2. QED BY <1>2, <2>1, <3>1 DEF FindDepartures, Departures, OperatesOn
  <2>3. f.origin # f.destination /\ {f.origin, f.destination} \subseteq DOMAIN table
    BY <2>1 DEF IsInput
  <2>4. {f.origin, f.destination} \subseteq DOMAIN L
    BY <1>1, <2>1, <2>2, <2>3 DEF Prefetched
  <2>5. x = Resolve(f, c.date, L[f.origin], L[f.destination])
    BY <1>1, <2>1, <2>4
  <2> HIDE DEF f
  <2>6. x \in Found
    <3>1. <<f, c.date>> \in FindDepartures(rows, c.origin, c.date) \X {c.date}
      BY <2>2
    <3>2. QED BY <2>1, <2>4, <2>5, <3>1 DEF ResolveAll
  <2>7. QED BY <2>3, <2>6 DEF f
<1>5. QED BY <1>3, <1>4 DEF L

\* The flights that continue a first one are those the engine looks at: on its
\* dates, in its query, between airports it has loaded.
LEMMA OnwardFlights ==
    ASSUME NEW rows, NEW table, NEW c, IsInput(rows, table, c), c.origin \in DOMAIN table,
           c.maxConnections >= 1,
           NEW x \in Resolved(rows, table, c), x.flight.origin = c.origin, x.date = c.date
    PROVE  {y \in ResolveAll(FindDeparturesForDates(rows, x.flight.destination,
                                                    CandidateDates(x)),
                             Loaded(rows, table, c)) :
              ValidConnection(x, y, c.origin, Policy(c))}
           = {y \in Resolved(rows, table, c) : ValidConnection(x, y, c.origin, Policy(c))}
<1> DEFINE L == Loaded(rows, table, c)
           mid == x.flight.destination
           Found == ResolveAll(FindDeparturesForDates(rows, mid, CandidateDates(x)), L)
<1>1. DOMAIN L = Prefetched(rows, c) \cap DOMAIN table /\ \A a \in DOMAIN L : L[a] = table[a]
  BY DEF Loaded
<1>2. c.date \in Int /\ c.maxConnections \in Nat /\ c.maxConnection \in Nat
  BY DEF IsInput
<1> HIDE DEF L
<1>3. /\ x \in Instance /\ x.flight \in rows /\ x.flight \in Flight /\ x # None
      /\ x = Resolve(x.flight, c.date, table[c.origin], table[mid])
      /\ OperatesOn(x.flight, c.date) /\ mid \in DOMAIN table
      /\ table[mid].zone \in Zone
      /\ Minute * c.maxConnection + Minute + Shift(table[mid].zone) <= DayLength
  BY ResolvedRows DEF IsInput
<1>4. /\ x.flight.dayOffset \in 0..2
      /\ x.flight.start \in Int /\ x.flight.end \in Int \cup {None}
  BY <1>3 DEF Flight
<1> DEFINE k == c.date + x.flight.dayOffset
<1>5. k \in Int /\ k \in c.date..(c.date + 3) /\ k + 1 \in c.date..(c.date + 3)
  BY <1>2, <1>4
<1>6. CandidateDates(x) = {k, k + 1}
  BY DEF CandidateDates
<1>7. Min(CandidateDates(x)) = k /\ Max(CandidateDates(x)) = k + 1
  BY <1>5, <1>6, MinMax
<1>8. Min(c.date..(c.date + 3)) = c.date /\ Max(c.date..(c.date + 3)) = c.date + 3
  <2>1. c.date + 3 \in Int /\ c.date <= c.date + 3
    BY <1>2
  <2>2. QED BY <1>2, <2>1, MinMax
<1>9. x.flight \in FindDepartures(rows, c.origin, c.date)
  BY <1>2, <1>3, <1>4 DEF FindDepartures, Departures, OperatesOn
<1>10. mid \in DOMAIN L
  BY <1>1, <1>3, <1>9 DEF Prefetched
<1>11. ASSUME NEW y \in Found PROVE y \in Resolved(rows, table, c)
  <2>1. PICK pair \in FindDeparturesForDates(rows, mid, CandidateDates(x)) :
            /\ {pair[1].origin, pair[1].destination} \subseteq DOMAIN L
            /\ y = Resolve(pair[1], pair[2], L[pair[1].origin], L[pair[1].destination])
            /\ y # None
    BY <1>11 DEF ResolveAll
  <2>2. pair[1] \in rows /\ pair[2] \in {k, k + 1}
    BY <1>6, <2>1 DEF FindDeparturesForDates, Departures
  <2>3. pair[2] \in (c.date - 3)..(c.date + 6)
    BY <1>2, <1>5, <2>2
  <2>4. y = Resolve(pair[1], pair[2], table[pair[1].origin], table[pair[1].destination])
    BY <1>1, <2>1
  <2>5. QED BY <2>1, <2>2, <2>3, <2>4 DEF Resolved
<1>12. ASSUME NEW y \in Resolved(rows, table, c),
              ValidConnection(x, y, c.origin, Policy(c))
       PROVE  y \in Found
  <2> DEFINE g == y.flight
             e == y.date
  <2>1. /\ g \in rows /\ g \in Flight /\ e \in Int /\ y # None
        /\ y = Resolve(g, e, table[g.origin], table[g.destination])
        /\ OperatesOn(g, e)
    BY <1>2, ResolvedRows DEF IsInput
  <2>2. g.origin = mid
    BY <1>12 DEF ValidConnection
  <2>3. y = Resolve(g, e, table[mid], table[g.destination])
    BY <2>1, <2>2
  <2>4. Policy(c).maxConnection = c.maxConnection
    BY DEF Policy
  <2> HIDE DEF g, e, k
  <2>5. e \in {k, k + 1}
    <3>1. Minute * Policy(c).maxConnection + Minute + Shift(table[mid].zone) <= DayLength
      BY <1>3, <2>4
    <3>2. e \in CandidateDates(x)
      BY <1>2, <1>3, <1>12, <2>1, <2>3, <2>4, <3>1, CandidateDatesSuffice
    <3>3. QED BY <1>6, <3>2
  <2>6. g.start \in Int /\ g.end \in Int \cup {None} /\ g.destination \in DOMAIN table
    BY <2>1 DEF IsInput, Flight
  <2>7. g.start <= e /\ (g.end = None \/ e <= g.end)
    BY <2>1 DEF OperatesOn
  <2>8. <<g, e>> \in FindDeparturesForDates(rows, mid, CandidateDates(x))
    <3>1. g.start <= k + 1 /\ (g.end = None \/ g.end >= k)
      BY <1>5, <2>1, <2>5, <2>6, <2>7
    <3>2. g \in Departures(rows, mid, k, k + 1)
      BY <2>1, <2>2, <3>1 DEF Departures
    <3>3. QED BY <1>6, <1>7, <2>5, <3>2 DEF FindDeparturesForDates
  <2>9. g.destination \in DOMAIN L
    <3>1. g.start <= c.date + 3 /\ (g.end = None \/ g.end >= c.date)
      BY <1>2, <1>5, <2>1, <2>5, <2>6, <2>7
    <3>2. g \in Departures(rows, mid, c.date, c.date + 3)
      BY <2>1, <2>2, <3>1 DEF Departures
    <3>3. <<g, c.date>> \in FindDeparturesForDates(rows, mid, c.date..(c.date + 3))
      BY <1>2, <1>8, <3>2 DEF FindDeparturesForDates
    <3>4. g.destination \in Prefetched(rows, c)
      <4>1. ~ (c.maxConnections < 1)
        BY <1>2
      <4>2. mid \in {f.destination : f \in FindDepartures(rows, c.origin, c.date)}
        BY <1>9
      <4>3. <<g, c.date>>[1].destination = g.destination
        OBVIOUS
      <4> HIDE DEF mid
      <4>4. QED BY <3>3, <4>1, <4>2, <4>3 DEF Prefetched
    <3>5. QED BY <1>1, <2>6, <3>4
  <2>10. {g.origin, g.destination} \subseteq DOMAIN L
    BY <1>10, <2>2, <2>9
  <2>11. y = Resolve(g, e, L[g.origin], L[g.destination])
    BY <1>1, <2>2, <2>3, <2>10
  <2>12. QED BY <2>1, <2>8, <2>10, <2>11 DEF ResolveAll
<1>13. QED BY <1>11, <1>12 DEF L

\* Loading leaves an itinerary between loaded airports as it is.
LEMMA LoadedPrices ==
    ASSUME NEW table, NEW L, NEW codes, codes \subseteq DOMAIN L,
           \A a \in DOMAIN L : L[a] = table[a], NEW n
    PROVE  Price(codes, n, L) = Price(codes, n, table)
<1>1. {L[a].country : a \in codes} = {table[a].country : a \in codes}
  OBVIOUS
<1>2. QED BY <1>1, Zenon DEF Price

\* The engine generates all the journeys there are, and nothing else.
THEOREM GenerationIsComplete ==
    ASSUME NEW rows, NEW table, NEW c, IsInput(rows, table, c), c.origin \in DOMAIN table
    PROVE  Generate(rows, Loaded(rows, table, c), c) = Journeys(rows, table, c)
<1> DEFINE L == Loaded(rows, table, c)
           Instances == Resolved(rows, table, c)
           First == {x \in Instances : x.flight.origin = c.origin /\ x.date = c.date}
           Onward(x) ==
               {y \in ResolveAll(FindDeparturesForDates(rows, x.flight.destination,
                                                        CandidateDates(x)), L) :
                  ValidConnection(x, y, c.origin, Policy(c))}
           Valid(x) == {y \in Instances : ValidConnection(x, y, c.origin, Policy(c))}
           OneStopsOf(x) == {OneStop(x, y, L) : y \in Onward(x)}
           OneStops == IF c.maxConnections < 1 THEN {} ELSE UNION {OneStopsOf(x) : x \in First}
           Pairs == {p \in First \X Instances :
                       /\ c.maxConnections >= 1
                       /\ ValidConnection(p[1], p[2], c.origin, Policy(c))}
<1>1. Generate(rows, L, c) = {Direct(x, L) : x \in First} \cup OneStops
  <2> DEFINE Queried == {x \in ResolveAll(FindDepartures(rows, c.origin, c.date) \X {c.date}, L) :
                           x.flight.origin # x.flight.destination}
  <2>1. Generate(rows, L, c)
        = {Direct(x, L) : x \in Queried} \cup
          (IF c.maxConnections < 1 THEN {} ELSE UNION {OneStopsOf(x) : x \in Queried})
    BY Zenon DEF Generate
  <2>2. Queried = First
    BY FirstFlights
  <2> HIDE DEF Queried, First
  <2>3. QED BY <2>1, <2>2, Zenon
<1>2. Journeys(rows, table, c)
      = {Direct(x, table) : x \in First} \cup {OneStop(p[1], p[2], table) : p \in Pairs}
  BY DEF Journeys
<1>3. DOMAIN L = Prefetched(rows, c) \cap DOMAIN table /\ \A a \in DOMAIN L : L[a] = table[a]
  BY DEF Loaded
<1>4. c.maxConnections \in Nat
  BY DEF IsInput
<1> HIDE DEF L
<1>5. ASSUME NEW x \in First
      PROVE  /\ x.flight.origin \in DOMAIN L /\ x.flight.destination \in DOMAIN L
             /\ Direct(x, L) = Direct(x, table)
  <2>1. PICK f \in FindDepartures(rows, c.origin, c.date) :
            {f.origin, f.destination} \subseteq DOMAIN L /\ x.flight = f
    <3>1. x \in ResolveAll(FindDepartures(rows, c.origin, c.date) \X {c.date}, L)
      BY <1>5, FirstFlights DEF L
    <3>2. QED BY <3>1, ResolvedInstance DEF ResolveAll
  <2>2. {x.flight.origin, x.flight.destination} \subseteq DOMAIN L
    BY <2>1
  <2>3. Price({x.flight.origin, x.flight.destination}, 1, L)
        = Price({x.flight.origin, x.flight.destination}, 1, table)
    BY <1>3, <2>2, LoadedPrices
  <2>4. QED BY <2>2, <2>3 DEF Direct
<1>6. ASSUME NEW x \in First, c.maxConnections >= 1
      PROVE  Onward(x) = Valid(x)
  BY <1>6, OnwardFlights DEF L
<1>7. ASSUME NEW x \in First, NEW y \in Onward(x)
      PROVE  OneStop(x, y, L) = OneStop(x, y, table)
  <2>1. y.flight.destination \in DOMAIN L
    BY <1>7, ResolvedInstance DEF ResolveAll
  <2> DEFINE codes == {x.flight.origin, x.flight.destination, y.flight.destination}
  <2>2. codes \subseteq DOMAIN L
    BY <1>5, <2>1
  <2> HIDE DEF codes
  <2>3. Price(codes, 2, L) = Price(codes, 2, table)
    BY <1>3, <2>2, LoadedPrices
  <2>4. QED BY <2>3 DEF OneStop, codes
<1>8. {Direct(x, L) : x \in First} = {Direct(x, table) : x \in First}
  BY <1>5
<1>9. OneStops = {OneStop(p[1], p[2], table) : p \in Pairs}
  <2>1. CASE c.maxConnections < 1
    BY <1>4, <2>1
  <2>2. CASE c.maxConnections >= 1
    <3>1. ASSUME NEW it \in OneStops PROVE it \in {OneStop(p[1], p[2], table) : p \in Pairs}
      <4>1. PICK x \in First : it \in OneStopsOf(x)
        BY <1>4, <2>2, <3>1
      <4>2. PICK y \in Onward(x) : it = OneStop(x, y, L)
        BY <4>1
      <4>3. y \in Valid(x) /\ it = OneStop(x, y, table)
        BY <1>6, <1>7, <2>2, <4>2
      <4>4. <<x, y>> \in Pairs /\ it = OneStop(<<x, y>>[1], <<x, y>>[2], table)
        BY <2>2, <4>3
      <4>5. QED BY <4>4
    <3>2. ASSUME NEW p \in Pairs PROVE OneStop(p[1], p[2], table) \in OneStops
      <4>1. p[1] \in First /\ p[2] \in Onward(p[1])
        BY <1>6, <2>2
      <4>2. OneStop(p[1], p[2], table) = OneStop(p[1], p[2], L)
        BY <1>7, <4>1
      <4>3. OneStop(p[1], p[2], table) \in OneStopsOf(p[1])
        BY <4>1, <4>2
      <4>4. QED BY <1>4, <2>2, <4>1, <4>3
    <3>3. QED BY <3>1, <3>2
  <2>3. QED BY <1>4, <2>1, <2>2
<1>10. QED BY <1>1, <1>2, <1>8, <1>9, Zenon DEF L

-----------------------------------------------------------------------------
(* Keys.                                                                   *)

LEMMA PriceType ==
    ASSUME NEW codes, NEW n \in Nat, NEW table
    PROVE  Price(codes, n, table) = None \/ Price(codes, n, table) \in Nat
<1>1. SegmentPrice * n \in Nat
  BY RoutingAssumption
<1>2. QED BY <1>1 DEF Price

\* What the filters and the sort read of an itinerary.
LEMMA TripTypes ==
    ASSUME NEW table, NEW it \in Trips(table)
    PROVE  /\ FirstOf(it) \in Instance /\ LastOf(it) \in Instance
           /\ ConnectionCount(it) \in 0..1
           /\ it.price = None \/ it.price \in Nat
           /\ Identity(it) \in Seq(Int) /\ Place(it) \in Seq(Int)
           /\ WinnerKey(it) \in Seq(Int)
<1>1. ASSUME NEW x \in Instance, it = Direct(x, table)
      PROVE  /\ FirstOf(it) = x /\ LastOf(it) = x /\ ConnectionCount(it) = 0
             /\ it.price = None \/ it.price \in Nat
             /\ Identity(it) \in Seq(Int) /\ Place(it) \in Seq(Int)
             /\ WinnerKey(it) \in Seq(Int)
  <2>1. FirstOf(Direct(x, table)) = x /\ LastOf(Direct(x, table)) = x
    BY DirectParts
  <2>2. ConnectionCount(Direct(x, table)) = 0
    BY DirectParts
  <2>3. Direct(x, table).price = None \/ Direct(x, table).price \in Nat
    <3>1. 1 \in Nat
      OBVIOUS
    <3>2. QED BY <3>1, DirectPrice, PriceType, Zenon
  <2>4. /\ Identity(Direct(x, table)) \in Seq(Int) /\ Place(Direct(x, table)) \in Seq(Int)
        /\ WinnerKey(Direct(x, table)) \in Seq(Int)
    BY DirectTuples
  <2>5. QED BY <1>1, <2>1, <2>2, <2>3, <2>4, Zenon
<1>2. ASSUME NEW x \in Instance, NEW y \in Instance, it = OneStop(x, y, table)
      PROVE  /\ FirstOf(it) = x /\ LastOf(it) = y /\ ConnectionCount(it) = 1
             /\ it.price = None \/ it.price \in Nat
             /\ Identity(it) \in Seq(Int) /\ Place(it) \in Seq(Int)
             /\ WinnerKey(it) \in Seq(Int)
  <2>1. FirstOf(OneStop(x, y, table)) = x /\ LastOf(OneStop(x, y, table)) = y
    BY OneStopParts
  <2>2. ConnectionCount(OneStop(x, y, table)) = 1
    BY OneStopParts
  <2>3. OneStop(x, y, table).price = None \/ OneStop(x, y, table).price \in Nat
    <3> DEFINE codes == {x.flight.origin, x.flight.destination, y.flight.destination}
    <3>1. OneStop(x, y, table).price = Price(codes, 2, table)
      BY OneStopPrice, Zenon
    <3> HIDE DEF codes
    <3>2. Price(codes, 2, table) = None \/ Price(codes, 2, table) \in Nat
      BY PriceType
    <3>3. QED BY <3>1, <3>2, Zenon
  <2>4. /\ Identity(OneStop(x, y, table)) \in Seq(Int)
        /\ Place(OneStop(x, y, table)) \in Seq(Int)
        /\ WinnerKey(OneStop(x, y, table)) \in Seq(Int)
    BY OneStopTuples
  <2>5. QED BY <1>2, <2>1, <2>2, <2>3, <2>4, Zenon
<1>3. CASE \E x \in Instance : it = Direct(x, table)
  BY <1>1, <1>3
<1>4. CASE \E x, y \in Instance : it = OneStop(x, y, table)
  BY <1>2, <1>4
<1>5. QED BY <1>3, <1>4 DEF Trips

LEMMA DurationType ==
    ASSUME NEW table, NEW it \in Trips(table)
    PROVE  Duration(it) \in Int
<1>1. FirstOf(it).departure \in Int /\ LastOf(it).arrival \in Int
  BY TripTypes DEF Instance
<1>2. LastOf(it).arrival - FirstOf(it).departure \in Int
  BY <1>1
<1>3. QED BY <1>2, FloorBounds DEF Duration, TotalDuration

LEMMA SortKeyType ==
    ASSUME NEW table, NEW it \in Trips(table), NEW mode \in SortModes
    PROVE  SortKey(it, mode) \in Keys
<1>1. /\ FirstOf(it).departure \in Int /\ Destination(it) \in Int
      /\ ConnectionCount(it) \in Int /\ Duration(it) \in Int
      /\ it.price = None \/ it.price \in Nat
  <2>1. /\ FirstOf(it) \in Instance /\ LastOf(it) \in Instance
        /\ ConnectionCount(it) \in 0..1
        /\ it.price = None \/ it.price \in Nat
    BY TripTypes
  <2>2. FirstOf(it).departure \in Int /\ LastOf(it).flight.destination \in Int
    BY <2>1 DEF Instance, Flight
  <2>3. ConnectionCount(it) \in Int
    BY <2>1
  <2>4. QED BY <2>1, <2>2, <2>3, DurationType DEF Destination
<1>2. Primary(it, mode) \in Int
  BY <1>1, RoutingAssumption DEF Primary, SortModes
<1>3. <<Primary(it, mode), ConnectionCount(it), Duration(it),
        FirstOf(it).departure, Destination(it)>> \in Seq(Int)
  BY <1>1, <1>2
<1>4. Identity(it) \in Seq(Int)
  BY TripTypes
<1>5. QED BY <1>3, <1>4 DEF SortKey, Keys

\* Itineraries of one identity cannot be told apart by their sort keys, their
\* prices or their durations.
LEMMA IdentityDecides ==
    ASSUME NEW table, NEW a \in Trips(table), NEW b \in Trips(table),
           Identity(a) = Identity(b)
    PROVE  /\ a.price = b.price
           /\ \A mode \in SortModes : SortKey(a, mode) = SortKey(b, mode)
           /\ WholeMinutes(a) <=> WholeMinutes(b)
<1> DEFINE Alike == /\ a.price = b.price
                    /\ ConnectionCount(a) = ConnectionCount(b)
                    /\ SameFlight(FirstOf(a), FirstOf(b))
                    /\ SameFlight(LastOf(a), LastOf(b))
                    /\ WholeMinutes(a) <=> WholeMinutes(b)
<1>1. ASSUME NEW x \in Instance, NEW v \in Instance,
             a = Direct(x, table), b = Direct(v, table)
      PROVE  Alike
  <2>1. SameFlight(x, v)
    BY <1>1, SameIdentity
  <2>2. /\ FirstOf(a) = x /\ LastOf(a) = x /\ ConnectionCount(a) = 0
        /\ a.segments = <<x>> /\ DOMAIN a.segments = 1..1
        /\ a.price = Price({x.flight.origin, x.flight.destination}, 1, table)
    BY <1>1, DirectSegments, DirectParts, DirectPrice
  <2>3. /\ FirstOf(b) = v /\ LastOf(b) = v /\ ConnectionCount(b) = 0
        /\ b.segments = <<v>> /\ DOMAIN b.segments = 1..1
        /\ b.price = Price({v.flight.origin, v.flight.destination}, 1, table)
    BY <1>1, DirectSegments, DirectParts, DirectPrice
  <2>4. a.price = b.price
    BY <2>1, <2>2, <2>3, Zenon DEF SameFlight
  <2>5. WholeMinutes(a) <=> WholeMinutes(b)
    <3>1. WholeMinutes(a) <=> (x.arrival - x.departure) % Minute = 0
      BY <2>2 DEF WholeMinutes
    <3>2. WholeMinutes(b) <=> (v.arrival - v.departure) % Minute = 0
      BY <2>3 DEF WholeMinutes
    <3>3. QED BY <2>1, <3>1, <3>2, Zenon DEF SameFlight
  <2>6. QED BY <2>1, <2>2, <2>3, <2>4, <2>5
<1>2. ASSUME NEW x \in Instance, NEW y \in Instance, NEW v \in Instance, NEW w \in Instance,
             a = OneStop(x, y, table), b = OneStop(v, w, table)
      PROVE  Alike
  <2>1. SameFlight(x, v) /\ SameFlight(y, w)
    BY <1>2, SameIdentity
  <2>2. /\ FirstOf(a) = x /\ LastOf(a) = y /\ ConnectionCount(a) = 1
        /\ a.segments = <<x, y>> /\ DOMAIN a.segments = 1..2
        /\ a.price = Price({x.flight.origin, x.flight.destination,
                            y.flight.destination}, 2, table)
    BY <1>2, OneStopSegments, OneStopParts, OneStopPrice
  <2>3. /\ FirstOf(b) = v /\ LastOf(b) = w /\ ConnectionCount(b) = 1
        /\ b.segments = <<v, w>> /\ DOMAIN b.segments = 1..2
        /\ b.price = Price({v.flight.origin, v.flight.destination,
                            w.flight.destination}, 2, table)
    BY <1>2, OneStopSegments, OneStopParts, OneStopPrice
  <2>4. a.price = b.price
    BY <2>1, <2>2, <2>3, Zenon DEF SameFlight
  <2>5. WholeMinutes(a) <=> WholeMinutes(b)
    <3>1. WholeMinutes(a) <=> /\ (x.arrival - x.departure) % Minute = 0
                              /\ (y.arrival - y.departure) % Minute = 0
      BY <2>2 DEF WholeMinutes
    <3>2. WholeMinutes(b) <=> /\ (v.arrival - v.departure) % Minute = 0
                              /\ (w.arrival - w.departure) % Minute = 0
      BY <2>3 DEF WholeMinutes
    <3>3. QED BY <2>1, <3>1, <3>2, Zenon DEF SameFlight
  <2>6. QED BY <2>1, <2>2, <2>3, <2>4, <2>5
<1>3. \A x, v, w \in Instance : Identity(Direct(x, table)) # Identity(OneStop(v, w, table))
  <2> TAKE x, v, w \in Instance
  <2>1. Len(Identity(Direct(x, table))) = 7
    BY DirectTuples
  <2>2. Len(Identity(OneStop(v, w, table))) = 13
    BY OneStopTuples
  <2>3. QED BY <2>1, <2>2
<1>4. Alike
  <2>1. /\ (\E x \in Instance : a = Direct(x, table))
           \/ (\E x, y \in Instance : a = OneStop(x, y, table))
        /\ (\E x \in Instance : b = Direct(x, table))
           \/ (\E x, y \in Instance : b = OneStop(x, y, table))
    BY DEF Trips
  <2> HIDE DEF Alike
  <2>2. QED BY <1>1, <1>2, <1>3, <2>1
<1>5. ASSUME NEW mode \in SortModes PROVE SortKey(a, mode) = SortKey(b, mode)
  <2>1. /\ Duration(a) = Duration(b) /\ Destination(a) = Destination(b)
        /\ FirstOf(a).departure = FirstOf(b).departure
    BY <1>4, Zenon DEF SameFlight, Duration, TotalDuration, Destination
  <2>2. Primary(a, mode) = Primary(b, mode)
    BY <1>4, <2>1 DEF Primary, SortModes
  <2>3. ConnectionCount(a) = ConnectionCount(b)
    BY <1>4
  <2>4. QED BY <2>1, <2>2, <2>3, Zenon DEF SortKey
<1>6. QED BY <1>4, <1>5

\* A journey has a place of its own in the lists.
LEMMA PlaceDecides ==
    ASSUME NEW rows, NEW table, NEW c, IsInput(rows, table, c),
           NEW a \in Journeys(rows, table, c), NEW b \in Journeys(rows, table, c),
           Place(a) = Place(b)
    PROVE  a = b
<1> DEFINE S == Resolved(rows, table, c)
<1>1. ASSUME NEW x \in S, NEW v \in S, RowPlace(x) = RowPlace(v)
      PROVE  x = v
  <2>1. x.flight.id = v.flight.id /\ x.date = v.date
    BY <1>1 DEF RowPlace
  <2>2. x.flight \in rows /\ v.flight \in rows
    BY ResolvedRows
  <2>3. x.flight = v.flight
    BY <2>1, <2>2 DEF IsInput
  <2>4. /\ x = Resolve(x.flight, x.date, table[x.flight.origin], table[x.flight.destination])
        /\ v = Resolve(v.flight, v.date, table[v.flight.origin], table[v.flight.destination])
    BY ResolvedRows
  <2>5. QED BY <2>1, <2>3, <2>4, Zenon
<1>2. S \subseteq Instance
  BY ResolvedRows
<1>3. \A it \in Journeys(rows, table, c) :
          \/ \E x \in S : it = Direct(x, table)
          \/ \E x, y \in S : it = OneStop(x, y, table)
  BY DEF Journeys
<1> HIDE DEF S
<1>4. ASSUME NEW x \in S, NEW v \in S, Place(Direct(x, table)) = Place(Direct(v, table))
      PROVE  x = v
  <2>1. Place(Direct(x, table)) = RowPlace(x) /\ Place(Direct(v, table)) = RowPlace(v)
    BY DirectNames, Zenon
  <2>2. QED BY <1>1, <1>4, <2>1, Zenon
<1>5. ASSUME NEW x \in S, NEW y \in S, NEW v \in S, NEW w \in S,
             Place(OneStop(x, y, table)) = Place(OneStop(v, w, table))
      PROVE  x = v /\ y = w
  <2>1. Place(OneStop(x, y, table)) = RowPlace(x) \o RowPlace(y)
    BY OneStopNames, Zenon
  <2>2. Place(OneStop(v, w, table)) = RowPlace(v) \o RowPlace(w)
    BY OneStopNames, Zenon
  <2>3. RowPlace(x) \o RowPlace(y) = RowPlace(v) \o RowPlace(w)
    BY <1>5, <2>1, <2>2, Zenon
  <2>4. /\ RowPlace(x) \in Seq(Int) /\ Len(RowPlace(x)) = 4
        /\ RowPlace(v) \in Seq(Int) /\ Len(RowPlace(v)) = 4
        /\ RowPlace(y) \in Seq(Int) /\ RowPlace(w) \in Seq(Int)
    BY <1>2, Tuples
  <2>5. RowPlace(x) = RowPlace(v) /\ RowPlace(y) = RowPlace(w)
    BY <2>3, <2>4, Cancel
  <2>6. QED BY <1>1, <2>5
<1>6. ASSUME NEW x \in S, NEW v \in S, NEW w \in S
      PROVE  Place(Direct(x, table)) # Place(OneStop(v, w, table))
  <2>1. Len(Place(Direct(x, table))) = 4
    BY <1>2, DirectTuples
  <2>2. Len(Place(OneStop(v, w, table))) = 8
    BY <1>2, OneStopTuples
  <2>3. QED BY <2>1, <2>2
<1>7. QED BY <1>3, <1>4, <1>5, <1>6

-----------------------------------------------------------------------------
(* Deduplication and sorting.                                              *)

\* A function on a finite set has finitely many values.
LEMMA FiniteValues ==
    ASSUME NEW S, IsFiniteSet(S), NEW f, DOMAIN f = S
    PROVE  IsFiniteSet({f[x] : x \in S})
<1> DEFINE T == {f[x] : x \in S}
           g == [x \in S |-> f[x]]
<1>1. g \in Surjection(S, T)
  BY DEF Surjection
<1> HIDE DEF g, T
<1>2. IsFiniteSet(T)
  BY <1>1, FS_Surjection
<1>3. QED BY <1>2 DEF T

LEMMA JourneysAreFinite ==
    ASSUME NEW rows, NEW table, NEW c, IsInput(rows, table, c)
    PROVE  IsFiniteSet(Journeys(rows, table, c))
<1> DEFINE Instances == Resolved(rows, table, c)
           Dates == (c.date - 3)..(c.date + 6)
           First == {x \in Instances : x.flight.origin = c.origin /\ x.date = c.date}
           Pairs == {p \in First \X Instances :
                       /\ c.maxConnections >= 1
                       /\ ValidConnection(p[1], p[2], c.origin, Policy(c))}
<1>1. IsFiniteSet(Instances)
  <2> DEFINE f == [p \in rows \X Dates |-> Resolve(p[1], p[2], table[p[1].origin],
                                                   table[p[1].destination])]
  <2>1. IsFiniteSet(rows) /\ IsFiniteSet(Dates)
    <3>1. c.date - 3 \in Int /\ c.date + 6 \in Int
      BY DEF IsInput
    <3>2. QED BY <3>1, FS_Interval DEF IsInput
  <2>2. IsFiniteSet(rows \X Dates)
    BY <2>1, FS_Product
  <2>3. IsFiniteSet({f[p] : p \in rows \X Dates})
    <3>1. DOMAIN f = rows \X Dates
      OBVIOUS
    <3> HIDE DEF f
    <3>2. QED BY <2>2, <3>1, FiniteValues
  <2>4. ASSUME NEW x \in Instances PROVE x \in {f[p] : p \in rows \X Dates}
    <3>1. PICK r \in rows, d \in Dates :
              x = Resolve(r, d, table[r.origin], table[r.destination])
      BY DEF Resolved
    <3>2. <<r, d>> \in rows \X Dates /\ f[<<r, d>>] = x
      BY <3>1
    <3> HIDE DEF f
    <3>3. QED BY <3>2
  <2> HIDE DEF f
  <2>5. QED BY <2>3, <2>4, FS_Subset
<1> HIDE DEF Instances
<1>2. IsFiniteSet(First) /\ IsFiniteSet(Pairs)
  <2>1. First \in SUBSET Instances /\ Pairs \in SUBSET (First \X Instances)
    OBVIOUS
  <2>2. IsFiniteSet(First)
    BY <1>1, <2>1, FS_Subset
  <2>3. IsFiniteSet(First \X Instances)
    BY <1>1, <2>2, FS_Product
  <2>4. QED BY <2>1, <2>2, <2>3, FS_Subset
<1> DEFINE direct == [x \in First |-> Direct(x, table)]
           oneStop == [p \in Pairs |-> OneStop(p[1], p[2], table)]
<1>3. Journeys(rows, table, c) = {direct[x] : x \in First} \cup {oneStop[p] : p \in Pairs}
  BY Zenon DEF Journeys, Instances
<1>4. DOMAIN direct = First /\ DOMAIN oneStop = Pairs
  OBVIOUS
<1> HIDE DEF direct, oneStop, First, Pairs
<1>5. IsFiniteSet({direct[x] : x \in First}) /\ IsFiniteSet({oneStop[p] : p \in Pairs})
  BY <1>2, <1>4, FiniteValues
<1>6. QED BY <1>3, <1>5, FS_Union

\* Of every identity that is found, one itinerary is kept, at one place.
LEMMA Deduplicated ==
    ASSUME NEW rows, NEW table, NEW c, IsInput(rows, table, c),
           NEW found \in SUBSET Journeys(rows, table, c)
    PROVE  LET kept == Deduplicate(found)
           IN /\ DOMAIN kept \in SUBSET found
              /\ \A s \in DOMAIN kept : kept[s] \in found /\ Identity(kept[s]) = Identity(s)
              /\ \A it \in found : \E s \in DOMAIN kept : Identity(s) = Identity(it)
              /\ \A s, t \in DOMAIN kept : Identity(s) = Identity(t) => s = t
<1> DEFINE kept == Deduplicate(found)
           Same(it) == {other \in found : Identity(other) = Identity(it)}
           ByPlace == {p \in found \X found : Less(Place(p[1]), Place(p[2]))}
           ByIds == {p \in found \X found : Less(WinnerKey(p[1]), WinnerKey(p[2]))}
<1>1. \A it \in found : Place(it) \in Seq(Int) /\ WinnerKey(it) \in Seq(Int)
  BY JourneysAreTrips, TripTypes
<1>2. ASSUME NEW S \in SUBSET found PROVE IsFiniteSet(S)
  BY JourneysAreFinite, FS_Subset
<1>3. ASSUME NEW S \in SUBSET found PROVE PartOrders(ByPlace, S) /\ PartOrders(ByIds, S)
  <2>1. \A it \in S : it \in found
    OBVIOUS
  <2>2. PartOrders(ByPlace, S)
    <3>1. \A x \in S : <<x, x>> \notin ByPlace
      BY <1>1, LessIrreflexive
    <3>2. ASSUME NEW x \in S, NEW y \in S, NEW z \in S,
                 <<x, y>> \in ByPlace, <<y, z>> \in ByPlace
          PROVE  <<x, z>> \in ByPlace
      <4>1. Less(Place(x), Place(y)) /\ Less(Place(y), Place(z))
        BY <3>2
      <4>2. Less(Place(x), Place(z))
        BY <1>1, <4>1, LessTransitive
      <4>3. QED BY <4>2
    <3>3. QED BY <3>1, <3>2 DEF PartOrders
  <2>3. PartOrders(ByIds, S)
    <3>1. \A x \in S : <<x, x>> \notin ByIds
      BY <1>1, LessIrreflexive
    <3>2. ASSUME NEW x \in S, NEW y \in S, NEW z \in S,
                 <<x, y>> \in ByIds, <<y, z>> \in ByIds
          PROVE  <<x, z>> \in ByIds
      <4>1. Less(WinnerKey(x), WinnerKey(y)) /\ Less(WinnerKey(y), WinnerKey(z))
        BY <3>2
      <4>2. Less(WinnerKey(x), WinnerKey(z))
        BY <1>1, <4>1, LessTransitive
      <4>3. QED BY <4>2
    <3>3. QED BY <3>1, <3>2 DEF PartOrders
  <2>4. QED BY <2>2, <2>3
<1>4. /\ DOMAIN kept = {it \in found :
                          \A other \in Same(it) : ~ Less(Place(other), Place(it))}
      /\ \A it \in DOMAIN kept :
            kept[it] = CHOOSE winner \in Same(it) :
                         \A other \in Same(it) : ~ Less(WinnerKey(other), WinnerKey(winner))
  BY DEF Deduplicate
<1>5. ASSUME NEW it \in found
      PROVE  /\ Same(it) \in SUBSET found /\ Same(it) # {}
             /\ IsFiniteSet(Same(it))
  <2>1. Same(it) \in SUBSET found /\ it \in Same(it)
    OBVIOUS
  <2>2. QED BY <1>2, <2>1
<1> HIDE DEF kept
<1>6. DOMAIN kept \in SUBSET found
  BY <1>4
<1>7. ASSUME NEW s \in DOMAIN kept
      PROVE  kept[s] \in found /\ Identity(kept[s]) = Identity(s)
  <2>1. s \in found
    BY <1>6
  <2>2. PICK w \in Same(s) : \A y \in Same(s) : <<y, w>> \notin ByIds
    <3> DEFINE S == Same(s)
    <3>1. IsFiniteSet(S) /\ S # {} /\ PartOrders(ByIds, S)
      BY <1>3, <1>5, <2>1
    <3> HIDE DEF S, ByIds
    <3>2. \E x \in S : \A y \in S : <<y, x>> \notin ByIds
      BY <3>1, Minimal
    <3>3. QED BY <3>2 DEF S
  <2>3. \A other \in Same(s) : ~ Less(WinnerKey(other), WinnerKey(w))
    BY <2>2
  <2>4. kept[s] \in Same(s)
    BY <1>4, <2>3, Zenon
  <2>5. QED BY <2>4
<1>8. ASSUME NEW it \in found PROVE \E s \in DOMAIN kept : Identity(s) = Identity(it)
  <2>1. PICK s \in Same(it) : \A y \in Same(it) : <<y, s>> \notin ByPlace
    <3> DEFINE S == Same(it)
    <3>1. IsFiniteSet(S) /\ S # {} /\ PartOrders(ByPlace, S)
      BY <1>3, <1>5
    <3> HIDE DEF S, ByPlace
    <3>2. \E x \in S : \A y \in S : <<y, x>> \notin ByPlace
      BY <3>1, Minimal
    <3>3. QED BY <3>2 DEF S
  <2>2. s \in found /\ Identity(s) = Identity(it)
    OBVIOUS
  <2>3. \A other \in Same(s) : ~ Less(Place(other), Place(s))
    BY <2>1, <2>2
  <2>4. QED BY <1>4, <2>2, <2>3
<1>9. ASSUME NEW s \in DOMAIN kept, NEW t \in DOMAIN kept, Identity(s) = Identity(t)
      PROVE  s = t
  <2>1. s \in found /\ t \in found /\ ~ Less(Place(s), Place(t)) /\ ~ Less(Place(t), Place(s))
    BY <1>4, <1>9
  <2>2. Place(s) = Place(t)
    BY <1>1, <2>1, LessTotal
  <2>3. QED BY <2>1, <2>2, PlaceDecides
<1>10. QED BY <1>6, <1>7, <1>8, <1>9 DEF kept

\* Sorting puts every kept itinerary at one place, by increasing keys.
LEMMA Sorted ==
    ASSUME NEW kept, IsFiniteSet(DOMAIN kept), NEW mode,
           \A s \in DOMAIN kept : SortKey(kept[s], mode) \in Keys /\ Place(s) \in Seq(Int),
           \A s, t \in DOMAIN kept :
               SortKey(kept[s], mode) = SortKey(kept[t], mode) => s = t
    PROVE  LET n == Cardinality(DOMAIN kept)
               sorted == SortItineraries(kept, mode)
           IN /\ n \in Nat /\ sorted \in [1..n -> {kept[s] : s \in DOMAIN kept}]
              /\ \A s \in DOMAIN kept : \E i \in 1..n : sorted[i] = kept[s]
              /\ \A i, j \in 1..n :
                    i < j => KeyLess(SortKey(sorted[i], mode), SortKey(sorted[j], mode))
<1> DEFINE D == DOMAIN kept
           n == Cardinality(D)
           sorted == SortItineraries(kept, mode)
           key == [s \in D |-> SortKey(kept[s], mode)]
           Before(s, t) == KeyLess(key[s], key[t])
                           \/ (key[s] = key[t] /\ Less(Place(s), Place(t)))
           R == {p \in D \X D : Before(p[1], p[2])}
           rank == [seen \in D |-> Cardinality({s \in D : Before(s, seen)})]
<1>1. sorted = [i \in 1..n |-> kept[CHOOSE seen \in D : rank[seen] = i - 1]]
  BY Zenon DEF SortItineraries
<1>2. \A s, t \in D : <<s, t>> \in R <=> KeyLess(key[s], key[t])
  <2>1. ASSUME NEW s \in D, NEW t \in D PROVE <<s, t>> \in R <=> KeyLess(key[s], key[t])
    <3>1. <<s, t>> \in R <=> Before(s, t)
      OBVIOUS
    <3>2. key[s] = key[t] => s = t
      OBVIOUS
    <3>3. ~ Less(Place(s), Place(s))
      BY LessIrreflexive
    <3> HIDE DEF R, key
    <3>4. QED BY <3>1, <3>2, <3>3
  <2>2. QED BY <2>1
<1>3. \A s \in D : key[s] \in Keys
  OBVIOUS
<1>4. \A s, t \in D : key[s] = key[t] => s = t
  OBVIOUS
<1>5. \A s \in D : rank[s] = Rank(s, R, D)
  <2> TAKE s \in D
  <2>1. {t \in D : Before(t, s)} = {t \in D : <<t, s>> \in R}
    OBVIOUS
  <2>2. rank[s] = Cardinality({t \in D : Before(t, s)})
    OBVIOUS
  <2> HIDE DEF R, rank, Before
  <2>3. QED BY <2>1, <2>2, Zenon DEF Rank
<1> HIDE DEF R, rank, key, sorted, Before
<1>6. Orders(R, D)
  <2>1. \A s \in D : <<s, s>> \notin R
    BY <1>2, <1>3, KeyOrder
  <2>2. \A s, t, u \in D : <<s, t>> \in R /\ <<t, u>> \in R => <<s, u>> \in R
    <3> TAKE s, t, u \in D
    <3>1. key[s] \in Keys /\ key[t] \in Keys /\ key[u] \in Keys
      BY <1>3
    <3>2. KeyLess(key[s], key[t]) /\ KeyLess(key[t], key[u]) => KeyLess(key[s], key[u])
      BY <3>1, KeyOrder
    <3>3. QED BY <1>2, <3>2
  <2>3. \A s, t \in D : s # t => <<s, t>> \in R \/ <<t, s>> \in R
    <3> TAKE s, t \in D
    <3>1. key[s] \in Keys /\ key[t] \in Keys /\ (s # t => key[s] # key[t])
      BY <1>3, <1>4
    <3>2. key[s] # key[t] => KeyLess(key[s], key[t]) \/ KeyLess(key[t], key[s])
      BY <3>1, KeyOrder
    <3>3. QED BY <1>2, <3>1, <3>2
  <2>4. QED BY <2>1, <2>2, <2>3 DEF Orders, PartOrders
<1>7. /\ n \in Nat
      /\ \A s \in D : Rank(s, R, D) \in 0..(n - 1)
      /\ \A s, t \in D : Rank(s, R, D) < Rank(t, R, D) <=> <<s, t>> \in R
      /\ \A s, t \in D : Rank(s, R, D) = Rank(t, R, D) => s = t
      /\ \A k \in 0..(n - 1) : \E s \in D : Rank(s, R, D) = k
  BY <1>6, Ranks
<1> DEFINE at(i) == CHOOSE seen \in D : rank[seen] = i - 1
<1>8. ASSUME NEW i \in 1..n
      PROVE  at(i) \in D /\ rank[at(i)] = i - 1 /\ sorted[i] = kept[at(i)]
  <2>1. i - 1 \in 0..(n - 1)
    BY <1>7
  <2>2. \E s \in D : rank[s] = i - 1
    BY <1>5, <1>7, <2>1
  <2>3. at(i) \in D /\ rank[at(i)] = i - 1
    BY <2>2
  <2>4. sorted[i] = kept[at(i)]
    BY <1>1
  <2>5. QED BY <2>3, <2>4
<1>9. sorted \in [1..n -> {kept[s] : s \in D}]
  BY <1>1, <1>8
<1>10. ASSUME NEW s \in D PROVE \E i \in 1..n : sorted[i] = kept[s]
  <2> DEFINE i == rank[s] + 1
  <2>1. i \in 1..n /\ i - 1 = rank[s]
    BY <1>5, <1>7
  <2> HIDE DEF i
  <2>2. at(i) \in D /\ rank[at(i)] = rank[s] /\ sorted[i] = kept[at(i)]
    BY <1>8, <2>1
  <2> HIDE DEF at
  <2>3. at(i) = s
    BY <1>5, <1>7, <2>2
  <2>4. QED BY <2>1, <2>2, <2>3
<1>11. ASSUME NEW i \in 1..n, NEW j \in 1..n, i < j
       PROVE  KeyLess(SortKey(sorted[i], mode), SortKey(sorted[j], mode))
  <2>1. /\ at(i) \in D /\ rank[at(i)] = i - 1 /\ sorted[i] = kept[at(i)]
        /\ at(j) \in D /\ rank[at(j)] = j - 1 /\ sorted[j] = kept[at(j)]
    BY <1>8
  <2> HIDE DEF at
  <2>2. rank[at(i)] < rank[at(j)]
    BY <1>11, <2>1
  <2>3. KeyLess(key[at(i)], key[at(j)])
    BY <1>2, <1>5, <1>7, <2>1, <2>2
  <2>4. QED BY <2>1, <2>3 DEF key
<1>12. QED BY <1>7, <1>9, <1>10, <1>11 DEF sorted

-----------------------------------------------------------------------------
(* The results of a search.                                                *)

LEMMA BoundedCount ==
    ASSUME NEW n \in Nat
    PROVE  LET m == Min({MaxResults, n}) IN m \in 0..n /\ (m # n => m = MaxResults)
<1>1. MaxResults \in Nat
  BY RoutingAssumption
<1>2. CASE MaxResults <= n
  BY <1>1, <1>2, MinMax
<1>3. CASE n <= MaxResults
  <2>1. {MaxResults, n} = {n, MaxResults}
    OBVIOUS
  <2>2. Min({n, MaxResults}) = n
    BY <1>1, <1>3, MinMax
  <2>3. QED BY <2>1, <2>2
<1>4. QED BY <1>1, <1>2, <1>3

\* The keys of a list of itineraries.
KeysOf(results, mode) == [i \in DOMAIN results |-> SortKey(results[i], mode)]

LEMMA KeysOfResults ==
    ASSUME NEW table, NEW results \in Seq(Trips(table)), NEW mode \in SortModes
    PROVE  LET keys == KeysOf(results, mode)
           IN /\ Len(keys) = Len(results) /\ DOMAIN keys = 1..Len(results)
              /\ \A i \in 1..Len(results) :
                    keys[i] = SortKey(results[i], mode) /\ keys[i] \in Keys
<1> DEFINE keys == KeysOf(results, mode)
           n == Len(results)
<1>1. n \in Nat /\ DOMAIN results = 1..n /\ \A i \in 1..n : results[i] \in Trips(table)
  BY LenProperties
<1>2. keys = [i \in 1..n |-> SortKey(results[i], mode)]
  BY <1>1 DEF KeysOf
<1>3. \A i \in 1..n : SortKey(results[i], mode) \in Keys
  BY <1>1, SortKeyType
<1>4. keys \in [1..n -> Keys]
  BY <1>2, <1>3
<1> HIDE DEF keys, n
<1>5. keys \in Seq(Keys)
  BY <1>1, <1>4, SeqDef
<1>6. Len(keys) \in Nat /\ DOMAIN keys = 1..Len(keys)
  BY <1>5, LenProperties
<1>7. 1..Len(keys) = 1..n
  BY <1>4, <1>6
<1>8. Len(keys) = n
  <2> DEFINE k == Len(keys)
  <2>1. k \in Nat /\ \A i \in Int : i \in 1..k <=> i \in 1..n
    BY <1>6, <1>7
  <2> HIDE DEF k
  <2>2. k \in 1..k <=> k \in 1..n
    BY <2>1
  <2>3. n \in 1..k <=> n \in 1..n
    BY <1>1, <2>1
  <2>4. k = n
    BY <1>1, <2>1, <2>2, <2>3
  <2>5. QED BY <2>4 DEF k
<1>9. QED BY <1>2, <1>3, <1>6, <1>8 DEF keys, n

\* Sorted and cut, the itineraries kept are the best of what was found.
LEMMA ResultsAreBest ==
    ASSUME NEW rows, NEW table, NEW c, IsInput(rows, table, c)
    PROVE  LET found == {it \in Journeys(rows, table, c) : Matches(it, c, table)}
               results == Respond(Deduplicate(found), c.sort)
           IN /\ results \in Seq(found)
              /\ Best(results, Choice(rows, table, c), c.sort)
<1> DEFINE found == {it \in Journeys(rows, table, c) : Matches(it, c, table)}
           mode == c.sort
           kept == Deduplicate(found)
           D == DOMAIN kept
           n == Cardinality(D)
           m == Min({MaxResults, n})
           sorted == SortItineraries(kept, mode)
           results == Respond(kept, mode)
           choice == {SortKey(it, mode) : it \in found}
<1>1. mode \in SortModes /\ found \in SUBSET Journeys(rows, table, c)
  BY DEF IsInput
<1>2. found \subseteq Trips(table) /\ IsFiniteSet(found)
  <2>1. IsFiniteSet(Journeys(rows, table, c))
    BY JourneysAreFinite
  <2>2. QED BY <1>1, <2>1, JourneysAreTrips, FS_Subset
<1>3. choice = Choice(rows, table, c)
  BY Zenon DEF Choice
<1> HIDE DEF found, mode
<1>4. /\ D \in SUBSET found
      /\ \A s \in D : kept[s] \in found /\ Identity(kept[s]) = Identity(s)
      /\ \A it \in found : \E s \in D : Identity(s) = Identity(it)
      /\ \A s, t \in D : Identity(s) = Identity(t) => s = t
  BY <1>1, Deduplicated
<1> HIDE DEF kept
<1>5. IsFiniteSet(D) /\ n \in Nat
  BY <1>2, <1>4, FS_Subset, FS_CardinalityType
<1>6. \A s \in D : SortKey(kept[s], mode) \in Keys /\ Place(s) \in Seq(Int)
  BY <1>1, <1>2, <1>4, SortKeyType, TripTypes
<1>7. ASSUME NEW s \in D, NEW t \in D, SortKey(kept[s], mode) = SortKey(kept[t], mode)
      PROVE  s = t
  <2>1. SortKey(kept[s], mode).id = SortKey(kept[t], mode).id
    BY <1>7
  <2>2. Identity(kept[s]) = Identity(kept[t])
    BY <2>1 DEF SortKey
  <2>3. QED BY <1>4, <2>2
<1>8. /\ sorted \in [1..n -> {kept[s] : s \in D}]
      /\ \A s \in D : \E i \in 1..n : sorted[i] = kept[s]
      /\ \A i, j \in 1..n :
            i < j => KeyLess(SortKey(sorted[i], mode), SortKey(sorted[j], mode))
  BY <1>5, <1>6, <1>7, Sorted
<1>9. m \in 0..n /\ (m # n => m = MaxResults)
  BY <1>5, BoundedCount
<1> HIDE DEF sorted, n, m, D
<1>10. \A i \in 1..n : \E s \in D : sorted[i] = kept[s]
  BY <1>8
<1>11. /\ results \in Seq(found) /\ Len(results) = m
       /\ \A i \in 1..m : results[i] = sorted[i]
  <2>1. results = SubSeq(sorted, 1, m)
    BY Zenon DEF Respond, sorted, m, n, D
  <2>2. \A i \in 1..m : sorted[i] \in found
    BY <1>4, <1>5, <1>9, <1>10
  <2>3. 1 \in Int /\ m \in Int
    BY <1>5, <1>9
  <2> HIDE DEF results
  <2>4. /\ SubSeq(sorted, 1, m) \in Seq(found)
        /\ Len(SubSeq(sorted, 1, m)) = IF 1 <= m THEN m - 1 + 1 ELSE 0
        /\ \A i \in 1..(m - 1 + 1) : SubSeq(sorted, 1, m)[i] = sorted[1 + i - 1]
    BY <2>2, <2>3, SubSeqProperties
  <2>5. Len(results) = m /\ \A i \in 1..m : results[i] = sorted[i]
    BY <1>5, <1>9, <2>1, <2>4
  <2>6. QED BY <2>1, <2>4, <2>5
<1>12. results \in Seq(Trips(table))
  BY <1>2, <1>11, SeqMonotonic
<1> DEFINE keys == KeysOf(results, mode)
<1> HIDE DEF results, choice
<1>13. /\ Len(keys) = m /\ DOMAIN keys = 1..m
       /\ \A i \in 1..m : keys[i] = SortKey(sorted[i], mode)
  BY <1>1, <1>11, <1>12, KeysOfResults
<1>14. \A k \in choice : \E s \in D : k = SortKey(kept[s], mode)
  <2> TAKE k \in choice
  <2>1. PICK it \in found : k = SortKey(it, mode)
    BY DEF choice
  <2>2. PICK s \in D : Identity(kept[s]) = Identity(it) /\ kept[s] \in found
    BY <1>4
  <2>3. SortKey(kept[s], mode) = SortKey(it, mode)
    BY <1>1, <1>2, <2>2, IdentityDecides
  <2>4. QED BY <2>1, <2>3
<1>15. \A s \in D : SortKey(kept[s], mode) \in choice
  BY <1>4 DEF choice
<1>16. Cardinality(choice) = n
  <2> DEFINE g == [s \in D |-> SortKey(kept[s], mode)]
  <2>1. g \in [D -> choice]
    BY <1>15
  <2>2. \A s, t \in D : g[s] = g[t] => s = t
    BY <1>7
  <2>3. \A k \in choice : \E s \in D : g[s] = k
    BY <1>14
  <2> HIDE DEF g
  <2>4. g \in Bijection(D, choice)
    BY <2>1, <2>2, <2>3 DEF Bijection, Injection, Surjection, IsInjective
  <2>5. ExistsBijection(D, choice)
    BY <2>4 DEF ExistsBijection
  <2>6. QED BY <1>5, <2>5, FS_Bijection DEF n
<1> HIDE DEF keys
<1>17. ToSet(keys) \subseteq choice
  <2>1. \A i \in 1..m : keys[i] \in choice
    BY <1>5, <1>9, <1>10, <1>13, <1>15
  <2>2. QED BY <1>13, <2>1 DEF ToSet
<1>18. \A i, j \in DOMAIN keys : i < j => KeyLess(keys[i], keys[j])
  <2> SUFFICES ASSUME NEW i \in 1..m, NEW j \in 1..m, i < j
               PROVE  KeyLess(keys[i], keys[j])
    BY <1>13
  <2>1. i \in 1..n /\ j \in 1..n
    BY <1>5, <1>9
  <2>2. QED BY <1>8, <1>13, <2>1
<1>19. \A k \in choice \ ToSet(keys) : \A s \in ToSet(keys) : KeyLess(s, k)
  <2> SUFFICES ASSUME NEW k \in choice, k \notin ToSet(keys), NEW i \in 1..m
               PROVE  KeyLess(keys[i], k)
    BY <1>13 DEF ToSet
  <2>1. PICK s \in D : k = SortKey(kept[s], mode)
    BY <1>14
  <2>2. PICK j \in 1..n : sorted[j] = kept[s]
    BY <1>8
  <2>3. j \notin 1..m
    BY <1>13, <2>1, <2>2 DEF ToSet
  <2>4. i \in 1..n /\ i < j
    BY <1>5, <1>9, <2>3
  <2>5. QED BY <1>8, <1>13, <2>1, <2>2, <2>4
<1>20. Best(results, choice, mode)
  <2>1. m = Min({MaxResults, Cardinality(choice)})
    BY <1>16 DEF m
  <2>2. keys = [i \in DOMAIN results |-> SortKey(results[i], mode)]
    BY Zenon DEF keys, KeysOf
  <2>3. QED BY <1>13, <1>17, <1>18, <1>19, <2>1, <2>2, Zenon DEF Best
<1>21. QED BY <1>3, <1>11, <1>20 DEF results, kept, mode, found

\* Only one list of keys is the best of a choice.
LEMMA BestIsRanked ==
    ASSUME NEW choice \in SUBSET Keys, IsFiniteSet(choice),
           NEW table, NEW results \in Seq(Trips(table)), NEW mode \in SortModes,
           Best(results, choice, mode)
    PROVE  LET keys == KeysOf(results, mode)
               order == {p \in choice \X choice : KeyLess(p[1], p[2])}
           IN /\ Len(results) = Min({MaxResults, Cardinality(choice)})
              /\ \A i \in 1..Len(results) :
                    keys[i] \in choice /\ Rank(keys[i], order, choice) = i - 1
<1> DEFINE keys == KeysOf(results, mode)
           order == {p \in choice \X choice : KeyLess(p[1], p[2])}
           n == Len(results)
<1>1. n \in Nat
  BY LenProperties
<1>2. /\ Len(keys) = n /\ DOMAIN keys = 1..n
      /\ \A i \in 1..n : keys[i] \in Keys
  BY KeysOfResults
<1>3. keys = [i \in DOMAIN results |-> SortKey(results[i], mode)]
  BY Zenon DEF KeysOf
<1>4. /\ ToSet(keys) \subseteq choice
      /\ Len(keys) = Min({MaxResults, Cardinality(choice)})
      /\ \A i, j \in DOMAIN keys : i < j => KeyLess(keys[i], keys[j])
      /\ \A k \in choice \ ToSet(keys) : \A s \in ToSet(keys) : KeyLess(s, k)
  BY <1>3, Zenon DEF Best
<1> HIDE DEF keys, n
<1>5. \A i \in 1..n : keys[i] \in choice /\ keys[i] \in ToSet(keys)
  BY <1>2, <1>4 DEF ToSet
<1>6. ASSUME NEW i \in 1..n PROVE Rank(keys[i], order, choice) = i - 1
  <2> DEFINE below == {k \in choice : <<k, keys[i]>> \in order}
             g == [j \in 1..(i - 1) |-> keys[j]]
  <2>1. \A j \in 1..(i - 1) : j \in 1..n /\ j < i
    BY <1>1
  <2>2. g \in [1..(i - 1) -> below]
    <3> SUFFICES ASSUME NEW j \in 1..(i - 1) PROVE keys[j] \in below
      OBVIOUS
    <3>1. j \in 1..n /\ j < i
      BY <2>1
    <3>2. KeyLess(keys[j], keys[i])
      BY <1>2, <1>4, <3>1
    <3>3. QED BY <1>5, <3>1, <3>2
  <2>3. ASSUME NEW j \in 1..(i - 1), NEW l \in 1..(i - 1), g[j] = g[l]
        PROVE  j = l
    <3>1. j \in 1..n /\ l \in 1..n /\ keys[j] = keys[l] /\ keys[j] \in Keys
      BY <1>2, <2>1, <2>3
    <3>2. ~ KeyLess(keys[j], keys[l]) /\ ~ KeyLess(keys[l], keys[j])
      BY <3>1, KeyOrder
    <3>3. ~ (j < l) /\ ~ (l < j)
      BY <1>2, <1>4, <3>1, <3>2
    <3>4. QED BY <3>3
  <2>4. ASSUME NEW k \in below PROVE \E j \in 1..(i - 1) : g[j] = k
    <3>1. k \in choice /\ k \in Keys /\ KeyLess(k, keys[i]) /\ keys[i] \in Keys
      BY <1>2
    <3>2. ~ KeyLess(keys[i], k)
      BY <3>1, KeyOrder
    <3>3. k \in ToSet(keys)
      BY <1>4, <1>5, <3>1, <3>2
    <3>4. PICK j \in 1..n : keys[j] = k
      BY <1>2, <3>3 DEF ToSet
    <3>5. j # i /\ ~ (i < j)
      BY <1>2, <1>4, <3>1, <3>2, <3>4, KeyOrder
    <3>6. j \in 1..(i - 1)
      BY <1>1, <3>5
    <3>7. QED BY <3>4, <3>6
  <2> HIDE DEF g, below
  <2>5. g \in Bijection(1..(i - 1), below)
    BY <2>2, <2>3, <2>4 DEF Bijection, Injection, Surjection, IsInjective
  <2>6. IsFiniteSet(1..(i - 1)) /\ Cardinality(1..(i - 1)) = i - 1
    BY <1>1, FS_Interval
  <2>7. Cardinality(below) = i - 1
    <3>1. ExistsBijection(1..(i - 1), below)
      BY <2>5 DEF ExistsBijection
    <3>2. Cardinality(below) = Cardinality(1..(i - 1))
      BY <2>6, <3>1, FS_Bijection
    <3>3. QED BY <2>6, <3>2
  <2>8. QED BY <2>7, Zenon DEF Rank, below
<1>7. QED BY <1>2, <1>4, <1>5, <1>6 DEF n, keys

LEMMA BestIsUnique ==
    ASSUME NEW choice \in SUBSET Keys, IsFiniteSet(choice),
           NEW table, NEW mode \in SortModes,
           NEW a \in Seq(Trips(table)), Best(a, choice, mode),
           NEW b \in Seq(Trips(table)), Best(b, choice, mode)
    PROVE  /\ Len(a) = Len(b)
           /\ \A i \in 1..Len(a) : SortKey(a[i], mode) = SortKey(b[i], mode)
<1> DEFINE order == {p \in choice \X choice : KeyLess(p[1], p[2])}
<1>1. Orders(order, choice)
  <2>1. \A k, l \in choice : <<k, l>> \in order <=> KeyLess(k, l)
    OBVIOUS
  <2>2. \A k \in choice : k \in Keys
    OBVIOUS
  <2> HIDE DEF order
  <2>3. \A k \in choice : <<k, k>> \notin order
    BY <2>1, <2>2, KeyOrder
  <2>4. ASSUME NEW k \in choice, NEW l \in choice, NEW m \in choice,
               <<k, l>> \in order, <<l, m>> \in order
        PROVE  <<k, m>> \in order
    <3>1. k \in Keys /\ l \in Keys /\ m \in Keys /\ KeyLess(k, l) /\ KeyLess(l, m)
      BY <2>1, <2>2, <2>4
    <3>2. KeyLess(k, m)
      BY <3>1, KeyOrder
    <3>3. QED BY <2>1, <3>2
  <2>5. \A k, l \in choice : k # l => <<k, l>> \in order \/ <<l, k>> \in order
    BY <2>1, <2>2, KeyOrder
  <2>6. QED BY <2>3, <2>4, <2>5 DEF Orders, PartOrders
<1>2. \A k, l \in choice : Rank(k, order, choice) = Rank(l, order, choice) => k = l
  <2> HIDE DEF order
  <2> QED BY <1>1, Ranks
<1>3. /\ Len(a) = Min({MaxResults, Cardinality(choice)})
      /\ \A i \in 1..Len(a) : /\ KeysOf(a, mode)[i] \in choice
                              /\ Rank(KeysOf(a, mode)[i], order, choice) = i - 1
  BY BestIsRanked
<1>4. /\ Len(b) = Min({MaxResults, Cardinality(choice)})
      /\ \A i \in 1..Len(b) : /\ KeysOf(b, mode)[i] \in choice
                              /\ Rank(KeysOf(b, mode)[i], order, choice) = i - 1
  BY BestIsRanked
<1>5. Len(a) = Len(b)
  BY <1>3, <1>4
<1>6. ASSUME NEW i \in 1..Len(a) PROVE SortKey(a[i], mode) = SortKey(b[i], mode)
  <2>1. KeysOf(a, mode)[i] = KeysOf(b, mode)[i]
    BY <1>2, <1>3, <1>4, <1>5
  <2>2. KeysOf(a, mode)[i] = SortKey(a[i], mode) /\ KeysOf(b, mode)[i] = SortKey(b[i], mode)
    BY <1>5, KeysOfResults
  <2>3. QED BY <2>1, <2>2
<1>7. QED BY <1>5, <1>6

-----------------------------------------------------------------------------
(* The answer of a search.                                                 *)

\* No journey is refused by the itinerary's own check of its clocks.
LEMMA JourneysAreChronological ==
    ASSUME NEW rows, NEW table, NEW c, IsInput(rows, table, c),
           NEW it \in Journeys(rows, table, c)
    PROVE  Chronological(it)
<1> DEFINE S == Resolved(rows, table, c)
<1>1. \/ \E x \in S : it = Direct(x, table)
      \/ \E x, y \in S : it = OneStop(x, y, table)
                         /\ ValidConnection(x, y, c.origin, Policy(c))
  BY DEF Journeys
<1>2. ASSUME NEW x \in S, it = Direct(x, table) PROVE Chronological(it)
  <2>1. ConnectionCount(it) = 0
    BY <1>2, DirectParts
  <2>2. QED BY <2>1 DEF Chronological
<1>3. ASSUME NEW x \in S, NEW y \in S, it = OneStop(x, y, table),
             ValidConnection(x, y, c.origin, Policy(c))
      PROVE  Chronological(it)
  <2>1. /\ x.flight \in rows /\ x.date \in Int /\ x # None
        /\ x = Resolve(x.flight, x.date, table[x.flight.origin],
                       table[x.flight.destination])
        /\ y.flight \in rows /\ y.date \in Int /\ y # None
        /\ y = Resolve(y.flight, y.date, table[y.flight.origin],
                       table[y.flight.destination])
    BY ResolvedRows DEF Instance
  <2>2. y.flight.origin = x.flight.destination
    BY <1>3 DEF ValidConnection
  <2>3. /\ x.flight \in Flight /\ y.flight \in Flight
        /\ table[x.flight.destination].zone \in Zone
    BY <2>1 DEF IsInput
  <2>4. ArrivesLocal(x.flight, x.date) < DepartsLocal(y.flight, y.date)
    BY <1>3, <2>1, <2>2, <2>3, ConnectionAdvances
  <2>5. it.segments = <<x, y>> /\ ConnectionCount(it) = 1
    BY <1>3, OneStopSegments, OneStopParts
  <2>6. it.segments[1] = x /\ it.segments[1 + 1] = y
    BY <2>5
  <2>7. QED BY <2>4, <2>5, <2>6 DEF Chronological
<1>4. QED BY <1>1, <1>2, <1>3

\* The filters look at airports that are loaded.
LEMMA LoadedMatches ==
    ASSUME NEW rows, NEW table, NEW c, IsInput(rows, table, c), c.origin \in DOMAIN table,
           NEW it \in Journeys(rows, table, c)
    PROVE  Matches(it, c, Loaded(rows, table, c)) <=> Matches(it, c, table)
<1> DEFINE L == Loaded(rows, table, c)
<1>1. DOMAIN L = Prefetched(rows, c) \cap DOMAIN table /\ \A a \in DOMAIN L : L[a] = table[a]
  BY DEF Loaded
<1>2. c.origin \in DOMAIN L
  BY <1>1 DEF Prefetched
<1>3. it \in Generate(rows, L, c)
  BY GenerationIsComplete
<1> HIDE DEF L
<1>4. ASSUME NEW pairs, NEW x \in ResolveAll(pairs, L)
      PROVE  x.flight.destination \in DOMAIN L
  <2>1. PICK p \in pairs : /\ {p[1].origin, p[1].destination} \subseteq DOMAIN L
                           /\ x = Resolve(p[1], p[2], L[p[1].origin], L[p[1].destination])
                           /\ x # None
    BY DEF ResolveAll
  <2>2. x.flight = p[1]
    BY <2>1, ResolvedInstance
  <2>3. QED BY <2>1, <2>2
<1>5. \/ \E pairs : \E x \in ResolveAll(pairs, L) : it = Direct(x, L)
      \/ \E pairs : \E y \in ResolveAll(pairs, L) : \E x : it = OneStop(x, y, L)
  <2> DEFINE First == {x \in ResolveAll(FindDepartures(rows, c.origin, c.date) \X {c.date}, L) :
                         x.flight.origin # x.flight.destination}
             Onward(x) ==
                 {y \in ResolveAll(FindDeparturesForDates(rows, x.flight.destination,
                                                          CandidateDates(x)), L) :
                    ValidConnection(x, y, c.origin, Policy(c))}
  <2>1. \/ \E x \in First : it = Direct(x, L)
        \/ \E x \in First : \E y \in Onward(x) : it = OneStop(x, y, L)
    BY <1>3 DEF Generate
  <2>2. QED BY <2>1
<1>6. Destination(it) \in DOMAIN L
  <2>1. CASE \E pairs : \E x \in ResolveAll(pairs, L) : it = Direct(x, L)
    <3>1. PICK pairs : \E x \in ResolveAll(pairs, L) : it = Direct(x, L)
      BY <2>1
    <3>2. PICK x \in ResolveAll(pairs, L) : it = Direct(x, L)
      BY <3>1
    <3>3. QED BY <1>4, <3>2, DirectParts DEF Destination
  <2>2. CASE \E pairs : \E y \in ResolveAll(pairs, L) : \E x : it = OneStop(x, y, L)
    <3>1. PICK pairs : \E y \in ResolveAll(pairs, L) : \E x : it = OneStop(x, y, L)
      BY <2>2
    <3>2. PICK y \in ResolveAll(pairs, L) : \E x : it = OneStop(x, y, L)
      BY <3>1
    <3>3. PICK x : it = OneStop(x, y, L)
      BY <3>2
    <3>4. QED BY <1>4, <3>2, <3>3, OneStopParts DEF Destination
  <2>3. QED BY <1>5, <2>1, <2>2
<1>7. L[c.origin] = table[c.origin] /\ L[Destination(it)] = table[Destination(it)]
  BY <1>1, <1>2, <1>6
<1>8. QED BY <1>7, Zenon DEF Matches, L

\* What a search chooses from, and what it would show.
Found(rows, table, c) == {it \in Journeys(rows, table, c) : Matches(it, c, table)}
Results(rows, table, c) == Respond(Deduplicate(Found(rows, table, c)), c.sort)

\* A search that is not refused shows its results, unless one of them has no
\* duration in whole minutes.
LEMMA AnswerOfSearch ==
    ASSUME NEW rows, NEW table, NEW c, IsInput(rows, table, c),
           WithinCoverage(rows, c.date), c.origin \in DOMAIN table, table[c.origin].active
    PROVE  SearchItineraries(rows, table, c)
           = IF \A it \in ToSet(Results(rows, table, c)) : WholeMinutes(it)
             THEN [error |-> None, results |-> Results(rows, table, c)]
             ELSE Failure("INTERNAL_ERROR")
<1> DEFINE L == Loaded(rows, table, c)
           raw == Generate(rows, L, c)
           filtered == {it \in raw : Matches(it, c, L)}
           results == Respond(Deduplicate(filtered), c.sort)
<1>1. raw = Journeys(rows, table, c)
  BY GenerationIsComplete
<1>2. filtered = Found(rows, table, c)
  <2>1. \A it \in Journeys(rows, table, c) : Matches(it, c, L) <=> Matches(it, c, table)
    BY LoadedMatches
  <2> HIDE DEF raw, L
  <2>2. QED BY <1>1, <2>1 DEF Found
<1>3. \A it \in raw : Chronological(it)
  <2> HIDE DEF raw
  <2> QED BY <1>1, JourneysAreChronological
<1>4. results = Results(rows, table, c)
  <2> HIDE DEF filtered
  <2> QED BY <1>2, Zenon DEF Results
<1>5. SearchItineraries(rows, table, c)
      = IF /\ \A it \in raw : Chronological(it)
           /\ \A it \in ToSet(results) : WholeMinutes(it)
        THEN [error |-> None, results |-> results]
        ELSE Failure("INTERNAL_ERROR")
  BY Zenon DEF SearchItineraries, Loaded
<1> HIDE DEF raw, results
<1>6. QED BY <1>3, <1>4, <1>5, Zenon

\* A search with an answer was not refused.
LEMMA AnsweredSearch ==
    ASSUME NEW rows, NEW table, NEW c, SearchItineraries(rows, table, c).error = None
    PROVE  WithinCoverage(rows, c.date) /\ c.origin \in DOMAIN table /\ table[c.origin].active
BY RoutingAssumption DEF SearchItineraries, Failure

-----------------------------------------------------------------------------
(* The same rows under other ids.                                          *)

Renamed(f) == [f EXCEPT !.id = -f.id]
Renumber(rows) == {Renamed(f) : f \in rows}

LEMMA RenamedFlight ==
    ASSUME NEW f \in Flight
    PROVE  LET g == Renamed(f)
           IN /\ g \in Flight /\ g.id = -f.id
              /\ g.carrier = f.carrier /\ g.number = f.number
              /\ g.origin = f.origin /\ g.destination = f.destination
              /\ g.departs = f.departs /\ g.arrives = f.arrives
              /\ g.dayOffset = f.dayOffset /\ g.days = f.days
              /\ g.start = f.start /\ g.end = f.end
              /\ Renamed(g) = f
<1> DEFINE g == Renamed(f)
<1>1. f.id \in Int /\ -f.id \in Int /\ -(-f.id) = f.id
  BY DEF Flight
<1>2. /\ g.id = -f.id
      /\ g.carrier = f.carrier /\ g.number = f.number
      /\ g.origin = f.origin /\ g.destination = f.destination
      /\ g.departs = f.departs /\ g.arrives = f.arrives
      /\ g.dayOffset = f.dayOffset /\ g.days = f.days
      /\ g.start = f.start /\ g.end = f.end
  BY DEF Renamed, Flight
<1>3. g \in Flight
  BY <1>1 DEF Renamed, Flight
<1>4. Renamed(g) = f
  BY <1>1 DEF Renamed, Flight
<1>5. QED BY <1>2, <1>3, <1>4

LEMMA RenumberedInput ==
    ASSUME NEW rows, NEW table, NEW c, IsInput(rows, table, c)
    PROVE  /\ IsInput(Renumber(rows), table, c)
           /\ Renumber(Renumber(rows)) = rows
           /\ WithinCoverage(rows, c.date) => WithinCoverage(Renumber(rows), c.date)
<1> DEFINE other == Renumber(rows)
<1>1. IsFiniteSet(rows) /\ \A f \in rows : f \in Flight
  BY DEF IsInput
<1>2. \A g \in other : \E f \in rows : g = Renamed(f)
  BY DEF Renumber
<1>3. \A f \in rows : Renamed(f) \in other
  BY DEF Renumber
<1>4. IsFiniteSet(other)
  <2> DEFINE h == [f \in rows |-> Renamed(f)]
  <2>1. other = {h[f] : f \in rows} /\ DOMAIN h = rows
    BY DEF Renumber
  <2> HIDE DEF h, other
  <2>2. QED BY <1>1, <2>1, FiniteValues
<1>5. \A g \in other : g \in Flight
  BY <1>1, <1>2, RenamedFlight
<1>6. ASSUME NEW g \in other, NEW h \in other, g.id = h.id PROVE g = h
  <2>1. PICK e \in rows : g = Renamed(e)
    BY <1>2
  <2>2. PICK f \in rows : h = Renamed(f)
    BY <1>2
  <2>3. e.id \in Int /\ f.id \in Int /\ -e.id = -f.id
    BY <1>1, <1>6, <2>1, <2>2, RenamedFlight DEF Flight
  <2>4. e.id = f.id
    BY <2>3
  <2>5. e = f
    BY <2>4 DEF IsInput
  <2>6. QED BY <2>1, <2>2, <2>5
<1>7. \A g \in other : g.origin # g.destination /\ {g.origin, g.destination} \subseteq DOMAIN table
  <2> TAKE g \in other
  <2>1. PICK f \in rows : g = Renamed(f)
    BY <1>2
  <2>2. g.origin = f.origin /\ g.destination = f.destination
    BY <1>1, <2>1, RenamedFlight
  <2>3. QED BY <2>2 DEF IsInput
<1>8. IsInput(other, table, c)
  <2> HIDE DEF other
  <2> QED BY <1>4, <1>5, <1>6, <1>7 DEF IsInput
<1>9. Renumber(other) = rows
  <2>1. \A f \in rows : Renamed(Renamed(f)) = f
    BY <1>1, RenamedFlight
  <2> HIDE DEF other
  <2>2. \A f \in rows : f \in Renumber(other)
    BY <1>3, <2>1 DEF Renumber
  <2>3. \A g \in other : Renamed(g) \in rows
    BY <1>2, <2>1
  <2>4. \A f \in Renumber(other) : f \in rows
    BY <2>3 DEF Renumber
  <2>5. QED BY <2>2, <2>4
<1>10. ASSUME WithinCoverage(rows, c.date) PROVE WithinCoverage(other, c.date)
  <2>1. \A f \in rows : Renamed(f).start = f.start /\ Renamed(f).end = f.end
    BY <1>1, RenamedFlight
  <2> HIDE DEF other
  <2>2. QED BY <1>2, <1>3, <1>10, <2>1 DEF WithinCoverage
<1>11. QED BY <1>8, <1>9, <1>10

\* Instances that differ in the ids of their flights only.
Twins(x, v) ==
    /\ SameFlight(x, v)
    /\ v.date = x.date /\ Signature(v) = Signature(x)
    /\ v.flight.departs = x.flight.departs /\ v.flight.arrives = x.flight.arrives
    /\ v.flight.id = -x.flight.id

LEMMA TwinInstance ==
    ASSUME NEW rows, NEW table, NEW c, IsInput(rows, table, c),
           NEW x \in Resolved(rows, table, c)
    PROVE  \E v \in Resolved(Renumber(rows), table, c) : Twins(x, v)
<1> DEFINE f == x.flight
           d == x.date
           g == Renamed(f)
           v == Resolve(g, d, table[g.origin], table[g.destination])
<1>1. /\ x \in Instance /\ x # None /\ f \in rows
      /\ d \in (c.date - 3)..(c.date + 6)
      /\ x = Resolve(f, d, table[f.origin], table[f.destination])
  BY ResolvedRows
<1>2. f \in Flight
  BY <1>1 DEF IsInput
<1> HIDE DEF f, d
<1>3. /\ g \in Flight /\ g.id = -f.id
      /\ g.carrier = f.carrier /\ g.number = f.number
      /\ g.origin = f.origin /\ g.destination = f.destination
      /\ g.departs = f.departs /\ g.arrives = f.arrives
      /\ g.dayOffset = f.dayOffset /\ g.days = f.days
      /\ g.start = f.start /\ g.end = f.end
  BY <1>2, RenamedFlight
<1> DEFINE from == table[f.origin]
           to == table[f.destination]
<1>4. v = Resolve(g, d, from, to) /\ x = Resolve(f, d, from, to)
  BY <1>1, <1>3, Zenon
<1> HIDE DEF g, v, from, to
<1>5. /\ DepartsLocal(g, d) = DepartsLocal(f, d) /\ ArrivesLocal(g, d) = ArrivesLocal(f, d)
      /\ OperatesOn(g, d) <=> OperatesOn(f, d)
  BY <1>3, Zenon DEF DepartsLocal, ArrivesLocal, OperatesOn
<1>6. /\ x.flight = f /\ x.date = d
      /\ x.departure = Localize(from.zone, DepartsLocal(f, d))
      /\ x.arrival = Localize(to.zone, ArrivesLocal(f, d))
      /\ x.departure # None /\ x.arrival # None
      /\ IF from.zone = to.zone
         THEN DepartsLocal(f, d) < ArrivesLocal(f, d)
         ELSE x.departure < x.arrival
      /\ OperatesOn(f, d)
  BY <1>1, <1>4, ResolvedInstance
<1>7. v = [flight |-> g, date |-> d, departure |-> x.departure, arrival |-> x.arrival]
  BY <1>4, <1>5, <1>6 DEF Resolve
<1>8. v.flight = g /\ v.date = d /\ v.departure = x.departure /\ v.arrival = x.arrival
  BY <1>7
<1>9. Twins(x, v)
  <2>1. Signature(v) = Signature(x)
    BY <1>3, <1>6, <1>8, Zenon DEF Signature
  <2>2. QED BY <1>3, <1>6, <1>8, <2>1 DEF Twins, SameFlight
<1>10. v # None
  <2>1. d \in Int /\ x.departure \in Int /\ x.arrival \in Int
    BY <1>1, <1>6 DEF Instance
  <2>2. v \in Instance
    BY <1>3, <1>7, <2>1 DEF Instance
  <2>3. QED BY <2>2, NoneAssumption
<1>11. v \in Resolved(Renumber(rows), table, c)
  <2>1. g \in Renumber(rows)
    BY <1>1 DEF Renumber, g
  <2>2. QED BY <1>1, <1>10, <2>1 DEF Resolved, v
<1>12. QED BY <1>9, <1>11

LEMMA TwinDirect ==
    ASSUME NEW table, NEW c, c.sort \in SortModes,
           NEW x \in Instance, NEW v \in Instance, Twins(x, v)
    PROVE  LET a == Direct(x, table)
               b == Direct(v, table)
           IN /\ SortKey(a, c.sort) = SortKey(b, c.sort)
              /\ Matches(a, c, table) <=> Matches(b, c, table)
<1> DEFINE a == Direct(x, table)
           b == Direct(v, table)
<1>1. a \in Trips(table) /\ b \in Trips(table)
  BY DEF Trips
<1>2. Identity(a) = Identity(b)
  <2>1. Identity(a) = <<x.date>> \o Signature(x)
    BY DirectNames
  <2>2. Identity(b) = <<v.date>> \o Signature(v)
    BY DirectNames
  <2>3. QED BY <2>1, <2>2, Zenon DEF Twins
<1>3. /\ FirstOf(a) = x /\ LastOf(a) = x /\ ConnectionCount(a) = 0
      /\ FirstOf(b) = v /\ LastOf(b) = v /\ ConnectionCount(b) = 0
  BY DirectParts
<1> HIDE DEF a, b
<1>4. a.price = b.price /\ SortKey(a, c.sort) = SortKey(b, c.sort)
  BY <1>1, <1>2, IdentityDecides
<1>5. /\ Duration(a) = Duration(b) /\ Destination(a) = Destination(b)
      /\ FirstOf(a).flight.departs = FirstOf(b).flight.departs
      /\ LastOf(a).flight.arrives = LastOf(b).flight.arrives
      /\ ConnectionCount(a) = ConnectionCount(b)
  BY <1>3, Zenon DEF Twins, SameFlight, Duration, TotalDuration, Destination
<1>6. Matches(a, c, table) <=> Matches(b, c, table)
  BY <1>4, <1>5, Zenon DEF Matches
<1>7. QED BY <1>4, <1>6 DEF a, b

LEMMA TwinOneStop ==
    ASSUME NEW table, NEW c, c.sort \in SortModes,
           NEW x \in Instance, NEW v \in Instance, Twins(x, v),
           NEW y \in Instance, NEW w \in Instance, Twins(y, w)
    PROVE  LET a == OneStop(x, y, table)
               b == OneStop(v, w, table)
           IN /\ SortKey(a, c.sort) = SortKey(b, c.sort)
              /\ Matches(a, c, table) <=> Matches(b, c, table)
              /\ \A policy : ValidConnection(x, y, c.origin, policy)
                             => ValidConnection(v, w, c.origin, policy)
<1> DEFINE a == OneStop(x, y, table)
           b == OneStop(v, w, table)
<1>1. a \in Trips(table) /\ b \in Trips(table)
  <2> DEFINE p == <<x, y>>
             q == <<v, w>>
  <2>1. p \in Instance \X Instance /\ a = OneStop(p[1], p[2], table)
    OBVIOUS
  <2>2. q \in Instance \X Instance /\ b = OneStop(q[1], q[2], table)
    OBVIOUS
  <2> HIDE DEF a, b, p, q
  <2>3. QED BY <2>1, <2>2 DEF Trips
<1>2. Identity(a) = Identity(b)
  <2>1. Identity(a) = <<x.date>> \o (Signature(x) \o Signature(y))
    BY OneStopNames
  <2>2. Identity(b) = <<v.date>> \o (Signature(v) \o Signature(w))
    BY OneStopNames
  <2>3. QED BY <2>1, <2>2, Zenon DEF Twins
<1>3. /\ FirstOf(a) = x /\ LastOf(a) = y /\ ConnectionCount(a) = 1
      /\ FirstOf(b) = v /\ LastOf(b) = w /\ ConnectionCount(b) = 1
  BY OneStopParts
<1> HIDE DEF a, b
<1>4. a.price = b.price /\ SortKey(a, c.sort) = SortKey(b, c.sort)
  BY <1>1, <1>2, IdentityDecides
<1>5. /\ Duration(a) = Duration(b) /\ Destination(a) = Destination(b)
      /\ FirstOf(a).flight.departs = FirstOf(b).flight.departs
      /\ LastOf(a).flight.arrives = LastOf(b).flight.arrives
      /\ ConnectionCount(a) = ConnectionCount(b)
  BY <1>3, Zenon DEF Twins, SameFlight, Duration, TotalDuration, Destination
<1>6. Matches(a, c, table) <=> Matches(b, c, table)
  BY <1>4, <1>5, Zenon DEF Matches
<1>7. ASSUME NEW policy, ValidConnection(x, y, c.origin, policy)
      PROVE  ValidConnection(v, w, c.origin, policy)
  <2>1. /\ v.flight.origin = x.flight.origin /\ v.flight.destination = x.flight.destination
        /\ v.departure = x.departure /\ v.arrival = x.arrival
        /\ w.flight.origin = y.flight.origin /\ w.flight.destination = y.flight.destination
        /\ w.departure = y.departure /\ w.arrival = y.arrival
    BY DEF Twins, SameFlight
  <2>2. Layover(v, w) = Layover(x, y) /\ TotalDuration(v, w) = TotalDuration(x, y)
    BY <2>1, Zenon DEF Layover, TotalDuration
  <2>3. w.flight.id # v.flight.id
    <3>1. x.flight.id \in Int /\ y.flight.id \in Int /\ y.flight.id # x.flight.id
      BY <1>7 DEF ValidConnection, Instance, Flight
    <3>2. v.flight.id = -x.flight.id /\ w.flight.id = -y.flight.id
      BY DEF Twins
    <3>3. QED BY <3>1, <3>2
  <2>4. {c.origin, v.flight.destination, w.flight.destination}
        = {c.origin, x.flight.destination, y.flight.destination}
    BY <2>1
  <2>5. Cardinality({c.origin, v.flight.destination, w.flight.destination}) = 3
    BY <1>7, <2>4, Zenon DEF ValidConnection
  <2>6. QED BY <1>7, <2>1, <2>2, <2>3, <2>5, Zenon DEF ValidConnection
<1>8. QED BY <1>4, <1>6, <1>7 DEF a, b

\* The ids do not change what there is to choose from.
LEMMA RenumberedIncluded ==
    ASSUME NEW rows, NEW table, NEW c, IsInput(rows, table, c)
    PROVE  Choice(rows, table, c) \subseteq Choice(Renumber(rows), table, c)
<1> DEFINE S == Resolved(rows, table, c)
           T == Resolved(Renumber(rows), table, c)
<1>1. S \subseteq Instance /\ T \subseteq Instance /\ c.sort \in SortModes
  <2>1. IsInput(Renumber(rows), table, c)
    BY RenumberedInput
  <2>2. S \subseteq Instance
    BY ResolvedRows
  <2>3. T \subseteq Instance
    <3> DEFINE other == Renumber(rows)
    <3> HIDE DEF other
    <3>1. IsInput(other, table, c)
      BY <2>1 DEF other
    <3>2. Resolved(other, table, c) \subseteq Instance
      BY <3>1, ResolvedRows
    <3>3. QED BY <3>2 DEF other
  <2>4. QED BY <2>2, <2>3 DEF IsInput
<1>2. \A x \in S : \E v \in T : Twins(x, v)
  BY TwinInstance
<1>3. SUFFICES ASSUME NEW k \in Choice(rows, table, c)
               PROVE  k \in Choice(Renumber(rows), table, c)
  OBVIOUS
<1>4. PICK it \in Journeys(rows, table, c) :
          Matches(it, c, table) /\ k = SortKey(it, c.sort)
  BY DEF Choice
<1>5. ASSUME NEW x \in S, x.flight.origin = c.origin, x.date = c.date, it = Direct(x, table)
      PROVE  k \in Choice(Renumber(rows), table, c)
  <2>1. PICK v \in T : Twins(x, v)
    BY <1>2
  <2>2. v.flight.origin = c.origin /\ v.date = c.date
    BY <1>5, <2>1 DEF Twins, SameFlight
  <2>3. Direct(v, table) \in Journeys(Renumber(rows), table, c)
    BY <2>2 DEF Journeys
  <2>4. /\ SortKey(Direct(v, table), c.sort) = k
        /\ Matches(Direct(v, table), c, table)
    BY <1>1, <1>4, <1>5, <2>1, TwinDirect
  <2>5. QED BY <2>3, <2>4 DEF Choice
<1>6. ASSUME NEW x \in S, NEW y \in S, x.flight.origin = c.origin, x.date = c.date,
             c.maxConnections >= 1, ValidConnection(x, y, c.origin, Policy(c)),
             it = OneStop(x, y, table)
      PROVE  k \in Choice(Renumber(rows), table, c)
  <2>1. PICK v \in T : Twins(x, v)
    BY <1>2
  <2>2. PICK w \in T : Twins(y, w)
    BY <1>2
  <2>3. v.flight.origin = c.origin /\ v.date = c.date
    BY <1>6, <2>1 DEF Twins, SameFlight
  <2>4. /\ SortKey(OneStop(v, w, table), c.sort) = k
        /\ Matches(OneStop(v, w, table), c, table)
        /\ ValidConnection(v, w, c.origin, Policy(c))
    <3>1. x \in Instance /\ y \in Instance /\ v \in Instance /\ w \in Instance
      BY <1>1
    <3> HIDE DEF S, T
    <3>2. /\ SortKey(OneStop(x, y, table), c.sort) = SortKey(OneStop(v, w, table), c.sort)
          /\ Matches(OneStop(x, y, table), c, table)
                <=> Matches(OneStop(v, w, table), c, table)
          /\ \A policy : ValidConnection(x, y, c.origin, policy)
                         => ValidConnection(v, w, c.origin, policy)
      BY <1>1, <2>1, <2>2, <3>1, TwinOneStop
    <3>3. QED BY <1>4, <1>6, <3>2, Zenon
  <2>5. OneStop(v, w, table) \in Journeys(Renumber(rows), table, c)
    <3> DEFINE p == <<v, w>>
               First == {z \in T : z.flight.origin = c.origin /\ z.date = c.date}
    <3>1. p \in First \X T /\ p[1] = v /\ p[2] = w
      BY <2>3
    <3> HIDE DEF p, First, T
    <3>2. p \in {q \in First \X T : /\ c.maxConnections >= 1
                                    /\ ValidConnection(q[1], q[2], c.origin, Policy(c))}
      BY <1>6, <2>4, <3>1
    <3>3. QED BY <3>1, <3>2, Zenon DEF Journeys, First, T
  <2>6. QED BY <2>4, <2>5 DEF Choice
<1>7. \/ \E x \in S : /\ x.flight.origin = c.origin /\ x.date = c.date
                      /\ it = Direct(x, table)
      \/ \E x, y \in S : /\ x.flight.origin = c.origin /\ x.date = c.date
                         /\ c.maxConnections >= 1
                         /\ ValidConnection(x, y, c.origin, Policy(c))
                         /\ it = OneStop(x, y, table)
  BY DEF Journeys
<1>8. QED BY <1>5, <1>6, <1>7

LEMMA RenumberedChoice ==
    ASSUME NEW rows, NEW table, NEW c, IsInput(rows, table, c)
    PROVE  Choice(Renumber(rows), table, c) = Choice(rows, table, c)
<1> DEFINE other == Renumber(rows)
<1>1. IsInput(other, table, c) /\ Renumber(other) = rows
  BY RenumberedInput
<1>2. Choice(rows, table, c) \subseteq Choice(other, table, c)
  BY RenumberedIncluded
<1> HIDE DEF other
<1>3. Choice(other, table, c) \subseteq Choice(Renumber(other), table, c)
  BY <1>1, RenumberedIncluded
<1>4. Choice(other, table, c) \subseteq Choice(rows, table, c)
  BY <1>1, <1>3, Zenon
<1>5. Choice(other, table, c) = Choice(rows, table, c)
  BY <1>2, <1>4, Zenon
<1>6. QED BY <1>5 DEF other

\* Nor the answer.
LEMMA SameAnswer ==
    ASSUME NEW rows, NEW table, NEW c, IsInput(rows, table, c),
           SearchItineraries(rows, table, c).error = None
    PROVE  Shown(SearchItineraries(rows, table, c))
           = Shown(SearchItineraries(Renumber(rows), table, c))
<1> DEFINE other == Renumber(rows)
           choice == Choice(rows, table, c)
           a == Results(rows, table, c)
           b == Results(other, table, c)
<1>1. WithinCoverage(rows, c.date) /\ c.origin \in DOMAIN table /\ table[c.origin].active
  BY AnsweredSearch
<1>2. /\ IsInput(other, table, c) /\ WithinCoverage(other, c.date)
      /\ Choice(other, table, c) = choice /\ c.sort \in SortModes
  BY <1>1, RenumberedInput, RenumberedChoice DEF IsInput
<1> HIDE DEF other
<1>3. a \in Seq(Trips(table)) /\ Best(a, choice, c.sort)
  <2>1. a \in Seq(Found(rows, table, c)) /\ Best(a, choice, c.sort)
    BY ResultsAreBest DEF Results, Found
  <2>2. Found(rows, table, c) \subseteq Trips(table)
    BY JourneysAreTrips DEF Found
  <2> HIDE DEF a
  <2>3. QED BY <2>1, <2>2, SeqMonotonic
<1>4. b \in Seq(Trips(table)) /\ Best(b, choice, c.sort)
  <2>1. b \in Seq(Found(other, table, c)) /\ Best(b, Choice(other, table, c), c.sort)
    BY <1>2, ResultsAreBest DEF Results, Found
  <2>2. Found(other, table, c) \subseteq Trips(table)
    BY <1>2, JourneysAreTrips DEF Found
  <2> HIDE DEF b
  <2>3. QED BY <1>2, <2>1, <2>2, SeqMonotonic
<1>5. choice \subseteq Keys /\ IsFiniteSet(choice)
  <2> DEFINE S == Found(rows, table, c)
             f == [it \in S |-> SortKey(it, c.sort)]
  <2>1. S \in SUBSET Journeys(rows, table, c) /\ S \subseteq Trips(table)
    BY JourneysAreTrips DEF Found
  <2>2. IsFiniteSet(S)
    BY <2>1, JourneysAreFinite, FS_Subset
  <2>3. choice = {f[it] : it \in S} /\ DOMAIN f = S
    BY DEF Choice, Found
  <2>4. \A it \in S : f[it] \in Keys
    BY <1>2, <2>1, SortKeyType
  <2> HIDE DEF S, f, choice
  <2>5. QED BY <2>2, <2>3, <2>4, FiniteValues
<1> HIDE DEF a, b, choice
<1>6. Len(a) = Len(b) /\ \A i \in 1..Len(a) : SortKey(a[i], c.sort) = SortKey(b[i], c.sort)
  BY <1>2, <1>3, <1>4, <1>5, BestIsUnique
<1>7. /\ DOMAIN a = 1..Len(a) /\ \A i \in 1..Len(a) : a[i] \in Trips(table)
      /\ DOMAIN b = 1..Len(a) /\ \A i \in 1..Len(a) : b[i] \in Trips(table)
  BY <1>3, <1>4, <1>6, LenProperties
<1>8. ASSUME NEW i \in 1..Len(a)
      PROVE  /\ Identity(a[i]) = Identity(b[i]) /\ a[i].price = b[i].price
             /\ WholeMinutes(a[i]) <=> WholeMinutes(b[i])
  <2>1. SortKey(a[i], c.sort).id = SortKey(b[i], c.sort).id
    BY <1>6
  <2>2. Identity(a[i]) = Identity(b[i])
    BY <2>1 DEF SortKey
  <2>3. QED BY <1>7, <2>2, IdentityDecides
<1>9. SearchItineraries(rows, table, c)
      = IF \A it \in ToSet(a) : WholeMinutes(it) THEN [error |-> None, results |-> a]
        ELSE Failure("INTERNAL_ERROR")
  BY <1>1, AnswerOfSearch DEF a
<1>10. SearchItineraries(other, table, c)
       = IF \A it \in ToSet(b) : WholeMinutes(it) THEN [error |-> None, results |-> b]
         ELSE Failure("INTERNAL_ERROR")
  BY <1>1, <1>2, AnswerOfSearch DEF b
<1>11. \A it \in ToSet(a) : WholeMinutes(it)
  BY <1>9, RoutingAssumption DEF Failure
<1>12. \A it \in ToSet(b) : WholeMinutes(it)
  BY <1>7, <1>8, <1>11 DEF ToSet
<1>13. /\ SearchItineraries(rows, table, c).results = a
       /\ SearchItineraries(other, table, c).results = b
  BY <1>9, <1>10, <1>11, <1>12
<1>14. [i \in DOMAIN a |-> <<Identity(a[i]), a[i].price>>]
       = [i \in DOMAIN b |-> <<Identity(b[i]), b[i].price>>]
  BY <1>7, <1>8
<1>15. QED BY <1>13, <1>14, Zenon DEF Shown, other

-----------------------------------------------------------------------------
(* Whole minutes.                                                          *)

\* Clock times and offsets without seconds.
InMinutes(rows, table) ==
    /\ DayLength % Minute = 0
    /\ \A f \in rows : f.departs % Minute = 0 /\ f.arrives % Minute = 0
    /\ \A a \in DOMAIN table :
         table[a].zone.before % Minute = 0 /\ table[a].zone.after % Minute = 0

LEMMA Multiples ==
    ASSUME NEW n \in Int
    PROVE  n % Minute = 0 <=> \E k \in Int : n = Minute * k
<1>1. Minute \in Int /\ Minute > 0
  BY TimeAssumption
<1>2. /\ n = Minute * (n \div Minute) + (n % Minute)
      /\ n \div Minute \in Int /\ n % Minute \in 0..(Minute - 1)
  BY <1>1, SMT
<1>3. ASSUME n % Minute = 0 PROVE \E k \in Int : n = Minute * k
  BY <1>1, <1>2, <1>3
<1>4. ASSUME NEW k \in Int, n = Minute * k PROVE n % Minute = 0
  <2> DEFINE q == n \div Minute
             r == n % Minute
  <2>1. Minute * k = Minute * q + r /\ q \in Int /\ r \in 0..(Minute - 1)
    BY <1>2, <1>4
  <2> HIDE DEF q, r
  <2>2. Minute * (k - q) = r
    BY <1>1, <2>1, SMT
  <2>3. k - q <= 0
    BY <1>1, <2>1, <2>2, SMT
  <2>4. k - q >= 0
    BY <1>1, <2>1, <2>2, SMT
  <2>5. r = 0
    BY <1>1, <2>1, <2>2, <2>3, <2>4, SMT
  <2>6. QED BY <2>5 DEF r
<1>5. QED BY <1>3, <1>4

LEMMA SumsOfMultiples ==
    ASSUME NEW m \in Int, m % Minute = 0, NEW n \in Int, n % Minute = 0
    PROVE  (m + n) % Minute = 0 /\ (m - n) % Minute = 0
<1>1. Minute \in Int
  BY TimeAssumption
<1>2. PICK k \in Int : m = Minute * k
  BY Multiples
<1>3. PICK l \in Int : n = Minute * l
  BY Multiples
<1>4. m + n = Minute * (k + l) /\ m - n = Minute * (k - l) /\ k + l \in Int /\ k - l \in Int
  BY <1>1, <1>2, <1>3, SMT
<1>5. m + n \in Int /\ m - n \in Int
  OBVIOUS
<1>6. QED BY <1>4, <1>5, Multiples

LEMMA LocalizeInMinutes ==
    ASSUME NEW zone \in Zone, zone.before % Minute = 0, zone.after % Minute = 0,
           NEW date \in Int, NEW clock \in Int, clock % Minute = 0, DayLength % Minute = 0,
           Localize(zone, DayLength * date + clock) # None
    PROVE  Localize(zone, DayLength * date + clock) % Minute = 0
<1> DEFINE local == DayLength * date + clock
<1>1. Minute \in Int /\ DayLength \in Int /\ zone.before \in Int /\ zone.after \in Int
  BY TimeAssumption DEF Zone
<1>2. local \in Int /\ local % Minute = 0
  <2>1. PICK k \in Int : DayLength = Minute * k
    BY <1>1, Multiples
  <2>2. DayLength * date = Minute * (k * date) /\ k * date \in Int /\ DayLength * date \in Int
    BY <1>1, <2>1, SMT
  <2>3. (DayLength * date) % Minute = 0
    BY <2>2, Multiples
  <2>4. QED BY <2>2, <2>3, SumsOfMultiples
<1> HIDE DEF local
<1>3. Localize(zone, local) \in Instants(zone, local)
  BY <1>2, LocalizeInverts DEF local
<1>4. Localize(zone, local) \in {local - zone.before, local - zone.after}
  BY <1>3 DEF Instants
<1>5. (local - zone.before) % Minute = 0 /\ (local - zone.after) % Minute = 0
  BY <1>1, <1>2, SumsOfMultiples
<1>6. Localize(zone, local) % Minute = 0
  BY <1>4, <1>5
<1>7. QED BY <1>6 DEF local

LEMMA JourneysInMinutes ==
    ASSUME NEW rows, NEW table, NEW c, IsInput(rows, table, c), InMinutes(rows, table),
           NEW it \in Journeys(rows, table, c)
    PROVE  WholeMinutes(it)
<1> DEFINE S == Resolved(rows, table, c)
<1>1. ASSUME NEW x \in S PROVE (x.arrival - x.departure) % Minute = 0
  <2> DEFINE f == x.flight
             from == table[f.origin]
             to == table[f.destination]
  <2>1. x \in Instance /\ x # None /\ f \in rows /\ x = Resolve(f, x.date, from, to)
    BY ResolvedRows
  <2>2. /\ f \in Flight /\ {f.origin, f.destination} \subseteq DOMAIN table
        /\ from.zone \in Zone /\ to.zone \in Zone
    BY <2>1 DEF IsInput
  <2>3. /\ from.zone.before % Minute = 0 /\ from.zone.after % Minute = 0
        /\ to.zone.before % Minute = 0 /\ to.zone.after % Minute = 0
        /\ f.departs % Minute = 0 /\ f.arrives % Minute = 0
        /\ DayLength % Minute = 0
    BY <2>1, <2>2 DEF InMinutes
  <2> HIDE DEF f, from, to
  <2>4. /\ x.departure = Localize(from.zone, DepartsLocal(f, x.date))
        /\ x.arrival = Localize(to.zone, ArrivesLocal(f, x.date))
        /\ x.departure # None /\ x.arrival # None
    BY <2>1, ResolvedInstance
  <2>5. x.date \in Int /\ x.date + f.dayOffset \in Int /\ f.departs \in Int /\ f.arrives \in Int
    BY <2>1, <2>2 DEF Instance, Flight, ClockTimes
  <2>6. x.departure % Minute = 0
    BY <2>2, <2>3, <2>4, <2>5, LocalizeInMinutes DEF DepartsLocal
  <2>7. x.arrival % Minute = 0
    BY <2>2, <2>3, <2>4, <2>5, LocalizeInMinutes DEF ArrivesLocal
  <2>8. x.departure \in Int /\ x.arrival \in Int
    BY <2>1 DEF Instance
  <2>9. QED BY <2>6, <2>7, <2>8, SumsOfMultiples
<1>2. \/ \E x \in S : it = Direct(x, table)
      \/ \E x, y \in S : it = OneStop(x, y, table)
  BY DEF Journeys
<1>3. ASSUME NEW x \in S, it = Direct(x, table) PROVE WholeMinutes(it)
  <2>1. it.segments = <<x>> /\ DOMAIN it.segments = 1..1
    BY <1>3, DirectSegments
  <2>2. QED BY <1>1, <2>1 DEF WholeMinutes
<1>4. ASSUME NEW x \in S, NEW y \in S, it = OneStop(x, y, table) PROVE WholeMinutes(it)
  <2>1. it.segments = <<x, y>> /\ DOMAIN it.segments = 1..2
    BY <1>4, OneStopSegments
  <2>2. QED BY <1>1, <2>1 DEF WholeMinutes
<1>5. QED BY <1>2, <1>3, <1>4

-----------------------------------------------------------------------------
\* The inductive invariant: the inputs are a search's, and the response is what
\* they give.
Computed == response # None =>
            response = SearchItineraries(schedule, airports, criteria)

RoutingInv == IsInput(schedule, airports, criteria) /\ Computed

LEMMA RoutingInvariant == RoutingSpec => []RoutingInv
<1>1. RoutingInit => RoutingInv
  BY InputsAssumption DEF RoutingInit, RoutingInv, Computed
<1>2. RoutingInv /\ [Search]_routingVars => RoutingInv'
  <2> SUFFICES ASSUME RoutingInv, [Search]_routingVars PROVE RoutingInv'
    OBVIOUS
  <2>1. UNCHANGED <<schedule, airports, criteria>>
    BY DEF Search, routingVars
  <2>2. IsInput(schedule, airports, criteria)'
    BY <2>1 DEF RoutingInv
  <2>3. Computed'
    BY DEF RoutingInv, Computed, Search, routingVars
  <2>4. QED BY <2>2, <2>3 DEF RoutingInv
<1>3. QED BY <1>1, <1>2, PTL DEF RoutingSpec

\* For every schedule, airports table and criteria, a search answers with the
\* best of the journeys there are (engine.py, search.py).
THEOREM AnswersAreBest == RoutingSpec => []AnswersBest
<1>1. RoutingInv => AnswersBest
  <2> SUFFICES ASSUME RoutingInv, Answered
               PROVE  Best(response.results, Choice(schedule, airports, criteria),
                           criteria.sort)
    BY DEF AnswersBest
  <2>1. /\ response = SearchItineraries(schedule, airports, criteria)
        /\ response.error = None /\ IsInput(schedule, airports, criteria)
    BY DEF RoutingInv, Computed, Answered
  <2>2. /\ WithinCoverage(schedule, criteria.date) /\ criteria.origin \in DOMAIN airports
        /\ airports[criteria.origin].active
    BY <2>1, AnsweredSearch
  <2>3. response = IF \A it \in ToSet(Results(schedule, airports, criteria)) : WholeMinutes(it)
                   THEN [error |-> None, results |-> Results(schedule, airports, criteria)]
                   ELSE Failure("INTERNAL_ERROR")
    BY <2>1, <2>2, AnswerOfSearch
  <2>4. response.results = Results(schedule, airports, criteria)
    BY <2>1, <2>3, RoutingAssumption DEF Failure
  <2>5. Best(Results(schedule, airports, criteria),
             Choice(schedule, airports, criteria), criteria.sort)
    BY <2>1, ResultsAreBest DEF Results, Found
  <2>6. QED BY <2>4, <2>5, Zenon
<1>2. QED BY <1>1, RoutingInvariant, PTL

\* Importing the same rows under other ids changes nothing that a response
\* shows (sorting.py, deduplication.py).
THEOREM ReimportIsInvisible == RoutingSpec => []SameAfterReimport
<1>1. RoutingInv => SameAfterReimport
  <2> SUFFICES ASSUME RoutingInv, Answered
               PROVE  Shown(response)
                      = Shown(SearchItineraries(Renumbered, airports, criteria))
    BY DEF SameAfterReimport
  <2>1. /\ response = SearchItineraries(schedule, airports, criteria)
        /\ response.error = None /\ IsInput(schedule, airports, criteria)
    BY DEF RoutingInv, Computed, Answered
  <2>2. Renumbered = Renumber(schedule)
    BY Zenon DEF Renumbered, Renumber, Renamed
  <2>3. Shown(SearchItineraries(schedule, airports, criteria))
        = Shown(SearchItineraries(Renumber(schedule), airports, criteria))
    BY <2>1, SameAnswer
  <2>4. QED BY <2>1, <2>2, <2>3, Zenon
<1>2. QED BY <1>1, RoutingInvariant, PTL

\* Where no clock time or offset has seconds, no search ends with an exception
\* of the domain model (itinerary.py, flight_instance.py).
THEOREM SearchesAnswer ==
    ASSUME \A input \in Inputs : InMinutes(input.schedule, input.airports)
    PROVE  RoutingSpec => []SearchAnswers
<1> DEFINE Inv == RoutingInv /\ InMinutes(schedule, airports)
<1>1. RoutingInit => InMinutes(schedule, airports)
  BY DEF RoutingInit
<1>2. InMinutes(schedule, airports) /\ [Search]_routingVars => InMinutes(schedule, airports)'
  <2> SUFFICES ASSUME InMinutes(schedule, airports), [Search]_routingVars
               PROVE  InMinutes(schedule, airports)'
    OBVIOUS
  <2>1. UNCHANGED <<schedule, airports>>
    BY DEF Search, routingVars
  <2>2. QED BY <2>1
<1>3. RoutingInv /\ InMinutes(schedule, airports) => SearchAnswers
  <2> SUFFICES ASSUME RoutingInv, InMinutes(schedule, airports), response # None
               PROVE  response.error \in {None, "DATE_OUTSIDE_SCHEDULE_RANGE",
                                          "UNKNOWN_ORIGIN"}
    BY DEF SearchAnswers
  <2>1. /\ response = SearchItineraries(schedule, airports, criteria)
        /\ IsInput(schedule, airports, criteria)
    BY DEF RoutingInv, Computed
  <2>2. CASE /\ WithinCoverage(schedule, criteria.date)
             /\ criteria.origin \in DOMAIN airports
             /\ airports[criteria.origin].active
    <3> DEFINE results == Results(schedule, airports, criteria)
               found == Found(schedule, airports, criteria)
    <3>1. results \in Seq(found)
      BY <2>1, ResultsAreBest DEF Results, Found
    <3>2. \A it \in found : WholeMinutes(it)
      BY <2>1, JourneysInMinutes DEF Found
    <3>3. response = IF \A it \in ToSet(results) : WholeMinutes(it)
                     THEN [error |-> None, results |-> results]
                     ELSE Failure("INTERNAL_ERROR")
      BY <2>1, <2>2, AnswerOfSearch
    <3> HIDE DEF results, found
    <3>4. \A it \in ToSet(results) : it \in found
      BY <3>1, LenProperties DEF ToSet
    <3>5. QED BY <3>2, <3>3, <3>4
  <2>3. CASE ~ /\ WithinCoverage(schedule, criteria.date)
               /\ criteria.origin \in DOMAIN airports
               /\ airports[criteria.origin].active
    BY <2>1, <2>3 DEF SearchItineraries, Failure
  <2>4. QED BY <2>2, <2>3
<1>4. QED BY <1>1, <1>2, <1>3, RoutingInvariant, PTL DEF RoutingSpec

\* No flight departs on a date the coverage check refuses.
LEMMA CoverageIsComplete ==
    ASSUME NEW rows, NEW table, NEW c, ~WithinCoverage(rows, c.date)
    PROVE  Choice(rows, table, c) = {}
<1>1. ASSUME NEW x \in Resolved(rows, table, c), x.date = c.date PROVE FALSE
  <2>1. PICK f \in rows, d \in (c.date - 3)..(c.date + 6) :
            x = Resolve(f, d, table[f.origin], table[f.destination]) /\ x # None
    BY DEF Resolved
  <2>2. d = c.date /\ OperatesOn(f, d)
    BY <1>1, <2>1, ResolvedInstance
  <2>3. QED BY <2>2 DEF OperatesOn, WithinCoverage
<1>2. Journeys(rows, table, c) = {}
  BY <1>1 DEF Journeys
<1>3. QED BY <1>2 DEF Choice

\* For every schedule, a date refused as outside it is one without a journey.
THEOREM RefusalsAreRight == RoutingSpec => []RefusedDatesAreEmpty
<1>1. RoutingInv => RefusedDatesAreEmpty
  <2> SUFFICES ASSUME RoutingInv, response # None,
                      response.error = "DATE_OUTSIDE_SCHEDULE_RANGE"
               PROVE  Choice(schedule, airports, criteria) = {}
    BY DEF RefusedDatesAreEmpty
  <2>1. SearchItineraries(schedule, airports, criteria).error
            = "DATE_OUTSIDE_SCHEDULE_RANGE"
    BY DEF RoutingInv, Computed
  <2>2. ~WithinCoverage(schedule, criteria.date)
    BY <2>1, RoutingAssumption DEF SearchItineraries, Failure
  <2>3. QED BY <2>2, CoverageIsComplete
<1>2. QED BY <1>1, RoutingInvariant, PTL
=============================================================================
