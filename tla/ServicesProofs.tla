----------------------------- MODULE ServicesProofs -----------------------------
(***************************************************************************)
(* Proofs about the services that share no state: for each an inductive    *)
(* invariant, and from it the property the run of MCServices checks.       *)
(***************************************************************************)
EXTENDS AgvGuard, PredictionTable, AnomalyCorrelation, DeviceHealth,
        DeviceKeys, CommandNonces, OntologyMigration, OpcuaFeed,
        DecisionLedger, Admission, PollChannel, MetaModel, FactoryFederation,
        ForecastHistory, RuntimeState, PrivacyExchange, RanksAndSums,
        FiniteSetTheorems, TLAPS

(***************************************************************************)
(* The AGV guard                                                           *)
(***************************************************************************)

\* A list of orders tells vehicle v the level lev: its newest order does, or the
\* list has none of it and either none was needed or it was pushed out.
OrdersTell(list, lev, v) ==
    \/ /\ \A i \in 1..Len(list) : list[i].vehicle # v
       /\ lev = "clear" \/ Len(list) = MaxControlQueue
    \/ \E i \in 1..Len(list) :
          /\ list[i].vehicle = v /\ list[i].action = Action(lev)
          /\ \A j \in 1..Len(list) : list[j].vehicle = v => i <= j

\* An order of a vehicle differs from its next older one.
Alternating(list) ==
    \A i, j \in 1..Len(list) :
        i < j /\ list[i].vehicle = list[j].vehicle
        /\ (\A k \in i + 1..j - 1 : list[k].vehicle # list[i].vehicle) =>
        list[i].action # list[j].action

\* The level heeds the last point of a window.
Heeds(seq, lev) ==
    seq # << >> =>
        LET d == seq[Len(seq)].distance
            c == Closing(seq)
        IN /\ d <= StopDistance \/ CannotBrake(d, c) => lev = "stop"
           /\ d <= SlowDistance \/ ImpactSoon(d, c) => lev # "clear"

AgvInv ==
    /\ AgvTypeOK
    /\ \A v \in Vehicles : /\ v \in DOMAIN shown => shown[v] = level[v]
                           /\ OrdersTell(queue, level[v], v)
                           /\ Heeds(points[v], level[v])
    /\ Alternating(queue)

LEMMA ActionsDiffer ==
    /\ \A l \in Level : Action(l) \in {"stop", "slow", "resume"}
    /\ \A l, m \in Level : Action(l) = Action(m) => l = m
BY DEF Level, Action

LEMMA WindowsAreKept ==
    ASSUME NEW seq \in Seq(Point), NEW p \in Point
    PROVE  LET kept == LastPoints(Append(seq, p))
           IN /\ kept \in Seq(Point) /\ Len(kept) <= MaxPoints
              /\ kept # << >> /\ kept[Len(kept)] = p
<1> DEFINE u == Append(seq, p)
           n == Len(u)
<1>1. u \in Seq(Point) /\ n \in Nat /\ n >= 1 /\ u[n] = p
  OBVIOUS
<1>2. MaxPoints \in Nat \ {0}
  BY AgvAssumption
<1> HIDE DEF u
<1>3. CASE n > MaxPoints
  <2> DEFINE kept == SubSeq(u, n - MaxPoints + 1, n)
  <2>1. n - MaxPoints + 1 \in 1..n
    BY <1>1, <1>2, <1>3
  <2>2. /\ kept \in Seq(Point) /\ Len(kept) = n - (n - MaxPoints + 1) + 1
        /\ \A i \in 1..Len(kept) : kept[i] = u[(n - MaxPoints + 1) + i - 1]
    BY <1>1, <1>2, <2>1
  <2> HIDE DEF kept
  <2>3. Len(kept) = MaxPoints /\ MaxPoints \in 1..Len(kept)
        /\ (n - MaxPoints + 1) + MaxPoints - 1 = n
    BY <1>1, <1>2, <2>2
  <2>4. kept[Len(kept)] = p /\ kept # << >>
    BY <1>1, <1>2, <2>2, <2>3
  <2>5. LastPoints(u) = kept
    BY <1>3 DEF LastPoints, kept
  <2> QED BY <1>2, <2>2, <2>3, <2>4, <2>5 DEF u
<1>4. CASE ~(n > MaxPoints)
  <2>1. LastPoints(u) = u
    BY <1>4 DEF LastPoints
  <2> QED BY <1>1, <1>2, <1>4, <2>1 DEF u
<1> QED BY <1>3, <1>4

\* An order before the others; the oldest of a full list is dropped.
Foremost(list, o) ==
    IF Len(<<o>> \o list) > MaxControlQueue THEN SubSeq(<<o>> \o list, 1, MaxControlQueue)
    ELSE <<o>> \o list

Follows(u, list, o) ==
    /\ u \in Seq(Order) /\ Len(u) <= MaxControlQueue /\ 1 \in 1..Len(u) /\ u[1] = o
    /\ \A i \in 1..Len(u) : i # 1 => i - 1 \in 1..Len(list) /\ u[i] = list[i - 1]
    /\ Len(u) = MaxControlQueue \/ Len(u) = Len(list) + 1

LEMMA OrderGoesFirst ==
    ASSUME NEW list \in Seq(Order), Len(list) <= MaxControlQueue, NEW o \in Order
    PROVE  Follows(Foremost(list, o), list, o)
<1> DEFINE u == <<o>> \o list
           n == Len(list)
<1>1. /\ u \in Seq(Order) /\ n \in Nat /\ Len(u) = n + 1 /\ u[1] = o
      /\ \A i \in 1..n : u[i + 1] = list[i]
  OBVIOUS
<1>2. MaxControlQueue \in Nat \ {0} /\ n <= MaxControlQueue
  BY AgvAssumption
<1> HIDE DEF u
<1>3. \A i \in 1..n + 1 : i # 1 => i - 1 \in 1..n /\ u[i] = list[i - 1]
  <2> SUFFICES ASSUME NEW i \in 1..n + 1, i # 1 PROVE i - 1 \in 1..n /\ u[i] = list[i - 1]
    OBVIOUS
  <2>1. i - 1 \in 1..n /\ (i - 1) + 1 = i
    BY <1>1
  <2>2. u[(i - 1) + 1] = list[i - 1]
    BY <1>1, <2>1
  <2> QED BY <2>1, <2>2
<1>4. ASSUME n + 1 > MaxControlQueue PROVE Follows(Foremost(list, o), list, o)
  <2> DEFINE s == SubSeq(u, 1, MaxControlQueue)
  <2>1. Foremost(list, o) = s
    BY <1>1, <1>4 DEF Foremost, u
  <2>2. MaxControlQueue \in 1..Len(u) /\ \A i \in 1..MaxControlQueue : i \in 1..n + 1
    BY <1>1, <1>2, <1>4
  <2>3. s \in Seq(Order) /\ Len(s) = MaxControlQueue /\ \A i \in 1..MaxControlQueue : s[i] = u[i]
    BY <1>1, <1>2, <2>2
  <2> HIDE DEF s
  <2>4. 1 \in 1..Len(s) /\ s[1] = o
    BY <1>1, <1>2, <2>3
  <2>5. \A i \in 1..Len(s) : i # 1 => i - 1 \in 1..n /\ s[i] = list[i - 1]
    BY <1>3, <2>2, <2>3
  <2> QED BY <1>2, <2>1, <2>3, <2>4, <2>5 DEF Follows
<1>5. ASSUME ~(n + 1 > MaxControlQueue) PROVE Follows(Foremost(list, o), list, o)
  <2>1. Foremost(list, o) = u
    BY <1>1, <1>5 DEF Foremost, u
  <2>2. 1 \in 1..Len(u) /\ Len(u) <= MaxControlQueue /\ Len(u) = n + 1
    BY <1>1, <1>2, <1>5
  <2> QED BY <1>1, <1>3, <2>1, <2>2 DEF Follows
<1> QED BY <1>4, <1>5

\* The vehicle it is for is told by it, the others as before.
LEMMA OthersAreStillTold ==
    ASSUME NEW list \in Seq(Order), Len(list) <= MaxControlQueue, NEW o \in Order, NEW u,
           Follows(u, list, o), NEW w, w # o.vehicle, NEW lev, OrdersTell(list, lev, w)
    PROVE  OrdersTell(u, lev, w)
<1>1. /\ Len(list) \in Nat /\ Len(u) \in Nat /\ u[1] = o /\ MaxControlQueue \in Nat
      /\ \A i \in 1..Len(u) : i # 1 => i - 1 \in 1..Len(list) /\ u[i] = list[i - 1]
      /\ Len(u) = MaxControlQueue \/ Len(u) = Len(list) + 1
  <2>1. Len(list) \in Nat /\ Len(u) \in Nat /\ MaxControlQueue \in Nat
    BY AgvAssumption DEF Follows
  <2>2. u[1] = o /\ (Len(u) = MaxControlQueue \/ Len(u) = Len(list) + 1)
    BY DEF Follows
  <2>3. \A i \in 1..Len(u) : i # 1 => i - 1 \in 1..Len(list) /\ u[i] = list[i - 1]
    BY DEF Follows
  <2> QED BY <2>1, <2>2, <2>3
<1>2. CASE /\ \A i \in 1..Len(list) : list[i].vehicle # w
           /\ lev = "clear" \/ Len(list) = MaxControlQueue
  <2>1. \A i \in 1..Len(u) : u[i].vehicle # w
    BY <1>1, <1>2
  <2>2. lev = "clear" \/ Len(u) = MaxControlQueue
    <3>1. Len(u) <= MaxControlQueue /\ Len(list) <= MaxControlQueue
      BY DEF Follows
    <3> QED BY <1>1, <1>2, <3>1
  <2> QED BY <2>1, <2>2 DEF OrdersTell
<1>3. CASE \E i \in 1..Len(list) :
              /\ list[i].vehicle = w /\ list[i].action = Action(lev)
              /\ \A j \in 1..Len(list) : list[j].vehicle = w => i <= j
  <2>1. PICK i \in 1..Len(list) :
            /\ list[i].vehicle = w /\ list[i].action = Action(lev)
            /\ \A j \in 1..Len(list) : list[j].vehicle = w => i <= j
    BY <1>3
  <2>2. \A j \in 1..Len(u) : u[j].vehicle = w => i + 1 <= j
    <3> SUFFICES ASSUME NEW j \in 1..Len(u), u[j].vehicle = w PROVE i + 1 <= j
      OBVIOUS
    <3>1. j # 1
      BY <1>1
    <3>2. j - 1 \in 1..Len(list) /\ list[j - 1].vehicle = w
      BY <1>1, <3>1
    <3>3. i <= j - 1
      BY <2>1, <3>2
    <3> QED BY <1>1, <3>3
  <2>3. CASE i + 1 \in 1..Len(u)
    <3>1. u[i + 1] = list[i]
      <4>1. i + 1 # 1 /\ (i + 1) - 1 = i
        BY <1>1
      <4>2. u[i + 1] = list[(i + 1) - 1]
        BY <1>1, <2>3, <4>1
      <4> QED BY <4>1, <4>2
    <3> QED BY <2>1, <2>2, <2>3, <3>1 DEF OrdersTell
  <2>4. CASE i + 1 \notin 1..Len(u)
    <3>1. \A j \in 1..Len(u) : u[j].vehicle # w
      BY <1>1, <2>2, <2>4
    <3>2. Len(u) = MaxControlQueue
      BY <1>1, <2>4
    <3> QED BY <3>1, <3>2 DEF OrdersTell
  <2> QED BY <2>3, <2>4
<1> QED BY <1>2, <1>3 DEF OrdersTell

\* A new level is an order that differs from the newest of the vehicle.
LEMMA OrdersAlternate ==
    ASSUME NEW list \in Seq(Order), NEW o \in Order, NEW u, Follows(u, list, o),
           Alternating(list), NEW old \in Level, NEW new \in Level, new # old,
           o.action = Action(new), OrdersTell(list, old, o.vehicle)
    PROVE  Alternating(u)
<1>1. /\ Len(list) \in Nat /\ Len(u) \in Nat /\ u[1] = o
      /\ \A i \in 1..Len(u) : i # 1 => i - 1 \in 1..Len(list) /\ u[i] = list[i - 1]
  BY DEF Follows
<1> SUFFICES ASSUME NEW i \in 1..Len(u), NEW j \in 1..Len(u), i < j, u[i].vehicle = u[j].vehicle,
                    \A k \in i + 1..j - 1 : u[k].vehicle # u[i].vehicle
             PROVE  u[i].action # u[j].action
  BY DEF Alternating
<1>2. j # 1 /\ j - 1 \in 1..Len(list) /\ u[j] = list[j - 1]
  BY <1>1
<1>3. CASE i = 1
  <2>1. list[j - 1].vehicle = o.vehicle /\ u[i] = o
    BY <1>1, <1>2, <1>3
  <2>2. PICK k \in 1..Len(list) :
            /\ list[k].vehicle = o.vehicle /\ list[k].action = Action(old)
            /\ \A m \in 1..Len(list) : list[m].vehicle = o.vehicle => k <= m
    BY <1>2, <2>1 DEF OrdersTell
  <2>3. k <= j - 1
    BY <1>2, <2>1, <2>2
  <2>4. k = j - 1
    <3> SUFFICES ASSUME k # j - 1 PROVE FALSE
      OBVIOUS
    <3>1. k + 1 \in i + 1..j - 1 /\ k + 1 \in 1..Len(u) /\ k + 1 # 1 /\ (k + 1) - 1 = k
      BY <1>1, <1>3, <2>3
    <3>2. u[k + 1] = list[(k + 1) - 1]
      BY <1>1, <3>1
    <3> QED BY <2>1, <2>2, <3>1, <3>2
  <2>5. u[j].action = Action(old)
    BY <1>2, <2>2, <2>4
  <2> QED BY <2>1, <2>5, ActionsDiffer
<1>4. CASE i # 1
  <2>1. i - 1 \in 1..Len(list) /\ u[i] = list[i - 1] /\ i - 1 < j - 1
    BY <1>1, <1>4
  <2>2. ASSUME NEW k \in (i - 1) + 1..(j - 1) - 1 PROVE list[k].vehicle # list[i - 1].vehicle
    <3>1. k + 1 \in i + 1..j - 1 /\ k + 1 \in 1..Len(u) /\ k + 1 # 1 /\ (k + 1) - 1 = k
      BY <1>1, <2>1
    <3>2. u[k + 1] = list[(k + 1) - 1]
      BY <1>1, <3>1
    <3>3. u[k + 1].vehicle # u[i].vehicle
      BY <3>1
    <3> QED BY <2>1, <3>1, <3>2, <3>3
  <2>3. list[i - 1].vehicle = list[j - 1].vehicle
    BY <1>2, <2>1
  <2>4. list[i - 1].action # list[j - 1].action
    BY <1>2, <2>1, <2>2, <2>3 DEF Alternating
  <2> QED BY <1>2, <2>1, <2>4
<1> QED BY <1>3, <1>4

\* The zone is heeded, and a way is clear only by the larger distance.
LEMMA LevelHeedsZone ==
    ASSUME NEW v \in Vehicles, NEW seq, level[v] \in Level,
           seq[Len(seq)].distance \in Nat
    PROVE  /\ NextLevel(v, seq) \in Level
           /\ Heeds(seq, NextLevel(v, seq))
           /\ level[v] # "clear" /\ NextLevel(v, seq) = "clear" =>
                 LET d == seq[Len(seq)].distance
                     c == Closing(seq)
                 IN d >= ClearDistance /\ ~CannotBrake(d, c) /\ ~ImpactSoon(d, c)
<1> DEFINE d == seq[Len(seq)].distance
           c == Closing(seq)
           stop == d <= StopDistance \/ CannotBrake(d, c)
           slow == d <= SlowDistance \/ ImpactSoon(d, c)
<1>1. /\ stop => Zone(seq) = "stop"
      /\ ~stop /\ slow => Zone(seq) = "slow"
      /\ ~stop /\ ~slow => Zone(seq) = "clear"
  BY DEF Zone
<1>2. NextLevel(v, seq) = IF Zone(seq) = "clear" /\ level[v] # "clear" /\ d < ClearDistance
                          THEN level[v] ELSE Zone(seq)
  BY DEF NextLevel
<1>3. d \in Nat /\ ClearDistance \in Nat
  BY AgvAssumption
<1> HIDE DEF d, c
<1>4. NextLevel(v, seq) \in Level
  BY <1>1, <1>2 DEF Level
<1>5. (stop => NextLevel(v, seq) = "stop") /\ (slow => NextLevel(v, seq) # "clear")
  BY <1>1, <1>2
<1>6. ASSUME level[v] # "clear", NextLevel(v, seq) = "clear"
      PROVE  d >= ClearDistance /\ ~CannotBrake(d, c) /\ ~ImpactSoon(d, c)
  <2>1. Zone(seq) = "clear" /\ ~(d < ClearDistance)
    BY <1>2, <1>6
  <2>2. ~stop /\ ~slow
    BY <1>1, <2>1
  <2> QED BY <1>3, <2>1, <2>2
<1>7. Heeds(seq, NextLevel(v, seq))
  BY <1>5 DEF Heeds, d, c
<1> QED BY <1>4, <1>6, <1>7 DEF d, c

\* The window and the level of a vehicle after a measurement.
LEMMA MeasuredWell ==
    ASSUME AgvInv, NEW v \in Vehicles, NEW d \in Distances, NEW t \in 0..MaxStamp, PushDistance(v, d, t)
    PROVE  /\ points'[v] \in Seq(Point) /\ Len(points'[v]) <= MaxPoints
           /\ level'[v] = NextLevel(v, points'[v]) /\ level'[v] \in Level
           /\ Heeds(points'[v], level'[v])
           /\ level[v] # "clear" /\ level'[v] = "clear" =>
                 LET last == points'[v][Len(points'[v])]
                     c == Closing(points'[v])
                 IN last.distance >= ClearDistance /\ ~CannotBrake(last.distance, c)
                    /\ ~ImpactSoon(last.distance, c)
           /\ points' = [points EXCEPT ![v] = points'[v]] /\ level' = [level EXCEPT ![v] = level'[v]]
<1> DEFINE p == [at |-> t, distance |-> d]
           kept == LastPoints(Append(points[v], p))
<1>1. p \in Point /\ points[v] \in Seq(Point) /\ points \in [Vehicles -> Seq(Point)]
      /\ level \in [Vehicles -> Level] /\ p.distance = d /\ d \in Nat
  BY AgvAssumption DEF AgvInv, AgvTypeOK, Point
<1> HIDE DEF p
<1>2. kept \in Seq(Point) /\ Len(kept) <= MaxPoints /\ kept # << >> /\ kept[Len(kept)] = p
  BY <1>1, WindowsAreKept
<1>3. points' = [points EXCEPT ![v] = kept] /\ level' = [level EXCEPT ![v] = NextLevel(v, points'[v])]
  BY DEF PushDistance, p
<1> HIDE DEF kept
<1>4. points'[v] = kept /\ level'[v] = NextLevel(v, kept)
  BY <1>1, <1>3
<1>5. kept[Len(kept)].distance \in Nat /\ level[v] \in Level
  BY <1>1, <1>2
<1>6. /\ NextLevel(v, kept) \in Level /\ Heeds(kept, NextLevel(v, kept))
      /\ level[v] # "clear" /\ NextLevel(v, kept) = "clear" =>
            LET last == kept[Len(kept)]
                c == Closing(kept)
            IN last.distance >= ClearDistance /\ ~CannotBrake(last.distance, c)
               /\ ~ImpactSoon(last.distance, c)
  BY <1>5, LevelHeedsZone
<1> QED BY <1>2, <1>3, <1>4, <1>6

LEMMA PushDistanceKeeps ==
    ASSUME AgvInv, NEW v \in Vehicles, NEW d \in Distances, NEW t \in 0..MaxStamp, PushDistance(v, d, t)
    PROVE  AgvInv'
<1> DEFINE new == level'[v]
           o == [vehicle |-> v, action |-> Action(new), distance |-> d]
<1>1. /\ points'[v] \in Seq(Point) /\ Len(points'[v]) <= MaxPoints
      /\ new \in Level /\ Heeds(points'[v], new) /\ new = NextLevel(v, points'[v])
      /\ points' = [points EXCEPT ![v] = points'[v]] /\ level' = [level EXCEPT ![v] = new]
  BY MeasuredWell
<1>2. /\ points \in [Vehicles -> Seq(Point)] /\ \A w \in Vehicles : Len(points[w]) <= MaxPoints
      /\ level \in [Vehicles -> Level] /\ DOMAIN shown \subseteq Vehicles
      /\ queue \in Seq(Order) /\ Len(queue) <= MaxControlQueue
      /\ measured \in 0..MaxDistances
  BY DEF AgvInv, AgvTypeOK
<1>3. /\ shown' = [w \in DOMAIN shown \cup {v} |-> IF w = v THEN new ELSE shown[w]]
      /\ queue' = IF new = level[v] THEN queue ELSE Foremost(queue, o)
      /\ measured < MaxDistances /\ measured' = measured + 1
  BY <1>1 DEF PushDistance, Ordered, Foremost
<1> HIDE DEF new
<1>4. \A w \in Vehicles : w # v => points'[w] = points[w] /\ level'[w] = level[w]
  BY <1>1, <1>2
<1>5. o \in Order /\ o.vehicle = v /\ o.action = Action(new)
  BY <1>1, ActionsDiffer DEF Order
<1> HIDE DEF o
<1>6. /\ queue' \in Seq(Order) /\ Len(queue') <= MaxControlQueue /\ Alternating(queue')
      /\ OrdersTell(queue', new, v)
      /\ \A w \in Vehicles : w # v => OrdersTell(queue', level[w], w)
  <2>0. \A w \in Vehicles : OrdersTell(queue, level[w], w)
    BY DEF AgvInv
  <2>1. CASE new = level[v]
    BY <1>2, <1>3, <2>0, <2>1 DEF AgvInv
  <2>2. CASE new # level[v]
    <3>1. Follows(queue', queue, o)
      BY <1>2, <1>3, <1>5, <2>2, OrderGoesFirst
    <3>2. queue' \in Seq(Order) /\ Len(queue') <= MaxControlQueue
      BY <3>1 DEF Follows
    <3>3. level[v] \in Level /\ OrdersTell(queue, level[v], o.vehicle) /\ Alternating(queue)
      BY <1>2, <1>5, <2>0 DEF AgvInv
    <3>4. Alternating(queue')
      BY <1>1, <1>2, <1>5, <2>2, <3>1, <3>3, OrdersAlternate
    <3>5. OrdersTell(queue', new, v)
      <4>1. 1 \in 1..Len(queue') /\ queue'[1].vehicle = v /\ queue'[1].action = Action(new)
        BY <1>5, <3>1 DEF Follows
      <4>2. \A j \in 1..Len(queue') : 1 <= j
        BY <3>2
      <4> QED BY <4>1, <4>2 DEF OrdersTell
    <3>6. ASSUME NEW w \in Vehicles, w # v PROVE OrdersTell(queue', level[w], w)
      BY <1>2, <1>5, <2>0, <3>1, <3>6, OthersAreStillTold
    <3> QED BY <3>2, <3>4, <3>5, <3>6
  <2> QED BY <2>1, <2>2
<1>7. AgvTypeOK'
  <2>1. points' \in [Vehicles -> Seq(Point)] /\ level' \in [Vehicles -> Level]
    BY <1>1, <1>2
  <2>2. \A w \in Vehicles : Len(points'[w]) <= MaxPoints
    BY <1>1, <1>2, <1>4
  <2>3. DOMAIN shown' \subseteq Vehicles
    BY <1>2, <1>3
  <2>4. measured' \in 0..MaxDistances
    BY <1>2, <1>3, AgvAssumption
  <2> QED BY <1>6, <2>1, <2>2, <2>3, <2>4 DEF AgvTypeOK
<1>8. ASSUME NEW w \in Vehicles
      PROVE  /\ w \in DOMAIN shown' => shown'[w] = level'[w]
             /\ OrdersTell(queue', level'[w], w) /\ Heeds(points'[w], level'[w])
  <2>1. CASE w = v
    BY <1>1, <1>3, <1>6, <2>1 DEF new
  <2>2. CASE w # v
    <3>1. w \in DOMAIN shown' => w \in DOMAIN shown /\ shown'[w] = shown[w]
      BY <1>3, <2>2
    <3> QED BY <1>4, <1>6, <2>2, <3>1 DEF AgvInv
  <2> QED BY <2>1, <2>2
<1> QED BY <1>6, <1>7, <1>8 DEF AgvInv

LEMMA ClearedKeeps == AgvInit => AgvInv
<1> SUFFICES ASSUME AgvInit PROVE AgvInv
  OBVIOUS
<1>1. << >> \in Seq(Point) /\ << >> \in Seq(Order) /\ Len(<< >>) = 0
  OBVIOUS
<1>2. MaxPoints \in Nat /\ MaxControlQueue \in Nat /\ MaxDistances \in Nat
  BY AgvAssumption
<1>3. AgvTypeOK
  BY <1>1, <1>2 DEF AgvInit, AgvTypeOK, Level
<1>4. \A v \in Vehicles : OrdersTell(queue, level[v], v) /\ Heeds(points[v], level[v])
  BY <1>1 DEF AgvInit, OrdersTell, Heeds
<1>5. Alternating(queue) /\ DOMAIN shown = {}
  BY <1>1 DEF AgvInit, Alternating
<1> QED BY <1>3, <1>4, <1>5 DEF AgvInit, AgvInv

\* Whatever distances, orders and stamps the guard gets, its levels and its
\* list keep AgvInv.
THEOREM AgvInvHolds == AgvSpec => []AgvInv
<1>1. AgvInit => AgvInv
  BY ClearedKeeps
<1>2. AgvInv /\ [AgvNext]_agvVars => AgvInv'
  <2> SUFFICES ASSUME AgvInv, [AgvNext]_agvVars PROVE AgvInv'
    OBVIOUS
  <2>1. CASE ResetGuard
    <3>1. AgvInit'
      BY <2>1 DEF ResetGuard, AgvInit
    <3>2. (AgvInit => AgvInv)'
      BY ClearedKeeps, PTL
    <3> QED BY <3>1, <3>2
  <2>2. CASE UNCHANGED agvVars
    BY <2>2 DEF agvVars, AgvInv, AgvTypeOK
  <2> QED BY <2>1, <2>2, PushDistanceKeeps DEF AgvNext
<1> QED BY <1>1, <1>2, PTL DEF AgvSpec

\* What a step that lets a vehicle go has seen.
ResumeStep ==
    \A v \in Vehicles :
        level[v] # "clear" /\ level'[v] = "clear" /\ points'[v] # << >> =>
            LET last == points'[v][Len(points'[v])]
                c == Closing(points'[v])
            IN /\ last.distance >= ClearDistance
               /\ ~CannotBrake(last.distance, c) /\ ~ImpactSoon(last.distance, c)

LEMMA StepsResumeClear == ASSUME AgvInv, [AgvNext]_agvVars PROVE ResumeStep
<1>1. CASE UNCHANGED agvVars
  BY <1>1 DEF agvVars, ResumeStep
<1>2. CASE ResetGuard
  BY <1>2 DEF ResetGuard, ResumeStep
<1>3. ASSUME NEW v \in Vehicles, NEW d \in Distances, NEW t \in 0..MaxStamp, PushDistance(v, d, t)
      PROVE  ResumeStep
  <2>1. \A w \in Vehicles : w # v => level'[w] = level[w]
    BY <1>3, MeasuredWell DEF AgvInv, AgvTypeOK
  <2>2. level[v] # "clear" /\ level'[v] = "clear" =>
           LET last == points'[v][Len(points'[v])]
               c == Closing(points'[v])
           IN last.distance >= ClearDistance /\ ~CannotBrake(last.distance, c)
              /\ ~ImpactSoon(last.distance, c)
    BY <1>3, MeasuredWell
  <2> QED BY <2>1, <2>2 DEF ResumeStep
<1> QED BY <1>1, <1>2, <1>3 DEF AgvNext

\* For any vehicles, windows and limits: whoever obeys the newest order of the
\* list is at the level the guard has, which stops it in time; no order is
\* repeated, and it is let go only when the way is clear by the larger distance.
THEOREM VehicleObeysDistanceHolds == AgvSpec => VehicleObeysDistance
<1>1. AgvInv => AgvTypeOK /\ NewestOrderIsLevel /\ NoOrderTwice /\ UnsafeIsStopped
  <2> SUFFICES ASSUME AgvInv PROVE AgvTypeOK /\ NewestOrderIsLevel /\ NoOrderTwice /\ UnsafeIsStopped
    OBVIOUS
  <2>1. AgvTypeOK /\ DOMAIN queue = 1..Len(queue) /\ Len(queue) \in Nat
    BY DEF AgvInv, AgvTypeOK
  <2>2. ASSUME NEW v \in Vehicles
        PROVE  IF OrdersFor(v) = {} THEN level[v] = "clear" \/ Len(queue) = MaxControlQueue
               ELSE LET foremost == CHOOSE i \in OrdersFor(v) : \A j \in OrdersFor(v) : i <= j
                    IN queue[foremost].action = Action(level[v])
    <3>1. \A i : i \in OrdersFor(v) <=> i \in 1..Len(queue) /\ queue[i].vehicle = v
      BY <2>1 DEF OrdersFor
    <3>2. OrdersTell(queue, level[v], v)
      BY DEF AgvInv
    <3>3. CASE OrdersFor(v) = {}
      BY <3>1, <3>2, <3>3 DEF OrdersTell
    <3>4. CASE OrdersFor(v) # {}
      <4>1. PICK i \in 1..Len(queue) :
                /\ queue[i].vehicle = v /\ queue[i].action = Action(level[v])
                /\ \A j \in 1..Len(queue) : queue[j].vehicle = v => i <= j
        BY <3>1, <3>2, <3>4 DEF OrdersTell
      <4>2. i \in OrdersFor(v) /\ \A j \in OrdersFor(v) : i <= j /\ j \in Int
        BY <2>1, <3>1, <4>1
      <4> DEFINE foremost == CHOOSE k \in OrdersFor(v) : \A j \in OrdersFor(v) : k <= j
      <4>3. foremost \in OrdersFor(v) /\ \A j \in OrdersFor(v) : foremost <= j
        BY <4>2
      <4> HIDE DEF foremost
      <4>4. foremost <= i /\ i <= foremost /\ foremost \in Int /\ i \in Int
        BY <4>2, <4>3
      <4>5. foremost = i
        BY <4>4
      <4>6. queue[foremost].action = Action(level[v])
        BY <4>1, <4>5
      <4> QED BY <3>4, <4>6 DEF foremost
    <3> QED BY <3>3, <3>4
  <2>3. NewestOrderIsLevel
    BY <2>2 DEF AgvInv, NewestOrderIsLevel
  <2>4. NoOrderTwice
    BY <2>1 DEF AgvInv, NoOrderTwice, Alternating
  <2>5. UnsafeIsStopped
    BY DEF AgvInv, UnsafeIsStopped, Heeds
  <2> QED BY <2>1, <2>3, <2>4, <2>5
<1>2. AgvInv /\ [AgvNext]_agvVars => [ResumeStep]_agvVars
  BY StepsResumeClear
<1>3. AgvSpec => [][ResumeStep]_agvVars
  BY <1>2, AgvInvHolds, PTL DEF AgvSpec
<1>4. ResumeStep <=>
         \A v \in Vehicles :
             /\ level[v] # "clear" /\ level'[v] = "clear" /\ points'[v] # <<>>
             => LET last == points'[v][Len(points'[v])]
                    c == Closing(points'[v])
                IN /\ last.distance >= ClearDistance
                   /\ ~CannotBrake(last.distance, c) /\ ~ImpactSoon(last.distance, c)
  BY DEF ResumeStep
<1> QED BY <1>1, <1>3, <1>4, AgvInvHolds, PTL DEF VehicleObeysDistance, ResumedIsClear

---------------------------------------------------------------------------
(***************************************************************************)
(* Fault predictions                                                       *)
(***************************************************************************)

\* An entry is of the newest batch, one of whose values was below, and there are
\* no more readings in a window than came since the reset.
PredictionInv ==
    /\ clock \in 0..MaxClock
    /\ samples \in [Sensors -> Seq(Stamp)]
    /\ table \in [Sensors -> [at : Stamp \cup {-1}, number : 0..1]]
    /\ newest \in [Sensors -> [at : Stamp \cup {-1}, number : 0..1, values : Batch \cup {<< >>}]]
    /\ since \in [Sensors -> 0..MinPoints]
    /\ \A s \in Sensors :
          /\ Len(samples[s]) <= MaxSamples
          /\ Len(samples[s]) <= since[s] \/ since[s] = MinPoints
          /\ table[s] # Nothing =>
                /\ table[s].at = newest[s].at /\ table[s].number = newest[s].number
                /\ \E i \in DOMAIN newest[s].values : newest[s].values[i] = "below"
                /\ since[s] = MinPoints

LEMMA KeepLastBounds ==
    ASSUME NEW w \in Seq(Stamp), Len(w) <= MaxSamples, NEW t \in Stamp
    PROVE  /\ KeepLast(Append(w, t)) \in Seq(Stamp)
           /\ Len(KeepLast(Append(w, t))) <= MaxSamples
           /\ Len(KeepLast(Append(w, t))) <= Len(w) + 1
<1>1. MaxSamples \in Nat
  BY PredictionAssumption
<1> DEFINE u == Append(w, t)
<1>2. u \in Seq(Stamp) /\ Len(u) = Len(w) + 1 /\ Len(w) \in Nat
  OBVIOUS
<1> HIDE DEF u
<1>3. CASE Len(u) > MaxSamples
  <2>1. u # << >> /\ Tail(u) \in Seq(Stamp) /\ Len(Tail(u)) = Len(u) - 1
    BY <1>1, <1>2, <1>3
  <2> QED BY <1>1, <1>2, <1>3, <2>1 DEF KeepLast, u
<1>4. CASE ~(Len(u) > MaxSamples)
  BY <1>1, <1>2, <1>4 DEF KeepLast, u
<1> QED BY <1>3, <1>4

\* The windows that a batch walks through.
LEMMA WindowsBounds ==
    ASSUME NEW w \in Seq(Stamp), Len(w) <= MaxSamples, NEW t \in Stamp, NEW batch \in Batch
    PROVE  LET walk == Windows(w, batch, t) IN
           /\ Len(batch) \in {1, 2} /\ DOMAIN batch = 1..Len(batch) /\ Len(walk) = Len(batch)
           /\ \A i \in 1..Len(batch) :
                 /\ walk[i] \in Seq(Stamp) /\ Len(walk[i]) <= MaxSamples
                 /\ Len(walk[i]) <= Len(w) + Len(batch)
<1> DEFINE u == KeepLast(Append(w, t))
           v == KeepLast(Append(u, t))
           walk == Windows(w, batch, t)
<1>1. Len(w) \in Nat /\ MaxSamples \in Nat
  BY PredictionAssumption
<1>2. u \in Seq(Stamp) /\ Len(u) <= MaxSamples /\ Len(u) <= Len(w) + 1
  BY KeepLastBounds
<1>3. v \in Seq(Stamp) /\ Len(v) <= MaxSamples /\ Len(v) <= Len(u) + 1
  BY <1>2, KeepLastBounds
<1>4. Len(u) \in Nat /\ Len(v) \in Nat
  BY <1>2, <1>3
<1>5. Len(batch) \in {1, 2} /\ DOMAIN batch = 1..Len(batch)
  BY DEF Batch
<1>6. walk = IF Len(batch) = 1 THEN <<u>> ELSE <<u, v>>
  BY DEF Windows
<1> HIDE DEF u, v, walk
<1>7. CASE Len(batch) = 1
  BY <1>1, <1>2, <1>4, <1>5, <1>6, <1>7 DEF walk
<1>8. CASE Len(batch) = 2
  BY <1>1, <1>2, <1>3, <1>4, <1>5, <1>6, <1>8 DEF walk
<1> QED BY <1>5, <1>7, <1>8

LEMMA PushKeeps ==
    ASSUME PredictionInv, NEW s \in Sensors, NEW t \in Stamp, NEW batch \in Batch,
           NEW trends \in [DOMAIN batch -> {"towards", "away", "none"}],
           Push(s, t, batch, trends)
    PROVE  PredictionInv'
<1> DEFINE walk == Windows(samples[s], batch, t)
           predicted == \E i \in DOMAIN batch : Predicts(walk[i], batch[i], trends[i])
           entry == IF predicted THEN [at |-> t, number |-> 1 - newest[s].number] ELSE Nothing
           batchOf == [at |-> t, number |-> 1 - newest[s].number, values |-> batch]
           known == IF since[s] + Len(batch) > MinPoints THEN MinPoints ELSE since[s] + Len(batch)
<1>1. /\ samples[s] \in Seq(Stamp) /\ Len(samples[s]) <= MaxSamples
      /\ since[s] \in 0..MinPoints /\ newest[s].number \in 0..1
      /\ Len(samples[s]) <= since[s] \/ since[s] = MinPoints
      /\ MinPoints \in Nat \ {0}
  BY PredictionAssumption DEF PredictionInv
<1>2. /\ Len(batch) \in {1, 2} /\ DOMAIN batch = 1..Len(batch) /\ Len(walk) = Len(batch)
      /\ \A i \in 1..Len(batch) :
            /\ walk[i] \in Seq(Stamp) /\ Len(walk[i]) <= MaxSamples
            /\ Len(walk[i]) <= Len(samples[s]) + Len(batch)
  BY <1>1, WindowsBounds
<1>3. /\ samples' = [samples EXCEPT ![s] = walk[Len(walk)]]
      /\ table' = [table EXCEPT ![s] = entry]
      /\ newest' = [newest EXCEPT ![s] = batchOf]
      /\ since' = [since EXCEPT ![s] = known]
      /\ clock' = clock
  BY DEF Push
<1>4. /\ walk[Len(walk)] \in Seq(Stamp) /\ Len(walk[Len(walk)]) <= MaxSamples
      /\ Len(walk[Len(walk)]) <= Len(samples[s]) + Len(batch)
  BY <1>2
<1>5. Len(samples[s]) \in Nat
  BY <1>1
<1>6. known \in 0..MinPoints /\ (Len(walk[Len(walk)]) <= known \/ known = MinPoints)
  <2>1. Len(walk[Len(walk)]) \in Nat
    BY <1>4
  <2> QED BY <1>1, <1>2, <1>4, <1>5, <2>1, SMTT(20)
<1>7. predicted => known = MinPoints /\ \E i \in DOMAIN batch : batch[i] = "below"
  <2> SUFFICES ASSUME NEW i \in DOMAIN batch, Predicts(walk[i], batch[i], trends[i])
               PROVE  known = MinPoints /\ batch[i] = "below"
    OBVIOUS
  <2>1. batch[i] = "below" /\ Len(walk[i]) >= MinPoints
    BY DEF Predicts
  <2>2. Len(walk[i]) \in Nat /\ Len(walk[i]) <= Len(samples[s]) + Len(batch)
    BY <1>2
  <2>3. since[s] + Len(batch) >= MinPoints \/ since[s] = MinPoints
    BY <1>1, <1>2, <1>5, <2>1, <2>2
  <2>4. Len(batch) \in Nat \ {0} /\ since[s] \in Nat /\ MinPoints \in Nat
    BY <1>1, <1>2
  <2>5. known = MinPoints
    BY <2>3, <2>4
  <2> QED BY <2>1, <2>5
<1>8. /\ entry \in [at : Stamp \cup {-1}, number : 0..1]
      /\ batchOf \in [at : Stamp \cup {-1}, number : 0..1, values : Batch \cup {<< >>}]
      /\ entry # Nothing => predicted /\ entry.at = batchOf.at /\ entry.number = batchOf.number
      /\ batchOf.values = batch
  <2>1. 1 - newest[s].number \in 0..1 /\ 0 \in 0..1
    BY <1>1
  <2> HIDE DEF predicted
  <2> QED BY <2>1 DEF Nothing
<1> HIDE DEF walk, predicted, entry, batchOf, known
<1>9. /\ samples' \in [Sensors -> Seq(Stamp)] /\ since' \in [Sensors -> 0..MinPoints]
      /\ table' \in [Sensors -> [at : Stamp \cup {-1}, number : 0..1]]
      /\ newest' \in [Sensors -> [at : Stamp \cup {-1}, number : 0..1,
                                  values : Batch \cup {<< >>}]]
  BY <1>3, <1>4, <1>6, <1>8 DEF PredictionInv
<1>10. ASSUME NEW q \in Sensors
       PROVE  /\ Len(samples'[q]) <= MaxSamples
              /\ Len(samples'[q]) <= since'[q] \/ since'[q] = MinPoints
              /\ table'[q] # Nothing =>
                    /\ table'[q].at = newest'[q].at /\ table'[q].number = newest'[q].number
                    /\ \E i \in DOMAIN newest'[q].values : newest'[q].values[i] = "below"
                    /\ since'[q] = MinPoints
  <2>1. CASE q = s
    <3>1. /\ samples'[s] = walk[Len(walk)] /\ table'[s] = entry /\ newest'[s] = batchOf
          /\ since'[s] = known
      BY <1>3 DEF PredictionInv
    <3> QED BY <1>4, <1>6, <1>7, <1>8, <2>1, <3>1
  <2>2. CASE q # s
    <3>1. /\ samples'[q] = samples[q] /\ table'[q] = table[q] /\ newest'[q] = newest[q]
          /\ since'[q] = since[q]
      BY <1>3, <2>2 DEF PredictionInv
    <3> QED BY <3>1 DEF PredictionInv
  <2> QED BY <2>1, <2>2
<1> QED BY <1>3, <1>9, <1>10 DEF PredictionInv

LEMMA PredictionConstants ==
    /\ MinPoints \in Nat \ {0} /\ MaxSamples \in Nat /\ MaxClock \in Nat
    /\ [s \in Sensors |-> << >>] \in [Sensors -> Seq(Stamp)]
    /\ [s \in Sensors |-> Nothing] \in [Sensors -> [at : Stamp \cup {-1}, number : 0..1]]
    /\ [s \in Sensors |-> NoBatch] \in
          [Sensors -> [at : Stamp \cup {-1}, number : 0..1, values : Batch \cup {<< >>}]]
    /\ [s \in Sensors |-> 0] \in [Sensors -> 0..MinPoints]
<1>1. MinPoints \in Nat \ {0} /\ MaxSamples \in Nat /\ MaxClock \in Nat
  BY PredictionAssumption
<1>2. [s \in Sensors |-> << >>] \in [Sensors -> Seq(Stamp)]
  OBVIOUS
<1>3. [s \in Sensors |-> 0] \in [Sensors -> 0..MinPoints]
  BY <1>1
<1>4. /\ Nothing \in [at : Stamp \cup {-1}, number : 0..1]
      /\ NoBatch \in [at : Stamp \cup {-1}, number : 0..1, values : Batch \cup {<< >>}]
  BY DEF Nothing, NoBatch
<1> QED BY <1>1, <1>2, <1>3, <1>4

LEMMA OthersKeepPredictions ==
    ASSUME PredictionInv, ResetPredictions \/ ClockTick \/ UNCHANGED predictionVars
    PROVE  PredictionInv'
<1>1. CASE ResetPredictions
  <2>1. /\ samples' = [s \in Sensors |-> << >>] /\ table' = [s \in Sensors |-> Nothing]
        /\ since' = [s \in Sensors |-> 0] /\ UNCHANGED <<clock, newest>>
    BY <1>1 DEF ResetPredictions
  <2>2. \A s \in Sensors : Len(samples'[s]) = 0 /\ table'[s] = Nothing /\ since'[s] = 0
    BY <2>1
  <2> QED BY <2>1, <2>2, PredictionConstants DEF PredictionInv
<1>2. CASE ClockTick
  <2>1. clock' \in 0..MaxClock /\ UNCHANGED <<samples, table, newest, since>>
    BY <1>2, PredictionConstants DEF ClockTick, PredictionInv
  <2> QED BY <2>1 DEF PredictionInv
<1>3. CASE UNCHANGED predictionVars
  BY <1>3 DEF predictionVars, PredictionInv
<1> QED BY <1>1, <1>2, <1>3

\* Whatever batches come, and however late, the windows and the list of
\* predictions keep PredictionInv.
THEOREM PredictionInvHolds == PredictionSpec => []PredictionInv
<1>1. PredictionInit => PredictionInv
  <2> SUFFICES ASSUME PredictionInit PROVE PredictionInv
    OBVIOUS
  <2>1. \A s \in Sensors : Len(samples[s]) = 0 /\ table[s] = Nothing /\ since[s] = 0
    BY DEF PredictionInit
  <2>2. clock \in 0..MaxClock
    BY PredictionConstants DEF PredictionInit
  <2> QED BY <2>1, <2>2, PredictionConstants DEF PredictionInit, PredictionInv
<1>2. PredictionInv /\ [PredictionNext]_predictionVars => PredictionInv'
  BY PushKeeps, OthersKeepPredictions DEF PredictionNext
<1> QED BY <1>1, <1>2, PTL DEF PredictionSpec

\* Whatever batches of readings arrive, early or late, and whenever the
\* analytics are reset: a prediction that the endpoint lists was made of the
\* newest batch of its series, one of whose values was below the threshold, it
\* is within its time to live, and a full window came in since the last reset.
THEOREM PredictionsAreCurrentHolds == PredictionSpec => []PredictionsAreCurrent
<1>1. PredictionInv => PredictionsAreCurrent
  <2> SUFFICES ASSUME PredictionInv PROVE PredictionsAreCurrent
    OBVIOUS
  <2>1. PredictionTypeOK
    BY DEF PredictionInv, PredictionTypeOK
  <2>2. ListedIsNewest
    <3> SUFFICES ASSUME NEW s \in Listed
                 PROVE  /\ table[s].at = newest[s].at /\ table[s].number = newest[s].number
                        /\ \E i \in DOMAIN newest[s].values : newest[s].values[i] = "below"
                        /\ clock - table[s].at <= PredictionTTL
      BY DEF ListedIsNewest
    <3>1. s \in Sensors /\ table[s] # Nothing /\ table[s].at >= clock - PredictionTTL
      BY DEF Listed
    <3>2. table[s].at \in Int /\ clock \in Int /\ PredictionTTL \in Int
      <4>1. table[s].at \in Stamp \cup {-1} /\ clock \in 0..MaxClock
        BY <3>1 DEF PredictionInv
      <4> QED BY <4>1, PredictionAssumption DEF Stamp
    <3> QED BY <3>1, <3>2 DEF PredictionInv
  <2>3. ResetStartsOver
    BY PredictionConstants DEF PredictionInv, ResetStartsOver
  <2> QED BY <2>1, <2>2, <2>3 DEF PredictionsAreCurrent
<1> QED BY <1>1, PredictionInvHolds, PTL

---------------------------------------------------------------------------
(***************************************************************************)
(* Correlated anomalies                                                    *)
(***************************************************************************)

Alert == [id : AlertId, at : 0..MaxSecond, sources : SUBSET Anomaly, first : BOOLEAN]

\* What an alert rests on.
WellFounded(alert) ==
    /\ Cardinality(SensorsOf(alert.sources)) >= MinSources
    /\ alert.id.sensors = SensorsOf(alert.sources)
    /\ \A e \in alert.sources : e.at <= alert.at /\ alert.at - e.at <= CorrelationWindow
    /\ \A j \in DOMAIN Patterns :
          Patterns[j].name = alert.id.pattern => Patterns[j].required \subseteq Properties(alert.sources)

\* The anomalies of the last alert are still in the correlator's window while no
\* second passes: only a new one can raise an alert again.
WindowHolds(alert) ==
    alert.at = second =>
        /\ alert.sources \subseteq recent
        /\ \A e \in recent : e.at >= second - CorrelationWindow

CorrelationInv ==
    /\ second \in 0..MaxSecond /\ anomalies \in 0..MaxAnomalies
    /\ baseline \in [Streams -> 0..Baseline]
    /\ recent \subseteq Anomaly /\ \A e \in recent : e.at <= second
    /\ muted \subseteq AlertId /\ told = muted
    /\ history \in Seq(Alert) /\ Len(history) <= MaxHistory
    /\ \A i \in 1..Len(history) :
          history[i].first /\ history[i].at <= second /\ WellFounded(history[i])
    /\ history # << >> => WindowHolds(history[Len(history)])
    /\ \A id \in muted : \/ \E i \in 1..Len(history) : history[i].id = id
                         \/ id \in wiped \/ Len(history) = MaxHistory

LEMMA CorrelationConstants ==
    /\ CorrelationWindow \in Nat /\ Baseline \in Nat /\ MaxHistory \in Nat \ {0}
    /\ MaxSecond \in Nat /\ MaxAnomalies \in Nat
BY CorrelationAssumption

LEMMA PatternsAreNamed ==
    /\ DOMAIN Patterns = 1..5
    /\ \A i \in 1..5 : Patterns[i].name # "multi"
    /\ \A i, j \in 1..5 : Patterns[i].name = Patterns[j].name => i = j
<1>1. DOMAIN Patterns = 1..5
  BY DEF Patterns
<1>2. /\ Patterns[1].name = "fire_risk" /\ Patterns[2].name = "smouldering"
      /\ Patterns[3].name = "gas_accumulation" /\ Patterns[4].name = "unattended_hazard"
      /\ Patterns[5].name = "environment_stress"
  BY DEF Patterns
<1>3. \A i \in 1..5 : i = 1 \/ i = 2 \/ i = 3 \/ i = 4 \/ i = 5
  OBVIOUS
<1> QED BY <1>1, <1>2, <1>3

\* The pattern of an alert is the one of its name, and its properties are there.
LEMMA PatternIsMatched ==
    ASSUME NEW events
    PROVE  /\ PatternOf(events) \in {Patterns[i].name : i \in DOMAIN Patterns} \cup {"multi"}
           /\ \A j \in DOMAIN Patterns :
                 Patterns[j].name = PatternOf(events) => Patterns[j].required \subseteq Properties(events)
<1> DEFINE M == Matching(events)
           least == CHOOSE i \in M : \A j \in M : i <= j
<1>1. M \subseteq 1..5
  BY PatternsAreNamed DEF Matching
<1>2. CASE M = {}
  <2>1. PatternOf(events) = "multi"
    BY <1>2 DEF PatternOf
  <2> QED BY <2>1, PatternsAreNamed
<1>3. CASE M # {}
  <2>1. \E i \in M : \A j \in M : i <= j
    <3>1. \A j \in M : j = 1 \/ j = 2 \/ j = 3 \/ j = 4 \/ j = 5
      BY <1>1
    <3> HIDE DEF M
    <3>2. CASE 1 \in M
      BY <3>1, <3>2
    <3>3. CASE 1 \notin M /\ 2 \in M
      BY <3>1, <3>3
    <3>4. CASE 1 \notin M /\ 2 \notin M /\ 3 \in M
      BY <3>1, <3>4
    <3>5. CASE 1 \notin M /\ 2 \notin M /\ 3 \notin M /\ 4 \in M
      BY <3>1, <3>5
    <3>6. CASE 1 \notin M /\ 2 \notin M /\ 3 \notin M /\ 4 \notin M
      BY <1>3, <3>1, <3>6
    <3> QED BY <3>2, <3>3, <3>4, <3>5, <3>6
  <2>2. least \in M
    BY <2>1
  <2>3. PatternOf(events) = Patterns[least].name
    BY <1>3 DEF PatternOf
  <2> HIDE DEF least
  <2>4. least \in 1..5 /\ Patterns[least].required \subseteq Properties(events)
    BY <1>1, <2>2 DEF Matching
  <2> QED BY <2>3, <2>4, PatternsAreNamed
<1> QED BY <1>2, <1>3

\* The anomalies that are weighed with a new one.
LEMMA WindowIsKept ==
    ASSUME CorrelationInv, NEW s \in Streams,
           NEW events, events = Pruned(second) \cup {[stream |-> s, at |-> second]}
    PROVE  /\ events \subseteq Anomaly
           /\ \A e \in events : e.at <= second /\ e.at >= second - CorrelationWindow /\ e.at \in Nat
           /\ SensorsOf(events) \subseteq Sensor /\ IdOf(events) \in AlertId
<1> DEFINE new == [stream |-> s, at |-> second]
<1>1. second \in Nat /\ second <= MaxSecond /\ CorrelationWindow \in Nat /\ recent \subseteq Anomaly
      /\ \A e \in recent : e.at <= second
  BY CorrelationConstants DEF CorrelationInv
<1>2. new \in Anomaly /\ new.at = second
  BY <1>1, CorrelationConstants DEF Anomaly
<1> HIDE DEF new
<1>3. \A e \in Anomaly : e.stream \in Streams /\ e.at \in Nat
  BY CorrelationConstants DEF Anomaly
<1>4. events = {e \in recent : e.at >= second - CorrelationWindow} \cup {new}
  BY DEF Pruned, new
<1>5. events \subseteq Anomaly
  BY <1>1, <1>2, <1>4
<1>6. ASSUME NEW e \in events
      PROVE  e.at <= second /\ e.at >= second - CorrelationWindow /\ e.at \in Nat
  <2>1. CASE e = new
    BY <1>1, <1>2, <2>1
  <2>2. CASE e \in recent /\ e.at >= second - CorrelationWindow
    BY <1>1, <1>3, <2>2
  <2> QED BY <1>4, <2>1, <2>2
<1>7. SensorsOf(events) \subseteq Sensor
  BY <1>3, <1>5 DEF SensorsOf, Sensor
<1>8. IdOf(events) \in AlertId
  BY <1>7, PatternIsMatched DEF IdOf, AlertId
<1> QED BY <1>5, <1>6, <1>7, <1>8

\* The history with one alert more, the oldest of a full one gone.
Grown(h, a) == LastHistory(Append(h, a))

GrownWell(g, h, a) ==
    /\ g \in Seq(Alert) /\ Len(g) <= MaxHistory /\ g # << >> /\ g[Len(g)] = a
    /\ \A i \in 1..Len(g) : g[i] = a \/ \E j \in 1..Len(h) : g[i] = h[j]
    /\ Len(g) = MaxHistory \/ \A j \in 1..Len(h) : \E i \in 1..Len(g) : g[i] = h[j]
    /\ g = h => h # << >> /\ h[Len(h)] = a

LEMMA HistoryGrows ==
    ASSUME NEW h \in Seq(Alert), Len(h) <= MaxHistory, NEW a \in Alert
    PROVE  GrownWell(Grown(h, a), h, a)
<1> DEFINE k == Len(h)
           u == Append(h, a)
           g == Grown(h, a)
<1>1. /\ k \in Nat /\ u \in Seq(Alert) /\ Len(u) = k + 1 /\ u[k + 1] = a
      /\ \A i \in 1..k : u[i] = h[i]
  OBVIOUS
<1>2. MaxHistory \in Nat \ {0} /\ k <= MaxHistory
  BY CorrelationConstants
<1>5. g = LastHistory(u)
  BY DEF Grown
<1> HIDE DEF u, g
<1>3. ASSUME k + 1 > MaxHistory PROVE GrownWell(g, h, a)
  <2>1. g = Tail(u) /\ k = MaxHistory
    BY <1>1, <1>2, <1>3, <1>5 DEF LastHistory
  <2>2. /\ g \in Seq(Alert) /\ Len(g) = k /\ k \in 1..k
        /\ \A i \in 1..k : g[i] = u[i + 1] /\ i + 1 \in 1..k + 1
    BY <1>1, <1>2, <2>1
  <2>3. g[Len(g)] = a
    BY <1>1, <2>2
  <2>4. \A i \in 1..Len(g) : g[i] = a \/ \E j \in 1..k : g[i] = h[j]
    <3> SUFFICES ASSUME NEW i \in 1..k PROVE g[i] = a \/ \E j \in 1..k : g[i] = h[j]
      BY <2>2
    <3>1. CASE i = k
      BY <1>1, <2>2, <3>1
    <3>2. CASE i # k
      <4>1. i + 1 \in 1..k
        BY <1>1, <3>2
      <4>2. g[i] = h[i + 1]
        BY <1>1, <2>2, <4>1
      <4> QED BY <4>1, <4>2
    <3> QED BY <3>1, <3>2
  <2> QED BY <1>1, <1>2, <2>1, <2>2, <2>3, <2>4 DEF GrownWell
<1>4. ASSUME ~(k + 1 > MaxHistory) PROVE GrownWell(g, h, a)
  <2>1. g = u
    BY <1>1, <1>4, <1>5 DEF LastHistory
  <2>2. Len(g) = k + 1 /\ g[Len(g)] = a /\ g \in Seq(Alert) /\ g # << >> /\ g # h
    BY <1>1, <2>1
  <2>3. \A i \in 1..k + 1 : i = k + 1 \/ i \in 1..k
    BY <1>1
  <2>4. \A j \in 1..k : j \in 1..k + 1 /\ g[j] = h[j]
    BY <1>1, <2>1
  <2> QED BY <1>1, <1>2, <1>4, <2>1, <2>2, <2>3, <2>4 DEF GrownWell
<1> QED BY <1>3, <1>4 DEF g

LEMMA CorrelationPushKeeps ==
    ASSUME CorrelationInv, NEW s \in Streams, PushAnomaly(s), UNCHANGED second,
           baseline' \in [Streams -> 0..Baseline]
    PROVE  CorrelationInv'
<1> DEFINE events == Pruned(second) \cup {[stream |-> s, at |-> second]}
           id == IdOf(events)
           a == [id |-> id, at |-> second, sources |-> events, first |-> id \notin told]
<1>1. /\ anomalies < MaxAnomalies /\ anomalies' = anomalies + 1 /\ recent' = events
      /\ Correlates(events) /\ id \notin muted =>
            /\ muted' = muted \cup {id} /\ history' = LastHistory(Append(history, a))
            /\ told' = told \cup {id} /\ wiped' = wiped \ {id}
      /\ ~(Correlates(events) /\ id \notin muted) => UNCHANGED <<muted, history, told, wiped>>
  BY DEF PushAnomaly, Muted
<1>2. /\ events \subseteq Anomaly
      /\ \A e \in events : e.at <= second /\ e.at >= second - CorrelationWindow /\ e.at \in Nat
      /\ id \in AlertId
  BY WindowIsKept
<1>3. /\ second \in 0..MaxSecond /\ second \in Nat /\ CorrelationWindow \in Nat
      /\ anomalies' \in 0..MaxAnomalies
  BY <1>1, CorrelationConstants DEF CorrelationInv
<1>4. \A e \in recent : e.at >= second - CorrelationWindow => e \in events
  BY DEF Pruned
<1> HIDE DEF events
<1>5. CASE ~(Correlates(events) /\ id \notin muted)
  <2>1. UNCHANGED <<muted, history, told, wiped>>
    BY <1>1, <1>5
  <2>2. history # << >> => WindowHolds(history[Len(history)])'
    BY <1>1, <1>2, <1>4, <2>1 DEF CorrelationInv, WindowHolds
  <2> QED BY <1>1, <1>2, <1>3, <2>1, <2>2 DEF CorrelationInv
<1>6. CASE Correlates(events) /\ id \notin muted
  <2>1. /\ muted' = muted \cup {id} /\ history' = LastHistory(Append(history, a))
        /\ told' = told \cup {id} /\ wiped' = wiped \ {id}
    BY <1>1, <1>6
  <2>2. a \in Alert /\ a.id = id /\ a.at = second /\ a.sources = events /\ a.first = TRUE
    <3>1. (id \notin told) = TRUE
      BY <1>6 DEF CorrelationInv
    <3> QED BY <1>2, <1>3, <3>1 DEF Alert
  <2> HIDE DEF a
  <2>3. WellFounded(a)
    <3>1. Cardinality(SensorsOf(events)) >= MinSources
      BY <1>6 DEF Correlates
    <3>2. id.sensors = SensorsOf(events) /\ id.pattern = PatternOf(events)
      BY DEF IdOf
    <3>3. \A e \in events : e.at <= second /\ second - e.at <= CorrelationWindow
      BY <1>2, <1>3
    <3>4. \A j \in DOMAIN Patterns :
             Patterns[j].name = id.pattern => Patterns[j].required \subseteq Properties(events)
      BY <3>2, PatternIsMatched
    <3> HIDE DEF id
    <3> QED BY <2>2, <3>1, <3>2, <3>3, <3>4 DEF WellFounded
  <2>4. history \in Seq(Alert) /\ Len(history) <= MaxHistory
    BY DEF CorrelationInv
  <2>5. /\ history' \in Seq(Alert) /\ Len(history') <= MaxHistory
        /\ history' # << >> /\ history'[Len(history')] = a
        /\ \A i \in 1..Len(history') : history'[i] = a \/ \E j \in 1..Len(history) : history'[i] = history[j]
        /\ Len(history') = MaxHistory
           \/ \A j \in 1..Len(history) : \E i \in 1..Len(history') : history'[i] = history[j]
    <3>1. history' = Grown(history, a)
      BY <2>1 DEF Grown
    <3>2. GrownWell(Grown(history, a), history, a)
      BY <2>2, <2>4, HistoryGrows
    <3>3. GrownWell(history', history, a)
      BY <3>1, <3>2
    <3> QED BY <3>3 DEF GrownWell
  <2>6. ASSUME NEW i \in 1..Len(history')
        PROVE  history'[i].first /\ history'[i].at <= second /\ WellFounded(history'[i])
    <3>1. CASE history'[i] = a
      BY <1>3, <2>2, <2>3, <3>1
    <3>2. CASE \E j \in 1..Len(history) : history'[i] = history[j]
      BY <3>2 DEF CorrelationInv
    <3> QED BY <2>5, <3>1, <3>2
  <2>7. ASSUME NEW x \in muted'
        PROVE  \/ \E i \in 1..Len(history') : history'[i].id = x
               \/ x \in wiped' \/ Len(history') = MaxHistory
    <3>1. CASE x = id
      <4>1. Len(history') \in 1..Len(history')
        BY <2>5
      <4> QED BY <2>2, <2>5, <3>1, <4>1
    <3>2. CASE x \in muted /\ x # id
      <4>1. \/ \E i \in 1..Len(history) : history[i].id = x
            \/ x \in wiped \/ Len(history) = MaxHistory
        BY <3>2 DEF CorrelationInv
      <4>2. CASE Len(history) = MaxHistory
        <5>1. Len(Append(history, a)) > MaxHistory /\ Len(Tail(Append(history, a))) = MaxHistory
          BY <2>2, <2>4, <4>2, CorrelationConstants
        <5> QED BY <2>1, <5>1 DEF LastHistory
      <4>3. CASE x \in wiped
        BY <2>1, <3>2, <4>3
      <4>4. CASE \E i \in 1..Len(history) : history[i].id = x
        BY <2>5, <4>4
      <4> QED BY <4>1, <4>2, <4>3, <4>4
    <3> QED BY <2>1, <3>1, <3>2
  <2>8. WindowHolds(history[Len(history)])'
    BY <1>1, <1>2, <2>2, <2>5 DEF WindowHolds
  <2>9. muted' \subseteq AlertId /\ told' = muted'
    BY <1>2, <2>1 DEF CorrelationInv
  <2> QED BY <1>1, <1>2, <1>3, <2>5, <2>6, <2>7, <2>8, <2>9 DEF CorrelationInv
<1> QED BY <1>5, <1>6

LEMMA DetectKeeps ==
    ASSUME CorrelationInv, NEW s \in Streams, NEW outside, NEW anomalous, Detect(s, outside, anomalous)
    PROVE  CorrelationInv'
<1>1. second' = second /\ baseline' \in [Streams -> 0..Baseline]
  <2>1. /\ baseline \in [Streams -> 0..Baseline] /\ Baseline \in Nat
        /\ baseline' = [baseline EXCEPT ![s] = IF @ < Baseline THEN @ + 1 ELSE @]
        /\ second' = second
    BY CorrelationConstants DEF Detect, CorrelationInv
  <2>2. (IF baseline[s] < Baseline THEN baseline[s] + 1 ELSE baseline[s]) \in 0..Baseline
    BY <2>1
  <2> QED BY <2>1, <2>2
<1>2. CASE PushAnomaly(s)
  BY <1>1, <1>2, CorrelationPushKeeps
<1>3. CASE UNCHANGED <<recent, muted, history, told, wiped, anomalies>>
  BY <1>1, <1>3 DEF CorrelationInv, WindowHolds
<1> QED BY <1>2, <1>3 DEF Detect

LEMMA OthersKeep ==
    ASSUME CorrelationInv,
           PendingAnomalies \/ (\E id \in muted : Acknowledge(id)) \/ ResetDetector \/ SecondPasses
    PROVE  CorrelationInv'
<1>0. /\ second \in Nat /\ second <= MaxSecond /\ \A e \in recent : e.at \in Nat /\ e.at <= second
      /\ history \in Seq(Alert) /\ Len(history) \in Nat
      /\ \A i \in 1..Len(history) : history[i].at \in Nat
  <2>1. recent \subseteq Anomaly /\ second \in 0..MaxSecond /\ \A e \in recent : e.at <= second
    BY DEF CorrelationInv
  <2>2. \A e \in Anomaly : e.at \in Nat
    BY CorrelationConstants DEF Anomaly
  <2>3. history \in Seq(Alert) /\ Len(history) \in Nat
    BY DEF CorrelationInv
  <2>4. \A x \in Alert : x.at \in Nat
    BY CorrelationConstants DEF Alert
  <2>5. \A i \in 1..Len(history) : history[i] \in Alert
    BY <2>3
  <2> QED BY <2>1, <2>2, <2>3, <2>4, <2>5, CorrelationConstants
<1>1. CASE PendingAnomalies
  <2>1. /\ recent' = {e \in recent : e.at >= second - CorrelationWindow}
        /\ UNCHANGED <<second, baseline, muted, history, told, wiped, anomalies>>
    BY <1>1 DEF PendingAnomalies, Pruned
  <2>2. history # << >> => WindowHolds(history[Len(history)])'
    BY <2>1 DEF CorrelationInv, WindowHolds
  <2> QED BY <2>1, <2>2 DEF CorrelationInv
<1>2. ASSUME NEW id \in muted, Acknowledge(id) PROVE CorrelationInv'
  <2>1. /\ muted' = muted \ {id} /\ told' = told \ {id}
        /\ UNCHANGED <<second, baseline, recent, history, wiped, anomalies>>
    BY <1>2 DEF Acknowledge, Unmuted
  <2>2. history # << >> => WindowHolds(history[Len(history)])'
    BY <2>1 DEF CorrelationInv, WindowHolds
  <2> QED BY <2>1, <2>2 DEF CorrelationInv
<1>3. CASE ResetDetector
  <2>1. /\ baseline' = [s \in Streams |-> 0] /\ history' = << >> /\ wiped' = wiped \cup muted
        /\ UNCHANGED <<second, recent, muted, told, anomalies>>
    BY <1>3 DEF ResetDetector
  <2>2. history' \in Seq(Alert) /\ Len(history') = 0 /\ baseline' \in [Streams -> 0..Baseline]
    BY <2>1, CorrelationConstants
  <2> QED BY <2>1, <2>2, CorrelationConstants DEF CorrelationInv
<1>4. CASE SecondPasses
  <2>1. /\ second < MaxSecond /\ second' = second + 1
        /\ UNCHANGED <<baseline, recent, muted, history, told, wiped, anomalies>>
    BY <1>4 DEF SecondPasses
  <2>2. second' \in 0..MaxSecond /\ \A e \in recent : e.at <= second'
    BY <1>0, <2>1, CorrelationConstants
  <2>3. \A i \in 1..Len(history) : history[i].at <= second
    BY DEF CorrelationInv
  <2>4. \A i \in 1..Len(history) : history[i].at < second'
    BY <1>0, <2>1, <2>3
  <2>5. history # << >> => WindowHolds(history[Len(history)])'
    <3> SUFFICES ASSUME history # << >> PROVE history[Len(history)].at # second'
      BY <2>1 DEF WindowHolds
    <3>1. Len(history) \in 1..Len(history)
      BY <1>0
    <3> QED BY <1>0, <2>1, <2>4, <3>1
  <2>6. \A i \in 1..Len(history) : history[i].at <= second'
    BY <1>0, <2>1, <2>4
  <2> QED BY <2>1, <2>2, <2>5, <2>6 DEF CorrelationInv
<1> QED BY <1>1, <1>2, <1>3, <1>4

LEMMA CorrelationStutters == ASSUME CorrelationInv, UNCHANGED correlationVars PROVE CorrelationInv'
BY DEF correlationVars, CorrelationInv, WindowHolds

\* Through all anomalies, acknowledgements and evictions, alerts and window
\* keep CorrelationInv.
THEOREM CorrelationInvHolds == CorrelationSpec => []CorrelationInv
<1>1. CorrelationInit => CorrelationInv
  <2> SUFFICES ASSUME CorrelationInit PROVE CorrelationInv
    OBVIOUS
  <2>1. history \in Seq(Alert) /\ Len(history) = 0 /\ history = << >>
    BY DEF CorrelationInit
  <2> QED BY <2>1, CorrelationConstants DEF CorrelationInit, CorrelationInv
<1>2. CorrelationInv /\ [CorrelationNext]_correlationVars => CorrelationInv'
  BY CorrelationStutters, DetectKeeps, OthersKeep DEF CorrelationNext
<1> QED BY <1>1, <1>2, PTL DEF CorrelationSpec

\* A step in which sensors whose alert is not mute go wrong again tells of it.
ToldAgain ==
    \A id \in AlertId \ told :
        recent' # recent /\ Correlates(recent') /\ IdOf(recent') = id /\ anomalies' > anomalies =>
        history' # history

LEMMA StepsTellAgain == ASSUME CorrelationInv, [CorrelationNext]_correlationVars PROVE ToldAgain
<1> SUFFICES ASSUME NEW id \in AlertId \ told, recent' # recent, Correlates(recent'),
                    IdOf(recent') = id, anomalies' > anomalies, history' = history
             PROVE  FALSE
  BY DEF ToldAgain
<1>1. anomalies \in Nat
  BY CorrelationConstants DEF CorrelationInv
<1>2. PICK s \in Streams : PushAnomaly(s) /\ second' = second
  <2>1. anomalies' # anomalies
    BY <1>1
  <2> QED BY <2>1 DEF CorrelationNext, correlationVars, Detect, PendingAnomalies, Acknowledge,
              ResetDetector, SecondPasses
<1> DEFINE events == Pruned(second) \cup {[stream |-> s, at |-> second]}
           a == [id |-> id, at |-> second, sources |-> events, first |-> id \notin told]
<1>3. recent' = events
  BY <1>2 DEF PushAnomaly
<1>4. history' = LastHistory(Append(history, a))
  BY <1>2, <1>3 DEF PushAnomaly, CorrelationInv
<1>5. events \subseteq Anomaly
  BY <1>2, WindowIsKept
<1>6. a \in Alert /\ a.at = second /\ a.sources = events
  <2>1. second \in 0..MaxSecond
    BY DEF CorrelationInv
  <2> QED BY <1>5, <2>1 DEF Alert
<1>7. \A e \in recent : e.at >= second - CorrelationWindow => e \in events
  BY DEF Pruned
<1> HIDE DEF a, events
<1>8. history # << >> /\ history[Len(history)] = a
  <2>1. history \in Seq(Alert) /\ Len(history) <= MaxHistory
    BY DEF CorrelationInv
  <2>2. history = Grown(history, a)
    BY <1>4 DEF Grown
  <2>3. GrownWell(Grown(history, a), history, a)
    BY <1>6, <2>1, HistoryGrows
  <2>4. GrownWell(history, history, a)
    BY <2>2, <2>3
  <2> QED BY <2>4 DEF GrownWell
<1>9. events \subseteq recent /\ \A e \in recent : e.at >= second - CorrelationWindow
  BY <1>6, <1>8 DEF CorrelationInv, WindowHolds
<1>10. recent = events
  BY <1>7, <1>9
<1> QED BY <1>3, <1>10

\* For any streams and limits: an alert rests on anomalies of enough sensors
\* within the window, with all the properties of its pattern; it is told once until
\* it is acknowledged, then again, and what is mute can be seen.
THEOREM AlertsCorrelatedHolds == CorrelationSpec => AlertsCorrelated
<1>1. CorrelationInv => CorrelationTypeOK /\ AlertIsCorrelated /\ ToldOnce /\ MutedCanBeSeen
  <2> SUFFICES ASSUME CorrelationInv
               PROVE  CorrelationTypeOK /\ AlertIsCorrelated /\ ToldOnce /\ MutedCanBeSeen
    OBVIOUS
  <2>1. DOMAIN history = 1..Len(history)
    BY DEF CorrelationInv
  <2>2. CorrelationTypeOK
    BY DEF CorrelationInv, CorrelationTypeOK
  <2>3. AlertIsCorrelated
    BY <2>1 DEF CorrelationInv, AlertIsCorrelated, WellFounded
  <2>4. ToldOnce /\ MutedCanBeSeen
    BY <2>1 DEF CorrelationInv, ToldOnce, MutedCanBeSeen
  <2> QED BY <2>2, <2>3, <2>4
<1>2. CorrelationInv /\ [CorrelationNext]_correlationVars => [ToldAgain]_correlationVars
  BY StepsTellAgain
<1>3. CorrelationSpec => [][ToldAgain]_correlationVars
  BY <1>2, CorrelationInvHolds, PTL DEF CorrelationSpec
<1>4. ToldAgain <=>
         \A id \in AlertId \ told :
             recent' # recent /\ Correlates(recent') /\ IdOf(recent') = id /\ anomalies' > anomalies =>
             history' # history
  BY DEF ToldAgain
<1> QED BY <1>1, <1>3, <1>4, CorrelationInvHolds, PTL DEF AlertsCorrelated, AcknowledgedIsTold

---------------------------------------------------------------------------
(***************************************************************************)
(* Device health                                                           *)
(***************************************************************************)

\* A row is nothing, or what the last complete report decodes to; no stamp is
\* newer than the contact that brought it, but for what the clock was ahead by.
HealthInv ==
    /\ healthClock \in 0..MaxHealthClock
    /\ stamp \in -1..healthClock + MaxLead /\ contact \in -1..healthClock /\ lead \in 0..MaxLead
    /\ stamp <= contact + lead /\ (stamp # -1 => contact # -1)
    /\ \/ lastFull = NoWords /\ row = NoWords
       \/ /\ lastFull \in [Field -> Nat]
          /\ row = [f \in Field |-> lastFull[f] % Width]

LEMMA WordOfSixteenBits ==
    ASSUME NEW n \in Nat
    PROVE  n % Width \in 0..Width - 1
BY SMTT(20) DEF Width

LEMMA ReportOfNumbers ==
    ASSUME NEW report \in Report, DOMAIN report = Field
    PROVE  report \in [Field -> Nat]
<1>1. PICK fields \in SUBSET Field :
          /\ report \in [fields -> StatusWords \cup ErrorWords \cup SensorWords]
          /\ \A f \in fields : report[f] \in Sent(f)
  BY DEF Report
<1>2. fields = Field
  BY <1>1
<1> QED BY <1>1, <1>2, HealthAssumption

LEMMA RecordKeepsRow ==
    ASSUME HealthInv, NEW report \in Report, RecordHealth(report)
    PROVE  \/ lastFull' = NoWords /\ row' = NoWords
           \/ /\ lastFull' \in [Field -> Nat]
              /\ row' = [f \in Field |-> lastFull'[f] % Width]
<1>1. CASE DOMAIN report = Field
  <2>1. report \in [Field -> Nat] /\ lastFull' = report
    BY <1>1, ReportOfNumbers DEF RecordHealth
  <2>2. \A f \in Field : report[f] % Width # -1
    BY <2>1, WordOfSixteenBits, SMTT(20) DEF Width
  <2>3. row' = [f \in Field |-> report[f] % Width]
    BY <1>1, <2>2 DEF RecordHealth, Coalesced, Decoded
  <2> QED BY <2>1, <2>3
<1>2. CASE DOMAIN report # Field
  <2>1. row' = [f \in Field |-> row[f]] /\ lastFull' = lastFull
    BY <1>2 DEF RecordHealth, Coalesced, Decoded, NoWords
  <2>2. row = [f \in Field |-> row[f]]
    BY DEF HealthInv, NoWords
  <2>3. row' = row
    BY <2>1, <2>2
  <2> QED BY <2>1, <2>3 DEF HealthInv
<1> QED BY <1>1, <1>2

\* Through all reports, broken ones and restarts, the row of a device keeps
\* HealthInv.
THEOREM HealthInvHolds == HealthSpec => []HealthInv
<1>1. HealthInit => HealthInv
  BY HealthAssumption DEF HealthInit, HealthInv
<1>2. HealthInv /\ [HealthNext]_healthVars => HealthInv'
  <2> SUFFICES ASSUME HealthInv, [HealthNext]_healthVars PROVE HealthInv'
    OBVIOUS
  <2>0. /\ healthClock \in 0..MaxHealthClock /\ MaxHealthClock \in Nat /\ MaxLead \in Nat
        /\ stamp \in -1..healthClock + MaxLead /\ contact \in -1..healthClock /\ lead \in 0..MaxLead
        /\ stamp <= contact + lead /\ (stamp # -1 => contact # -1)
    BY HealthAssumption DEF HealthInv
  <2>1. ASSUME NEW report \in Report, NEW at \in 0..MaxHealthClock + MaxLead, IngestReport(report, at)
        PROVE  HealthInv'
    <3>1. /\ RecordHealth(report) /\ healthClock' = healthClock /\ contact' = healthClock
          /\ stamp' = IF at > stamp THEN at ELSE stamp
          /\ lead' = IF at - healthClock > lead THEN at - healthClock ELSE lead
          /\ at - healthClock <= MaxLead
      BY <2>1 DEF IngestReport, RecordHealth
    <3>2. /\ stamp' \in -1..healthClock' + MaxLead /\ contact' \in -1..healthClock' /\ lead' \in 0..MaxLead
          /\ stamp' <= contact' + lead' /\ (stamp' # -1 => contact' # -1) /\ healthClock' \in 0..MaxHealthClock
      BY <2>0, <3>1
    <3> QED BY <3>1, <3>2, RecordKeepsRow DEF HealthInv
  <2>2. ASSUME NEW report \in Report, ReportHealth(report)
        PROVE  HealthInv'
    <3>1. /\ RecordHealth(report) /\ healthClock' = healthClock /\ contact' = healthClock
          /\ stamp' = stamp /\ lead' = lead
      BY <2>2 DEF ReportHealth, RecordHealth
    <3>2. /\ stamp' \in -1..healthClock' + MaxLead /\ contact' \in -1..healthClock' /\ lead' \in 0..MaxLead
          /\ stamp' <= contact' + lead' /\ (stamp' # -1 => contact' # -1) /\ healthClock' \in 0..MaxHealthClock
      BY <2>0, <3>1
    <3> QED BY <3>1, <3>2, RecordKeepsRow DEF HealthInv
  <2>3. CASE HealthTick
    <3>1. /\ healthClock' \in 0..MaxHealthClock /\ healthClock' = healthClock + 1
          /\ UNCHANGED <<row, stamp, lastFull, contact, lead>>
      BY <2>0, <2>3 DEF HealthTick
    <3>2. /\ stamp' \in -1..healthClock' + MaxLead /\ contact' \in -1..healthClock' /\ lead' \in 0..MaxLead
          /\ stamp' <= contact' + lead' /\ (stamp' # -1 => contact' # -1)
      BY <2>0, <3>1
    <3> QED BY <3>1, <3>2 DEF HealthInv
  <2>4. CASE UNCHANGED healthVars
    BY <2>4 DEF healthVars, HealthInv
  <2> QED BY <2>1, <2>2, <2>3, <2>4 DEF HealthNext
<1> QED BY <1>1, <1>2, PTL DEF HealthSpec

\* Whatever mixture of complete, partial and late reports a device sends: the
\* three words of its row are those of its last complete report, a device that
\* was silent for the freshness time, and for what its clock was ahead by, is not
\* shown as reachable, and a reachable one with a fault is not called healthy.
THEOREM HealthIsToldHolds == HealthSpec => []HealthIsTold
<1>1. HealthInv => HealthIsTold
  <2> SUFFICES ASSUME HealthInv PROVE HealthIsTold
    OBVIOUS
  <2>1. \A f \in Field : /\ row[f] = IF lastFull[f] = -1 THEN -1 ELSE lastFull[f] % Width
                         /\ row[f] \in -1..Width - 1
    <3> SUFFICES ASSUME NEW f \in Field
                 PROVE  /\ row[f] = IF lastFull[f] = -1 THEN -1 ELSE lastFull[f] % Width
                        /\ row[f] \in -1..Width - 1
      OBVIOUS
    <3>1. CASE lastFull = NoWords /\ row = NoWords
      BY <3>1 DEF NoWords, Width
    <3>2. CASE lastFull \in [Field -> Nat] /\ row = [g \in Field |-> lastFull[g] % Width]
      <4>1. lastFull[f] \in Nat /\ row[f] = lastFull[f] % Width
        BY <3>2
      <4>2. lastFull[f] % Width \in 0..Width - 1
        BY <4>1, WordOfSixteenBits
      <4>3. lastFull[f] # -1
        BY <4>1
      <4>4. row[f] \in -1..Width - 1
        <5>1. row[f] \in 0..Width - 1
          BY <4>1, <4>2
        <5>2. \A w \in 0..Width - 1 : w \in -1..Width - 1
          BY SMTT(20) DEF Width
        <5> QED BY <5>1, <5>2
      <4> QED BY <4>1, <4>3, <4>4
    <3> QED BY <3>1, <3>2 DEF HealthInv
  <2>2. HealthTypeOK /\ TripleIsOneReport
    BY <2>1 DEF HealthInv, HealthTypeOK, TripleIsOneReport
  <2>3. SilentIsUnreachable
    BY HealthAssumption DEF HealthInv, SilentIsUnreachable, Reachable, LastSeen
  <2>4. FaultIsDiagnosed
    BY DEF FaultIsDiagnosed, Diagnosis
  <2> QED BY <2>2, <2>3, <2>4 DEF HealthIsTold
<1> QED BY <1>1, HealthInvHolds, PTL

---------------------------------------------------------------------------
(***************************************************************************)
(* Device keys                                                             *)
(***************************************************************************)

\* The rows are numbered without a gap, a rotation under way has room for its
\* successor, and every lock-out has its cause.
KeysInv ==
    /\ \E n \in 0..MaxKeys : /\ keys \in [1..n -> KeyRow]
                             /\ rotating # 0 => rotating \in 1..n /\ n < MaxKeys
    /\ rotating \in 0..MaxKeys
    /\ LockOutHasCause
    /\ ServedWithinScope

LEMMA RowsAreNumbered ==
    ASSUME NEW n \in Nat, NEW keyRows \in [1..n -> KeyRow]
    PROVE  DOMAIN keyRows = 1..n /\ Cardinality(DOMAIN keyRows) = n
<1>1. Cardinality(1..n) = IF 1 > n THEN 0 ELSE n - 1 + 1
  BY FS_Interval
<1> QED BY <1>1

\* A key is enrolled behind the others, which it leaves alone.
LEMMA EnrolledIsNext ==
    ASSUME NEW n \in Nat, keys \in [1..n -> KeyRow],
           NEW o \in Owners, NEW s \in SUBSET UNION ScopeSets
    PROVE  /\ Enrolled(o, s) \in [1..n + 1 -> KeyRow]
           /\ Enrolled(o, s)[n + 1] = [owner |-> o, scopes |-> s, live |-> TRUE, uses |-> 0]
           /\ \A k \in 1..n : Enrolled(o, s)[k] = keys[k]
<1> DEFINE new == [owner |-> o, scopes |-> s, live |-> TRUE, uses |-> 0]
<1>1. DOMAIN keys = 1..n /\ Cardinality(DOMAIN keys) = n
  BY RowsAreNumbered
<1>2. Enrolled(o, s) = [k \in 1..n \cup {n + 1} |-> IF k \in 1..n THEN keys[k] ELSE new]
  BY <1>1 DEF Enrolled
<1>3. new \in KeyRow
  BY KeysAssumption DEF KeyRow
<1> HIDE DEF new
<1>4. 1..n \cup {n + 1} = 1..n + 1 /\ n + 1 \notin 1..n
  OBVIOUS
<1> QED BY <1>2, <1>3, <1>4 DEF new

\* Rows that stay of their owners and live keep every owner served.
LEMMA LossIsExplained ==
    ASSUME LockOutHasCause, rotating = 0,
           DOMAIN keys \subseteq DOMAIN keys',
           \A k \in DOMAIN keys : keys'[k].owner = keys[k].owner,
           \A k \in DOMAIN keys' \ DOMAIN keys : keys'[k].live,
           NEW lost,
           \A k \in Live : k \notin Live' => keys[k].owner \in lost,
           \A o \in lost : o \in withdrawn' \cup cut' \/ (rotating' # 0 /\ keys'[rotating'].owner = o),
           \A o \in withdrawn \cup cut :
              o \in withdrawn' \cup cut' \/ \E j \in Live' : keys'[j].owner = o
    PROVE  LockOutHasCause'
<1> SUFFICES ASSUME NEW k \in DOMAIN keys'
             PROVE  \/ \E j \in Live' : keys'[j].owner = keys'[k].owner
                    \/ keys'[k].owner \in withdrawn' \cup cut'
                    \/ rotating' # 0 /\ keys'[rotating'].owner = keys'[k].owner
  BY DEF LockOutHasCause
<1>1. CASE k \notin DOMAIN keys
  BY <1>1 DEF Live
<1>2. CASE k \in DOMAIN keys
  <2>1. CASE \E j \in Live : keys[j].owner = keys[k].owner
    <3>1. PICK j \in Live : keys[j].owner = keys[k].owner
      BY <2>1
    <3>2. keys'[j].owner = keys'[k].owner
      BY <1>2, <3>1 DEF Live
    <3> QED BY <1>2, <3>1, <3>2
  <2>2. CASE keys[k].owner \in withdrawn \cup cut
    BY <1>2, <2>2
  <2> QED BY <1>2, <2>1, <2>2 DEF LockOutHasCause
<1> QED BY <1>1, <1>2

LEMMA EnrollKeeps == ASSUME KeysInv, NEW o \in Owners, NEW s \in ScopeSets, Enroll(o, s) PROVE KeysInv'
<1>1. PICK n \in 0..MaxKeys : keys \in [1..n -> KeyRow]
  BY DEF KeysInv
<1>2. DOMAIN keys = 1..n /\ Cardinality(DOMAIN keys) = n /\ n \in Nat /\ MaxKeys \in Nat
  BY <1>1, RowsAreNumbered, KeysAssumption
<1>3. /\ rotating = 0 /\ rotating' = 0 /\ n < MaxKeys /\ keys' = Enrolled(o, s) /\ served' = {}
      /\ withdrawn' = withdrawn \ {o} /\ cut' = cut \ {o}
  BY <1>2 DEF Enroll, Supplied
<1>4. /\ keys' \in [1..n + 1 -> KeyRow] /\ \A k \in 1..n : keys'[k] = keys[k]
      /\ keys'[n + 1].live /\ keys'[n + 1].owner = o
  <2>1. s \in SUBSET UNION ScopeSets
    OBVIOUS
  <2>2. /\ Enrolled(o, s) \in [1..n + 1 -> KeyRow]
        /\ Enrolled(o, s)[n + 1] = [owner |-> o, scopes |-> s, live |-> TRUE, uses |-> 0]
        /\ \A k \in 1..n : Enrolled(o, s)[k] = keys[k]
    BY <1>1, <1>2, <2>1, EnrolledIsNext
  <2> QED BY <1>3, <2>2
<1>5. DOMAIN keys' = 1..n + 1 /\ n + 1 \in 0..MaxKeys /\ 1..n \subseteq 1..n + 1
      /\ \A k \in 1..n + 1 : k \notin 1..n => k = n + 1
  BY <1>2, <1>3, <1>4
<1>6. LockOutHasCause'
  <2>1. \A k \in Live : k \in Live'
    BY <1>2, <1>4, <1>5 DEF Live
  <2>2. n + 1 \in Live' /\ keys'[n + 1].owner = o
    BY <1>2, <1>4, <1>5 DEF Live
  <2>3. \A p \in withdrawn \cup cut :
           p \in withdrawn' \cup cut' \/ \E j \in Live' : keys'[j].owner = p
    BY <1>3, <2>2
  <2>4. LockOutHasCause
    BY DEF KeysInv
  <2>5. /\ DOMAIN keys \subseteq DOMAIN keys'
        /\ \A k \in DOMAIN keys : keys'[k].owner = keys[k].owner
        /\ \A k \in DOMAIN keys' \ DOMAIN keys : keys'[k].live
    BY <1>2, <1>4, <1>5
  <2> DEFINE lost == {}
  <2>6. /\ \A k \in Live : k \notin Live' => keys[k].owner \in lost
        /\ \A p \in lost : p \in withdrawn' \cup cut' \/ (rotating' # 0 /\ keys'[rotating'].owner = p)
    BY <2>1
  <2> HIDE DEF lost
  <2> QED BY <1>3, <2>3, <2>4, <2>5, <2>6, LossIsExplained
<1> QED BY <1>2, <1>3, <1>4, <1>5, <1>6 DEF KeysInv, ServedWithinScope

\* A step that only takes life from rows.
LEMMA RevokingKeeps ==
    ASSUME KeysInv, rotating = 0, served' = {}, cut' = cut, withdrawn \subseteq withdrawn',
           DOMAIN keys' = DOMAIN keys, NEW lost \in SUBSET Owners,
           NEW taken \in SUBSET DOMAIN keys,
           keys' = [k \in DOMAIN keys |-> IF k \in taken THEN [keys[k] EXCEPT !.live = FALSE] ELSE keys[k]],
           \A k \in taken : keys[k].owner \in lost,
           rotating' = 0 \/ (rotating' \in DOMAIN keys /\ Cardinality(DOMAIN keys) < MaxKeys),
           \A o \in lost : o \in withdrawn' \/ (rotating' # 0 /\ keys[rotating'].owner = o)
    PROVE  KeysInv'
<1>1. PICK n \in 0..MaxKeys : keys \in [1..n -> KeyRow]
  BY DEF KeysInv
<1>2. DOMAIN keys = 1..n /\ Cardinality(DOMAIN keys) = n /\ n \in Nat /\ MaxKeys \in Nat
  BY <1>1, RowsAreNumbered, KeysAssumption
<1>3. \A entry \in KeyRow : LET r == [entry EXCEPT !.live = FALSE]
                          IN r \in KeyRow /\ r.owner = entry.owner /\ ~r.live
  BY DEF KeyRow
<1>4. \A k \in 1..n : keys[k] \in KeyRow
  BY <1>1
<1>5. ASSUME NEW k \in 1..n
      PROVE  /\ keys'[k] \in KeyRow /\ keys'[k].owner = keys[k].owner
             /\ k \notin taken => keys'[k] = keys[k]
  <2>1. keys'[k] = IF k \in taken THEN [keys[k] EXCEPT !.live = FALSE] ELSE keys[k]
    BY <1>2
  <2> QED BY <1>3, <1>4, <2>1
<1>6. keys' \in [1..n -> KeyRow]
  BY <1>2, <1>5
<1>7. LockOutHasCause'
  <2>1. \A k \in Live : k \notin Live' => keys[k].owner \in lost
    BY <1>2, <1>5 DEF Live
  <2>2. \A o \in lost : o \in withdrawn' \cup cut' \/ (rotating' # 0 /\ keys'[rotating'].owner = o)
    BY <1>2, <1>5
  <2>3. LockOutHasCause
    BY DEF KeysInv
  <2>4. /\ DOMAIN keys \subseteq DOMAIN keys'
        /\ \A k \in DOMAIN keys : keys'[k].owner = keys[k].owner
        /\ \A k \in DOMAIN keys' \ DOMAIN keys : keys'[k].live
        /\ \A o \in withdrawn \cup cut :
              o \in withdrawn' \cup cut' \/ \E j \in Live' : keys'[j].owner = o
    BY <1>2, <1>5
  <2> QED BY <2>1, <2>2, <2>3, <2>4, LossIsExplained
<1>8. rotating' \in 0..MaxKeys /\ (rotating' # 0 => rotating' \in 1..n /\ n < MaxKeys)
  BY <1>2
<1> QED BY <1>6, <1>7, <1>8 DEF KeysInv, ServedWithinScope

LEMMA RevokedTakesLife ==
    ASSUME NEW k \in DOMAIN keys, KeysInv
    PROVE  Revoked(k) = [j \in DOMAIN keys |-> IF j \in {k} THEN [keys[j] EXCEPT !.live = FALSE] ELSE keys[j]]
           /\ DOMAIN Revoked(k) = DOMAIN keys
<1>1. PICK n \in 0..MaxKeys : keys \in [1..n -> KeyRow]
  BY DEF KeysInv
<1> QED BY <1>1 DEF Revoked

LEMMA OwnersOwn == ASSUME KeysInv, NEW k \in DOMAIN keys PROVE keys[k].owner \in Owners
BY DEF KeysInv, KeyRow

LEMMA RevokeKeyKeeps == ASSUME KeysInv, NEW k \in DOMAIN keys, RevokeKey(k) PROVE KeysInv'
<1> DEFINE lost == {keys[k].owner}
<1>1. /\ rotating = 0 /\ rotating' = 0 /\ served' = {} /\ cut' = cut
      /\ withdrawn' = withdrawn \cup lost /\ keys' = Revoked(k)
  BY DEF RevokeKey
<1>2. lost \in SUBSET Owners /\ {k} \in SUBSET DOMAIN keys /\ \A j \in {k} : keys[j].owner \in lost
  BY OwnersOwn
<1>3. /\ DOMAIN keys' = DOMAIN keys
      /\ keys' = [j \in DOMAIN keys |-> IF j \in {k} THEN [keys[j] EXCEPT !.live = FALSE] ELSE keys[j]]
  BY <1>1, RevokedTakesLife
<1>4. withdrawn \subseteq withdrawn' /\ \A o \in lost : o \in withdrawn'
  BY <1>1
<1> HIDE DEF lost
<1> QED BY <1>1, <1>2, <1>3, <1>4, RevokingKeeps

LEMMA RotateRevokesKeeps == ASSUME KeysInv, NEW k \in DOMAIN keys, RotateRevokes(k) PROVE KeysInv'
<1> DEFINE lost == {keys[k].owner}
<1>1. /\ rotating = 0 /\ rotating' = k /\ served' = {} /\ cut' = cut
      /\ withdrawn' = withdrawn /\ keys' = Revoked(k) /\ Cardinality(DOMAIN keys) < MaxKeys
  BY DEF RotateRevokes
<1>2. lost \in SUBSET Owners /\ {k} \in SUBSET DOMAIN keys /\ \A j \in {k} : keys[j].owner \in lost
  BY OwnersOwn
<1>3. /\ DOMAIN keys' = DOMAIN keys
      /\ keys' = [j \in DOMAIN keys |-> IF j \in {k} THEN [keys[j] EXCEPT !.live = FALSE] ELSE keys[j]]
  BY <1>1, RevokedTakesLife
<1>4. rotating' # 0 /\ \A o \in lost : keys[rotating'].owner = o
  BY <1>1 DEF KeysInv
<1> HIDE DEF lost
<1> QED BY <1>1, <1>2, <1>3, <1>4, RevokingKeeps

LEMMA RevokeDeviceKeeps == ASSUME KeysInv, NEW o \in Owners, RevokeDevice(o) PROVE KeysInv'
<1> DEFINE taken == {k \in DOMAIN keys : keys[k].owner = o}
           lost == {o}
<1>1. /\ rotating = 0 /\ rotating' = 0 /\ served' = {} /\ cut' = cut
      /\ withdrawn' = withdrawn \cup lost
      /\ keys' = [k \in DOMAIN keys |-> [keys[k] EXCEPT !.live = @ /\ keys[k].owner # o]]
  BY DEF RevokeDevice
<1>2. lost \in SUBSET Owners /\ taken \in SUBSET DOMAIN keys /\ \A k \in taken : keys[k].owner \in lost
  OBVIOUS
<1>3. ASSUME NEW k \in DOMAIN keys
      PROVE  [keys[k] EXCEPT !.live = @ /\ keys[k].owner # o]
             = IF k \in taken THEN [keys[k] EXCEPT !.live = FALSE] ELSE keys[k]
  <2>1. keys[k] \in KeyRow
    BY DEF KeysInv
  <2> DEFINE entry == keys[k]
  <2>2. \A r \in KeyRow : /\ r.owner # o => [r EXCEPT !.live = r.live /\ r.owner # o] = r
                          /\ r.owner = o => [r EXCEPT !.live = r.live /\ r.owner # o] = [r EXCEPT !.live = FALSE]
    BY DEF KeyRow
  <2> QED BY <2>1, <2>2
<1>4. /\ DOMAIN keys' = DOMAIN keys
      /\ keys' = [k \in DOMAIN keys |-> IF k \in taken THEN [keys[k] EXCEPT !.live = FALSE] ELSE keys[k]]
  BY <1>1, <1>3
<1>5. withdrawn \subseteq withdrawn' /\ \A p \in lost : p \in withdrawn'
  BY <1>1
<1> HIDE DEF lost, taken
<1> QED BY <1>1, <1>2, <1>4, <1>5, RevokingKeeps

\* The second commit of a rotation, and what it enrolls.
LEMMA SuccessorHasTheRights ==
    ASSUME KeysInv, RotateEnrolls
    PROVE  \E n \in Nat :
              /\ keys \in [1..n -> KeyRow] /\ n < MaxKeys /\ rotating \in 1..n
              /\ keys' \in [1..n + 1 -> KeyRow] /\ \A k \in 1..n : keys'[k] = keys[k]
              /\ keys'[n + 1].live /\ keys'[n + 1].owner = keys[rotating].owner
              /\ keys'[n + 1].scopes = keys[rotating].scopes
<1>1. PICK n \in 0..MaxKeys : keys \in [1..n -> KeyRow] /\ rotating \in 1..n /\ n < MaxKeys
  BY DEF KeysInv, RotateEnrolls
<1>2. n \in Nat
  BY <1>1, KeysAssumption
<1>3. keys[rotating].owner \in Owners /\ keys[rotating].scopes \in SUBSET UNION ScopeSets
  BY <1>1 DEF KeyRow
<1>4. keys' = Enrolled(keys[rotating].owner, keys[rotating].scopes)
  BY DEF RotateEnrolls, Successor
<1> DEFINE o == keys[rotating].owner
           s == keys[rotating].scopes
<1> HIDE DEF o, s
<1>5. /\ Enrolled(o, s) \in [1..n + 1 -> KeyRow]
      /\ Enrolled(o, s)[n + 1] = [owner |-> o, scopes |-> s, live |-> TRUE, uses |-> 0]
      /\ \A k \in 1..n : Enrolled(o, s)[k] = keys[k]
  BY <1>1, <1>2, <1>3, EnrolledIsNext DEF o, s
<1> QED BY <1>1, <1>2, <1>4, <1>5 DEF o, s

LEMMA RotateEnrollsKeeps == ASSUME KeysInv, RotateEnrolls PROVE KeysInv'
<1>1. PICK n \in Nat :
          /\ keys \in [1..n -> KeyRow] /\ n < MaxKeys /\ rotating \in 1..n
          /\ keys' \in [1..n + 1 -> KeyRow] /\ \A k \in 1..n : keys'[k] = keys[k]
          /\ keys'[n + 1].live /\ keys'[n + 1].owner = keys[rotating].owner
  BY SuccessorHasTheRights
<1> DEFINE o == keys[rotating].owner
<1>2. /\ withdrawn' = withdrawn \ {o} /\ cut' = cut \ {o} /\ rotating' = 0 /\ served' = {} /\ rotating # 0
  BY DEF RotateEnrolls, Supplied
<1>3. DOMAIN keys' = 1..n + 1 /\ DOMAIN keys = 1..n /\ MaxKeys \in Nat
  BY <1>1, KeysAssumption
<1> HIDE DEF o
<1>4. n + 1 \in Live' /\ keys'[n + 1].owner = o /\ \A k \in Live : k \in Live' /\ keys'[k] = keys[k]
  BY <1>1, <1>3 DEF Live, o
<1>5. ASSUME NEW k \in DOMAIN keys'
      PROVE  \/ \E j \in Live' : keys'[j].owner = keys'[k].owner
             \/ keys'[k].owner \in withdrawn' \cup cut'
  <2>1. CASE k = n + 1
    BY <1>4, <2>1
  <2>2. CASE k \in 1..n
    <3>1. \/ \E j \in Live : keys[j].owner = keys[k].owner
          \/ keys[k].owner \in withdrawn \cup cut
          \/ keys[k].owner = o
      BY <1>3, <2>2 DEF KeysInv, LockOutHasCause, o
    <3>2. keys'[k] = keys[k]
      BY <1>1, <2>2
    <3> QED BY <1>2, <1>4, <3>1, <3>2
  <2> QED BY <1>1, <1>3, <2>1, <2>2
<1>6. LockOutHasCause'
  BY <1>2, <1>5 DEF LockOutHasCause
<1>7. n + 1 \in 0..MaxKeys /\ rotating' \in 0..MaxKeys
  BY <1>1, <1>2, <1>3
<1> QED BY <1>1, <1>2, <1>6, <1>7 DEF KeysInv, ServedWithinScope

LEMMA RotationCutKeeps == ASSUME KeysInv, RotationCut PROVE KeysInv'
<1>1. /\ keys' = keys /\ cut' = cut \cup {keys[rotating].owner} /\ withdrawn' = withdrawn
      /\ rotating' = 0 /\ served' = {} /\ Live' = Live
  BY DEF RotationCut, Live
<1>2. LockOutHasCause'
  BY <1>1 DEF KeysInv, LockOutHasCause
<1>3. rotating' \in 0..MaxKeys
  BY <1>1, KeysAssumption
<1> QED BY <1>1, <1>2, <1>3 DEF KeysInv, ServedWithinScope

LEMMA AskKeeps ==
    ASSUME KeysInv, NEW k \in DOMAIN keys, NEW op \in Operation, NEW o \in Owners, Ask(k, op, o)
    PROVE  KeysInv'
<1>1. PICK n \in 0..MaxKeys : keys \in [1..n -> KeyRow]
  BY DEF KeysInv
<1>2. UNCHANGED <<rotating, withdrawn, cut>> /\ rotating = 0
  BY DEF Ask
<1>3. CASE ~Resolvable(k)
  BY <1>2, <1>3 DEF Ask, KeysInv, LockOutHasCause, ServedWithinScope, Live
<1>4. CASE Resolvable(k)
  <2>1. PICK used \in 0..MaxUsed : keys' = [keys EXCEPT ![k].uses = used]
    <3>1. keys[k].uses \in 0..MaxUsed
      BY <1>1 DEF KeyRow
    <3>2. Resolutions(op) \in Nat
      BY DEF Resolutions
    <3>3. (IF keys[k].uses + Resolutions(op) < MaxUsed THEN keys[k].uses + Resolutions(op) ELSE MaxUsed) \in 0..MaxUsed
      BY <3>1, <3>2, KeysAssumption
    <3> QED BY <1>4, <3>3 DEF Ask
  <2>2. \A entry \in KeyRow : LET r == [entry EXCEPT !.uses = used]
                            IN /\ r \in KeyRow /\ r.owner = entry.owner /\ r.live = entry.live
                               /\ r.scopes = entry.scopes
    BY DEF KeyRow
  <2>3. keys' \in [1..n -> KeyRow] /\ DOMAIN keys = 1..n /\ DOMAIN keys' = 1..n
    BY <1>1, <2>1, <2>2
  <2>4. ASSUME NEW j \in DOMAIN keys
        PROVE  keys'[j].owner = keys[j].owner /\ keys'[j].live = keys[j].live
               /\ keys'[j].scopes = keys[j].scopes
    BY <1>1, <2>1, <2>2
  <2>5. Live' = Live
    BY <2>3, <2>4 DEF Live
  <2>6. LockOutHasCause'
    BY <1>2, <2>3, <2>4, <2>5 DEF KeysInv, LockOutHasCause, Live
  <2>7. ServedWithinScope'
    <3>1. \/ served' = {}
          \/ Permits(keys[k], op, o) /\ served' = {[key |-> k, op |-> op, about |-> o, live |-> k \in Live]}
      BY <1>4 DEF Ask
    <3>2. k \in Live
      BY <1>4 DEF Resolvable
    <3>3. ASSUME NEW r \in served'
          PROVE  /\ r.key = k /\ r.op = op /\ r.about = o /\ r.live
                 /\ Permits(keys[k], op, o)
      <4>1. Permits(keys[k], op, o) /\ r = [key |-> k, op |-> op, about |-> o, live |-> k \in Live]
        BY <3>1, <3>3
      <4>2. (k \in Live) = TRUE
        BY <3>2
      <4>3. r.live = TRUE
        BY <4>1, <4>2
      <4> QED BY <4>1, <4>3
    <3>4. Permits(keys[k], op, o) =>
             /\ op # "whoami" /\ "admin" \notin keys[k].scopes => o = keys[k].owner
             /\ op = "enroll" => "admin" \in keys[k].scopes
      BY DEF Permits
    <3> QED BY <2>4, <3>3, <3>4 DEF ServedWithinScope
  <2> QED BY <1>2, <2>3, <2>6, <2>7 DEF KeysInv
<1> QED BY <1>3, <1>4

LEMMA KeysInvKept == ASSUME KeysInv, [KeysNext]_keyVars PROVE KeysInv'
<1>1. CASE UNCHANGED keyVars
  BY <1>1 DEF keyVars, KeysInv, LockOutHasCause, ServedWithinScope, Live
<1> QED BY <1>1, EnrollKeeps, RevokeKeyKeeps, RotateRevokesKeeps, RevokeDeviceKeeps,
           RotateEnrollsKeeps, RotationCutKeeps, AskKeeps DEF KeysNext

\* Through enrolments, revocations and rotations that are cut, the table of
\* keys keeps KeysInv.
THEOREM KeysInvHolds == KeysSpec => []KeysInv
<1>1. KeysInit => KeysInv
  <2> SUFFICES ASSUME KeysInit PROVE KeysInv
    OBVIOUS
  <2>1. 0 \in 0..MaxKeys /\ keys = << >> /\ << >> \in [1..0 -> KeyRow] /\ rotating = 0
    BY KeysAssumption DEF KeysInit
  <2>2. DOMAIN keys = {} /\ served = {}
    BY <2>1 DEF KeysInit
  <2> QED BY <2>1, <2>2 DEF KeysInv, LockOutHasCause, ServedWithinScope
<1>2. KeysInv /\ [KeysNext]_keyVars => KeysInv'
  BY KeysInvKept
<1> QED BY <1>1, <1>2, PTL DEF KeysSpec

\* What may never happen in a step: a revoked key comes back, or the successor of
\* a rotation has another device or other scopes.
RotationStep ==
    /\ \A k \in DOMAIN keys \ Live : ~keys'[k].live
    /\ rotating # 0 /\ rotating' = 0 /\ keys' # keys =>
          LET new == keys'[Cardinality(DOMAIN keys')]
          IN new.owner = keys[rotating].owner /\ new.scopes = keys[rotating].scopes

LEMMA StepsKeepRights == ASSUME KeysInv, [KeysNext]_keyVars PROVE RotationStep
<1>1. PICK n \in 0..MaxKeys : keys \in [1..n -> KeyRow]
  BY DEF KeysInv
<1>2. DOMAIN keys = 1..n /\ n \in Nat
  BY <1>1, KeysAssumption
<1>3. ASSUME NEW o \in Owners, NEW s \in ScopeSets, Enroll(o, s) PROVE RotationStep
  <2>1. rotating = 0 /\ keys' = Enrolled(o, s)
    BY <1>3 DEF Enroll
  <2>2. \A k \in 1..n : keys'[k] = keys[k]
    BY <1>1, <1>2, <2>1, EnrolledIsNext
  <2> QED BY <1>2, <2>1, <2>2 DEF RotationStep, Live
<1>4. ASSUME NEW k \in DOMAIN keys, RevokeKey(k) \/ RotateRevokes(k) PROVE RotationStep
  <2>1. rotating = 0 /\ keys' = Revoked(k)
    BY <1>4 DEF RevokeKey, RotateRevokes
  <2>2. \A entry \in KeyRow : ~[entry EXCEPT !.live = FALSE].live
    BY DEF KeyRow
  <2>3. ASSUME NEW j \in DOMAIN keys \ Live PROVE ~keys'[j].live
    <3>1. keys'[j] = keys[j] \/ keys'[j] = [keys[j] EXCEPT !.live = FALSE]
      BY <1>1, <2>1, RevokedTakesLife
    <3> QED BY <1>1, <2>2, <2>3, <3>1 DEF Live
  <2> QED BY <2>1, <2>3 DEF RotationStep
<1>5. ASSUME NEW o \in Owners, RevokeDevice(o) PROVE RotationStep
  <2>1. rotating = 0 /\ keys' = [k \in DOMAIN keys |-> [keys[k] EXCEPT !.live = @ /\ keys[k].owner # o]]
    BY <1>5 DEF RevokeDevice
  <2>2. \A entry \in KeyRow : [entry EXCEPT !.live = entry.live /\ entry.owner # o].live => entry.live
    BY DEF KeyRow
  <2> QED BY <1>1, <2>1, <2>2 DEF RotationStep, Live
<1>6. ASSUME RotateEnrolls PROVE RotationStep
  <2>1. PICK m \in Nat :
            /\ keys \in [1..m -> KeyRow] /\ keys' \in [1..m + 1 -> KeyRow]
            /\ \A k \in 1..m : keys'[k] = keys[k]
            /\ keys'[m + 1].owner = keys[rotating].owner
            /\ keys'[m + 1].scopes = keys[rotating].scopes
    BY <1>6, SuccessorHasTheRights
  <2>2. m + 1 \in Nat /\ DOMAIN keys = 1..m
    BY <2>1
  <2>3. Cardinality(DOMAIN keys') = m + 1
    BY <2>1, <2>2, RowsAreNumbered
  <2> QED BY <2>1, <2>2, <2>3 DEF RotationStep, Live
<1>7. ASSUME NEW k \in DOMAIN keys, NEW op \in Operation, NEW o \in Owners, Ask(k, op, o)
      PROVE  RotationStep
  <2>1. rotating = 0 /\ (keys' = keys \/ \E u : keys' = [keys EXCEPT ![k].uses = u])
    BY <1>7 DEF Ask
  <2>2. \A entry \in KeyRow : \A u : [entry EXCEPT !.uses = u].live = entry.live
    BY DEF KeyRow
  <2>3. ASSUME NEW j \in DOMAIN keys \ Live PROVE ~keys'[j].live
    <3>1. keys[j] \in KeyRow /\ ~keys[j].live /\ DOMAIN keys = 1..n /\ j \in 1..n
      BY <1>1, <2>3 DEF Live
    <3>2. keys'[j] = keys[j] \/ \E u : keys'[j] = [keys[j] EXCEPT !.uses = u]
      BY <1>1, <2>1, <3>1
    <3> QED BY <2>2, <3>1, <3>2
  <2> QED BY <2>1, <2>3 DEF RotationStep
<1>8. ASSUME RotationCut \/ UNCHANGED keyVars PROVE RotationStep
  BY <1>8 DEF RotationCut, keyVars, RotationStep, Live
<1> QED BY <1>3, <1>4, <1>5, <1>6, <1>7, <1>8 DEF KeysNext

\* A device that had a key is without one only by a revocation or by a rotation
\* that died between its two commits; a revoked key stays revoked, a successor has
\* the rights of the key before it, and what is let through was asked for with a
\* live key, within its scope.
THEOREM KeysKeepRightsHolds == KeysSpec => KeysKeepRights
<1>1. KeysInv => KeysTypeOK /\ LockOutHasCause /\ ServedWithinScope
  <2> SUFFICES ASSUME KeysInv PROVE KeysTypeOK
    BY DEF KeysInv
  <2>1. PICK n \in 0..MaxKeys : keys \in [1..n -> KeyRow]
    BY DEF KeysInv
  <2>2. DOMAIN keys = 1..n /\ Cardinality(DOMAIN keys) = n
    BY <2>1, RowsAreNumbered, KeysAssumption
  <2> QED BY <2>1, <2>2 DEF KeysTypeOK, KeysInv
<1>2. KeysInv /\ [KeysNext]_keyVars => [RotationStep]_keyVars
  BY StepsKeepRights
<1>3. KeysSpec => [][RotationStep]_keyVars
  BY <1>2, KeysInvHolds, PTL DEF KeysSpec
<1>4. RotationStep <=> /\ \A k \in DOMAIN keys \ Live : ~keys'[k].live
                       /\ rotating # 0 /\ rotating' = 0 /\ keys' # keys =>
                             LET new == keys'[Cardinality(DOMAIN keys')]
                             IN new.owner = keys[rotating].owner /\ new.scopes = keys[rotating].scopes
  BY DEF RotationStep
<1> QED BY <1>1, <1>3, <1>4, KeysInvHolds, PTL DEF KeysKeepRights, RotationKeepsRights

---------------------------------------------------------------------------
(***************************************************************************)
(* Command signing                                                         *)
(***************************************************************************)

\* A nonce that is remembered was accepted once, near its stamp; one that was
\* accepted and is forgotten is too old to be accepted again.
NoncesInv ==
    /\ receiverClock \in 0..MaxReceiverClock
    /\ issued \in [Nonces -> Int] /\ accepted \in [Nonces -> {0, 1}]
    /\ DOMAIN seen \subseteq Nonces /\ IsFiniteSet(DOMAIN seen)
    /\ Cardinality(DOMAIN seen) <= NonceCache
    /\ \A n \in DOMAIN seen :
          /\ seen[n] \in Int /\ accepted[n] = 1 /\ issued[n] # -1
          /\ issued[n] - MaxSkew <= seen[n] /\ seen[n] <= issued[n] + MaxSkew
    /\ \A n \in Nonces : accepted[n] = 1 =>
          issued[n] # -1 /\ (n \in DOMAIN seen \/ receiverClock > issued[n] + MaxSkew)

LEMMA WithinSkew ==
    ASSUME NEW a \in Int, NEW b \in Int, NEW m \in Nat
    PROVE  Absolute(a - b) <= m <=> b - m <= a /\ a <= b + m
BY DEF Absolute

\* What is pruned is so old that its command is stale.
LEMMA PrunedIsStale ==
    ASSUME NoncesInv
    PROVE  /\ DOMAIN PrunedNonces \subseteq DOMAIN seen
           /\ \A n \in DOMAIN PrunedNonces : PrunedNonces[n] = seen[n]
           /\ IsFiniteSet(DOMAIN PrunedNonces)
           /\ Cardinality(DOMAIN PrunedNonces) <= NonceCache
           /\ \A n \in DOMAIN seen \ DOMAIN PrunedNonces : receiverClock > issued[n] + MaxSkew
<1>1. /\ MaxSkew \in Nat /\ NonceCache \in Nat
      /\ receiverClock \in Int /\ MaxReceiverClock \in Nat
  BY NoncesAssumption DEF NoncesInv
<1>2. /\ DOMAIN PrunedNonces \subseteq DOMAIN seen
      /\ \A n \in DOMAIN PrunedNonces : PrunedNonces[n] = seen[n]
      /\ \A n \in DOMAIN seen \ DOMAIN PrunedNonces : ~(seen[n] >= receiverClock - 2 * MaxSkew)
  BY DEF PrunedNonces
<1>3. /\ IsFiniteSet(DOMAIN PrunedNonces)
      /\ Cardinality(DOMAIN PrunedNonces) <= Cardinality(DOMAIN seen)
  BY <1>2, FS_Subset DEF NoncesInv
<1>4. /\ Cardinality(DOMAIN seen) \in Nat /\ Cardinality(DOMAIN PrunedNonces) \in Nat
      /\ Cardinality(DOMAIN seen) <= NonceCache
  BY <1>3, FS_CardinalityType DEF NoncesInv
<1>5. ASSUME NEW n \in DOMAIN seen \ DOMAIN PrunedNonces
      PROVE  receiverClock > issued[n] + MaxSkew
  <2>1. /\ seen[n] \in Int /\ issued[n] \in Int
        /\ issued[n] <= seen[n] + MaxSkew /\ ~(seen[n] >= receiverClock - 2 * MaxSkew)
    BY <1>1, <1>2 DEF NoncesInv
  <2> QED BY <1>1, <2>1
<1> QED BY <1>1, <1>2, <1>3, <1>4, <1>5

LEMMA VerifyKeepsNonces == ASSUME NoncesInv, NEW n \in Nonces, Verify(n) PROVE NoncesInv'
<1>1. /\ MaxSkew \in Nat /\ NonceCache \in Nat
      /\ receiverClock \in Int /\ issued[n] \in Int
  BY NoncesAssumption DEF NoncesInv
<1>2. UNCHANGED <<receiverClock, issued>> /\ issued[n] # -1
  BY DEF Verify
<1>3. CASE Accepts(n)
  <2> DEFINE kept == DOMAIN PrunedNonces
  <2>1. /\ seen' = [m \in kept \cup {n} |-> IF m = n THEN receiverClock ELSE PrunedNonces[m]]
        /\ accepted' = [accepted EXCEPT ![n] = @ + 1]
    BY <1>3 DEF Verify
  <2>2. /\ n \notin DOMAIN seen /\ Cardinality(kept) < NonceCache
        /\ issued[n] - MaxSkew <= receiverClock /\ receiverClock <= issued[n] + MaxSkew
    BY <1>1, <1>3, WithinSkew DEF Accepts, RoomFor, Timely
  <2>3. accepted[n] = 0
    BY <1>1, <2>2 DEF NoncesInv
  <2>4. /\ kept \subseteq DOMAIN seen /\ IsFiniteSet(kept) /\ n \notin kept
        /\ \A m \in kept : PrunedNonces[m] = seen[m]
        /\ \A m \in DOMAIN seen \ kept : receiverClock > issued[m] + MaxSkew
    BY <2>2, PrunedIsStale
  <2>5. IsFiniteSet(kept \cup {n}) /\ Cardinality(kept \cup {n}) = Cardinality(kept) + 1
    BY <2>4, FS_AddElement
  <2>6. Cardinality(kept) \in Nat
    BY <2>4, FS_CardinalityType
  <2> HIDE DEF kept
  <2>7. DOMAIN seen' = kept \cup {n} /\ seen'[n] = receiverClock
        /\ \A m \in kept : seen'[m] = seen[m]
    BY <2>1, <2>4
  <2>8. /\ accepted' \in [Nonces -> {0, 1}] /\ accepted'[n] = 1
        /\ \A m \in Nonces : m # n => accepted'[m] = accepted[m]
    BY <2>1, <2>3 DEF NoncesInv
  <2>9. DOMAIN seen' \subseteq Nonces /\ IsFiniteSet(DOMAIN seen')
        /\ Cardinality(DOMAIN seen') <= NonceCache
    BY <1>1, <2>2, <2>4, <2>5, <2>6, <2>7 DEF NoncesInv
  <2>10. ASSUME NEW m \in DOMAIN seen'
         PROVE  /\ seen'[m] \in Int /\ accepted'[m] = 1 /\ issued[m] # -1
                /\ issued[m] - MaxSkew <= seen'[m] /\ seen'[m] <= issued[m] + MaxSkew
    <3>1. CASE m = n
      BY <1>1, <1>2, <2>2, <2>7, <2>8, <3>1
    <3>2. CASE m # n
      <4>1. m \in kept /\ m \in DOMAIN seen /\ m \in Nonces
        BY <2>4, <2>7, <3>2 DEF NoncesInv
      <4> QED BY <2>7, <2>8, <3>2, <4>1 DEF NoncesInv
    <3> QED BY <3>1, <3>2
  <2>11. ASSUME NEW m \in Nonces, accepted'[m] = 1
         PROVE  issued[m] # -1 /\ (m \in DOMAIN seen' \/ receiverClock > issued[m] + MaxSkew)
    <3>1. CASE m = n
      BY <1>2, <2>7, <3>1
    <3>2. CASE m # n
      <4>1. accepted[m] = 1
        BY <2>8, <2>11, <3>2
      <4> QED BY <2>4, <2>7, <4>1 DEF NoncesInv
    <3> QED BY <3>1, <3>2
  <2> QED BY <1>2, <2>8, <2>9, <2>10, <2>11 DEF NoncesInv
<1>4. CASE ~Accepts(n)
  <2>1. UNCHANGED accepted /\ (seen' = seen \/ seen' = PrunedNonces)
    BY <1>4 DEF Verify
  <2>2. /\ DOMAIN seen' \subseteq DOMAIN seen /\ IsFiniteSet(DOMAIN seen')
        /\ Cardinality(DOMAIN seen') <= NonceCache
        /\ \A m \in DOMAIN seen' : seen'[m] = seen[m]
        /\ \A m \in DOMAIN seen \ DOMAIN seen' : receiverClock > issued[m] + MaxSkew
    BY <2>1, PrunedIsStale DEF NoncesInv
  <2> QED BY <1>2, <2>1, <2>2 DEF NoncesInv
<1> QED BY <1>3, <1>4

LEMMA OthersKeepNonces ==
    ASSUME NoncesInv,
           \/ \E n \in Nonces, t \in 0..receiverClock + Ahead : Issue(n, t)
           \/ ReceiverTick \/ ReceiverRestarts \/ UNCHANGED nonceVars
    PROVE  NoncesInv'
<1>1. /\ MaxSkew \in Nat /\ NonceCache \in Nat /\ Ahead \in Nat
      /\ MaxReceiverClock \in Nat /\ receiverClock \in Int
  BY NoncesAssumption DEF NoncesInv
<1>2. ASSUME NEW n \in Nonces, NEW t \in 0..receiverClock + Ahead, Issue(n, t) PROVE NoncesInv'
  <2>1. /\ issued[n] = -1 /\ issued' = [issued EXCEPT ![n] = t]
        /\ UNCHANGED <<receiverClock, seen, accepted>> /\ t \in Int /\ t # -1
    BY <1>1, <1>2 DEF Issue
  <2>2. accepted[n] # 1 /\ n \notin DOMAIN seen
    BY <2>1 DEF NoncesInv
  <2>3. issued' \in [Nonces -> Int] /\ \A m \in Nonces : m # n => issued'[m] = issued[m]
    BY <2>1 DEF NoncesInv
  <2> QED BY <2>1, <2>2, <2>3 DEF NoncesInv
<1>3. CASE ReceiverTick
  <2>1. /\ receiverClock' = receiverClock + 1 /\ receiverClock' \in 0..MaxReceiverClock
        /\ UNCHANGED <<issued, seen, accepted>>
    BY <1>1, <1>3 DEF ReceiverTick, NoncesInv
  <2>2. \A n \in Nonces : issued[n] \in Int
    BY DEF NoncesInv
  <2>3. \A n \in Nonces : accepted[n] = 1 =>
            issued[n] # -1 /\ (n \in DOMAIN seen \/ receiverClock + 1 > issued[n] + MaxSkew)
    BY <1>1, <2>2 DEF NoncesInv
  <2> QED BY <2>1, <2>3 DEF NoncesInv
<1>4. CASE ReceiverRestarts
  <2>1. /\ DOMAIN seen' = {} /\ accepted' = [n \in Nonces |-> 0]
        /\ UNCHANGED <<receiverClock, issued>>
    BY <1>4 DEF ReceiverRestarts
  <2>2. IsFiniteSet({}) /\ Cardinality({}) = 0
    BY FS_EmptySet
  <2> QED BY <1>1, <2>1, <2>2 DEF NoncesInv
<1>5. CASE UNCHANGED nonceVars
  BY <1>5 DEF nonceVars, NoncesInv
<1> QED BY <1>2, <1>3, <1>4, <1>5

\* Through all delays and copies, the table of nonces keeps NoncesInv while it
\* forgets.
THEOREM NoncesInvHolds == NoncesSpec => []NoncesInv
<1>1. NoncesInit => NoncesInv
  <2> SUFFICES ASSUME NoncesInit PROVE NoncesInv
    OBVIOUS
  <2>1. IsFiniteSet({}) /\ Cardinality({}) = 0 /\ DOMAIN seen = {}
    BY FS_EmptySet DEF NoncesInit
  <2> QED BY <2>1, NoncesAssumption DEF NoncesInit, NoncesInv
<1>2. NoncesInv /\ [NoncesNext]_nonceVars => NoncesInv'
  BY VerifyKeepsNonces, OthersKeepNonces DEF NoncesNext
<1> QED BY <1>1, <1>2, PTL DEF NoncesSpec

\* A receiver of signed commands accepts each command at most once, however
\* late, how often and in whatever order its copies arrive and however far the
\* sender's clock is ahead, although it forgets nonces to bound its memory: by
\* the time a nonce is pruned the command it belongs to is stale.
THEOREM CommandsAcceptedOnceHolds == NoncesSpec => []CommandsAcceptedOnce
<1>1. NoncesInv => CommandsAcceptedOnce
  <2> SUFFICES ASSUME NoncesInv PROVE CommandsAcceptedOnce
    OBVIOUS
  <2>1. NoncesTypeOK /\ AcceptedOnce
    BY DEF NoncesInv, NoncesTypeOK, AcceptedOnce
  <2>2. RememberedWasAccepted
    <3>1. MaxSkew \in Nat
      BY NoncesAssumption
    <3>2. ASSUME NEW n \in DOMAIN seen
          PROVE  accepted[n] = 1 /\ Absolute(seen[n] - issued[n]) <= MaxSkew
      <4>1. /\ seen[n] \in Int /\ issued[n] \in Int /\ accepted[n] = 1
            /\ issued[n] - MaxSkew <= seen[n] /\ seen[n] <= issued[n] + MaxSkew
        BY DEF NoncesInv
      <4> QED BY <3>1, <4>1, WithinSkew
    <3> QED BY <3>2 DEF RememberedWasAccepted
  <2> QED BY <2>1, <2>2 DEF CommandsAcceptedOnce
<1> QED BY <1>1, NoncesInvHolds, PTL

---------------------------------------------------------------------------
(***************************************************************************)
(* Migrations of the ontology                                              *)
(***************************************************************************)

\* The last plan is exact and every observation is read under the version in
\* force, of which each definition is one.
MigrationInv ==
    /\ ontology \in Ontologies /\ followed \in BOOLEAN
    /\ \A o \in observed : o.property \in Iris
    /\ PlanIsExact
    /\ HistoryReadable

LEMMA OntologiesDefine ==
    ASSUME NEW o \in Ontologies
    PROVE  /\ DOMAIN o \subseteq Iris
           /\ \A u \in DOMAIN o : o[u] \in Definitions /\ o[u].low \in Int /\ o[u].high \in Int
                                  /\ o[u].low <= o[u].high
<1>1. PICK S \in SUBSET Iris : o \in [S -> Definitions]
  BY DEF Ontologies
<1> QED BY <1>1, MigrationAssumption

\* A definition is as wide as another exactly if it holds each of its values.
LEMMA WideningIsInclusion ==
    ASSUME NEW a \in Int, NEW b \in Int, NEW c \in Int, NEW d \in Int, a <= b
    PROVE  (a .. b \subseteq c .. d) <=> ~(c > a \/ d < b)
<1>1. ASSUME a .. b \subseteq c .. d PROVE ~(c > a \/ d < b)
  <2>1. a \in a .. b /\ b \in a .. b
    OBVIOUS
  <2> QED BY <1>1, <2>1
<1>2. ASSUME ~(c > a \/ d < b) PROVE a .. b \subseteq c .. d
  BY <1>2
<1> QED BY <1>1, <1>2

LEMMA NarrowedIsLoss ==
    ASSUME NEW d, NEW e, d.low \in Int, d.high \in Int, e.low \in Int, e.high \in Int, d.low <= d.high
    PROVE  (d.low .. d.high \subseteq e.low .. e.high) <=> ~(e.low > d.low \/ e.high < d.high)
BY WideningIsInclusion

\* The record r tells of property u of an ontology.
SaysOf(r, ont, u) ==
    /\ u \in DOMAIN ont
    /\ r.uri = u /\ r.unit = ont[u].unit /\ r.low = ont[u].low /\ r.high = ont[u].high

\* A snapshot has one record for each local name, of a property of that name.
LEMMA SnapshotsTell ==
    ASSUME NEW ont \in Ontologies, NEW snap \in Snapshots(ont)
    PROVE  /\ DOMAIN snap = NamesOf(ont)
           /\ \A n \in DOMAIN snap : SaysOf(snap[n], ont, snap[n].uri) /\ LocalName[snap[n].uri] = n
<1>1. PICK f \in [NamesOf(ont) -> DOMAIN ont] :
         (\A n \in NamesOf(ont) : LocalName[f[n]] = n) /\ snap = Snapshot(ont, f)
  BY DEF Snapshots
<1>2. DOMAIN snap = NamesOf(ont)
  BY <1>1 DEF Snapshot
<1>3. ASSUME NEW n \in NamesOf(ont)
      PROVE  SaysOf(snap[n], ont, snap[n].uri) /\ LocalName[snap[n].uri] = n
  <2>1. snap[n] = [uri |-> f[n], unit |-> ont[f[n]].unit, low |-> ont[f[n]].low,
                   high |-> ont[f[n]].high]
    BY <1>1 DEF Snapshot
  <2>2. snap[n].uri = f[n] /\ f[n] \in DOMAIN ont /\ LocalName[f[n]] = n
    BY <1>1, <2>1
  <2> QED BY <2>1, <2>2 DEF SaysOf
<1> QED BY <1>2, <1>3

\* A plan that found no loss keeps each property that is alone with its name.
LEMMA NoLossIsMissed ==
    ASSUME NEW old \in Ontologies, NEW new \in Ontologies,
           NEW before \in Snapshots(old), NEW after \in Snapshots(new),
           NEW f \in Renames(before, after), ~Breaking(before, after),
           NEW u \in DOMAIN old, Alone(old, new, u)
    PROVE  KeptBy(old, new, {<<before[p].uri, after[f[p]].uri>> : p \in DOMAIN f}, u)
<1> DEFINE n == LocalName[u]
           axioms == {<<before[p].uri, after[f[p]].uri>> : p \in DOMAIN f}
<1>1. /\ DOMAIN before = NamesOf(old) /\ DOMAIN after = NamesOf(new)
      /\ \A p \in DOMAIN before : SaysOf(before[p], old, before[p].uri) /\ LocalName[before[p].uri] = p
      /\ \A p \in DOMAIN after : SaysOf(after[p], new, after[p].uri) /\ LocalName[after[p].uri] = p
  BY SnapshotsTell
<1>2. n \in DOMAIN before /\ before[n].uri = u /\ SaysOf(before[n], old, u)
  <2>1. n \in NamesOf(old)
    BY DEF NamesOf
  <2>2. SaysOf(before[n], old, before[n].uri) /\ LocalName[before[n].uri] = n
    BY <1>1, <2>1
  <2>3. before[n].uri = u
    BY <2>2 DEF SaysOf, Alone
  <2> QED BY <1>1, <2>1, <2>2, <2>3
<1>3. CASE n \in DOMAIN after
  <2>1. SaysOf(after[n], new, after[n].uri) /\ LocalName[after[n].uri] = n
    BY <1>1, <1>3
  <2>2. after[n].uri = u
    BY <2>1 DEF SaysOf, Alone
  <2>3. before[n].unit = after[n].unit /\ ~Narrowed(before[n], after[n])
    BY <1>2, <1>3 DEF Breaking
  <2>4. /\ u \in DOMAIN new /\ new[u].unit = old[u].unit
        /\ ~(new[u].low > old[u].low \/ new[u].high < old[u].high)
    BY <1>2, <2>1, <2>2, <2>3 DEF SaysOf, Narrowed
  <2>5. (old[u].low .. old[u].high \subseteq new[u].low .. new[u].high) <=>
           ~(new[u].low > old[u].low \/ new[u].high < old[u].high)
    <3>1. /\ old[u].low \in Int /\ old[u].high \in Int /\ old[u].low <= old[u].high
          /\ new[u].low \in Int /\ new[u].high \in Int
      BY <2>4, OntologiesDefine
    <3> QED BY <3>1, NarrowedIsLoss
  <2> QED BY <2>4, <2>5 DEF KeptBy, Keeps
<1>4. CASE n \notin DOMAIN after
  <2>1. n \in Matched(before, after)
    BY <1>2, <1>4 DEF Breaking, Removed
  <2>2. n \in DOMAIN f /\ f[n] \in Candidates(before, after, n)
    BY <2>1 DEF Renames
  <2> DEFINE v == after[f[n]].uri
  <2>3. f[n] \in DOMAIN after /\ SameMeaning(before[n], after[f[n]])
    BY <2>2 DEF Candidates, Added
  <2>4. SaysOf(after[f[n]], new, v)
    BY <1>1, <2>3
  <2>5. Keeps(old, new, u, v)
    BY <1>2, <2>3, <2>4 DEF Keeps, SaysOf, SameMeaning
  <2>6. <<u, v>> \in axioms
    BY <1>2, <2>2
  <2>7. v \in DOMAIN new
    BY <2>4 DEF SaysOf
  <2> HIDE DEF v, axioms
  <2>8. KeptBy(old, new, axioms, u)
    BY <2>5, <2>6, <2>7 DEF KeptBy
  <2> QED BY <2>8 DEF axioms
<1> QED BY <1>3, <1>4

\* A plan that found a loss has one: a property alone with its name is not kept,
\* or there are two of one name.
LEMMA NoLossIsMadeUp ==
    ASSUME NEW old \in Ontologies, NEW new \in Ontologies,
           NEW before \in Snapshots(old), NEW after \in Snapshots(new),
           NEW f \in Renames(before, after), Breaking(before, after)
    PROVE  \E u \in DOMAIN old :
              Alone(old, new, u) =>
                 ~KeptBy(old, new, {<<before[p].uri, after[f[p]].uri>> : p \in DOMAIN f}, u)
<1> DEFINE axioms == {<<before[p].uri, after[f[p]].uri>> : p \in DOMAIN f}
<1>1. /\ DOMAIN before = NamesOf(old) /\ DOMAIN after = NamesOf(new)
      /\ \A p \in DOMAIN before : SaysOf(before[p], old, before[p].uri) /\ LocalName[before[p].uri] = p
      /\ \A p \in DOMAIN after : SaysOf(after[p], new, after[p].uri) /\ LocalName[after[p].uri] = p
  BY SnapshotsTell
<1>2. DOMAIN f = Matched(before, after) /\ Matched(before, after) \subseteq DOMAIN before \ DOMAIN after
  BY DEF Renames, Matched, Removed
\* an axiom from a property tells of its local name
<1>3. ASSUME NEW p \in DOMAIN before, NEW v, <<before[p].uri, v>> \in axioms
      PROVE  p \in DOMAIN f
  <2>1. PICK r \in DOMAIN f : <<before[p].uri, v>> = <<before[r].uri, after[f[r]].uri>>
    BY <1>3
  <2>2. r \in DOMAIN before /\ before[p].uri = before[r].uri
    BY <1>2, <2>1
  <2>3. p = r
    BY <1>1, <2>2
  <2> QED BY <2>1, <2>3
<1>4. PICK p \in DOMAIN before :
         \/ p \notin DOMAIN after /\ p \notin Matched(before, after)
         \/ p \in DOMAIN after /\ (before[p].unit # after[p].unit \/ Narrowed(before[p], after[p]))
  BY DEF Breaking, Removed
<1> DEFINE u == before[p].uri
<1>5. u \in DOMAIN old /\ SaysOf(before[p], old, u) /\ LocalName[u] = p
  BY <1>1, <1>4 DEF SaysOf
<1>6. p \notin DOMAIN f
  BY <1>2, <1>4
<1> HIDE DEF axioms
<1>7. ASSUME Alone(old, new, u) PROVE ~Keeps(old, new, u, u)
  <2>1. CASE p \notin DOMAIN after
    <3>1. u \in DOMAIN new => LocalName[u] \in NamesOf(new)
      BY DEF NamesOf
    <3>2. u \notin DOMAIN new
      BY <1>1, <1>5, <2>1, <3>1
    <3> QED BY <3>2 DEF Keeps
  <2>2. CASE p \in DOMAIN after
    <3>1. SaysOf(after[p], new, after[p].uri) /\ LocalName[after[p].uri] = p
      BY <1>1, <2>2
    <3>2. after[p].uri \in DOMAIN new
      BY <3>1 DEF SaysOf
    <3>3. after[p].uri = u
      BY <1>5, <1>7, <3>1, <3>2 DEF Alone
    <3>4. /\ u \in DOMAIN new
          /\ new[u].unit # old[u].unit \/ new[u].low > old[u].low \/ new[u].high < old[u].high
      BY <1>4, <1>5, <2>2, <3>1, <3>3 DEF SaysOf, Narrowed
    <3>5. /\ old[u].low \in Int /\ old[u].high \in Int /\ old[u].low <= old[u].high
          /\ new[u].low \in Int /\ new[u].high \in Int
      BY <1>5, <3>4, OntologiesDefine
    <3>6. (old[u].low .. old[u].high \subseteq new[u].low .. new[u].high) <=>
             ~(new[u].low > old[u].low \/ new[u].high < old[u].high)
      BY <3>5, NarrowedIsLoss
    <3> QED BY <3>4, <3>6 DEF Keeps
  <2> QED BY <2>1, <2>2
<1>8. Alone(old, new, u) => ~KeptBy(old, new, axioms, u)
  BY <1>3, <1>4, <1>6, <1>7 DEF KeptBy
<1> QED BY <1>5, <1>8 DEF axioms

\* Whether an observation can be read as a value of v.
Reads(o, onto, v) == v \in DOMAIN onto /\ o.unit = onto[v].unit /\ o.value \in onto[v].low .. onto[v].high

\* What a property keeps, an observation of it keeps.
LEMMA KeptIsRead ==
    ASSUME NEW o, NEW old, NEW new, NEW u, NEW v, Reads(o, old, u), Keeps(old, new, u, v)
    PROVE  Reads(o, new, v)
BY DEF Reads, Keeps

\* An axiom is followed where the others led.
LEMMA AxiomsLeadOn ==
    ASSUME NEW u, NEW v \in Reached(u), aligned \subseteq aligned'
    PROVE  /\ v \in Reached(u)'
           /\ \A w \in Iris : <<v, w>> \in aligned' => w \in Reached(u)'
<1>1. /\ v \in Iris
      /\ \A S \in SUBSET Iris : u \in S /\ (\A e \in aligned : e[1] \in S => e[2] \in S) => v \in S
  BY DEF Reached
<1>2. ASSUME NEW S \in SUBSET Iris, u \in S, \A e \in aligned' : e[1] \in S => e[2] \in S
      PROVE  v \in S /\ \A w \in Iris : <<v, w>> \in aligned' => w \in S
  <2>1. v \in S
    BY <1>1, <1>2
  <2>2. ASSUME NEW w \in Iris, <<v, w>> \in aligned' PROVE w \in S
    <3>1. <<v, w>>[1] \in S => <<v, w>>[2] \in S
      BY <1>2, <2>2
    <3> QED BY <2>1, <3>1
  <2> QED BY <2>1, <2>2
<1> QED BY <1>1, <1>2 DEF Reached

LEMMA KeepObservationKeeps ==
    ASSUME MigrationInv, NEW u \in Iris, NEW v, KeepObservation(u, v)
    PROVE  MigrationInv'
<1> DEFINE new == [property |-> u, unit |-> ontology[u].unit, value |-> v]
<1>1. /\ u \in DOMAIN ontology /\ v \in ontology[u].low .. ontology[u].high
      /\ observed' = observed \cup {new} /\ UNCHANGED <<ontology, aligned, plan, followed>>
  BY DEF KeepObservation
<1>2. u \in Reached(u)' /\ \A w : Reached(w)' = Reached(w)
  BY <1>1 DEF Reached
<1>3. Reads(new, ontology, u) /\ new.property = u
  BY <1>1 DEF Reads
<1> HIDE DEF new
<1>4. ASSUME followed, NEW o \in observed'
      PROVE  \E w \in Reached(o.property)' \cap DOMAIN ontology :
                o.unit = ontology[w].unit /\ o.value \in ontology[w].low .. ontology[w].high
  <2>1. CASE o = new
    BY <1>2, <1>3, <2>1 DEF Reads
  <2>2. CASE o \in observed
    BY <1>2, <1>4, <2>2 DEF MigrationInv, HistoryReadable
  <2> QED BY <1>1, <1>4, <2>1, <2>2
<1>5. HistoryReadable'
  BY <1>1, <1>4 DEF HistoryReadable
<1>6. PlanIsExact'
  BY <1>1 DEF MigrationInv, PlanIsExact
<1> QED BY <1>1, <1>3, <1>5, <1>6 DEF MigrationInv

LEMMA PlanKeeps ==
    ASSUME MigrationInv, NEW new \in Ontologies, NEW forced \in BOOLEAN, Plan(new, forced)
    PROVE  MigrationInv'
<1>1. PICK before \in Snapshots(ontology), after \in Snapshots(new) :
        \E f \in Renames(before, after) :
          LET breaking == Breaking(before, after)
              axioms == {<<before[p].uri, after[f[p]].uri>> : p \in DOMAIN f}
          IN /\ plan' = [old |-> ontology, new |-> new, axioms |-> axioms, forced |-> forced,
                         compatible |-> forced \/ ~breaking]
             /\ IF forced \/ ~breaking
                THEN /\ ontology' = new /\ aligned' = aligned \cup axioms
                     /\ followed' = (/\ followed /\ ~breaking
                                     /\ \A u \in DOMAIN ontology : Alone(ontology, new, u))
                ELSE UNCHANGED <<ontology, aligned, followed>>
  BY DEF Plan
<1>2. PICK f \in Renames(before, after) :
          LET breaking == Breaking(before, after)
              axioms == {<<before[p].uri, after[f[p]].uri>> : p \in DOMAIN f}
          IN /\ plan' = [old |-> ontology, new |-> new, axioms |-> axioms, forced |-> forced,
                         compatible |-> forced \/ ~breaking]
             /\ IF forced \/ ~breaking
                THEN /\ ontology' = new /\ aligned' = aligned \cup axioms
                     /\ followed' = (/\ followed /\ ~breaking
                                     /\ \A u \in DOMAIN ontology : Alone(ontology, new, u))
                ELSE UNCHANGED <<ontology, aligned, followed>>
  BY <1>1
<1> DEFINE axioms == {<<before[p].uri, after[f[p]].uri>> : p \in DOMAIN f}
           breaking == Breaking(before, after)
<1>3. ontology \in Ontologies /\ ontology' \in Ontologies /\ followed' \in BOOLEAN /\ observed' = observed
  BY <1>2 DEF Plan, MigrationInv
<1>4. \A u \in DOMAIN ontology :
         ~breaking /\ Alone(ontology, new, u) => KeptBy(ontology, new, axioms, u)
  BY <1>3, NoLossIsMissed
<1>5. breaking => \E u \in DOMAIN ontology :
                     Alone(ontology, new, u) => ~KeptBy(ontology, new, axioms, u)
  BY <1>3, NoLossIsMadeUp
<1>6. /\ plan'.old = ontology /\ plan'.new = new /\ plan'.axioms = axioms
      /\ plan'.forced = forced /\ plan'.compatible = (forced \/ ~breaking)
  BY <1>2
<1>7. /\ forced \/ ~breaking => /\ ontology' = new /\ aligned' = aligned \cup axioms
                                /\ followed' = (/\ followed /\ ~breaking
                                                /\ \A u \in DOMAIN ontology : Alone(ontology, new, u))
      /\ ~(forced \/ ~breaking) => UNCHANGED <<ontology, aligned, followed>>
  BY <1>2
<1> HIDE DEF axioms, breaking
<1>8. PlanIsExact'
  BY <1>4, <1>5, <1>6 DEF PlanIsExact
<1>9. HistoryReadable'
  <2>1. CASE ~(forced \/ ~breaking)
    BY <1>3, <1>7, <2>1 DEF MigrationInv, HistoryReadable, Reached
  <2>2. CASE forced \/ ~breaking
    <3> SUFFICES ASSUME followed', NEW o \in observed
                 PROVE  \E v \in Reached(o.property)' : Reads(o, new, v)
      BY <1>3, <1>7, <2>2 DEF HistoryReadable, Reads
    <3>1. followed /\ ~breaking /\ \A u \in DOMAIN ontology : Alone(ontology, new, u)
      BY <1>7, <2>2
    <3>2. PICK u \in Reached(o.property) : Reads(o, ontology, u)
      BY <3>1 DEF MigrationInv, HistoryReadable, Reads
    <3>3. u \in DOMAIN ontology /\ aligned \subseteq aligned' /\ axioms \subseteq aligned'
      BY <1>7, <2>2, <3>2 DEF Reads
    <3>4. u \in Reached(o.property)' /\ \A v \in Iris : <<u, v>> \in aligned' => v \in Reached(o.property)'
      BY <3>3, AxiomsLeadOn
    <3>5. KeptBy(ontology, new, axioms, u)
      BY <1>4, <3>1, <3>3
    <3>6. CASE Keeps(ontology, new, u, u)
      BY <3>2, <3>4, <3>6, KeptIsRead
    <3>7. CASE \E v \in DOMAIN new : <<u, v>> \in axioms /\ Keeps(ontology, new, u, v)
      <4>1. PICK v \in DOMAIN new : <<u, v>> \in axioms /\ Keeps(ontology, new, u, v)
        BY <3>7
      <4>2. v \in Iris /\ Reads(o, new, v)
        BY <3>2, <4>1, OntologiesDefine, KeptIsRead
      <4> QED BY <3>3, <3>4, <4>1, <4>2
    <3> QED BY <3>5, <3>6, <3>7 DEF KeptBy
  <2> QED BY <2>1, <2>2
<1> QED BY <1>3, <1>8, <1>9 DEF MigrationInv

\* Through every chain of versions, history and observations keep MigrationInv.
THEOREM MigrationInvHolds == MigrationSpec => []MigrationInv
<1>1. MigrationInit => MigrationInv
  <2> SUFFICES ASSUME MigrationInit PROVE MigrationInv
    OBVIOUS
  <2>1. DOMAIN plan.old = {} /\ plan.compatible
    BY DEF MigrationInit
  <2> QED BY <2>1, MigrationAssumption DEF MigrationInit, MigrationInv, PlanIsExact, HistoryReadable
<1>2. MigrationInv /\ [MigrationNext]_migrationVars => MigrationInv'
  <2> SUFFICES ASSUME MigrationInv, [MigrationNext]_migrationVars PROVE MigrationInv'
    OBVIOUS
  <2>1. CASE UNCHANGED migrationVars
    BY <2>1 DEF migrationVars, MigrationInv, PlanIsExact, HistoryReadable, Reached
  <2> QED BY <2>1, KeepObservationKeeps, PlanKeeps DEF MigrationNext
<1> QED BY <1>1, <1>2, PTL DEF MigrationSpec

\* For any ontologies, any local names and any chain of versions: a plan that may
\* not break misses no loss of a property alone with its name and is blocked for no
\* other reason than a loss or a shared name, and as long as neither was let into
\* force every observation can be read under the version that is.
THEOREM HistoryFollowsHolds == MigrationSpec => []HistoryFollows
<1>1. MigrationInv => HistoryFollows
  BY DEF MigrationInv, HistoryFollows
<1> QED BY <1>1, MigrationInvHolds, PTL

---------------------------------------------------------------------------
(***************************************************************************)
(* The OPC UA feed                                                         *)
(***************************************************************************)

\* The messages of a line are sorted by node, from what arrived, arr, to what
\* the node has, ver.
Sorted(line, arr, ver) ==
    /\ line \in Seq(Message)
    /\ \A i \in 1..Len(line) : arr[line[i].node] <= line[i].version
                               /\ line[i].version <= ver[line[i].node]
    /\ \A i, j \in 1..Len(line) :
          i < j /\ line[i].node = line[j].node => line[i].version <= line[j].version

\* The newest value of node n arrived, or is in the line.
InHand(n, line, arr, ver) ==
    arr[n] = ver[n] \/ \E i \in 1..Len(line) : line[i].node = n /\ line[i].version = ver[n]

FeedInv ==
    /\ version \in [Nodes -> 1..MaxVersions] /\ arrived \in [Nodes -> 0..MaxVersions]
    /\ \A n \in Nodes : arrived[n] <= version[n]
    /\ feed \in Seq(Message) /\ Len(feed) <= FeedQueue
    /\ forwarding = << >> \/ \E m \in Message : forwarding = <<m>>
    /\ link \in {"down", "open", "up", "dead"}
    /\ untold # {} => link \in {"open", "up"}
    /\ link = "up" => listed = Nodes
    /\ link \in {"down", "dead"} => listed = {}
    /\ Sorted(UnderWay, arrived, version)
    /\ link \in {"open", "up"} =>
          \A n \in Nodes \cap listed :
              n \in untold \cup spoiled \/ InHand(n, UnderWay, arrived, version)

LEMMA FeedConstants == FeedQueue \in Nat \ {0} /\ MaxVersions \in Nat \ {0}
BY FeedAssumption

\* A notification is the newest of its node: it goes to the end.
LEMMA SortedWithLast ==
    ASSUME NEW arr \in [Nodes -> 0..MaxVersions], NEW ver \in [Nodes -> 1..MaxVersions],
           \A m \in Nodes : arr[m] <= ver[m],
           NEW line, Sorted(line, arr, ver), NEW n \in Nodes,
           NEW msg, msg = [node |-> n, version |-> ver[n]]
    PROVE  /\ Sorted(Append(line, msg), arr, ver) /\ InHand(n, Append(line, msg), arr, ver)
           /\ \A m \in Nodes : InHand(m, line, arr, ver) => InHand(m, Append(line, msg), arr, ver)
<1> DEFINE u == Append(line, msg)
           k == Len(line)
<1>1. msg \in Message /\ msg.node = n /\ msg.version = ver[n] /\ ver[n] \in Int /\ arr[n] <= ver[n]
  BY DEF Message
<1>2. line \in Seq(Message)
  BY DEF Sorted
<1>3. /\ k \in Nat /\ Len(u) = k + 1 /\ u[k + 1] = msg /\ u \in Seq(Message)
      /\ \A i \in 1..k : u[i] = line[i]
  BY <1>1, <1>2
<1>4. /\ \A i \in 1..k : arr[line[i].node] <= line[i].version /\ line[i].version <= ver[line[i].node]
      /\ \A i, j \in 1..k : i < j /\ line[i].node = line[j].node => line[i].version <= line[j].version
  BY DEF Sorted
<1> HIDE DEF u, k
<1>5. ASSUME NEW i \in 1..(k + 1)
      PROVE  arr[u[i].node] <= u[i].version /\ u[i].version <= ver[u[i].node]
  <2>1. CASE i = k + 1
    BY <1>1, <1>3, <2>1
  <2>2. CASE i \in 1..k
    BY <1>3, <1>4, <2>2
  <2> QED BY <1>3, <2>1, <2>2
<1>6. ASSUME NEW i \in 1..(k + 1), NEW j \in 1..(k + 1), i < j, u[i].node = u[j].node
      PROVE  u[i].version <= u[j].version
  <2>1. i \in 1..k /\ u[i] = line[i]
    BY <1>3, <1>6
  <2>2. CASE j = k + 1
    BY <1>1, <1>3, <1>4, <1>6, <2>1, <2>2
  <2>3. CASE j \in 1..k
    BY <1>3, <1>4, <1>6, <2>1, <2>3
  <2> QED BY <1>3, <2>2, <2>3
<1>7. Sorted(u, arr, ver)
  BY <1>3, <1>5, <1>6 DEF Sorted
<1>8. InHand(n, u, arr, ver)
  <2>1. k + 1 \in 1..Len(u) /\ u[k + 1].node = n /\ u[k + 1].version = ver[n]
    BY <1>1, <1>3
  <2> QED BY <2>1 DEF InHand
<1>9. ASSUME NEW m \in Nodes, InHand(m, line, arr, ver) PROVE InHand(m, u, arr, ver)
  <2>1. \A i \in 1..k : i \in 1..Len(u) /\ u[i] = line[i]
    BY <1>3
  <2> QED BY <1>9, <2>1 DEF InHand, k
<1> QED BY <1>7, <1>8, <1>9 DEF u

\* The first of the line leaves it: it arrives, or is lost; what follows it is
\* no older, so that the newest value of its node stays in hand if another
\* message of the node follows.
LEMMA SortedWithoutFirst ==
    ASSUME NEW arr \in [Nodes -> 0..MaxVersions], NEW ver \in [Nodes -> 1..MaxVersions],
           NEW line, Sorted(line, arr, ver), line # << >>,
           NEW n, n = line[1].node, NEW v, v = line[1].version,
           NEW got, got = [arr EXCEPT ![n] = v]
    PROVE  /\ n \in Nodes /\ v \in 1..MaxVersions /\ arr[n] <= v /\ v <= ver[n]
           /\ Sorted(Tail(line), arr, ver) /\ Sorted(Tail(line), got, ver)
           /\ \A m \in Nodes : InHand(m, line, arr, ver) => InHand(m, Tail(line), got, ver)
           /\ \A m \in Nodes :
                 InHand(m, line, arr, ver) /\ (\E i \in 1..Len(Tail(line)) : Tail(line)[i].node = n) =>
                 InHand(m, Tail(line), arr, ver)
           /\ \A m \in Nodes : InHand(m, line, arr, ver) /\ m # n => InHand(m, Tail(line), arr, ver)
<1> DEFINE rest == Tail(line)
<1>1. line \in Seq(Message)
  BY DEF Sorted
<1>2. /\ rest \in Seq(Message) /\ line[1] \in Message
      /\ Len(line) \in Nat \ {0} /\ Len(rest) = Len(line) - 1
      /\ \A i \in 1..Len(rest) : rest[i] = line[i + 1] /\ rest[i] \in Message
  BY <1>1
<1>3. \A i \in 1..Len(rest) : i + 1 \in 1..Len(line) /\ 1 < i + 1
  BY <1>2
<1>4. 1 \in 1..Len(line)
  BY <1>2
<1>5. n \in Nodes /\ v \in 1..MaxVersions /\ arr[n] <= v /\ v <= ver[n]
  BY <1>2, <1>4 DEF Sorted, Message
<1> HIDE DEF rest
<1>6. \A i \in 1..Len(rest) : rest[i].node \in Nodes /\ rest[i].version \in 1..MaxVersions
  BY <1>2 DEF Message
<1>7. \A i \in 1..Len(rest) : rest[i].node = n => v <= rest[i].version
  BY <1>2, <1>3, <1>4 DEF Sorted
<1>8. \A i \in 1..Len(rest) : arr[rest[i].node] <= rest[i].version
                              /\ rest[i].version <= ver[rest[i].node]
  BY <1>2, <1>3 DEF Sorted
<1>9. ASSUME NEW i \in 1..Len(rest), NEW j \in 1..Len(rest), i < j, rest[i].node = rest[j].node
      PROVE  rest[i].version <= rest[j].version
  <2>1. i + 1 \in 1..Len(line) /\ j + 1 \in 1..Len(line) /\ i + 1 < j + 1
    BY <1>3, <1>2, <1>9
  <2> QED BY <1>2, <1>9, <2>1 DEF Sorted
<1>10. Sorted(rest, arr, ver)
  BY <1>2, <1>8, <1>9 DEF Sorted
<1>11. got[n] = v /\ \A m \in Nodes : m # n => got[m] = arr[m]
  BY <1>5
<1>12. Sorted(rest, got, ver)
  BY <1>2, <1>6, <1>7, <1>8, <1>9, <1>11 DEF Sorted
<1>13. \A i \in 1..Len(line) : i = 1 \/ \E j \in 1..Len(rest) : rest[j] = line[i]
  <2> SUFFICES ASSUME NEW i \in 1..Len(line), i # 1 PROVE \E j \in 1..Len(rest) : rest[j] = line[i]
    OBVIOUS
  <2>1. i - 1 \in 1..Len(rest) /\ (i - 1) + 1 = i
    BY <1>2
  <2>2. rest[i - 1] = line[i]
    BY <1>2, <2>1
  <2> QED BY <2>1, <2>2
<1>14. ASSUME NEW m \in Nodes, InHand(m, line, arr, ver)
       PROVE  /\ InHand(m, rest, got, ver)
              /\ m # n => InHand(m, rest, arr, ver)
              /\ (\E i \in 1..Len(rest) : rest[i].node = n) => InHand(m, rest, arr, ver)
  <2>0. arr[m] \in Int /\ ver[m] \in Int /\ v \in Int
    BY <1>5
  <2>1. CASE arr[m] = ver[m]
    <3>1. got[m] = ver[m]
      BY <1>5, <1>11, <2>0, <2>1
    <3> QED BY <2>1, <3>1 DEF InHand
  <2>2. CASE line[1].node = m /\ line[1].version = ver[m]
    <3>1. got[m] = ver[m] /\ m = n
      BY <1>11, <2>2
    <3>2. ASSUME NEW i \in 1..Len(rest), rest[i].node = n PROVE InHand(m, rest, arr, ver)
      <4>1. v <= rest[i].version /\ rest[i].version <= ver[n] /\ v = ver[n] /\ rest[i].version \in Int
        BY <1>6, <1>7, <1>8, <2>2, <3>1, <3>2
      <4>2. rest[i].version = ver[m]
        BY <2>0, <3>1, <4>1
      <4> QED BY <3>1, <3>2, <4>2 DEF InHand
    <3> QED BY <3>1, <3>2 DEF InHand
  <2>3. CASE \E j \in 1..Len(rest) : rest[j].node = m /\ rest[j].version = ver[m]
    BY <2>3 DEF InHand
  <2> QED BY <1>13, <1>14, <2>1, <2>2, <2>3 DEF InHand
<1> QED BY <1>5, <1>10, <1>12, <1>14 DEF rest

\* Steps that leave the messages and the values alone.
LEMMA ListeningKeeps ==
    ASSUME FeedInv,
           \/ ConnectionLost \/ OpenLink \/ Subscribe \/ Subscribed \/ UNCHANGED feedVars
           \/ \E n \in Nodes : NotifyRefused(n)
    PROVE  FeedInv'
<1>1. /\ UNCHANGED <<version, feed, forwarding, arrived>> /\ UnderWay' = UnderWay
  BY DEF ConnectionLost, OpenLink, Subscribe, Subscribed, feedVars, NotifyRefused, UnderWay
<1>3. /\ link' \in {"down", "open", "up", "dead"}
      /\ untold' # {} => link' \in {"open", "up"}
      /\ link' = "up" => listed' = Nodes
      /\ link' \in {"down", "dead"} => listed' = {}
  BY DEF ConnectionLost, OpenLink, Subscribe, Subscribed, feedVars, NotifyRefused, FeedInv, AllListed
<1>4. ASSUME link' \in {"open", "up"}, NEW n \in Nodes \cap listed'
      PROVE  n \in untold' \cup spoiled' \/ InHand(n, UnderWay, arrived, version)
  <2>1. n \in untold' \cup spoiled' \/ (n \in listed /\ link \in {"open", "up"} /\
             untold \cup spoiled \subseteq untold' \cup spoiled')
    BY <1>4 DEF ConnectionLost, OpenLink, Subscribe, Subscribed, feedVars, NotifyRefused, FeedInv
  <2> QED BY <2>1 DEF FeedInv
<1> QED BY <1>1, <1>3, <1>4 DEF FeedInv

LEMMA NodeChangesKeeps == ASSUME FeedInv, NEW n \in Nodes, NodeChanges(n) PROVE FeedInv'
<1>1. /\ version[n] < MaxVersions /\ version' = [version EXCEPT ![n] = @ + 1]
      /\ untold' = (IF n \in listed /\ link \in {"open", "up"} THEN untold \cup {n} ELSE untold)
      /\ UNCHANGED <<link, listed, feed, forwarding, arrived, spoiled, faults>>
      /\ UnderWay' = UnderWay
  BY DEF NodeChanges, UnderWay
<1>2. /\ version' \in [Nodes -> 1..MaxVersions]
      /\ \A m \in Nodes : version'[m] >= version[m] /\ (m # n => version'[m] = version[m])
      /\ \A m \in Nodes : arrived[m] \in Int /\ version[m] \in Int /\ version'[m] \in Int
  BY <1>1, FeedConstants DEF FeedInv
<1>3. Sorted(UnderWay, arrived, version')
  <2>1. Sorted(UnderWay, arrived, version) /\ UnderWay \in Seq(Message)
    BY DEF FeedInv, Sorted
  <2>2. ASSUME NEW i \in 1..Len(UnderWay)
        PROVE  UnderWay[i].node \in Nodes /\ UnderWay[i].version \in Int
    <3>1. UnderWay[i] \in Message
      BY <2>1
    <3> QED BY <3>1, FeedConstants DEF Message
  <2> QED BY <1>2, <2>1, <2>2 DEF Sorted
<1>4. \A m \in Nodes : arrived'[m] <= version'[m]
  BY <1>1, <1>2 DEF FeedInv
<1>5. ASSUME link \in {"open", "up"}, NEW m \in Nodes \cap listed
      PROVE  m \in untold' \cup spoiled \/ InHand(m, UnderWay, arrived, version')
  <2>1. m \in untold \cup spoiled \/ InHand(m, UnderWay, arrived, version)
    BY <1>5 DEF FeedInv
  <2>2. CASE m = n
    BY <1>1, <1>5, <2>2
  <2>3. CASE m # n
    BY <1>1, <1>2, <2>1, <2>3 DEF InHand
  <2> QED BY <2>2, <2>3
<1> QED BY <1>1, <1>2, <1>3, <1>4, <1>5 DEF FeedInv

LEMMA ReloadKeeps == ASSUME FeedInv, Reload PROVE FeedInv'
<1>1. /\ feed' = << >> /\ forwarding' = << >> /\ link' = "down" /\ listed' = {} /\ untold' = {}
      /\ UNCHANGED <<version, arrived>>
  BY DEF Reload
<1>2. UnderWay' = << >>
  BY <1>1 DEF UnderWay
<1>3. Sorted(<< >>, arrived, version)
  BY DEF Sorted
<1>4. feed' \in Seq(Message) /\ Len(feed') <= FeedQueue
  BY <1>1, FeedConstants
<1> QED BY <1>1, <1>2, <1>3, <1>4 DEF FeedInv

LEMMA NotifyKeeps == ASSUME FeedInv, NEW n \in Nodes, Notify(n) PROVE FeedInv'
<1>0. /\ n \in untold /\ untold' = untold \ {n}
      /\ UNCHANGED <<link, listed, version, forwarding, arrived, faults>>
  BY DEF Notify
<1>1. CASE Full(feed)
  <2>1. feed' = feed /\ spoiled' = spoiled \cup {n} /\ UnderWay' = UnderWay
    BY <1>0, <1>1 DEF Notify, UnderWay
  <2> QED BY <1>0, <2>1 DEF FeedInv
<1>2. CASE ~Full(feed)
  <2> DEFINE msg == [node |-> n, version |-> version[n]]
             line == Append(UnderWay, msg)
  <2>1. feed' = Append(feed, msg) /\ spoiled' = spoiled \ {n}
    BY <1>2 DEF Notify, PutLast
  <2>2. msg \in Message
    BY DEF FeedInv, Message
  <2>3. feed \in Seq(Message) /\ forwarding \in Seq(Message)
    <3>1. \A m \in Message : <<m>> \in Seq(Message)
      OBVIOUS
    <3>2. << >> \in Seq(Message)
      OBVIOUS
    <3> QED BY <3>1, <3>2 DEF FeedInv
  <2>4. feed' \in Seq(Message) /\ Len(feed') <= FeedQueue
    <3>1. Len(feed) \in Nat /\ Len(feed) < FeedQueue
      BY <1>2, <2>3, FeedConstants DEF Full
    <3> QED BY <2>1, <2>2, <2>3, <3>1, FeedConstants
  <2>5. UnderWay' = line
    BY <1>0, <2>1, <2>2, <2>3 DEF UnderWay
  <2>6. /\ version \in [Nodes -> 1..MaxVersions] /\ arrived \in [Nodes -> 0..MaxVersions]
        /\ \A m \in Nodes : arrived[m] <= version[m]
        /\ Sorted(UnderWay, arrived, version)
    BY DEF FeedInv
  <2>7. /\ Sorted(line, arrived, version) /\ InHand(n, line, arrived, version)
        /\ \A m \in Nodes :
              InHand(m, UnderWay, arrived, version) => InHand(m, line, arrived, version)
    BY <2>6, SortedWithLast
  <2> HIDE DEF line, msg
  <2> QED BY <1>0, <2>1, <2>4, <2>5, <2>7 DEF FeedInv
<1> QED BY <1>1, <1>2

LEMMA TakeMessageKeeps == ASSUME FeedInv, TakeMessage PROVE FeedInv'
<1>1. /\ feed # << >> /\ forwarding = << >> /\ forwarding' = <<Head(feed)>> /\ feed' = Tail(feed)
      /\ UNCHANGED <<link, listed, version, untold, arrived, spoiled, faults>>
  BY DEF TakeMessage
<1>2. feed \in Seq(Message) /\ Len(feed) <= FeedQueue
  BY DEF FeedInv
<1>3. /\ Head(feed) \in Message /\ feed' \in Seq(Message) /\ Len(feed') <= FeedQueue
      /\ <<Head(feed)>> \o Tail(feed) = << >> \o feed
  BY <1>1, <1>2, FeedConstants
<1>4. UnderWay' = UnderWay
  BY <1>1, <1>3 DEF UnderWay
<1> QED BY <1>1, <1>3, <1>4 DEF FeedInv

\* The message under way is the first of the line.
LEMMA FirstLeaves ==
    ASSUME FeedInv, forwarding # << >>, forwarding' = << >>, feed' = feed
    PROVE  /\ UnderWay # << >> /\ UnderWay[1] = forwarding[1]
           /\ UnderWay' = Tail(UnderWay) /\ Tail(UnderWay) = feed
<1>1. PICK m \in Message : forwarding = <<m>>
  BY DEF FeedInv
<1>2. feed \in Seq(Message)
  BY DEF FeedInv
<1>3. UnderWay = <<m>> \o feed /\ UnderWay' = << >> \o feed
  BY <1>1 DEF UnderWay
<1> QED BY <1>1, <1>2, <1>3

LEMMA MessageLeavesKeeps == ASSUME FeedInv, Forwarded \/ ForwardFails PROVE FeedInv'
<1> DEFINE line == UnderWay
           n == line[1].node
           v == line[1].version
           got == [arrived EXCEPT ![n] = v]
<1>1. /\ forwarding # << >> /\ forwarding' = << >> /\ feed' = feed
      /\ UNCHANGED <<link, listed, version, untold>>
  BY DEF Forwarded, ForwardFails
<1>2. line # << >> /\ line[1] = forwarding[1] /\ UnderWay' = Tail(line) /\ Tail(line) = feed
  BY <1>1, FirstLeaves
<1>3. /\ version \in [Nodes -> 1..MaxVersions] /\ arrived \in [Nodes -> 0..MaxVersions]
      /\ \A m \in Nodes : arrived[m] <= version[m]
      /\ Sorted(line, arrived, version)
      /\ link \in {"open", "up"} =>
            \A m \in Nodes \cap listed :
                m \in untold \cup spoiled \/ InHand(m, line, arrived, version)
  BY DEF FeedInv
<1>4. /\ n \in Nodes /\ v \in 1..MaxVersions /\ arrived[n] <= v /\ v <= version[n]
      /\ Sorted(Tail(line), arrived, version) /\ Sorted(Tail(line), got, version)
      /\ \A m \in Nodes : InHand(m, line, arrived, version) => InHand(m, Tail(line), got, version)
      /\ \A m \in Nodes :
            InHand(m, line, arrived, version)
            /\ (\E i \in 1..Len(Tail(line)) : Tail(line)[i].node = n) =>
            InHand(m, Tail(line), arrived, version)
      /\ \A m \in Nodes :
            InHand(m, line, arrived, version) /\ m # n => InHand(m, Tail(line), arrived, version)
  BY <1>2, <1>3, SortedWithoutFirst
<1> HIDE DEF line, got
<1>5. CASE Forwarded
  <2>1. arrived' = got /\ UNCHANGED spoiled
    BY <1>2, <1>5 DEF Forwarded, got
  <2>2. got \in [Nodes -> 0..MaxVersions] /\ \A m \in Nodes : got[m] <= version[m]
    BY <1>3, <1>4, FeedConstants DEF got
  <2> QED BY <1>1, <1>2, <1>3, <1>4, <2>1, <2>2 DEF FeedInv
<1>6. CASE ForwardFails
  <2>1. /\ UNCHANGED arrived
        /\ spoiled' = IF \E i \in 1..Len(feed) : feed[i].node = n THEN spoiled ELSE spoiled \cup {n}
    BY <1>2, <1>6 DEF ForwardFails
  <2>2. ASSUME link \in {"open", "up"}, NEW m \in Nodes \cap listed
        PROVE  m \in untold \cup spoiled' \/ InHand(m, Tail(line), arrived, version)
    BY <1>2, <1>3, <1>4, <2>1, <2>2
  <2> QED BY <1>1, <1>2, <1>3, <1>4, <2>1, <2>2 DEF FeedInv
<1> QED BY <1>5, <1>6

\* Through full queues, lost connections and reloads, the feed keeps FeedInv.
THEOREM FeedInvHolds == FeedSpec => []FeedInv
<1>1. FeedInit => FeedInv
  <2> SUFFICES ASSUME FeedInit PROVE FeedInv
    OBVIOUS
  <2>1. /\ version = [n \in Nodes |-> 1] /\ arrived = [n \in Nodes |-> 0]
        /\ UnderWay = << >> /\ feed = << >> /\ forwarding = << >> /\ link = "down"
        /\ listed = {} /\ untold = {}
    BY DEF FeedInit, UnderWay
  <2>2. Sorted(<< >>, arrived, version)
    BY DEF Sorted
  <2>3. version \in [Nodes -> 1..MaxVersions] /\ arrived \in [Nodes -> 0..MaxVersions]
    BY <2>1, FeedConstants
  <2>4. \A n \in Nodes : arrived[n] <= version[n]
    BY <2>1
  <2>5. feed \in Seq(Message) /\ Len(feed) <= FeedQueue
    BY <2>1, FeedConstants
  <2> QED BY <2>1, <2>2, <2>3, <2>4, <2>5 DEF FeedInv
<1>2. FeedInv /\ [FeedNext]_feedVars => FeedInv'
  BY ListeningKeeps, NodeChangesKeeps, ReloadKeeps, NotifyKeeps, TakeMessageKeeps,
     MessageLeavesKeeps DEF FeedNext
<1> QED BY <1>1, <1>2, PTL DEF FeedSpec

\* Over any number of changes, refusals, full queues, lost connections and
\* reloads: the queue is bounded, the values of a node reach the backend in the
\* order the node had them, and while the adapter is up the newest value of
\* every node arrived, is in hand, is still owed or came to nothing.
THEOREM FeedKeepsUpHolds == FeedSpec => []FeedKeepsUp
<1>1. FeedInv => FeedKeepsUp
  <2> SUFFICES ASSUME FeedInv PROVE FeedKeepsUp
    OBVIOUS
  <2>1. feed \in Seq(Message) /\ UnderWay \in Seq(Message) /\ Len(UnderWay) \in Nat
    BY DEF FeedInv, Sorted
  <2>2. PICK front : /\ forwarding = front /\ UnderWay = front \o feed
                     /\ (front = << >> \/ \E m \in Message : front = <<m>>)
    BY DEF UnderWay, FeedInv
  <2>3. /\ \A i \in 1..Len(feed) : \E j \in 1..Len(UnderWay) : UnderWay[j] = feed[i]
        /\ \A j \in 1..Len(UnderWay) : \/ forwarding # << >> /\ UnderWay[j] = forwarding[1]
                                       \/ \E i \in 1..Len(feed) : UnderWay[j] = feed[i]
    <3>1. CASE front = << >>
      BY <2>1, <2>2, <3>1
    <3>2. CASE \E m \in Message : front = <<m>>
      <4>1. PICK m \in Message : front = <<m>>
        BY <3>2
      <4>2. /\ Len(UnderWay) = Len(feed) + 1 /\ Len(feed) \in Nat /\ UnderWay[1] = m
            /\ \A i \in 1..Len(feed) : UnderWay[i + 1] = feed[i]
        BY <2>1, <2>2, <4>1
      <4>3. ASSUME NEW i \in 1..Len(feed) PROVE \E j \in 1..Len(UnderWay) : UnderWay[j] = feed[i]
        <5>1. i + 1 \in 1..Len(UnderWay)
          BY <4>2
        <5> QED BY <4>2, <5>1
      <4>4. ASSUME NEW j \in 1..Len(UnderWay), j # 1
            PROVE  \E i \in 1..Len(feed) : UnderWay[j] = feed[i]
        <5>1. j - 1 \in 1..Len(feed) /\ (j - 1) + 1 = j
          BY <4>2, <4>4
        <5>2. UnderWay[j] = feed[j - 1]
          BY <4>2, <5>1
        <5> QED BY <5>1, <5>2
      <4> QED BY <2>2, <4>1, <4>2, <4>3, <4>4
    <3> QED BY <2>2, <3>1, <3>2
  <2>4. FeedTypeOK
    BY <2>3 DEF FeedInv, Sorted, FeedTypeOK
  <2>5. NothingMissedUnseen
    <3> SUFFICES ASSUME link = "up", NEW n \in Nodes, n \notin untold \cup spoiled,
                        arrived[n] # version[n]
                 PROVE  \/ \E i \in 1..Len(feed) : feed[i].node = n
                        \/ forwarding # << >> /\ forwarding[1].node = n
      BY DEF NothingMissedUnseen
    <3>1. n \in Nodes \cap listed /\ link \in {"open", "up"}
      BY DEF FeedInv
    <3>2. InHand(n, UnderWay, arrived, version)
      BY <3>1 DEF FeedInv
    <3>3. PICK j \in 1..Len(UnderWay) : UnderWay[j].node = n
      BY <3>2 DEF InHand
    <3>4. CASE forwarding # << >> /\ UnderWay[j] = forwarding[1]
      BY <3>3, <3>4
    <3>5. CASE \E i \in 1..Len(feed) : UnderWay[j] = feed[i]
      <4>1. PICK i \in 1..Len(feed) : UnderWay[j] = feed[i]
        BY <3>5
      <4> QED BY <3>3, <4>1
    <3> QED BY <2>3, <3>4, <3>5
  <2>6. ArrivesInOrder
    <3>1. DOMAIN UnderWay = 1..Len(UnderWay)
      BY <2>1
    <3> QED BY <3>1 DEF FeedInv, Sorted, ArrivesInOrder
  <2> QED BY <2>4, <2>5, <2>6 DEF FeedKeepsUp
<1> QED BY <1>1, FeedInvHolds, PTL

---------------------------------------------------------------------------
(***************************************************************************)
(* The ledger of decisions                                                 *)
(***************************************************************************)

Decision == [id : Int, policy : Rules, count : Int]

\* Where the list has the decision that p was engaged by, if it has it.
PlaceOf(p) == decided + 1 - engagedBy[p]

\* The list is the newest decisions without a gap; no record of a policy is newer
\* than the one it was engaged by, and that one has the count, unless it fell off
\* the end of a full list.
LedgerInv ==
    /\ decided \in Nat
    /\ records \in Seq(Decision) /\ Len(records) <= MaxRecords /\ Len(records) <= decided
    /\ \A i \in 1..Len(records) : records[i].id = decided + 1 - i
    /\ byId = Ids(records) /\ Ids(records) \cup gone = 1..decided
    /\ engagedNow \subseteq Rules
    /\ evaluated \in [Rules -> Int] /\ engagedBy \in [Rules -> 0..decided]
    /\ \A p \in Rules : \A i \in 1..Len(records) :
          records[i].policy = p => records[i].id <= engagedBy[p]
    /\ \A p \in engagedNow :
          /\ engagedBy[p] >= 1
          /\ IF PlaceOf(p) <= Len(records)
             THEN records[PlaceOf(p)].policy = p /\ records[PlaceOf(p)].count = evaluated[p]
             ELSE Len(records) = MaxRecords

LEMMA LedgerConstants == IsFiniteSet(Rules) /\ MaxRecords \in Nat \ {0}
BY LedgerAssumption

\* An order of a finite set names each of its members once.
LEMMA OrderNamesEach ==
    ASSUME NEW S, IsFiniteSet(S)
    PROVE  LET order == SetToSeq(S)
           IN /\ order \in Seq(S) /\ Len(order) = Cardinality(S)
              /\ \A i, j \in 1..Len(order) : order[i] = order[j] => i = j
              /\ \A x \in S : \E i \in 1..Len(order) : order[i] = x
<1> DEFINE n == Cardinality(S)
           order == SetToSeq(S)
<1>1. n \in Nat /\ ExistsBijection(1..n, S)
  BY FS_CardinalityType
<1>2. \E f \in [1..n -> S] : IsInjective(f)
  BY <1>1 DEF ExistsBijection, Bijection, Injection
<1>3. order \in [1..n -> S] /\ IsInjective(order)
  BY <1>2 DEF SetToSeq
<1> HIDE DEF order
<1>4. order \in Seq(S) /\ Len(order) = n
  BY <1>1, <1>3
<1>5. \A i, j \in 1..n : order[i] = order[j] => i = j
  BY <1>3 DEF IsInjective
<1>6. order \in Surjection(1..n, S)
  <2>1. Cardinality(1..n) = n
    BY <1>1, FS_Interval
  <2>2. order \in Injection(1..n, S)
    BY <1>3 DEF Injection
  <2> QED BY <2>1, <2>2, FS_Injection
<1>7. \A x \in S : \E i \in 1..n : order[i] = x
  BY <1>6 DEF Surjection
<1> QED BY <1>4, <1>5, <1>7 DEF order

\* The first record of an engaged policy is that of the decision it was engaged
\* by, or there is none.
LEMMA NewestIsTheOneInForce ==
    ASSUME LedgerInv, NEW p \in engagedNow
    PROVE  NewestOf(p) = IF PlaceOf(p) <= Len(records) THEN PlaceOf(p) ELSE 0
<1> DEFINE I == {i \in 1..Len(records) : records[i].policy = p}
           k == PlaceOf(p)
<1>1. NewestOf(p) = IF I # {} THEN CHOOSE x \in I : \A y \in I : x =< y ELSE 0
  BY DEF NewestOf, SelectInSeq, Min
<1>2. p \in Rules /\ Len(records) \in Nat /\ decided \in Nat /\ MaxRecords \in Nat /\ engagedBy[p] \in 1..decided
  BY LedgerConstants DEF LedgerInv
<1>3. k \in Nat /\ k >= 1 /\ k = decided + 1 - engagedBy[p]
  BY <1>2 DEF PlaceOf
<1>4. \A i \in I : k <= i
  <2> SUFFICES ASSUME NEW i \in I PROVE k <= i
    OBVIOUS
  <2>1. decided + 1 - i <= engagedBy[p]
    BY <1>2 DEF LedgerInv
  <2> QED BY <1>2, <1>3, <2>1
<1>5. CASE k <= Len(records)
  <2>1. k \in I
    BY <1>2, <1>3, <1>5 DEF LedgerInv
  <2> HIDE DEF I, k
  <2>2. \A x \in I : (\A y \in I : x =< y) => x = k
    <3> SUFFICES ASSUME NEW x \in I, \A y \in I : x =< y PROVE x = k
      OBVIOUS
    <3>1. x =< k /\ k <= x /\ x \in Int
      BY <1>4, <2>1 DEF I
    <3> QED BY <1>3, <3>1
  <2>3. NewestOf(p) = k
    BY <1>1, <1>4, <2>1, <2>2
  <2> QED BY <1>5, <2>3 DEF k
<1>6. CASE ~(k <= Len(records))
  <2>1. I = {}
    BY <1>2, <1>3, <1>4, <1>6
  <2> QED BY <1>1, <1>6, <2>1
<1> QED BY <1>5, <1>6

\* Of the engaged policies, those that are touched count one more, and nothing
\* else of them changes.
LEMMA TouchedCounts ==
    ASSUME LedgerInv, NEW P \in SUBSET engagedNow
    PROVE  /\ Touched(P) \in Seq(Decision) /\ Len(Touched(P)) = Len(records)
           /\ \A i \in 1..Len(records) : /\ Touched(P)[i].id = records[i].id
                                         /\ Touched(P)[i].policy = records[i].policy
           /\ \A p \in engagedNow : PlaceOf(p) <= Len(records) =>
                 Touched(P)[PlaceOf(p)].count =
                    IF p \in P THEN evaluated[p] + 1 ELSE evaluated[p]
<1> DEFINE hit == {NewestOf(p) : p \in P}
           t == Touched(P)
<1>1. records \in Seq(Decision) /\ Len(records) \in Nat /\ DOMAIN records = 1..Len(records)
      /\ \A i \in 1..Len(records) : records[i] \in Decision
  BY DEF LedgerInv
<1>2. t = [i \in 1..Len(records) |->
              IF i \in hit THEN [records[i] EXCEPT !.count = records[i].count + 1] ELSE records[i]]
  BY <1>1 DEF Touched
<1>3. \A r \in Decision : LET s == [r EXCEPT !.count = r.count + 1]
                          IN s \in Decision /\ s.id = r.id /\ s.policy = r.policy /\ s.count = r.count + 1
  BY DEF Decision
<1> HIDE DEF t, hit
<1>4. ASSUME NEW i \in 1..Len(records)
      PROVE  /\ t[i] \in Decision /\ t[i].id = records[i].id /\ t[i].policy = records[i].policy
             /\ t[i].count = IF i \in hit THEN records[i].count + 1 ELSE records[i].count
  <2>1. records[i] \in Decision
    BY <1>1
  <2>2. t[i] = IF i \in hit THEN [records[i] EXCEPT !.count = records[i].count + 1] ELSE records[i]
    BY <1>2
  <2> QED BY <1>3, <2>1, <2>2
<1>5. t \in Seq(Decision) /\ Len(t) = Len(records)
  BY <1>1, <1>2, <1>4
<1>6. ASSUME NEW p \in engagedNow, PlaceOf(p) <= Len(records)
      PROVE  t[PlaceOf(p)].count = IF p \in P THEN evaluated[p] + 1 ELSE evaluated[p]
  <2> DEFINE k == PlaceOf(p)
  <2>1. k \in 1..Len(records) /\ records[k].policy = p /\ records[k].count = evaluated[p]
    BY <1>1, <1>6 DEF LedgerInv, PlaceOf
  <2>2. k \in hit <=> p \in P
    <3>1. ASSUME p \in P PROVE k \in hit
      BY <1>6, <3>1, NewestIsTheOneInForce DEF hit
    <3>2. ASSUME k \in hit PROVE p \in P
      <4>1. PICK q \in P : k = NewestOf(q)
        BY <3>2 DEF hit
      <4>2. q \in engagedNow /\ k # 0
        BY <2>1
      <4>3. k = PlaceOf(q) /\ PlaceOf(q) <= Len(records)
        BY <4>1, <4>2, NewestIsTheOneInForce
      <4>4. records[k].policy = q
        BY <4>2, <4>3 DEF LedgerInv
      <4> QED BY <2>1, <4>1, <4>4
    <3> QED BY <3>1, <3>2
  <2> HIDE DEF k
  <2>3. t[k].count = IF k \in hit THEN records[k].count + 1 ELSE records[k].count
    BY <1>4, <2>1
  <2> QED BY <2>1, <2>2, <2>3 DEF k
<1> QED BY <1>4, <1>5, <1>6 DEF t

\* What is put in front of the list, and how much of it is kept.
LEMMA RecordedIsAPrefix ==
    ASSUME NEW l \in Seq(Decision), NEW new \in Seq(Decision)
    PROVE  LET r == Recorded(l, new)
           IN /\ r \in Seq(Decision) /\ Len(r) \in Nat
              /\ Len(r) = IF Len(new) + Len(l) < MaxRecords THEN Len(new) + Len(l) ELSE MaxRecords
              /\ \A i \in 1..Len(r) : i <= Len(new) => i \in 1..Len(new) /\ r[i] = new[i]
              /\ \A i \in 1..Len(r) : i > Len(new) => i - Len(new) \in 1..Len(l) /\ r[i] = l[i - Len(new)]
<1> DEFINE all == new \o l
           m == IF Len(all) < MaxRecords THEN Len(all) ELSE MaxRecords
           r == SubSeq(all, 1, m)
<1>1. /\ all \in Seq(Decision) /\ Len(all) = Len(new) + Len(l) /\ Len(new) \in Nat /\ Len(l) \in Nat
      /\ \A i \in 1..Len(new) : all[i] = new[i]
      /\ \A i \in 1..Len(l) : all[i + Len(new)] = l[i]
  OBVIOUS
<1> HIDE DEF all
<1>2. m \in 0..Len(all)
  BY <1>1, LedgerConstants
<1>3. m = IF Len(new) + Len(l) < MaxRecords THEN Len(new) + Len(l) ELSE MaxRecords
  BY <1>1
<1> HIDE DEF m
<1>4. r \in Seq(Decision) /\ Len(r) = m /\ \A i \in 1..m : r[i] = all[i]
  BY <1>1, <1>2
<1> HIDE DEF r
<1>5. ASSUME NEW i \in 1..m, i <= Len(new) PROVE i \in 1..Len(new) /\ r[i] = new[i]
  BY <1>1, <1>2, <1>4, <1>5
<1>6. ASSUME NEW i \in 1..m, i > Len(new) PROVE i - Len(new) \in 1..Len(l) /\ r[i] = l[i - Len(new)]
  <2>1. i - Len(new) \in 1..Len(l) /\ (i - Len(new)) + Len(new) = i
    BY <1>1, <1>2, <1>6
  <2>2. all[(i - Len(new)) + Len(new)] = l[i - Len(new)]
    BY <1>1, <2>1
  <2> QED BY <1>4, <2>1, <2>2
<1> QED BY <1>2, <1>3, <1>4, <1>5, <1>6 DEF r, m, all, Recorded

\* The lists of a step, and the ids that are kept and given up.
LEMMA IndexFollows ==
    ASSUME NEW l \in Seq(Decision), NEW new \in Seq(Decision), byId = Ids(l)
    PROVE  /\ Indexed(l, new) = Ids(Recorded(l, new))
           /\ Ids(Recorded(l, new)) \subseteq Ids(new) \cup Ids(l)
           /\ Ids(new \o l) = Ids(new) \cup Ids(l)
<1> DEFINE r == Recorded(l, new)
<1>1. Ids(new \o l) = Ids(new) \cup Ids(l)
  <2> DEFINE all == new \o l
  <2>1. /\ all \in Seq(Decision) /\ Len(all) = Len(new) + Len(l) /\ Len(new) \in Nat /\ Len(l) \in Nat
        /\ \A i \in 1..Len(new) : all[i] = new[i]
        /\ \A i \in 1..Len(l) : all[i + Len(new)] = l[i]
    OBVIOUS
  <2> HIDE DEF all
  <2>2. DOMAIN all = 1..Len(all) /\ DOMAIN new = 1..Len(new) /\ DOMAIN l = 1..Len(l)
    BY <2>1
  <2>3. ASSUME NEW i \in 1..Len(all)
        PROVE  (\E j \in 1..Len(new) : all[i] = new[j]) \/ (\E j \in 1..Len(l) : all[i] = l[j])
    <3>1. CASE i <= Len(new)
      BY <2>1, <3>1
    <3>2. CASE i > Len(new)
      <4>1. i - Len(new) \in 1..Len(l) /\ (i - Len(new)) + Len(new) = i
        BY <2>1, <3>2
      <4>2. all[(i - Len(new)) + Len(new)] = l[i - Len(new)]
        BY <2>1, <4>1
      <4> QED BY <4>1, <4>2
    <3> QED BY <2>1, <3>1, <3>2
  <2>4. ASSUME NEW j \in 1..Len(new) PROVE \E i \in 1..Len(all) : all[i] = new[j]
    <3>1. j \in 1..Len(all)
      BY <2>1
    <3> QED BY <2>1, <3>1
  <2>5. ASSUME NEW j \in 1..Len(l) PROVE \E i \in 1..Len(all) : all[i] = l[j]
    <3>1. j + Len(new) \in 1..Len(all)
      BY <2>1
    <3> QED BY <2>1, <3>1
  <2>6. Ids(all) \subseteq Ids(new) \cup Ids(l)
    BY <2>2, <2>3 DEF Ids
  <2>7. Ids(new) \subseteq Ids(all) /\ Ids(l) \subseteq Ids(all)
    <3>1. ASSUME NEW x \in Ids(new) PROVE x \in Ids(all)
      <4>1. PICK j \in 1..Len(new) : x = new[j].id
        BY <2>2 DEF Ids
      <4>2. PICK i \in 1..Len(all) : all[i] = new[j]
        BY <2>4
      <4> QED BY <2>2, <4>1, <4>2 DEF Ids
    <3>2. ASSUME NEW x \in Ids(l) PROVE x \in Ids(all)
      <4>1. PICK j \in 1..Len(l) : x = l[j].id
        BY <2>2 DEF Ids
      <4>2. PICK i \in 1..Len(all) : all[i] = l[j]
        BY <2>5
      <4> QED BY <2>2, <4>1, <4>2 DEF Ids
    <3> QED BY <3>1, <3>2
  <2> QED BY <2>6, <2>7 DEF all
<1>2. Ids(r) \subseteq Ids(new) \cup Ids(l)
  <2>1. /\ r \in Seq(Decision)
        /\ \A i \in 1..Len(r) : i <= Len(new) => i \in 1..Len(new) /\ r[i] = new[i]
        /\ \A i \in 1..Len(r) : i > Len(new) => i - Len(new) \in 1..Len(l) /\ r[i] = l[i - Len(new)]
    BY RecordedIsAPrefix
  <2>2. DOMAIN r = 1..Len(r) /\ DOMAIN new = 1..Len(new) /\ DOMAIN l = 1..Len(l) /\ Len(new) \in Nat
    BY <2>1
  <2> HIDE DEF r
  <2>3. ASSUME NEW i \in 1..Len(r)
        PROVE  (\E j \in 1..Len(new) : r[i] = new[j]) \/ (\E j \in 1..Len(l) : r[i] = l[j])
    <3>1. CASE i <= Len(new)
      BY <2>1, <3>1
    <3>2. CASE i > Len(new)
      BY <2>1, <3>2
    <3> QED BY <2>2, <3>1, <3>2
  <2> QED BY <2>2, <2>3 DEF Ids
<1> QED BY <1>1, <1>2 DEF Indexed

LEMMA EvaluateKeeps ==
    ASSUME LedgerInv, NEW H \in SUBSET Rules, NEW E \in SUBSET H, Evaluate(H, E)
    PROVE  LedgerInv'
<1> DEFINE t == Touched(H \cap engagedNow)
           order == SetToSeq(E)
           n == Len(order)
           new == [i \in DOMAIN order |->
                     [id |-> decided + n + 1 - i, policy |-> order[i], count |-> 1]]
           at(p) == CHOOSE i \in DOMAIN order : order[i] = p
<1>1. /\ order \in Seq(E) /\ n \in Nat
      /\ \A i, j \in 1..n : order[i] = order[j] => i = j
      /\ \A x \in E : \E i \in 1..n : order[i] = x
  <2>1. IsFiniteSet(E)
    BY FS_Subset, LedgerConstants
  <2>2. /\ order \in Seq(E) /\ n = Cardinality(E)
        /\ \A i, j \in 1..n : order[i] = order[j] => i = j
        /\ \A x \in E : \E i \in 1..n : order[i] = x
    BY <2>1, OrderNamesEach
  <2> QED BY <2>1, <2>2, FS_CardinalityType
<1>2. /\ E \subseteq H \ engagedNow
      /\ records' = Recorded(t, new) /\ byId' = Indexed(t, new)
      /\ gone' = gone \cup (Ids(new \o t) \ Ids(Recorded(t, new)))
      /\ engagedNow' = engagedNow \cup E /\ decided' = decided + n
      /\ evaluated' = [p \in Rules |-> IF p \in E THEN 1
                           ELSE IF p \in H \cap engagedNow THEN evaluated[p] + 1 ELSE evaluated[p]]
      /\ engagedBy' = [p \in Rules |-> IF p \in E THEN decided + n + 1 - at(p) ELSE engagedBy[p]]
  BY DEF Evaluate
<1>3. \A p \in E : at(p) \in 1..n /\ order[at(p)] = p
  BY <1>1
<1> HIDE DEF at
<1>4. /\ DOMAIN order = 1..n /\ \A i \in 1..n : order[i] \in E /\ order[i] \in Rules
  BY <1>1
<1> HIDE DEF order, n
<1>5. /\ decided \in Nat /\ Len(records) \in Nat /\ MaxRecords \in Nat \ {0} /\ engagedNow \subseteq Rules
      /\ \A p \in Rules : evaluated[p] \in Int /\ engagedBy[p] \in 0..decided
  BY LedgerConstants DEF LedgerInv
<1>6. /\ new \in Seq(Decision) /\ Len(new) = n
      /\ \A i \in 1..n : new[i].id = decided + n + 1 - i /\ new[i].policy = order[i] /\ new[i].count = 1
  <2>1. \A i \in 1..n : [id |-> decided + n + 1 - i, policy |-> order[i], count |-> 1] \in Decision
    BY <1>1, <1>4, <1>5 DEF Decision
  <2> QED BY <1>1, <1>4, <2>1
<1> HIDE DEF new
<1>7. /\ t \in Seq(Decision) /\ Len(t) = Len(records)
      /\ \A i \in 1..Len(records) : t[i].id = records[i].id /\ t[i].policy = records[i].policy
      /\ \A p \in engagedNow : PlaceOf(p) <= Len(records) =>
            t[PlaceOf(p)].count = IF p \in H \cap engagedNow THEN evaluated[p] + 1 ELSE evaluated[p]
  <2>1. H \cap engagedNow \in SUBSET engagedNow
    OBVIOUS
  <2> QED BY <2>1, TouchedCounts
<1> HIDE DEF t
<1>8. /\ records' \in Seq(Decision) /\ Len(records') \in Nat
      /\ Len(records') = IF n + Len(records) < MaxRecords THEN n + Len(records) ELSE MaxRecords
      /\ \A i \in 1..Len(records') : i <= n => i \in 1..n /\ records'[i] = new[i]
      /\ \A i \in 1..Len(records') : i > n => i - n \in 1..Len(records) /\ records'[i] = t[i - n]
  BY <1>2, <1>6, <1>7, RecordedIsAPrefix, ZenonT(30)
<1>9. decided' \in Nat /\ Len(records') <= MaxRecords /\ Len(records') <= decided'
  BY <1>1, <1>2, <1>5, <1>8 DEF LedgerInv
<1>10. ASSUME NEW i \in 1..Len(records') PROVE records'[i].id = decided' + 1 - i
  <2>1. CASE i <= n
    BY <1>1, <1>2, <1>5, <1>6, <1>8, <2>1
  <2>2. CASE i > n
    <3>1. i - n \in 1..Len(records) /\ records'[i] = t[i - n]
      BY <1>8, <2>2
    <3>2. records'[i].id = decided + 1 - (i - n)
      BY <1>7, <3>1 DEF LedgerInv
    <3> QED BY <1>1, <1>2, <1>5, <3>2
  <2> QED BY <1>1, <2>1, <2>2
<1>11. byId' = Ids(records') /\ Ids(records') \cup gone' = 1..decided'
  <2>1. Ids(t) = Ids(records)
    <3>1. DOMAIN t = 1..Len(records) /\ DOMAIN records = 1..Len(records)
      BY <1>7 DEF LedgerInv
    <3> QED BY <1>7, <3>1 DEF Ids
  <2>2. byId = Ids(t)
    BY <2>1 DEF LedgerInv
  <2>3. /\ Indexed(t, new) = Ids(Recorded(t, new))
        /\ Ids(Recorded(t, new)) \subseteq Ids(new) \cup Ids(t)
        /\ Ids(new \o t) = Ids(new) \cup Ids(t)
    BY <1>6, <1>7, <2>2, IndexFollows
  <2>4. Ids(new) = decided + 1 .. decided + n
    <3>1. DOMAIN new = 1..n
      BY <1>6
    <3>2. ASSUME NEW d \in decided + 1 .. decided + n PROVE \E i \in 1..n : new[i].id = d
      <4>1. decided + n + 1 - d \in 1..n /\ d = decided + n + 1 - (decided + n + 1 - d)
        BY <1>1, <1>5
      <4>2. new[decided + n + 1 - d].id = decided + n + 1 - (decided + n + 1 - d)
        BY <1>6, <4>1
      <4> QED BY <4>1, <4>2
    <3>3. ASSUME NEW i \in 1..n PROVE new[i].id \in decided + 1 .. decided + n
      BY <1>1, <1>5, <1>6
    <3> QED BY <3>1, <3>2, <3>3 DEF Ids
  <2>5. Ids(records') \cup gone' = Ids(new) \cup Ids(records) \cup gone
    BY <1>2, <2>1, <2>3
  <2>6. Ids(records) \cup gone = 1..decided
    BY DEF LedgerInv
  <2>7. (decided + 1 .. decided + n) \cup 1..decided = 1..decided + n
    BY <1>1, <1>5
  <2> QED BY <1>2, <2>3, <2>4, <2>5, <2>6, <2>7
<1>12. engagedNow' \subseteq Rules /\ evaluated' \in [Rules -> Int] /\ engagedBy' \in [Rules -> 0..decided']
  <2>1. \A p \in Rules : (IF p \in E THEN 1 ELSE IF p \in H \cap engagedNow THEN evaluated[p] + 1
                          ELSE evaluated[p]) \in Int
    BY <1>5
  <2>2. ASSUME NEW p \in Rules
        PROVE  (IF p \in E THEN decided + n + 1 - at(p) ELSE engagedBy[p]) \in 0..decided + n
    <3>1. p \in E => at(p) \in 1..n
      BY <1>3
    <3>2. engagedBy[p] \in 0..decided
      BY <1>5
    <3> QED BY <1>1, <1>5, <3>1, <3>2
  <2> QED BY <1>2, <1>5, <2>1, <2>2
<1>13. ASSUME NEW p \in Rules, NEW i \in 1..Len(records'), records'[i].policy = p
       PROVE  records'[i].id <= engagedBy'[p]
  <2>1. records'[i].id = decided + n + 1 - i
    BY <1>1, <1>2, <1>5, <1>10
  <2>2. CASE i <= n
    <3>1. i \in 1..n /\ order[i] = p /\ p \in E
      BY <1>4, <1>6, <1>8, <1>13, <2>2
    <3>2. at(p) = i
      BY <1>1, <1>3, <3>1 DEF n
    <3> QED BY <1>1, <1>2, <1>5, <2>1, <3>1, <3>2
  <2>3. CASE i > n
    <3>1. i - n \in 1..Len(records) /\ records[i - n].policy = p
      BY <1>7, <1>8, <1>13, <2>3
    <3>2. decided + 1 - (i - n) <= engagedBy[p] /\ engagedBy[p] \in 0..decided
      BY <1>5, <3>1 DEF LedgerInv
    <3>3. p \in E => at(p) \in 1..n
      BY <1>3
    <3> QED BY <1>1, <1>2, <1>5, <2>1, <3>1, <3>2, <3>3
  <2> QED BY <1>1, <2>2, <2>3
<1>14. ASSUME NEW p \in engagedNow'
       PROVE  /\ engagedBy'[p] >= 1
              /\ IF decided' + 1 - engagedBy'[p] <= Len(records')
                 THEN /\ records'[decided' + 1 - engagedBy'[p]].policy = p
                      /\ records'[decided' + 1 - engagedBy'[p]].count = evaluated'[p]
                 ELSE Len(records') = MaxRecords
  <2>0. p \in Rules
    BY <1>12
  <2>1. CASE p \in E
    <3>1. at(p) \in 1..n /\ order[at(p)] = p
      BY <1>3, <2>1
    <3>2. engagedBy'[p] = decided + n + 1 - at(p) /\ evaluated'[p] = 1
      BY <1>2, <2>0, <2>1
    <3>3. decided' + 1 - engagedBy'[p] = at(p) /\ engagedBy'[p] >= 1
      BY <1>1, <1>2, <1>5, <3>1, <3>2
    <3>4. CASE at(p) <= Len(records')
      <4>1. records'[at(p)] = new[at(p)]
        BY <1>1, <1>8, <3>1, <3>4
      <4> QED BY <1>6, <3>1, <3>2, <3>3, <3>4, <4>1
    <3>5. CASE ~(at(p) <= Len(records'))
      BY <1>1, <1>5, <1>8, <3>1, <3>3, <3>5
    <3> QED BY <3>4, <3>5
  <2>2. CASE p \notin E
    <3> DEFINE k == PlaceOf(p)
    <3>1. p \in engagedNow /\ engagedBy'[p] = engagedBy[p] /\ engagedBy[p] \in 1..decided
      BY <1>2, <1>5, <2>0, <2>2 DEF LedgerInv
    <3>2. decided' + 1 - engagedBy'[p] = k + n /\ k \in Nat \ {0} /\ engagedBy'[p] >= 1
      BY <1>1, <1>2, <1>5, <3>1 DEF PlaceOf
    <3>3. evaluated'[p] = IF p \in H \cap engagedNow THEN evaluated[p] + 1 ELSE evaluated[p]
      BY <1>2, <2>0, <2>2
    <3> HIDE DEF k
    <3>4. CASE k + n <= Len(records')
      <4>1. (k + n) - n = k /\ k + n \in 1..Len(records') /\ k + n > n
        BY <1>1, <1>8, <3>2, <3>4
      <4>2. k \in 1..Len(records) /\ records'[k + n] = t[k]
        BY <1>8, <4>1
      <4>3. k <= Len(records) /\ records[k].policy = p
        BY <3>1, <4>2, <1>5 DEF k, LedgerInv
      <4>4. t[k].count = evaluated'[p]
        BY <1>7, <3>1, <3>3, <4>3 DEF k
      <4> QED BY <1>7, <3>2, <3>4, <4>2, <4>3, <4>4
    <3>5. CASE ~(k + n <= Len(records'))
      <4>1. k > Len(records) => Len(records) = MaxRecords
        BY <1>5, <3>1, <3>2 DEF k, LedgerInv
      <4>2. Len(records') = MaxRecords
        BY <1>1, <1>5, <1>8, <3>2, <3>5, <4>1
      <4> QED BY <3>2, <3>5, <4>2
    <3> QED BY <3>4, <3>5
  <2> QED BY <2>1, <2>2
<1> QED BY <1>8, <1>9, <1>10, <1>11, <1>12, <1>13, <1>14 DEF LedgerInv, PlaceOf

LEMMA LetGoKeeps == ASSUME LedgerInv, NEW p \in Rules, LetGo(p) PROVE LedgerInv'
<1>1. /\ engagedNow' = engagedNow \ {p} /\ evaluated' = [evaluated EXCEPT ![p] = 0]
      /\ UNCHANGED <<records, byId, decided, engagedBy, gone>>
  BY DEF LetGo
<1>2. \A q \in engagedNow' : q \in engagedNow /\ evaluated'[q] = evaluated[q] /\ PlaceOf(q)' = PlaceOf(q)
  BY <1>1 DEF LedgerInv, PlaceOf
<1>3. evaluated' \in [Rules -> Int] /\ engagedNow' \subseteq Rules
  BY <1>1 DEF LedgerInv
<1>4. \A q \in engagedNow' :
          /\ engagedBy[q] >= 1
          /\ IF PlaceOf(q)' <= Len(records)
             THEN records[PlaceOf(q)'].policy = q /\ records[PlaceOf(q)'].count = evaluated'[q]
             ELSE Len(records) = MaxRecords
  BY <1>2 DEF LedgerInv
<1> QED BY <1>1, <1>3, <1>4 DEF LedgerInv

LEMMA ResetLedgerKeeps == ASSUME LedgerInv, ResetLedger PROVE LedgerInv'
<1>1. /\ records' = << >> /\ byId' = {} /\ engagedNow' = {} /\ evaluated' = [p \in Rules |-> 0]
      /\ gone' = gone \cup Ids(records) /\ UNCHANGED <<decided, engagedBy>>
  BY DEF ResetLedger
<1>2. Ids(records') = {}
  BY <1>1 DEF Ids
<1>3. records' \in Seq(Decision) /\ Len(records') = 0
  BY <1>1
<1> QED BY <1>1, <1>2, <1>3, LedgerConstants DEF LedgerInv

\* Through evaluations, releases, evictions and resets, list and index of the
\* ledger keep LedgerInv.
THEOREM LedgerInvHolds == LedgerSpec => []LedgerInv
<1>1. LedgerInit => LedgerInv
  <2> SUFFICES ASSUME LedgerInit PROVE LedgerInv
    OBVIOUS
  <2>1. /\ records = << >> /\ byId = {} /\ engagedNow = {} /\ decided = 0 /\ gone = {}
        /\ evaluated = [p \in Rules |-> 0] /\ engagedBy = [p \in Rules |-> 0]
    BY DEF LedgerInit
  <2>2. Ids(records) = {}
    BY <2>1 DEF Ids
  <2>3. records \in Seq(Decision) /\ Len(records) = 0
    BY <2>1
  <2> QED BY <2>1, <2>2, <2>3, LedgerConstants DEF LedgerInv
<1>2. LedgerInv /\ [LedgerNext]_ledgerVars => LedgerInv'
  <2> SUFFICES ASSUME LedgerInv, [LedgerNext]_ledgerVars PROVE LedgerInv'
    OBVIOUS
  <2>1. CASE UNCHANGED ledgerVars
    BY <2>1 DEF ledgerVars, LedgerInv, PlaceOf
  <2>2. ASSUME NEW H \in SUBSET Rules, NEW E \in SUBSET H, Evaluate(H, E) PROVE LedgerInv'
    BY <2>2, EvaluateKeeps
  <2> QED BY <2>1, <2>2, LetGoKeeps, ResetLedgerKeeps DEF LedgerNext
<1> QED BY <1>1, <1>2, PTL DEF LedgerSpec

\* For any number of policies and records kept: list and index tell of the same
\* decisions, only trimmed ones are missing, and the decision a policy is engaged
\* by counts every occurrence of its hazard, whatever others were recorded since.
THEOREM LedgerCountsHolds == LedgerSpec => []LedgerCounts
<1>1. LedgerInv => LedgerCounts
  <2> SUFFICES ASSUME LedgerInv PROVE LedgerCounts
    OBVIOUS
  <2>1. /\ decided \in Nat /\ Len(records) \in Nat /\ MaxRecords \in Nat \ {0}
        /\ DOMAIN records = 1..Len(records) /\ \A i \in 1..Len(records) : records[i] \in Decision
    BY LedgerConstants DEF LedgerInv
  <2>2. LedgerIsWhole
    <3>1. \A i \in 1..Len(records) : records[i].id = decided + 1 - i
      BY DEF LedgerInv
    <3>2. ASSUME NEW i \in 1..Len(records), NEW j \in 1..Len(records), i < j
          PROVE  records[i].id > records[j].id
      <4>1. records[i].id = decided + 1 - i /\ records[j].id = decided + 1 - j
        BY <3>1
      <4> QED BY <2>1, <3>2, <4>1
    <3>3. byId = Ids(records) /\ Ids(records) \cup gone = 1..decided /\ Len(records) <= MaxRecords
      BY DEF LedgerInv
    <3> QED BY <2>1, <3>2, <3>3 DEF LedgerIsWhole
  <2>3. ASSUME NEW p \in engagedNow
        PROVE  \/ [id |-> engagedBy[p], policy |-> p, count |-> evaluated[p]] \in ToSet(records)
               \/ engagedBy[p] <= decided - MaxRecords /\ engagedBy[p] \in gone
    <3> DEFINE k == PlaceOf(p)
    <3>1. k = decided + 1 - engagedBy[p] /\ engagedBy[p] \in 1..decided /\ p \in Rules
      <4>1. p \in Rules /\ engagedBy \in [Rules -> 0..decided] /\ engagedBy[p] >= 1
        BY DEF LedgerInv
      <4>2. engagedBy[p] \in 0..decided
        BY <4>1
      <4> QED BY <2>1, <4>1, <4>2 DEF PlaceOf
    <3> HIDE DEF k
    <3>2. CASE k <= Len(records)
      <4>1. k \in 1..Len(records)
        BY <2>1, <3>1, <3>2
      <4>2. records[k].policy = p /\ records[k].count = evaluated[p]
        BY <3>2 DEF LedgerInv, k
      <4>3. records[k].id = engagedBy[p]
        <5>1. records[k].id = decided + 1 - k
          BY <4>1 DEF LedgerInv
        <5> QED BY <2>1, <3>1, <5>1
      <4>4. records[k] \in Decision
        BY <2>1, <4>1
      <4>5. \A r \in Decision : r = [id |-> r.id, policy |-> r.policy, count |-> r.count]
        BY DEF Decision
      <4>6. records[k] = [id |-> engagedBy[p], policy |-> p, count |-> evaluated[p]]
        BY <4>2, <4>3, <4>4, <4>5
      <4> QED BY <2>1, <4>1, <4>6 DEF ToSet
    <3>3. CASE ~(k <= Len(records))
      <4>1. Len(records) = MaxRecords
        BY <3>3 DEF LedgerInv, k
      <4>2. engagedBy[p] <= decided - MaxRecords
        BY <2>1, <3>1, <3>3, <4>1
      <4>3. \A i \in 1..Len(records) : records[i].id # engagedBy[p]
        <5>1. \A i \in 1..Len(records) : records[i].id = decided + 1 - i
          BY DEF LedgerInv
        <5>2. \A i \in 1..Len(records) : i # k
          BY <2>1, <3>1, <3>3
        <5> QED BY <2>1, <3>1, <5>1, <5>2
      <4>4. engagedBy[p] \notin Ids(records)
        BY <2>1, <4>3 DEF Ids
      <4>5. engagedBy[p] \in gone
        BY <3>1, <4>4 DEF LedgerInv
      <4> QED BY <4>2, <4>5
    <3> QED BY <3>2, <3>3
  <2> QED BY <2>2, <2>3 DEF LedgerCounts, OccurrencesCounted
<1> QED BY <1>1, LedgerInvHolds, PTL

---------------------------------------------------------------------------
(***************************************************************************)
(* Admission                                                               *)
(***************************************************************************)

\* k tokens, and what k ticks bring, in parts of a token
Parts(k) == k * Cost
Brings(k) == k * Rate

\* What a bucket holds, tokens at the moment last, accounts for the requests s
\* that were let in: they took no more than the burst and what came in since
\* any one of them, and no less since some one of them if it is not full.
Accounts(tokens, last, s) ==
    /\ \A i \in 1..Len(s) :
          tokens + Parts(Len(s) - i + 1) <= Parts(Burst) + Brings(last - s[i])
    /\ \/ tokens = Parts(Burst)
       \/ \E i \in 1..Len(s) :
             tokens + Parts(Len(s) - i + 1) >= Parts(Burst) + Brings(last - s[i])

\* RateIsKept, of one client
Rhythm(s) ==
    \A i, j \in 1..Len(s) : i <= j => Parts(j - i) <= Parts(Burst - 1) + Brings(s[j] - s[i])

BucketInv(c) ==
    IF c \in DOMAIN bucket
    THEN /\ bucket[c].tokens \in 0..Parts(Burst)
         /\ bucket[c].last \in Nat /\ bucket[c].last <= moment
         /\ Accounts(bucket[c].tokens, bucket[c].last, let[c])
    ELSE let[c] = << >>

MetricsType == [requests : Nat, errors : Nat, limited : Nat, large : Nat]

MetricsInv ==
    /\ running \in Nat /\ arrivals \in Nat /\ erased \in Nat
    /\ metrics \in MetricsType
    /\ arrivals = erased + Counted + running /\ metrics.errors <= metrics.requests

AdmissionInv ==
    /\ MetricsInv
    /\ moment \in Nat
    /\ let \in [Clients -> Seq(Nat)] /\ DOMAIN bucket \subseteq Clients
    /\ \A c \in Clients : BucketInv(c) /\ Rhythm(let[c])
    /\ \A x \in turned :
          /\ x[1] \in Clients /\ x[3] \in 0..Len(let[x[1]])
          /\ \E i \in 1..x[3] : Parts(x[3] - i + 2) > Parts(Burst) + Brings(x[2] - let[x[1]][i])

LEMMA AdmissionConstants == Burst \in Nat \ {0} /\ Cost \in Nat \ {0} /\ Rate \in Nat
BY AdmissionAssumption

LEMMA PartsAdd ==
    /\ \A k \in Int : Parts(k) \in Int /\ Parts(k + 1) = Parts(k) + Cost
    /\ \A k \in Nat : Parts(k) >= 0
    /\ Parts(0) = 0 /\ Parts(1) = Cost /\ Parts(Burst) >= Cost
<1>0. Burst \in Nat \ {0} /\ Cost \in Nat \ {0}
  BY AdmissionConstants
<1>1. ASSUME NEW k \in Int PROVE Parts(k) \in Int /\ Parts(k + 1) = Parts(k) + Cost
  BY <1>0 DEF Parts
<1>2. ASSUME NEW k \in Nat PROVE Parts(k) >= 0
  BY <1>0 DEF Parts
<1>3. Parts(0) = 0 /\ Parts(1) = Cost
  BY <1>0 DEF Parts
<1>4. Parts(Burst) >= Cost
  <2>1. Burst - 1 \in Nat /\ Parts((Burst - 1) + 1) = Parts(Burst - 1) + Cost
    BY <1>0, <1>1
  <2>2. (Burst - 1) + 1 = Burst
    BY <1>0
  <2>3. Parts(Burst) = Parts(Burst - 1) + Cost
    BY <2>1, <2>2
  <2> QED BY <1>0, <1>1, <1>2, <2>1, <2>3
<1> QED BY <1>1, <1>2, <1>3, <1>4

LEMMA BringsAdd ==
    /\ \A k \in Int : Brings(k) \in Int
    /\ \A k \in Nat : Brings(k) >= 0
    /\ \A j, k \in Int : Brings(j + k) = Brings(j) + Brings(k)
    /\ Brings(0) = 0
BY AdmissionConstants DEF Brings

\* Time fills a bucket.
LEMMA RefillAccounts ==
    ASSUME NEW tokens \in 0..Parts(Burst), NEW last \in Nat, NEW instant \in Nat, last <= instant,
           NEW s \in Seq(Nat), Accounts(tokens, last, s)
    PROVE  /\ Refilled(tokens, instant - last) \in 0..Parts(Burst)
           /\ Accounts(Refilled(tokens, instant - last), instant, s)
<1> DEFINE full == Parts(Burst)
           gain == Brings(instant - last)
           refilled == Refilled(tokens, instant - last)
<1>1. full \in Nat /\ gain \in Nat /\ tokens \in 0..full
  <2>1. instant - last \in Nat /\ instant - last \in Int /\ Burst \in Nat /\ Burst \in Int
    BY AdmissionConstants
  <2>2. gain \in Int /\ gain >= 0 /\ full \in Int /\ full >= 0
    BY <2>1, PartsAdd, BringsAdd
  <2> QED BY <2>2
<1>2. refilled = IF full < tokens + gain THEN full ELSE tokens + gain
  BY DEF Refilled, Lesser, Parts, Brings
<1>3. ASSUME NEW i \in 1..Len(s)
      PROVE  /\ Brings(instant - s[i]) = gain + Brings(last - s[i])
             /\ Brings(last - s[i]) \in Int /\ Parts(Len(s) - i + 1) \in Int
  <2>1. s[i] \in Int /\ Len(s) \in Int
    OBVIOUS
  <2>2. instant - s[i] = (instant - last) + (last - s[i]) /\ instant - last \in Int /\ last - s[i] \in Int
    BY <2>1
  <2>3. Brings((instant - last) + (last - s[i])) = gain + Brings(last - s[i])
    BY <2>2, BringsAdd
  <2>4. Len(s) - i + 1 \in Int
    BY <2>1
  <2>5. Parts(Len(s) - i + 1) \in Int /\ Brings(last - s[i]) \in Int
    BY <2>2, <2>4, PartsAdd, BringsAdd
  <2>6. Brings(instant - s[i]) = Brings((instant - last) + (last - s[i]))
    BY <2>2
  <2> QED BY <2>3, <2>5, <2>6
<1>4. /\ \A i \in 1..Len(s) : tokens + Parts(Len(s) - i + 1) <= full + Brings(last - s[i])
      /\ \/ tokens = full
         \/ \E i \in 1..Len(s) : tokens + Parts(Len(s) - i + 1) >= full + Brings(last - s[i])
  BY DEF Accounts
<1> HIDE DEF full, gain, refilled
<1>5. \A i \in 1..Len(s) : refilled + Parts(Len(s) - i + 1) <= full + Brings(instant - s[i])
  BY <1>1, <1>2, <1>3, <1>4
<1>6. \/ refilled = full
      \/ \E i \in 1..Len(s) : refilled + Parts(Len(s) - i + 1) >= full + Brings(instant - s[i])
  <2>1. CASE full < tokens + gain \/ tokens = full
    BY <1>1, <1>2, <2>1
  <2>2. CASE ~(full < tokens + gain) /\ tokens # full
    <3>1. PICK i \in 1..Len(s) : tokens + Parts(Len(s) - i + 1) >= full + Brings(last - s[i])
      BY <1>4, <2>2
    <3> QED BY <1>1, <1>2, <1>3, <2>2, <3>1
  <2> QED BY <2>1, <2>2
<1>7. refilled \in 0..full
  BY <1>1, <1>2
<1> QED BY <1>5, <1>6, <1>7 DEF Accounts, full, refilled

\* A request takes one token.
LEMMA TakeAccounts ==
    ASSUME NEW tokens \in 0..Parts(Burst), tokens >= Cost, NEW instant \in Nat,
           NEW s \in Seq(Nat), Accounts(tokens, instant, s), Rhythm(s)
    PROVE  /\ tokens - Cost \in 0..Parts(Burst)
           /\ Accounts(tokens - Cost, instant, Append(s, instant))
           /\ Rhythm(Append(s, instant))
<1> DEFINE full == Parts(Burst)
           u == Append(s, instant)
           n == Len(s)
<1>0. Burst \in Nat \ {0} /\ Cost \in Nat \ {0} /\ n \in Nat
  BY AdmissionConstants
<1>1. /\ Len(u) = n + 1 /\ u[n + 1] = instant /\ \A i \in 1..n : u[i] = s[i] /\ u[i] \in Nat
  OBVIOUS
<1>2. full \in Nat /\ tokens \in 0..full /\ Parts(Burst - 1) = full - Cost
  <2>1. Burst - 1 \in Nat /\ (Burst - 1) + 1 = Burst
    BY <1>0
  <2>2. Parts((Burst - 1) + 1) = Parts(Burst - 1) + Cost /\ Parts(Burst - 1) \in Int
    BY <2>1, PartsAdd
  <2> QED BY <1>0, <2>1, <2>2, PartsAdd
<1>3. \A i \in 1..n : tokens + Parts(n - i + 1) <= full + Brings(instant - s[i])
  BY DEF Accounts
<1>4. tokens = full \/ \E i \in 1..n : tokens + Parts(n - i + 1) >= full + Brings(instant - s[i])
  BY DEF Accounts
<1>5. Rhythm(s) /\ n = Len(s)
  OBVIOUS
<1> HIDE DEF full, u, n
<1>6. ASSUME NEW i \in 1..n
      PROVE  /\ Parts(n + 1 - i + 1) = Parts(n - i + 1) + Cost
             /\ Parts(n + 1 - i) = Parts(n - i + 1)
             /\ Parts(n - i + 1) \in Int /\ Brings(instant - u[i]) \in Int
  <2>1. u[i] \in Int /\ instant - u[i] \in Int /\ n - i + 1 \in Int
    BY <1>0, <1>1
  <2>2. n + 1 - i + 1 = (n - i + 1) + 1 /\ n + 1 - i = n - i + 1
    BY <1>0
  <2>3. Parts((n - i + 1) + 1) = Parts(n - i + 1) + Cost
    BY <2>1, PartsAdd
  <2> QED BY <2>1, <2>2, <2>3, PartsAdd, BringsAdd
<1>7. Parts(n + 1 - (n + 1) + 1) = Cost /\ Brings(instant - u[n + 1]) = 0
  <2>1. n + 1 - (n + 1) + 1 = 1 /\ instant - u[n + 1] = 0
    BY <1>0, <1>1
  <2> QED BY <2>1, PartsAdd, BringsAdd
<1>8. \A i \in 1..(n + 1) : tokens - Cost + Parts(n + 1 - i + 1) <= full + Brings(instant - u[i])
  <2> SUFFICES ASSUME NEW i \in 1..(n + 1)
               PROVE  tokens - Cost + Parts(n + 1 - i + 1) <= full + Brings(instant - u[i])
    OBVIOUS
  <2>1. CASE i = n + 1
    BY <1>0, <1>2, <1>7, <2>1
  <2>2. CASE i \in 1..n
    <3>1. /\ Parts(n + 1 - i + 1) = Parts(n - i + 1) + Cost
          /\ Parts(n - i + 1) \in Int /\ Brings(instant - u[i]) \in Int
      BY <1>6, <2>2
    <3>2. tokens + Parts(n - i + 1) <= full + Brings(instant - u[i])
      BY <1>1, <1>3, <2>2
    <3> QED BY <1>0, <1>2, <3>1, <3>2
  <2> QED BY <1>0, <2>1, <2>2
<1>9. \E i \in 1..(n + 1) : tokens - Cost + Parts(n + 1 - i + 1) >= full + Brings(instant - u[i])
  <2>1. CASE tokens = full
    <3>1. tokens - Cost + Parts(n + 1 - (n + 1) + 1) >= full + Brings(instant - u[n + 1])
      BY <1>0, <1>2, <1>7, <2>1
    <3> QED BY <1>0, <3>1
  <2>2. CASE \E i \in 1..n : tokens + Parts(n - i + 1) >= full + Brings(instant - s[i])
    <3>1. PICK i \in 1..n : tokens + Parts(n - i + 1) >= full + Brings(instant - s[i])
      BY <2>2
    <3>2. tokens - Cost + Parts(n + 1 - i + 1) >= full + Brings(instant - u[i])
      <4>1. /\ Parts(n + 1 - i + 1) = Parts(n - i + 1) + Cost
            /\ Parts(n - i + 1) \in Int /\ Brings(instant - u[i]) \in Int
        BY <1>6
      <4>2. tokens + Parts(n - i + 1) >= full + Brings(instant - u[i])
        BY <1>1, <3>1
      <4> QED BY <1>0, <1>2, <4>1, <4>2
    <3> QED BY <1>0, <3>2
  <2> QED BY <1>4, <2>1, <2>2
<1>10. Rhythm(u)
  <2> SUFFICES ASSUME NEW i \in 1..(n + 1), NEW j \in 1..(n + 1), i <= j
               PROVE  Parts(j - i) <= Parts(Burst - 1) + Brings(u[j] - u[i])
    BY <1>1 DEF Rhythm
  <2>1. CASE j \in 1..n
    <3>1. i \in 1..n /\ j \in 1..n /\ u[i] = s[i] /\ u[j] = s[j]
      BY <1>0, <1>1, <2>1
    <3> QED BY <1>5, <3>1 DEF Rhythm
  <2>2. CASE j = n + 1 /\ i \in 1..n
    <3>1. Parts(j - i) = Parts(n - i + 1) /\ u[j] = instant
      <4>1. j - i = n - i + 1 /\ u[j] = instant
        BY <1>0, <1>1, <2>2
      <4> QED BY <4>1
    <3>2. tokens + Parts(n - i + 1) <= full + Brings(instant - u[i])
      BY <1>1, <1>3, <2>2
    <3>3. Parts(n - i + 1) \in Int /\ Brings(instant - u[i]) \in Int
      BY <1>6, <2>2
    <3> QED BY <1>0, <1>2, <3>1, <3>2, <3>3
  <2>3. CASE j = n + 1 /\ i = n + 1
    <3>1. j - i = 0 /\ u[j] - u[i] = 0 /\ Burst - 1 \in Nat
      BY <1>0, <1>1, <2>3
    <3>2. Parts(j - i) = 0 /\ Brings(u[j] - u[i]) = 0
      BY <3>1, PartsAdd, BringsAdd
    <3>3. Parts(Burst - 1) \in Int /\ Parts(Burst - 1) >= 0
      BY <3>1, PartsAdd
    <3> QED BY <3>2, <3>3
  <2> QED BY <1>0, <2>1, <2>2, <2>3
<1>11. tokens - Cost \in 0..full
  BY <1>0, <1>2
<1>12. Accounts(tokens - Cost, instant, u)
  <2>1. Len(u) = n + 1
    BY <1>1
  <2>2. ASSUME NEW i \in 1..Len(u)
        PROVE  tokens - Cost + Parts(Len(u) - i + 1) <= full + Brings(instant - u[i])
    <3>1. i \in 1..(n + 1) /\ Len(u) - i + 1 = n + 1 - i + 1
      BY <1>0, <2>1
    <3> QED BY <1>8, <3>1
  <2>3. \E i \in 1..Len(u) : tokens - Cost + Parts(Len(u) - i + 1) >= full + Brings(instant - u[i])
    <3>1. PICK i \in 1..(n + 1) : tokens - Cost + Parts(n + 1 - i + 1) >= full + Brings(instant - u[i])
      BY <1>9
    <3>2. i \in 1..Len(u) /\ Len(u) - i + 1 = n + 1 - i + 1
      BY <1>0, <2>1
    <3> QED BY <3>1, <3>2
  <2> QED BY <2>2, <2>3 DEF Accounts, full
<1> QED BY <1>10, <1>11, <1>12 DEF full, u

\* What a client has at present.
LEMMA TokensAccount ==
    ASSUME AdmissionInv, NEW c \in Clients
    PROVE  Tokens(c) \in 0..Parts(Burst) /\ Accounts(Tokens(c), moment, let[c])
           /\ let[c] \in Seq(Nat) /\ moment \in Nat
<1>1. let[c] \in Seq(Nat) /\ moment \in Nat /\ BucketInv(c)
  BY DEF AdmissionInv
<1>2. CASE c \in DOMAIN bucket
  BY <1>1, <1>2, RefillAccounts DEF BucketInv, Tokens
<1>3. CASE c \notin DOMAIN bucket
  <2>1. Tokens(c) = Parts(Burst) /\ let[c] = << >> /\ Parts(Burst) \in Nat
    BY <1>1, <1>3, AdmissionConstants DEF BucketInv, Tokens, Parts
  <2>2. Accounts(Parts(Burst), moment, << >>)
    BY DEF Accounts
  <2> QED BY <1>1, <2>1, <2>2
<1> QED BY <1>2, <1>3

\* Each step that counts raises one count, or two of them together.
LEMMA CountsRaised ==
    ASSUME NEW m \in MetricsType
    PROVE  /\ m.requests \in Nat /\ m.errors \in Nat /\ m.limited \in Nat /\ m.large \in Nat
           /\ [m EXCEPT !.limited = @ + 1] =
                   [requests |-> m.requests, errors |-> m.errors,
                    limited |-> m.limited + 1, large |-> m.large]
           /\ [m EXCEPT !.large = @ + 1] =
                   [requests |-> m.requests, errors |-> m.errors,
                    limited |-> m.limited, large |-> m.large + 1]
           /\ \A e : [m EXCEPT !.requests = @ + 1, !.errors = e] =
                        [requests |-> m.requests + 1, errors |-> e,
                         limited |-> m.limited, large |-> m.large]
<1>1. m.requests \in Nat /\ m.errors \in Nat /\ m.limited \in Nat /\ m.large \in Nat
  BY DEF MetricsType
<1>2. [m EXCEPT !.limited = @ + 1] =
         [requests |-> m.requests, errors |-> m.errors,
         limited |-> m.limited + 1, large |-> m.large]
  BY DEF MetricsType
<1>3. [m EXCEPT !.large = @ + 1] =
         [requests |-> m.requests, errors |-> m.errors,
         limited |-> m.limited, large |-> m.large + 1]
  BY DEF MetricsType
<1>4. ASSUME NEW e
      PROVE  [m EXCEPT !.requests = @ + 1, !.errors = e] =
                [requests |-> m.requests + 1, errors |-> e, limited |-> m.limited, large |-> m.large]
  <2>1. [m EXCEPT !.requests = @ + 1, !.errors = e] =
            [[m EXCEPT !.requests = @ + 1] EXCEPT !.errors = e]
    OBVIOUS
  <2>2. [m EXCEPT !.requests = @ + 1] =
            [requests |-> m.requests + 1, errors |-> m.errors, limited |-> m.limited,
             large |-> m.large]
    BY DEF MetricsType
  <2>3. ASSUME NEW q, NEW x, NEW l, NEW g
        PROVE  [[requests |-> q, errors |-> x, limited |-> l, large |-> g] EXCEPT !.errors = e] =
                  [requests |-> q, errors |-> e, limited |-> l, large |-> g]
    OBVIOUS
  <2> DEFINE r == [m EXCEPT !.requests = @ + 1]
             s == [requests |-> m.requests + 1, errors |-> m.errors, limited |-> m.limited,
                   large |-> m.large]
  <2>4. [s EXCEPT !.errors = e] = [requests |-> m.requests + 1, errors |-> e,
                                   limited |-> m.limited, large |-> m.large]
    BY <2>3
  <2>5. r = s
    BY <2>2
  <2>6. [m EXCEPT !.requests = @ + 1, !.errors = e] = [r EXCEPT !.errors = e]
    BY <2>1
  <2> HIDE DEF r, s
  <2>7. [m EXCEPT !.requests = @ + 1, !.errors = e] = [s EXCEPT !.errors = e]
    BY <2>5, <2>6
  <2> QED BY <2>4, <2>7
<1> QED BY <1>1, <1>2, <1>3, <1>4

\* The counts by name: what each step has to say of them.
LEMMA CountsFrom ==
    ASSUME NEW q, NEW e, NEW l, NEW g, q \in Nat, e \in Nat, l \in Nat, g \in Nat,
           metrics' = [requests |-> q, errors |-> e, limited |-> l, large |-> g]
    PROVE  metrics' \in MetricsType /\ Counted' = q + l + g
           /\ metrics'.errors = e /\ metrics'.requests = q
BY DEF MetricsType, Counted

LEMMA MetricsKept ==
    ASSUME MetricsInv,
           \/ TooLarge \/ Exempt \/ ResetMetrics \/ UNCHANGED admissionVars \/ MomentPasses
           \/ \E c \in Clients : LetIn(c) \/ RateLimited(c)
           \/ \E failed \in BOOLEAN : Answered(failed)
    PROVE  MetricsInv'
<1> DEFINE q == metrics.requests
           e == metrics.errors
           l == metrics.limited
           g == metrics.large
<1>1. /\ q \in Nat /\ e \in Nat /\ l \in Nat /\ g \in Nat
      /\ Counted = q + l + g /\ e <= q
      /\ running \in Nat /\ arrivals \in Nat /\ erased \in Nat
      /\ arrivals = erased + Counted + running
  BY CountsRaised DEF MetricsInv, Counted
<1>2. ASSUME UNCHANGED metrics, running' \in Nat, arrivals' \in Nat, UNCHANGED erased,
             arrivals' - arrivals = running' - running
      PROVE  MetricsInv'
  <2>1. metrics' \in MetricsType /\ Counted' = Counted /\ metrics'.errors <= metrics'.requests
    BY <1>2 DEF MetricsInv, Counted
  <2>2. arrivals' = erased' + Counted' + running'
    BY <1>1, <1>2, <2>1
  <2> QED BY <1>1, <1>2, <2>1, <2>2 DEF MetricsInv
<1>3. CASE TooLarge
  <2>1. metrics' = [requests |-> q, errors |-> e, limited |-> l, large |-> g + 1]
    BY <1>3, CountsRaised DEF TooLarge, MetricsInv
  <2>2. arrivals' = arrivals + 1 /\ UNCHANGED <<running, erased>>
    BY <1>3 DEF TooLarge, Arrives
  <2>3. /\ metrics' \in MetricsType /\ Counted' = q + l + (g + 1)
        /\ metrics'.errors = e /\ metrics'.requests = q
    BY <1>1, <2>1, CountsFrom
  <2> HIDE DEF q, e, l, g
  <2> QED BY <1>1, <2>2, <2>3 DEF MetricsInv
<1>4. ASSUME NEW c \in Clients, RateLimited(c) PROVE MetricsInv'
  <2>1. metrics' = [requests |-> q, errors |-> e, limited |-> l + 1, large |-> g]
    BY <1>4, CountsRaised DEF RateLimited, MetricsInv
  <2>2. arrivals' = arrivals + 1 /\ UNCHANGED <<running, erased>>
    BY <1>4 DEF RateLimited, Arrives
  <2>3. /\ metrics' \in MetricsType /\ Counted' = q + (l + 1) + g
        /\ metrics'.errors = e /\ metrics'.requests = q
    BY <1>1, <2>1, CountsFrom
  <2> HIDE DEF q, e, l, g
  <2> QED BY <1>1, <2>2, <2>3 DEF MetricsInv
<1>5. ASSUME NEW failed \in BOOLEAN, Answered(failed) PROVE MetricsInv'
  <2>1. \E f \in {e, e + 1} :
           metrics' = [requests |-> q + 1, errors |-> f, limited |-> l, large |-> g]
    <3>1. CASE failed
      BY <1>5, <3>1, CountsRaised DEF Answered, Observed, MetricsInv
    <3>2. CASE ~failed
      BY <1>5, <3>2, CountsRaised DEF Answered, Observed, MetricsInv
    <3> QED BY <3>1, <3>2
  <2>2. PICK f \in {e, e + 1} :
           metrics' = [requests |-> q + 1, errors |-> f, limited |-> l, large |-> g]
    BY <2>1
  <2>3. running > 0 /\ running' = running - 1 /\ UNCHANGED <<arrivals, erased>>
    BY <1>5 DEF Answered
  <2>4. f \in Nat /\ q + 1 \in Nat /\ f <= q + 1
    BY <1>1
  <2>5. /\ metrics' \in MetricsType /\ Counted' = (q + 1) + l + g
        /\ metrics'.errors = f /\ metrics'.requests = q + 1
    BY <1>1, <2>2, <2>4, CountsFrom
  <2> HIDE DEF q, e, l, g
  <2> QED BY <1>1, <2>3, <2>4, <2>5 DEF MetricsInv
<1>6. CASE ResetMetrics
  <2>1. /\ metrics' = [requests |-> 0, errors |-> 0, limited |-> 0, large |-> 0]
        /\ erased' = erased + Counted /\ UNCHANGED <<running, arrivals>>
    BY <1>6 DEF ResetMetrics, NoMetrics
  <2>2. /\ metrics' \in MetricsType /\ Counted' = 0 + 0 + 0
        /\ metrics'.errors = 0 /\ metrics'.requests = 0
    BY <2>1, CountsFrom
  <2> HIDE DEF q, e, l, g
  <2> QED BY <1>1, <2>1, <2>2 DEF MetricsInv
<1>7. ASSUME NEW c \in Clients, LetIn(c) PROVE MetricsInv'
  BY <1>1, <1>2, <1>7 DEF LetIn, Arrives
<1>8. CASE Exempt \/ MomentPasses \/ UNCHANGED admissionVars
  BY <1>1, <1>2, <1>8 DEF Exempt, Arrives, MomentPasses, admissionVars
<1> QED BY <1>3, <1>4, <1>5, <1>6, <1>7, <1>8

\* A bucket that is written accounts for its client's requests; the others do as before.
LEMMA PutKeepsBuckets ==
    ASSUME AdmissionInv, NEW c \in Clients, NEW tokens \in 0..Parts(Burst),
           bucket' = Put(c, tokens), moment' = moment,
           let' \in [Clients -> Seq(Nat)],
           \A d \in Clients : d # c => let'[d] = let[d],
           Accounts(tokens, moment, let'[c])
    PROVE  DOMAIN bucket' \subseteq Clients /\ \A d \in Clients : BucketInv(d)'
<1>1. /\ DOMAIN bucket' = DOMAIN bucket \cup {c} /\ DOMAIN bucket \subseteq Clients
      /\ moment \in Nat
  BY DEF Put, AdmissionInv
<1>2. bucket'[c] = [tokens |-> tokens, last |-> moment]
      /\ \A d \in DOMAIN bucket : d # c => bucket'[d] = bucket[d]
  BY DEF Put
<1>3. BucketInv(c)'
  BY <1>1, <1>2 DEF BucketInv
<1>4. ASSUME NEW d \in Clients, d # c PROVE BucketInv(d)'
  BY <1>1, <1>2, <1>4 DEF BucketInv, AdmissionInv
<1> QED BY <1>1, <1>3, <1>4

LEMMA LetInKeeps == ASSUME AdmissionInv, NEW c \in Clients, LetIn(c) PROVE AdmissionInv'
<1>1. /\ Tokens(c) \in 0..Parts(Burst) /\ Accounts(Tokens(c), moment, let[c])
      /\ let[c] \in Seq(Nat) /\ moment \in Nat /\ Tokens(c) >= Cost
      /\ let \in [Clients -> Seq(Nat)]
  BY TokensAccount DEF LetIn, AdmissionInv
<1>2. /\ let' = [let EXCEPT ![c] = Append(@, moment)] /\ moment' = moment
      /\ bucket' = Put(c, Tokens(c) - Cost)
      /\ UNCHANGED <<metrics, turned, erased>>
      /\ running' = running + 1 /\ arrivals' = arrivals + 1
  BY DEF LetIn, Arrives
<1>3. let'[c] = Append(let[c], moment) /\ \A d \in Clients : d # c => let'[d] = let[d]
  BY <1>1, <1>2
<1>4. /\ Tokens(c) - Cost \in 0..Parts(Burst)
      /\ Accounts(Tokens(c) - Cost, moment, Append(let[c], moment))
      /\ Rhythm(Append(let[c], moment))
  BY <1>1, TakeAccounts DEF AdmissionInv
<1>5. let' \in [Clients -> Seq(Nat)]
  BY <1>1, <1>2
<1>6. DOMAIN bucket' \subseteq Clients /\ \A d \in Clients : BucketInv(d)'
  BY <1>2, <1>3, <1>4, <1>5, PutKeepsBuckets
<1>7. \A d \in Clients : Rhythm(let'[d])
  BY <1>3, <1>4 DEF AdmissionInv
<1>8. \A d \in Clients : /\ Len(let[d]) \in Nat /\ Len(let[d]) <= Len(let'[d])
                         /\ \A i \in 1..Len(let[d]) : let'[d][i] = let[d][i]
  <2>1. ASSUME NEW s \in Seq(Nat), NEW m \in Nat
        PROVE  Len(s) <= Len(Append(s, m)) /\ \A i \in 1..Len(s) : Append(s, m)[i] = s[i]
    OBVIOUS
  <2>2. \A d \in Clients : Len(let[d]) \in Nat
    BY <1>1
  <2>3. ASSUME NEW d \in Clients
        PROVE  /\ Len(let[d]) <= Len(let'[d])
               /\ \A i \in 1..Len(let[d]) : let'[d][i] = let[d][i]
    <3>1. CASE d = c
      <4>1. let[c] \in Seq(Nat) /\ moment \in Nat /\ let'[d] = Append(let[c], moment)
        BY <1>1, <1>3, <3>1
      <4> QED BY <2>1, <3>1, <4>1
    <3>2. CASE d # c
      <4>1. let'[d] = let[d]
        BY <1>3, <3>2
      <4> QED BY <2>2, <4>1
    <3> QED BY <3>1, <3>2
  <2> QED BY <2>2, <2>3
<1>9. ASSUME NEW x \in turned
      PROVE  /\ x[1] \in Clients /\ x[3] \in 0..Len(let'[x[1]])
             /\ \E i \in 1..x[3] : Parts(x[3] - i + 2) > Parts(Burst) + Brings(x[2] - let'[x[1]][i])
  <2>1. x[1] \in Clients /\ x[3] \in 0..Len(let[x[1]])
    BY DEF AdmissionInv
  <2>2. PICK i \in 1..x[3] : Parts(x[3] - i + 2) > Parts(Burst) + Brings(x[2] - let[x[1]][i])
    BY DEF AdmissionInv
  <2>3. /\ Len(let[x[1]]) \in Nat /\ Len(let'[x[1]]) \in Nat
        /\ Len(let[x[1]]) <= Len(let'[x[1]]) /\ x[3] \in Nat
    BY <1>5, <1>8, <2>1
  <2>4. i \in 1..Len(let[x[1]])
    BY <2>1, <2>3
  <2>5. let'[x[1]][i] = let[x[1]][i]
    BY <1>8, <2>1, <2>4
  <2>6. x[3] \in 0..Len(let'[x[1]])
    BY <2>1, <2>3
  <2> QED BY <2>1, <2>2, <2>5, <2>6
<1>10. MetricsInv'
  BY MetricsKept DEF AdmissionInv
<1> QED BY <1>1, <1>2, <1>5, <1>6, <1>7, <1>9, <1>10 DEF AdmissionInv

LEMMA RateLimitedKeeps == ASSUME AdmissionInv, NEW c \in Clients, RateLimited(c) PROVE AdmissionInv'
<1>1. /\ Tokens(c) \in 0..Parts(Burst) /\ Accounts(Tokens(c), moment, let[c])
      /\ let[c] \in Seq(Nat) /\ moment \in Nat /\ Tokens(c) < Cost
      /\ let \in [Clients -> Seq(Nat)] /\ Cost \in Nat
  BY TokensAccount, AdmissionConstants DEF RateLimited, AdmissionInv
<1>2. /\ let' = let /\ moment' = moment /\ erased' = erased
      /\ bucket' = Put(c, Tokens(c)) /\ running' = running /\ arrivals' = arrivals + 1
      /\ metrics' = [metrics EXCEPT !.limited = @ + 1]
      /\ turned' = turned \cup {<<c, moment, Len(let[c])>>}
  BY DEF RateLimited, Arrives, TurnedAway
<1>3. DOMAIN bucket' \subseteq Clients /\ \A d \in Clients : BucketInv(d)'
  BY <1>1, <1>2, PutKeepsBuckets
<1> DEFINE n == Len(let[c])
<1>4. n \in Nat
  BY <1>1
<1>5. \E i \in 1..n : Parts(n - i + 2) > Parts(Burst) + Brings(moment - let[c][i])
  <2>1. Tokens(c) # Parts(Burst) /\ Parts(Burst) \in Int
    BY <1>1, PartsAdd, AdmissionConstants
  <2>2. PICK i \in 1..n : Tokens(c) + Parts(n - i + 1) >= Parts(Burst) + Brings(moment - let[c][i])
    BY <1>1, <2>1 DEF Accounts
  <2>3. n - i + 1 \in Int /\ n - i + 2 = (n - i + 1) + 1 /\ moment - let[c][i] \in Int
    <3>1. let[c][i] \in Nat
      BY <1>1
    <3> QED BY <1>1, <1>4, <3>1
  <2>4. /\ Parts(n - i + 2) = Parts(n - i + 1) + Cost /\ Parts(n - i + 1) \in Int
        /\ Brings(moment - let[c][i]) \in Int
    <3>1. /\ Parts((n - i + 1) + 1) = Parts(n - i + 1) + Cost /\ Parts(n - i + 1) \in Int
          /\ Brings(moment - let[c][i]) \in Int
      BY <2>3, PartsAdd, BringsAdd
    <3> QED BY <2>3, <3>1
  <2> QED BY <1>1, <2>1, <2>2, <2>4
<1>6. ASSUME NEW x \in turned'
      PROVE  /\ x[1] \in Clients /\ x[3] \in 0..Len(let[x[1]])
             /\ \E i \in 1..x[3] : Parts(x[3] - i + 2) > Parts(Burst) + Brings(x[2] - let[x[1]][i])
  <2>1. CASE x \in turned
    BY <2>1 DEF AdmissionInv
  <2>2. CASE x = <<c, moment, n>>
    BY <1>4, <1>5, <2>2
  <2> QED BY <1>2, <2>1, <2>2
<1>7. MetricsInv'
  BY MetricsKept DEF AdmissionInv
<1> QED BY <1>1, <1>2, <1>3, <1>6, <1>7 DEF AdmissionInv

LEMMA CountingKeeps ==
    ASSUME AdmissionInv,
           \/ TooLarge \/ Exempt \/ ResetMetrics \/ UNCHANGED admissionVars
           \/ \E failed \in BOOLEAN : Answered(failed)
    PROVE  AdmissionInv'
<1>1. UNCHANGED <<moment, bucket, let, turned>>
  BY DEF TooLarge, Exempt, ResetMetrics, admissionVars, Answered, Arrives
<1>2. (\A c \in Clients : BucketInv(c))'
  BY <1>1 DEF BucketInv, AdmissionInv
<1>3. MetricsInv'
  BY MetricsKept DEF AdmissionInv
<1> QED BY <1>1, <1>2, <1>3 DEF AdmissionInv

LEMMA MomentPassesKeeps == ASSUME AdmissionInv, MomentPasses PROVE AdmissionInv'
<1>1. /\ moment' = moment + 1 /\ moment \in Nat
      /\ UNCHANGED <<bucket, running, metrics, let, turned, arrivals, erased>>
  BY DEF MomentPasses, AdmissionInv
<1>2. (\A c \in Clients : BucketInv(c))'
  BY <1>1 DEF BucketInv, AdmissionInv
<1>3. MetricsInv'
  BY MetricsKept DEF AdmissionInv
<1> QED BY <1>1, <1>2, <1>3 DEF AdmissionInv

\* Whatever requests come, the tokens of a bucket and the counts keep
\* AdmissionInv.
THEOREM AdmissionInvHolds == AdmissionSpec => []AdmissionInv
<1>1. AdmissionInit => AdmissionInv
  <2> SUFFICES ASSUME AdmissionInit PROVE AdmissionInv
    OBVIOUS
  <2>1. \A c \in Clients : let[c] = << >> /\ BucketInv(c) /\ Rhythm(let[c])
    BY DEF AdmissionInit, BucketInv, Rhythm
  <2>2. let \in [Clients -> Seq(Nat)] /\ DOMAIN bucket = {} /\ turned = {}
    BY DEF AdmissionInit
  <2>3. MetricsInv
    BY DEF AdmissionInit, NoMetrics, Counted, MetricsInv, MetricsType
  <2> QED BY <2>1, <2>2, <2>3 DEF AdmissionInit, AdmissionInv
<1>2. AdmissionInv /\ [AdmissionNext]_admissionVars => AdmissionInv'
  BY LetInKeeps, RateLimitedKeeps, CountingKeeps, MomentPassesKeeps DEF AdmissionNext
<1> QED BY <1>1, <1>2, PTL DEF AdmissionSpec

\* For any number of clients, any burst and any rate, in whatever rhythm
\* requests arrive: between any two requests of a client that were let in there
\* are no more than the burst and the refill of the time between them, a client
\* that was turned away had asked for more than that, and each request is in
\* exactly one count of the metrics, those erased by a reset among them.
THEOREM RequestsAdmittedFairlyHolds == AdmissionSpec => []RequestsAdmittedFairly
<1>1. AdmissionInv => RequestsAdmittedFairly
  <2> SUFFICES ASSUME AdmissionInv PROVE RequestsAdmittedFairly
    OBVIOUS
  <2>1. EachCountedOnce
    <3>1. ASSUME NEW c \in DOMAIN bucket PROVE bucket[c].tokens \in 0..Burst * Cost
      <4>1. c \in Clients /\ BucketInv(c)
        BY DEF AdmissionInv
      <4> QED BY <4>1 DEF BucketInv, Parts
    <3> QED BY <3>1 DEF AdmissionInv, MetricsInv, EachCountedOnce
  <2>2. RateIsKept
    <3>1. ASSUME NEW c \in Clients, NEW i \in DOMAIN let[c], NEW j \in DOMAIN let[c], i <= j
          PROVE  (j - i) * Cost <= (Burst - 1) * Cost + (let[c][j] - let[c][i]) * Rate
      <4>1. let[c] \in Seq(Nat) /\ Rhythm(let[c])
        BY DEF AdmissionInv
      <4>2. i \in 1..Len(let[c]) /\ j \in 1..Len(let[c])
        BY <4>1
      <4>3. Parts(j - i) <= Parts(Burst - 1) + Brings(let[c][j] - let[c][i])
        BY <3>1, <4>1, <4>2 DEF Rhythm
      <4> QED BY <4>3 DEF Parts, Brings
    <3> QED BY <3>1 DEF RateIsKept
  <2>3. TurnedAwayBeyond
    BY DEF AdmissionInv, TurnedAwayBeyond, Parts, Brings
  <2> QED BY <2>1, <2>2, <2>3 DEF RequestsAdmittedFairly
<1> QED BY <1>1, AdmissionInvHolds, PTL

---------------------------------------------------------------------------
(***************************************************************************)
(* The dashboard's poll channel                                            *)
(***************************************************************************)

\* At most one request is under way, and brings nothing older than is displayed.
OneUnderWay(requests, onPage, atBackend) ==
    requests = {} \/ \E n \in Nat, v \in -1..atBackend :
                         requests = {<<n, v>>} /\ (v = -1 \/ onPage <= v)

\* One request at most is under way, and brings nothing older than what is
\* displayed; the timer, if it runs, has the interval of the channel, which is as
\* short as anyone who was set up asks.
ChannelInv ==
    /\ stage \in [Components -> {"out", "set up", "mounted"}]
    /\ latest \in Nat /\ ticks \in Nat /\ displayed \in -1..latest
    /\ OneUnderWay(inflight, displayed, latest)
    /\ interval \in Nat /\ period \in {0, interval}
    /\ \A c \in Components : stage[c] # "out" => interval # 0 /\ interval <= IntervalOf[c]
    /\ TimerServesMounted

LEMMA MountedAreFinite == IsFiniteSet(In("mounted")) /\ Cardinality(In("mounted")) \in Nat
BY PollChannelAssumption, FS_Subset, FS_CardinalityType DEF In

LEMMA ChannelNumbers ==
    ASSUME ChannelInv
    PROVE  /\ latest \in Nat /\ displayed \in Int /\ -1 <= displayed /\ displayed <= latest
           /\ refs \in Nat /\ ticks \in Nat
<1>1. latest \in Nat /\ displayed \in -1..latest /\ ticks \in Nat
  BY DEF ChannelInv
<1>2. displayed \in Int /\ -1 <= displayed /\ displayed <= latest
  BY <1>1
<1>3. refs = Cardinality(In("mounted"))
  BY DEF ChannelInv, TimerServesMounted
<1>4. Cardinality(In("mounted")) \in Nat
  BY MountedAreFinite
<1>5. refs \in Nat
  BY <1>3, <1>4
<1> QED BY <1>1, <1>2, <1>5

LEMMA PollAsksOnce ==
    ASSUME ChannelInv, Poll, UNCHANGED <<latest, displayed>>
    PROVE  /\ ticks' \in Nat
           /\ OneUnderWay(inflight', displayed, latest)
<1>1. ticks \in Nat /\ latest \in Nat /\ OneUnderWay(inflight, displayed, latest)
  BY DEF ChannelInv
<1>2. ticks' = ticks + 1 /\ inflight' = (IF inflight = {} THEN {<<ticks, -1>>} ELSE inflight)
  BY DEF Poll, Run
<1>3. ticks' \in Nat /\ -1 \in -1..latest
  BY <1>1, <1>2
<1>4. OneUnderWay({<<ticks, -1>>}, displayed, latest)
  BY <1>1, <1>3 DEF OneUnderWay
<1> QED BY <1>1, <1>2, <1>3, <1>4

\* Who is neither mounted nor unmounted leaves the count alone.
LEMMA SetUpKeeps == ASSUME ChannelInv, NEW c \in Components, SetUp(c) PROVE ChannelInv'
<1>1. /\ stage[c] = "out" /\ stage' = [stage EXCEPT ![c] = "set up"]
      /\ UNCHANGED <<refs, displayed, latest>>
      /\ stage \in [Components -> {"out", "set up", "mounted"}]
  BY DEF SetUp, ChannelInv
<1>2. /\ stage' \in [Components -> {"out", "set up", "mounted"}]
      /\ stage'[c] = "set up" /\ \A d \in Components : d # c => stage'[d] = stage[d]
  BY <1>1
<1>3. In("mounted")' = In("mounted") /\ In("set up")' # {}
  BY <1>1, <1>2 DEF In
<1>4. IntervalOf[c] \in Nat \ {0} /\ \A d \in Components : IntervalOf[d] \in Nat
  BY PollChannelAssumption
<1>5. refs \in Nat /\ refs = Cardinality(In("mounted")) /\ interval \in Nat /\ period \in {0, interval}
  BY MountedAreFinite DEF ChannelInv, TimerServesMounted
<1>6. CASE interval = 0 \/ IntervalOf[c] >= interval
  <2>1. /\ interval' = (IF interval = 0 THEN IntervalOf[c] ELSE interval)
        /\ UNCHANGED <<period, inflight, ticks>>
    BY <1>6 DEF SetUp
  <2>2. interval' \in Nat /\ interval' # 0 /\ period' \in {0, interval'}
    BY <1>4, <1>5, <2>1
  <2>3. ASSUME NEW d \in Components, stage'[d] # "out" PROVE interval' <= IntervalOf[d]
    <3>1. CASE d = c
      BY <1>4, <1>5, <1>6, <2>1, <3>1
    <3>2. CASE d # c
      <4>1. interval # 0 /\ interval <= IntervalOf[d]
        BY <1>2, <2>3, <3>2 DEF ChannelInv
      <4> QED BY <2>1, <4>1
    <3> QED BY <3>1, <3>2
  <2>4. TimerServesMounted'
    BY <1>1, <1>3, <2>1 DEF ChannelInv, TimerServesMounted
  <2> QED BY <1>1, <1>2, <2>1, <2>2, <2>3, <2>4 DEF ChannelInv
<1>7. CASE ~(interval = 0 \/ IntervalOf[c] >= interval)
  <2>1. interval' = IntervalOf[c] /\ period' = IntervalOf[c] /\ Poll
    BY <1>7 DEF SetUp, Restart
  <2>2. /\ ticks' \in Nat
        /\ OneUnderWay(inflight', displayed, latest)
    BY <1>1, <2>1, PollAsksOnce
  <2>3. ASSUME NEW d \in Components, stage'[d] # "out" PROVE interval' <= IntervalOf[d]
    <3>1. CASE d = c
      BY <1>4, <2>1, <3>1
    <3>2. CASE d # c
      <4>1. interval # 0 /\ interval <= IntervalOf[d]
        BY <1>2, <2>3, <3>2 DEF ChannelInv
      <4> QED BY <1>4, <1>5, <1>7, <2>1, <4>1
    <3> QED BY <3>1, <3>2
  <2>4. TimerServesMounted'
    BY <1>1, <1>3, <1>4, <2>1 DEF ChannelInv, TimerServesMounted
  <2> QED BY <1>1, <1>2, <1>4, <2>1, <2>2, <2>3, <2>4 DEF ChannelInv
<1> QED BY <1>6, <1>7

LEMMA MountKeeps == ASSUME ChannelInv, NEW c \in Components, Mount(c) PROVE ChannelInv'
<1>1. /\ stage[c] = "set up" /\ stage' = [stage EXCEPT ![c] = "mounted"]
      /\ refs' = refs + 1 /\ UNCHANGED <<interval, displayed, latest>>
      /\ stage \in [Components -> {"out", "set up", "mounted"}]
  BY DEF Mount, ChannelInv
<1>2. /\ stage' \in [Components -> {"out", "set up", "mounted"}]
      /\ stage'[c] = "mounted" /\ \A d \in Components : d # c => stage'[d] = stage[d]
  BY <1>1
<1>3. In("mounted")' = In("mounted") \cup {c} /\ c \notin In("mounted")
  BY <1>1, <1>2 DEF In
<1>4. Cardinality(In("mounted")') = Cardinality(In("mounted")) + 1
  BY <1>3, MountedAreFinite, FS_AddElement
<1>5. refs' = Cardinality(In("mounted")') /\ refs' > 0
  <2>1. refs \in Nat /\ refs = Cardinality(In("mounted"))
    BY ChannelNumbers DEF ChannelInv, TimerServesMounted
  <2>2. refs' = refs + 1
    BY <1>1
  <2>3. refs' = Cardinality(In("mounted")')
    BY <1>4, <2>1, <2>2
  <2>4. refs' > 0
    BY <2>1, <2>2
  <2> QED BY <2>3, <2>4
<1>6. interval \in Nat \ {0} /\ period \in {0, interval}
  BY <1>1 DEF ChannelInv
<1>7. /\ period' = interval /\ ticks' \in Nat
      /\ OneUnderWay(inflight', displayed, latest)
  <2>1. CASE period = 0
    <3>1. period' = interval /\ Poll
      BY <2>1 DEF Mount
    <3> QED BY <1>1, <3>1, PollAsksOnce
  <2>2. CASE period # 0
    BY <1>6, <2>2 DEF Mount, ChannelInv
  <2> QED BY <2>1, <2>2
<1>8. \A d \in Components : stage'[d] # "out" => interval # 0 /\ interval <= IntervalOf[d]
  <2>1. \A d \in Components : stage'[d] # "out" => stage[d] # "out"
    BY <1>1, <1>2
  <2> QED BY <2>1 DEF ChannelInv
<1>9. TimerServesMounted'
  BY <1>5, <1>6, <1>7 DEF TimerServesMounted
<1> QED BY <1>1, <1>2, <1>6, <1>7, <1>8, <1>9 DEF ChannelInv

LEMMA UnmountKeeps == ASSUME ChannelInv, NEW c \in Components, Unmount(c) PROVE ChannelInv'
<1>1. /\ stage[c] = "mounted" /\ stage' = [stage EXCEPT ![c] = "out"]
      /\ refs' = refs - 1 /\ period' = (IF refs - 1 <= 0 THEN 0 ELSE period)
      /\ UNCHANGED <<interval, inflight, displayed, visible, latest, ticks>>
      /\ stage \in [Components -> {"out", "set up", "mounted"}]
  BY DEF Unmount, StoppedByLast, ChannelInv
<1>2. /\ stage' \in [Components -> {"out", "set up", "mounted"}]
      /\ stage'[c] = "out" /\ \A d \in Components : d # c => stage'[d] = stage[d]
  BY <1>1
<1>3. In("mounted")' = In("mounted") \ {c} /\ c \in In("mounted")
  BY <1>1, <1>2 DEF In
<1>4. Cardinality(In("mounted")') = Cardinality(In("mounted")) - 1
  BY <1>3, MountedAreFinite, FS_RemoveElement
<1>5. refs' = Cardinality(In("mounted")') /\ refs \in Nat
  BY <1>1, <1>4, ChannelNumbers DEF ChannelInv, TimerServesMounted
<1>6. \A d \in Components : stage'[d] # "out" => stage[d] # "out"
  BY <1>1, <1>2
<1>7. TimerServesMounted'
  <2>1. refs > 0 => period # 0
    BY DEF ChannelInv, TimerServesMounted
  <2>2. refs \in Nat /\ refs' = refs - 1
    BY <1>1, <1>5
  <2>3. period' = IF refs - 1 <= 0 THEN 0 ELSE period
    BY <1>1
  <2>4. refs' > 0 => refs > 0 /\ ~(refs - 1 <= 0)
    BY <2>2
  <2>5. ~(refs - 1 <= 0) => refs' > 0
    BY <2>2
  <2>6. refs' > 0 => period' # 0
    BY <2>1, <2>3, <2>4
  <2>7. period' # 0 => refs' > 0
    BY <2>3, <2>5
  <2> QED BY <1>5, <2>6, <2>7 DEF TimerServesMounted
<1> QED BY <1>1, <1>2, <1>6, <1>7 DEF ChannelInv

\* Steps that leave the components alone.
LEMMA PollingKeeps ==
    ASSUME ChannelInv, TimerFires \/ Refresh \/ Visibility
    PROVE  ChannelInv'
<1>1. UNCHANGED <<stage, refs, period, interval, displayed, latest>>
  BY DEF TimerFires, Refresh, Visibility
<1>2. Poll \/ (inflight' = inflight /\ ticks' = ticks + 1)
  BY DEF TimerFires, Refresh, Visibility
<1>3. /\ ticks' \in Nat
      /\ OneUnderWay(inflight', displayed, latest)
  <2>1. CASE Poll
    BY <1>1, <2>1, PollAsksOnce
  <2>2. CASE inflight' = inflight /\ ticks' = ticks + 1
    <3>1. ticks \in Nat /\ OneUnderWay(inflight, displayed, latest)
      BY DEF ChannelInv
    <3> QED BY <2>2, <3>1
  <2> QED BY <1>2, <2>1, <2>2
<1>4. TimerServesMounted'
  BY <1>1 DEF ChannelInv, TimerServesMounted, In
<1> QED BY <1>1, <1>3, <1>4 DEF ChannelInv

LEMMA AnsweringKeeps ==
    ASSUME ChannelInv, DataChanges \/ BackendReads \/ FetchEnds
    PROVE  ChannelInv' /\ displayed' >= displayed
<1>1. UNCHANGED <<stage, refs, period, interval, ticks>>
  BY DEF DataChanges, BackendReads, FetchEnds
<1>2. TimerServesMounted'
  BY <1>1 DEF ChannelInv, TimerServesMounted, In
<1>3. /\ latest \in Nat /\ displayed \in Int /\ -1 <= displayed /\ displayed <= latest
      /\ OneUnderWay(inflight, displayed, latest)
  BY ChannelNumbers DEF ChannelInv
<1>4. ASSUME latest' \in Nat, displayed' \in Int, displayed <= displayed', displayed' <= latest',
             OneUnderWay(inflight', displayed', latest')
      PROVE  ChannelInv' /\ displayed' >= displayed
  <2>1. displayed' \in -1..latest' /\ displayed' >= displayed
    BY <1>3, <1>4
  <2>2. ticks \in Nat
    BY ChannelNumbers
  <2> QED BY <1>1, <1>2, <1>4, <2>1, <2>2 DEF ChannelInv
<1>5. CASE DataChanges
  <2>1. latest' = latest + 1 /\ UNCHANGED <<inflight, displayed>>
    BY <1>5 DEF DataChanges
  <2>2. OneUnderWay(inflight, displayed, latest + 1)
    <3>1. \A v \in -1..latest : v \in -1..latest + 1
      BY <1>3
    <3> QED BY <1>3, <3>1 DEF OneUnderWay
  <2> QED BY <1>3, <1>4, <2>1, <2>2
<1>6. CASE BackendReads \/ FetchEnds
  <2>0. inflight # {} /\ latest' = latest
    BY <1>6 DEF BackendReads, FetchEnds
  <2>1. PICK n \in Nat, v \in -1..latest : inflight = {<<n, v>>} /\ (v = -1 \/ displayed <= v)
    BY <1>3, <2>0 DEF OneUnderWay
  <2>2. <<n, v>>[1] = n /\ <<n, v>>[2] = v
    OBVIOUS
  <2>3. CASE BackendReads
    <3>1. inflight' = {<<n, latest>>} /\ displayed' = displayed
      BY <2>1, <2>2, <2>3 DEF BackendReads
    <3>2. latest \in -1..latest
      BY <1>3
    <3>3. OneUnderWay({<<n, latest>>}, displayed, latest)
      BY <1>3, <2>1, <3>2 DEF OneUnderWay
    <3> QED BY <1>3, <1>4, <2>0, <3>1, <3>3
  <2>4. CASE FetchEnds
    <3>1. inflight' = {} /\ (displayed' = displayed \/ (v # -1 /\ displayed' = v))
      BY <2>1, <2>2, <2>4 DEF FetchEnds
    <3>2. displayed' \in Int /\ displayed <= displayed' /\ displayed' <= latest
      BY <1>3, <2>1, <3>1
    <3>3. OneUnderWay({}, displayed', latest)
      BY DEF OneUnderWay
    <3> QED BY <1>3, <1>4, <2>0, <3>1, <3>2, <3>3
  <2> QED BY <1>6, <2>3, <2>4
<1> QED BY <1>5, <1>6

LEMMA ChannelStep ==
    ASSUME ChannelInv, [ChannelNext]_channelVars
    PROVE  ChannelInv' /\ displayed' >= displayed
<1>1. displayed \in Int
  BY ChannelNumbers
<1>2. CASE UNCHANGED channelVars
  <2>1. UNCHANGED <<stage, refs, period, interval, inflight, displayed, latest, ticks>>
    BY <1>2 DEF channelVars
  <2>2. TimerServesMounted'
    BY <2>1 DEF ChannelInv, TimerServesMounted, In
  <2>3. ChannelInv'
    BY <2>1, <2>2 DEF ChannelInv
  <2> QED BY <1>1, <2>1, <2>3
<1>3. ASSUME NEW c \in Components, SetUp(c) \/ Mount(c) \/ Unmount(c)
      PROVE  ChannelInv' /\ displayed' >= displayed
  <2>1. displayed' = displayed
    BY <1>3 DEF SetUp, Mount, Unmount
  <2> QED BY <1>1, <1>3, <2>1, SetUpKeeps, MountKeeps, UnmountKeeps
<1>4. CASE TimerFires \/ Refresh \/ Visibility
  <2>1. displayed' = displayed
    BY <1>4 DEF TimerFires, Refresh, Visibility
  <2> QED BY <1>1, <1>4, <2>1, PollingKeeps
<1> QED BY <1>2, <1>3, <1>4, AnsweringKeeps DEF ChannelNext

\* Whatever mounts, answers and fails, a poll channel keeps ChannelInv.
THEOREM ChannelInvHolds == ChannelSpec => []ChannelInv
<1>1. ChannelInit => ChannelInv
  <2> SUFFICES ASSUME ChannelInit PROVE ChannelInv
    OBVIOUS
  <2>1. In("mounted") = {}
    BY DEF ChannelInit, In
  <2>2. Cardinality(In("mounted")) = 0
    BY <2>1, FS_EmptySet
  <2>3. TimerServesMounted
    BY <2>2 DEF ChannelInit, TimerServesMounted
  <2> QED BY <2>3 DEF ChannelInit, ChannelInv, OneUnderWay
<1>2. ChannelInv /\ [ChannelNext]_channelVars => ChannelInv'
  BY ChannelStep
<1> QED BY <1>1, <1>2, PTL DEF ChannelSpec

\* However components come and go and the page is hidden and shown: what is
\* mounted is polled for as often as it asks, and what is displayed never gives way
\* to something older.
THEOREM ChannelServesPageHolds == ChannelSpec => ChannelServesPage
<1>1. ChannelInv => TimerServesMounted /\ FastEnough
  <2> SUFFICES ASSUME ChannelInv PROVE FastEnough
    BY DEF ChannelInv
  <2> QED BY DEF ChannelInv, FastEnough, In
<1>2. ChannelInv /\ [ChannelNext]_channelVars => [displayed' >= displayed]_channelVars
  BY ChannelStep
<1>3. ChannelSpec => [][displayed' >= displayed]_channelVars
  BY <1>2, ChannelInvHolds, PTL DEF ChannelSpec
<1> QED BY <1>1, <1>3, ChannelInvHolds, PTL DEF ChannelServesPage, NeverOlder

---------------------------------------------------------------------------
(***************************************************************************)
(* The meta-model                                                          *)
(***************************************************************************)

\* The definitions d are those of the graph g, with one IRI to each name.
Tells(g, d) ==
    \E S \in SUBSET Uris : \E h \in [S -> Defined] :
        /\ g = Triples(h)
        /\ \A u, v \in S : NameOf[u] = NameOf[v] => u = v
        /\ d \in [NamesIn(h) -> Defined]
        /\ \A u \in S : d[NameOf[u]] = h[u]

\* Definition e of name n is in the graph g; and those of d are.
InGraph(n, e, g) ==
    \E u \in Uris : NameOf[u] = n /\ Triples([v \in {u} |-> e]) \subseteq g

AreShown(d, g) ==
    DOMAIN d \subseteq PropertyNames /\ \A n \in DOMAIN d : InGraph(n, d[n], g)

\* Each definition in force is in the graph; and while no property was defined
\* twice, each version that was recorded tells its definitions.
MetaInv ==
    /\ AreShown(defs, graph)
    /\ defs \in [DOMAIN defs -> Defined]
    /\ loads \in Seq(BOOLEAN)
    /\ ~unclear => \A r \in recorded : Tells(r[1], r[2])
    /\ <<graph, defs>> \in recorded

LEMMA TriplesTell ==
    ASSUME NEW f, NEW t
    PROVE  t \in Triples(f) <=>
              \E u \in DOMAIN f, k \in Predicates :
                 t = <<u, k, f[u][k]>> /\ ~(k \in {"danger", "warn"} /\ f[u][k] = -1)
BY DEF Triples, Predicates

LEMMA TriplesOfOne ==
    ASSUME NEW f, NEW u, NEW k \in Predicates, NEW v
    PROVE  <<u, k, v>> \in Triples(f) <=>
              u \in DOMAIN f /\ v = f[u][k] /\ ~(k \in {"danger", "warn"} /\ v = -1)
BY TriplesTell

LEMMA SinglesAreTriples ==
    ASSUME NEW f, NEW u \in DOMAIN f
    PROVE  Triples([v \in {u} |-> f[u]]) \subseteq Triples(f)
<1> DEFINE one == [v \in {u} |-> f[u]]
<1>1. DOMAIN one = {u} /\ one[u] = f[u]
  OBVIOUS
<1> HIDE DEF one
<1> SUFFICES ASSUME NEW t \in Triples(one) PROVE t \in Triples(f)
  BY DEF one
<1>2. PICK w \in DOMAIN one, k \in Predicates :
          t = <<w, k, one[w][k]>> /\ ~(k \in {"danger", "warn"} /\ one[w][k] = -1)
  BY TriplesTell
<1> QED BY <1>1, <1>2, TriplesTell

\* A graph has the definitions of one fragment only.
LEMMA TriplesDetermine ==
    ASSUME NEW S, NEW T, NEW f \in [S -> Defined], NEW h \in [T -> Defined], Triples(f) = Triples(h)
    PROVE  S = T /\ f = h
<1>1. DOMAIN f = S /\ DOMAIN h = T /\ "min" \in Predicates
  BY DEF Predicates
<1>2. ASSUME NEW u PROVE u \in S <=> u \in T
  <2>1. u \in S <=> <<u, "min", f[u]["min"]>> \in Triples(f)
    BY <1>1, TriplesOfOne
  <2>2. u \in T <=> <<u, "min", h[u]["min"]>> \in Triples(h)
    BY <1>1, TriplesOfOne
  <2>3. <<u, "min", f[u]["min"]>> \in Triples(h) => u \in T
    BY <1>1, TriplesOfOne
  <2>4. <<u, "min", h[u]["min"]>> \in Triples(f) => u \in S
    BY <1>1, TriplesOfOne
  <2> QED BY <2>1, <2>2, <2>3, <2>4
<1>3. S = T
  BY <1>2
<1>4. ASSUME NEW u \in S PROVE f[u] = h[u]
  <2>1. ASSUME NEW k \in Predicates PROVE f[u][k] = h[u][k]
    <3>1. /\ <<u, k, f[u][k]>> \in Triples(f) <=> ~(k \in {"danger", "warn"} /\ f[u][k] = -1)
          /\ <<u, k, h[u][k]>> \in Triples(f) <=>
                h[u][k] = f[u][k] /\ ~(k \in {"danger", "warn"} /\ h[u][k] = -1)
      BY <1>1, TriplesOfOne
    <3>2. /\ <<u, k, h[u][k]>> \in Triples(h) <=> ~(k \in {"danger", "warn"} /\ h[u][k] = -1)
          /\ <<u, k, f[u][k]>> \in Triples(h) <=>
                f[u][k] = h[u][k] /\ ~(k \in {"danger", "warn"} /\ f[u][k] = -1)
      BY <1>1, <1>3, TriplesOfOne
    <3> QED BY <3>1, <3>2
  <2>2. f[u] \in Defined /\ h[u] \in Defined
    BY <1>3
  <2>3. /\ f[u] \in [min : Int, max : Int, danger : Int, warn : Int, direction : STRING]
        /\ h[u] \in [min : Int, max : Int, danger : Int, warn : Int, direction : STRING]
    BY <2>2, MetaAssumption
  <2>4. /\ f[u].min = h[u].min /\ f[u].max = h[u].max /\ f[u].danger = h[u].danger
        /\ f[u].warn = h[u].warn /\ f[u].direction = h[u].direction
    BY <2>1 DEF Predicates
  <2> QED BY <2>3, <2>4
<1>5. f = h
  BY <1>3, <1>4
<1> QED BY <1>3, <1>5

LEMMA TellsOnce ==
    ASSUME NEW g, NEW d, NEW e, Tells(g, d), Tells(g, e)
    PROVE  d = e
<1>1. PICK S \in SUBSET Uris : \E h \in [S -> Defined] :
          g = Triples(h) /\ d \in [NamesIn(h) -> Defined] /\ \A u \in S : d[NameOf[u]] = h[u]
  BY DEF Tells
<1>2. PICK h \in [S -> Defined] :
          g = Triples(h) /\ d \in [NamesIn(h) -> Defined] /\ \A u \in S : d[NameOf[u]] = h[u]
  BY <1>1
<1>3. PICK T \in SUBSET Uris : \E k \in [T -> Defined] :
          g = Triples(k) /\ e \in [NamesIn(k) -> Defined] /\ \A u \in T : e[NameOf[u]] = k[u]
  BY DEF Tells
<1>4. PICK k \in [T -> Defined] :
          g = Triples(k) /\ e \in [NamesIn(k) -> Defined] /\ \A u \in T : e[NameOf[u]] = k[u]
  BY <1>3
<1>5. S = T /\ h = k
  BY <1>2, <1>4, TriplesDetermine
<1>6. ASSUME NEW n \in NamesIn(h) PROVE d[n] = e[n]
  <2>1. PICK u \in S : n = NameOf[u]
    BY <1>6 DEF NamesIn
  <2> QED BY <1>2, <1>4, <1>5, <2>1
<1> QED BY <1>2, <1>4, <1>5, <1>6

\* Of fewer names than IRIs two IRIs have one name.
LEMMA NamesApart ==
    ASSUME NEW f \in Fragments, ~(Cardinality(NamesIn(f)) < Cardinality(DOMAIN f))
    PROVE  \A u, v \in DOMAIN f : NameOf[u] = NameOf[v] => u = v
<1> DEFINE D == DOMAIN f
           N == [u \in D |-> NameOf[u]]
<1>1. D \subseteq Uris /\ IsFiniteSet(D)
  BY FS_Subset, MetaAssumption DEF Fragments
<1>2. N \in Surjection(D, NamesIn(f))
  BY DEF Surjection, NamesIn
<1>3. /\ IsFiniteSet(NamesIn(f)) /\ Cardinality(NamesIn(f)) <= Cardinality(D)
      /\ Cardinality(NamesIn(f)) = Cardinality(D) <=> N \in Injection(D, NamesIn(f))
  BY <1>1, <1>2, FS_Surjection
<1>4. Cardinality(NamesIn(f)) = Cardinality(D)
  BY <1>1, <1>3, FS_CardinalityType
<1>5. N \in Injection(D, NamesIn(f))
  BY <1>3, <1>4
<1> HIDE DEF N, D
<1>6. \A u, v \in D : N[u] = N[v] => u = v
  BY <1>5 DEF Injection, IsInjective
<1> QED BY <1>6 DEF N, D

\* What a fragment defines, and what it leaves.
LEMMA RedefinedWell ==
    ASSUME NEW f \in Fragments, NEW old, old \in [DOMAIN old -> Defined], NEW new \in Redefined(old, f)
    PROVE  /\ new \in [DOMAIN old \cup NamesIn(f) -> Defined] /\ DOMAIN new = DOMAIN old \cup NamesIn(f)
           /\ \A n \in NamesIn(f) : \E u \in DOMAIN f : NameOf[u] = n /\ new[n] = f[u]
           /\ \A n \in DOMAIN old \ NamesIn(f) : new[n] = old[n]
BY DEF Redefined
\* A fragment of new names, each with one IRI, is told by the triples it adds.
LEMMA MergedTells ==
    ASSUME NEW f \in Fragments, NEW g, NEW d, Tells(g, d), ~Unclear(d, f), NEW new \in Redefined(d, f)
    PROVE  Tells(g \cup Triples(f), new)
<1>1. PICK S \in SUBSET Uris : \E h \in [S -> Defined] :
          /\ g = Triples(h) /\ \A u, v \in S : NameOf[u] = NameOf[v] => u = v
          /\ d \in [NamesIn(h) -> Defined] /\ \A u \in S : d[NameOf[u]] = h[u]
  BY DEF Tells
<1>2. PICK h \in [S -> Defined] :
          /\ g = Triples(h) /\ \A u, v \in S : NameOf[u] = NameOf[v] => u = v
          /\ d \in [NamesIn(h) -> Defined] /\ \A u \in S : d[NameOf[u]] = h[u]
  BY <1>1
<1> DEFINE D == DOMAIN f
           both == [u \in S \cup D |-> IF u \in S THEN h[u] ELSE f[u]]
<1>3. D \subseteq Uris /\ \A u \in D : f[u] \in Defined
  BY DEF Fragments
<1>4. /\ DOMAIN d = NamesIn(h) /\ NamesIn(f) \cap NamesIn(h) = {}
      /\ \A u, v \in D : NameOf[u] = NameOf[v] => u = v
  BY <1>2, NamesApart DEF Unclear
<1>5. /\ \A u \in S : NameOf[u] \in NamesIn(h)
      /\ \A u \in D : NameOf[u] \in NamesIn(f)
  BY <1>2 DEF NamesIn
<1>6. S \cap D = {}
  BY <1>4, <1>5
<1>7. /\ both \in [S \cup D -> Defined] /\ DOMAIN both = S \cup D /\ S \cup D \in SUBSET Uris
      /\ \A u \in S : both[u] = h[u]
      /\ \A u \in D : both[u] = f[u]
  BY <1>2, <1>3, <1>6
<1> HIDE DEF both
<1>8. NamesIn(both) = NamesIn(h) \cup NamesIn(f)
  BY <1>2, <1>7 DEF NamesIn
<1>9. Triples(both) = g \cup Triples(f)
  <2>1. ASSUME NEW t \in Triples(both) PROVE t \in g \cup Triples(f)
    <3>1. PICK u \in DOMAIN both, k \in Predicates :
              t = <<u, k, both[u][k]>> /\ ~(k \in {"danger", "warn"} /\ both[u][k] = -1)
      BY <2>1, TriplesTell
    <3>2. CASE u \in S
      <4>1. t \in Triples(h)
        BY <1>2, <1>7, <3>1, <3>2, TriplesTell
      <4> QED BY <1>2, <4>1
    <3>3. CASE u \in D
      BY <1>7, <3>1, <3>3, TriplesTell
    <3> QED BY <1>7, <3>1, <3>2, <3>3
  <2>2. ASSUME NEW t \in g PROVE t \in Triples(both)
    <3>1. PICK u \in DOMAIN h, k \in Predicates :
              t = <<u, k, h[u][k]>> /\ ~(k \in {"danger", "warn"} /\ h[u][k] = -1)
      BY <1>2, <2>2, TriplesTell
    <3>2. u \in DOMAIN both /\ both[u] = h[u]
      BY <1>2, <1>7, <3>1
    <3> QED BY <3>1, <3>2, TriplesTell
  <2>3. ASSUME NEW t \in Triples(f) PROVE t \in Triples(both)
    <3>1. PICK u \in D, k \in Predicates :
              t = <<u, k, f[u][k]>> /\ ~(k \in {"danger", "warn"} /\ f[u][k] = -1)
      BY <2>3, TriplesTell
    <3>2. u \in DOMAIN both /\ both[u] = f[u]
      BY <1>7, <3>1
    <3> QED BY <3>1, <3>2, TriplesTell
  <2> QED BY <2>1, <2>2, <2>3
<1>10. \A u, v \in S \cup D : NameOf[u] = NameOf[v] => u = v
  <2> SUFFICES ASSUME NEW u \in S \cup D, NEW v \in S \cup D, NameOf[u] = NameOf[v] PROVE u = v
    OBVIOUS
  <2>1. CASE u \in S
    BY <1>2, <1>4, <1>5, <2>1
  <2>2. CASE u \in D
    BY <1>4, <1>5, <2>2
  <2> QED BY <2>1, <2>2
<1>11. /\ new \in [NamesIn(h) \cup NamesIn(f) -> Defined]
       /\ \A n \in NamesIn(f) : \E u \in D : NameOf[u] = n /\ new[n] = f[u]
       /\ \A n \in NamesIn(h) \ NamesIn(f) : new[n] = d[n]
  <2>1. d \in [DOMAIN d -> Defined]
    BY <1>2, <1>4
  <2>2. /\ new \in [DOMAIN d \cup NamesIn(f) -> Defined]
        /\ \A n \in NamesIn(f) : \E u \in DOMAIN f : NameOf[u] = n /\ new[n] = f[u]
        /\ \A n \in DOMAIN d \ NamesIn(f) : new[n] = d[n]
    BY DEF Redefined
  <2> QED BY <1>4, <2>2
<1>12. ASSUME NEW u \in S \cup D PROVE new[NameOf[u]] = both[u]
  <2>1. CASE u \in S
    <3>1. new[NameOf[u]] = d[NameOf[u]]
      BY <1>4, <1>5, <1>11, <2>1
    <3> QED BY <1>2, <1>7, <2>1, <3>1
  <2>2. CASE u \in D
    <3>1. PICK v \in D : NameOf[v] = NameOf[u] /\ new[NameOf[u]] = f[v]
      BY <1>5, <1>11, <2>2
    <3> QED BY <1>4, <1>7, <2>2, <3>1
  <2> QED BY <2>1, <2>2
<1> QED BY <1>7, <1>8, <1>9, <1>10, <1>11, <1>12 DEF Tells

LEMMA NothingTells == Tells({}, << >>)
<1> DEFINE none == [u \in {} |-> CHOOSE x \in Defined : TRUE]
<1>1. none \in [{} -> Defined] /\ DOMAIN none = {}
  OBVIOUS
<1>2. NamesIn(none) = {} /\ Triples(none) = {}
  BY <1>1, TriplesTell DEF NamesIn
<1>3. << >> \in [{} -> Defined]
  OBVIOUS
<1> QED BY <1>1, <1>2, <1>3 DEF Tells

\* A definition that was there or comes with the fragment is in the graph.
LEMMA DefinedIsInGraph ==
    ASSUME NEW f \in Fragments, NEW old, old \in [DOMAIN old -> Defined], NEW new \in Redefined(old, f),
           NEW g, NEW n \in DOMAIN new,
           n \in DOMAIN old => InGraph(n, old[n], g)
    PROVE  InGraph(n, new[n], g \cup Triples(f))
<1>1. /\ DOMAIN new = DOMAIN old \cup NamesIn(f)
      /\ \A m \in NamesIn(f) : \E u \in DOMAIN f : NameOf[u] = m /\ new[m] = f[u]
      /\ \A m \in DOMAIN old \ NamesIn(f) : new[m] = old[m]
  BY RedefinedWell
<1>2. CASE n \in NamesIn(f)
  <2>1. PICK u \in DOMAIN f : NameOf[u] = n /\ new[n] = f[u]
    BY <1>1, <1>2
  <2>2. u \in Uris /\ Triples([v \in {u} |-> f[u]]) \subseteq Triples(f)
    BY SinglesAreTriples DEF Fragments
  <2>3. Triples([v \in {u} |-> f[u]]) \subseteq g \cup Triples(f)
    BY <2>2
  <2>4. InGraph(n, f[u], g \cup Triples(f))
    BY <2>1, <2>2, <2>3 DEF InGraph
  <2> QED BY <2>1, <2>4
<1>3. CASE n \notin NamesIn(f)
  <2>1. n \in DOMAIN old /\ new[n] = old[n]
    BY <1>1, <1>3
  <2>2. \A S : S \subseteq g => S \subseteq g \cup Triples(f)
    OBVIOUS
  <2> QED BY <2>1, <2>2 DEF InGraph
<1> QED BY <1>2, <1>3

LEMMA LoadKeeps ==
    ASSUME MetaInv, NEW f \in Fragments, Load(f) \/ Replace(f)
    PROVE  MetaInv'
<1>1. PICK old, g :
          /\ old \in [DOMAIN old -> Defined] /\ AreShown(old, g)
          /\ ~unclear => Tells(g, old)
          /\ defs' \in Redefined(old, f) /\ graph' = g \cup Triples(f)
          /\ unclear' = (unclear \/ Unclear(old, f))
  <2>1. CASE Load(f)
    <3>1. ~unclear => Tells(graph, defs)
      BY DEF MetaInv
    <3> QED BY <2>1, <3>1 DEF Load, Merged, MetaInv
  <2>2. CASE Replace(f)
    <3>1. << >> \in [DOMAIN << >> -> Defined] /\ DOMAIN << >> = {} /\ {} \cup Triples(f) = Triples(f)
      OBVIOUS
    <3>2. AreShown(<< >>, {})
      BY <3>1 DEF AreShown
    <3> QED BY <2>2, <3>1, <3>2, NothingTells DEF Replace
  <2> QED BY <2>1, <2>2
<1>2. recorded' = recorded \cup {<<graph', defs'>>} /\ loads' \in Seq(BOOLEAN)
  <2>1. <<TRUE>> \in Seq(BOOLEAN) /\ <<TRUE>> \o loads \in Seq(BOOLEAN)
    BY DEF MetaInv
  <2>2. Cut(<<TRUE>> \o loads) \in Seq(BOOLEAN)
    <3> DEFINE l == <<TRUE>> \o loads
               n == IF Len(l) < HistoryKept THEN Len(l) ELSE HistoryKept
    <3>1. n \in Nat /\ n <= Len(l) /\ l \in Seq(BOOLEAN)
      BY <2>1, MetaAssumption
    <3>2. Cut(l) = SubSeq(l, 1, n)
      BY DEF Cut
    <3> HIDE DEF l, n
    <3>3. SubSeq(l, 1, n) \in Seq(BOOLEAN)
      BY <3>1
    <3> QED BY <3>2, <3>3 DEF l
  <2> QED BY <2>1, <2>2 DEF Load, Replace
<1>3. /\ defs' \in [DOMAIN old \cup NamesIn(f) -> Defined]
      /\ DOMAIN defs' = DOMAIN old \cup NamesIn(f)
  BY <1>1, RedefinedWell
<1>4. NamesIn(f) \subseteq PropertyNames
  BY DEF NamesIn, PropertyNames, Fragments
<1>5. ASSUME NEW n \in DOMAIN defs' PROVE InGraph(n, defs'[n], graph')
  <2>1. n \in DOMAIN old => InGraph(n, old[n], g)
    BY <1>1 DEF AreShown
  <2> QED BY <1>1, <2>1, DefinedIsInGraph
<1>6. AreShown(defs', graph')
  BY <1>1, <1>3, <1>4, <1>5 DEF AreShown
<1>7. ASSUME ~unclear', NEW r \in recorded' PROVE Tells(r[1], r[2])
  <2>1. ~unclear /\ ~Unclear(old, f)
    BY <1>1, <1>7
  <2>2. CASE r \in recorded
    BY <2>1, <2>2 DEF MetaInv
  <2>3. CASE r = <<graph', defs'>>
    <3>1. Tells(g \cup Triples(f), defs')
      BY <1>1, <2>1, MergedTells
    <3> QED BY <1>1, <2>3, <3>1
  <2> QED BY <1>2, <2>2, <2>3
<1> QED BY <1>2, <1>3, <1>6, <1>7 DEF MetaInv

LEMMA LoadRejectedKeeps == ASSUME MetaInv, NEW f \in Fragments, LoadRejected(f) PROVE MetaInv'
<1>1. UNCHANGED <<graph, defs, recorded, unclear>> /\ loads' = <<FALSE>> \o loads
  BY DEF LoadRejected, GraphRefused
<1>2. loads' \in Seq(BOOLEAN)
  BY <1>1 DEF MetaInv
<1> QED BY <1>1, <1>2 DEF MetaInv

LEMMA ResetKeeps == ASSUME MetaInv, Reset PROVE MetaInv'
<1>1. /\ graph' = {} /\ defs' = << >> /\ loads' = << >> /\ unclear' = unclear
      /\ recorded' = recorded \cup {<<{}, << >>>>}
  BY DEF Reset, DefsCleared
<1>2. << >> \in [DOMAIN << >> -> Defined] /\ DOMAIN << >> = {} /\ << >> \in Seq(BOOLEAN)
  OBVIOUS
<1>3. AreShown(defs', graph')
  BY <1>1, <1>2 DEF AreShown
<1>4. ASSUME ~unclear', NEW r \in recorded' PROVE Tells(r[1], r[2])
  <2>1. CASE r \in recorded
    BY <1>1, <1>4, <2>1 DEF MetaInv
  <2>2. CASE r = <<{}, << >>>>
    BY <2>2, NothingTells
  <2> QED BY <1>1, <2>1, <2>2
<1> QED BY <1>1, <1>2, <1>3, <1>4 DEF MetaInv

\* Through accepted and rejected loads, definitions and graph keep MetaInv.
THEOREM MetaInvHolds == MetaSpec => []MetaInv
<1>1. MetaInit => MetaInv
  <2> SUFFICES ASSUME MetaInit PROVE MetaInv
    OBVIOUS
  <2>1. << >> \in [DOMAIN << >> -> Defined] /\ DOMAIN << >> = {} /\ << >> \in Seq(BOOLEAN)
    OBVIOUS
  <2>2. recorded = {<<{}, << >>>>} /\ defs = << >> /\ loads = << >> /\ graph = {}
    BY DEF MetaInit
  <2>3. ASSUME NEW r \in recorded PROVE Tells(r[1], r[2])
    <3>1. r[1] = {} /\ r[2] = << >>
      BY <2>2
    <3> QED BY <3>1, NothingTells
  <2>4. AreShown(defs, graph)
    BY <2>1, <2>2 DEF AreShown
  <2> QED BY <2>1, <2>2, <2>3, <2>4 DEF MetaInv
<1>2. MetaInv /\ [MetaNext]_metaVars => MetaInv'
  <2> SUFFICES ASSUME MetaInv, [MetaNext]_metaVars PROVE MetaInv'
    OBVIOUS
  <2>1. CASE UNCHANGED <<graph, defs, loads, recorded, unclear>>
    BY <2>1 DEF MetaInv
  <2>2. Bind \/ UNCHANGED metaVars => UNCHANGED <<graph, defs, loads, recorded, unclear>>
    BY DEF Bind, metaVars
  <2> QED BY <2>1, <2>2, LoadKeeps, LoadRejectedKeeps, ResetKeeps DEF MetaNext
<1> QED BY <1>1, <1>2, PTL DEF MetaSpec

LEMMA FirstIsHead ==
    /\ \A S : \A s \in Seq(S) : Len(s) # 0 => Head(s) = s[1]
    /\ \A x : Head(<<x>>) = x
OBVIOUS

\* What a step that notes a rejected load leaves.
RejectedStep == Len(loads') > Len(loads) /\ ~Head(loads') => graph' = graph /\ defs' = defs

LEMMA RejectedTouchNothing == ASSUME MetaInv, [MetaNext]_metaVars PROVE RejectedStep
<1>1. loads \in Seq(BOOLEAN)
  BY DEF MetaInv
<1>2. ASSUME NEW f \in Fragments, Load(f) PROVE RejectedStep
  <2> DEFINE longer == <<TRUE>> \o loads
             n == IF Len(longer) < HistoryKept THEN Len(longer) ELSE HistoryKept
  <2>1. longer \in Seq(BOOLEAN) /\ longer[1] = TRUE /\ Len(longer) = Len(loads) + 1 /\ Len(loads) \in Nat
    BY <1>1
  <2>2. n \in Nat /\ n <= Len(longer)
    BY <2>1, MetaAssumption
  <2>3. loads' = SubSeq(longer, 1, n)
    BY <1>2 DEF Load, Cut
  <2> HIDE DEF longer, n
  <2>4. CASE n = 0
    <3>1. Len(loads') = 0
      BY <2>1, <2>2, <2>3, <2>4
    <3>2. ~(Len(loads') > Len(loads))
      BY <2>1, <3>1
    <3> QED BY <3>2 DEF RejectedStep
  <2>5. CASE n # 0
    <3>1. 1 \in 1..n /\ 1 \in 1..Len(longer) /\ n \in 1..Len(longer)
      BY <2>1, <2>2, <2>5
    <3>2. loads' \in Seq(BOOLEAN) /\ Len(loads') = n /\ loads'[1] = TRUE
      BY <2>1, <2>2, <2>3, <3>1
    <3>3. Head(loads') = TRUE
      BY <2>5, <3>2, FirstIsHead
    <3> QED BY <3>3 DEF RejectedStep
  <2> QED BY <2>4, <2>5
<1>3. ASSUME NEW f \in Fragments, LoadRejected(f) PROVE RejectedStep
  BY <1>3 DEF LoadRejected, GraphRefused, RejectedStep
<1>4. ASSUME NEW f \in Fragments, Replace(f) PROVE RejectedStep
  <2>1. loads' = <<TRUE>> /\ Head(<<TRUE>>) = TRUE
    BY <1>4, FirstIsHead DEF Replace
  <2> QED BY <2>1 DEF RejectedStep
<1>5. CASE Reset
  <2>1. Len(loads') = 0 /\ Len(loads) \in Nat
    BY <1>1, <1>5 DEF Reset
  <2>2. ~(Len(loads') > Len(loads))
    BY <2>1
  <2> QED BY <2>2 DEF RejectedStep
<1>6. CASE Bind \/ UNCHANGED metaVars
  BY <1>1, <1>6 DEF Bind, metaVars, RejectedStep
<1> QED BY <1>2, <1>3, <1>4, <1>5, <1>6 DEF MetaNext

\* The limits, thresholds and warnings are those of the registry, or built in.
LEMMA AllIsResolved == ASSUME MetaInv PROVE ResolvedSomewhere
<1> SUFFICES ASSUME NEW n \in PropertyNames \cup DOMAIN BuiltInLimit
             PROVE  /\ Threshold(n) \subseteq Int \X {"above", "below"}
                    /\ Source(n) = "ontology" => Limit(n) = {<<defs[n].min, defs[n].max>>}
                    /\ Source(n) = "unknown" <=> Limit(n) = {} /\ Threshold(n) = {} /\ Warn(n) = {}
                    /\ Limit(n) = {} => Threshold(n) = {}
  BY DEF ResolvedSomewhere
<1>1. n \in DOMAIN Read => Read = defs /\ Read[n].danger \in Int
  <2>1. DOMAIN << >> = {}
    OBVIOUS
  <2>2. \A m \in DOMAIN defs : defs[m].danger \in Int
    BY MetaAssumption DEF MetaInv
  <2> QED BY <2>1, <2>2 DEF Read
<1>2. \A d : Alias(d) \in {"above", "below"}
  BY DEF Alias
<1>3. /\ n \in DOMAIN BuiltInThreshold => BuiltInThreshold[n] \in Int \X {"above", "below"}
      /\ n \in DOMAIN BuiltInThreshold \/ n \in DOMAIN BuiltInWarn => n \in DOMAIN BuiltInLimit
  BY MetaAssumption
<1>4. CASE n \in DOMAIN Read
  <2>1. Source(n) = "ontology" /\ Limit(n) = {<<defs[n].min, defs[n].max>>}
    BY <1>1, <1>4 DEF Source, Limit, FromOntology
  <2>2. Threshold(n) \subseteq Int \X {"above", "below"}
    BY <1>1, <1>2, <1>3, <1>4 DEF Threshold, Dangerous
  <2> QED BY <2>1, <2>2
<1>5. CASE n \notin DOMAIN Read
  <2>1. /\ Limit(n) = IF n \in DOMAIN BuiltInLimit THEN {BuiltInLimit[n]} ELSE {}
        /\ Threshold(n) = IF n \in DOMAIN BuiltInThreshold THEN {BuiltInThreshold[n]} ELSE {}
        /\ Warn(n) = IF n \in DOMAIN BuiltInWarn THEN {BuiltInWarn[n]} ELSE {}
        /\ Source(n) = IF n \in DOMAIN BuiltInThreshold \cup DOMAIN BuiltInLimit THEN "fallback" ELSE "unknown"
    BY <1>5 DEF Limit, FromOntology, Threshold, Dangerous, Warn, Source
  <2> QED BY <1>3, <2>1
<1> QED BY <1>4, <1>5

\* For any properties, names and definitions: each definition in force is in the
\* graph, the version tells the definitions unless a property was defined twice,
\* what is judged by is accepted or built in, and a rejected load touches nothing.
THEOREM MetaModelTellsHolds == MetaSpec => MetaModelTells
<1>1. MetaInv => MetaTypeOK /\ VersionTells /\ ResolvedSomewhere
  <2> SUFFICES ASSUME MetaInv PROVE MetaTypeOK /\ VersionTells /\ ResolvedSomewhere
    OBVIOUS
  <2>1. ASSUME ~unclear, NEW a \in recorded, NEW b \in recorded, a[1] = b[1] PROVE a[2] = b[2]
    <3>1. Tells(a[1], a[2]) /\ Tells(a[1], b[2])
      BY <2>1 DEF MetaInv
    <3> QED BY <3>1, TellsOnce
  <2>2. MetaTypeOK
    BY DEF MetaInv, AreShown, InGraph, MetaTypeOK
  <2> QED BY <2>1, <2>2, AllIsResolved DEF VersionTells
<1>2. MetaInv /\ [MetaNext]_metaVars => [RejectedStep]_metaVars
  BY RejectedTouchNothing
<1>3. MetaSpec => [][RejectedStep]_metaVars
  BY <1>2, MetaInvHolds, PTL DEF MetaSpec
<1>4. RejectedStep <=> (Len(loads') > Len(loads) /\ ~Head(loads') => graph' = graph /\ defs' = defs)
  BY DEF RejectedStep
<1> QED BY <1>1, <1>3, <1>4, MetaInvHolds, PTL DEF MetaModelTells, RejectedChangesNothing

---------------------------------------------------------------------------
(***************************************************************************)
(* The federation of the factories                                         *)
(***************************************************************************)

\* The rows of r's store that come before it there, or tie.
NotAfter(R, r) == {k \in R \ {r} : k.of = r.of /\ k.time >= r.time}

\* The rows that are held of those that were found: what is missing was left out
\* by its store for as many as were asked for.
HeldWell(held, found, n) ==
    /\ IsFiniteSet(found) /\ held \subseteq found
    /\ \A r \in found \ held : Cardinality(held) >= n /\ Cardinality(NotAfter(found, r)) >= n

LEMMA MoreAreEnough ==
    ASSUME NEW Q, IsFiniteSet(Q), NEW S \in SUBSET Q, NEW n \in Nat, Cardinality(S) >= n
    PROVE  Cardinality(Q) >= n
<1>1. Cardinality(S) <= Cardinality(Q) /\ IsFiniteSet(S)
  BY FS_Subset
<1>2. Cardinality(S) \in Nat /\ Cardinality(Q) \in Nat
  BY <1>1, FS_CardinalityType
<1> QED BY <1>1, <1>2

\* What a store answers with is all that the result may need of it.
LEMMA NewestSuffice ==
    ASSUME NEW F, IsFiniteSet(F), NEW s, \A r \in F : r.of = s, NEW n \in Nat, NEW T \in Newest(F, n)
    PROVE  HeldWell(T, F, n)
<1>1. /\ T \subseteq F /\ (T = F \/ Cardinality(T) = n)
      /\ \A k \in T, r \in F \ T : k.time >= r.time
  BY DEF Newest, Some
<1>2. ASSUME NEW r \in F \ T PROVE Cardinality(T) >= n /\ Cardinality(NotAfter(F, r)) >= n
  <2>1. Cardinality(T) = n
    BY <1>1
  <2>5. \A k \in T : k \in F \ {r} /\ k.of = r.of /\ k.time >= r.time
    BY <1>1
  <2>2. T \in SUBSET NotAfter(F, r) /\ NotAfter(F, r) \subseteq F
    BY <2>5 DEF NotAfter
  <2>3. IsFiniteSet(NotAfter(F, r)) /\ Cardinality(T) >= n
    BY <2>1, <2>2, FS_Subset
  <2>4. Cardinality(NotAfter(F, r)) >= n
    BY <2>2, <2>3, MoreAreEnough
  <2> QED BY <2>3, <2>4
<1> QED BY <1>1, <1>2 DEF HeldWell

LEMMA MoreIsHeld ==
    ASSUME NEW held, NEW found, NEW n \in Nat, HeldWell(held, found, n),
           NEW all, IsFiniteSet(all), found \subseteq all, NEW kept, held \subseteq kept, kept \subseteq all,
           NEW r \in found \ kept
    PROVE  Cardinality(kept) >= n /\ Cardinality(NotAfter(all, r)) >= n
<1>1. Cardinality(held) >= n /\ Cardinality(NotAfter(found, r)) >= n
  BY DEF HeldWell
<1>2. IsFiniteSet(kept) /\ held \in SUBSET kept
  BY FS_Subset
<1>3. NotAfter(found, r) \in SUBSET NotAfter(all, r) /\ NotAfter(all, r) \subseteq all
  BY DEF NotAfter
<1>4. IsFiniteSet(NotAfter(all, r))
  BY <1>3, FS_Subset
<1>5. Cardinality(kept) >= n
  BY <1>1, <1>2, MoreAreEnough
<1>6. Cardinality(NotAfter(all, r)) >= n
  BY <1>1, <1>3, <1>4, MoreAreEnough
<1> QED BY <1>5, <1>6

LEMMA HeldTogether ==
    ASSUME NEW n \in Nat, NEW held, NEW found, HeldWell(held, found, n),
           NEW F, NEW T, HeldWell(T, F, n)
    PROVE  HeldWell(held \cup T, found \cup F, n)
<1>1. IsFiniteSet(found \cup F) /\ held \cup T \subseteq found \cup F
  BY FS_Union DEF HeldWell
<1>2. ASSUME NEW r \in (found \cup F) \ (held \cup T)
      PROVE  Cardinality(held \cup T) >= n /\ Cardinality(NotAfter(found \cup F, r)) >= n
  <2>1. CASE r \in found
    BY <1>1, <2>1, MoreIsHeld
  <2>2. CASE r \in F
    BY <1>1, <2>2, MoreIsHeld
  <2> QED BY <2>1, <2>2
<1> QED BY <1>1, <1>2 DEF HeldWell

\* What the answer shows of the rows that are held.
LEMMA ShownAreFirst ==
    ASSUME NEW held, NEW found, NEW n \in Nat, HeldWell(held, found, n), NEW T \in FirstByText(held, n)
    PROVE  \A r \in found \ T :
              Cardinality(T) = n /\ ((\A k \in T : k.text >= r.text) \/ Cardinality(NotAfter(found, r)) >= n)
<1> SUFFICES ASSUME NEW r \in found \ T
             PROVE  Cardinality(T) = n /\ ((\A k \in T : k.text >= r.text) \/ Cardinality(NotAfter(found, r)) >= n)
  OBVIOUS
<1>1. /\ T \subseteq held /\ Cardinality(T) <= n /\ (T = held \/ Cardinality(T) = n)
      /\ \A k \in T, q \in held \ T : k.text >= q.text
  BY DEF FirstByText, Some
<1>2. Cardinality(T) \in Nat
  BY <1>1, FS_Subset, FS_CardinalityType DEF HeldWell
<1>3. CASE r \in held
  BY <1>1, <1>3
<1>4. CASE r \notin held
  <2>1. Cardinality(held) >= n /\ Cardinality(NotAfter(found, r)) >= n
    BY <1>4 DEF HeldWell
  <2> QED BY <1>1, <1>2, <2>1
<1> QED BY <1>3, <1>4

Query(p, n, w, held, found, open, failed) ==
    [about |-> p, limit |-> n, asked |-> w, rows |-> held, found |-> found, open |-> open, failed |-> failed]

\* What a query has of the rows in the stores st, and from whom.
Asking(n, w, held, found, open, failed, st) ==
    /\ n \in Nat
    /\ DOMAIN w # {} /\ DOMAIN w \subseteq Sites /\ open \cup failed \subseteq DOMAIN w
    /\ open \cap failed = {}
    /\ found \subseteq st /\ HeldWell(held, found, n)
    /\ \A r \in found : r.of \in DOMAIN w \ (open \cup failed)

\* The words w are still those of the registry, where it was left alone.
Words(p, w, registry, moved) ==
    \A s \in DOMAIN w \ moved : s \in DOMAIN registry /\ w[s] = Localise(registry[s].align, p)

QueryWell(asking, st, registry, moved) ==
    asking = {} \/ \E p, n, w, held, found, open, failed :
                      /\ asking = {Query(p, n, w, held, found, open, failed)}
                      /\ Asking(n, w, held, found, open, failed, st)
                      /\ Words(p, w, registry, moved)

Answer(res) ==
    /\ DOMAIN res.labels = {r.of : r \in res.rows}
    /\ \A r \in res.found \ res.rows :
          /\ Cardinality(res.rows) = res.limit
          /\ (\A k \in res.rows : k.text >= r.text) \/ Cardinality(NotAfter(res.found, r)) >= res.limit
    /\ res.degraded <=> res.failed # {} \/ res.asked = {}
    /\ \A r \in res.rows : r.of \in res.asked \ res.failed

ResultWell(answers) == answers = {} \/ \E res : answers = {res} /\ Answer(res)

Entry == [align : Alignments \cup {<< >>}, online : BOOLEAN]

FederationInv ==
    /\ DOMAIN site \subseteq Sites /\ site \in [DOMAIN site -> Entry]
    /\ IsFiniteSet(store)
    /\ QueryWell(query, store, site, shuffled)
    /\ ResultWell(result)

LEMMA EntriesChange ==
    /\ \A e \in Entry, on \in BOOLEAN : LET f == [e EXCEPT !.online = on] IN f \in Entry /\ f.align = e.align
    /\ \A a \in Alignments \cup {<< >>}, on \in BOOLEAN : [align |-> a, online |-> on] \in Entry
BY DEF Entry

\* A change of the registry keeps the words of a query but of the sites it moves.
LEMMA RegistryKeeps ==
    ASSUME FederationInv, UNCHANGED <<store, query, result>>,
           DOMAIN site' \subseteq Sites, site' \in [DOMAIN site' -> Entry],
           \A t \in Sites \ shuffled' : t \in DOMAIN site =>
               t \in DOMAIN site' /\ site'[t].align = site[t].align,
           shuffled \subseteq shuffled' \/ shuffled' = Sites
    PROVE  FederationInv'
<1>1. QueryWell(query, store, site', shuffled')
  <2>1. CASE query = {}
    BY <2>1 DEF QueryWell
  <2>2. CASE query # {}
    <3>1. PICK p, n, w, held, found, open, failed :
              /\ query = {Query(p, n, w, held, found, open, failed)}
              /\ Asking(n, w, held, found, open, failed, store)
              /\ Words(p, w, site, shuffled)
      BY <2>2 DEF FederationInv, QueryWell
    <3>2. Words(p, w, site', shuffled')
      BY <3>1 DEF Words, Asking
    <3> QED BY <3>1, <3>2 DEF QueryWell
  <2> QED BY <2>1, <2>2
<1> QED BY <1>1 DEF FederationInv

LEMMA MovesKeep ==
    ASSUME FederationInv, Moved,
           \/ \E s \in Sites, a \in Alignments : Register(s, a)
           \/ \E s, t \in Sites, a \in Alignments : Seed(s, t, a)
           \/ \E s \in Sites : Unregister(s)
           \/ \E s \in Sites, on \in BOOLEAN : SetOnline(s, on)
    PROVE  FederationInv'
<1>1. UNCHANGED <<store, query, result>> /\ DOMAIN site \subseteq Sites /\ site \in [DOMAIN site -> Entry]
  BY DEF Moved, FederationInv
<1>2. ASSUME NEW s \in Sites, NEW a \in Alignments, Register(s, a) PROVE FederationInv'
  <2>1. /\ DOMAIN site' = DOMAIN site \cup {s} /\ shuffled' = shuffled \cup {s}
        /\ site'[s] = [align |-> a, online |-> TRUE]
        /\ \A t \in DOMAIN site \ {s} : site'[t] = site[t]
        /\ site' = [t \in DOMAIN site' |-> site'[t]]
    BY <1>2 DEF Register
  <2>2. site' \in [DOMAIN site' -> Entry]
    <3>1. site'[s] \in Entry
      BY <2>1, EntriesChange
    <3>2. \A t \in DOMAIN site' : site'[t] \in Entry
      BY <1>1, <2>1, <3>1
    <3> QED BY <2>1, <3>2
  <2> QED BY <1>1, <2>1, <2>2, RegistryKeeps
<1>3. ASSUME NEW s \in Sites, NEW t \in Sites, NEW a \in Alignments, Seed(s, t, a) PROVE FederationInv'
  <2>1. shuffled' = Sites /\ DOMAIN site' = {s, t}
    BY <1>3 DEF Seed
  <2>2. site' \in [DOMAIN site' -> Entry]
    BY <1>3, EntriesChange DEF Seed
  <2> QED BY <1>1, <2>1, <2>2, RegistryKeeps
<1>4. ASSUME NEW s \in Sites, Unregister(s) PROVE FederationInv'
  <2>1. /\ DOMAIN site' = DOMAIN site \ {s} /\ shuffled' = shuffled \cup {s}
        /\ \A t \in DOMAIN site \ {s} : site'[t] = site[t]
        /\ site' = [t \in DOMAIN site' |-> site'[t]]
    BY <1>4 DEF Unregister
  <2>2. site' \in [DOMAIN site' -> Entry]
    BY <1>1, <2>1
  <2> QED BY <1>1, <2>1, <2>2, RegistryKeeps
<1>5. ASSUME NEW s \in Sites, NEW on \in BOOLEAN, SetOnline(s, on) PROVE FederationInv'
  <2>1. /\ s \in DOMAIN site /\ shuffled' = shuffled
        /\ site' = [site EXCEPT ![s] = [site[s] EXCEPT !.online = on]]
    BY <1>5 DEF SetOnline, OnlineSet
  <2>2. LET e == [site[s] EXCEPT !.online = on] IN e \in Entry /\ e.align = site[s].align
    <3>1. site[s] \in Entry
      BY <1>1, <2>1
    <3> QED BY <3>1, EntriesChange
  <2>3. /\ DOMAIN site' = DOMAIN site /\ site' \in [DOMAIN site' -> Entry]
        /\ \A t \in DOMAIN site : site'[t].align = site[t].align
    BY <1>1, <2>1, <2>2
  <2> QED BY <1>1, <2>1, <2>3, RegistryKeeps
<1> QED BY <1>2, <1>3, <1>4, <1>5

LEMMA StoredKeeps ==
    ASSUME FederationInv, NEW s \in Sites, NEW p \in Terms, NEW time, NEW text, Stored(s, p, time, text)
    PROVE  FederationInv'
<1>1. store \subseteq store' /\ UNCHANGED <<site, query, result, shuffled>>
  BY DEF Stored
<1>5. IsFiniteSet(store')
  BY FS_AddElement DEF Stored, FederationInv
<1>6. QueryWell(query, store', site, shuffled)
  <2>1. CASE query = {}
    BY <2>1 DEF QueryWell
  <2>2. CASE query # {}
    <3>1. PICK pp, n, w, held, found, open, failed :
              /\ query = {Query(pp, n, w, held, found, open, failed)}
              /\ Asking(n, w, held, found, open, failed, store)
              /\ Words(pp, w, site, shuffled)
      BY <2>2 DEF FederationInv, QueryWell
    <3>2. Asking(n, w, held, found, open, failed, store')
      BY <1>1, <3>1 DEF Asking
    <3> QED BY <3>1, <3>2 DEF QueryWell
  <2> QED BY <2>1, <2>2
<1> QED BY <1>1, <1>5, <1>6 DEF FederationInv

LEMMA AskSitesKeeps ==
    ASSUME FederationInv, NEW p \in Terms, NEW n \in Limits, NEW wanted \in (SUBSET Sites) \ {{}},
           AskSites(p, n, wanted)
    PROVE  FederationInv'
<1>1. UNCHANGED <<site, store>> /\ shuffled' = {} /\ n \in Nat
  BY FederationAssumption DEF AskSites
<1>2. HeldWell({}, {}, n)
  BY FS_EmptySet DEF HeldWell
<1>3. CASE Asked(wanted) = {}
  <2> DEFINE res == [asked |-> {}, rows |-> {}, found |-> {}, failed |-> {},
                     degraded |-> TRUE, limit |-> n, words |-> << >>, labels |-> << >>]
  <2>1. query' = {} /\ result' = {res}
    BY <1>3 DEF AskSites, FederationInv, QueryWell
  <2>2. /\ res.asked = {} /\ res.rows = {} /\ res.found = {} /\ res.failed = {}
        /\ res.degraded = TRUE /\ DOMAIN res.labels = {}
    OBVIOUS
  <2> HIDE DEF res
  <2>3. Answer(res)
    BY <2>2 DEF Answer
  <2> QED BY <1>1, <2>1, <2>3 DEF FederationInv, QueryWell, ResultWell
<1>4. CASE Asked(wanted) # {}
  <2> DEFINE w == [s \in Asked(wanted) |-> Localise(site[s].align, p)]
  <2>1. query' = {Query(p, n, w, {}, {}, Asked(wanted), {})} /\ result' = {}
    BY <1>4 DEF AskSites, Query
  <2>2. DOMAIN w = Asked(wanted) /\ Asked(wanted) \subseteq DOMAIN site /\ DOMAIN site \subseteq Sites
    BY DEF Asked, FederationInv
  <2>3. Words(p, w, site, {})
    BY <2>2 DEF Words
  <2> HIDE DEF w
  <2>4. Asking(n, w, {}, {}, Asked(wanted), {}, store)
    BY <1>1, <1>2, <1>4, <2>2 DEF Asking
  <2> QED BY <1>1, <2>1, <2>3, <2>4 DEF FederationInv, QueryWell, ResultWell
<1> QED BY <1>3, <1>4

LEMMA AnswerKeeps ==
    ASSUME FederationInv, NEW s \in Sites, SiteAnswers(s)
    PROVE  FederationInv'
<1>1. UNCHANGED <<site, store, result, shuffled>> /\ query # {}
  BY DEF SiteAnswers
<1>2. PICK p, n, w, held, found, open, failed :
          /\ query = {Query(p, n, w, held, found, open, failed)}
          /\ Asking(n, w, held, found, open, failed, store)
          /\ Words(p, w, site, shuffled)
  BY <1>1 DEF FederationInv, QueryWell
<1> DEFINE F == RowsLike(s, w[s])
<1>3. s \in open /\ \E N \in Newest(F, n) :
         query' = {Query(p, n, w, held \cup N, found \cup F, open \ {s}, failed)}
  <2>1. PICK q \in query :
            /\ s \in q.open
            /\ \E N \in Newest(RowsLike(s, q.asked[s]), SiteLimit(q)) :
                  query' = {[q EXCEPT !.rows = @ \cup N, !.found = @ \cup RowsLike(s, q.asked[s]),
                                      !.open = @ \ {s}]}
    BY DEF SiteAnswers
  <2>2. q = Query(p, n, w, held, found, open, failed)
    BY <1>2
  <2>3. /\ q.open = open /\ q.asked = w /\ SiteLimit(q) = n
        /\ q.rows = held /\ q.found = found
    BY <2>2 DEF Query, SiteLimit
  <2>4. \A a, b, c : [q EXCEPT !.rows = a, !.found = b, !.open = c]
                        = [[[q EXCEPT !.rows = a] EXCEPT !.found = b] EXCEPT !.open = c]
    OBVIOUS
  <2>5. ASSUME NEW a, NEW b, NEW c
        PROVE  [q EXCEPT !.rows = a, !.found = b, !.open = c] = Query(p, n, w, a, b, c, failed)
    <3>1. [q EXCEPT !.rows = a] = Query(p, n, w, a, found, open, failed)
      BY <2>2 DEF Query
    <3>2. [Query(p, n, w, a, found, open, failed) EXCEPT !.found = b] = Query(p, n, w, a, b, open, failed)
      BY DEF Query
    <3>3. [Query(p, n, w, a, b, open, failed) EXCEPT !.open = c] = Query(p, n, w, a, b, c, failed)
      BY DEF Query
    <3> QED BY <2>4, <3>1, <3>2, <3>3
  <2>6. PICK N \in Newest(F, n) :
            query' = {[q EXCEPT !.rows = held \cup N, !.found = found \cup F, !.open = open \ {s}]}
    BY <2>1, <2>3
  <2>7. [q EXCEPT !.rows = held \cup N, !.found = found \cup F, !.open = open \ {s}]
           = Query(p, n, w, held \cup N, found \cup F, open \ {s}, failed)
    BY <2>5
  <2> QED BY <2>1, <2>3, <2>6, <2>7
<1>4. F \subseteq store /\ \A r \in F : r.of = s
  BY DEF RowsLike
<1> HIDE DEF F
<1>9. PICK N \in Newest(F, n) :
         query' = {Query(p, n, w, held \cup N, found \cup F, open \ {s}, failed)}
  BY <1>3
<1>5. IsFiniteSet(F) /\ n \in Nat /\ HeldWell(held, found, n)
  BY <1>2, <1>4, FS_Subset DEF FederationInv, Asking
<1>6. HeldWell(held \cup N, found \cup F, n)
  <2>1. HeldWell(N, F, n)
    BY <1>4, <1>5, NewestSuffice
  <2> QED BY <1>5, <2>1, HeldTogether
<1>7. s \in DOMAIN w /\ s \notin failed
  BY <1>2, <1>3 DEF Asking
<1>8. Asking(n, w, held \cup N, found \cup F, open \ {s}, failed, store)
  BY <1>2, <1>4, <1>6, <1>7 DEF Asking
<1> QED BY <1>1, <1>2, <1>9, <1>8 DEF FederationInv, QueryWell

LEMMA FailureKeeps ==
    ASSUME FederationInv, NEW s \in Sites, SiteFails(s)
    PROVE  FederationInv'
<1>1. UNCHANGED <<site, store, result, shuffled>> /\ query # {}
  BY DEF SiteFails
<1>2. PICK p, n, w, held, found, open, failed :
          /\ query = {Query(p, n, w, held, found, open, failed)}
          /\ Asking(n, w, held, found, open, failed, store)
          /\ Words(p, w, site, shuffled)
  BY <1>1 DEF FederationInv, QueryWell
<1>3. s \in open /\ query' = {Query(p, n, w, held, found, open \ {s}, failed \cup {s})}
  <2>1. PICK q \in query :
            /\ s \in q.open
            /\ query' = {[q EXCEPT !.open = @ \ {s}, !.failed = @ \cup {s}]}
    BY DEF SiteFails
  <2>2. q = Query(p, n, w, held, found, open, failed)
    BY <1>2
  <2>3. /\ q.open = open /\ q.failed = failed
    BY <2>2 DEF Query
  <2>4. \A a, b : [q EXCEPT !.open = a, !.failed = b] = [[q EXCEPT !.open = a] EXCEPT !.failed = b]
    OBVIOUS
  <2>5. [q EXCEPT !.open = open \ {s}, !.failed = failed \cup {s}]
           = Query(p, n, w, held, found, open \ {s}, failed \cup {s})
    <3>1. [q EXCEPT !.open = open \ {s}] = Query(p, n, w, held, found, open \ {s}, failed)
      BY <2>2 DEF Query
    <3>2. [Query(p, n, w, held, found, open \ {s}, failed) EXCEPT !.failed = failed \cup {s}]
             = Query(p, n, w, held, found, open \ {s}, failed \cup {s})
      BY DEF Query
    <3> QED BY <2>4, <3>1, <3>2
  <2> QED BY <2>1, <2>3, <2>5
<1>4. Asking(n, w, held, found, open \ {s}, failed \cup {s}, store)
  BY <1>2, <1>3 DEF Asking
<1> QED BY <1>1, <1>2, <1>3, <1>4 DEF FederationInv, QueryWell

\* The answer that a query ends with.
Final(p, n, w, T, found, failed, registry) ==
    [asked |-> DOMAIN w, rows |-> T, found |-> found, failed |-> failed,
     degraded |-> failed # {}, limit |-> n, words |-> w,
     labels |-> [s \in {r.of : r \in T} |->
                    IF s \in DOMAIN registry THEN Localise(registry[s].align, p) ELSE p]]

LEMMA FinishAnswers ==
    ASSUME FederationInv, Finish
    PROVE  \E p, n, w, held, found, failed : \E T \in FirstByText(held, n) :
              /\ Asking(n, w, held, found, {}, failed, store) /\ Words(p, w, site, shuffled)
              /\ result' = {Final(p, n, w, T, found, failed, site)}
              /\ query' = {} /\ UNCHANGED <<site, store, shuffled>>
<1>1. PICK q \in query : \E T \in FirstByText(q.rows, q.limit) :
          /\ q.open = {}
          /\ result' = {[asked |-> DOMAIN q.asked, rows |-> T, found |-> q.found,
                         failed |-> q.failed, degraded |-> Degraded(q), limit |-> q.limit,
                         words |-> q.asked, labels |-> Labels(q, T)]}
  BY DEF Finish
<1>2. PICK p, n, w, held, found, open, failed :
          /\ query = {Query(p, n, w, held, found, open, failed)}
          /\ Asking(n, w, held, found, open, failed, store)
          /\ Words(p, w, site, shuffled)
  BY <1>1 DEF FederationInv, QueryWell
<1>3. /\ q.open = open /\ q.asked = w /\ q.rows = held /\ q.found = found
      /\ q.failed = failed /\ q.limit = n /\ q.about = p /\ open = {}
  BY <1>1, <1>2 DEF Query
<1>4. Degraded(q) = (failed # {})
  BY <1>3 DEF Degraded
<1>5. PICK T \in FirstByText(held, n) :
          result' = {[asked |-> DOMAIN w, rows |-> T, found |-> found,
                      failed |-> failed, degraded |-> failed # {}, limit |-> n,
                      words |-> w, labels |-> Labels(q, T)]}
  BY <1>1, <1>3, <1>4
<1>6. Labels(q, T) = [s \in {r.of : r \in T} |->
             IF s \in DOMAIN site THEN Localise(site[s].align, p) ELSE p]
  BY <1>3 DEF Labels
<1>7. result' = {Final(p, n, w, T, found, failed, site)}
  BY <1>5, <1>6 DEF Final
<1> QED BY <1>1, <1>2, <1>3, <1>5, <1>7 DEF Finish

LEMMA FinalAnswers ==
    ASSUME NEW p, NEW n, NEW w, NEW held, NEW found, NEW failed, NEW st, NEW registry,
           Asking(n, w, held, found, {}, failed, st), NEW T \in FirstByText(held, n)
    PROVE  Answer(Final(p, n, w, T, found, failed, registry))
<1> DEFINE res == Final(p, n, w, T, found, failed, registry)
<1>1. /\ res.asked = DOMAIN w /\ res.rows = T /\ res.found = found
      /\ res.failed = failed /\ res.limit = n
      /\ DOMAIN res.labels = {r.of : r \in T}
  BY DEF Final
<1>2. res.degraded <=> failed # {}
  <2>1. CASE failed = {}
    BY <2>1 DEF Final
  <2>2. CASE failed # {}
    BY <2>2 DEF Final
  <2> QED BY <2>1, <2>2
<1> HIDE DEF res
<1>3. \A r \in found \ T :
         Cardinality(T) = n /\ ((\A k \in T : k.text >= r.text) \/ Cardinality(NotAfter(found, r)) >= n)
  BY ShownAreFirst DEF Asking
<1>4. T \subseteq found
  BY DEF FirstByText, Some, Asking, HeldWell
<1>5. Answer(res)
  BY <1>1, <1>2, <1>3, <1>4 DEF Answer, Asking
<1> QED BY <1>5 DEF res

\* Whatever sites register and answer while a query runs, it keeps
\* FederationInv.
THEOREM FederationInvHolds == FederationSpec => []FederationInv
<1>1. FederationInit => FederationInv
  <2> SUFFICES ASSUME FederationInit PROVE FederationInv
    OBVIOUS
  <2>1. << >> \in [DOMAIN << >> -> Entry] /\ DOMAIN << >> = {}
    OBVIOUS
  <2>2. IsFiniteSet({})
    BY FS_EmptySet
  <2> QED BY <2>1, <2>2 DEF FederationInit, FederationInv, QueryWell, ResultWell
<1>2. FederationInv /\ [FederationNext]_federationVars => FederationInv'
  <2> SUFFICES ASSUME FederationInv, [FederationNext]_federationVars PROVE FederationInv'
    OBVIOUS
  <2>1. CASE UNCHANGED federationVars
    BY <2>1 DEF federationVars, FederationInv
  <2>2. CASE Finish
    <3>1. PICK p, n, w, held, found, failed : \E T \in FirstByText(held, n) :
              /\ Asking(n, w, held, found, {}, failed, store)
              /\ result' = {Final(p, n, w, T, found, failed, site)}
              /\ query' = {} /\ UNCHANGED <<site, store, shuffled>>
      BY <2>2, FinishAnswers
    <3> QED BY <3>1, FinalAnswers DEF FederationInv, QueryWell, ResultWell
  <2>3. \/ \E s \in Sites, a \in Alignments : Register(s, a)
        \/ \E s, t \in Sites, a \in Alignments : Seed(s, t, a)
        \/ \E s \in Sites : Unregister(s)
        \/ \E s \in Sites, on \in BOOLEAN : SetOnline(s, on)
        => Moved
    BY DEF Register, Seed, Unregister, SetOnline
  <2> QED BY <2>1, <2>2, <2>3, MovesKeep, StoredKeeps, AskSitesKeeps, AnswerKeeps, FailureKeeps
          DEF FederationNext
<1> QED BY <1>1, <1>2, PTL DEF FederationSpec

\* What the labels of a new answer are.
LabelledStep ==
    \A res \in result' \ result : \A s \in DOMAIN res.labels :
        s \notin shuffled => res.labels[s] = res.words[s]

LEMMA StepsLabel == ASSUME FederationInv, [FederationNext]_federationVars PROVE LabelledStep
<1>1. CASE Finish
  <2>9. PICK p, n, w, held, found, failed : \E T \in FirstByText(held, n) :
            /\ Asking(n, w, held, found, {}, failed, store) /\ Words(p, w, site, shuffled)
            /\ result' = {Final(p, n, w, T, found, failed, site)}
    BY <1>1, FinishAnswers
  <2>1. PICK T \in FirstByText(held, n) :
            /\ Asking(n, w, held, found, {}, failed, store) /\ Words(p, w, site, shuffled)
            /\ result' = {Final(p, n, w, T, found, failed, site)}
    BY <2>9
  <2>2. \A r \in T : r.of \in DOMAIN w
    BY <2>1 DEF FirstByText, Some, Asking, HeldWell
  <2> DEFINE res == Final(p, n, w, T, found, failed, site)
  <2>5. DOMAIN res.labels = {r.of : r \in T} /\ res.words = w
    BY DEF Final
  <2> SUFFICES ASSUME NEW s \in {r.of : r \in T}, s \notin shuffled
               PROVE  res.labels[s] = w[s]
    <3> HIDE DEF res
    <3> QED BY <2>1, <2>5 DEF LabelledStep, res
  <2>3. s \in DOMAIN site /\ w[s] = Localise(site[s].align, p)
    BY <2>1, <2>2 DEF Words
  <2>4. res.labels[s] = Localise(site[s].align, p)
    BY <2>3 DEF Final
  <2> QED BY <2>3, <2>4
<1>2. ASSUME NEW p \in Terms, NEW n \in Limits, NEW wanted \in (SUBSET Sites) \ {{}}, AskSites(p, n, wanted)
      PROVE  LabelledStep
  <2>1. \A res \in result' : DOMAIN res.labels = {}
    <3>1. CASE Asked(wanted) = {}
      <4>1. DOMAIN << >> = {}
        OBVIOUS
      <4> QED BY <1>2, <3>1, <4>1 DEF AskSites
    <3>2. CASE Asked(wanted) # {}
      BY <1>2, <3>2 DEF AskSites
    <3> QED BY <3>1, <3>2
  <2> QED BY <2>1 DEF LabelledStep
<1>3. ~Finish /\ (~\E p \in Terms, n \in Limits, w \in (SUBSET Sites) \ {{}} : AskSites(p, n, w)) =>
         result' = result
  BY DEF FederationNext, federationVars, Register, Seed, Unregister, SetOnline, Moved,
         SiteAnswers, SiteFails, Stored
<1> QED BY <1>1, <1>2, <1>3 DEF LabelledStep

\* For any sites, alignments and stores, whatever order each store keeps and
\* however times are written: an answer has the first rows of what the sites found
\* by their own order and that of the text, says when one is missing, and is
\* labelled with the words it was asked with, although the registry changes while
\* it waits.
THEOREM SitesAnswerAsAskedHolds == FederationSpec => SitesAnswerAsAsked
<1>1. FederationInv => FederationTypeOK /\ ResultIsNewest /\ DegradedIsTold
  <2> SUFFICES ASSUME FederationInv PROVE FederationTypeOK /\ ResultIsNewest /\ DegradedIsTold
    OBVIOUS
  <2>1. \A res \in result : Answer(res)
    BY DEF FederationInv, ResultWell
  <2>2. Cardinality(query) <= 1 /\ \A q \in query : DOMAIN q.asked # {} /\ q.open \cup q.failed \subseteq DOMAIN q.asked
    <3>1. CASE query = {}
      BY <3>1, FS_EmptySet
    <3>2. CASE query # {}
      <4>1. PICK p, n, w, held, found, open, failed :
                /\ query = {Query(p, n, w, held, found, open, failed)}
                /\ Asking(n, w, held, found, open, failed, store)
        BY <3>2 DEF FederationInv, QueryWell
      <4>2. Cardinality(query) = 1
        BY <4>1, FS_Singleton
      <4> QED BY <4>1, <4>2 DEF Query, Asking
    <3> QED BY <3>1, <3>2
  <2>3. Cardinality(result) <= 1
    <3>1. result = {} \/ \E res : result = {res}
      BY DEF FederationInv, ResultWell
    <3>2. Cardinality(result) = 0 \/ Cardinality(result) = 1
      BY <3>1, FS_EmptySet, FS_Singleton
    <3> QED BY <3>2
  <2>4. /\ DOMAIN site \subseteq Sites
        /\ \A s \in DOMAIN site : site[s].align \in Alignments \cup {<< >>} /\ site[s].online \in BOOLEAN
    BY DEF FederationInv, Entry
  <2>5. FederationTypeOK
    BY <2>1, <2>2, <2>3, <2>4 DEF Answer, FederationTypeOK
  <2> QED BY <2>1, <2>5 DEF Answer, NotAfter, ResultIsNewest, DegradedIsTold
<1>2. FederationInv /\ [FederationNext]_federationVars => [LabelledStep]_federationVars
  BY StepsLabel
<1>3. FederationSpec => [][LabelledStep]_federationVars
  BY <1>2, FederationInvHolds, PTL DEF FederationSpec
<1>4. LabelledStep <=>
         \A res \in result' \ result : \A s \in DOMAIN res.labels :
             s \notin shuffled => res.labels[s] = res.words[s]
  BY DEF LabelledStep
<1> QED BY <1>1, <1>3, <1>4, FederationInvHolds, PTL DEF SitesAnswerAsAsked, LabelIsAsked

---------------------------------------------------------------------------
(***************************************************************************)
(* The history of forecasts                                                *)
(***************************************************************************)

\* A forecast is pending until a reading comes that can judge it, so that the
\* first one does.  The forecasts of a series are a save interval apart, and the
\* pending ones lie within one horizon, for the reading that saves a forecast
\* judges all that are older.
VerdictBy(f, i) == IF stored[i].at <= f.issued + Horizon + MaxLag THEN "evaluated" ELSE "missed"

JudgedWell(f) ==
    \/ f.status = "pending" /\ Judges(f) = {}
    \/ f.status # "pending" /\ \E i \in Judges(f) : (\A j \in Judges(f) : i <= j) /\ f.status = VerdictBy(f, i)

\* f and g are one, or far enough apart, and close enough if both are pending
Distanced(f, g) ==
    f.series = g.series =>
        /\ f = g \/ f.issued - g.issued >= SaveInterval \/ g.issued - f.issued >= SaveInterval
        /\ f.status = "pending" /\ g.status = "pending" => f.issued - g.issued < Horizon

ForecastInv ==
    /\ stored \in Seq(Reading) /\ Len(stored) <= MaxReadings
    /\ forecasts \subseteq Forecast /\ IsFiniteSet(forecasts)
    /\ \A f \in forecasts : f.after <= Len(stored) /\ JudgedWell(f)
    /\ \A f, g \in forecasts : Distanced(f, g)

LEMMA ForecastInitInv == ForecastInit => ForecastInv
<1> SUFFICES ASSUME ForecastInit PROVE ForecastInv
  OBVIOUS
<1>1. << >> \in Seq(Reading) /\ Len(<< >>) = 0
  OBVIOUS
<1>2. IsFiniteSet({})
  BY FS_EmptySet
<1> QED BY <1>1, <1>2, ForecastAssumption DEF ForecastInit, ForecastInv

\* A reading is entered at the end of the table.
LEMMA StoresAdds ==
    ASSUME ForecastInv, NEW s \in Series, NEW t \in 0..MaxNow, NEW watched \in BOOLEAN, Stores(s, t, watched)
    PROVE  /\ stored' \in Seq(Reading) /\ Len(stored') = Len(stored) + 1 /\ Len(stored') <= MaxReadings
           /\ Len(stored) \in Nat
           /\ \A i \in 1..Len(stored) : stored'[i] = stored[i]
           /\ stored'[Len(stored) + 1] = [series |-> s, at |-> t, seen |-> watched]
<1> DEFINE r == [series |-> s, at |-> t, seen |-> watched]
<1>1. r \in Reading
  BY DEF Reading
<1>2. stored \in Seq(Reading) /\ stored' = Append(stored, r) /\ Len(stored) < MaxReadings /\ MaxReadings \in Nat
  BY ForecastAssumption DEF ForecastInv, Stores
<1> HIDE DEF r
<1>3. stored' \in Seq(Reading) /\ Len(stored') = Len(stored) + 1 /\ Len(stored) \in Nat
      /\ (\A i \in 1..Len(stored) : stored'[i] = stored[i]) /\ stored'[Len(stored) + 1] = r
  BY <1>1, <1>2
<1>4. Len(stored') <= MaxReadings
  BY <1>2, <1>3
<1> QED BY <1>3, <1>4 DEF r

\* It is one that can judge a forecast exactly if the forecast would be due by it
\* were it pending.
LEMMA JudgesGrow ==
    ASSUME ForecastInv, NEW s \in Series, NEW t \in 0..MaxNow, NEW watched \in BOOLEAN, Stores(s, t, watched),
           NEW f \in Forecast, f.after <= Len(stored)
    PROVE  Judges(f)' = Judges(f) \cup (IF f.series = s /\ watched /\ t >= f.issued + Horizon
                                        THEN {Len(stored) + 1} ELSE {})
<1> DEFINE n == Len(stored)
           R(q, i) == q[i].series = f.series /\ q[i].seen /\ q[i].at >= f.issued + Horizon
<1>1. /\ n \in Nat /\ Len(stored') = n + 1
      /\ \A i \in 1..n : stored'[i] = stored[i]
      /\ stored'[n + 1] = [series |-> s, at |-> t, seen |-> watched]
  BY StoresAdds
<1>2. f.after \in Nat /\ f.after <= n
  BY DEF Forecast
<1> HIDE DEF n
<1>3. \A i \in f.after + 1..n + 1 : i \in f.after + 1..n \/ i = n + 1
  BY <1>1, <1>2
<1>4. \A i \in f.after + 1..n : i \in f.after + 1..n + 1 /\ i \in 1..n /\ i # n + 1
  BY <1>1, <1>2
<1>5. n + 1 \in f.after + 1..n + 1
  BY <1>1, <1>2
<1>6. Judges(f)' = {i \in f.after + 1..n + 1 : R(stored', i)}
  BY <1>1 DEF Judges
<1>7. Judges(f) = {i \in f.after + 1..n : R(stored, i)}
  BY DEF Judges, n
<1>8. R(stored', n + 1) <=> f.series = s /\ watched /\ t >= f.issued + Horizon
  BY <1>1
<1>9. \A i \in f.after + 1..n : R(stored', i) <=> R(stored, i)
  BY <1>1, <1>4
<1> HIDE DEF R
<1>10. {i \in f.after + 1..n + 1 : R(stored', i)}
          = {i \in f.after + 1..n : R(stored, i)} \cup (IF R(stored', n + 1) THEN {n + 1} ELSE {})
  BY <1>3, <1>4, <1>5, <1>9
<1> QED BY <1>6, <1>7, <1>8, <1>10 DEF n

\* A judge that was there before is as it was.
LEMMA JudgesAreOld ==
    ASSUME ForecastInv, NEW f \in Forecast PROVE \A i \in Judges(f) : i \in 1..Len(stored)
<1>1. Len(stored) \in Nat /\ f.after \in Nat
  BY DEF ForecastInv, Forecast
<1> QED BY <1>1 DEF Judges

\* A forecast that the reading does not judge, or that has been judged, stays as
\* it is.
LEMMA StaysJudged ==
    ASSUME ForecastInv, NEW s \in Series, NEW t \in 0..MaxNow, NEW watched \in BOOLEAN, Stores(s, t, watched),
           NEW f \in forecasts, ~(watched /\ Due(f, s, t))
    PROVE  JudgedWell(f)'
<1> DEFINE n == Len(stored)
<1>1. f \in Forecast /\ f.after <= n /\ JudgedWell(f)
  BY DEF ForecastInv
<1>2. Judges(f)' = Judges(f) \cup (IF f.series = s /\ watched /\ t >= f.issued + Horizon THEN {n + 1} ELSE {})
  BY <1>1, JudgesGrow
<1>3. \A i \in Judges(f) : i \in 1..n /\ i <= n + 1 /\ stored'[i] = stored[i]
  <2>1. \A i \in Judges(f) : i \in 1..n
    BY <1>1, JudgesAreOld
  <2>2. n \in Nat /\ \A i \in 1..n : stored'[i] = stored[i]
    BY StoresAdds
  <2> HIDE DEF n
  <2>3. \A i \in 1..n : i <= n + 1
    BY <2>2
  <2> QED BY <2>1, <2>2, <2>3
<1>4. f.issued \in Int /\ Horizon \in Int /\ t \in Int
  BY <1>1, ForecastAssumption DEF Forecast
<1>5. CASE f.status = "pending"
  <2>1. ~(f.series = s /\ watched /\ t >= f.issued + Horizon)
    BY <1>4, <1>5 DEF Due
  <2>2. Judges(f)' = {}
    BY <1>1, <1>2, <1>5, <2>1 DEF JudgedWell
  <2> QED BY <1>5, <2>2 DEF JudgedWell
<1>6. CASE f.status # "pending"
  <2>1. PICK i \in Judges(f) : (\A j \in Judges(f) : i <= j) /\ f.status = VerdictBy(f, i)
    BY <1>1, <1>6 DEF JudgedWell
  <2>2. i \in Judges(f)' /\ \A j \in Judges(f)' : i <= j
    BY <1>2, <1>3, <2>1
  <2>3. VerdictBy(f, i)' = VerdictBy(f, i)
    BY <1>3, <2>1 DEF VerdictBy
  <2> QED BY <1>6, <2>1, <2>2, <2>3 DEF JudgedWell
<1> QED BY <1>5, <1>6

\* The forecast as the reading leaves it
Settled(f, s, t) == IF Due(f, s, t) THEN [f EXCEPT !.status = Verdict(f, t)] ELSE f

LEMMA SettledIs ==
    ASSUME NEW f \in Forecast, NEW s, NEW t
    PROVE  /\ Settled(f, s, t) \in Forecast
           /\ Settled(f, s, t).series = f.series /\ Settled(f, s, t).issued = f.issued
           /\ Settled(f, s, t).after = f.after
           /\ Settled(f, s, t).status = IF Due(f, s, t) THEN Verdict(f, t) ELSE f.status
           /\ Settled(f, s, t).status = "pending" <=> f.status = "pending" /\ ~Due(f, s, t)
<1>1. Verdict(f, t) \in {"missed", "evaluated"}
  BY DEF Verdict
<1> QED BY <1>1 DEF Settled, Forecast, Due

LEMMA SettledWell ==
    ASSUME ForecastInv, NEW s \in Series, NEW t \in 0..MaxNow, Stores(s, t, TRUE), NEW f \in forecasts
    PROVE  JudgedWell(Settled(f, s, t))'
<1> DEFINE n == Len(stored)
           g == Settled(f, s, t)
<1>1. f \in Forecast /\ f.after <= n /\ JudgedWell(f) /\ TRUE \in BOOLEAN
  BY DEF ForecastInv
<1>2. CASE ~Due(f, s, t)
  BY <1>1, <1>2, StaysJudged DEF Settled
<1>3. CASE Due(f, s, t)
  <2>1. /\ g \in Forecast /\ g.issued = f.issued /\ g.series = s /\ g.after = f.after
        /\ g.status = Verdict(f, t)
    BY <1>1, <1>3, SettledIs DEF Due
  <2>2. Judges(f) = {} /\ t >= f.issued + Horizon /\ f.issued \in Int /\ Horizon \in Int /\ t \in Int /\ MaxLag \in Int
    BY <1>1, <1>3, ForecastAssumption DEF Due, JudgedWell, Forecast
  <2> HIDE DEF g
  <2>3. Judges(g) = Judges(f)
    BY <1>3, <2>1 DEF Judges, Due
  <2>4. PICK k \in Nat : k = n + 1
    <3>1. n \in Nat
      BY <1>1, StoresAdds
    <3> QED BY <3>1
  <2>5. Judges(g)' = {k}
    <3>1. Judges(g)' = Judges(g) \cup (IF g.series = s /\ TRUE /\ t >= g.issued + Horizon THEN {n + 1} ELSE {})
      BY <1>1, <2>1, JudgesGrow
    <3> QED BY <2>1, <2>2, <2>3, <2>4, <3>1
  <2>6. stored'[k].at = t
    <3>1. stored'[n + 1] = [series |-> s, at |-> t, seen |-> TRUE]
      BY <1>1, StoresAdds
    <3> QED BY <2>4, <3>1
  <2>7. Verdict(f, t) = IF stored'[k].at <= f.issued + Horizon + MaxLag THEN "evaluated" ELSE "missed"
    BY <2>2, <2>6 DEF Verdict
  <2>8. g.status # "pending"
        /\ g.status = IF stored'[k].at <= g.issued + Horizon + MaxLag THEN "evaluated" ELSE "missed"
    BY <2>1, <2>7
  <2>9. JudgedWell(g)'
    BY <2>4, <2>5, <2>8 DEF JudgedWell, VerdictBy
  <2> QED BY <2>9 DEF g
<1> QED BY <1>2, <1>3

\* Judging changes neither which forecasts there are nor when they were issued.
LEMMA JudgedSpread ==
    ASSUME ForecastInv, NEW s, NEW t
    PROVE  /\ Judged(s, t) = {Settled(f, s, t) : f \in forecasts}
           /\ Judged(s, t) \subseteq Forecast /\ IsFiniteSet(Judged(s, t))
           /\ \A f, g \in Judged(s, t) : Distanced(f, g)
<1>1. Judged(s, t) = {Settled(f, s, t) : f \in forecasts}
  BY DEF Judged, Settled
<1>2. Judged(s, t) \subseteq Forecast
  BY <1>1, SettledIs DEF ForecastInv
<1>3. IsFiniteSet(Judged(s, t))
  <2> DEFINE h == [f \in forecasts |-> Settled(f, s, t)]
  <2>1. h \in Surjection(forecasts, Judged(s, t))
    BY <1>1 DEF Surjection
  <2> QED BY <2>1, FS_Surjection DEF ForecastInv
<1>4. ASSUME NEW f \in forecasts, NEW g \in forecasts
      PROVE  Distanced(Settled(f, s, t), Settled(g, s, t))
  <2>1. f \in Forecast /\ g \in Forecast /\ Distanced(f, g)
    BY DEF ForecastInv
  <2> QED BY <2>1, SettledIs DEF Distanced
<1> QED BY <1>1, <1>2, <1>3, <1>4

\* A forecast that is saved is the newest of its series, and what is pending then
\* is less than a horizon old.
LEMMA SavedSpread ==
    ASSUME ForecastInv, NEW s \in Series, NEW t \in 0..MaxNow, Spaced(s, t, Judged(s, t)),
           NEW new \in Forecast, new.series = s, new.issued = t
    PROVE  \A f \in Judged(s, t) : Distanced(f, new) /\ Distanced(new, f)
<1> SUFFICES ASSUME NEW f0 \in forecasts
             PROVE  Distanced(Settled(f0, s, t), new) /\ Distanced(new, Settled(f0, s, t))
  BY JudgedSpread
<1> DEFINE f == Settled(f0, s, t)
<1>1. f0 \in Forecast
  BY DEF ForecastInv
<1>2. f \in Forecast /\ f \in Judged(s, t) /\ f.series = f0.series /\ f.issued = f0.issued
      /\ (f.status = "pending" => f0.status = "pending" /\ ~Due(f0, s, t))
  BY <1>1, SettledIs, JudgedSpread
<1> HIDE DEF f
<1>3. f.series = s => t - f.issued >= SaveInterval
  BY <1>2 DEF Spaced
<1>4. f.series = s /\ f.status = "pending" => ~(f.issued + Horizon <= t)
  BY <1>2 DEF Due
<1>5. f.issued \in Int /\ t \in Int /\ Horizon \in Nat \ {0} /\ SaveInterval \in Nat \ {0}
  BY <1>2, ForecastAssumption DEF Forecast
<1>6. f.series = s /\ f.status = "pending" => t - f.issued < Horizon /\ f.issued - t < Horizon
  BY <1>3, <1>4, <1>5
<1>7. Distanced(f, new) /\ Distanced(new, f)
  BY <1>3, <1>6 DEF Distanced
<1> QED BY <1>7 DEF f

\* What has just been saved has no judge yet.
LEMMA SavedWell ==
    ASSUME NEW f \in Forecast, f.status = "pending", Len(stored)' = f.after PROVE JudgedWell(f)'
<1>1. f.after \in Nat
  BY DEF Forecast
<1>2. \A i \in f.after + 1..f.after : FALSE
  BY <1>1
<1>3. Judges(f)' = {}
  BY <1>2 DEF Judges
<1> QED BY <1>3 DEF JudgedWell

LEMMA ObserveKeeps ==
    ASSUME ForecastInv, NEW s \in Series, NEW t \in 0..MaxNow, Observe(s, t) PROVE ForecastInv'
<1> DEFINE n == Len(stored)
           left == Judged(s, t)
<1>1. Stores(s, t, TRUE) /\ TRUE \in BOOLEAN
  BY DEF Observe
<1>2. stored' \in Seq(Reading) /\ n \in Nat /\ Len(stored') = n + 1 /\ Len(stored') <= MaxReadings
  BY <1>1, StoresAdds
<1>3. \/ forecasts' = left
      \/ /\ forecasts' \subseteq left \cup {[series |-> s, issued |-> t, status |-> "pending", after |-> n + 1]}
         /\ Spaced(s, t, left)
  BY DEF Observe, Persisted
<1>4. left \subseteq Forecast /\ IsFiniteSet(left) /\ (\A f, g \in left : Distanced(f, g))
      /\ left = {Settled(f, s, t) : f \in forecasts}
  BY JudgedSpread
<1>5. \A f \in left : f.after <= n + 1 /\ JudgedWell(f)'
  <2> SUFFICES ASSUME NEW f \in forecasts
               PROVE  Settled(f, s, t).after <= n + 1 /\ JudgedWell(Settled(f, s, t))'
    BY <1>4
  <2>1. f \in Forecast /\ f.after <= n /\ f.after \in Nat
    BY DEF ForecastInv, Forecast
  <2>2. Settled(f, s, t).after <= n + 1
    BY <1>2, <2>1, SettledIs
  <2> QED BY <1>1, <2>2, SettledWell
<1>6. PICK new \in Forecast :
        /\ new = [series |-> s, issued |-> t, status |-> "pending", after |-> n + 1]
        /\ new.series = s /\ new.issued = t /\ new.after = n + 1 /\ new.status = "pending"
  <2>1. n + 1 \in 0..MaxReadings
    BY <1>2, ForecastAssumption
  <2> DEFINE m == [series |-> s, issued |-> t, status |-> "pending", after |-> n + 1]
  <2> HIDE DEF n
  <2>2. m \in Forecast /\ m.series = s /\ m.issued = t /\ m.after = n + 1 /\ m.status = "pending"
    BY <2>1 DEF Forecast
  <2> QED BY <2>2
<1>7. JudgedWell(new)'
  BY <1>2, <1>6, SavedWell
<1>8. Distanced(new, new)
  BY <1>6, ForecastAssumption DEF Distanced, Forecast
<1>9. Spaced(s, t, left) => \A f \in left : Distanced(f, new) /\ Distanced(new, f)
  BY <1>6, SavedSpread
<1>13. forecasts' = left \/ (forecasts' \subseteq left \cup {new} /\ Spaced(s, t, left))
  <2>1. [series |-> s, issued |-> t, status |-> "pending", after |-> n + 1] = new
    BY <1>6
  <2> HIDE DEF left, n
  <2> QED BY <1>3, <2>1
<1> HIDE DEF left
<1>10. forecasts' \subseteq Forecast /\ IsFiniteSet(forecasts')
  <2>1. IsFiniteSet(left \cup {new})
    BY <1>4, FS_AddElement
  <2> QED BY <1>4, <1>6, <1>13, <2>1, FS_Subset
<1>11. \A f, g \in forecasts' : Distanced(f, g)
  BY <1>4, <1>8, <1>9, <1>13
<1>12. (\A f \in forecasts : f.after <= Len(stored) /\ JudgedWell(f))'
  <2>1. n + 1 <= n + 1
    BY <1>2
  <2>2. \A f \in forecasts' : f.after <= n + 1 /\ JudgedWell(f)'
    BY <1>5, <1>6, <1>7, <1>13, <2>1
  <2> QED BY <1>2, <2>2
<1> QED BY <1>2, <1>10, <1>11, <1>12 DEF ForecastInv, Distanced

LEMMA StoreOnlyKeeps ==
    ASSUME ForecastInv, NEW s \in Series, NEW t \in 0..MaxNow, StoreOnly(s, t) PROVE ForecastInv'
<1>1. Stores(s, t, FALSE) /\ FALSE \in BOOLEAN /\ forecasts' = forecasts
  BY DEF StoreOnly
<1>2. /\ stored' \in Seq(Reading) /\ Len(stored) \in Nat
      /\ Len(stored') = Len(stored) + 1 /\ Len(stored') <= MaxReadings
  BY <1>1, StoresAdds
<1>3. (\A f \in forecasts : f.after <= Len(stored) /\ JudgedWell(f))'
  <2>1. \A f \in forecasts : JudgedWell(f)'
    BY <1>1, StaysJudged
  <2>2. \A f \in forecasts : f.after <= Len(stored)'
    BY <1>2 DEF ForecastInv, Forecast
  <2> QED BY <1>1, <2>1, <2>2
<1> QED BY <1>1, <1>2, <1>3 DEF ForecastInv, Distanced

LEMMA ForecastNextInv == ForecastInv /\ [ForecastNext]_forecastVars => ForecastInv'
<1> SUFFICES ASSUME ForecastInv, [ForecastNext]_forecastVars PROVE ForecastInv'
  OBVIOUS
<1>1. CASE UNCHANGED <<stored, forecasts>>
  BY <1>1 DEF ForecastInv, JudgedWell, Judges, VerdictBy, Distanced
<1>2. CASE \E s \in Series, t \in 0..MaxNow : Observe(s, t) \/ StoreOnly(s, t)
  BY <1>2, ObserveKeeps, StoreOnlyKeeps
<1> QED BY <1>1, <1>2 DEF ForecastNext, ResetWindows, Reboot, ForecastTick, forecastVars

\* Whatever order readings come in, table and forecasts keep ForecastInv.
THEOREM ForecastInvHolds == ForecastSpec => []ForecastInv
<1> QED BY ForecastInitInv, ForecastNextInv, PTL DEF ForecastSpec

\* Integers a step apart from each other within one horizon: there are no more
\* than fit.
LEMMA SoManyFit ==
    ASSUME NEW R, IsFiniteSet(R), NEW at, at \in [R -> Int],
           NEW step \in Nat \ {0}, NEW H \in Nat \ {0},
           \A a, b \in R : a = b \/ at[a] - at[b] >= step \/ at[b] - at[a] >= step,
           \A a, b \in R : at[a] - at[b] < H
    PROVE  (Cardinality(R) - 1) * step < H
<1> DEFINE c == Cardinality(R)
<1>1. c \in Nat
  BY FS_CardinalityType
<1>2. CASE R = {}
  <2>1. c = 0
    BY <1>2, FS_EmptySet
  <2>2. (0 - 1) * step < H
    OBVIOUS
  <2> QED BY <2>1, <2>2
<1>3. CASE R # {}
  <2> DEFINE P == [k \in R |-> {h \in R : at[h] < at[k]}]
  <2>1. Orders(P, R)
    <3>1. \A a, b \in R : a \in P[b] <=> at[a] < at[b]
      OBVIOUS
    <3>2. P \in [R -> SUBSET R] /\ \A a \in R : at[a] \in Int
      OBVIOUS
    <3> HIDE DEF P
    <3>3. ASSUME NEW a \in R, NEW b \in R, a # b PROVE a \in P[b] \/ b \in P[a]
      BY <3>1, <3>2, <3>3
    <3>4. ASSUME NEW a \in R, NEW b \in R, a \in P[b] PROVE P[a] \subseteq P[b]
      <4> SUFFICES ASSUME NEW z \in P[a] PROVE z \in P[b]
        OBVIOUS
      <4>1. z \in R
        BY <3>2
      <4> QED BY <3>1, <3>2, <3>4, <4>1
    <3>5. \A a \in R : a \notin P[a]
      BY <3>1, <3>2
    <3> QED BY <3>2, <3>3, <3>4, <3>5 DEF Orders
  <2>2. PICK k : k \in R /\ \A h \in R \ {k} : k \in P[h]
    BY <1>3, <2>1, FirstExists
  <2> DEFINE m == at[k]
             q == (H - 1) \div step
             place == [r \in R |-> (at[r] - m) \div step]
  <2>3. m \in Int /\ \A r \in R : at[r] \in Int /\ at[r] - m \in 0..H - 1
    <3>1. \A r \in R : at[r] \in Int /\ at[r] - at[k] < H
      BY <2>2
    <3>2. \A r \in R \ {k} : at[k] < at[r]
      BY <2>2
    <3> QED BY <2>2, <3>1, <3>2
  <2> HIDE DEF m, P
  <2>4. q \in Nat /\ q * step <= H - 1
    OBVIOUS
  <2>5. \A x \in 0..H - 1 : x \div step \in 0..q
    OBVIOUS
  <2>6. \A x, y \in 0..H - 1 : y - x >= step => x \div step # y \div step
    OBVIOUS
  <2>7. place \in [R -> 0..q]
    BY <2>3, <2>5
  <2>8. ASSUME NEW a \in R, NEW b \in R, a # b PROVE place[a] # place[b]
    <3> DEFINE x == at[a] - m
               y == at[b] - m
    <3>1. x \in 0..H - 1 /\ y \in 0..H - 1 /\ (x - y >= step \/ y - x >= step)
      BY <2>3, <2>8
    <3> HIDE DEF x, y
    <3>2. x \div step # y \div step
      BY <2>6, <3>1
    <3> QED BY <3>2 DEF x, y
  <2>9. place \in Injection(R, 0..q)
    BY <2>7, <2>8 DEF Injection, IsInjective
  <2> HIDE DEF place, q
  <2>10. IsFiniteSet(0..q) /\ Cardinality(0..q) = q + 1
    <3>1. 0 \in Int /\ q \in Int
      BY <2>4
    <3>2. IsFiniteSet(0..q) /\ Cardinality(0..q) = IF 0 > q THEN 0 ELSE q - 0 + 1
      BY <3>1, FS_Interval
    <3> QED BY <2>4, <3>2
  <2>11. c <= q + 1
    BY <2>9, <2>10, FS_Injection
  <2> HIDE DEF c
  <2>12. (c - 1) * step <= q * step
    BY <1>1, <2>4, <2>11
  <2>13. (c - 1) * step \in Int /\ q * step \in Int
    BY <1>1, <2>4
  <2> QED BY <2>4, <2>12, <2>13 DEF c
<1> QED BY <1>2, <1>3

\* JudgedByFirst, SavedApart and PendingBounded: in whatever order readings come,
\* with errors and restarts between them, the first reading to arrive from the
\* target time on decides about a forecast for good, the forecasts of a series
\* keep their distance, and no more are pending than fit into one horizon.
THEOREM ForecastsJudgedOnce == ForecastSpec => [](JudgedByFirst /\ SavedApart /\ PendingBounded)
<1>1. ForecastInv => JudgedByFirst
  <2> SUFFICES ASSUME ForecastInv, NEW f \in forecasts
               PROVE  IF Judges(f) = {} THEN f.status = "pending"
                      ELSE LET first == CHOOSE i \in Judges(f) : \A j \in Judges(f) : i <= j
                           IN f.status = IF stored[first].at <= f.issued + Horizon + MaxLag
                                         THEN "evaluated" ELSE "missed"
    BY DEF JudgedByFirst
  <2>1. JudgedWell(f) /\ f \in Forecast
    BY DEF ForecastInv
  <2>2. CASE f.status = "pending" /\ Judges(f) = {}
    BY <2>2
  <2>3. ASSUME NEW i \in Judges(f), \A j \in Judges(f) : i <= j, f.status = VerdictBy(f, i)
        PROVE  f.status = VerdictBy(f, CHOOSE k \in Judges(f) : \A j \in Judges(f) : k <= j)
    <3> DEFINE first == CHOOSE k \in Judges(f) : \A j \in Judges(f) : k <= j
    <3>1. first \in Judges(f) /\ \A j \in Judges(f) : first <= j
      BY <2>3
    <3> HIDE DEF first
    <3>2. first \in Int /\ i \in Int
      BY <2>1, <3>1, JudgesAreOld
    <3>3. first = i
      BY <2>3, <3>1, <3>2
    <3> QED BY <2>3, <3>3 DEF first
  <2> QED BY <2>1, <2>2, <2>3 DEF JudgedWell, VerdictBy
<1>2. ForecastInv => SavedApart
  <2> SUFFICES ASSUME ForecastInv, NEW f \in forecasts, NEW g \in forecasts,
                      f.series = g.series, f.issued < g.issued
               PROVE  g.issued - f.issued >= SaveInterval
    BY DEF SavedApart
  <2>1. Distanced(f, g) /\ f.issued \in Int /\ g.issued \in Int /\ SaveInterval \in Nat \ {0}
    BY ForecastAssumption DEF ForecastInv, Forecast
  <2> QED BY <2>1 DEF Distanced
<1>3. ForecastInv => PendingBounded
  <2> SUFFICES ASSUME ForecastInv, NEW s \in Series
               PROVE  (Cardinality({f \in forecasts : f.series = s /\ f.status = "pending"}) - 1) * SaveInterval < Horizon
    BY DEF PendingBounded
  <2> DEFINE R == {f \in forecasts : f.series = s /\ f.status = "pending"}
             issue == [f \in R |-> f.issued]
  <2>1. R \subseteq forecasts /\ IsFiniteSet(R)
    BY FS_Subset DEF ForecastInv
  <2>2. issue \in [R -> Int]
    BY DEF ForecastInv, Forecast
  <2>3. \A a, b \in R : /\ a = b \/ issue[a] - issue[b] >= SaveInterval \/ issue[b] - issue[a] >= SaveInterval
                        /\ issue[a] - issue[b] < Horizon
    BY DEF ForecastInv, Distanced
  <2>4. SaveInterval \in Nat \ {0} /\ Horizon \in Nat \ {0}
    BY ForecastAssumption
  <2> HIDE DEF R, issue
  <2>5. (Cardinality(R) - 1) * SaveInterval < Horizon
    BY <2>1, <2>2, <2>3, <2>4, SoManyFit
  <2> QED BY <2>5 DEF R
<1> QED BY <1>1, <1>2, <1>3, ForecastInvHolds, PTL

\* The places of the table that hold a series, in the order of their stamps.
StampOrder(o, data, P) ==
    /\ P \subseteq Int /\ IsFiniteSet(P) /\ \A i \in P : data[i].at \in Int
    /\ o \in [1..Cardinality(P) -> P]
    /\ \A i, j \in 1..Cardinality(P) : i < j => Precedes(data, o[i], o[j])

\* Numbering the places by rank gives such an order.
LEMMA OrderExists ==
    ASSUME NEW data, NEW P, P \subseteq Int, IsFiniteSet(P), \A i \in P : data[i].at \in Int
    PROVE  Cardinality(P) \in Nat /\ StampOrder(InOrder(data, P), data, P)
<1> DEFINE c == Cardinality(P)
           B == [k \in P |-> {h \in P : Precedes(data, h, k)}]
           rank == [k \in P |-> Cardinality(B[k])]
           o == [k \in 1..c |-> CHOOSE p \in P : rank[p] = k - 1]
<1>1. c \in Nat
  BY FS_CardinalityType
<1>2. \A a, b \in P : a \in B[b] <=> Precedes(data, a, b)
  OBVIOUS
<1>3. B \in [P -> SUBSET P]
  OBVIOUS
<1>4. /\ \A a \in P : ~Precedes(data, a, a)
      /\ \A a, b \in P : a # b => Precedes(data, a, b) \/ Precedes(data, b, a)
      /\ \A a, b, d \in P : Precedes(data, a, b) /\ Precedes(data, b, d) => Precedes(data, a, d)
  BY DEF Precedes
<1> HIDE DEF B
<1>5. Orders(B, P)
  <2>1. ASSUME NEW a \in P, NEW b \in P, a \in B[b] PROVE B[a] \subseteq B[b]
    <3> SUFFICES ASSUME NEW z \in B[a] PROVE z \in B[b]
      OBVIOUS
    <3>1. z \in P
      BY <1>3
    <3> QED BY <1>2, <1>4, <2>1, <3>1
  <2> QED BY <1>2, <1>3, <1>4, <2>1 DEF Orders
<1>6. /\ \A k \in P : rank[k] \in 0..c - 1
      /\ \A a, b \in P : rank[a] = rank[b] => a = b
      /\ \A i \in 0..c - 1 : \E k \in P : rank[k] = i
  <2>1. \A k \in P : rank[k] = Cardinality(B[k])
    OBVIOUS
  <2> HIDE DEF rank
  <2>2. /\ \A k \in P : Cardinality(B[k]) \in 0..c - 1
        /\ \A a, b \in P : Cardinality(B[a]) = Cardinality(B[b]) => a = b
        /\ \A i \in 0..c - 1 : \E k \in P : Cardinality(B[k]) = i
    <3> HIDE DEF c
    <3>1. IsFiniteSet(P) /\ Orders(B, P) /\ c = Cardinality(P)
      BY <1>5 DEF c
    <3>2. \A k \in P : Cardinality(B[k]) \in 0..Cardinality(P) - 1
      BY <3>1, RanksNumber, ZenonT(30)
    <3>3. \A a, b \in P : Cardinality(B[a]) = Cardinality(B[b]) => a = b
      BY <3>1, RanksNumber, ZenonT(30)
    <3>4. \A i \in 0..Cardinality(P) - 1 : \E k \in P : Cardinality(B[k]) = i
      <4>1. \A i \in Nat : i < Cardinality(P) => \E k : k \in P /\ Cardinality(B[k]) = i
        BY <3>1, RanksReach
      <4>2. ASSUME NEW i \in 0..Cardinality(P) - 1 PROVE i \in Nat /\ i < Cardinality(P)
        BY <1>1, <3>1
      <4> QED BY <4>1, <4>2
    <3> QED BY <3>1, <3>2, <3>3, <3>4
  <2> QED BY <2>1, <2>2
<1>7. \A a, b \in P : Precedes(data, a, b) => rank[a] < rank[b]
  <2> SUFFICES ASSUME NEW a \in P, NEW b \in P, Precedes(data, a, b) PROVE rank[a] < rank[b]
    OBVIOUS
  <2>1. B[a] \subseteq B[b] /\ a \in B[b] /\ a \notin B[a] /\ IsFiniteSet(B[b])
    BY <1>2, <1>3, <1>4, <1>5, FS_Subset DEF Orders
  <2>2. Cardinality(B[a]) <= Cardinality(B[b])
    BY <2>1, FS_Subset
  <2>3. rank[a] # rank[b]
    BY <1>4, <1>6
  <2>4. rank[a] \in Nat /\ rank[b] \in Nat
    BY <1>1, <1>6
  <2> QED BY <2>2, <2>3, <2>4
<1>8. \A k \in 1..c : o[k] \in P /\ rank[o[k]] = k - 1
  <2> SUFFICES ASSUME NEW k \in 1..c PROVE o[k] \in P /\ rank[o[k]] = k - 1
    OBVIOUS
  <2>1. k - 1 \in 0..c - 1
    BY <1>1
  <2>2. \E p \in P : rank[p] = k - 1
    BY <1>6, <2>1
  <2> HIDE DEF rank
  <2> QED BY <2>2
<1>9. StampOrder(o, data, P)
  <2>1. o \in [1..c -> P]
    BY <1>8
  <2> HIDE DEF rank, o
  <2>2. ASSUME NEW i \in 1..c, NEW j \in 1..c, i < j PROVE Precedes(data, o[i], o[j])
    <3>1. o[i] \in P /\ o[j] \in P /\ rank[o[i]] = i - 1 /\ rank[o[j]] = j - 1
      BY <1>8
    <3>2. ~(rank[o[j]] < rank[o[i]]) /\ o[i] # o[j]
      BY <1>1, <2>2, <3>1
    <3> QED BY <1>4, <1>7, <3>1, <3>2
  <2> QED BY <2>1, <2>2 DEF StampOrder
<1> HIDE DEF o
<1>10. \E q \in [1..c -> P] : \A i, j \in DOMAIN q : i < j => Precedes(data, q[i], q[j])
  BY <1>9 DEF StampOrder
<1> DEFINE w == CHOOSE q \in [1..c -> P] : \A i, j \in DOMAIN q : i < j => Precedes(data, q[i], q[j])
<1>11. w \in [1..c -> P] /\ \A i, j \in DOMAIN w : i < j => Precedes(data, w[i], w[j])
  BY <1>10
<1>12. InOrder(data, P) = w
  BY DEF InOrder
<1> HIDE DEF w
<1>13. StampOrder(w, data, P)
  BY <1>11 DEF StampOrder
<1> QED BY <1>1, <1>12, <1>13

\* Such an order has each of them once.
LEMMA OrderCovers ==
    ASSUME NEW data, NEW P, NEW o, StampOrder(o, data, P)
    PROVE  /\ \A i, j \in 1..Cardinality(P) : o[i] = o[j] => i = j
           /\ \A p \in P : \E i \in 1..Cardinality(P) : o[i] = p
           /\ \A i, j \in 1..Cardinality(P) : i <= j => data[o[i]].at <= data[o[j]].at
<1> DEFINE c == Cardinality(P)
<1>1. c \in Nat /\ o \in [1..c -> P] /\ P \subseteq Int /\ IsFiniteSet(P) /\ \A i \in P : data[i].at \in Int
  BY FS_CardinalityType DEF StampOrder
<1>2. \A a, b \in P : Precedes(data, a, b) => a # b /\ data[a].at <= data[b].at
  <2> SUFFICES ASSUME NEW a \in P, NEW b \in P, Precedes(data, a, b) PROVE a # b /\ data[a].at <= data[b].at
    OBVIOUS
  <2> DEFINE u == data[a].at
             v == data[b].at
  <2>1. u \in Int /\ v \in Int /\ a \in Int /\ b \in Int /\ (u < v \/ (u = v /\ a < b)) /\ (a = b => u = v)
    BY <1>1 DEF Precedes
  <2> HIDE DEF u, v
  <2>2. a # b /\ u <= v
    BY <2>1
  <2> QED BY <2>2 DEF u, v
<1>3. ASSUME NEW i \in 1..c, NEW j \in 1..c, i < j PROVE o[i] # o[j] /\ data[o[i]].at <= data[o[j]].at
  BY <1>1, <1>2, <1>3 DEF StampOrder
<1>4. ASSUME NEW i \in 1..c, NEW j \in 1..c, o[i] = o[j] PROVE i = j
  <2>1. ~(i < j) /\ ~(j < i)
    BY <1>3, <1>4
  <2> HIDE DEF c
  <2> QED BY <1>1, <2>1
<1>5. IsFiniteSet(1..c) /\ Cardinality(1..c) = c
  <2>1. 1 \in Int /\ c \in Int
    BY <1>1
  <2>2. IsFiniteSet(1..c) /\ Cardinality(1..c) = IF 1 > c THEN 0 ELSE c - 1 + 1
    BY <2>1, FS_Interval
  <2> QED BY <1>1, <2>2
<1>6. o \in Injection(1..c, P)
  BY <1>1, <1>4 DEF Injection, IsInjective
<1>7. o \in Surjection(1..c, P)
  <2> HIDE DEF c
  <2>1. Cardinality(1..c) = Cardinality(P)
    BY <1>5 DEF c
  <2> QED BY <1>1, <1>5, <1>6, <2>1, FS_Injection
<1>8. ASSUME NEW i \in 1..c, NEW j \in 1..c, i <= j PROVE data[o[i]].at <= data[o[j]].at
  <2>1. CASE i = j
    <3>1. data[o[i]].at \in Int
      BY <1>1
    <3> QED BY <2>1, <3>1
  <2>2. CASE i # j
    BY <1>1, <1>3, <1>8, <2>2
  <2> QED BY <2>1, <2>2
<1> QED BY <1>4, <1>7, <1>8 DEF Surjection

\* A window has samples of the table, each at most once.
Sampled(w, data, s) ==
    \E h \in [1..Len(w) -> 1..Len(data)] :
        /\ \A i, j \in 1..Len(w) : h[i] = h[j] => i = j
        /\ \A i \in 1..Len(w) : data[h[i]].series = s /\ data[h[i]].at = w[i]

\* As many samples as fit are no more than there are.
Fitting(n) == IF n > WindowSize THEN WindowSize ELSE n

LEMMA FittingFits ==
    \A n \in Nat : Fitting(n) \in Nat /\ Fitting(n) <= n /\ Fitting(n) <= WindowSize
                   /\ (Fitting(n) < WindowSize => Fitting(n) = n)
  BY ForecastAssumption DEF Fitting

\* The newest of a finite set of rows: at most n, exactly n if there are so many,
\* and who is not among them comes before n others.
LEMMA NewestTaken ==
    ASSUME NEW data, NEW P, P \subseteq Int, IsFiniteSet(P), \A i \in P : data[i].at \in Int, NEW n \in Nat
    PROVE  LET N == NewestRows(data, P, n)
           IN /\ N \subseteq P /\ IsFiniteSet(N) /\ Cardinality(N) \in Nat /\ Cardinality(N) <= n
              /\ \A i \in P \ N : /\ Cardinality({j \in P : Precedes(data, i, j)}) \in Nat
                                  /\ Cardinality({j \in P : Precedes(data, i, j)}) >= n
                                  /\ Cardinality(N) = n
<1> DEFINE N == NewestRows(data, P, n)
           B == [k \in P |-> {h \in P : Precedes(data, k, h)}]
<1>1. Cardinality(P) \in Nat
  BY FS_CardinalityType
<1>2. /\ \A a \in P : ~Precedes(data, a, a)
      /\ \A a, b \in P : a # b => Precedes(data, a, b) \/ Precedes(data, b, a)
      /\ \A a, b, d \in P : Precedes(data, a, b) /\ Precedes(data, b, d) => Precedes(data, a, d)
  BY DEF Precedes
<1>3. /\ B \in [P -> SUBSET P] /\ \A a, b \in P : a \in B[b] <=> Precedes(data, b, a)
      /\ \A i \in P : B[i] = {j \in P : Precedes(data, i, j)}
  OBVIOUS
<1>4. N = {k \in P : Cardinality(B[k]) < n}
  BY <1>3 DEF NewestRows
<1> HIDE DEF B, N
<1>5. Orders(B, P)
  <2>1. ASSUME NEW a \in P, NEW b \in P, a \in B[b] PROVE B[a] \subseteq B[b]
    <3> SUFFICES ASSUME NEW z \in B[a] PROVE z \in B[b]
      OBVIOUS
    <3>1. z \in P
      BY <1>3
    <3> QED BY <1>2, <1>3, <2>1, <3>1
  <2> QED BY <1>2, <1>3, <2>1 DEF Orders
<1>6. \A k \in P : Cardinality(B[k]) \in Nat /\ Cardinality(B[k]) < Cardinality(P)
  <2>1. \A k \in P : Cardinality(B[k]) \in 0..Cardinality(P) - 1
    BY <1>5, RanksNumber, ZenonT(30)
  <2> QED BY <1>1, <2>1
<1>7. N \subseteq P /\ IsFiniteSet(N) /\ Cardinality(N) \in Nat
  <2>1. N \subseteq P
    BY <1>4
  <2> QED BY <2>1, FS_Subset, FS_CardinalityType
<1>8. CASE n <= Cardinality(P)
  <2>1. Cardinality(N) = n
    BY <1>4, <1>5, <1>8, FirstAreSoMany
  <2>2. \A i \in P \ N : Cardinality(B[i]) \in Nat /\ Cardinality(B[i]) >= n
    BY <1>4, <1>6
  <2>3. n <= n
    OBVIOUS
  <2> QED BY <1>3, <1>7, <2>1, <2>2, <2>3 DEF N
<1>9. CASE ~(n <= Cardinality(P))
  <2>1. \A k \in P : Cardinality(B[k]) < n
    BY <1>1, <1>6, <1>9
  <2>2. N = P
    BY <1>4, <2>1
  <2>3. Cardinality(N) <= n
    BY <1>1, <1>9, <2>2
  <2> QED BY <1>7, <2>2, <2>3 DEF N
<1> QED BY <1>8, <1>9

\* The rows before a moment, those of them that are fetched and those of one
\* series.
Taken(data, s, t) == {i \in Fetched(data, t) : data[i].series = s}

LEMMA RowsTaken ==
    ASSUME NEW data \in Seq(Reading), NEW s, NEW t
    PROVE  /\ Earlier(data, t) \subseteq 1..Len(data) /\ Earlier(data, t) \subseteq Int /\ IsFiniteSet(Earlier(data, t))
           /\ \A i \in Earlier(data, t) : data[i].at \in Int /\ data[i].at \in 0..MaxNow /\ data[i].at < t
           /\ Fetched(data, t) \subseteq Earlier(data, t)
           /\ Taken(data, s, t) \subseteq Earlier(data, t) /\ IsFiniteSet(Taken(data, s, t))
           /\ Bucket(data, s, t) \subseteq Taken(data, s, t) /\ IsFiniteSet(Bucket(data, s, t))
<1>1. DOMAIN data = 1..Len(data) /\ Len(data) \in Nat /\ \A i \in 1..Len(data) : data[i] \in Reading
  OBVIOUS
<1>2. Earlier(data, t) \subseteq 1..Len(data) /\ Earlier(data, t) \subseteq Int
  BY <1>1 DEF Earlier
<1>3. IsFiniteSet(1..Len(data))
  BY <1>1, FS_Interval
<1>4. \A i \in Earlier(data, t) : data[i].at \in Int /\ data[i].at \in 0..MaxNow /\ data[i].at < t
  BY <1>1, ForecastAssumption DEF Reading, Earlier
<1>5. Bucket(data, s, t) \subseteq Taken(data, s, t) /\ Taken(data, s, t) \subseteq Fetched(data, t)
      /\ Fetched(data, t) \subseteq Earlier(data, t)
  BY DEF Bucket, Taken, Fetched, NewestRows
<1> QED BY <1>2, <1>3, <1>4, <1>5, FS_Subset

\* What is restored are the stamps of the bucket, oldest first.
LEMMA RestorableTakes ==
    ASSUME NEW data \in Seq(Reading), NEW s \in Series, NEW t
    PROVE  LET w == Restorable(data, s, t)
               P == Bucket(data, s, t)
               o == InOrder(data, P)
               n == Cardinality(P)
           IN /\ n \in Nat /\ n <= WindowSize /\ StampOrder(o, data, P)
              /\ w \in Seq(0..MaxNow) /\ Len(w) = n
              /\ \A k \in 1..n : o[k] \in P /\ w[k] = data[o[k]].at
<1> DEFINE w == Restorable(data, s, t)
           P == Bucket(data, s, t)
           o == InOrder(data, P)
           n == Cardinality(P)
           T == Taken(data, s, t)
<1>1. /\ P \subseteq 1..Len(data) /\ P \subseteq Int /\ IsFiniteSet(P) /\ T \subseteq Int /\ IsFiniteSet(T)
      /\ \A i \in T : data[i].at \in Int
      /\ \A i \in P : data[i].at \in Int /\ data[i].at \in 0..MaxNow
  BY RowsTaken
<1>2. P = NewestRows(data, T, WindowSize) /\ WindowSize \in Nat
  BY ForecastAssumption DEF Bucket, Taken
<1>3. w = [k \in DOMAIN o |-> data[o[k]].at]
  BY DEF Restorable
<1> HIDE DEF w, P, o, T
<1>4. n <= WindowSize
  BY <1>1, <1>2, NewestTaken
<1>5. n \in Nat /\ StampOrder(o, data, P)
  BY <1>1, OrderExists DEF o
<1>6. o \in [1..n -> P]
  BY <1>5 DEF StampOrder
<1> HIDE DEF n
<1>7. w = [k \in 1..n |-> data[o[k]].at] /\ \A k \in 1..n : o[k] \in P /\ data[o[k]].at \in 0..MaxNow
  BY <1>1, <1>3, <1>6
<1> DEFINE R == 0..MaxNow
<1>8. w \in [1..n -> R]
  BY <1>7
<1> HIDE DEF R
<1>9. w \in Seq(R) /\ Len(w) = n
  BY <1>5, <1>8
<1> QED BY <1>4, <1>5, <1>7, <1>9 DEF w, P, o, n, R

\* It has its samples from the table, each once.
LEMMA RestorableSampled ==
    ASSUME NEW data \in Seq(Reading), NEW s \in Series, NEW t
    PROVE  Sampled(Restorable(data, s, t), data, s)
<1> DEFINE w == Restorable(data, s, t)
           P == Bucket(data, s, t)
           o == InOrder(data, P)
           n == Cardinality(P)
<1>1. n \in Nat /\ StampOrder(o, data, P) /\ Len(w) = n /\ \A k \in 1..n : o[k] \in P /\ w[k] = data[o[k]].at
  BY RestorableTakes
<1>2. P \subseteq 1..Len(data) /\ \A i \in P : data[i].series = s
  BY RowsTaken DEF Taken
<1> HIDE DEF w, P, o
<1>3. o \in [1..n -> P] /\ \A i, j \in 1..n : o[i] = o[j] => i = j
  <2>1. o \in [1..n -> P]
    BY <1>1 DEF StampOrder
  <2> QED BY <1>1, <2>1, OrderCovers
<1> HIDE DEF n
<1>4. o \in [1..Len(w) -> 1..Len(data)]
  BY <1>1, <1>2, <1>3
<1>5. Sampled(w, data, s)
  BY <1>1, <1>2, <1>3, <1>4 DEF Sampled
<1> QED BY <1>5 DEF w

\* A row of the series that is not restored has a full window or a full query of
\* rows that are no older.
LEMMA LeftOutIsOlder ==
    ASSUME NEW data \in Seq(Reading), NEW s \in Series, NEW t, NEW i \in Earlier(data, t),
           data[i].series = s, i \notin Bucket(data, s, t)
    PROVE  \/ /\ Cardinality(Bucket(data, s, t)) = WindowSize
              /\ \A b \in Bucket(data, s, t) : data[i].at <= data[b].at
           \/ Cardinality(Between(data, data[i].at, t)) > RestoreLimit
<1> DEFINE E == Earlier(data, t)
           F == Fetched(data, t)
           T == Taken(data, s, t)
           P == Bucket(data, s, t)
           u == data[i].at
<1>1. /\ E \subseteq Int /\ IsFiniteSet(E) /\ \A j \in E : data[j].at \in Int /\ data[j].at < t
      /\ E \subseteq DOMAIN data
      /\ T \subseteq E /\ IsFiniteSet(T) /\ P \subseteq T /\ i \in Int /\ u \in Int
  BY RowsTaken DEF Earlier
<1>2. F = NewestRows(data, E, RestoreLimit) /\ RestoreLimit \in Nat
  BY ForecastAssumption DEF Fetched
<1>3. P = NewestRows(data, T, WindowSize) /\ WindowSize \in Nat
  BY ForecastAssumption DEF Bucket, Taken
<1>4. i \in T <=> i \in F
  BY DEF Taken
<1>5. i \in E /\ i \notin P
  OBVIOUS
<1>6. \A j \in E : Precedes(data, i, j) => u <= data[j].at /\ j # i
  BY <1>1 DEF Precedes
<1> HIDE DEF E, F, T, P
<1>7. CASE i \notin F
  <2> DEFINE after == {j \in E : Precedes(data, i, j)}
             more == Between(data, u, t)
  <2>1. Cardinality(after) \in Nat /\ Cardinality(after) >= RestoreLimit
    <3>1. E \subseteq Int /\ IsFiniteSet(E) /\ \A j \in E : data[j].at \in Int
      BY <1>1
    <3>2. \A k \in E \ NewestRows(data, E, RestoreLimit) :
             /\ Cardinality({j \in E : Precedes(data, k, j)}) \in Nat
             /\ Cardinality({j \in E : Precedes(data, k, j)}) >= RestoreLimit
             /\ Cardinality(NewestRows(data, E, RestoreLimit)) = RestoreLimit
      BY <1>2, <3>1, NewestTaken
    <3> QED BY <1>2, <1>5, <1>7, <3>2
  <2>2. after \cup {i} \subseteq more /\ i \notin after
    <3>1. ASSUME NEW j \in E, u <= data[j].at PROVE j \in more
      <4>1. j \in DOMAIN data /\ data[j].at < t
        BY <1>1
      <4> QED BY <3>1, <4>1 DEF Between
    <3>2. u <= data[i].at
      BY <1>1
    <3> HIDE DEF more
    <3> QED BY <1>5, <1>6, <3>1, <3>2
  <2>3. more \subseteq E
    BY DEF Between, E, Earlier
  <2>4. IsFiniteSet(more) /\ IsFiniteSet(after)
    <3>1. IsFiniteSet(more)
      BY <1>1, <2>3, FS_Subset
    <3>2. after \subseteq more
      BY <2>2
    <3> QED BY <3>1, <3>2, FS_Subset
  <2> HIDE DEF after, more
  <2>5. Cardinality(after \cup {i}) = Cardinality(after) + 1
    BY <2>2, <2>4, FS_AddElement
  <2>6. Cardinality(more) \in Nat /\ Cardinality(after \cup {i}) <= Cardinality(more)
    BY <2>2, <2>4, FS_Subset, FS_CardinalityType
  <2>7. Cardinality(more) > RestoreLimit
    BY <1>2, <2>1, <2>5, <2>6
  <2> QED BY <2>7 DEF more
<1>8. CASE i \in F
  <2> DEFINE B(k) == {j \in T : Precedes(data, k, j)}
  <2>1. i \in T
    BY <1>4, <1>8
  <2>2. \A j \in T : data[j].at \in Int
    BY <1>1
  <2>3. Cardinality(P) = WindowSize /\ Cardinality(B(i)) \in Nat /\ Cardinality(B(i)) >= WindowSize
    <3>1. T \subseteq Int /\ IsFiniteSet(T) /\ i \in T \ P
      BY <1>1, <1>5, <2>1
    <3>2. \A k \in T \ NewestRows(data, T, WindowSize) :
             /\ Cardinality({j \in T : Precedes(data, k, j)}) \in Nat
             /\ Cardinality({j \in T : Precedes(data, k, j)}) >= WindowSize
             /\ Cardinality(NewestRows(data, T, WindowSize)) = WindowSize
      BY <1>3, <2>2, <3>1, NewestTaken
    <3> QED BY <1>3, <3>1, <3>2
  <2>4. ASSUME NEW b \in P PROVE u <= data[b].at
    <3>1. b \in T /\ data[b].at \in Int /\ b \in Int /\ Cardinality(B(b)) < WindowSize
      BY <1>1, <1>3 DEF NewestRows
    <3>2. ASSUME ~(u <= data[b].at) PROVE FALSE
      <4>1. Precedes(data, b, i)
        BY <1>1, <3>1, <3>2 DEF Precedes
      <4>2. \A j \in T : Precedes(data, i, j) => Precedes(data, b, j)
        BY <1>1, <2>2, <3>1, <4>1 DEF Precedes
      <4>3. B(i) \subseteq B(b) /\ B(b) \subseteq T
        BY <4>2
      <4>4. IsFiniteSet(B(b)) /\ Cardinality(B(b)) \in Nat
        BY <1>1, <4>3, FS_Subset, FS_CardinalityType
      <4>5. Cardinality(B(i)) <= Cardinality(B(b))
        BY <4>3, <4>4, FS_Subset
      <4> HIDE DEF B
      <4> QED BY <1>3, <2>3, <3>1, <4>4, <4>5
    <3> QED BY <3>2
  <2> QED BY <2>3, <2>4 DEF P
<1> QED BY <1>7, <1>8 DEF F

\* A window that takes its samples once has none more often than the table.
LEMMA SampledOnce ==
    ASSUME NEW data \in Seq(Reading), NEW s \in Series, NEW w \in Seq(0..MaxNow), Sampled(w, data, s), NEW t
    PROVE  InWindow(w, t) <= InTable(data, s, t)
<1>1. PICK h \in [1..Len(w) -> 1..Len(data)] :
        /\ \A i, j \in 1..Len(w) : h[i] = h[j] => i = j
        /\ \A i \in 1..Len(w) : data[h[i]].series = s /\ data[h[i]].at = w[i]
  BY DEF Sampled
<1> DEFINE A == {i \in DOMAIN w : w[i] = t}
           B == {i \in DOMAIN data : data[i].series = s /\ data[i].at = t}
           g == [i \in A |-> h[i]]
<1>2. DOMAIN w = 1..Len(w) /\ DOMAIN data = 1..Len(data) /\ Len(data) \in Nat
  OBVIOUS
<1>3. g \in [A -> B] /\ \A i, j \in A : g[i] = g[j] => i = j
  BY <1>1, <1>2
<1>4. g \in Injection(A, B)
  BY <1>3 DEF Injection, IsInjective
<1>5. IsFiniteSet(B)
  <2>1. IsFiniteSet(1..Len(data))
    BY <1>2, FS_Interval
  <2>2. B \subseteq 1..Len(data)
    BY <1>2
  <2> QED BY <2>1, <2>2, FS_Subset
<1> HIDE DEF A, B, g
<1>6. Cardinality(A) <= Cardinality(B)
  BY <1>4, <1>5, FS_Injection
<1> QED BY <1>6 DEF A, B, InWindow, InTable

\* A longer table still has them.
LEMMA SampledStays ==
    ASSUME NEW data \in Seq(Reading), NEW more \in Seq(Reading), Len(data) <= Len(more),
           \A i \in 1..Len(data) : more[i] = data[i], NEW s, NEW w, Sampled(w, data, s)
    PROVE  Sampled(w, more, s)
<1>1. PICK h \in [1..Len(w) -> 1..Len(data)] :
        /\ \A i, j \in 1..Len(w) : h[i] = h[j] => i = j
        /\ \A i \in 1..Len(w) : data[h[i]].series = s /\ data[h[i]].at = w[i]
  BY DEF Sampled
<1>2. \A i \in 1..Len(data) : i \in 1..Len(more)
  OBVIOUS
<1>3. h \in [1..Len(w) -> 1..Len(more)]
  BY <1>1, <1>2
<1>4. \A i \in 1..Len(w) : more[h[i]].series = s /\ more[h[i]].at = w[i]
  BY <1>1
<1> QED BY <1>1, <1>3, <1>4 DEF Sampled

\* Entering a sample: what the window becomes.
LEMMA RecordIs ==
    ASSUME NEW w \in Seq(0..MaxNow), Len(w) <= WindowSize, NEW t \in 0..MaxNow
    PROVE  /\ Record(w, t) \in Seq(0..MaxNow) /\ Len(w) \in Nat
           /\ Len(Record(w, t)) = Fitting(Len(w) + 1)
           /\ \A k \in 1..Fitting(Len(w) + 1) :
                 Record(w, t)[k] = IF k < Fitting(Len(w) + 1) THEN w[Len(w) + 1 - Fitting(Len(w) + 1) + k] ELSE t
<1> DEFINE R == 0..MaxNow
           q == Append(w, t)
           n == Len(w)
<1>1. n \in Nat /\ w \in Seq(R) /\ t \in R /\ WindowSize \in Nat \ {0}
  BY ForecastAssumption
<1>2. Record(w, t) = IF Len(q) > WindowSize THEN Tail(q) ELSE q
  BY DEF Record
<1> HIDE DEF R
<1>3. q \in Seq(R) /\ Len(q) = n + 1 /\ q[n + 1] = t /\ \A k \in 1..n : q[k] = w[k]
  BY <1>1
<1> HIDE DEF q
<1>4. CASE n + 1 > WindowSize
  <2>1. Fitting(n + 1) = n /\ n # 0
    BY <1>1, <1>4 DEF Fitting
  <2>2. Record(w, t) = Tail(q) /\ q # << >>
    BY <1>1, <1>2, <1>3, <1>4
  <2>3. Tail(q) \in Seq(R) /\ Len(Tail(q)) = n /\ \A k \in 1..n : Tail(q)[k] = q[k + 1]
    BY <1>1, <1>3, <2>2
  <2>4. \A k \in 1..n : q[k + 1] = IF k < n THEN w[n + 1 - n + k] ELSE t
    <3> SUFFICES ASSUME NEW k \in 1..n PROVE q[k + 1] = IF k < n THEN w[n + 1 - n + k] ELSE t
      OBVIOUS
    <3>1. n + 1 - n + k = k + 1
      BY <1>1
    <3>2. k < n => k + 1 \in 1..n
      BY <1>1
    <3>3. ~(k < n) => k = n
      BY <1>1
    <3> QED BY <1>3, <3>1, <3>2, <3>3
  <2> QED BY <1>1, <2>1, <2>2, <2>3, <2>4 DEF R
<1>5. CASE ~(n + 1 > WindowSize)
  <2>1. Fitting(n + 1) = n + 1
    BY <1>1, <1>5 DEF Fitting
  <2>2. Record(w, t) = q
    BY <1>1, <1>2, <1>3, <1>5
  <2>3. \A k \in 1..n + 1 : q[k] = IF k < n + 1 THEN w[n + 1 - (n + 1) + k] ELSE t
    <3> SUFFICES ASSUME NEW k \in 1..n + 1 PROVE q[k] = IF k < n + 1 THEN w[n + 1 - (n + 1) + k] ELSE t
      OBVIOUS
    <3>1. n + 1 - (n + 1) + k = k
      BY <1>1
    <3>2. k < n + 1 => k \in 1..n
      BY <1>1
    <3>3. ~(k < n + 1) => k = n + 1
      BY <1>1
    <3> QED BY <1>3, <3>1, <3>2, <3>3
  <2> QED BY <1>1, <1>3, <2>1, <2>2, <2>3 DEF R
<1> QED BY <1>4, <1>5

\* The sample that is entered is the one that the table has just got.
LEMMA RecordSampled ==
    ASSUME NEW data \in Seq(Reading), NEW more \in Seq(Reading), Len(more) = Len(data) + 1,
           \A i \in 1..Len(data) : more[i] = data[i],
           NEW s \in Series, NEW t \in 0..MaxNow, more[Len(data) + 1].series = s, more[Len(data) + 1].at = t,
           NEW w \in Seq(0..MaxNow), Len(w) <= WindowSize, Sampled(w, data, s)
    PROVE  Sampled(Record(w, t), more, s)
<1> DEFINE n == Len(w)
           m == Fitting(n + 1)
           N == Len(data)
           v == Record(w, t)
<1>1. PICK h \in [1..n -> 1..N] :
        /\ \A i, j \in 1..n : h[i] = h[j] => i = j
        /\ \A i \in 1..n : data[h[i]].series = s /\ data[h[i]].at = w[i]
  BY DEF Sampled
<1>2. n \in Nat /\ N \in Nat /\ m \in Nat /\ m <= n + 1 /\ Len(v) = m
  BY RecordIs, FittingFits
<1>3. \A k \in 1..m : v[k] = IF k < m THEN w[n + 1 - m + k] ELSE t
  BY RecordIs
<1> DEFINE g == [k \in 1..m |-> IF k < m THEN h[n + 1 - m + k] ELSE N + 1]
<1> HIDE DEF m, n, N, v
<1>4. \A k \in 1..m : k < m => n + 1 - m + k \in 1..n
  BY <1>2
<1>5. \A k \in 1..m : k < m => g[k] = h[n + 1 - m + k] /\ g[k] \in 1..N
  BY <1>1, <1>4
<1>6. \A k \in 1..m : ~(k < m) => k = m /\ g[k] = N + 1
  BY <1>2
<1> HIDE DEF g
<1>7. \A k \in 1..m : g[k] \in 1..N + 1
  BY <1>2, <1>5, <1>6
<1>8. g \in [1..m -> 1..Len(more)]
  <2>1. Len(more) = N + 1
    BY DEF N
  <2>2. \A k \in 1..m : g[k] \in 1..Len(more)
    BY <1>7, <2>1
  <2> QED BY <2>2 DEF g
<1>9. ASSUME NEW i \in 1..m, NEW j \in 1..m, g[i] = g[j] PROVE i = j
  <2>1. CASE i < m /\ j < m
    <3>1. n + 1 - m + i = n + 1 - m + j
      BY <1>1, <1>4, <1>5, <1>9, <2>1
    <3> QED BY <1>2, <3>1
  <2>2. CASE i < m /\ ~(j < m)
    BY <1>2, <1>5, <1>6, <1>9, <2>2
  <2>3. CASE ~(i < m) /\ j < m
    BY <1>2, <1>5, <1>6, <1>9, <2>3
  <2>4. CASE ~(i < m) /\ ~(j < m)
    BY <1>6, <2>4
  <2> QED BY <2>1, <2>2, <2>3, <2>4
<1>10. ASSUME NEW i \in 1..m PROVE more[g[i]].series = s /\ more[g[i]].at = v[i]
  <2>1. CASE i < m
    <3>1. g[i] = h[n + 1 - m + i] /\ g[i] \in 1..N /\ n + 1 - m + i \in 1..n /\ v[i] = w[n + 1 - m + i]
      BY <1>3, <1>4, <1>5, <2>1
    <3>2. more[g[i]] = data[g[i]]
      BY <3>1 DEF N
    <3> QED BY <1>1, <3>1, <3>2
  <2>2. CASE ~(i < m)
    <3>1. g[i] = N + 1 /\ v[i] = t
      BY <1>3, <1>6, <2>2
    <3> QED BY <3>1 DEF N
  <2> QED BY <2>1, <2>2
<1>11. Len(v) = m
  BY <1>2
<1>12. Sampled(v, more, s)
  BY <1>8, <1>9, <1>10, <1>11 DEF Sampled
<1> QED BY <1>12 DEF v

\* The windows never outgrow their deque, and take no sample twice.
WindowInv ==
    /\ now \in 0..MaxNow
    /\ windows \in [Series -> Seq(0..MaxNow)]
    /\ \A s \in Series : Len(windows[s]) <= WindowSize /\ Sampled(windows[s], stored, s)

LEMMA WindowsObserve ==
    ASSUME ForecastInv, WindowInv, NEW r \in Series, NEW t \in 0..MaxNow, Observe(r, t)
    PROVE  WindowInv'
<1>0. Stores(r, t, TRUE) /\ windows' = [windows EXCEPT ![r] = Record(windows[r], t)] /\ now' = now
  BY DEF Observe
<1>1. windows \in [Series -> Seq(0..MaxNow)] /\ \A s \in Series : Len(windows[s]) <= WindowSize /\ Sampled(windows[s], stored, s)
  BY DEF WindowInv
<1>2. TRUE \in BOOLEAN
  OBVIOUS
<1>3. /\ stored \in Seq(Reading) /\ stored' \in Seq(Reading) /\ Len(stored') = Len(stored) + 1 /\ Len(stored) <= Len(stored')
      /\ \A i \in 1..Len(stored) : stored'[i] = stored[i]
      /\ stored'[Len(stored) + 1].series = r /\ stored'[Len(stored) + 1].at = t
  <2>1. /\ stored \in Seq(Reading) /\ stored' \in Seq(Reading) /\ Len(stored') = Len(stored) + 1 /\ Len(stored) \in Nat
        /\ \A i \in 1..Len(stored) : stored'[i] = stored[i]
        /\ stored'[Len(stored) + 1] = [series |-> r, at |-> t, seen |-> TRUE]
    BY <1>0, <1>2, StoresAdds DEF ForecastInv
  <2> QED BY <2>1
<1>4. Record(windows[r], t) \in Seq(0..MaxNow) /\ Len(Record(windows[r], t)) <= WindowSize
  <2>1. windows[r] \in Seq(0..MaxNow) /\ Len(windows[r]) <= WindowSize
    BY <1>1
  <2>2. /\ Record(windows[r], t) \in Seq(0..MaxNow) /\ Len(windows[r]) \in Nat
        /\ Len(Record(windows[r], t)) = Fitting(Len(windows[r]) + 1)
    BY <2>1, RecordIs
  <2>3. Len(windows[r]) + 1 \in Nat
    BY <2>2
  <2> QED BY <2>2, <2>3, FittingFits
<1>5. Sampled(Record(windows[r], t), stored', r)
  <2>1. windows[r] \in Seq(0..MaxNow) /\ Len(windows[r]) <= WindowSize /\ Sampled(windows[r], stored, r)
    BY <1>1
  <2> QED BY <1>3, <2>1, RecordSampled
<1>6. windows' \in [Series -> Seq(0..MaxNow)]
  BY <1>0, <1>1, <1>4
<1>7. ASSUME NEW s \in Series PROVE Len(windows'[s]) <= WindowSize /\ Sampled(windows'[s], stored', s)
  <2>1. CASE s = r
    <3>1. windows'[s] = Record(windows[r], t)
      BY <1>0, <1>1, <2>1
    <3> QED BY <1>4, <1>5, <2>1, <3>1
  <2>2. CASE s # r
    <3>1. windows'[s] = windows[s]
      BY <1>0, <1>1, <2>2
    <3>2. Sampled(windows[s], stored', s)
      BY <1>1, <1>3, SampledStays
    <3> QED BY <1>1, <3>1, <3>2
  <2> QED BY <2>1, <2>2
<1> QED BY <1>0, <1>6, <1>7 DEF WindowInv

\* An empty window has its samples.
LEMMA EmptySampled == ASSUME NEW data, NEW s PROVE << >> \in Seq(0..MaxNow) /\ Len(<< >>) = 0 /\ Sampled(<< >>, data, s)
<1>1. Len(<< >>) = 0 /\ << >> \in Seq(0..MaxNow)
  OBVIOUS
<1> DEFINE h == [i \in 1..0 |-> 1]
<1>2. h \in [1..0 -> 1..Len(data)] /\ \A i : i \notin 1..0
  OBVIOUS
<1> QED BY <1>1, <1>2 DEF Sampled

\* The windows begin well.
LEMMA WindowInitInv == ForecastInit => WindowInv
<1> SUFFICES ASSUME ForecastInit PROVE WindowInv
  OBVIOUS
<1>1. now = 0 /\ windows = [s \in Series |-> << >>] /\ 0 \in 0..MaxNow /\ WindowSize \in Nat
  BY ForecastAssumption DEF ForecastInit
<1>2. windows \in [Series -> Seq(0..MaxNow)] /\ \A s \in Series : windows[s] = << >>
  BY <1>1, EmptySampled
<1>3. \A s \in Series : Len(windows[s]) <= WindowSize /\ Sampled(windows[s], stored, s)
  BY <1>1, <1>2, EmptySampled
<1> QED BY <1>1, <1>2, <1>3 DEF WindowInv

\* Every step keeps the windows well.
LEMMA WindowNextInv == ForecastInv /\ WindowInv /\ [ForecastNext]_forecastVars => WindowInv'
<1> SUFFICES ASSUME ForecastInv, WindowInv, [ForecastNext]_forecastVars PROVE WindowInv'
  OBVIOUS
<1>1. ASSUME NEW r \in Series, NEW t \in 0..MaxNow, StoreOnly(r, t) PROVE WindowInv'
  <2>1. FALSE \in BOOLEAN /\ Stores(r, t, FALSE) /\ UNCHANGED <<now, windows>>
    BY <1>1 DEF StoreOnly
  <2>2. /\ stored \in Seq(Reading) /\ stored' \in Seq(Reading) /\ Len(stored) <= Len(stored')
        /\ \A i \in 1..Len(stored) : stored'[i] = stored[i]
    <3>1. /\ stored' \in Seq(Reading) /\ Len(stored') = Len(stored) + 1 /\ Len(stored) \in Nat
          /\ \A i \in 1..Len(stored) : stored'[i] = stored[i]
      BY <2>1, StoresAdds
    <3> QED BY <3>1 DEF ForecastInv
  <2>3. \A s \in Series : Sampled(windows[s], stored', s)
    BY <2>2, SampledStays DEF WindowInv
  <2> QED BY <2>1, <2>3 DEF WindowInv
<1>2. CASE Reboot
  <2>1. windows' = [s \in Series |-> Restorable(stored, s, now)] /\ stored' = stored /\ now' = now
        /\ stored \in Seq(Reading) /\ WindowSize \in Nat
    BY <1>2, ForecastAssumption DEF Reboot, ForecastInv
  <2>2. \A s \in Series : /\ Restorable(stored, s, now) \in Seq(0..MaxNow)
                          /\ Len(Restorable(stored, s, now)) <= WindowSize
                          /\ Sampled(Restorable(stored, s, now), stored, s)
    BY <2>1, RestorableTakes, RestorableSampled
  <2> QED BY <2>1, <2>2 DEF WindowInv
<1>3. CASE ResetWindows
  <2>1. windows' = [s \in Series |-> << >>] /\ stored' = stored /\ now' = now /\ WindowSize \in Nat
    BY <1>3, ForecastAssumption DEF ResetWindows
  <2>2. windows' \in [Series -> Seq(0..MaxNow)] /\ \A s \in Series : windows'[s] = << >>
    BY <2>1, EmptySampled
  <2>3. \A s \in Series : Len(windows'[s]) <= WindowSize /\ Sampled(windows'[s], stored', s)
    BY <2>1, <2>2, EmptySampled
  <2> QED BY <2>1, <2>2, <2>3 DEF WindowInv
<1>4. CASE ForecastTick
  <2>1. now' \in 0..MaxNow /\ UNCHANGED <<windows, stored>>
    BY <1>4, ForecastAssumption DEF ForecastTick, WindowInv
  <2> QED BY <2>1 DEF WindowInv
<1>5. CASE UNCHANGED forecastVars
  BY <1>5 DEF forecastVars, WindowInv
<1> QED BY <1>1, <1>2, <1>3, <1>4, <1>5, WindowsObserve DEF ForecastNext

\* If the bucket has every row of a stamp, the window has them all.
LEMMA BucketHolds ==
    ASSUME NEW data \in Seq(Reading), NEW s \in Series, NEW cutoff, NEW t,
           \A i \in DOMAIN data : data[i].series = s /\ data[i].at = t => i \in Bucket(data, s, cutoff)
    PROVE  InWindow(Restorable(data, s, cutoff), t) = InTable(data, s, t)
<1> DEFINE w == Restorable(data, s, cutoff)
           P == Bucket(data, s, cutoff)
           o == InOrder(data, P)
           n == Cardinality(P)
           A == {k \in 1..n : w[k] = t}
           B == {i \in DOMAIN data : data[i].series = s /\ data[i].at = t}
           g == [k \in A |-> o[k]]
<1>1. /\ n \in Nat /\ StampOrder(o, data, P) /\ w \in Seq(0..MaxNow) /\ Len(w) = n
      /\ \A k \in 1..n : o[k] \in P /\ w[k] = data[o[k]].at
  BY RestorableTakes
<1>2. P \subseteq DOMAIN data /\ \A i \in P : data[i].series = s
  BY RowsTaken DEF Taken, Earlier
<1>3. B \subseteq P
  OBVIOUS
<1>4. DOMAIN w = 1..n
  <2> HIDE DEF w, n
  <2> DEFINE R == 0..MaxNow
  <2>1. w \in Seq(R) /\ Len(w) = n
    BY <1>1
  <2> HIDE DEF R
  <2> QED BY <2>1
<1> HIDE DEF w, P, o
<1>5. /\ \A i, j \in 1..n : o[i] = o[j] => i = j
      /\ \A p \in P : \E i \in 1..n : o[i] = p
  BY <1>1, OrderCovers
<1> HIDE DEF n
<1>6. \A k \in A : g[k] \in B
  BY <1>1, <1>2
<1>7. \A k, l \in A : g[k] = g[l] => k = l
  BY <1>5
<1>8. \A b \in B : \E k \in A : g[k] = b
  <2> SUFFICES ASSUME NEW b \in B PROVE \E k \in A : g[k] = b
    OBVIOUS
  <2>1. PICK k \in 1..n : o[k] = b
    BY <1>3, <1>5
  <2>2. k \in A
    BY <1>1, <2>1
  <2> QED BY <2>1, <2>2
<1>9. g \in Injection(A, B) /\ g \in Surjection(A, B)
  BY <1>6, <1>7, <1>8 DEF Injection, Surjection, IsInjective
<1>10. IsFiniteSet(A)
  <2>1. IsFiniteSet(1..n) /\ A \subseteq 1..n
    BY <1>1, FS_Interval
  <2> QED BY <2>1, FS_Subset
<1>11. InWindow(w, t) = Cardinality(A) /\ InTable(data, s, t) = Cardinality(B)
  BY <1>4 DEF InWindow, InTable
<1> HIDE DEF g, A, B
<1>12. Cardinality(A) = Cardinality(B)
  BY <1>9, <1>10, FS_Surjection
<1> QED BY <1>11, <1>12 DEF w

\* What is restored is the latest of what is stored.
LEMMA RestorableIsLatest ==
    ASSUME NEW data \in Seq(Reading), NEW s \in Series, NEW cutoff \in Nat
    PROVE  HoldsLatest(Restorable(data, s, cutoff), data, s, cutoff)
<1> DEFINE w == Restorable(data, s, cutoff)
           P == Bucket(data, s, cutoff)
           o == InOrder(data, P)
           n == Cardinality(P)
<1>1. /\ n \in Nat /\ StampOrder(o, data, P) /\ w \in Seq(0..MaxNow) /\ Len(w) = n
      /\ \A k \in 1..n : o[k] \in P /\ w[k] = data[o[k]].at
  BY RestorableTakes
<1>2. \A i \in P : data[i].at < cutoff
  BY RowsTaken
<1>3. DOMAIN w = 1..n
  <2> HIDE DEF w, n
  <2> DEFINE R == 0..MaxNow
  <2>1. w \in Seq(R) /\ Len(w) = n
    BY <1>1
  <2> HIDE DEF R
  <2> QED BY <2>1
<1>4. \A i, j \in 1..n : i <= j => data[o[i]].at <= data[o[j]].at
  <2> HIDE DEF o, P
  <2> QED BY <1>1, OrderCovers
<1>5. ASSUME NEW i \in 1..n, NEW j \in 1..n, i < j PROVE w[i] <= w[j]
  <2>1. i <= j
    BY <1>1, <1>5
  <2> HIDE DEF w, o, P, n
  <2> QED BY <1>1, <1>4, <2>1
<1>6. ASSUME NEW i \in 1..n PROVE w[i] < cutoff
  <2> HIDE DEF w, o, P, n
  <2> QED BY <1>1, <1>2
<1>7. ASSUME NEW t \in 0..cutoff - 1
      PROVE  \/ InWindow(w, t) = InTable(data, s, t)
             \/ Len(w) = WindowSize /\ t <= w[1]
             \/ Cardinality(Between(data, t, cutoff)) > RestoreLimit
  <2>1. CASE \A i \in DOMAIN data : data[i].series = s /\ data[i].at = t => i \in P
    BY <2>1, BucketHolds
  <2>2. CASE \E i \in DOMAIN data : data[i].series = s /\ data[i].at = t /\ i \notin P
    <3>1. PICK i \in DOMAIN data : data[i].series = s /\ data[i].at = t /\ i \notin P
      BY <2>2
    <3>2. i \in Earlier(data, cutoff)
      BY <3>1 DEF Earlier
    <3>3. \/ n = WindowSize /\ \A b \in P : t <= data[b].at
          \/ Cardinality(Between(data, t, cutoff)) > RestoreLimit
      BY <3>1, <3>2, LeftOutIsOlder
    <3> HIDE DEF w, o, P, n
    <3>4. ASSUME n = WindowSize, \A b \in P : t <= data[b].at PROVE Len(w) = WindowSize /\ t <= w[1]
      <4>1. 1 \in 1..n
        BY <3>4, ForecastAssumption
      <4> QED BY <1>1, <3>4, <4>1
    <3> QED BY <3>3, <3>4
  <2> QED BY <2>1, <2>2
<1> HIDE DEF w, o, P, n
<1>8. HoldsLatest(w, data, s, cutoff)
  BY <1>3, <1>5, <1>6, <1>7 DEF HoldsLatest
<1> QED BY <1>8 DEF w

\* ForecastsSettledOnce: in whatever order readings come, with errors and
\* restarts between them, every forecast is judged once, the forecasts of a
\* series keep their distance, no more are pending than fit into one horizon, no
\* window has a sample twice, and a process starts with the latest of what is
\* stored, as far as the size of a window and the limit of the query reach.
THEOREM ForecastsSettledOnceHolds == ForecastSpec => ForecastsSettledOnce
<1>1. ForecastInv /\ WindowInv => ForecastTypeOK
  BY DEF ForecastInv, WindowInv, ForecastTypeOK
<1>2. ForecastInv /\ WindowInv => NoSampleTwice
  <2> SUFFICES ASSUME ForecastInv, WindowInv, NEW s \in Series, NEW t \in 0..MaxNow
               PROVE  InWindow(windows[s], t) <= InTable(stored, s, t)
    BY DEF NoSampleTwice
  <2>1. stored \in Seq(Reading) /\ windows[s] \in Seq(0..MaxNow) /\ Sampled(windows[s], stored, s)
    BY DEF ForecastInv, WindowInv
  <2> QED BY <2>1, SampledOnce
<1> DEFINE A == Reboot => \A s \in Series : HoldsLatest(windows'[s], stored, s, now)
<1>3. ForecastInv /\ WindowInv /\ [ForecastNext]_forecastVars => A
  <2> SUFFICES ASSUME ForecastInv, WindowInv, Reboot, NEW s \in Series
               PROVE  HoldsLatest(windows'[s], stored, s, now)
    OBVIOUS
  <2>1. stored \in Seq(Reading) /\ now \in Nat /\ windows'[s] = Restorable(stored, s, now)
    BY ForecastAssumption DEF ForecastInv, WindowInv, Reboot
  <2> QED BY <2>1, RestorableIsLatest
<1>4. ForecastSpec => []WindowInv
  <2>1. ForecastInv /\ WindowInv /\ [ForecastNext]_forecastVars => WindowInv'
    BY WindowNextInv
  <2> QED BY <2>1, ForecastInvHolds, WindowInitInv, PTL DEF ForecastSpec
<1> HIDE DEF A
<1>5. ForecastSpec => [][A]_forecastVars
  BY <1>3, <1>4, ForecastInvHolds, PTL DEF ForecastSpec
<1>6. ForecastSpec => RestoredIsLatest
  BY <1>5 DEF A, RestoredIsLatest
<1>7. ForecastSpec => [](ForecastTypeOK /\ JudgedByFirst /\ SavedApart /\ PendingBounded /\ NoSampleTwice)
  BY <1>1, <1>2, <1>4, ForecastInvHolds, ForecastsJudgedOnce, PTL
<1> QED BY <1>6, <1>7 DEF ForecastsSettledOnce

---------------------------------------------------------------------------
(***************************************************************************)
(* The state lists                                                         *)
(***************************************************************************)

Greater(S, k) == {j \in S : j > k}

LEMMA GreaterIsFinite ==
    ASSUME NEW S \in SUBSET Nat, IsFiniteSet(S), NEW k
    PROVE  /\ Greater(S, k) \subseteq S /\ IsFiniteSet(Greater(S, k))
           /\ Cardinality(Greater(S, k)) \in Nat /\ Cardinality(S) \in Nat
           /\ Cardinality(Greater(S, k)) <= Cardinality(S)
BY FS_Subset, FS_CardinalityType DEF Greater

LEMMA KeptAreGreatest ==
    ASSUME NEW S
    PROVE  \A k : k \in NewestKeys(S) <=> k \in S /\ Cardinality(Greater(S, k)) < MaxItems
BY DEF NewestKeys, Greater

LEMMA GreaterOrders ==
    ASSUME NEW S \in SUBSET Nat
    PROVE  Orders([k \in S |-> Greater(S, k)], S)
<1> DEFINE P == [k \in S |-> Greater(S, k)]
<1>1. P \in [S -> SUBSET S] /\ \A k \in S : P[k] = Greater(S, k)
  BY DEF Greater
<1>2. \A j, k \in S : j \in Greater(S, k) <=> j > k
  BY DEF Greater
<1>3. \A j, k \in S : j > k => Greater(S, j) \subseteq Greater(S, k)
  <2>1. \A i, j, k \in S : i > j /\ j > k => i > k
    OBVIOUS
  <2> QED BY <2>1 DEF Greater
<1> HIDE DEF P
<1>4. \A j, k \in S : (j # k => j > k \/ k > j) /\ ~(k > k)
  OBVIOUS
<1>5. Orders(P, S)
  BY <1>1, <1>2, <1>3, <1>4 DEF Orders
<1> QED BY <1>5 DEF P

\* Of MaxItems or more, MaxItems are kept, and those are greater than the others.
LEMMA KeptAreFull ==
    ASSUME NEW S \in SUBSET Nat, IsFiniteSet(S), NEW k \in S, k \notin NewestKeys(S)
    PROVE  Cardinality(NewestKeys(S)) = MaxItems /\ \A j \in NewestKeys(S) : j > k
<1> DEFINE P == [j \in S |-> Greater(S, j)]
<1>1. MaxItems \in Nat /\ Cardinality(S) \in Nat /\ Cardinality(Greater(S, k)) \in Nat
      /\ Cardinality(Greater(S, k)) <= Cardinality(S)
  BY RuntimeAssumption, GreaterIsFinite
<1>2. Cardinality(Greater(S, k)) >= MaxItems
  BY <1>1, KeptAreGreatest
<1>3. NewestKeys(S) = {j \in S : Cardinality(P[j]) < MaxItems}
  BY KeptAreGreatest
<1>4. Orders(P, S) /\ MaxItems <= Cardinality(S)
  BY <1>1, <1>2, GreaterOrders
<1>5. Cardinality(NewestKeys(S)) = MaxItems
  <2> HIDE DEF P
  <2> QED BY <1>1, <1>3, <1>4, FirstAreSoMany
<1>6. ASSUME NEW j \in NewestKeys(S), ~(j > k) PROVE FALSE
  <2>1. j \in S /\ Cardinality(Greater(S, j)) < MaxItems
    BY KeptAreGreatest
  <2>2. Greater(S, k) \subseteq Greater(S, j)
    <3>1. \A i \in S : i > k => i > j
      BY <1>6, <2>1
    <3> QED BY <3>1 DEF Greater
  <2>3. IsFiniteSet(Greater(S, j)) /\ Cardinality(Greater(S, j)) \in Nat
    BY GreaterIsFinite
  <2>4. Cardinality(Greater(S, k)) <= Cardinality(Greater(S, j))
    BY <2>2, <2>3, FS_Subset
  <2> QED BY <1>1, <1>2, <2>1, <2>3, <2>4
<1> QED BY <1>5, <1>6

\* What is kept is as much as may be, and all if there is no more than that.
LEMMA KeptAreFew ==
    ASSUME NEW S \in SUBSET Nat, IsFiniteSet(S)
    PROVE  /\ NewestKeys(S) \subseteq S /\ IsFiniteSet(NewestKeys(S))
           /\ Cardinality(NewestKeys(S)) \in Nat /\ Cardinality(NewestKeys(S)) <= MaxItems
           /\ Cardinality(S) <= MaxItems => NewestKeys(S) = S
<1>1. NewestKeys(S) \subseteq S
  BY DEF NewestKeys
<1>2. IsFiniteSet(NewestKeys(S)) /\ Cardinality(NewestKeys(S)) \in Nat
      /\ Cardinality(NewestKeys(S)) <= Cardinality(S) /\ Cardinality(S) \in Nat /\ MaxItems \in Nat
      /\ (Cardinality(NewestKeys(S)) = Cardinality(S) => NewestKeys(S) = S)
  BY <1>1, FS_Subset, FS_CardinalityType, RuntimeAssumption
<1>3. CASE NewestKeys(S) = S
  <2>1. CASE S = {}
    BY <1>2, <1>3, <2>1, FS_EmptySet
  <2>2. CASE S # {}
    <3>1. Cardinality(S) \in 0..MaxItems \/ Cardinality(S) > MaxItems
      BY <1>2
    <3>2. ASSUME Cardinality(S) > MaxItems PROVE FALSE
      <4> DEFINE P == [k \in S |-> Greater(S, k)]
      <4>1. Orders(P, S) /\ MaxItems <= Cardinality(S) /\ MaxItems \in Nat
        BY <1>2, <3>2, GreaterOrders
      <4>2. {j \in S : Cardinality(P[j]) < MaxItems} = NewestKeys(S)
        BY KeptAreGreatest
      <4> HIDE DEF P
      <4>3. Cardinality({j \in S : Cardinality(P[j]) < MaxItems}) = MaxItems
        BY <4>1, FirstAreSoMany
      <4>4. Cardinality(S) = MaxItems
        BY <1>3, <4>2, <4>3
      <4> QED BY <1>2, <3>2, <4>4
    <3> QED BY <1>1, <1>2, <1>3, <3>1, <3>2
  <2> QED BY <2>1, <2>2
<1>4. CASE NewestKeys(S) # S
  <2>1. PICK k \in S : k \notin NewestKeys(S)
    BY <1>1, <1>4
  <2>2. Cardinality(NewestKeys(S)) = MaxItems
    BY <2>1, KeptAreFull
  <2> QED BY <1>1, <1>2, <1>4, <2>2
<1> QED BY <1>3, <1>4

\* Only what is kept of a set matters to what is kept when others are added.
LEMMA KeptOfMore ==
    ASSUME NEW S \in SUBSET Nat, IsFiniteSet(S), NEW T \in SUBSET Nat, IsFiniteSet(T)
    PROVE  NewestKeys(S \cup T) = NewestKeys(NewestKeys(S) \cup T)
<1> DEFINE N == NewestKeys(S)
<1>1. /\ N \subseteq S /\ MaxItems \in Nat
      /\ S \cup T \in SUBSET Nat /\ IsFiniteSet(S \cup T)
      /\ N \cup T \in SUBSET Nat /\ IsFiniteSet(N \cup T)
  BY KeptAreFew, FS_Union, RuntimeAssumption
<1> HIDE DEF N
<1>2. ASSUME NEW x \in NewestKeys(S \cup T) PROVE x \in NewestKeys(N \cup T)
  <2>1. x \in S \cup T /\ Cardinality(Greater(S \cup T, x)) < MaxItems
    BY KeptAreGreatest
  <2>2. /\ IsFiniteSet(Greater(S \cup T, x)) /\ Cardinality(Greater(S \cup T, x)) \in Nat
        /\ Cardinality(Greater(S, x)) \in Nat /\ Cardinality(Greater(N \cup T, x)) \in Nat
    BY <1>1, GreaterIsFinite
  <2>3. Greater(S, x) \subseteq Greater(S \cup T, x) /\ Greater(N \cup T, x) \subseteq Greater(S \cup T, x)
    BY <1>1 DEF Greater
  <2>4. Cardinality(Greater(S, x)) < MaxItems /\ Cardinality(Greater(N \cup T, x)) < MaxItems
    <3>1. /\ Cardinality(Greater(S, x)) <= Cardinality(Greater(S \cup T, x))
          /\ Cardinality(Greater(N \cup T, x)) <= Cardinality(Greater(S \cup T, x))
      BY <2>2, <2>3, FS_Subset
    <3> QED BY <1>1, <2>1, <2>2, <3>1
  <2>5. x \in N \cup T
    BY <2>1, <2>4, KeptAreGreatest DEF N
  <2> QED BY <2>4, <2>5, KeptAreGreatest
<1>3. ASSUME NEW x \in NewestKeys(N \cup T) PROVE x \in NewestKeys(S \cup T)
  <2>1. x \in N \cup T /\ Cardinality(Greater(N \cup T, x)) < MaxItems
    BY KeptAreGreatest
  <2>2. ASSUME NEW j \in S, j > x, j \notin N PROVE FALSE
    <3>1. Cardinality(N) = MaxItems /\ \A i \in N : i > j
      BY <2>2, KeptAreFull DEF N
    <3>2. N \subseteq Greater(N \cup T, x)
      BY <1>1, <2>1, <2>2, <3>1 DEF Greater
    <3>3. IsFiniteSet(Greater(N \cup T, x)) /\ Cardinality(Greater(N \cup T, x)) \in Nat
      BY <1>1, GreaterIsFinite
    <3>4. Cardinality(N) <= Cardinality(Greater(N \cup T, x))
      BY <3>2, <3>3, FS_Subset
    <3> QED BY <1>1, <2>1, <3>1, <3>3, <3>4
  <2>3. Greater(S \cup T, x) = Greater(N \cup T, x)
    BY <1>1, <2>2 DEF Greater
  <2>4. x \in S \cup T
    BY <1>1, <2>1
  <2> QED BY <2>1, <2>3, <2>4, KeptAreGreatest
<1> QED BY <1>2, <1>3 DEF N

KeysIn(seq) == {seq[i] : i \in 1..Len(seq)}

Distinct(seq) == \A i, j \in 1..Len(seq) : seq[i] = seq[j] => i = j

LEMMA NthNumbers ==
    ASSUME NEW S \in SUBSET Nat, IsFiniteSet(S)
    PROVE  /\ Cardinality(S) \in Nat
           /\ \A n \in 1..Cardinality(S) : Nth(S, n) \in S
           /\ \A n, m \in 1..Cardinality(S) : Nth(S, n) = Nth(S, m) => n = m
           /\ \A i \in S : \E n \in 1..Cardinality(S) : Nth(S, n) = i
<1> DEFINE P == [k \in S |-> {j \in S : j < k}]
           c == Cardinality(S)
<1>1. c \in Nat
  BY FS_CardinalityType
<1>2. Orders(P, S)
  <2>1. P \in [S -> SUBSET S] /\ \A j, k \in S : j \in P[k] <=> j < k
    OBVIOUS
  <2>2. \A j, k \in S : j < k => P[j] \subseteq P[k]
    <3>1. \A i, j, k \in S : i < j /\ j < k => i < k
      OBVIOUS
    <3> QED BY <3>1
  <2> HIDE DEF P
  <2>3. \A j, k \in S : (j # k => j < k \/ k < j) /\ ~(k < k)
    OBVIOUS
  <2> QED BY <2>1, <2>2, <2>3 DEF Orders
<1>3. \A k \in S : P[k] = {j \in S : j < k}
  OBVIOUS
<1> HIDE DEF P
<1>4. /\ \A k \in S : Cardinality(P[k]) \in 0..c - 1
      /\ \A j, k \in S : Cardinality(P[j]) = Cardinality(P[k]) => j = k
      /\ \A i \in 0..c - 1 : \E k \in S : Cardinality(P[k]) = i
  <2>1. \A k \in S : Cardinality(P[k]) \in 0..c - 1
    BY <1>2, RanksNumber
  <2>2. \A j, k \in S : Cardinality(P[j]) = Cardinality(P[k]) => j = k
    BY <1>2, RanksNumber
  <2>3. \A i \in Nat : i < c => \E k : k \in S /\ Cardinality(P[k]) = i
    BY <1>2, RanksReach
  <2>4. \A i \in 0..c - 1 : i \in Nat /\ i < c
    BY <1>1
  <2> QED BY <2>1, <2>2, <2>3, <2>4
<1>5. ASSUME NEW n \in 1..c PROVE Nth(S, n) \in S /\ Cardinality(P[Nth(S, n)]) = n - 1
  <2>1. n - 1 \in 0..c - 1
    BY <1>1
  <2>2. \E k \in S : Cardinality({j \in S : j < k}) = n - 1
    BY <1>3, <1>4, <2>1
  <2>3. Nth(S, n) \in S /\ Cardinality({j \in S : j < Nth(S, n)}) = n - 1
    BY <2>2 DEF Nth
  <2> QED BY <1>3, <2>3
<1>6. ASSUME NEW n \in 1..c, NEW m \in 1..c, Nth(S, n) = Nth(S, m) PROVE n = m
  <2>1. n - 1 = m - 1
    BY <1>5, <1>6
  <2> QED BY <2>1
<1>7. ASSUME NEW i \in S PROVE \E n \in 1..c : Nth(S, n) = i
  <2>1. Cardinality(P[i]) + 1 \in 1..c /\ (Cardinality(P[i]) + 1) - 1 = Cardinality(P[i])
    BY <1>1, <1>4
  <2>2. Cardinality(P[Nth(S, Cardinality(P[i]) + 1)]) = Cardinality(P[i])
        /\ Nth(S, Cardinality(P[i]) + 1) \in S
    BY <1>5, <2>1
  <2>3. Nth(S, Cardinality(P[i]) + 1) = i
    BY <1>4, <2>2
  <2> QED BY <2>1, <2>3
<1> QED BY <1>1, <1>5, <1>6, <1>7

\* A table that is trimmed has the keys to keep, each as often as before.
LEMMA RemainingWell ==
    ASSUME NEW seq \in Seq(Key), Distinct(seq), NEW chosen, IsFiniteSet(chosen)
    PROVE  /\ Remaining(seq, chosen) \in Seq(Key) /\ Distinct(Remaining(seq, chosen))
           /\ KeysIn(Remaining(seq, chosen)) = KeysIn(seq) \cap chosen
           /\ Len(Remaining(seq, chosen)) <= Cardinality(chosen)
<1> DEFINE kept == {i \in 1..Len(seq) : seq[i] \in chosen}
           c == Cardinality(kept)
           out == [n \in 1..c |-> seq[Nth(kept, n)]]
           entry == [i \in kept |-> seq[i]]
<1>1. kept \in SUBSET Nat /\ kept \subseteq 1..Len(seq) /\ \A i : i \in kept <=> i \in 1..Len(seq) /\ seq[i] \in chosen
  OBVIOUS
<1>2. entry \in Injection(kept, chosen)
  BY DEF Injection, IsInjective, Distinct
<1>3. IsFiniteSet(kept) /\ c <= Cardinality(chosen)
  BY <1>2, FS_Injection
<1>4. Remaining(seq, chosen) = out
  BY DEF Remaining
<1>5. \A i \in 1..Len(seq) : seq[i] \in Key
  OBVIOUS
<1> HIDE DEF kept, entry
<1>6. /\ c \in Nat
      /\ \A n \in 1..c : Nth(kept, n) \in kept
      /\ \A n, m \in 1..c : Nth(kept, n) = Nth(kept, m) => n = m
      /\ \A i \in kept : \E n \in 1..c : Nth(kept, n) = i
  BY <1>1, <1>3, NthNumbers
<1>7. \A n \in 1..c : out[n] \in Key /\ out[n] = seq[Nth(kept, n)]
  BY <1>1, <1>5, <1>6
<1>8. out \in Seq(Key) /\ Len(out) = c
  BY <1>6, <1>7
<1> HIDE DEF out, c
<1>9. Distinct(out)
  <2> SUFFICES ASSUME NEW n \in 1..c, NEW m \in 1..c, out[n] = out[m] PROVE n = m
    BY <1>8 DEF Distinct
  <2>1. Nth(kept, n) = Nth(kept, m)
    BY <1>1, <1>6, <1>7 DEF Distinct
  <2> QED BY <1>6, <2>1
<1>10. KeysIn(out) = KeysIn(seq) \cap chosen
  <2>1. ASSUME NEW n \in 1..c PROVE out[n] \in KeysIn(seq) /\ out[n] \in chosen
    BY <1>1, <1>6, <1>7 DEF KeysIn
  <2>2. ASSUME NEW i \in 1..Len(seq), seq[i] \in chosen PROVE \E n \in 1..c : out[n] = seq[i]
    BY <1>1, <1>6, <1>7, <2>2
  <2> QED BY <1>8, <2>1, <2>2, SMTT(20) DEF KeysIn
<1> QED BY <1>3, <1>4, <1>8, <1>9, <1>10 DEF c

Ops == {"idle", "cache", "insert", "trim rows", "trim cache", "clear"}

Job == [op : Ops, key : 0..MaxPushes, had : SUBSET Key]

\* Key k was not in the table, rs, nor anywhere that has keys of the table.
Unseen(k, rs, ps, cl, jb) ==
    k \notin KeysIn(rs) /\ k \notin ps /\ k \notin cl /\ \A x \in Workers : k \notin jb[x].had

\* The keys that are on their way are new, and each of another thread.
PendingWell(jb, c, rs, ps, cl) ==
    \A w \in Workers : jb[w].op \in {"cache", "insert"} =>
        /\ jb[w].key \in 1..c
        /\ Unseen(jb[w].key, rs, ps, cl, jb)
        /\ \A x \in Workers : x # w /\ jb[x].op \in {"cache", "insert"} => jb[x].key # jb[w].key

\* The shape of the lists: a key that is not yet in the table is new, and what was
\* cleared is not there.
RuntimeShape ==
    /\ cache \subseteq Key /\ rows \in Seq(Key) /\ Distinct(rows) /\ counter \in 0..MaxPushes
    /\ loaded \in BOOLEAN /\ disturbed \in BOOLEAN /\ restarts \in Nat
    /\ pushed \subseteq Key /\ cleared \subseteq Key
    /\ job \in [Workers -> Job] /\ \A w \in Workers : job[w].op = "idle" => job[w] = Idle
    /\ \A k \in Key : k > counter => Unseen(k, rows, pushed, cleared, job)
    /\ PendingWell(job, counter, rows, pushed, cleared)
    /\ ~loaded => cache = {} /\ \A w \in Workers : job[w].op \in {"idle", "cache"}
    /\ KeysIn(rows) \cap cleared = {}

LEMMA OpMoves ==
    ASSUME NEW jb \in [Workers -> Job], NEW w \in Workers, NEW o \in Ops, NEW new, new = [jb EXCEPT ![w].op = o]
    PROVE  /\ new \in [Workers -> Job] /\ new[w].op = o /\ new[w].key = jb[w].key /\ new[w].had = jb[w].had
           /\ \A x \in Workers : x # w => new[x] = jb[x]
<1>1. \A j \in Job : LET r == [j EXCEPT !.op = o] IN r \in Job /\ r.op = o /\ r.key = j.key /\ r.had = j.had
  BY DEF Job
<1>2. new = [jb EXCEPT ![w] = [jb[w] EXCEPT !.op = o]]
  OBVIOUS
<1>3. jb[w] \in Job
  OBVIOUS
<1>4. new[w] = [jb[w] EXCEPT !.op = o] /\ \A x \in Workers : x # w => new[x] = jb[x]
  BY <1>2
<1>5. new[w] \in Job /\ new[w].op = o /\ new[w].key = jb[w].key /\ new[w].had = jb[w].had
  BY <1>1, <1>3, <1>4
<1>6. new \in [Workers -> Job]
  BY <1>2, <1>4, <1>5
<1> QED BY <1>4, <1>5, <1>6

LEMMA JobMoves ==
    ASSUME NEW w \in Workers, job \in [Workers -> Job]
    PROVE  \A o \in Ops : job' = [job EXCEPT ![w].op = o] =>
               /\ job' \in [Workers -> Job] /\ job'[w].op = o
               /\ job'[w].key = job[w].key /\ job'[w].had = job[w].had
               /\ \A x \in Workers : x # w => job'[x] = job[x]
<1> SUFFICES ASSUME NEW o \in Ops, job' = [job EXCEPT ![w].op = o]
             PROVE  /\ job' \in [Workers -> Job] /\ job'[w].op = o
                    /\ job'[w].key = job[w].key /\ job'[w].had = job[w].had
                    /\ \A x \in Workers : x # w => job'[x] = job[x]
  OBVIOUS
<1> QED BY OpMoves

LEMMA JobStarts ==
    ASSUME NEW jb \in [Workers -> Job], NEW w \in Workers, NEW r \in Job, NEW new, new = [jb EXCEPT ![w] = r]
    PROVE  /\ new \in [Workers -> Job] /\ new[w] = r
           /\ \A x \in Workers : x # w => new[x] = jb[x]
OBVIOUS

LEMMA IdleIsJob == Idle \in Job /\ Idle.op = "idle" /\ Idle.key = 0 /\ Idle.had = {}
BY RuntimeAssumption DEF Idle, Job, Ops

LEMMA AppendedKeys ==
    ASSUME NEW seq \in Seq(Key), Distinct(seq), NEW k \in Key, k \notin KeysIn(seq)
    PROVE  /\ Append(seq, k) \in Seq(Key) /\ Distinct(Append(seq, k))
           /\ KeysIn(Append(seq, k)) = KeysIn(seq) \cup {k} /\ Len(Append(seq, k)) = Len(seq) + 1
<1> DEFINE new == Append(seq, k)
           n == Len(seq)
<1>1. new \in Seq(Key) /\ n \in Nat /\ Len(new) = n + 1 /\ new[n + 1] = k /\ \A i \in 1..n : new[i] = seq[i]
  OBVIOUS
<1> HIDE DEF new
<1>2. \A i \in 1..n + 1 : i = n + 1 \/ i \in 1..n
  BY <1>1
<1>3. \A i \in 1..n : i \in 1..n + 1 /\ n + 1 \in 1..n + 1
  BY <1>1
<1>4. Distinct(new)
  <2> SUFFICES ASSUME NEW i \in 1..n + 1, NEW j \in 1..n + 1, new[i] = new[j] PROVE i = j
    BY <1>1 DEF Distinct
  <2> QED BY <1>1, <1>2 DEF Distinct, KeysIn
<1>5. KeysIn(new) = KeysIn(seq) \cup {k}
  BY <1>1, <1>2, <1>3 DEF KeysIn
<1> QED BY <1>1, <1>4, <1>5 DEF new

LEMMA LatestAreRows == LatestRows \subseteq Rows /\ Rows = KeysIn(rows)
BY DEF LatestRows, Rows, KeysIn

LEMMA KeysAreFinite ==
    /\ IsFiniteSet(Key) /\ Key \subseteq Nat
    /\ \A S \in SUBSET Key : IsFiniteSet(S) /\ S \in SUBSET Nat /\ Cardinality(S) \in Nat
    /\ \A seq \in Seq(Key) : KeysIn(seq) \subseteq Key /\ IsFiniteSet(NewestKeys(KeysIn(seq)))
<1>1. IsFiniteSet(Key) /\ Key \subseteq Nat
  BY RuntimeAssumption, FS_Interval DEF Key
<1>2. \A S \in SUBSET Key : IsFiniteSet(S) /\ S \in SUBSET Nat /\ Cardinality(S) \in Nat
  BY <1>1, FS_Subset, FS_CardinalityType
<1>3. \A seq \in Seq(Key) : KeysIn(seq) \subseteq Key
  BY DEF KeysIn
<1>4. \A S \in SUBSET Key : NewestKeys(S) \in SUBSET Key
  BY DEF NewestKeys
<1> QED BY <1>1, <1>2, <1>3, <1>4

LEMMA BeginPushShape == ASSUME RuntimeShape, NEW w \in Workers, BeginPush(w) PROVE RuntimeShape'
<1> DEFINE r == [op |-> "cache", key |-> counter + 1, had |-> {}]
<1>1. /\ counter' = counter + 1 /\ counter < MaxPushes /\ job' = [job EXCEPT ![w] = r]
      /\ UNCHANGED <<cache, loaded, rows, pushed, cleared, restarts>> /\ disturbed' \in BOOLEAN
  BY DEF BeginPush, RuntimeShape
<1>2. counter \in 0..MaxPushes /\ MaxPushes \in Nat
  BY RuntimeAssumption DEF RuntimeShape
<1>3. counter + 1 \in Key /\ counter + 1 \in 0..MaxPushes /\ counter + 1 > counter
  BY <1>1, <1>2 DEF Key
<1>4. r \in Job /\ r.op = "cache" /\ r.key = counter + 1 /\ r.had = {}
  BY <1>3 DEF Job, Ops
<1> HIDE DEF r
<1>5. /\ job' \in [Workers -> Job] /\ job'[w] = r
      /\ \A x \in Workers : x # w => job'[x] = job[x]
  BY <1>1, <1>4, JobStarts DEF RuntimeShape
<1>6. \A k : Unseen(k, rows, pushed, cleared, job) => Unseen(k, rows, pushed, cleared, job')
  BY <1>4, <1>5 DEF Unseen
<1>7. \A k \in Key : k > counter' => k > counter
  BY <1>1, <1>2 DEF Key
<1>8. ASSUME NEW x \in Workers, job'[x].op \in {"cache", "insert"}
      PROVE  /\ job'[x].key \in 1..counter'
             /\ Unseen(job'[x].key, rows, pushed, cleared, job')
             /\ \A y \in Workers : y # x /\ job'[y].op \in {"cache", "insert"} => job'[y].key # job'[x].key
  <2>1. \A y \in Workers \ {w} : job[y].op \in {"cache", "insert"} => job[y].key \in 1..counter
    BY DEF RuntimeShape, PendingWell
  <2>2. \A k \in 1..counter : k \in 1..counter' /\ k # counter + 1
    BY <1>1, <1>2
  <2>3. CASE x = w
    <3>1. job'[x].key = counter + 1 /\ counter + 1 \in 1..counter'
      BY <1>1, <1>2, <1>4, <1>5, <2>3
    <3>2. Unseen(counter + 1, rows, pushed, cleared, job')
      BY <1>3, <1>6 DEF RuntimeShape
    <3> QED BY <1>5, <2>1, <2>2, <2>3, <3>1, <3>2
  <2>4. CASE x # w
    BY <1>4, <1>5, <1>6, <1>8, <2>1, <2>2, <2>4 DEF RuntimeShape, PendingWell
  <2> QED BY <2>3, <2>4
<1>9. \A x \in Workers : job'[x].op = "idle" => job'[x] = Idle
  BY <1>4, <1>5 DEF RuntimeShape
<1>10. ~loaded => cache = {} /\ \A x \in Workers : job'[x].op \in {"idle", "cache"}
  BY <1>4, <1>5 DEF RuntimeShape
<1>11. \A k \in Key : k > counter' => Unseen(k, rows, pushed, cleared, job')
  BY <1>6, <1>7 DEF RuntimeShape
<1>12. counter' \in 0..MaxPushes
  BY <1>1, <1>3
<1> QED BY <1>1, <1>5, <1>8, <1>9, <1>10, <1>11, <1>12 DEF RuntimeShape, PendingWell

\* A step that only takes keys off their way leaves the others new.
LEMMA PendingKept ==
    ASSUME NEW jb, NEW c, NEW rs, NEW ps, NEW cl, PendingWell(jb, c, rs, ps, cl),
           NEW kb, NEW qs, NEW qp, NEW ql,
           \A x \in Workers : kb[x].op \in {"cache", "insert"} =>
               /\ jb[x].op \in {"cache", "insert"} /\ kb[x].key = jb[x].key
               /\ Unseen(jb[x].key, rs, ps, cl, jb) => Unseen(jb[x].key, qs, qp, ql, kb)
    PROVE  PendingWell(kb, c, qs, qp, ql)
BY DEF PendingWell

LEMMA PendingKeys ==
    ASSUME RuntimeShape, NEW w \in Workers, job[w].op \in {"cache", "insert"}
    PROVE  /\ job[w].key \in 1..counter /\ job[w].key \in Key
           /\ Unseen(job[w].key, rows, pushed, cleared, job)
<1>1. job[w].key \in 1..counter /\ Unseen(job[w].key, rows, pushed, cleared, job)
  BY DEF RuntimeShape, PendingWell
<1>2. counter \in 0..MaxPushes /\ MaxPushes \in Nat
  BY RuntimeAssumption DEF RuntimeShape
<1>3. \A k \in 1..counter : k \in 1..MaxPushes
  BY <1>2
<1> QED BY <1>1, <1>3 DEF Key

LEMMA CachePushShape == ASSUME RuntimeShape, NEW w \in Workers, CachePush(w) PROVE RuntimeShape'
<1>1. /\ job[w].op = "cache" /\ job' = [job EXCEPT ![w].op = "insert"]
      /\ cache' = Loaded \cup {job[w].key} /\ loaded' = TRUE
      /\ UNCHANGED <<rows, counter, pushed, cleared, disturbed, restarts>>
  BY DEF CachePush, Cached
<1>2. /\ job' \in [Workers -> Job] /\ job'[w].op = "insert" /\ job'[w].key = job[w].key /\ job'[w].had = job[w].had
      /\ \A x \in Workers : x # w => job'[x] = job[x]
  <2>1. job \in [Workers -> Job] /\ "insert" \in Ops /\ "trim rows" \in Ops /\ "trim cache" \in Ops
    BY DEF RuntimeShape, Ops
  <2> QED BY <1>1, <2>1, JobMoves
<1>3. \A k : Unseen(k, rows, pushed, cleared, job) => Unseen(k, rows, pushed, cleared, job')
  BY <1>2 DEF Unseen
<1>4. PendingWell(job', counter, rows, pushed, cleared)
  <2>1. \A x \in Workers : job'[x].op \in {"cache", "insert"} =>
            /\ job[x].op \in {"cache", "insert"} /\ job'[x].key = job[x].key
            /\ Unseen(job[x].key, rows, pushed, cleared, job) => Unseen(job[x].key, rows, pushed, cleared, job')
    BY <1>1, <1>2, <1>3
  <2> QED BY <2>1, PendingKept DEF RuntimeShape
<1>5. cache' \subseteq Key
  <2>1. KeysIn(rows) \subseteq Key
    BY DEF RuntimeShape, KeysIn
  <2>2. job[w].key \in Key
    BY <1>1, PendingKeys
  <2> QED BY <1>1, <2>1, <2>2, LatestAreRows DEF RuntimeShape, Loaded
<1>6. \A x \in Workers : job'[x].op = "idle" => job'[x] = Idle
  BY <1>2 DEF RuntimeShape
<1> QED BY <1>1, <1>2, <1>3, <1>4, <1>5, <1>6 DEF RuntimeShape

LEMMA InsertRowShape == ASSUME RuntimeShape, NEW w \in Workers, InsertRow(w) PROVE RuntimeShape'
<1> DEFINE k == job[w].key
<1>1. /\ job[w].op = "insert" /\ job' = [job EXCEPT ![w].op = "trim rows"]
      /\ rows' = Append(rows, k) /\ pushed' = pushed \cup {k}
      /\ UNCHANGED <<cache, loaded, counter, cleared, disturbed, restarts>>
  BY DEF InsertRow
<1>2. /\ job' \in [Workers -> Job] /\ job'[w].op = "trim rows" /\ job'[w].key = k /\ job'[w].had = job[w].had
      /\ \A x \in Workers : x # w => job'[x] = job[x]
  <2>1. job \in [Workers -> Job] /\ "insert" \in Ops /\ "trim rows" \in Ops /\ "trim cache" \in Ops
    BY DEF RuntimeShape, Ops
  <2> QED BY <1>1, <2>1, JobMoves
<1>3. k \in 1..counter /\ k \in Key /\ Unseen(k, rows, pushed, cleared, job)
  BY <1>1, PendingKeys
<1>4. /\ rows' \in Seq(Key) /\ Distinct(rows') /\ KeysIn(rows') = KeysIn(rows) \cup {k}
  BY <1>1, <1>3, AppendedKeys DEF RuntimeShape, Unseen
<1>5. \A j : j # k /\ Unseen(j, rows, pushed, cleared, job) => Unseen(j, rows', pushed', cleared, job')
  BY <1>1, <1>2, <1>4 DEF Unseen
<1>6. \A x \in Workers : job'[x].op \in {"cache", "insert"} =>
          x # w /\ job'[x] = job[x] /\ job[x].key # k
  BY <1>1, <1>2 DEF RuntimeShape, PendingWell
<1>7. PendingWell(job', counter, rows', pushed', cleared)
  BY <1>5, <1>6, PendingKept DEF RuntimeShape
<1>8. \A x \in Workers : job'[x].op = "idle" => job'[x] = Idle
  BY <1>2 DEF RuntimeShape
<1>9. \A j \in Key : j > counter => Unseen(j, rows', pushed', cleared, job')
  <2>1. \A j \in Key : j > counter => j # k
    BY <1>3 DEF RuntimeShape, Key
  <2> QED BY <1>5, <2>1 DEF RuntimeShape
<1>10. loaded
  BY <1>1 DEF RuntimeShape
<1>11. KeysIn(rows') \cap cleared = {} /\ pushed' \subseteq Key
  BY <1>1, <1>3, <1>4 DEF RuntimeShape, Unseen
<1> QED BY <1>1, <1>2, <1>4, <1>7, <1>8, <1>9, <1>10, <1>11 DEF RuntimeShape

LEMMA InsertFailsShape == ASSUME RuntimeShape, NEW w \in Workers, InsertFails(w) PROVE RuntimeShape'
<1>1. /\ job[w].op = "insert" /\ job' = [job EXCEPT ![w] = Idle] /\ disturbed' = TRUE
      /\ UNCHANGED <<cache, loaded, rows, counter, pushed, cleared, restarts>>
  BY DEF InsertFails
<1>2. /\ job' \in [Workers -> Job] /\ job'[w] = Idle /\ \A x \in Workers : x # w => job'[x] = job[x]
  BY <1>1, IdleIsJob, JobStarts DEF RuntimeShape
<1>3. \A k : Unseen(k, rows, pushed, cleared, job) => Unseen(k, rows, pushed, cleared, job')
  BY <1>2, IdleIsJob DEF Unseen
<1>4. PendingWell(job', counter, rows, pushed, cleared)
  BY <1>2, <1>3, IdleIsJob, PendingKept DEF RuntimeShape
<1>5. loaded
  BY <1>1 DEF RuntimeShape
<1>6. \A x \in Workers : job'[x].op = "idle" => job'[x] = Idle
  BY <1>2 DEF RuntimeShape
<1> QED BY <1>1, <1>2, <1>3, <1>4, <1>5, <1>6 DEF RuntimeShape

LEMMA TrimRowsShape == ASSUME RuntimeShape, NEW w \in Workers, TrimRows(w) PROVE RuntimeShape'
<1>1. /\ job[w].op = "trim rows" /\ job' = [job EXCEPT ![w].op = "trim cache"]
      /\ rows' = Remaining(rows, NewestKeys(KeysIn(rows)))
      /\ UNCHANGED <<cache, loaded, counter, pushed, cleared, disturbed, restarts>>
  BY LatestAreRows DEF TrimRows, Trimmed
<1>2. /\ job' \in [Workers -> Job] /\ job'[w].op = "trim cache" /\ job'[w].had = job[w].had
      /\ \A x \in Workers : x # w => job'[x] = job[x]
  <2>1. job \in [Workers -> Job] /\ "insert" \in Ops /\ "trim rows" \in Ops /\ "trim cache" \in Ops
    BY DEF RuntimeShape, Ops
  <2> QED BY <1>1, <2>1, JobMoves
<1>3. rows' \in Seq(Key) /\ Distinct(rows') /\ KeysIn(rows') \subseteq KeysIn(rows)
  BY <1>1, KeysAreFinite, RemainingWell DEF RuntimeShape
<1>4. \A k : Unseen(k, rows, pushed, cleared, job) => Unseen(k, rows', pushed, cleared, job')
  BY <1>2, <1>3 DEF Unseen
<1>5. PendingWell(job', counter, rows', pushed, cleared)
  BY <1>2, <1>4, PendingKept, ZenonT(30) DEF RuntimeShape
<1>6. loaded
  BY <1>1 DEF RuntimeShape
<1>7. \A x \in Workers : job'[x].op = "idle" => job'[x] = Idle
  BY <1>2 DEF RuntimeShape
<1>8. KeysIn(rows') \cap cleared = {}
  BY <1>3 DEF RuntimeShape
<1> QED BY <1>1, <1>2, <1>3, <1>4, <1>5, <1>6, <1>7, <1>8 DEF RuntimeShape

LEMMA TrimCacheShape == ASSUME RuntimeShape, NEW w \in Workers, TrimCache(w) PROVE RuntimeShape'
<1>1. /\ job[w].op = "trim cache" /\ job' = [job EXCEPT ![w] = Idle] /\ cache' \subseteq cache
      /\ UNCHANGED <<loaded, rows, counter, pushed, cleared, disturbed, restarts>>
  BY DEF TrimCache, Trimmed, NewestKeys
<1>2. /\ job' \in [Workers -> Job] /\ job'[w] = Idle /\ \A x \in Workers : x # w => job'[x] = job[x]
  BY <1>1, IdleIsJob, JobStarts DEF RuntimeShape
<1>3. \A k : Unseen(k, rows, pushed, cleared, job) => Unseen(k, rows, pushed, cleared, job')
  BY <1>2, IdleIsJob DEF Unseen
<1>4. PendingWell(job', counter, rows, pushed, cleared)
  BY <1>2, <1>3, IdleIsJob, PendingKept DEF RuntimeShape
<1>5. loaded
  BY <1>1 DEF RuntimeShape
<1>6. \A x \in Workers : job'[x].op = "idle" => job'[x] = Idle
  BY <1>2 DEF RuntimeShape
<1> QED BY <1>1, <1>2, <1>3, <1>4, <1>5, <1>6 DEF RuntimeShape

LEMMA BeginClearShape == ASSUME RuntimeShape, NEW w \in Workers, BeginClear(w) PROVE RuntimeShape'
<1> DEFINE r == [op |-> "clear", key |-> 0, had |-> KeysIn(rows)]
<1>1. /\ job' = [job EXCEPT ![w] = r] /\ cache' = {} /\ loaded' = TRUE /\ disturbed' \in BOOLEAN
      /\ UNCHANGED <<rows, counter, pushed, cleared, restarts>>
  BY LatestAreRows DEF BeginClear, ClearLoaded, RuntimeShape
<1>2. r \in Job /\ r.op = "clear" /\ r.had = KeysIn(rows)
  <2>1. 0 \in 0..MaxPushes /\ KeysIn(rows) \in SUBSET Key /\ "clear" \in Ops
    BY RuntimeAssumption DEF Ops, RuntimeShape, KeysIn
  <2> QED BY <2>1 DEF Job
<1> HIDE DEF r
<1>3. /\ job' \in [Workers -> Job] /\ job'[w] = r /\ \A x \in Workers : x # w => job'[x] = job[x]
  BY <1>1, <1>2, JobStarts DEF RuntimeShape
<1>4. \A k : Unseen(k, rows, pushed, cleared, job) => Unseen(k, rows, pushed, cleared, job')
  BY <1>2, <1>3 DEF Unseen
<1>5. PendingWell(job', counter, rows, pushed, cleared)
  BY <1>2, <1>3, <1>4, PendingKept DEF RuntimeShape
<1>6. \A x \in Workers : job'[x].op = "idle" => job'[x] = Idle
  BY <1>2, <1>3 DEF RuntimeShape
<1> QED BY <1>1, <1>3, <1>4, <1>5, <1>6 DEF RuntimeShape

LEMMA ClearRowsShape == ASSUME RuntimeShape, NEW w \in Workers, ClearRows(w) PROVE RuntimeShape'
<1>1. /\ job[w].op = "clear" /\ job' = [job EXCEPT ![w] = Idle] /\ rows' = << >> /\ pushed' = {}
      /\ cleared' = cleared \cup job[w].had
      /\ UNCHANGED <<cache, loaded, counter, disturbed, restarts>>
  BY DEF ClearRows
<1>2. /\ job' \in [Workers -> Job] /\ job'[w] = Idle /\ \A x \in Workers : x # w => job'[x] = job[x]
  BY <1>1, IdleIsJob, JobStarts DEF RuntimeShape
<1>3. << >> \in Seq(Key) /\ Distinct(<< >>) /\ KeysIn(<< >>) = {}
  BY DEF Distinct, KeysIn
<1>4. \A k : Unseen(k, rows, pushed, cleared, job) => Unseen(k, rows', pushed', cleared', job')
  BY <1>1, <1>2, <1>3, IdleIsJob DEF Unseen
<1>5. PendingWell(job', counter, rows', pushed', cleared')
  BY <1>2, <1>4, IdleIsJob, PendingKept DEF RuntimeShape
<1>6. loaded
  BY <1>1 DEF RuntimeShape
<1>7. \A x \in Workers : job'[x].op = "idle" => job'[x] = Idle
  BY <1>2 DEF RuntimeShape
<1>8. job[w].had \subseteq Key
  BY DEF RuntimeShape, Job
<1> QED BY <1>1, <1>2, <1>3, <1>4, <1>5, <1>6, <1>7, <1>8 DEF RuntimeShape

LEMMA ReadListShape == ASSUME RuntimeShape, ReadList PROVE RuntimeShape'
<1>1. KeysIn(rows) \subseteq Key
  BY DEF RuntimeShape, KeysIn
<1>2. cache' = Loaded /\ loaded' = TRUE /\ UNCHANGED <<rows, counter, job, pushed, cleared, disturbed, restarts>>
  BY DEF ReadList
<1>3. cache' \subseteq Key
  BY <1>1, <1>2, LatestAreRows DEF Loaded, RuntimeShape
<1> QED BY <1>2, <1>3 DEF RuntimeShape

LEMMA RestartShape == ASSUME RuntimeShape, RestartState PROVE RuntimeShape'
<1>1. /\ cache' = {} /\ loaded' = FALSE /\ job' = [w \in Workers |-> Idle]
      /\ disturbed' \in BOOLEAN /\ restarts' = restarts + 1
      /\ pushed' = KeysIn(rows) \/ pushed' = pushed
      /\ UNCHANGED <<rows, counter, cleared>>
  BY LatestAreRows DEF RestartState
<1>2. /\ job' \in [Workers -> Job] /\ \A w \in Workers : job'[w] = Idle
  BY <1>1, IdleIsJob
<1>3. \A k : Unseen(k, rows, pushed, cleared, job) => Unseen(k, rows, pushed', cleared, job')
  BY <1>1, <1>2, IdleIsJob DEF Unseen
<1>4. PendingWell(job', counter, rows, pushed', cleared)
  BY <1>2, IdleIsJob DEF PendingWell
<1>5. pushed' \subseteq Key /\ restarts' \in Nat
  BY <1>1 DEF RuntimeShape, KeysIn
<1> QED BY <1>1, <1>2, <1>3, <1>4, <1>5, IdleIsJob DEF RuntimeShape

LEMMA ShapeKept == ASSUME RuntimeShape, [RuntimeNext]_runtimeVars PROVE RuntimeShape'
<1>1. CASE UNCHANGED runtimeVars
  BY <1>1 DEF runtimeVars, RuntimeShape
<1> QED BY <1>1, BeginPushShape, CachePushShape, InsertRowShape, InsertFailsShape, TrimRowsShape,
           TrimCacheShape, BeginClearShape, ClearRowsShape, ReadListShape, RestartShape DEF RuntimeNext

At(jb, ops) == {w \in Workers : jb[w].op \in ops}

Inserting(jb) == {jb[w].key : w \in At(jb, {"insert"})}

\* A clear is at work alone, or the list counts as disturbed.
ClearsAlone ==
    \A w \in Workers : job[w].op = "clear" =>
        cache = {} /\ loaded /\ \A x \in Workers : x # w => job[x] = Idle

\* An undisturbed list shows the newest of the keys that were pushed and of those
\* that have reached the cache but not the table.
CacheShows ==
    loaded /\ At(job, {"clear"}) = {} => NewestKeys(cache) = NewestKeys(pushed \cup Inserting(job))

CacheBounded ==
    loaded => Cardinality(cache) <= MaxItems + Cardinality(At(job, {"insert", "trim rows", "trim cache"}))

Undisturbed ==
    /\ cache \cap cleared = {}
    /\ ClearsAlone
    /\ ~loaded => LatestRows = NewestKeys(Rows)
    /\ NewestKeys(Rows) = NewestKeys(pushed)
    /\ CacheShows
    /\ CacheBounded

AfterRestarts(n) == n * Cardinality(Workers)

RowsBounded ==
    Len(rows) <= MaxItems + AfterRestarts(restarts) + Cardinality(At(job, {"trim rows"}))

LEMMA WorkersCounted ==
    /\ \A S, T \in SUBSET Workers : S \subseteq T =>
          /\ Cardinality(S) \in Nat /\ Cardinality(T) \in Nat /\ Cardinality(Workers) \in Nat
          /\ Cardinality(S) <= Cardinality(T) /\ Cardinality(T) <= Cardinality(Workers)
    /\ \A w : \A S, T \in SUBSET Workers : S \cup {w} \subseteq T /\ w \notin S => Cardinality(S) + 1 <= Cardinality(T)
<1>1. ASSUME NEW S \in SUBSET Workers, NEW T \in SUBSET Workers, S \subseteq T
      PROVE  /\ Cardinality(S) \in Nat /\ Cardinality(T) \in Nat /\ Cardinality(Workers) \in Nat
             /\ Cardinality(S) <= Cardinality(T) /\ Cardinality(T) <= Cardinality(Workers)
  BY <1>1, RuntimeAssumption, FS_Subset, FS_CardinalityType
<1>2. ASSUME NEW S \in SUBSET Workers, NEW T \in SUBSET Workers, NEW w, S \cup {w} \subseteq T, w \notin S
      PROVE  Cardinality(S) + 1 <= Cardinality(T)
  <2>1. IsFiniteSet(S) /\ IsFiniteSet(T)
    BY RuntimeAssumption, FS_Subset
  <2>2. Cardinality(S \cup {w}) = Cardinality(S) + 1
    BY <1>2, <2>1, FS_AddElement
  <2>3. Cardinality(S \cup {w}) <= Cardinality(T)
    BY <1>2, <2>1, FS_Subset
  <2> QED BY <2>2, <2>3
<1> QED BY <1>1, <1>2

LEMMA RestartsCounted ==
    \A n \in Nat : /\ AfterRestarts(n) \in Nat
                   /\ AfterRestarts(n + 1) = AfterRestarts(n) + Cardinality(Workers)
<1>1. Cardinality(Workers) \in Nat
  BY RuntimeAssumption, FS_CardinalityType
<1>2. \A n, c \in Nat : n * c \in Nat /\ (n + 1) * c = n * c + c
  OBVIOUS
<1> QED BY <1>1, <1>2 DEF AfterRestarts

\* The number of rows grows with the pushes under way, and is trimmed.
LEMMA RowsBoundedKept == ASSUME RuntimeShape, RowsBounded, [RuntimeNext]_runtimeVars PROVE RowsBounded'
<1> DEFINE T == At(job, {"trim rows"})
           A == AfterRestarts(restarts)
<1>1. /\ MaxItems \in Nat /\ restarts \in Nat /\ A \in Nat /\ Len(rows) \in Nat
      /\ T \in SUBSET Workers /\ T' \in SUBSET Workers
  <2>1. MaxItems \in Nat /\ restarts \in Nat /\ rows \in Seq(Key)
    BY RuntimeAssumption DEF RuntimeShape
  <2>2. A \in Nat
    BY <2>1, RestartsCounted
  <2>3. T \in SUBSET Workers /\ T' \in SUBSET Workers
    BY DEF At
  <2>4. \A s \in Seq(Key) : Len(s) \in Nat
    OBVIOUS
  <2> QED BY <2>1, <2>2, <2>3, <2>4
<1>2. Cardinality(T) \in Nat /\ Cardinality(T') \in Nat /\ Cardinality(T) <= Cardinality(Workers)
      /\ Cardinality(Workers) \in Nat
  BY <1>1, WorkersCounted
<1>3. Len(rows) <= MaxItems + A + Cardinality(T)
  BY DEF RowsBounded
<1>4. RowsBounded' <=> Len(rows') <= MaxItems + A' + Cardinality(T')
  BY DEF RowsBounded
<1>5. ASSUME rows' = rows, restarts' = restarts, T \subseteq T' PROVE RowsBounded'
  <2>1. Cardinality(T) <= Cardinality(T')
    BY <1>1, <1>5, WorkersCounted
  <2>2. A' = A
    BY <1>5
  <2> HIDE DEF A, T
  <2>3. Len(rows') <= MaxItems + A' + Cardinality(T')
    BY <1>1, <1>2, <1>3, <1>5, <2>1, <2>2
  <2> QED BY <1>4, <2>3
<1>6. CASE UNCHANGED runtimeVars
  BY <1>5, <1>6 DEF runtimeVars
<1>7. CASE ReadList
  BY <1>5, <1>7 DEF ReadList
<1>8. ASSUME NEW w \in Workers, job[w].op # "trim rows", rows' = rows, restarts' = restarts,
             \A x \in Workers : x # w => job'[x] = job[x]
      PROVE  RowsBounded'
  BY <1>5, <1>8 DEF At
<1>9. ASSUME NEW w \in Workers, BeginPush(w) \/ CachePush(w) \/ InsertFails(w) \/ TrimCache(w) \/ BeginClear(w)
      PROVE  RowsBounded'
  <2>1. rows' = rows /\ restarts' = restarts
    BY <1>9 DEF BeginPush, CachePush, InsertFails, TrimCache, BeginClear
  <2>2. job[w].op # "trim rows"
    BY <1>9, IdleIsJob DEF BeginPush, CachePush, InsertFails, TrimCache, BeginClear, Busy
  <2>3. \A x \in Workers : x # w => job'[x] = job[x]
    BY <1>9 DEF BeginPush, CachePush, InsertFails, TrimCache, BeginClear, RuntimeShape
  <2> QED BY <1>8, <2>1, <2>2, <2>3
<1>10. ASSUME NEW w \in Workers, InsertRow(w) PROVE RowsBounded'
  <2>1. /\ job[w].op = "insert" /\ rows' = Append(rows, job[w].key) /\ restarts' = restarts
        /\ job' = [job EXCEPT ![w].op = "trim rows"]
    BY <1>10 DEF InsertRow
  <2>2. Len(rows') = Len(rows) + 1
    <3>1. rows \in Seq(Key)
      BY DEF RuntimeShape
    <3>2. \A k : \A s \in Seq(Key) : Len(Append(s, k)) = Len(s) + 1
      OBVIOUS
    <3> QED BY <2>1, <3>1, <3>2
  <2>3. job \in [Workers -> Job] /\ "trim rows" \in Ops
    BY DEF RuntimeShape, Ops
  <2>4. job'[w].op = "trim rows" /\ \A x \in Workers : x # w => job'[x] = job[x]
    BY <2>1, <2>3, JobMoves
  <2>5. T \cup {w} \subseteq T' /\ w \notin T
    BY <2>1, <2>4 DEF At
  <2>6. Cardinality(T) + 1 <= Cardinality(T')
    BY <1>1, <2>5, WorkersCounted
  <2>7. A' = A
    BY <2>1
  <2> HIDE DEF A, T
  <2>8. Len(rows') <= MaxItems + A' + Cardinality(T')
    BY <1>1, <1>2, <1>3, <2>2, <2>6, <2>7
  <2> QED BY <1>4, <2>8
<1>11. ASSUME NEW w \in Workers, TrimRows(w) \/ ClearRows(w) PROVE RowsBounded'
  <2>1. Len(rows') <= MaxItems /\ restarts' = restarts /\ Len(rows') \in Nat
    <3>1. CASE ClearRows(w)
      <4>1. rows' = << >> /\ restarts' = restarts /\ Len(<< >>) = 0
        BY <3>1 DEF ClearRows
      <4>2. Len(rows') = 0
        BY <4>1
      <4>3. MaxItems \in Nat
        BY RuntimeAssumption
      <4> QED BY <4>1, <4>2, <4>3
    <3>2. CASE TrimRows(w)
      <4>1. rows' = Remaining(rows, NewestKeys(KeysIn(rows))) /\ restarts' = restarts
        BY <3>2, LatestAreRows DEF TrimRows, Trimmed
      <4>2. rows \in Seq(Key) /\ Distinct(rows) /\ IsFiniteSet(NewestKeys(KeysIn(rows)))
            /\ KeysIn(rows) \in SUBSET Nat /\ IsFiniteSet(KeysIn(rows))
        BY KeysAreFinite DEF RuntimeShape
      <4>3. rows' \in Seq(Key) /\ Len(rows') <= Cardinality(NewestKeys(KeysIn(rows)))
        BY <4>1, <4>2, RemainingWell
      <4>4. Cardinality(NewestKeys(KeysIn(rows))) <= MaxItems /\ Cardinality(NewestKeys(KeysIn(rows))) \in Nat
        BY <4>2, KeptAreFew
      <4>5. Len(rows') \in Nat
        BY <4>3
      <4>6. Len(rows') <= MaxItems
        <5> DEFINE c == Cardinality(NewestKeys(KeysIn(rows)))
                   n == Len(rows')
        <5>1. n \in Nat /\ c \in Nat /\ MaxItems \in Nat /\ n <= c /\ c <= MaxItems
          BY <4>3, <4>4, <4>5, RuntimeAssumption
        <5> HIDE DEF c, n
        <5>2. n <= MaxItems
          BY <5>1
        <5> QED BY <5>2 DEF n
      <4> QED BY <4>1, <4>5, <4>6
    <3> QED BY <1>11, <3>1, <3>2
  <2>2. A' = A
    BY <2>1
  <2> HIDE DEF A, T
  <2>3. Len(rows') <= MaxItems + A' + Cardinality(T')
    BY <1>1, <1>2, <2>1, <2>2
  <2> QED BY <1>4, <2>3
<1>12. CASE RestartState
  <2>1. rows' = rows /\ restarts' = restarts + 1
    BY <1>12 DEF RestartState
  <2>2. A' = A + Cardinality(Workers)
    BY <1>1, <2>1, RestartsCounted
  <2> HIDE DEF A, T
  <2>3. Len(rows') <= MaxItems + A' + Cardinality(T')
    BY <1>1, <1>2, <1>3, <2>1, <2>2
  <2> QED BY <1>4, <2>3
<1> QED BY <1>6, <1>7, <1>9, <1>10, <1>11, <1>12 DEF RuntimeNext

LEMMA KeptAgain ==
    \A S \in SUBSET Key : /\ NewestKeys(S) \in SUBSET Key /\ NewestKeys(NewestKeys(S)) = NewestKeys(S)
                          /\ Cardinality(NewestKeys(S)) <= MaxItems
                          /\ Cardinality(S) <= MaxItems => NewestKeys(S) = S
<1> SUFFICES ASSUME NEW S \in SUBSET Key
             PROVE  /\ NewestKeys(S) \in SUBSET Key /\ NewestKeys(NewestKeys(S)) = NewestKeys(S)
                    /\ Cardinality(NewestKeys(S)) <= MaxItems
                    /\ Cardinality(S) <= MaxItems => NewestKeys(S) = S
  OBVIOUS
<1> DEFINE N == NewestKeys(S)
<1>1. S \in SUBSET Nat /\ IsFiniteSet(S)
  BY KeysAreFinite
<1>2. /\ N \subseteq S /\ Cardinality(N) <= MaxItems
      /\ Cardinality(S) <= MaxItems => N = S
  BY <1>1, KeptAreFew
<1>3. N \in SUBSET Nat /\ IsFiniteSet(N)
  BY <1>1, KeptAreFew
<1> HIDE DEF N
<1>4. NewestKeys(N) = N
  BY <1>2, <1>3, KeptAreFew
<1> QED BY <1>2, <1>4 DEF N

LEMMA KeptAlike ==
    \A S, U, T \in SUBSET Key : NewestKeys(S) = NewestKeys(U) => NewestKeys(S \cup T) = NewestKeys(U \cup T)
<1> SUFFICES ASSUME NEW S \in SUBSET Key, NEW U \in SUBSET Key, NEW T \in SUBSET Key,
                    NewestKeys(S) = NewestKeys(U)
             PROVE  NewestKeys(S \cup T) = NewestKeys(U \cup T)
  OBVIOUS
<1>1. /\ S \in SUBSET Nat /\ IsFiniteSet(S) /\ U \in SUBSET Nat /\ IsFiniteSet(U)
      /\ T \in SUBSET Nat /\ IsFiniteSet(T)
  BY KeysAreFinite
<1>2. NewestKeys(S \cup T) = NewestKeys(NewestKeys(S) \cup T)
  BY <1>1, KeptOfMore
<1>3. NewestKeys(U \cup T) = NewestKeys(NewestKeys(U) \cup T)
  BY <1>1, KeptOfMore
<1> QED BY <1>2, <1>3

JobMoved(w, from, to) ==
    job[w].op = from /\ job'[w].op = to /\ \A x \in Workers : x # w => job'[x] = job[x]

LEMMA AtMoved ==
    ASSUME NEW w \in Workers, NEW from, NEW to, JobMoved(w, from, to)
    PROVE  \A ops : /\ from \notin ops /\ to \notin ops => At(job', ops) = At(job, ops)
                    /\ from \in ops /\ to \in ops => At(job', ops) = At(job, ops)
                    /\ from \notin ops /\ to \in ops => At(job', ops) = At(job, ops) \cup {w} /\ w \notin At(job, ops)
                    /\ from \in ops /\ to \notin ops => At(job', ops) = At(job, ops) \ {w} /\ w \in At(job, ops)
BY DEF JobMoved, At

LEMMA StepsMove ==
    ASSUME RuntimeShape, NEW w \in Workers
    PROVE  /\ BeginPush(w) => JobMoved(w, "idle", "cache")
           /\ CachePush(w) => JobMoved(w, "cache", "insert") /\ job'[w].key = job[w].key
           /\ InsertRow(w) => JobMoved(w, "insert", "trim rows")
           /\ TrimRows(w) => JobMoved(w, "trim rows", "trim cache")
           /\ TrimCache(w) => JobMoved(w, "trim cache", "idle")
           /\ BeginClear(w) => JobMoved(w, "idle", "clear")
           /\ ClearRows(w) => JobMoved(w, "clear", "idle")
<1>1. /\ job \in [Workers -> Job] /\ "insert" \in Ops /\ "trim rows" \in Ops /\ "trim cache" \in Ops
      /\ \A o \in Ops : job' = [job EXCEPT ![w].op = o] =>
            job'[w].op = o /\ job'[w].key = job[w].key /\ \A x \in Workers : x # w => job'[x] = job[x]
  <2>1. job \in [Workers -> Job]
    BY DEF RuntimeShape
  <2> QED BY <2>1, JobMoves DEF Ops
<1>2. \A r : job' = [job EXCEPT ![w] = r] => job'[w] = r /\ \A x \in Workers : x # w => job'[x] = job[x]
  BY <1>1
<1>3. ~Busy(w) => job[w].op = "idle"
  BY IdleIsJob DEF Busy
<1>4. BeginPush(w) => JobMoved(w, "idle", "cache")
  <2> SUFFICES ASSUME BeginPush(w) PROVE JobMoved(w, "idle", "cache")
    OBVIOUS
  <2> DEFINE r == [op |-> "cache", key |-> counter + 1, had |-> {}]
  <2>1. job' = [job EXCEPT ![w] = r] /\ job[w].op = "idle"
    BY <1>3 DEF BeginPush
  <2>2. r.op = "cache"
    OBVIOUS
  <2> HIDE DEF r
  <2>3. job'[w] = r /\ \A x \in Workers : x # w => job'[x] = job[x]
    BY <1>2, <2>1
  <2> QED BY <2>1, <2>2, <2>3 DEF JobMoved
<1>5. CachePush(w) => JobMoved(w, "cache", "insert") /\ job'[w].key = job[w].key
  BY <1>1 DEF CachePush, JobMoved
<1>6. InsertRow(w) => JobMoved(w, "insert", "trim rows")
  BY <1>1 DEF InsertRow, JobMoved
<1>7. TrimRows(w) => JobMoved(w, "trim rows", "trim cache")
  BY <1>1 DEF TrimRows, JobMoved
<1>8. TrimCache(w) => JobMoved(w, "trim cache", "idle")
  BY <1>2, IdleIsJob DEF TrimCache, JobMoved
<1>9. BeginClear(w) => JobMoved(w, "idle", "clear")
  <2> SUFFICES ASSUME BeginClear(w) PROVE JobMoved(w, "idle", "clear")
    OBVIOUS
  <2> DEFINE r == [op |-> "clear", key |-> 0, had |-> Rows]
  <2>1. job' = [job EXCEPT ![w] = r] /\ job[w].op = "idle"
    BY <1>3 DEF BeginClear
  <2>2. r.op = "clear"
    OBVIOUS
  <2> HIDE DEF r
  <2>3. job'[w] = r /\ \A x \in Workers : x # w => job'[x] = job[x]
    BY <1>2, <2>1
  <2> QED BY <2>1, <2>2, <2>3 DEF JobMoved
<1>10. ClearRows(w) => JobMoved(w, "clear", "idle")
  BY <1>2, IdleIsJob DEF ClearRows, JobMoved
<1> QED BY <1>4, <1>5, <1>6, <1>7, <1>8, <1>9, <1>10

LEMMA NoClearBeside ==
    ASSUME RuntimeShape, ClearsAlone, NEW w \in Workers, job[w].op \notin {"idle", "clear"}
    PROVE  At(job, {"clear"}) = {}
BY IdleIsJob DEF ClearsAlone, At

\* The conjuncts about clears, when none is at work afterwards.
LEMMA NoClears == ASSUME At(job, {"clear"})' = {} PROVE ClearsAlone'
BY DEF At, ClearsAlone

LEMMA InsertingKeys == ASSUME RuntimeShape PROVE Inserting(job) \in SUBSET Key
<1>1. \A w \in At(job, {"insert"}) : w \in Workers /\ job[w].op \in {"cache", "insert"}
  BY DEF At
<1>2. \A w \in At(job, {"insert"}) : job[w].key \in Key
  BY <1>1, PendingKeys
<1> QED BY <1>2 DEF Inserting

LEMMA MoreRoom ==
    ASSUME NEW c \in Nat, NEW a \in Nat, NEW b \in Nat, NEW m \in Nat, c <= m + a, a <= b
    PROVE  c <= m + b
OBVIOUS

\* How much the cache may hold when w has moved and nothing has been added to it.
LEMMA BoundKept ==
    ASSUME RuntimeShape, CacheBounded, loaded' = loaded, cache' = cache,
           At(job, {"insert", "trim rows", "trim cache"}) \subseteq At(job, {"insert", "trim rows", "trim cache"})'
    PROVE  CacheBounded'
<1> DEFINE A == At(job, {"insert", "trim rows", "trim cache"})
<1>1. A \in SUBSET Workers /\ A' \in SUBSET Workers
  BY DEF At
<1>2. Cardinality(A) \in Nat /\ Cardinality(A') \in Nat /\ Cardinality(A) <= Cardinality(A')
  BY <1>1, WorkersCounted
<1>3. cache \in SUBSET Key /\ MaxItems \in Nat
  BY RuntimeAssumption DEF RuntimeShape
<1>4. Cardinality(cache) \in Nat
  BY <1>3, KeysAreFinite
<1>5. loaded => Cardinality(cache) <= MaxItems + Cardinality(A)
  BY DEF CacheBounded
<1> HIDE DEF A
<1>6. loaded => Cardinality(cache) <= MaxItems + Cardinality(A')
  <2> SUFFICES ASSUME loaded PROVE Cardinality(cache) <= MaxItems + Cardinality(A')
    OBVIOUS
  <2>1. Cardinality(cache) <= MaxItems + Cardinality(A)
    BY <1>5
  <2> QED BY <1>2, <1>3, <1>4, <2>1, MoreRoom
<1> QED BY <1>6 DEF CacheBounded, A

LEMMA BoundTrimmed ==
    ASSUME NEW S \in SUBSET Key, cache' = NewestKeys(S) PROVE CacheBounded'
<1> DEFINE A == At(job, {"insert", "trim rows", "trim cache"})
<1>1. A' \in SUBSET Workers
  BY DEF At
<1>2. Cardinality(A') \in Nat
  BY <1>1, WorkersCounted
<1>3. cache' \in SUBSET Key /\ Cardinality(cache') <= MaxItems
  BY KeptAgain
<1>4. Cardinality(cache') \in Nat /\ MaxItems \in Nat
  BY <1>3, KeysAreFinite, RuntimeAssumption
<1> HIDE DEF A
<1>5. Cardinality(cache') <= MaxItems + Cardinality(A')
  BY <1>2, <1>3, <1>4
<1> QED BY <1>5 DEF CacheBounded, A

LEMMA BeginPushUndisturbed ==
    ASSUME RuntimeShape, Undisturbed, NEW w \in Workers, BeginPush(w), ~disturbed' PROVE Undisturbed'
<1>1. JobMoved(w, "idle", "cache") /\ UNCHANGED <<cache, loaded, rows, pushed, cleared>>
      /\ \A x \in Others(w) : job[x].op # "clear"
  BY StepsMove DEF BeginPush
<1>2. /\ At(job', {"insert"}) = At(job, {"insert"}) /\ At(job', {"clear"}) = At(job, {"clear"})
      /\ At(job', {"insert", "trim rows", "trim cache"}) = At(job, {"insert", "trim rows", "trim cache"})
  <2>1. \A ops : "idle" \notin ops /\ "cache" \notin ops => At(job', ops) = At(job, ops)
    BY <1>1, AtMoved
  <2>2. At(job', {"insert"}) = At(job, {"insert"})
    BY <2>1
  <2>3. At(job', {"clear"}) = At(job, {"clear"})
    BY <2>1
  <2>4. At(job', {"insert", "trim rows", "trim cache"}) = At(job, {"insert", "trim rows", "trim cache"})
    BY <2>1
  <2> QED BY <2>2, <2>3, <2>4
<1>3. At(job, {"clear"}) = {}
  BY <1>1, IdleIsJob DEF At, JobMoved, Others, Busy
<1>4. Inserting(job') = Inserting(job)
  <2>1. \A x \in At(job, {"insert"}) : job'[x] = job[x]
    BY <1>1 DEF JobMoved, At
  <2> QED BY <1>2, <2>1 DEF Inserting
<1>5. CacheBounded' /\ ClearsAlone'
  BY <1>1, <1>2, <1>3, BoundKept, NoClears DEF Undisturbed
<1>6. CacheShows'
  BY <1>1, <1>2, <1>4 DEF Undisturbed, CacheShows
<1>7. LatestRows' = LatestRows /\ Rows' = Rows
  BY <1>1 DEF LatestRows, Rows
<1> QED BY <1>1, <1>5, <1>6, <1>7 DEF Undisturbed

LEMMA UnloadedIsQuiet ==
    ASSUME RuntimeShape, ~loaded
    PROVE  Inserting(job) = {} /\ cache = {} /\ At(job, {"insert", "trim rows", "trim cache"}) = {}
<1>1. \A w \in Workers : job[w].op \in {"idle", "cache"}
  BY DEF RuntimeShape
<1>2. At(job, {"insert"}) = {} /\ At(job, {"insert", "trim rows", "trim cache"}) = {}
  BY <1>1 DEF At
<1> QED BY <1>2 DEF Inserting, RuntimeShape

\* What the list shows once it is loaded, and how much that is.
LEMMA LoadedShows ==
    ASSUME RuntimeShape, Undisturbed
    PROVE  /\ Loaded \in SUBSET Key /\ Loaded \cap cleared = {}
           /\ At(job, {"clear"}) = {} => NewestKeys(Loaded) = NewestKeys(pushed \cup Inserting(job))
           /\ Cardinality(Loaded) <= MaxItems + Cardinality(At(job, {"insert", "trim rows", "trim cache"}))
           /\ loaded => Loaded = cache
           /\ ~loaded => Loaded = NewestKeys(Rows)
<1> DEFINE A == At(job, {"insert", "trim rows", "trim cache"})
<1>1. A \in SUBSET Workers
  BY DEF At
<1>2. Cardinality(A) \in Nat /\ MaxItems \in Nat
  BY <1>1, WorkersCounted, RuntimeAssumption
<1>3. rows \in Seq(Key) /\ Rows \in SUBSET Key /\ Rows \cap cleared = {} /\ pushed \in SUBSET Key
  BY LatestAreRows, KeysAreFinite DEF RuntimeShape
<1>4. CASE loaded
  BY <1>4 DEF Loaded, Undisturbed, RuntimeShape, CacheShows, CacheBounded
<1>5. CASE ~loaded
  <2>1. Loaded = NewestKeys(Rows) /\ NewestKeys(Rows) = NewestKeys(pushed) /\ Inserting(job) = {}
    BY <1>5, UnloadedIsQuiet DEF Loaded, Undisturbed
  <2>2. /\ NewestKeys(Rows) \in SUBSET Key /\ NewestKeys(NewestKeys(Rows)) = NewestKeys(Rows)
        /\ Cardinality(NewestKeys(Rows)) <= MaxItems
    BY <1>3, KeptAgain
  <2>3. NewestKeys(Rows) \cap cleared = {}
    BY <1>3 DEF NewestKeys
  <2>4. Cardinality(NewestKeys(Rows)) \in Nat
    BY <2>2, KeysAreFinite
  <2>5. Cardinality(Loaded) <= MaxItems + Cardinality(A)
    <3> DEFINE c == Cardinality(Loaded)
               a == Cardinality(A)
    <3>1. c \in Nat /\ a \in Nat /\ MaxItems \in Nat /\ c <= MaxItems
      BY <1>2, <2>1, <2>2, <2>4
    <3> HIDE DEF c, a
    <3>2. c <= MaxItems + a
      BY <3>1
    <3> QED BY <3>2 DEF c, a
  <2>6. pushed \cup Inserting(job) = pushed
    BY <2>1
  <2> QED BY <1>5, <2>1, <2>2, <2>3, <2>5, <2>6
<1> QED BY <1>4, <1>5

LEMMA CachePushUndisturbed ==
    ASSUME RuntimeShape, Undisturbed, NEW w \in Workers, CachePush(w) PROVE Undisturbed'
<1> DEFINE k == job[w].key
           ops == {"insert", "trim rows", "trim cache"}
<1>1. /\ JobMoved(w, "cache", "insert") /\ job'[w].key = k /\ job[w].op = "cache"
      /\ cache' = Loaded \cup {k} /\ loaded' = TRUE
      /\ UNCHANGED <<rows, pushed, cleared>>
  BY StepsMove DEF CachePush, Cached
<1>2. At(job, {"clear"}) = {} /\ At(job', {"clear"}) = {}
  <2>1. At(job, {"clear"}) = {}
    BY <1>1, NoClearBeside DEF Undisturbed
  <2> QED BY <1>1, <2>1, AtMoved
<1>3. k \in Key /\ k \notin cleared
  BY <1>1, PendingKeys DEF Unseen
<1>4. Inserting(job') = Inserting(job) \cup {k}
  <2>1. At(job', {"insert"}) = At(job, {"insert"}) \cup {w} /\ w \notin At(job, {"insert"})
    BY <1>1, AtMoved
  <2>2. \A x \in At(job, {"insert"}) : job'[x] = job[x]
    BY <1>1, <2>1 DEF JobMoved, At
  <2> QED BY <1>1, <2>1, <2>2 DEF Inserting
<1>5. CacheShows'
  <2>1. Loaded \in SUBSET Key /\ NewestKeys(Loaded) = NewestKeys(pushed \cup Inserting(job))
    BY <1>2, LoadedShows
  <2>2. pushed \cup Inserting(job) \in SUBSET Key /\ {k} \in SUBSET Key
    BY <1>3, InsertingKeys DEF RuntimeShape
  <2>3. NewestKeys(Loaded \cup {k}) = NewestKeys((pushed \cup Inserting(job)) \cup {k})
    BY <2>1, <2>2, KeptAlike
  <2>4. (pushed \cup Inserting(job)) \cup {k} = pushed' \cup Inserting(job')
    BY <1>1, <1>4
  <2>5. NewestKeys(cache') = NewestKeys(pushed' \cup Inserting(job'))
    BY <1>1, <2>3, <2>4
  <2> QED BY <2>5 DEF CacheShows
<1>6. CacheBounded'
  <2>1. At(job', ops) = At(job, ops) \cup {w} /\ w \notin At(job, ops)
    <3>1. "cache" \notin ops /\ "insert" \in ops
      OBVIOUS
    <3> HIDE DEF ops
    <3> QED BY <1>1, <3>1, AtMoved
  <2>2. At(job, ops) \in SUBSET Workers /\ At(job', ops) \in SUBSET Workers
    BY DEF At
  <2>3. Cardinality(At(job, ops)) \in Nat /\ Cardinality(At(job', ops)) \in Nat
        /\ Cardinality(At(job, ops)) + 1 <= Cardinality(At(job', ops))
    BY <2>1, <2>2, WorkersCounted
  <2>4. Loaded \in SUBSET Key /\ Cardinality(Loaded) <= MaxItems + Cardinality(At(job, ops))
    BY LoadedShows
  <2>5. IsFiniteSet(Loaded) /\ Cardinality(Loaded) \in Nat /\ MaxItems \in Nat
    BY <2>4, KeysAreFinite, RuntimeAssumption
  <2>6. Cardinality(cache') \in Nat /\ Cardinality(cache') <= Cardinality(Loaded) + 1
    <3>1. CASE k \in Loaded
      <4>1. cache' = Loaded
        BY <1>1, <3>1
      <4> QED BY <2>5, <4>1
    <3>2. CASE k \notin Loaded
      <4>1. Cardinality(cache') = Cardinality(Loaded) + 1
        BY <1>1, <2>5, <3>2, FS_AddElement
      <4> QED BY <2>5, <4>1
    <3> QED BY <3>1, <3>2
  <2>7. Cardinality(cache') <= MaxItems + Cardinality(At(job', ops))
    <3> DEFINE c == Cardinality(Loaded)
               d == Cardinality(cache')
               a == Cardinality(At(job, ops))
               b == Cardinality(At(job', ops))
    <3>1. /\ c \in Nat /\ d \in Nat /\ a \in Nat /\ b \in Nat /\ MaxItems \in Nat
          /\ c <= MaxItems + a /\ d <= c + 1 /\ a + 1 <= b
      BY <2>3, <2>4, <2>5, <2>6
    <3> HIDE DEF a, b, c, d
    <3>2. d <= MaxItems + b
      BY <3>1
    <3> QED BY <3>2 DEF b, d
  <2> QED BY <2>7 DEF CacheBounded
<1>7. ClearsAlone'
  BY <1>2, NoClears
<1>8. cache' \cap cleared' = {}
  BY <1>1, <1>3, LoadedShows
<1>9. LatestRows' = LatestRows /\ Rows' = Rows
  BY <1>1 DEF LatestRows, Rows
<1> QED BY <1>1, <1>5, <1>6, <1>7, <1>8, <1>9 DEF Undisturbed

LEMMA InsertRowUndisturbed ==
    ASSUME RuntimeShape, Undisturbed, NEW w \in Workers, InsertRow(w) PROVE Undisturbed'
<1> DEFINE k == job[w].key
           ops == {"insert", "trim rows", "trim cache"}
<1>1. /\ JobMoved(w, "insert", "trim rows") /\ job[w].op = "insert"
      /\ rows' = Append(rows, k) /\ pushed' = pushed \cup {k}
      /\ UNCHANGED <<cache, loaded, cleared>>
  BY StepsMove DEF InsertRow
<1>2. At(job, {"clear"}) = {} /\ At(job', {"clear"}) = {}
  <2>1. At(job, {"clear"}) = {}
    BY <1>1, NoClearBeside DEF Undisturbed
  <2>2. \A set : "insert" \notin set /\ "trim rows" \notin set => At(job', set) = At(job, set)
    BY <1>1, AtMoved
  <2> QED BY <2>1, <2>2
<1>3. k \in Key /\ k \notin KeysIn(rows) /\ k \notin cleared
  BY <1>1, PendingKeys DEF Unseen
<1>4. loaded
  BY <1>1 DEF RuntimeShape
<1>5. /\ rows \in Seq(Key) /\ Distinct(rows) /\ Rows = KeysIn(rows) /\ Rows' = KeysIn(rows')
      /\ Rows \in SUBSET Key /\ pushed \in SUBSET Key /\ {k} \in SUBSET Key
  BY <1>3, KeysAreFinite DEF RuntimeShape, Rows, KeysIn
<1>6. Rows' = Rows \cup {k}
  BY <1>1, <1>3, <1>5, AppendedKeys
<1>7. NewestKeys(Rows') = NewestKeys(pushed')
  <2>1. NewestKeys(Rows) = NewestKeys(pushed)
    BY DEF Undisturbed
  <2>2. NewestKeys(Rows \cup {k}) = NewestKeys(pushed \cup {k})
    BY <1>5, <2>1, KeptAlike
  <2> QED BY <1>1, <1>6, <2>2
<1>8. CacheShows'
  <2>1. At(job', {"insert"}) = At(job, {"insert"}) \ {w} /\ w \in At(job, {"insert"})
    <3>1. \A set : "insert" \in set /\ "trim rows" \notin set => At(job', set) = At(job, set) \ {w} /\ w \in At(job, set)
      BY <1>1, AtMoved
    <3> QED BY <3>1
  <2>2. \A x \in At(job', {"insert"}) : job'[x] = job[x]
    BY <1>1, <2>1 DEF JobMoved, At
  <2>3. Inserting(job) = Inserting(job') \cup {k}
    BY <2>1, <2>2 DEF Inserting
  <2>4. pushed' \cup Inserting(job') = pushed \cup Inserting(job)
    BY <1>1, <2>3
  <2>5. NewestKeys(cache) = NewestKeys(pushed \cup Inserting(job))
    BY <1>2, <1>4 DEF Undisturbed, CacheShows
  <2> QED BY <1>1, <2>4, <2>5 DEF CacheShows
<1>9. CacheBounded'
  <2>1. "insert" \in ops /\ "trim rows" \in ops
    OBVIOUS
  <2> HIDE DEF ops
  <2>2. At(job', ops) = At(job, ops)
    BY <1>1, <2>1, AtMoved
  <2>3. At(job, ops) \subseteq At(job, ops)'
    BY <2>2 DEF ops
  <2> QED BY <1>1, <2>3, BoundKept DEF ops, Undisturbed
<1>10. ClearsAlone'
  BY <1>2, NoClears
<1> QED BY <1>1, <1>4, <1>7, <1>8, <1>9, <1>10 DEF Undisturbed

LEMMA TrimRowsUndisturbed ==
    ASSUME RuntimeShape, Undisturbed, NEW w \in Workers, TrimRows(w) PROVE Undisturbed'
<1> DEFINE ops == {"insert", "trim rows", "trim cache"}
<1>1. /\ JobMoved(w, "trim rows", "trim cache") /\ job[w].op = "trim rows"
      /\ rows' = Remaining(rows, NewestKeys(KeysIn(rows)))
      /\ UNCHANGED <<cache, loaded, pushed, cleared>>
  BY StepsMove, LatestAreRows DEF TrimRows, Trimmed
<1>2. At(job, {"clear"}) = {} /\ At(job', {"clear"}) = {}
  <2>1. At(job, {"clear"}) = {}
    BY <1>1, NoClearBeside DEF Undisturbed
  <2>2. \A set : "trim rows" \notin set /\ "trim cache" \notin set => At(job', set) = At(job, set)
    BY <1>1, AtMoved
  <2> QED BY <2>1, <2>2
<1>3. loaded
  BY <1>1 DEF RuntimeShape
<1>4. /\ rows \in Seq(Key) /\ Distinct(rows) /\ Rows = KeysIn(rows) /\ Rows' = KeysIn(rows')
      /\ Rows \in SUBSET Key /\ IsFiniteSet(NewestKeys(KeysIn(rows)))
  BY KeysAreFinite DEF RuntimeShape, Rows, KeysIn
<1>5. Rows' = NewestKeys(Rows)
  <2>1. KeysIn(rows') = KeysIn(rows) \cap NewestKeys(KeysIn(rows))
    BY <1>1, <1>4, RemainingWell
  <2>2. NewestKeys(KeysIn(rows)) \subseteq KeysIn(rows)
    BY DEF NewestKeys
  <2> QED BY <1>4, <2>1, <2>2
<1>6. NewestKeys(Rows') = NewestKeys(pushed')
  <2>1. NewestKeys(NewestKeys(Rows)) = NewestKeys(Rows)
    BY <1>4, KeptAgain
  <2> QED BY <1>1, <1>5, <2>1 DEF Undisturbed
<1>7. CacheShows'
  <2>1. At(job', {"insert"}) = At(job, {"insert"})
    BY <1>1, AtMoved
  <2>2. \A x \in At(job, {"insert"}) : job'[x] = job[x]
    BY <1>1 DEF JobMoved, At
  <2>3. Inserting(job') = Inserting(job)
    BY <2>1, <2>2 DEF Inserting
  <2> QED BY <1>1, <1>2, <2>3 DEF Undisturbed, CacheShows
<1>8. CacheBounded'
  <2>1. "trim cache" \in ops /\ "trim rows" \in ops
    OBVIOUS
  <2> HIDE DEF ops
  <2>2. At(job', ops) = At(job, ops)
    BY <1>1, <2>1, AtMoved
  <2>3. At(job, ops) \subseteq At(job, ops)'
    BY <2>2 DEF ops
  <2> QED BY <1>1, <2>3, BoundKept DEF ops, Undisturbed
<1>9. ClearsAlone'
  BY <1>2, NoClears
<1> QED BY <1>1, <1>3, <1>6, <1>7, <1>8, <1>9 DEF Undisturbed

LEMMA TrimCacheUndisturbed ==
    ASSUME RuntimeShape, Undisturbed, NEW w \in Workers, TrimCache(w) PROVE Undisturbed'
<1>1. /\ JobMoved(w, "trim cache", "idle") /\ job[w].op = "trim cache"
      /\ cache' = NewestKeys(cache) /\ UNCHANGED <<loaded, rows, pushed, cleared>>
  BY StepsMove DEF TrimCache, Trimmed
<1>2. At(job, {"clear"}) = {} /\ At(job', {"clear"}) = {}
  <2>1. At(job, {"clear"}) = {}
    BY <1>1, NoClearBeside DEF Undisturbed
  <2>2. \A set : "trim cache" \notin set /\ "idle" \notin set => At(job', set) = At(job, set)
    BY <1>1, AtMoved
  <2> QED BY <2>1, <2>2
<1>3. loaded
  BY <1>1 DEF RuntimeShape
<1>4. cache \in SUBSET Key
  BY DEF RuntimeShape
<1>5. CacheShows'
  <2>1. At(job', {"insert"}) = At(job, {"insert"})
    BY <1>1, AtMoved
  <2>2. \A x \in At(job, {"insert"}) : job'[x] = job[x]
    BY <1>1 DEF JobMoved, At
  <2>3. Inserting(job') = Inserting(job)
    BY <2>1, <2>2 DEF Inserting
  <2>4. NewestKeys(cache') = NewestKeys(cache)
    BY <1>1, <1>4, KeptAgain
  <2> QED BY <1>1, <1>2, <2>3, <2>4 DEF Undisturbed, CacheShows
<1>6. CacheBounded'
  BY <1>1, <1>4, BoundTrimmed
<1>7. ClearsAlone'
  BY <1>2, NoClears
<1>8. cache' \cap cleared' = {}
  BY <1>1 DEF Undisturbed, NewestKeys
<1>9. LatestRows' = LatestRows /\ Rows' = Rows
  BY <1>1 DEF LatestRows, Rows
<1> QED BY <1>1, <1>3, <1>5, <1>6, <1>7, <1>8, <1>9 DEF Undisturbed

LEMMA NothingFits ==
    ASSUME cache' = {} PROVE CacheBounded'
<1>1. Cardinality(At(job', {"insert", "trim rows", "trim cache"})) \in Nat /\ MaxItems \in Nat
  BY WorkersCounted, RuntimeAssumption DEF At
<1>2. Cardinality(cache') = 0
  BY FS_EmptySet
<1>3. \A a, m \in Nat : 0 <= m + a
  OBVIOUS
<1>4. Cardinality(cache') <= MaxItems + Cardinality(At(job', {"insert", "trim rows", "trim cache"}))
  BY <1>1, <1>2, <1>3
<1> QED BY <1>4 DEF CacheBounded

LEMMA BeginClearUndisturbed ==
    ASSUME RuntimeShape, Undisturbed, NEW w \in Workers, BeginClear(w), ~disturbed' PROVE Undisturbed'
<1>1. /\ JobMoved(w, "idle", "clear") /\ cache' = {} /\ loaded' = TRUE
      /\ UNCHANGED <<rows, pushed, cleared>> /\ Others(w) = {}
  BY StepsMove DEF BeginClear, ClearLoaded
<1>2. \A x \in Workers : x # w => job'[x] = Idle
  BY <1>1 DEF Others, Busy, JobMoved
<1>3. ClearsAlone'
  BY <1>1, <1>2, IdleIsJob DEF ClearsAlone
<1>4. At(job', {"clear"}) # {}
  BY <1>1 DEF At, JobMoved
<1>5. CacheShows' /\ CacheBounded'
  BY <1>1, <1>4, NothingFits DEF CacheShows
<1>6. LatestRows' = LatestRows /\ Rows' = Rows
  BY <1>1 DEF LatestRows, Rows
<1> QED BY <1>1, <1>3, <1>5, <1>6 DEF Undisturbed

LEMMA NothingKept == NewestKeys({}) = {}
BY DEF NewestKeys

LEMMA ClearRowsUndisturbed ==
    ASSUME RuntimeShape, Undisturbed, NEW w \in Workers, ClearRows(w) PROVE Undisturbed'
<1>1. /\ JobMoved(w, "clear", "idle") /\ job[w].op = "clear" /\ rows' = << >> /\ pushed' = {}
      /\ UNCHANGED <<cache, loaded>>
  BY StepsMove DEF ClearRows
<1>2. cache = {} /\ loaded /\ \A x \in Workers : x # w => job[x] = Idle
  BY <1>1 DEF Undisturbed, ClearsAlone
<1>3. \A x \in Workers : job'[x].op = "idle"
  BY <1>1, <1>2, IdleIsJob DEF JobMoved
<1>4. Inserting(job') = {} /\ ClearsAlone'
  BY <1>3 DEF Inserting, At, ClearsAlone
<1>5. Rows' = {}
  BY <1>1 DEF Rows
<1>6. CacheShows'
  <2>1. pushed' \cup Inserting(job') = {} /\ cache' = {}
    BY <1>1, <1>2, <1>4
  <2> QED BY <2>1 DEF CacheShows
<1>7. CacheBounded'
  BY <1>1, <1>2, NothingFits
<1> QED BY <1>1, <1>2, <1>4, <1>5, <1>6, <1>7 DEF Undisturbed

LEMMA ReadListUndisturbed ==
    ASSUME RuntimeShape, Undisturbed, ReadList PROVE Undisturbed'
<1>1. cache' = Loaded /\ loaded' = TRUE /\ UNCHANGED <<rows, job, pushed, cleared>>
  BY DEF ReadList
<1>2. At(job', {"clear"}) = At(job, {"clear"}) /\ Inserting(job') = Inserting(job)
  BY <1>1
<1>3. CacheShows'
  BY <1>1, <1>2, LoadedShows DEF CacheShows
<1>4. CacheBounded'
  BY <1>1, LoadedShows DEF CacheBounded
<1>5. ClearsAlone'
  <2> SUFFICES ASSUME NEW w \in Workers, job[w].op = "clear"
               PROVE  Loaded = {} /\ \A x \in Workers : x # w => job[x] = Idle
    BY <1>1 DEF ClearsAlone
  <2> QED BY DEF Undisturbed, ClearsAlone, Loaded
<1>6. cache' \cap cleared' = {}
  BY <1>1, LoadedShows
<1>7. LatestRows' = LatestRows /\ Rows' = Rows
  BY <1>1 DEF LatestRows, Rows
<1> QED BY <1>1, <1>3, <1>4, <1>5, <1>6, <1>7 DEF Undisturbed

LEMMA RestartUndisturbed ==
    ASSUME RuntimeShape, ~disturbed => Undisturbed, RestartState, ~disturbed' PROVE Undisturbed'
<1>1. /\ cache' = {} /\ loaded' = FALSE /\ rows' = rows /\ cleared' = cleared
      /\ job' = [w \in Workers |-> Idle]
      /\ pushed' = (IF disturbed THEN Rows ELSE pushed)
      /\ LatestRows = NewestKeys(Rows)
  BY DEF RestartState
<1>2. LatestRows' = LatestRows /\ Rows' = Rows
  BY <1>1 DEF LatestRows, Rows
<1>3. ClearsAlone' /\ CacheShows'
  BY <1>1, IdleIsJob DEF ClearsAlone, CacheShows
<1>4. NewestKeys(Rows') = NewestKeys(pushed')
  BY <1>1, <1>2 DEF Undisturbed
<1>5. CacheBounded'
  BY <1>1, NothingFits
<1> QED BY <1>1, <1>2, <1>3, <1>4, <1>5 DEF Undisturbed

LEMMA UndisturbedKept ==
    ASSUME RuntimeShape, ~disturbed => Undisturbed, [RuntimeNext]_runtimeVars
    PROVE  (~disturbed => Undisturbed)'
<1> SUFFICES ASSUME ~disturbed' PROVE Undisturbed'
  OBVIOUS
<1>1. CASE RestartState
  BY <1>1, RestartUndisturbed
<1>2. CASE UNCHANGED runtimeVars
  BY <1>2 DEF runtimeVars, Undisturbed, ClearsAlone, CacheShows, CacheBounded, LatestRows, Rows
<1>3. CASE ReadList
  BY <1>3, ReadListUndisturbed DEF ReadList
<1>4. ASSUME NEW w \in Workers, BeginPush(w) PROVE Undisturbed'
  BY <1>4, BeginPushUndisturbed DEF BeginPush
<1>5. ASSUME NEW w \in Workers, CachePush(w) PROVE Undisturbed'
  BY <1>5, CachePushUndisturbed DEF CachePush
<1>6. ASSUME NEW w \in Workers, InsertRow(w) PROVE Undisturbed'
  BY <1>6, InsertRowUndisturbed DEF InsertRow
<1>7. ASSUME NEW w \in Workers, TrimRows(w) PROVE Undisturbed'
  BY <1>7, TrimRowsUndisturbed DEF TrimRows
<1>8. ASSUME NEW w \in Workers, TrimCache(w) PROVE Undisturbed'
  BY <1>8, TrimCacheUndisturbed DEF TrimCache
<1>9. ASSUME NEW w \in Workers, BeginClear(w) PROVE Undisturbed'
  BY <1>9, BeginClearUndisturbed DEF BeginClear
<1>10. ASSUME NEW w \in Workers, ClearRows(w) PROVE Undisturbed'
  BY <1>10, ClearRowsUndisturbed DEF ClearRows
<1>11. ASSUME NEW w \in Workers, InsertFails(w) PROVE Undisturbed'
  BY <1>11 DEF InsertFails
<1> QED BY <1>1, <1>2, <1>3, <1>4, <1>5, <1>6, <1>7, <1>8, <1>9, <1>10, <1>11 DEF RuntimeNext

RuntimeInv ==
    /\ RuntimeShape
    /\ RowsBounded
    /\ ~disturbed => Undisturbed

LEMMA RuntimeInitHolds == ASSUME RuntimeInit PROVE RuntimeInv
<1>1. /\ cache = {} /\ loaded = FALSE /\ rows = << >> /\ counter = 0 /\ job = [w \in Workers |-> Idle]
      /\ pushed = {} /\ cleared = {} /\ disturbed = FALSE /\ restarts = 0
  BY DEF RuntimeInit
<1>2. << >> \in Seq(Key) /\ Distinct(<< >>) /\ KeysIn(<< >>) = {} /\ Len(<< >>) = 0
  BY DEF Distinct, KeysIn
<1>3. job \in [Workers -> Job] /\ \A w \in Workers : job[w] = Idle
  BY <1>1, IdleIsJob
<1>4. 0 \in 0..MaxPushes /\ 0 \in Nat
  BY RuntimeAssumption
<1>5. RuntimeShape
  <2>1. \A k \in Key : Unseen(k, rows, pushed, cleared, job)
    BY <1>1, <1>2, <1>3, IdleIsJob DEF Unseen
  <2>2. PendingWell(job, counter, rows, pushed, cleared)
    BY <1>3, IdleIsJob DEF PendingWell
  <2> QED BY <1>1, <1>2, <1>3, <1>4, <2>1, <2>2, IdleIsJob DEF RuntimeShape
<1>6. Rows = {} /\ LatestRows = {}
  BY <1>1, <1>2, LatestAreRows
<1>7. Inserting(job) = {} /\ At(job, {"clear"}) = {} /\ ClearsAlone
  BY <1>3, IdleIsJob DEF Inserting, At, ClearsAlone
<1>8. Undisturbed
  BY <1>1, <1>6, <1>7, NothingKept DEF Undisturbed, CacheShows, CacheBounded
<1>9. RowsBounded
  <2>1. At(job, {"trim rows"}) \in SUBSET Workers
    BY DEF At
  <2>2. Cardinality(At(job, {"trim rows"})) \in Nat /\ AfterRestarts(0) \in Nat /\ MaxItems \in Nat
    BY <2>1, WorkersCounted, RestartsCounted, RuntimeAssumption
  <2>3. Len(rows) = 0
    BY <1>1, <1>2
  <2>4. \A a, b, c \in Nat : 0 <= a + b + c
    OBVIOUS
  <2> QED BY <1>1, <2>2, <2>3, <2>4 DEF RowsBounded
<1> QED BY <1>5, <1>8, <1>9 DEF RuntimeInv

\* The table outgrows the limit by the pushes under way or cut short, the cache by
\* those under way, and an undisturbed list shows the newest of what was pushed.
THEOREM RuntimeInvHolds == RuntimeSpec => []RuntimeInv
<1>1. RuntimeInit => RuntimeInv
  BY RuntimeInitHolds
<1>2. RuntimeInv /\ [RuntimeNext]_runtimeVars => RuntimeInv'
  BY ShapeKept, RowsBoundedKept, UndisturbedKept DEF RuntimeInv
<1> QED BY <1>1, <1>2, PTL DEF RuntimeSpec

LEMMA InvTypes == ASSUME RuntimeInv PROVE RuntimeTypeOK
<1> DEFINE T == At(job, {"trim rows"})
           A == At(job, {"insert", "trim rows", "trim cache"})
           W == Cardinality(Workers)
<1>1. T \in SUBSET Workers /\ A \in SUBSET Workers
  BY DEF At
<1>2. /\ MaxItems \in Nat /\ W \in Nat /\ restarts \in Nat
      /\ Cardinality(T) \in Nat /\ Cardinality(T) <= W /\ Cardinality(A) \in Nat /\ Cardinality(A) <= W
  BY <1>1, WorkersCounted, RuntimeAssumption DEF RuntimeInv, RuntimeShape
<1>3. /\ AfterRestarts(restarts) \in Nat /\ AfterRestarts(restarts + 1) = AfterRestarts(restarts) + W
  BY <1>2, RestartsCounted
<1>4. Len(rows) \in Nat /\ Len(rows) <= MaxItems + AfterRestarts(restarts) + Cardinality(T)
  <2>1. rows \in Seq(Key)
    BY DEF RuntimeInv, RuntimeShape
  <2>2. \A s \in Seq(Key) : Len(s) \in Nat
    OBVIOUS
  <2> QED BY <2>1, <2>2 DEF RuntimeInv, RowsBounded
<1>5. cache \in SUBSET Key
  BY DEF RuntimeInv, RuntimeShape
<1>6. Cardinality(cache) \in Nat
  BY <1>5, KeysAreFinite
<1>7. Len(rows) <= MaxItems + AfterRestarts(restarts + 1)
  <2> DEFINE n == Len(rows)
             t == Cardinality(T)
             a == AfterRestarts(restarts)
  <2>1. n \in Nat /\ t \in Nat /\ a \in Nat /\ W \in Nat /\ MaxItems \in Nat /\ n <= MaxItems + a + t /\ t <= W
    BY <1>2, <1>3, <1>4
  <2> HIDE DEF n, t, a, W
  <2>2. n <= MaxItems + (a + W)
    BY <2>1
  <2> QED BY <1>3, <2>2 DEF n, a
<1>8. ASSUME ~disturbed PROVE Cardinality(cache) <= MaxItems + W
  <2>1. CASE loaded
    <3>1. Cardinality(cache) <= MaxItems + Cardinality(A)
      BY <1>8, <2>1 DEF RuntimeInv, Undisturbed, CacheBounded
    <3> HIDE DEF A, W
    <3> QED BY <1>2, <1>6, <3>1, MoreRoom
  <2>2. CASE ~loaded
    <3>1. Cardinality(cache) = 0
      BY <2>2, FS_EmptySet DEF RuntimeInv, RuntimeShape
    <3>2. \A m, n \in Nat : 0 <= m + n
      OBVIOUS
    <3> HIDE DEF A, W
    <3> QED BY <1>2, <3>1, <3>2
  <2> QED BY <2>1, <2>2
<1>9. AfterRestarts(restarts + 1) = (restarts + 1) * Cardinality(Workers)
  BY DEF AfterRestarts
<1> QED BY <1>7, <1>8, <1>9 DEF RuntimeTypeOK, RuntimeInv, RuntimeShape

LEMMA InvSettles == ASSUME RuntimeInv PROVE SettledAgree
<1> SUFFICES ASSUME ~disturbed, \A w \in Workers : ~Busy(w)
             PROVE  /\ loaded => cache = NewestKeys(Rows)
                    /\ NewestKeys(Rows) = NewestKeys(pushed)
  BY DEF SettledAgree
<1>1. RuntimeShape /\ Undisturbed
  BY DEF RuntimeInv
<1>2. \A w \in Workers : job[w].op = "idle"
  BY IdleIsJob DEF Busy
<1>3. At(job, {"clear"}) = {} /\ At(job, {"insert", "trim rows", "trim cache"}) = {} /\ Inserting(job) = {}
  BY <1>2 DEF At, Inserting
<1>4. ASSUME loaded PROVE cache = NewestKeys(Rows)
  <2>1. NewestKeys(cache) = NewestKeys(pushed \cup Inserting(job)) /\ NewestKeys(Rows) = NewestKeys(pushed)
    BY <1>1, <1>3, <1>4 DEF Undisturbed, CacheShows
  <2>2. pushed \cup Inserting(job) = pushed
    BY <1>3
  <2>3. cache \in SUBSET Key /\ MaxItems \in Nat
    BY <1>1, RuntimeAssumption DEF RuntimeShape
  <2>4. Cardinality(cache) \in Nat /\ Cardinality(cache) <= MaxItems + Cardinality({})
    BY <1>1, <1>3, <1>4, <2>3, KeysAreFinite DEF Undisturbed, CacheBounded
  <2>5. Cardinality({}) = 0
    BY FS_EmptySet
  <2>6. Cardinality(cache) <= MaxItems
    BY <2>3, <2>4, <2>5
  <2>7. NewestKeys(cache) = cache
    BY <2>3, <2>6, KeptAgain
  <2> QED BY <2>1, <2>2, <2>7
<1> QED BY <1>1, <1>4 DEF Undisturbed

\* What push, clear and restart promise of a state list: with nobody at work the
\* cache is what the table holds, the newest of the keys pushed, and what a
\* finished clear found never comes back.
THEOREM ListsAgreeHolds == RuntimeSpec => []ListsAgree
<1>1. RuntimeInv => ListsAgree
  <2> SUFFICES ASSUME RuntimeInv PROVE ListsAgree
    OBVIOUS
  <2>1. ClearedStaysGone
    BY LatestAreRows DEF ClearedStaysGone, RuntimeInv, RuntimeShape, Undisturbed
  <2> QED BY <2>1, InvTypes, InvSettles DEF ListsAgree
<1> QED BY <1>1, RuntimeInvHolds, PTL

---------------------------------------------------------------------------
(***************************************************************************)
(* The exchange of statistics                                              *)
(***************************************************************************)

\* Multiplying by a natural number keeps the order, and by a positive one tells it.
LEMMA ProductsOrder ==
    /\ \A n \in Nat, x, a \in Int : x <= a => n * x <= n * a
    /\ \A n \in Nat \ {0}, x, a \in Int : n * x < n * a => x < a
<1>1. \A n \in Nat, d \in Nat : n * d >= 0
  OBVIOUS
<1>2. ASSUME NEW n \in Nat, NEW x \in Int, NEW a \in Int, x <= a PROVE n * x <= n * a
  <2>1. a - x \in Nat
    BY <1>2
  <2>2. n * (a - x) >= 0
    BY <1>1, <2>1
  <2>3. n * (a - x) = n * a - n * x
    OBVIOUS
  <2> QED BY <2>2, <2>3
<1>3. ASSUME NEW n \in Nat \ {0}, NEW x \in Int, NEW a \in Int, n * x < n * a PROVE x < a
  <2> SUFFICES ASSUME a <= x PROVE FALSE
    OBVIOUS
  <2>1. n * a <= n * x
    BY <1>2
  <2> QED BY <1>3, <2>1
<1> QED BY <1>2, <1>3

\* Means are numbers, and so is what is made of them.
Summaries(S) == IsFiniteSet(S) /\ \A p \in S : p.mean \in Int

LEMMA ExcessIsInt ==
    ASSUME NEW S, Summaries(S), NEW own, own.mean \in Int
    PROVE  /\ Cardinality(S) \in Nat /\ Total(S) \in Int /\ Excess(own, S) \in Int
           /\ S # {} => Cardinality(S) > 0
<1>1. Cardinality(S) \in Nat /\ (S # {} => Cardinality(S) > 0)
  BY FS_CardinalityType, FS_EmptySet DEF Summaries
<1>2. [p \in S |-> p.mean] \in [S -> Int]
  BY DEF Summaries
<1>3. Total(S) \in Int
  BY <1>2, SumIsInt DEF Total, Summaries
<1> QED BY <1>1, <1>3 DEF Excess

\* What is above the mean is above one of them, and below it below one.
LEMMA OneIsBelow ==
    ASSUME NEW S, Summaries(S), NEW own, own.mean \in Int
    PROVE  /\ Excess(own, S) > 0 => \E p \in S : p.mean < own.mean
           /\ Excess(own, S) < 0 => \E p \in S : p.mean > own.mean
<1> DEFINE f == [p \in S |-> p.mean]
           c == [p \in S |-> own.mean]
<1>1. f \in [S -> Int] /\ c \in [S -> Int] /\ IsFiniteSet(S)
  BY DEF Summaries
<1>2. SumFunction(c) = Cardinality(S) * own.mean /\ SumFunction(f) = Total(S)
  BY <1>1, SumConstant DEF Total
<1>3. \A p \in S : f[p] = p.mean /\ c[p] = own.mean
  OBVIOUS
<1>4. Cardinality(S) * own.mean \in Int /\ Total(S) \in Int /\ Excess(own, S) = Cardinality(S) * own.mean - Total(S)
  BY ExcessIsInt DEF Excess
<1> HIDE DEF f, c
<1>5. ASSUME \A p \in S : p.mean >= own.mean PROVE ~(Excess(own, S) > 0)
  <2>1. \A p \in S : c[p] <= f[p]
    BY <1>1, <1>3, <1>5
  <2>2. SumFunction(c) <= SumFunction(f)
    BY <1>1, <2>1, SumMonotone
  <2> QED BY <1>2, <1>4, <2>2
<1>6. ASSUME \A p \in S : p.mean <= own.mean PROVE ~(Excess(own, S) < 0)
  <2>1. \A p \in S : f[p] <= c[p]
    BY <1>1, <1>3, <1>6
  <2>2. SumFunction(f) <= SumFunction(c)
    BY <1>1, <2>1, SumMonotone
  <2> QED BY <1>2, <1>4, <2>2
<1>7. \A p \in S : p.mean \in Int
  BY DEF Summaries
<1> QED BY <1>5, <1>6, <1>7

\* The deviations, which add up to nothing, and their squares.
Deviations(S) == [p \in S |-> Excess(p, S)]

Squares(f) == [p \in DOMAIN f |-> Squared(f[p])]

LEMMA DeviationsCancel ==
    ASSUME NEW S, Summaries(S)
    PROVE  Deviations(S) \in [S -> Int] /\ SumFunction(Deviations(S)) = 0
<1> DEFINE n == Cardinality(S)
           t == Total(S)
           f == [p \in S |-> p.mean]
           c == [p \in S |-> 1]
           d == Deviations(S)
<1>1. n \in Nat /\ n \in Int
  BY FS_CardinalityType DEF Summaries
<1>2. f \in [S -> Int] /\ c \in [S -> Int] /\ IsFiniteSet(S)
  BY DEF Summaries
<1>3. t = SumFunction(f) /\ t \in Int /\ -t \in Int
  BY <1>2, SumIsInt DEF Total
<1>4. SumFunction(c) = n
  <2>1. SumFunction(c) = n * 1
    <3>1. 1 \in Int
      OBVIOUS
    <3> QED BY <1>2, <3>1, SumConstant
  <2> QED BY <1>1, <2>1
<1>5. \A p \in S : d[p] = n * p.mean - t /\ p.mean \in Int /\ f[p] = p.mean /\ c[p] = 1
  BY DEF Deviations, Excess, Summaries
<1>6. \A x \in Int : n * x - t \in Int /\ n * x - t = n * x + (-t) * 1
  BY <1>1, <1>3
<1>7. d \in [S -> Int]
  <2>1. \A p \in S : Excess(p, S) \in Int
    BY ExcessIsInt DEF Summaries
  <2> QED BY <2>1 DEF Deviations
<1> HIDE DEF n, t, f, c, d
<1>8. \A p \in S : d[p] = n * f[p] + (-t) * c[p]
  BY <1>5, <1>6
<1>9. SumFunction(d) = n * SumFunction(f) + (-t) * SumFunction(c)
  <2>1. Combines(d, n, f, -t, c, S)
    BY <1>1, <1>2, <1>3, <1>7, <1>8 DEF Combines
  <2> QED BY <1>2, <2>1, SumLinear
<1>10. n * t + (-t) * n = 0
  BY <1>1, <1>3
<1> QED BY <1>3, <1>4, <1>7, <1>9, <1>10 DEF d

LEMMA SquareIsNat == \A x \in Int : Squared(x) \in Int /\ Squared(x) >= 0 /\ (Squared(x) = 0 => x = 0)
<1> SUFFICES ASSUME NEW x \in Int PROVE x * x \in Int /\ x * x >= 0 /\ (x * x = 0 => x = 0)
  BY DEF Squared
<1> QED OBVIOUS

LEMMA SpreadIsSum ==
    ASSUME NEW S, Summaries(S)
    PROVE  /\ Spread(S) = SumFunction(Squares(Deviations(S)))
           /\ Squares(Deviations(S)) \in [S -> Int]
           /\ Spread(S) \in Int /\ Spread(S) >= 0
           /\ \A p \in S : Spread(S) >= Squared(Excess(p, S))
<1>1. Deviations(S) \in [S -> Int] /\ IsFiniteSet(S)
  BY DeviationsCancel DEF Summaries
<1>2. \A p \in S : Deviations(S)[p] = Excess(p, S)
  BY DEF Deviations
<1>3. Squares(Deviations(S)) = [p \in S |-> Squared(Excess(p, S))]
  BY <1>1, <1>2 DEF Squares
<1>4. \A p \in S : Squared(Excess(p, S)) \in Int /\ Squared(Excess(p, S)) >= 0
  BY <1>1, <1>2, SquareIsNat
<1>5. [p \in S |-> Squared(Excess(p, S))] \in [S -> Int]
  BY <1>4
<1> DEFINE q == [p \in S |-> Squared(Excess(p, S))]
<1>6. q \in [S -> Int] /\ \A p \in S : q[p] >= 0 /\ q[p] = Squared(Excess(p, S))
  BY <1>4, <1>5
<1> HIDE DEF q
<1>7. SumFunction(q) \in Int /\ SumFunction(q) >= 0 /\ \A p \in S : SumFunction(q) >= q[p]
  BY <1>1, <1>6, SumBounds
<1> QED BY <1>3, <1>6, <1>7 DEF q, Spread

\* One deviation is made up for by the others, so that the spread outweighs it.
LEMMA SpreadOutweighs ==
    ASSUME NEW S, Summaries(S), Cardinality(S) > 1, NEW q \in S
    PROVE  (Cardinality(S) - 1) * Spread(S) >= Cardinality(S) * Squared(Excess(q, S))
<1> DEFINE n == Cardinality(S)
           k == n - 1
           y == Excess(q, S)
           d == Deviations(S)
           s == Squares(d)
           c == [p \in S |-> 1]
           a == (2 * k) * y
           b == y * y
           g == [p \in S |-> a * d[p] + b * c[p]]
           w == k * k
           h == [p \in S |-> w * s[p] + 1 * g[p]]
<1>1. n \in Nat /\ n > 1 /\ k \in Nat /\ k > 0 /\ n = k + 1
  <2>1. n \in Nat
    BY FS_CardinalityType DEF Summaries
  <2> QED BY <2>1
<1>2. d \in [S -> Int] /\ SumFunction(d) = 0 /\ IsFiniteSet(S)
  BY DeviationsCancel DEF Summaries
<1>3. s \in [S -> Int] /\ SumFunction(s) = Spread(S) /\ Spread(S) \in Int
  BY SpreadIsSum
<1>4. \A p \in S : s[p] = d[p] * d[p]
  BY <1>2 DEF Squares, Squared
<1>5. y \in Int /\ d[q] = y
  BY <1>2 DEF Deviations
<1>6. c \in [S -> Int] /\ SumFunction(c) = n * 1
  <2>1. 1 \in Int
    OBVIOUS
  <2> QED BY <1>2, <2>1, SumConstant
<1>7. \A p \in S : c[p] = 1
  OBVIOUS
<1>8. a \in Int /\ b \in Int /\ w \in Int
  BY <1>1, <1>5
<1> HIDE DEF n, k, y, d, s, c
<1>9. \A u \in Int, v \in Int, p, r \in Int : u * p + v * r \in Int
  OBVIOUS
<1>10. g \in [S -> Int] /\ \A p \in S : g[p] = a * d[p] + b * c[p]
  <2> HIDE DEF a, b
  <2>1. \A p \in S : a * d[p] + b * c[p] \in Int
    BY <1>2, <1>6, <1>8, <1>9
  <2> QED BY <2>1
<1>11. h \in [S -> Int] /\ \A p \in S : h[p] = w * s[p] + 1 * g[p]
  <2> HIDE DEF w, g
  <2>1. \A p \in S : w * s[p] + 1 * g[p] \in Int
    BY <1>3, <1>8, <1>9, <1>10
  <2> QED BY <2>1
<1> HIDE DEF g, h
<1>12. SumFunction(g) = n * b
  <2> HIDE DEF a, b
  <2>1. SumFunction(g) = a * SumFunction(d) + b * SumFunction(c)
    <3>1. Combines(g, a, d, b, c, S)
      BY <1>2, <1>6, <1>8, <1>10 DEF Combines
    <3> QED BY <1>2, <3>1, SumLinear
  <2>2. a * 0 + b * (n * 1) = n * b
    BY <1>1, <1>8
  <2> QED BY <1>2, <1>6, <2>1, <2>2
<1>13. SumFunction(h) = w * Spread(S) + n * b
  <2> HIDE DEF w, b
  <2>1. 1 \in Int
    OBVIOUS
  <2>2. SumFunction(h) = w * SumFunction(s) + 1 * SumFunction(g)
    <3>1. Combines(h, w, s, 1, g, S)
      BY <1>3, <1>8, <1>10, <1>11, <2>1 DEF Combines
    <3> QED BY <1>2, <3>1, SumLinear
  <2>3. n * b \in Int
    BY <1>1, <1>8
  <2> QED BY <1>3, <1>12, <2>2, <2>3
<1>14. \A e \in Int : w * (e * e) + 1 * (a * e + b * 1) = (k * e + y) * (k * e + y)
  BY <1>1, <1>5
<1>15. \A p \in S : h[p] = (k * d[p] + y) * (k * d[p] + y)
  <2> HIDE DEF w, a, b
  <2>1. \A p \in S : d[p] \in Int /\ h[p] = w * (d[p] * d[p]) + 1 * (a * d[p] + b * 1)
    BY <1>2, <1>4, <1>7, <1>10, <1>11
  <2> QED BY <1>14, <2>1
<1>16. \A p \in S : h[p] >= 0
  <2>1. \A p \in S : k * d[p] + y \in Int
    BY <1>1, <1>2, <1>5
  <2>2. \A x \in Int : x * x >= 0
    OBVIOUS
  <2> QED BY <1>15, <2>1, <2>2
<1>17. SumFunction(h) >= h[q]
  BY <1>2, <1>11, <1>16, SumBounds
<1>18. h[q] = (n * y) * (n * y)
  <2>1. k * y + y = n * y
    BY <1>1, <1>5
  <2> QED BY <1>5, <1>15, <2>1
<1>19. w * Spread(S) + n * b >= (n * y) * (n * y)
  BY <1>13, <1>17, <1>18
<1>20. k * Spread(S) >= n * b
  <2>1. k * (k * Spread(S) - n * b) >= 0
    <3>1. \A x \in Int : k * (k * x - n * b) = (w * x + n * b) - (n * y) * (n * y)
      BY <1>1, <1>5
    <3>2. w * Spread(S) + n * b \in Int /\ (n * y) * (n * y) \in Int
      BY <1>1, <1>3, <1>5
    <3> QED BY <1>3, <1>19, <3>1, <3>2
  <2> DEFINE e == k * Spread(S) - n * b
  <2>2. e \in Int /\ k * Spread(S) \in Int /\ n * b \in Int
    BY <1>1, <1>3, <1>8
  <2>3. \A x \in Int : k * x >= 0 => x >= 0
    <3>1. \A x \in Int : k * 0 <= k * x => ~(k * x < k * 0)
      BY <1>1
    <3>2. SUFFICES ASSUME NEW x \in Int, k * x >= 0, x < 0 PROVE FALSE
      OBVIOUS
    <3>3. x <= -1 /\ -1 \in Int
      BY <3>2
    <3>4. k * x <= k * (-1)
      BY <1>1, <3>3, ProductsOrder
    <3> QED BY <1>1, <3>2, <3>4
  <2>4. e >= 0
    BY <2>1, <2>2, <2>3
  <2> QED BY <2>2, <2>4
<1> QED BY <1>20 DEF n, k, y, Squared

\* Among fewer than six, what is two deviations from the mean is further from it
\* than any of them.
LEMMA FarIsBeyond ==
    ASSUME NEW S, Summaries(S), Cardinality(S) < 6, NEW q \in S, NEW own, own.mean \in Int, Far(own, S, 2)
    PROVE  Squared(Excess(q, S)) < Squared(Excess(own, S))
<1> DEFINE n == Cardinality(S)
           e == Squared(Excess(own, S))
           y == Squared(Excess(q, S))
           v == Spread(S)
<1>1. n \in Nat /\ n > 0 /\ Excess(own, S) \in Int /\ q.mean \in Int
  BY ExcessIsInt DEF Summaries
<1>2. Excess(q, S) \in Int
  BY <1>1, ExcessIsInt
<1>3. e \in Int /\ e >= 0 /\ y \in Int /\ y >= 0 /\ (e = 0 => Excess(own, S) = 0)
  BY <1>1, <1>2, SquareIsNat
<1>4. v \in Int /\ v >= 0 /\ v >= y
  BY SpreadIsSum
<1>5. IF v = 0 THEN Excess(own, S) # 0 ELSE e * (n - 1) >= 2 * 2 * v
  BY DEF Far
<1>6. n > 1 => (n - 1) * v >= n * y
  BY SpreadOutweighs
<1> HIDE DEF n, e, y, v
<1>7. CASE v = 0
  BY <1>3, <1>4, <1>5, <1>7 DEF e, y
<1>8. CASE v # 0
  <2>1. n > 1
    <3>1. n = 1 => e * (n - 1) = 0
      BY <1>1, <1>3
    <3> QED BY <1>1, <1>4, <1>5, <1>8, <3>1
  <2>2. n = 2 \/ n = 3 \/ n = 4 \/ n = 5
    <3>1. n < 6
      BY DEF n
    <3> QED BY <1>1, <2>1, <3>1
  <2>3. e * (n - 1) >= 4 * v /\ (n - 1) * v >= n * y
    BY <1>5, <1>6, <1>8, <2>1, <1>4
  <2>4. CASE n = 2
    <3>1. e >= 4 * v /\ v >= 2 * y
      BY <1>3, <1>4, <2>3, <2>4
    <3> QED BY <1>3, <1>4, <1>8, <3>1 DEF e, y
  <2>5. CASE n = 3
    <3>1. 2 * e >= 4 * v /\ 2 * v >= 3 * y
      BY <1>3, <1>4, <2>3, <2>5
    <3> QED BY <1>3, <1>4, <1>8, <3>1 DEF e, y
  <2>6. CASE n = 4
    <3>1. 3 * e >= 4 * v /\ 3 * v >= 4 * y
      BY <1>3, <1>4, <2>3, <2>6
    <3> QED BY <1>3, <1>4, <1>8, <3>1 DEF e, y
  <2>7. CASE n = 5
    <3>1. 4 * e >= 4 * v /\ 4 * v >= 5 * y
      BY <1>3, <1>4, <2>3, <2>7
    <3> QED BY <1>3, <1>4, <1>8, <3>1 DEF e, y
  <2> QED BY <2>2, <2>4, <2>5, <2>6, <2>7
<1> QED BY <1>7, <1>8 DEF e, y

LEMMA SquaresOrder ==
    \A x, a \in Int : Squared(x) < Squared(a) => (a > 0 => x < a) /\ (a <= 0 => x > a /\ a < 0)
<1> SUFFICES ASSUME NEW x \in Int, NEW a \in Int, x * x < a * a
             PROVE  (a > 0 => x < a) /\ (a <= 0 => x > a /\ a < 0)
  BY DEF Squared
<1>1. ASSUME NEW p \in Int, NEW q \in Int, 0 <= p, p <= q PROVE p * p <= q * q
  <2>1. p \in Nat /\ q \in Nat
    BY <1>1
  <2>2. p * p <= p * q /\ q * p <= q * q
    BY <1>1, <2>1, ProductsOrder
  <2>3. p * q = q * p
    OBVIOUS
  <2> QED BY <2>2, <2>3
<1>2. a * a = (-a) * (-a) /\ x * x = (-x) * (-x) /\ x * x \in Int /\ a * a \in Int
  OBVIOUS
<1>3. ASSUME a > 0, x >= a PROVE FALSE
  <2>1. a * a <= x * x
    BY <1>1, <1>3
  <2> QED BY <1>2, <2>1
<1>4. ASSUME a <= 0, x <= a PROVE FALSE
  <2>1. 0 <= -a /\ -a <= -x /\ -a \in Int /\ -x \in Int
    BY <1>4
  <2>2. (-a) * (-a) <= (-x) * (-x)
    BY <1>1, <2>1
  <2> QED BY <1>2, <2>2
<1>5. x * x >= 0
  OBVIOUS
<1>6. a # 0
  BY <1>5
<1> QED BY <1>3, <1>4, <1>6

\* What is said of a summary follows its rank.
LEMMA VerdictRight ==
    ASSUME NEW all, Summaries(all), NEW own \in all
    PROVE  LET v == Standing(own, all)
               means == {p \in all : ~p.suppressed /\ p.of # own.of}
               lower == {p \in means : p.mean < own.mean}
               higher == {p \in means : p.mean > own.mean}
           IN /\ v = "none" <=> own.suppressed \/ means = {}
              /\ v \in {"above_peers", "high_outlier"} => lower # {}
              /\ v \in {"below_peers", "low_outlier"} => higher # {}
              /\ v = "high_outlier" /\ Cardinality(means) < 6 => lower = means
              /\ v = "low_outlier" /\ Cardinality(means) < 6 => higher = means
<1> DEFINE v == Standing(own, all)
           S == Usable(own, all)
           e == Excess(own, S)
           lower == {p \in S : p.mean < own.mean}
           higher == {p \in S : p.mean > own.mean}
<1>1. Summaries(S) /\ own.mean \in Int
  BY FS_Subset DEF Summaries, Usable
<1>2. S = {p \in all : ~p.suppressed /\ p.of # own.of}
  BY DEF Usable
<1>3. v = IF own.suppressed \/ S = {} THEN "none"
          ELSE IF ~Far(own, S, 1) THEN "typical"
          ELSE IF Far(own, S, 2) THEN (IF e > 0 THEN "high_outlier" ELSE "low_outlier")
          ELSE IF e > 0 THEN "above_peers" ELSE "below_peers"
  BY DEF Standing
<1>4. Cardinality(S) \in Nat /\ e \in Int /\ \A p \in S : p.mean \in Int /\ Excess(p, S) \in Int
  <2>1. \A p \in S : p.mean \in Int
    BY <1>1 DEF Summaries
  <2> HIDE DEF S
  <2> QED BY <1>1, <2>1, ExcessIsInt
<1>5. \A p \in S : (Excess(p, S) < e => p.mean < own.mean) /\ (Excess(p, S) > e => p.mean > own.mean)
  <2> SUFFICES ASSUME NEW p \in S
               PROVE  (Excess(p, S) < e => p.mean < own.mean) /\ (Excess(p, S) > e => p.mean > own.mean)
    OBVIOUS
  <2> HIDE DEF S
  <2> DEFINE n == Cardinality(S)
             t == Total(S)
             x == p.mean
             o == own.mean
  <2>1. n \in Nat \ {0} /\ t \in Int /\ x \in Int /\ o \in Int
    BY <1>1, <1>4, ExcessIsInt
  <2>2. Excess(p, S) = n * x - t /\ e = n * o - t
    BY DEF Excess
  <2> HIDE DEF n, t, x, o
  <2>3. n * x \in Int /\ n * o \in Int
    BY <2>1
  <2>4. (n * x < n * o => x < o) /\ (n * o < n * x => o < x)
    BY <2>1, ProductsOrder
  <2>5. (n * x - t < n * o - t => x < o) /\ (n * x - t > n * o - t => x > o)
    BY <2>1, <2>3, <2>4
  <2> QED BY <2>2, <2>5 DEF x, o
<1>6. (e > 0 => lower # {}) /\ (e < 0 => higher # {})
  <2> HIDE DEF S
  <2> QED BY <1>1, OneIsBelow
<1>7. ASSUME S # {}, Far(own, S, 1), ~(e > 0) PROVE e < 0
  <2> HIDE DEF S
  <2>1. CASE Spread(S) = 0
    BY <1>4, <1>7, <2>1 DEF Far
  <2>2. CASE Spread(S) # 0
    <3>1. Spread(S) \in Int /\ Spread(S) > 0
      BY <1>1, <2>2, SpreadIsSum
    <3>2. Squared(e) * (Cardinality(S) - 1) >= 1 * 1 * Spread(S)
      BY <1>7, <2>2 DEF Far
    <3>3. e = 0 => Squared(e) * (Cardinality(S) - 1) = 0
      BY <1>4 DEF Squared
    <3>4. e # 0
      BY <3>1, <3>2, <3>3
    <3> QED BY <1>4, <1>7, <3>4
  <2> QED BY <2>1, <2>2
<1>8. ASSUME Far(own, S, 2), Cardinality(S) < 6 PROVE (e > 0 => lower = S) /\ (~(e > 0) => higher = S)
  <2> HIDE DEF S
  <2>1. \A p \in S : Squared(Excess(p, S)) < Squared(e)
    BY <1>1, <1>8, FarIsBeyond
  <2>2. \A p \in S : (e > 0 => Excess(p, S) < e) /\ (e <= 0 => Excess(p, S) > e)
    BY <1>4, <2>1, SquaresOrder
  <2>3. \A p \in S : (e > 0 => p.mean < own.mean) /\ (~(e > 0) => p.mean > own.mean)
    BY <1>4, <1>5, <2>2
  <2> QED BY <2>3
<1> HIDE DEF v, S, e, lower, higher
<1>9. v = "none" <=> own.suppressed \/ S = {}
  BY <1>3
<1>10. v \in {"above_peers", "high_outlier"} => lower # {}
  BY <1>3, <1>6
<1>11. v \in {"below_peers", "low_outlier"} => higher # {}
  BY <1>3, <1>6, <1>7
<1>12. (v = "high_outlier" /\ Cardinality(S) < 6 => lower = S) /\ (v = "low_outlier" /\ Cardinality(S) < 6 => higher = S)
  BY <1>3, <1>8
<1>13. lower = {p \in S : p.mean < own.mean} /\ higher = {p \in S : p.mean > own.mean} /\ v = Standing(own, all)
  BY DEF lower, higher, v
<1> QED BY <1>2, <1>9, <1>10, <1>11, <1>12, <1>13

\* What a site has out, and what it cost.
Out(s, m) == OneOf(published[<<s, m>>])

Owed(s) == [m \in Metrics |-> IF published[<<s, m>>] = {} THEN 0 ELSE Out(s, m).epsilon]

NothingSpentUnpaid == \A s \in Peers : paid[s] = spent[s] /\ SumFunction(Owed(s)) <= spent[s]

Summary == [count : Counts, mean : Means, epsilon : Epsilons]

PrivacyInv ==
    /\ published \in [Peers \X Metrics -> SUBSET Summary]
    /\ spent \in [Peers -> 0..Budget] /\ paid \in [Peers -> Int]
    /\ NothingSpentUnpaid
    /\ \A x \in Peers \X Metrics : \A sum \in published[x] : sum.count >= MinCount
    /\ Summaries(gathered)

LEMMA OwedIsNat ==
    ASSUME PrivacyInv, NEW s \in Peers
    PROVE  Owed(s) \in [Metrics -> Int] /\ \A m \in Metrics : Owed(s)[m] >= 0
<1> SUFFICES ASSUME NEW m \in Metrics
             PROVE  Owed(s)[m] \in Int /\ Owed(s)[m] >= 0
  BY DEF Owed
<1>1. Owed(s)[m] = IF published[<<s, m>>] = {} THEN 0 ELSE Out(s, m).epsilon
  BY DEF Owed
<1>2. published[<<s, m>>] \subseteq Summary
  BY DEF PrivacyInv
<1>3. published[<<s, m>>] # {} => Out(s, m) \in Summary
  BY <1>2 DEF Out, OneOf
<1>4. \A x \in Summary : x.epsilon \in Nat
  BY PrivacyAssumption DEF Summary
<1> QED BY <1>1, <1>3, <1>4

LEMMA ValuesAreFinite ==
    ASSUME NEW T, IsFiniteSet(T), NEW r, DOMAIN r = T
    PROVE  IsFiniteSet({r[s] : s \in T})
<1> DEFINE R == {r[s] : s \in T}
           h == [s \in T |-> r[s]]
<1>1. h \in [T -> R] /\ \A y \in R : \E s \in T : h[s] = y
  OBVIOUS
<1>2. h \in Surjection(T, R)
  BY <1>1 DEF Surjection
<1> HIDE DEF h, R
<1>3. IsFiniteSet(R)
  BY <1>2, FS_Surjection
<1> QED BY <1>3 DEF R

\* What is owed changes with what is out only.
LEMMA SameIsOwed == ASSUME UNCHANGED published PROVE \A s \in Peers : Owed(s)' = Owed(s)
  BY DEF Owed, Out

LEMMA PublishedAreSummaries == ASSUME PrivacyInv, NEW m \in Metrics PROVE Summaries(Published(m))
<1> DEFINE T == {t \in Peers : published[<<t, m>>] # {}}
           r == [s \in T |-> [of |-> s, mean |-> Out(s, m).mean, suppressed |-> FALSE]]
<1>1. Published(m) = {r[s] : s \in T}
  BY DEF Published, Out, OneOf
<1>2. IsFiniteSet(T)
  BY PrivacyAssumption, FS_Subset
<1>3. IsFiniteSet({r[s] : s \in T})
  <2>1. DOMAIN r = T
    OBVIOUS
  <2> HIDE DEF r, T
  <2> QED BY <1>2, <2>1, ValuesAreFinite
<1>4. ASSUME NEW s \in T PROVE r[s].mean \in Int
  <2>1. published[<<s, m>>] \subseteq Summary /\ published[<<s, m>>] # {}
    BY DEF PrivacyInv
  <2>2. Out(s, m) \in Summary
    BY <2>1 DEF Out, OneOf
  <2> QED BY <2>2, PrivacyAssumption DEF Summary
<1> HIDE DEF r, T
<1> QED BY <1>1, <1>3, <1>4 DEF Summaries

LEMMA PublishKeeps ==
    ASSUME PrivacyInv, NEW s \in Peers, NEW m \in Metrics, NEW n \in Counts, NEW x \in Means, NEW e \in Epsilons,
           Publish(s, m, n, x, e)
    PROVE  PrivacyInv'
<1>0. Summaries(gathered)'
  BY FS_EmptySet DEF Publish, Summaries
<1>1. CASE ~(~Suppressed(n) /\ Affordable(s, e))
  <2>1. UNCHANGED <<spent, published, paid>>
    BY <1>1 DEF Publish
  <2>2. \A t \in Peers : Owed(t)' = Owed(t)
    BY <2>1, SameIsOwed
  <2> QED BY <1>0, <2>1, <2>2 DEF PrivacyInv, NothingSpentUnpaid
<1>2. CASE ~Suppressed(n) /\ Affordable(s, e)
  <2> DEFINE sum == [count |-> n, mean |-> x, epsilon |-> e]
  <2>1. /\ spent' = [spent EXCEPT ![s] = spent[s] + e] /\ paid' = [paid EXCEPT ![s] = paid[s] + e]
        /\ published' = [published EXCEPT ![<<s, m>>] = {sum}]
    BY <1>2 DEF Publish
  <2>2. n \in Nat /\ e \in Nat /\ MinCount \in Nat /\ Budget \in Nat /\ n >= MinCount /\ spent[s] + e <= Budget
    BY <1>2, PrivacyAssumption DEF Suppressed, Affordable
  <2>3. sum \in Summary /\ sum.count = n /\ sum.epsilon = e
    BY DEF Summary
  <2> HIDE DEF sum
  <2>4. <<s, m>> \in Peers \X Metrics
    OBVIOUS
  <2>5. published' \in [Peers \X Metrics -> SUBSET Summary]
    BY <2>1, <2>3, <2>4 DEF PrivacyInv
  <2>6. \A y \in Peers \X Metrics : \A z \in published'[y] : z.count >= MinCount
    <3> SUFFICES ASSUME NEW y \in Peers \X Metrics, NEW z \in published'[y] PROVE z.count >= MinCount
      OBVIOUS
    <3>1. CASE y = <<s, m>>
      BY <2>1, <2>2, <2>3, <3>1 DEF PrivacyInv
    <3>2. CASE y # <<s, m>>
      BY <2>1, <3>2 DEF PrivacyInv
    <3> QED BY <3>1, <3>2
  <2>7. spent[s] \in Nat /\ spent[s] + e \in 0..Budget /\ paid[s] = spent[s]
    BY <2>2 DEF PrivacyInv, NothingSpentUnpaid
  <2>8. spent' \in [Peers -> 0..Budget] /\ paid' \in [Peers -> Int]
    BY <2>1, <2>7 DEF PrivacyInv
  <2>9. \A t \in Peers : Owed(t) \in [Metrics -> Int] /\ (\A k \in Metrics : Owed(t)[k] >= 0)
    BY OwedIsNat
  <2>10. \A t \in Peers \ {s} : Owed(t)' = Owed(t)
    <3> SUFFICES ASSUME NEW t \in Peers \ {s} PROVE Owed(t)' = Owed(t)
      OBVIOUS
    <3>1. \A k \in Metrics : published'[<<t, k>>] = published[<<t, k>>]
      BY <2>1 DEF PrivacyInv
    <3> QED BY <3>1 DEF Owed, Out
  <2>11. SumFunction(Owed(s)') <= spent[s] + e
    <3>1. \A k \in Metrics \ {m} : published'[<<s, k>>] = published[<<s, k>>]
      BY <2>1 DEF PrivacyInv
    <3>2. published'[<<s, m>>] = {sum}
      BY <2>1, <2>4 DEF PrivacyInv
    <3>3. Out(s, m)' = sum
      BY <3>2 DEF Out, OneOf
    <3>4. \A k \in Metrics \ {m} : Out(s, k)' = Out(s, k)
      BY <3>1 DEF Out
    <3>5. Owed(s)' = [Owed(s) EXCEPT ![m] = e]
      <4>1. Owed(s)' = [k \in Metrics |-> IF published'[<<s, k>>] = {} THEN 0 ELSE Out(s, k)'.epsilon]
        BY DEF Owed
      <4>2. \A k \in Metrics : (IF published'[<<s, k>>] = {} THEN 0 ELSE Out(s, k)'.epsilon)
                               = IF k = m THEN e ELSE Owed(s)[k]
        BY <2>3, <3>1, <3>2, <3>3, <3>4 DEF Owed
      <4> QED BY <2>9, <4>1, <4>2
    <3> DEFINE f == Owed(s)
               g == Owed(s)'
    <3>6. f \in [Metrics -> Int] /\ f[m] >= 0 /\ SumFunction(f) <= spent[s] /\ IsFiniteSet(Metrics)
      BY <2>9, PrivacyAssumption DEF PrivacyInv, NothingSpentUnpaid
    <3>7. g \in [Metrics -> Int] /\ g[m] = e /\ \A k \in Metrics \ {m} : f[k] = g[k]
      BY <2>2, <3>5, <3>6
    <3> HIDE DEF f, g
    <3>8. SumFunction(g) = SumFunction(f) - f[m] + g[m] /\ SumFunction(f) \in Int
      BY <3>6, <3>7, SumChanges, SumIsInt
    <3>9. SumFunction(g) <= spent[s] + e
      BY <2>2, <2>7, <3>6, <3>7, <3>8
    <3> QED BY <3>9 DEF g
  <2>12. NothingSpentUnpaid'
    <3> SUFFICES ASSUME NEW t \in Peers PROVE paid'[t] = spent'[t] /\ SumFunction(Owed(t)') <= spent'[t]
      BY DEF NothingSpentUnpaid
    <3>1. CASE t = s
      BY <2>1, <2>7, <2>11, <3>1 DEF PrivacyInv
    <3>2. CASE t # s
      BY <2>1, <2>10, <3>2 DEF PrivacyInv, NothingSpentUnpaid
    <3> QED BY <3>1, <3>2
  <2> QED BY <1>0, <2>5, <2>6, <2>8, <2>12 DEF PrivacyInv
<1> QED BY <1>1, <1>2

\* Where nothing is out, nothing is owed.
LEMMA NothingOwed ==
    ASSUME published = [x \in Peers \X Metrics |-> {}]
    PROVE  \A s \in Peers : SumFunction(Owed(s)) = 0
<1> SUFFICES ASSUME NEW s \in Peers PROVE SumFunction(Owed(s)) = 0
  OBVIOUS
<1>1. Owed(s) = [m \in Metrics |-> 0]
  BY DEF Owed
<1>2. IsFiniteSet(Metrics) /\ 0 \in Int /\ Cardinality(Metrics) \in Nat
  BY PrivacyAssumption, FS_CardinalityType
<1>3. SumFunction([m \in Metrics |-> 0]) = Cardinality(Metrics) * 0
  BY <1>2, SumConstant
<1> QED BY <1>1, <1>2, <1>3

LEMMA CollectKeeps ==
    ASSUME PrivacyInv, NEW m \in Metrics, NEW A \in SUBSET Peers, Collect(m, A)
    PROVE  PrivacyInv'
<1> DEFINE T == {t \in A : published[<<t, m>>] = {}}
           r == [s \in T |-> [of |-> s, mean |-> 0, suppressed |-> TRUE]]
           P == {p \in Published(m) : p.of \in A}
           Q == {r[s] : s \in T}
<1>1. gathered' = P \cup Q
  BY DEF Collect
<1>2. IsFiniteSet(P) /\ \A p \in P : p.mean \in Int
  <2>1. Summaries(Published(m))
    BY PublishedAreSummaries
  <2> QED BY <2>1, FS_Subset DEF Summaries
<1>3. IsFiniteSet(T)
  BY PrivacyAssumption, FS_Subset
<1>4. IsFiniteSet(Q)
  <2>1. DOMAIN r = T
    OBVIOUS
  <2> HIDE DEF r, T
  <2> QED BY <1>3, <2>1, ValuesAreFinite
<1>5. \A q \in Q : q.mean \in Int
  <2> SUFFICES ASSUME NEW q \in Q PROVE q.mean \in Int
    OBVIOUS
  <2>1. PICK s \in T : q = [of |-> s, mean |-> 0, suppressed |-> TRUE]
    OBVIOUS
  <2> QED BY <2>1
<1> HIDE DEF P, Q
<1>6. Summaries(P \cup Q)
  BY <1>2, <1>4, <1>5, FS_Union DEF Summaries
<1>7. Summaries(gathered)'
  BY <1>1, <1>6
<1>8. UNCHANGED <<spent, published, paid>> /\ \A t \in Peers : Owed(t)' = Owed(t)
  BY SameIsOwed DEF Collect
<1> QED BY <1>7, <1>8 DEF PrivacyInv, NothingSpentUnpaid

\* What a site lets out is paid for, never beyond its budget, and stands for as
\* many samples as it takes to hide one of them; what is said of it among the
\* others follows from the ranks, and for fewer than six of them an outlier is
\* beyond all.
THEOREM StatisticsStayPrivateHolds == PrivacySpec => []StatisticsStayPrivate
<1>1. PrivacyInit => PrivacyInv
  <2> SUFFICES ASSUME PrivacyInit PROVE PrivacyInv
    OBVIOUS
  <2>1. \A s \in Peers : SumFunction(Owed(s)) = 0
    BY NothingOwed DEF PrivacyInit
  <2> QED BY <2>1, PrivacyAssumption, FS_EmptySet DEF PrivacyInit, PrivacyInv, NothingSpentUnpaid, Summaries
<1>2. PrivacyInv /\ [PrivacyNext]_privacyVars => PrivacyInv'
  <2> SUFFICES ASSUME PrivacyInv, [PrivacyNext]_privacyVars PROVE PrivacyInv'
    OBVIOUS
  <2>1. CASE UNCHANGED privacyVars
    <3>1. UNCHANGED <<spent, published, paid, gathered>> /\ \A t \in Peers : Owed(t)' = Owed(t)
      BY <2>1, SameIsOwed DEF privacyVars
    <3> QED BY <3>1 DEF PrivacyInv, NothingSpentUnpaid, Summaries
  <2>2. CASE ResetExchange
    <3>1. published' = [x \in Peers \X Metrics |-> {}]
      BY <2>2 DEF ResetExchange
    <3>2. \A s \in Peers : SumFunction(Owed(s)') = 0
      <4> SUFFICES ASSUME NEW s \in Peers PROVE SumFunction(Owed(s)') = 0
        OBVIOUS
      <4>1. Owed(s)' = [m \in Metrics |-> 0]
        BY <3>1 DEF Owed
      <4>2. IsFiniteSet(Metrics) /\ 0 \in Int /\ Cardinality(Metrics) \in Nat
        BY PrivacyAssumption, FS_CardinalityType
      <4>3. SumFunction([m \in Metrics |-> 0]) = Cardinality(Metrics) * 0
        BY <4>2, SumConstant
      <4> QED BY <4>1, <4>2, <4>3
    <3>3. NothingSpentUnpaid'
      BY <2>2, <3>2 DEF ResetExchange, NothingSpentUnpaid
    <3>4. Summaries(gathered)'
      BY <2>2, FS_EmptySet DEF ResetExchange, Summaries
    <3> QED BY <2>2, <3>3, <3>4, PrivacyAssumption DEF ResetExchange, PrivacyInv
  <2>3. ASSUME NEW m \in Metrics, NEW A \in SUBSET Peers, Collect(m, A) PROVE PrivacyInv'
    BY <2>3, CollectKeeps
  <2> QED BY <2>1, <2>2, <2>3, PublishKeeps DEF PrivacyNext
<1>3. PrivacyInv => StatisticsStayPrivate
  <2> SUFFICES ASSUME PrivacyInv PROVE PrivacyTypeOK /\ BudgetKept /\ VerdictFollowsRank
    BY DEF StatisticsStayPrivate
  <2>1. PrivacyTypeOK
    BY DEF PrivacyInv, PrivacyTypeOK
  <2>2. BudgetKept
    <3> SUFFICES ASSUME NEW s \in Peers
                 PROVE  paid[s] = spent[s] /\ spent[s] <= Budget /\ SumFunction(Owed(s)) <= spent[s]
      BY DEF BudgetKept, Owed, Out, OneOf
    <3> QED BY PrivacyAssumption DEF PrivacyInv, NothingSpentUnpaid
  <2>3. \A all \in {Published(m) : m \in Metrics} \cup {gathered} : Summaries(all)
    BY PublishedAreSummaries DEF PrivacyInv
  <2>4. VerdictFollowsRank
    BY <2>3, VerdictRight DEF VerdictFollowsRank
  <2> QED BY <2>1, <2>2, <2>4
<1> QED BY <1>1, <1>2, <1>3, PTL DEF PrivacySpec
=================================================================================
