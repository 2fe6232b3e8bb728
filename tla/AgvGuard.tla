------------------------------ MODULE AgvGuard ------------------------------
(***************************************************************************)
(* The distance guard of the vehicles (analytics/agv_guard.py) and the     *)
(* list of commands it fills (backend/api/prediction.py).  A vehicle polls *)
(* the list; the guard itself only knows which level it last commanded.    *)
(* Distances are centimetres, stamps are seconds; the speed is a quotient  *)
(* of two differences and is compared by cross multiplication.             *)
(***************************************************************************)
EXTENDS Integers, Sequences, FiniteSets

CONSTANTS
    Vehicles, Distances,
    StopDistance, SlowDistance, ClearDistance,
    MaxPoints,         \* the deque of a vehicle
    MaxControlQueue,
    MaxStamp, MaxDistances   \* bounds: the stamps, the readings between two resets

ASSUME AgvAssumption ==
    /\ StopDistance \in Nat /\ SlowDistance \in Nat /\ ClearDistance \in Nat
    /\ StopDistance <= SlowDistance /\ SlowDistance <= ClearDistance
    /\ Distances \subseteq Nat
    /\ MaxPoints \in Nat \ {0} /\ MaxControlQueue \in Nat \ {0}
    /\ MaxStamp \in Nat /\ MaxDistances \in Nat

VARIABLES
    points,    \* _series: what each vehicle measured, in order of arrival
    level,     \* _state
    shown,     \* _agv_state: the level the status endpoint shows
    queue,     \* _control_queue, newest first
    measured   \* the number of readings since the last reset (bounds the model)

agvVars == <<points, level, shown, queue, measured>>

Level == {"clear", "slow", "stop"}

Order == [vehicle : Vehicles, action : {"stop", "slow", "resume"}, distance : Distances]

Point == [at : 0..MaxStamp, distance : Distances]

---------------------------------------------------------------------------
(* push_distance *)

LastPoints(seq) ==
    IF Len(seq) > MaxPoints THEN SubSeq(seq, Len(seq) - MaxPoints + 1, Len(seq)) ELSE seq

\* The way closed and the time it took, between the oldest and the newest point
\* of the window: no time, no speed.
Closing(seq) ==
    LET first == seq[1]
        last == seq[Len(seq)]
    IN IF Len(seq) >= 2 /\ last.at > first.at
       THEN [way |-> first.distance - last.distance, time |-> last.at - first.at]
       ELSE [way |-> 0, time |-> 1]

\* speed above 0.5 cm/s
Moving(c) == 2 * c.way > c.time

\* distance <= 0.35 v + v^2 / 90: nothing is left of the braking distance
CannotBrake(d, c) ==
    Moving(c) /\ 1800 * d * c.time * c.time <= 630 * c.way * c.time + 20 * c.way * c.way

\* impact in three seconds or less
ImpactSoon(d, c) == Moving(c) /\ d * c.time <= 3 * c.way

Zone(seq) ==
    LET d == seq[Len(seq)].distance
        c == Closing(seq)
    IN CASE d <= StopDistance \/ CannotBrake(d, c) -> "stop"
         [] ~(d <= StopDistance \/ CannotBrake(d, c))
              /\ (d <= SlowDistance \/ ImpactSoon(d, c)) -> "slow"
         [] OTHER -> "clear"

\* mutant: the way is clear as soon as it is out of the slow zone
NoHysteresis(v, seq) == Zone(seq)

\* The level is held until the way is clear by the larger distance.
NextLevel(v, seq) ==
    IF Zone(seq) = "clear" /\ level[v] # "clear" /\ seq[Len(seq)].distance < ClearDistance
    THEN level[v] ELSE Zone(seq)

Action(l) == IF l = "clear" THEN "resume" ELSE l

---------------------------------------------------------------------------
(* process_reading *)

\* a command is given when the level changes
Ordered(v, new, d) ==
    LET longer == <<[vehicle |-> v, action |-> Action(new), distance |-> d]>> \o queue
    IN IF new = level[v] THEN queue
       ELSE IF Len(longer) > MaxControlQueue THEN SubSeq(longer, 1, MaxControlQueue) ELSE longer

PushDistance(v, d, t) ==
    /\ measured < MaxDistances
    /\ measured' = measured + 1
    /\ points' = [points EXCEPT ![v] = LastPoints(Append(@, [at |-> t, distance |-> d]))]
    /\ LET new == NextLevel(v, points'[v])
       IN /\ level' = [level EXCEPT ![v] = new]
          /\ shown' = [w \in DOMAIN shown \cup {v} |-> IF w = v THEN new ELSE shown[w]]
          /\ queue' = Ordered(v, new, d)

\* POST /analytics/reset
ResetGuard ==
    /\ points' = [v \in Vehicles |-> <<>>]
    /\ level' = [v \in Vehicles |-> "clear"]
    /\ shown' = << >>
    /\ queue' = << >>
    /\ measured' = 0

---------------------------------------------------------------------------
AgvInit ==
    /\ points = [v \in Vehicles |-> <<>>]
    /\ level = [v \in Vehicles |-> "clear"]
    /\ shown = << >>
    /\ queue = << >>
    /\ measured = 0

AgvNext ==
    \/ \E v \in Vehicles, d \in Distances, t \in 0..MaxStamp : PushDistance(v, d, t)
    \/ ResetGuard

AgvSpec == AgvInit /\ [][AgvNext]_agvVars

---------------------------------------------------------------------------
(* Properties *)

\* The shape of the windows, the levels and the list, which stays bounded.
AgvTypeOK ==
    /\ points \in [Vehicles -> Seq(Point)]
    /\ \A v \in Vehicles : Len(points[v]) <= MaxPoints
    /\ level \in [Vehicles -> Level]
    /\ DOMAIN shown \subseteq Vehicles
    /\ queue \in Seq(Order) /\ Len(queue) <= MaxControlQueue
    /\ measured \in 0..MaxDistances

OrdersFor(v) == {i \in DOMAIN queue : queue[i].vehicle = v}

\* A vehicle that obeys the newest command in the list does what the guard
\* believes it does, and what the status shows; a vehicle without a command in
\* the list runs free, unless the commands of the others pushed its own out.
NewestOrderIsLevel ==
    \A v \in Vehicles :
        /\ v \in DOMAIN shown => shown[v] = level[v]
        /\ IF OrdersFor(v) = {}
           THEN level[v] = "clear" \/ Len(queue) = MaxControlQueue
           ELSE LET newest == CHOOSE i \in OrdersFor(v) : \A j \in OrdersFor(v) : i <= j
                IN queue[newest].action = Action(level[v])

\* Stop or slow is followed by one resume, and no command is repeated: what
\* the vehicle does next differs from what it did.
NoOrderTwice ==
    \A i, j \in DOMAIN queue :
        /\ i < j /\ queue[i].vehicle = queue[j].vehicle
        /\ \A k \in i + 1..j - 1 : queue[k].vehicle # queue[i].vehicle
        => queue[i].action # queue[j].action

\* A vehicle is told to resume only with the clear distance before it, and
\* never while its window says that it will hit the obstacle within three
\* seconds or cannot brake any more.
ResumedIsClear ==
    [][\A v \in Vehicles :
          /\ level[v] # "clear" /\ level'[v] = "clear" /\ points'[v] # <<>>
          => LET last == points'[v][Len(points'[v])]
                 c == Closing(points'[v])
             IN /\ last.distance >= ClearDistance
                /\ ~CannotBrake(last.distance, c) /\ ~ImpactSoon(last.distance, c)]_agvVars

\* Approaching faster than the brakes allow stops the vehicle wherever it is,
\* and a stopped one that still closes in is never let go.
UnsafeIsStopped ==
    \A v \in Vehicles :
        points[v] # <<>> =>
            LET d == points[v][Len(points[v])].distance
                c == Closing(points[v])
            IN /\ d <= StopDistance \/ CannotBrake(d, c) => level[v] = "stop"
               /\ d <= SlowDistance \/ ImpactSoon(d, c) => level[v] # "clear"

\* Who follows the list of commands is where the guard believes it is, stops in
\* time, and goes on only when the way is clear by the larger distance.
VehicleObeysDistance ==
    /\ [](AgvTypeOK /\ NewestOrderIsLevel /\ NoOrderTwice /\ UnsafeIsStopped)
    /\ ResumedIsClear
===========================================================================
