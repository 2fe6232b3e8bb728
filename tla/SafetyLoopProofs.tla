------------------------- MODULE SafetyLoopProofs -------------------------
(***************************************************************************)
(* Theorems about SafetyLoop, for every set of rules, policies and         *)
(* readings and every choice of durations its assumptions allow.           *)
(***************************************************************************)
EXTENDS SafetyLoop, FiniteSetTheorems, TLAPS

\* What a reading needs of its inputs: the new facts are single-valued, the
\* engagement times are stamps.
LEMMA ReadingInputs ==
    ASSUME TypeOK, NEW m \in Readings, NEW now \in Time
    PROVE  LET fs == Observed(m, now)
               fired == Fired(fs, now)
           IN  /\ \A f \in fs : f.prop \in Props /\ f.value \in Int /\ f.at \in Time
               /\ \A f, g \in fs : f.prop = g.prop => f = g
               /\ fired \subseteq Rules
               /\ EngagedAfter(fired, now) \in [Policies -> Stamp]
BY ShapeAssumption DEF TypeOK, Observed, Fired, EngagedAfter, Stamp

\* The decisions of one reading: each new one has one place among them.
LEMMA OrderPlaces ==
    ASSUME NEW S \in SUBSET Policies, NEW order \in Orders(S)
    PROVE  /\ Len(order) \in Nat /\ DOMAIN order = 1..Len(order)
           /\ \A i \in 1..Len(order) : order[i] \in S
           /\ \A p \in S :
                 /\ PlaceIn(order, p) \in 1..Len(order)
                 /\ \A j \in 1..Len(order) : order[j] = p <=> j = PlaceIn(order, p)
<1>1. Cardinality(S) \in Nat
  BY FS_Subset, FS_CardinalityType, ShapeAssumption
<1>2. order \in [1..Cardinality(S) -> S]
  BY DEF Orders
<1>3. Len(order) = Cardinality(S)
  BY <1>1, <1>2
<1>4. \A p \in S : \E i \in DOMAIN order : \A j \in DOMAIN order : order[j] = p <=> j = i
  BY DEF Orders
<1>5. DOMAIN order = 1..Len(order)
  BY <1>2, <1>3
<1>6. ASSUME NEW p \in S
      PROVE  /\ PlaceIn(order, p) \in 1..Len(order)
             /\ \A j \in 1..Len(order) : order[j] = p <=> j = PlaceIn(order, p)
  <2>1. PICK i \in DOMAIN order : \A j \in DOMAIN order : order[j] = p <=> j = i
    BY <1>4, <1>6
  <2>2. PlaceIn(order, p) = i
    BY <2>1 DEF PlaceIn
  <2> QED BY <1>5, <2>1, <2>2
<1> QED BY <1>1, <1>2, <1>3, <1>5, <1>6

\* What record and touch_active make of the ledger: the new decisions in
\* front, the others behind them in their order, MaxRecords at most.
LEMMA LedgerAfter ==
    ASSUME TypeOK, NEW S \in SUBSET Policies, NEW order \in Orders(S), NEW P,
           NEW l, l = Recorded(Touched(ledger, P), order)
    PROVE  /\ l \in Seq([policy : Policies, count : Nat]) /\ Len(l) <= MaxRecords
           /\ DOMAIN l = {k \in 1..(Len(order) + Len(ledger)) : k <= MaxRecords}
           /\ \A i \in DOMAIN l :
                 l[i].policy = IF i <= Len(order) THEN order[i] ELSE ledger[i - Len(order)].policy
<1> DEFINE R == [policy : Policies, count : Nat]
           t == Touched(ledger, P)
           n == Len(order) + Len(ledger)
<1>1. ledger \in Seq(R) /\ Len(ledger) \in Nat /\ Len(order) \in Nat /\ MaxRecords \in Nat
  <2>1. ledger \in Seq(R) /\ MaxRecords \in Nat
    BY DurationAssumption DEF TypeOK
  <2>2. Len(order) \in Nat
    BY OrderPlaces
  <2> QED BY <2>1, <2>2
<1>2. DOMAIN ledger = 1..Len(ledger) /\ \A i \in 1..Len(ledger) : ledger[i] \in R
  <2> HIDE DEF R
  <2> QED BY <1>1
<1>3. /\ DOMAIN t = 1..Len(ledger) /\ Len(t) = Len(ledger)
      /\ \A i \in 1..Len(ledger) : t[i] \in R /\ t[i].policy = ledger[i].policy
  <2>1. DOMAIN t = 1..Len(ledger) /\ Len(t) = Len(ledger)
    BY <1>1, <1>2 DEF Touched
  <2>2. ASSUME NEW i \in 1..Len(ledger)
        PROVE  t[i] \in R /\ t[i].policy = ledger[i].policy
    <3>1. ledger[i] \in R /\ i \in DOMAIN ledger
      BY <1>2, <2>2
    <3>2. t[i] = ledger[i] \/ t[i] = [ledger[i] EXCEPT !.count = @ + 1]
      BY <3>1 DEF Touched
    <3> QED BY <3>1, <3>2
  <2> QED BY <2>1, <2>2
<1>4. \A i \in 1..Len(order) : order[i] \in Policies
  BY OrderPlaces
<1> HIDE DEF t
<1>5. DOMAIN l = {k \in 1..n : k <= MaxRecords}
  BY <1>3 DEF Recorded, t
<1>6. \A i \in DOMAIN l :
         l[i] = IF i <= Len(order) THEN [policy |-> order[i], count |-> 1] ELSE t[i - Len(order)]
  BY <1>3, <1>5 DEF Recorded, t
<1>7. PICK c \in Nat : c <= MaxRecords /\ {k \in 1..n : k <= MaxRecords} = 1..c
  <2>1. CASE n <= MaxRecords
    BY <1>1, <2>1
  <2>2. CASE ~(n <= MaxRecords)
    BY <1>1, <2>2
  <2> QED BY <2>1, <2>2
<1>8. \A i \in DOMAIN l : l[i] \in R
  BY <1>1, <1>3, <1>4, <1>5, <1>6
<1>9. l \in Seq(R) /\ Len(l) <= MaxRecords
  <2>1. l = [i \in 1..c |-> l[i]]
    BY <1>5, <1>7 DEF Recorded
  <2>2. \A i \in 1..c : l[i] \in R
    BY <1>5, <1>7, <1>8
  <2>3. l \in [1..c -> R] /\ c \in Nat
    BY <1>7, <2>1, <2>2
  <2> HIDE DEF R
  <2>4. l \in Seq(R) /\ Len(l) = c
    BY <2>3
  <2> QED BY <1>7, <2>4
<1> QED BY <1>1, <1>3, <1>5, <1>6, <1>9

LEMMA EffectsType ==
    ASSUME TypeOK, NEW now \in Time,
           NEW fs, NEW fired \in SUBSET Rules, NEW started \in SUBSET Policies,
           NEW order \in Orders(started),
           NEW eng \in [Policies -> Stamp], NEW released \in SUBSET Policies,
           \A f \in fs : f.prop \in Props /\ f.value \in Int /\ f.at \in Time,
           \A f, g \in fs : f.prop = g.prop => f = g,
           Effects(fs, fired, started, order, eng, released, now)
    PROVE  TypeOK'
<1> USE DEF TypeOK, Effects
<1>1. clock' \in Time /\ override' \subseteq Overridable
  OBVIOUS
<1>2. /\ lastFired' \in [Rules -> Stamp]
      /\ engaged' \in [Policies -> Stamp]
      /\ lastAction' \in [Policies -> Stamp]
      /\ lastHeard' \in [Policies -> Stamp]
  BY DEF Stamp
<1>3. ignored' \in [Policies -> [Rules -> Nat]]
  OBVIOUS
<1>4. issued' \subseteq [policy : Policies, device : Device, kind : {"engage", "release"}]
  BY DEF Command, Device
<1>5. commanded' \in [Device -> [kind : {"none", "engage", "release"}, at : Stamp]]
  BY DEF Commanded, Stamp
<1>6. ledger' \in Seq([policy : Policies, count : Nat]) /\ Len(ledger') <= MaxRecords
  BY LedgerAfter
<1>7. since' \in [Policies -> Nat]
  <2>1. Len(order) \in Nat /\ \A p \in started : PlaceIn(order, p) \in 1..Len(order)
    BY OrderPlaces
  <2> QED BY <2>1
<1> QED BY <1>1, <1>2, <1>3, <1>4, <1>5, <1>6, <1>7

\* Every reachable state is well typed: in particular the facts hold at most
\* one value per property (HazardReasoner._facts).
THEOREM TypeCorrect == Spec => []TypeOK
<1>1. Init => TypeOK
  BY DurationAssumption DEF Init, TypeOK, Never, Stamp, Time
<1>2. TypeOK /\ [Next]_vars => TypeOK'
  <2> SUFFICES ASSUME TypeOK, [Next]_vars
               PROVE  TypeOK'
    OBVIOUS
  <2>1. ASSUME NEW m \in Readings, NEW now \in Time, ProcessReading(m, now)
        PROVE  TypeOK'
    BY <2>1, ReadingInputs, EffectsType DEF ProcessReading, Started, Released
  <2> USE DEF TypeOK
  <2>2. ASSUME NEW p \in Overridable, NEW active \in BOOLEAN, SetManualOverride(p, active)
        PROVE  TypeOK'
    BY <2>2 DEF SetManualOverride, reasoner, history
  <2>3. CASE ResetAnalytics
    <3>1. << >> \in Seq([policy : Policies, count : Nat]) /\ Len(<< >>) = 0 /\ 0 <= MaxRecords
      BY DurationAssumption
    <3>2. ledger' \in Seq([policy : Policies, count : Nat]) /\ Len(ledger') <= MaxRecords
      BY <2>3, <3>1 DEF ResetAnalytics
    <3> QED BY <2>3, <3>2 DEF ResetAnalytics, ResetSafety, Never, Stamp
  <2>4. CASE Advance
    BY <2>4, DurationAssumption DEF Advance, reasoner, safety, history, Time
  <2>5. CASE UNCHANGED vars
    BY <2>5 DEF vars, reasoner, safety, history
  <2> QED BY <2>1, <2>2, <2>3, <2>4, <2>5 DEF Next, Reading
<1> QED BY <1>1, <1>2, PTL DEF Spec

\* The commands one reading issues.
LEMMA ReadingIssues ==
    ASSUME NEW m, NEW now, ProcessReading(m, now)
    PROVE  LET fired == Fired(Observed(m, now), now)
           IN  issued' = {Command(p, "engage") : p \in Started(fired, now)}
                  \cup {Command(p, "release") : p \in Released(EngagedAfter(fired, now), now)}
BY DEF ProcessReading, Effects

LEMMA ReleaseIssued ==
    ASSUME NEW m, NEW now, ProcessReading(m, now), NEW p \in Policies,
           Command(p, "release") \in issued'
    PROVE  p \in Released(EngagedAfter(Fired(Observed(m, now), now), now), now)
BY ReadingIssues DEF Command

\* A firing reading gives its policy the engagement time tick compares with,
\* so tick sees no time elapsed.
LEMMA FiringHolds ==
    ASSUME TypeOK, NEW p \in Policies, NEW fired, NEW now \in Time, Hit(p, fired)
    PROVE  p \notin Released(EngagedAfter(fired, now), now)
<1> SUFFICES ASSUME p \notin override
             PROVE  \/ EngagedAfter(fired, now)[p] = now
                    \/ EngagedAfter(fired, now)[p] = Never
  BY DurationAssumption DEF Released, Time
<1> QED BY DEF EngagedAfter, Refreshed, Started, Engaged

\* No reading releases a policy one of whose hazards it fires, for readings
\* arbitrarily late and any use of the manual override.
THEOREM NoReleaseOnFiringHolds == Spec => NoReleaseOnFiring
<1> DEFINE Good == \A p \in Policies :
                      Command(p, "release") \in issued' => ~FiresNow(p)
<1>1. TypeOK /\ [Next]_vars => [Good]_vars
  <2> SUFFICES ASSUME TypeOK, Next
               PROVE  Good
    OBVIOUS
  <2>1. ASSUME NEW m \in Readings, NEW now \in Time, ProcessReading(m, now)
        PROVE  Good
    <3> DEFINE fired == Fired(Observed(m, now), now)
               released == Released(EngagedAfter(fired, now), now)
    <3> SUFFICES ASSUME NEW p \in Policies,
                        Command(p, "release") \in issued', FiresNow(p)
                 PROVE  FALSE
      OBVIOUS
    <3>1. p \in released
      BY <2>1, ReleaseIssued
    <3>2. Hit(p, fired)
      BY <2>1, ShapeAssumption DEF ProcessReading, Effects, FiresNow, Hit, TypeOK
    <3> QED BY <3>1, <3>2, FiringHolds
  <2>2. issued' = {} => Good
    OBVIOUS
  <2> QED
    BY <2>1, <2>2 DEF Next, Reading, SetManualOverride, ResetAnalytics, Advance
<1> QED BY <1>1, TypeCorrect, PTL DEF Spec, NoReleaseOnFiring

\* What a policy still engaged after a reading was before it: engaged, and
\* not commanded now, unless this reading engages it.
LEMMA StillEngaged ==
    ASSUME NEW m, NEW now, NEW p \in Policies, ProcessReading(m, now), Engaged(p)',
           p \notin Started(Fired(Observed(m, now), now), now)
    PROVE  /\ Engaged(p)
           /\ p \notin Released(EngagedAfter(Fired(Observed(m, now), now), now), now)
BY DEF ProcessReading, Effects, EngagedAfter, Refreshed, Engaged

\* Readings, overrides and resets leave every engaged policy its decision,
\* behind those made since, until the ledger is full of them.
THEOREM EngagedHasDecisionHolds == Spec => []EngagedHasDecision
<1>1. Init => EngagedHasDecision
  BY DEF Init, EngagedHasDecision, Engaged
<1>2. TypeOK /\ EngagedHasDecision /\ [Next]_vars => EngagedHasDecision'
  <2> SUFFICES ASSUME TypeOK, EngagedHasDecision, [Next]_vars
               PROVE  EngagedHasDecision'
    OBVIOUS
  <2>1. ASSUME NEW m \in Readings, NEW now \in Time, ProcessReading(m, now)
        PROVE  EngagedHasDecision'
    <3> DEFINE fired == Fired(Observed(m, now), now)
               started == Started(fired, now)
               released == Released(EngagedAfter(fired, now), now)
               touched == {p \in Policies : Engaged(p) /\ Hit(p, fired)}
    <3>1. PICK order \in Orders(started) :
             Effects(Observed(m, now), fired, started, order, EngagedAfter(fired, now), released, now)
      BY <2>1 DEF ProcessReading
    <3>2. started \subseteq Policies
      BY DEF Started
    <3> DEFINE n == Len(order)
    <3>3. ledger' = Recorded(Touched(ledger, touched), order)
      BY <3>1 DEF Effects
    <3>4. /\ DOMAIN ledger' = {k \in 1..(n + Len(ledger)) : k <= MaxRecords}
          /\ \A i \in DOMAIN ledger' :
                 ledger'[i].policy = IF i <= n THEN order[i] ELSE ledger[i - n].policy
      <4> HIDE DEF started, released, touched
      <4> QED BY <3>2, <3>3, LedgerAfter
    <3>5. n \in Nat /\ Len(ledger) \in Nat /\ DOMAIN ledger = 1..Len(ledger) /\ MaxRecords \in Nat
      BY <3>2, OrderPlaces, DurationAssumption DEF TypeOK
    <3> SUFFICES ASSUME NEW p \in Policies, Engaged(p)'
                 PROVE  /\ since'[p] < MaxRecords =>
                              since'[p] + 1 \in DOMAIN ledger' /\ ledger'[since'[p] + 1].policy = p
                        /\ \A i \in DOMAIN ledger' : ledger'[i].policy = p => i > since'[p]
      BY DEF EngagedHasDecision
    <3>6. p \notin released
      BY <3>1 DEF Effects, Engaged
    <3>7. CASE p \in started
      <4>1. PICK k \in 1..n : PlaceIn(order, p) = k /\ \A j \in 1..n : order[j] = p <=> j = k
        BY <3>2, <3>7, OrderPlaces
      <4>2. since'[p] = k - 1
        BY <3>1, <3>6, <3>7, <4>1 DEF Effects
      <4> HIDE DEF n, started, released
      <4> QED BY <3>4, <3>5, <4>1, <4>2
    <3>8. CASE p \notin started
      <4>1. Engaged(p)
        BY <2>1, <3>8, StillEngaged
      <4>2. since'[p] = since[p] + n
        BY <3>1, <3>6, <3>8, <4>1 DEF Effects
      <4>3. \A i \in 1..n : order[i] # p
        BY <3>2, <3>8, OrderPlaces
      <4>4. /\ since[p] < MaxRecords => since[p] + 1 \in DOMAIN ledger /\ ledger[since[p] + 1].policy = p
            /\ \A i \in DOMAIN ledger : ledger[i].policy = p => i > since[p]
            /\ since[p] \in Nat
        BY <4>1 DEF EngagedHasDecision, TypeOK
      <4> HIDE DEF n, started, released
      <4>5. ASSUME since'[p] < MaxRecords
            PROVE  since'[p] + 1 \in DOMAIN ledger' /\ ledger'[since'[p] + 1].policy = p
        <5>1. since[p] + 1 \in 1..Len(ledger) /\ ledger[since[p] + 1].policy = p
          BY <3>5, <4>2, <4>4, <4>5
        <5>2. since'[p] + 1 \in DOMAIN ledger' /\ ~(since'[p] + 1 <= n)
          BY <3>4, <3>5, <4>2, <4>4, <4>5, <5>1
        <5>3. (since'[p] + 1) - n = since[p] + 1
          BY <3>5, <4>2, <4>4
        <5> QED BY <3>4, <5>1, <5>2, <5>3
      <4>6. ASSUME NEW i \in DOMAIN ledger', ledger'[i].policy = p
            PROVE  i > since'[p]
        <5>1. i \in Nat /\ ~(i <= n) /\ ledger[i - n].policy = p /\ i - n \in DOMAIN ledger
          BY <3>4, <3>5, <4>3, <4>6
        <5> QED BY <3>5, <4>2, <4>4, <5>1
      <4> QED BY <4>5, <4>6
    <3> QED BY <3>7, <3>8
  <2> USE DEF EngagedHasDecision
  <2>2. ASSUME NEW p \in Overridable, NEW active \in BOOLEAN, SetManualOverride(p, active)
        PROVE  EngagedHasDecision'
    BY <2>2 DEF SetManualOverride, history, Engaged
  <2>3. CASE ResetAnalytics
    BY <2>3 DEF ResetAnalytics, ResetSafety, Engaged
  <2>4. CASE Advance
    BY <2>4 DEF Advance, safety, history, Engaged
  <2>5. CASE UNCHANGED vars
    BY <2>5 DEF vars, safety, history, Engaged
  <2> QED BY <2>1, <2>2, <2>3, <2>4, <2>5 DEF Next, Reading
<1> QED BY <1>1, <1>2, TypeCorrect, PTL DEF Spec

\* An actuator that serves one policy is commanded as the policy stands while
\* the policy is engaged.
THEOREM ActuatorFollowsHolds == Spec => []ActuatorFollows
<1>1. Init => ActuatorFollows
  BY DEF Init, ActuatorFollows, Engaged
<1>2. TypeOK /\ ActuatorFollows /\ [Next]_vars => ActuatorFollows'
  <2> SUFFICES ASSUME TypeOK, ActuatorFollows, [Next]_vars
               PROVE  ActuatorFollows'
    OBVIOUS
  <2> USE DEF ActuatorFollows
  <2>1. ASSUME NEW m \in Readings, NEW now \in Time, ProcessReading(m, now)
        PROVE  ActuatorFollows'
    <3> DEFINE started == Started(Fired(Observed(m, now), now), now)
               released == Released(EngagedAfter(Fired(Observed(m, now), now), now), now)
    <3> SUFFICES ASSUME NEW p \in Policies, Engaged(p)', Exclusive(p)
                 PROVE  commanded'[Target[p]].kind = "engage"
      OBVIOUS
    <3>1. started \subseteq Policies /\ released \subseteq Policies
      BY DEF Started, Released
    <3>2. p \notin released
      BY <2>1 DEF ProcessReading, Effects, Engaged
    <3>3. Target[p] \notin {Target[q] : q \in released}
      BY <3>1, <3>2 DEF Exclusive
    <3>4. commanded'[Target[p]] = Commanded(Target[p], started, released)
      BY <2>1 DEF ProcessReading, Effects, Device
    <3>5. CASE p \in started
      BY <3>3, <3>4, <3>5 DEF Commanded
    <3>6. CASE p \notin started
      <4>1. Engaged(p)
        BY <2>1, <3>6, StillEngaged
      <4>2. Target[p] \notin {Target[q] : q \in started}
        BY <3>1, <3>6 DEF Exclusive
      <4> QED BY <3>3, <3>4, <4>1, <4>2 DEF Commanded
    <3> QED BY <3>5, <3>6
  <2>2. ASSUME NEW p \in Overridable, NEW active \in BOOLEAN, SetManualOverride(p, active)
        PROVE  ActuatorFollows'
    BY <2>2 DEF SetManualOverride, history, Engaged
  <2>3. CASE ResetAnalytics
    BY <2>3 DEF ResetAnalytics, ResetSafety, Engaged
  <2>4. CASE Advance
    BY <2>4 DEF Advance, safety, history, Engaged
  <2>5. CASE UNCHANGED vars
    BY <2>5 DEF vars, safety, history, Engaged
  <2> QED BY <2>1, <2>2, <2>3, <2>4, <2>5 DEF Next, Reading
<1> QED BY <1>1, <1>2, TypeCorrect, PTL DEF Spec

---------------------------------------------------------------------------
(***************************************************************************)
(* With readings in order (MaxLag = 0) a reading's stamp is the clock, no  *)
(* stamp is ahead of it, and an engaged policy that cannot be overridden   *)
(* has heard no hazard since its engagement time.                          *)
(***************************************************************************)
OrderInv ==
    /\ TypeOK
    /\ \A r \in Rules : lastFired[r] <= clock
    /\ \A p \in Policies :
          /\ lastAction[p] <= clock
          /\ p \notin Overridable /\ Engaged(p) => lastHeard[p] <= engaged[p]

\* A rule whose firing was ignored fired no earlier than the last action of
\* the policy, which is still idle: the next firing, a cooldown later, is
\* past the rate limit.
IgnoredInv ==
    \A p \in Policies : \A r \in Rules :
        /\ ignored[p][r] \in {0, 1}
        /\ ignored[p][r] = 1 =>
              /\ ~Engaged(p)
              /\ lastFired[r] # Never
              /\ lastAction[p] <= lastFired[r]

LEMMA Stamps ==
    ASSUME TypeOK
    PROVE  /\ clock \in Int
           /\ \A r \in Rules : lastFired[r] \in Int
           /\ \A p \in Policies :
                 engaged[p] \in Int /\ lastAction[p] \in Int /\ lastHeard[p] \in Int
BY DEF TypeOK, Stamp, Time, Never

LEMMA InOrder ==
    ASSUME MaxLag = 0, TypeOK, Reading
    PROVE  \E m \in Readings : ProcessReading(m, clock) /\ clock \in Time
BY DEF Reading, TypeOK, Time

LEMMA OrderInvariant == ASSUME MaxLag = 0 PROVE Spec => []OrderInv
<1>1. Init => OrderInv
  BY TypeCorrect, DurationAssumption DEF Init, OrderInv, TypeOK, Never, Stamp, Time, Engaged
<1>2. OrderInv /\ TypeOK' /\ [Next]_vars => OrderInv'
  <2> SUFFICES ASSUME OrderInv, TypeOK', [Next]_vars
               PROVE  OrderInv'
    OBVIOUS
  <2> USE DEF OrderInv
  <2>1. ASSUME NEW m \in Readings, clock \in Time, ProcessReading(m, clock)
        PROVE  OrderInv'
    <3> DEFINE fired == Fired(Observed(m, clock), clock)
               eng == EngagedAfter(fired, clock)
    <3>1. /\ clock' = clock /\ clock \in Int
          /\ \A r \in Rules : lastFired'[r] \in {clock, lastFired[r]}
          /\ \A p \in Policies : lastAction'[p] \in {clock, lastAction[p]}
      BY <2>1 DEF ProcessReading, Effects, TypeOK, Time
    <3>2. ASSUME NEW p \in Policies, p \notin Overridable, Engaged(p)'
          PROVE  lastHeard'[p] <= engaged'[p]
      <4>1. engaged'[p] = eng[p] /\ eng[p] # Never
        BY <2>1, <3>2 DEF ProcessReading, Effects, Engaged
      <4>2. CASE Hit(p, fired)
        <5>1. lastHeard'[p] = clock
          BY <2>1, <4>2 DEF ProcessReading, Effects
        <5>2. eng[p] = clock
          BY <3>2, <4>1, <4>2 DEF EngagedAfter, Refreshed, Started, Engaged, TypeOK
        <5> QED BY <3>1, <4>1, <5>1, <5>2
      <4>3. CASE ~Hit(p, fired)
        <5>1. lastHeard'[p] = lastHeard[p]
          BY <2>1, <4>3 DEF ProcessReading, Effects
        <5>2. eng[p] = engaged[p]
          BY <4>3 DEF EngagedAfter, Refreshed, Started
        <5> QED BY <4>1, <5>1, <5>2, <3>2 DEF Engaged
      <4> QED BY <4>2, <4>3
    <3> QED BY <3>1, <3>2, Stamps
  <2>2. ASSUME NEW p \in Overridable, NEW active \in BOOLEAN, SetManualOverride(p, active)
        PROVE  OrderInv'
    BY <2>2 DEF SetManualOverride, reasoner, history, Engaged
  <2>3. CASE ResetAnalytics
    BY <2>3 DEF ResetAnalytics, ResetSafety, Never, Engaged, TypeOK, Time
  <2>4. CASE Advance
    BY <2>4, Stamps DEF Advance, reasoner, safety, history, Engaged
  <2>5. CASE UNCHANGED vars
    BY <2>5 DEF vars, reasoner, safety, history, Engaged
  <2> QED BY <2>1, <2>2, <2>3, <2>4, <2>5, InOrder DEF Next
<1> QED BY <1>1, <1>2, TypeCorrect, PTL DEF Spec

\* In order, a policy that nobody may override is released only when none of
\* its hazards has fired for ClearHold.
THEOREM ReleaseAfterQuietHolds ==
    ASSUME MaxLag = 0 PROVE Spec => ReleaseAfterQuiet
<1> DEFINE Good == \A p \in Policies \ Overridable :
                      Command(p, "release") \in issued' => Quiet(p)
<1>1. OrderInv /\ [Next]_vars => [Good]_vars
  <2> SUFFICES ASSUME OrderInv, Next
               PROVE  Good
    OBVIOUS
  <2>1. ASSUME NEW m \in Readings, clock \in Time, ProcessReading(m, clock)
        PROVE  Good
    <3> DEFINE fired == Fired(Observed(m, clock), clock)
               eng == EngagedAfter(fired, clock)
    <3> SUFFICES ASSUME NEW p \in Policies \ Overridable,
                        Command(p, "release") \in issued'
                 PROVE  Quiet(p)
      OBVIOUS
    <3>1. p \in Released(eng, clock)
      BY <2>1, ReleaseIssued
    <3>2. ~Hit(p, fired)
      BY <2>1, <3>1, FiringHolds DEF OrderInv
    <3>3. eng[p] = engaged[p] /\ lastHeard'[p] = lastHeard[p]
      BY <2>1, <3>2 DEF ProcessReading, Effects, EngagedAfter, Refreshed, Started
    <3>4. engaged[p] # Never /\ clock - engaged[p] >= ClearHold
      BY <3>1, <3>3 DEF Released
    <3>5. lastHeard[p] <= engaged[p]
      BY <3>4 DEF OrderInv, Engaged
    <3>6. clock \in Int /\ engaged[p] \in Int /\ lastHeard[p] \in Int /\ ClearHold \in Int
      BY DurationAssumption DEF OrderInv, TypeOK, Time, Stamp, Never
    <3> QED BY <3>3, <3>4, <3>5, <3>6 DEF Quiet
  <2>2. issued' = {} => Good
    OBVIOUS
  <2> QED
    BY <2>1, <2>2, InOrder
    DEF Next, SetManualOverride, ResetAnalytics, Advance, OrderInv
<1> QED BY <1>1, OrderInvariant, PTL DEF Spec, ReleaseAfterQuiet

\* The one step that can ignore a firing twice cannot: the second firing is a
\* cooldown after the first, and the policy's last action is no later than
\* the first.
LEMMA SecondFiringStarts ==
    ASSUME OrderInv, IgnoredInv, NEW m, NEW p \in Policies, NEW r \in RulesOf[p],
           r \in Fired(Observed(m, clock), clock), p \notin override,
           ignored[p][r] = 1
    PROVE  p \in Started(Fired(Observed(m, clock), clock), clock)
<1> DEFINE fired == Fired(Observed(m, clock), clock)
<1>1. r \in Rules /\ Hit(p, fired)
  BY ShapeAssumption DEF Hit, Fired
<1>2. ~Engaged(p) /\ lastFired[r] # Never /\ lastAction[p] <= lastFired[r]
  BY <1>1 DEF IgnoredInv
<1>3. ~(clock - lastFired[r] < Cooldown)
  BY <1>2 DEF Fired, CoolingDown
<1>4. ~RateLimited(p, clock)
  BY <1>1, <1>2, <1>3, Stamps, DurationAssumption, DefaultsAssumption
  DEF RateLimited, OrderInv
<1> QED BY <1>1, <1>2, <1>4 DEF Started

LEMMA ReadingKeepsIgnoredInv ==
    ASSUME OrderInv, IgnoredInv, clock \in Time,
           NEW m \in Readings, ProcessReading(m, clock)
    PROVE  IgnoredInv'
<1> DEFINE fired == Fired(Observed(m, clock), clock)
           started == Started(fired, clock)
           eng == EngagedAfter(fired, clock)
<1> SUFFICES ASSUME NEW p \in Policies, NEW r \in Rules
             PROVE  /\ ignored'[p][r] \in {0, 1}
                    /\ ignored'[p][r] = 1 =>
                          /\ engaged'[p] = Never
                          /\ lastFired'[r] # Never
                          /\ lastAction'[p] <= lastFired'[r]
  BY DEF IgnoredInv, Engaged
<1>1. ignored[p][r] \in {0, 1}
  BY DEF IgnoredInv
<1>2. CASE p \in started
  BY <1>2 DEF ProcessReading, Effects
<1>3. CASE p \notin started /\ Engaged(p)
  <2>1. ignored[p][r] = 0
    BY <1>1, <1>3 DEF IgnoredInv
  <2> QED BY <1>3, <2>1 DEF ProcessReading, Effects
<1>4. CASE p \notin started /\ ~Engaged(p)
  <2>1. eng[p] = Never
    BY <1>4 DEF EngagedAfter, Refreshed, Engaged
  <2>2. engaged'[p] = Never /\ lastAction'[p] = lastAction[p]
    BY <1>4, <2>1 DEF ProcessReading, Effects, Released
  <2>3. CASE r \in fired \cap RulesOf[p] /\ p \notin override
    <3>1. ignored[p][r] = 0
      BY <1>1, <1>4, <2>3, SecondFiringStarts
    <3>2. ignored'[p][r] = 1
      BY <1>4, <2>3, <3>1 DEF ProcessReading, Effects
    <3>3. lastFired'[r] = clock
      BY <2>3 DEF ProcessReading, Effects
    <3> QED BY <2>2, <3>2, <3>3 DEF OrderInv, Time, Never
  <2>4. CASE ~(r \in fired \cap RulesOf[p] /\ p \notin override)
    <3>1. ignored'[p][r] = ignored[p][r]
      BY <1>4, <2>4 DEF ProcessReading, Effects
    <3>2. lastFired'[r] = clock \/ lastFired'[r] = lastFired[r]
      BY DEF ProcessReading, Effects
    <3> QED
      BY <1>1, <2>2, <3>1, <3>2 DEF IgnoredInv, OrderInv, Time, Never
  <2> QED BY <2>3, <2>4
<1> QED BY <1>2, <1>3, <1>4

\* In order, the rate limit never swallows two firings of one rule in a row.
THEOREM NoRuleIgnoredTwiceHolds ==
    ASSUME MaxLag = 0 PROVE Spec => []NoRuleIgnoredTwice
<1>1. Init => IgnoredInv
  BY DEF Init, IgnoredInv
<1>2. OrderInv /\ IgnoredInv /\ [Next]_vars => IgnoredInv'
  <2> SUFFICES ASSUME OrderInv, IgnoredInv, [Next]_vars
               PROVE  IgnoredInv'
    OBVIOUS
  <2>1. CASE Reading
    BY <2>1, InOrder, ReadingKeepsIgnoredInv DEF OrderInv
  <2>2. ASSUME NEW p \in Overridable, NEW active \in BOOLEAN, SetManualOverride(p, active)
        PROVE  IgnoredInv'
    BY <2>2 DEF SetManualOverride, reasoner, history, IgnoredInv, Engaged
  <2>3. CASE ResetAnalytics
    BY <2>3 DEF ResetAnalytics, ResetSafety, IgnoredInv
  <2>4. CASE Advance
    BY <2>4 DEF Advance, reasoner, safety, history, IgnoredInv, Engaged
  <2>5. CASE UNCHANGED vars
    BY <2>5 DEF vars, reasoner, safety, history, IgnoredInv, Engaged
  <2> QED BY <2>1, <2>2, <2>3, <2>4, <2>5 DEF Next
<1>3. IgnoredInv => NoRuleIgnoredTwice
  BY DEF IgnoredInv, NoRuleIgnoredTwice
<1> QED BY <1>1, <1>2, <1>3, OrderInvariant, PTL DEF Spec

---------------------------------------------------------------------------
\* What released an actuator of one policy was the policy's last action.
ReleaseInv ==
    \A p \in Policies :
        Exclusive(p) /\ commanded[Target[p]].kind = "release"
          => commanded[Target[p]].at = lastAction[p] /\ lastAction[p] # Never

LEMMA ReadingKeepsReleaseInv ==
    ASSUME ReleaseInv, clock \in Time, NEW m, ProcessReading(m, clock) PROVE ReleaseInv'
<1> DEFINE started == Started(Fired(Observed(m, clock), clock), clock)
           released == Released(EngagedAfter(Fired(Observed(m, clock), clock), clock), clock)
<1> SUFFICES ASSUME NEW p \in Policies, Exclusive(p), commanded'[Target[p]].kind = "release"
             PROVE  commanded'[Target[p]].at = lastAction'[p] /\ lastAction'[p] # Never
  BY DEF ReleaseInv, Exclusive
<1>1. started \subseteq Policies /\ released \subseteq Policies
  BY DEF Started, Released
<1>2. commanded'[Target[p]] = Commanded(Target[p], started, released)
  BY DEF ProcessReading, Effects, Device
<1>3. lastAction'[p] = IF p \in started \cup released THEN clock ELSE lastAction[p]
  BY DEF ProcessReading, Effects
<1>4. clock # Never
  BY DEF Time, Never
<1> HIDE DEF started, released
<1>5. CASE p \in released
  BY <1>2, <1>3, <1>4, <1>5 DEF Commanded
<1>6. CASE p \notin released
  <2>1. Target[p] \notin {Target[q] : q \in released}
    BY <1>1, <1>6 DEF Exclusive
  <2>2. p \notin started
    BY <1>2, <2>1 DEF Commanded
  <2>3. Target[p] \notin {Target[q] : q \in started}
    BY <1>1, <2>2 DEF Exclusive
  <2> QED BY <1>2, <1>3, <1>6, <2>1, <2>2, <2>3 DEF Commanded, ReleaseInv
<1> QED BY <1>5, <1>6

\* In order, and as long as the rate limiter is not reset, it keeps an actuator
\* that serves one policy from being released and engaged again in a row.
THEOREM ActuatorNotRecycledHolds ==
    ASSUME MaxLag = 0, ~CanReset PROVE Spec => ActuatorNotRecycled
<1> DEFINE Spared == \A c \in issued' :
               c.kind = "engage" /\ Exclusive(c.policy) /\ commanded[c.device].kind = "release"
                 => clock - commanded[c.device].at >= MinInterval
<1>1. Init => ReleaseInv
  BY DEF Init, ReleaseInv, Device
<1>2. TypeOK /\ ReleaseInv /\ [Next]_vars => ReleaseInv'
  <2> SUFFICES ASSUME TypeOK, ReleaseInv, [Next]_vars
               PROVE  ReleaseInv'
    OBVIOUS
  <2>1. CASE Reading
    BY <2>1, InOrder, ReadingKeepsReleaseInv
  <2>2. ASSUME NEW p \in Overridable, NEW active \in BOOLEAN, SetManualOverride(p, active)
        PROVE  ReleaseInv'
    BY <2>2 DEF SetManualOverride, history, ReleaseInv, Exclusive
  <2>3. CASE ResetAnalytics
    BY <2>3 DEF ResetAnalytics
  <2>4. CASE Advance
    BY <2>4 DEF Advance, safety, history, ReleaseInv, Exclusive
  <2>5. CASE UNCHANGED vars
    BY <2>5 DEF vars, safety, history, ReleaseInv, Exclusive
  <2> QED BY <2>1, <2>2, <2>3, <2>4, <2>5 DEF Next
<1>3. TypeOK /\ ReleaseInv /\ [Next]_vars => [Spared]_vars
  <2> SUFFICES ASSUME TypeOK, ReleaseInv, Next PROVE Spared
    OBVIOUS
  <2>1. CASE Reading
    <3>1. PICK m \in Readings : ProcessReading(m, clock)
      BY <2>1, InOrder
    <3> SUFFICES ASSUME NEW p \in Started(Fired(Observed(m, clock), clock), clock), Exclusive(p),
                        commanded[Target[p]].kind = "release"
                 PROVE  clock - commanded[Target[p]].at >= MinInterval
      BY <3>1 DEF ProcessReading, Effects, Command
    <3>2. p \in Policies /\ ~RateLimited(p, clock)
      BY DEF Started
    <3>3. commanded[Target[p]].at = lastAction[p] /\ lastAction[p] # Never
      BY <3>2 DEF ReleaseInv
    <3>4. clock \in Int /\ lastAction[p] \in Int /\ MinInterval \in Int
      BY <3>2, Stamps, DurationAssumption
    <3> QED BY <3>2, <3>3, <3>4 DEF RateLimited
  <2>2. CASE Next /\ ~Reading
    BY <2>2 DEF Next, SetManualOverride, ResetAnalytics, Advance
  <2> QED BY <2>1, <2>2
<1> QED BY <1>1, <1>2, <1>3, TypeCorrect, PTL DEF Spec, ActuatorNotRecycled

===========================================================================
