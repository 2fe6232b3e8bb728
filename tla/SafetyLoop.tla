---------------------------- MODULE SafetyLoop ----------------------------
(***************************************************************************)
(* The reading-to-actuator loop of the analytics service: the hazard       *)
(* reasoner (analytics/hazard_reasoner.py), the safety controller          *)
(* (analytics/safety_controller.py), the ledger of decisions               *)
(* (analytics/decision_provenance.py) and the handler that runs them in    *)
(* order (backend/api/prediction.py, process_reading).                     *)
(*                                                                         *)
(* process_reading contains no await, so one reading is one step.  A       *)
(* reading carries its device's timestamp, which may lag the clock by up   *)
(* to MaxLag (buffered readings).  Time is in units of ten seconds.        *)
(***************************************************************************)
EXTENDS Integers, FiniteSets, Sequences

CONSTANTS
    Props,        \* measured properties
    Rules,        \* hazard rules
    Conditions,   \* Conditions[r]: set of [prop, threshold, above]
    Readings,     \* the measurement dictionaries that may arrive
    Policies,     \* safety policies
    RulesOf,      \* RulesOf[p]: hazard_rules of policy p
    Target,       \* Target[p]: target_device of policy p
    Overridable,  \* policies an operator may override
    CanReset,     \* whether anyone calls the reset endpoint
    Window, Cooldown, MinInterval, ClearHold,
    MaxRecords,   \* DecisionLedger._max
    MaxTime,      \* bound on the clock
    MaxLag        \* bound on how late a reading may be

Never == -1
Time == 0..MaxTime
Stamp == Time \cup {Never}

ASSUME DurationAssumption ==
    /\ Window \in Nat /\ Cooldown \in Nat
    /\ MinInterval \in Nat /\ ClearHold \in Nat \ {0}
    /\ MaxTime \in Nat /\ MaxLag \in Nat
    /\ MaxRecords \in Nat \ {0}

\* The shipped durations: MinInterval is 20 s, Cooldown 30 s, ClearHold 120 s.
ASSUME DefaultsAssumption == MinInterval <= Cooldown /\ Cooldown < ClearHold

ASSUME ShapeAssumption ==
    /\ IsFiniteSet(Policies)
    /\ RulesOf \in [Policies -> SUBSET Rules]
    /\ Overridable \subseteq Policies
    /\ CanReset \in BOOLEAN
    /\ \A m \in Readings : DOMAIN m \subseteq Props /\ \A q \in DOMAIN m : m[q] \in Int

Device == {Target[p] : p \in Policies}

VARIABLES
    clock,        \* the backend's clock
    facts,        \* HazardReasoner._facts: set of [prop, value, at], one per prop
    lastFired,    \* HazardReasoner._last_fired
    engaged,      \* SafetyController._engaged
    lastAction,   \* SafetyController._last_action
    override,     \* SafetyController._manual_override
    ledger,       \* DecisionLedger._records, the newest first: [policy, count]
    issued,       \* safety_actions of the last process_reading
    \* history
    lastHeard,    \* clock when a rule of the policy last fired
    ignored,      \* ignored[p][r]: firings of r that the rate limit dropped
                  \* since p was last engaged
    commanded,    \* per device, the last issued command and its clock
    since         \* decisions recorded since the policy was engaged, 0 when idle

reasoner == <<facts, lastFired>>
safety == <<engaged, lastAction, override>>
history == <<lastHeard, ignored, commanded, since>>
vars == <<clock, reasoner, safety, ledger, issued, history>>

---------------------------------------------------------------------------
(* HazardReasoner *)

Breached(v, c) == IF c.above THEN v > c.threshold ELSE v < c.threshold

\* _prune, then the loop that overwrites one fact per measured property
Observed(m, now) ==
    {f \in facts : now - f.at <= Window /\ f.prop \notin DOMAIN m}
        \cup {[prop |-> q, value |-> m[q], at |-> now] : q \in DOMAIN m}

Evidence(fs, r) == {f \in fs : \E c \in Conditions[r] : c.prop = f.prop}

Satisfied(fs, r) ==
    /\ \A c \in Conditions[r] :
          \E f \in fs : f.prop = c.prop /\ Breached(f.value, c)
    /\ \A e1, e2 \in Evidence(fs, r) : e1.at - e2.at <= Window

\* mutant: no cooldown
NeverCoolingDown(r, now) == FALSE

CoolingDown(r, now) == lastFired[r] # Never /\ now - lastFired[r] < Cooldown

\* _evaluate: the rules that fire
Fired(fs, now) == {r \in Rules : Satisfied(fs, r) /\ ~CoolingDown(r, now)}

---------------------------------------------------------------------------
(* SafetyController *)

Hit(p, fired) == RulesOf[p] \cap fired # {}

Engaged(p) == engaged[p] # Never

\* mutant: the rate limit looks at the last engagement, not the last action
RateLimitedByEngagement(p, now) ==
    engaged[p] # Never /\ now - engaged[p] < MinInterval

RateLimited(p, now) == lastAction[p] # Never /\ now - lastAction[p] < MinInterval

\* on_hazards: engaged policies are refreshed, idle ones are engaged
Refreshed(fired) == {p \in Policies \ override : Hit(p, fired) /\ Engaged(p)}

Started(fired, now) ==
    {p \in Policies \ override :
        Hit(p, fired) /\ ~Engaged(p) /\ ~RateLimited(p, now)}

\* mutant: an engaged policy is not refreshed
EngagedWithoutRefresh(fired, now) ==
    [p \in Policies |-> IF p \in Started(fired, now) THEN now ELSE engaged[p]]

EngagedAfter(fired, now) ==
    [p \in Policies |->
        IF p \in Refreshed(fired) \cup Started(fired, now) THEN now ELSE engaged[p]]

\* tick, which sees what on_hazards has just written
Released(eng, now) ==
    {p \in Policies \ override : eng[p] # Never /\ now - eng[p] >= ClearHold}

Command(p, kind) == [policy |-> p, device |-> Target[p], kind |-> kind]

---------------------------------------------------------------------------
(* DecisionLedger *)

\* touch_active: the first record of the policy that the list has
Touched(l, P) ==
    [i \in DOMAIN l |->
        IF l[i].policy \in P /\ \A j \in 1..(i - 1) : l[j].policy # l[i].policy
        THEN [l[i] EXCEPT !.count = @ + 1] ELSE l[i]]

\* The orders in which the decisions of one reading may be recorded (on_hazards
\* walks a set of rules), the last one first.
Orders(S) ==
    {o \in [1..Cardinality(S) -> S] :
        \A p \in S : \E i \in DOMAIN o : \A j \in DOMAIN o : o[j] = p <=> j = i}

PlaceIn(order, p) == CHOOSE i \in DOMAIN order : order[i] = p

\* record, for each policy of the order: what is beyond the cap goes
Recorded(l, order) ==
    [i \in {k \in 1..(Len(order) + Len(l)) : k <= MaxRecords} |->
        IF i <= Len(order) THEN [policy |-> order[i], count |-> 1] ELSE l[i - Len(order)]]

---------------------------------------------------------------------------
(* The last command of a reading for each device: releases follow engages *)

Commanded(d, started, released) ==
    IF d \in {Target[p] : p \in released} THEN [kind |-> "release", at |-> clock]
    ELSE IF d \in {Target[p] : p \in started} THEN [kind |-> "engage", at |-> clock]
    ELSE commanded[d]

\* Everything one reading writes, given the facts it leaves, the rules that
\* fire, the policies it engages and releases, and the engagement times that
\* tick reads, in the order of its new decisions.  An ignored firing is one the
\* rate limit dropped.
Effects(fs, fired, started, order, eng, released, now) ==
    /\ facts' = fs
    /\ lastFired' = [r \in Rules |-> IF r \in fired THEN now ELSE lastFired[r]]
    /\ engaged' = [p \in Policies |-> IF p \in released THEN Never ELSE eng[p]]
    /\ lastAction' = [p \in Policies |->
           IF p \in started \cup released THEN now ELSE lastAction[p]]
    /\ ledger' = Recorded(Touched(ledger, {p \in Policies : Engaged(p) /\ Hit(p, fired)}), order)
    /\ issued' = {Command(p, "engage") : p \in started}
                    \cup {Command(p, "release") : p \in released}
    /\ lastHeard' = [p \in Policies |->
           IF Hit(p, fired) THEN clock ELSE lastHeard[p]]
    /\ ignored' = [p \in Policies |-> [r \in Rules |->
           IF p \in started THEN 0
           ELSE IF /\ r \in fired \cap RulesOf[p]
                   /\ p \notin override /\ ~Engaged(p)
                THEN ignored[p][r] + 1
           ELSE ignored[p][r]]]
    /\ commanded' = [d \in Device |-> Commanded(d, started, released)]
    /\ since' = [p \in Policies |->
           IF p \in started \ released THEN PlaceIn(order, p) - 1
           ELSE IF Engaged(p) /\ p \notin released THEN since[p] + Len(order)
           ELSE 0]
    /\ UNCHANGED <<clock, override>>

ProcessReading(m, now) ==
    LET fs == Observed(m, now)
        fired == Fired(fs, now)
        started == Started(fired, now)
        eng == EngagedAfter(fired, now)
    IN  \E order \in Orders(started) :
            Effects(fs, fired, started, order, eng, Released(eng, now), now)

Reading ==
    \E m \in Readings, now \in Time :
        now \in (clock - MaxLag)..clock /\ ProcessReading(m, now)

\* POST /api/v1/safety/override/{policy_name}
SetManualOverride(p, active) ==
    /\ override' = IF active THEN override \cup {p} ELSE override \ {p}
    /\ issued' = {}
    /\ UNCHANGED <<clock, reasoner, engaged, lastAction, ledger, history>>

\* mutant: the rate limiter is reset and the engaged policies are forgotten about
ResetRateLimitOnly ==
    /\ lastAction' = [p \in Policies |-> Never]
    /\ UNCHANGED <<engaged, override>>

\* SafetyController.reset
ResetSafety ==
    /\ engaged' = [p \in Policies |-> Never]
    /\ lastAction' = [p \in Policies |-> Never]
    /\ override' = {}

\* POST /api/v1/analytics/reset
ResetAnalytics ==
    /\ CanReset
    /\ facts' = {}
    /\ lastFired' = [r \in Rules |-> Never]
    /\ ResetSafety
    /\ ledger' = << >>
    /\ issued' = {}
    /\ ignored' = [p \in Policies |-> [r \in Rules |-> 0]]
    /\ since' = [p \in Policies |-> 0]
    /\ UNCHANGED <<clock, lastHeard, commanded>>

Advance ==
    /\ clock < MaxTime
    /\ clock' = clock + 1
    /\ issued' = {}
    /\ UNCHANGED <<reasoner, safety, ledger, history>>

Init ==
    /\ clock = 0
    /\ facts = {}
    /\ lastFired = [r \in Rules |-> Never]
    /\ engaged = [p \in Policies |-> Never]
    /\ lastAction = [p \in Policies |-> Never]
    /\ override = {}
    /\ ledger = << >>
    /\ issued = {}
    /\ lastHeard = [p \in Policies |-> Never]
    /\ ignored = [p \in Policies |-> [r \in Rules |-> 0]]
    /\ commanded = [d \in Device |-> [kind |-> "none", at |-> Never]]
    /\ since = [p \in Policies |-> 0]

Next ==
    \/ Reading
    \/ \E p \in Overridable, active \in BOOLEAN : SetManualOverride(p, active)
    \/ ResetAnalytics
    \/ Advance

Spec == Init /\ [][Next]_vars

---------------------------------------------------------------------------
(* Properties *)

\* The shape of the state (process_reading and the modules it drives).
TypeOK ==
    /\ clock \in Time
    /\ \A f \in facts : f.prop \in Props /\ f.value \in Int /\ f.at \in Time
    /\ \A f, g \in facts : f.prop = g.prop => f = g
    /\ lastFired \in [Rules -> Stamp]
    /\ engaged \in [Policies -> Stamp]
    /\ lastAction \in [Policies -> Stamp]
    /\ override \subseteq Overridable
    /\ ledger \in Seq([policy : Policies, count : Nat]) /\ Len(ledger) <= MaxRecords
    /\ issued \subseteq [policy : Policies, device : Device, kind : {"engage", "release"}]
    /\ lastHeard \in [Policies -> Stamp]
    /\ ignored \in [Policies -> [Rules -> Nat]]
    /\ commanded \in [Device -> [kind : {"none", "engage", "release"}, at : Stamp]]
    /\ since \in [Policies -> Nat]

FiresNow(p) == \E r \in RulesOf[p] : lastFired'[r] # lastFired[r] /\ lastFired'[r] # Never

\* A reading on which one of a policy's hazards fires never releases that
\* policy, however late the reading and whatever the operator did before:
\* on_hazards refreshes before tick looks.
NoReleaseOnFiring ==
    [][\A p \in Policies : Command(p, "release") \in issued' => ~FiresNow(p)]_vars

Quiet(p) == lastHeard'[p] = Never \/ clock - lastHeard'[p] >= ClearHold

\* With readings in order, a policy nobody overrides is released only after
\* none of its hazards has fired for ClearHold (tick).
ReleaseAfterQuiet ==
    [][\A p \in Policies \ Overridable :
          Command(p, "release") \in issued' => Quiet(p)]_vars

\* The comment above DEFAULT_CLEAR_HOLD_S: four hazard intervals are missed
\* before any automatic release, of whatever policy.
FourMissedIntervals ==
    [][\A p \in Policies : Command(p, "release") \in issued' => Quiet(p)]_vars

\* The rate limit of on_hazards may drop a rule's firing (which also starts
\* the rule's cooldown), but never the next firing of that rule as well:
\* between the two the policy is engaged.  It rests on the reasoner's
\* cooldown being no shorter than the controller's minimum interval.
NoRuleIgnoredTwice ==
    \A p \in Policies : \A r \in Rules : ignored[p][r] <= 1

\* The record that touch_active finds for an engaged policy is the decision it
\* was engaged by, and not an older one of the policy: it stands in the ledger
\* behind the decisions made since, and is gone, with the older ones, only when
\* they are as many as the ledger keeps.
EngagedHasDecision ==
    \A p \in Policies : Engaged(p) =>
        /\ since[p] < MaxRecords =>
              since[p] + 1 \in DOMAIN ledger /\ ledger[since[p] + 1].policy = p
        /\ \A i \in DOMAIN ledger : ledger[i].policy = p => i > since[p]

Exclusive(p) == \A q \in Policies : Target[q] = Target[p] => q = p

\* An actuator with one policy was last told to engage while the policy is
\* engaged.
ActuatorFollows ==
    \A p \in Policies :
        Engaged(p) /\ Exclusive(p) => commanded[Target[p]].kind = "engage"

\* An actuator with one policy that was released is not engaged again within
\* MinInterval, which the rate-limit test gives as the reason for the limit.
ActuatorNotRecycled ==
    [][\A c \in issued' :
          c.kind = "engage" /\ Exclusive(c.policy) /\ commanded[c.device].kind = "release"
            => clock - commanded[c.device].at >= MinInterval]_vars

\* The verifier's certificate: no sensor values make one device receive
\* conflicting commands.
NoConflictingCommands ==
    \A c, d \in issued : c.device = d.device => c.kind = d.kind

===========================================================================
