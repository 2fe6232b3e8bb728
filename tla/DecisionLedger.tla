--------------------------- MODULE DecisionLedger ---------------------------
(***************************************************************************)
(* The ledger of safety decisions (analytics/decision_provenance.py), as   *)
(* process_reading of backend/api/prediction.py keeps it: a policy that    *)
(* engages is recorded with its evidence, and one that is engaged already  *)
(* counts another occurrence.  When a policy engages and when it lets go   *)
(* is the safety controller's: here a policy that a hazard is about        *)
(* engages, or does not, as cooldown and operators have it.                *)
(***************************************************************************)
EXTENDS Integers, Sequences, FiniteSets, SequencesExt

CONSTANTS
    Rules,              \* safety policies
    MaxRecords,         \* records the ledger keeps
    MaxDecisions, MaxOccurrences    \* bounds

ASSUME LedgerAssumption ==
    /\ IsFiniteSet(Rules)
    /\ MaxRecords \in Nat \ {0} /\ MaxDecisions \in Nat /\ MaxOccurrences \in Nat

VARIABLES
    records,    \* _records, the newest first: [id, policy, count]
    byId,       \* _by_id
    engagedNow, \* policies of the safety controller that are engaged
    decided,    \* decisions so far, by which they are numbered
    evaluated,  \* hazards evaluated for each policy since it engaged (history)
    engagedBy,  \* the decision each policy was engaged by (history)
    gone        \* decisions that were trimmed or reset (history)

ledgerVars == <<records, byId, engagedNow, decided, evaluated, engagedBy, gone>>

Ids(l) == {l[i].id : i \in DOMAIN l}

---------------------------------------------------------------------------
(* DecisionLedger *)

\* mutant: the oldest record of the policy
OldestOf(p) == SelectLastInSeq(records, LAMBDA r : r.policy = p)

\* the first record of the policy that the list has, 0 for none
NewestOf(p) == SelectInSeq(records, LAMBDA r : r.policy = p)

\* touch_active
Touched(P) ==
    LET hit == {NewestOf(p) : p \in P}
    IN [i \in DOMAIN records |->
           IF i \in hit THEN [records[i] EXCEPT !.count = @ + 1] ELSE records[i]]

\* record: in front, with what is beyond the last one cut off
Recorded(l, new) == SubSeq(new \o l, 1, IF Len(new \o l) < MaxRecords THEN Len(new \o l) ELSE MaxRecords)

Indexed(l, new) == (byId \cup Ids(new)) \ (Ids(new \o l) \ Ids(Recorded(l, new)))

---------------------------------------------------------------------------
(* process_reading *)

\* the hazards of a reading: those of policies engaged already are counted
\* before the policies they engage are recorded, in their order
Evaluate(hazards, engaging) ==
    LET touched == Touched(hazards \cap engagedNow)
        order == SetToSeq(engaging)
        new == [i \in DOMAIN order |->
                  [id |-> decided + Len(order) + 1 - i, policy |-> order[i], count |-> 1]]
    IN /\ engaging \subseteq hazards \ engagedNow
       /\ decided + Len(order) <= MaxDecisions
       /\ \A p \in hazards : evaluated[p] < MaxOccurrences
       /\ records' = Recorded(touched, new)
       /\ byId' = Indexed(touched, new)
       /\ gone' = gone \cup (Ids(new \o touched) \ Ids(Recorded(touched, new)))
       /\ engagedNow' = engagedNow \cup engaging
       /\ decided' = decided + Len(order)
       /\ evaluated' = [p \in Rules |-> IF p \in engaging THEN 1
                                   ELSE IF p \in hazards \cap engagedNow THEN evaluated[p] + 1 ELSE evaluated[p]]
       /\ engagedBy' = [p \in Rules |-> IF p \in engaging
                                    THEN decided + Len(order) + 1 - (CHOOSE i \in DOMAIN order : order[i] = p)
                                    ELSE engagedBy[p]]

\* the controller's tick, or an operator
LetGo(p) ==
    /\ p \in engagedNow /\ engagedNow' = engagedNow \ {p}
    /\ evaluated' = [evaluated EXCEPT ![p] = 0]
    /\ UNCHANGED <<records, byId, decided, engagedBy, gone>>

\* reset_analytics: the ledger and the controller
ResetLedger ==
    /\ decided > 0
    /\ records' = << >> /\ byId' = {} /\ engagedNow' = {}
    /\ evaluated' = [p \in Rules |-> 0]
    /\ gone' = gone \cup Ids(records)
    /\ UNCHANGED <<decided, engagedBy>>

---------------------------------------------------------------------------
LedgerInit ==
    /\ records = << >> /\ byId = {} /\ engagedNow = {} /\ decided = 0
    /\ evaluated = [p \in Rules |-> 0] /\ engagedBy = evaluated /\ gone = {}

LedgerNext ==
    \/ \E H \in (SUBSET Rules) \ {{}} : \E E \in SUBSET H : Evaluate(H, E)
    \/ \E p \in Rules : LetGo(p)
    \/ ResetLedger

LedgerSpec == LedgerInit /\ [][LedgerNext]_ledgerVars

---------------------------------------------------------------------------
(* Properties *)

\* The detail endpoint and the list tell of the same decisions, the newest
\* first, and none is lost but what was trimmed or reset.
LedgerIsWhole ==
    /\ byId = Ids(records)
    /\ \A i, j \in DOMAIN records : i < j => records[i].id > records[j].id
    /\ Ids(records) \cup gone = 1..decided /\ Len(records) <= MaxRecords

\* The decision an engaged policy was engaged by counts every time its hazard
\* was evaluated since, although older decisions of the same policy are in the
\* list; it is missing only when as many decisions as the ledger keeps came
\* after it, for a reset takes the policies with it.
OccurrencesCounted ==
    \A p \in engagedNow :
        \/ [id |-> engagedBy[p], policy |-> p, count |-> evaluated[p]] \in ToSet(records)
        \/ engagedBy[p] <= decided - MaxRecords /\ engagedBy[p] \in gone

\* List and index of the ledger are one, and a decision in force has every one of
\* its occurrences.
LedgerCounts ==
    /\ LedgerIsWhole
    /\ OccurrencesCounted
=============================================================================
