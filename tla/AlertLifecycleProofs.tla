------------------------ MODULE AlertLifecycleProofs ------------------------
(***************************************************************************)
(* Proofs about AlertLifecycle.  What holds of the committed rows must     *)
(* hold of the rows a transaction sees after every statement, against the  *)
(* counts that it will commit, so each invariant is stated of rows and     *)
(* instantiated twice.                                                     *)
(***************************************************************************)
EXTENDS AlertLifecycle, FiniteSetTheorems, TLAPS

Rows == Seq(Row)
Counts == [Keys -> Nat]

OfKey(rows, k) == {i \in 1..Len(rows) : rows[i].key = k}

OneOpen(rows, b) ==
    \A k \in Keys :
        IF b[k] = 0 THEN Open(rows, k) = {}
        ELSE \E i \in 1..Len(rows) : Open(rows, k) = {i} /\ rows[i].count = b[k]

OneEach(rows, e) == \A k \in Keys : Cardinality(OfKey(rows, k)) = e[k]

Sourced(rows, n) == \A i \in 1..Len(rows) : rows[i].source \in 1..n

Forward(old, new) ==
    /\ Len(old) <= Len(new)
    /\ \A i \in 1..Len(old) :
          /\ new[i].key = old[i].key
          /\ old[i].status = "resolved" => new[i] = old[i]
          /\ old[i].status = "acknowledged" => new[i].status # "active"

TxOpen == [device : Devices, left : Seq(Measurements), rows : Rows,
           breaches : Counts, episodes : Counts]

\* A function on 1..n is a sequence of length n.
LEMMA FunctionIsSequence ==
    ASSUME NEW S, NEW n \in Nat, NEW f \in [1..n -> S]
    PROVE  f \in Seq(S) /\ Len(f) = n
OBVIOUS

---------------------------------------------------------------------------
(* What the statements do to the rows *)

\* A raised alert is one more row.
LEMMA RaisedRows ==
    ASSUME NEW rows \in Rows, NEW k \in Keys, NEW s \in Nat
    PROVE  LET new == Raised(rows, k, s) IN
           /\ new \in Rows /\ Len(new) = Len(rows) + 1
           /\ new[Len(rows) + 1] = [key |-> k, status |-> "active", count |-> 1, source |-> s]
           /\ \A i \in 1..Len(rows) : new[i] = rows[i]
<1>1. [key |-> k, status |-> "active", count |-> 1, source |-> s] \in Row
  BY DEF Row, Status
<1>2. QED
  BY <1>1 DEF Raised, Rows

\* Counting one more violation leaves a row well formed.
LEMMA RepeatedRow ==
    ASSUME NEW r \in Row, NEW s \in Nat
    PROVE  LET new == [r EXCEPT !.count = @ + 1, !.source = s] IN
           /\ new \in Row /\ new.key = r.key /\ new.status = r.status
           /\ new.count = r.count + 1 /\ new.source = s
<1>1. r.count \in Nat \ {0} /\ r.count + 1 \in Nat \ {0}
  BY DEF Row
<1>2. QED
  BY <1>1 DEF Row

\* A repeated alert keeps its key and its status.
LEMMA RepeatedRows ==
    ASSUME NEW rows \in Rows, NEW j \in 1..Len(rows), NEW s \in Nat
    PROVE  LET new == Repeated(rows, j, s) IN
           /\ new \in Rows /\ Len(new) = Len(rows)
           /\ new[j].key = rows[j].key /\ new[j].status = rows[j].status
           /\ new[j].count = rows[j].count + 1 /\ new[j].source = s
           /\ \A i \in 1..Len(rows) : i # j => new[i] = rows[i]
<1>1. rows[j] \in Row /\ j \in DOMAIN rows
  BY DEF Rows
<1>2. LET r == [rows[j] EXCEPT !.count = @ + 1, !.source = s] IN
      /\ r \in Row /\ r.key = rows[j].key /\ r.status = rows[j].status
      /\ r.count = rows[j].count + 1 /\ r.source = s
  BY <1>1, RepeatedRow
<1>3. ASSUME NEW r \in Row
      PROVE  LET new == [rows EXCEPT ![j] = r] IN
             /\ new \in Rows /\ Len(new) = Len(rows) /\ new[j] = r
             /\ \A i \in 1..Len(rows) : i # j => new[i] = rows[i]
  BY <1>1 DEF Rows
<1>4. QED
  BY <1>2, <1>3 DEF Repeated

\* Resolving changes nothing but the status of the open rows of a key.
LEMMA ResolvedRows ==
    ASSUME NEW rows \in Rows, NEW k \in Keys
    PROVE  LET new == ResolveAlerts(rows, k) IN
           /\ new \in Rows /\ Len(new) = Len(rows)
           /\ \A i \in 1..Len(rows) :
                 /\ new[i].key = rows[i].key
                 /\ new[i].count = rows[i].count
                 /\ new[i].source = rows[i].source
                 /\ i \in Open(rows, k) => new[i].status = "resolved"
                 /\ i \notin Open(rows, k) => new[i] = rows[i]
<1>1. \A i \in 1..Len(rows) : rows[i] \in Row
  BY DEF Rows
<1>2. \A i \in 1..Len(rows) : [rows[i] EXCEPT !.status = "resolved"] \in Row
  BY <1>1 DEF Row, Status
<1>3. ResolveAlerts(rows, k) \in [1..Len(rows) -> Row]
  BY <1>1, <1>2 DEF ResolveAlerts
<1>4. Len(rows) \in Nat
  BY DEF Rows
<1>5. ResolveAlerts(rows, k) \in Rows /\ Len(ResolveAlerts(rows, k)) = Len(rows)
  BY <1>3, <1>4, FunctionIsSequence DEF Rows
<1>6. ASSUME NEW i \in 1..Len(rows)
      PROVE  /\ ResolveAlerts(rows, k)[i].key = rows[i].key
             /\ ResolveAlerts(rows, k)[i].count = rows[i].count
             /\ ResolveAlerts(rows, k)[i].source = rows[i].source
             /\ i \in Open(rows, k) => ResolveAlerts(rows, k)[i].status = "resolved"
             /\ i \notin Open(rows, k) => ResolveAlerts(rows, k)[i] = rows[i]
  <2>1. rows[i] \in Row
    BY <1>1
  <2>2. CASE i \in Open(rows, k)
    <3>1. ResolveAlerts(rows, k)[i] = [rows[i] EXCEPT !.status = "resolved"]
      BY <2>2 DEF ResolveAlerts
    <3>2. QED
      BY <2>1, <2>2, <3>1 DEF Row
  <2>3. CASE i \notin Open(rows, k)
    BY <2>3 DEF ResolveAlerts
  <2>4. QED
    BY <2>2, <2>3
<1>7. QED
  BY <1>5, <1>6

\* The rows go on from those of the last commit.
LEMMA ForwardExtends ==
    ASSUME NEW old \in Rows, NEW rows \in Rows, NEW new \in Rows,
           Forward(old, rows), Len(rows) <= Len(new),
           \A i \in 1..Len(rows) :
              /\ new[i].key = rows[i].key
              /\ rows[i].status = "resolved" => new[i] = rows[i]
              /\ new[i].status \in {rows[i].status, "resolved"}
    PROVE  Forward(old, new)
<1>1. Len(old) \in Nat /\ Len(rows) \in Nat /\ Len(new) \in Nat
  BY DEF Rows
<1>2. QED
  BY <1>1 DEF Forward

\* A violation of a condition without an open alert.
LEMMA RaisedKeeps ==
    ASSUME NEW old \in Rows, NEW rows \in Rows, NEW k \in Keys, NEW n \in Nat,
           NEW b \in Counts, NEW e \in Counts,
           OneOpen(rows, b), OneEach(rows, e), Sourced(rows, n + 1), Forward(old, rows),
           Open(rows, k) = {}
    PROVE  LET new == Raised(rows, k, n + 1) IN
           /\ b[k] = 0
           /\ OneOpen(new, [b EXCEPT ![k] = @ + 1])
           /\ OneEach(new, [e EXCEPT ![k] = @ + 1])
           /\ Sourced(new, n + 1) /\ Forward(old, new)
<1> DEFINE new == Raised(rows, k, n + 1)
           last == Len(rows) + 1
<1>1. /\ new \in Rows /\ Len(new) = last
      /\ new[last] = [key |-> k, status |-> "active", count |-> 1, source |-> n + 1]
      /\ \A i \in 1..Len(rows) : new[i] = rows[i]
  BY RaisedRows
<1>2. Len(rows) \in Nat
  BY DEF Rows
<1> HIDE DEF new
<1>3. b[k] = 0
  BY DEF OneOpen
<1>4. OneOpen(new, [b EXCEPT ![k] = @ + 1])
  <2>1. Open(new, k) = {last}
    BY <1>1, <1>2 DEF Open
  <2>2. ASSUME NEW j \in Keys, j # k PROVE Open(new, j) = Open(rows, j)
    BY <1>1, <1>2, <2>2 DEF Open
  <2>3. \A j \in Keys : Open(rows, j) \subseteq 1..Len(rows)
    BY DEF Open
  <2>4. ASSUME NEW j \in Keys
        PROVE  IF [b EXCEPT ![k] = @ + 1][j] = 0 THEN Open(new, j) = {}
               ELSE \E i \in 1..Len(new) :
                       Open(new, j) = {i} /\ new[i].count = [b EXCEPT ![k] = @ + 1][j]
    <3>1. CASE j = k
      BY <1>1, <1>2, <1>3, <2>1, <3>1 DEF Counts
    <3>2. CASE j # k
      BY <1>1, <1>2, <2>2, <3>2 DEF Counts, OneOpen
    <3>3. QED
      BY <3>1, <3>2
  <2>5. QED
    BY <2>4 DEF OneOpen
<1>5. OneEach(new, [e EXCEPT ![k] = @ + 1])
  <2>1. \A j \in Keys : IsFiniteSet(OfKey(rows, j)) /\ last \notin OfKey(rows, j)
    <3>1. IsFiniteSet(1..Len(rows)) /\ last \notin 1..Len(rows)
      BY <1>2, FS_Interval
    <3>2. \A j \in Keys : OfKey(rows, j) \subseteq 1..Len(rows)
      BY DEF OfKey
    <3>3. QED
      BY <3>1, <3>2, FS_Subset
  <2>2. OfKey(new, k) = OfKey(rows, k) \cup {last}
    BY <1>1, <1>2 DEF OfKey
  <2>3. ASSUME NEW j \in Keys, j # k PROVE OfKey(new, j) = OfKey(rows, j)
    BY <1>1, <1>2, <2>3 DEF OfKey
  <2>4. Cardinality(OfKey(new, k)) = e[k] + 1
    BY <2>1, <2>2, FS_AddElement, ZenonT(30) DEF OneEach
  <2>5. QED
    BY <2>3, <2>4 DEF OneEach, Counts
<1>6. Sourced(new, n + 1)
  BY <1>1, <1>2 DEF Sourced
<1>7. Forward(old, new)
  BY <1>1, <1>2, ForwardExtends
<1>8. QED
  BY <1>3, <1>4, <1>5, <1>6, <1>7 DEF new

\* A violation of a condition that has an open alert.
LEMMA RepeatedKeeps ==
    ASSUME NEW old \in Rows, NEW rows \in Rows, NEW k \in Keys, NEW n \in Nat,
           NEW b \in Counts, NEW e \in Counts,
           OneOpen(rows, b), OneEach(rows, e), Sourced(rows, n + 1), Forward(old, rows),
           NEW j \in Open(rows, k)
    PROVE  LET new == Repeated(rows, j, n + 1) IN
           /\ b[k] # 0
           /\ OneOpen(new, [b EXCEPT ![k] = @ + 1])
           /\ OneEach(new, e)
           /\ Sourced(new, n + 1) /\ Forward(old, new)
<1> DEFINE new == Repeated(rows, j, n + 1)
<1>1. j \in 1..Len(rows) /\ rows[j].status # "resolved" /\ rows[j].key = k
  BY DEF Open
<1>2. /\ new \in Rows /\ Len(new) = Len(rows)
      /\ new[j].key = rows[j].key /\ new[j].status = rows[j].status
      /\ new[j].count = rows[j].count + 1 /\ new[j].source = n + 1
      /\ \A i \in 1..Len(rows) : i # j => new[i] = rows[i]
  BY <1>1, RepeatedRows
<1> HIDE DEF new
<1>3. b[k] # 0 /\ Open(rows, k) = {j} /\ rows[j].count = b[k]
  BY DEF OneOpen
<1>4. OneOpen(new, [b EXCEPT ![k] = @ + 1])
  <2>1. \A h \in Keys : Open(new, h) = Open(rows, h)
    BY <1>1, <1>2 DEF Open
  <2>2. ASSUME NEW h \in Keys
        PROVE  IF [b EXCEPT ![k] = @ + 1][h] = 0 THEN Open(new, h) = {}
               ELSE \E i \in 1..Len(new) :
                       Open(new, h) = {i} /\ new[i].count = [b EXCEPT ![k] = @ + 1][h]
    <3>1. CASE h = k
      BY <1>1, <1>2, <1>3, <2>1, <3>1 DEF Counts
    <3>2. CASE h # k
      <4>1. j \notin Open(rows, h)
        BY <1>1, <3>2 DEF Open
      <4>2. QED
        BY <1>2, <2>1, <3>2, <4>1 DEF Counts, OneOpen
    <3>3. QED
      BY <3>1, <3>2
  <2>3. QED
    BY <2>2 DEF OneOpen
<1>5. OneEach(new, e)
  <2>1. \A h \in Keys : OfKey(new, h) = OfKey(rows, h)
    BY <1>1, <1>2 DEF OfKey
  <2>2. QED
    BY <2>1 DEF OneEach
<1>6. Sourced(new, n + 1)
  BY <1>2 DEF Sourced
<1>7. Forward(old, new)
  <2>1. \A i \in 1..Len(rows) :
           /\ new[i].key = rows[i].key
           /\ rows[i].status = "resolved" => new[i] = rows[i]
           /\ new[i].status \in {rows[i].status, "resolved"}
    BY <1>1, <1>2
  <2>2. QED
    BY <1>2, <2>1, ForwardExtends DEF Rows
<1>8. QED
  BY <1>3, <1>4, <1>5, <1>6, <1>7 DEF new

\* A measurement without a violation.
LEMMA ResolvedKeeps ==
    ASSUME NEW old \in Rows, NEW rows \in Rows, NEW k \in Keys, NEW n \in Nat,
           NEW b \in Counts, NEW e \in Counts,
           OneOpen(rows, b), OneEach(rows, e), Sourced(rows, n + 1), Forward(old, rows)
    PROVE  LET new == ResolveAlerts(rows, k) IN
           /\ OneOpen(new, [b EXCEPT ![k] = 0])
           /\ OneEach(new, e)
           /\ Sourced(new, n + 1) /\ Forward(old, new)
<1> DEFINE new == ResolveAlerts(rows, k)
<1>1. /\ new \in Rows /\ Len(new) = Len(rows)
      /\ \A i \in 1..Len(rows) :
            /\ new[i].key = rows[i].key
            /\ new[i].count = rows[i].count
            /\ new[i].source = rows[i].source
            /\ i \in Open(rows, k) => new[i].status = "resolved"
            /\ i \notin Open(rows, k) => new[i] = rows[i]
  BY ResolvedRows
<1> HIDE DEF new
<1>2. OneOpen(new, [b EXCEPT ![k] = 0])
  <2>1. Open(new, k) = {}
    BY <1>1 DEF Open
  <2>2. ASSUME NEW h \in Keys, h # k PROVE Open(new, h) = Open(rows, h)
    BY <1>1, <2>2 DEF Open
  <2>3. QED
    BY <1>1, <2>1, <2>2, SMTT(20) DEF OneOpen, Counts
<1>3. OneEach(new, e)
  <2>1. \A h \in Keys : OfKey(new, h) = OfKey(rows, h)
    BY <1>1 DEF OfKey
  <2>2. QED
    BY <2>1 DEF OneEach
<1>4. Sourced(new, n + 1)
  BY <1>1 DEF Sourced
<1>5. Forward(old, new)
  <2>1. \A i \in 1..Len(rows) :
           /\ new[i].key = rows[i].key
           /\ rows[i].status = "resolved" => new[i] = rows[i]
           /\ new[i].status \in {rows[i].status, "resolved"}
    BY <1>1 DEF Open
  <2>2. QED
    BY <1>1, <2>1, ForwardExtends DEF Rows
<1>6. QED
  BY <1>2, <1>3, <1>4, <1>5 DEF new

---------------------------------------------------------------------------
(* Type correctness *)

\* An acknowledgement changes the status of one active row.
LEMMA AcknowledgedRows ==
    ASSUME NEW rows \in Rows, NEW j \in 1..Len(rows)
    PROVE  LET new == [rows EXCEPT ![j] = [rows[j] EXCEPT !.status = "acknowledged"]] IN
           /\ new \in Rows /\ Len(new) = Len(rows)
           /\ new[j] = [rows[j] EXCEPT !.status = "acknowledged"]
           /\ \A i \in 1..Len(rows) : i # j => new[i] = rows[i]
<1>1. rows[j] \in Row
  BY DEF Rows
<1>2. [rows[j] EXCEPT !.status = "acknowledged"] \in Row
  BY <1>1 DEF Row, Status
<1>3. QED
  BY <1>2 DEF Rows

\* A statement of an open transaction: what it judges and what it writes.
LEMMA JudgeTyped ==
    ASSUME TypeOK, tx # Idle, tx.left # <<>>,
           LET m == Head(tx.left)
               k == <<tx.device, m.type>>
           IN  IF Violates(m) THEN Violation(k) ELSE NoViolation(k)
    PROVE  tx' \in TxOpen
<1> DEFINE m == Head(tx.left)
           k == <<tx.device, m.type>>
<1>1. tx \in TxOpen
  BY DEF TypeOK, TxOpen, Rows, Counts
<1>2. m \in Measurements /\ Tail(tx.left) \in Seq(Measurements)
  BY <1>1 DEF TxOpen
<1>3. k \in Keys
  BY <1>1, <1>2 DEF Keys, Measurements, TxOpen
<1>4. tx.rows \in Rows /\ records + 1 \in Nat
  BY <1>1 DEF TypeOK, TxOpen
<1> HIDE DEF k, m
<1>5. CASE Violation(k)
  <2>1. PICK rows \in InsertAlert(tx.rows, k, records + 1) :
           tx' = [tx EXCEPT !.left = Tail(@), !.rows = rows,
                     !.breaches[k] = @ + 1,
                     !.episodes[k] = IF tx.breaches[k] = 0 THEN @ + 1 ELSE @]
    BY <1>5 DEF Violation
  <2>2. rows \in Rows
    <3>1. CASE Open(tx.rows, k) = {}
      <4>1. rows = Raised(tx.rows, k, records + 1)
        BY <2>1, <3>1 DEF InsertAlert
      <4>2. QED
        BY <1>3, <1>4, <4>1, RaisedRows
    <3>2. CASE Open(tx.rows, k) # {}
      <4>1. PICK i \in Open(tx.rows, k) : rows = Repeated(tx.rows, i, records + 1)
        BY <2>1, <3>2 DEF InsertAlert
      <4>2. i \in 1..Len(tx.rows)
        BY DEF Open
      <4>3. QED
        BY <1>4, <4>1, <4>2, RepeatedRows
    <3>3. QED
      BY <3>1, <3>2
  <2>3. /\ [tx.breaches EXCEPT ![k] = @ + 1] \in Counts
        /\ [tx.episodes EXCEPT ![k] = IF tx.breaches[k] = 0 THEN @ + 1 ELSE @] \in Counts
    BY <1>1, <1>3 DEF TxOpen, Counts
  <2>4. tx' = [tx EXCEPT !.left = Tail(tx.left), !.rows = rows,
                  !.breaches = [tx.breaches EXCEPT ![k] = @ + 1],
                  !.episodes = [tx.episodes EXCEPT
                      ![k] = IF tx.breaches[k] = 0 THEN @ + 1 ELSE @]]
    BY <2>1
  <2>5. QED
    BY <1>1, <1>2, <2>2, <2>3, <2>4 DEF TxOpen
<1>6. CASE NoViolation(k)
  <2>1. ResolveAlerts(tx.rows, k) \in Rows
    BY <1>3, <1>4, ResolvedRows
  <2>2. QED
    BY <1>1, <1>2, <1>3, <1>6, <2>1 DEF NoViolation, TxOpen, Counts
<1>7. QED
  BY <1>5, <1>6 DEF k, m

\* Every reachable state of the store is well typed.
THEOREM TypeCorrect == Spec => []TypeOK
<1>1. Init => TypeOK
  BY AlertAssumption DEF Init, TypeOK
<1>2. TypeOK /\ [Next]_vars => TypeOK'
  <2> SUFFICES ASSUME TypeOK, [Next]_vars PROVE TypeOK'
    OBVIOUS
  <2>1. ASSUME NEW d \in Devices, NEW ms \in Messages, Begin(d, ms) PROVE TypeOK'
    BY <2>1, AlertAssumption DEF Begin, history, TypeOK
  <2>2. CASE Judge
    <3>1. tx' \in TxOpen
      BY <2>2, JudgeTyped DEF Judge
    <3>2. QED
      BY <2>2, <3>1 DEF Judge, history, TypeOK, TxOpen, Rows, Counts
  <2>3. CASE Commit
    BY <2>3 DEF Commit, TypeOK
  <2>4. CASE Fail
    BY <2>4 DEF Fail, RolledBack, history, TypeOK
  <2>5. ASSUME NEW i \in 1..Len(alerts), Acknowledge(i) PROVE TypeOK'
    <3>1. alerts' \in Rows
      BY <2>5, AcknowledgedRows DEF Acknowledge, TypeOK, Rows
    <3>2. QED
      BY <2>5, <3>1 DEF Acknowledge, history, TypeOK, Rows
  <2>6. CASE Reload
    BY <2>6 DEF Reload, history, TypeOK
  <2>7. CASE UNCHANGED vars
    BY <2>7 DEF vars, history, TypeOK
  <2>8. QED
    BY <2>1, <2>2, <2>3, <2>4, <2>5, <2>6, <2>7 DEF Next
<1>3. QED
  BY <1>1, <1>2, PTL DEF Spec

---------------------------------------------------------------------------
(* The inductive invariant *)

Book(rows, b, e, n) == OneOpen(rows, b) /\ OneEach(rows, e) /\ Sourced(rows, n)

TxBook ==
    tx # Idle =>
        Book(tx.rows, tx.breaches, tx.episodes, records + 1) /\ Forward(alerts, tx.rows)

BookInv == Book(alerts, breaches, episodes, records) /\ TxBook

\* The rows that no transaction has touched yet.
LEMMA ForwardReflexive ==
    ASSUME NEW rows \in Rows
    PROVE  Forward(rows, rows)
<1>1. Len(rows) \in Nat /\ \A i \in 1..Len(rows) : rows[i] \in Row
  BY DEF Rows
<1>2. QED
  BY <1>1 DEF Forward

\* Every statement of a transaction keeps the books of what it sees.
LEMMA JudgeBooked ==
    ASSUME TypeOK, BookInv, Judge
    PROVE  BookInv'
<1> DEFINE m == Head(tx.left)
           k == <<tx.device, m.type>>
<1>1. tx \in TxOpen /\ tx # Idle /\ tx.left # <<>> /\ alerts \in Rows /\ records \in Nat
  BY DEF TypeOK, TxOpen, Rows, Counts, Judge
<1>2. k \in Keys
  <2>1. m \in Measurements
    BY <1>1 DEF TxOpen
  <2>2. QED
    BY <1>1, <2>1 DEF Keys, Measurements, TxOpen
<1>3. /\ tx.rows \in Rows /\ tx.breaches \in Counts /\ tx.episodes \in Counts
      /\ OneOpen(tx.rows, tx.breaches) /\ OneEach(tx.rows, tx.episodes)
      /\ Sourced(tx.rows, records + 1) /\ Forward(alerts, tx.rows)
  BY <1>1 DEF BookInv, TxBook, Book, TxOpen
<1>4. UNCHANGED <<alerts, records, breaches, episodes>>
  BY DEF Judge, history
<1>5. Violation(k) \/ NoViolation(k)
  BY DEF Judge
<1> HIDE DEF k, m
<1>6. SUFFICES /\ OneOpen(tx'.rows, tx'.breaches) /\ OneEach(tx'.rows, tx'.episodes)
               /\ Sourced(tx'.rows, records + 1) /\ Forward(alerts, tx'.rows)
  BY <1>4 DEF BookInv, TxBook, Book
<1>7. CASE Violation(k)
  <2>1. PICK rows \in InsertAlert(tx.rows, k, records + 1) :
           tx' = [tx EXCEPT !.left = Tail(@), !.rows = rows,
                     !.breaches[k] = @ + 1,
                     !.episodes[k] = IF tx.breaches[k] = 0 THEN @ + 1 ELSE @]
    BY <1>7 DEF Violation
  <2>2. /\ tx'.rows = rows
        /\ tx'.breaches = [tx.breaches EXCEPT ![k] = @ + 1]
        /\ tx'.episodes = [tx.episodes EXCEPT
               ![k] = IF tx.breaches[k] = 0 THEN @ + 1 ELSE @]
    BY <1>1, <2>1 DEF TxOpen
  <2>3. CASE Open(tx.rows, k) = {}
    <3>1. rows = Raised(tx.rows, k, records + 1)
      BY <2>1, <2>3 DEF InsertAlert
    <3>2. /\ tx.breaches[k] = 0
          /\ OneOpen(rows, [tx.breaches EXCEPT ![k] = @ + 1])
          /\ OneEach(rows, [tx.episodes EXCEPT ![k] = @ + 1])
          /\ Sourced(rows, records + 1) /\ Forward(alerts, rows)
      BY <1>1, <1>2, <1>3, <2>3, <3>1, RaisedKeeps
    <3>3. QED
      BY <2>2, <3>2
  <2>4. CASE Open(tx.rows, k) # {}
    <3>1. PICK i \in Open(tx.rows, k) : rows = Repeated(tx.rows, i, records + 1)
      BY <2>1, <2>4 DEF InsertAlert
    <3>2. /\ tx.breaches[k] # 0
          /\ OneOpen(rows, [tx.breaches EXCEPT ![k] = @ + 1])
          /\ OneEach(rows, tx.episodes)
          /\ Sourced(rows, records + 1) /\ Forward(alerts, rows)
      BY <1>1, <1>2, <1>3, <3>1, RepeatedKeeps
    <3>3. tx'.episodes = tx.episodes
      BY <1>2, <1>3, <2>2, <3>2 DEF Counts
    <3>4. QED
      BY <2>2, <3>2, <3>3
  <2>5. QED
    BY <2>3, <2>4
<1>8. CASE NoViolation(k)
  <2>1. /\ tx'.rows = ResolveAlerts(tx.rows, k)
        /\ tx'.breaches = [tx.breaches EXCEPT ![k] = 0]
        /\ tx'.episodes = tx.episodes
    BY <1>1, <1>8 DEF NoViolation, TxOpen
  <2>2. QED
    BY <1>1, <1>2, <1>3, <2>1, ResolvedKeeps
<1>9. QED
  BY <1>5, <1>7, <1>8

\* An acknowledgement changes no book.
LEMMA AcknowledgeBooked ==
    ASSUME TypeOK, BookInv, NEW j \in 1..Len(alerts), Acknowledge(j)
    PROVE  BookInv'
<1>1. alerts \in Rows /\ breaches \in Counts /\ alerts[j] \in Row
  BY DEF TypeOK, Rows, Counts
<1>2. /\ tx = Idle /\ alerts[j].status = "active"
      /\ alerts' = [alerts EXCEPT ![j] = [alerts[j] EXCEPT !.status = "acknowledged"]]
      /\ UNCHANGED <<records, tx, breaches, episodes>>
  BY DEF Acknowledge, MayAcknowledge, history
<1>3. /\ Len(alerts') = Len(alerts)
      /\ alerts'[j] = [alerts[j] EXCEPT !.status = "acknowledged"]
      /\ \A i \in 1..Len(alerts) : i # j => alerts'[i] = alerts[i]
  BY <1>1, <1>2, AcknowledgedRows
<1>4. /\ alerts'[j].key = alerts[j].key /\ alerts'[j].count = alerts[j].count
      /\ alerts'[j].source = alerts[j].source /\ alerts'[j].status = "acknowledged"
  BY <1>1, <1>3 DEF Row
<1>5. \A k \in Keys : Open(alerts', k) = Open(alerts, k)
  BY <1>2, <1>3, <1>4 DEF Open
<1>6. \A k \in Keys : OfKey(alerts', k) = OfKey(alerts, k)
  BY <1>3, <1>4 DEF OfKey
<1>7. OneOpen(alerts', breaches)
  <2>1. OneOpen(alerts, breaches)
    BY DEF BookInv, Book
  <2>2. \A i \in 1..Len(alerts) : alerts'[i].count = alerts[i].count
    BY <1>3, <1>4
  <2>3. ASSUME NEW k \in Keys
        PROVE  IF breaches[k] = 0 THEN Open(alerts', k) = {}
               ELSE \E i \in 1..Len(alerts') :
                       Open(alerts', k) = {i} /\ alerts'[i].count = breaches[k]
    <3>1. Open(alerts', k) = Open(alerts, k)
      BY <1>5
    <3>2. QED
      BY <1>3, <2>1, <2>2, <3>1 DEF OneOpen
  <2>4. QED
    BY <2>3 DEF OneOpen
<1>8. OneEach(alerts', episodes)
  BY <1>6 DEF BookInv, Book, OneEach
<1>9. Sourced(alerts', records)
  BY <1>3, <1>4 DEF BookInv, Book, Sourced
<1>10. QED
  BY <1>2, <1>7, <1>8, <1>9 DEF BookInv, Book, TxBook

\* The books are right in every reachable state.
LEMMA Booked == Spec => []BookInv
<1>1. Init => BookInv
  <2> SUFFICES ASSUME Init PROVE BookInv
    OBVIOUS
  <2>1. alerts = <<>> /\ tx = Idle /\ records = 0
        /\ breaches = [k \in Keys |-> 0] /\ episodes = [k \in Keys |-> 0]
    BY DEF Init
  <2>2. \A k : Open(alerts, k) = {} /\ OfKey(alerts, k) = {}
    BY <2>1 DEF Open, OfKey
  <2>3. QED
    BY <2>1, <2>2, FS_EmptySet DEF BookInv, Book, OneOpen, OneEach, Sourced, TxBook
<1>2. TypeOK /\ BookInv /\ [Next]_vars => BookInv'
  <2> SUFFICES ASSUME TypeOK, BookInv, [Next]_vars PROVE BookInv'
    OBVIOUS
  <2>1. ASSUME NEW d \in Devices, NEW ms \in Messages, Begin(d, ms) PROVE BookInv'
    <3>1. /\ tx'.rows = alerts /\ tx'.breaches = breaches /\ tx'.episodes = episodes
          /\ UNCHANGED <<alerts, records, breaches, episodes>>
      BY <2>1 DEF Begin, history
    <3>2. Sourced(alerts, records + 1)
      BY DEF BookInv, Book, Sourced, TypeOK
    <3>3. Forward(alerts, alerts)
      BY ForwardReflexive DEF TypeOK, Rows
    <3>4. QED
      BY <3>1, <3>2, <3>3 DEF BookInv, Book, TxBook
  <2>2. CASE Judge
    BY <2>2, JudgeBooked
  <2>3. CASE Commit
    BY <2>3 DEF Commit, BookInv, Book, TxBook
  <2>4. CASE Fail
    BY <2>4 DEF Fail, RolledBack, history, BookInv, Book, TxBook
  <2>5. ASSUME NEW i \in 1..Len(alerts), Acknowledge(i) PROVE BookInv'
    BY <2>5, AcknowledgeBooked
  <2>6. CASE Reload
    BY <2>6 DEF Reload, history, BookInv, Book, TxBook
  <2>7. CASE UNCHANGED vars
    BY <2>7 DEF vars, history, BookInv, Book, TxBook
  <2>8. QED
    BY <2>1, <2>2, <2>3, <2>4, <2>5, <2>6, <2>7 DEF Next
<1>3. QED
  BY <1>1, <1>2, TypeCorrect, PTL DEF Spec

---------------------------------------------------------------------------
(* The properties *)

\* A condition has one open alert exactly while its last stored measurement
\* violated its rule, and it counts the violations since it began.
THEOREM OpenWhileBreachedHolds == Spec => []OpenWhileBreached
<1>1. BookInv => OpenWhileBreached
  BY DEF BookInv, Book, OneOpen, OpenWhileBreached
<1>2. QED
  BY <1>1, Booked, PTL

\* Every run of violations has one alert of its own.
THEOREM AlertPerEpisodeHolds == Spec => []AlertPerEpisode
<1>1. BookInv => AlertPerEpisode
  BY DEF BookInv, Book, OneEach, OfKey, AlertPerEpisode
<1>2. QED
  BY <1>1, Booked, PTL

\* Every alert names a reading that was stored.
THEOREM SourceStoredHolds == Spec => []SourceStored
<1>1. BookInv => SourceStored
  BY DEF BookInv, Book, Sourced, SourceStored
<1>2. QED
  BY <1>1, Booked, PTL

\* No alert is deleted, reopened or moved back, by whatever message or
\* operator.
THEOREM StatusForwardHolds == Spec => StatusForward
<1>1. TypeOK /\ BookInv /\ [Next]_vars => [Forward(alerts, alerts')]_vars
  <2> SUFFICES ASSUME TypeOK, BookInv, [Next]_vars, vars' # vars
               PROVE  Forward(alerts, alerts')
    OBVIOUS
  <2>1. alerts \in Rows
    BY DEF TypeOK, Rows
  <2>2. CASE UNCHANGED alerts
    BY <2>1, <2>2, ForwardReflexive
  <2>3. CASE Commit
    BY <2>3 DEF Commit, BookInv, TxBook
  <2>4. ASSUME NEW j \in 1..Len(alerts), Acknowledge(j) PROVE Forward(alerts, alerts')
    <3>1. alerts[j] \in Row /\ Len(alerts) \in Nat
      BY <2>1 DEF Rows
    <3>2. /\ alerts[j].status = "active"
          /\ alerts' = [alerts EXCEPT ![j] = [alerts[j] EXCEPT !.status = "acknowledged"]]
      BY <2>4 DEF Acknowledge, MayAcknowledge
    <3>3. /\ Len(alerts') = Len(alerts)
          /\ alerts'[j] = [alerts[j] EXCEPT !.status = "acknowledged"]
          /\ \A i \in 1..Len(alerts) : i # j => alerts'[i] = alerts[i]
      BY <2>1, <3>2, AcknowledgedRows
    <3>4. alerts'[j].key = alerts[j].key
      BY <3>1, <3>3 DEF Row
    <3>5. QED
      BY <3>1, <3>2, <3>3, <3>4 DEF Forward
  <2>5. QED
    BY <2>2, <2>3, <2>4
       DEF Next, Begin, Judge, Fail, RolledBack, Reload, vars, history
<1>2. [Forward(alerts, alerts')]_vars <=>
      [/\ Len(alerts) <= Len(alerts')
       /\ \A i \in 1..Len(alerts) :
             /\ alerts'[i].key = alerts[i].key
             /\ alerts[i].status = "resolved" => alerts'[i] = alerts[i]
             /\ alerts[i].status = "acknowledged" => alerts'[i].status # "active"]_vars
  BY DEF Forward
<1>3. QED
  BY <1>1, <1>2, TypeCorrect, Booked, PTL DEF Spec, StatusForward

\* The alerts account for the readings, one for one run of violations.
THEOREM AlertsAccountedHolds == Spec => []AlertsAccounted
<1> QED BY AlertPerEpisodeHolds, SourceStoredHolds, PTL DEF AlertsAccounted
=============================================================================
