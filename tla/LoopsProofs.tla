------------------------------ MODULE LoopsProofs ------------------------------
(***************************************************************************)
(* Proofs about the database, the shared queries, the Modbus polling, the  *)
(* reload of the bindings, the twins and the ring of the sensor node: for  *)
(* each an inductive invariant, and from it the safety part of the prop-   *)
(* erty the run of MCLoops checks.                                         *)
(***************************************************************************)
EXTENDS Database, SemanticViews, ModbusPolling, BindingReload, DeviceTwin,
        EdgeBuffer, RanksAndSums, FiniteSetTheorems, SequenceTheorems, TLAPS

(***************************************************************************)
(* Database: the migrations.  The program counter of a start tells which   *)
(* statements the transaction has seen; the alerts are resolved in the     *)
(* open transaction, which begins there, so that an interrupted migration  *)
(* leaves the columns on the disk and the version behind: the tear.        *)
(***************************************************************************)
Words == {"old", "active", "resolved"}

DbState == [applied : SUBSET Statements(1..SchemaVersion), version : 0..SchemaVersion, alerts : Seq(Words)]

\* every statement of the versions it says it has
Complete(db) == \A v \in 1..db.version : \A i \in DOMAIN Migrations[v] : <<v, i>> \in db.applied

NoneActive(db) == \A i \in DOMAIN db.alerts : db.alerts[i] # "active"

DiskWell ==
    /\ disk \in DbState /\ Complete(disk)
    /\ disk.version < 5 => NoneActive(disk)
    /\ process \in {"down", "migrating", "up", "failed"} /\ torn \in BOOLEAN
    /\ process = "up" => disk.version = SchemaVersion
    /\ process # "migrating" => open = NoTransaction
    /\ process = "failed" => torn
    /\ process \in {"down", "up"} => torn \/ disk.version >= 5 \/ \A j \in Int : <<5, j>> \notin disk.applied

Underway ==
    process = "migrating" =>
        /\ at \in (1..7) \X (Nat \ {0})
        /\ at[1] <= 6 => at[2] <= Len(Migrations[at[1]]) + 1
        /\ Current \in DbState /\ Complete(Current) /\ Current.version = at[1] - 1
        /\ \A j \in 1..(at[2] - 1) : <<at[1], j>> \in Current.applied
        /\ open # NoTransaction => disk.version < 5 /\ (at[1] > 5 \/ (at[1] = 5 /\ at[2] > 8))
        /\ torn \/ at[1] > 5 \/ \A j \in Int : (at[1] = 5 => j >= at[2]) => <<5, j>> \notin Current.applied

MigrationInv == DiskWell /\ Underway

(***************************************************************************)
(* The pool: what is idle and what is held are the connections created.    *)
(***************************************************************************)
Doings == {"idle", "found none", "waits", "uses"}

Held == {t \in Threads : borrower[t].does = "uses"}

PoolWell ==
    /\ borrower \in [Threads -> [does : Doings, conn : Int]]
    /\ created \in 0..PoolSize /\ idle \in Seq(1..created)
    /\ process # "up" => created = 0 /\ idle = << >> /\ \A t \in Threads : borrower[t] = Nobody
    /\ IsFiniteSet(Held) /\ created = Len(idle) + Cardinality(Held)
    /\ \A t \in Held : borrower[t].conn \in 1..created

PoolApart ==
    /\ \A i, j \in DOMAIN idle : i # j => idle[i] # idle[j]
    /\ \A t, u \in Held : t # u => borrower[t].conn # borrower[u].conn
    /\ \A t \in Held : \A i \in DOMAIN idle : borrower[t].conn # idle[i]

DatabaseInv == MigrationInv /\ PoolWell /\ PoolApart

---------------------------------------------------------------------------
(* What the migrations are *)

LEMMA ConstantIsSeq == \A n \in Nat : \A S : \A s \in S : [i \in 1..n |-> s] \in Seq(S)
BY SeqDef

LEMMA OneOrTwo ==
  ASSUME NEW S, NEW a \in S, NEW b \in S
  PROVE  <<a>> \in Seq(S) /\ Len(<<a>>) = 1 /\ <<a, b>> \in Seq(S) /\ Len(<<a, b>>) = 2
OBVIOUS

\* Only migration 5 adds columns, and its eighth statement resolves the alerts.
LEMMA MigrationsAre ==
  /\ \A v \in 1..6 : Len(Migrations[v]) \in Nat /\ DOMAIN Migrations[v] = 1..Len(Migrations[v])
  /\ \A v \in 1..6 : \A i \in DOMAIN Migrations[v] :
        /\ Migrations[v][i] = "alter" => v = 5
        /\ Migrations[v][i] = "update" => v = 5 /\ i = 8
<1>1. \A s : \A n \in Nat : /\ Len(Repeat(s, n)) = n /\ DOMAIN Repeat(s, n) = 1..n
                            /\ \A i \in 1..n : Repeat(s, n)[i] = s
  BY DEF Repeat
<1> DEFINE Kinds == {"alter", "update", "create"}
<1>2. Repeat("alter", 7) \in Seq(Kinds)
  BY ConstantIsSeq DEF Repeat
<1> DEFINE Five == Repeat("alter", 7) \o <<"update", "create">>
<1>3. /\ Len(Five) = 9 /\ DOMAIN Five = 1..9
      /\ \A i \in 1..9 : Five[i] = IF i <= 7 THEN "alter" ELSE IF i = 8 THEN "update" ELSE "create"
  <2> DEFINE a == Repeat("alter", 7)
             b == <<"update", "create">>
  <2>1. /\ Len(b) = 2 /\ b[1] = "update" /\ b[2] = "create"
    OBVIOUS
  <2>2. b \in Seq(Kinds)
    <3>1. "update" \in Kinds /\ "create" \in Kinds
      OBVIOUS
    <3> QED BY <3>1, OneOrTwo
  <2>3. a \in Seq(Kinds) /\ Len(a) = 7 /\ \A i \in 1..7 : a[i] = "alter"
    BY <1>1, <1>2
  <2> HIDE DEF a, b, Kinds
  <2>4. /\ a \o b \in Seq(Kinds) /\ Len(a \o b) = 9
        /\ \A i \in 1..9 : (a \o b)[i] = IF i <= 7 THEN a[i] ELSE b[i - 7]
    <3>1. /\ a \o b \in Seq(Kinds) /\ Len(a \o b) = Len(a) + Len(b)
          /\ \A i \in 1..Len(a) + Len(b) : (a \o b)[i] = IF i <= Len(a) THEN a[i] ELSE b[i - Len(a)]
      BY <2>2, <2>3, ConcatProperties
    <3> QED BY <2>1, <2>3, <3>1
  <2>5. DOMAIN (a \o b) = 1..9
    BY <2>4, LenProperties
  <2>6. \A i \in 1..9 : i <= 7 \/ i = 8 \/ i = 9
    OBVIOUS
  <2> QED BY <2>1, <2>3, <2>4, <2>5, <2>6 DEF a, b
<1>4. \A v \in 1..6 : \/ v = 5 /\ Migrations[v] = Five
                      \/ v # 5 /\ \E n \in Nat : Migrations[v] = Repeat("create", n)
  BY DEF Migrations
<1> HIDE DEF Five
<1>5. \A v \in 1..6 : Len(Migrations[v]) \in Nat /\ DOMAIN Migrations[v] = 1..Len(Migrations[v])
  BY <1>1, <1>3, <1>4
<1>6. \A v \in 1..6 : \A i \in DOMAIN Migrations[v] :
        /\ Migrations[v][i] = "alter" => v = 5
        /\ Migrations[v][i] = "update" => v = 5 /\ i = 8
  <2> SUFFICES ASSUME NEW v \in 1..6, NEW i \in DOMAIN Migrations[v]
               PROVE  /\ Migrations[v][i] = "alter" => v = 5
                      /\ Migrations[v][i] = "update" => v = 5 /\ i = 8
    OBVIOUS
  <2>1. CASE v = 5
    BY <1>3, <1>4, <2>1
  <2>2. CASE v # 5
    <3>1. PICK n \in Nat : Migrations[v] = Repeat("create", n)
      BY <1>4, <2>2
    <3>2. Migrations[v][i] = "create"
      BY <1>1, <3>1
    <3> QED BY <3>2
  <2> QED BY <2>1, <2>2
<1> QED BY <1>5, <1>6

LEMMA StatementsAre ==
  /\ \A S : \A s : s \in Statements(S) <=> \E v \in S : \E i \in DOMAIN Migrations[v] : s = <<v, i>>
  /\ \A v \in 1..6 : \A i \in DOMAIN Migrations[v] : <<v, i>> \in Statements(1..SchemaVersion)
BY DEF Statements, SchemaVersion

LEMMA NoTransactionIsNone == \A db \in DbState : db # NoTransaction
BY DEF DbState, NoTransaction, SchemaVersion

\* What is written is what is read next.
LEMMA Written ==
  ASSUME NEW db \in DbState, NEW opens \in BOOLEAN, Write(db, opens)
  PROVE  /\ Current' = db
         /\ open' = NoTransaction => disk' = db /\ open = NoTransaction /\ ~opens
         /\ open' # NoTransaction => disk' = disk /\ (opens \/ open # NoTransaction)
         /\ disk' = disk \/ (disk' = db /\ open = NoTransaction /\ ~opens)
BY NoTransactionIsNone DEF Write, Current

\* A statement is added to those that took effect; the alerts change with one
\* that opens the transaction.
LEMMA Effective ==
  ASSUME NEW db \in DbState, NEW v \in 1..6, NEW i \in DOMAIN Migrations[v]
  PROVE  /\ Effect(db, <<v, i>>) \in DbState
         /\ Effect(db, <<v, i>>).applied = db.applied \cup {<<v, i>>}
         /\ Effect(db, <<v, i>>).version = db.version
         /\ Opens(Migrations[v][i]) \in BOOLEAN
         /\ ~Opens(Migrations[v][i]) => Effect(db, <<v, i>>).alerts = db.alerts
<1> DEFINE alerts == IF Migrations[v][i] = "update" THEN [j \in DOMAIN db.alerts |-> "resolved"] ELSE db.alerts
<1>1. alerts \in Seq(Words)
  <2>1. "resolved" \in Words /\ db.alerts \in Seq(Words)
    BY DEF DbState, Words
  <2>2. DOMAIN db.alerts = 1..Len(db.alerts) /\ Len(db.alerts) \in Nat
    BY <2>1, LenProperties
  <2>3. \A n \in Nat : [j \in 1..n |-> "resolved"] \in Seq(Words)
    BY <2>1, ConstantIsSeq
  <2> QED BY <2>1, <2>2, <2>3
<1>2. db.applied \cup {<<v, i>>} \in SUBSET Statements(1..SchemaVersion)
  BY StatementsAre DEF DbState
<1>3. Effect(db, <<v, i>>) = [db EXCEPT !.applied = db.applied \cup {<<v, i>>}, !.alerts = alerts]
  BY DEF Effect, DbState
<1> HIDE DEF alerts
<1>4. Effect(db, <<v, i>>) = [applied |-> db.applied \cup {<<v, i>>}, version |-> db.version, alerts |-> alerts]
  BY <1>3 DEF DbState
<1>5. Effect(db, <<v, i>>) \in DbState
  BY <1>1, <1>2, <1>4 DEF DbState
<1>6. Opens(Migrations[v][i]) \in BOOLEAN
  BY DEF Opens
<1>7. ~Opens(Migrations[v][i]) => alerts = db.alerts
  BY DEF Opens, alerts
<1> QED BY <1>4, <1>5, <1>6, <1>7

---------------------------------------------------------------------------
(* The migrations keep their invariant *)

LEMMA MigrationInit == DatabaseInit => MigrationInv
<1> SUFFICES ASSUME DatabaseInit PROVE MigrationInv
  OBVIOUS
<1>1. << >> \in Seq(Words) /\ DOMAIN << >> = {}
  OBVIOUS
<1>2. disk \in DbState
  <2>1. {} \in SUBSET Statements(1..SchemaVersion) /\ 0 \in 0..SchemaVersion
    BY DEF SchemaVersion
  <2> QED BY <1>1, <2>1 DEF DatabaseInit, DbState
<1>3. Complete(disk) /\ NoneActive(disk) /\ \A j \in Int : <<5, j>> \notin disk.applied
  BY <1>1 DEF DatabaseInit, Complete, NoneActive
<1> QED BY <1>2, <1>3 DEF DatabaseInit, MigrationInv, DiskWell, Underway

LEMMA OlderKeeps == ASSUME MigrationInv, NEW v \in 1..SchemaVersion, OlderDatabase(v) PROVE MigrationInv'
<1> DEFINE alerts == IF v < 5 THEN <<"old">> ELSE <<"active">>
<1>1. alerts \in Seq(Words) /\ (v < 5 => \A i \in DOMAIN alerts : alerts[i] # "active")
  <2>1. "old" \in Words /\ "active" \in Words
    BY DEF Words
  <2>2. <<"old">> \in Seq(Words) /\ <<"active">> \in Seq(Words)
    BY <2>1, OneOrTwo
  <2>3. DOMAIN <<"old">> = {1} /\ <<"old">>[1] = "old"
    OBVIOUS
  <2> QED BY <2>2, <2>3
<1>2. disk' = [applied |-> Statements(1..v), version |-> v, alerts |-> alerts]
  BY DEF OlderDatabase
<1> HIDE DEF alerts
<1>3. v \in 1..6 /\ v \in 0..SchemaVersion
  BY DEF SchemaVersion
<1>4. Statements(1..v) \subseteq Statements(1..SchemaVersion)
  BY <1>3, StatementsAre DEF SchemaVersion
<1>5. disk' \in DbState
  BY <1>1, <1>2, <1>3, <1>4 DEF DbState
<1>6. Complete(disk')
  BY <1>2, <1>3, StatementsAre DEF Complete
<1>7. v < 5 => NoneActive(disk') /\ \A j \in Int : <<5, j>> \notin disk'.applied
  BY <1>1, <1>2, <1>3, StatementsAre DEF NoneActive
<1>8. Complete(disk)' /\ (v < 5 => NoneActive(disk)')
  BY <1>6, <1>7 DEF Complete, NoneActive
<1>9. disk'.version = v
  BY <1>2
<1> QED BY <1>3, <1>5, <1>7, <1>8, <1>9 DEF OlderDatabase, MigrationInv, DiskWell, Underway

LEMMA StartKeeps == ASSUME MigrationInv, StartProcess PROVE MigrationInv'
<1>1. open = NoTransaction /\ disk' = disk /\ open' = open /\ torn' = torn /\ disk.version \in 0..6
  BY DEF StartProcess, MigrationInv, DiskWell, DbState, SchemaVersion
<1>2. Current = disk /\ Current' = disk /\ disk \in DbState /\ Complete(disk)
  BY <1>1 DEF Current, MigrationInv, DiskWell
<1>3. CASE disk.version >= SchemaVersion
  BY <1>1, <1>3 DEF StartProcess, Ready, MigrationInv, DiskWell, Underway, Complete, NoneActive, SchemaVersion
<1>4. CASE disk.version < SchemaVersion
  <2>1. at' = <<disk.version + 1, 1>> /\ process' = "migrating"
    BY <1>1, <1>4 DEF StartProcess, SchemaVersion
  <2>2. at' \in (1..7) \X (Nat \ {0}) /\ at'[1] = disk.version + 1 /\ at'[2] = 1
    BY <1>1, <1>4, <2>1 DEF SchemaVersion
  <2>3. at'[1] <= 6 => at'[2] <= Len(Migrations[at'[1]]) + 1
    BY <2>2, MigrationsAre
  <2>4. torn \/ at'[1] > 5 \/ \A j \in Int : <<5, j>> \notin disk.applied
    BY <1>1, <2>2 DEF StartProcess, MigrationInv, DiskWell
  <2>5. Underway'
    BY <1>1, <1>2, <2>2, <2>3, <2>4 DEF Underway, Complete
  <2>6. DiskWell'
    BY <1>1, <2>1 DEF MigrationInv, DiskWell, Complete, NoneActive
  <2> QED BY <2>5, <2>6 DEF MigrationInv
<1> QED BY <1>1, <1>3, <1>4 DEF SchemaVersion

\* The kind of the statement that comes next
LEMMA AtStatement ==
  ASSUME MigrationInv, process = "migrating", at[1] <= SchemaVersion
  PROVE  /\ at[1] \in 1..6 /\ at[2] \in Nat \ {0} /\ at = <<at[1], at[2]>>
         /\ Current \in DbState /\ Complete(Current) /\ Current.version = at[1] - 1
         /\ open = NoTransaction => Current = disk
BY DEF MigrationInv, Underway, SchemaVersion, Current

\* A start that finds a column that is there already follows one that was torn.
LEMMA FailKeeps ==
  ASSUME MigrationInv, RunStatement, Fails(Current, at) PROVE MigrationInv'
<1>1. at[1] \in 1..6 /\ at[2] \in DOMAIN Migrations[at[1]] /\ process = "migrating"
  BY AtStatement DEF RunStatement
<1>2. at[1] = 5 /\ at \in Current.applied
  BY <1>1, MigrationsAre DEF Fails
<1>3. at = <<5, at[2]>> /\ at[2] \in Int
  BY <1>1, <1>2, AtStatement DEF RunStatement
<1>4. torn
  BY <1>1, <1>2, <1>3 DEF MigrationInv, Underway
<1> QED BY <1>4 DEF RunStatement, MigrationInv, DiskWell, Underway, Complete, NoneActive

LEMMA RunKeeps ==
  ASSUME MigrationInv, RunStatement, ~Fails(Current, at) PROVE MigrationInv'
<1> DEFINE db == Effect(Current, at)
           kind == Migrations[at[1]][at[2]]
<1>1. /\ process = "migrating" /\ process' = "migrating" /\ torn' = torn
      /\ at[1] <= SchemaVersion /\ at[2] \in DOMAIN Migrations[at[1]]
      /\ Write(db, Opens(kind)) /\ at' = <<at[1], at[2] + 1>>
  BY DEF RunStatement
<1>2. /\ at[1] \in 1..6 /\ at[2] \in Nat \ {0} /\ at = <<at[1], at[2]>>
      /\ Current \in DbState /\ Complete(Current) /\ Current.version = at[1] - 1
      /\ open = NoTransaction => Current = disk
  BY <1>1, AtStatement
<1>3. /\ db \in DbState /\ db.applied = Current.applied \cup {<<at[1], at[2]>>}
      /\ db.version = Current.version /\ Opens(kind) \in BOOLEAN
      /\ ~Opens(kind) => db.alerts = Current.alerts
  BY <1>1, <1>2, Effective
<1>4. Opens(kind) => at[1] = 5 /\ at[2] = 8
  BY <1>1, <1>2, MigrationsAre DEF Opens
<1>5. at[2] \in 1..Len(Migrations[at[1]]) /\ Len(Migrations[at[1]]) \in Nat
  BY <1>1, <1>2, MigrationsAre
<1> HIDE DEF db, kind
<1>6. /\ Current' = db
      /\ open' = NoTransaction => disk' = db /\ open = NoTransaction /\ ~Opens(kind)
      /\ open' # NoTransaction => disk' = disk /\ (Opens(kind) \/ open # NoTransaction)
      /\ disk' = disk \/ (disk' = db /\ open = NoTransaction /\ ~Opens(kind))
  BY <1>1, <1>3, Written
<1>7. Complete(db)
  BY <1>2, <1>3 DEF Complete
<1>8. disk' \in DbState /\ Complete(disk') /\ (disk'.version < 5 => NoneActive(disk'))
  <2>1. CASE disk' = disk
    BY <2>1 DEF MigrationInv, DiskWell
  <2>2. CASE disk' = db /\ open = NoTransaction /\ ~Opens(kind)
    BY <2>2, <1>2, <1>3, <1>7 DEF MigrationInv, DiskWell, NoneActive
  <2> QED BY <1>6, <2>1, <2>2
<1>9. DiskWell'
  BY <1>1, <1>8 DEF MigrationInv, DiskWell, Complete, NoneActive
<1>10. at' \in (1..7) \X (Nat \ {0}) /\ at'[1] = at[1] /\ at'[2] = at[2] + 1
  BY <1>1, <1>2
<1>11. \A j \in 1..(at'[2] - 1) : <<at'[1], j>> \in db.applied
  <2>1. \A j \in 1..(at[2] - 1) : <<at[1], j>> \in Current.applied
    BY <1>1 DEF MigrationInv, Underway
  <2>2. \A j \in 1..at[2] : j \in 1..(at[2] - 1) \/ j = at[2]
    BY <1>2
  <2>3. at'[2] - 1 = at[2]
    BY <1>2, <1>10
  <2> QED BY <1>3, <1>10, <2>1, <2>2, <2>3
<1>12. open' # NoTransaction => disk'.version < 5 /\ (at'[1] > 5 \/ (at'[1] = 5 /\ at'[2] > 8))
  <2>1. open # NoTransaction => disk.version < 5 /\ (at[1] > 5 \/ (at[1] = 5 /\ at[2] > 8))
    BY <1>1 DEF MigrationInv, Underway
  <2>2. open = NoTransaction /\ Opens(kind) => disk.version < 5
    BY <1>2, <1>4
  <2> QED BY <1>2, <1>4, <1>6, <1>10, <2>1, <2>2
<1>13. torn \/ at'[1] > 5 \/ \A j \in Int : (at'[1] = 5 => j >= at'[2]) => <<5, j>> \notin db.applied
  <2>1. torn \/ at[1] > 5 \/ \A j \in Int : (at[1] = 5 => j >= at[2]) => <<5, j>> \notin Current.applied
    BY <1>1 DEF MigrationInv, Underway
  <2>2. \A j \in Int : (at'[1] = 5 => j >= at'[2]) => <<5, j>> # <<at[1], at[2]>> /\ (at[1] = 5 => j >= at[2])
    BY <1>2, <1>10
  <2> QED BY <1>3, <1>10, <2>1, <2>2
<1>14. Complete(Current)' /\ Current' \in DbState /\ (Current.version)' = at'[1] - 1
  BY <1>2, <1>3, <1>6, <1>7, <1>10 DEF Complete
<1>15. at'[1] <= 6 => at'[2] <= Len(Migrations[at'[1]]) + 1
  BY <1>2, <1>5, <1>10
<1>16. Underway'
  BY <1>1, <1>6, <1>10, <1>11, <1>12, <1>13, <1>14, <1>15 DEF Underway
<1> QED BY <1>9, <1>16 DEF MigrationInv

LEMMA VersionKeeps == ASSUME MigrationInv, WriteVersion PROVE MigrationInv'
<1> DEFINE db == [Current EXCEPT !.version = at[1]]
<1>1. /\ process = "migrating" /\ process' = "migrating" /\ torn' = torn
      /\ at[1] <= SchemaVersion /\ at[2] > Len(Migrations[at[1]])
      /\ Write(db, FALSE) /\ at' = <<at[1] + 1, 1>>
  BY DEF WriteVersion
<1>2. /\ at[1] \in 1..6 /\ at[2] \in Nat \ {0}
      /\ Current \in DbState /\ Complete(Current) /\ Current.version = at[1] - 1
      /\ open = NoTransaction => Current = disk
  BY <1>1, AtStatement
<1>3. /\ db \in DbState /\ db.applied = Current.applied
      /\ db.version = at[1] /\ db.alerts = Current.alerts
  BY <1>2 DEF DbState, SchemaVersion
<1> HIDE DEF db
<1>4. /\ Current' = db
      /\ open' = NoTransaction => disk' = db /\ open = NoTransaction
      /\ open' # NoTransaction => disk' = disk /\ open # NoTransaction
      /\ disk' = disk \/ (disk' = db /\ open = NoTransaction)
  <2>1. FALSE \in BOOLEAN
    OBVIOUS
  <2> QED BY <1>1, <1>3, <2>1, Written
<1>5. Complete(db)
  <2>1. \A j \in 1..(at[2] - 1) : <<at[1], j>> \in Current.applied
    BY <1>1 DEF MigrationInv, Underway
  <2>2. \A j \in DOMAIN Migrations[at[1]] : j \in 1..(at[2] - 1)
    BY <1>1, <1>2, MigrationsAre
  <2>3. \A v \in 1..at[1] : v = at[1] \/ v \in 1..(at[1] - 1)
    BY <1>2
  <2> QED BY <1>2, <1>3, <2>1, <2>2, <2>3 DEF Complete
<1>6. disk' \in DbState /\ Complete(disk') /\ (disk'.version < 5 => NoneActive(disk'))
  <2>1. CASE disk' = disk
    BY <2>1 DEF MigrationInv, DiskWell
  <2>2. CASE disk' = db /\ open = NoTransaction
    <3>1. db.version < 5 => disk.version < 5
      BY <2>2, <1>2, <1>3
    <3> QED BY <2>2, <3>1, <1>2, <1>3, <1>5 DEF MigrationInv, DiskWell, NoneActive
  <2> QED BY <1>4, <2>1, <2>2
<1>7. DiskWell'
  BY <1>1, <1>6 DEF MigrationInv, DiskWell, Complete, NoneActive
<1>8. at' \in (1..7) \X (Nat \ {0}) /\ at'[1] = at[1] + 1 /\ at'[2] = 1
  BY <1>1, <1>2
<1>9. open' # NoTransaction => disk'.version < 5 /\ (at'[1] > 5 \/ (at'[1] = 5 /\ at'[2] > 8))
  <2>1. open # NoTransaction => disk.version < 5 /\ (at[1] > 5 \/ (at[1] = 5 /\ at[2] > 8))
    BY <1>1 DEF MigrationInv, Underway
  <2> QED BY <1>2, <1>4, <1>8, <2>1
<1>10. torn \/ at'[1] > 5 \/ \A j \in Int : (at'[1] = 5 => j >= at'[2]) => <<5, j>> \notin db.applied
  <2>1. torn \/ at[1] > 5 \/ \A j \in Int : (at[1] = 5 => j >= at[2]) => <<5, j>> \notin Current.applied
    BY <1>1 DEF MigrationInv, Underway
  <2> QED BY <1>2, <1>3, <1>8, <2>1
<1>11. Complete(Current)' /\ Current' \in DbState /\ (Current.version)' = at'[1] - 1
  BY <1>2, <1>3, <1>4, <1>5, <1>8 DEF Complete
<1>12. at'[1] <= 6 => at'[2] <= Len(Migrations[at'[1]]) + 1
  BY <1>2, <1>8, MigrationsAre
<1>13. \A j \in 1..(at'[2] - 1) : <<at'[1], j>> \in db.applied
  BY <1>8
<1>14. Underway'
  BY <1>1, <1>4, <1>8, <1>9, <1>10, <1>11, <1>12, <1>13 DEF Underway
<1> QED BY <1>7, <1>14 DEF MigrationInv

LEMMA CommitKeeps == ASSUME MigrationInv, CommitMigrations PROVE MigrationInv'
<1>1. at[1] = 7 /\ Current \in DbState /\ Complete(Current) /\ Current.version = 6
  BY DEF CommitMigrations, MigrationInv, Underway, SchemaVersion
<1>2. disk' = Current /\ open' = NoTransaction /\ process' = "up" /\ torn' = torn
  BY DEF CommitMigrations, Ready
<1>3. Complete(disk)'
  BY <1>1, <1>2 DEF Complete
<1> QED BY <1>1, <1>2, <1>3 DEF MigrationInv, DiskWell, Underway, SchemaVersion

\* What dies before its first column leaves none, and what dies after that
\* and before its commit is torn.
LEMMA DieKeeps == ASSUME MigrationInv, Die PROVE MigrationInv'
<1>1. /\ disk' = disk /\ open' = NoTransaction /\ process' = "down" /\ torn' \in BOOLEAN
      /\ torn => torn'
  BY DEF Die, MigrationInv, DiskWell
<1>2. process = "migrating" => torn' \/ disk.version >= 5 \/ \A j \in Int : <<5, j>> \notin disk.applied
  <2> SUFFICES ASSUME process = "migrating", ~torn', disk.version < 5, NEW j \in Int
               PROVE  <<5, j>> \notin disk.applied
    BY <1>1 DEF MigrationInv, DiskWell, DbState, SchemaVersion
  <2>1. ~torn /\ open = NoTransaction /\ ~(at[1] = 5 /\ at[2] > 1)
    BY <1>1 DEF Die
  <2>2. Current = disk /\ at[1] \in 1..7 /\ at[2] \in Nat \ {0} /\ disk.version = at[1] - 1
    BY <2>1 DEF Current, MigrationInv, Underway
  <2>3. at[1] < 6 /\ (at[1] = 5 => at[2] = 1)
    BY <2>1, <2>2
  <2>4. \A k \in Int : (at[1] = 5 => k >= at[2]) => <<5, k>> \notin disk.applied
    BY <2>1, <2>2, <2>3 DEF MigrationInv, Underway
  <2>5. CASE at[1] # 5
    BY <2>4, <2>5
  <2>6. CASE at[1] = 5 /\ j >= 1
    BY <2>3, <2>4, <2>6
  <2>7. CASE j < 1
    BY <2>7, StatementsAre, MigrationsAre DEF MigrationInv, DiskWell, DbState, SchemaVersion
  <2> QED BY <2>5, <2>6, <2>7
<1>3. process # "migrating" => torn' \/ disk.version >= 5 \/ \A j \in Int : <<5, j>> \notin disk.applied
  BY <1>1 DEF Die, MigrationInv, DiskWell
<1> QED BY <1>1, <1>2, <1>3 DEF MigrationInv, DiskWell, Underway, Complete, NoneActive

\* The threads leave the migrations alone; an alert is raised only in a
\* database of the newest version.
LEMMA ThreadsKeepMigrations ==
  ASSUME MigrationInv, PoolWell, NEW t \in Threads, Asks(t) \/ UsesConnection(t) \/ ThreadStep(t)
  PROVE  MigrationInv'
<1>1. CASE UsesConnection(t)
  <2>1. process = "up"
    BY <1>1 DEF UsesConnection, PoolWell, Nobody
  <2>2. disk.version = 6 /\ open = NoTransaction /\ disk \in DbState
    BY <2>1 DEF MigrationInv, DiskWell, SchemaVersion
  <2>3. Append(disk.alerts, "active") \in Seq(Words)
    <3>1. "active" \in Words /\ disk.alerts \in Seq(Words)
      BY <2>2 DEF DbState, Words
    <3> QED BY <3>1, AppendProperties
  <2>4. disk' = [disk EXCEPT !.alerts = Append(disk.alerts, "active")]
    BY <1>1 DEF UsesConnection
  <2>5. disk' \in DbState /\ disk'.version = 6 /\ disk'.applied = disk.applied
    BY <2>2, <2>3, <2>4 DEF DbState
  <2>6. Complete(disk)'
    BY <2>2, <2>5 DEF MigrationInv, DiskWell, Complete
  <2> QED BY <1>1, <2>1, <2>2, <2>5, <2>6 DEF UsesConnection, MigrationInv, DiskWell, Underway, SchemaVersion
<1>2. CASE Asks(t) \/ ThreadStep(t)
  BY <1>2 DEF Asks, ThreadStep, Creates, CreateFails, Waits, Served, Releases,
     MigrationInv, DiskWell, Underway, Complete, NoneActive, Current
<1> QED BY <1>1, <1>2

---------------------------------------------------------------------------
(* The pool keeps its invariant *)

LEMMA NobodyHolds == Nobody \in [does : Doings, conn : Int] /\ Nobody.does # "uses"
BY DEF Nobody, Doings

\* A thread takes the last connection of the idle ones.
LEMMA Takes ==
  ASSUME PoolWell, PoolApart, process = "up", process' = "up",
         NEW t \in Threads, t \notin Held, idle # << >>,
         borrower' = [borrower EXCEPT ![t] = [does |-> "uses", conn |-> idle[Len(idle)]]],
         idle' = SubSeq(idle, 1, Len(idle) - 1), created' = created
  PROVE  PoolWell' /\ PoolApart'
<1> DEFINE n == Len(idle)
           c == idle[n]
           b == [does |-> "uses", conn |-> c]
<1>1. /\ n \in Nat \ {0} /\ DOMAIN idle = 1..n /\ n \in 1..n
      /\ \A i \in 1..n : idle[i] \in 1..created
      /\ created \in Nat
  <2>1. idle \in Seq(1..created) /\ created \in Nat
    BY DEF PoolWell
  <2>2. n \in Nat \ {0} /\ DOMAIN idle = 1..n
    BY <2>1, EmptySeq, LenProperties
  <2>3. \A i \in 1..n : idle[i] \in 1..created
    BY <2>1, <2>2, ElementOfSeq
  <2> QED BY <2>1, <2>2, <2>3
<1>2. c \in 1..created /\ c \in Int
  BY <1>1
<1>3. /\ idle' \in Seq(1..created) /\ Len(idle') = n - 1 /\ DOMAIN idle' = 1..(n - 1)
      /\ \A i \in 1..(n - 1) : idle'[i] = idle[i] /\ i \in 1..n /\ i # n
  <2>0. idle \in Seq(1..created) /\ n \in Nat \ {0}
    BY <1>1 DEF PoolWell
  <2> HIDE DEF n
  <2>1. n - 1 \in Nat /\ \A i \in 1..(n - 1) : i \in 1..n /\ i # n
    BY <2>0
  <2>2. idle' = SubSeq(idle, 1, n - 1)
    BY DEF n
  <2>3. /\ idle' \in Seq(1..created) /\ Len(idle') = n - 1
        /\ \A i \in 1..(n - 1) : idle'[i] = idle[i]
    <3>1. 1 \in Int /\ n - 1 \in Int /\ \A i \in 1..(n - 1) : idle[i] \in 1..created
      BY <1>1, <2>0, <2>1
    <3>2. /\ SubSeq(idle, 1, n - 1) \in Seq(1..created)
          /\ Len(SubSeq(idle, 1, n - 1)) = IF 1 <= n - 1 THEN (n - 1) - 1 + 1 ELSE 0
          /\ \A i \in 1..((n - 1) - 1 + 1) : SubSeq(idle, 1, n - 1)[i] = idle[1 + i - 1]
      BY <3>1, SubSeqProperties
    <3>3. (n - 1) - 1 + 1 = n - 1 /\ (IF 1 <= n - 1 THEN (n - 1) - 1 + 1 ELSE 0) = n - 1
          /\ \A i \in 1..(n - 1) : 1 + i - 1 = i
      BY <2>1
    <3> QED BY <2>2, <3>2, <3>3
  <2> QED BY <2>1, <2>3, LenProperties DEF n
<1>4. b \in [does : Doings, conn : Int] /\ b.does = "uses" /\ b.conn = c
  BY <1>2 DEF Doings
<1>5. borrower' = [borrower EXCEPT ![t] = b]
  OBVIOUS
<1> HIDE DEF b, c
<1>6. borrower' \in [Threads -> [does : Doings, conn : Int]] /\ borrower'[t] = b
      /\ \A u \in Threads : u # t => borrower'[u] = borrower[u]
  BY <1>4, <1>5 DEF PoolWell
<1>7. Held' = Held \cup {t}
  BY <1>4, <1>6 DEF Held
<1>8. IsFiniteSet(Held') /\ Cardinality(Held') = Cardinality(Held) + 1
  BY <1>7, FS_AddElement DEF PoolWell
<1>9. Cardinality(Held) \in Nat
  BY FS_CardinalityType DEF PoolWell
<1>10. created' = Len(idle') + Cardinality(Held')
  <2> DEFINE k == Cardinality(Held)
             m == Len(idle')
  <2>1. created = n + k /\ m = n - 1 /\ Cardinality(Held') = k + 1 /\ created' = created
    BY <1>3, <1>8 DEF PoolWell
  <2>2. n \in Int /\ k \in Int
    BY <1>1, <1>9
  <2> HIDE DEF n, k, m
  <2>3. n + k = (n - 1) + (k + 1)
    BY <2>2
  <2>4. created' = m + Cardinality(Held')
    BY <2>1, <2>2, <2>3
  <2> QED BY <2>4 DEF m
<1>11. \A u \in Held' : borrower'[u].conn \in 1..created
  BY <1>2, <1>4, <1>6, <1>7 DEF PoolWell, Held
<1>12. PoolWell'
  BY <1>3, <1>6, <1>8, <1>10, <1>11 DEF PoolWell
<1>13. PoolApart'
  <2>1. \A i, j \in DOMAIN idle' : i # j => idle'[i] # idle'[j]
    <3>1. \A i, j \in 1..n : i # j => idle[i] # idle[j]
      BY <1>1 DEF PoolApart
    <3> QED BY <1>3, <3>1
  <2>2. \A u \in Held : borrower'[u].conn = borrower[u].conn
    BY <1>6 DEF Held
  <2>3. \A u \in Held : \A i \in 1..n : borrower[u].conn # idle[i]
    BY <1>1 DEF PoolApart
  <2>4. \A u \in Held : borrower[u].conn # c
    BY <1>1, <2>3 DEF c
  <2>5. \A i \in 1..(n - 1) : c # idle[i]
    BY <1>1, <1>3 DEF PoolApart, c
  <2>6. \A u, w \in Held' : u # w => borrower'[u].conn # borrower'[w].conn
    BY <1>4, <1>6, <1>7, <2>2, <2>4 DEF PoolApart
  <2>7. \A u \in Held' : \A i \in DOMAIN idle' : borrower'[u].conn # idle'[i]
    BY <1>3, <1>4, <1>6, <1>7, <2>2, <2>3, <2>5, SMTT(20)
  <2> QED BY <2>1, <2>6, <2>7 DEF PoolApart
<1> QED BY <1>12, <1>13

\* A thread that has no connection goes on without one.
LEMMA GoesOn ==
  ASSUME PoolWell, PoolApart, process = "up", process' = "up", NEW t \in Threads, t \notin Held,
         NEW b \in [does : Doings, conn : Int], b.does # "uses",
         borrower' = [borrower EXCEPT ![t] = b], UNCHANGED <<idle, created>>
  PROVE  PoolWell' /\ PoolApart'
<1>1. /\ borrower' \in [Threads -> [does : Doings, conn : Int]] /\ borrower'[t] = b
      /\ \A u \in Threads : u # t => borrower'[u] = borrower[u]
  BY DEF PoolWell
<1>2. Held' = Held /\ \A u \in Held : borrower'[u] = borrower[u]
  BY <1>1 DEF Held
<1>3. PoolWell'
  BY <1>1, <1>2 DEF PoolWell
<1>4. PoolApart'
  BY <1>2 DEF PoolApart
<1> QED BY <1>3, <1>4

LEMMA AsksKeep ==
  ASSUME PoolWell, PoolApart, NEW t \in Threads, Asks(t) \/ Served(t) PROVE PoolWell' /\ PoolApart'
<1>1. process = "up" /\ process' = "up" /\ t \notin Held
  <2>1. Nobody.does = "idle" /\ process' = process
    BY DEF Nobody, Asks, Served
  <2>2. borrower[t].does \in {"idle", "waits"} /\ (borrower[t].does = "idle" => process = "up")
    BY <2>1 DEF Asks, Served
  <2> QED BY <2>1, <2>2 DEF PoolWell, Held
<1>2. CASE (Asks(t) /\ idle # << >>) \/ Served(t)
  BY <1>1, <1>2, Takes DEF Asks, Served
<1>3. CASE Asks(t) /\ idle = << >>
  <2>1. [does |-> "found none", conn |-> 0] \in [does : Doings, conn : Int]
        /\ [does |-> "found none", conn |-> 0].does # "uses"
    BY DEF Doings
  <2> QED BY <1>1, <1>3, <2>1, GoesOn DEF Asks
<1> QED BY <1>2, <1>3

LEMMA NoneKeeps ==
  ASSUME PoolWell, PoolApart, NEW t \in Threads, CreateFails(t) \/ Waits(t) PROVE PoolWell' /\ PoolApart'
<1>1. process = "up" /\ process' = "up" /\ t \notin Held
  <2>1. Nobody.does = "idle" /\ process' = process /\ borrower[t].does = "found none"
    BY DEF Nobody, CreateFails, Waits
  <2> QED BY <2>1 DEF PoolWell, Held
<1>2. PICK b \in [does : Doings, conn : Int] :
        b.does # "uses" /\ borrower' = [borrower EXCEPT ![t] = b] /\ UNCHANGED <<idle, created>>
  <2>1. CASE CreateFails(t)
    BY <2>1, NobodyHolds DEF CreateFails
  <2>2. CASE Waits(t)
    <3>1. borrower[t] \in [does : Doings, conn : Int]
      BY DEF PoolWell
    <3>2. [borrower[t] EXCEPT !.does = "waits"] \in [does : Doings, conn : Int]
          /\ [borrower[t] EXCEPT !.does = "waits"].does # "uses"
      BY <3>1 DEF Doings
    <3> QED BY <2>2, <3>2 DEF Waits, PoolWell
  <2> QED BY <2>1, <2>2
<1> QED BY <1>1, <1>2, GoesOn

\* A connection that is created is a new one.
LEMMA CreatesKeep ==
  ASSUME PoolWell, PoolApart, NEW t \in Threads, Creates(t) PROVE PoolWell' /\ PoolApart'
<1> DEFINE c == created + 1
           b == [does |-> "uses", conn |-> c]
<1>1. process = "up" /\ process' = "up" /\ t \notin Held
  <2>1. Nobody.does = "idle" /\ process' = process /\ borrower[t].does = "found none"
    BY DEF Nobody, Creates
  <2> QED BY <2>1 DEF PoolWell, Held
<1>2. /\ created \in Nat /\ c \in 0..PoolSize /\ created' = c /\ c \in 1..c /\ c \in Int
      /\ \A x \in 1..created : x \in 1..c /\ x # c
  <2>1. created \in 0..PoolSize /\ PoolSize \in Nat /\ created < PoolSize /\ created' = c
    BY DatabaseAssumption DEF Creates, Room, PoolWell
  <2> QED BY <2>1
<1>3. b \in [does : Doings, conn : Int] /\ b.does = "uses" /\ b.conn = c
  BY <1>2 DEF Doings
<1>4. borrower' = [borrower EXCEPT ![t] = b] /\ idle' = idle
  BY DEF Creates
<1> HIDE DEF b
<1>5. borrower' \in [Threads -> [does : Doings, conn : Int]] /\ borrower'[t] = b
      /\ \A u \in Threads : u # t => borrower'[u] = borrower[u]
  BY <1>3, <1>4 DEF PoolWell
<1>6. Held' = Held \cup {t}
  BY <1>3, <1>5 DEF Held
<1>7. IsFiniteSet(Held') /\ Cardinality(Held') = Cardinality(Held) + 1
  BY <1>1, <1>6, FS_AddElement DEF PoolWell
<1>8. Cardinality(Held) \in Nat /\ Len(idle) \in Nat
  BY FS_CardinalityType DEF PoolWell
<1>9. created' = Len(idle') + Cardinality(Held')
  BY <1>2, <1>4, <1>7, <1>8 DEF PoolWell
<1>10. \A i \in DOMAIN idle : idle[i] \in 1..created
  BY DEF PoolWell
<1>11. idle' \in Seq(1..created')
  BY <1>2, <1>4, <1>10 DEF PoolWell
<1>12. \A u \in Held : borrower'[u].conn = borrower[u].conn /\ borrower[u].conn \in 1..created
  BY <1>1, <1>5 DEF Held, PoolWell
<1>13. \A u \in Held' : borrower'[u].conn \in 1..created'
  BY <1>2, <1>3, <1>5, <1>6, <1>12
<1>14. PoolWell'
  BY <1>1, <1>2, <1>5, <1>7, <1>9, <1>11, <1>13 DEF PoolWell
<1>15. PoolApart'
  <2>1. \A u, w \in Held' : u # w => borrower'[u].conn # borrower'[w].conn
    BY <1>2, <1>3, <1>5, <1>6, <1>12 DEF PoolApart
  <2>2. \A u \in Held' : \A i \in DOMAIN idle' : borrower'[u].conn # idle'[i]
    BY <1>2, <1>3, <1>4, <1>5, <1>6, <1>10, <1>12 DEF PoolApart
  <2> QED BY <1>4, <2>1, <2>2 DEF PoolApart
<1> QED BY <1>14, <1>15

\* A connection that is given back is idle.
LEMMA ReleasesKeep ==
  ASSUME PoolWell, PoolApart, NEW t \in Threads, Releases(t) PROVE PoolWell' /\ PoolApart'
<1> DEFINE c == borrower[t].conn
           n == Len(idle)
<1>1. process = "up" /\ process' = "up" /\ t \in Held /\ c \in 1..created /\ created' = created
  BY DEF Releases, PoolWell, Held, Nobody
<1>2. n \in Nat /\ DOMAIN idle = 1..n /\ idle \in Seq(1..created) /\ created \in Nat
  BY DEF PoolWell
<1>3. borrower' = [borrower EXCEPT ![t] = Nobody] /\ idle' = Append(idle, c)
  BY DEF Releases
<1> HIDE DEF c
<1>4. /\ idle' \in Seq(1..created) /\ Len(idle') = n + 1 /\ DOMAIN idle' = 1..(n + 1)
      /\ \A i \in 1..n : idle'[i] = idle[i]
      /\ idle'[n + 1] = c
  BY <1>1, <1>2, <1>3
<1>5. borrower' \in [Threads -> [does : Doings, conn : Int]] /\ borrower'[t] = Nobody
      /\ \A u \in Threads : u # t => borrower'[u] = borrower[u]
  BY <1>3, NobodyHolds DEF PoolWell
<1>6. Held' = Held \ {t} /\ \A u \in Held' : borrower'[u] = borrower[u] /\ u \in Held /\ u # t
  BY <1>5, NobodyHolds DEF Held
<1>7. IsFiniteSet(Held') /\ Cardinality(Held') = Cardinality(Held) - 1
  BY <1>1, <1>6, FS_RemoveElement DEF PoolWell
<1>8. Cardinality(Held) \in Nat
  BY FS_CardinalityType DEF PoolWell
<1>9. created' = Len(idle') + Cardinality(Held')
  BY <1>1, <1>2, <1>4, <1>7, <1>8 DEF PoolWell
<1>10. PoolWell'
  BY <1>1, <1>4, <1>5, <1>6, <1>7, <1>9 DEF PoolWell
<1>11. PoolApart'
  <2>1. \A i \in 1..n : c # idle[i]
    BY <1>1, <1>2 DEF PoolApart, c
  <2>2. \A i \in 1..(n + 1) : i \in 1..n \/ i = n + 1
    BY <1>2
  <2>3. \A i, j \in DOMAIN idle' : i # j => idle'[i] # idle'[j]
    BY <1>2, <1>4, <2>1, <2>2 DEF PoolApart
  <2>4. \A u \in Held' : borrower[u].conn # c
    BY <1>1, <1>6 DEF PoolApart, c
  <2>5. \A u \in Held' : \A i \in DOMAIN idle' : borrower'[u].conn # idle'[i]
    BY <1>2, <1>4, <1>6, <2>2, <2>4 DEF PoolApart
  <2> QED BY <1>6, <2>3, <2>5 DEF PoolApart
<1> QED BY <1>10, <1>11

\* A process begins with the connection that looked at the schema, and leaves
\* none behind.
LEMMA ProcessKeepsPool ==
  ASSUME PoolWell, PoolApart,
         \/ \E v \in 1..SchemaVersion : OlderDatabase(v)
         \/ StartProcess \/ RunStatement \/ WriteVersion \/ CommitMigrations \/ Die
  PROVE  PoolWell' /\ PoolApart'
<1>1. CASE Ready /\ process # "up" /\ borrower' = borrower
  <2>1. \A t \in Threads : borrower[t] = Nobody /\ borrower'[t] = Nobody
    BY <1>1 DEF PoolWell
  <2>2. Held' = {}
    BY <2>1, NobodyHolds DEF Held
  <2>3. IsFiniteSet({}) /\ Cardinality({}) = 0
    BY FS_EmptySet
  <2>4. created' = 1 /\ idle' = <<1>> /\ <<1>> \in Seq(1..1) /\ Len(<<1>>) = 1 /\ DOMAIN <<1>> = {1}
    BY <1>1 DEF Ready
  <2>5. 1 \in 0..PoolSize
    BY DatabaseAssumption
  <2> QED BY <1>1, <2>2, <2>3, <2>4, <2>5 DEF Ready, PoolWell, PoolApart
<1>2. CASE process' # "up" /\ process # "up" /\ UNCHANGED <<idle, created, borrower>>
  BY <1>2 DEF PoolWell, PoolApart, Held
<1>3. CASE Die
  <2>1. \A t \in Threads : borrower'[t] = Nobody
    BY <1>3 DEF Die
  <2>2. Held' = {}
    BY <2>1, NobodyHolds DEF Held
  <2>3. IsFiniteSet({}) /\ Cardinality({}) = 0
    BY FS_EmptySet
  <2>4. << >> \in Seq(1..0) /\ Len(<< >>) = 0 /\ DOMAIN << >> = {}
    OBVIOUS
  <2>5. created' = 0 /\ idle' = << >> /\ borrower' \in [Threads -> [does : Doings, conn : Int]] /\ 0 \in 0..PoolSize
    BY <1>3, NobodyHolds, DatabaseAssumption DEF Die
  <2> QED BY <2>1, <2>2, <2>3, <2>4, <2>5 DEF PoolWell, PoolApart
<1> QED BY <1>1, <1>2, <1>3 DEF OlderDatabase, StartProcess, RunStatement, WriteVersion, CommitMigrations

LEMMA PoolInit == DatabaseInit => PoolWell /\ PoolApart
<1> SUFFICES ASSUME DatabaseInit PROVE PoolWell /\ PoolApart
  OBVIOUS
<1>1. \A t \in Threads : borrower[t] = Nobody
  BY DEF DatabaseInit
<1>2. Held = {}
  BY <1>1, NobodyHolds DEF Held
<1>3. IsFiniteSet({}) /\ Cardinality({}) = 0
  BY FS_EmptySet
<1>4. << >> \in Seq(1..0) /\ Len(<< >>) = 0 /\ DOMAIN << >> = {}
  OBVIOUS
<1>5. created = 0 /\ idle = << >> /\ borrower \in [Threads -> [does : Doings, conn : Int]] /\ 0 \in 0..PoolSize
  BY NobodyHolds, DatabaseAssumption DEF DatabaseInit
<1> QED BY <1>1, <1>2, <1>3, <1>4, <1>5 DEF PoolWell, PoolApart

---------------------------------------------------------------------------
LEMMA DatabaseNextInv == DatabaseInv /\ [DatabaseNext]_databaseVars => DatabaseInv'
<1> SUFFICES ASSUME DatabaseInv, [DatabaseNext]_databaseVars PROVE DatabaseInv'
  OBVIOUS
<1> USE DEF DatabaseInv
<1>1. CASE UNCHANGED databaseVars
  BY <1>1 DEF databaseVars, MigrationInv, DiskWell, Underway, Complete, NoneActive, Current,
     PoolWell, PoolApart, Held
<1>2. CASE \/ \E v \in 1..SchemaVersion : OlderDatabase(v)
           \/ StartProcess \/ RunStatement \/ WriteVersion \/ CommitMigrations \/ Die
  BY <1>2, OlderKeeps, StartKeeps, FailKeeps, RunKeeps, VersionKeeps, CommitKeeps, DieKeeps, ProcessKeepsPool
<1>3. CASE \E t \in Threads : Asks(t) \/ UsesConnection(t) \/ ThreadStep(t)
  <2>1. PICK t \in Threads : Asks(t) \/ UsesConnection(t) \/ ThreadStep(t)
    BY <1>3
  <2>2. MigrationInv'
    BY <2>1, ThreadsKeepMigrations
  <2>3. CASE UsesConnection(t)
    BY <2>2, <2>3 DEF UsesConnection, PoolWell, PoolApart, Held
  <2>4. CASE Asks(t) \/ ThreadStep(t)
    BY <2>2, <2>4, AsksKeep, NoneKeeps, CreatesKeep, ReleasesKeep DEF ThreadStep
  <2> QED BY <2>1, <2>3, <2>4
<1> QED BY <1>1, <1>2, <1>3 DEF DatabaseNext

\* The invariant of the database.
THEOREM DatabaseInvHolds == DatabaseSpec => []DatabaseInv
<1>1. DatabaseInit => DatabaseInv
  BY MigrationInit, PoolInit DEF DatabaseInv
<1> QED BY <1>1, DatabaseNextInv, PTL DEF DatabaseSpec

\* DatabaseTypeOK, VersionIsComplete and FailsOnlyAfterTear: whatever statement a
\* start dies at, a version on the disk has all its statements there, requests
\* find the whole schema, and a start fails only after one was interrupted between
\* the first column of migration 5 and its commit.
THEOREM SchemaIsWhole ==
  DatabaseSpec => [](DatabaseTypeOK /\ VersionIsComplete /\ FailsOnlyAfterTear)
<1>1. DatabaseInv => DatabaseTypeOK
  <2> SUFFICES ASSUME DatabaseInv PROVE DatabaseTypeOK
    OBVIOUS
  <2>1. Cardinality(Held) \in Nat /\ Len(idle) \in Nat /\ created = Len(idle) + Cardinality(Held)
    BY FS_CardinalityType DEF DatabaseInv, PoolWell
  <2>2. Len(idle) <= created
    BY <2>1
  <2> QED BY <2>2 DEF DatabaseInv, MigrationInv, DiskWell, DbState, PoolWell, DatabaseTypeOK
<1>2. DatabaseInv => VersionIsComplete
  <2> SUFFICES ASSUME DatabaseInv PROVE VersionIsComplete
    OBVIOUS
  <2>1. Complete(disk) /\ (process = "up" => disk.version = SchemaVersion)
    BY DEF DatabaseInv, MigrationInv, DiskWell
  <2>2. \A s \in Statements(1..disk.version) : s \in disk.applied
    <3>1. \A v \in 1..disk.version : \A i \in DOMAIN Migrations[v] : <<v, i>> \in disk.applied
      BY <2>1 DEF Complete
    <3>2. \A t \in Statements(1..disk.version) :
             \E v \in 1..disk.version : \E i \in DOMAIN Migrations[v] : t = <<v, i>>
      BY StatementsAre
    <3> QED BY <3>1, <3>2
  <2> QED BY <2>1, <2>2 DEF VersionIsComplete
<1>3. DatabaseInv => FailsOnlyAfterTear
  BY DEF DatabaseInv, MigrationInv, DiskWell, FailsOnlyAfterTear
<1> QED BY <1>1, <1>2, <1>3, DatabaseInvHolds, PTL

\* ConnectionsAccounted: each connection of the pool is idle or with one thread,
\* and the count of those created is the number there are, whichever way the
\* threads come and go and however creating one fails.
THEOREM NoConnectionIsLost == DatabaseSpec => []ConnectionsAccounted
<1>1. DatabaseInv => ConnectionsAccounted
  BY DEF DatabaseInv, PoolWell, PoolApart, Held, ConnectionsAccounted
<1> QED BY <1>1, DatabaseInvHolds, PTL

\* the step of MigrationSparesNew
SparesActive ==
    \A i \in DOMAIN disk.alerts : disk.alerts[i] = "active" => disk'.alerts[i] = "active"

\* MigrationSparesNew: no migration resolves an alert that was raised by the
\* release that knows about alert states.
THEOREM NewAlertsAreSpared == DatabaseSpec => MigrationSparesNew
<1>1. ASSUME DatabaseInv, [DatabaseNext]_databaseVars PROVE [SparesActive]_databaseVars
  <2> USE DEF DatabaseInv
  <2>1. CASE disk' = disk
    BY <2>1 DEF SparesActive
  <2>2. CASE disk'.alerts = disk.alerts
    BY <2>2 DEF SparesActive
  <2>3. CASE NoneActive(disk)
    BY <2>3 DEF NoneActive, SparesActive
  <2>4. CASE \E v \in 1..SchemaVersion : OlderDatabase(v)
    BY <1>1, <2>3, <2>4 DEF OlderDatabase, MigrationInv, DiskWell
  <2>5. CASE StartProcess \/ Die
    BY <2>1, <2>5 DEF StartProcess, Die
  <2>6. CASE RunStatement
    <3>1. CASE Fails(Current, at)
      BY <2>1, <2>6, <3>1 DEF RunStatement
    <3>2. CASE ~Fails(Current, at)
      <4> DEFINE db == Effect(Current, at)
                 kind == Migrations[at[1]][at[2]]
      <4>1. Write(db, Opens(kind)) /\ process = "migrating"
            /\ at[1] <= SchemaVersion /\ at[2] \in DOMAIN Migrations[at[1]]
        BY <2>6, <3>2 DEF RunStatement
      <4>2. /\ at[1] \in 1..6 /\ at = <<at[1], at[2]>> /\ Current \in DbState
            /\ open = NoTransaction => Current = disk
        BY <1>1, <4>1, AtStatement
      <4>3. db \in DbState /\ Opens(kind) \in BOOLEAN /\ (~Opens(kind) => db.alerts = Current.alerts)
        BY <4>1, <4>2, Effective
      <4> HIDE DEF db, kind
      <4>4. disk' = disk \/ (disk' = db /\ open = NoTransaction /\ ~Opens(kind))
        BY <4>1, <4>3, Written
      <4> QED BY <2>1, <2>2, <4>2, <4>3, <4>4
    <3> QED BY <3>1, <3>2
  <2>7. CASE WriteVersion
    <3> DEFINE db == [Current EXCEPT !.version = at[1]]
    <3>1. Write(db, FALSE) /\ process = "migrating" /\ at[1] <= SchemaVersion
      BY <2>7 DEF WriteVersion
    <3>2. at[1] \in 1..6 /\ Current \in DbState /\ (open = NoTransaction => Current = disk)
      BY <1>1, <3>1, AtStatement
    <3>3. db \in DbState /\ db.alerts = Current.alerts /\ FALSE \in BOOLEAN
      BY <3>2 DEF DbState, SchemaVersion
    <3> HIDE DEF db
    <3>4. disk' = disk \/ (disk' = db /\ open = NoTransaction)
      BY <3>1, <3>3, Written
    <3> QED BY <2>1, <2>2, <3>2, <3>3, <3>4
  <2>8. CASE CommitMigrations
    <3>1. CASE open = NoTransaction
      BY <2>1, <2>8, <3>1 DEF CommitMigrations, Current
    <3>2. CASE open # NoTransaction
      BY <1>1, <2>3, <2>8, <3>2 DEF CommitMigrations, MigrationInv, DiskWell, Underway
    <3> QED BY <3>1, <3>2
  <2>9. CASE \E t \in Threads : UsesConnection(t)
    <3>1. disk' = [disk EXCEPT !.alerts = Append(disk.alerts, "active")]
      BY <2>9 DEF UsesConnection
    <3>2. disk \in DbState
      BY <1>1 DEF MigrationInv, DiskWell
    <3>3. disk'.alerts = Append(disk.alerts, "active") /\ disk.alerts \in Seq(Words)
      BY <3>1, <3>2 DEF DbState
    <3>4. \A i \in DOMAIN disk.alerts : disk'.alerts[i] = disk.alerts[i]
      BY <3>3
    <3> QED BY <3>4 DEF SparesActive
  <2>10. CASE \E t \in Threads : Asks(t) \/ ThreadStep(t)
    BY <2>1, <2>10 DEF Asks, ThreadStep, Creates, CreateFails, Waits, Served, Releases
  <2>11. CASE UNCHANGED databaseVars
    BY <2>11
  <2> QED BY <1>1, <2>4, <2>5, <2>6, <2>7, <2>8, <2>9, <2>10, <2>11 DEF DatabaseNext
<1>2. SparesActive <=>
        \A i \in DOMAIN disk.alerts : disk.alerts[i] = "active" => disk'.alerts[i] = "active"
  BY DEF SparesActive
<1> QED BY <1>1, <1>2, DatabaseInvHolds, PTL DEF DatabaseSpec, MigrationSparesNew

---------------------------------------------------------------------------
(***************************************************************************)
(* The shared queries of the semantic views                                *)
(***************************************************************************)

\* v is no older than what the graph held at time t.
AsNewAs(v, t, clock, held) == \A s \in 0..clock : s <= t => v >= held[s]

ViewQuery == [state : {"sent", "read", "done", "failed", "broken", "cancelled"}, at : Nat, ended : Int, value : Int]

ViewRequest == [state : {"new", "waits", "answered", "degraded", "failed"}, query : Nat, value : Int]

\* The content grows, and what it held at each moment is no more than it has now.
ContentWell ==
    /\ viewClock \in 0..MaxViewClock /\ content \in 0..MaxContent
    /\ contentAt \in [0..MaxViewClock -> 0..MaxContent] /\ contentAt[0] = 0
    /\ AsNewAs(content, viewClock, viewClock, contentAt)

\* What is kept is the result of a query, from the moment it ended.
EntryWell ==
    /\ entry \in [at : -1..viewClock, value : -1..MaxContent, of : 0..Last]
    /\ entry # NoEntry =>
          /\ entry.of \in 1..Last /\ query[entry.of].state = "done"
          /\ query[entry.of].value = entry.value /\ query[entry.of].ended = entry.at

\* What a query has read is no older than the query.
QueryWell(x, clock, held) ==
    /\ x \in ViewQuery /\ x.at <= clock
    /\ x.state \in {"read", "done"} => x.value \in 0..MaxContent /\ AsNewAs(x.value, x.at, clock, held)

QueriesWell == Last \in Nat /\ query \in [1..Last -> ViewQuery]
               /\ \A q \in 1..Last : QueryWell(query[q], viewClock, contentAt)

\* Whoever waits does so for a query that has not ended before this moment, and
\* somebody waits for the query that is in flight: no other is running.
FlightWell ==
    /\ inflight \in 0..Last
    /\ Running \subseteq {inflight}
    /\ inflight # 0 => \E r \in Requests : request[r].state = "waits" /\ request[r].query = inflight
    /\ request \in [Requests -> ViewRequest]
    /\ \A r \in Requests : request[r].state = "waits" =>
          /\ request[r].query \in 1..Last
          /\ query[request[r].query].state = "done" => query[request[r].query].ended = viewClock

ViewsInv == ContentWell /\ EntryWell /\ QueriesWell /\ FlightWell

LEMMA ViewBounds ==
    /\ CacheTTL \in Nat /\ MaxViewClock \in Nat /\ MaxContent \in Nat
BY ViewsAssumption

LEMMA OlderAsWell ==
    ASSUME NEW v, NEW t \in Int, NEW u \in Int, u <= t, NEW clock, NEW held, AsNewAs(v, t, clock, held)
    PROVE  AsNewAs(v, u, clock, held)
<1>1. \A s \in 0..clock : s <= u => s <= t
  OBVIOUS
<1> QED BY <1>1 DEF AsNewAs

LEMMA StateRead ==
    ASSUME NEW x \in ViewQuery, NEW c \in Int
    PROVE  /\ [x EXCEPT !.state = "read", !.value = c] \in ViewQuery
           /\ [x EXCEPT !.state = "read", !.value = c].state = "read"
           /\ [x EXCEPT !.state = "read", !.value = c].value = c
           /\ [x EXCEPT !.state = "read", !.value = c].at = x.at
BY DEF ViewQuery

LEMMA StateDone ==
    ASSUME NEW x \in ViewQuery, NEW t \in Int
    PROVE  /\ [x EXCEPT !.state = "done", !.ended = t] \in ViewQuery
           /\ [x EXCEPT !.state = "done", !.ended = t].state = "done"
           /\ [x EXCEPT !.state = "done", !.ended = t].ended = t
           /\ [x EXCEPT !.state = "done", !.ended = t].value = x.value
           /\ [x EXCEPT !.state = "done", !.ended = t].at = x.at
BY DEF ViewQuery

LostQuery(x, s, c) == [x EXCEPT !.state = s, !.value = c]

LEMMA StateLost ==
    ASSUME NEW x \in ViewQuery, NEW c \in Int, NEW s \in {"failed", "broken", "cancelled"}
    PROVE  LostQuery(x, s, c) \in ViewQuery /\ LostQuery(x, s, c).state = s /\ LostQuery(x, s, c).at = x.at
<1>1. /\ LostQuery(x, "failed", c) \in ViewQuery /\ LostQuery(x, "failed", c).state = "failed"
      /\ LostQuery(x, "failed", c).at = x.at
  BY DEF LostQuery, ViewQuery
<1>2. /\ LostQuery(x, "broken", c) \in ViewQuery /\ LostQuery(x, "broken", c).state = "broken"
      /\ LostQuery(x, "broken", c).at = x.at
  BY DEF LostQuery, ViewQuery
<1>3. /\ LostQuery(x, "cancelled", c) \in ViewQuery /\ LostQuery(x, "cancelled", c).state = "cancelled"
      /\ LostQuery(x, "cancelled", c).at = x.at
  BY DEF LostQuery, ViewQuery
<1> QED BY <1>1, <1>2, <1>3

LEMMA AnswersWell ==
    ASSUME NEW v \in Int, NEW q \in Nat
    PROVE  /\ AnswerFor(v, q) \in ViewRequest /\ AnswerFor(v, q).state \in {"answered", "degraded"}
           /\ AnswerFor(v, q).state = "answered" => AnswerFor(v, q).value = v /\ AnswerFor(v, q).query = q
<1>1. Degraded \in ViewRequest /\ Degraded.state = "degraded"
  BY DEF Degraded, ViewRequest
<1>2. Answered(v, q) \in ViewRequest /\ Answered(v, q).state = "answered"
      /\ Answered(v, q).value = v /\ Answered(v, q).query = q
  BY DEF Answered, ViewRequest
<1> QED BY <1>1, <1>2 DEF AnswerFor

LEMMA PlainRequests ==
    /\ Degraded \in ViewRequest /\ Degraded.state = "degraded"
    /\ Failed \in ViewRequest /\ Failed.state = "failed"
    /\ NewRequest \in ViewRequest /\ NewRequest.state = "new"
    /\ \A q \in Nat : Awaits(q) \in ViewRequest /\ Awaits(q).state = "waits" /\ Awaits(q).query = q
BY DEF Degraded, Failed, NewRequest, Awaits, ViewRequest

\* A step that leaves the graph and the queries alone, and of the requests changes
\* only r, which does not wait afterwards.
LEMMA OthersWait ==
    ASSUME ViewsInv, NEW r \in Requests, NEW x \in ViewRequest, x.state # "waits",
           request' = [request EXCEPT ![r] = x],
           request[r].state # "waits" \/ request[r].query # inflight \/ inflight' = 0,
           inflight' \in {0, inflight}, inflight' = 0 => (inflight = 0 \/ Ended(inflight)),
           UNCHANGED <<viewClock, query>>
    PROVE  FlightWell'
<1>1. /\ Last' = Last /\ Running' = Running /\ 0 \in 0..Last /\ inflight \in 0..Last
      /\ request' \in [Requests -> ViewRequest] /\ request'[r] = x
      /\ \A p \in Requests : p # r => request'[p] = request[p]
  BY DEF ViewsInv, FlightWell, QueriesWell, Last, Running
<1>2. Running' \subseteq {inflight'}
  BY <1>1 DEF ViewsInv, FlightWell, Running, Ended
<1>3. ASSUME inflight' # 0 PROVE \E p \in Requests : request'[p].state = "waits" /\ request'[p].query = inflight'
  <2>1. inflight' = inflight /\ inflight # 0
    BY <1>3
  <2>2. PICK p \in Requests : request[p].state = "waits" /\ request[p].query = inflight
    BY <2>1 DEF ViewsInv, FlightWell
  <2>3. p # r
    BY <1>3, <2>2
  <2> QED BY <1>1, <2>1, <2>2, <2>3
<1>4. \A p \in Requests : request'[p].state = "waits" =>
          /\ request'[p].query \in 1..Last
          /\ query[request'[p].query].state = "done" => query[request'[p].query].ended = viewClock
  BY <1>1 DEF ViewsInv, FlightWell
<1> QED BY <1>1, <1>2, <1>3, <1>4 DEF FlightWell

LEMMA AskFromCacheKeeps == ASSUME ViewsInv, NEW r \in Requests, AskFromCache(r) PROVE ViewsInv'
<1>1. /\ request[r] = NewRequest /\ request' = [request EXCEPT ![r] = AnswerFor(entry.value, entry.of)]
      /\ UNCHANGED <<viewClock, content, contentAt, entry, inflight, query>>
  BY DEF AskFromCache
<1>2. entry.value \in Int /\ entry.of \in Nat
  BY DEF ViewsInv, EntryWell, QueriesWell
<1>3. /\ AnswerFor(entry.value, entry.of) \in ViewRequest /\ AnswerFor(entry.value, entry.of).state # "waits"
      /\ NewRequest.state = "new"
  BY <1>2, AnswersWell, PlainRequests
<1>4. FlightWell'
  <2>1. request[r].state # "waits" /\ inflight' \in {0, inflight} /\ (inflight' = 0 => inflight = 0)
    BY <1>1, <1>3
  <2> QED BY <1>1, <1>3, <2>1, OthersWait
<1> QED BY <1>1, <1>4 DEF ViewsInv, ContentWell, EntryWell, QueriesWell, Last

LEMMA AskAgainKeeps == ASSUME ViewsInv, NEW r \in Requests, AskAgain(r) PROVE ViewsInv'
<1>1. /\ request[r].state \in {"answered", "degraded", "failed"}
      /\ request' = [request EXCEPT ![r] = NewRequest]
      /\ UNCHANGED <<viewClock, content, contentAt, entry, inflight, query>>
  BY DEF AskAgain
<1>2. NewRequest \in ViewRequest /\ NewRequest.state = "new"
  BY PlainRequests
<1>3. FlightWell'
  <2>1. request[r].state # "waits" /\ NewRequest.state # "waits" /\ inflight' \in {0, inflight} /\ (inflight' = 0 => inflight = 0)
    BY <1>1, <1>2
  <2> QED BY <1>1, <1>2, <2>1, OthersWait
<1> QED BY <1>1, <1>3 DEF ViewsInv, ContentWell, EntryWell, QueriesWell, Last

LEMMA WokenQuery ==
    ASSUME ViewsInv, NEW r \in Woken
    PROVE  /\ r \in Requests /\ request[r].state = "waits" /\ request[r].query \in 1..Last
           /\ request[r].query \in DOMAIN query /\ Ended(request[r].query)
           /\ QueryWell(query[request[r].query], viewClock, contentAt)
           /\ query[request[r].query].state = "done" => query[request[r].query].ended = viewClock
BY DEF Woken, ViewsInv, FlightWell, QueriesWell

\* A request that leaves its query, whether it takes the result or not.
LEMMA LeavesQuery ==
    ASSUME ViewsInv, NEW r \in Woken, NEW x \in ViewRequest, x.state # "waits",
           request' = [request EXCEPT ![r] = x], inflight' = Cleared(request[r].query),
           UNCHANGED <<viewClock, query>>
    PROVE  FlightWell'
<1> DEFINE q == request[r].query
<1>1. r \in Requests /\ request[r].state = "waits" /\ Ended(q)
  BY WokenQuery
<1>2. /\ request[r].query # inflight \/ inflight' = 0
      /\ inflight' \in {0, inflight}
      /\ inflight' = 0 => (inflight = 0 \/ Ended(inflight))
  BY <1>1 DEF Cleared
<1> QED BY <1>1, <1>2, OthersWait

LEMMA OutcomeWell ==
    ASSUME ViewsInv, NEW r \in Woken
    PROVE  Outcome(request[r].query) \in ViewRequest /\ Outcome(request[r].query).state # "waits"
<1> DEFINE q == request[r].query
<1>1. q \in Nat /\ query[q].value \in Int
  BY WokenQuery DEF QueryWell, ViewQuery
<1>2. AnswerFor(query[q].value, q) \in ViewRequest /\ AnswerFor(query[q].value, q).state # "waits"
  BY <1>1, AnswersWell
<1> HIDE DEF q
<1>3. Outcome(q) \in ViewRequest /\ Outcome(q).state # "waits"
  BY <1>2, PlainRequests DEF Outcome
<1> QED BY <1>3 DEF q

LEMMA ResumeKeeps == ASSUME ViewsInv, NEW r \in Requests, ResumeRequest(r) PROVE ViewsInv'
<1> DEFINE q == request[r].query
<1>1. /\ r \in Woken /\ entry' = CachedResult(q) /\ request' = [request EXCEPT ![r] = Outcome(q)]
      /\ inflight' = Cleared(q) /\ UNCHANGED <<viewClock, content, contentAt, query>>
  BY DEF ResumeRequest
<1>2. FlightWell'
  BY <1>1, OutcomeWell, LeavesQuery
<1>3. Last' = Last
  BY <1>1 DEF Last
<1>4. EntryWell'
  <2>1. CASE query[q].state # "done"
    BY <1>1, <1>3, <2>1 DEF CachedResult, ViewsInv, EntryWell
  <2>2. CASE query[q].state = "done"
    <3> DEFINE e == [at |-> viewClock, value |-> query[q].value, of |-> q]
    <3>1. entry' = e /\ e.at = viewClock /\ e.value = query[q].value /\ e.of = q
      BY <1>1, <2>2 DEF CachedResult
    <3>2. /\ q \in 1..Last /\ query[q].ended = viewClock /\ query[q].value \in 0..MaxContent
      BY <1>1, <2>2, WokenQuery DEF QueryWell
    <3>3. viewClock \in Nat /\ MaxContent \in Nat /\ Last \in Nat
      BY ViewBounds DEF ViewsInv, ContentWell, QueriesWell
    <3>4. viewClock \in -1..viewClock /\ query[q].value \in -1..MaxContent /\ q \in 0..Last
      BY <3>2, <3>3
    <3>5. e \in [at : -1..viewClock, value : -1..MaxContent, of : 0..Last]
      BY <3>4
    <3> HIDE DEF e, q
    <3> QED BY <1>1, <1>3, <2>2, <3>1, <3>2, <3>5 DEF EntryWell
  <2> QED BY <2>1, <2>2
<1> QED BY <1>1, <1>2, <1>3, <1>4 DEF ViewsInv, ContentWell, QueriesWell

LEMMA AskFromQueryKeeps == ASSUME ViewsInv, NEW r \in Requests, AskFromQuery(r) PROVE ViewsInv'
<1>1. request[r] = NewRequest /\ UNCHANGED <<viewClock, content, contentAt, entry>>
  BY DEF AskFromQuery
<1>2. /\ Last \in Nat /\ query \in [1..Last -> ViewQuery] /\ inflight \in 0..Last /\ viewClock \in Nat
      /\ NewRequest.state = "new" /\ request \in [Requests -> ViewRequest]
  BY PlainRequests, ViewBounds DEF ViewsInv, QueriesWell, FlightWell, ContentWell
<1>3. CASE Shared
  <2> DEFINE x == Awaits(inflight)
  <2>1. request' = [request EXCEPT ![r] = x] /\ UNCHANGED <<inflight, query>> /\ inflight # 0
    BY <1>3 DEF AskFromQuery, Shared
  <2>2. x \in ViewRequest /\ x.state = "waits" /\ x.query = inflight
    BY <1>2, PlainRequests
  <2> HIDE DEF x
  <2>3. request' \in [Requests -> ViewRequest] /\ request'[r] = x /\ \A p \in Requests : p # r => request'[p] = request[p]
    BY <1>2, <2>1, <2>2
  <2>4. PICK p \in Requests : request[p].state = "waits" /\ request[p].query = inflight
    BY <2>1 DEF ViewsInv, FlightWell
  <2>5. inflight \in 1..Last /\ (query[inflight].state = "done" => query[inflight].ended = viewClock)
    BY <2>4 DEF ViewsInv, FlightWell
  <2>6. \A p1 \in Requests : request'[p1].state = "waits" =>
            /\ request'[p1].query \in 1..Last
            /\ query[request'[p1].query].state = "done" => query[request'[p1].query].ended = viewClock
    BY <2>2, <2>3, <2>5 DEF ViewsInv, FlightWell
  <2>7. Last' = Last /\ Running' = Running
    BY <2>1 DEF Last, Running
  <2>8. FlightWell'
    BY <1>1, <1>2, <2>1, <2>2, <2>3, <2>6, <2>7 DEF ViewsInv, FlightWell
  <2> QED BY <1>1, <2>1, <2>8 DEF ViewsInv, ContentWell, EntryWell, QueriesWell, Last
<1>4. CASE ~Shared
  <2> DEFINE n == Last + 1
             x == Awaits(n)
             new == [state |-> "sent", at |-> viewClock, ended |-> -1, value |-> -1]
  <2>1. /\ inflight = 0 /\ inflight' = n /\ request' = [request EXCEPT ![r] = x]
        /\ query' = [q \in DOMAIN query \cup {n} |-> IF q \in DOMAIN query THEN query[q] ELSE new]
    BY <1>4 DEF AskFromQuery, Shared
  <2>2. x \in ViewRequest /\ x.state = "waits" /\ x.query = n
    BY <1>2, PlainRequests
  <2>3. new \in ViewQuery /\ new.state = "sent" /\ new.at = viewClock
    BY <1>2 DEF ViewQuery
  <2>4. n \in Nat /\ 1..Last \cup {n} = 1..n /\ n \notin 1..Last /\ n # 0 /\ n \in 1..n
    BY <1>2
  <2> HIDE DEF x, new
  <2>5. DOMAIN query' = 1..n /\ query'[n] = new /\ \A q \in 1..Last : query'[q] = query[q]
    <3>1. DOMAIN query = 1..Last
      BY <1>2
    <3> HIDE DEF n
    <3> QED BY <2>1, <2>4, <3>1
  <2>6. Last' = n
    <3>1. Cardinality(1..n) = n
      BY <2>4, FS_Interval
    <3> QED BY <2>5, <3>1 DEF Last
  <2> HIDE DEF n
  <2>7. \A q \in 1..n : q = n \/ q \in 1..Last
    BY <2>4
  <2>8. query' \in [1..n -> ViewQuery]
    <3>1. \A q \in 1..n : query'[q] \in ViewQuery
      BY <1>2, <2>3, <2>5, <2>7
    <3>2. query' = [q \in 1..n |-> query'[q]]
      BY <2>1, <2>5
    <3> QED BY <3>1, <3>2
  <2>9. QueriesWell'
    <3>1. QueryWell(new, viewClock, contentAt)
      BY <1>2, <2>3 DEF QueryWell
    <3>2. \A q \in 1..n : QueryWell(query'[q], viewClock, contentAt)
      BY <2>5, <2>7, <3>1 DEF ViewsInv, QueriesWell
    <3> QED BY <1>1, <2>4, <2>6, <2>8, <3>2 DEF QueriesWell
  <2>10. request' \in [Requests -> ViewRequest] /\ request'[r] = x /\ \A p \in Requests : p # r => request'[p] = request[p]
    BY <1>2, <2>1, <2>2
  <2>11. \A p \in Requests : request'[p].state = "waits" =>
             /\ request'[p].query \in 1..n
             /\ query'[request'[p].query].state = "done" => query'[request'[p].query].ended = viewClock
    <3> SUFFICES ASSUME NEW p \in Requests, request'[p].state = "waits"
                 PROVE  /\ request'[p].query \in 1..n
                        /\ query'[request'[p].query].state = "done" => query'[request'[p].query].ended = viewClock
      OBVIOUS
    <3>1. CASE p = r
      <4>1. request'[p].query = n /\ query'[n].state = "sent"
        BY <2>2, <2>3, <2>5, <2>10, <3>1
      <4> QED BY <1>2, <2>4, <4>1
    <3>2. CASE p # r
      <4>1. /\ request'[p] = request[p] /\ request[p].query \in 1..Last
            /\ query[request[p].query].state = "done" => query[request[p].query].ended = viewClock
        BY <2>10, <3>2 DEF ViewsInv, FlightWell
      <4>2. \A q \in 1..Last : q \in 1..n
        BY <2>4
      <4> QED BY <2>5, <4>1, <4>2
    <3> QED BY <3>1, <3>2
  <2>12. Running' \subseteq {n}
    <3>1. \A q \in 1..Last : query[q].state \notin {"sent", "read"}
      <4>1. \A q \in Running : q = 0
        BY <2>1 DEF ViewsInv, FlightWell
      <4>2. DOMAIN query = 1..Last /\ 0 \notin 1..Last
        BY <1>2
      <4> QED BY <4>1, <4>2 DEF Running
    <3> QED BY <2>5, <2>7, <3>1 DEF Running
  <2>13. FlightWell'
    <3>1. inflight' \in 0..Last'
      BY <2>1, <2>4, <2>6
    <3> QED BY <1>1, <2>1, <2>2, <2>6, <2>10, <2>11, <2>12, <3>1 DEF FlightWell
  <2>14. EntryWell'
    <3>1. \A i \in 0..Last : i \in 0..n
      BY <1>2, <2>4, <2>6 DEF n
    <3>2. \A i \in 1..Last : query'[i] = query[i] /\ i \in 1..n
      BY <2>4, <2>5
    <3>3. entry \in [at : -1..viewClock, value : -1..MaxContent, of : 0..n]
      BY <3>1 DEF ViewsInv, EntryWell
    <3> QED BY <1>1, <2>6, <3>2, <3>3 DEF ViewsInv, EntryWell
  <2> QED BY <1>1, <2>9, <2>13, <2>14 DEF ViewsInv, ContentWell
<1> QED BY <1>3, <1>4

\* A query that is running goes on: it is as old as before, and if it is done it is
\* so from now on.
LEMMA QueryMoves ==
    ASSUME ViewsInv, NEW q \in 1..Last, NEW x, QueryWell(x, viewClock, contentAt), query[q].state # "done",
           x.state \in {"sent", "read"} => query[q].state \in {"sent", "read"},
           x.state = "done" => x.ended = viewClock,
           query' = [query EXCEPT ![q] = x],
           UNCHANGED <<viewClock, content, contentAt, entry, inflight, request>>
    PROVE  ViewsInv'
<1>1. /\ Last \in Nat /\ query \in [1..Last -> ViewQuery] /\ x \in ViewQuery
  BY DEF ViewsInv, QueriesWell, QueryWell
<1>2. /\ DOMAIN query' = DOMAIN query /\ query' \in [1..Last -> ViewQuery]
      /\ query'[q] = x /\ \A p \in 1..Last : p # q => query'[p] = query[p]
  BY <1>1
<1>3. Last' = Last
  BY <1>2 DEF Last
<1>4. QueriesWell'
  BY <1>1, <1>2, <1>3 DEF ViewsInv, QueriesWell
<1>5. Running' \subseteq Running
  BY <1>1, <1>2 DEF Running
<1>6. \A r \in Requests : request[r].state = "waits" =>
          /\ request[r].query \in 1..Last
          /\ query'[request[r].query].state = "done" => query'[request[r].query].ended = viewClock
  BY <1>2 DEF ViewsInv, FlightWell
<1>7. FlightWell'
  BY <1>3, <1>5, <1>6 DEF ViewsInv, FlightWell
<1>8. EntryWell'
  <2>1. \A p \in 1..Last : query[p].state = "done" => query'[p] = query[p]
    BY <1>2
  <2> QED BY <1>3, <2>1 DEF ViewsInv, EntryWell
<1> QED BY <1>4, <1>7, <1>8 DEF ViewsInv, ContentWell

\* A query that is running is given up.
LEMMA QueryLost ==
    ASSUME ViewsInv, NEW q \in 1..Last, query[q].state \in {"sent", "read"},
           NEW s \in {"failed", "broken", "cancelled"},
           query' = [query EXCEPT ![q].state = s, ![q].value = -1],
           UNCHANGED <<viewClock, content, contentAt, entry, inflight, request>>
    PROVE  ViewsInv'
<1> DEFINE x == LostQuery(query[q], s, -1)
<1>1. query[q] \in ViewQuery /\ QueryWell(query[q], viewClock, contentAt)
  BY DEF ViewsInv, QueriesWell
<1>2. x \in ViewQuery /\ x.state = s /\ x.at = query[q].at
  BY <1>1, -1 \in Int, StateLost
<1>3. query' = [query EXCEPT ![q] = x]
  BY DEF LostQuery
<1> HIDE DEF x
<1>4. QueryWell(x, viewClock, contentAt)
  BY <1>1, <1>2 DEF QueryWell
<1>5. x.state \notin {"sent", "read", "done"} /\ query[q].state # "done"
  BY <1>2
<1> QED BY <1>3, <1>4, <1>5, QueryMoves

LEMMA QueryStepKeeps == ASSUME ViewsInv, QueryStep PROVE ViewsInv'
<1>1. PICK q \in DOMAIN query : StoreReads(q) \/ QueryEnds(q) \/ QueryFails(q) \/ QueryBreaks(q)
  BY DEF QueryStep
<1>2. /\ q \in 1..Last /\ query[q] \in ViewQuery /\ QueryWell(query[q], viewClock, contentAt)
      /\ UNCHANGED <<viewClock, content, contentAt, entry, inflight, request>>
  BY <1>1 DEF ViewsInv, QueriesWell, StoreReads, QueryEnds, QueryFails, QueryBreaks
<1>3. content \in 0..MaxContent /\ AsNewAs(content, viewClock, viewClock, contentAt) /\ content \in Int /\ viewClock \in Int
  BY DEF ViewsInv, ContentWell
<1>4. CASE StoreReads(q)
  <2> DEFINE x == [query[q] EXCEPT !.state = "read", !.value = content]
  <2>1. query[q].state = "sent" /\ query' = [query EXCEPT ![q] = x]
    BY <1>4 DEF StoreReads
  <2>2. x \in ViewQuery /\ x.state = "read" /\ x.value = content /\ x.at = query[q].at
    BY <1>2, <1>3, StateRead
  <2>3. x.at \in Nat /\ x.at <= viewClock
    BY <1>2, <2>2 DEF QueryWell, ViewQuery
  <2>4. AsNewAs(content, query[q].at, viewClock, contentAt)
    BY <1>3, <2>2, <2>3, OlderAsWell
  <2> HIDE DEF x
  <2>5. QueryWell(x, viewClock, contentAt)
    BY <1>3, <2>2, <2>3, <2>4 DEF QueryWell
  <2> QED BY <1>2, <2>1, <2>2, <2>5, QueryMoves
<1>5. CASE QueryEnds(q)
  <2> DEFINE x == [query[q] EXCEPT !.state = "done", !.ended = viewClock]
  <2>1. query[q].state = "read" /\ query' = [query EXCEPT ![q] = x]
    BY <1>5 DEF QueryEnds
  <2>2. x \in ViewQuery /\ x.state = "done" /\ x.ended = viewClock /\ x.value = query[q].value /\ x.at = query[q].at
    BY <1>2, <1>3, StateDone
  <2> HIDE DEF x
  <2>3. QueryWell(x, viewClock, contentAt)
    BY <1>2, <2>1, <2>2 DEF QueryWell
  <2> QED BY <1>2, <2>1, <2>2, <2>3, QueryMoves
<1>6. CASE QueryFails(q)
  <2>1. query[q].state \in {"sent", "read"} /\ query' = [query EXCEPT ![q].state = "failed", ![q].value = -1]
    BY <1>6 DEF QueryFails, Running
  <2> QED BY <1>2, <2>1, QueryLost
<1>7. CASE QueryBreaks(q)
  <2>1. query[q].state \in {"sent", "read"} /\ query' = [query EXCEPT ![q].state = "broken", ![q].value = -1]
    BY <1>7 DEF QueryBreaks
  <2> QED BY <1>2, <2>1, QueryLost
<1> QED BY <1>1, <1>4, <1>5, <1>6, <1>7

LEMMA CancelKeeps == ASSUME ViewsInv, NEW r \in Requests, CancelRequest(r) PROVE ViewsInv'
<1> DEFINE q == request[r].query
<1>1. request[r].state = "waits" /\ UNCHANGED <<viewClock, content, contentAt, entry>>
  BY DEF CancelRequest
<1>2. q \in 1..Last /\ query[q] \in ViewQuery
  BY <1>1 DEF ViewsInv, FlightWell, QueriesWell
<1>3. CASE Ended(q)
  <2>1. r \in Woken /\ request' = [request EXCEPT ![r] = Failed] /\ inflight' = Cleared(q) /\ UNCHANGED query
    BY <1>1, <1>3 DEF CancelRequest, Woken
  <2>2. Failed \in ViewRequest /\ Failed.state # "waits"
    BY PlainRequests
  <2>3. FlightWell'
    BY <1>1, <2>1, <2>2, LeavesQuery
  <2> QED BY <1>1, <2>1, <2>3 DEF ViewsInv, ContentWell, EntryWell, QueriesWell, Last
<1>4. CASE ~Ended(q)
  <2>1. query' = [query EXCEPT ![q].state = "cancelled", ![q].value = -1] /\ UNCHANGED <<request, inflight>>
    BY <1>4 DEF CancelRequest
  <2>2. query[q].state \in {"sent", "read"}
    BY <1>2, <1>4 DEF Ended, ViewQuery
  <2> QED BY <1>1, <1>2, <2>1, <2>2, QueryLost
<1> QED BY <1>3, <1>4

LEMMA GraphGrowsKeeps == ASSUME ViewsInv, GraphGrows PROVE ViewsInv'
<1>1. content < MaxContent /\ content' = content + 1 /\ UNCHANGED <<viewClock, contentAt, entry, inflight, query, request>>
  BY DEF GraphGrows
<1>2. content \in 0..MaxContent /\ MaxContent \in Nat /\ contentAt \in [0..MaxViewClock -> 0..MaxContent]
      /\ viewClock \in 0..MaxViewClock /\ MaxViewClock \in Nat
  BY ViewBounds DEF ViewsInv, ContentWell
<1>3. content' \in 0..MaxContent
  BY <1>1, <1>2
<1>4. AsNewAs(content', viewClock, viewClock, contentAt)
  <2> SUFFICES ASSUME NEW s \in 0..viewClock, s <= viewClock PROVE content' >= contentAt[s]
    BY DEF AsNewAs
  <2>1. content >= contentAt[s] /\ s \in 0..MaxViewClock
    BY <1>2 DEF ViewsInv, ContentWell, AsNewAs
  <2>2. contentAt[s] \in Int
    BY <1>2, <2>1
  <2> QED BY <1>1, <1>2, <2>1, <2>2
<1>5. ContentWell'
  BY <1>1, <1>2, <1>3, <1>4 DEF ViewsInv, ContentWell
<1>6. FlightWell' /\ QueriesWell' /\ EntryWell'
  BY <1>1 DEF ViewsInv, FlightWell, QueriesWell, EntryWell, Last, Running
<1> QED BY <1>1, <1>5, <1>6 DEF ViewsInv

LEMMA ViewTickKeeps == ASSUME ViewsInv, ViewTick PROVE ViewsInv'
<1> DEFINE n == viewClock + 1
<1>1. /\ viewClock < MaxViewClock
      /\ Woken = {} /\ viewClock' = n /\ contentAt' = [contentAt EXCEPT ![n] = content]
      /\ UNCHANGED <<content, entry, inflight, query, request>>
  BY DEF ViewTick
<1>2. /\ content \in 0..MaxContent /\ MaxContent \in Nat /\ contentAt \in [0..MaxViewClock -> 0..MaxContent]
      /\ viewClock \in 0..MaxViewClock /\ MaxViewClock \in Nat
      /\ contentAt[0] = 0
  BY ViewBounds DEF ViewsInv, ContentWell
<1>3. n \in 0..MaxViewClock /\ n \in Nat /\ n # 0 /\ viewClock < n /\ viewClock \in Nat
  BY <1>1, <1>2
<1> HIDE DEF n
<1>4. /\ contentAt' \in [0..MaxViewClock -> 0..MaxContent] /\ contentAt'[n] = content
      /\ \A s \in 0..viewClock : contentAt'[s] = contentAt[s]
  BY <1>1, <1>2, <1>3
<1>5. ASSUME NEW v, NEW t \in Int, t <= viewClock, AsNewAs(v, t, viewClock, contentAt)
      PROVE  AsNewAs(v, t, n, contentAt')
  <2>1. \A s \in 0..n : s <= t => s \in 0..viewClock
    BY <1>3, <1>5
  <2> QED BY <1>4, <1>5, <2>1 DEF AsNewAs
<1>6. AsNewAs(content, n, n, contentAt')
  <2> SUFFICES ASSUME NEW s \in 0..n PROVE content >= contentAt'[s]
    BY DEF AsNewAs
  <2>1. s = n \/ s \in 0..viewClock
    BY <1>1, <1>3 DEF n
  <2>2. \A u \in 0..viewClock : u <= viewClock
    BY <1>3
  <2>3. \A u \in 0..viewClock : content >= contentAt[u]
    BY <2>2 DEF ViewsInv, ContentWell, AsNewAs
  <2> QED BY <1>2, <1>4, <2>1, <2>3
<1>7. ContentWell'
  <2>1. contentAt'[0] = 0
    BY <1>2, <1>3, <1>4
  <2> QED BY <1>1, <1>2, <1>3, <1>4, <1>6, <2>1 DEF ContentWell
<1>9. Last' = Last /\ Running' = Running
  BY <1>1 DEF Last, Running
<1>10. QueriesWell'
  <2> SUFFICES ASSUME NEW q \in 1..Last PROVE QueryWell(query[q], n, contentAt')
    BY <1>1, <1>9 DEF ViewsInv, QueriesWell
  <2>1. QueryWell(query[q], viewClock, contentAt)
    BY DEF ViewsInv, QueriesWell
  <2>2. query[q].at \in Nat /\ query[q].at <= viewClock /\ query[q].at <= n /\ query[q].at \in Int
    BY <1>3, <2>1 DEF QueryWell, ViewQuery
  <2>3. query[q].state \in {"read", "done"} => AsNewAs(query[q].value, query[q].at, n, contentAt')
    BY <1>5, <2>1, <2>2 DEF QueryWell
  <2> QED BY <2>1, <2>2, <2>3 DEF QueryWell
<1>11. FlightWell'
  <2>1. ASSUME NEW r \in Requests, request[r].state = "waits"
        PROVE  request[r].query \in 1..Last /\ query[request[r].query].state # "done"
    BY <1>1, <2>1 DEF ViewsInv, FlightWell, Woken, Ended
  <2> QED BY <1>1, <1>9, <2>1 DEF ViewsInv, FlightWell
<1>12. EntryWell'
  <2>1. \A a \in -1..viewClock : a \in -1..n
    BY <1>2, <1>3
  <2>2. entry \in [at : -1..n, value : -1..MaxContent, of : 0..Last]
    BY <2>1 DEF ViewsInv, EntryWell
  <2> QED BY <1>1, <1>9, <2>2 DEF ViewsInv, EntryWell
<1> QED BY <1>1, <1>7, <1>10, <1>11, <1>12 DEF ViewsInv

LEMMA ViewsInitHolds == ASSUME ViewsInit PROVE ViewsInv
<1>1. /\ viewClock = 0 /\ content = 0 /\ contentAt = [t \in 0..MaxViewClock |-> 0]
      /\ entry = NoEntry /\ inflight = 0 /\ query = << >> /\ request = [r \in Requests |-> NewRequest]
  BY DEF ViewsInit
<1>2. 0 \in 0..MaxViewClock /\ 0 \in 0..MaxContent
  BY ViewBounds
<1>3. ContentWell
  <2>1. contentAt \in [0..MaxViewClock -> 0..MaxContent] /\ contentAt[0] = 0
    BY <1>1, <1>2
  <2>2. AsNewAs(content, viewClock, viewClock, contentAt)
    <3>1. \A s \in 0..0 : s = 0
      OBVIOUS
    <3> QED BY <1>1, <2>1, <3>1 DEF AsNewAs
  <2> QED BY <1>1, <1>2, <2>1, <2>2 DEF ContentWell
<1>5. DOMAIN << >> = {} /\ 1..0 = {}
  OBVIOUS
<1>6. Last = 0
  BY <1>1, <1>5, FS_EmptySet DEF Last
<1>7. QueriesWell
  <2>1. << >> \in [{} -> ViewQuery]
    OBVIOUS
  <2>2. query \in [1..Last -> ViewQuery] /\ 1..Last = {}
    BY <1>1, <1>5, <1>6, <2>1
  <2> QED BY <1>6, <2>2 DEF QueriesWell
<1>8. FlightWell
  <2>1. request \in [Requests -> ViewRequest] /\ \A r \in Requests : request[r].state = "new"
    BY <1>1, PlainRequests
  <2>2. Running = {}
    BY <1>1, <1>5 DEF Running
  <2> QED BY <1>1, <1>6, <2>1, <2>2 DEF FlightWell
<1>9. EntryWell
  <2>1. -1 \in -1..0 /\ -1 \in -1..MaxContent /\ 0 \in 0..0
    BY ViewBounds
  <2>2. NoEntry \in [at : -1..0, value : -1..MaxContent, of : 0..0]
    BY <2>1 DEF NoEntry
  <2> QED BY <1>1, <1>6, <2>2 DEF EntryWell
<1> QED BY <1>3, <1>7, <1>8, <1>9 DEF ViewsInv

\* The cache holds the result of a query from the moment it ended, and one query at
\* most is running, for which somebody waits.
THEOREM ViewsInvHolds == ViewsInit /\ [][ViewsNext]_viewVars => []ViewsInv
<1>1. ViewsInit => ViewsInv
  BY ViewsInitHolds
<1>2. ViewsInv /\ [ViewsNext]_viewVars => ViewsInv'
  <2> SUFFICES ASSUME ViewsInv, [ViewsNext]_viewVars PROVE ViewsInv'
    OBVIOUS
  <2>1. CASE UNCHANGED viewVars
    BY <2>1 DEF viewVars, ViewsInv, ContentWell, EntryWell, QueriesWell, FlightWell, Last, Running
  <2>2. CASE ViewsNext
    BY <2>2, AskFromCacheKeeps, AskFromQueryKeeps, ResumeKeeps, CancelKeeps, AskAgainKeeps, QueryStepKeeps,
       GraphGrowsKeeps, ViewTickKeeps DEF ViewsNext
  <2> QED BY <2>1, <2>2
<1> QED BY <1>1, <1>2, PTL

\* One query runs at a time, and no request joins one that has ended: whoever waits
\* for it is about to run.
THEOREM FlightsAreAlive == ViewsSpec => [](ViewsTypeOK /\ NoDeadFlight)
<1>1. ViewsInv => ViewsTypeOK /\ NoDeadFlight
  <2> SUFFICES ASSUME ViewsInv PROVE ViewsTypeOK /\ NoDeadFlight
    OBVIOUS
  <2>1. Cardinality(Running) <= 1
    <3>1. Running = {} \/ Running = {inflight}
      BY DEF ViewsInv, FlightWell
    <3>2. Cardinality({}) = 0 /\ Cardinality({inflight}) = 1
      BY FS_EmptySet, FS_Singleton
    <3> QED BY <3>1, <3>2
  <2>2. \A r \in Requests : request[r].state \in {"new", "waits", "answered", "degraded", "failed"}
    BY DEF ViewsInv, FlightWell, ViewRequest
  <2>3. entry.value \in -1..MaxContent /\ entry.at \in -1..viewClock
    BY DEF ViewsInv, EntryWell
  <2>4. NoDeadFlight
    BY DEF NoDeadFlight, ViewsInv, FlightWell, Woken
  <2> QED BY <2>1, <2>2, <2>3, <2>4 DEF ViewsTypeOK, ViewsInv, ContentWell, FlightWell
<1> QED BY <1>1, ViewsInvHolds, PTL DEF ViewsSpec

RecentAnswer(r) ==
    LET q == query[request'[r].query]
    IN /\ q.state = "done" /\ (viewClock = q.ended \/ viewClock - q.ended < CacheTTL)
       /\ request'[r].value >= contentAt[q.at]

AnswerStep ==
    \A r \in Requests : request[r].state # "answered" /\ request'[r].state = "answered" => RecentAnswer(r)

\* The result of a query that is done, handed out while it is recent.
LEMMA ResultRecent ==
    ASSUME ViewsInv, NEW r, NEW q \in 1..Last, query[q].state = "done",
           viewClock = query[q].ended \/ viewClock - query[q].ended < CacheTTL,
           request'[r] = AnswerFor(query[q].value, q), request'[r].state = "answered"
    PROVE  RecentAnswer(r)
<1>1. QueryWell(query[q], viewClock, contentAt) /\ q \in Nat /\ viewClock \in Nat
  BY DEF ViewsInv, QueriesWell, ContentWell
<1>2. /\ query[q].value \in Int /\ query[q].at \in 0..viewClock /\ query[q].at <= query[q].at
      /\ AsNewAs(query[q].value, query[q].at, viewClock, contentAt)
  BY <1>1 DEF QueryWell, ViewQuery
<1>3. request'[r].value = query[q].value /\ request'[r].query = q
  BY <1>1, <1>2, AnswersWell
<1>4. query[q].value >= contentAt[query[q].at]
  BY <1>2 DEF AsNewAs
<1> QED BY <1>3, <1>4 DEF RecentAnswer

LEMMA AnswersAreRecent == ASSUME ViewsInv, ViewsNext PROVE AnswerStep
<1> SUFFICES ASSUME NEW r \in Requests, request[r].state # "answered", request'[r].state = "answered"
             PROVE  RecentAnswer(r)
  BY DEF AnswerStep
<1>1. request \in [Requests -> ViewRequest]
  BY DEF ViewsInv, FlightWell
<1>2. ASSUME NEW p \in Requests, AskFromCache(p) PROVE RecentAnswer(r)
  <2>1. /\ request' = [request EXCEPT ![p] = AnswerFor(entry.value, entry.of)]
        /\ entry # NoEntry /\ viewClock - entry.at < CacheTTL
    BY <1>2 DEF AskFromCache, Fresh
  <2>2. r = p
    BY <1>1, <2>1
  <2>3. /\ entry.of \in 1..Last /\ query[entry.of].state = "done"
        /\ query[entry.of].value = entry.value /\ query[entry.of].ended = entry.at
    BY <2>1 DEF ViewsInv, EntryWell
  <2>4. request'[r] = AnswerFor(query[entry.of].value, entry.of)
    BY <1>1, <2>1, <2>2, <2>3
  <2> QED BY <2>1, <2>3, <2>4, ResultRecent
<1>3. ASSUME NEW p \in Requests, ResumeRequest(p) PROVE RecentAnswer(r)
  <2> DEFINE q == request[p].query
             x == Outcome(q)
  <2>1. p \in Woken /\ request' = [request EXCEPT ![p] = x]
    BY <1>3 DEF ResumeRequest
  <2>2. q \in 1..Last /\ (query[q].state = "done" => query[q].ended = viewClock)
    BY <2>1, WokenQuery
  <2>3. r = p /\ request'[r] = x
    <3> HIDE DEF x
    <3> QED BY <1>1, <2>1
  <2> HIDE DEF q
  <2>4. query[q].state = "done" /\ x = AnswerFor(query[q].value, q)
    BY <2>3, PlainRequests DEF Outcome
  <2> QED BY <2>2, <2>3, <2>4, ResultRecent
<1>4. ASSUME NEW p \in Requests, AskFromQuery(p) \/ AskAgain(p) \/ CancelRequest(p) PROVE FALSE
  <2>1. CASE UNCHANGED request
    BY <2>1
  <2>2. CASE request' # request
    <3>1. PICK x \in ViewRequest : x.state # "answered" /\ request' = [request EXCEPT ![p] = x]
      <4>1. CASE AskAgain(p)
        BY <4>1, PlainRequests DEF AskAgain
      <4>2. CASE AskFromQuery(p)
        <5>1. inflight \in Nat /\ Last + 1 \in Nat
          BY DEF ViewsInv, FlightWell, QueriesWell
        <5>2. \A n \in Nat : Awaits(n) \in ViewRequest /\ Awaits(n).state # "answered"
          BY PlainRequests
        <5> QED BY <4>2, <5>1, <5>2 DEF AskFromQuery
      <4>3. CASE CancelRequest(p)
        BY <2>2, <4>3, PlainRequests DEF CancelRequest
      <4> QED BY <1>4, <4>1, <4>2, <4>3
    <3> QED BY <1>1, <3>1
  <2> QED BY <2>1, <2>2
<1>5. ASSUME QueryStep \/ GraphGrows \/ ViewTick PROVE FALSE
  BY <1>5 DEF QueryStep, StoreReads, QueryEnds, QueryFails, QueryBreaks, GraphGrows, ViewTick
<1> QED BY <1>2, <1>3, <1>4, <1>5 DEF ViewsNext

\* What GET /semantic answers came from a query that ended now or within the lifetime
\* of an entry, and is not older than what the graph held when that query was sent.
THEOREM AnswersAreNew == ViewsSpec => AnswersRecent
<1>1. ViewsInv /\ [ViewsNext]_viewVars => [AnswerStep]_viewVars
  BY AnswersAreRecent
<1>2. AnswerStep <=> (\A r \in Requests :
          request[r].state # "answered" /\ request'[r].state = "answered"
          => LET q == query[request'[r].query]
             IN /\ q.state = "done" /\ (viewClock = q.ended \/ viewClock - q.ended < CacheTTL)
                /\ request'[r].value >= contentAt[q.at])
  BY DEF AnswerStep, RecentAnswer
<1> QED BY <1>1, <1>2, ViewsInvHolds, PTL DEF ViewsSpec, AnswersRecent

---------------------------------------------------------------------------
(***************************************************************************)
(* Modbus polling                                                          *)
(***************************************************************************)

\* By ranks, sets of integers have a least and a greatest member.
LEMMA EndsExist ==
    ASSUME NEW S, S \subseteq Int, IsFiniteSet(S), S # {}
    PROVE  /\ Least(S) \in S /\ \A y \in S : Least(S) <= y
           /\ Greatest(S) \in S /\ \A y \in S : y <= Greatest(S)
<1>1. \E x : x \in S /\ \A y \in S : x <= y
  <2> DEFINE P == [x \in S |-> {y \in S : y < x}]
  <2>1. Orders(P, S)
    <3>1. \A x, y \in S : x \in P[y] <=> x < y
      OBVIOUS
    <3>2. P \in [S -> SUBSET S]
      OBVIOUS
    <3> HIDE DEF P
    <3>3. ASSUME NEW x \in S, NEW y \in S, x # y PROVE x \in P[y] \/ y \in P[x]
      <4>1. x \in Int /\ y \in Int
        OBVIOUS
      <4> QED BY <3>1, <3>3, <4>1
    <3>4. ASSUME NEW x \in S, NEW y \in S, x \in P[y] PROVE P[x] \subseteq P[y]
      <4> SUFFICES ASSUME NEW z \in P[x] PROVE z \in P[y]
        OBVIOUS
      <4>1. z \in S /\ x \in Int /\ y \in Int /\ z \in Int
        BY <3>2
      <4> QED BY <3>1, <3>4, <4>1
    <3> QED BY <3>1, <3>2, <3>3, <3>4 DEF Orders
  <2>2. PICK k : k \in S /\ \A h \in S \ {k} : k \in P[h]
    BY <2>1, FirstExists
  <2>3. \A h \in S \ {k} : k < h
    BY <2>2
  <2> QED BY <2>2, <2>3
<1>2. \E x : x \in S /\ \A y \in S : y <= x
  <2> DEFINE P == [x \in S |-> {y \in S : y > x}]
  <2>1. Orders(P, S)
    <3>1. \A x, y \in S : x \in P[y] <=> x > y
      OBVIOUS
    <3>2. P \in [S -> SUBSET S]
      OBVIOUS
    <3> HIDE DEF P
    <3>3. ASSUME NEW x \in S, NEW y \in S, x # y PROVE x \in P[y] \/ y \in P[x]
      <4>1. x \in Int /\ y \in Int
        OBVIOUS
      <4> QED BY <3>1, <3>3, <4>1
    <3>4. ASSUME NEW x \in S, NEW y \in S, x \in P[y] PROVE P[x] \subseteq P[y]
      <4> SUFFICES ASSUME NEW z \in P[x] PROVE z \in P[y]
        OBVIOUS
      <4>1. z \in S /\ x \in Int /\ y \in Int /\ z \in Int
        BY <3>2
      <4> QED BY <3>1, <3>4, <4>1
    <3> QED BY <3>1, <3>2, <3>3, <3>4 DEF Orders
  <2>2. PICK k : k \in S /\ \A h \in S \ {k} : k \in P[h]
    BY <2>1, FirstExists
  <2>3. \A h \in S \ {k} : k > h
    BY <2>2
  <2> QED BY <2>2, <2>3
<1>3. Least(S) \in S /\ \A y \in S : Least(S) <= y
  BY <1>1 DEF Least
<1>4. Greatest(S) \in S /\ \A y \in S : y <= Greatest(S)
  BY <1>2 DEF Greatest
<1> QED BY <1>3, <1>4

(***************************************************************************)
(* ModbusPolling                                                           *)
(***************************************************************************)

LEMMA BindingsAre ==
    ASSUME NEW B, B \subseteq Catalogue
    PROVE  /\ IsFiniteSet(B)
           /\ \A b \in B : /\ b.slave \in Int /\ b.code \in Int /\ b.address \in Int
                           /\ b.count \in Nat \ {0} /\ b.interval \in Nat \ {0}
BY PollingAssumption, FS_Subset

GroupType == [slave : Int, code : Int, interval : Nat \ {0}]

\* The groups of the plan are finitely many, and each has a binding.
LEMMA GroupsAre ==
    ASSUME bindings \subseteq Catalogue
    PROVE  /\ IsFiniteSet(Groups)
           /\ \A g \in Groups : g \in GroupType /\ Entries(g) # {} /\ IsFiniteSet(Entries(g))
<1>1. IsFiniteSet(bindings) /\ \A b \in bindings : /\ b.slave \in Int /\ b.code \in Int
                                                   /\ b.interval \in Nat \ {0}
  BY BindingsAre
<1>2. IsFiniteSet(Groups)
  <2> DEFINE f == [b \in bindings |-> Group(b)]
  <2>1. f \in Surjection(bindings, Groups)
    BY DEF Surjection, Groups
  <2> QED BY <1>1, <2>1, FS_Surjection
<1>3. \A g \in Groups : g \in GroupType /\ Entries(g) # {}
  BY <1>1 DEF Groups, Group, GroupType, Entries
<1>4. \A g : Entries(g) \subseteq bindings
  BY DEF Entries
<1>5. \A g : IsFiniteSet(Entries(g))
  BY <1>1, <1>4, FS_Subset
<1> QED BY <1>2, <1>3, <1>5

\* FirstOf names one of the groups that are left.
LEMMA FirstIsOne ==
    ASSUME bindings \subseteq Catalogue, NEW G, G \subseteq Groups, G # {} PROVE FirstOf(G) \in G
<1> DEFINE P == [g \in G |-> {h \in G : Earlier(h, g)}]
<1>1. IsFiniteSet(G) /\ \A g \in G : g \in GroupType
  BY GroupsAre, FS_Subset
<1>2. \A g, h \in G : g # h => g.slave # h.slave \/ g.code # h.code \/ g.interval # h.interval
  BY <1>1 DEF GroupType
<1>3. \A g, h \in G : g # h => Earlier(g, h) \/ Earlier(h, g)
  BY <1>1, <1>2 DEF Earlier, GroupType
<1>4. \A g \in G : ~Earlier(g, g)
  BY <1>1 DEF Earlier, GroupType
<1>5. \A f, g, h \in G : Earlier(f, g) /\ Earlier(g, h) => Earlier(f, h)
  BY <1>1 DEF Earlier, GroupType
<1>6. Orders(P, G)
  BY <1>3, <1>4, <1>5 DEF Orders
<1>7. PICK k : k \in G /\ \A h \in G \ {k} : k \in P[h]
  BY <1>1, <1>6, FirstExists
<1>8. k \in G /\ \A h \in G \ {k} : Earlier(k, h)
  BY <1>7
<1> QED BY <1>8 DEF FirstOf

\* The span of a group is as long as it says, and it holds its entries.
LEMMA SpanIs ==
    ASSUME bindings \subseteq Catalogue, NEW g \in Groups
    PROVE  /\ Start(g) \in Int /\ Stop(g) \in Int /\ Stop(g) - Start(g) \in Nat
           /\ \A b \in Entries(g) : Start(g) <= b.address /\ b.address + b.count <= Stop(g)
<1> DEFINE A == {b.address : b \in Entries(g)}
           E == {b.address + b.count : b \in Entries(g)}
<1>1. Entries(g) # {} /\ IsFiniteSet(Entries(g)) /\ Entries(g) \subseteq bindings
  BY GroupsAre DEF Entries
<1>2. \A b \in Entries(g) : b.address \in Int /\ b.count \in Nat \ {0} /\ b.address + b.count \in Int
  BY <1>1, BindingsAre
<1>3. A \subseteq Int /\ A # {} /\ IsFiniteSet(A)
  <2> DEFINE f == [b \in Entries(g) |-> b.address]
  <2>1. f \in Surjection(Entries(g), A)
    BY DEF Surjection
  <2> QED BY <1>1, <1>2, <2>1, FS_Surjection
<1>4. E \subseteq Int /\ E # {} /\ IsFiniteSet(E)
  <2> DEFINE f == [b \in Entries(g) |-> b.address + b.count]
  <2>1. f \in Surjection(Entries(g), E)
    BY DEF Surjection
  <2> QED BY <1>1, <1>2, <2>1, FS_Surjection
<1>5. Start(g) \in Int /\ \A a \in A : Start(g) <= a
  <2> HIDE DEF A
  <2>1. Least(A) \in A /\ \A y \in A : Least(A) <= y
    BY <1>3, EndsExist
  <2> QED BY <1>3, <2>1 DEF Start, A
<1>6. Stop(g) \in Int /\ \A e \in E : e <= Stop(g)
  <2> HIDE DEF E
  <2>1. Greatest(E) \in E /\ \A y \in E : y <= Greatest(E)
    BY <1>4, EndsExist
  <2> QED BY <1>4, <2>1 DEF Stop, E
<1>7. \A b \in Entries(g) : Start(g) <= b.address /\ b.address + b.count <= Stop(g)
  BY <1>5, <1>6
<1>8. PICK b \in Entries(g) : TRUE
  BY <1>1
<1>9. Stop(g) - Start(g) \in Nat
  BY <1>2, <1>5, <1>6, <1>7, <1>8
<1> QED BY <1>5, <1>6, <1>7, <1>9

\* sample s of binding b, all words of it
Whole(b, s) == [i \in 1..b.count |-> [of |-> {b}, sample |-> s, place |-> i]]

Registers(b) == b.code \in {3, 4}

\* What is left of the plan, and what was read for the group whose block is
\* being decoded.
PollShape ==
    /\ bindings \subseteq Catalogue /\ ~Collide(bindings)
    /\ register \in [bindings -> 0..MaxWrites] /\ written \in 1..MaxWrites
    /\ \A g \in Groups : nextDue[g] \in 0..g.interval
    /\ toRead \subseteq batch /\ batch \subseteq Groups /\ spent \in Nat
    /\ polling \in {"away", "idle", "busy"} /\ (polling # "busy" => batch = {})
    /\ block.left # {} => toRead # {}

BlockShape == block = [words |-> block.words, left |-> block.left]

BlockIsWhole ==
    block.left # {} =>
        \A b \in Decoded(FirstOf(toRead), block.words) :
            Registers(b) => \E s \in 0..MaxWrites : Value(b, FirstOf(toRead), block.words) = Whole(b, s)

ReportIsWhole ==
    \A b \in bindings :
        Registers(b) /\ report[b] # << >> => \E s \in 1..MaxWrites : report[b] = Whole(b, s)

PollInv == PollShape /\ BlockShape /\ BlockIsWhole /\ ReportIsWhole

\* Without a collision, the owner of a register is one binding.
LEMMA OneOwner ==
    ASSUME PollShape, NEW b \in bindings, NEW i \in 1..b.count
    PROVE  WordAt(b.slave, b.code, b.address + i - 1) = [of |-> {b}, sample |-> register[b], place |-> i]
<1> DEFINE a == b.address + i - 1
           r == <<b.slave, b.code, a>>
           owner == {c \in bindings : r \in Occupies(c)}
<1>1. b.address \in Int /\ b.count \in Nat \ {0} /\ i \in Int
  BY BindingsAre DEF PollShape
<1>2. a \in b.address .. b.address + b.count - 1 /\ a - b.address + 1 = i
  BY <1>1
<1> HIDE DEF a
<1>3. r \in Occupies(b)
  BY <1>2 DEF Occupies
<1>4. \A c \in bindings : r \in Occupies(c) => c = b
  BY <1>3 DEF PollShape, Collide
<1>5. owner = {b}
  BY <1>3, <1>4
<1> HIDE DEF r, owner
<1>6. owner # {} /\ (CHOOSE c \in owner : TRUE) = b
  BY <1>5
<1>7. WordAt(b.slave, b.code, a) = [of |-> {b}, sample |-> register[b], place |-> a - b.address + 1]
  BY <1>6 DEF WordAt, owner, r
<1> QED BY <1>2, <1>7 DEF a

\* What is decoded for a binding, of this group or another, out of an answer is
\* the whole of its sample.
LEMMA AnswerIsWhole ==
    ASSUME PollShape, NEW g \in Groups, NEW b \in Decoded(g, Answer(g)), Registers(b)
    PROVE  Value(b, g, Answer(g)) = Whole(b, register[b])
<1> DEFINE n == Stop(g) - Start(g)
           words == Answer(g)
           first == b.address - Start(g) + 1
           last == first + b.count - 1
<1>1. n \in Nat /\ Start(g) \in Int
  BY SpanIs DEF PollShape
<1>2. b \in bindings /\ b.slave = g.slave /\ b.code = g.code /\ Inside(b, g, words)
  BY DEF Decoded
<1>3. b.address \in Int /\ b.count \in Nat \ {0}
  BY <1>2, BindingsAre DEF PollShape
<1>4. ~Bits(g)
  BY <1>2 DEF Registers, Bits
<1>5. words = [i \in 1..n |-> IF i > n THEN Blank ELSE WordAt(g.slave, g.code, Start(g) + i - 1)]
  BY <1>4 DEF Answer, AnswerLength
<1>6. Len(words) = n
  BY <1>1, <1>5
<1>7. \A i \in 1..n : words[i] = WordAt(b.slave, b.code, Start(g) + i - 1)
  BY <1>1, <1>2, <1>5
<1> HIDE DEF words, n
<1>8. first >= 1 /\ last <= n /\ first \in Int /\ last \in Int
  BY <1>1, <1>2, <1>3, <1>6 DEF Inside
<1>9. \A i \in 1..b.count : words[first + i - 1] = [of |-> {b}, sample |-> register[b], place |-> i]
  <2> SUFFICES ASSUME NEW i \in 1..b.count
               PROVE  words[first + i - 1] = [of |-> {b}, sample |-> register[b], place |-> i]
    OBVIOUS
  <2>1. first + i - 1 \in 1..n /\ Start(g) + (first + i - 1) - 1 = b.address + i - 1
    BY <1>1, <1>3, <1>8
  <2>2. words[first + i - 1] = WordAt(b.slave, b.code, Start(g) + (first + i - 1) - 1)
    BY <1>7, <2>1
  <2> QED BY <1>2, <2>1, <2>2, OneOwner
<1> DEFINE S == {words[i] : i \in first..last}
           v == SubSeq(words, first, last)
<1>10. /\ v \in Seq(S) /\ Len(v) = IF first <= last THEN last - first + 1 ELSE 0
       /\ \A i \in 1..(last - first + 1) : v[i] = words[first + i - 1]
  <2>1. \A i \in first..last : words[i] \in S
    OBVIOUS
  <2> HIDE DEF S
  <2> QED BY <1>8, <2>1, SubSeqProperties
<1>11. last - first + 1 = b.count /\ first <= last
  BY <1>1, <1>3
<1> HIDE DEF first, last, S
<1>12. v \in [1..b.count -> S] /\ \A i \in 1..b.count : v[i] = [of |-> {b}, sample |-> register[b], place |-> i]
  <2>1. Len(v) = b.count /\ \A i \in 1..b.count : v[i] = words[first + i - 1]
    BY <1>10, <1>11
  <2>2. v \in [1..Len(v) -> S]
    BY <1>10, LenProperties
  <2> QED BY <1>9, <2>1, <2>2 DEF first
<1> HIDE DEF v
<1>13. v = Whole(b, register[b])
  BY <1>12 DEF Whole
<1> QED BY <1>13 DEF Value, v, first, last, words

LEMMA PollInitInv == PollInit => PollInv
<1> SUFFICES ASSUME PollInit PROVE PollInv
  OBVIOUS
<1>1. bindings \subseteq Catalogue /\ ~Collide(bindings)
  BY DEF PollInit
<1>2. 1 \in 1..MaxWrites /\ 1 \in 0..MaxWrites
  BY PollingAssumption
<1>3. \A g \in Groups : nextDue[g] \in 0..g.interval
  <2>1. \A g \in Groups : g.interval \in Nat
    BY <1>1, GroupsAre DEF GroupType
  <2> QED BY <2>1 DEF PollInit
<1>4. PollShape
  BY <1>1, <1>2, <1>3 DEF PollInit, PollShape, NoBlock
<1> QED BY <1>4 DEF PollInit, PollInv, BlockShape, BlockIsWhole, ReportIsWhole, NoBlock

\* Whatever ends the connection, nothing of the poll is left.
LEMMA GiveUpKeeps == ASSUME PollInv, NEW why, GiveUp(why) PROVE PollInv'
<1>1. Groups' = Groups /\ bindings' = bindings
  BY DEF GiveUp, Groups
<1>2. block'.left = {} /\ 0 \in Nat
  BY DEF GiveUp, NoBlock
<1>3. PollShape'
  BY <1>1, <1>2 DEF GiveUp, PollInv, PollShape, Collide
<1>4. BlockShape'
  BY DEF GiveUp, NoBlock, BlockShape
<1> QED BY <1>1, <1>2, <1>3, <1>4 DEF GiveUp, PollInv, BlockIsWhole, ReportIsWhole

\* Steps that leave the block and what is to be read alone
LEMMA BlockStays ==
    ASSUME PollInv, UNCHANGED <<bindings, block, toRead>> PROVE BlockIsWhole'
BY DEF PollInv, BlockIsWhole, Decoded, Inside, Value, Start, Stop, Entries

LEMMA WriteKeeps == ASSUME PollInv, NEW b \in bindings, DeviceWrites(b) PROVE PollInv'
<1>1. UNCHANGED <<bindings, polling, nextDue, batch, toRead, spent, block, report>> /\ Groups' = Groups
  BY DEF DeviceWrites, Groups
<1>2. PICK s \in 0..MaxWrites : register' = [register EXCEPT ![b] = s]
  <2>1. written \in 1..MaxWrites /\ written < MaxWrites /\ MaxWrites \in Nat
    BY PollingAssumption DEF DeviceWrites, PollInv, PollShape
  <2>2. written + 1 \in 0..MaxWrites /\ 0 \in 0..MaxWrites
    BY <2>1
  <2>3. PICK s \in {written + 1, 0} : register' = [register EXCEPT ![b] = s]
    BY DEF DeviceWrites
  <2> QED BY <2>2, <2>3
<1>3. written' \in 1..MaxWrites
  BY PollingAssumption DEF DeviceWrites, PollInv, PollShape
<1>4. PollShape'
  BY <1>1, <1>2, <1>3 DEF PollInv, PollShape, Collide
<1> QED BY <1>1, <1>4, BlockStays DEF PollInv, BlockShape, ReportIsWhole

\* The times of the groups stay within their intervals.
LEMMA TimesKeep ==
    ASSUME PollInv, PollTick \/ EndPoll PROVE PollInv'
<1>1. UNCHANGED <<bindings, register, written, toRead, block, report>> /\ Groups' = Groups
  BY DEF PollTick, EndPoll, Groups
<1>2. \A g \in Groups : g.interval \in Nat \ {0} /\ nextDue[g] \in 0..g.interval
  BY GroupsAre DEF PollInv, PollShape, GroupType
<1>3. \A g \in Groups : nextDue'[g] \in 0..g.interval
  <2> SUFFICES ASSUME NEW g \in Groups PROVE nextDue'[g] \in 0..g.interval
    OBVIOUS
  <2>1. CASE PollTick
    BY <1>2, <2>1 DEF PollTick
  <2>2. CASE EndPoll
    <3>1. nextDue'[g] = IF g \in batch THEN Remaining(g) ELSE nextDue[g]
      BY <2>2 DEF EndPoll
    <3>2. Remaining(g) \in 0..g.interval
      BY <1>2 DEF Remaining, PollInv, PollShape
    <3> QED BY <1>2, <3>1, <3>2
  <2> QED BY <2>1, <2>2
<1>4. spent' \in Nat
  BY DEF PollTick, EndPoll, PollInv, PollShape
<1>5. /\ toRead' \subseteq batch' /\ batch' \subseteq Groups
      /\ polling' \in {"away", "idle", "busy"} /\ (polling' # "busy" => batch' = {})
  BY DEF PollTick, EndPoll, PollInv, PollShape
<1>6. PollShape'
  BY <1>1, <1>3, <1>4, <1>5 DEF PollInv, PollShape, Collide
<1> QED BY <1>1, <1>6, BlockStays DEF PollInv, BlockShape, ReportIsWhole

LEMMA StartKeepsPoll == ASSUME PollInv, StartPoll \/ Connect \/ ReadRefused PROVE PollInv'
<1>1. UNCHANGED <<bindings, register, written, nextDue, block, report>> /\ Groups' = Groups
  BY DEF StartPoll, Connect, ReadRefused, Groups
<1>2. block.left = {}
  BY DEF StartPoll, Connect, ReadRefused, Reading, NoBlock, PollInv, PollShape
<1>3. /\ toRead' \subseteq batch' /\ batch' \subseteq Groups /\ spent' \in Nat
      /\ polling' \in {"away", "idle", "busy"} /\ (polling' # "busy" => batch' = {})
  BY DEF StartPoll, Connect, ReadRefused, Reading, Others, PollInv, PollShape
<1>4. PollShape'
  BY <1>1, <1>2, <1>3 DEF PollInv, PollShape, Collide
<1>5. BlockIsWhole'
  BY <1>1, <1>2 DEF BlockIsWhole
<1> QED BY <1>1, <1>4, <1>5 DEF PollInv, BlockShape, ReportIsWhole

LEMMA AnswerKeeps == ASSUME PollInv, ReadAnswered PROVE PollInv'
<1> DEFINE g == FirstOf(toRead)
<1>1. /\ UNCHANGED <<bindings, register, written, polling, nextDue, batch, toRead, spent, report>>
      /\ Groups' = Groups /\ toRead # {} /\ block'.words = Answer(g)
  BY DEF ReadAnswered, Reading, Groups
<1>2. g \in Groups
  BY <1>1, FirstIsOne DEF PollInv, PollShape
<1>3. \A b \in Decoded(g, Answer(g)) :
         Registers(b) => register[b] \in 0..MaxWrites /\ Value(b, g, Answer(g)) = Whole(b, register[b])
  BY <1>2, AnswerIsWhole DEF PollInv, PollShape, Decoded
<1>4. PollShape'
  BY <1>1 DEF PollInv, PollShape, Collide
<1>5. BlockIsWhole'
  <2>1. FirstOf(toRead)' = g
    BY <1>1 DEF FirstOf
  <2> QED BY <1>1, <1>3, <2>1 DEF BlockIsWhole, Decoded, Inside, Value, Start, Stop, Entries
<1>6. BlockShape'
  BY DEF ReadAnswered, BlockShape
<1> QED BY <1>1, <1>4, <1>5, <1>6 DEF PollInv, ReportIsWhole

\* A message holds the values of one device, each decoded out of the block.
LEMMA ForwardKeeps == ASSUME PollInv, ForwardNext PROVE PollInv'
<1> DEFINE g == FirstOf(toRead)
           d == Least(block.left)
           mine == {b \in Decoded(g, block.words) : b.device = d}
<1>1. CASE \E b \in mine : NotANumber(Value(b, g, block.words))
  BY <1>1, GiveUpKeeps DEF ForwardNext
<1>2. CASE ~\E b \in mine : NotANumber(Value(b, g, block.words))
  <2>1. /\ block.left # {}
        /\ report' = [b \in bindings |-> IF b \in mine THEN Value(b, g, block.words) ELSE report[b]]
        /\ \/ block' = NoBlock /\ toRead' = Others(toRead)
           \/ block' = [block EXCEPT !.left = @ \ {d}] /\ toRead' = toRead /\ block.left # {d}
        /\ UNCHANGED <<bindings, register, written, polling, nextDue, batch, spent>>
    BY <1>2 DEF ForwardNext
  <2> HIDE DEF d, mine, g
  <2>2. Groups' = Groups
    BY <2>1 DEF Groups
  <2>3. toRead' \subseteq toRead /\ (block'.left # {} => toRead' = toRead)
    BY <2>1 DEF Others, NoBlock
  <2>4. PollShape'
    BY <2>1, <2>2, <2>3 DEF PollInv, PollShape, Collide
  <2>5. BlockIsWhole'
    <3>1. CASE block' = NoBlock
      BY <3>1 DEF BlockIsWhole, NoBlock
    <3>2. CASE block' = [block EXCEPT !.left = @ \ {d}] /\ toRead' = toRead
      <4>1. block'.words = block.words
        BY <3>2 DEF PollInv, BlockShape
      <4>2. FirstOf(toRead)' = FirstOf(toRead)
        BY <3>2 DEF FirstOf
      <4> DEFINE f == FirstOf(toRead)
      <4>4. \A b \in Decoded(f, block.words) :
               Registers(b) => \E s \in 0..MaxWrites : Value(b, f, block.words) = Whole(b, s)
        BY <2>1 DEF PollInv, BlockIsWhole
      <4>5. Decoded(FirstOf(toRead), block.words)' = Decoded(f, block.words)
        BY <2>1, <4>1, <4>2 DEF Decoded, Inside, Start, Entries
      <4>6. \A b : Value(b, FirstOf(toRead), block.words)' = Value(b, f, block.words)
        BY <2>1, <4>1, <4>2 DEF Value, Start, Entries
      <4> HIDE DEF f
      <4> QED BY <4>4, <4>5, <4>6 DEF BlockIsWhole
    <3> QED BY <2>1, <3>1, <3>2
  <2>6. ASSUME NEW b \in bindings, Registers(b), report'[b] # << >>
        PROVE  \E s \in 1..MaxWrites : report'[b] = Whole(b, s)
    <3>1. CASE b \notin mine
      BY <2>1, <2>6, <3>1 DEF PollInv, ReportIsWhole
    <3>2. CASE b \in mine
      <4>1. PICK s \in 0..MaxWrites : Value(b, g, block.words) = Whole(b, s)
        BY <2>1, <2>6, <3>2 DEF PollInv, BlockIsWhole, mine, g
      <4>2. report'[b] = Whole(b, s) /\ ~NotANumber(Whole(b, s))
        BY <1>2, <2>1, <3>2, <4>1
      <4>3. b.count \in Nat \ {0}
        BY BindingsAre DEF PollInv, PollShape
      <4>4. Len(Whole(b, s)) = b.count /\ Whole(b, s)[1] = [of |-> {b}, sample |-> s, place |-> 1]
        BY <4>3 DEF Whole
      <4>5. s # 0
        <5> SUFFICES ASSUME s = 0 PROVE FALSE
          OBVIOUS
        <5>1. 1 \in 1..Len(Whole(b, s)) /\ Whole(b, s)[1].of # {} /\ Whole(b, s)[1].sample = 0
          BY <4>3, <4>4
        <5> QED BY <4>2, <5>1 DEF NotANumber
      <4>6. s \in 1..MaxWrites
        BY <4>5, PollingAssumption
      <4> QED BY <4>2, <4>6
    <3> QED BY <3>1, <3>2
  <2>7. ReportIsWhole'
    BY <2>1, <2>6 DEF ReportIsWhole
  <2>8. BlockShape'
    BY <2>1 DEF PollInv, BlockShape, NoBlock
  <2> QED BY <2>4, <2>5, <2>7, <2>8 DEF PollInv
<1> QED BY <1>1, <1>2

LEMMA PollNextInv == PollInv /\ [PollNext]_pollVars => PollInv'
<1> SUFFICES ASSUME PollInv, [PollNext]_pollVars PROVE PollInv'
  OBVIOUS
<1>1. CASE UNCHANGED pollVars
  <2>1. Groups' = Groups
    BY <1>1 DEF pollVars, Groups
  <2>2. PollShape'
    BY <1>1, <2>1 DEF pollVars, PollInv, PollShape, Collide
  <2> QED BY <1>1, <2>2, BlockStays DEF pollVars, PollInv, BlockShape, ReportIsWhole
<1>2. CASE PollNext
  BY <1>2, WriteKeeps, TimesKeep, StartKeepsPoll, AnswerKeeps, ForwardKeeps, GiveUpKeeps
     DEF PollNext, PollStep, ServerStep, ConnectFails, ReadRaises
<1> QED BY <1>1, <1>2

\* The invariant of the polling.
THEOREM PollInvHolds == PollSpec => []PollInv
<1> QED BY PollInitInv, PollNextInv, PTL DEF PollSpec

\* PollTypeOK, RegisterHasOneOwner and ReportIsOneSample: no register is decoded
\* for two bindings, and what is reported of holding or input registers is one
\* sample of the binding with all its words, whatever the plan of groups is and
\* whatever the devices write while a poll goes on.
THEOREM ReportsAreWhole ==
  PollSpec => [](PollTypeOK /\ RegisterHasOneOwner /\ ReportIsOneSample)
<1>1. PollInv => PollTypeOK
  BY DEF PollInv, PollShape, PollTypeOK
<1>2. PollInv => RegisterHasOneOwner
  <2> SUFFICES ASSUME PollInv, NEW b \in bindings, NEW c \in bindings,
                      b # c, b.slave = c.slave, b.code = c.code,
                      ~(b.address + b.count <= c.address), ~(c.address + c.count <= b.address)
               PROVE  FALSE
    BY DEF RegisterHasOneOwner
  <2>1. /\ b.address \in Int /\ b.count \in Nat \ {0}
        /\ c.address \in Int /\ c.count \in Nat \ {0}
    BY BindingsAre DEF PollInv, PollShape
  <2> DEFINE a == IF b.address <= c.address THEN c.address ELSE b.address
  <2>2. a \in b.address .. b.address + b.count - 1 /\ a \in c.address .. c.address + c.count - 1
    BY <2>1
  <2> HIDE DEF a
  <2>3. <<b.slave, b.code, a>> \in Occupies(b) \cap Occupies(c)
    BY <2>2 DEF Occupies
  <2> QED BY <2>3 DEF PollInv, PollShape, Collide
<1>3. PollInv => ReportIsOneSample
  BY DEF PollInv, ReportIsWhole, Registers, Whole, ReportIsOneSample
<1> QED BY <1>1, <1>2, <1>3, PollInvHolds, PTL

---------------------------------------------------------------------------
(***************************************************************************)
(* BindingReload: what the script has reached so far.  From its POST on,   *)
(* as long as nobody edits a file, the two files are accepted and the      *)
(* backend runs by them; from the reload of the service on, so does the    *)
(* service, and so do, or will, the adapters it has signalled.  A registry *)
(* is empty exactly when it holds no edit, for every file is an edit.      *)
(***************************************************************************)
ReloadShape ==
    /\ edits \in 1..MaxEdits /\ starts \in Int /\ undisturbed \in BOOLEAN
    /\ bindingsFile \in File /\ thresholdsFile \in File
    /\ bindingsFile.edit # 0
    /\ backend \in [bindings : File, thresholds : File]
    /\ backend.bindings.ok /\ backend.thresholds.ok
    /\ backend.bindings = Empty \/ backend.bindings.edit # 0
    /\ service \in File /\ service.ok
    /\ signalled \subseteq Adapters

AdaptersShape ==
    /\ adapter \in [Adapters -> AdapterState]
    /\ \A p \in Adapters : adapter[p].built.ok

\* adapter p runs by the file, or is about to
Heeds(p) ==
    \/ adapter[p].phase \in {"build", "failed"} \/ adapter[p].hup
    \/ adapter[p].built = bindingsFile

ScriptReached ==
    /\ script \in {"post", "service"} => signalled = {}
    /\ undisturbed =>
        /\ script \in {"service", "adapters", "done"} =>
              /\ bindingsFile.ok /\ thresholdsFile.ok
              /\ backend = [bindings |-> bindingsFile, thresholds |-> thresholdsFile]
        /\ script \in {"adapters", "done"} =>
              service = bindingsFile /\ \A p \in signalled : Heeds(p)
        /\ script = "done" => signalled = Adapters

ReloadInv == ReloadShape /\ AdaptersShape /\ ScriptReached

\* A registry that is read from a file is one that is accepted.
LEMMA LoadedIsAccepted ==
  /\ Empty \in File /\ Empty.ok /\ Empty.edit = 0
  /\ \A f \in File : /\ Loadable(f) \in File /\ Loadable(f).ok
                     /\ f.ok => Loadable(f) = f
                     /\ f.edit # 0 => Loadable(f) = Empty \/ Loadable(f).edit # 0
<1>1. Empty \in File /\ Empty.ok /\ Empty.edit = 0
  BY ReloadAssumption DEF File, Empty
<1> QED BY <1>1 DEF Loadable

\* The files and the first state of every process.
LEMMA ReloadInitInv == ReloadInit => ReloadInv
<1> SUFFICES ASSUME ReloadInit PROVE ReloadInv
  OBVIOUS
<1>1. bindingsFile \in File /\ thresholdsFile \in File
  BY ReloadAssumption DEF ReloadInit, File
<1>2. ReloadShape
  BY <1>1, ReloadAssumption DEF ReloadInit, ReloadShape
<1>3. AdaptersShape
  BY <1>1 DEF ReloadInit, AdaptersShape, AdapterState
<1> QED BY <1>2, <1>3 DEF ReloadInit, ReloadInv, ScriptReached

\* An edit can only be what the operator wrote, and it ends what the script had
\* found out.
LEMMA EditKeeps == ASSUME ReloadInv, Edit PROVE ReloadInv'
<1>1. edits + 1 \in 1..MaxEdits /\ edits + 1 # 0 /\ edits + 1 \in 0..MaxEdits /\ edits' = edits + 1
  BY ReloadAssumption DEF ReloadInv, ReloadShape, Edit
<1>2. \A f \in Revised({{}, Needy}) \cup Revised({{}}) : f \in File /\ f.edit # 0
  <2>1. \A s \in SUBSET Needy : \A ok \in BOOLEAN :
           /\ [edit |-> edits + 1, ok |-> ok, serves |-> s] \in File
           /\ [edit |-> edits + 1, ok |-> ok, serves |-> s].edit # 0
    BY <1>1 DEF File
  <2>2. {} \in SUBSET Needy /\ Needy \in SUBSET Needy
    OBVIOUS
  <2> HIDE DEF File
  <2> QED BY <2>1, <2>2 DEF Revised
<1>3. bindingsFile' \in File /\ bindingsFile'.edit # 0 /\ thresholdsFile' \in File
  BY <1>2 DEF Edit, ReloadInv, ReloadShape
<1>4. ReloadShape'
  BY <1>1, <1>3 DEF Edit, ReloadInv, ReloadShape
<1> QED BY <1>4 DEF Edit, ReloadInv, AdaptersShape, ScriptReached

\* A restart and a load on demand read files that the script has found to be
\* good, if it has come that far.
LEMMA StartsKeep ==
  ASSUME ReloadInv, LoadOnDemand \/ BackendStarts \/ ServiceStarts PROVE ReloadInv'
<1>1. /\ backend' \in [bindings : File, thresholds : File]
      /\ backend'.bindings.ok /\ backend'.thresholds.ok
      /\ backend'.bindings = Empty \/ backend'.bindings.edit # 0
      /\ service' \in File /\ service'.ok
  BY LoadedIsAccepted DEF LoadOnDemand, BackendStarts, ServiceStarts, ReloadInv, ReloadShape
<1>2. ReloadShape'
  <2>1. starts' \in Int
    BY DEF LoadOnDemand, BackendStarts, ServiceStarts, counters, ReloadInv, ReloadShape
  <2> QED BY <1>1, <2>1 DEF LoadOnDemand, BackendStarts, ServiceStarts, files, counters,
                            ReloadInv, ReloadShape
<1>3. AdaptersShape'
  BY DEF LoadOnDemand, BackendStarts, ServiceStarts, ReloadInv, AdaptersShape
<1>4. ScriptReached'
  <2>1. \A p \in Adapters : Heeds(p) => Heeds(p)'
    BY DEF LoadOnDemand, BackendStarts, ServiceStarts, files, Heeds
  <2>2. UNCHANGED <<bindingsFile, thresholdsFile, script, signalled, undisturbed>>
    BY DEF LoadOnDemand, BackendStarts, ServiceStarts, files, counters
  <2>3. bindingsFile.ok /\ thresholdsFile.ok /\ backend = [bindings |-> bindingsFile, thresholds |-> thresholdsFile]
           => backend' = [bindings |-> bindingsFile, thresholds |-> thresholdsFile]
    BY LoadedIsAccepted DEF LoadOnDemand, BackendStarts, ServiceStarts, ReloadInv, ReloadShape
  <2>4. bindingsFile.ok /\ service = bindingsFile => service' = bindingsFile
    BY LoadedIsAccepted DEF LoadOnDemand, BackendStarts, ServiceStarts, ReloadInv, ReloadShape
  <2> QED BY <2>1, <2>2, <2>3, <2>4 DEF ReloadInv, ReloadShape, ScriptReached
<1> QED BY <1>2, <1>3, <1>4 DEF ReloadInv

\* A supervisor that builds its adapter reads the file as it is, and one that is
\* told to reload goes on to build.
LEMMA SupervisorKeeps ==
  ASSUME ReloadInv, NEW p \in Adapters, AdapterStep(p) \/ UnitStarts(p) PROVE ReloadInv'
<1>1. PICK a \in AdapterState :
        /\ adapter' = [adapter EXCEPT ![p] = a] /\ a.built.ok
        /\ a.phase \in {"build", "failed"} \/ a.hup
             \/ (bindingsFile.ok => a.built = bindingsFile)
  <2> DEFINE x == adapter'[p]
  <2>1. adapter[p] \in AdapterState /\ adapter[p].built.ok
    BY DEF ReloadInv, AdaptersShape
  <2>2. x \in AdapterState
    <3>1. CASE Build(p)
      <4>1. Loadable(bindingsFile) \in File
        BY LoadedIsAccepted DEF ReloadInv, ReloadShape
      <4>2. \E ph \in {"run", "failed"} :
               x = [adapter[p] EXCEPT !.phase = ph, !.built = Loadable(bindingsFile), !.owed = FALSE]
        BY <3>1 DEF Build, NewAdapter, ReloadInv, AdaptersShape
      <4> HIDE DEF x
      <4> QED BY <2>1, <4>1, <4>2 DEF AdapterState
    <3>2. CASE HupWakes(p)
      BY <3>2, <2>1 DEF HupWakes, AdapterState, ReloadInv, AdaptersShape
    <3>3. CASE Stopped(p)
      BY <3>3, <2>1 DEF Stopped, AdapterState, ReloadInv, AdaptersShape
    <3>4. CASE UnitStarts(p)
      BY <3>4, <2>1 DEF UnitStarts, AdapterState, ReloadInv, AdaptersShape
    <3> QED BY <3>1, <3>2, <3>3, <3>4 DEF AdapterStep
  <2>3. adapter' = [adapter EXCEPT ![p] = x]
    BY DEF AdapterStep, Build, HupWakes, Stopped, UnitStarts, ReloadInv, AdaptersShape
  <2>4. x.built.ok
    BY <2>1, LoadedIsAccepted DEF AdapterStep, Build, HupWakes, Stopped, UnitStarts, NewAdapter, ReloadInv,
       ReloadShape, AdaptersShape, AdapterState
  <2>5. \/ x.phase \in {"build", "failed"} \/ x.hup
        \/ (bindingsFile.ok => x.built = bindingsFile)
    BY <2>1, LoadedIsAccepted DEF AdapterStep, Build, HupWakes, Stopped, UnitStarts, NewAdapter, ReloadInv,
       ReloadShape, AdaptersShape, AdapterState
  <2> QED BY <2>2, <2>3, <2>4, <2>5
<1>2. UNCHANGED <<bindingsFile, thresholdsFile, edits, backend, service, script, signalled, undisturbed>>
      /\ starts' \in Int
  BY DEF AdapterStep, Build, HupWakes, Stopped, UnitStarts, files, ReloadInv, ReloadShape
<1>3. ReloadShape'
  BY <1>2 DEF ReloadInv, ReloadShape
<1>4. AdaptersShape'
  BY <1>1 DEF ReloadInv, AdaptersShape
<1>5. ScriptReached'
  <2>1. bindingsFile.ok => \A q \in Adapters : Heeds(q) => Heeds(q)'
    BY <1>1, <1>2 DEF Heeds, ReloadInv, AdaptersShape
  <2> QED BY <1>2, <2>1 DEF ReloadInv, ReloadShape, ScriptReached
<1> QED BY <1>3, <1>4, <1>5 DEF ReloadInv

\* The script goes from the backend to the service to the adapters, and each is
\* told before the script goes on.
LEMMA ScriptKeeps ==
  ASSUME ReloadInv, Validate \/ Post \/ SignalService \/ ScriptDone PROVE ReloadInv'
<1>1. /\ backend' \in [bindings : File, thresholds : File]
      /\ backend'.bindings.ok /\ backend'.thresholds.ok
      /\ backend'.bindings = Empty \/ backend'.bindings.edit # 0
  BY DEF Validate, Post, SignalService, ScriptDone, Reloaded, ReloadInv, ReloadShape
<1>2. service' \in File /\ service'.ok
  BY DEF Validate, Post, SignalService, ScriptDone, ServiceReloaded, ReloadInv, ReloadShape
<1>3. UNCHANGED <<bindingsFile, thresholdsFile, edits, adapter, starts>>
      /\ signalled' \subseteq Adapters /\ undisturbed' \in BOOLEAN
  BY DEF Validate, Post, SignalService, ScriptDone, files, ReloadInv, ReloadShape
<1>4. ReloadShape' /\ AdaptersShape'
  BY <1>1, <1>2, <1>3 DEF ReloadInv, ReloadShape, AdaptersShape
<1>5. \A p \in Adapters : Heeds(p) => Heeds(p)'
  BY <1>3 DEF Heeds
<1>6. ScriptReached'
  <2>1. CASE Validate
    BY <2>1 DEF Validate, ScriptReached
  <2>2. CASE Post
    BY <2>2, <1>3 DEF Post, Reloaded, ScriptReached, ReloadInv
  <2>3. CASE SignalService
    BY <2>3, <1>3, <1>5 DEF SignalService, ServiceReloaded, ReloadInv, ScriptReached, ReloadShape, files, Heeds
  <2>4. CASE ScriptDone
    BY <2>4, <1>3, <1>5 DEF ScriptDone, ReloadInv, ScriptReached, ReloadShape, files
  <2> QED BY <2>1, <2>2, <2>3, <2>4
<1> QED BY <1>4, <1>6 DEF ReloadInv

\* A signalled adapter heeds the signal, for one that has failed reads the file
\* when its unit is started again.
LEMMA SignalKeeps ==
  ASSUME ReloadInv, NEW p \in Adapters, SignalAdapter(p) PROVE ReloadInv'
<1>1. adapter[p] \in AdapterState /\ adapter[p].built.ok
  BY DEF ReloadInv, AdaptersShape
<1>2. PICK a \in AdapterState :
        /\ adapter' = [adapter EXCEPT ![p] = a]
        /\ a.built = adapter[p].built /\ a.phase = adapter[p].phase
        /\ adapter[p].hup => a.hup
        /\ a.phase = "failed" \/ a.hup
  <2>1. adapter'[p] \in AdapterState
    BY <1>1 DEF SignalAdapter, AdapterState, ReloadInv, AdaptersShape
  <2> QED BY <1>1, <2>1 DEF SignalAdapter, AdapterState, ReloadInv, AdaptersShape
<1>3. UNCHANGED <<bindingsFile, thresholdsFile, edits, backend, service, script, undisturbed, starts>>
      /\ signalled' = signalled \cup {p}
  BY DEF SignalAdapter, files
<1>4. ReloadShape'
  BY <1>3 DEF ReloadInv, ReloadShape
<1>5. AdaptersShape'
  BY <1>1, <1>2 DEF ReloadInv, AdaptersShape
<1>6. ScriptReached'
  <2>1. \A q \in Adapters : q = p \/ Heeds(q) => Heeds(q)'
    BY <1>2, <1>3 DEF Heeds, ReloadInv, AdaptersShape
  <2>2. script = "adapters"
    BY DEF SignalAdapter
  <2> QED BY <1>3, <2>1, <2>2 DEF ReloadInv, ReloadShape, ScriptReached
<1> QED BY <1>4, <1>5, <1>6 DEF ReloadInv

LEMMA ReloadNextInv == ReloadInv /\ [ReloadNext]_reloadVars => ReloadInv'
<1> SUFFICES ASSUME ReloadInv, [ReloadNext]_reloadVars PROVE ReloadInv'
  OBVIOUS
<1>1. CASE UNCHANGED reloadVars
  BY <1>1 DEF reloadVars, ReloadInv, ReloadShape, AdaptersShape, ScriptReached, Heeds
<1>2. CASE ReloadNext
  BY <1>2, EditKeeps, StartsKeep, SupervisorKeeps, ScriptKeeps, SignalKeeps DEF ReloadNext
<1> QED BY <1>1, <1>2

\* The invariant of the reload.
THEOREM ReloadInvHolds == ReloadSpec => []ReloadInv
<1> QED BY ReloadInitInv, ReloadNextInv, PTL DEF ReloadSpec

\* ReloadTypeOK and DoneMeansAgreed: no process runs by a file that is not
\* accepted, and when reload-bindings.sh has ended and nobody has edited a file
\* meanwhile, the backend, the binding service and the adapters run by the same
\* files, or are about to.
THEOREM AllAreReloaded == ReloadSpec => [](ReloadTypeOK /\ DoneMeansAgreed)
<1>1. ReloadInv => ReloadTypeOK
  BY DEF ReloadInv, ReloadShape, AdaptersShape, ReloadTypeOK, AdapterState
<1>2. ReloadInv => DoneMeansAgreed
  BY DEF ReloadInv, ReloadShape, ScriptReached, DoneMeansAgreed, Heeds
<1> QED BY <1>1, <1>2, ReloadInvHolds, PTL

\* the step of ReloadIsAllOrNothing
BothOrNone ==
    backend' # backend /\ starts' = starts =>
        \/ backend' = [bindings |-> bindingsFile, thresholds |-> thresholdsFile]
        \/ backend.bindings = Empty /\ backend'.thresholds = backend.thresholds

\* ReloadIsAllOrNothing: the running backend changes its thresholds only together
\* with its bindings, and to what both files say; the bindings alone are loaded
\* only into a registry that has none.
THEOREM ReloadIsWhole == ReloadSpec => ReloadIsAllOrNothing
<1>1. ASSUME ReloadInv, [ReloadNext]_reloadVars PROVE [BothOrNone]_reloadVars
  <2> SUFFICES ASSUME ReloadNext, backend' # backend, starts' = starts PROVE BothOrNone
    BY <1>1 DEF BothOrNone
  <2>1. ~Edit /\ ~Validate /\ ~SignalService /\ ~ScriptDone
    BY DEF Edit, Validate, SignalService, ScriptDone
  <2>2. ~BackendStarts /\ ~ServiceStarts
    BY <1>1 DEF BackendStarts, ServiceStarts, ReloadInv, ReloadShape
  <2>3. \A p \in Adapters : ~AdapterStep(p) /\ ~UnitStarts(p) /\ ~SignalAdapter(p)
    BY DEF AdapterStep, Build, HupWakes, Stopped, UnitStarts, SignalAdapter
  <2>4. LoadOnDemand \/ Post
    BY <2>1, <2>2, <2>3 DEF ReloadNext
  <2> QED BY <1>1, <2>4 DEF LoadOnDemand, Post, Reloaded, BothOrNone, ReloadInv, ReloadShape
<1>2. BothOrNone <=> (backend' # backend /\ starts' = starts =>
        \/ backend' = [bindings |-> bindingsFile, thresholds |-> thresholdsFile]
        \/ backend.bindings = Empty /\ backend'.thresholds = backend.thresholds)
  BY DEF BothOrNone
<1> QED BY <1>1, <1>2, ReloadInvHolds, PTL DEF ReloadSpec, ReloadIsAllOrNothing

---------------------------------------------------------------------------
(***************************************************************************)
(* The digital twins                                                       *)
(***************************************************************************)

Entry == Protocols \cup {Absent}

\* Every registration is of a device that is known, or was before a restart, and
\* the newest one of a known device has its protocol.
RegistrationsTell ==
    \A i \in 1..Len(regs) :
        /\ known[regs[i].device] # Absent \/ regs[i].device \in earlier
        /\ known[regs[i].device] # Absent /\ (\A j \in 1..Len(regs) : regs[j].device = regs[i].device => j <= i)
              => regs[i].protocol = known[regs[i].device]

\* A graph is what the last PUT to arrive has made it.
GraphsTell ==
    \A d \in Devices : graph[d] # Absent =>
        /\ lastPut[d] \in 1..Len(regs)
        /\ regs[lastPut[d]].device = d /\ regs[lastPut[d]].protocol = graph[d]

\* Only a device that was silent when it was listed is about to lose its graph.
LeavingAreSilent ==
    /\ leaving \subseteq silent /\ deletes \subseteq silent
    /\ \A d \in Devices : age[d] > Cutoff => d \in silent

TwinInv == TwinTypeOK /\ RegistrationsTell /\ GraphsTell /\ LeavingAreSilent

LEMMA SeqFacts ==
    ASSUME NEW S
    PROVE  /\ \A s \in Seq(S) : Len(s) \in Nat /\ \A i \in 1..Len(s) : s[i] \in S
           /\ \A e \in S : \A s \in Seq(S) :
                 /\ Append(s, e) \in Seq(S) /\ Len(Append(s, e)) = Len(s) + 1
                 /\ Append(s, e)[Len(s) + 1] = e
                 /\ \A i \in 1..Len(s) : Append(s, e)[i] = s[i]
OBVIOUS

LEMMA TwinTypes ==
    ASSUME TwinTypeOK
    PROVE  /\ known \in [Devices -> Entry] /\ age \in [Devices -> Ages]
           /\ regs \in Seq(Registration) /\ Len(regs) \in Nat
           /\ \A i \in 1..Len(regs) : regs[i] \in Registration /\ regs[i].device \in Devices
                                      /\ regs[i].protocol \in Protocols
<1>1. known \in [Devices -> Entry] /\ age \in [Devices -> Ages] /\ regs \in Seq(Registration)
  BY DEF TwinTypeOK, Entry
<1>2. Len(regs) \in Nat /\ \A i \in 1..Len(regs) : regs[i] \in Registration
  BY <1>1, SeqFacts
<1>3. \A r \in Registration : r.device \in Devices /\ r.protocol \in Protocols
  BY DEF Registration
<1> QED BY <1>1, <1>2, <1>3

\* What a step that leaves the registry and the device and protocol of every
\* registration alone keeps.
LEMMA SameRegs ==
    ASSUME TwinInv, Len(regs') = Len(regs), UNCHANGED <<known, earlier>>,
           \A i \in 1..Len(regs) : regs'[i].device = regs[i].device /\ regs'[i].protocol = regs[i].protocol
    PROVE  /\ RegistrationsTell'
           /\ UNCHANGED <<graph, lastPut>> => GraphsTell'
BY DEF TwinInv, RegistrationsTell, GraphsTell

LEMMA StateSet ==
    ASSUME TwinInv, NEW i \in 1..Len(regs), NEW s \in {"scheduled", "sent", "stored", "gone"}, SetState(i, s)
    PROVE  /\ regs' \in Seq(Registration) /\ Len(regs') = Len(regs)
           /\ \A j \in 1..Len(regs) : regs'[j].device = regs[j].device /\ regs'[j].protocol = regs[j].protocol
<1>1. regs \in Seq(Registration) /\ \A r \in Registration : [r EXCEPT !.state = s] \in Registration
         /\ [r EXCEPT !.state = s].device = r.device /\ [r EXCEPT !.state = s].protocol = r.protocol
  BY DEF TwinInv, TwinTypeOK, Registration
<1>2. regs' = [regs EXCEPT ![i] = [regs[i] EXCEPT !.state = s]]
  BY DEF SetState
<1>3. regs[i] \in Registration
  BY TwinTypes DEF TwinInv
<1> DEFINE r == [regs[i] EXCEPT !.state = s]
<1>4. r \in Registration /\ r.device = regs[i].device /\ r.protocol = regs[i].protocol
  BY <1>1, <1>3
<1> HIDE DEF r
<1>5. regs' = [regs EXCEPT ![i] = r]
  BY <1>2 DEF r
<1>6. regs' \in Seq(Registration) /\ Len(regs') = Len(regs)
  BY <1>1, <1>4, <1>5
<1> QED BY <1>1, <1>4, <1>5, <1>6

LEMMA ReportKeeps ==
    ASSUME TwinInv, NEW d \in Devices, NEW p \in Protocols, Report(d, p) PROVE TwinInv'
<1>1. /\ known' = [known EXCEPT ![d] = p] /\ age' = [age EXCEPT ![d] = 0]
      /\ silent' = (IF d \in leaving \cup deletes THEN silent ELSE silent \ {d})
      /\ UNCHANGED <<nextPass, leaving, deletes, graph, lastPut, earlier, restarts>>
  BY DEF Report, Seen, loop, fuseki
<1>2. Cutoff \in Nat /\ Absent \notin Protocols /\ MaxRegs \in Nat
  BY TwinAssumption
<1>3. known' \in [Devices -> Entry] /\ age' \in [Devices -> Ages]
  <2>1. p \in Entry /\ 0 \in Ages
    BY <1>2 DEF Entry, Ages
  <2> QED BY <1>1, <2>1, TwinTypes DEF TwinInv
<1>4. LeavingAreSilent' /\ silent' \subseteq Devices
  <2>1. \A e \in Devices : age'[e] = 0 \/ (e # d /\ age'[e] = age[e])
    BY <1>1, TwinTypes DEF TwinInv
  <2>2. \A e \in silent : e # d => e \in silent'
    BY <1>1
  <2>3. leaving \subseteq silent' /\ deletes \subseteq silent'
    BY <1>1 DEF TwinInv, LeavingAreSilent
  <2>4. ~(0 > Cutoff)
    BY <1>2
  <2>5. \A e \in Devices : age'[e] > Cutoff => e \in silent'
    BY <2>1, <2>2, <2>4 DEF TwinInv, LeavingAreSilent
  <2> QED BY <1>1, <2>3, <2>5 DEF TwinInv, LeavingAreSilent, TwinTypeOK
<1>5. known'[d] = p /\ p # Absent /\ \A e \in Devices : e # d => known'[e] = known[e]
  BY <1>1, <1>2, TwinTypes DEF TwinInv
<1>6. CASE ~Noticed(d, p)
  <2>1. regs' = regs /\ known[d] = p
    BY <1>6 DEF Report, Noticed
  <2>2. known' = known
    BY <1>1, <2>1, TwinTypes DEF TwinInv
  <2> QED BY <1>1, <1>3, <1>4, <2>1, <2>2, TwinTypes
          DEF TwinInv, TwinTypeOK, Entry, RegistrationsTell, GraphsTell
<1>7. CASE Noticed(d, p)
  <2>1. PICK s \in {"scheduled", "gone"} : regs' = Append(regs, [device |-> d, protocol |-> p, state |-> s])
    BY <1>7 DEF Report
  <2> DEFINE r == [device |-> d, protocol |-> p, state |-> s]
             n == Len(regs)
  <2>2. r \in Registration /\ r.device = d /\ r.protocol = p
    BY DEF Registration
  <2> HIDE DEF r
  <2>3. n < MaxRegs /\ n \in Nat /\ regs \in Seq(Registration)
    BY <1>7, TwinTypes DEF Report, TwinInv
  <2>4. /\ regs' \in Seq(Registration) /\ Len(regs') = n + 1 /\ regs'[n + 1] = r
        /\ \A i \in 1..n : regs'[i] = regs[i]
    BY <2>1, <2>2, <2>3, SeqFacts DEF r
  <2>5. \A i \in 1..n + 1 : i = n + 1 \/ (i \in 1..n /\ i < n + 1)
    BY <2>3
  <2>6. TwinTypeOK'
    <3>1. Len(regs') <= MaxRegs /\ \A i \in 0..n : i \in 0..n + 1
      BY <1>2, <2>3, <2>4
    <3>2. lastPut' \in [Devices -> 0..Len(regs')]
      BY <1>1, <2>4, <3>1 DEF TwinInv, TwinTypeOK
    <3> QED BY <1>1, <1>3, <1>4, <2>4, <3>1, <3>2 DEF TwinInv, TwinTypeOK, Entry
  <2>7. RegistrationsTell'
    <3> SUFFICES ASSUME NEW i \in 1..n + 1
                 PROVE  /\ known'[regs'[i].device] # Absent \/ regs'[i].device \in earlier
                        /\ known'[regs'[i].device] # Absent /\ (\A j \in 1..n + 1 : regs'[j].device = regs'[i].device => j <= i)
                              => regs'[i].protocol = known'[regs'[i].device]
      BY <1>1, <2>4 DEF RegistrationsTell
    <3>1. CASE i = n + 1
      BY <1>5, <2>2, <2>4, <3>1
    <3>2. CASE i \in 1..n /\ i < n + 1
      <4>1. regs'[i] = regs[i] /\ regs[i].device \in Devices
        BY <2>4, <3>2, TwinTypes DEF TwinInv
      <4>2. CASE regs[i].device = d
        <5>1. n + 1 \in 1..n + 1 /\ ~(n + 1 <= i) /\ regs'[n + 1].device = d
          BY <2>2, <2>3, <2>4, <3>2
        <5> QED BY <1>5, <4>1, <4>2, <5>1
      <4>3. CASE regs[i].device # d
        <5>1. known'[regs[i].device] = known[regs[i].device]
          BY <1>5, <4>1, <4>3
        <5>2. \A j \in 1..n : j \in 1..n + 1 /\ regs'[j] = regs[j]
          BY <2>3, <2>4
        <5> QED BY <3>2, <4>1, <5>1, <5>2 DEF TwinInv, RegistrationsTell
      <4> QED BY <4>2, <4>3
    <3> QED BY <2>5, <3>1, <3>2
  <2>8. GraphsTell'
    <3>1. \A i \in 1..n : i \in 1..n + 1
      BY <2>3
    <3> QED BY <1>1, <2>4, <3>1 DEF TwinInv, GraphsTell
  <2> QED BY <1>4, <2>6, <2>7, <2>8 DEF TwinInv
<1> QED BY <1>6, <1>7

LEMMA TasksKeep ==
    ASSUME TwinInv, NEW i \in 1..Len(regs), Send(i) \/ PutFails(i) PROVE TwinInv'
<1>1. (SetState(i, "sent") \/ SetState(i, "gone"))
      /\ UNCHANGED <<known, age, nextPass, leaving, deletes, graph, lastPut, earlier, silent, restarts>>
  BY DEF Send, PutFails, registry, loop, fuseki, past
<1>2. /\ regs' \in Seq(Registration) /\ Len(regs') = Len(regs)
      /\ \A j \in 1..Len(regs) : regs'[j].device = regs[j].device /\ regs'[j].protocol = regs[j].protocol
  BY <1>1, StateSet
<1>3. RegistrationsTell' /\ GraphsTell'
  BY <1>1, <1>2, SameRegs
<1> QED BY <1>1, <1>2, <1>3 DEF TwinInv, TwinTypeOK, LeavingAreSilent

LEMMA PutArrivesKeeps ==
    ASSUME TwinInv, NEW i \in 1..Len(regs), PutArrives(i) PROVE TwinInv'
<1> DEFINE d == regs[i].device
           p == regs[i].protocol
<1>1. /\ SetState(i, "stored") /\ graph' = [graph EXCEPT ![d] = p] /\ lastPut' = [lastPut EXCEPT ![d] = i]
      /\ UNCHANGED <<known, age, nextPass, leaving, deletes, earlier, silent, restarts>>
  BY DEF PutArrives, registry, loop, past
<1>2. /\ regs' \in Seq(Registration) /\ Len(regs') = Len(regs)
      /\ \A j \in 1..Len(regs) : regs'[j].device = regs[j].device /\ regs'[j].protocol = regs[j].protocol
  BY <1>1, StateSet
<1>3. RegistrationsTell'
  BY <1>1, <1>2, SameRegs
<1>4. d \in Devices /\ p \in Protocols /\ Len(regs) \in Nat /\ i \in 0..Len(regs)
  BY TwinTypes DEF TwinInv
<1> HIDE DEF d, p
<1>5. graph' \in [Devices -> Entry] /\ lastPut' \in [Devices -> 0..Len(regs)]
  BY <1>1, <1>4 DEF TwinInv, TwinTypeOK, Entry
<1>6. GraphsTell'
  <2> SUFFICES ASSUME NEW e \in Devices, graph'[e] # Absent
               PROVE  /\ lastPut'[e] \in 1..Len(regs)
                      /\ regs'[lastPut'[e]].device = e /\ regs'[lastPut'[e]].protocol = graph'[e]
    BY <1>2 DEF GraphsTell
  <2>1. CASE e = d
    <3>1. graph'[e] = p /\ lastPut'[e] = i
      BY <1>1, <1>4, <2>1 DEF TwinInv, TwinTypeOK
    <3> QED BY <1>2, <2>1, <3>1 DEF d, p
  <2>2. CASE e # d
    <3>1. graph'[e] = graph[e] /\ lastPut'[e] = lastPut[e]
      BY <1>1, <1>4, <2>2 DEF TwinInv, TwinTypeOK
    <3> QED BY <1>2, <3>1 DEF TwinInv, GraphsTell
  <2> QED BY <2>1, <2>2
<1> QED BY <1>1, <1>2, <1>3, <1>5, <1>6 DEF TwinInv, TwinTypeOK, LeavingAreSilent, Entry

LEMMA LoopKeeps ==
    ASSUME TwinInv, LoopWakes \/ \E d \in Devices : Retire(d) PROVE TwinInv'
<1>1. UNCHANGED <<known, age, regs, graph, lastPut, earlier, silent, restarts>>
  BY DEF LoopWakes, Retire, registry, fuseki, past
<1>2. RegistrationsTell' /\ GraphsTell'
  BY <1>1 DEF TwinInv, RegistrationsTell, GraphsTell
<1>3. nextPass' \in BOOLEAN /\ leaving' \subseteq Devices /\ deletes' \subseteq Devices
  BY DEF LoopWakes, Retire, fuseki, TwinInv, TwinTypeOK
<1>4. LeavingAreSilent'
  BY <1>1 DEF TwinInv, LeavingAreSilent, LoopWakes, Retire, Stale, fuseki
<1> QED BY <1>1, <1>2, <1>3, <1>4 DEF TwinInv, TwinTypeOK

LEMMA DeleteKeeps ==
    ASSUME TwinInv, NEW d \in Devices, Delete(d) PROVE TwinInv'
<1>1. UNCHANGED <<known, age, regs, nextPass, leaving, lastPut, earlier, restarts>>
      /\ deletes' = deletes \ {d} /\ graph' \in {graph, [graph EXCEPT ![d] = Absent]}
      /\ silent' = IF age[d] > Cutoff \/ d \in leaving THEN silent ELSE silent \ {d}
  BY DEF Delete, DeleteArrives, DeleteFails, DeleteEnds, registry, loop
<1>2. graph' \in [Devices -> Entry] /\ \A e \in Devices : graph'[e] # Absent => graph'[e] = graph[e]
  BY <1>1 DEF TwinInv, TwinTypeOK, Entry
<1>3. RegistrationsTell' /\ GraphsTell'
  BY <1>1, <1>2 DEF TwinInv, RegistrationsTell, GraphsTell
<1>4. LeavingAreSilent' /\ silent' \subseteq Devices
  BY <1>1 DEF TwinInv, LeavingAreSilent, TwinTypeOK
<1> QED BY <1>1, <1>2, <1>3, <1>4 DEF TwinInv, TwinTypeOK, Entry

LEMMA TimeKeeps ==
    ASSUME TwinInv, Tick PROVE TwinInv'
<1>1. /\ age' = [d \in Devices |-> IF known[d] # Absent /\ age[d] <= Cutoff THEN age[d] + 1 ELSE age[d]]
      /\ nextPass' \in BOOLEAN /\ silent' = silent \cup {d \in Devices : age'[d] > Cutoff}
      /\ UNCHANGED <<known, regs, leaving, deletes, graph, lastPut, earlier, restarts>>
  BY DEF Tick, fuseki
<1>2. age' \in [Devices -> Ages]
  <2>1. \A d \in Devices : age[d] \in Ages
    BY TwinTypes DEF TwinInv
  <2>2. \A a \in Ages : a <= Cutoff => a + 1 \in Ages
    BY TwinAssumption DEF Ages
  <2> QED BY <1>1, <2>1, <2>2
<1>3. LeavingAreSilent' /\ silent' \subseteq Devices
  BY <1>1 DEF TwinInv, LeavingAreSilent, TwinTypeOK
<1> QED BY <1>1, <1>2, <1>3 DEF TwinInv, TwinTypeOK, RegistrationsTell, GraphsTell

LEMMA RestartKeeps ==
    ASSUME TwinInv, Restart PROVE TwinInv'
<1>1. /\ restarts < MaxRestarts /\ restarts' = restarts + 1
      /\ earlier' = earlier \cup {d \in Devices : known[d] # Absent}
      /\ known' = [d \in Devices |-> Absent] /\ age' = [d \in Devices |-> 0]
      /\ regs' = [i \in 1..Len(regs) |->
                     IF regs[i].state = "scheduled" THEN [regs[i] EXCEPT !.state = "gone"] ELSE regs[i]]
      /\ nextPass' = FALSE /\ leaving' = {} /\ silent' = silent \cap deletes
      /\ UNCHANGED <<deletes, graph, lastPut>>
  BY DEF Restart, fuseki
<1>2. Cutoff \in Nat /\ MaxRestarts \in Nat
  BY TwinAssumption
<1>3. /\ regs' \in Seq(Registration) /\ Len(regs') = Len(regs)
      /\ \A i \in 1..Len(regs) : regs'[i].device = regs[i].device /\ regs'[i].protocol = regs[i].protocol
  <2>1. \A r \in Registration : [r EXCEPT !.state = "gone"] \in Registration
           /\ [r EXCEPT !.state = "gone"].device = r.device /\ [r EXCEPT !.state = "gone"].protocol = r.protocol
    BY DEF Registration
  <2>2. \A i \in 1..Len(regs) : regs[i] \in Registration
    BY TwinTypes DEF TwinInv
  <2>3. \A i \in 1..Len(regs) : /\ regs'[i] \in Registration
                                /\ regs'[i].device = regs[i].device /\ regs'[i].protocol = regs[i].protocol
    BY <1>1, <2>1, <2>2
  <2>4. Len(regs) \in Nat
    BY TwinTypes DEF TwinInv
  <2>5. regs' \in [1..Len(regs) -> Registration]
    BY <1>1, <2>3
  <2> QED BY <2>3, <2>4, <2>5
<1>4. restarts' \in 0..MaxRestarts /\ 0 \in Ages /\ ~(0 > Cutoff)
  BY <1>1, <1>2 DEF TwinInv, TwinTypeOK, Ages
<1>5. RegistrationsTell'
  <2> SUFFICES ASSUME NEW i \in 1..Len(regs)
               PROVE  regs'[i].device \in earlier' /\ known'[regs'[i].device] = Absent
    BY <1>3 DEF RegistrationsTell
  <2>1. regs[i].device \in Devices
    BY TwinTypes DEF TwinInv
  <2> QED BY <1>1, <1>3, <2>1 DEF TwinInv, RegistrationsTell
<1>6. GraphsTell'
  BY <1>1, <1>3 DEF TwinInv, GraphsTell
<1>7. LeavingAreSilent'
  BY <1>1, <1>4 DEF TwinInv, LeavingAreSilent
<1> QED BY <1>1, <1>3, <1>4, <1>5, <1>6, <1>7 DEF TwinInv, TwinTypeOK

LEMMA TwinInitHolds == ASSUME TwinInit PROVE TwinInv
<1>1. << >> \in Seq(Registration) /\ Len(<< >>) = 0 /\ 1..0 = {}
  OBVIOUS
<1>2. 0 \in Ages /\ ~(0 > Cutoff) /\ 0 \in 0..MaxRestarts /\ 0 <= MaxRegs /\ 0 \in 0..0
  BY TwinAssumption DEF Ages
<1>3. TwinTypeOK
  BY <1>1, <1>2 DEF TwinInit, TwinTypeOK
<1> QED BY <1>1, <1>2, <1>3 DEF TwinInit, TwinInv, RegistrationsTell, GraphsTell, LeavingAreSilent

\* Every graph is the work of a registration, every registration of a device that
\* is known or was, and only silent devices are about to lose theirs.
THEOREM TwinInvHolds == TwinSpec => []TwinInv
<1>1. TwinInit => TwinInv
  BY TwinInitHolds
<1>2. TwinInv /\ [TwinNext]_twinVars => TwinInv'
  <2> SUFFICES ASSUME TwinInv, [TwinNext]_twinVars PROVE TwinInv'
    OBVIOUS
  <2>1. CASE UNCHANGED twinVars
    BY <2>1 DEF twinVars, registry, loop, fuseki, past, TwinInv, TwinTypeOK, RegistrationsTell,
                GraphsTell, LeavingAreSilent
  <2>2. CASE TwinNext
    BY <2>2, ReportKeeps, TasksKeep, PutArrivesKeeps, LoopKeeps, DeleteKeeps, TimeKeeps, RestartKeeps
       DEF TwinNext, Put
  <2> QED BY <2>1, <2>2
<1> QED BY <1>1, <1>2, PTL DEF TwinSpec

\* A graph that no registry entry stands for is from before a restart, and one that
\* shows another protocol was not written by the newest registration.
THEOREM TwinsAreKnown == TwinSpec => [](TwinTypeOK /\ OrphansAreOld /\ ProtocolFollows)
<1>1. TwinInv => TwinTypeOK /\ OrphansAreOld /\ ProtocolFollows
  <2> SUFFICES ASSUME TwinInv PROVE OrphansAreOld /\ ProtocolFollows
    BY DEF TwinInv
  <2>1. OrphansAreOld
    BY DEF TwinInv, OrphansAreOld, RegistrationsTell, GraphsTell
  <2>2. ProtocolFollows
    BY DEF TwinInv, ProtocolFollows, Newest, RegistrationsTell, GraphsTell
  <2> QED BY <2>1, <2>2
<1> QED BY <1>1, TwinInvHolds, PTL

RemovalStep == \A d \in Devices : graph[d] # Absent /\ graph'[d] = Absent => d \in silent

\* watch_loop takes the graph of a device only because it had been silent when the
\* loop listed it, and never for a silence that a report and an earlier retirement ended.
THEOREM SilentAreRemoved == TwinSpec => RemovedWasSilent
<1>1. TwinInv /\ [TwinNext]_twinVars => [RemovalStep]_twinVars
  <2> SUFFICES ASSUME TwinInv, TwinNext, NEW d \in Devices, graph[d] # Absent, graph'[d] = Absent
               PROVE  d \in silent
    BY DEF RemovalStep
  <2>1. \E e \in Devices : e \in deletes /\ graph' = [graph EXCEPT ![e] = Absent]
    <3>1. ASSUME NEW i \in 1..Len(regs), PutArrives(i) PROVE FALSE
      <4>1. regs[i].device \in Devices /\ regs[i].protocol \in Protocols /\ Absent \notin Protocols
        BY TwinTypes, TwinAssumption DEF TwinInv
      <4> QED BY <3>1, <4>1 DEF PutArrives, TwinInv, TwinTypeOK
    <3>2. graph' = graph \/ \E e \in Devices : DeleteArrives(e)
      BY <3>1 DEF TwinNext, Report, Seen, Retire, Delete, DeleteFails, DeleteEnds, Send, Put, PutFails, LoopWakes, Tick,
                  Restart, fuseki
    <3> QED BY <3>2 DEF DeleteArrives, DeleteEnds
  <2> QED BY <2>1 DEF TwinInv, TwinTypeOK, LeavingAreSilent
<1>2. RemovalStep <=> (\A d \in Devices : graph[d] # Absent /\ graph'[d] = Absent => d \in silent)
  BY DEF RemovalStep
<1> QED BY <1>1, <1>2, TwinInvHolds, PTL DEF TwinSpec, RemovedWasSilent

---------------------------------------------------------------------------
(***************************************************************************)
(* The ring of the sensor node, for any capacity, any number of readings   *)
(* backfilled in a cycle, and any number of readings and restarts.  The    *)
(* index arithmetic is dealt with once, in the lemmas that tell what a     *)
(* push and a pop do to the content of the ring; what follows speaks of    *)
(* sequences only.                                                         *)
(***************************************************************************)

Rings == [slots : [0..(Capacity - 1) -> 0..MaxReadings],
          head : 0..(Capacity - 1), count : 0..Capacity]

---------------------------------------------------------------------------
(* The slots *)

\* A number below twice the capacity is reduced by one subtraction.
LEMMA ReducedOnce ==
    ASSUME NEW c \in Nat \ {0}, NEW x \in 0..(2 * c - 1)
    PROVE  x % c = IF x < c THEN x ELSE x - c
<1>1. CASE x < c
  BY <1>1
<1>2. CASE x >= c
  <2>1. x = c * 1 + (x - c) /\ x - c \in 0..(c - 1)
    BY <1>2
  <2> QED BY <1>2, <2>1
<1> QED BY <1>1, <1>2

\* A function on 1..n is a sequence of length n.
LEMMA FunctionIsSequence ==
    ASSUME NEW S, NEW n \in Nat, NEW f \in [1..n -> S]
    PROVE  f \in Seq(S) /\ Len(f) = n
OBVIOUS

\* The slot of the i-th of n readings that wait before head.
Slot(head, n, i) ==
    LET x == head + Capacity - n + i - 1 IN IF x < Capacity THEN x ELSE x - Capacity

SlotOf(b, i) == Slot(b.head, b.count, i)

\* A push moves head and leaves the others' slots; the new reading is in none of theirs.
LEMMA SlotsOfPush ==
    ASSUME Capacity \in Nat \ {0},
           NEW head \in 0..(Capacity - 1), NEW n \in 0..(Capacity - 1)
    PROVE  LET next == IF head + 1 < Capacity THEN head + 1 ELSE 0 IN
           /\ next = (head + 1) % Capacity /\ next \in 0..(Capacity - 1)
           /\ \A i \in 1..n : Slot(next, n + 1, i) = Slot(head, n, i) /\ Slot(head, n, i) # head
           /\ Slot(next, n + 1, n + 1) = head
<1>1. head + 1 \in 0..(2 * Capacity - 1)
  OBVIOUS
<1>2. (head + 1) % Capacity = IF head + 1 < Capacity THEN head + 1 ELSE (head + 1) - Capacity
  BY <1>1, ReducedOnce
<1>3. (head + 1) % Capacity = IF head + 1 < Capacity THEN head + 1 ELSE 0
  BY <1>2
<1>4. ASSUME NEW i \in 1..n
      PROVE  Slot(head, n, i) # head
  BY DEF Slot
<1>5. CASE head + 1 < Capacity
  BY <1>3, <1>4, <1>5 DEF Slot
<1>6. CASE head + 1 = Capacity
  BY <1>3, <1>4, <1>6 DEF Slot
<1> QED BY <1>5, <1>6

LEMMA ContentBySlot ==
    ASSUME NEW b \in Rings
    PROVE  /\ Content(b) \in Seq(0..MaxReadings) /\ Len(Content(b)) = b.count
           /\ \A i \in 1..b.count :
                 SlotOf(b, i) \in 0..(Capacity - 1) /\ Content(b)[i] = b.slots[SlotOf(b, i)]
           /\ b.count > 0 => Oldest(b) = Content(b)[1]
<1>0. Capacity \in Nat \ {0} /\ MaxReadings \in Nat
  BY BufferAssumption
<1>1. /\ b.head \in 0..(Capacity - 1) /\ b.count \in 0..Capacity
      /\ b.slots \in [0..(Capacity - 1) -> 0..MaxReadings]
  BY DEF Rings
<1>2. ASSUME NEW i \in 1..b.count
      PROVE  /\ (b.head + Capacity - b.count + i - 1) % Capacity = SlotOf(b, i)
             /\ SlotOf(b, i) \in 0..(Capacity - 1)
  <2>1. b.head + Capacity - b.count + i - 1 \in 0..(2 * Capacity - 1)
    BY <1>0, <1>1
  <2>2. (b.head + Capacity - b.count + i - 1) % Capacity = SlotOf(b, i)
    BY <2>1, <1>0, ReducedOnce DEF SlotOf, Slot
  <2>3. SlotOf(b, i) \in 0..(Capacity - 1)
    BY <2>1, <1>0, <1>1 DEF SlotOf, Slot
  <2> QED BY <2>2, <2>3
<1>3. Content(b) \in [1..b.count -> 0..MaxReadings]
  BY <1>1, <1>2 DEF Content
<1>4. \A i \in 1..b.count : Content(b)[i] = b.slots[SlotOf(b, i)]
  BY <1>2 DEF Content
<1>5. b.count > 0 => Oldest(b) = Content(b)[1]
  <2> SUFFICES ASSUME b.count > 0 PROVE Oldest(b) = Content(b)[1]
    OBVIOUS
  <2>1. 1 \in 1..b.count /\ b.head + Capacity - b.count + 1 - 1 = b.head + Capacity - b.count
    BY <1>0, <1>1
  <2> QED BY <2>1 DEF Oldest, TailSlot, Content
<1>6. Content(b) \in Seq(0..MaxReadings) /\ Len(Content(b)) = b.count
  <2>1. b.count \in Nat
    BY <1>0, <1>1
  <2> QED BY <2>1, <1>3, FunctionIsSequence
<1> QED BY <1>2, <1>4, <1>5, <1>6

\* A pop takes the first of what waits.
LEMMA ContentOfPop ==
    ASSUME NEW b \in Rings, b.count > 0
    PROVE  /\ Popped(b) \in Rings /\ Popped(b).count = b.count - 1
           /\ Content(b) # <<>>
           /\ Content(Popped(b)) = Tail(Content(b)) /\ Head(Content(b)) = Oldest(b)
<1>0. Capacity \in Nat \ {0} /\ MaxReadings \in Nat
  BY BufferAssumption
<1>1. /\ Popped(b) \in Rings /\ Popped(b).count = b.count - 1
      /\ Popped(b).head = b.head /\ Popped(b).slots = b.slots
  BY <1>0 DEF Popped, Rings
<1>2. b.count \in 1..Capacity /\ b.head \in 0..(Capacity - 1)
  BY <1>0 DEF Rings
<1>3. \A i \in 1..(b.count - 1) : SlotOf(Popped(b), i) = SlotOf(b, i + 1)
  BY <1>0, <1>1, <1>2 DEF SlotOf, Slot
<1>4. \A i \in 1..(b.count - 1) : Content(Popped(b))[i] = Content(b)[i + 1]
  <2> SUFFICES ASSUME NEW i \in 1..(b.count - 1)
               PROVE  Content(Popped(b))[i] = Content(b)[i + 1]
    OBVIOUS
  <2>1. i \in 1..Popped(b).count /\ i + 1 \in 1..b.count
    BY <1>1, <1>2
  <2>2. Content(Popped(b))[i] = Popped(b).slots[SlotOf(Popped(b), i)]
    BY <2>1, <1>1, ContentBySlot
  <2>3. Content(b)[i + 1] = b.slots[SlotOf(b, i + 1)]
    BY <2>1, ContentBySlot
  <2> QED BY <2>2, <2>3, <1>1, <1>3
<1>5. /\ Content(b) \in Seq(0..MaxReadings) /\ Len(Content(b)) = b.count
      /\ Content(Popped(b)) \in Seq(0..MaxReadings) /\ Len(Content(Popped(b))) = b.count - 1
  BY <1>1, ContentBySlot
<1>6. Content(b) # <<>> /\ Head(Content(b)) = Oldest(b)
  BY <1>2, <1>5, ContentBySlot
<1>7. Content(Popped(b)) = Tail(Content(b))
  BY <1>2, <1>4, <1>5, <1>6
<1> QED BY <1>1, <1>6, <1>7

\* A push where there is room puts a reading behind what waits.
LEMMA ContentOfPush ==
    ASSUME NEW b \in Rings, b.count < Capacity, NEW r \in 0..MaxReadings
    PROVE  /\ Push(b, r) \in Rings /\ Push(b, r).count = b.count + 1
           /\ Content(Push(b, r)) = Append(Content(b), r)
<1>0. Capacity \in Nat \ {0} /\ MaxReadings \in Nat
  BY BufferAssumption
<1>1. /\ b.head \in 0..(Capacity - 1) /\ b.count \in 0..(Capacity - 1)
      /\ b.slots \in [0..(Capacity - 1) -> 0..MaxReadings]
  BY <1>0 DEF Rings
<1>2. LET next == IF b.head + 1 < Capacity THEN b.head + 1 ELSE 0 IN
      /\ next = (b.head + 1) % Capacity /\ next \in 0..(Capacity - 1)
      /\ \A i \in 1..b.count :
            /\ Slot(next, b.count + 1, i) = Slot(b.head, b.count, i)
            /\ Slot(b.head, b.count, i) # b.head
      /\ Slot(next, b.count + 1, b.count + 1) = b.head
  BY <1>0, <1>1, SlotsOfPush
<1>3. /\ Push(b, r).slots = [b.slots EXCEPT ![b.head] = r] /\ Push(b, r).count = b.count + 1
      /\ Push(b, r).head = IF b.head + 1 < Capacity THEN b.head + 1 ELSE 0
  BY <1>1, <1>2 DEF Push
<1>4. Push(b, r) \in Rings
  <2>1. Push(b, r).head \in 0..(Capacity - 1) /\ Push(b, r).count \in 0..Capacity
    BY <1>0, <1>1, <1>3, SMTT(20)
  <2>2. Push(b, r).slots \in [0..(Capacity - 1) -> 0..MaxReadings]
    BY <1>1, <1>3
  <2> QED BY <2>1, <2>2 DEF Push, Rings
<1>5. \A i \in 1..b.count :
         SlotOf(Push(b, r), i) = SlotOf(b, i) /\ SlotOf(b, i) # b.head
  BY <1>2, <1>3 DEF SlotOf
<1>6. SlotOf(Push(b, r), b.count + 1) = b.head
  BY <1>2, <1>3 DEF SlotOf
<1>7. /\ Content(b) \in Seq(0..MaxReadings) /\ Len(Content(b)) = b.count
      /\ Content(Push(b, r)) \in Seq(0..MaxReadings) /\ Len(Content(Push(b, r))) = b.count + 1
  BY <1>3, <1>4, ContentBySlot
<1>8. \A i \in 1..b.count : Content(Push(b, r))[i] = Content(b)[i]
  <2> SUFFICES ASSUME NEW i \in 1..b.count PROVE Content(Push(b, r))[i] = Content(b)[i]
    OBVIOUS
  <2>1. i \in 1..Push(b, r).count
    BY <1>1, <1>3
  <2>2. Content(Push(b, r))[i] = Push(b, r).slots[SlotOf(b, i)]
    BY <2>1, <1>4, <1>5, ContentBySlot
  <2>3. SlotOf(b, i) \in 0..(Capacity - 1) /\ Content(b)[i] = b.slots[SlotOf(b, i)]
    BY ContentBySlot
  <2> QED BY <2>2, <2>3, <1>1, <1>3, <1>5
<1>9. Content(Push(b, r))[b.count + 1] = r
  <2>1. b.count + 1 \in 1..Push(b, r).count
    BY <1>1, <1>3
  <2>2. Content(Push(b, r))[b.count + 1] = Push(b, r).slots[b.head]
    BY <2>1, <1>4, <1>6, ContentBySlot
  <2> QED BY <2>2, <1>1, <1>3
<1>10. Content(Push(b, r)) = Append(Content(b), r)
  BY <1>1, <1>7, <1>8, <1>9
<1> QED BY <1>3, <1>4, <1>10

LEMMA ContentOfEmpty == EmptyRing \in Rings /\ EmptyRing.count = 0 /\ Content(EmptyRing) = <<>>
<1>1. Capacity \in Nat \ {0} /\ MaxReadings \in Nat
  BY BufferAssumption
<1>2. EmptyRing \in Rings /\ EmptyRing.count = 0
  BY <1>1 DEF EmptyRing, Rings
<1>3. Content(EmptyRing) \in Seq(0..MaxReadings) /\ Len(Content(EmptyRing)) = 0
  BY <1>2, ContentBySlot
<1> QED BY <1>2, <1>3

---------------------------------------------------------------------------
(* Sequences of readings *)

\* NothingLostOrDoubled and OrderKept, of any sequence
Conserved(s, n, gone) ==
    /\ \A i, j \in 1..Len(s) : i # j => s[i] # s[j]
    /\ \A r \in 1..n : (\E i \in 1..Len(s) : s[i] = r) \/ r \in gone
    /\ \A i \in 1..Len(s) : s[i] \in 1..n /\ s[i] \notin gone

Ordered(s, back) == \A j \in 1..Len(s) : \A i \in 1..(j - 1) : s[i] < s[j] \/ s[j] \in back

\* The newest reading goes behind all others.
LEMMA NewestLast ==
    ASSUME NEW s \in Seq(Readings), NEW n \in Nat, NEW gone \in SUBSET (1..n), NEW back,
           Conserved(s, n, gone), Ordered(s, back)
    PROVE  Conserved(Append(s, n + 1), n + 1, gone) /\ Ordered(Append(s, n + 1), back)
<1> DEFINE t == Append(s, n + 1)
<1>1. Len(t) = Len(s) + 1 /\ t[Len(s) + 1] = n + 1 /\ \A i \in 1..Len(s) : t[i] = s[i]
  OBVIOUS
<1>2. \A i \in 1..Len(s) : s[i] \in 1..n
  BY DEF Conserved
<1>3. Len(s) \in Nat
  OBVIOUS
<1> HIDE DEF t
<1>4. \A i, j \in 1..Len(t) : i # j => t[i] # t[j]
  <2> SUFFICES ASSUME NEW i \in 1..Len(t), NEW j \in 1..Len(t), i # j PROVE t[i] # t[j]
    OBVIOUS
  <2>1. \A h \in 1..Len(t) : h = Len(s) + 1 \/ h \in 1..Len(s)
    BY <1>1, <1>3
  <2>2. \A h \in 1..Len(s) : t[h] \in 1..n
    BY <1>1, <1>2
  <2>3. n + 1 \notin 1..n
    OBVIOUS
  <2>4. CASE i = Len(s) + 1 \/ j = Len(s) + 1
    BY <2>1, <2>2, <2>3, <2>4, <1>1
  <2>5. CASE i \in 1..Len(s) /\ j \in 1..Len(s)
    BY <2>5, <1>1 DEF Conserved
  <2> QED BY <2>1, <2>4, <2>5
<1>5. \A r \in 1..(n + 1) : (\E i \in 1..Len(t) : t[i] = r) \/ r \in gone
  <2> SUFFICES ASSUME NEW r \in 1..(n + 1), r \notin gone PROVE \E i \in 1..Len(t) : t[i] = r
    OBVIOUS
  <2>1. CASE r = n + 1
    BY <2>1, <1>1, <1>3
  <2>2. CASE r \in 1..n
    <3>1. PICK i \in 1..Len(s) : s[i] = r
      BY <2>2 DEF Conserved
    <3> QED BY <3>1, <1>1, <1>3
  <2> QED BY <2>1, <2>2
<1>6. \A i \in 1..Len(t) : t[i] \in 1..(n + 1) /\ t[i] \notin gone
  BY <1>1, <1>2, <1>3 DEF Conserved
<1>7. Ordered(t, back)
  <2> SUFFICES ASSUME NEW j \in 1..Len(t), NEW i \in 1..(j - 1)
               PROVE  t[i] < t[j] \/ t[j] \in back
    BY DEF Ordered
  <2>1. CASE j = Len(s) + 1
    <3>1. i \in 1..Len(s) /\ t[j] = n + 1 /\ t[i] = s[i]
      BY <2>1, <1>1, <1>3
    <3> QED BY <3>1, <1>2
  <2>2. CASE j \in 1..Len(s)
    <3>1. i \in 1..Len(s) /\ t[j] = s[j] /\ t[i] = s[i]
      BY <2>2, <1>1, <1>3
    <3> QED BY <3>1, <2>2 DEF Ordered
  <2> QED BY <2>1, <2>2, <1>1, <1>3
<1>8. Conserved(t, n + 1, gone)
  BY <1>4, <1>5, <1>6 DEF Conserved
<1> QED BY <1>7, <1>8 DEF t

\* One reading is taken out; those behind it are newer, or had been put back.
LEMMA OneTakenOut ==
    ASSUME NEW s \in Seq(Readings), NEW n \in Nat, NEW gone, NEW back,
           NEW k \in 1..Len(s), NEW t \in Seq(Readings),
           Len(t) = Len(s) - 1,
           \A i \in 1..Len(t) : t[i] = IF i < k THEN s[i] ELSE s[i + 1],
           Conserved(s, n, gone), Ordered(s, back)
    PROVE  /\ Conserved(t, n, gone \cup {s[k]}) /\ Ordered(t, back)
           /\ \A i \in k..Len(t) : t[i] > s[k] \/ t[i] \in back
<1>0. Len(s) \in Nat \ {0} /\ Len(t) \in Nat /\ Len(s) = Len(t) + 1
  OBVIOUS
<1>1. \A i \in 1..Len(t) : i < k => i \in 1..Len(s) /\ t[i] = s[i] /\ i # k
  BY <1>0
<1>2. \A i \in 1..Len(t) : i >= k => i + 1 \in 1..Len(s) /\ t[i] = s[i + 1] /\ i + 1 # k
  BY <1>0
<1>3. \A i, j \in 1..Len(t) : i # j => t[i] # t[j]
  <2> SUFFICES ASSUME NEW i \in 1..Len(t), NEW j \in 1..Len(t), i # j PROVE t[i] # t[j]
    OBVIOUS
  <2>1. CASE i < k /\ j < k
    BY <2>1, <1>1 DEF Conserved
  <2>2. CASE i >= k /\ j >= k
    <3>1. /\ i + 1 \in 1..Len(s) /\ j + 1 \in 1..Len(s) /\ i + 1 # j + 1
          /\ t[i] = s[i + 1] /\ t[j] = s[j + 1]
      BY <2>2, <1>2
    <3> QED BY <3>1 DEF Conserved
  <2>3. CASE i < k /\ j >= k
    <3>1. i \in 1..Len(s) /\ j + 1 \in 1..Len(s) /\ i # j + 1 /\ t[i] = s[i] /\ t[j] = s[j + 1]
      BY <2>3, <1>1, <1>2
    <3> QED BY <3>1 DEF Conserved
  <2>4. CASE i >= k /\ j < k
    <3>1. j \in 1..Len(s) /\ i + 1 \in 1..Len(s) /\ j # i + 1 /\ t[j] = s[j] /\ t[i] = s[i + 1]
      BY <2>4, <1>1, <1>2
    <3> QED BY <3>1 DEF Conserved
  <2> QED BY <2>1, <2>2, <2>3, <2>4
<1>4. \A i \in 1..Len(t) : t[i] \in 1..n /\ t[i] \notin gone \cup {s[k]}
  <2> SUFFICES ASSUME NEW i \in 1..Len(t) PROVE t[i] \in 1..n /\ t[i] \notin gone \cup {s[k]}
    OBVIOUS
  <2>1. \E j \in 1..Len(s) : j # k /\ t[i] = s[j]
    BY <1>1, <1>2
  <2> QED BY <2>1 DEF Conserved
<1>5. \A r \in 1..n : (\E i \in 1..Len(t) : t[i] = r) \/ r \in gone \cup {s[k]}
  <2> SUFFICES ASSUME NEW r \in 1..n, r \notin gone, r # s[k] PROVE \E i \in 1..Len(t) : t[i] = r
    OBVIOUS
  <2>1. PICK j \in 1..Len(s) : s[j] = r
    BY DEF Conserved
  <2>2. CASE j < k
    BY <2>1, <2>2, <1>0
  <2>3. CASE j > k
    <3>1. j - 1 \in 1..Len(t) /\ (j - 1) + 1 = j /\ ~(j - 1 < k)
      BY <2>3, <1>0
    <3>2. t[j - 1] = s[j]
      BY <3>1
    <3> QED BY <2>1, <3>1, <3>2
  <2> QED BY <2>1, <2>2, <2>3
<1>6. Ordered(t, back)
  <2> SUFFICES ASSUME NEW j \in 1..Len(t), NEW i \in 1..(j - 1)
               PROVE  t[i] < t[j] \/ t[j] \in back
    BY DEF Ordered
  <2>1. i \in 1..Len(t) /\ i < j
    BY <1>0
  <2>2. \E a, b \in 1..Len(s) : a < b /\ t[i] = s[a] /\ t[j] = s[b]
    <3>1. CASE j < k
      <4>1. i \in 1..Len(s) /\ j \in 1..Len(s) /\ i < k
        BY <1>0, <2>1, <3>1
      <4>2. t[i] = s[i] /\ t[j] = s[j]
        BY <1>1, <2>1, <3>1, <4>1
      <4> QED BY <2>1, <4>1, <4>2
    <3>2. CASE i < k /\ j >= k
      <4>1. i \in 1..Len(s) /\ j + 1 \in 1..Len(s) /\ i < j + 1 /\ t[i] = s[i] /\ t[j] = s[j + 1]
        BY <3>2, <2>1, <1>1, <1>2
      <4> QED BY <4>1
    <3>3. CASE i >= k
      <4>1. i + 1 \in 1..Len(s) /\ j + 1 \in 1..Len(s) /\ i + 1 < j + 1
            /\ t[i] = s[i + 1] /\ t[j] = s[j + 1]
        BY <3>3, <2>1, <1>2
      <4> QED BY <4>1
    <3> QED BY <3>1, <3>2, <3>3
  <2>3. PICK a \in 1..Len(s), b \in 1..Len(s) : a < b /\ t[i] = s[a] /\ t[j] = s[b]
    BY <2>2
  <2>4. a \in 1..(b - 1)
    BY <2>3
  <2> QED BY <2>3, <2>4 DEF Ordered
<1>7. ASSUME NEW i \in k..Len(t)
      PROVE  t[i] > s[k] \/ t[i] \in back
  <2>1. i \in 1..Len(t) /\ i + 1 \in 1..Len(s) /\ k \in 1..((i + 1) - 1) /\ t[i] = s[i + 1]
    BY <1>0, <1>2
  <2>2. s[k] < s[i + 1] \/ s[i + 1] \in back
    BY <2>1 DEF Ordered
  <2>3. s[k] \in Nat /\ s[i + 1] \in Nat
    BY <2>1 DEF Conserved
  <2> QED BY <2>1, <2>2, <2>3
<1>8. Conserved(t, n, gone \cup {s[k]})
  BY <1>3, <1>4, <1>5 DEF Conserved
<1> QED BY <1>6, <1>7, <1>8

\* The reading that was taken out comes back at the end.
LEMMA PutBackLast ==
    ASSUME NEW t \in Seq(Readings), NEW n \in Nat, NEW gone, NEW back,
           NEW r \in Readings, r \in 1..n, r \notin gone,
           Conserved(t, n, gone \cup {r}), Ordered(t, back)
    PROVE  Conserved(Append(t, r), n, gone) /\ Ordered(Append(t, r), back \cup {r})
<1> DEFINE u == Append(t, r)
<1>1. Len(u) = Len(t) + 1 /\ u[Len(t) + 1] = r /\ \A i \in 1..Len(t) : u[i] = t[i]
  OBVIOUS
<1>2. Len(t) \in Nat
  OBVIOUS
<1> HIDE DEF u
<1>3. \A i, j \in 1..Len(u) : i # j => u[i] # u[j]
  BY <1>1, <1>2 DEF Conserved
<1>4. \A i \in 1..Len(u) : u[i] \in 1..n /\ u[i] \notin gone
  BY <1>1, <1>2 DEF Conserved
<1>5. \A q \in 1..n : (\E i \in 1..Len(u) : u[i] = q) \/ q \in gone
  <2> SUFFICES ASSUME NEW q \in 1..n, q \notin gone PROVE \E i \in 1..Len(u) : u[i] = q
    OBVIOUS
  <2>1. CASE q = r
    BY <2>1, <1>1, <1>2
  <2>2. CASE q # r
    <3>1. PICK i \in 1..Len(t) : t[i] = q
      BY <2>2 DEF Conserved
    <3> QED BY <3>1, <1>1, <1>2
  <2> QED BY <2>1, <2>2
<1>6. Ordered(u, back \cup {r})
  <2> SUFFICES ASSUME NEW j \in 1..Len(u), NEW i \in 1..(j - 1)
               PROVE  u[i] < u[j] \/ u[j] \in back \cup {r}
    BY DEF Ordered
  <2>1. CASE j = Len(t) + 1
    BY <2>1, <1>1
  <2>2. CASE j \in 1..Len(t)
    <3>1. i \in 1..Len(t) /\ u[j] = t[j] /\ u[i] = t[i]
      BY <2>2, <1>1, <1>2
    <3> QED BY <3>1, <2>2 DEF Ordered
  <2> QED BY <2>1, <2>2, <1>1, <1>2
<1>7. Conserved(u, n, gone)
  BY <1>3, <1>4, <1>5 DEF Conserved
<1> QED BY <1>6, <1>7 DEF u

\* What waited is lost with the RAM.
LEMMA OnlyPrefix ==
    ASSUME NEW p \in Seq(Readings), NEW w \in Seq(Readings), NEW n \in Nat, NEW gone, NEW back,
           Conserved(p \o w, n, gone), Ordered(p \o w, back)
    PROVE  /\ Conserved(p, n, gone \cup {w[i] : i \in 1..Len(w)}) /\ Ordered(p, back)
           /\ {w[i] : i \in 1..Len(w)} \subseteq 1..n
<1> DEFINE s == p \o w
           W == {w[i] : i \in 1..Len(w)}
<1>1. /\ Len(p) \in Nat /\ Len(w) \in Nat /\ Len(s) = Len(p) + Len(w)
      /\ \A i \in 1..Len(p) : i \in 1..Len(s) /\ s[i] = p[i]
      /\ \A i \in 1..Len(w) : Len(p) + i \in 1..Len(s) /\ s[Len(p) + i] = w[i]
  OBVIOUS
<1>2. \A i \in 1..Len(s) : i \in 1..Len(p) \/ \E j \in 1..Len(w) : i = Len(p) + j
  <2> SUFFICES ASSUME NEW i \in 1..Len(s), i \notin 1..Len(p) PROVE \E j \in 1..Len(w) : i = Len(p) + j
    OBVIOUS
  <2>1. i - Len(p) \in 1..Len(w) /\ i = Len(p) + (i - Len(p))
    BY <1>1
  <2> QED BY <2>1
<1>3. Conserved(s, n, gone) /\ Ordered(s, back)
  OBVIOUS
<1> HIDE DEF s
<1>4. \A i, j \in 1..Len(p) : i # j => p[i] # p[j]
  BY <1>1, <1>3 DEF Conserved
<1>5. \A i \in 1..Len(p) : p[i] \in 1..n /\ p[i] \notin gone
  BY <1>1, <1>3 DEF Conserved
<1>6. \A i \in 1..Len(p) : \A j \in 1..Len(w) : p[i] # w[j]
  <2> SUFFICES ASSUME NEW i \in 1..Len(p), NEW j \in 1..Len(w) PROVE p[i] # w[j]
    OBVIOUS
  <2>1. i # Len(p) + j /\ i \in 1..Len(s) /\ Len(p) + j \in 1..Len(s)
    BY <1>1
  <2> QED BY <2>1, <1>1, <1>3 DEF Conserved
<1>7. \A r \in 1..n : (\E i \in 1..Len(p) : p[i] = r) \/ r \in gone \cup W
  <2> SUFFICES ASSUME NEW r \in 1..n, r \notin gone PROVE (\E i \in 1..Len(p) : p[i] = r) \/ r \in W
    OBVIOUS
  <2>1. PICK i \in 1..Len(s) : s[i] = r
    BY <1>3 DEF Conserved
  <2>2. CASE i \in 1..Len(p)
    BY <2>1, <2>2, <1>1
  <2>3. CASE \E j \in 1..Len(w) : i = Len(p) + j
    BY <2>1, <2>3, <1>1
  <2> QED BY <2>2, <2>3, <1>2
<1>8. Ordered(p, back)
  <2> SUFFICES ASSUME NEW j \in 1..Len(p), NEW i \in 1..(j - 1)
               PROVE  p[i] < p[j] \/ p[j] \in back
    BY DEF Ordered
  <2>1. i \in 1..Len(p) /\ j \in 1..Len(s)
    BY <1>1
  <2>2. s[i] < s[j] \/ s[j] \in back
    BY <2>1, <1>3 DEF Ordered
  <2> QED BY <2>1, <2>2, <1>1
<1>9. W \subseteq 1..n
  BY <1>1, <1>3 DEF Conserved
<1>10. Conserved(p, n, gone \cup W)
  BY <1>4, <1>5, <1>6, <1>7 DEF Conserved
<1> QED BY <1>8, <1>9, <1>10

---------------------------------------------------------------------------
(* What was published and what waits *)

\* The invariant's part about readings, of any published p and waiting w.
Kept(p, w, n, gone, back) ==
    /\ p \in Seq(Readings) /\ w \in Seq(Readings)
    /\ gone \subseteq 1..n
    /\ Conserved(p \o w, n, gone) /\ Ordered(p \o w, back)

LEMMA Joined ==
    ASSUME NEW S, NEW p \in Seq(S), NEW w \in Seq(S)
    PROVE  /\ p \o w \in Seq(S) /\ p \o <<>> = p
           /\ \A r \in S : p \o Append(w, r) = Append(p \o w, r)
<1>1. p \o w \in Seq(S) /\ p \o <<>> = p
  OBVIOUS
<1>2. ASSUME NEW r \in S PROVE p \o Append(w, r) = Append(p \o w, r)
  OBVIOUS
<1> QED BY <1>1, <1>2

\* The first that waits is published, or taken out.
LEMMA JoinedWithoutFirst ==
    ASSUME NEW S, NEW p \in Seq(S), NEW w \in Seq(S), w # <<>>
    PROVE  /\ Head(w) \in S /\ Tail(w) \in Seq(S)
           /\ Append(p, Head(w)) \o Tail(w) = p \o w
           /\ Len(p) + 1 \in 1..Len(p \o w) /\ (p \o w)[Len(p) + 1] = Head(w)
           /\ Len(p \o Tail(w)) = Len(p \o w) - 1
           /\ \A i \in 1..Len(p \o Tail(w)) :
                 (p \o Tail(w))[i] = IF i < Len(p) + 1 THEN (p \o w)[i] ELSE (p \o w)[i + 1]
<1>1. Head(w) \in S /\ Tail(w) \in Seq(S)
  OBVIOUS
<1>2. Append(p, Head(w)) \o Tail(w) = p \o w
  OBVIOUS
<1>3. /\ Len(p) + 1 \in 1..Len(p \o w) /\ (p \o w)[Len(p) + 1] = Head(w)
      /\ Len(p \o Tail(w)) = Len(p \o w) - 1
  OBVIOUS
<1>4. ASSUME NEW i \in 1..Len(p \o Tail(w))
      PROVE  (p \o Tail(w))[i] = IF i < Len(p) + 1 THEN (p \o w)[i] ELSE (p \o w)[i + 1]
  OBVIOUS
<1> QED BY <1>1, <1>2, <1>3, <1>4

LEMMA KeptWhenSampled ==
    ASSUME NEW p, NEW w, NEW n \in Nat, NEW gone, NEW back, Kept(p, w, n, gone, back),
           n + 1 \in Readings
    PROVE  /\ Kept(p, Append(w, n + 1), n + 1, gone, back)
           /\ w = <<>> => Kept(Append(p, n + 1), w, n + 1, gone, back)
<1>1. p \in Seq(Readings) /\ w \in Seq(Readings) /\ gone \in SUBSET (1..n)
  BY DEF Kept
<1>2. p \o w \in Seq(Readings) /\ p \o Append(w, n + 1) = Append(p \o w, n + 1)
  BY <1>1, Joined
<1>3. /\ Conserved(Append(p \o w, n + 1), n + 1, gone)
      /\ Ordered(Append(p \o w, n + 1), back)
  BY <1>1, <1>2, NewestLast DEF Kept
<1>4. /\ Append(w, n + 1) \in Seq(Readings) /\ Append(p, n + 1) \in Seq(Readings)
      /\ gone \subseteq 1..(n + 1)
  BY <1>1
<1>5. Kept(p, Append(w, n + 1), n + 1, gone, back)
  BY <1>1, <1>2, <1>3, <1>4 DEF Kept
<1>6. ASSUME w = <<>> PROVE Kept(Append(p, n + 1), w, n + 1, gone, back)
  <2>1. p \o w = p /\ Append(p, n + 1) \o w = Append(p, n + 1)
    BY <1>1, <1>4, <1>6, Joined
  <2> QED BY <1>1, <1>3, <1>4, <2>1 DEF Kept
<1> QED BY <1>5, <1>6

\* The first that waits is published: nothing changes in what was sampled.
LEMMA KeptWhenSent ==
    ASSUME NEW p, NEW w, NEW n \in Nat, NEW gone, NEW back, Kept(p, w, n, gone, back), w # <<>>
    PROVE  Kept(Append(p, Head(w)), Tail(w), n, gone, back)
<1>1. p \in Seq(Readings) /\ w \in Seq(Readings) /\ gone \subseteq 1..n
  BY DEF Kept
<1>2. /\ Head(w) \in Readings /\ Tail(w) \in Seq(Readings)
      /\ Append(p, Head(w)) \o Tail(w) = p \o w
  BY <1>1, JoinedWithoutFirst
<1>3. Append(p, Head(w)) \in Seq(Readings)
  BY <1>1, <1>2
<1> QED BY <1>1, <1>2, <1>3 DEF Kept

LEMMA KeptWhenTakenOut ==
    ASSUME NEW p, NEW w, NEW n \in Nat, NEW gone, NEW back, Kept(p, w, n, gone, back), w # <<>>
    PROVE  /\ Head(w) \in 1..n /\ Head(w) \notin gone /\ Head(w) \in Readings
           /\ Kept(p, Tail(w), n, gone \cup {Head(w)}, back)
           /\ \A i \in 1..Len(Tail(w)) : Tail(w)[i] > Head(w) \/ Tail(w)[i] \in back
<1> DEFINE s == p \o w
           t == p \o Tail(w)
           k == Len(p) + 1
<1>1. p \in Seq(Readings) /\ w \in Seq(Readings) /\ gone \subseteq 1..n
  BY DEF Kept
<1>2. /\ Head(w) \in Readings /\ Tail(w) \in Seq(Readings)
      /\ k \in 1..Len(s) /\ s[k] = Head(w)
      /\ Len(t) = Len(s) - 1
      /\ \A i \in 1..Len(t) : t[i] = IF i < k THEN s[i] ELSE s[i + 1]
  BY <1>1, JoinedWithoutFirst
<1>3. s \in Seq(Readings) /\ t \in Seq(Readings)
  BY <1>1, <1>2, Joined
<1>4. Conserved(s, n, gone) /\ Ordered(s, back)
  BY DEF Kept
<1>5. \A i \in 1..Len(Tail(w)) : Len(p) + i \in k..Len(t) /\ t[Len(p) + i] = Tail(w)[i]
  BY <1>1, <1>2
<1> HIDE DEF s, t, k
<1>6. /\ Conserved(t, n, gone \cup {s[k]}) /\ Ordered(t, back)
      /\ \A i \in k..Len(t) : t[i] > s[k] \/ t[i] \in back
  BY <1>2, <1>3, <1>4, OneTakenOut
<1>7. Head(w) \in 1..n /\ Head(w) \notin gone
  BY <1>2, <1>4 DEF Conserved
<1>8. \A i \in 1..Len(Tail(w)) : Tail(w)[i] > Head(w) \/ Tail(w)[i] \in back
  <2> SUFFICES ASSUME NEW i \in 1..Len(Tail(w)) PROVE Tail(w)[i] > Head(w) \/ Tail(w)[i] \in back
    OBVIOUS
  <2>1. Len(p) + i \in k..Len(t) /\ t[Len(p) + i] = Tail(w)[i]
    BY <1>5
  <2> QED BY <1>2, <1>6, <2>1
<1>9. Kept(p, Tail(w), n, gone \cup {Head(w)}, back)
  BY <1>1, <1>2, <1>6, <1>7 DEF Kept, t
<1> QED BY <1>2, <1>7, <1>8, <1>9

\* The oldest makes room for the newest.
LEMMA KeptWhenEvicted ==
    ASSUME NEW p, NEW w, NEW n \in Nat, NEW gone, NEW back, Kept(p, w, n, gone, back),
           w # <<>>, n + 1 \in Readings
    PROVE  /\ Kept(p, Append(Tail(w), n + 1), n + 1, gone \cup {Head(w)}, back)
           /\ \A i \in 1..Len(Append(Tail(w), n + 1)) :
                 \/ Append(Tail(w), n + 1)[i] > Head(w)
                 \/ Append(Tail(w), n + 1)[i] \in back
<1>1. /\ Head(w) \in 1..n
      /\ Kept(p, Tail(w), n, gone \cup {Head(w)}, back)
      /\ \A i \in 1..Len(Tail(w)) : Tail(w)[i] > Head(w) \/ Tail(w)[i] \in back
  BY KeptWhenTakenOut
<1>2. Kept(p, Append(Tail(w), n + 1), n + 1, gone \cup {Head(w)}, back)
  BY <1>1, KeptWhenSampled
<1>3. Tail(w) \in Seq(Readings)
  BY <1>1 DEF Kept
<1> DEFINE v == Tail(w)
           u == Append(v, n + 1)
<1>4. Len(u) = Len(v) + 1 /\ u[Len(v) + 1] = n + 1 /\ Len(v) \in Nat
      /\ \A i \in 1..Len(v) : u[i] = v[i]
  BY <1>3
<1>5. \A i \in 1..Len(v) : v[i] > Head(w) \/ v[i] \in back
  BY <1>1
<1> HIDE DEF u, v
<1>6. ASSUME NEW i \in 1..Len(u) PROVE u[i] > Head(w) \/ u[i] \in back
  <2>1. CASE i = Len(v) + 1
    BY <1>1, <1>4, <2>1
  <2>2. CASE i \in 1..Len(v)
    BY <1>4, <1>5, <2>2
  <2> QED BY <1>4, <2>1, <2>2
<1> QED BY <1>2, <1>6 DEF u, v

LEMMA KeptWhenPutBack ==
    ASSUME NEW p, NEW w, NEW n \in Nat, NEW gone, NEW back, Kept(p, w, n, gone, back), w # <<>>
    PROVE  Kept(p, Append(Tail(w), Head(w)), n, gone, back \cup {Head(w)})
<1>1. /\ Head(w) \in 1..n /\ Head(w) \notin gone /\ Head(w) \in Readings
      /\ Kept(p, Tail(w), n, gone \cup {Head(w)}, back)
  BY KeptWhenTakenOut
<1>2. /\ p \in Seq(Readings) /\ Tail(w) \in Seq(Readings) /\ gone \subseteq 1..n
      /\ Conserved(p \o Tail(w), n, gone \cup {Head(w)}) /\ Ordered(p \o Tail(w), back)
  BY <1>1 DEF Kept
<1>3. /\ p \o Tail(w) \in Seq(Readings)
      /\ p \o Append(Tail(w), Head(w)) = Append(p \o Tail(w), Head(w))
  BY <1>1, <1>2, Joined
<1>4. /\ Conserved(Append(p \o Tail(w), Head(w)), n, gone)
      /\ Ordered(Append(p \o Tail(w), Head(w)), back \cup {Head(w)})
  BY <1>1, <1>2, <1>3, PutBackLast
<1>5. Append(Tail(w), Head(w)) \in Seq(Readings)
  BY <1>1, <1>2
<1> QED BY <1>2, <1>3, <1>4, <1>5 DEF Kept

LEMMA KeptWhenLost ==
    ASSUME NEW p, NEW w, NEW n \in Nat, NEW gone, NEW back, Kept(p, w, n, gone, back)
    PROVE  Kept(p, <<>>, n, gone \cup {w[i] : i \in 1..Len(w)}, back)
<1>1. /\ p \in Seq(Readings) /\ w \in Seq(Readings) /\ gone \subseteq 1..n
      /\ Conserved(p \o w, n, gone) /\ Ordered(p \o w, back)
  BY DEF Kept
<1>2. /\ Conserved(p, n, gone \cup {w[i] : i \in 1..Len(w)}) /\ Ordered(p, back)
      /\ {w[i] : i \in 1..Len(w)} \subseteq 1..n
  BY <1>1, OnlyPrefix
<1>3. p \o <<>> = p /\ <<>> \in Seq(Readings)
  BY <1>1
<1> QED BY <1>1, <1>2, <1>3 DEF Kept

---------------------------------------------------------------------------
(* The steps of the node *)

\* The inductive invariant: NothingLostOrDoubled and OrderKept, and that what
\* was given up or lost had been sampled and what waits is a reading.
BufferInv == BufferTypeOK /\ Kept(published, Waiting, sampled, discarded \cup lost, requeued)

LEMMA KeptIsTheProperties ==
    ASSUME BufferInv
    PROVE  NothingLostOrDoubled /\ OrderKept
BY DEF BufferInv, Kept, Conserved, Ordered, NothingLostOrDoubled, OrderKept, Stream

\* What one step does: it keeps the invariant, is a step of the queue, and
\* gives up none but the oldest.
StepIsSound ==
    /\ BufferInv'
    /\ [Fifo!Next]_Waiting
    /\ \A r \in discarded' \ discarded :
          \A i \in 1..ring'.count : Waiting'[i] > r \/ Waiting'[i] \in requeued

\* What the invariant says of the ring.
LEMMA RingFacts ==
    ASSUME BufferInv
    PROVE  /\ Capacity \in Nat \ {0} /\ Backfill \in Nat \ {0} /\ MaxReadings \in Nat
           /\ ring \in Rings /\ ring.count \in 0..Capacity
           /\ Waiting \in Seq(Readings) /\ Len(Waiting) = ring.count
           /\ (ring.count = 0) <=> (Waiting = <<>>)
           /\ sampled \in Nat
           /\ Kept(published, Waiting, sampled, discarded \cup lost, requeued)
<1>1. Capacity \in Nat \ {0} /\ Backfill \in Nat \ {0} /\ MaxReadings \in Nat
  BY BufferAssumption
<1>2. ring \in Rings /\ sampled \in Nat
  BY <1>1 DEF BufferInv, BufferTypeOK, Rings
<1>3. ring.count \in 0..Capacity
  BY <1>2 DEF Rings
<1>4. Waiting \in Seq(Readings) /\ Kept(published, Waiting, sampled, discarded \cup lost, requeued)
  BY DEF BufferInv, Kept
<1>5. Len(Waiting) = ring.count
  BY <1>2, ContentBySlot DEF Waiting
<1>6. (ring.count = 0) <=> (Waiting = <<>>)
  BY <1>3, <1>4, <1>5
<1> QED BY <1>1, <1>2, <1>3, <1>4, <1>5, <1>6

\* A fresh reading that goes into a ring with room.
LEMMA StoredWithRoom ==
    ASSUME BufferInv, NewReading, ring.count < Capacity, ring' = Push(ring, sampled'),
           connected' \in BOOLEAN, UNCHANGED <<history, reboots>>
    PROVE  StepIsSound
<1>1. sampled' = sampled + 1 /\ sampled + 1 \in Readings /\ sampled' \in 0..MaxReadings
  BY RingFacts DEF NewReading, Readings, BufferInv, BufferTypeOK
<1>2. ring' \in Rings /\ Waiting' = Append(Waiting, sampled + 1)
  BY <1>1, RingFacts, ContentOfPush DEF Waiting
<1>3. Kept(published, Append(Waiting, sampled + 1), sampled + 1, discarded \cup lost, requeued)
  BY <1>1, RingFacts, KeptWhenSampled
<1>4. BufferTypeOK'
  BY <1>1, <1>2, RingFacts, SMTT(20) DEF BufferInv, BufferTypeOK, NewReading, history, Rings
<1>5. BufferInv'
  BY <1>1, <1>2, <1>3, <1>4 DEF BufferInv, history
<1>6. [Fifo!Next]_Waiting
  <2>1. Fifo!Put(sampled + 1)
    BY <1>2, RingFacts DEF Fifo!Put
  <2> QED BY <1>1, <2>1 DEF Fifo!Next
<1>7. discarded' \ discarded = {}
  BY DEF history
<1> QED BY <1>5, <1>6, <1>7 DEF StepIsSound

LEMMA PublishNowIsSound == ASSUME BufferInv, PublishNow PROVE StepIsSound
<1>1. sampled' = sampled + 1 /\ sampled + 1 \in Readings /\ sampled' \in 0..MaxReadings
  BY RingFacts DEF PublishNow, NewReading, Readings, BufferInv, BufferTypeOK
<1>2. ring' = ring /\ Waiting' = Waiting /\ Waiting = <<>>
  BY RingFacts DEF PublishNow, MayPublish, Waiting
<1>3. Kept(Append(published, sampled + 1), Waiting, sampled + 1, discarded \cup lost, requeued)
  BY <1>1, <1>2, RingFacts, KeptWhenSampled
<1>4. BufferInv'
  <2>1. published' = Append(published, sampled + 1) /\ published' \in Seq(Readings)
    BY <1>1 DEF PublishNow, BufferInv, BufferTypeOK
  <2>2. BufferTypeOK'
    BY <1>1, <2>1, RingFacts DEF PublishNow, NewReading, BufferInv, BufferTypeOK
  <2> QED BY <1>1, <1>2, <1>3, <2>1, <2>2 DEF PublishNow, BufferInv
<1>5. discarded' \ discarded = {}
  BY DEF PublishNow
<1> QED BY <1>2, <1>4, <1>5 DEF StepIsSound

LEMMA StoreIsSound == ASSUME BufferInv, Store PROVE StepIsSound
<1>1. CASE ring.count >= Capacity
  <2>1. sampled' = sampled + 1 /\ sampled + 1 \in Readings /\ sampled' \in 0..MaxReadings
    BY RingFacts DEF Store, NewReading, Readings, BufferInv, BufferTypeOK
  <2>2. /\ ring.count = Capacity /\ ring.count > 0 /\ Waiting # <<>>
        /\ discarded' = discarded \cup {Oldest(ring)}
        /\ ring' = Push(Popped(ring), sampled')
    BY <1>1, RingFacts DEF Store
  <2>3. /\ Popped(ring) \in Rings /\ Popped(ring).count < Capacity
        /\ Content(Popped(ring)) = Tail(Waiting) /\ Head(Waiting) = Oldest(ring)
    BY <2>2, RingFacts, ContentOfPop DEF Waiting
  <2>4. /\ ring' \in Rings /\ ring'.count = Len(Waiting')
        /\ Waiting' = Append(Tail(Waiting), sampled + 1)
    BY <2>1, <2>2, <2>3, ContentOfPush, ContentBySlot DEF Waiting
  <2>5. /\ Kept(published, Append(Tail(Waiting), sampled + 1), sampled + 1,
                (discarded \cup lost) \cup {Head(Waiting)}, requeued)
        /\ \A i \in 1..Len(Append(Tail(Waiting), sampled + 1)) :
              \/ Append(Tail(Waiting), sampled + 1)[i] > Head(Waiting)
              \/ Append(Tail(Waiting), sampled + 1)[i] \in requeued
    BY <2>1, <2>2, RingFacts, KeptWhenEvicted
  <2>6. (discarded \cup lost)' = (discarded \cup lost) \cup {Head(Waiting)}
    BY <2>2, <2>3 DEF Store
  <2>7. Head(Waiting) \in Readings
    BY <2>2, RingFacts
  <2>8. BufferTypeOK'
    <3>1. sent' \in 0..Backfill /\ phase' \in {"sample", "drain"} /\ discarded' \subseteq Readings
      BY <2>2, <2>3, <2>7, RingFacts DEF Store, NewReading, BufferInv, BufferTypeOK
    <3> QED BY <2>1, <2>4, <3>1 DEF Store, BufferInv, BufferTypeOK, Rings
  <2>9. BufferInv'
    BY <2>1, <2>4, <2>5, <2>6, <2>8 DEF Store, BufferInv
  <2>10. [Fifo!Next]_Waiting
    <3>1. Fifo!Put(sampled + 1)
      BY <2>2, <2>4, RingFacts DEF Fifo!Put
    <3> QED BY <2>1, <3>1 DEF Fifo!Next
  <2>11. discarded' \ discarded \subseteq {Head(Waiting)}
    BY <2>2, <2>3
  <2> QED BY <2>4, <2>5, <2>9, <2>10, <2>11 DEF StepIsSound
<1>2. CASE ~(ring.count >= Capacity)
  <2>1. ring.count < Capacity /\ connected' \in BOOLEAN
    BY <1>2, RingFacts DEF Store, BufferInv, BufferTypeOK
  <2> QED BY <1>2, <2>1, StoredWithRoom DEF Store, history
<1> QED BY <1>1, <1>2

LEMMA PublishNowFailsIsSound == ASSUME BufferInv, PublishNowFails PROVE StepIsSound
<1>1. ring.count < Capacity
  BY RingFacts DEF PublishNowFails, MayPublish
<1> QED BY <1>1, StoredWithRoom DEF PublishNowFails

LEMMA DrainIsSound == ASSUME BufferInv, Drain PROVE StepIsSound
<1>1. ring.count > 0 /\ Waiting # <<>> /\ ring' = Popped(ring)
  BY RingFacts DEF Drain, CanDrain
<1>2. /\ ring' \in Rings
      /\ Waiting' = Tail(Waiting) /\ Head(Waiting) = Oldest(ring)
  BY <1>1, RingFacts, ContentOfPop DEF Waiting
<1>3. Head(Waiting) \in Readings
  BY <1>1, RingFacts
<1>4. Kept(Append(published, Head(Waiting)), Tail(Waiting), sampled, discarded \cup lost, requeued)
  BY <1>1, RingFacts, KeptWhenSent
<1>5. published' = Append(published, Head(Waiting)) /\ published' \in Seq(Readings)
  BY <1>2, <1>3 DEF Drain, BufferInv, BufferTypeOK
<1>6. sent' \in 0..Backfill
  BY RingFacts DEF Drain, CanDrain, BufferInv, BufferTypeOK
<1>7. BufferTypeOK'
  BY <1>2, <1>5, <1>6 DEF Drain, BufferInv, BufferTypeOK, Rings
<1>8. BufferInv'
  BY <1>2, <1>4, <1>5, <1>7 DEF Drain, BufferInv
<1>9. [Fifo!Next]_Waiting
  BY <1>1, <1>2 DEF Fifo!Next, Fifo!Get
<1>10. discarded' \ discarded = {}
  BY DEF Drain
<1> QED BY <1>8, <1>9, <1>10 DEF StepIsSound

LEMMA DrainFailsIsSound == ASSUME BufferInv, DrainFails PROVE StepIsSound
<1>1. ring.count > 0 /\ Waiting # <<>> /\ ring' = Push(Popped(ring), Oldest(ring))
  BY RingFacts DEF DrainFails, CanDrain, PutBack
<1>2. /\ Popped(ring) \in Rings /\ Popped(ring).count < Capacity
      /\ Content(Popped(ring)) = Tail(Waiting) /\ Head(Waiting) = Oldest(ring)
  BY <1>1, RingFacts, ContentOfPop DEF Waiting
<1>3. Head(Waiting) \in Readings /\ Oldest(ring) \in 0..MaxReadings
  BY <1>1, <1>2, RingFacts DEF Readings
<1>4. ring' \in Rings /\ Waiting' = Append(Tail(Waiting), Head(Waiting))
  BY <1>1, <1>2, <1>3, ContentOfPush DEF Waiting
<1>5. Kept(published, Append(Tail(Waiting), Head(Waiting)), sampled, discarded \cup lost,
           requeued \cup {Head(Waiting)})
  BY <1>1, RingFacts, KeptWhenPutBack
<1>6. requeued' = requeued \cup {Head(Waiting)}
  BY <1>2 DEF DrainFails, PutBack
<1>7. BufferTypeOK'
  BY <1>3, <1>4, <1>6 DEF DrainFails, BufferInv, BufferTypeOK, Rings
<1>8. BufferInv'
  BY <1>4, <1>5, <1>6, <1>7 DEF DrainFails, BufferInv
<1>9. [Fifo!Next]_Waiting
  BY <1>1, <1>4 DEF Fifo!Next, Fifo!Requeue
<1>10. discarded' \ discarded = {}
  BY DEF DrainFails
<1> QED BY <1>8, <1>9, <1>10 DEF StepIsSound

LEMMA RebootIsSound == ASSUME BufferInv, Reboot PROVE StepIsSound
<1>1. ring' \in Rings /\ Waiting' = <<>>
  BY ContentOfEmpty DEF Reboot, Waiting
<1>2. InRing = {Waiting[i] : i \in 1..Len(Waiting)} /\ InRing \subseteq Readings
  BY RingFacts DEF InRing
<1>3. Kept(published, <<>>, sampled, (discarded \cup lost) \cup InRing, requeued)
  BY <1>2, RingFacts, KeptWhenLost
<1>4. (discarded \cup lost)' = (discarded \cup lost) \cup InRing
  BY DEF Reboot
<1>5. BufferTypeOK'
  <2>1. sent' \in 0..Backfill /\ lost' \subseteq Readings /\ reboots' \in 0..MaxReboots
    BY <1>2, RingFacts, BufferAssumption DEF Reboot, BufferInv, BufferTypeOK
  <2>2. connected' \in BOOLEAN /\ phase' \in {"sample", "drain"}
    BY DEF Reboot
  <2> QED BY <1>1, <2>1, <2>2 DEF Reboot, BufferInv, BufferTypeOK, Rings
<1>6. BufferInv'
  BY <1>1, <1>3, <1>4, <1>5 DEF Reboot, BufferInv
<1>7. [Fifo!Next]_Waiting
  BY <1>1 DEF Fifo!Next, Fifo!Restart
<1>8. discarded' \ discarded = {}
  BY DEF Reboot
<1> QED BY <1>6, <1>7, <1>8 DEF StepIsSound

\* Nothing happens to a reading: NoReading, DrainEnds, LinkChanges, a stutter.
LEMMA OthersAreSound ==
    ASSUME BufferInv, NoReading \/ DrainEnds \/ LinkChanges \/ UNCHANGED bufferVars
    PROVE  StepIsSound
<1>1. ring' = ring /\ Waiting' = Waiting /\ sampled' = sampled /\ UNCHANGED history
  BY DEF NoReading, DrainEnds, LinkChanges, bufferVars, history, Waiting
<1>2. BufferTypeOK'
  <2>1. connected' \in BOOLEAN
    BY DEF NoReading, DrainEnds, LinkChanges, bufferVars, BufferInv, BufferTypeOK
  <2>2. sent' \in 0..Backfill
    BY RingFacts DEF NoReading, DrainEnds, LinkChanges, bufferVars, BufferInv, BufferTypeOK
  <2>3. phase' \in {"sample", "drain"} /\ reboots' = reboots
    BY DEF NoReading, DrainEnds, LinkChanges, bufferVars, BufferInv, BufferTypeOK
  <2> QED BY <1>1, <2>1, <2>2, <2>3 DEF history, BufferInv, BufferTypeOK
<1>3. BufferInv'
  BY <1>1, <1>2 DEF BufferInv, history
<1> QED BY <1>1, <1>3 DEF StepIsSound, history

LEMMA EveryStepIsSound == ASSUME BufferInv, [BufferNext]_bufferVars PROVE StepIsSound
BY PublishNowIsSound, PublishNowFailsIsSound, StoreIsSound, DrainIsSound, DrainFailsIsSound,
   RebootIsSound, OthersAreSound DEF BufferNext, Loop

LEMMA BufferInitIsSound == ASSUME BufferInit PROVE BufferInv /\ Waiting = <<>>
<1>1. Capacity \in Nat \ {0} /\ Backfill \in Nat \ {0} /\ MaxReadings \in Nat /\ MaxReboots \in Nat
  BY BufferAssumption
<1>2. ring \in Rings /\ Waiting = <<>>
  BY ContentOfEmpty DEF BufferInit, Waiting
<1>3. BufferTypeOK
  <2>1. sent \in 0..Backfill /\ sampled \in 0..MaxReadings /\ reboots \in 0..MaxReboots
    BY <1>1 DEF BufferInit
  <2>2. published \in Seq(Readings)
    <3>1. <<>> \in Seq(Readings)
      OBVIOUS
    <3> QED BY <3>1 DEF BufferInit
  <2>3. connected \in BOOLEAN /\ phase \in {"sample", "drain"}
    BY DEF BufferInit
  <2> QED BY <1>2, <2>1, <2>2, <2>3 DEF BufferInit, BufferTypeOK, Rings
<1>4. published \o Waiting = <<>> /\ sampled = 0 /\ discarded \cup lost = {}
  BY <1>2 DEF BufferInit
<1>5. Kept(published, Waiting, sampled, discarded \cup lost, requeued)
  <2>1. Conserved(<<>>, 0, {}) /\ Ordered(<<>>, requeued)
    BY DEF Conserved, Ordered
  <2>2. published \in Seq(Readings) /\ Waiting \in Seq(Readings)
    BY <1>2, <1>3 DEF BufferTypeOK
  <2>3. /\ Conserved(published \o Waiting, sampled, discarded \cup lost)
        /\ Ordered(published \o Waiting, requeued)
    BY <1>4, <2>1
  <2> QED BY <1>4, <2>2, <2>3 DEF Kept
<1> QED BY <1>2, <1>3, <1>5 DEF BufferInv

\* Whatever is sampled, published, lost or put back, the ring and what left it
\* keep BufferInv.
THEOREM BufferInvHolds == BufferSpec => []BufferInv
<1>1. BufferInit => BufferInv
  BY BufferInitIsSound
<1>2. BufferInv /\ [BufferNext]_bufferVars => BufferInv'
  BY EveryStepIsSound DEF StepIsSound
<1> QED BY <1>1, <1>2, PTL DEF BufferSpec

\* Over any number of outages, overflows, failed publishes and restarts of the
\* node, each sampled reading was published once, or waits once in the ring, or
\* was given up for a newer one, or went with the RAM; and but for readings
\* that a failed publish put back, they leave in the order they were sampled.
THEOREM ReadingsAreKept == BufferSpec => [](BufferTypeOK /\ NothingLostOrDoubled /\ OrderKept)
<1>1. BufferInv => BufferTypeOK /\ NothingLostOrDoubled /\ OrderKept
  BY KeptIsTheProperties DEF BufferInv
<1> QED BY <1>1, BufferInvHolds, PTL

\* A full ring gives up a reading older than any that stays, but for readings
\* that a failed publish had put back.
THEOREM TheOldestIsGivenUp == BufferSpec => DiscardsOldest
<1>1. BufferInv /\ [BufferNext]_bufferVars =>
          \A r \in discarded' \ discarded :
              \A i \in 1..ring'.count : Waiting'[i] > r \/ Waiting'[i] \in requeued
  BY EveryStepIsSound DEF StepIsSound
<1> QED BY <1>1, BufferInvHolds, PTL DEF BufferSpec, DiscardsOldest

\* The ring's index arithmetic implements the bounded queue of BoundedFifo: a
\* push appends and drops the first when the ring is full, a pop takes the
\* first, a failed backfill moves the first to the end, a restart empties it.
THEOREM RingIsAFifo == BufferSpec => ImplementsFifo
<1>1. BufferInit => Fifo!Init
  BY BufferInitIsSound DEF Fifo!Init
<1>2. BufferInv /\ [BufferNext]_bufferVars => [Fifo!Next]_Waiting
  BY EveryStepIsSound DEF StepIsSound
<1> QED BY <1>1, <1>2, BufferInvHolds, PTL DEF BufferSpec, ImplementsFifo, Fifo!Spec
=================================================================================
