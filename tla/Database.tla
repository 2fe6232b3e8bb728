------------------------------ MODULE Database ------------------------------
(***************************************************************************)
(* backend/db.py: the versioned migrations that run when the process       *)
(* starts, and the pool that hands connections to its threads afterwards.  *)
(*                                                                         *)
(* The driver opens a transaction before a row is changed and not before a *)
(* schema statement.  So schema statements take effect one by one, until   *)
(* the UPDATE of migration 5: what follows it waits for the final commit,  *)
(* the number of the version included.  A statement is told by what        *)
(* matters when it runs again: "create" is written IF NOT EXISTS, "alter"  *)
(* fails when its column is there, "update" resolves the alerts there are. *)
(***************************************************************************)
EXTENDS Integers, Sequences, FiniteSets

CONSTANTS
    Threads,
    PoolSize,                      \* DB_POOL_SIZE
    MaxCrashes, MaxUses, MaxDbAlerts   \* bounds

ASSUME DatabaseAssumption ==
    /\ PoolSize \in Nat \ {0} /\ MaxCrashes \in Nat /\ MaxUses \in Nat /\ MaxDbAlerts \in Nat

VARIABLES
    disk,       \* what a crash leaves: statements applied, version, alerts
    open,       \* the same as the open transaction sees it, or NoTransaction
    process,    \* "down", "migrating", "up" or "failed"
    at,         \* <<version, statement>> that comes next
    idle, created,     \* the pool: _pool, last in first out, and _created
    borrower,   \* borrower[t]: what thread t is doing with which connection
    uses, crashes,     \* bound the model
    torn        \* a crash fell between the first column of migration 5
                \* and the commit (history)

databaseVars == <<disk, open, process, at, idle, created, borrower, uses, crashes, torn>>

Repeat(statement, n) == [i \in 1..n |-> statement]

\* mutant: the alerts are resolved by the migration after
ResolvedLater == <<
    Repeat("create", 7),
    Repeat("create", 2),
    Repeat("create", 6),
    Repeat("create", 3),
    Repeat("alter", 7) \o <<"create">>,
    Repeat("create", 3) \o <<"update">>>>

\* MIGRATIONS
Migrations == <<
    Repeat("create", 7),
    Repeat("create", 2),
    Repeat("create", 6),
    Repeat("create", 3),
    Repeat("alter", 7) \o <<"update", "create">>,
    Repeat("create", 3)>>

SchemaVersion == 6

Statements(versions) == UNION {{<<v, i>> : i \in DOMAIN Migrations[v]} : v \in versions}

NoTransaction == [applied |-> {}, version |-> -1, alerts |-> <<>>]

Nobody == [does |-> "idle", conn |-> 0]

---------------------------------------------------------------------------
(* _apply_migrations *)

Current == IF open = NoTransaction THEN disk ELSE open

\* The statement's effect on the database
Effect(db, step) ==
    LET kind == Migrations[step[1]][step[2]]
    IN [db EXCEPT !.applied = @ \cup {step},
                  !.alerts = IF kind = "update" THEN [i \in DOMAIN @ |-> "resolved"] ELSE @]

Fails(db, step) == Migrations[step[1]][step[2]] = "alter" /\ step \in db.applied

\* does the statement open a transaction?
Opens(kind) == kind = "update"

\* A change goes to the open transaction, if there is one, or to the disk.
Write(db, opens) ==
    IF opens \/ open # NoTransaction THEN open' = db /\ UNCHANGED disk
    ELSE disk' = db /\ UNCHANGED open

\* the connection that looked at the schema is the first of the pool
Ready == process' = "up" /\ created' = 1 /\ idle' = <<1>>

\* init_db: a database that is up to date is left alone
StartProcess ==
    /\ process = "down"
    /\ IF disk.version >= SchemaVersion
       THEN Ready /\ UNCHANGED at
       ELSE /\ process' = "migrating" /\ at' = <<disk.version + 1, 1>>
            /\ UNCHANGED <<idle, created>>
    /\ UNCHANGED <<disk, open, borrower, uses, crashes, torn>>

RunStatement ==
    /\ process = "migrating" /\ at[1] <= SchemaVersion /\ at[2] \in DOMAIN Migrations[at[1]]
    /\ IF Fails(Current, at)
       THEN process' = "failed" /\ open' = NoTransaction /\ UNCHANGED <<disk, at>>
       ELSE /\ Write(Effect(Current, at), Opens(Migrations[at[1]][at[2]]))
            /\ at' = <<at[1], at[2] + 1>>
            /\ UNCHANGED process
    /\ UNCHANGED <<idle, created, borrower, uses, crashes, torn>>

\* PRAGMA user_version
WriteVersion ==
    /\ process = "migrating" /\ at[1] <= SchemaVersion /\ at[2] > Len(Migrations[at[1]])
    /\ Write([Current EXCEPT !.version = at[1]], FALSE)
    /\ at' = <<at[1] + 1, 1>>
    /\ UNCHANGED <<process, idle, created, borrower, uses, crashes, torn>>

CommitMigrations ==
    /\ process = "migrating" /\ at[1] > SchemaVersion
    /\ disk' = Current /\ open' = NoTransaction
    /\ Ready
    /\ UNCHANGED <<at, borrower, uses, crashes, torn>>

\* The process dies at any point, or gives up after an error; the next one finds
\* what had reached the disk.
Die ==
    /\ process # "down"
    /\ crashes < MaxCrashes /\ crashes' = crashes + 1
    /\ process' = "down" /\ open' = NoTransaction
    /\ torn' = (torn \/ (process = "migrating"
                           /\ ((at[1] = 5 /\ at[2] > 1) \/ open # NoTransaction)))
    /\ idle' = <<>> /\ created' = 0 /\ borrower' = [t \in Threads |-> Nobody]
    /\ UNCHANGED <<disk, at, uses>>

---------------------------------------------------------------------------
(* ConnectionPool.acquire and release *)

Asks(t) ==
    /\ process = "up" /\ borrower[t] = Nobody /\ uses < MaxUses
    /\ uses' = uses + 1
    /\ IF idle # <<>>
       THEN /\ borrower' = [borrower EXCEPT ![t] = [does |-> "uses", conn |-> idle[Len(idle)]]]
            /\ idle' = SubSeq(idle, 1, Len(idle) - 1)
       ELSE /\ borrower' = [borrower EXCEPT ![t] = [does |-> "found none", conn |-> 0]]
            /\ UNCHANGED idle
    /\ UNCHANGED <<disk, open, process, at, created, crashes, torn>>

Room == created < PoolSize

\* Under the lock: a new connection, if there is room.
Creates(t) ==
    /\ borrower[t].does = "found none" /\ Room
    /\ created' = created + 1
    /\ borrower' = [borrower EXCEPT ![t] = [does |-> "uses", conn |-> created + 1]]
    /\ UNCHANGED <<disk, open, process, at, idle, uses, crashes, torn>>

\* The database cannot be opened: the error goes to the caller.
CreateFails(t) ==
    /\ borrower[t].does = "found none" /\ Room
    /\ borrower' = [borrower EXCEPT ![t] = Nobody]
    /\ UNCHANGED <<disk, open, process, at, idle, created, uses, crashes, torn>>

\* no room: wait for a connection
Waits(t) ==
    /\ borrower[t].does = "found none" /\ ~Room
    /\ borrower' = [borrower EXCEPT ![t].does = "waits"]
    /\ UNCHANGED <<disk, open, process, at, idle, created, uses, crashes, torn>>

Served(t) ==
    /\ borrower[t].does = "waits" /\ idle # <<>>
    /\ borrower' = [borrower EXCEPT ![t] = [does |-> "uses", conn |-> idle[Len(idle)]]]
    /\ idle' = SubSeq(idle, 1, Len(idle) - 1)
    /\ UNCHANGED <<disk, open, process, at, created, uses, crashes, torn>>

\* a user of the connection raises an alert, or not
UsesConnection(t) ==
    /\ borrower[t].does = "uses" /\ Len(disk.alerts) < MaxDbAlerts
    /\ disk' = [disk EXCEPT !.alerts = Append(@, "active")]
    /\ UNCHANGED <<open, process, at, idle, created, borrower, uses, crashes, torn>>

\* the transaction is rolled back or committed, the connection returned
Releases(t) ==
    /\ borrower[t].does = "uses"
    /\ idle' = Append(idle, borrower[t].conn)
    /\ borrower' = [borrower EXCEPT ![t] = Nobody]
    /\ UNCHANGED <<disk, open, process, at, created, uses, crashes, torn>>

---------------------------------------------------------------------------
\* A database of any version, with an alert in it or without.
DatabaseInit ==
    /\ disk = [applied |-> {}, version |-> 0, alerts |-> <<>>]
    /\ open = NoTransaction /\ process = "down" /\ at = <<1, 1>>
    /\ idle = <<>> /\ created = 0 /\ borrower = [t \in Threads |-> Nobody]
    /\ uses = 0 /\ crashes = 0 /\ torn = FALSE

\* The file was left by an earlier release of the program.
OlderDatabase(v) ==
    /\ process = "down" /\ disk.version = 0 /\ disk.applied = {}
    /\ disk' = [applied |-> Statements(1..v), version |-> v,
                alerts |-> IF v < 5 THEN <<"old">> ELSE <<"active">>]
    /\ UNCHANGED <<open, process, at, idle, created, borrower, uses, crashes, torn>>

ThreadStep(t) ==
    Creates(t) \/ CreateFails(t) \/ Waits(t) \/ Served(t) \/ Releases(t)

DatabaseNext ==
    \/ \E v \in 1..SchemaVersion : OlderDatabase(v)
    \/ StartProcess \/ RunStatement \/ WriteVersion \/ CommitMigrations \/ Die
    \/ \E t \in Threads : Asks(t) \/ UsesConnection(t) \/ ThreadStep(t)

\* The threads go on: they give their connections back, and take what is there.
DatabaseFairness == \A t \in Threads : WF_databaseVars(ThreadStep(t))

DatabaseSpec == DatabaseInit /\ [][DatabaseNext]_databaseVars /\ DatabaseFairness

---------------------------------------------------------------------------
(* Properties *)

\* The shape of the state; the pool never holds more connections than its size.
DatabaseTypeOK ==
    /\ disk.applied \subseteq Statements(1..SchemaVersion)
    /\ disk.version \in 0..SchemaVersion
    /\ process \in {"down", "migrating", "up", "failed"}
    /\ created \in 0..PoolSize /\ Len(idle) <= created

\* A version that is on the disk has all its statements on the disk, so what the
\* requests work with is the whole schema.
VersionIsComplete ==
    /\ Statements(1..disk.version) \subseteq disk.applied
    /\ process = "up" => disk.version = SchemaVersion

\* The migration resolves the alerts it finds, and never one that was raised by
\* the release that knows about alert states.
MigrationSparesNew ==
    [][\A i \in DOMAIN disk.alerts : disk.alerts[i] = "active" => disk'.alerts[i] = "active"]_databaseVars

\* A start fails only when an earlier one died after the first column
\* of migration 5 and before the commit.
FailsOnlyAfterTear == process = "failed" => torn

\* Every connection is idle or with one thread, and none is lost: the count is
\* the number of those there are.
ConnectionsAccounted ==
    LET held == {t \in Threads : borrower[t].does = "uses"}
    IN /\ created = Len(idle) + Cardinality(held)
       /\ \A t \in held, u \in held : t # u => borrower[t].conn # borrower[u].conn
       /\ \A t \in held : \A i \in DOMAIN idle : borrower[t].conn # idle[i]

\* Who waits for a connection gets one, unless the process dies.
WaiterIsServed == \A t \in Threads : borrower[t].does = "waits" ~> borrower[t].does # "waits"

\* Whatever statement a start dies at, the schema is what its version says, and no
\* connection of the pool is lost, so that every waiter gets one.
SchemaAndPoolKept ==
    /\ [](DatabaseTypeOK /\ VersionIsComplete /\ FailsOnlyAfterTear /\ ConnectionsAccounted)
    /\ MigrationSparesNew
    /\ WaiterIsServed
=============================================================================
