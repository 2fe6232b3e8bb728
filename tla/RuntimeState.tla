---------------------------- MODULE RuntimeState ----------------------------
(***************************************************************************)
(* The state lists of backend/runtime_state.py: a cache in front of a      *)
(* table, one scope of the table to a list.  Each operation changes the    *)
(* cache under the lock of the scope and the table in a transaction that   *)
(* is not under it, so operations of two threads interleave between the    *)
(* two, a transaction may fail, and a restart may fall in between.         *)
(* A key is made of the time and a counter: keys are numbers that grow     *)
(* with every push, and an item is told by its key.                        *)
(***************************************************************************)
EXTENDS Integers, Sequences, FiniteSets

CONSTANTS
    Workers,     \* the threads
    MaxItems,    \* max_items
    MaxPushes, MaxRestarts   \* bounds

ASSUME RuntimeAssumption ==
    /\ IsFiniteSet(Workers)
    /\ MaxItems \in Nat \ {0} /\ MaxPushes \in Nat /\ MaxRestarts \in Nat

VARIABLES
    cache, loaded,   \* _cache and _loaded of the scope
    rows,            \* runtime_state: the keys of the scope, by updated_at
    counter,         \* the last key given
    job,             \* what each thread is doing, and how far it is
    pushed,          \* keys pushed since the list was last cleared (history)
    cleared,         \* keys that were there when a clear began that has ended (history)
    disturbed,       \* operations overlapped that do not commute, or one was cut short (history)
    restarts

runtimeVars == <<cache, loaded, rows, counter, job, pushed, cleared, disturbed, restarts>>

Key == 1..MaxPushes

Idle == [op |-> "idle", key |-> 0, had |-> {}]

\* The MaxItems greatest keys
NewestKeys(keys) == {k \in keys : Cardinality({j \in keys : j > k}) < MaxItems}

Busy(w) == job[w] # Idle

Others(w) == {x \in Workers \ {w} : Busy(x)}

Rows == {rows[i] : i \in 1..Len(rows)}

\* what the table was given last: two threads may write in the order opposite to
\* that of their keys
LatestRows == {rows[i] : i \in {i \in 1..Len(rows) : i > Len(rows) - MaxItems}}

\* _load
Loaded == IF loaded THEN cache ELSE LatestRows

---------------------------------------------------------------------------
(* StateList.push: the key, the cache, the table, the two trims *)

Cached(k) == Loaded \cup {k}

BeginPush(w) ==
    /\ ~Busy(w) /\ counter < MaxPushes
    /\ counter' = counter + 1
    /\ job' = [job EXCEPT ![w] = [op |-> "cache", key |-> counter + 1, had |-> {}]]
    /\ disturbed' = (disturbed \/ \E x \in Others(w) : job[x].op = "clear")
    /\ UNCHANGED <<cache, loaded, rows, pushed, cleared, restarts>>

CachePush(w) ==
    /\ job[w].op = "cache"
    /\ cache' = Cached(job[w].key) /\ loaded' = TRUE
    /\ job' = [job EXCEPT ![w].op = "insert"]
    /\ UNCHANGED <<rows, counter, pushed, cleared, disturbed, restarts>>

InsertRow(w) ==
    /\ job[w].op = "insert"
    /\ rows' = Append(rows, job[w].key)
    /\ pushed' = pushed \cup {job[w].key}
    /\ job' = [job EXCEPT ![w].op = "trim rows"]
    /\ UNCHANGED <<cache, loaded, counter, cleared, disturbed, restarts>>

\* the transaction fails: the error goes to the caller, the cache keeps the key
InsertFails(w) ==
    /\ job[w].op = "insert"
    /\ job' = [job EXCEPT ![w] = Idle]
    /\ disturbed' = TRUE
    /\ UNCHANGED <<cache, loaded, rows, counter, pushed, cleared, restarts>>

\* mutant: the oldest are kept
OldestKeys(keys) == {k \in keys : Cardinality({j \in keys : j < k}) < MaxItems}

Trimmed(keys) == NewestKeys(keys)

\* The n-th of a set of positions
Nth(S, n) == CHOOSE i \in S : Cardinality({j \in S : j < i}) = n - 1

\* The entries of seq that are in keys, in their order
Remaining(seq, keys) ==
    LET kept == {i \in 1..Len(seq) : seq[i] \in keys}
    IN [n \in 1..Cardinality(kept) |-> seq[Nth(kept, n)]]

TrimRows(w) ==
    /\ job[w].op = "trim rows"
    /\ rows' = Remaining(rows, Trimmed(Rows))
    /\ job' = [job EXCEPT ![w].op = "trim cache"]
    /\ UNCHANGED <<cache, loaded, counter, pushed, cleared, disturbed, restarts>>

TrimCache(w) ==
    /\ job[w].op = "trim cache"
    /\ cache' = Trimmed(cache)
    /\ job' = [job EXCEPT ![w] = Idle]
    /\ UNCHANGED <<loaded, rows, counter, pushed, cleared, disturbed, restarts>>

---------------------------------------------------------------------------
(* clear, the readers, a restart *)

ClearLoaded == TRUE

BeginClear(w) ==
    /\ ~Busy(w)
    /\ cache' = {} /\ loaded' = ClearLoaded
    /\ job' = [job EXCEPT ![w] = [op |-> "clear", key |-> 0, had |-> Rows]]
    /\ disturbed' = (disturbed \/ Others(w) # {})
    /\ UNCHANGED <<rows, counter, pushed, cleared, restarts>>

ClearRows(w) ==
    /\ job[w].op = "clear"
    /\ rows' = << >>
    /\ pushed' = {}
    /\ cleared' = cleared \cup job[w].had
    /\ job' = [job EXCEPT ![w] = Idle]
    /\ UNCHANGED <<cache, loaded, counter, disturbed, restarts>>

\* recent, items, len: the first of them after a restart loads the table
ReadList ==
    /\ cache' = Loaded /\ loaded' = TRUE
    /\ UNCHANGED <<rows, counter, job, pushed, cleared, disturbed, restarts>>

\* The threads are gone, what they had done stays: a push that got its row but
\* was not trimmed, or a clear that only reached the cache.  What is loaded is not
\* what trim would keep if too many rows were left in another order than their keys.
RestartState ==
    /\ restarts < MaxRestarts /\ restarts' = restarts + 1
    /\ cache' = {} /\ loaded' = FALSE
    /\ job' = [w \in Workers |-> Idle]
    /\ disturbed' = (LatestRows # NewestKeys(Rows))
    /\ pushed' = IF disturbed THEN Rows ELSE pushed
    /\ UNCHANGED <<rows, counter, cleared>>

---------------------------------------------------------------------------
RuntimeInit ==
    /\ cache = {} /\ loaded = FALSE /\ rows = << >> /\ counter = 0
    /\ job = [w \in Workers |-> Idle]
    /\ pushed = {} /\ cleared = {} /\ disturbed = FALSE /\ restarts = 0

RuntimeNext ==
    \/ \E w \in Workers :
          \/ BeginPush(w) \/ CachePush(w) \/ InsertRow(w) \/ InsertFails(w)
          \/ TrimRows(w) \/ TrimCache(w) \/ BeginClear(w) \/ ClearRows(w)
    \/ ReadList
    \/ RestartState

RuntimeSpec == RuntimeInit /\ [][RuntimeNext]_runtimeVars

---------------------------------------------------------------------------
(* Properties *)

\* The shape of the state.  Cache and table outgrow the limit by no more than
\* the pushes that are under way, and those a restart or an error cut short.
RuntimeTypeOK ==
    /\ cache \subseteq Key /\ rows \in Seq(Key) /\ counter \in 0..MaxPushes
    /\ loaded \in BOOLEAN /\ disturbed \in BOOLEAN
    /\ Len(rows) <= MaxItems + (restarts + 1) * Cardinality(Workers)
    /\ ~disturbed => Cardinality(cache) <= MaxItems + Cardinality(Workers)

\* With no operation under way the cache shows what the table holds, which is
\* the newest of what was pushed, whatever order the threads got to write in.
SettledAgree ==
    (~disturbed /\ \A w \in Workers : ~Busy(w)) =>
        /\ loaded => cache = NewestKeys(Rows)
        /\ NewestKeys(Rows) = NewestKeys(pushed)

\* What a finished clear found is gone for good, after a restart too.
ClearedStaysGone == Rows \cap cleared = {} /\ (~disturbed => cache \cap cleared = {})

\* Cache and table of a list agree when nobody is at work, and what was cleared
\* stays cleared across a restart.
ListsAgree ==
    /\ RuntimeTypeOK
    /\ SettledAgree
    /\ ClearedStaysGone
=============================================================================
