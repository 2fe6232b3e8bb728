----------------------------- MODULE PollChannel -----------------------------
(***************************************************************************)
(* A channel of the dashboard's polling (dashboard/src/usePoll.ts): the    *)
(* components that show the same data share one timer and one request.     *)
(* usePoll is called when a component is set up; between that and its      *)
(* mounting another one may be unmounted, as a page takes the place of     *)
(* another.  What the backend answers with is told by how recent it is.    *)
(***************************************************************************)
EXTENDS Integers, FiniteSets

CONSTANTS
    Components,
    IntervalOf,         \* the interval each component asks for
    MaxVersion, MaxTicks    \* bounds: versions of the data, polls

ASSUME PollChannelAssumption ==
    /\ IsFiniteSet(Components) /\ IntervalOf \in [Components -> Nat \ {0}]
    /\ MaxVersion \in Nat /\ MaxTicks \in Nat

VARIABLES
    stage,      \* of each component: out, set up, mounted
    refs,       \* ch.refs
    period,     \* the period of the timer that runs, 0 for none
    interval,   \* ch.intervalMs, 0 before the channel is there
    inflight,   \* the requests under way: the version they bring, -1 before it is read
    displayed,  \* ch.data, -1 before the first answer
    visible,    \* document.visibilityState
    latest,     \* version of the data in the backend
    ticks

channelVars == <<stage, refs, period, interval, inflight, displayed, visible, latest, ticks>>

In(s) == {c \in Components : stage[c] = s}

---------------------------------------------------------------------------
(* _run, _start, _stop *)

\* mutant: a poll does not wait for the one before
RunAnyway == IF Cardinality(inflight) < 2 THEN inflight \cup {<<ticks, -1>>} ELSE inflight

\* a request under way is shared
Run == IF inflight = {} THEN {<<ticks, -1>>} ELSE inflight

\* _stop, then _start with the shorter interval
Restart(i) == i

Poll == inflight' = Run /\ ticks' = ticks + 1

---------------------------------------------------------------------------
(* usePoll *)

\* the first call makes the channel; a later one may shorten its interval, and
\* then starts the timer at once, whether anything is mounted or not
SetUp(c) ==
    /\ stage[c] = "out" /\ ticks < MaxTicks
    /\ stage' = [stage EXCEPT ![c] = "set up"]
    /\ IF interval = 0 \/ IntervalOf[c] >= interval
       THEN /\ interval' = IF interval = 0 THEN IntervalOf[c] ELSE interval
            /\ UNCHANGED <<period, inflight, ticks>>
       ELSE /\ interval' = IntervalOf[c]
            /\ period' = Restart(IntervalOf[c])
            /\ Poll
    /\ UNCHANGED <<refs, displayed, visible, latest>>

\* onMounted: _start does nothing when the timer runs
Mount(c) ==
    /\ stage[c] = "set up" /\ ticks < MaxTicks
    /\ stage' = [stage EXCEPT ![c] = "mounted"]
    /\ refs' = refs + 1
    /\ IF period = 0 THEN period' = interval /\ Poll ELSE UNCHANGED <<period, inflight, ticks>>
    /\ UNCHANGED <<interval, displayed, visible, latest>>

StoppedByLast(left) == IF left <= 0 THEN 0 ELSE period

\* onUnmounted
Unmount(c) ==
    /\ stage[c] = "mounted"
    /\ stage' = [stage EXCEPT ![c] = "out"]
    /\ refs' = refs - 1
    /\ period' = StoppedByLast(refs - 1)
    /\ UNCHANGED <<interval, inflight, displayed, visible, latest, ticks>>

\* the timer, while the page is visible
TimerFires ==
    /\ period # 0 /\ visible /\ ticks < MaxTicks
    /\ Poll
    /\ UNCHANGED <<stage, refs, period, interval, displayed, visible, latest>>

\* refresh and refreshAll, which ask for no component to be mounted
Refresh ==
    /\ interval # 0 /\ ticks < MaxTicks
    /\ Poll
    /\ UNCHANGED <<stage, refs, period, interval, displayed, visible, latest>>

\* visibilitychange: a page that comes back polls at once
Visibility ==
    /\ ticks < MaxTicks
    /\ visible' = ~visible
    /\ IF visible' /\ interval # 0 THEN Poll ELSE inflight' = inflight /\ ticks' = ticks + 1
    /\ UNCHANGED <<stage, refs, period, interval, displayed, latest>>

---------------------------------------------------------------------------
(* The fetcher and the backend: external *)

DataChanges ==
    /\ latest < MaxVersion /\ latest' = latest + 1
    /\ UNCHANGED <<stage, refs, period, interval, inflight, displayed, visible, ticks>>

BackendReads ==
    /\ \E r \in inflight : r[2] = -1 /\ inflight' = (inflight \ {r}) \cup {<<r[1], latest>>}
    /\ UNCHANGED <<stage, refs, period, interval, displayed, visible, latest, ticks>>

\* the promise is settled: an error leaves the data that is displayed
FetchEnds ==
    /\ \E r \in inflight :
          /\ inflight' = inflight \ {r}
          /\ displayed' \in {displayed} \cup (IF r[2] = -1 THEN {} ELSE {r[2]})
    /\ UNCHANGED <<stage, refs, period, interval, visible, latest, ticks>>

---------------------------------------------------------------------------
ChannelInit ==
    /\ stage = [c \in Components |-> "out"] /\ refs = 0 /\ period = 0 /\ interval = 0
    /\ inflight = {} /\ displayed = -1 /\ visible = TRUE /\ latest = 0 /\ ticks = 0

ChannelNext ==
    \/ \E c \in Components : SetUp(c) \/ Mount(c) \/ Unmount(c)
    \/ TimerFires \/ Refresh \/ Visibility
    \/ DataChanges \/ BackendReads \/ FetchEnds

ChannelSpec == ChannelInit /\ [][ChannelNext]_channelVars

---------------------------------------------------------------------------
(* Properties *)

\* A component that is mounted is polled for, however the components before it
\* came and went, and a timer runs for nothing only while one is being set up.
TimerServesMounted ==
    /\ refs = Cardinality(In("mounted"))
    /\ refs > 0 => period # 0
    /\ period # 0 => refs > 0 \/ In("set up") # {}

\* The timer is as fast as the most impatient component that is mounted asks.
FastEnough ==
    \A c \in In("mounted") : period # 0 => period <= IntervalOf[c]

\* What is displayed never gives way to something older, although polls, refreshes
\* and the return of the page ask at the same time.
NeverOlder == [][displayed' >= displayed]_channelVars

\* Whoever looks is polled for, as often as it asks, and never sees time run
\* backwards.
ChannelServesPage ==
    /\ [](TimerServesMounted /\ FastEnough)
    /\ NeverOlder
=============================================================================
