---------------------------- MODULE EdgeCommand ----------------------------
(***************************************************************************)
(* The relay of the ESP32 sensor node (firmware/esp32_dht22): signed       *)
(* commands are verified against a ring of recent nonces, the relay is     *)
(* switched, and a dead-man timer de-energises it when the platform has    *)
(* not been heard for HEARTBEAT_TIMEOUT_MS.                                *)
(*                                                                         *)
(* loop() is single-threaded: connect, receive at most one message, check  *)
(* the timer.  Its calls block (WiFi, NTP, the broker), so time passes     *)
(* within an iteration.  The broker may deliver a command any number of    *)
(* times and at any time (QoS 1).  The node's clocks are NTP time, for the *)
(* stamps of commands, and the millisecond counter, which wraps around.    *)
(***************************************************************************)
EXTENDS Integers, FiniteSets

CONSTANTS
    Commands,     \* signed commands, each with a nonce of its own
    ActionOf,     \* their actions
    Slots,        \* length of recentNonces
    Skew,         \* MAX_CLOCK_SKEW_S
    Drift,        \* bound on the platform's clock drift
    Timeout,      \* HEARTBEAT_TIMEOUT_MS
    Wrap,         \* the modulus of millis()
    MaxIteration, \* bound on the duration of one loop()
    MaxTime,      \* bound on the time modelled
    MaxReboots,   \* bound on restarts
    None          \* no command

Actions == {"heartbeat", "on", "off", "toggle", "unsupported"}

ASSUME EdgeAssumption ==
    /\ IsFiniteSet(Commands) /\ ActionOf \in [Commands -> Actions]
    /\ Slots \in Nat \ {0}
    /\ Skew \in Nat /\ Drift \in Nat /\ Timeout \in Nat /\ MaxIteration \in Nat
    /\ Wrap \in Nat /\ Wrap > Timeout + MaxIteration
    /\ MaxTime \in Nat /\ MaxReboots \in Nat
    /\ None \notin Commands

VARIABLES
    now,            \* the time
    booted,         \* when the node was last started
    iteration,      \* how long the current loop() has taken
    phase,          \* the part of loop() that is next
    wifi, connected, timeSynced,
    issued,         \* commands the platform has sent
    stamp,          \* their issued_at
    recentNonces,   \* slot |-> the command whose nonce it holds
    nonceTimes, nonceCursor,
    relay,          \* RELAY_PIN is energised
    failSafeEngaged,
    lastHeartbeat,  \* in millis()
    contact,        \* when the platform or the broker was last heard
    accepted,       \* how often a command was accepted since the start
    acceptedAt,     \* and when
    reboots

clock == <<now, booted, iteration>>
link == <<wifi, connected, timeSynced>>
platform == <<issued, stamp>>
nonces == <<recentNonces, nonceTimes, nonceCursor>>
switch == <<relay, failSafeEngaged>>
history == <<accepted, acceptedAt>>
timer == <<lastHeartbeat, contact>>
vars == <<clock, phase, link, platform, nonces, switch, timer, history, reboots>>

SlotIds == 0..(Slots - 1)
Never == -1

Millis == (now - booted) % Wrap

---------------------------------------------------------------------------
(* verifyCommand *)

Fresh(c) == now - stamp[c] <= Skew /\ stamp[c] - now <= Skew

Seen(c) == \E i \in SlotIds : recentNonces[i] = c

\* mutant: the boundary of the retention is off by one
ReusableEarly(i) == recentNonces[i] = None \/ now >= nonceTimes[i] + 2 * Skew

\* a nonce is forgotten only when its command is stale for sure
Reusable(i) == recentNonces[i] = None \/ now > nonceTimes[i] + 2 * Skew

Verified(c) == timeSynced /\ ~Seen(c) /\ Fresh(c) /\ Reusable(nonceCursor)

Remember(c) ==
    /\ recentNonces' = [recentNonces EXCEPT ![nonceCursor] = c]
    /\ nonceTimes' = [nonceTimes EXCEPT ![nonceCursor] = now]
    /\ nonceCursor' = (nonceCursor + 1) % Slots

---------------------------------------------------------------------------
(* loop() *)

\* connectWifi; NTP is tried only when WiFi has just come up
ConnectWifi ==
    /\ phase = "connect" /\ ~wifi
    /\ wifi' = TRUE
    /\ timeSynced' \in {timeSynced, TRUE}
    /\ UNCHANGED <<clock, phase, connected, platform, nonces, switch, timer, history, reboots>>

\* connectMqtt: a new connection counts as a heartbeat
ConnectMqtt ==
    /\ phase = "connect" /\ wifi /\ ~connected
    /\ connected' = TRUE
    /\ lastHeartbeat' = Millis /\ contact' = now
    /\ phase' = "receive"
    /\ UNCHANGED <<clock, wifi, timeSynced, platform, nonces, switch, history, reboots>>

\* connected already, or every attempt failed
GoOn ==
    /\ phase = "connect" /\ phase' = "receive"
    /\ UNCHANGED <<clock, link, platform, nonces, switch, timer, history, reboots>>

Switched(action) ==
    CASE action = "on" -> TRUE
      [] action = "off" -> FALSE
      [] action = "toggle" -> ~relay
      [] OTHER -> relay

\* releaseFailSafe and the action
Act(action) == relay' = Switched(action) /\ failSafeEngaged' = FALSE

\* onCommand, of a command that is verified
Receive(c) ==
    /\ phase = "receive" /\ connected /\ c \in issued
    /\ Verified(c)
    /\ Remember(c)
    /\ lastHeartbeat' = Millis /\ contact' = now
    /\ Act(ActionOf[c])
    /\ accepted' = [accepted EXCEPT ![c] = @ + 1]
    /\ acceptedAt' = [acceptedAt EXCEPT ![c] = now]
    /\ phase' = "check"
    /\ UNCHANGED <<clock, link, platform, reboots>>

\* no message, or one that verifyCommand refuses
ReceiveNothing ==
    /\ phase = "receive" /\ phase' = "check"
    /\ UNCHANGED <<clock, link, platform, nonces, switch, timer, history, reboots>>

\* mutant: the deadline is computed first and wraps around
DeadlinePassed == Millis > (lastHeartbeat + Timeout) % Wrap

\* the unsigned difference of two readings of millis()
Expired == (Millis + Wrap - lastHeartbeat) % Wrap > Timeout

\* applyFailSafe acts once until it is released
Check ==
    /\ phase = "check" /\ phase' = "connect"
    /\ IF Expired /\ ~failSafeEngaged
       THEN relay' = FALSE /\ failSafeEngaged' = TRUE
       ELSE UNCHANGED switch
    /\ iteration' = 0
    /\ UNCHANGED <<now, booted, link, platform, nonces, timer, history, reboots>>

---------------------------------------------------------------------------
(* The world around the node *)

Tick ==
    /\ now < MaxTime /\ iteration < MaxIteration
    /\ now' = now + 1 /\ iteration' = iteration + 1
    /\ UNCHANGED <<booted, phase, link, platform, nonces, switch, timer, history, reboots>>

Issue(c) ==
    /\ c \notin issued
    /\ issued' = issued \cup {c}
    /\ \E d \in (-Drift)..Drift : stamp' = [stamp EXCEPT ![c] = now + d]
    /\ UNCHANGED <<clock, phase, link, nonces, switch, timer, history, reboots>>

WifiDrops ==
    /\ wifi /\ wifi' = FALSE /\ connected' = FALSE
    /\ UNCHANGED <<clock, phase, timeSynced, platform, nonces, switch, timer, history, reboots>>

BrokerDrops ==
    /\ connected /\ connected' = FALSE
    /\ UNCHANGED <<clock, phase, wifi, timeSynced, platform, nonces, switch, timer, history, reboots>>

Started ==
    /\ iteration' = 0 /\ phase' = "connect"
    /\ wifi' = FALSE /\ connected' = FALSE /\ timeSynced' = FALSE
    /\ recentNonces' = [i \in SlotIds |-> None]
    /\ nonceTimes' = [i \in SlotIds |-> 0] /\ nonceCursor' = 0
    /\ relay' = FALSE /\ failSafeEngaged' = FALSE
    /\ lastHeartbeat' = 0 /\ contact' = now
    /\ accepted' = [c \in Commands |-> 0]
    /\ acceptedAt' = [c \in Commands |-> Never]

\* setup() after a restart: everything in RAM is gone
Reboot ==
    /\ reboots < MaxReboots /\ reboots' = reboots + 1
    /\ Started
    /\ booted' = now
    /\ UNCHANGED <<now, platform>>

---------------------------------------------------------------------------
Init ==
    /\ now = 0 /\ booted = 0 /\ iteration = 0 /\ phase = "connect"
    /\ wifi = FALSE /\ connected = FALSE /\ timeSynced = FALSE
    /\ issued = {} /\ stamp = [c \in Commands |-> 0]
    /\ recentNonces = [i \in SlotIds |-> None]
    /\ nonceTimes = [i \in SlotIds |-> 0] /\ nonceCursor = 0
    /\ relay = FALSE /\ failSafeEngaged = FALSE
    /\ lastHeartbeat = 0 /\ contact = 0
    /\ accepted = [c \in Commands |-> 0]
    /\ acceptedAt = [c \in Commands |-> Never]
    /\ reboots = 0

Loop ==
    \/ ConnectWifi \/ ConnectMqtt \/ GoOn
    \/ (\E c \in issued : Receive(c)) \/ ReceiveNothing
    \/ Check

World == Tick \/ (\E c \in Commands : Issue(c)) \/ WifiDrops \/ BrokerDrops

Next == Loop \/ World \/ Reboot

Spec == Init /\ [][Next]_vars

---------------------------------------------------------------------------
(* Properties *)

\* The shape of the node's state.
TypeOK ==
    /\ now \in 0..MaxTime /\ booted \in 0..now /\ contact \in booted..now
    /\ iteration \in 0..MaxIteration
    /\ phase \in {"connect", "receive", "check"}
    /\ wifi \in BOOLEAN /\ connected \in BOOLEAN /\ timeSynced \in BOOLEAN
    /\ issued \subseteq Commands /\ stamp \in [Commands -> (-Drift)..(MaxTime + Drift)]
    /\ recentNonces \in [SlotIds -> Commands \cup {None}]
    /\ nonceTimes \in [SlotIds -> 0..now] /\ nonceCursor \in SlotIds
    /\ relay \in BOOLEAN /\ failSafeEngaged \in BOOLEAN
    /\ lastHeartbeat \in 0..(Wrap - 1)
    /\ accepted \in [Commands -> Nat] /\ acceptedAt \in [Commands -> Never..now]
    /\ reboots \in 0..MaxReboots

\* However often the broker delivers a command, and although the ring holds a
\* few nonces only, the node carries it out at most once between two starts.
AcceptedOnce == \A c \in Commands : accepted[c] <= 1

\* The relay never stays energised without the platform, or at least the
\* broker, having been heard: a wrap of millis() hides no silence.
RelayNeedsContact == relay => now - contact <= Timeout + MaxIteration

\* While the fail-safe is engaged the relay is de-energised, so that it need
\* not be switched off again.
EngagedIsOff == failSafeEngaged => ~relay

Recent == {c \in Commands : acceptedAt[c] # Never /\ now <= acceptedAt[c] + 2 * Skew}

\* A full ring refuses a command only when as many commands as it has slots
\* were accepted within the retention time.
RoomUnlessBusy == Cardinality(Recent) < Slots => Reusable(nonceCursor)

\* The ring of nonces keeps repeated commands out, and no others: it forgets
\* neither too early nor too late.
ReplaysRefused ==
    /\ AcceptedOnce
    /\ RoomUnlessBusy

\* The fail-safe has the relay off whenever nobody has been heard for long.
RelayIsSafe ==
    /\ RelayNeedsContact
    /\ EngagedIsOff
===========================================================================
