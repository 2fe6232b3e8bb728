------------------------- MODULE EdgeCommandProofs -------------------------
(***************************************************************************)
(* Theorems about EdgeCommand, for any number of slots, commands, clocks   *)
(* and timeouts that satisfy EdgeAssumption.                               *)
(***************************************************************************)
EXTENDS EdgeCommand, FiniteSetTheorems, TLAPS

USE DEF clock, link, platform, nonces, switch, timer, history

\* A command was accepted at most once, before its stamp was too old, and its
\* nonce is still in the ring unless its stamp is too old by now.
CommandInv(c) ==
    /\ accepted[c] = 0 \/ accepted[c] = 1
    /\ accepted[c] = 1 =>
          /\ c \in issued /\ acceptedAt[c] \in 0..now
          /\ stamp[c] <= acceptedAt[c] + Skew
          /\ \/ \E i \in SlotIds : recentNonces[i] = c /\ nonceTimes[i] = acceptedAt[c]
             \/ now > acceptedAt[c] + 2 * Skew

\* The relay was found to be in time when loop() last looked, and millis() is
\* the true time of the last contact, modulo Wrap.
TimerInv ==
    /\ lastHeartbeat = (contact - booted) % Wrap
    /\ relay => now - contact <= Timeout + iteration

Inv ==
    /\ TypeOK
    /\ \A c \in Commands : CommandInv(c)
    /\ TimerInv
    /\ EngagedIsOff

---------------------------------------------------------------------------
LEMMA MillisType == TypeOK => Millis \in 0..(Wrap - 1)
<1>1. Wrap \in Nat \ {0}
  BY EdgeAssumption
<1> QED BY <1>1, EdgeAssumption DEF TypeOK, Millis

\* The unsigned difference of two counter readings is the time between them,
\* if that is less than a wrap.
LEMMA Remainder ==
    ASSUME NEW w \in Nat \ {0}, NEW q \in Nat, NEW x \in 0..(w - 1)
    PROVE  (w * q + x) % w = x
OBVIOUS

LEMMA DifferenceOfParts ==
    ASSUME NEW w \in Nat \ {0}, NEW a \in Nat, NEW b \in Nat, NEW q \in Nat,
           NEW r \in 0..(w - 1), NEW d \in 0..(w - 1), b = w * q + r, d = a - b
    PROVE  ((a % w) + w - r) % w = d
<1>1. (w * 0 + d) % w = d /\ (w * 1 + d) % w = d
  BY Remainder
<1>2. a = w * q + (r + d)
  OBVIOUS
<1>3. CASE r + d < w
  <2>1. r + d \in 0..(w - 1)
    BY <1>3
  <2>2. a % w = r + d
    BY <1>2, <2>1, Remainder
  <2>3. (a % w) + w - r = w * 1 + d
    BY <2>2
  <2> QED BY <1>1, <2>3
<1>4. CASE r + d >= w
  <2>1. r + d - w \in 0..(w - 1) /\ q + 1 \in Nat
    BY <1>4
  <2>2. w * (q + 1) + (r + d - w) = w * q + (r + d)
    OBVIOUS
  <2>3. a % w = r + d - w
    <3>1. (w * (q + 1) + (r + d - w)) % w = r + d - w
      BY <2>1, Remainder
    <3>2. a = w * (q + 1) + (r + d - w)
      BY <1>2, <2>2
    <3> QED BY <3>1, <3>2
  <2>4. (a % w) + w - r = w * 0 + d
    BY <2>3
  <2> QED BY <1>1, <2>4
<1> QED BY <1>3, <1>4

LEMMA UnsignedDifference ==
    ASSUME NEW w \in Nat \ {0}, NEW a \in Nat, NEW b \in Nat, a >= b, a - b < w
    PROVE  ((a % w) + w - (b % w)) % w = a - b
<1>1. b \div w \in Nat /\ b % w \in 0..(w - 1) /\ b = w * (b \div w) + (b % w)
  BY SMT
<1>2. a - b \in 0..(w - 1)
  OBVIOUS
<1> QED BY <1>1, <1>2, DifferenceOfParts, ZenonT(30)

LEMMA InitInv == Init => Inv
<1> SUFFICES ASSUME Init PROVE Inv
  OBVIOUS
<1>1. 0 % Wrap = 0
  BY EdgeAssumption
<1>2. TypeOK
  <2>1. 0 \in SlotIds /\ Wrap > 0 /\ 0 \in (-Drift)..(MaxTime + Drift)
    BY EdgeAssumption DEF SlotIds
  <2>2. now \in 0..MaxTime /\ booted \in 0..now /\ contact \in booted..now
        /\ iteration \in 0..MaxIteration /\ reboots \in 0..MaxReboots /\ lastHeartbeat \in 0..(Wrap - 1)
    BY EdgeAssumption, <2>1 DEF Init
  <2>3. stamp \in [Commands -> (-Drift)..(MaxTime + Drift)]
    BY <2>1 DEF Init
  <2>4. recentNonces \in [SlotIds -> Commands \cup {None}] /\ nonceTimes \in [SlotIds -> 0..now]
        /\ nonceCursor \in SlotIds
    BY <2>1, <2>2 DEF Init
  <2>5. accepted \in [Commands -> Nat] /\ acceptedAt \in [Commands -> Never..now]
    BY <2>1, <2>2 DEF Init, Never
  <2> QED BY <2>2, <2>3, <2>4, <2>5 DEF Init, TypeOK
<1> QED BY <1>1, <1>2, EdgeAssumption DEF Init, Inv, CommandInv, TimerInv, EngagedIsOff

---------------------------------------------------------------------------
(* Receive *)

LEMMA ReceiveStep ==
    ASSUME Inv, NEW c \in issued, Receive(c)
    PROVE  Inv'
<1>1. c \in Commands
  BY DEF Inv, TypeOK
<1>2. /\ recentNonces' = [recentNonces EXCEPT ![nonceCursor] = c]
      /\ nonceTimes' = [nonceTimes EXCEPT ![nonceCursor] = now]
      /\ nonceCursor' = (nonceCursor + 1) % Slots
      /\ accepted' = [accepted EXCEPT ![c] = @ + 1]
      /\ acceptedAt' = [acceptedAt EXCEPT ![c] = now]
      /\ lastHeartbeat' = Millis /\ contact' = now
      /\ failSafeEngaged' = FALSE /\ relay' = Switched(ActionOf[c])
      /\ phase' = "check"
      /\ UNCHANGED <<clock, link, platform, reboots>>
  BY DEF Receive, Remember, Act
<1>3. nonceCursor \in SlotIds /\ nonceCursor' \in SlotIds
  BY <1>2, EdgeAssumption DEF Inv, TypeOK, SlotIds
<1>4. relay' \in BOOLEAN
  <2>1. ActionOf[c] \in Actions /\ relay \in BOOLEAN
    BY <1>1, EdgeAssumption DEF Inv, TypeOK
  <2>2. Switched(ActionOf[c]) \in BOOLEAN
    BY <2>1 DEF Switched, Actions
  <2> QED BY <1>2, <2>2
<1>5. TypeOK'
  <2>1. /\ recentNonces' \in [SlotIds -> Commands \cup {None}]
        /\ nonceTimes' \in [SlotIds -> 0..now]
    BY <1>1, <1>2, <1>3 DEF Inv, TypeOK
  <2>2. accepted' \in [Commands -> Nat] /\ acceptedAt' \in [Commands -> Never..now]
    BY <1>1, <1>2 DEF Inv, TypeOK, Never
  <2>3. lastHeartbeat' \in 0..(Wrap - 1) /\ contact' \in booted..now
    BY <1>2, MillisType DEF Inv, TypeOK
  <2> QED BY <1>2, <1>3, <1>4, <2>1, <2>2, <2>3 DEF Inv, TypeOK
<1>6. accepted[c] = 0
  <2>1. ~Seen(c) /\ Fresh(c)
    BY DEF Receive, Verified
  <2>2. SUFFICES ASSUME accepted[c] = 1 PROVE FALSE
    BY <1>1 DEF Inv, CommandInv
  <2>3. now > acceptedAt[c] + 2 * Skew /\ stamp[c] <= acceptedAt[c] + Skew /\ acceptedAt[c] \in 0..now
    BY <1>1, <2>1, <2>2 DEF Inv, CommandInv, Seen
  <2>4. now - stamp[c] <= Skew /\ stamp[c] \in Int /\ now \in Int
    BY <1>1, <2>1, EdgeAssumption DEF Fresh, Inv, TypeOK
  <2> QED BY <2>3, <2>4, EdgeAssumption
<1>7. ASSUME NEW d \in Commands PROVE CommandInv(d)'
  <2>1. CASE d = c
    <3>1. accepted'[c] = 1 /\ acceptedAt'[c] = now /\ now' = now /\ c \in issued' /\ stamp'[c] = stamp[c]
      BY <1>1, <1>2, <1>6 DEF Inv, TypeOK
    <3>2. recentNonces'[nonceCursor] = c /\ nonceTimes'[nonceCursor] = now
      BY <1>2, <1>3 DEF Inv, TypeOK
    <3>3. stamp[c] <= now + Skew /\ now \in 0..now
      <4>1. Fresh(c)
        BY DEF Receive, Verified
      <4> QED BY <1>1, <4>1, EdgeAssumption DEF Fresh, Inv, TypeOK
    <3> QED BY <1>3, <2>1, <3>1, <3>2, <3>3 DEF CommandInv
  <2>2. CASE d # c
    <3>1. CommandInv(d)
      BY DEF Inv
    <3>2. accepted'[d] = accepted[d] /\ acceptedAt'[d] = acceptedAt[d]
      BY <1>1, <1>2, <2>2 DEF Inv, TypeOK
    <3>3. UNCHANGED <<now, issued, stamp>>
      BY <1>2
    <3>4. ASSUME NEW i \in SlotIds, recentNonces[i] = d, nonceTimes[i] = acceptedAt[d]
          PROVE  \/ recentNonces'[i] = d /\ nonceTimes'[i] = acceptedAt[d]
                 \/ now > acceptedAt[d] + 2 * Skew
      <4>1. CASE i = nonceCursor
        <5>1. recentNonces[i] # None
          BY <3>4, EdgeAssumption
        <5>2. Reusable(nonceCursor)
          BY DEF Receive, Verified
        <5> QED BY <3>4, <4>1, <5>1, <5>2 DEF Reusable
      <4>2. CASE i # nonceCursor
        BY <1>2, <1>3, <3>4, <4>2 DEF Inv, TypeOK
      <4> QED BY <4>1, <4>2
    <3> QED BY <3>1, <3>2, <3>3, <3>4 DEF CommandInv
  <2> QED BY <2>1, <2>2
<1>8. TimerInv'
  BY <1>2, EdgeAssumption DEF Inv, TypeOK, TimerInv, Millis
<1>9. EngagedIsOff'
  BY <1>2 DEF EngagedIsOff
<1> QED BY <1>5, <1>7, <1>8, <1>9 DEF Inv

---------------------------------------------------------------------------
(* Check *)

LEMMA CheckStep ==
    ASSUME Inv, Check
    PROVE  Inv'
<1>1. /\ iteration' = 0 /\ phase' = "connect"
      /\ UNCHANGED <<now, booted, link, platform, nonces, timer, history, reboots>>
      /\ \/ Expired /\ ~failSafeEngaged /\ relay' = FALSE /\ failSafeEngaged' = TRUE
         \/ ~(Expired /\ ~failSafeEngaged) /\ relay' = relay /\ failSafeEngaged' = failSafeEngaged
  BY DEF Check
<1>2. TypeOK'
  <2>1. 0 \in 0..MaxIteration
    BY EdgeAssumption
  <2>2. relay' \in BOOLEAN /\ failSafeEngaged' \in BOOLEAN
    BY <1>1, Zenon DEF Inv, TypeOK
  <2> QED BY <1>1, <2>1, <2>2 DEF Inv, TypeOK
<1>3. ASSUME NEW c \in Commands PROVE CommandInv(c)'
  BY <1>1 DEF Inv, CommandInv
<1>4. EngagedIsOff'
  BY <1>1 DEF Inv, EngagedIsOff
<1>5. TimerInv'
  <2>1. CASE Expired /\ ~failSafeEngaged
    BY <1>1, <2>1 DEF Inv, TimerInv
  <2>2. CASE ~(Expired /\ ~failSafeEngaged)
    <3> SUFFICES ASSUME relay PROVE now - contact <= Timeout
      BY <1>1, <2>2, EdgeAssumption DEF Inv, TypeOK, TimerInv
    <3>1. ~Expired
      BY <2>2 DEF Inv, EngagedIsOff
    <3>2. now - contact <= Timeout + iteration /\ lastHeartbeat = (contact - booted) % Wrap
      BY DEF Inv, TimerInv
    <3>3. iteration <= MaxIteration /\ booted \in Nat /\ contact \in Nat /\ now \in Nat
          /\ booted <= contact /\ contact <= now /\ iteration \in Nat
      BY EdgeAssumption DEF Inv, TypeOK
    <3> DEFINE a == now - booted
               b == contact - booted
    <3>4. a \in Nat /\ b \in Nat /\ a >= b /\ a - b = now - contact /\ a - b < Wrap
      BY <3>2, <3>3, EdgeAssumption
    <3>5. ((a % Wrap) + Wrap - (b % Wrap)) % Wrap = a - b
      <4>1. Wrap \in Nat \ {0}
        BY EdgeAssumption
      <4> HIDE DEF a, b
      <4> QED BY <3>4, <4>1, UnsignedDifference
    <3>6. ~(((a % Wrap) + Wrap - (b % Wrap)) % Wrap > Timeout)
      BY <3>1, <3>2 DEF Expired, Millis
    <3> HIDE DEF a, b
    <3> QED BY <3>3, <3>4, <3>5, <3>6, EdgeAssumption
  <2> QED BY <2>1, <2>2
<1> QED BY <1>2, <1>3, <1>4, <1>5 DEF Inv

---------------------------------------------------------------------------
(* The other steps *)

LEMMA ConnectStep ==
    ASSUME Inv, ConnectWifi \/ ConnectMqtt \/ GoOn \/ ReceiveNothing \/ WifiDrops \/ BrokerDrops
    PROVE  Inv'
<1>1. /\ UNCHANGED <<clock, platform, nonces, switch, history, reboots>>
      /\ \/ UNCHANGED timer
         \/ lastHeartbeat' = Millis /\ contact' = now
      /\ phase' \in {"connect", "receive", "check"}
      /\ wifi' \in BOOLEAN /\ connected' \in BOOLEAN /\ timeSynced' \in BOOLEAN
  BY DEF ConnectWifi, ConnectMqtt, GoOn, ReceiveNothing, WifiDrops, BrokerDrops, Inv, TypeOK
<1>2. TypeOK'
  BY <1>1, MillisType, EdgeAssumption DEF Inv, TypeOK
<1>3. ASSUME NEW c \in Commands PROVE CommandInv(c)'
  BY <1>1 DEF Inv, CommandInv
<1>4. TimerInv'
  BY <1>1, EdgeAssumption DEF Inv, TypeOK, TimerInv, Millis
<1> QED BY <1>1, <1>2, <1>3, <1>4 DEF Inv, EngagedIsOff

LEMMA TickStep ==
    ASSUME Inv, Tick
    PROVE  Inv'
<1>1. /\ now < MaxTime /\ iteration < MaxIteration
      /\ now' = now + 1 /\ iteration' = iteration + 1
      /\ UNCHANGED <<booted, phase, link, platform, nonces, switch, timer, history, reboots>>
  BY DEF Tick
<1>2. TypeOK'
  <2>1. now' \in 0..MaxTime /\ booted' \in 0..now' /\ contact' \in booted'..now'
        /\ iteration' \in 0..MaxIteration
    BY <1>1, EdgeAssumption DEF Inv, TypeOK
  <2>2. nonceTimes' \in [SlotIds -> 0..now'] /\ acceptedAt' \in [Commands -> Never..now']
    <3>1. 0..now \subseteq 0..now' /\ Never..now \subseteq Never..now'
      BY <1>1, EdgeAssumption DEF Inv, TypeOK, Never
    <3> QED BY <1>1, <3>1 DEF Inv, TypeOK
  <2> QED BY <1>1, <2>1, <2>2 DEF Inv, TypeOK
<1>3. ASSUME NEW c \in Commands PROVE CommandInv(c)'
  <2>1. CommandInv(c)
    BY DEF Inv
  <2>2. acceptedAt[c] \in Int /\ now \in Nat
    BY EdgeAssumption DEF Inv, TypeOK, Never
  <2> QED BY <1>1, <2>1, <2>2, EdgeAssumption DEF CommandInv
<1>4. TimerInv'
  BY <1>1, EdgeAssumption DEF Inv, TypeOK, TimerInv
<1> QED BY <1>1, <1>2, <1>3, <1>4 DEF Inv, EngagedIsOff

LEMMA IssueStep ==
    ASSUME Inv, NEW c \in Commands, Issue(c)
    PROVE  Inv'
<1>1. PICK d \in (-Drift)..Drift : stamp' = [stamp EXCEPT ![c] = now + d]
  BY DEF Issue
<1>2. /\ c \notin issued /\ issued' = issued \cup {c}
      /\ UNCHANGED <<clock, phase, link, nonces, switch, timer, history, reboots>>
  BY DEF Issue
<1>3. TypeOK'
  BY <1>1, <1>2, EdgeAssumption DEF Inv, TypeOK
<1>4. ASSUME NEW e \in Commands PROVE CommandInv(e)'
  <2>1. CommandInv(e)
    BY DEF Inv
  <2>2. e \in issued => stamp'[e] = stamp[e]
    BY <1>1, <1>2 DEF Inv, TypeOK
  <2> QED BY <1>2, <2>1, <2>2 DEF CommandInv
<1>5. TimerInv'
  BY <1>2 DEF Inv, TimerInv
<1> QED BY <1>2, <1>3, <1>4, <1>5 DEF Inv, EngagedIsOff

LEMMA RebootStep ==
    ASSUME Inv, Reboot
    PROVE  Inv'
<1>1. /\ reboots < MaxReboots /\ reboots' = reboots + 1 /\ booted' = now
      /\ UNCHANGED <<now, platform>>
      /\ Started
  BY DEF Reboot
<1>2. TypeOK'
  <2>1. 0 \in SlotIds /\ 0 \in 0..(Wrap - 1) /\ 0 \in 0..MaxIteration
    BY EdgeAssumption DEF SlotIds
  <2>2. now \in 0..now /\ now \in now..now /\ 0 \in 0..now /\ Never \in Never..now
    BY EdgeAssumption DEF Inv, TypeOK, Never
  <2>3. reboots' \in 0..MaxReboots
    BY <1>1, EdgeAssumption DEF Inv, TypeOK
  <2>4. /\ recentNonces' \in [SlotIds -> Commands \cup {None}]
        /\ nonceTimes' \in [SlotIds -> 0..now']
        /\ accepted' \in [Commands -> Nat] /\ acceptedAt' \in [Commands -> Never..now']
    BY <1>1, <2>2 DEF Started
  <2> QED BY <1>1, <2>1, <2>2, <2>3, <2>4 DEF Started, Inv, TypeOK
<1>3. ASSUME NEW c \in Commands PROVE CommandInv(c)'
  BY <1>1 DEF Started, CommandInv
<1>4. TimerInv'
  <2>1. (now - now) % Wrap = 0
    BY EdgeAssumption DEF Inv, TypeOK
  <2> QED BY <1>1, <2>1 DEF Started, TimerInv
<1>5. EngagedIsOff'
  BY <1>1 DEF Started, EngagedIsOff
<1> QED BY <1>2, <1>3, <1>4, <1>5 DEF Inv

LEMMA Invariant == Spec => []Inv
<1>1. Inv /\ UNCHANGED vars => Inv'
  BY DEF vars, Inv, TypeOK, CommandInv, TimerInv, EngagedIsOff
<1>2. Inv /\ [Next]_vars => Inv'
  BY <1>1, ReceiveStep, CheckStep, ConnectStep, TickStep, IssueStep, RebootStep
     DEF Next, Loop, World
<1> QED BY InitInv, <1>2, PTL DEF Spec

---------------------------------------------------------------------------
(* The ring is written in the order of its slots, starting over at the end. *)

\* slot i was, or would have been, written no later than slot j
Older(i, j) == (i <= j /\ (j < nonceCursor \/ i >= nonceCursor)) \/ (i >= nonceCursor /\ j < nonceCursor)

RingInv ==
    /\ \A i \in SlotIds : recentNonces[i] # None => acceptedAt[recentNonces[i]] = nonceTimes[i]
    /\ \A i, j \in SlotIds :
          recentNonces[i] # None /\ recentNonces[i] = recentNonces[j] => i = j
    /\ \A i, j \in SlotIds :
          Older(i, j) /\ recentNonces[i] # None =>
              recentNonces[j] # None /\ nonceTimes[i] <= nonceTimes[j]

ringVars == <<nonces, acceptedAt>>

LEMMA RingReceive ==
    ASSUME Inv, RingInv, NEW c \in issued, Receive(c)
    PROVE  RingInv'
<1> DEFINE k == nonceCursor
<1>1. c \in Commands /\ k \in SlotIds
  BY DEF Inv, TypeOK
<1>2. /\ recentNonces' = [recentNonces EXCEPT ![k] = c]
      /\ nonceTimes' = [nonceTimes EXCEPT ![k] = now]
      /\ nonceCursor' = (k + 1) % Slots
      /\ acceptedAt' = [acceptedAt EXCEPT ![c] = now]
      /\ \A i \in SlotIds : recentNonces[i] # c
  BY DEF Receive, Remember, Verified, Seen
<1>3. /\ recentNonces'[k] = c /\ nonceTimes'[k] = now /\ c # None
      /\ \A i \in SlotIds : i # k => recentNonces'[i] = recentNonces[i] /\ nonceTimes'[i] = nonceTimes[i]
  BY <1>1, <1>2, EdgeAssumption DEF Inv, TypeOK
<1>4. ASSUME NEW i \in SlotIds, recentNonces'[i] # None
      PROVE  acceptedAt'[recentNonces'[i]] = nonceTimes'[i]
  <2>1. CASE i = k
    BY <1>1, <1>2, <1>3, <2>1 DEF Inv, TypeOK
  <2>2. CASE i # k
    <3>1. recentNonces'[i] = recentNonces[i] /\ recentNonces[i] \in Commands /\ recentNonces[i] # c
      BY <1>2, <1>3, <1>4, <2>2 DEF Inv, TypeOK
    <3>2. acceptedAt'[recentNonces[i]] = acceptedAt[recentNonces[i]]
      BY <1>2, <3>1 DEF Inv, TypeOK
    <3> QED BY <1>3, <1>4, <2>2, <3>1, <3>2 DEF RingInv
  <2> QED BY <2>1, <2>2
<1>5. ASSUME NEW i \in SlotIds, NEW j \in SlotIds,
             recentNonces'[i] # None, recentNonces'[i] = recentNonces'[j]
      PROVE  i = j
  BY <1>2, <1>3, <1>5 DEF RingInv
<1>6. ASSUME NEW i \in SlotIds, NEW j \in SlotIds, Older(i, j)', recentNonces'[i] # None
      PROVE  recentNonces'[j] # None /\ nonceTimes'[i] <= nonceTimes'[j]
  <2>1. nonceCursor' = IF k + 1 = Slots THEN 0 ELSE k + 1
    BY <1>1, <1>2, EdgeAssumption DEF SlotIds
  <2>2. CASE j = k
    <3>1. nonceTimes'[i] <= now
      <4>1. \A n \in SlotIds : nonceTimes[n] <= now
        BY DEF Inv, TypeOK
      <4>2. now <= now
        BY DEF Inv, TypeOK
      <4> QED BY <1>3, <4>1, <4>2
    <3> QED BY <1>3, <2>2, <3>1
  <2>3. CASE j # k
    <3>1. i # k /\ Older(i, j)
      BY <1>1, <1>6, <2>1, <2>3, EdgeAssumption DEF Older, SlotIds
    <3> QED BY <1>3, <1>6, <2>3, <3>1 DEF RingInv
  <2> QED BY <2>2, <2>3
<1> QED BY <1>4, <1>5, <1>6 DEF RingInv

LEMMA RingInvariant == Spec => []RingInv
<1>1. Init => RingInv
  BY DEF Init, RingInv
<1>2. Inv /\ RingInv /\ [Next]_vars => RingInv'
  <2>1. UNCHANGED ringVars /\ RingInv => RingInv'
    BY DEF ringVars, RingInv, Older
  <2>2. Reboot => RingInv'
    BY DEF Reboot, Started, RingInv
  <2>3. [Next]_vars => UNCHANGED ringVars \/ Reboot \/ \E c \in issued : Receive(c)
    BY DEF Next, Loop, World, vars, ringVars, ConnectWifi, ConnectMqtt, GoOn, ReceiveNothing,
           Check, Tick, Issue, WifiDrops, BrokerDrops
  <2> QED BY <2>1, <2>2, <2>3, RingReceive
<1> QED BY <1>1, <1>2, Invariant, PTL DEF Spec

---------------------------------------------------------------------------
(* The theorems *)

\* Every reachable state of the node is well typed.
THEOREM TypeCorrect == Spec => []TypeOK
<1>1. Inv => TypeOK
  BY DEF Inv
<1> QED BY <1>1, Invariant, PTL

\* A ring of any size, with any skew, lets no command through twice.
THEOREM AcceptedOnceHolds == Spec => []AcceptedOnce
<1>1. Inv => AcceptedOnce
  BY DEF Inv, CommandInv, AcceptedOnce
<1> QED BY <1>1, Invariant, PTL

\* The dead-man timer holds across wraps of millis().
THEOREM RelayNeedsContactHolds == Spec => []RelayNeedsContact
<1>1. Inv => RelayNeedsContact
  BY EdgeAssumption DEF Inv, TypeOK, TimerInv, RelayNeedsContact
<1> QED BY <1>1, Invariant, PTL

\* An engaged fail-safe means a de-energised relay.
THEOREM EngagedIsOffHolds == Spec => []EngagedIsOff
<1>1. Inv => EngagedIsOff
  BY DEF Inv
<1> QED BY <1>1, Invariant, PTL

\* As long as fewer commands than slots were accepted within the retention
\* time, the ring has room for another one.
THEOREM RoomUnlessBusyHolds == Spec => []RoomUnlessBusy
<1>1. Inv /\ RingInv => RoomUnlessBusy
  <2> SUFFICES ASSUME Inv, RingInv, Cardinality(Recent) < Slots, ~Reusable(nonceCursor)
               PROVE  FALSE
    BY DEF RoomUnlessBusy
  <2>1. nonceCursor \in SlotIds
    BY DEF Inv, TypeOK
  <2>2. recentNonces[nonceCursor] # None /\ now <= nonceTimes[nonceCursor] + 2 * Skew
    BY <2>1, EdgeAssumption DEF Reusable, Inv, TypeOK
  <2>3. ASSUME NEW i \in SlotIds PROVE recentNonces[i] \in Recent
    <3>1. Older(nonceCursor, i)
      BY <2>1, EdgeAssumption DEF Older, SlotIds
    <3>2. recentNonces[i] # None /\ nonceTimes[nonceCursor] <= nonceTimes[i]
      BY <2>1, <2>2, <3>1 DEF RingInv
    <3>3. recentNonces[i] \in Commands /\ acceptedAt[recentNonces[i]] = nonceTimes[i]
      BY <3>2 DEF RingInv, Inv, TypeOK
    <3>4. nonceTimes[i] \in Nat /\ nonceTimes[nonceCursor] \in Nat /\ now \in Nat /\ Skew \in Nat
      BY <2>1, EdgeAssumption DEF Inv, TypeOK
    <3>5. nonceTimes[i] # Never /\ now <= nonceTimes[i] + 2 * Skew
      BY <2>2, <3>2, <3>4 DEF Never
    <3> QED BY <3>3, <3>5 DEF Recent
  <2>4. recentNonces \in [SlotIds -> Recent]
    BY <2>3 DEF Inv, TypeOK
  <2>5. IsFiniteSet(SlotIds) /\ Cardinality(SlotIds) = Slots
    <3>1. Slots \in Nat \ {0} /\ 0 \in Int /\ Slots - 1 \in Int
      BY EdgeAssumption
    <3> QED BY <3>1, FS_Interval DEF SlotIds
  <2>6. IsFiniteSet(Recent)
    BY FS_Subset, EdgeAssumption DEF Recent
  <2>7. PICK i \in SlotIds, j \in SlotIds : i # j /\ recentNonces[i] = recentNonces[j]
    BY <2>4, <2>5, <2>6, FS_PigeonHole
  <2>8. recentNonces[i] # None
    BY <2>3, EdgeAssumption DEF Recent
  <2> QED BY <2>7, <2>8 DEF RingInv
<1> QED BY <1>1, Invariant, RingInvariant, PTL

\* A ring of any size forgets a nonce neither too early nor too late.
THEOREM ReplaysRefusedHolds == Spec => []ReplaysRefused
<1> QED BY AcceptedOnceHolds, RoomUnlessBusyHolds, PTL DEF ReplaysRefused

\* The relay is off whenever nobody has been heard for long, wraps included.
THEOREM RelayIsSafeHolds == Spec => []RelayIsSafe
<1> QED BY RelayNeedsContactHolds, EngagedIsOffHolds, PTL DEF RelayIsSafe
===========================================================================
