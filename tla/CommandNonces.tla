--------------------------- MODULE CommandNonces ---------------------------
(***************************************************************************)
(* verify of backend/security/command_signing.py: what a receiver accepts  *)
(* of the signed commands that reach it, in whatever order, how late, and  *)
(* how often.  A nonce is remembered for twice the allowed skew, and the   *)
(* memory is bounded.  Signatures are taken to be right.                   *)
(***************************************************************************)
EXTENDS Integers, FiniteSets

CONSTANTS
    Nonces,       \* the commands, one nonce each
    MaxSkew,      \* MAX_CLOCK_SKEW_S
    NonceCache,   \* NONCE_CACHE_SIZE
    Ahead,        \* how far the clock of the sender may be ahead
    MaxReceiverClock   \* bound on the clock

ASSUME NoncesAssumption ==
    /\ MaxSkew \in Nat /\ NonceCache \in Nat /\ Ahead \in Nat /\ MaxReceiverClock \in Nat

VARIABLES
    receiverClock,
    issued,     \* the stamp of each command, -1 before it is issued
    seen,       \* _seen_nonces: when each was accepted
    accepted    \* how often each was accepted by this process (history)

nonceVars == <<receiverClock, issued, seen, accepted>>

Absolute(n) == IF n < 0 THEN -n ELSE n

---------------------------------------------------------------------------
\* mutant: a nonce is remembered for the skew only
PrunedEarly == [n \in {m \in DOMAIN seen : seen[m] >= receiverClock - MaxSkew} |-> seen[n]]

\* _prune_nonces
PrunedNonces == [n \in {m \in DOMAIN seen : seen[m] >= receiverClock - 2 * MaxSkew} |-> seen[n]]

Timely(n) == Absolute(receiverClock - issued[n]) <= MaxSkew

RoomFor(nonces) == Cardinality(DOMAIN nonces) < NonceCache

Accepts(n) == Timely(n) /\ n \notin DOMAIN seen /\ RoomFor(PrunedNonces)

Issue(n, t) ==
    /\ issued[n] = -1
    /\ issued' = [issued EXCEPT ![n] = t]
    /\ UNCHANGED <<receiverClock, seen, accepted>>

\* a copy of the command arrives
Verify(n) ==
    /\ issued[n] # -1
    /\ IF Accepts(n)
       THEN /\ seen' = [m \in DOMAIN PrunedNonces \cup {n} |->
                          IF m = n THEN receiverClock ELSE PrunedNonces[m]]
            /\ accepted' = [accepted EXCEPT ![n] = @ + 1]
       ELSE /\ seen' = IF Timely(n) /\ n \notin DOMAIN seen THEN PrunedNonces ELSE seen
            /\ UNCHANGED accepted
    /\ UNCHANGED <<receiverClock, issued>>

ReceiverTick ==
    /\ receiverClock < MaxReceiverClock /\ receiverClock' = receiverClock + 1
    /\ UNCHANGED <<issued, seen, accepted>>

\* the receiver starts again: what it remembered was in its memory
ReceiverRestarts == seen' = << >> /\ accepted' = [n \in Nonces |-> 0]
                    /\ UNCHANGED <<receiverClock, issued>>

NoncesInit ==
    /\ receiverClock = 0 /\ issued = [n \in Nonces |-> -1]
    /\ seen = << >> /\ accepted = [n \in Nonces |-> 0]

NoncesNext ==
    \/ \E n \in Nonces : Verify(n)
    \/ \E n \in Nonces, t \in 0..receiverClock + Ahead : Issue(n, t)
    \/ ReceiverTick \/ ReceiverRestarts

NoncesSpec == NoncesInit /\ [][NoncesNext]_nonceVars

---------------------------------------------------------------------------
(* Properties *)

\* The memory of nonces is bounded.
NoncesTypeOK ==
    /\ receiverClock \in 0..MaxReceiverClock
    /\ DOMAIN seen \subseteq Nonces /\ Cardinality(DOMAIN seen) <= NonceCache

\* However long a copy is under way, and whatever was forgotten in between, a
\* command is accepted once by one run of the receiver: it is stale by the time
\* its nonce is forgotten.  Only a restart forgets a nonce that is still timely.
AcceptedOnce == \A n \in Nonces : accepted[n] <= 1

\* Nothing was accepted outside the window around its stamp, and a nonce that is
\* remembered belongs to a command that was accepted.
RememberedWasAccepted ==
    \A n \in DOMAIN seen : accepted[n] = 1 /\ Absolute(seen[n] - issued[n]) <= MaxSkew

\* A command is accepted once, however clocks differ, and only what was accepted
\* takes room in the memory.
CommandsAcceptedOnce ==
    /\ NoncesTypeOK
    /\ AcceptedOnce
    /\ RememberedWasAccepted
===========================================================================
