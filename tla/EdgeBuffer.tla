---------------------------- MODULE EdgeBuffer ----------------------------
(***************************************************************************)
(* The readings of the ESP32 sensor node (firmware/esp32_dht22): loop()    *)
(* samples, publishes over MQTT when it can, keeps readings in a ring      *)
(* buffer when it cannot, and backfills the ring in small batches once the *)
(* link is back.                                                           *)
(*                                                                         *)
(* The firmware is single-threaded, so the ring is touched by one step at  *)
(* a time; the link may go up or down between any two steps, and a publish *)
(* may fail on a link that looked up a moment before.  Readings are        *)
(* numbered in the order they are sampled.                                 *)
(***************************************************************************)
EXTENDS Naturals, Sequences, FiniteSets

CONSTANTS
    Capacity,     \* RING_CAPACITY
    Backfill,     \* BACKFILL_PER_CYCLE
    MaxReadings,  \* bound on the readings sampled
    MaxReboots    \* bound on restarts (power, watchdog)

ASSUME BufferAssumption ==
    /\ Capacity \in Nat \ {0} /\ Backfill \in Nat \ {0}
    /\ MaxReadings \in Nat /\ MaxReboots \in Nat

VARIABLES
    ring,       \* RingBuffer: slots, head, count
    connected,  \* mqtt.connected()
    phase,      \* the part of loop() that is next: "sample" or "drain"
    sent,       \* readings backfilled in this cycle
    sampled,    \* valid readings so far
    published,  \* readings handed to the broker, in order
    discarded,  \* readings given up for newer ones
    requeued,   \* readings that were put back behind the others at least once
    lost,       \* readings lost with the RAM on a restart
    reboots

history == <<published, discarded, requeued, lost>>
bufferVars == <<ring, connected, phase, sent, sampled, history, reboots>>

Readings == 1..MaxReadings

---------------------------------------------------------------------------
(* RingBuffer *)

EmptyRing == [slots |-> [i \in 0..(Capacity - 1) |-> 0], head |-> 0, count |-> 0]

Push(b, r) ==
    [slots |-> [b.slots EXCEPT ![b.head] = r],
     head  |-> (b.head + 1) % Capacity,
     count |-> IF b.count < Capacity THEN b.count + 1 ELSE b.count]

TailSlot(b) == (b.head + Capacity - b.count) % Capacity

Oldest(b) == b.slots[TailSlot(b)]

Popped(b) == [b EXCEPT !.count = @ - 1]

---------------------------------------------------------------------------
(* loop() *)

NewReading ==
    /\ phase = "sample" /\ phase' = "drain" /\ sent' = 0
    /\ sampled < MaxReadings /\ sampled' = sampled + 1

\* readSensor fails, or PUBLISH_INTERVAL_MS has not passed
NoReading ==
    /\ phase = "sample" /\ phase' = "drain" /\ sent' = 0
    /\ UNCHANGED <<ring, connected, sampled, history, reboots>>

MayPublish == connected /\ ring.count = 0

PublishNow ==
    /\ NewReading /\ MayPublish
    /\ published' = Append(published, sampled')
    /\ UNCHANGED <<ring, connected, discarded, requeued, lost, reboots>>

PublishNowFails ==
    /\ NewReading /\ MayPublish
    /\ ring' = Push(ring, sampled')
    /\ connected' \in BOOLEAN
    /\ UNCHANGED <<history, reboots>>

Store ==
    /\ NewReading /\ ~MayPublish
    /\ IF ring.count >= Capacity
       THEN /\ discarded' = discarded \cup {Oldest(ring)}
            /\ ring' = Push(Popped(ring), sampled')
       ELSE /\ ring' = Push(ring, sampled')
            /\ UNCHANGED discarded
    /\ UNCHANGED <<connected, published, requeued, lost, reboots>>

\* mutant: one reading is left for the next outage
CanDrainSome == sent < Backfill /\ connected /\ ring.count > 1

CanDrain == sent < Backfill /\ connected /\ ring.count > 0

Drain ==
    /\ phase = "drain" /\ CanDrain
    /\ ring' = Popped(ring)
    /\ published' = Append(published, Oldest(ring))
    /\ sent' = sent + 1
    /\ UNCHANGED <<connected, phase, sampled, discarded, requeued, lost, reboots>>

\* what could not be sent goes behind the readings that are already waiting
PutBack(r) == ring' = Push(Popped(ring), r) /\ requeued' = requeued \cup {r}

DrainFails ==
    /\ phase = "drain" /\ CanDrain
    /\ PutBack(Oldest(ring))
    /\ connected' \in BOOLEAN
    /\ phase' = "sample"
    /\ UNCHANGED <<sent, sampled, published, discarded, lost, reboots>>

DrainEnds ==
    /\ phase = "drain" /\ ~CanDrain
    /\ phase' = "sample"
    /\ UNCHANGED <<ring, connected, sent, sampled, history, reboots>>

---------------------------------------------------------------------------
(* The world around the node *)

\* connectWifi and connectMqtt, the broker and the radio
LinkChanges ==
    /\ connected' = ~connected
    /\ UNCHANGED <<ring, phase, sent, sampled, history, reboots>>

\* the readings in the ring, the oldest first
Content(b) == [i \in 1..b.count |-> b.slots[(b.head + Capacity - b.count + i - 1) % Capacity]]

Waiting == Content(ring)

InRing == {Waiting[i] : i \in 1..ring.count}

Reboot ==
    /\ reboots < MaxReboots /\ reboots' = reboots + 1
    /\ lost' = lost \cup InRing
    /\ ring' = EmptyRing
    /\ connected' = FALSE /\ phase' = "sample" /\ sent' = 0
    /\ UNCHANGED <<sampled, published, discarded, requeued>>

---------------------------------------------------------------------------
BufferInit ==
    /\ ring = EmptyRing
    /\ connected = FALSE /\ phase = "sample" /\ sent = 0
    /\ sampled = 0 /\ published = <<>>
    /\ discarded = {} /\ requeued = {} /\ lost = {}
    /\ reboots = 0

Loop == NoReading \/ PublishNow \/ PublishNowFails \/ Store \/ Drain \/ DrainFails \/ DrainEnds

BufferNext == Loop \/ LinkChanges \/ Reboot

BufferSpec == BufferInit /\ [][BufferNext]_bufferVars

\* loop() is called again and again by the Arduino core
BufferFairSpec == BufferSpec /\ WF_bufferVars(Loop)

---------------------------------------------------------------------------
(* Properties *)

\* The shape of the node's state.
BufferTypeOK ==
    /\ ring \in [slots : [0..(Capacity - 1) -> 0..MaxReadings],
                 head : 0..(Capacity - 1), count : 0..Capacity]
    /\ connected \in BOOLEAN /\ phase \in {"sample", "drain"}
    /\ sent \in 0..Backfill /\ sampled \in 0..MaxReadings
    /\ published \in Seq(Readings)
    /\ discarded \subseteq Readings /\ requeued \subseteq Readings /\ lost \subseteq Readings
    /\ reboots \in 0..MaxReboots

\* Everything sampled that is still there: what was published, then what waits.
Stream == published \o Waiting

\* No reading is lost or sent twice: each one was published once, or waits
\* once, or was given up for a newer one, or went with the RAM.
NothingLostOrDoubled ==
    /\ \A i, j \in 1..Len(Stream) : i # j => Stream[i] # Stream[j]
    /\ \A r \in 1..sampled :
          \/ \E i \in 1..Len(Stream) : Stream[i] = r
          \/ r \in discarded \cup lost
    /\ \A i \in 1..Len(Stream) : Stream[i] \in 1..sampled /\ Stream[i] \notin discarded \cup lost

\* A failed publish reorders nothing but the reading it was about: any other
\* reading leaves after everything older that is still there.
OrderKept ==
    \A j \in 1..Len(Stream) : \A i \in 1..(j - 1) :
        Stream[i] < Stream[j] \/ Stream[j] \in requeued

\* The reading given up for a new one is older than any that stays, but for
\* readings that a failed publish had put back.
DiscardsOldest ==
    [][\A r \in discarded' \ discarded :
          \A i \in 1..ring'.count : Waiting'[i] > r \/ Waiting'[i] \in requeued]_bufferVars

Fifo == INSTANCE BoundedFifo WITH queue <- Waiting, Elements <- Readings

\* The ring buffer's index arithmetic implements a bounded queue.
ImplementsFifo == Fifo!Spec

\* Once the link stays up and publishing works, the backlog is gone for good.
BacklogClears ==
    (<>[]connected /\ <>[][~(DrainFails \/ PublishNowFails)]_bufferVars) => <>[](ring.count = 0)

\* The ring buffer is a queue that gives up its oldest: nothing is lost or sent
\* twice otherwise, and the backlog goes when the link is back.
ReadingsKept ==
    /\ [](BufferTypeOK /\ NothingLostOrDoubled /\ OrderKept)
    /\ DiscardsOldest
    /\ ImplementsFifo
    /\ BacklogClears
===========================================================================
