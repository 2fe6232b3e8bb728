--------------------------- MODULE ModbusPolling ---------------------------
(***************************************************************************)
(* The Modbus adapter (connectivity/adapters/modbus_adapter.py) and the    *)
(* plan it polls by: the bindings that semantic_layer/protocol_binding.py  *)
(* accepts, the groups generated_adapters.py makes of them, and the values *)
(* it decodes out of a block of registers.  A device writes all words of a *)
(* value between two requests (firmware/esp32_gas_modbus).  A word is told *)
(* by the binding it was written for, the sample, and its place in it.     *)
(***************************************************************************)
EXTENDS Integers, FiniteSets, Sequences

CONSTANTS
    Catalogue,      \* bindings: [slave, code, address, count, interval, device]
    Spans,          \* how many polling groups may be configured at once
    BitPad,         \* coils are answered in multiples of this many (pymodbus)
    MaxWrites       \* bound on the samples that devices write

ASSUME PollingAssumption ==
    /\ BitPad \in Nat \ {0} /\ MaxWrites \in Nat \ {0} /\ Spans \in Nat
    /\ IsFiniteSet(Catalogue)
    /\ \A b \in Catalogue : /\ b.slave \in Int /\ b.code \in Int /\ b.address \in Int
                            /\ b.count \in Nat \ {0} /\ b.interval \in Nat \ {0}

VARIABLES
    bindings,   \* the Modbus bindings of the registry
    register,   \* binding -> the sample its registers hold, 0 for not a number
    written,    \* samples so far (bound)
    polling,    \* "away" from the server, "idle", or in poll_once ("busy")
    nextDue,    \* group -> ticks until next_due
    batch,      \* the groups of this poll_once
    toRead,     \* those that are not read yet
    spent,      \* ticks since `now' was taken
    block,      \* the words read for a group and the devices not forwarded yet
    report,     \* binding -> the words that were decoded for it last
    culprit     \* the group whose read ended the last connection, if any (history)

pollVars == <<bindings, register, written, polling, nextDue, batch, toRead, spent, block, report, culprit>>

---------------------------------------------------------------------------
(* The registry and the plan *)

Occupies(b) == {<<b.slave, b.code, a>> : a \in b.address .. b.address + b.count - 1}

\* _modbus_collisions, which load_turtle refuses
Collide(B) == \E b, c \in B : b # c /\ Occupies(b) \cap Occupies(c) # {}

Group(b) == [slave |-> b.slave, code |-> b.code, interval |-> b.interval]

Groups == {Group(b) : b \in bindings}

Entries(g) == {b \in bindings : Group(b) = g}

Least(S) == CHOOSE x \in S : \A y \in S : x <= y
Greatest(S) == CHOOSE x \in S : \A y \in S : y <= x

\* modbus_read_plans: one span over the entries of a group
Start(g) == Least({b.address : b \in Entries(g)})
Stop(g) == Greatest({b.address + b.count : b \in Entries(g)})

\* the order of modbus_read_plans
Earlier(g, h) ==
    \/ g.interval < h.interval
    \/ g.interval = h.interval /\ g.slave < h.slave
    \/ g.interval = h.interval /\ g.slave = h.slave /\ g.code < h.code

FirstOf(G) == CHOOSE g \in G : \A h \in G \ {g} : Earlier(g, h)

---------------------------------------------------------------------------
(* What a server answers, and what is decoded *)

Bits(g) == g.code \in {1, 2}

Blank == [of |-> {}, sample |-> 0, place |-> 0]

WordAt(slave, code, a) ==
    LET owner == {b \in bindings : <<slave, code, a>> \in Occupies(b)}
    IN IF owner = {} THEN Blank
       ELSE LET b == CHOOSE b \in owner : TRUE
            IN [of |-> {b}, sample |-> register[b], place |-> a - b.address + 1]

AnswerLength(g) ==
    LET n == Stop(g) - Start(g)
    IN IF Bits(g) THEN ((n + BitPad - 1) \div BitPad) * BitPad ELSE n

Answer(g) == [i \in 1..AnswerLength(g) |->
                IF i > Stop(g) - Start(g) THEN Blank ELSE WordAt(g.slave, g.code, Start(g) + i - 1)]

Inside(b, g, words) ==
    b.address >= Start(g) /\ b.address - Start(g) + b.count <= Len(words)

\* decode_modbus_block: every binding of that slave and function code that lies
\* inside the block, of whatever group
Decoded(g, words) == {b \in bindings : /\ b.slave = g.slave /\ b.code = g.code
                                       /\ Inside(b, g, words)}

Value(b, g, words) ==
    LET first == b.address - Start(g) + 1 IN SubSeq(words, first, first + b.count - 1)

DevicesIn(g, words) == {b.device : b \in Decoded(g, words)}

NotANumber(value) == \E i \in 1..Len(value) : value[i].of # {} /\ value[i].sample = 0

---------------------------------------------------------------------------
(* Devices and time *)

DeviceWrites(b) ==
    /\ written < MaxWrites
    /\ written' = written + 1
    /\ \E s \in {written + 1} \cup (IF b.count = 2 THEN {0} ELSE {}) : register' = [register EXCEPT ![b] = s]
    /\ UNCHANGED <<bindings, polling, nextDue, batch, toRead, spent, block, report, culprit>>

PollTick ==
    /\ \E g \in Groups : nextDue[g] > 0 \/ (polling = "busy" /\ spent < g.interval)
    /\ nextDue' = [g \in Groups |-> IF nextDue[g] > 0 THEN nextDue[g] - 1 ELSE 0]
    /\ spent' = IF polling = "busy" /\ \E g \in Groups : spent < g.interval THEN spent + 1 ELSE spent
    /\ UNCHANGED <<bindings, register, written, polling, batch, toRead, block, report, culprit>>

---------------------------------------------------------------------------
(* start *)

NoBlock == [words |-> << >>, left |-> {}]

GiveUp(why) ==
    /\ polling' = "away" /\ culprit' = why
    /\ batch' = {} /\ toRead' = {} /\ block' = NoBlock /\ spent' = 0
    /\ UNCHANGED <<bindings, register, written, nextDue, report>>

Connect ==
    /\ polling = "away" /\ polling' = "idle"
    /\ UNCHANGED <<bindings, register, written, nextDue, batch, toRead, spent, block, report, culprit>>

ConnectFails == polling = "away" /\ GiveUp({})

\* the groups that are due, in one poll_once
StartPoll ==
    /\ polling = "idle"
    /\ \E g \in Groups : nextDue[g] = 0
    /\ batch' = {g \in Groups : nextDue[g] = 0} /\ toRead' = batch'
    /\ polling' = "busy" /\ spent' = 0
    /\ UNCHANGED <<bindings, register, written, nextDue, block, report, culprit>>

Remaining(g) == IF g.interval > spent THEN g.interval - spent ELSE 0

EndPoll ==
    /\ polling = "busy" /\ toRead = {}
    /\ nextDue' = [g \in Groups |-> IF g \in batch THEN Remaining(g) ELSE nextDue[g]]
    /\ polling' = "idle" /\ batch' = {} /\ spent' = 0
    /\ UNCHANGED <<bindings, register, written, toRead, block, report, culprit>>

---------------------------------------------------------------------------
(* poll_once *)

Reading == polling = "busy" /\ toRead # {} /\ block = NoBlock

ReadAnswered ==
    /\ Reading
    /\ LET g == FirstOf(toRead)
       IN block' = [words |-> Answer(g), left |-> DevicesIn(g, Answer(g))]
    /\ UNCHANGED <<bindings, register, written, polling, nextDue, batch, toRead, spent, report, culprit>>

\* mutant: the poll ends with the first group
NoneLeft(G) == {}

Others(G) == G \ {FirstOf(G)}

\* isError: the next group is read
ReadRefused ==
    /\ Reading
    /\ toRead' = Others(toRead)
    /\ UNCHANGED <<bindings, register, written, polling, nextDue, batch, spent, block, report, culprit>>

ReadRaises == Reading /\ GiveUp({FirstOf(toRead)})

\* the messages of a block, one per device; a value that is no number fails the
\* validation of its message, which ends the poll and the connection
ForwardNext ==
    /\ polling = "busy" /\ block.left # {}
    /\ LET g == FirstOf(toRead)
           d == Least(block.left)
           mine == {b \in Decoded(g, block.words) : b.device = d}
       IN IF \E b \in mine : NotANumber(Value(b, g, block.words))
          THEN GiveUp({g})
          ELSE /\ report' = [b \in bindings |-> IF b \in mine THEN Value(b, g, block.words)
                                                ELSE report[b]]
               /\ IF block.left = {d}
                  THEN block' = NoBlock /\ toRead' = Others(toRead)
                  ELSE block' = [block EXCEPT !.left = @ \ {d}] /\ toRead' = toRead
               /\ UNCHANGED <<bindings, register, written, polling, nextDue, batch, spent, culprit>>

---------------------------------------------------------------------------
PollInit ==
    /\ bindings \in {B \in SUBSET Catalogue :
                       ~Collide(B) /\ Cardinality({Group(b) : b \in B}) \in 1..Spans}
    /\ register = [b \in bindings |-> 1] /\ written = 1
    /\ polling = "away" /\ nextDue = [g \in Groups |-> 0]
    /\ batch = {} /\ toRead = {} /\ spent = 0 /\ block = NoBlock
    /\ report = [b \in bindings |-> << >>] /\ culprit = {}

PollStep == StartPoll \/ EndPoll \/ ForwardNext

ServerStep == Connect \/ ConnectFails \/ ReadAnswered \/ ReadRefused \/ ReadRaises

PollNext ==
    \/ \E b \in bindings : DeviceWrites(b)
    \/ PollTick \/ PollStep \/ ServerStep

\* The loop goes on, a request ends in one way or another, and time passes.
PollFairness == WF_pollVars(PollStep) /\ WF_pollVars(ServerStep) /\ WF_pollVars(PollTick)

PollSpec == PollInit /\ [][PollNext]_pollVars /\ PollFairness

---------------------------------------------------------------------------
(* Properties *)

\* The times of the groups, and what a poll is about.
PollTypeOK ==
    /\ \A g \in Groups : nextDue[g] \in 0..g.interval
    /\ toRead \subseteq batch /\ batch \subseteq Groups
    /\ polling \in {"away", "idle", "busy"} /\ (polling # "busy" => batch = {})

\* No register is decoded for two bindings.
RegisterHasOneOwner ==
    \A b, c \in bindings :
        b # c /\ b.slave = c.slave /\ b.code = c.code =>
            b.address + b.count <= c.address \/ c.address + c.count <= b.address

\* What was reported for a binding of holding or input registers is one sample
\* of that binding, all words of it, however its group and its block were cut.
\* (Coils are left out: the padding of an answer is decoded as the value of a
\* binding of another group that lies behind the span.)
ReportIsOneSample ==
    \A b \in bindings :
        b.code \in {3, 4} /\ report[b] # << >> =>
            \E s \in 1..MaxWrites :
                report[b] = [i \in 1..b.count |-> [of |-> {b}, sample |-> s, place |-> i]]

\* Every group is answered again and again, or a group that is polled no later
\* than it, or the server, keeps the adapter away: an error answer of one device
\* does not keep the others from being read.
Attended(g) == polling = "busy" /\ toRead # {} /\ FirstOf(toRead) = g

EveryGroupIsPolled ==
    \A g \in {Group(b) : b \in Catalogue} :
        \/ []<>(g \in Groups => Attended(g))
        \/ []<>(polling = "away" /\ \A h \in culprit : h = g \/ Earlier(h, g))

\* Each register is read for its one binding, whole, and no group waits for ever
\* behind the errors of others.
EveryGroupReported ==
    /\ [](PollTypeOK /\ RegisterHasOneOwner /\ ReportIsOneSample)
    /\ EveryGroupIsPolled
=============================================================================
