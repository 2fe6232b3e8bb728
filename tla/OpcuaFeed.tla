------------------------------ MODULE OpcuaFeed ------------------------------
(***************************************************************************)
(* The OPC UA adapter (connectivity/adapters/opcua_adapter.py): it         *)
(* subscribes to the nodes of its bindings, the callback of the client     *)
(* puts a message into a bounded queue, and the loop of start() takes them *)
(* out and forwards them.  The server (external) tells the value of a node *)
(* when it is subscribed and when it has changed, but not every change.    *)
(* Values are told by their version.                                       *)
(***************************************************************************)
EXTENDS Integers, Sequences, FiniteSets

CONSTANTS
    Nodes,          \* node_id of the bindings, in the order of opcua_nodes: 1..n
    FeedQueue,      \* the size of the queue
    MaxVersions,    \* bound on the changes of a node
    MaxFeedFaults   \* bound on lost connections, reloads and refused values

ASSUME FeedAssumption ==
    /\ Nodes \subseteq Nat /\ FeedQueue \in Nat \ {0}
    /\ MaxVersions \in Nat \ {0} /\ MaxFeedFaults \in Nat

VARIABLES
    link,       \* "down", "open" while it subscribes, "up", "dead": lost without notice
    listed,     \* the nodes subscribed so far
    version,    \* node -> its value at the server
    untold,     \* nodes of which the server owes a notification
    feed,       \* the queue
    forwarding, \* the message that is being forwarded, if any
    arrived,    \* node -> the newest version that reached the backend (history)
    spoiled,    \* nodes of which the newest notification came to nothing (history)
    faults

feedVars == <<link, listed, version, untold, feed, forwarding, arrived, spoiled, faults>>

Message == [node : Nodes, version : 1..MaxVersions]

---------------------------------------------------------------------------
(* The server *)

NodeChanges(n) ==
    /\ version[n] < MaxVersions
    /\ version' = [version EXCEPT ![n] = @ + 1]
    /\ untold' = IF n \in listed /\ link \in {"open", "up"} THEN untold \cup {n} ELSE untold
    /\ UNCHANGED <<link, listed, feed, forwarding, arrived, spoiled, faults>>

\* the connection is lost: what is owed is never told.  The loop of start() waits
\* for the queue and forwards, neither of which fails, so it does not notice.
ConnectionLost ==
    /\ link \in {"open", "up"} /\ faults < MaxFeedFaults /\ faults' = faults + 1
    /\ link' = IF link = "open" THEN "down" ELSE "dead"
    /\ untold' = {} /\ listed' = {}
    /\ UNCHANGED <<version, feed, forwarding, arrived, spoiled>>

---------------------------------------------------------------------------
(* start *)

OpenLink ==
    /\ link = "down" /\ link' = "open"
    /\ UNCHANGED <<listed, version, untold, feed, forwarding, arrived, spoiled, faults>>

AllListed == listed = Nodes

\* subscribe_data_change of the next node: its value is owed at once
Subscribe ==
    /\ link = "open" /\ ~AllListed
    /\ LET n == CHOOSE n \in Nodes \ listed : \A m \in Nodes \ listed : n <= m
       IN listed' = listed \cup {n} /\ untold' = untold \cup {n}
    /\ UNCHANGED <<link, version, feed, forwarding, arrived, spoiled, faults>>

Subscribed ==
    /\ link = "open" /\ AllListed /\ link' = "up"
    /\ UNCHANGED <<listed, version, untold, feed, forwarding, arrived, spoiled, faults>>

\* the supervisor builds a new adapter, with a new queue; the message under way
\* is forwarded before the old one ends
Reload ==
    /\ forwarding = << >>
    /\ faults < MaxFeedFaults /\ faults' = faults + 1
    /\ link' = "down" /\ listed' = {} /\ untold' = {} /\ feed' = << >>
    /\ UNCHANGED <<version, forwarding, arrived, spoiled>>

---------------------------------------------------------------------------
(* datachange_notification *)

\* mutant: the message is put before those that wait
PutFirst(q, m) == <<m>> \o q

PutLast(q, m) == Append(q, m)

Full(q) == Len(q) >= FeedQueue

Notify(n) ==
    /\ n \in untold /\ untold' = untold \ {n}
    /\ IF Full(feed)
       THEN feed' = feed /\ spoiled' = spoiled \cup {n}
       ELSE /\ feed' = PutLast(feed, [node |-> n, version |-> version[n]])
            /\ spoiled' = spoiled \ {n}
    /\ UNCHANGED <<link, listed, version, forwarding, arrived, faults>>

\* a value that is no number, or of no binding
NotifyRefused(n) ==
    /\ n \in untold /\ untold' = untold \ {n}
    /\ faults < MaxFeedFaults /\ faults' = faults + 1
    /\ spoiled' = spoiled \cup {n}
    /\ UNCHANGED <<link, listed, version, feed, forwarding, arrived>>

---------------------------------------------------------------------------
(* forward_once: only while the loop of start() runs *)

TakeMessage ==
    /\ link \in {"up", "dead"} /\ feed # << >> /\ forwarding = << >>
    /\ forwarding' = <<Head(feed)>> /\ feed' = Tail(feed)
    /\ UNCHANGED <<link, listed, version, untold, arrived, spoiled, faults>>

Forwarded ==
    /\ forwarding # << >> /\ forwarding' = << >>
    /\ arrived' = [arrived EXCEPT ![forwarding[1].node] = forwarding[1].version]
    /\ UNCHANGED <<link, listed, version, untold, feed, spoiled, faults>>

\* the retries of the router are spent: the message is given up
ForwardFails ==
    /\ forwarding # << >> /\ forwarding' = << >>
    /\ faults < MaxFeedFaults /\ faults' = faults + 1
    /\ spoiled' = IF \E i \in 1..Len(feed) : feed[i].node = forwarding[1].node
                  THEN spoiled ELSE spoiled \cup {forwarding[1].node}
    /\ UNCHANGED <<link, listed, version, untold, feed, arrived>>

---------------------------------------------------------------------------
FeedInit ==
    /\ link = "down" /\ listed = {} /\ version = [n \in Nodes |-> 1] /\ untold = {}
    /\ feed = << >> /\ forwarding = << >>
    /\ arrived = [n \in Nodes |-> 0] /\ spoiled = {} /\ faults = 0

FeedNext ==
    \/ \E n \in Nodes : NodeChanges(n) \/ Notify(n) \/ NotifyRefused(n)
    \/ ConnectionLost \/ OpenLink \/ Subscribe \/ Subscribed \/ Reload
    \/ TakeMessage \/ Forwarded \/ ForwardFails

FeedSpec == FeedInit /\ [][FeedNext]_feedVars

---------------------------------------------------------------------------
(* Properties *)

\* The queue is bounded, and what is in it was a value of its node.
FeedTypeOK ==
    /\ feed \in Seq(Message) /\ Len(feed) <= FeedQueue
    /\ \A i \in 1..Len(feed) : feed[i].version <= version[feed[i].node]
    /\ link \in {"down", "open", "up", "dead"} /\ (untold # {} => link \in {"open", "up"})

\* What the adapter has in hand, the next to arrive first.
UnderWay == forwarding \o feed

\* The backend gets the values of a node in the order the node had them, across
\* lost connections and reloads: what arrived, is under way and waits is sorted.
ArrivesInOrder ==
    /\ \A i \in DOMAIN UnderWay : arrived[UnderWay[i].node] <= UnderWay[i].version
    /\ \A i, j \in DOMAIN UnderWay :
          i < j /\ UnderWay[i].node = UnderWay[j].node => UnderWay[i].version <= UnderWay[j].version

\* While the adapter is up and has nothing in hand, the backend has the value of
\* every node, unless its newest notification came to nothing: it found the queue
\* full, was refused, or could not be forwarded.  (Such a value is missing until
\* the node changes again or the adapter subscribes again.)
NothingMissedUnseen ==
    link = "up" =>
        \A n \in Nodes :
            \/ n \in untold \cup spoiled
            \/ \E i \in 1..Len(feed) : feed[i].node = n
            \/ forwarding # << >> /\ forwarding[1].node = n
            \/ arrived[n] = version[n]

\* Across a bounded queue, lost connections and reloads the backend keeps up with
\* the nodes, in their order.
FeedKeepsUp ==
    /\ FeedTypeOK
    /\ NothingMissedUnseen
    /\ ArrivesInOrder
=============================================================================
