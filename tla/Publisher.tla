------------------------------- MODULE Publisher -------------------------------
(***************************************************************************)
(* publishAsync() and publisherTask (main/main.cpp): the queue between the *)
(* tasks that may not block and the MQTT client, which may, and the count  *)
(* of the messages the queue refused.                                      *)
(*                                                                         *)
(* A message is its topic and its value.  What the client, a library, does *)
(* with it is external: it reaches the broker or is lost, in order.        *)
(***************************************************************************)
EXTENDS Naturals, Sequences, SequencesExt

CONSTANTS
    Writers,     \* the tasks that call publishAsync()
    Topics,      \* tele/<name>/...
    Values,      \* what a message may say
    PubDepth,    \* messages the queue holds, 32
    MaxDrops     \* bound on the drops that are not reported yet

ASSUME PublisherAssumption == PubDepth \in Nat \ {0} /\ MaxDrops \in Nat

VARIABLES
    pubQueue,     \* g_pubQueue
    pubDropped,   \* g_pubDropped
    refused,      \* the writers whose message was refused and that have yet to count it
    publisher,    \* publisherTask: where it is, with which message
    shown,        \* the last value the broker was given on each topic
    current,      \* history: whether it was given the last value there was to give
    unreported    \* history: the drops no log line has told of

pubVars == <<pubQueue, pubDropped, refused, publisher, shown, current, unreported>>

\* newest: history: no later message of its topic has been made.
Message == [topic : Topics, value : Values, newest : BOOLEAN]

Outdated(m, topic) == [m EXCEPT !.newest = @ /\ m.topic # topic]

Receiving == [pc |-> "receive"]

PubInit(initially) ==
    /\ pubQueue = <<>> /\ pubDropped = 0 /\ refused = {}
    /\ publisher = Receiving
    /\ shown = initially
    /\ current = [t \in Topics |-> TRUE] /\ unreported = 0

-------------------------------------------------------------------------------
(* publishAsync() *)

\* What is queued, with the messages of the topic out of date.
Older(topic) == [i \in DOMAIN pubQueue |-> Outdated(pubQueue[i], topic)]

\* There is something to say on a topic: what was said before is out of date.
Supersede(topic) ==
    /\ current' = [current EXCEPT ![topic] = FALSE]
    /\ publisher' = IF publisher.pc = "publish"
                    THEN [publisher EXCEPT !.msg = Outdated(@, topic)] ELSE publisher

\* Seeded fault: xQueueSendToFront().
QueuedInFront(q, msg) == <<msg>> \o q

Queued(q, msg) == Append(q, msg)

\* Seeded fault: the queue takes one message too many.
HasRoomForOneMore == Len(pubQueue) <= PubDepth

HasRoom == Len(pubQueue) < PubDepth

\* xQueueSend() without waiting.
PublishAsync(w, topic, value) ==
    LET msg == [topic |-> topic, value |-> value, newest |-> TRUE] IN
    /\ w \notin refused
    /\ Supersede(topic)
    /\ \/ /\ HasRoom
          /\ pubQueue' = Queued(Older(topic), msg)
          /\ UNCHANGED <<refused, unreported>>
       \/ /\ ~HasRoom
          /\ unreported < MaxDrops
          /\ pubQueue' = Older(topic)
          /\ refused' = refused \cup {w}
          /\ unreported' = unreported + 1
    /\ UNCHANGED <<pubDropped, shown>>

CountDrop(w) ==
    /\ w \in refused
    /\ pubDropped' = pubDropped + 1
    /\ refused' = refused \ {w}
    /\ UNCHANGED <<pubQueue, publisher, shown, current, unreported>>

-------------------------------------------------------------------------------
(* publisherTask *)

Receive ==
    /\ publisher.pc = "receive"
    /\ pubQueue # <<>>
    /\ publisher' = [pc |-> "publish", msg |-> Head(pubQueue)]
    /\ pubQueue' = Tail(pubQueue)
    /\ UNCHANGED <<pubDropped, refused, shown, current, unreported>>

Delivered ==
    /\ publisher.pc = "publish"
    /\ shown' = [shown EXCEPT ![publisher.msg.topic] = publisher.msg.value]
    /\ current' = [current EXCEPT ![publisher.msg.topic] = @ \/ publisher.msg.newest]
    /\ publisher' = [pc |-> "check"]
    /\ UNCHANGED <<pubQueue, pubDropped, refused, unreported>>

\* The broker is gone, and the client's buffer is full.
Lost ==
    /\ publisher.pc = "publish"
    /\ publisher' = [pc |-> "check"]
    /\ UNCHANGED <<pubQueue, pubDropped, refused, shown, current, unreported>>

\* "Once the backlog has cleared, say what the stall cost".
Check ==
    /\ publisher.pc = "check"
    /\ IF pubQueue = <<>>
       THEN unreported' = unreported - pubDropped /\ pubDropped' = 0
       ELSE UNCHANGED <<unreported, pubDropped>>
    /\ publisher' = Receiving
    /\ UNCHANGED <<pubQueue, refused, shown, current>>

PublisherTask == Receive \/ Delivered \/ Lost \/ Check

-------------------------------------------------------------------------------
(* Properties *)

\* Every variable has its type.
PubTypeOK ==
    /\ pubQueue \in Seq(Message) /\ Len(pubQueue) <= PubDepth
    /\ pubDropped \in 0 .. MaxDrops /\ unreported \in 0 .. MaxDrops
    /\ refused \subseteq Writers
    /\ publisher \in {Receiving, [pc |-> "check"]} \cup [pc : {"publish"}, msg : Message]
    /\ shown \in [Topics -> Values] /\ current \in [Topics -> BOOLEAN]

\* "one line per episode": the counter, and what is just being added to it, is what no
\* line has told of, however the publisher's exchange falls between the writers' steps.
DropsAccounted == unreported = pubDropped + Cardinality(refused)

\* "Once the backlog has cleared, say what the stall cost": when the publisher has nothing
\* left to do, every drop has been told of.
NothingUnsaid == (publisher = Receiving /\ pubQueue = <<>> /\ refused = {}) => pubDropped = 0
===============================================================================
