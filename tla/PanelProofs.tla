------------------------------ MODULE PanelProofs ------------------------------
(***************************************************************************)
(* Proofs about what a panel at the broker sees (Panel, Publisher), for    *)
(* any number of tasks that switch the output, any depth of the queue and  *)
(* any number of drops.                                                    *)
(***************************************************************************)
EXTENDS Panel, FiniteSetTheorems, SequenceTheorems, TLAPS

-------------------------------------------------------------------------------
(* The inductive invariant *)

\* The output as its last announced change left it: an upload is not announced.
Announced == IF unannounced THEN 1 ELSE on

\* What was looked at last on each topic.
Said == [t \in {"output", "link", "frame"} |->
            CASE t = "output" -> Announced [] t = "link" -> lastLinkUp [] t = "frame" -> prev]

\* The topics on which someone has looked and is about to publish.
ToBeTold == { TopicOf(w) : w \in { x \in Writers : telling[x] # <<>> } }

\* Where no two have crossed there is one of them.
OneTells ==
    \A w, x \in Writers :
        (TopicOf(w) = TopicOf(x) /\ TopicOf(w) \notin crossed /\ telling[w] # <<>> /\ telling[x] # <<>>)
            => w = x

TellsTheTruth ==
    \A w \in Writers :
        (TopicOf(w) \notin crossed /\ telling[w] # <<>>) => telling[w][1] = Said[TopicOf(w)]

\* Behind the newest message of a topic there is none of that topic.
NewestLast ==
    /\ \A i, j \in DOMAIN pubQueue :
          (i < j /\ pubQueue[i].newest) => pubQueue[j].topic # pubQueue[i].topic
    /\ (publisher.pc = "publish" /\ publisher.msg.newest) =>
          \A j \in DOMAIN pubQueue : pubQueue[j].topic # publisher.msg.topic

\* Once the broker was given the newest, nothing of the topic is on its way.
NothingBehind ==
    \A t \in Topics : current[t] =>
        /\ \A i \in DOMAIN pubQueue : pubQueue[i].topic # t
        /\ publisher.pc = "publish" => publisher.msg.topic # t

\* The newest message on its way says what was looked at last, unless the next is being told.
NewestIsTrue ==
    \A t \in Topics : (t \notin crossed /\ t \notin ToBeTold) =>
        /\ \A i \in DOMAIN pubQueue :
              (pubQueue[i].topic = t /\ pubQueue[i].newest) => pubQueue[i].value = Said[t]
        /\ (publisher.pc = "publish" /\ publisher.msg.topic = t /\ publisher.msg.newest) =>
              publisher.msg.value = Said[t]

\* So does the broker, once it was given the newest; of the link from the first report on.
ShownIsTrue ==
    \A t \in Topics : (t \notin crossed /\ t \notin ToBeTold /\ current[t] /\ Said[t] # Unknown) =>
        shown[t] = Said[t]

QueueInv == PubTypeOK /\ DropsAccounted /\ NewestLast /\ NothingBehind

TruthInv == OneTells /\ TellsTheTruth /\ NewestIsTrue /\ ShownIsTrue

PanelInv == PanelTypeOK /\ QueueInv /\ TruthInv

-------------------------------------------------------------------------------
(* What the variables and the helpers are *)

\* Who writes on which topic.
LEMMA TopicOfIs ==
    /\ \A w \in Writers : TopicOf(w) \in {"output", "link", "frame"}
    /\ {"output", "link", "frame"} = Topics
    /\ {"modbus", "telemetry", "worker"} \subseteq Writers /\ Callers \subseteq Writers
    /\ \A w \in Callers : TopicOf(w) = "output"
    /\ TopicOf("worker") = "frame" /\ TopicOf("modbus") = "link" /\ TopicOf("telemetry") = "link"
    /\ \A w \in Writers : TopicOf(w) = "frame" => w = "worker"
BY PanelAssumption DEF TopicOf

\* There are finitely many of them, hence as many refused messages.
LEMMA WritersFinite == \A S \in SUBSET Writers : IsFiniteSet(S)
<1>1. Writers = (((Callers \cup {"modbus"}) \cup {"telemetry"}) \cup {"worker"})
    BY PanelAssumption
<1>2. IsFiniteSet(Callers)
    BY PanelAssumption
<1>3. IsFiniteSet(Callers \cup {"modbus"})
    BY <1>2, FS_AddElement
<1>4. IsFiniteSet((Callers \cup {"modbus"}) \cup {"telemetry"})
    BY <1>3, FS_AddElement
<1>5. IsFiniteSet(Writers)
    BY <1>1, <1>4, FS_AddElement
<1> QED
    BY <1>5, FS_Subset

\* A message that becomes out of date keeps its topic and its value.
LEMMA OutdatedIs ==
    ASSUME NEW m \in Message, NEW t \in Topics
    PROVE  /\ Outdated(m, t) \in Message
           /\ Outdated(m, t).topic = m.topic /\ Outdated(m, t).value = m.value
           /\ Outdated(m, t).newest => m.newest /\ m.topic # t
<1> DEFINE o == [topic |-> m.topic, value |-> m.value, newest |-> m.newest /\ m.topic # t]
<1>1. m = [topic |-> m.topic, value |-> m.value, newest |-> m.newest]
    BY DEF Message
<1>2. m.topic \in Topics /\ m.value \in Values
    BY DEF Message
<1>3. (m.newest /\ m.topic # t) \in BOOLEAN
    OBVIOUS
<1>4. Outdated(m, t) = o
    BY <1>1 DEF Outdated
<1>5. o \in Message
    BY <1>2, <1>3 DEF Message
<1>6. o.newest = (m.newest /\ m.topic # t) /\ o.topic = m.topic /\ o.value = m.value
    BY Zenon
<1>7. o.newest => m.newest /\ m.topic # t
    BY <1>6, Zenon
<1> HIDE DEF o
<1> QED
    BY <1>4, <1>5, <1>6, <1>7, Zenon

\* What the queue holds.
LEMMA QueueIs ==
    ASSUME PubTypeOK
    PROVE  /\ Len(pubQueue) \in Nat /\ DOMAIN pubQueue = 1 .. Len(pubQueue)
           /\ \A i \in DOMAIN pubQueue : pubQueue[i] \in Message
           /\ publisher.pc = "publish" => publisher.msg \in Message
<1>1. pubQueue \in Seq(Message)
    BY DEF PubTypeOK
<1>2. /\ Len(pubQueue) \in Nat /\ DOMAIN pubQueue = 1 .. Len(pubQueue)
      /\ pubQueue \in [1 .. Len(pubQueue) -> Message]
    BY <1>1, LenProperties
<1>3. publisher.pc = "publish" => publisher.msg \in Message
    BY DEF PubTypeOK, Receiving
<1> QED
    BY <1>2, <1>3

\* What it holds, once something newer is to be said.
LEMMA OlderIs ==
    ASSUME PubTypeOK, NEW t \in Topics
    PROVE  /\ Older(t) \in Seq(Message) /\ Len(Older(t)) = Len(pubQueue)
           /\ DOMAIN Older(t) = DOMAIN pubQueue
           /\ \A i \in DOMAIN pubQueue : Older(t)[i] = Outdated(pubQueue[i], t)
<1>1. /\ Len(pubQueue) \in Nat /\ DOMAIN pubQueue = 1 .. Len(pubQueue)
      /\ \A i \in DOMAIN pubQueue : Outdated(pubQueue[i], t) \in Message
    BY QueueIs, OutdatedIs
<1>2. Older(t) \in [1 .. Len(pubQueue) -> Message]
    BY <1>1 DEF Older
<1>3. Older(t) \in Seq(Message)
    BY <1>1, <1>2, SeqDef
<1>4. /\ DOMAIN Older(t) = 1 .. Len(pubQueue)
      /\ \A i \in DOMAIN pubQueue : Older(t)[i] = Outdated(pubQueue[i], t)
    BY <1>1 DEF Older
<1>5. Len(Older(t)) \in Nat /\ DOMAIN Older(t) = 1 .. Len(Older(t))
    BY <1>3, LenProperties
<1>6. Len(Older(t)) = Len(pubQueue)
    BY <1>1, <1>4, <1>5
<1> QED
    BY <1>1, <1>3, <1>4, <1>6

\* ... and what the publisher and the history do then.
LEMMA SupersedeIs ==
    ASSUME PubTypeOK, NEW t \in Topics, Supersede(t)
    PROVE  /\ current' \in [Topics -> BOOLEAN] /\ ~current'[t]
           /\ \A u \in Topics : current'[u] => current[u]
           /\ publisher' \in {Receiving, [pc |-> "check"]} \cup [pc : {"publish"}, msg : Message]
           /\ publisher'.pc = publisher.pc
           /\ publisher.pc = "publish" => publisher'.msg = Outdated(publisher.msg, t)
<1>1. current \in [Topics -> BOOLEAN] /\ current' = [current EXCEPT ![t] = FALSE]
    BY DEF Supersede, PubTypeOK
<1>2. current' \in [Topics -> BOOLEAN] /\ ~current'[t] /\ \A u \in Topics : current'[u] => current[u]
    BY <1>1
<1>3. CASE publisher.pc = "publish"
    <2>1. publisher \in [pc : {"publish"}, msg : Message]
        BY <1>3 DEF PubTypeOK, Receiving
    <2>2. Outdated(publisher.msg, t) \in Message
        BY <2>1, OutdatedIs
    <2>3. publisher' = [publisher EXCEPT !.msg = Outdated(publisher.msg, t)]
        BY <1>3 DEF Supersede
    <2> QED
        BY <1>2, <1>3, <2>1, <2>2, <2>3
<1>4. CASE publisher.pc # "publish"
    <2>1. publisher' = publisher
        BY <1>4 DEF Supersede
    <2> QED
        BY <1>2, <1>4, <2>1 DEF PubTypeOK
<1> QED
    BY <1>3, <1>4

\* What was looked at last.
LEMMA SaidIs ==
    /\ DOMAIN Said = Topics
    /\ Said["output"] = Announced /\ Said["link"] = lastLinkUp /\ Said["frame"] = prev
BY TopicOfIs DEF Said

-------------------------------------------------------------------------------
(* The queue: what the writers do to it *)

\* Something newer is said, and nothing is queued.
LEMMA SupersedeStep ==
    ASSUME QueueInv, NEW t \in Topics, Supersede(t), pubQueue' = Older(t)
    PROVE  /\ pubQueue' \in Seq(Message) /\ Len(pubQueue') <= PubDepth
           /\ NewestLast' /\ NothingBehind'
<1> USE DEF QueueInv
<1>1. /\ Older(t) \in Seq(Message) /\ Len(Older(t)) = Len(pubQueue)
      /\ DOMAIN Older(t) = DOMAIN pubQueue
      /\ \A i \in DOMAIN pubQueue : Older(t)[i] = Outdated(pubQueue[i], t)
    BY OlderIs
<1>2. /\ DOMAIN pubQueue = 1 .. Len(pubQueue)
      /\ \A i \in DOMAIN pubQueue : pubQueue[i] \in Message
      /\ publisher.pc = "publish" => publisher.msg \in Message
    BY QueueIs
<1>3. /\ \A u \in Topics : current'[u] => current[u]
      /\ publisher'.pc = publisher.pc
      /\ publisher.pc = "publish" => publisher'.msg = Outdated(publisher.msg, t)
    BY SupersedeIs
<1>4. \A i \in DOMAIN pubQueue :
          /\ pubQueue'[i].topic = pubQueue[i].topic
          /\ pubQueue'[i].newest => pubQueue[i].newest
    BY <1>1, <1>2, OutdatedIs
<1>5. publisher.pc = "publish" =>
          /\ publisher'.msg.topic = publisher.msg.topic
          /\ publisher'.msg.newest => publisher.msg.newest
    BY <1>2, <1>3, OutdatedIs
<1>6. NewestLast'
    BY <1>1, <1>3, <1>4, <1>5 DEF NewestLast
<1>7. NothingBehind'
    BY <1>1, <1>3, <1>4, <1>5 DEF NothingBehind
<1> QED
    BY <1>1, <1>6, <1>7 DEF PubTypeOK

\* A message is queued, or refused.
LEMMA PublishAsyncStep ==
    ASSUME QueueInv, NEW w \in Writers, NEW t \in Topics, NEW v \in Values, PublishAsync(w, t, v)
    PROVE  QueueInv'
<1> USE DEF QueueInv
<1> DEFINE msg == [topic |-> t, value |-> v, newest |-> TRUE]
<1>1. Supersede(t) /\ w \notin refused /\ UNCHANGED <<pubDropped, shown>>
    BY DEF PublishAsync
<1>2. /\ current' \in [Topics -> BOOLEAN] /\ ~current'[t]
      /\ \A u \in Topics : current'[u] => current[u]
      /\ publisher' \in {Receiving, [pc |-> "check"]} \cup [pc : {"publish"}, msg : Message]
      /\ publisher'.pc = publisher.pc
      /\ publisher.pc = "publish" => publisher'.msg = Outdated(publisher.msg, t)
    BY <1>1, SupersedeIs
<1>3. CASE HasRoom /\ pubQueue' = Queued(Older(t), msg) /\ UNCHANGED <<refused, unreported>>
    <2>1. /\ Older(t) \in Seq(Message) /\ Len(Older(t)) = Len(pubQueue)
          /\ DOMAIN Older(t) = DOMAIN pubQueue
          /\ \A i \in DOMAIN pubQueue : Older(t)[i] = Outdated(pubQueue[i], t)
        BY OlderIs
    <2>2. /\ Len(pubQueue) \in Nat /\ DOMAIN pubQueue = 1 .. Len(pubQueue)
          /\ \A i \in DOMAIN pubQueue : pubQueue[i] \in Message
          /\ publisher.pc = "publish" => publisher.msg \in Message
        BY QueueIs
    <2>3. msg \in Message /\ msg.topic = t
        BY DEF Message
    <2> HIDE DEF msg
    <2>4. /\ pubQueue' \in Seq(Message) /\ Len(pubQueue') = Len(pubQueue) + 1
          /\ DOMAIN pubQueue' = 1 .. Len(pubQueue) + 1
          /\ pubQueue'[Len(pubQueue) + 1] = msg
          /\ \A i \in DOMAIN pubQueue : pubQueue'[i] = Outdated(pubQueue[i], t)
        <3>1. pubQueue' = Append(Older(t), msg)
            BY <1>3 DEF Queued, msg
        <3>2. /\ pubQueue' \in Seq(Message) /\ Len(pubQueue') = Len(pubQueue) + 1
              /\ \A i \in 1 .. Len(pubQueue) : pubQueue'[i] = Older(t)[i]
              /\ pubQueue'[Len(pubQueue) + 1] = msg
            BY <2>1, <2>3, <3>1, AppendProperties
        <3>3. DOMAIN pubQueue' = 1 .. Len(pubQueue) + 1
            BY <3>2, LenProperties
        <3> QED
            BY <2>1, <2>2, <3>2, <3>3
    <2>5. \A i \in DOMAIN pubQueue :
              /\ pubQueue'[i].topic = pubQueue[i].topic
              /\ pubQueue'[i].newest => pubQueue[i].newest /\ pubQueue[i].topic # t
        BY <2>2, <2>4, OutdatedIs
    <2>6. publisher.pc = "publish" =>
              /\ publisher'.msg.topic = publisher.msg.topic
              /\ publisher'.msg.newest => publisher.msg.newest /\ publisher.msg.topic # t
        BY <1>2, <2>2, OutdatedIs
    <2>7. \A i \in DOMAIN pubQueue' : i \in DOMAIN pubQueue \/ i = Len(pubQueue) + 1
        BY <2>2, <2>4
    <2>8. NewestLast'
        <3>1. ASSUME NEW i \in DOMAIN pubQueue', NEW j \in DOMAIN pubQueue', i < j,
                     pubQueue'[i].newest
              PROVE  pubQueue'[j].topic # pubQueue'[i].topic
            <4>1. i \in DOMAIN pubQueue
                BY <2>2, <2>4, <3>1
            <4>2. CASE j \in DOMAIN pubQueue
                BY <2>5, <3>1, <4>1, <4>2 DEF NewestLast
            <4>3. CASE j = Len(pubQueue) + 1
                BY <2>3, <2>4, <2>5, <3>1, <4>1, <4>3
            <4> QED
                BY <2>7, <4>2, <4>3
        <3>2. ASSUME publisher'.pc = "publish", publisher'.msg.newest, NEW j \in DOMAIN pubQueue'
              PROVE  pubQueue'[j].topic # publisher'.msg.topic
            <4>1. publisher.pc = "publish" /\ publisher.msg.newest /\ publisher.msg.topic # t
                BY <1>2, <2>6, <3>2
            <4>2. CASE j \in DOMAIN pubQueue
                BY <2>5, <2>6, <4>1, <4>2 DEF NewestLast
            <4>3. CASE j = Len(pubQueue) + 1
                BY <2>3, <2>4, <2>6, <4>1, <4>3
            <4> QED
                BY <2>7, <4>2, <4>3
        <3> QED
            BY <3>1, <3>2 DEF NewestLast
    <2>9. NothingBehind'
        <3> SUFFICES ASSUME NEW u \in Topics, current'[u]
                     PROVE  /\ \A i \in DOMAIN pubQueue' : pubQueue'[i].topic # u
                            /\ publisher'.pc = "publish" => publisher'.msg.topic # u
            BY DEF NothingBehind
        <3>1. current[u] /\ u # t
            BY <1>2
        <3> QED
            BY <1>2, <2>3, <2>4, <2>5, <2>6, <2>7, <3>1 DEF NothingBehind
    <2>10. Len(pubQueue') <= PubDepth
        BY <1>3, <2>2, <2>4, PublisherAssumption DEF HasRoom
    <2>11. PubTypeOK' /\ DropsAccounted'
        BY <1>1, <1>2, <1>3, <2>4, <2>10 DEF PubTypeOK, DropsAccounted
    <2> QED
        BY <2>8, <2>9, <2>11
<1>4. CASE /\ ~HasRoom /\ unreported < MaxDrops /\ pubQueue' = Older(t)
           /\ refused' = refused \cup {w} /\ unreported' = unreported + 1
    <2>1. /\ pubQueue' \in Seq(Message) /\ Len(pubQueue') <= PubDepth
          /\ NewestLast' /\ NothingBehind'
        BY <1>1, <1>4, SupersedeStep
    <2>2. IsFiniteSet(refused)
        BY WritersFinite DEF PubTypeOK
    <2>3. Cardinality(refused') = Cardinality(refused) + 1
        BY <1>1, <1>4, <2>2, FS_AddElement
    <2>4. /\ Cardinality(refused) \in Nat /\ pubDropped \in Nat /\ unreported \in Nat
          /\ unreported' \in 0 .. MaxDrops
        BY <1>4, <2>2, FS_CardinalityType, PublisherAssumption DEF PubTypeOK
    <2>5. DropsAccounted'
        BY <1>1, <1>4, <2>3, <2>4 DEF DropsAccounted
    <2>6. PubTypeOK'
        BY <1>1, <1>2, <1>4, <2>1, <2>4 DEF PubTypeOK
    <2> QED
        BY <2>1, <2>5, <2>6
<1> QED
    BY <1>3, <1>4 DEF PublishAsync

\* A refused message is counted.
LEMMA CountDropStep ==
    ASSUME QueueInv, NEW w \in Writers, CountDrop(w)
    PROVE  QueueInv'
<1> USE DEF QueueInv
<1>1. /\ w \in refused /\ pubDropped' = pubDropped + 1 /\ refused' = refused \ {w}
      /\ UNCHANGED <<pubQueue, publisher, shown, current, unreported>>
    BY DEF CountDrop
<1>2. IsFiniteSet(refused)
    BY WritersFinite DEF PubTypeOK
<1>3. /\ Cardinality(refused) \in Nat /\ Cardinality(refused') = Cardinality(refused) - 1
      /\ Cardinality(refused') \in Nat
    BY <1>1, <1>2, FS_RemoveElement, FS_CardinalityType
<1>4. pubDropped \in 0 .. MaxDrops /\ unreported \in 0 .. MaxDrops
    BY DEF PubTypeOK
<1>5. DropsAccounted' /\ pubDropped' \in 0 .. MaxDrops
    BY <1>1, <1>3, <1>4, PublisherAssumption DEF DropsAccounted
<1>6. PubTypeOK'
    BY <1>1, <1>5 DEF PubTypeOK
<1>7. NewestLast' /\ NothingBehind'
    BY <1>1 DEF NewestLast, NothingBehind
<1> QED
    BY <1>5, <1>6, <1>7

-------------------------------------------------------------------------------
(* The queue: what the publisher does to it *)

LEMMA ReceiveStep ==
    ASSUME QueueInv, Receive
    PROVE  /\ QueueInv'
           /\ publisher' = [pc |-> "publish", msg |-> pubQueue[1]] /\ 1 \in DOMAIN pubQueue
           /\ \A i \in DOMAIN pubQueue' : i + 1 \in DOMAIN pubQueue /\ pubQueue'[i] = pubQueue[i + 1]
<1> USE DEF QueueInv
<1>1. /\ pubQueue # <<>> /\ publisher' = [pc |-> "publish", msg |-> Head(pubQueue)]
      /\ pubQueue' = Tail(pubQueue)
      /\ UNCHANGED <<pubDropped, refused, shown, current, unreported>>
    BY DEF Receive
<1>2. /\ Len(pubQueue) \in Nat \ {0} /\ DOMAIN pubQueue = 1 .. Len(pubQueue)
      /\ \A i \in DOMAIN pubQueue : pubQueue[i] \in Message
    BY <1>1, QueueIs, EmptySeq DEF PubTypeOK
<1>3. /\ Head(pubQueue) = pubQueue[1] /\ pubQueue' \in Seq(Message)
      /\ Len(pubQueue') = Len(pubQueue) - 1
      /\ \A i \in 1 .. Len(pubQueue) - 1 : pubQueue'[i] = pubQueue[i + 1]
    BY <1>1, HeadTailProperties DEF PubTypeOK
<1>4. DOMAIN pubQueue' = 1 .. Len(pubQueue) - 1
    BY <1>3, LenProperties
<1>5. /\ 1 \in DOMAIN pubQueue
      /\ \A i \in DOMAIN pubQueue' :
            i \in Nat /\ 1 < i + 1 /\ i + 1 \in DOMAIN pubQueue /\ pubQueue'[i] = pubQueue[i + 1]
    BY <1>2, <1>3, <1>4
<1>6. /\ publisher' \in [pc : {"publish"}, msg : Message]
      /\ publisher'.pc = "publish" /\ publisher'.msg = pubQueue[1]
    BY <1>1, <1>2, <1>3, <1>5
<1>7. PubTypeOK' /\ DropsAccounted'
    BY <1>1, <1>2, <1>3, <1>6, PublisherAssumption DEF PubTypeOK, DropsAccounted
<1>8. NewestLast'
    <2>1. ASSUME NEW i \in DOMAIN pubQueue', NEW j \in DOMAIN pubQueue', i < j, pubQueue'[i].newest
          PROVE  pubQueue'[j].topic # pubQueue'[i].topic
        <3>1. i + 1 < j + 1
            BY <1>5, <2>1
        <3> QED
            BY <1>5, <2>1, <3>1 DEF NewestLast
    <2>2. ASSUME pubQueue[1].newest, NEW j \in DOMAIN pubQueue'
          PROVE  pubQueue'[j].topic # pubQueue[1].topic
        BY <1>5, <2>2 DEF NewestLast
    <2> QED
        BY <1>6, <2>1, <2>2 DEF NewestLast
<1>9. NothingBehind'
    BY <1>1, <1>5, <1>6 DEF NothingBehind
<1> QED
    BY <1>1, <1>3, <1>5, <1>7, <1>8, <1>9

LEMMA DeliveredStep ==
    ASSUME QueueInv, Delivered
    PROVE  /\ QueueInv'
           /\ ~current[publisher.msg.topic]
           /\ current'[publisher.msg.topic] => publisher.msg.newest
           /\ shown'[publisher.msg.topic] = publisher.msg.value
           /\ \A t \in Topics \ {publisher.msg.topic} : shown'[t] = shown[t] /\ (current'[t] => current[t])
<1> USE DEF QueueInv
<1>1. /\ publisher.pc = "publish"
      /\ shown' = [shown EXCEPT ![publisher.msg.topic] = publisher.msg.value]
      /\ current' = [current EXCEPT ![publisher.msg.topic] = @ \/ publisher.msg.newest]
      /\ publisher' = [pc |-> "check"]
      /\ UNCHANGED <<pubQueue, pubDropped, refused, unreported>>
    BY DEF Delivered
<1> DEFINE m == publisher.msg
<1>2. m \in Message
    BY <1>1, QueueIs
<1>3. m.topic \in Topics /\ m.value \in Values /\ m.newest \in BOOLEAN
    BY <1>2 DEF Message
<1> HIDE DEF m
<1>4. ~current[m.topic]
    BY <1>1, <1>3 DEF NothingBehind, m
<1>5. current \in [Topics -> BOOLEAN] /\ shown \in [Topics -> Values]
    BY DEF PubTypeOK
<1> DEFINE now1 == current[m.topic] \/ m.newest
<1>6. current' = [current EXCEPT ![m.topic] = now1] /\ shown' = [shown EXCEPT ![m.topic] = m.value]
    BY <1>1 DEF m
<1>7. now1 \in BOOLEAN /\ (now1 => m.newest)
    BY <1>4, <1>5, <1>3
<1> HIDE DEF now1
<1>8. /\ current' \in [Topics -> BOOLEAN] /\ current'[m.topic] = now1
      /\ \A t \in Topics \ {m.topic} : current'[t] = current[t]
      /\ shown' \in [Topics -> Values] /\ shown'[m.topic] = m.value
      /\ \A t \in Topics \ {m.topic} : shown'[t] = shown[t]
    BY <1>3, <1>5, <1>6, <1>7
<1>9. current'[m.topic] => m.newest
    BY <1>7, <1>8
<1>10. PubTypeOK' /\ DropsAccounted'
    BY <1>1, <1>8 DEF PubTypeOK, DropsAccounted
<1>11. NewestLast'
    BY <1>1 DEF NewestLast
<1>12. NothingBehind'
    <2> SUFFICES ASSUME NEW t \in Topics, current'[t], NEW i \in DOMAIN pubQueue
                 PROVE  pubQueue[i].topic # t
        BY <1>1 DEF NothingBehind
    <2>1. CASE t = m.topic
        BY <1>1, <1>9, <2>1 DEF NewestLast, m
    <2>2. CASE t # m.topic
        BY <1>8, <2>2 DEF NothingBehind
    <2> QED
        BY <2>1, <2>2
<1> QED
    BY <1>4, <1>8, <1>9, <1>10, <1>11, <1>12 DEF m

LEMMA LostStep == QueueInv /\ Lost => QueueInv'
<1> SUFFICES ASSUME QueueInv, Lost PROVE QueueInv'
    OBVIOUS
<1>1. /\ publisher' = [pc |-> "check"]
      /\ UNCHANGED <<pubQueue, pubDropped, refused, shown, current, unreported>>
    BY DEF Lost
<1> QED
    BY <1>1 DEF QueueInv, PubTypeOK, DropsAccounted, NewestLast, NothingBehind

\* The drops are told of, and counted down.
LEMMA CheckStep == QueueInv /\ Check => QueueInv'
<1> SUFFICES ASSUME QueueInv, Check PROVE QueueInv'
    OBVIOUS
<1> USE DEF QueueInv
<1>1. /\ publisher' = Receiving /\ UNCHANGED <<pubQueue, refused, shown, current>>
      /\ \/ unreported' = unreported - pubDropped /\ pubDropped' = 0
         \/ UNCHANGED <<unreported, pubDropped>>
    BY DEF Check
<1>2. Cardinality(refused) \in Nat
    BY WritersFinite, FS_CardinalityType DEF PubTypeOK
<1>3. pubDropped \in 0 .. MaxDrops /\ unreported \in 0 .. MaxDrops
    BY DEF PubTypeOK
<1>4. DropsAccounted' /\ pubDropped' \in 0 .. MaxDrops /\ unreported' \in 0 .. MaxDrops
    BY <1>1, <1>2, <1>3, PublisherAssumption DEF DropsAccounted
<1>5. PubTypeOK'
    BY <1>1, <1>4 DEF PubTypeOK
<1>6. NewestLast' /\ NothingBehind'
    BY <1>1 DEF NewestLast, NothingBehind, Receiving
<1> QED
    BY <1>4, <1>5, <1>6

-------------------------------------------------------------------------------
(* The writers look, and publish *)

\* What a writer is about to say.
LEMMA TellingIs ==
    ASSUME PanelTypeOK, NEW w \in Writers, telling[w] # <<>>
    PROVE  telling[w][1] \in Values /\ TopicOf(w) \in ToBeTold
<1>1. telling[w] \in {<<v>> : v \in Values}
    BY DEF PanelTypeOK
<1>2. telling[w][1] \in Values
    BY <1>1
<1>3. TopicOf(w) \in ToBeTold
    BY DEF ToBeTold
<1> QED
    BY <1>2, <1>3

\* Writer w has looked: it is the only one of its topic, or the topic has been crossed.
LEMMA TellStep ==
    ASSUME PanelInv, NEW w \in Writers, NEW v \in Values, Tell(w, v),
           UNCHANGED <<pubQueue, publisher, shown, current>>,
           \A t \in Topics \ {TopicOf(w)} : Said'[t] = Said[t],
           TopicOf(w) \notin crossed' => Said'[TopicOf(w)] = v
    PROVE  /\ TruthInv' /\ crossed' \subseteq Topics
           /\ telling' \in [Writers -> {<<>>} \cup {<<u>> : u \in Values}]
<1> USE DEF PanelInv, TruthInv
<1>1. telling \in [Writers -> {<<>>} \cup {<<u>> : u \in Values}] /\ crossed \subseteq Topics
    BY DEF PanelTypeOK
<1>2. <<v>> # <<>> /\ <<v>>[1] = v /\ <<v>> \in {<<u>> : u \in Values}
    OBVIOUS
<1>3. /\ telling' \in [Writers -> {<<>>} \cup {<<u>> : u \in Values}]
      /\ telling'[w] = <<v>> /\ \A x \in Writers \ {w} : telling'[x] = telling[x]
    BY <1>1, <1>2 DEF Tell
<1>4. TopicOf(w) \in Topics /\ \A x \in Writers : TopicOf(x) \in Topics
    BY TopicOfIs
<1>5. crossed \subseteq crossed' /\ crossed' \subseteq crossed \cup {TopicOf(w)} /\ crossed' \subseteq Topics
    BY <1>1, <1>4 DEF Tell
<1>6. ASSUME TopicOf(w) \notin crossed', NEW x \in Writers \ {w}, TopicOf(x) = TopicOf(w)
      PROVE  telling[x] = <<>>
    <2>1. ~Busy(w)
        BY <1>6 DEF Tell
    <2> QED
        BY <1>6, <2>1 DEF Busy
<1>7. /\ TopicOf(w) \in ToBeTold'
      /\ \A t \in Topics \ {TopicOf(w)} : t \in ToBeTold => t \in ToBeTold'
    <2>1. TopicOf(w) \in ToBeTold'
        BY <1>2, <1>3 DEF ToBeTold
    <2>2. ASSUME NEW t \in Topics \ {TopicOf(w)}, t \in ToBeTold
          PROVE  t \in ToBeTold'
        <3>1. PICK x \in Writers : telling[x] # <<>> /\ TopicOf(x) = t
            BY <2>2 DEF ToBeTold
        <3> QED
            BY <1>3, <2>2, <3>1 DEF ToBeTold
    <2> QED
        BY <2>1, <2>2
<1>8. OneTells'
    <2> SUFFICES ASSUME NEW x \in Writers, NEW y \in Writers, TopicOf(x) = TopicOf(y),
                        TopicOf(x) \notin crossed', telling'[x] # <<>>, telling'[y] # <<>>
                 PROVE  x = y
        BY DEF OneTells
    <2>1. CASE x = w \/ y = w
        BY <1>3, <1>6, <2>1
    <2>2. CASE x # w /\ y # w
        BY <1>3, <1>5, <2>2 DEF OneTells
    <2> QED
        BY <2>1, <2>2
<1>9. TellsTheTruth'
    <2> SUFFICES ASSUME NEW x \in Writers, TopicOf(x) \notin crossed', telling'[x] # <<>>
                 PROVE  telling'[x][1] = Said'[TopicOf(x)]
        BY DEF TellsTheTruth
    <2>1. CASE x = w
        BY <1>2, <1>3, <2>1
    <2>2. CASE x # w
        <3>1. TopicOf(x) # TopicOf(w)
            BY <1>3, <1>6, <2>2
        <3>2. telling[x][1] = Said[TopicOf(x)]
            BY <1>3, <1>5, <2>2 DEF TellsTheTruth
        <3> QED
            BY <1>3, <1>4, <2>2, <3>1, <3>2
    <2> QED
        BY <2>1, <2>2
<1>10. ASSUME NEW t \in Topics, t \notin crossed', t \notin ToBeTold'
       PROVE  t \notin crossed /\ t \notin ToBeTold /\ Said'[t] = Said[t]
    BY <1>5, <1>7, <1>10
<1>11. NewestIsTrue'
    BY <1>10 DEF NewestIsTrue
<1>12. ShownIsTrue'
    BY <1>10 DEF ShownIsTrue
<1> QED
    BY <1>3, <1>5, <1>8, <1>9, <1>11, <1>12

\* Nobody tells of anything new.
LEMMA QuietStep ==
    ASSUME TruthInv, UNCHANGED <<pubQueue, publisher, shown, current, telling, crossed>>,
           Said' = Said
    PROVE  TruthInv'
<1>1. ToBeTold' = ToBeTold
    BY DEF ToBeTold
<1> QED
    BY <1>1 DEF TruthInv, OneTells, TellsTheTruth, NewestIsTrue, ShownIsTrue

\* A look leaves the queue to itself.
LEMMA QueueRests ==
    ASSUME QueueInv, UNCHANGED pubVars
    PROVE  QueueInv'
BY DEF pubVars, QueueInv, PubTypeOK, DropsAccounted, NewestLast, NothingBehind

LEMMA SwitchStep ==
    ASSUME PanelInv, NEW c \in Callers, Switch(c)
    PROVE  PanelInv'
<1>1. /\ Change /\ on' = 1 - on /\ unannounced' = FALSE /\ Tell(c, on') /\ UNCHANGED pubVars
      /\ UNCHANGED <<linkUp, lastLinkUp, prev, enable, restated>>
    BY DEF Switch
<1>2. c \in Writers /\ TopicOf(c) = "output" /\ on' \in Values
    BY <1>1, TopicOfIs, PanelAssumption DEF PanelInv, PanelTypeOK
<1>3. Said' = [Said EXCEPT !["output"] = on']
    BY <1>1 DEF Said, Announced
<1>4. (\A t \in Topics \ {"output"} : Said'[t] = Said[t]) /\ Said'["output"] = on'
    BY <1>3, SaidIs, TopicOfIs
<1>5. UNCHANGED <<pubQueue, publisher, shown, current>>
    BY <1>1 DEF pubVars
<1>6. /\ TruthInv' /\ crossed' \subseteq Topics
      /\ telling' \in [Writers -> {<<>>} \cup {<<u>> : u \in Values}]
    BY <1>1, <1>2, <1>4, <1>5, TellStep
<1>7. QueueInv'
    BY <1>1, QueueRests DEF PanelInv
<1>8. changes' \in 0 .. MaxChanges
    BY <1>1, PanelAssumption DEF PanelInv, PanelTypeOK, Change
<1>9. unannounced' \in BOOLEAN
    BY <1>1
<1> QED
    BY <1>1, <1>2, <1>6, <1>7, <1>8, <1>9 DEF PanelInv, PanelTypeOK, QueueInv

\* An upload switches the output off: what was announced is what it was before.
LEMMA UploadStep == PanelInv /\ Upload => PanelInv'
<1> SUFFICES ASSUME PanelInv, Upload PROVE PanelInv'
    OBVIOUS
<1>1. /\ on = 1 /\ on' = 0 /\ unannounced' = TRUE
      /\ UNCHANGED <<pubVars, linkUp, lastLinkUp, prev, enable, restated, changes, telling, crossed>>
    BY DEF Upload
<1>2. Said' = Said
    BY <1>1 DEF Said, Announced
<1>3. TruthInv'
    BY <1>1, <1>2, QuietStep DEF PanelInv, pubVars
<1>4. QueueInv'
    BY <1>1, QueueRests DEF PanelInv
<1>5. on' \in Values /\ unannounced' \in BOOLEAN
    BY <1>1, PanelAssumption
<1> QED
    BY <1>1, <1>3, <1>4, <1>5 DEF PanelInv, PanelTypeOK, QueueInv

LEMMA WriteCoilsStep == PanelInv /\ WriteCoils => PanelInv'
<1> SUFFICES ASSUME PanelInv, WriteCoils PROVE PanelInv'
    OBVIOUS
<1>1. /\ linkUp' \in Values /\ UNCHANGED pubVars /\ (Change \/ UNCHANGED changes)
      /\ UNCHANGED <<on, unannounced, lastLinkUp, prev, enable, restated, telling, crossed>>
    BY PanelAssumption DEF WriteCoils
<1>2. TruthInv'
    BY <1>1, QuietStep DEF PanelInv, pubVars, Said, Announced
<1>3. QueueInv'
    BY <1>1, QueueRests DEF PanelInv
<1>4. changes' \in 0 .. MaxChanges
    BY <1>1, PanelAssumption DEF PanelInv, PanelTypeOK, Change
<1> QED
    BY <1>1, <1>2, <1>3, <1>4 DEF PanelInv, PanelTypeOK, QueueInv

LEMMA ReportLinkStep == PanelInv /\ ReportLink => PanelInv'
<1> SUFFICES ASSUME PanelInv, ReportLink PROVE PanelInv'
    OBVIOUS
<1>1. /\ linkUp # Unknown /\ lastLinkUp' = linkUp /\ Tell("modbus", linkUp) /\ UNCHANGED pubVars
      /\ UNCHANGED <<on, unannounced, linkUp, prev, enable, restated, changes>>
    BY DEF ReportLink
<1>2. "modbus" \in Writers /\ TopicOf("modbus") = "link" /\ linkUp \in Values
    BY <1>1, TopicOfIs DEF PanelInv, PanelTypeOK
<1>3. Said' = [Said EXCEPT !["link"] = linkUp]
    BY <1>1 DEF Said, Announced
<1>4. (\A t \in Topics \ {"link"} : Said'[t] = Said[t]) /\ Said'["link"] = linkUp
    BY <1>3, SaidIs, TopicOfIs
<1>5. UNCHANGED <<pubQueue, publisher, shown, current>>
    BY <1>1 DEF pubVars
<1>6. /\ TruthInv' /\ crossed' \subseteq Topics
      /\ telling' \in [Writers -> {<<>>} \cup {<<u>> : u \in Values}]
    BY <1>1, <1>2, <1>4, <1>5, TellStep
<1>7. QueueInv'
    BY <1>1, QueueRests DEF PanelInv
<1> QED
    BY <1>1, <1>2, <1>6, <1>7 DEF PanelInv, PanelTypeOK, QueueInv

\* telemetryTask says what modbusTask has not said yet: then the two have crossed.
LEMMA RestateLinkStep == PanelInv /\ RestateLink => PanelInv'
<1> SUFFICES ASSUME PanelInv, RestateLink PROVE PanelInv'
    OBVIOUS
<1>1. /\ restated' = TRUE /\ UNCHANGED pubVars
      /\ UNCHANGED <<on, unannounced, linkUp, lastLinkUp, prev, enable, changes>>
    BY DEF RestateLink
<1>2. QueueInv'
    BY <1>1, QueueRests DEF PanelInv
<1>3. CASE linkUp = Unknown
    <2>1. UNCHANGED <<telling, crossed>>
        BY <1>3 DEF RestateLink
    <2>2. TruthInv'
        BY <1>1, <2>1, QuietStep DEF PanelInv, pubVars, Said, Announced
    <2> QED
        BY <1>1, <1>2, <2>1, <2>2 DEF PanelInv, PanelTypeOK, QueueInv
<1>4. CASE linkUp # Unknown
    <2>1. Tell("telemetry", linkUp)
        BY <1>4 DEF RestateLink
    <2>2. "telemetry" \in Writers /\ TopicOf("telemetry") = "link" /\ linkUp \in Values
        BY <1>4, TopicOfIs DEF PanelInv, PanelTypeOK
    <2>3. Said' = Said
        BY <1>1 DEF Said, Announced
    <2>4. ASSUME "link" \notin crossed' PROVE Said["link"] = linkUp
        <3>1. ~Busy("telemetry")
            BY <2>1, <2>2, <2>4 DEF Tell
        <3> QED
            BY <3>1, SaidIs DEF Busy
    <2>5. UNCHANGED <<pubQueue, publisher, shown, current>>
        BY <1>1 DEF pubVars
    <2>6. /\ TruthInv' /\ crossed' \subseteq Topics
          /\ telling' \in [Writers -> {<<>>} \cup {<<u>> : u \in Values}]
        BY <2>1, <2>2, <2>3, <2>4, <2>5, TellStep
    <2> QED
        BY <1>1, <1>2, <2>6 DEF PanelInv, PanelTypeOK, QueueInv
<1> QED
    BY <1>3, <1>4

\* A frame is to be published, or, while that is switched off, is not.
LEMMA ObservedStep ==
    ASSUME PanelInv, NEW v \in Values, Observed(v), changes' \in 0 .. MaxChanges
    PROVE  PanelInv'
<1>1. /\ Silent("worker") /\ prev' = v
      /\ UNCHANGED <<pubDropped, refused, shown, unreported>>
      /\ UNCHANGED <<on, unannounced, linkUp, lastLinkUp, enable, restated>>
    BY DEF Observed
<1>2. /\ "worker" \in Writers /\ TopicOf("worker") = "frame" /\ "frame" \in Topics
    BY TopicOfIs
<1>3. Said' = [Said EXCEPT !["frame"] = v]
    BY <1>1 DEF Said, Announced
<1>4. (\A t \in Topics \ {"frame"} : Said'[t] = Said[t]) /\ Said'["frame"] = v
    BY <1>3, SaidIs, TopicOfIs
<1>5. CASE enable
    <2>1. Tell("worker", v) /\ UNCHANGED <<pubQueue, publisher, shown, current>>
        BY <1>1, <1>5 DEF Observed
    <2>2. /\ TruthInv' /\ crossed' \subseteq Topics
          /\ telling' \in [Writers -> {<<>>} \cup {<<u>> : u \in Values}]
        BY <1>2, <1>4, <2>1, TellStep
    <2>3. QueueInv'
        BY <1>1, <2>1, QueueRests DEF PanelInv, pubVars
    <2> QED
        BY <1>1, <2>2, <2>3 DEF PanelInv, PanelTypeOK, QueueInv
<1>6. CASE ~enable
    <2>1. Supersede("frame") /\ pubQueue' = Older("frame") /\ UNCHANGED <<telling, crossed>>
        BY <1>6 DEF Observed
    <2>2. PubTypeOK
        BY DEF PanelInv, QueueInv
    <2>3. /\ current' \in [Topics -> BOOLEAN] /\ ~current'["frame"]
          /\ \A u \in Topics : current'[u] => current[u]
          /\ publisher' \in {Receiving, [pc |-> "check"]} \cup [pc : {"publish"}, msg : Message]
          /\ publisher'.pc = publisher.pc
          /\ publisher.pc = "publish" => publisher'.msg = Outdated(publisher.msg, "frame")
        BY <1>2, <2>1, <2>2, SupersedeIs
    <2>4. /\ pubQueue' \in Seq(Message) /\ Len(pubQueue') <= PubDepth
          /\ NewestLast' /\ NothingBehind'
        BY <1>2, <2>1, SupersedeStep DEF PanelInv
    <2>5. QueueInv'
        BY <1>1, <2>2, <2>3, <2>4 DEF PanelInv, QueueInv, PubTypeOK, DropsAccounted
    <2>6. ToBeTold' = ToBeTold
        BY <2>1 DEF ToBeTold
    <2>7. OneTells'
        BY <2>1 DEF PanelInv, TruthInv, OneTells
    <2>8. TellsTheTruth'
        <3> SUFFICES ASSUME NEW x \in Writers, TopicOf(x) \notin crossed, telling[x] # <<>>
                     PROVE  telling[x][1] = Said'[TopicOf(x)]
            BY <2>1 DEF TellsTheTruth
        <3>1. x # "worker"
            BY <1>1 DEF Silent
        <3>2. TopicOf(x) \in Topics \ {"frame"}
            BY <3>1, TopicOfIs
        <3> QED
            BY <1>4, <3>2 DEF PanelInv, TruthInv, TellsTheTruth
    <2>9. \A i \in DOMAIN pubQueue :
              /\ pubQueue'[i].topic = pubQueue[i].topic /\ pubQueue'[i].value = pubQueue[i].value
              /\ pubQueue'[i].newest => pubQueue[i].newest /\ pubQueue[i].topic # "frame"
        BY <1>2, <2>1, <2>2, OlderIs, QueueIs, OutdatedIs
    <2>10. publisher.pc = "publish" =>
              /\ publisher'.msg.topic = publisher.msg.topic
              /\ publisher'.msg.value = publisher.msg.value
              /\ publisher'.msg.newest => publisher.msg.newest /\ publisher.msg.topic # "frame"
        BY <1>2, <2>2, <2>3, QueueIs, OutdatedIs
    <2>11. DOMAIN pubQueue' = DOMAIN pubQueue
        BY <1>2, <2>1, <2>2, OlderIs
    <2>12. NewestIsTrue'
        <3> SUFFICES ASSUME NEW t \in Topics, t \notin crossed, t \notin ToBeTold
                     PROVE  /\ \A i \in DOMAIN pubQueue :
                                  (pubQueue'[i].topic = t /\ pubQueue'[i].newest) => pubQueue'[i].value = Said'[t]
                            /\ (publisher'.pc = "publish" /\ publisher'.msg.topic = t /\ publisher'.msg.newest) =>
                                  publisher'.msg.value = Said'[t]
            BY <2>1, <2>6, <2>11 DEF NewestIsTrue
        <3>1. CASE t = "frame"
            BY <2>3, <2>9, <2>10, <3>1
        <3>2. CASE t # "frame"
            BY <1>4, <2>3, <2>9, <2>10, <3>2 DEF PanelInv, TruthInv, NewestIsTrue
        <3> QED
            BY <3>1, <3>2
    <2>13. ShownIsTrue'
        <3> SUFFICES ASSUME NEW t \in Topics, t \notin crossed, t \notin ToBeTold, current'[t],
                            Said'[t] # Unknown
                     PROVE  shown[t] = Said'[t]
            BY <1>1, <2>1, <2>6 DEF ShownIsTrue
        <3>1. t # "frame" /\ current[t]
            BY <2>3
        <3> QED
            BY <1>4, <3>1 DEF PanelInv, TruthInv, ShownIsTrue
    <2> QED
        BY <1>1, <2>1, <2>5, <2>7, <2>8, <2>12, <2>13 DEF PanelInv, PanelTypeOK, QueueInv, TruthInv
<1> QED
    BY <1>5, <1>6

LEMMA WorkerStep == PanelInv /\ (FrameChanges \/ Heartbeat \/ SetEnable) => PanelInv'
<1> SUFFICES ASSUME PanelInv, FrameChanges \/ Heartbeat \/ SetEnable PROVE PanelInv'
    OBVIOUS
<1>1. prev \in Values /\ 1 - prev \in Values /\ changes \in 0 .. MaxChanges
    BY PanelAssumption DEF PanelInv, PanelTypeOK
<1>2. CASE FrameChanges
    <2>1. changes' \in 0 .. MaxChanges
        BY <1>1, <1>2, PanelAssumption DEF FrameChanges, Change
    <2> QED
        BY <1>1, <1>2, <2>1, ObservedStep DEF FrameChanges
<1>3. CASE Heartbeat
    <2>1. changes' \in 0 .. MaxChanges
        BY <1>1, <1>3 DEF Heartbeat
    <2> QED
        BY <1>1, <1>3, <2>1, ObservedStep DEF Heartbeat
<1>4. CASE SetEnable
    <2>1. /\ UNCHANGED pubVars
          /\ UNCHANGED <<on, unannounced, linkUp, lastLinkUp, prev, restated, telling, crossed>>
          /\ enable' \in BOOLEAN
        BY <1>4 DEF SetEnable
    <2>2. changes' \in 0 .. MaxChanges
        BY <1>1, <1>4, PanelAssumption DEF SetEnable, Change
    <2>3. TruthInv'
        BY <2>1, QuietStep DEF PanelInv, pubVars, Said, Announced
    <2>4. QueueInv'
        BY <2>1, QueueRests DEF PanelInv
    <2> QED
        BY <2>1, <2>2, <2>3, <2>4 DEF PanelInv, PanelTypeOK, QueueInv
<1> QED
    BY <1>2, <1>3, <1>4

-------------------------------------------------------------------------------
LEMMA PublishStep ==
    ASSUME PanelInv, NEW w \in Writers, Publish(w)
    PROVE  PanelInv'
<1> USE DEF PanelInv, TruthInv
<1> DEFINE t == TopicOf(w)
<1> DEFINE v == telling[w][1]
<1> DEFINE msg == [topic |-> t, value |-> v, newest |-> TRUE]
<1>1. /\ telling[w] # <<>> /\ PublishAsync(w, t, v) /\ telling' = [telling EXCEPT ![w] = <<>>]
      /\ UNCHANGED <<stateVars, crossed>>
    BY DEF Publish
<1>2. t \in Topics /\ v \in Values
    BY <1>1, TellingIs, TopicOfIs
<1> HIDE DEF v, t
<1>3. QueueInv'
    BY <1>1, <1>2, PublishAsyncStep
<1>4. /\ telling' \in [Writers -> {<<>>} \cup {<<u>> : u \in Values}]
      /\ telling'[w] = <<>> /\ \A x \in Writers \ {w} : telling'[x] = telling[x]
    BY <1>1 DEF PanelTypeOK
<1>5. PanelTypeOK'
    BY <1>1, <1>3, <1>4 DEF PanelTypeOK, stateVars, QueueInv
<1>6. Said' = Said /\ UNCHANGED <<crossed, shown>>
    BY <1>1 DEF Said, Announced, stateVars, PublishAsync
<1>7. ASSUME NEW u \in Topics, u # t, u \notin ToBeTold'
      PROVE  u \notin ToBeTold
    BY <1>4, <1>7 DEF ToBeTold, t
<1>8. OneTells'
    BY <1>4, <1>6 DEF OneTells
<1>9. TellsTheTruth'
    BY <1>4, <1>6 DEF TellsTheTruth
<1>10. PubTypeOK /\ Supersede(t)
    BY <1>1 DEF QueueInv, PublishAsync
<1>11. /\ ~current'[t] /\ \A u \in Topics : current'[u] => current[u]
       /\ publisher'.pc = publisher.pc
       /\ publisher.pc = "publish" => publisher'.msg = Outdated(publisher.msg, t)
    BY <1>2, <1>10, SupersedeIs
<1>12. publisher.pc = "publish" =>
          /\ publisher'.msg.topic = publisher.msg.topic
          /\ publisher'.msg.value = publisher.msg.value
          /\ publisher'.msg.newest => publisher.msg.newest /\ publisher.msg.topic # t
    BY <1>2, <1>10, <1>11, QueueIs, OutdatedIs
<1>13. /\ Older(t) \in Seq(Message) /\ Len(Older(t)) = Len(pubQueue)
       /\ DOMAIN Older(t) = DOMAIN pubQueue
       /\ Len(pubQueue) \in Nat /\ DOMAIN pubQueue = 1 .. Len(pubQueue)
       /\ \A i \in DOMAIN pubQueue :
             /\ Older(t)[i].topic = pubQueue[i].topic /\ Older(t)[i].value = pubQueue[i].value
             /\ Older(t)[i].newest => pubQueue[i].newest /\ pubQueue[i].topic # t
    BY <1>2, <1>10, OlderIs, QueueIs, OutdatedIs
<1>14. msg \in Message /\ msg.topic = t /\ msg.value = v
    BY <1>2 DEF Message
<1>15. pubQueue' = Append(Older(t), msg) \/ pubQueue' = Older(t)
    BY <1>1 DEF PublishAsync, Queued
<1> HIDE DEF msg
<1>16. \A i \in DOMAIN pubQueue' :
          \/ i \in DOMAIN pubQueue /\ pubQueue'[i] = Older(t)[i]
          \/ pubQueue'[i] = msg
    <2>1. CASE pubQueue' = Append(Older(t), msg)
        <3>1. /\ Append(Older(t), msg) \in Seq(Message)
              /\ Len(Append(Older(t), msg)) = Len(pubQueue) + 1
              /\ \A i \in 1 .. Len(pubQueue) : Append(Older(t), msg)[i] = Older(t)[i]
              /\ Append(Older(t), msg)[Len(pubQueue) + 1] = msg
            BY <1>13, <1>14, AppendProperties
        <3>2. DOMAIN Append(Older(t), msg) = 1 .. Len(pubQueue) + 1
            BY <3>1, LenProperties
        <3> QED
            BY <1>13, <2>1, <3>1, <3>2
    <2>2. CASE pubQueue' = Older(t)
        BY <1>13, <2>2
    <2> QED
        BY <1>15, <2>1, <2>2
<1>17. NewestIsTrue'
    <2> SUFFICES ASSUME NEW u \in Topics, u \notin crossed, u \notin ToBeTold'
                 PROVE  /\ \A i \in DOMAIN pubQueue' :
                              (pubQueue'[i].topic = u /\ pubQueue'[i].newest) => pubQueue'[i].value = Said[u]
                        /\ (publisher'.pc = "publish" /\ publisher'.msg.topic = u /\ publisher'.msg.newest) =>
                              publisher'.msg.value = Said[u]
        BY <1>6 DEF NewestIsTrue
    <2>1. ASSUME NEW i \in DOMAIN pubQueue', pubQueue'[i].topic = u, pubQueue'[i].newest
          PROVE  pubQueue'[i].value = Said[u]
        <3>1. CASE i \in DOMAIN pubQueue /\ pubQueue'[i] = Older(t)[i]
            BY <1>7, <1>13, <2>1, <3>1 DEF NewestIsTrue
        <3>2. CASE pubQueue'[i] = msg
            <4>1. u = t
                BY <1>14, <2>1, <3>2
            <4> QED
                BY <1>1, <1>14, <3>2, <4>1 DEF TellsTheTruth, t, v
        <3> QED
            BY <1>16, <3>1, <3>2
    <2>2. ASSUME publisher'.pc = "publish", publisher'.msg.topic = u, publisher'.msg.newest
          PROVE  publisher'.msg.value = Said[u]
        BY <1>7, <1>11, <1>12, <2>2 DEF NewestIsTrue
    <2> QED
        BY <2>1, <2>2
<1>18. ShownIsTrue'
    <2> SUFFICES ASSUME NEW u \in Topics, u \notin crossed, u \notin ToBeTold', current'[u],
                        Said[u] # Unknown
                 PROVE  shown[u] = Said[u]
        BY <1>6 DEF ShownIsTrue
    <2> QED
        BY <1>7, <1>11 DEF ShownIsTrue
<1> QED
    BY <1>3, <1>5, <1>8, <1>9, <1>17, <1>18

\* A refused message is counted.
LEMMA CountStep ==
    ASSUME PanelInv, NEW w \in Writers, CountDrop(w), UNCHANGED <<stateVars, telling, crossed>>
    PROVE  PanelInv'
<1>1. QueueInv'
    BY CountDropStep DEF PanelInv
<1>2. TruthInv'
    BY QuietStep DEF PanelInv, CountDrop, stateVars, Said, Announced
<1> QED
    BY <1>1, <1>2 DEF PanelInv, PanelTypeOK, QueueInv, stateVars

LEMMA PublisherStep ==
    ASSUME PanelInv, PublisherTask, UNCHANGED <<stateVars, telling, crossed>>
    PROVE  PanelInv'
<1> USE DEF PanelInv, TruthInv
<1>1. Said' = Said /\ ToBeTold' = ToBeTold /\ UNCHANGED <<telling, crossed>>
    BY DEF Said, Announced, ToBeTold, stateVars
<1>2. OneTells' /\ TellsTheTruth'
    BY <1>1 DEF OneTells, TellsTheTruth
<1>3. PubTypeOK' => PanelTypeOK'
    BY DEF PanelTypeOK, stateVars
<1>4. CASE Receive
    <2>1. /\ QueueInv' /\ UNCHANGED <<shown, current>>
          /\ publisher' = [pc |-> "publish", msg |-> pubQueue[1]] /\ 1 \in DOMAIN pubQueue
          /\ \A i \in DOMAIN pubQueue' : i + 1 \in DOMAIN pubQueue /\ pubQueue'[i] = pubQueue[i + 1]
        BY <1>4, ReceiveStep DEF Receive
    <2>2. publisher'.msg = pubQueue[1]
        BY <2>1
    <2>3. NewestIsTrue'
        BY <1>1, <2>1, <2>2 DEF NewestIsTrue
    <2>4. ShownIsTrue'
        BY <1>1, <2>1 DEF ShownIsTrue
    <2> QED
        BY <1>2, <1>3, <2>1, <2>3, <2>4 DEF QueueInv
<1>5. CASE Delivered
    <2> DEFINE m == publisher.msg
    <2>1. /\ QueueInv' /\ publisher.pc = "publish" /\ publisher' = [pc |-> "check"]
          /\ UNCHANGED pubQueue
          /\ ~current[m.topic] /\ (current'[m.topic] => m.newest) /\ shown'[m.topic] = m.value
          /\ \A t \in Topics \ {m.topic} : shown'[t] = shown[t] /\ (current'[t] => current[t])
        BY <1>5, DeliveredStep DEF Delivered
    <2> HIDE DEF m
    <2>2. NewestIsTrue'
        BY <1>1, <2>1 DEF NewestIsTrue
    <2>3. ShownIsTrue'
        <3> SUFFICES ASSUME NEW t \in Topics, t \notin crossed, t \notin ToBeTold, current'[t],
                            Said[t] # Unknown
                     PROVE  shown'[t] = Said[t]
            BY <1>1 DEF ShownIsTrue
        <3>1. CASE t = m.topic
            BY <2>1, <3>1 DEF NewestIsTrue, m
        <3>2. CASE t # m.topic
            BY <2>1, <3>2 DEF ShownIsTrue
        <3> QED
            BY <3>1, <3>2
    <2> QED
        BY <1>2, <1>3, <2>1, <2>2, <2>3 DEF QueueInv
<1>6. CASE Lost \/ Check
    <2>1. QueueInv' /\ UNCHANGED <<pubQueue, shown, current>> /\ publisher'.pc # "publish"
        BY <1>6, LostStep, CheckStep DEF Lost, Check, Receiving
    <2>2. NewestIsTrue' /\ ShownIsTrue'
        BY <1>1, <2>1 DEF NewestIsTrue, ShownIsTrue
    <2> QED
        BY <1>2, <1>3, <2>1, <2>2 DEF QueueInv
<1> QED
    BY <1>4, <1>5, <1>6 DEF PublisherTask

-------------------------------------------------------------------------------
(* What is proved *)

LEMMA PanelInvStarts == PanelInit => PanelInv
<1> SUFFICES ASSUME PanelInit PROVE PanelInv
    OBVIOUS
<1>1. PICK v \in Values : PubInit([t \in Topics |-> IF t = "link" THEN v ELSE 0])
    BY DEF PanelInit
<1>2. /\ pubQueue = <<>> /\ pubDropped = 0 /\ refused = {} /\ publisher = Receiving
      /\ shown = [t \in Topics |-> IF t = "link" THEN v ELSE 0]
      /\ current = [t \in Topics |-> TRUE] /\ unreported = 0
    BY <1>1 DEF PubInit
<1>3. /\ on = 0 /\ linkUp = Unknown /\ lastLinkUp = Unknown /\ prev = 0 /\ enable = TRUE
      /\ telling = [w \in Writers |-> <<>>]
      /\ restated = FALSE /\ changes = 0 /\ crossed = {} /\ unannounced = FALSE
    BY DEF PanelInit
<1>4. <<>> \in Seq(Message) /\ Len(<<>>) = 0 /\ DOMAIN <<>> = {} /\ publisher.pc = "receive"
    BY <1>2, EmptySeq DEF Receiving
<1>5. shown \in [Topics -> Values]
    BY <1>2, PanelAssumption
<1>6. PubTypeOK
    BY <1>2, <1>4, <1>5, PublisherAssumption DEF PubTypeOK
<1>7. DropsAccounted /\ NewestLast /\ NothingBehind
    BY <1>2, <1>4, FS_EmptySet DEF DropsAccounted, NewestLast, NothingBehind
<1>8. PanelTypeOK
    <2>1. enable \in BOOLEAN /\ restated \in BOOLEAN /\ unannounced \in BOOLEAN
        BY <1>3, Zenon
    <2>2. telling \in [Writers -> {<<>>} \cup {<<u>> : u \in Values}]
        BY <1>3
    <2>3. /\ on \in Values /\ prev \in Values /\ changes \in 0 .. MaxChanges /\ crossed \subseteq Topics
          /\ linkUp \in Values \cup {Unknown} /\ lastLinkUp \in Values \cup {Unknown}
        BY <1>3, PanelAssumption
    <2> QED
        BY <1>6, <2>1, <2>2, <2>3 DEF PanelTypeOK
<1>9. OneTells /\ TellsTheTruth
    BY <1>3 DEF OneTells, TellsTheTruth
<1>10. NewestIsTrue
    BY <1>2, <1>4 DEF NewestIsTrue
<1>11. ShownIsTrue
    <2>1. \A t \in {"output", "frame"} : shown[t] = Said[t]
        BY <1>2, <1>3, SaidIs, TopicOfIs DEF Announced
    <2>2. Said["link"] = Unknown
        BY <1>3, SaidIs
    <2> QED
        BY <2>1, <2>2, TopicOfIs DEF ShownIsTrue
<1> QED
    BY <1>6, <1>7, <1>8, <1>9, <1>10, <1>11 DEF PanelInv, QueueInv, TruthInv

LEMMA PanelInvNext == PanelInv /\ [PanelNext]_panelVars => PanelInv'
<1> SUFFICES ASSUME PanelInv, [PanelNext]_panelVars PROVE PanelInv'
    OBVIOUS
<1>1. CASE Look
    BY <1>1, SwitchStep, UploadStep, WriteCoilsStep, ReportLinkStep, RestateLinkStep, WorkerStep DEF Look
<1>2. CASE \E w \in Writers : Writer(w)
    BY <1>2, PublishStep, CountStep DEF Writer
<1>3. CASE PublisherRuns
    BY <1>3, PublisherStep DEF PublisherRuns
<1>4. CASE UNCHANGED panelVars
    <2>1. UNCHANGED <<pubVars, stateVars, telling, crossed>>
        BY <1>4 DEF panelVars
    <2>2. QueueInv'
        BY <2>1, QueueRests DEF PanelInv
    <2>3. TruthInv'
        BY <2>1, QuietStep DEF PanelInv, pubVars, stateVars, Said, Announced
    <2> QED
        BY <2>1, <2>2, <2>3 DEF PanelInv, PanelTypeOK, QueueInv, stateVars
<1> QED
    BY <1>1, <1>2, <1>3, <1>4 DEF PanelNext

\* In whatever order the tasks look and publish, and whatever the queue refuses or the
\* client loses: what is on its way, and what it says (publishAsync, publisherTask).
THEOREM PanelInvariant == PanelSpec => []PanelInv
<1> QED
    BY PanelInvStarts, PanelInvNext, PTL DEF PanelSpec

\* Every drop is in the counter, or its writer is about to add it, or a line has told of it:
\* publisherTask's exchange of the counter loses none (g_pubDropped).
THEOREM DropsAreAccounted == PanelSpec => []PanelSound
<1>1. PanelInv => PanelSound
    BY DEF PanelInv, QueueInv, PanelSound
<1> QED
    BY <1>1, PanelInvariant, PTL

\* "A Node-RED panel can show the true state": once a topic has settled the broker shows the
\* truth, unless the last message did not get there or two tasks have crossed on the topic;
\* and after an upload that switched the output off, which nothing announces
\* (OutputBank::loadJson), it shows "on" until the output is switched again.
THEOREM PanelShowsTheTruth == PanelSpec => []ShowsTheTruth
<1>1. PanelInv => ShowsTheTruth
    <2> SUFFICES ASSUME PanelInv, NEW t \in Topics, Shown(t), t \notin crossed
                 PROVE  shown[t] = IF t = "output" /\ unannounced THEN 1 ELSE Truth(t)
        BY DEF ShowsTheTruth
    <2>1. t \notin ToBeTold /\ current[t]
        BY DEF Shown, Settled, Silent, ToBeTold
    <2>2. t \in {"output", "link", "frame"}
        BY TopicOfIs
    <2>3. Said[t] = (IF t = "output" /\ unannounced THEN 1 ELSE Truth(t)) /\ Said[t] # Unknown
        <3>1. CASE t = "output"
            BY <3>1, SaidIs, PanelAssumption DEF Announced, Truth, Unknown, PanelInv, PanelTypeOK
        <3>2. CASE t = "link"
            BY <3>2, SaidIs DEF Truth, Shown, Settled
        <3>3. CASE t = "frame"
            BY <3>3, SaidIs, PanelAssumption DEF Truth, Unknown, PanelInv, PanelTypeOK
        <3> QED
            BY <2>2, <3>1, <3>2, <3>3
    <2> QED
        BY <2>1, <2>3 DEF PanelInv, TruthInv, ShownIsTrue
<1> QED
    BY <1>1, PanelInvariant, PTL
===============================================================================
