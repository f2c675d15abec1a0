----------------------------- MODULE CanBusProofs -----------------------------
(***************************************************************************)
(* Proofs about class CanBus, for every queue depth, bit rate and number   *)
(* of frames: the frames that come in (CanQueue), the controller and its   *)
(* rate (CanNode), and the frames that go out (CanTransmit); about the     *)
(* clock on the bus (CanClock), for every length of a second, a day and a  *)
(* delay; and about the four of them side by side.                         *)
(***************************************************************************)
EXTENDS MCCanBus, NaturalFacts, SequenceTheorems, TLAPS

-------------------------------------------------------------------------------
(* Facts about sequences *)

\* A frame that joins the end of the queue joins the end of what is on its way.
LEMMA AppendToLast ==
    ASSUME NEW h \in Seq(Frame), NEW w \in Seq(Frame), NEW q \in Seq(Frame), NEW f \in Frame
    PROVE  Append(h \o w \o q, f) = h \o w \o Append(q, f)
<1>1. h \o w \in Seq(Frame) /\ h \o w \o q \in Seq(Frame) /\ <<f>> \in Seq(Frame)
    BY ConcatProperties
<1>2. Append(h \o w \o q, f) = (h \o w \o q) \o <<f>> /\ Append(q, f) = q \o <<f>>
    BY <1>1, AppendIsConcat
<1> QED
    BY <1>1, <1>2, ConcatAssociative

\* Taking the first of a queue into an empty hand loses nothing.
LEMMA TakeFirst ==
    ASSUME NEW S, NEW h \in Seq(S), NEW q \in Seq(S), q # <<>>
    PROVE  /\ q[1] \in S /\ Tail(q) \in Seq(S) /\ Len(Tail(q)) = Len(q) - 1
           /\ h \o <<>> \o q = h \o <<q[1]>> \o Tail(q)
<1>1. /\ Head(q) \in S /\ Head(q) = q[1] /\ Tail(q) \in Seq(S)
      /\ Len(Tail(q)) = Len(q) - 1 /\ Len(q) \in Nat \ {0}
    BY HeadTailProperties, EmptySeq, LenProperties
<1>2. q = SubSeq(q, 1, Len(q)) /\ SubSeq(q, 1, Len(q)) = <<q[1]>> \o SubSeq(q, 2, Len(q))
    BY <1>1, SubSeqFull, SubSeqRecursiveFirst
<1>3. q = <<q[1]>> \o Tail(q)
    BY <1>2, TailIsSubSeq
<1>4. h \o <<>> = h
    BY ConcatEmptySeq
<1>5. <<q[1]>> \in Seq(S)
    BY <1>1
<1> QED
    BY <1>1, <1>3, <1>4, <1>5, ConcatAssociative

-------------------------------------------------------------------------------
(* The receive path: the inductive invariant *)

\* p has given a frame to the queue and has still to count it as c.
Owes(p, c) == IF p.pc \in {"load", "store"} /\ p.counter = c THEN 1 ELSE 0

Debts(c) == Owes(isr, c) + Owes(inject, c)

\* The increments of each counter that are over: of the frames that went that way, those
\* whose maker has counted them.
OverRx == Len(accepted) - Debts("framesRx")
OverDrops == made - Len(accepted) - (IF inject.pc = "send" THEN 1 ELSE 0) - Debts("drops")

Over(c) == IF c = "framesRx" THEN OverRx ELSE OverDrops

\* No counter is ahead of the increments that are over, nor is what was loaded of it.
NoneAhead ==
    /\ \A c \in Counters : ValueOf(c) <= Over(c)
    /\ \A p \in {isr, inject} : p.pc = "store" => p.loaded <= Over(p.counter)
    /\ injected + (IF inject = Outside THEN 0 ELSE 1) <= made

\* While no two increments of a counter have overlapped, none is behind either.
NoneBehind ==
    ~overlap =>
        /\ \A c \in Counters : ValueOf(c) = Over(c)
        /\ \A p \in {isr, inject} : p.pc = "store" => p.loaded = ValueOf(p.counter)
        /\ \A c \in Counters : ~(InIncrement(isr, c) /\ InIncrement(inject, c))

QInv ==
    /\ QTypeOK
    /\ NothingLostOnTheWay
    /\ NoneAhead
    /\ NoneBehind

-------------------------------------------------------------------------------
(* The receive path: each step preserves it *)

\* A frame that is given to the queue is at its end, or has gone nowhere.
LEMMA OfferStep ==
    ASSUME QInv, NEW f \in Frame, Offer(f)
    PROVE  /\ queue' \in Seq(Frame) /\ Len(queue') <= Depth
           /\ accepted' \in Seq(Frame) /\ accepted' = handled \o hand \o queue'
           /\ Len(accepted) \in Nat
           /\ Len(accepted') = Len(accepted) + (IF HasRoom THEN 1 ELSE 0)
<1>1. /\ queue \in Seq(Frame) /\ hand \in Seq(Frame) /\ handled \in Seq(Frame)
      /\ accepted \in Seq(Frame) /\ Len(queue) <= Depth
    BY EmptySeq DEF QInv, QTypeOK, Nothing
<1>4. Len(queue) \in Nat /\ Len(accepted) \in Nat
    BY <1>1, LenProperties
<1>2. CASE HasRoom
    <2>1. queue' = Append(queue, f) /\ accepted' = Append(accepted, f)
        BY <1>2 DEF Offer, QueueAfter, HasRoom
    <2>2. Len(queue) < Depth
        BY <1>2 DEF HasRoom, Room
    <2>3. /\ queue' \in Seq(Frame) /\ Len(queue') = Len(queue) + 1
          /\ accepted' \in Seq(Frame) /\ Len(accepted') = Len(accepted) + 1
        BY <1>1, <2>1, AppendProperties
    <2>4. accepted' = handled \o hand \o queue'
        <3>1. Append(handled \o hand \o queue, f) = handled \o hand \o Append(queue, f)
            BY <1>1, AppendToLast, ZenonT(40)
        <3> QED
            BY <2>1, <3>1 DEF QInv, NothingLostOnTheWay
    <2> QED
        BY <1>1, <1>2, <1>4, <2>2, <2>3, <2>4, QueueAssumption
<1>3. CASE ~HasRoom
    <2>1. queue' = queue /\ accepted' = accepted
        BY <1>3 DEF Offer, QueueAfter, HasRoom
    <2> QED
        BY <1>1, <1>3, <1>4, <2>1 DEF QInv, NothingLostOnTheWay
<1> QED
    BY <1>2, <1>3

\* The interrupt: the frame, and the load of its counter.
LEMMA ReceiveStep == QInv /\ Receive => QInv'
<1> USE DEF QInv, QTypeOK
<1> SUFFICES ASSUME QInv, Receive PROVE QInv'
    OBVIOUS
<1> DEFINE f == [n |-> made + 1, by |-> "bus", recvUs |-> now]
           c == Counted(HasRoom)
<1>1. made \in Nat /\ made < MaxFrames /\ f \in Frame
    BY QueueAssumption DEF Receive, Frame, Time
<1>2. /\ queue' \in Seq(Frame) /\ Len(queue') <= Depth
      /\ accepted' \in Seq(Frame) /\ accepted' = handled \o hand \o queue'
      /\ Len(accepted) \in Nat
      /\ Len(accepted') = Len(accepted) + (IF HasRoom THEN 1 ELSE 0)
    BY <1>1, OfferStep DEF Receive
<1>3. /\ isr = Outside /\ made' = made + 1
      /\ UNCHANGED <<now, framesRx, drops, injected, inject, hand, handled>>
      /\ overlap' = (overlap \/ InIncrement(inject, c))
    BY DEF Receive, counterVars
<1>4. /\ c \in Counters /\ c = IF HasRoom THEN "framesRx" ELSE "drops"
      /\ isr' = [pc |-> "store", counter |-> c, loaded |-> ValueOf(c)]
    BY DEF Receive, Counted, Counters, LoadOf
<1>5. ValueOf(c) \in Nat
    BY <1>1 DEF ValueOf
<1>6. QTypeOK'
    BY <1>1, <1>2, <1>3, <1>4, <1>5, QueueAssumption DEF InCounting
<1>7. OverRx' = OverRx /\ OverDrops' = OverDrops
    <2>1. /\ isr.pc = "out" /\ isr'.pc = "store" /\ isr'.counter = c
        BY <1>3, <1>4 DEF Outside
    <2>2. CASE HasRoom
        BY <1>2, <1>3, <1>4, <2>1, <2>2 DEF OverRx, OverDrops, Debts, Owes
    <2>3. CASE ~HasRoom
        BY <1>2, <1>3, <1>4, <2>1, <2>3 DEF OverRx, OverDrops, Debts, Owes
    <2> QED
        BY <2>2, <2>3
<1>8. NoneAhead'
    BY <1>3, <1>4, <1>7 DEF NoneAhead, Counters, Over, ValueOf, Outside
<1>9. NoneBehind'
    <2>1. ~overlap' => ~overlap /\ ~InIncrement(inject, c)
        BY <1>3 DEF InIncrement
    <2>2. isr'.loaded = ValueOf(c) /\ isr'.counter = c /\ UNCHANGED <<framesRx, drops, inject>>
        BY <1>3, <1>4
    <2> HIDE DEF c
    <2> QED
        BY <1>3, <1>7, <2>1, <2>2, <1>4 DEF NoneBehind, Counters, Over, ValueOf, InIncrement
<1> QED
    BY <1>2, <1>3, <1>6, <1>8, <1>9 DEF NothingLostOnTheWay

\* A count is stored.
LEMMA StoreStep ==
    ASSUME QInv, NEW p \in {isr, inject}, p.pc = "store", Store(p)
    PROVE  /\ framesRx' \in Nat /\ drops' \in Nat
           /\ p.counter \in Counters /\ p.loaded \in Nat
           /\ p.counter = "framesRx" => framesRx' = p.loaded + 1 /\ drops' = drops
           /\ p.counter = "drops" => drops' = p.loaded + 1 /\ framesRx' = framesRx
<1>1. p \in InCounting
    BY DEF QInv, QTypeOK, Outside, InCounting
<1>2. framesRx \in Nat /\ drops \in Nat
    BY DEF QInv, QTypeOK
<1> QED
    BY <1>1, <1>2 DEF InCounting, Counters, Store

\* How the debts of one process end.
LEMMA CountReceivedStep == QInv /\ CountReceived => QInv'
<1> SUFFICES ASSUME QInv, CountReceived PROVE QInv'
    OBVIOUS
<1> USE DEF QInv, QTypeOK
<1>1. /\ isr \in InCounting /\ isr.pc = "store" /\ Store(isr)
      /\ isr' = Outside
      /\ UNCHANGED <<now, queue, injected, inject, hand, made, accepted, handled, overlap>>
    BY DEF CountReceived, pastVars, InCounting
<1>2. /\ framesRx' \in Nat /\ drops' \in Nat
      /\ isr.counter \in Counters /\ isr.loaded \in Nat
      /\ isr.counter = "framesRx" => framesRx' = isr.loaded + 1 /\ drops' = drops
      /\ isr.counter = "drops" => drops' = isr.loaded + 1 /\ framesRx' = framesRx
    BY <1>1, StoreStep
<1>3. Len(accepted) \in Nat
    BY LenProperties
<1>4. /\ OverRx' = OverRx + (IF isr.counter = "framesRx" THEN 1 ELSE 0)
      /\ OverDrops' = OverDrops + (IF isr.counter = "drops" THEN 1 ELSE 0)
      /\ OverRx \in Int /\ OverDrops \in Int
    BY <1>1, <1>2, <1>3 DEF OverRx, OverDrops, Debts, Owes, Outside, Counters
<1>5. NoneAhead'
    BY <1>1, <1>2, <1>4 DEF NoneAhead, Counters, Over, ValueOf, Outside, InCounting
<1>6. NoneBehind'
    BY <1>1, <1>2, <1>4 DEF NoneBehind, Counters, Over, ValueOf, InIncrement, Outside, InCounting
<1>7. QTypeOK'
    <2>1. OverRx' <= made /\ OverDrops' <= made /\ made \in Nat
        BY <1>1, <1>2, <1>3, <1>5 DEF OverRx, OverDrops, Debts, Owes, Outside, NoneAhead, Over, ValueOf, Counters
    <2>2. framesRx' <= OverRx' /\ drops' <= OverDrops'
        BY <1>5 DEF NoneAhead, Over, ValueOf, Counters
    <2>3. framesRx' \in 0 .. made /\ drops' \in 0 .. made
        BY <1>2, <1>4, <2>1, <2>2
    <2> QED
        BY <1>1, <2>3
<1> QED
    BY <1>1, <1>5, <1>6, <1>7 DEF NothingLostOnTheWay

\* inject(): a frame that is built is not given to the queue yet.
LEMMA BuildStep == QInv /\ Build => QInv'
<1> SUFFICES ASSUME QInv, Build PROVE QInv'
    OBVIOUS
<1> USE DEF QInv, QTypeOK
<1> DEFINE f == [n |-> made + 1, by |-> "http", recvUs |-> now]
<1>1. /\ inject = Outside /\ made < MaxFrames /\ made' = made + 1
      /\ inject' = [pc |-> "send", frame |-> f] /\ f \in Frame
      /\ UNCHANGED <<now, queue, framesRx, drops, injected, isr, hand, accepted, handled, overlap>>
    BY QueueAssumption DEF Build, counterVars, Frame, Time
<1>2. Len(accepted) \in Nat
    BY LenProperties
<1>3. OverRx' = OverRx /\ OverDrops' = OverDrops
    BY <1>1, <1>2 DEF OverRx, OverDrops, Debts, Owes, Outside
<1>4. QTypeOK'
    BY <1>1, QueueAssumption
<1>5. NoneAhead' /\ NoneBehind'
    BY <1>1, <1>3 DEF NoneAhead, NoneBehind, Counters, Over, ValueOf, InIncrement, Outside
<1> QED
    BY <1>1, <1>4, <1>5 DEF NothingLostOnTheWay

\* ... and one that is given to it has still to be counted.
LEMMA SendStep == QInv /\ Send => QInv'
<1> SUFFICES ASSUME QInv, Send PROVE QInv'
    OBVIOUS
<1> USE DEF QInv, QTypeOK
<1> DEFINE c == Counted(HasRoom)
<1>1. inject.pc = "send" /\ inject.frame \in Frame
    BY DEF Send, Outside, InCounting
<1>2. /\ queue' \in Seq(Frame) /\ Len(queue') <= Depth
      /\ accepted' \in Seq(Frame) /\ accepted' = handled \o hand \o queue'
      /\ Len(accepted) \in Nat
      /\ Len(accepted') = Len(accepted) + (IF HasRoom THEN 1 ELSE 0)
    BY <1>1, OfferStep DEF Send
<1>3. /\ inject' = [pc |-> "load", counter |-> c]
      /\ c \in Counters /\ c = IF HasRoom THEN "framesRx" ELSE "drops"
      /\ UNCHANGED <<now, framesRx, drops, injected, isr, hand, made, handled, overlap>>
    BY DEF Send, counterVars, Counted, Counters
<1>4. OverRx' = OverRx /\ OverDrops' = OverDrops
    <2>1. CASE HasRoom
        BY <1>1, <1>2, <1>3, <2>1 DEF OverRx, OverDrops, Debts, Owes
    <2>2. CASE ~HasRoom
        BY <1>1, <1>2, <1>3, <2>2 DEF OverRx, OverDrops, Debts, Owes
    <2> QED
        BY <2>1, <2>2
<1>5. QTypeOK'
    BY <1>2, <1>3
<1>6. NoneAhead' /\ NoneBehind'
    BY <1>1, <1>3, <1>4 DEF NoneAhead, NoneBehind, Counters, Over, ValueOf, InIncrement, Outside
<1> QED
    BY <1>2, <1>3, <1>5, <1>6 DEF NothingLostOnTheWay

\* ... loaded ...
LEMMA LoadInjectedStep == QInv /\ LoadInjected => QInv'
<1> SUFFICES ASSUME QInv, LoadInjected PROVE QInv'
    OBVIOUS
<1> USE DEF QInv, QTypeOK
<1>1. /\ inject.pc = "load" /\ inject.counter \in Counters
      /\ inject' = [pc |-> "store", counter |-> inject.counter, loaded |-> ValueOf(inject.counter)]
      /\ overlap' = (overlap \/ InIncrement(isr, inject.counter))
      /\ UNCHANGED <<now, queue, framesRx, drops, injected, isr, hand, made, accepted, handled>>
    BY DEF LoadInjected, LoadOf, counterVars, Outside, InCounting
<1>2. Len(accepted) \in Nat /\ ValueOf(inject.counter) \in Nat
    BY LenProperties DEF ValueOf
<1>3. OverRx' = OverRx /\ OverDrops' = OverDrops
    BY <1>1, <1>2 DEF OverRx, OverDrops, Debts, Owes
<1>4. inject' \in InCounting
    BY <1>1, <1>2 DEF InCounting
<1>5. QTypeOK'
    BY <1>1, <1>4 DEF InIncrement
<1>6. NoneAhead'
    BY <1>1, <1>3 DEF NoneAhead, Counters, Over, ValueOf, Outside
<1>7. NoneBehind'
    <2>1. ~overlap' => ~overlap /\ ~InIncrement(isr, inject.counter)
        BY <1>1 DEF InIncrement
    <2>2. inject'.loaded = ValueOf(inject.counter) /\ inject'.counter = inject.counter
        BY <1>1
    <2> QED
        BY <1>1, <1>3, <2>1, <2>2 DEF NoneBehind, Counters, Over, ValueOf, InIncrement
<1> QED
    BY <1>1, <1>5, <1>6, <1>7 DEF NothingLostOnTheWay

\* ... and stored.
LEMMA CountInjectedStep == QInv /\ CountInjected => QInv'
<1> SUFFICES ASSUME QInv, CountInjected PROVE QInv'
    OBVIOUS
<1> USE DEF QInv, QTypeOK
<1>1. /\ inject \in InCounting /\ inject.pc = "store" /\ Store(inject)
      /\ inject' = Outside
      /\ injected' = IF inject.counter = "framesRx" THEN injected + 1 ELSE injected
      /\ UNCHANGED <<now, queue, isr, hand, made, accepted, handled, overlap>>
    BY DEF CountInjected, pastVars, InCounting, Outside
<1>2. /\ framesRx' \in Nat /\ drops' \in Nat
      /\ inject.counter \in Counters /\ inject.loaded \in Nat
      /\ inject.counter = "framesRx" => framesRx' = inject.loaded + 1 /\ drops' = drops
      /\ inject.counter = "drops" => drops' = inject.loaded + 1 /\ framesRx' = framesRx
    BY <1>1, StoreStep
<1>3. Len(accepted) \in Nat
    BY LenProperties
<1>4. /\ OverRx' = OverRx + (IF inject.counter = "framesRx" THEN 1 ELSE 0)
      /\ OverDrops' = OverDrops + (IF inject.counter = "drops" THEN 1 ELSE 0)
      /\ OverRx \in Int /\ OverDrops \in Int
    BY <1>1, <1>2, <1>3 DEF OverRx, OverDrops, Debts, Owes, Outside, Counters
<1>5. injected' \in Nat /\ injected' <= made
    BY <1>1 DEF NoneAhead, Outside
<1>6. NoneAhead'
    BY <1>1, <1>2, <1>4, <1>5 DEF NoneAhead, Counters, Over, ValueOf, Outside, InCounting
<1>7. NoneBehind'
    BY <1>1, <1>2, <1>4 DEF NoneBehind, Counters, Over, ValueOf, InIncrement, Outside, InCounting
<1>8. QTypeOK'
    <2>1. OverRx' <= made /\ OverDrops' <= made /\ made \in Nat
        BY <1>1, <1>2, <1>3, <1>6 DEF OverRx, OverDrops, Debts, Owes, Outside, NoneAhead, Over, ValueOf, Counters
    <2>2. framesRx' <= OverRx' /\ drops' <= OverDrops'
        BY <1>6 DEF NoneAhead, Over, ValueOf, Counters
    <2>3. framesRx' \in 0 .. made /\ drops' \in 0 .. made
        BY <1>2, <1>4, <2>1, <2>2
    <2> QED
        BY <1>1, <1>5, <2>3
<1> QED
    BY <1>1, <1>6, <1>7, <1>8 DEF NothingLostOnTheWay

\* The worker, and time: only the place of a frame changes, from the queue to the hand and
\* from the hand to the handler.
LEMMA WorkerStep ==
    ASSUME QInv, TakeFrame \/ HandleFrame \/ Tick \/ UNCHANGED qvars
    PROVE  QInv'
<1> USE DEF QInv, QTypeOK
<1>1. /\ UNCHANGED <<framesRx, drops, injected, isr, inject, made, accepted, overlap>>
      /\ now' \in Time
    <2>1. now' \in Time
        BY UptimeAssumption DEF TakeFrame, HandleFrame, Tick, TimePasses, Time, qvars
    <2>2. UNCHANGED <<framesRx, drops, injected, isr, inject, made, accepted, overlap>>
        BY DEF TakeFrame, HandleFrame, Tick, qvars, counterVars, pastVars
    <2> QED
        BY <2>1, <2>2
<1>2. NoneAhead' /\ NoneBehind'
    <2>1. \A c : /\ Over(c)' = Over(c) /\ ValueOf(c)' = ValueOf(c)
                 /\ InIncrement(isr, c)' = InIncrement(isr, c)
                 /\ InIncrement(inject, c)' = InIncrement(inject, c)
        BY <1>1 DEF Over, OverRx, OverDrops, Debts, Owes, ValueOf, InIncrement
    <2> QED
        BY <1>1, <2>1 DEF NoneAhead, NoneBehind, QInv
<1>3. hand \in Seq(Frame)
    BY EmptySeq DEF Nothing
<1>4. CASE TakeFrame
    <2>1. /\ hand = <<>> /\ queue # <<>> /\ hand' = <<queue[1]>> /\ queue' = Tail(queue)
          /\ handled' = handled
        BY <1>4 DEF TakeFrame, Nothing, Waiting, Taken, pastVars
    <2>2. /\ queue[1] \in Frame /\ Tail(queue) \in Seq(Frame) /\ Len(Tail(queue)) = Len(queue) - 1
          /\ handled \o <<>> \o queue = handled \o <<queue[1]>> \o Tail(queue)
        BY <2>1, TakeFirst
    <2>3. /\ queue' \in Seq(Frame) /\ Len(queue') <= Depth
          /\ hand' \in Seq(Frame) /\ Len(hand') = 1
        BY <2>1, <2>2, LenProperties, QueueAssumption
    <2> QED
        BY <1>1, <1>2, <2>1, <2>2, <2>3 DEF NothingLostOnTheWay
<1>5. CASE HandleFrame
    <2>1. /\ hand' = <<>> /\ queue' = queue /\ handled' = handled \o hand
        BY <1>5 DEF HandleFrame, Nothing
    <2>2. handled' \in Seq(Frame) /\ handled' \o <<>> = handled'
        BY <1>3, <2>1, ConcatProperties, ConcatEmptySeq
    <2> QED
        BY <1>1, <1>2, <2>1, <2>2 DEF NothingLostOnTheWay, Nothing
<1>6. CASE Tick \/ UNCHANGED qvars
    BY <1>1, <1>2, <1>6 DEF Tick, qvars, pastVars, NothingLostOnTheWay
<1> QED
    BY <1>4, <1>5, <1>6

LEMMA QInvNext == QInv /\ [QNext]_qvars => QInv'
BY ReceiveStep, CountReceivedStep, BuildStep, SendStep, LoadInjectedStep, CountInjectedStep,
   WorkerStep
DEF QNext, Inject, Worker

LEMMA QInvStarts == QInit => QInv
<1> SUFFICES ASSUME QInit PROVE QInv
    OBVIOUS
<1>1. <<>> \in Seq(Frame) /\ Len(<<>>) = 0
    BY EmptySeq
<1>2. /\ now = 0 /\ queue = <<>> /\ hand = <<>> /\ handled = <<>> /\ accepted = <<>>
      /\ framesRx = 0 /\ drops = 0 /\ injected = 0 /\ made = 0 /\ overlap = FALSE
      /\ isr = [pc |-> "out"] /\ inject = [pc |-> "out"]
    BY DEF QInit, Nothing, Outside
<1>3. 0 \in Time /\ 0 \in 0 .. MaxFrames /\ Len(<<>>) <= Depth
    BY <1>1, QueueAssumption, UptimeAssumption DEF Time
<1>4. QTypeOK
    <2>1. now \in Time /\ made \in 0 .. MaxFrames /\ overlap \in BOOLEAN
        BY <1>2, <1>3
    <2>2. framesRx \in 0 .. made /\ drops \in 0 .. made /\ injected \in 0 .. made
        BY <1>2
    <2>3. /\ queue \in Seq(Frame) /\ Len(queue) <= Depth
          /\ accepted \in Seq(Frame) /\ handled \in Seq(Frame)
        BY <1>1, <1>2, <1>3
    <2> QED
        BY <1>2, <2>1, <2>2, <2>3 DEF QTypeOK, Nothing, Outside
<1>5. NothingLostOnTheWay
    BY <1>1, <1>2, ConcatEmptySeq DEF NothingLostOnTheWay
<1>6. Len(accepted) = 0
    BY <1>1, <1>2
<1>7. OverRx = 0 /\ OverDrops = 0
    <2>1. isr.pc = "out" /\ inject.pc = "out" /\ made = 0
        BY <1>2
    <2>2. Owes(isr, "framesRx") = 0 /\ Owes(inject, "framesRx") = 0
        BY <2>1 DEF Owes
    <2>3. Owes(isr, "drops") = 0 /\ Owes(inject, "drops") = 0
        BY <2>1 DEF Owes
    <2> QED
        BY <1>6, <2>1, <2>2, <2>3 DEF OverRx, OverDrops, Debts
<1>8. NoneAhead /\ NoneBehind
    BY <1>2, <1>7 DEF NoneAhead, NoneBehind, Counters, Over, ValueOf, InIncrement, Outside
<1> QED
    BY <1>4, <1>5, <1>8 DEF QInv

-------------------------------------------------------------------------------
(* The receive path: what is proved of it *)

\* However the interrupt, an injection and the worker interleave: the types, the order of
\* the frames, and the counters (onRxDone, inject, workerTask).
THEOREM ReceiveInvariant == QSpec => []QInv
<1> QED
    BY QInvStarts, QInvNext, PTL DEF QSpec

\* While no two increments of one counter have overlapped, framesRx is what the queue took
\* and drops what it refused (CanBus.h: "frames handed to the worker task", "frames lost
\* because the queue was full").
THEOREM CountersAreRight == QSpec => []CountersAddUp
<1>1. QInv => CountersAddUp
    <2> SUFFICES ASSUME QInv, isr = Outside, inject = Outside, ~overlap
                 PROVE  framesRx = Len(accepted) /\ drops = made - Len(accepted)
        BY DEF CountersAddUp
    <2>1. Len(accepted) \in Nat /\ made \in Nat
        BY LenProperties DEF QInv, QTypeOK
    <2>2. isr.pc = "out" /\ inject.pc = "out"
        BY DEF Outside
    <2>3. OverRx = Len(accepted) /\ OverDrops = made - Len(accepted)
        <3>1. Owes(isr, "framesRx") = 0 /\ Owes(inject, "framesRx") = 0
            BY <2>2 DEF Owes
        <3>2. Owes(isr, "drops") = 0 /\ Owes(inject, "drops") = 0
            BY <2>2 DEF Owes
        <3>3. Debts("framesRx") = 0 /\ Debts("drops") = 0
            BY <3>1, <3>2 DEF Debts
        <3>4. (IF inject.pc = "send" THEN 1 ELSE 0) = 0
            BY <2>2
        <3>5. OverRx = Len(accepted) - 0 /\ OverDrops = made - Len(accepted) - 0 - 0
            BY <3>3, <3>4, Zenon DEF OverRx, OverDrops
        <3>6. \A k, m \in Nat : k - 0 = k /\ m - k - 0 - 0 = m - k
            OBVIOUS
        <3> QED
            BY <2>1, <3>5, <3>6
    <2>4. framesRx = OverRx /\ drops = OverDrops
        BY DEF QInv, NoneBehind, Counters, ValueOf, Over
    <2> QED
        BY <2>3, <2>4
<1> QED
    BY <1>1, ReceiveInvariant, PTL

\* Every step is one of the channel's, or none: the queue takes a frame, or the frame that
\* was taken first of those not yet delivered is delivered.
LEMMA ChannelStep ==
    ASSUME QInv, [QNext]_qvars
    PROVE  [Channel!Take \/ Channel!Deliver]_(Channel!cvars)
<1> USE DEF QInv, QTypeOK
<1>1. ASSUME NEW f \in Frame, Offer(f), handled' = handled
      PROVE  Channel!Take \/ UNCHANGED Channel!cvars
    BY <1>1 DEF Offer, Channel!Take, Channel!cvars
<1>2. CASE Receive
    <2>1. [n |-> made + 1, by |-> "bus", recvUs |-> now] \in Frame
        BY <1>2, QueueAssumption DEF Receive, Frame, Time
    <2> QED
        BY <1>1, <1>2, <2>1 DEF Receive
<1>3. CASE Send
    <2>1. inject.frame \in Frame
        BY <1>3 DEF Send, Outside, InCounting
    <2> QED
        BY <1>1, <1>3, <2>1 DEF Send
<1>4. CASE HandleFrame
    <2>1. /\ hand \in Seq(Frame) /\ Len(hand) = 1 /\ accepted' = accepted /\ handled' = handled \o hand
        BY <1>4 DEF HandleFrame
    <2>2. hand = <<hand[1]>> /\ hand[1] \in Frame
        <3>1. hand[1] \in Frame
            <4>1. hand \in [1 .. Len(hand) -> Frame]
                BY <2>1, LenProperties
            <4> QED
                BY <2>1, <4>1
        <3>2. <<hand[1]>> \in Seq(Frame) /\ Len(<<hand[1]>>) = 1 /\ <<hand[1]>>[1] = hand[1]
            BY <3>1
        <3>3. \A i \in 1 .. Len(hand) : hand[i] = <<hand[1]>>[i]
            BY <2>1, <3>2
        <3> QED
            BY <2>1, <3>1, <3>2, <3>3, SeqEqual
    <2>3. handled' = Append(handled, hand[1])
        BY <2>1, <2>2, AppendIsConcat
    <2>4. /\ handled \o hand \in Seq(Frame) /\ Len(handled \o hand) = Len(handled) + 1
          /\ (handled \o hand)[Len(handled) + 1] = hand[1]
          /\ Len(handled) \in Nat /\ Len(queue) \in Nat
        <3>1. handled \in Seq(Frame) /\ queue \in Seq(Frame)
            OBVIOUS
        <3> HIDE DEF QInv, QTypeOK
        <3>2. Len(handled) \in Nat /\ Len(queue) \in Nat
            BY <3>1, LenProperties
        <3>3. /\ handled \o hand \in Seq(Frame) /\ Len(handled \o hand) = Len(handled) + Len(hand)
              /\ \A i \in 1 .. Len(handled) + Len(hand) :
                    (handled \o hand)[i] = IF i <= Len(handled) THEN handled[i] ELSE hand[i - Len(handled)]
            BY <2>1, <3>1, ConcatProperties
        <3>4. (handled \o hand)[Len(handled) + 1] = hand[1]
            BY <2>1, <3>2, <3>3
        <3> QED
            BY <2>1, <3>2, <3>3, <3>4
    <2>5. /\ Len(accepted) = Len(handled) + 1 + Len(queue)
          /\ accepted[Len(handled) + 1] = (handled \o hand)[Len(handled) + 1]
        <3>1. queue \in Seq(Frame) /\ accepted = (handled \o hand) \o queue
            BY DEF NothingLostOnTheWay
        <3> HIDE DEF QInv, QTypeOK
        <3>2. /\ Len((handled \o hand) \o queue) = Len(handled \o hand) + Len(queue)
              /\ \A i \in 1 .. Len(handled \o hand) + Len(queue) :
                    ((handled \o hand) \o queue)[i]
                        = IF i <= Len(handled \o hand) THEN (handled \o hand)[i]
                          ELSE queue[i - Len(handled \o hand)]
            BY <2>4, <3>1, ConcatProperties
        <3> QED
            BY <2>4, <3>1, <3>2
    <2> QED
        BY <2>1, <2>3, <2>4, <2>5 DEF Channel!Deliver
<1>5. CASE CountReceived \/ Build \/ LoadInjected \/ CountInjected \/ TakeFrame \/ Tick \/ UNCHANGED qvars
    BY <1>5
    DEF CountReceived, Build, LoadInjected, CountInjected, TakeFrame, Tick, qvars, pastVars, Channel!cvars
<1> QED
    BY <1>2, <1>3, <1>4, <1>5 DEF QNext, Inject, Worker

\* The receive path implements the channel LossyChannel promises: what the queue took is
\* delivered to the handler once and in order ("called on the worker task for every received
\* frame, in arrival order"); that it is delivered in the end is left to TLC.
THEOREM ImplementsChannel == QSpec => Channel!ChannelSafe
<1>1. QInit => Channel!ChannelInit
    BY DEF QInit, Channel!ChannelInit
<1>2. QInv /\ [QNext]_qvars => [Channel!Take \/ Channel!Deliver]_(Channel!cvars)
    BY ChannelStep
<1> QED
    BY <1>1, <1>2, ReceiveInvariant, PTL DEF QSpec, Channel!ChannelSafe

-------------------------------------------------------------------------------
(* Transmitting: the inductive invariant *)

\* What is in the one frame there is, while transmit() has it.
Staged ==
    /\ caller.pc # "out" => caller.request \in Requests /\ payload = caller.request
    /\ caller.pc \in {"submit", "wait"} => header = caller.request
    /\ waiting # <<>> => header \in Requests /\ payload \in Requests

\* A transfer that waits was given up, or transmit() is waiting for it.
WaitedFor ==
    \A i \in DOMAIN waiting :
        waiting[i] \in late \/ (caller.pc = "wait" /\ waiting[i] = caller.request)

\* The transfer on the wire is as it was asked for, or was given up.
OnWire == \A i \in DOMAIN wire : AsAsked(wire[i]) \/ wire[i].asked \in late

\* What transmit() waits for is waiting, on the wire, or sent.
Somewhere(r) ==
    \/ \E i \in DOMAIN waiting : waiting[i] = r
    \/ \E i \in DOMAIN wire : wire[i].asked = r
    \/ \E i \in DOMAIN sent : sent[i].asked = r

TInv ==
    /\ TTypeOK
    /\ Staged
    /\ WaitedFor
    /\ OnWire
    /\ caller.pc = "wait" => Somewhere(caller.request)
    /\ SentAsAsked

-------------------------------------------------------------------------------
(* Transmitting: each step preserves it *)

\* The parts of a queue of requests.
LEMMA RequestsWaiting ==
    ASSUME NEW q \in Seq(Requests)
    PROVE  /\ Len(q) \in Nat /\ DOMAIN q = 1 .. Len(q)
           /\ \A i \in DOMAIN q : q[i] \in Requests
           /\ q # <<>> =>
                 /\ Head(q) = q[1] /\ 1 \in DOMAIN q
                 /\ Tail(q) \in Seq(Requests) /\ Len(Tail(q)) = Len(q) - 1
                 /\ DOMAIN Tail(q) = 1 .. Len(q) - 1
                 /\ \A i \in 1 .. Len(q) - 1 : Tail(q)[i] = q[i + 1]
<1>1. /\ Len(q) \in Nat /\ DOMAIN q = 1 .. Len(q) /\ q \in [1 .. Len(q) -> Requests]
    BY LenProperties
<1>2. q # <<>> =>
        /\ Head(q) = q[1] /\ 1 \in DOMAIN q
        /\ Tail(q) \in Seq(Requests) /\ Len(Tail(q)) = Len(q) - 1
        /\ \A i \in 1 .. Len(q) - 1 : Tail(q)[i] = q[i + 1]
    BY <1>1, HeadTailProperties, EmptySeq
<1>3. q # <<>> => DOMAIN Tail(q) = 1 .. Len(q) - 1
    BY <1>2, LenProperties
<1> QED
    BY <1>1, <1>2, <1>3

\* ... of one that grows, or of the transfers that are over.
LEMMA RequestJoins ==
    ASSUME NEW q \in Seq(Requests), NEW r \in Requests
    PROVE  /\ Append(q, r) \in Seq(Requests) /\ Len(Append(q, r)) = Len(q) + 1
           /\ DOMAIN Append(q, r) = 1 .. Len(q) + 1
           /\ \A i \in 1 .. Len(q) : Append(q, r)[i] = q[i]
           /\ Append(q, r)[Len(q) + 1] = r
BY AppendProperties, LenProperties

LEMMA TransfersOver ==
    ASSUME NEW s \in Seq(Transfer), NEW w \in Seq(Transfer)
    PROVE  /\ s \o w \in Seq(Transfer)
           /\ Len(s) \in Nat /\ Len(w) \in Nat
           /\ DOMAIN s = 1 .. Len(s) /\ DOMAIN w = 1 .. Len(w)
           /\ DOMAIN (s \o w) = 1 .. Len(s) + Len(w)
           /\ \A i \in 1 .. Len(s) : (s \o w)[i] = s[i]
           /\ \A i \in 1 .. Len(w) : (s \o w)[Len(s) + i] = w[i]
           /\ \A i \in 1 .. Len(s) + Len(w) : i \in 1 .. Len(s) \/ i - Len(s) \in 1 .. Len(w)
<1>1. Len(s) \in Nat /\ Len(w) \in Nat /\ DOMAIN s = 1 .. Len(s) /\ DOMAIN w = 1 .. Len(w)
    BY LenProperties
<1>2. /\ s \o w \in Seq(Transfer) /\ Len(s \o w) = Len(s) + Len(w)
      /\ \A i \in 1 .. Len(s) + Len(w) :
            (s \o w)[i] = IF i <= Len(s) THEN s[i] ELSE w[i - Len(s)]
    BY ConcatProperties
<1>3. DOMAIN (s \o w) = 1 .. Len(s) + Len(w)
    BY <1>2, LenProperties
<1> QED
    BY <1>1, <1>2, <1>3

\* Staging and giving up before the driver has the frame: the caller alone moves.
LEMMA StageStep ==
    ASSUME TInv, StagePayload \/ StageHeader \/ SubmitFails
    PROVE  TInv'
<1> USE DEF TInv, TTypeOK
<1>1. /\ UNCHANGED <<waiting, wire, sent, confirmed, late>>
      /\ caller.pc # "wait"
    BY DEF StagePayload, StageHeader, SubmitFails
<1>2. TTypeOK' /\ Staged' /\ caller'.pc # "wait"
    <2>1. CASE StagePayload
        <3>1. /\ caller' = [pc |-> "header", request |-> caller.request + 1]
              /\ payload' = caller.request + 1 /\ header' = header
              /\ caller.request + 1 \in Requests
            BY <2>1, TransmitAssumption DEF StagePayload, Requests
        <3> QED
            BY <1>1, <3>1, TransmitAssumption DEF Staged, Requests
    <2>2. CASE StageHeader
        BY <1>1, <2>2 DEF StageHeader, Staged, Requests
    <2>3. CASE SubmitFails
        BY <1>1, <2>3 DEF SubmitFails, Staged
    <2> QED
        BY <2>1, <2>2, <2>3
<1>3. WaitedFor' /\ OnWire' /\ SentAsAsked'
    BY <1>1 DEF WaitedFor, OnWire, SentAsAsked, AsAsked, ConfirmedMeansSent
<1> QED
    BY <1>2, <1>3

\* The driver is given the frame: it is on the wire, or at the end of those that wait.
LEMMA SubmitStep == TInv /\ Submit => TInv'
<1> SUFFICES ASSUME TInv, Submit PROVE TInv'
    OBVIOUS
<1> USE DEF TInv, TTypeOK
<1> DEFINE r == caller.request
<1>1. /\ r \in Requests /\ header = r /\ payload = r
      /\ caller' = [pc |-> "wait", request |-> r]
      /\ UNCHANGED <<header, payload, sent, confirmed, late>>
    BY DEF Submit, AfterSubmit, Staged
<1>2. SentAsAsked'
    BY <1>1 DEF SentAsAsked, AsAsked, ConfirmedMeansSent
<1>3. CASE wire = <<>>
    <2>1. wire' = <<Load(r)>> /\ waiting' = waiting
        BY <1>3 DEF Submit
    <2>2. Load(r) \in Transfer /\ AsAsked(Load(r)) /\ Load(r).asked = r
        BY <1>1 DEF Load, Transfer, AsAsked
    <2>3. /\ wire' \in Seq(Transfer) /\ Len(wire') = 1 /\ DOMAIN wire' = {1} /\ wire'[1] = Load(r)
        BY <2>1, <2>2
    <2>4. TTypeOK'
        BY <1>1, <2>1, <2>3 DEF Requests
    <2>5. OnWire'
        BY <2>2, <2>3 DEF OnWire, AsAsked
    <2>6. Somewhere(caller.request)'
        <3>1. caller'.request = r /\ 1 \in DOMAIN wire' /\ wire'[1].asked = r
            BY <1>1, <2>2, <2>3
        <3> QED
            BY <3>1 DEF Somewhere
    <2>7. Staged' /\ WaitedFor'
        BY <1>1, <2>1 DEF Staged, WaitedFor
    <2> QED
        BY <1>1, <1>2, <2>4, <2>5, <2>6, <2>7
<1>4. CASE wire # <<>>
    <2>1. Len(waiting) < TxDepth /\ waiting' = Append(waiting, r) /\ wire' = wire
        BY <1>4 DEF Submit, TxRoom
    <2>2. /\ waiting' \in Seq(Requests) /\ Len(waiting') = Len(waiting) + 1
          /\ Len(waiting) \in Nat
          /\ DOMAIN waiting = 1 .. Len(waiting) /\ DOMAIN waiting' = 1 .. Len(waiting) + 1
          /\ \A i \in 1 .. Len(waiting) : waiting'[i] = waiting[i]
          /\ waiting'[Len(waiting) + 1] = r
        BY <1>1, <2>1, RequestJoins, RequestsWaiting
    <2>3. TTypeOK'
        BY <1>1, <2>1, <2>2, TransmitAssumption DEF Requests
    <2>4. OnWire'
        BY <1>1, <2>1 DEF OnWire, AsAsked
    <2>5. WaitedFor'
        <3>1. \A i \in DOMAIN waiting : waiting[i] \in late
            BY <1>1 DEF WaitedFor, Submit
        <3>2. ASSUME NEW i \in DOMAIN waiting' PROVE waiting'[i] \in late \/ waiting'[i] = r
            BY <2>2, <3>1
        <3> QED
            BY <1>1, <3>2 DEF WaitedFor
    <2>6. Somewhere(caller.request)'
        <3>1. /\ caller'.request = r /\ Len(waiting) + 1 \in DOMAIN waiting'
              /\ waiting'[Len(waiting) + 1] = r
            BY <1>1, <2>2
        <3> QED
            BY <3>1 DEF Somewhere
    <2>7. Staged'
        BY <1>1 DEF Staged
    <2> QED
        BY <1>1, <1>2, <2>3, <2>4, <2>5, <2>6, <2>7
<1> QED
    BY <1>3, <1>4

\* The wait ends, one way or the other.
LEMMA WaitStep ==
    ASSUME TInv, WaitEnds \/ WaitTimesOut
    PROVE  TInv'
<1> USE DEF TInv, TTypeOK
<1>1. /\ caller.pc = "wait" /\ caller.request \in Requests
      /\ caller' = [pc |-> "out", request |-> caller.request]
      /\ UNCHANGED <<header, payload, waiting, wire, sent>>
    BY DEF WaitEnds, WaitTimesOut, Staged
<1>2. /\ confirmed \subseteq confirmed' /\ confirmed' \subseteq confirmed \cup {caller.request}
      /\ late \subseteq late' /\ late' \subseteq late \cup {caller.request}
    BY DEF WaitEnds, WaitTimesOut, ConfirmedAfterTimeout
<1>3. TTypeOK' /\ Staged'
    BY <1>1, <1>2 DEF Staged, Requests
<1>4. OnWire' /\ \A i \in DOMAIN sent : AsAsked(sent[i])' \/ sent[i].asked \in late'
    BY <1>1, <1>2 DEF OnWire, SentAsAsked, AsAsked
<1>5. WaitedFor'
    <2>1. ASSUME NEW i \in DOMAIN waiting, waiting[i] = caller.request PROVE waiting[i] \in late'
        <3>1. waiting # <<>> /\ waiting[i] \in ToSet(waiting)
            BY <2>1, RequestsWaiting DEF ToSet
        <3> QED
            BY <2>1, <3>1 DEF WaitEnds, WaitTimesOut
    <2> QED
        BY <1>1, <1>2, <2>1 DEF WaitedFor
<1>6. ConfirmedMeansSent'
    <2>1. CASE WaitEnds
        <3>1. wire = <<>> /\ waiting = <<>> /\ confirmed' = confirmed \cup {caller.request}
            BY <2>1 DEF WaitEnds
        <3>2. \E i \in DOMAIN sent : sent[i].asked = caller.request
            BY <1>1, <3>1 DEF Somewhere
        <3> QED
            BY <1>1, <3>1, <3>2 DEF SentAsAsked, ConfirmedMeansSent
    <2>2. CASE WaitTimesOut
        BY <1>1, <2>2 DEF WaitTimesOut, ConfirmedAfterTimeout, SentAsAsked, ConfirmedMeansSent
    <2> QED
        BY <2>1, <2>2
<1> QED
    BY <1>1, <1>3, <1>4, <1>5, <1>6 DEF SentAsAsked

\* A transfer ends and the next starts, with what is in the one frame by then: its own
\* request's, unless that was given up.
LEMMA TransferStep == TInv /\ TransferEnds => TInv'
<1> SUFFICES ASSUME TInv, TransferEnds PROVE TInv'
    OBVIOUS
<1> USE DEF TInv, TTypeOK
<1>1. /\ wire # <<>> /\ sent' = sent \o wire
      /\ UNCHANGED <<caller, header, payload, confirmed, late>>
    BY DEF TransferEnds
<1>2. /\ sent' \in Seq(Transfer)
      /\ Len(sent) \in Nat /\ Len(wire) \in Nat
      /\ DOMAIN sent = 1 .. Len(sent) /\ DOMAIN wire = 1 .. Len(wire)
      /\ DOMAIN sent' = 1 .. Len(sent) + Len(wire)
      /\ \A i \in 1 .. Len(sent) : sent'[i] = sent[i]
      /\ \A i \in 1 .. Len(wire) : sent'[Len(sent) + i] = wire[i]
      /\ \A i \in 1 .. Len(sent) + Len(wire) : i \in 1 .. Len(sent) \/ i - Len(sent) \in 1 .. Len(wire)
    BY <1>1, TransfersOver
<1>3. /\ \A i \in DOMAIN sent : i \in DOMAIN sent' /\ sent'[i] = sent[i]
      /\ \A i \in DOMAIN wire : Len(sent) + i \in DOMAIN sent' /\ sent'[Len(sent) + i] = wire[i]
    BY <1>2
<1>4. \A i \in DOMAIN sent' : AsAsked(sent'[i]) \/ sent'[i].asked \in late
    <2> SUFFICES ASSUME NEW i \in DOMAIN sent'
                 PROVE  AsAsked(sent'[i]) \/ sent'[i].asked \in late
        OBVIOUS
    <2>1. CASE i \in DOMAIN sent
        BY <1>3, <2>1 DEF SentAsAsked
    <2>2. CASE i - Len(sent) \in DOMAIN wire
        <3>1. i = Len(sent) + (i - Len(sent))
            BY <1>2
        <3>2. sent'[i] = wire[i - Len(sent)]
            BY <1>3, <2>2, <3>1
        <3> QED
            BY <2>2, <3>2 DEF OnWire
    <2> QED
        BY <1>2, <2>1, <2>2
<1>5. SentAsAsked'
    <2>1. ConfirmedMeansSent'
        BY <1>1, <1>3 DEF SentAsAsked, ConfirmedMeansSent
    <2> QED
        BY <1>1, <1>4, <2>1 DEF SentAsAsked, AsAsked
<1>6. CASE waiting = <<>>
    <2>1. wire' = <<>> /\ waiting' = waiting
        BY <1>6 DEF TransferEnds
    <2>2. TTypeOK' /\ Staged' /\ WaitedFor' /\ OnWire'
        BY <1>1, <1>2, <2>1, EmptySeq DEF Staged, WaitedFor, OnWire
    <2>3. caller'.pc = "wait" => Somewhere(caller.request)'
        BY <1>1, <1>3, <1>6 DEF Somewhere
    <2> QED
        BY <1>5, <2>2, <2>3
<1>7. CASE waiting # <<>>
    <2> DEFINE r == waiting[1]
    <2>1. wire' = <<Load(Head(waiting))>> /\ waiting' = Tail(waiting)
        BY <1>7 DEF TransferEnds
    <2>2. /\ Head(waiting) = r /\ 1 \in DOMAIN waiting /\ r \in Requests
          /\ Len(waiting) \in Nat /\ DOMAIN waiting = 1 .. Len(waiting)
          /\ waiting' \in Seq(Requests) /\ Len(waiting') = Len(waiting) - 1
          /\ DOMAIN waiting' = 1 .. Len(waiting) - 1
          /\ \A i \in 1 .. Len(waiting) - 1 : waiting'[i] = waiting[i + 1]
        BY <1>7, <2>1, RequestsWaiting
    <2>3. header \in Requests /\ payload \in Requests
        BY <1>7 DEF Staged
    <2>4. Load(r) \in Transfer /\ Load(r).asked = r
        BY <2>2, <2>3 DEF Load, Transfer
    <2>5. /\ wire' \in Seq(Transfer) /\ Len(wire') = 1 /\ DOMAIN wire' = {1} /\ wire'[1] = Load(r)
        BY <2>1, <2>2, <2>4
    <2>6. TTypeOK'
        BY <1>1, <1>2, <2>2, <2>5, TransmitAssumption
    <2>7. OnWire'
        <3>1. r \in late \/ (caller.pc = "wait" /\ r = caller.request)
            BY <2>2 DEF WaitedFor
        <3>2. AsAsked(Load(r)) \/ r \in late
            BY <3>1 DEF AsAsked, Load, Staged
        <3> QED
            BY <1>1, <2>4, <2>5, <3>2 DEF OnWire, AsAsked
    <2>8. WaitedFor' /\ Staged'
        <3>1. \A i \in DOMAIN waiting' : i + 1 \in DOMAIN waiting /\ waiting'[i] = waiting[i + 1]
            BY <2>2
        <3> QED
            BY <1>1, <2>3, <3>1 DEF WaitedFor, Staged
    <2>9. ASSUME caller.pc = "wait" PROVE Somewhere(caller.request)'
        <3>1. CASE \E i \in DOMAIN waiting : waiting[i] = caller.request
            <4>1. PICK i \in DOMAIN waiting : waiting[i] = caller.request
                BY <3>1
            <4>2. CASE i = 1
                BY <1>1, <2>4, <2>5, <4>1, <4>2 DEF Somewhere
            <4>3. CASE i # 1
                <5>1. i - 1 \in DOMAIN waiting' /\ waiting'[i - 1] = caller'.request
                    BY <1>1, <2>2, <4>1, <4>3
                <5> QED
                    BY <5>1 DEF Somewhere
            <4> QED
                BY <4>2, <4>3
        <3>2. CASE \E i \in DOMAIN wire : wire[i].asked = caller.request
            BY <1>1, <1>3, <3>2 DEF Somewhere
        <3>3. CASE \E i \in DOMAIN sent : sent[i].asked = caller.request
            BY <1>1, <1>3, <3>3 DEF Somewhere
        <3> QED
            BY <2>9, <3>1, <3>2, <3>3 DEF Somewhere
    <2> QED
        BY <1>1, <1>5, <2>6, <2>7, <2>8, <2>9
<1> QED
    BY <1>6, <1>7

-------------------------------------------------------------------------------
(* Transmitting: what is proved of it *)

LEMMA TInvStarts == TInit => TInv
<1> SUFFICES ASSUME TInit PROVE TInv
    OBVIOUS
<1>1. <<>> \in Seq(Requests) /\ <<>> \in Seq(Transfer) /\ Len(<<>>) = 0 /\ DOMAIN <<>> = {}
    BY EmptySeq
<1> QED
    BY <1>1, TransmitAssumption
    DEF TInit, TInv, TTypeOK, Staged, WaitedFor, OnWire, SentAsAsked, ConfirmedMeansSent

LEMMA TInvNext == TInv /\ [TNext]_tvars => TInv'
<1>1. TInv /\ UNCHANGED tvars => TInv'
    BY DEF tvars, TInv, TTypeOK, Staged, WaitedFor, OnWire, Somewhere, SentAsAsked, AsAsked,
           ConfirmedMeansSent
<1> QED
    BY <1>1, StageStep, SubmitStep, WaitStep, TransferStep DEF TNext, Transmit

\* Whatever the bus does to the waits: what is staged, waiting, on the wire and sent agree
\* (CanBus::transmit, selfTestTask).
THEOREM TransmitInvariant == TSpec => []TInv
<1> QED
    BY TInvStarts, TInvNext, PTL DEF TSpec

\* "wait for done before returning": a transfer goes out with the identifier and the bytes
\* it was asked for, unless its caller had given up while it waited; and transmit() reports
\* success only of a frame that was sent.
THEOREM TransfersAsAsked == TSpec => []SentAsAsked
<1>1. TInv => SentAsAsked
    BY DEF TInv
<1> QED
    BY <1>1, TransmitInvariant, PTL

-------------------------------------------------------------------------------
(* The controller: the inductive invariant *)

Gone(h) == handles[h].st = "deleted"

\* Where setBitrate() has a controller, and where it has none.
NodeAt ==
    /\ tuner.pc \in {"disable", "delete", "put back", "null", "enable", "discard", "undo", "commit"} =>
          node # 0
    /\ tuner.pc = "null" => Gone(node)
    /\ tuner.pc \in {"enable", "discard"} => StateOf(node) = "stopped"
    /\ tuner.pc = "undo" => Gone(node) \/ (node = stuck /\ StateOf(node) = "stopped")
    /\ tuner.pc = "new" => node = 0 /\ handles # <<>>
    /\ node # 0 => bitrate \in Rates
    /\ tuner.pc \in {"new", "enable", "discard", "undo", "commit"} => bitrate \in Rates

\* It runs, at the rate that is reported.
Up == node # 0 /\ StateOf(node) = "running" /\ bitrate = handles[node].rate

\* Of the two rates there are to try, the first was not refused yet.
Trying ==
    /\ tuner.previous = bitrate
    /\ refusals <= 1
    /\ refusals = 0 <=> tuner.rate # tuner.previous

\* One refusal at most since the setting came, and no call since boot that had two: how far
\* setBitrate() is, and what is left to try.
Survives ==
    (~hurt /\ handles # <<>>) =>
        /\ tuner.pc \in {"idle", "hook", "save"} => Up
        /\ tuner.pc \in {"hook", "disable", "delete", "null"} => refusals = 0
        /\ tuner.pc = "put back" => refusals = 1
        /\ tuner.pc = "disable" => Up /\ tuner.previous = bitrate /\ tuner.rate # bitrate
        /\ tuner.pc \in {"delete", "put back"} =>
              /\ StateOf(node) = "stopped" /\ bitrate = handles[node].rate
              /\ tuner.previous = bitrate /\ tuner.rate # bitrate
        /\ tuner.pc = "null" => tuner.previous = bitrate /\ tuner.rate # bitrate
        /\ tuner.pc = "new" => Trying
        /\ tuner.pc = "enable" => Trying /\ handles[node].rate = tuner.rate
        /\ tuner.pc \in {"discard", "undo"} =>
              tuner.previous = bitrate /\ refusals = 1 /\ tuner.rate # bitrate
        /\ tuner.pc = "commit" => StateOf(node) = "running" /\ handles[node].rate = tuner.rate

NInv ==
    /\ NTypeOK
    /\ NothingLeftBehind
    /\ NodeAt
    /\ Survives

-------------------------------------------------------------------------------
(* The controller: each step preserves it *)

Handle == [rate : Workable, st : States]

\* The state of a handle changes.
LEMMA SetStateType ==
    ASSUME handles \in Seq(Handle), NEW h \in DOMAIN handles, NEW st \in States, SetState(h, st)
    PROVE  /\ handles' \in Seq(Handle) /\ Len(handles') = Len(handles)
           /\ DOMAIN handles' = DOMAIN handles
           /\ DOMAIN handles = 1 .. Len(handles) /\ Len(handles) \in Nat
           /\ handles' # <<>>
           /\ handles'[h].st = st /\ handles'[h].rate = handles[h].rate
           /\ \A j \in DOMAIN handles : j # h => handles'[j] = handles[j]
<1>1. /\ Len(handles) \in Nat /\ DOMAIN handles = 1 .. Len(handles)
      /\ handles \in [1 .. Len(handles) -> Handle]
    BY LenProperties
<1> DEFINE e == [handles[h] EXCEPT !.st = st]
<1>2. e \in Handle /\ e.st = st /\ e.rate = handles[h].rate
    BY <1>1 DEF Handle
<1>3. handles' = [handles EXCEPT ![h] = e]
    BY DEF SetState
<1> HIDE DEF e
<1>4. /\ handles' \in Seq(Handle) /\ Len(handles') = Len(handles)
      /\ \A j \in 1 .. Len(handles) : handles'[j] = IF j = h THEN e ELSE handles[j]
    BY <1>1, <1>2, <1>3, ExceptSeq
<1>5. DOMAIN handles' = 1 .. Len(handles)
    BY <1>4, LenProperties
<1>6. handles' # <<>>
    BY <1>1, <1>5, EmptySeq
<1> QED
    BY <1>1, <1>2, <1>4, <1>5, <1>6

\* A controller is created.
LEMMA AppendHandleType ==
    ASSUME handles \in Seq(Handle), NEW e \in Handle, handles' = Append(handles, e)
    PROVE  /\ handles' \in Seq(Handle) /\ Len(handles') = Len(handles) + 1
           /\ DOMAIN handles' = 1 .. Len(handles) + 1
           /\ DOMAIN handles = 1 .. Len(handles) /\ Len(handles) \in Nat
           /\ handles' # <<>>
           /\ handles'[Len(handles) + 1] = e
           /\ \A j \in DOMAIN handles : handles'[j] = handles[j]
BY AppendProperties, LenProperties

\* What a typed state says of the controller in node_.
LEMMA NodeType ==
    ASSUME NInv
    PROVE  /\ handles \in Seq(Handle)
           /\ DOMAIN handles = 1 .. Len(handles) /\ Len(handles) \in Nat
           /\ \A h \in DOMAIN handles : handles[h] \in Handle
           /\ node # 0 => node \in DOMAIN handles
           /\ node # 0 => \A h \in DOMAIN handles : h # node => Gone(h)
<1>1. handles \in Seq(Handle) /\ node \in 0 .. Len(handles)
    BY DEF NInv, NTypeOK, Handle
<1>2. /\ Len(handles) \in Nat /\ DOMAIN handles = 1 .. Len(handles)
      /\ handles \in [1 .. Len(handles) -> Handle]
    BY <1>1, LenProperties
<1>3. node # 0 => \A h \in DOMAIN handles : h # node => Gone(h)
    BY DEF NInv, NothingLeftBehind, StateOf, Gone
<1> QED
    BY <1>1, <1>2, <1>3

\* Boot: one controller, at the rate that was stored, or none.
LEMMA RestartStep == NInv /\ Restart => NInv'
<1> SUFFICES ASSUME NInv, Restart PROVE NInv'
    OBVIOUS
<1> USE DEF NInv, NTypeOK
<1>1. /\ boots' \in 1 .. MaxBoots /\ stored' = stored /\ touched' = touched
      /\ setting' = stored /\ booted' = stored /\ stored \in Rates
      /\ tuner' = Idle /\ reader' = 0 /\ refusals' = 0
    BY NodeAssumption DEF Restart, Boot, NotReading
<1>2. ASSUME stored \in Workable, handles' = <<[rate |-> stored, st |-> "running"]>>,
             node' = 1, bitrate' = stored, hurt' = FALSE, stuck' = 0
      PROVE  NInv'
    <2>1. /\ handles' \in Seq([rate : Workable, st : States]) /\ Len(handles') = 1
          /\ DOMAIN handles' = {1}
          /\ handles'[1] = [rate |-> stored, st |-> "running"]
        BY <1>2 DEF States
    <2>2. NTypeOK'
        <3>1. Len(handles') <= MaxNodes /\ {node', 0} \subseteq 0 .. Len(handles')
            BY <1>2, <2>1, NodeAssumption
        <3>2. bitrate' \in Rates \cup {0} /\ tuner' \in {Idle}
            BY <1>1, <1>2
        <3> QED
            BY <1>1, <1>2, <2>1, <3>1, <3>2
    <2>3. NothingLeftBehind'
        BY <1>2, <2>1 DEF NothingLeftBehind, StateOf
    <2>4. tuner'.pc = "idle" /\ handles'[1].st = "running" /\ handles'[1].rate = stored
        BY <1>1, <2>1 DEF Idle
    <2>5. NodeAt'
        BY <1>1, <1>2, <2>4 DEF NodeAt
    <2>6. Survives'
        <3>1. Up'
            BY <1>2, <2>4 DEF Up, StateOf
        <3> QED
            BY <2>4, <3>1 DEF Survives
    <2> QED
        BY <2>2, <2>3, <2>5, <2>6
<1>3. ASSUME handles' = <<>>, node' = 0, bitrate' = 0, hurt' = (stored \in Workable), stuck' = 0
      PROVE  NInv'
    <2>1. /\ handles' \in Seq([rate : Workable, st : States]) /\ Len(handles') = 0
          /\ DOMAIN handles' = {}
        BY <1>3, EmptySeq
    <2>2. NTypeOK'
        BY <1>1, <1>3, <2>1, NodeAssumption DEF Idle
    <2>3. NothingLeftBehind' /\ NodeAt' /\ Survives'
        BY <1>1, <1>3, <2>1 DEF NothingLeftBehind, NodeAt, Survives, Idle
    <2> QED
        BY <2>2, <2>3
<1>4. ASSUME stored \in Workable, handles' = <<[rate |-> stored, st |-> "stopped"]>>,
             node' = 0, bitrate' = 0, hurt' = TRUE, stuck' = 1
      PROVE  NInv'
    <2>1. /\ handles' \in Seq([rate : Workable, st : States]) /\ Len(handles') = 1
          /\ DOMAIN handles' = {1}
          /\ handles'[1].st = "stopped"
        BY <1>4 DEF States
    <2>2. NTypeOK'
        <3>1. Len(handles') <= MaxNodes /\ {0, 1} \subseteq 0 .. Len(handles')
            BY <2>1, NodeAssumption
        <3>2. bitrate' \in Rates \cup {0} /\ tuner' \in {Idle}
            BY <1>1, <1>4
        <3> QED
            BY <1>1, <1>4, <2>1, <3>1, <3>2
    <2>3. NothingLeftBehind'
        BY <1>4, <2>1 DEF NothingLeftBehind, StateOf
    <2>4. NodeAt' /\ Survives'
        BY <1>1, <1>4 DEF NodeAt, Survives, Idle
    <2> QED
        BY <2>2, <2>3, <2>4
<1>5. \/ /\ stored \in Workable /\ handles' = <<[rate |-> stored, st |-> "running"]>>
         /\ node' = 1 /\ bitrate' = stored /\ hurt' = FALSE /\ stuck' = 0
      \/ /\ handles' = <<>> /\ node' = 0 /\ bitrate' = 0
         /\ hurt' = (stored \in Workable) /\ stuck' = 0
      \/ /\ stored \in Workable /\ handles' = <<[rate |-> stored, st |-> "stopped"]>>
         /\ node' = 0 /\ bitrate' = 0 /\ hurt' = TRUE /\ stuck' = 1
    BY DEF Restart, Boot, None
<1> QED
    BY <1>2, <1>3, <1>4, <1>5

\* Inside setBitrate() there are two rates.
LEMMA TunerType ==
    ASSUME NInv, tuner.pc \notin {"idle", "hook", "save"}
    PROVE  tuner \in Retuning /\ tuner.rate \in Rates /\ tuner.previous \in Rates
<1>1. tuner \in Retuning
    BY DEF NInv, NTypeOK, Idle
<1> QED
    BY <1>1 DEF Retuning

\* The second refusal hurts.
LEMMA RefuseIs ==
    ASSUME NInv, Refuse
    PROVE  /\ refusals' \in Nat /\ refusals' = refusals + 1 /\ hurt' \in BOOLEAN
           /\ ~hurt' => ~hurt /\ refusals = 0
<1>1. refusals \in Nat /\ hurt \in BOOLEAN
    BY DEF NInv, NTypeOK
<1>2. refusals' = refusals + 1 /\ hurt' = (hurt \/ refusals >= 1)
    BY DEF Refuse
<1>3. hurt' \in BOOLEAN
    BY <1>1, <1>2, Zenon
<1>4. ~hurt' => ~hurt /\ ~(refusals >= 1)
    BY <1>2, Zenon
<1> QED
    BY <1>1, <1>2, <1>3, <1>4

\* A setting arrives, the hook looks at it, it is saved; info() asks: the controllers stay.
LEMMA SettingStep ==
    ASSUME NInv, (\E rate \in Rates : Post(rate)) \/ Hook \/ Save
    PROVE  NInv'
<1> USE DEF NInv, NTypeOK
<1>1. /\ UNCHANGED <<node, handles, bitrate, reader, boots, booted, hurt, touched, stuck>>
      /\ tuner.pc \in {"idle", "hook", "save"}
    BY DEF Post, Hook, Save, Idle
<1>2. NothingLeftBehind'
    BY <1>1 DEF NothingLeftBehind, StateOf
<1>3. handles # <<>> /\ Up => Up'
    BY <1>1 DEF Up, StateOf
<1>4. CASE \E rate \in Rates : Post(rate)
    <2>1. /\ tuner = Idle /\ tuner' = [pc |-> "hook"] /\ setting' \in Rates /\ stored' = stored
          /\ refusals' = 0
        BY <1>4 DEF Post
    <2>2. NTypeOK'
        BY <1>1, <2>1
    <2>3. NodeAt'
        BY <1>1, <2>1 DEF NodeAt
    <2>4. tuner.pc = "idle" /\ tuner'.pc = "hook"
        BY <2>1 DEF Idle
    <2>5. Survives'
        BY <1>1, <1>3, <2>1, <2>4 DEF Survives
    <2> QED
        BY <1>2, <2>2, <2>3, <2>5
<1>5. CASE Hook
    <2>1. tuner.pc = "hook" /\ UNCHANGED <<setting, stored, refusals>>
        BY <1>5 DEF Hook
    <2>2. CASE Done
        <3>1. tuner' = [pc |-> "save"]
            BY <1>5, <2>2 DEF Hook
        <3>2. NTypeOK'
            BY <1>1, <2>1, <3>1
        <3>3. NodeAt'
            BY <1>1, <2>1, <3>1 DEF NodeAt
        <3>4. Survives'
            BY <1>1, <1>3, <2>1, <3>1 DEF Survives
        <3> QED
            BY <1>2, <3>2, <3>3, <3>4
    <2>3. CASE ~Done
        <3>1. /\ tuner' = [pc |-> "disable", rate |-> setting, previous |-> bitrate]
              /\ node # 0 /\ setting # bitrate
            BY <1>5, <2>3 DEF Hook, Done
        <3>2. bitrate \in Rates /\ setting \in Rates
            BY <3>1 DEF NodeAt
        <3>3. NTypeOK'
            <4>1. tuner' \in Retuning
                BY <3>1, <3>2 DEF Retuning
            <4> QED
                BY <1>1, <2>1, <4>1
        <3>4. NodeAt'
            BY <1>1, <3>1, <3>2 DEF NodeAt
        <3>5. tuner'.pc = "disable" /\ tuner'.previous = bitrate' /\ tuner'.rate # bitrate'
            BY <1>1, <3>1
        <3>6. Survives'
            BY <1>1, <1>3, <2>1, <3>5 DEF Survives
        <3> QED
            BY <1>2, <3>3, <3>4, <3>6
    <2> QED
        BY <2>2, <2>3
<1>6. CASE Save
    <2>1. /\ tuner.pc = "save" /\ tuner' = Idle /\ tuner'.pc = "idle"
          /\ stored' = setting /\ UNCHANGED <<setting, refusals>>
        BY <1>6 DEF Save, Idle
    <2>2. NTypeOK'
        BY <1>1, <2>1
    <2>3. NodeAt'
        BY <1>1, <2>1 DEF NodeAt
    <2>4. Survives'
        BY <1>1, <1>3, <2>1 DEF Survives
    <2> QED
        BY <1>2, <2>2, <2>3, <2>4
<1> QED
    BY <1>4, <1>5, <1>6

LEMMA InfoStep ==
    ASSUME NInv, AskInfo \/ ReadInfo \/ UNCHANGED nvars
    PROVE  NInv'
<1> USE DEF NInv, NTypeOK
<1>1. UNCHANGED <<setting, stored, node, handles, bitrate, tuner, boots, booted, refusals, hurt, stuck>>
    BY DEF AskInfo, ReadInfo, nvars
<1>2. NothingLeftBehind' /\ NodeAt' /\ Survives'
    BY <1>1 DEF NothingLeftBehind, NodeAt, Survives, Up, Trying, StateOf, Gone
<1>3. reader' \in 0 .. Len(handles)
    BY NodeType DEF AskInfo, ReadInfo, NotReading, nvars
<1>4. touched' \in BOOLEAN
    BY DEF AskInfo, ReadInfo, nvars
<1> QED
    BY <1>1, <1>2, <1>3, <1>4

\* The controller is stopped and deleted, or put back: only its state changes.
LEMMA TeardownStep ==
    ASSUME NInv, Disable \/ Delete \/ PutBack
    PROVE  NInv'
<1> USE DEF NInv, NTypeOK
<1>1. /\ UNCHANGED <<setting, stored, node, bitrate, reader, boots, booted, touched, stuck>>
      /\ tuner.pc \in {"disable", "delete", "put back"}
      /\ node # 0 /\ bitrate \in Rates
    BY DEF Disable, Delete, PutBack, NodeAt
<1>2. /\ handles \in Seq(Handle) /\ node \in DOMAIN handles /\ handles # <<>>
      /\ Len(handles) \in Nat /\ DOMAIN handles = 1 .. Len(handles)
    <2>1. handles \in Seq(Handle) /\ node \in DOMAIN handles
        BY <1>1, NodeType
    <2> QED
        BY <2>1, EmptySeq, LenProperties
<1>3. tuner \in Retuning
    BY <1>1, TunerType
<1>4. ASSUME UNCHANGED handles, tuner' = [pc |-> "save"] \/ Goto("put back"), Refuse
      PROVE  NTypeOK' /\ NothingLeftBehind' /\ NodeAt'
    <2>1. tuner' \in [pc : {"hook", "save"}] \cup Retuning /\ tuner'.pc \in {"save", "put back"}
        <3>1. CASE tuner' = [pc |-> "save"]
            BY <3>1
        <3>2. CASE Goto("put back")
            BY <1>3, <3>2 DEF Retuning, Goto
        <3> QED
            BY <1>4, <3>1, <3>2
    <2>2. refusals' \in Nat /\ hurt' \in BOOLEAN
        BY <1>4, RefuseIs
    <2>3. NTypeOK'
        BY <1>1, <1>4, <2>1, <2>2
    <2>4. NothingLeftBehind' /\ NodeAt'
        BY <1>1, <1>4, <2>1 DEF NothingLeftBehind, NodeAt, StateOf
    <2> QED
        BY <2>3, <2>4
<1>5. ASSUME NEW st \in States, SetState(node, st), Agree,
             \/ (tuner' = [pc |-> "save"] \/ Goto("delete")) /\ st # "deleted"
             \/ Goto("null") /\ st = "deleted"
      PROVE  /\ NTypeOK' /\ NothingLeftBehind' /\ NodeAt'
             /\ handles' # <<>> /\ StateOf(node)' = st /\ handles'[node].rate = handles[node].rate
    <2>1. /\ handles' \in Seq(Handle) /\ Len(handles') = Len(handles)
          /\ DOMAIN handles' = DOMAIN handles /\ handles' # <<>>
          /\ handles'[node].st = st /\ handles'[node].rate = handles[node].rate
          /\ \A j \in DOMAIN handles : j # node => handles'[j] = handles[j]
        BY <1>2, <1>5, SetStateType
    <2>2. /\ tuner' \in [pc : {"hook", "save"}] \cup Retuning /\ tuner'.pc \in {"save", "delete", "null"}
          /\ tuner'.pc = "null" <=> st = "deleted"
        <3>1. CASE tuner' = [pc |-> "save"] /\ st # "deleted"
            BY <3>1
        <3>2. CASE Goto("delete") /\ st # "deleted"
            BY <1>3, <3>2 DEF Retuning, Goto
        <3>3. CASE Goto("null") /\ st = "deleted"
            BY <1>3, <3>3 DEF Retuning, Goto
        <3> QED
            BY <1>5, <3>1, <3>2, <3>3
    <2>3. UNCHANGED <<refusals, hurt>>
        BY <1>5 DEF Agree
    <2>4. NTypeOK'
        BY <1>1, <2>1, <2>2, <2>3 DEF Handle
    <2>5. NothingLeftBehind'
        BY <1>1, <1>2, <2>1, <2>2, NodeType DEF NothingLeftBehind, StateOf, Gone
    <2>6. NodeAt'
        BY <1>1, <2>1, <2>2 DEF NodeAt, Gone
    <2> QED
        BY <1>1, <2>1, <2>4, <2>5, <2>6 DEF StateOf
<1>6. CASE Disable
    <2>1. CASE SetState(node, "stopped") /\ Goto("delete") /\ Agree
        <3>1. /\ NTypeOK' /\ NothingLeftBehind' /\ NodeAt'
              /\ StateOf(node)' = "stopped" /\ handles'[node].rate = handles[node].rate
            BY <1>5, <2>1 DEF States
        <3>2. /\ tuner'.pc = "delete" /\ tuner'.rate = tuner.rate /\ tuner'.previous = tuner.previous
              /\ UNCHANGED <<refusals, hurt>> /\ tuner.pc = "disable"
            BY <1>3, <1>6, <2>1 DEF Agree, Disable, Retuning, Goto
        <3>3. Survives'
            BY <1>1, <1>2, <3>1, <3>2 DEF Survives, Up, StateOf
        <3> QED
            BY <3>1, <3>3
    <2>2. CASE UNCHANGED handles /\ tuner' = [pc |-> "save"] /\ Refuse
        <3>1. NTypeOK' /\ NothingLeftBehind' /\ NodeAt'
            BY <1>4, <2>2
        <3>2. tuner'.pc = "save" /\ (hurt => hurt') /\ tuner.pc = "disable"
            BY <1>6, <2>2, RefuseIs DEF Disable
        <3>3. Survives'
            BY <1>1, <1>2, <2>2, <3>2 DEF Survives, Up, StateOf
        <3> QED
            BY <3>1, <3>3
    <2> QED
        BY <1>6, <2>1, <2>2 DEF Disable
<1>7. CASE Delete
    <2>1. CASE SetState(node, "deleted") /\ Goto("null") /\ Agree
        <3>1. NTypeOK' /\ NothingLeftBehind' /\ NodeAt'
            BY <1>5, <2>1 DEF States
        <3>2. /\ tuner'.pc = "null" /\ tuner'.rate = tuner.rate /\ tuner'.previous = tuner.previous
              /\ UNCHANGED <<refusals, hurt>> /\ tuner.pc = "delete"
            BY <1>3, <1>7, <2>1 DEF Agree, Delete, Retuning, Goto
        <3>3. Survives'
            BY <1>1, <1>2, <3>2 DEF Survives
        <3> QED
            BY <3>1, <3>3
    <2>2. CASE UNCHANGED handles /\ Goto("put back") /\ Refuse
        <3>1. NTypeOK' /\ NothingLeftBehind' /\ NodeAt'
            BY <1>4, <2>2
        <3>2. /\ tuner'.pc = "put back" /\ tuner'.rate = tuner.rate /\ tuner'.previous = tuner.previous
              /\ tuner.pc = "delete" /\ refusals' = refusals + 1 /\ (hurt => hurt')
            BY <1>3, <1>7, <2>2, RefuseIs DEF Delete, Retuning, Goto
        <3>3. Survives'
            <4>1. ASSUME ~hurt
                  PROVE  /\ StateOf(node) = "stopped" /\ bitrate = handles[node].rate
                         /\ tuner.previous = bitrate /\ tuner.rate # bitrate /\ refusals = 0
                BY <1>2, <3>2, <4>1 DEF Survives
            <4>2. ASSUME ~hurt'
                  PROVE  /\ handles'[node'].st = "stopped" /\ bitrate' = handles'[node'].rate
                         /\ tuner'.previous = bitrate' /\ tuner'.rate # bitrate' /\ refusals' = 1
                <5>1. ~hurt
                    BY <3>2, <4>2, Zenon
                <5>2. handles' = handles /\ node' = node /\ bitrate' = bitrate
                    BY <1>1, <2>2
                <5>3. /\ StateOf(node) = "stopped" /\ bitrate = handles[node].rate
                      /\ tuner.previous = bitrate /\ tuner.rate # bitrate /\ refusals = 0
                    BY <4>1, <5>1
                <5>4. refusals' = 1
                    <6>1. refusals' = refusals + 1
                        BY <3>2, Zenon
                    <6> QED
                        BY <5>3, <6>1
                <5> QED
                    BY <3>2, <5>2, <5>3, <5>4 DEF StateOf
            <4> QED
                BY <3>2, <4>2 DEF Survives, StateOf
        <3> QED
            BY <3>1, <3>3
    <2> QED
        BY <1>7, <2>1, <2>2 DEF Delete
<1>8. CASE PutBack
    <2>1. tuner'.pc = "save" /\ tuner' = [pc |-> "save"] /\ tuner.pc = "put back"
        BY <1>8 DEF PutBack
    <2>2. CASE SetState(node, "running") /\ Agree
        <3>1. /\ NTypeOK' /\ NothingLeftBehind' /\ NodeAt'
              /\ StateOf(node)' = "running" /\ handles'[node].rate = handles[node].rate
            BY <1>5, <2>1, <2>2 DEF States
        <3>2. Survives'
            BY <1>1, <1>2, <2>1, <2>2, <3>1 DEF Survives, Up, StateOf, Agree
        <3> QED
            BY <3>1, <3>2
    <2>3. CASE UNCHANGED handles /\ Refuse
        <3>1. NTypeOK' /\ NothingLeftBehind' /\ NodeAt'
            BY <1>4, <2>1, <2>3
        <3>2. (refusals = 1 => hurt') /\ (hurt => hurt')
            BY <2>3, RefuseIs
        <3>3. Survives'
            BY <1>2, <2>1, <2>3, <3>2 DEF Survives
        <3> QED
            BY <3>1, <3>3
    <2> QED
        BY <1>8, <2>2, <2>3 DEF PutBack
<1> QED
    BY <1>6, <1>7, <1>8

\* node_ is null once its controller is deleted.
LEMMA ForgetNodeStep == NInv /\ ForgetNode => NInv'
<1> SUFFICES ASSUME NInv, ForgetNode PROVE NInv'
    OBVIOUS
<1> USE DEF NInv, NTypeOK
<1>1. /\ UNCHANGED <<setting, stored, handles, bitrate, reader, boots, booted, refusals, hurt, touched, stuck>>
      /\ tuner.pc = "null" /\ node' = 0 /\ Goto("new")
    BY DEF ForgetNode
<1>2. /\ node # 0 /\ bitrate \in Rates /\ Gone(node)
    BY <1>1 DEF NodeAt
<1>3. handles # <<>> /\ 0 \in 0 .. Len(handles)
    BY <1>2, NodeType, EmptySeq
<1>4. /\ tuner' \in Retuning /\ tuner'.pc = "new"
      /\ tuner'.rate = tuner.rate /\ tuner'.previous = tuner.previous
    BY <1>1, TunerType DEF Retuning, Goto
<1>5. NTypeOK'
    BY <1>1, <1>3, <1>4
<1>6. NothingLeftBehind'
    BY <1>1, <1>2, NodeType DEF NothingLeftBehind, StateOf, Gone
<1>7. NodeAt'
    BY <1>1, <1>2, <1>3, <1>4 DEF NodeAt
<1>8. Survives'
    <2>1. ~hurt => refusals = 0 /\ tuner.previous = bitrate /\ tuner.rate # bitrate
        BY <1>1, <1>3 DEF Survives
    <2>2. ~hurt => Trying'
        BY <1>1, <1>4, <2>1 DEF Trying
    <2> QED
        BY <1>1, <1>4, <2>2 DEF Survives
<1> QED
    BY <1>5, <1>6, <1>7, <1>8

\* What is tried after a refusal at the wanted rate is the previous one; after that, nothing.
LEMMA RetryIs ==
    ASSUME NInv, tuner.pc \in {"new", "undo"}, tuner' = Retry(tuner)
    PROVE  /\ tuner' \in {Idle} \cup [pc : {"hook", "save"}] \cup Retuning
           /\ tuner.rate = tuner.previous => tuner'.pc = "save"
           /\ tuner.rate # tuner.previous =>
                 /\ tuner'.pc = "new" /\ tuner'.rate = tuner.previous
                 /\ tuner'.previous = tuner.previous
           /\ tuner'.pc \in {"new", "save"}
<1>1. tuner \in Retuning
    BY TunerType
<1>2. CASE tuner.rate = tuner.previous
    <2>1. tuner' = [pc |-> "save"]
        BY <1>2 DEF Retry
    <2> QED
        BY <1>2, <2>1
<1>3. CASE tuner.rate # tuner.previous
    <2>1. tuner' = [tuner EXCEPT !.pc = "new", !.rate = tuner.previous]
        BY <1>3 DEF Retry
    <2>2. /\ tuner' \in Retuning /\ tuner'.pc = "new" /\ tuner'.rate = tuner.previous
          /\ tuner'.previous = tuner.previous
        BY <1>1, <2>1 DEF Retuning
    <2> QED
        BY <1>3, <2>2
<1> QED
    BY <1>2, <1>3

\* A controller is created, where there is none; or the driver refuses.
LEMMA NewStep == NInv /\ New => NInv'
<1> SUFFICES ASSUME NInv, New PROVE NInv'
    OBVIOUS
<1> USE DEF NInv, NTypeOK
<1>1. /\ UNCHANGED <<setting, stored, bitrate, reader, boots, booted, touched, stuck>>
      /\ tuner.pc = "new" /\ tuner \in Retuning
    BY TunerType DEF New
<1>2. /\ node = 0 /\ bitrate \in Rates /\ handles # <<>>
      /\ handles \in Seq(Handle) /\ Len(handles) \in Nat /\ DOMAIN handles = 1 .. Len(handles)
    BY <1>1, NodeType DEF NodeAt
<1>3. ~hurt => Trying
    BY <1>1, <1>2 DEF Survives
<1>4. CASE /\ tuner.rate \in Workable /\ ~Exists /\ Len(handles) < MaxNodes
           /\ handles' = Append(handles, [rate |-> tuner.rate, st |-> "stopped"])
           /\ node' = Len(handles') /\ Goto("enable") /\ Agree
    <2> DEFINE e == [rate |-> tuner.rate, st |-> "stopped"]
    <2>1. e \in Handle
        BY <1>4 DEF Handle, States
    <2>2. /\ handles' \in Seq(Handle) /\ Len(handles') = Len(handles) + 1
          /\ DOMAIN handles' = 1 .. Len(handles) + 1 /\ handles' # <<>>
          /\ handles'[Len(handles) + 1] = e
          /\ \A j \in DOMAIN handles : handles'[j] = handles[j]
        BY <1>2, <1>4, <2>1, AppendHandleType
    <2>3. /\ node' = Len(handles) + 1 /\ node' # 0
          /\ handles'[node'].rate = tuner.rate /\ handles'[node'].st = "stopped"
        BY <1>2, <1>4, <2>2
    <2>4. /\ tuner' \in Retuning /\ tuner'.pc = "enable"
          /\ tuner'.rate = tuner.rate /\ tuner'.previous = tuner.previous
        BY <1>1, <1>4 DEF Retuning, Goto
    <2>5. UNCHANGED <<refusals, hurt>>
        BY <1>4 DEF Agree
    <2>6. NTypeOK'
        <3>1. Len(handles') <= MaxNodes /\ {node', reader', stuck'} \subseteq 0 .. Len(handles')
            BY <1>1, <1>2, <1>4, <2>2, <2>3, NodeAssumption
        <3> QED
            BY <1>1, <2>2, <2>4, <2>5, <3>1 DEF Handle
    <2>7. NothingLeftBehind'
        <3>1. \A h \in DOMAIN handles : handles[h].st = "deleted"
            BY <1>4 DEF Exists, StateOf
        <3>2. \A h \in DOMAIN handles' : h \in DOMAIN handles \/ h = node'
            BY <1>2, <2>2, <2>3
        <3> QED
            BY <2>2, <2>3, <3>1, <3>2 DEF NothingLeftBehind, StateOf
    <2>8. NodeAt'
        BY <1>1, <1>2, <2>3, <2>4 DEF NodeAt, StateOf
    <2>9. Survives'
        <3>1. ~hurt => Trying'
            BY <1>1, <1>3, <2>4, <2>5 DEF Trying
        <3> QED
            BY <2>3, <2>4, <2>5, <3>1 DEF Survives
    <2> QED
        BY <2>6, <2>7, <2>8, <2>9
<1>5. CASE UNCHANGED handles /\ node' = 0 /\ tuner' = Retry(tuner) /\ Refuse
    <2>1. /\ refusals' \in Nat /\ refusals' = refusals + 1 /\ hurt' \in BOOLEAN
          /\ ~hurt' => ~hurt /\ refusals = 0
        BY <1>5, RefuseIs
    <2>2. /\ tuner' \in {Idle} \cup [pc : {"hook", "save"}] \cup Retuning
          /\ tuner.rate # tuner.previous =>
                /\ tuner'.pc = "new" /\ tuner'.rate = tuner.previous
                /\ tuner'.previous = tuner.previous
          /\ tuner'.pc \in {"new", "save"}
        BY <1>1, <1>5, RetryIs
    <2>3. NTypeOK'
        BY <1>1, <1>2, <1>5, <2>1, <2>2
    <2>4. NothingLeftBehind'
        BY <1>1, <1>2, <1>5 DEF NothingLeftBehind, StateOf
    <2>5. NodeAt'
        BY <1>1, <1>2, <1>5, <2>2 DEF NodeAt
    <2>6. ASSUME ~hurt' PROVE tuner'.pc = "new" /\ Trying'
        <3>1. refusals = 0 /\ Trying
            BY <1>3, <2>1, <2>6
        <3>2. tuner.rate # tuner.previous /\ tuner.previous = bitrate
            BY <3>1 DEF Trying
        <3> QED
            BY <1>1, <2>1, <2>2, <3>1, <3>2 DEF Trying
    <2>7. Survives'
        BY <2>6 DEF Survives
    <2> QED
        BY <2>3, <2>4, <2>5, <2>7
<1> QED
    BY <1>4, <1>5 DEF New

\* It is enabled; or it is going to be deleted.
LEMMA EnableStep == NInv /\ Enable => NInv'
<1> SUFFICES ASSUME NInv, Enable PROVE NInv'
    OBVIOUS
<1> USE DEF NInv, NTypeOK
<1>1. /\ UNCHANGED <<setting, stored, node, bitrate, reader, boots, booted, touched, stuck>>
      /\ tuner.pc = "enable" /\ tuner \in Retuning
    BY TunerType DEF Enable
<1>2. /\ node # 0 /\ bitrate \in Rates /\ handles \in Seq(Handle) /\ node \in DOMAIN handles
      /\ handles # <<>> /\ StateOf(node) = "stopped"
    <2>1. node # 0 /\ bitrate \in Rates /\ StateOf(node) = "stopped"
        BY <1>1 DEF NodeAt
    <2> QED
        BY <2>1, NodeType, EmptySeq
<1>3. ~hurt => Trying /\ handles[node].rate = tuner.rate
    BY <1>1, <1>2 DEF Survives
<1>4. ASSUME NEW pc \in {"commit", "discard"}, Goto(pc)
      PROVE  /\ tuner' \in Retuning /\ tuner'.pc = pc
             /\ tuner'.rate = tuner.rate /\ tuner'.previous = tuner.previous
    BY <1>1, <1>4 DEF Retuning, Goto
<1>5. CASE SetState(node, "running") /\ Goto("commit") /\ Agree
    <2>1. /\ handles' \in Seq(Handle) /\ Len(handles') = Len(handles)
          /\ DOMAIN handles' = DOMAIN handles
          /\ handles'[node].st = "running" /\ handles'[node].rate = handles[node].rate
          /\ \A j \in DOMAIN handles : j # node => handles'[j] = handles[j]
          /\ handles' # <<>>
        BY <1>2, <1>5, SetStateType DEF States
    <2>2. /\ tuner' \in Retuning /\ tuner'.pc = "commit"
          /\ tuner'.rate = tuner.rate /\ tuner'.previous = tuner.previous
        BY <1>4, <1>5
    <2>3. UNCHANGED <<refusals, hurt>>
        BY <1>5 DEF Agree
    <2>4. NTypeOK'
        BY <1>1, <2>1, <2>2, <2>3 DEF Handle
    <2>5. NothingLeftBehind'
        BY <1>1, <1>2, <2>1, NodeType DEF NothingLeftBehind, StateOf, Gone
    <2>6. NodeAt'
        BY <1>1, <1>2, <2>1, <2>2 DEF NodeAt
    <2>7. Survives'
        BY <1>1, <1>3, <2>1, <2>2, <2>3 DEF Survives, StateOf
    <2> QED
        BY <2>4, <2>5, <2>6, <2>7
<1>6. CASE UNCHANGED handles /\ Goto("discard") /\ Refuse
    <2>1. /\ refusals' \in Nat /\ refusals' = refusals + 1 /\ hurt' \in BOOLEAN
          /\ ~hurt' => ~hurt /\ refusals = 0
        BY <1>6, RefuseIs
    <2>2. /\ tuner' \in Retuning /\ tuner'.pc = "discard"
          /\ tuner'.rate = tuner.rate /\ tuner'.previous = tuner.previous
        BY <1>4, <1>6
    <2>3. NTypeOK'
        BY <1>1, <1>6, <2>1, <2>2
    <2>4. NothingLeftBehind'
        BY <1>1, <1>2, <1>6 DEF NothingLeftBehind, StateOf
    <2>5. NodeAt'
        BY <1>1, <1>2, <1>6, <2>2 DEF NodeAt, StateOf
    <2>6. ASSUME ~hurt'
          PROVE  tuner'.previous = bitrate' /\ refusals' = 1 /\ tuner'.rate # bitrate'
        <3>1. refusals = 0 /\ Trying
            BY <1>3, <2>1, <2>6
        <3>2. tuner.rate # tuner.previous /\ tuner.previous = bitrate
            BY <3>1 DEF Trying
        <3> QED
            BY <1>1, <2>1, <2>2, <3>1, <3>2
    <2>7. Survives'
        BY <2>2, <2>6 DEF Survives
    <2> QED
        BY <2>3, <2>4, <2>5, <2>7
<1> QED
    BY <1>5, <1>6 DEF Enable

\* It is deleted; or the driver refuses that too, for a second time in one call.
LEMMA DiscardStep == NInv /\ Discard => NInv'
<1> SUFFICES ASSUME NInv, Discard PROVE NInv'
    OBVIOUS
<1> USE DEF NInv, NTypeOK
<1>1. /\ UNCHANGED <<setting, stored, node, bitrate, reader, boots, booted, touched>>
      /\ tuner.pc = "discard" /\ tuner \in Retuning /\ Goto("undo")
    BY TunerType DEF Discard
<1>2. /\ node # 0 /\ bitrate \in Rates /\ handles \in Seq(Handle) /\ node \in DOMAIN handles
      /\ handles # <<>> /\ StateOf(node) = "stopped"
    <2>1. node # 0 /\ bitrate \in Rates /\ StateOf(node) = "stopped"
        BY <1>1 DEF NodeAt
    <2> QED
        BY <2>1, NodeType, EmptySeq
<1>3. ~hurt => tuner.previous = bitrate /\ refusals = 1 /\ tuner.rate # bitrate
    BY <1>1, <1>2 DEF Survives
<1>4. /\ tuner' \in Retuning /\ tuner'.pc = "undo"
      /\ tuner'.rate = tuner.rate /\ tuner'.previous = tuner.previous
    BY <1>1 DEF Retuning, Goto
<1>5. CASE SetState(node, Discarded) /\ Agree /\ UNCHANGED stuck
    <2>1. /\ handles' \in Seq(Handle) /\ Len(handles') = Len(handles)
          /\ DOMAIN handles' = DOMAIN handles
          /\ handles'[node].st = "deleted"
          /\ \A j \in DOMAIN handles : j # node => handles'[j] = handles[j]
        BY <1>2, <1>5, SetStateType DEF States, Discarded
    <2>2. UNCHANGED <<refusals, hurt, stuck>>
        BY <1>5 DEF Agree
    <2>3. NTypeOK'
        BY <1>1, <1>4, <2>1, <2>2 DEF Handle
    <2>4. NothingLeftBehind'
        BY <1>1, <1>2, <1>4, <2>1, NodeType DEF NothingLeftBehind, StateOf, Gone
    <2>5. NodeAt'
        BY <1>1, <1>2, <1>4, <2>1 DEF NodeAt, Gone
    <2>6. Survives'
        BY <1>1, <1>3, <1>4, <2>2 DEF Survives
    <2> QED
        BY <2>3, <2>4, <2>5, <2>6
<1>6. CASE stuck' = node /\ Refuse /\ UNCHANGED handles
    <2>1. /\ refusals' \in Nat /\ hurt' \in BOOLEAN
          /\ ~hurt' => ~hurt /\ refusals = 0
        BY <1>6, RefuseIs
    <2>2. NTypeOK'
        BY <1>1, <1>4, <1>6, <2>1
    <2>3. NothingLeftBehind'
        BY <1>1, <1>2, <1>6, NodeType DEF NothingLeftBehind, StateOf, Gone
    <2>4. NodeAt'
        BY <1>1, <1>2, <1>4, <1>6 DEF NodeAt, StateOf
    <2>5. ~hurt' => FALSE
        BY <1>2, <1>3, <2>1
    <2>6. Survives'
        BY <2>5 DEF Survives
    <2> QED
        BY <2>2, <2>3, <2>4, <2>6
<1> QED
    BY <1>5, <1>6 DEF Discard

\* node_ is null again, and the previous rate is next.
LEMMA UndoStep == NInv /\ Undo => NInv'
<1> SUFFICES ASSUME NInv, Undo PROVE NInv'
    OBVIOUS
<1> USE DEF NInv, NTypeOK
<1>1. /\ UNCHANGED <<setting, stored, handles, bitrate, reader, boots, booted, refusals, hurt, touched, stuck>>
      /\ tuner.pc = "undo" /\ node' = 0 /\ tuner' = Retry(tuner)
    BY DEF Undo
<1>2. /\ node # 0 /\ bitrate \in Rates
      /\ Gone(node) \/ (node = stuck /\ StateOf(node) = "stopped")
    BY <1>1 DEF NodeAt
<1>3. handles # <<>> /\ 0 \in 0 .. Len(handles)
    BY <1>2, NodeType, EmptySeq
<1>4. /\ tuner' \in {Idle} \cup [pc : {"hook", "save"}] \cup Retuning
      /\ tuner.rate # tuner.previous =>
            /\ tuner'.pc = "new" /\ tuner'.rate = tuner.previous
            /\ tuner'.previous = tuner.previous
      /\ tuner'.pc \in {"new", "save"}
    BY <1>1, RetryIs
<1>5. NTypeOK'
    BY <1>1, <1>3, <1>4
<1>6. NothingLeftBehind'
    BY <1>1, <1>2, NodeType DEF NothingLeftBehind, StateOf, Gone
<1>7. NodeAt'
    BY <1>1, <1>2, <1>3, <1>4 DEF NodeAt
<1>8. Survives'
    <2>1. ~hurt => tuner.previous = bitrate /\ refusals = 1 /\ tuner.rate # bitrate
        BY <1>1, <1>3 DEF Survives
    <2>2. ~hurt => tuner'.pc = "new" /\ Trying'
        BY <1>1, <1>4, <2>1 DEF Trying
    <2> QED
        BY <1>1, <2>2 DEF Survives
<1> QED
    BY <1>5, <1>6, <1>7, <1>8

\* The rate it runs at is the one that is reported.
LEMMA CommitStep == NInv /\ Commit => NInv'
<1> SUFFICES ASSUME NInv, Commit PROVE NInv'
    OBVIOUS
<1> USE DEF NInv, NTypeOK
<1>1. /\ UNCHANGED <<setting, stored, node, handles, reader, boots, booted, refusals, hurt, touched, stuck>>
      /\ tuner.pc = "commit" /\ tuner' = [pc |-> "save"] /\ bitrate' = tuner.rate
    BY DEF Commit
<1>2. node # 0 /\ tuner.rate \in Rates
    BY <1>1, TunerType DEF NodeAt
<1>3. NTypeOK'
    BY <1>1, <1>2
<1>4. NothingLeftBehind'
    BY <1>1, <1>2 DEF NothingLeftBehind, StateOf
<1>5. NodeAt'
    BY <1>1, <1>2 DEF NodeAt
<1>6. Survives'
    BY <1>1, <1>2 DEF Survives, Up, StateOf
<1> QED
    BY <1>3, <1>4, <1>5, <1>6

-------------------------------------------------------------------------------
(* The controller: what is proved of it *)

LEMMA NInvStarts == NInit => NInv
<1> SUFFICES ASSUME NInit PROVE NInv
    OBVIOUS
<1>1. /\ handles \in Seq([rate : Workable, st : States]) /\ Len(handles) = 1 /\ DOMAIN handles = {1}
      /\ handles[1] = [rate |-> Default, st |-> "running"] /\ Default \in Rates
    BY NodeAssumption DEF NInit, States
<1>2. tuner = Idle /\ tuner.pc = "idle" /\ node = 1 /\ bitrate = Default /\ reader = 0 /\ stuck = 0
    BY DEF NInit, Idle, NotReading, None
<1>3. NTypeOK
    <2>1. Default \in Rates /\ 1 \in 1 .. MaxBoots /\ 1 <= MaxNodes
        BY <1>1, NodeAssumption
    <2>2. /\ setting = Default /\ stored = Default /\ booted = Default /\ boots = 1
          /\ refusals = 0 /\ hurt = FALSE /\ touched = FALSE
        BY DEF NInit
    <2>3. hurt \in BOOLEAN /\ touched \in BOOLEAN
        BY <2>2, Zenon
    <2>4. tuner \in {Idle} \cup [pc : {"hook", "save"}] \cup Retuning
        BY <1>2, Zenon
    <2> QED
        BY <1>1, <1>2, <2>1, <2>2, <2>3, <2>4 DEF NTypeOK
<1>4. NothingLeftBehind /\ NodeAt /\ Survives
    BY <1>1, <1>2 DEF NothingLeftBehind, NodeAt, Survives, Up, StateOf
<1> QED
    BY <1>3, <1>4 DEF NInv

LEMMA NInvNext == NInv /\ [NNext]_nvars => NInv'
<1> SUFFICES ASSUME NInv, [NNext]_nvars PROVE NInv'
    OBVIOUS
<1>1. CASE SetBitrate
    BY <1>1, TeardownStep, ForgetNodeStep, NewStep, EnableStep, DiscardStep, UndoStep, CommitStep DEF SetBitrate
<1>2. CASE Restart
    BY <1>2, RestartStep
<1>3. CASE (\E rate \in Rates : Post(rate)) \/ Hook \/ Save
    BY <1>3, SettingStep
<1>4. CASE AskInfo \/ ReadInfo \/ UNCHANGED nvars
    BY <1>4, InfoStep
<1> QED
    BY <1>1, <1>2, <1>3, <1>4 DEF NNext

\* Whatever the driver refuses, and whenever the power fails: which controllers there are,
\* and how far setBitrate() is with them (CanBus::start, createNode, setBitrate).
THEOREM NodeInvariant == NSpec => []NInv
<1> QED
    BY NInvStarts, NInvNext, PTL DEF NSpec

\* At every step of setBitrate() the one controller that exists is the one in node_, and
\* node_ names one that exists, but for the moment between a delete and the assignment after
\* it; or it is the one that createNode() could neither enable nor delete, stopped, and
\* there is no other (the results ignored at CanBus.cpp:158 and 166).
THEOREM OneControllerAtMost == NSpec => []NothingLeftBehind
<1>1. NInv => NothingLeftBehind
    BY DEF NInv
<1> QED
    BY <1>1, NodeInvariant, PTL

\* "On failure we rebuild at the previous rate so the monitor is never left dead after a bad
\* guess": one refusal of the driver leaves a running controller at the rate reported.
THEOREM BadGuessIsSurvived == NSpec => []OneRefusalIsSurvived
<1>1. NInv => OneRefusalIsSurvived
    <2> SUFFICES ASSUME NInv, tuner = Idle, ~hurt, handles # <<>>
                 PROVE  Up
        BY DEF OneRefusalIsSurvived, Up
    <2>1. tuner.pc = "idle"
        BY DEF Idle
    <2> QED
        BY <2>1 DEF NInv, Survives
<1> QED
    BY <1>1, NodeInvariant, PTL

-------------------------------------------------------------------------------
(* The clock: the field *)

\* The largest of the first indices.
LEMMA MaxOfIndices ==
    Max({1}) = 1 /\ Max({2}) = 2 /\ Max({1, 2}) = 2
<1>1. \A x \in {1} : (\A y \in {1} : x >= y) <=> x = 1
    OBVIOUS
<1>2. \A x \in {2} : (\A y \in {2} : x >= y) <=> x = 2
    OBVIOUS
<1>3. \A x \in {1, 2} : (\A y \in {1, 2} : x >= y) <=> x = 2
    OBVIOUS
<1> QED
    BY <1>1, <1>2, <1>3 DEF Max

\* The field of one byte, and of two.
LEMMA FieldNarrow ==
    ASSUME NEW data
    PROVE  Field(Narrow, data) = 0 * Base + data[1]
<1> DEFINE Next(h) == [s \in SUBSET {1} |->
                 IF s = {} THEN 0 ELSE h[s \ {Max(s)}] * Base + data[Narrow[Max(s)]]]
<1> DEFINE w == [s \in SUBSET {1} |-> IF s = {} THEN 0 ELSE 0 * Base + data[1]]
<1> DEFINE g == CHOOSE h : h = Next(h)
<1>1. DOMAIN Narrow = {1} /\ Narrow[1] = 1
    BY DEF Narrow
<1>2. Field(Narrow, data) = g[{1}]
    BY <1>1 DEF Field, FoldLeft, MapThenFoldSet
<1>3. w = Next(w)
    <2>1. \A s \in SUBSET {1} : s = {} \/ s = {1}
        OBVIOUS
    <2>2. w[{1}] = 0 * Base + data[1] /\ w[{}] = 0
        OBVIOUS
    <2>3. {1} \ {Max({1})} = {}
        BY MaxOfIndices
    <2>4. \A s \in SUBSET {1} : w[s] = Next(w)[s]
        BY <1>1, <2>1, <2>2, <2>3, MaxOfIndices
    <2> QED
        BY <2>4
<1>4. g = Next(g)
    BY <1>3
<1> HIDE DEF g, w
<1>5. g[{}] = 0
    BY <1>4
<1>6. g[{1}] = g[{1} \ {Max({1})}] * Base + data[Narrow[Max({1})]]
    BY <1>4
<1> QED
    BY <1>1, <1>2, <1>5, <1>6, MaxOfIndices

LEMMA FieldWide ==
    ASSUME NEW data
    PROVE  Field(Wide, data) = (0 * Base + data[1]) * Base + data[2]
<1> DEFINE Next(h) == [s \in SUBSET {1, 2} |->
                 IF s = {} THEN 0 ELSE h[s \ {Max(s)}] * Base + data[Wide[Max(s)]]]
<1> DEFINE one == 0 * Base + data[1]
<1> DEFINE both == one * Base + data[2]
<1> DEFINE two == 0 * Base + data[2]
<1> DEFINE w == [s \in SUBSET {1, 2} |->
                 IF s = {} THEN 0 ELSE IF s = {1} THEN one ELSE IF s = {2} THEN two ELSE both]
<1> DEFINE g == CHOOSE h : h = Next(h)
<1>1. DOMAIN Wide = {1, 2} /\ Wide[1] = 1 /\ Wide[2] = 2
    BY DEF Wide
<1>2. Field(Wide, data) = g[{1, 2}]
    BY <1>1 DEF Field, FoldLeft, MapThenFoldSet
<1>3. w = Next(w)
    <2>1. \A s \in SUBSET {1, 2} : s = {} \/ s = {1} \/ s = {2} \/ s = {1, 2}
        OBVIOUS
    <2>2. w[{1}] = one /\ w[{}] = 0 /\ w[{2}] = two /\ w[{1, 2}] = both
        BY {1, 2} # {} /\ {1, 2} # {1} /\ {1, 2} # {2} /\ {2} # {} /\ {2} # {1} /\ {1} # {}
    <2>3. {1} \ {Max({1})} = {} /\ {2} \ {Max({2})} = {} /\ {1, 2} \ {Max({1, 2})} = {1}
        BY MaxOfIndices
    <2> HIDE DEF w, one, two, both
    <2>4. ASSUME NEW s \in SUBSET {1, 2} PROVE w[s] = Next(w)[s]
        <3>1. CASE s = {}
            BY <2>2, <3>1
        <3>2. CASE s = {1}
            BY <1>1, <2>2, <2>3, <3>2, MaxOfIndices DEF one
        <3>3. CASE s = {2}
            BY <1>1, <2>2, <2>3, <3>3, MaxOfIndices DEF two
        <3>4. CASE s = {1, 2}
            BY <1>1, <2>2, <2>3, <3>4, MaxOfIndices DEF both
        <3> QED
            BY <2>1, <3>1, <3>2, <3>3, <3>4
    <2> QED
        BY <2>4 DEF w
<1>4. g = Next(g)
    BY <1>3
<1> HIDE DEF g, w
<1>5. g[{}] = 0
    BY <1>4
<1>6. g[{1}] = g[{1} \ {Max({1})}] * Base + data[Wide[Max({1})]]
    BY <1>4
<1>7. g[{1, 2}] = g[{1, 2} \ {Max({1, 2})}] * Base + data[Wide[Max({1, 2})]]
    BY <1>4
<1> QED
    BY <1>1, <1>2, <1>5, <1>6, <1>7, MaxOfIndices

-------------------------------------------------------------------------------
(* The clock: the inductive invariant *)

\* What a frame that shows the counter at c reads as.
SeenAs(idx, c) == IF idx = Wide THEN c ELSE c \div Base

\* A frame on its way is no older than it may be, and is short or shows the counter of its time.
AirIs ==
    air = <<>> \/ \E at \in Time, data \in {air[1].data} :
        /\ air = <<[data |-> data, at |-> at]>>
        /\ at <= now /\ now <= at + Latency
        /\ data = <<>> \/ data = <<CounterAt(at) \div Base, CounterAt(at) % Base>>

\* A reading is of a frame that was sent a moment before, at seen, and since the field was
\* configured there was one update for each second from first on, at most.
ReadAt(seen, first) ==
    /\ seen <= lastReading.atUs /\ lastReading.atUs <= now
    /\ lastReading.atUs <= seen + Latency
    /\ lastReading.raw = SeenAs(field, CounterAt(seen))
    /\ first <= seen /\ since <= first + Latency
    /\ lastReading.updates <= (seen \div Second) - (first \div Second) + 1
    /\ air # <<>> => seen <= air[1].at

ReadingIs ==
    lastReading.valid =>
        field \in Fields /\ \E seen, first \in Time : ReadAt(seen, first)

KTyped ==
    /\ now \in Time /\ since \in Time
    /\ start \in Starts /\ period \in {Day, Base * Base} /\ local \in Locals \cup {NotSet}
    /\ configured \in BOOLEAN /\ field \in Fields \cup {<<>>}
    /\ lastReading \in Readings
    /\ uploads \in 0 .. MaxUploads

KInv ==
    /\ KTyped
    /\ configured => field \in Fields
    /\ since <= now
    /\ ~lastReading.valid => lastReading.updates = 0
    /\ AirIs
    /\ ReadingIs

-------------------------------------------------------------------------------
(* The clock: what the counter and a reading are *)

LEMMA ClockNumbers ==
    /\ Second \in Nat \ {0} /\ HalfDay \in Nat \ {0} /\ Base \in Nat \ {0} /\ Day \in Nat \ {0}
    /\ Latency \in Nat /\ MaxUploads \in Nat /\ Base * Base \in Nat \ {0}
    /\ Day = 2 * HalfDay /\ Day < Base * Base
    /\ Starts \subseteq 0 .. Day - 1 /\ Locals \subseteq 0 .. Day - 1
    /\ Time \subseteq Nat
<1>1. Second \in Nat \ {0} /\ HalfDay \in Nat \ {0} /\ Base \in Nat \ {0}
    BY ClockAssumption
<1>2. Day \in Nat \ {0} /\ Day = 2 * HalfDay
    BY <1>1 DEF Day
<1>3. Day < Base * Base
    BY ClockAssumption
<1>4. Base * Base \in Nat
    BY <1>1
<1> QED
    BY <1>1, <1>2, <1>3, <1>4, ClockAssumption, UptimeAssumption DEF Time

LEMMA CounterIs ==
    ASSUME KTyped, NEW t \in Time
    PROVE  /\ CounterAt(t) \in 0 .. period - 1 /\ CounterAt(t) \in 0 .. Base * Base - 1
           /\ t \div Second \in Nat /\ start + t \div Second \in Nat /\ period \in Nat \ {0}
<1>1. t \in Nat /\ start \in Nat /\ period \in Nat \ {0} /\ period <= Base * Base
    BY ClockNumbers DEF KTyped
<1>2. t \div Second \in Nat
    BY <1>1, ClockNumbers, ModOfNat
<1> DEFINE u == start + t \div Second
<1>3. u \in Nat
    BY <1>1, <1>2
<1> HIDE DEF u
<1>4. u % period \in 0 .. period - 1
    <2>1. u \in Int /\ period \in Nat \ {0}
        BY <1>1, <1>3
    <2> QED
        BY ONLY <2>1, DivMod
<1> QED
    BY <1>1, <1>2, <1>3, <1>4, ClockNumbers DEF CounterAt, u

LEMMA FieldIs ==
    ASSUME NEW idx \in Fields, NEW x \in 0 .. Base * Base - 1
    PROVE  /\ Field(idx, <<x \div Base, x % Base>>) = SeenAs(idx, x)
           /\ SeenAs(idx, x) \in 0 .. Base * Base - 1
<1> DEFINE d == x \div Base
<1> DEFINE r == x % Base
<1>1. /\ x \in Nat /\ d \in Nat /\ d <= x /\ r \in Nat /\ x = (Base * d) + r
    BY ClockNumbers, DivMod, ModOfNat
<1>2. Wide # Narrow
    BY DEF Wide, Narrow
<1> HIDE DEF d, r
<1>3. Field(Narrow, <<d, r>>) = 0 * Base + d
    BY FieldNarrow
<1>4. Field(Wide, <<d, r>>) = (0 * Base + d) * Base + r
    BY FieldWide
<1>5. Field(Narrow, <<d, r>>) = d /\ Field(Wide, <<d, r>>) = x
    BY <1>1, <1>3, <1>4, ClockNumbers
<1>6. d \in 0 .. Base * Base - 1
    BY <1>1, ClockNumbers
<1> QED
    BY <1>2, <1>5, <1>6 DEF SeenAs, Fields, d, r

LEMMA ReadingHasTypes ==
    ASSUME KTyped
    PROVE  /\ lastReading.valid \in BOOLEAN /\ lastReading.raw \in 0 .. Base * Base - 1
           /\ lastReading.raw \in Nat /\ lastReading.atUs \in Time /\ lastReading.atUs \in Nat
           /\ lastReading.updates \in Nat
<1>1. /\ lastReading.valid \in BOOLEAN /\ lastReading.raw \in 0 .. Base * Base - 1
      /\ lastReading.atUs \in Time /\ lastReading.updates \in Nat
    BY DEF KTyped, Readings
<1>2. lastReading.raw \in Nat
    BY <1>1, ClockNumbers
<1> QED
    BY <1>1, <1>2, ClockNumbers

-------------------------------------------------------------------------------
(* The clock: each step preserves it *)

LEMMA BroadcastStep == KInv /\ Broadcast => KInv'
<1> SUFFICES ASSUME KInv, Broadcast PROVE KInv'
    OBVIOUS
<1>1. /\ air = <<>>
      /\ UNCHANGED <<now, start, period, local, configured, field, lastReading, status, uploads, since>>
      /\ now \in Time /\ Latency \in Nat /\ now \in Nat
    BY ClockNumbers DEF Broadcast, KInv, KTyped
<1>2. PICK data \in {<<CounterAt(now) \div Base, CounterAt(now) % Base>>, <<>>} :
          air' = <<[data |-> data, at |-> now]>>
    BY DEF Broadcast
<1>3. air'[1].data = data /\ air'[1].at = now /\ air' # <<>>
    BY <1>2
<1>4. AirIs'
    <2>1. \A t \in Time : CounterAt(t)' = CounterAt(t)
        BY <1>1 DEF CounterAt
    <2>2. data = <<>> \/ data = <<CounterAt(now) \div Base, CounterAt(now) % Base>>
        BY <1>2
    <2>3. \E at \in Time, d \in {air'[1].data} :
              /\ air' = <<[data |-> d, at |-> at]>>
              /\ at <= now /\ now <= at + Latency
              /\ d = <<>> \/ d = <<CounterAt(at) \div Base, CounterAt(at) % Base>>
        BY <1>1, <1>2, <1>3, <2>2
    <2> QED
        BY <1>1, <2>1, <2>3 DEF AirIs, CounterAt
<1>5. ReadingIs'
    <2> SUFFICES ASSUME lastReading.valid
                 PROVE  field \in Fields /\ \E seen, first \in Time : ReadAt(seen, first)'
        BY <1>1 DEF ReadingIs
    <2>1. PICK seen, first \in Time : ReadAt(seen, first)
        BY DEF KInv, ReadingIs
    <2>2. lastReading.atUs \in Nat /\ seen \in Nat /\ seen <= now
        BY <1>1, <2>1, ClockNumbers, ReadingHasTypes, SMTT(30) DEF ReadAt, KInv
    <2>3. ReadAt(seen, first)'
        BY <1>1, <1>3, <2>1, <2>2 DEF ReadAt, CounterAt, SeenAs
    <2> QED
        BY <2>3 DEF KInv, ReadingIs
<1> QED
    BY <1>1, <1>4, <1>5 DEF KInv, KTyped

\* The second has moved on when the counter has.
LEMMA SecondsMovedOn ==
    ASSUME KTyped, NEW idx \in Fields, NEW s \in Time, NEW t \in Time, s <= t,
           SeenAs(idx, CounterAt(s)) # SeenAs(idx, CounterAt(t))
    PROVE  (s \div Second) + 1 <= t \div Second
<1>1. s \div Second # t \div Second
    BY DEF CounterAt
<1>2. s \in Nat /\ t \in Nat
    BY ClockNumbers
<1>3. s \div Second <= t \div Second /\ s \div Second \in Nat /\ t \div Second \in Nat
    BY <1>2, ClockNumbers, DivOfSum, ModOfNat
<1> QED
    BY <1>1, <1>3

LEMMA ReadFrameStep == KInv /\ ReadFrame => KInv'
<1> SUFFICES ASSUME KInv, ReadFrame PROVE KInv'
    OBVIOUS
<1>1. /\ air # <<>> /\ air' = <<>>
      /\ UNCHANGED <<now, start, period, local, configured, field, status, uploads, since>>
      /\ now \in Time /\ Latency \in Nat /\ now \in Nat /\ since \in Nat
    BY ClockNumbers DEF ReadFrame, KInv, KTyped
<1> DEFINE data == air[1].data
<1>2. AirIs'
    BY <1>1 DEF AirIs
<1>3. CASE UNCHANGED lastReading
    <2>1. ReadingIs'
        <3> SUFFICES ASSUME lastReading.valid
                     PROVE  field \in Fields /\ \E seen, first \in Time : ReadAt(seen, first)'
            BY <1>1, <1>3 DEF ReadingIs
        <3>1. PICK seen, first \in Time : ReadAt(seen, first)
            BY DEF KInv, ReadingIs
        <3>2. ReadAt(seen, first)'
            BY <1>1, <1>3, <3>1 DEF ReadAt, CounterAt, SeenAs
        <3> QED
            BY <3>2 DEF KInv, ReadingIs
    <2> QED
        BY <1>1, <1>2, <1>3, <2>1 DEF KInv, KTyped
<1>4. CASE /\ configured /\ Fits(field, data)
           /\ lastReading' = ReadingAfter(lastReading, Field(field, data), now)
           /\ ~Repeats(lastReading, Field(field, data))
    <2>1. field \in Fields
        BY <1>4 DEF KInv
    <2>2. PICK at \in Time :
              /\ air = <<[data |-> data, at |-> at]>>
              /\ at <= now /\ now <= at + Latency
              /\ data = <<>> \/ data = <<CounterAt(at) \div Base, CounterAt(at) % Base>>
        BY <1>1 DEF KInv, AirIs
    <2>3. data # <<>>
        <3>1. \E i \in Range(field) : i > 0 /\ i \in Nat
            BY <2>1 DEF Fields, Wide, Narrow, Range
        <3>2. Len(<<>>) = 0
            OBVIOUS
        <3> QED
            BY <1>4, <3>1, <3>2 DEF Fits
    <2>4. /\ Field(field, data) = SeenAs(field, CounterAt(at))
          /\ Field(field, data) \in 0 .. Base * Base - 1
        BY <2>1, <2>2, <2>3, CounterIs, FieldIs DEF KInv
    <2>5. lastReading.updates \in Nat
        BY ReadingHasTypes DEF KInv
    <2> HIDE DEF data
    <2>6. lastReading' = [valid |-> TRUE, raw |-> Field(field, data), atUs |-> now,
                          updates |-> lastReading.updates + 1]
        BY <1>4 DEF ReadingAfter
    <2>7. lastReading' \in Readings
        BY <1>1, <2>4, <2>5, <2>6 DEF Readings
    <2>8. at \in Nat /\ at \div Second \in Nat
        BY <2>2, ClockNumbers, ModOfNat
    <2>9. \E first \in Time :
             /\ first <= at /\ since <= first + Latency
             /\ lastReading.updates + 1 <= (at \div Second) - (first \div Second) + 1
        <3>1. CASE ~lastReading.valid
            <4>1. lastReading.updates = 0
                BY <3>1 DEF KInv
            <4>2. since <= at + Latency
                BY <1>1, <2>2, <2>8 DEF KInv
            <4> QED
                BY <2>2, <2>8, <4>1, <4>2
        <3>2. CASE lastReading.valid
            <4>1. PICK seen, first \in Time : ReadAt(seen, first)
                BY <3>2 DEF KInv, ReadingIs
            <4>2. seen <= at
                BY <1>1, <2>2, <4>1 DEF ReadAt
            <4>3. SeenAs(field, CounterAt(seen)) # SeenAs(field, CounterAt(at))
                BY <1>4, <2>4, <3>2, <4>1 DEF ReadAt, Repeats
            <4>4. (seen \div Second) + 1 <= at \div Second
                BY <2>1, <2>2, <4>1, <4>2, <4>3, SecondsMovedOn DEF KInv
            <4>5. seen \in Nat /\ first \in Nat /\ seen \div Second \in Nat /\ first \div Second \in Nat
                BY <4>1, ClockNumbers, ModOfNat
            <4>6. /\ first <= seen /\ since <= first + Latency
                  /\ lastReading.updates <= (seen \div Second) - (first \div Second) + 1
                BY <4>1 DEF ReadAt
            <4>7. lastReading.updates + 1 <= (at \div Second) - (first \div Second) + 1
                BY <2>5, <2>8, <4>4, <4>5, <4>6
            <4>8. first <= at
                BY <2>8, <4>2, <4>5, <4>6
            <4> QED
                BY <4>1, <4>6, <4>7, <4>8
        <3> QED
            BY <2>5, <3>1, <3>2
    <2>10. PICK first \in Time :
             /\ first <= at /\ since <= first + Latency
             /\ lastReading.updates + 1 <= (at \div Second) - (first \div Second) + 1
        BY <2>9
    <2>11. ReadAt(at, first)'
        BY <1>1, <2>2, <2>4, <2>6, <2>10 DEF ReadAt, CounterAt, SeenAs
    <2>12. ReadingIs'
        BY <1>1, <2>1, <2>11 DEF ReadingIs
    <2> QED
        BY <1>1, <1>2, <2>6, <2>7, <2>12 DEF KInv, KTyped
<1> QED
    BY <1>1, <1>3, <1>4 DEF ReadFrame, ReadingAfter

LEMMA ConfigureStep ==
    ASSUME KInv, NEW f \in Fields, Configure(f)
    PROVE  KInv'
<1>1. /\ configured' = TRUE /\ field' = f /\ lastReading' = NoReading /\ since' = now
      /\ uploads < MaxUploads /\ uploads' = uploads + 1
      /\ UNCHANGED <<now, start, period, local, air>>
    BY DEF Configure, ReadingOfNewField
<1>2. NoReading \in Readings /\ ~NoReading.valid /\ NoReading.updates = 0
    <2>1. 0 \in 0 .. Base * Base - 1 /\ 0 \in Time
        BY ClockNumbers, UptimeAssumption DEF Time
    <2> QED
        BY <2>1 DEF NoReading, Readings
<1>3. AirIs'
    BY <1>1 DEF KInv, AirIs, CounterAt
<1>4. uploads' \in 0 .. MaxUploads /\ since' \in Time /\ since' <= now'
    BY <1>1, ClockNumbers DEF KInv, KTyped
<1> QED
    BY <1>1, <1>2, <1>3, <1>4 DEF KInv, KTyped, ReadingIs

\* Steps that touch neither the counter nor the reading.
LEMMA ClockRests ==
    ASSUME KInv, UNCHANGED <<start, period, field, lastReading, air, since>>, now' \in Time, now <= now',
           air # <<>> => now' <= air[1].at + Latency
    PROVE  AirIs' /\ ReadingIs' /\ since' <= now'
<1>1. now \in Nat /\ now' \in Nat /\ since \in Nat /\ lastReading.atUs \in Nat
    BY ClockNumbers, ReadingHasTypes DEF KInv, KTyped
<1>2. AirIs'
    <2> SUFFICES ASSUME air # <<>>
                 PROVE  \E at \in Time, data \in {air[1].data} :
                            /\ air = <<[data |-> data, at |-> at]>>
                            /\ at <= now' /\ now' <= at + Latency
                            /\ data = <<>> \/ data = <<CounterAt(at)' \div Base, CounterAt(at)' % Base>>
        BY DEF AirIs, CounterAt
    <2>1. PICK at \in Time, data \in {air[1].data} :
              /\ air = <<[data |-> data, at |-> at]>>
              /\ at <= now /\ now <= at + Latency
              /\ data = <<>> \/ data = <<CounterAt(at) \div Base, CounterAt(at) % Base>>
        BY DEF KInv, AirIs
    <2>2. at \in Nat /\ air[1].at = at
        BY <2>1, ClockNumbers
    <2>3. at <= now' /\ now' <= at + Latency
        BY <1>1, <2>1, <2>2
    <2> QED
        BY <2>1, <2>3 DEF CounterAt
<1>3. ReadingIs'
    <2> SUFFICES ASSUME lastReading.valid
                 PROVE  field \in Fields /\ \E seen, first \in Time : ReadAt(seen, first)'
        BY DEF ReadingIs
    <2>1. PICK seen, first \in Time : ReadAt(seen, first)
        BY DEF KInv, ReadingIs
    <2>2. lastReading.atUs <= now'
        BY <1>1, <2>1 DEF ReadAt
    <2>3. ReadAt(seen, first)'
        BY <2>1, <2>2 DEF ReadAt, CounterAt, SeenAs
    <2> QED
        BY <2>3 DEF KInv, ReadingIs
<1>4. since' <= now'
    BY <1>1 DEF KInv
<1> QED
    BY <1>2, <1>3, <1>4

LEMMA UnconfigureStep == KInv /\ Unconfigure => KInv'
<1> SUFFICES ASSUME KInv, Unconfigure PROVE KInv'
    OBVIOUS
<1>1. /\ configured' = FALSE /\ uploads < MaxUploads /\ uploads' = uploads + 1
      /\ UNCHANGED <<now, start, period, local, field, lastReading, air, since>>
      /\ now \in Time
    BY DEF Unconfigure, KInv, KTyped
<1>2. AirIs' /\ ReadingIs'
    BY <1>1 DEF KInv, AirIs, ReadingIs, ReadAt, CounterAt, SeenAs
<1>3. uploads' \in 0 .. MaxUploads
    BY <1>1, ClockNumbers DEF KInv, KTyped
<1> QED
    BY <1>1, <1>2, <1>3 DEF KInv, KTyped

LEMMA QuietStep ==
    ASSUME KInv, Status \/ Sntp \/ UNCHANGED kvars
    PROVE  KInv'
<1>1. /\ UNCHANGED <<now, start, period, configured, field, lastReading, air, uploads, since>>
      /\ local' = local \/ local' \in Locals
    BY DEF Status, AskReading, AskTod, AskOffset, Answered, Sntp, kvars
<1>2. AirIs' /\ ReadingIs'
    BY <1>1 DEF KInv, AirIs, ReadingIs, ReadAt, CounterAt, SeenAs
<1> QED
    BY <1>1, <1>2 DEF KInv, KTyped

LEMMA KTickStep == KInv /\ KTick => KInv'
<1> SUFFICES ASSUME KInv, KTick PROVE KInv'
    OBVIOUS
<1>1. /\ UNCHANGED <<start, period, local, configured, field, lastReading, air, uploads, since>>
      /\ now < MaxTime /\ now' = now + 1 /\ (air # <<>> => now - air[1].at < Latency)
    BY DEF KTick, TimePasses
<1>2. now \in Nat /\ now' \in Time
    BY <1>1, UptimeAssumption DEF KInv, KTyped, Time
<1>3. air # <<>> => air[1].at \in Nat
    BY ClockNumbers DEF KInv, AirIs
<1>4. now <= now' /\ (air # <<>> => now' <= air[1].at + Latency)
    BY <1>1, <1>2, <1>3, ClockNumbers, SMTT(30)
<1>5. AirIs' /\ ReadingIs' /\ since' <= now'
    BY <1>1, <1>2, <1>4, ClockRests
<1> QED
    BY <1>1, <1>2, <1>5 DEF KInv, KTyped

LEMMA KInvStarts == KInit => KInv
<1> SUFFICES ASSUME KInit PROVE KInv
    OBVIOUS
<1>1. NoReading \in Readings /\ ~NoReading.valid /\ NoReading.updates = 0
    <2>1. 0 \in 0 .. Base * Base - 1 /\ 0 \in Time
        BY ClockNumbers, UptimeAssumption DEF Time
    <2> QED
        BY <2>1 DEF NoReading, Readings
<1>2. 0 \in Time /\ 0 \in 0 .. MaxUploads
    BY ClockNumbers, UptimeAssumption DEF Time
<1>3. /\ now = 0 /\ since = 0 /\ lastReading = NoReading /\ configured = FALSE /\ air = <<>>
      /\ start \in Starts /\ period \in {Day, Base * Base} /\ local = NotSet /\ field = <<>>
      /\ uploads = 0
    BY DEF KInit
<1>4. KTyped
    BY <1>1, <1>2, <1>3 DEF KTyped
<1>5. AirIs /\ ReadingIs /\ since <= now
    BY <1>1, <1>3 DEF AirIs, ReadingIs
<1> QED
    BY <1>1, <1>3, <1>4, <1>5 DEF KInv

LEMMA KInvNext == KInv /\ (KNext \/ UNCHANGED kvars) => KInv'
    BY BroadcastStep, ReadFrameStep, ConfigureStep, UnconfigureStep, QuietStep, KTickStep
       DEF KNext, NewClock

-------------------------------------------------------------------------------
(* The clock: what the answer says *)

\* The age of a reading, and the time of day it gives.
LEMMA AgeIs ==
    ASSUME KInv, lastReading.valid
    PROVE  /\ Elapsed(now, lastReading.atUs) = now - lastReading.atUs
           /\ now - lastReading.atUs \in Nat
           /\ (now - lastReading.atUs) \div Second \in Nat
           /\ Tod(lastReading, now)
                = (lastReading.raw + (now - lastReading.atUs) \div Second) % Day
           /\ Tod(lastReading, now) \in 0 .. Day - 1
<1>1. lastReading.atUs \in Nat /\ lastReading.raw \in Nat /\ now \in Nat
    BY ClockNumbers, ReadingHasTypes DEF KInv, KTyped
<1>2. lastReading.atUs <= now
    BY DEF KInv, ReadingIs, ReadAt
<1> DEFINE e == now - lastReading.atUs
<1>3. Elapsed(now, lastReading.atUs) = e /\ e \in Nat
    BY <1>1, <1>2 DEF Elapsed
<1> HIDE DEF e
<1> DEFINE u == lastReading.raw + e \div Second
<1>4. e \div Second \in Nat /\ u \in Nat /\ u \in Int
    BY <1>1, <1>3, ClockNumbers, ModOfNat
<1>5. Tod(lastReading, now) = u % Day
    BY <1>3 DEF Tod
<1> HIDE DEF u
<1>6. u % Day \in 0 .. Day - 1
    BY <1>4, ClockNumbers, DivMod
<1> QED
    BY <1>3, <1>4, <1>5, <1>6 DEF e, u

\* Between what the counter shows and what the answer says lie the seconds by which the frame
\* was late, and one that is not over.
LEMMA LagIs ==
    ASSUME NEW seen \in Nat, NEW delay \in 0 .. Latency, NEW age \in Nat
    PROVE  ((seen + delay + age) \div Second) - (seen \div Second) - (age \div Second) \in Lags
<1>1. /\ seen \div Second \in Nat /\ age \div Second \in Nat
      /\ (seen + age) \div Second \in Nat /\ (seen + age + delay) \div Second \in Nat
    <2>1. \A y \in Nat : y \div Second \in Nat
        BY ClockNumbers, ModOfNat
    <2>2. seen + age \in Nat /\ seen + age + delay \in Nat
        BY ClockNumbers
    <2> QED
        BY <2>1, <2>2
<1>2. /\ (seen \div Second) + (age \div Second) <= (seen + age) \div Second
      /\ (seen + age) \div Second <= (seen \div Second) + (age \div Second) + 1
    BY ClockNumbers, DivOfSum
<1> DEFINE x == seen + age
<1>3. x \in Nat /\ delay \in Nat /\ x <= x + delay /\ x + delay \in Nat
    BY ClockNumbers
<1> HIDE DEF x
<1>4. x \div Second <= (x + delay) \div Second
    BY <1>3, ClockNumbers, DivOfSum
<1>5. (x + delay) \div Second <= (x \div Second) + ((delay + Second - 1) \div Second)
    BY <1>3, ClockNumbers, DivOfLater
<1> DEFINE c == delay + Second - 1
<1> DEFINE m == Latency + Second - 1
<1>6. c \in Nat /\ m \in Nat /\ c <= m
    BY <1>3, ClockNumbers
<1> HIDE DEF c, m
<1>7. c \div Second <= m \div Second /\ c \div Second \in Nat /\ m \div Second \in Nat
    BY <1>6, ClockNumbers, DivOfSum, ModOfNat
<1>8. (x + delay) = seen + delay + age /\ x = seen + age
    BY <1>3 DEF x
<1> QED
    BY <1>1, <1>2, <1>4, <1>5, <1>7, <1>8 DEF Lags, c, m

\* A remainder of what is in Lags is.
LEMMA LagsAreClosed ==
    ASSUME NEW x \in Lags
    PROVE  x \in Nat /\ x % Day \in Lags
<1> DEFINE m == Latency + Second - 1
<1>1. m \in Nat
    BY ClockNumbers
<1>2. m \div Second \in Nat
    BY <1>1, ClockNumbers, ModOfNat
<1>3. x \in Nat /\ x <= 1 + m \div Second
    BY <1>2 DEF Lags
<1>4. x % Day \in Nat /\ x % Day <= x
    BY <1>3, ClockNumbers, ModOfNat
<1> QED
    BY <1>2, <1>3, <1>4 DEF Lags

LEMMA TodIsTheBikes == KInv => TodFollowsTheBike
<1> SUFFICES ASSUME KInv, IsClock
             PROVE  (CounterAt(now) - Tod(lastReading, now)) % Day \in Lags
    BY DEF TodFollowsTheBike
<1>1. lastReading.valid /\ period = Day /\ field = Wide
    BY DEF IsClock, HasTod
<1>2. PICK seen, first \in Time : ReadAt(seen, first)
    BY <1>1 DEF KInv, ReadingIs
<1> DEFINE delay == lastReading.atUs - seen
<1> DEFINE age == now - lastReading.atUs
<1>3. /\ lastReading.atUs \in Nat /\ now \in Nat /\ seen \in Nat
      /\ now \in Time /\ start \in Nat
    BY ClockNumbers, ReadingHasTypes DEF KInv, KTyped
<1>4. delay \in 0 .. Latency /\ age \in Nat /\ now = seen + delay + age
    BY <1>2, <1>3, ClockNumbers, SMTT(30) DEF ReadAt
<1> HIDE DEF delay
<1> DEFINE a == now \div Second
<1> DEFINE s == seen \div Second
<1> DEFINE e == age \div Second
<1>5. a - s - e \in Lags
    BY <1>3, <1>4, LagIs DEF age
<1>6. a \in Nat /\ s \in Nat /\ e \in Nat
    BY <1>3, <1>4, ClockNumbers, ModOfNat
<1>7. CounterAt(now) = (start + a) % Day /\ lastReading.raw = (start + s) % Day
    BY <1>1, <1>2 DEF CounterAt, ReadAt, SeenAs
<1>8. Tod(lastReading, now) = (lastReading.raw + e) % Day
    BY <1>1, AgeIs
<1> HIDE DEF a, s, e, age
<1> DEFINE raw == lastReading.raw
<1> DEFINE tod == (raw + e) % Day
<1>9. raw \in Int /\ tod \in Int /\ Day \in Nat \ {0}
    <2>1. raw \in Int
        BY ReadingHasTypes DEF KInv
    <2>2. raw + e \in Int
        BY <1>6, <2>1
    <2>3. tod \in 0 .. Day - 1
        BY <2>2, ClockNumbers, DivMod
    <2> QED
        BY <2>1, <2>3, ClockNumbers
<1>10. raw = (start + s) % Day
    BY <1>7
<1> HIDE DEF raw
<1>11. (CounterAt(now) - tod) % Day = ((start + a) - tod) % Day
    <2> DEFINE x == start + a
    <2> DEFINE y == -tod
    <2>1. x \in Int /\ y \in Int /\ x % Day \in Int
        BY <1>3, <1>6, <1>9, DivMod
    <2> HIDE DEF x, y, tod
    <2>2. ((x % Day) + y) % Day = (x + y) % Day
        BY <2>1, ClockNumbers, ModOfSum
    <2>3. (x % Day) + y = (x % Day) - tod /\ x + y = x - tod
        BY <1>9, <2>1 DEF y
    <2> QED
        BY <1>7, <2>2, <2>3 DEF x
<1>12. ((start + a) - tod) % Day = ((start + a) - (raw + e)) % Day
    <2> DEFINE x == raw + e
    <2> DEFINE y == start + a
    <2>1. x \in Int /\ y \in Int
        BY <1>3, <1>6, <1>9
    <2> HIDE DEF x, y
    <2>2. (y - (x % Day)) % Day = (y - x) % Day
        BY <2>1, ClockNumbers, ModOfSum
    <2> QED
        BY <2>2 DEF x, y
<1>13. ((start + a) - (raw + e)) % Day = (a - s - e) % Day
    <2> DEFINE x == start + s
    <2> DEFINE y == start + a - e
    <2>1. x \in Int /\ y \in Int /\ (start + a) - (raw + e) = y - raw /\ y - x = a - s - e
        BY <1>3, <1>6, <1>9
    <2> HIDE DEF x, y
    <2>2. (y - (x % Day)) % Day = (y - x) % Day
        BY <2>1, ClockNumbers, ModOfSum
    <2> QED
        BY <1>10, <2>1, <2>2 DEF x
<1>14. (a - s - e) % Day \in Lags
    BY <1>5, LagsAreClosed
<1> QED
    BY <1>8, <1>11, <1>12, <1>13, <1>14 DEF raw

\* The offset is the difference of the two times of day, but for a whole day.
LEMMA OffsetIs ==
    ASSUME NEW t \in 0 .. Day - 1, NEW l \in 0 .. Day - 1
    PROVE  /\ Offset(t, l) \in -HalfDay .. HalfDay
           /\ \E k \in {-1, 0, 1} : Offset(t, l) = (t - l) + (Day * k)
<1>1. t \in Nat /\ l \in Nat /\ t < Day /\ l < Day /\ Day = 2 * HalfDay /\ HalfDay \in Nat \ {0}
    BY ClockNumbers
<1>2. CASE t - l > HalfDay
    BY <1>1, <1>2 DEF Offset
<1>3. CASE t - l < -HalfDay
    BY <1>1, <1>3 DEF Offset
<1>4. CASE ~(t - l > HalfDay) /\ ~(t - l < -HalfDay)
    BY <1>1, <1>4 DEF Offset
<1> QED
    BY <1>2, <1>3, <1>4

LEMMA OffsetIsOfTheClocks == KInv => OffsetIdentifiesTheClock
<1> SUFFICES ASSUME KInv, IsClock, local # NotSet
             PROVE  /\ Offset(Tod(lastReading, now), LocalTod(now)) \in -HalfDay .. HalfDay
                    /\ (CounterAt(now) - LocalTod(now) - Offset(Tod(lastReading, now), LocalTod(now)))
                           % Day \in Lags
    BY DEF OffsetIdentifiesTheClock
<1> DEFINE c == CounterAt(now)
<1> DEFINE t == Tod(lastReading, now)
<1> DEFINE l == LocalTod(now)
<1>1. t \in 0 .. Day - 1
    BY AgeIs DEF IsClock, HasTod
<1>2. l \in 0 .. Day - 1
    <2> DEFINE u == local + now \div Second
    <2>1. now \in Nat /\ local \in Nat
        BY ClockNumbers DEF KInv, KTyped
    <2>2. u \in Int
        BY <2>1, ClockNumbers, ModOfNat
    <2> HIDE DEF u
    <2>3. u % Day \in 0 .. Day - 1
        BY <2>2, ClockNumbers, DivMod
    <2> QED
        BY <2>3 DEF u, LocalTod
<1>3. c \in Int
    BY CounterIs DEF KInv, KTyped
<1>4. (c - t) % Day \in Lags
    BY TodIsTheBikes DEF TodFollowsTheBike
<1> HIDE DEF c, t, l
<1>5. PICK k \in {-1, 0, 1} : Offset(t, l) = (t - l) + (Day * k)
    BY <1>1, <1>2, OffsetIs
<1> DEFINE x == c - t
<1> DEFINE j == -k
<1>6. /\ x \in Int /\ j \in Int
      /\ c - l - Offset(t, l) = x + (Day * j)
    BY <1>1, <1>2, <1>3, <1>5, ClockNumbers
<1>7. (c - t) % Day = x % Day
    OBVIOUS
<1> HIDE DEF x, j
<1>8. (x + (Day * j)) % Day = x % Day
    BY <1>6, ClockNumbers, ModTurns
<1>9. (c - l - Offset(t, l)) % Day \in Lags
    BY <1>4, <1>6, <1>7, <1>8
<1>10. Offset(t, l) \in -HalfDay .. HalfDay
    BY <1>1, <1>2, OffsetIs
<1> QED
    BY <1>9, <1>10 DEF c, t, l

LEMMA UpdatesAreSeconds == KInv => UpdatesCountSeconds
<1> SUFFICES ASSUME KInv, lastReading.valid
             PROVE  lastReading.updates <= (now - since + Latency) \div Second + 2
    BY DEF UpdatesCountSeconds
<1>1. PICK seen, first \in Time : ReadAt(seen, first)
    BY DEF KInv, ReadingIs
<1>2. /\ lastReading.atUs \in Nat /\ now \in Nat /\ seen \in Nat /\ first \in Nat /\ since \in Nat
      /\ lastReading.updates \in Nat
    BY ClockNumbers, ReadingHasTypes DEF KInv, KTyped
<1> DEFINE d == seen - first
<1> DEFINE m == now - since + Latency
<1>3. d \in Nat /\ m \in Nat /\ d <= m /\ first + d = seen
    BY <1>1, <1>2, ClockNumbers, SMTT(30) DEF ReadAt, KInv
<1>4. lastReading.updates <= (seen \div Second) - (first \div Second) + 1
    BY <1>1 DEF ReadAt
<1> HIDE DEF d, m
<1>5. seen \div Second <= (first \div Second) + (d \div Second) + 1
    BY <1>2, <1>3, ClockNumbers, DivOfSum
<1>6. d \div Second <= m \div Second
    BY <1>3, ClockNumbers, DivOfSum
<1>7. /\ seen \div Second \in Nat /\ first \div Second \in Nat
      /\ d \div Second \in Nat /\ m \div Second \in Nat
    BY <1>2, <1>3, ClockNumbers, ModOfNat
<1>8. lastReading.updates <= m \div Second + 2
    BY <1>2, <1>4, <1>5, <1>6, <1>7
<1> QED
    BY <1>8 DEF m

LEMMA KInvIsTyped == KInv => KTypeOK
    BY AgeIs DEF KInv, KTyped, KTypeOK, HasTod

-------------------------------------------------------------------------------
(* The clock: what is proved of it *)

\* Whatever frames are late, short or missed, and whatever is uploaded in between: the types, the
\* frame on its way, and where the reading comes from (onFrame, loadJson).
THEOREM ClockInvariant == KSpec => []KInv
<1>1. KInit => KInv
    BY KInvStarts
<1>2. KInv /\ [KNext]_kvars => KInv'
    BY KInvNext
<1> QED
    BY <1>1, <1>2, PTL DEF KSpec

\* When the field is the bike's clock, the time of day that is told is the bike's, less the second
\* that is not over and the time the frame took, over midnight too (timeOfDay).
THEOREM TimeOfDayIsRight == KSpec => []TodFollowsTheBike
    BY TodIsTheBikes, ClockInvariant, PTL

\* The offset is at most half a day, and that of the two clocks, on either side of midnight
\* (offsetVsLocal).
THEOREM OffsetIsRight == KSpec => []OffsetIdentifiesTheClock
    BY OffsetIsOfTheClocks, ClockInvariant, PTL

-------------------------------------------------------------------------------
(* The four side by side *)

BusInv ==
    /\ QInv /\ NInv /\ TInv /\ KInv
    /\ part = "receive" => air = <<>>

\* The clock of the receive path moves, and nothing is on its way to the CAN clock.
LEMMA ReceiveAloneStep == BusInv /\ ReceiveAlone => BusInv'
<1> SUFFICES ASSUME BusInv, ReceiveAlone PROVE BusInv'
    OBVIOUS
<1>1. QNext /\ UNCHANGED <<nvars, tvars, clockVars, part>> /\ part = "receive" /\ air = <<>>
    BY DEF ReceiveAlone, BusInv
<1>2. QInv'
    BY <1>1, QInvNext DEF BusInv
<1>3. NInv' /\ TInv'
    BY <1>1, NInvNext, TInvNext DEF BusInv
<1>4. now' = now \/ now' = now + 1
    <2>1. CASE Receive \/ CountReceived
        BY <2>1, Zenon DEF Receive, CountReceived
    <2>2. CASE Inject
        BY <2>2, Zenon DEF Inject, Build, Send, LoadInjected, CountInjected
    <2>3. CASE Worker
        BY <2>3, Zenon DEF Worker, TakeFrame, HandleFrame
    <2>4. CASE Tick
        BY <2>4 DEF Tick, TimePasses
    <2> QED
        BY <1>1, <2>1, <2>2, <2>3, <2>4 DEF QNext
<1>5. now \in Nat /\ now' \in Time
    BY <1>2, ClockNumbers DEF BusInv, QInv, QTypeOK, Time
<1>6. AirIs' /\ ReadingIs' /\ since' <= now'
    <2>1. now <= now'
        BY <1>4, <1>5
    <2> QED
        BY <1>1, <1>5, <2>1, ClockRests DEF BusInv, clockVars
<1>7. KInv'
    BY <1>1, <1>5, <1>6 DEF BusInv, KInv, KTyped, clockVars
<1> QED
    BY <1>1, <1>2, <1>3, <1>7 DEF BusInv, clockVars

\* To the receive path, a step of the CAN clock is a tick or nothing.
LEMMA ClockAloneStep == BusInv /\ ClockAlone => BusInv'
<1> SUFFICES ASSUME BusInv, ClockAlone PROVE BusInv'
    OBVIOUS
<1>1. KNext /\ UNCHANGED <<receiveVars, nvars, tvars, part>> /\ part = "clock"
    BY DEF ClockAlone
<1>2. KInv' /\ NInv' /\ TInv'
    BY <1>1, KInvNext, NInvNext, TInvNext DEF BusInv
<1>3. TimePasses \/ UNCHANGED now
    BY <1>1
    DEF KNext, Broadcast, ReadFrame, NewClock, Unconfigure, Configure, Status, AskReading, AskTod,
        AskOffset, Answered, Sntp, KTick
<1>4. Tick \/ UNCHANGED qvars
    BY <1>1, <1>3 DEF Tick, receiveVars, qvars
<1>5. QInv'
    BY <1>4, QInvNext DEF BusInv, QNext
<1> QED
    BY <1>1, <1>2, <1>5 DEF BusInv

LEMMA OtherAloneStep ==
    ASSUME BusInv, RetuneAlone \/ TransmitAlone \/ UNCHANGED bvars
    PROVE  BusInv'
<1>1. UNCHANGED <<now, receiveVars, clockVars, part>>
    BY DEF RetuneAlone, TransmitAlone, bvars
<1>2. QInv'
    BY <1>1, QInvNext DEF BusInv, qvars, receiveVars
<1>3. KInv'
    BY <1>1, KInvNext DEF BusInv, kvars, clockVars
<1>4. NInv' /\ TInv'
    BY NInvNext, TInvNext DEF BusInv, RetuneAlone, TransmitAlone, bvars
<1> QED
    BY <1>1, <1>2, <1>3, <1>4 DEF BusInv, clockVars

\* The types of all four, that nothing is lost on the way to the handler, and that the CAN clock
\* counts no more updates than there were seconds, in the specification of the run.
THEOREM BusIsSound == BSpec => []BusSound
<1>1. BInit => BusInv
    BY QInvStarts, NInvStarts, TInvStarts, KInvStarts DEF BInit, BusInv, KInit
<1>2. BusInv /\ [ReceiveAlone \/ RetuneAlone \/ TransmitAlone \/ ClockAlone]_bvars => BusInv'
    BY ReceiveAloneStep, ClockAloneStep, OtherAloneStep
<1>3. BusInv => BusSound
    BY KInvIsTyped, UpdatesAreSeconds DEF BusInv, QInv, NInv, TInv, BusSound
<1> QED
    BY <1>1, <1>2, <1>3, PTL DEF BSpec
===============================================================================
