------------------------------- MODULE CanQueue -------------------------------
(***************************************************************************)
(* The receive path of class CanBus (main/CanBus.h, main/CanBus.cpp): the  *)
(* receive interrupt and inject() stamp a frame, push it onto the queue    *)
(* and count it; the worker task takes frames off the queue and hands them *)
(* to the handler.                                                         *)
(*                                                                         *)
(* The interrupt and the HTTP task that injects may run on different       *)
(* cores, and the interrupt may stop the task between any two of its       *)
(* steps: stamping, queueing, and the load and the store of a counter.     *)
(*                                                                         *)
(* A frame stands for what tells it apart: a number given in the order the *)
(* frames are made, who made it, and its stamp.                            *)
(***************************************************************************)
EXTENDS Uptime, Sequences, FiniteSets

CONSTANTS
    Depth,      \* frames the queue holds, 256
    MaxFrames   \* bound on the frames of one boot

ASSUME QueueAssumption == Depth \in Nat \ {0} /\ MaxFrames \in Nat

VARIABLES
    queue,      \* queue_
    framesRx,   \* counters_.framesRx
    drops,      \* counters_.drops
    injected,   \* counters_.injected
    isr,        \* the interrupt: what it loaded, while it has still to store it
    inject,     \* the HTTP task in inject(): where it is, its frame, what it loaded
    hand,       \* the worker's frame, while its handler runs
    made,       \* history: frames made so far
    accepted,   \* history: the frames the queue took, in order
    handled,    \* history: the frames whose handler has run, in order
    overlap     \* history: two increments of one counter have overlapped

counterVars == <<framesRx, drops, injected>>
pastVars == <<made, accepted, handled, overlap>>
qvars == <<now, queue, counterVars, isr, inject, hand, pastVars>>

Frame == [n : 1 .. MaxFrames, by : {"bus", "http"}, recvUs : Time]

Outside == [pc |-> "out"]
Nothing == <<>>

Room(q) == Len(q) < Depth

HasRoom == Room(queue)

Counters == {"framesRx", "drops"}

ValueOf(c) == IF c = "framesRx" THEN framesRx ELSE drops

\* One of the two is between the load and the store of counter c.
InIncrement(p, c) == p.pc = "store" /\ p.counter = c

\* counters_.framesRx++ or counters_.drops++: the load, and the store.
LoadOf(c) == [pc |-> "store", counter |-> c, loaded |-> ValueOf(c)]

Store(p) ==
    IF p.counter = "framesRx" THEN framesRx' = p.loaded + 1 /\ UNCHANGED drops
                              ELSE drops' = p.loaded + 1 /\ UNCHANGED framesRx

\* Seeded fault: a frame the queue refused counts as received.
CountedAlwaysReceived(room) == "framesRx"

\* The counter a frame goes to.
Counted(room) == IF room THEN "framesRx" ELSE "drops"

-------------------------------------------------------------------------------
(* The receive interrupt, onRxDone() *)

\* xQueueSend() with no time to wait: a full queue refuses.
QueueAfter(q, f) == IF Room(q) THEN Append(q, f) ELSE q

\* A frame is given to the queue.
Offer(f) ==
    /\ queue' = QueueAfter(queue, f)
    /\ accepted' = IF HasRoom THEN Append(accepted, f) ELSE accepted

\* Up to the load of the counter.
Receive ==
    /\ isr = Outside
    /\ made < MaxFrames
    /\ Offer([n |-> made + 1, by |-> "bus", recvUs |-> now])
    /\ isr' = LoadOf(Counted(HasRoom))
    /\ made' = made + 1
    /\ overlap' = (overlap \/ InIncrement(inject, Counted(HasRoom)))
    /\ UNCHANGED <<now, counterVars, inject, hand, handled>>

CountReceived ==
    /\ isr # Outside
    /\ Store(isr)
    /\ isr' = Outside
    /\ UNCHANGED <<now, queue, injected, inject, hand, pastVars>>

-------------------------------------------------------------------------------
(* inject() on the HTTP task *)

\* The frame is built, with the time of this moment.
Build ==
    /\ inject = Outside
    /\ made < MaxFrames
    /\ inject' = [pc |-> "send", frame |-> [n |-> made + 1, by |-> "http", recvUs |-> now]]
    /\ made' = made + 1
    /\ UNCHANGED <<now, queue, counterVars, isr, hand, accepted, handled, overlap>>

\* xQueueSend() says which counter comes next.
Send ==
    /\ inject.pc = "send"
    /\ Offer(inject.frame)
    /\ inject' = [pc |-> "load", counter |-> Counted(HasRoom)]
    /\ UNCHANGED <<now, counterVars, isr, hand, made, handled, overlap>>

LoadInjected ==
    /\ inject.pc = "load"
    /\ inject' = LoadOf(inject.counter)
    /\ overlap' = (overlap \/ InIncrement(isr, inject.counter))
    /\ UNCHANGED <<now, queue, counterVars, isr, hand, made, accepted, handled>>

\* counters_.injected++ is written by this task only, so it is part of this step.
CountInjected ==
    /\ inject.pc = "store"
    /\ Store(inject)
    /\ injected' = IF inject.counter = "framesRx" THEN injected + 1 ELSE injected
    /\ inject' = Outside
    /\ UNCHANGED <<now, queue, isr, hand, pastVars>>

-------------------------------------------------------------------------------
(* workerTask() *)

\* Seeded fault: the newest frame is taken first.
TakenNewest(q) == q[Len(q)]

\* The frame xQueueReceive() returns.
Taken(q) == q[1]

\* Seeded fault: the last frame of the queue is left there.
WaitingForTwo(q) == Len(q) > 1

\* xQueueReceive() has something to return.
Waiting(q) == q # <<>>

TakeFrame ==
    /\ hand = Nothing
    /\ Waiting(queue)
    /\ hand' = <<Taken(queue)>>
    /\ queue' = Tail(queue)
    /\ UNCHANGED <<now, counterVars, isr, inject, pastVars>>

HandleFrame ==
    /\ hand # Nothing
    /\ handled' = handled \o hand
    /\ hand' = Nothing
    /\ UNCHANGED <<now, queue, counterVars, isr, inject, made, accepted, overlap>>

Tick ==
    /\ TimePasses
    /\ UNCHANGED <<queue, counterVars, isr, inject, hand, pastVars>>

-------------------------------------------------------------------------------
(* Specification *)

QInit ==
    /\ now = 0
    /\ queue = <<>>
    /\ framesRx = 0 /\ drops = 0 /\ injected = 0
    /\ isr = Outside /\ inject = Outside
    /\ hand = Nothing
    /\ made = 0 /\ accepted = <<>> /\ handled = <<>> /\ overlap = FALSE

Inject == Build \/ Send \/ LoadInjected \/ CountInjected

Worker == TakeFrame \/ HandleFrame

QNext == Receive \/ CountReceived \/ Inject \/ Worker \/ Tick

\* The worker outranks every other task of the firmware, and an interrupt ends.
QSpec == QInit /\ [][QNext]_qvars /\ WF_qvars(Worker) /\ WF_qvars(CountReceived)

-------------------------------------------------------------------------------
(* Properties *)

InCounting == [pc : {"store"}, counter : Counters, loaded : Nat]

\* Every variable has its type, the queue stays within its depth, and no counter
\* runs ahead of the frames there were.
QTypeOK ==
    /\ now \in Time
    /\ queue \in Seq(Frame) /\ Len(queue) <= Depth
    /\ hand = Nothing \/ (hand \in Seq(Frame) /\ Len(hand) = 1)
    /\ framesRx \in 0 .. made /\ drops \in 0 .. made /\ injected \in 0 .. made
    /\ made \in 0 .. MaxFrames
    /\ accepted \in Seq(Frame) /\ handled \in Seq(Frame) /\ overlap \in BOOLEAN
    /\ isr \in {Outside} \cup InCounting
    /\ inject \in {Outside} \cup [pc : {"send"}, frame : Frame]
                  \cup [pc : {"load"}, counter : Counters] \cup InCounting

\* Every frame the queue took is where it belongs: handled, in the worker's hand, or
\* waiting, in the order the queue took them.
NothingLostOnTheWay == accepted = handled \o hand \o queue

\* "frames handed to the worker task", "frames lost because the queue was full": when
\* nobody is counting, the counters add up - unless an injection and the interrupt
\* have ever counted at the same time.
CountersAddUp ==
    (isr = Outside /\ inject = Outside /\ ~overlap) =>
        /\ framesRx = Len(accepted)
        /\ drops = made - Len(accepted)

\* The receive path is a channel that may refuse a frame, but delivers every frame it
\* took, once and in order, and does so in the end.
Channel == INSTANCE LossyChannel WITH Items <- Frame, sent <- accepted, got <- handled

IsChannel == Channel!ChannelSpec

\* "Counters that only the ISR writes": "they're monotonic".
CountersAreMonotonic == [][framesRx' >= framesRx /\ drops' >= drops]_qvars
===============================================================================
