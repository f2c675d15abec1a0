------------------------------ MODULE CanTransmit ------------------------------
(***************************************************************************)
(* CanBus::transmit() (main/CanBus.cpp) and its one caller, the bench's    *)
(* selfTestTask (main/main.cpp), on the TWAI driver.                       *)
(*                                                                         *)
(* The driver copies nothing: it queues pointers to txFrame_ and txBuf_,   *)
(* which are the same for every transfer, and reads them when it starts to *)
(* send.  It is external; a transfer may take for ever, on a bus that is   *)
(* off or at the wrong bit rate.                                           *)
(*                                                                         *)
(* A frame's identifier and payload are told apart by the number of the    *)
(* request they belong to.                                                 *)
(***************************************************************************)
EXTENDS Naturals, Sequences, SequencesExt

CONSTANTS
    TxDepth,      \* tx_queue_depth, 4 in self-test
    MaxRequests   \* bound on the frames asked for

ASSUME TransmitAssumption == TxDepth \in Nat \ {0} /\ MaxRequests \in Nat

VARIABLES
    caller,      \* selfTestTask: where it is in transmit(), with which request
    header,      \* txFrame_: the request its identifier and length are of
    payload,     \* txBuf_: the request its bytes are of
    waiting,     \* driver: the transfers that wait for the wire, as they were asked for
    wire,        \* driver: the transfer on the wire: none or one
    sent,        \* history: the transfers that were sent
    confirmed,   \* history: the requests for which transmit() returned ESP_OK
    late         \* history: the requests that were given up while they were waiting

tvars == <<caller, header, payload, waiting, wire, sent, confirmed, late>>

Requests == 1 .. MaxRequests

\* A transfer: what was asked for, and what of it the hardware read.
Transfer == [asked : Requests, header : Requests, payload : Requests]

\* The hardware reads the one frame there is.
Load(request) == [asked |-> request, header |-> header, payload |-> payload]

-------------------------------------------------------------------------------
(* transmit() *)

\* The lock is taken and the bytes are copied.
StagePayload ==
    /\ caller.pc = "out"
    /\ caller.request < MaxRequests
    /\ caller' = [pc |-> "header", request |-> caller.request + 1]
    /\ payload' = caller.request + 1
    /\ UNCHANGED <<header, waiting, wire, sent, confirmed, late>>

StageHeader ==
    /\ caller.pc = "header"
    /\ header' = caller.request
    /\ caller' = [caller EXCEPT !.pc = "submit"]
    /\ UNCHANGED <<payload, waiting, wire, sent, confirmed, late>>

\* Seeded fault: transmit() returns as soon as the driver has the frame.
AfterSubmitReturning == "out"

\* The driver has the frame: transmit() goes on to wait.
AfterSubmit == "wait"

\* The queue that createNode() asks for has room.
TxRoom == Len(waiting) < TxDepth

\* twai_node_transmit(): an idle controller starts at once, a busy one queues.
Submit ==
    /\ caller.pc = "submit"
    /\ IF wire = <<>>
       THEN wire' = <<Load(caller.request)>> /\ UNCHANGED waiting
       ELSE /\ TxRoom
            /\ waiting' = Append(waiting, caller.request) /\ UNCHANGED wire
    /\ caller' = [caller EXCEPT !.pc = AfterSubmit]
    /\ UNCHANGED <<header, payload, sent, confirmed, late>>

\* It finds no room for 100 ms, or the node is stopped.
SubmitFails ==
    /\ caller.pc = "submit"
    /\ caller' = [caller EXCEPT !.pc = "out"]
    /\ UNCHANGED <<header, payload, waiting, wire, sent, confirmed, late>>

\* ESP_ERR_TIMEOUT is returned.
ConfirmedAfterTimeout(request) == confirmed

\* twai_node_transmit_wait_all_done() within 100 ms.
WaitEnds ==
    /\ caller.pc = "wait"
    /\ wire = <<>> /\ waiting = <<>>
    /\ caller' = [caller EXCEPT !.pc = "out"]
    /\ confirmed' = confirmed \cup {caller.request}
    /\ UNCHANGED <<header, payload, waiting, wire, sent, late>>

\* The lock is given back although the driver holds the pointers.
WaitTimesOut ==
    /\ caller.pc = "wait"
    /\ wire # <<>>
    /\ caller' = [caller EXCEPT !.pc = "out"]
    /\ confirmed' = ConfirmedAfterTimeout(caller.request)
    /\ late' = late \cup (ToSet(waiting) \cap {caller.request})
    /\ UNCHANGED <<header, payload, waiting, wire, sent>>

-------------------------------------------------------------------------------
(* The driver *)

\* A transfer is over, and the interrupt starts the next.
TransferEnds ==
    /\ wire # <<>>
    /\ sent' = sent \o wire
    /\ IF waiting = <<>> THEN wire' = <<>> /\ UNCHANGED waiting
                         ELSE wire' = <<Load(Head(waiting))>> /\ waiting' = Tail(waiting)
    /\ UNCHANGED <<caller, header, payload, confirmed, late>>

-------------------------------------------------------------------------------
(* Specification *)

TInit ==
    /\ caller = [pc |-> "out", request |-> 0]
    /\ header = 0 /\ payload = 0
    /\ waiting = <<>> /\ wire = <<>>
    /\ sent = <<>> /\ confirmed = {} /\ late = {}

Transmit == StagePayload \/ StageHeader \/ Submit \/ SubmitFails \/ WaitEnds \/ WaitTimesOut

TNext == Transmit \/ TransferEnds

TSpec == TInit /\ [][TNext]_tvars

-------------------------------------------------------------------------------
(* Properties *)

\* Every variable has its type.
TTypeOK ==
    /\ caller \in [pc : {"out", "header", "submit", "wait"}, request : 0 .. MaxRequests]
    /\ header \in 0 .. MaxRequests /\ payload \in 0 .. MaxRequests
    /\ waiting \in Seq(Requests) /\ Len(waiting) <= TxDepth
    /\ wire \in Seq(Transfer) /\ Len(wire) <= 1
    /\ sent \in Seq(Transfer)
    /\ confirmed \subseteq Requests /\ late \subseteq Requests

AsAsked(t) == t.header = t.asked /\ t.payload = t.asked

\* A request for which transmit() returns ESP_OK has been on the bus.
ConfirmedMeansSent == \A r \in confirmed : \E i \in DOMAIN sent : sent[i].asked = r

\* "wait for done before returning": every transfer goes out as it was asked for, but one
\* that was still waiting when its caller gave up - and what is confirmed went out.
SentAsAsked ==
    /\ \A i \in DOMAIN sent : AsAsked(sent[i]) \/ sent[i].asked \in late
    /\ ConfirmedMeansSent

\* "Both must stay alive until the transfer actually completes": no exception is made.
BuffersStayAlive == \A i \in DOMAIN sent : AsAsked(sent[i])
===============================================================================
