-------------------------------- MODULE MCCanBus --------------------------------
(***************************************************************************)
(* The three paths through CanBus - frames coming in (CanQueue), the bit   *)
(* rate (CanNode), frames going out (CanTransmit) - and the motorcycle's   *)
(* clock that is read from the bus (CanClock).  The models share no        *)
(* variable but the time, which only CanClock ever waits with, and no      *)
(* property speaks of two of them; so it is enough to let one of them run  *)
(* in a behaviour: part says which.                                        *)
(***************************************************************************)
EXTENDS CanQueue, CanNode, CanTransmit, CanClock

VARIABLE part

receiveVars == <<queue, counterVars, isr, inject, hand, pastVars>>
clockVars == <<start, period, local, configured, field, lastReading, air, status, uploads, since>>

bvars == <<now, receiveVars, nvars, tvars, clockVars, part>>

-------------------------------------------------------------------------------
(* The shipped rate, another one, one the driver cannot time, one out of range.   *)

MCRates == {500, 125, 999, 5}
MCAllowed == {500, 125, 999}
MCWorkable == {500, 125}

(* A day of six seconds, two ticks each; boot just before midnight or at noon.    *)

MCStarts == {2, 5}
MCLocals == {0, 2, 5}

-------------------------------------------------------------------------------
(* One part at a time *)

\* Stamps are only compared with each other on the way in: two of them are enough.
ReceiveTime == 1

\* A part that does not run has one initial state.
BInit ==
    /\ QInit /\ NInit /\ TInit /\ KInit
    /\ \/ part = "clock"
       \/ part \in {"receive", "retune", "transmit"} /\ start = 2 /\ period = Day

ReceiveAlone ==
    /\ part = "receive" /\ QNext /\ now' <= ReceiveTime
    /\ UNCHANGED <<nvars, tvars, clockVars, part>>

RetuneAlone == part = "retune" /\ NNext /\ UNCHANGED <<now, receiveVars, tvars, clockVars, part>>
TransmitAlone == part = "transmit" /\ TNext /\ UNCHANGED <<now, receiveVars, nvars, clockVars, part>>
ClockAlone == part = "clock" /\ KNext /\ UNCHANGED <<receiveVars, nvars, tvars, part>>

\* The fairness of QSpec, for the part it is about.
BSpec ==
    /\ BInit /\ [][ReceiveAlone \/ RetuneAlone \/ TransmitAlone \/ ClockAlone]_bvars
    /\ WF_bvars(part = "receive" /\ Worker /\ UNCHANGED <<nvars, tvars, clockVars, part>>)
    /\ WF_bvars(part = "receive" /\ CountReceived /\ UNCHANGED <<nvars, tvars, clockVars, part>>)

-------------------------------------------------------------------------------

\* The type invariant of each part; what the queue took is handled, in the worker's hand or
\* waiting; and the clock counts no more updates than there were seconds.
BusSound == QTypeOK /\ NothingLostOnTheWay /\ NTypeOK /\ TTypeOK /\ KTypeOK /\ UpdatesCountSeconds
===============================================================================
