------------------------------ MODULE MCActions ------------------------------
(***************************************************************************)
(* OutputBank and GestureEngine, each under callers that may do anything.  *)
(* They share the clock, which neither holds back, and no other variable,  *)
(* and no property speaks of both; so it is enough to let one of them run  *)
(* in a behaviour: part says which.  DrivingLights runs them together.     *)
(***************************************************************************)
EXTENDS OutputBank, GestureReference, TLC

CONSTANTS lampA, lampB, control, lit, dark, p4, p5, p15, driving

VARIABLE part

avars == <<now, bankVars, engineVars, story, part>>

-------------------------------------------------------------------------------
(* Two lamps that share a slave, one of them also on a local active-low pin.  *)

MCPins == {p4, p5, p15}

Entry(gpios, coils, low, auto, when) ==
    [gpios |-> gpios, coils |-> coils, activeLow |-> low, autoOff |-> auto, offWhen |-> when]

Shipped ==
    (lampA :> Entry({p4}, {<<1, 0>>}, TRUE, 0, {<<control, dark>>}))
    @@ (lampB :> Entry({}, {<<1, 2>>}, FALSE, 2, {<<control, dark>>}))

OneLamp == lampA :> Entry({p5}, {<<1, 1>>}, FALSE, 1, {})

\* Refused: both claim p4.
Clash ==
    (lampA :> Entry({p4}, {}, FALSE, 0, {})) @@ (lampB :> Entry({p4}, {}, TRUE, 0, {}))

\* Refused: p15 belongs to the CAN transceiver.
OnTheBus == lampA :> Entry({p15}, {}, FALSE, 0, {})

MCSections == {Shipped, OneLamp, Clash, OnTheBus, <<>>}

-------------------------------------------------------------------------------
(* One control, one gesture, in a table with and one without off_on_release.  *)

Tap(out, level) == [outputs |-> {out}, level |-> level]

\* Two clicks switch the lamp on, any release dips it.
Dipping ==
    driving :> [signal |-> control, trigger |-> lit, window |-> 2, maxHold |-> 1, minGap |-> 1,
                actions |-> 2 :> Tap(lampA, "on"),
                releaseOff |-> {lampA}, require |-> <<control, dark>>]

\* One click off, three on; nothing on release.
Counting ==
    driving :> [signal |-> control, trigger |-> lit, window |-> 3, maxHold |-> 1, minGap |-> 2,
                actions |-> (1 :> Tap(lampA, "off")) @@ (3 :> Tap(lampA, "toggle")),
                releaseOff |-> {}, require |-> NoRequire]

MCGestureSections == {Dipping, Counting, <<>>}

-------------------------------------------------------------------------------
(* One part at a time *)

\* The bank needs less time than a burst.
BankTime == 3

BankAlone == part = "bank" /\ Next /\ now' <= BankTime /\ UNCHANGED <<engineVars, story, part>>

EngineAlone == part = "engine" /\ HNext /\ UNCHANGED <<bankVars, part>>

\* The part that does not run has one initial state.
MCInit ==
    /\ Init /\ HInit
    /\ \/ part = "bank" /\ gcfg = <<>>
       \/ part = "engine" /\ cfg = <<>> /\ ~enabled

MCNext == BankAlone \/ EngineAlone

\* The fairness of FairSpec for the bank, and of HFairSpec for the engine.
MCSpec ==
    /\ MCInit /\ [][MCNext]_avars
    /\ \A c \in Callers : WF_avars(part = "bank" /\ AnnounceAny(c) /\ UNCHANGED <<now, engineVars, story, part>>)
    /\ SF_avars(part = "bank" /\ Tick(Ticker, now) /\ UNCHANGED <<now, engineVars, story, part>>)
    /\ WF_avars(part = "engine" /\ HTick /\ UNCHANGED <<now, bankVars, part>>)
==============================================================================
