--------------------------- MODULE GestureReference ---------------------------
(***************************************************************************)
(* GestureEngine next to the history of the pulses of each gesture's       *)
(* signal, from which the documented meaning of a click is read off.       *)
(***************************************************************************)
EXTENDS GestureEngine, Sequences, Integers

CONSTANT
    MaxPulses  \* bound on the pulses of one burst

VARIABLE
    story      \* history, by gesture: the latest text, when the control went
               \* down, and the completed pulses of the burst in progress

hvars == <<gvars, story>>

Pulse == [down : Time, up : Time]

NoStory == [last |-> Unknown, down |-> 0, pulses |-> <<>>]

-------------------------------------------------------------------------------
(* Reference definition *)

\* The pulses after the latest one that was held too long.
SinceHold(conf, ps) ==
    { i \in DOMAIN ps :
        \A j \in i .. Len(ps) : ps[j].up - ps[j].down <= conf.maxHold }

\* A set of pulses counts when it leaves out exactly those that come less than
\* minGap after a pulse of the set.
IsCount(conf, ps, C) ==
    \A i \in SinceHold(conf, ps) :
        i \in C <=> \A j \in C : j < i => ps[i].up - ps[j].up >= conf.minGap

ClicksOf(conf, ps) ==
    Cardinality(CHOOSE C \in SUBSET SinceHold(conf, ps) : IsCount(conf, ps, C))

-------------------------------------------------------------------------------
(* History *)

\* The story of one gesture after a report of its signal.
Told(conf, st, text) ==
    CASE text = st.last -> st
      [] text # st.last /\ text = conf.trigger ->
            [st EXCEPT !.last = text, !.down = now]
      [] text # st.last /\ text # conf.trigger ->
            [st EXCEPT !.last = text,
                       !.pulses = IF st.last = conf.trigger
                                  THEN Append(@, [down |-> st.down, up |-> now])
                                  ELSE @]

HReport ==
    \E s \in Signals, t \in Texts :
        /\ \A g \in DOMAIN gcfg : Len(story[g].pulses) < MaxPulses
        /\ EngineOnSignal(s, t, now)
        /\ story' = [g \in Gestures |->
                        IF g \in DOMAIN gcfg /\ gcfg[g].signal = s
                        THEN Told(gcfg[g], story[g], t)
                        ELSE story[g]]

\* A burst that was resolved, or whose release dipped the lights, is over.
HTick ==
    \E lit \in SUBSET Outputs :
        /\ EngineTick(now, lit)
        /\ story' = [g \in Gestures |->
                        IF Armed(g, lit) \/ Resolves(g, lit, now)
                        THEN [story[g] EXCEPT !.pulses = <<>>]
                        ELSE story[g]]

HLoad ==
    \E sect \in GestureSections, names \in SUBSET Outputs :
        /\ EngineLoadJson(sect, names)
        /\ story' = IF GesturesAccepted(sect, names) THEN [g \in Gestures |-> NoStory]
                    ELSE story

HInit == GInit /\ story = [g \in Gestures |-> NoStory]

HNext ==
    \/ HReport /\ UNCHANGED now
    \/ HTick /\ UNCHANGED now
    \/ HLoad /\ UNCHANGED now
    \/ TimePasses /\ UNCHANGED <<engineVars, story>>

HSpec == HInit /\ [][HNext]_hvars

\* actionsTask ticks every 25ms.
HFairSpec == HSpec /\ WF_hvars(HTick /\ UNCHANGED now)

-------------------------------------------------------------------------------
(* Properties *)

\* "A click is a complete short pulse": the count of a burst is the number of its
\* pulses that were not too long, not followed by one that was, and not bounces,
\* whatever reports, repeats, ticks and reloads came in between.
ClicksMatchPulses ==
    \A g \in DOMAIN gcfg : rt[g].clicks = ClicksOf(gcfg[g], story[g].pulses)

\* A full count does not wait for the window: it resolves unless the control is
\* pressed again.
FullCountResolves ==
    \A g \in Gestures : rt[g].fireNow ~> ~rt[g].fireNow \/ rt[g].pressed

\* A burst that stays quiet for the window resolves.
QuietFor(g) ==
    /\ g \in DOMAIN gcfg
    /\ rt[g].clicks # 0
    /\ ~rt[g].pressed
    /\ now - rt[g].lastReleaseUs >= gcfg[g].window

QuietBurstResolves == \A g \in Gestures : QuietFor(g) ~> rt[g].clicks = 0 \/ rt[g].pressed

\* Every burst comes to its end, at once when its count is full and after the window
\* when it is not: tick() leaves none behind, whatever it decided in between.
BurstsResolve == FullCountResolves /\ QuietBurstResolves
===============================================================================
