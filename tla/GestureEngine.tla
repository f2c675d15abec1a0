---------------------------- MODULE GestureEngine ----------------------------
(***************************************************************************)
(* class GestureEngine (main/Actions.h, main/Actions.cpp): counts short    *)
(* pulses of a decoded signal and turns a finished burst into an action.   *)
(*                                                                         *)
(* onSignal() runs on the CAN worker and only records; tick() runs on      *)
(* actionsTask, decides under the lock, and leaves the list fired of what  *)
(* it decided, to be carried out and reported once the lock is released.   *)
(* The module is about the engine alone: what tick() reads from OutputBank *)
(* (the names of the outputs that are on) is a parameter.                  *)
(***************************************************************************)
EXTENDS Board, FiniteSets, FiniteSetsExt

CONSTANTS
    Gestures,         \* names a gesture may have
    Unknown,          \* no text: a signal that was never seen
    GestureSections   \* the "gestures" sections that are uploaded

GestureLevels == {"on", "off", "toggle"}

\* No "require" clause.
NoRequire == <<>>

Action == [outputs : SUBSET Outputs \ {{}}, level : GestureLevels]

\* One entry of the "gestures" section, as struct Gesture keeps it.
IsGestureConfig(conf) ==
    /\ conf.signal \in Signals /\ conf.trigger \in Texts
    /\ conf.window \in Nat /\ conf.maxHold \in Nat /\ conf.minGap \in Nat
    /\ conf.window < Wrap
    /\ DOMAIN conf.actions \subseteq 1 .. 10
    /\ conf.actions \in [DOMAIN conf.actions -> Action]
    /\ conf.releaseOff \subseteq Outputs
    /\ conf.require \in (Signals \X Texts) \cup {NoRequire}

ASSUME EngineAssumption ==
    /\ Unknown \notin Texts
    /\ \A sect \in GestureSections :
          /\ DOMAIN sect \subseteq Gestures
          /\ \A g \in DOMAIN sect : IsGestureConfig(sect[g])

VARIABLES
    gcfg,        \* gestures_: the configuration in force, by name
    rt,          \* the runtime half of struct Gesture, by name
    lastSignal,  \* lastSignal_
    fired        \* what the latest tick() decided and has not carried out

engineVars == <<gcfg, rt, lastSignal, fired>>

Runtime ==
    [haveLast : BOOLEAN, lastText : Texts \cup {Unknown},
     pressed : BOOLEAN, pressedUs : Time,
     clicks : Nat, lastReleaseUs : Time,
     fireNow : BOOLEAN, releasePending : BOOLEAN]

Fresh ==
    [haveLast |-> FALSE, lastText |-> Unknown, pressed |-> FALSE, pressedUs |-> 0,
     clicks |-> 0, lastReleaseUs |-> 0, fireNow |-> FALSE, releasePending |-> FALSE]

Fired == [gesture : Gestures, clicks : Nat, outputs : SUBSET Outputs, level : GestureLevels]

\* maxClicks: the highest count the table maps, 0 for an empty "actions".
MaxClicks(conf) == IF DOMAIN conf.actions = {} THEN 0 ELSE Max(DOMAIN conf.actions)

-------------------------------------------------------------------------------
(* onSignal() *)

\* The first sighting, or a text the engine did not just see.
IsEdge(r, text) == ~r.haveLast \/ text # r.lastText

\* Seeded fault: only a release that counts can dip the lights.
ReleasedDippingOnClicks(conf, r, recvUs) ==
    LET up == [r EXCEPT !.pressed = FALSE] IN
    IF Elapsed(recvUs, r.pressedUs) > conf.maxHold
    THEN [up EXCEPT !.clicks = 0, !.fireNow = FALSE]
    ELSE [up EXCEPT !.clicks = @ + 1,
                    !.releasePending = @ \/ conf.releaseOff # {},
                    !.lastReleaseUs = recvUs,
                    !.fireNow = @ \/ MaxClicks(conf) \in 1 .. r.clicks + 1]

\* The control left the trigger value: a long hold cancels the burst, a release
\* too soon after the last counted one is contact bounce, any other is a click.
Released(conf, r, recvUs) ==
    LET up     == [r EXCEPT !.pressed = FALSE,
                            !.releasePending = @ \/ conf.releaseOff # {}]
        long   == Elapsed(recvUs, r.pressedUs) > conf.maxHold
        bounce == r.clicks # 0 /\ Elapsed(recvUs, r.lastReleaseUs) < conf.minGap
    IN CASE long -> [up EXCEPT !.clicks = 0, !.fireNow = FALSE]
         [] ~long /\ bounce -> up
         [] ~long /\ ~bounce ->
              [up EXCEPT !.clicks = @ + 1,
                         !.lastReleaseUs = recvUs,
                         !.fireNow = @ \/ MaxClicks(conf) \in 1 .. r.clicks + 1]

\* What one gesture makes of a report of its signal.
AfterSignal(conf, r, text, recvUs) ==
    LET seen == [r EXCEPT !.haveLast = TRUE, !.lastText = text] IN
    CASE ~IsEdge(r, text) -> r
      [] IsEdge(r, text) /\ text = conf.trigger ->
            [seen EXCEPT !.pressed = TRUE, !.pressedUs = recvUs]
      [] IsEdge(r, text) /\ text # conf.trigger ->
            IF r.pressed THEN Released(conf, seen, recvUs) ELSE seen

EngineOnSignal(signal, text, recvUs) ==
    /\ lastSignal' = [lastSignal EXCEPT ![signal] = text]
    /\ rt' = [g \in Gestures |->
                 IF g \in DOMAIN gcfg /\ gcfg[g].signal = signal
                 THEN AfterSignal(gcfg[g], rt[g], text, recvUs)
                 ELSE rt[g]]
    /\ UNCHANGED <<gcfg, fired>>

-------------------------------------------------------------------------------
(* tick() *)

\* First loop: a release is waiting and one of the outputs it dips is on.
Armed(g, lit) ==
    /\ g \in DOMAIN gcfg
    /\ rt[g].releasePending
    /\ gcfg[g].releaseOff \cap lit # {}

\* Seeded fault: the release that dipped the lights still counts as a click.
AfterReleaseLoopCounting(g, lit) == [rt[g] EXCEPT !.releasePending = FALSE]

\* The runtime after the first loop: an armed release is consumed.
AfterReleaseLoop(g, lit) ==
    IF Armed(g, lit)
    THEN [rt[g] EXCEPT !.releasePending = FALSE, !.clicks = 0, !.fireNow = FALSE]
    ELSE [rt[g] EXCEPT !.releasePending = FALSE]

\* Seeded fault: only a full count resolves.
ResolvesByCount(g, lit, nowUs) ==
    LET r == AfterReleaseLoop(g, lit) IN
    g \in DOMAIN gcfg /\ r.clicks # 0 /\ ~r.pressed /\ r.fireNow

\* Second loop: the burst is over.
Resolves(g, lit, nowUs) ==
    LET r == AfterReleaseLoop(g, lit) IN
    /\ g \in DOMAIN gcfg
    /\ r.clicks # 0
    /\ ~r.pressed
    /\ r.fireNow \/ Elapsed(nowUs, r.lastReleaseUs) >= gcfg[g].window

\* The "require" clause refuses this action.
Blocked(conf, level) ==
    /\ level # "off"
    /\ conf.require # NoRequire
    /\ lastSignal[conf.require[1]] # conf.require[2]

\* What a resolved burst does; a count that is unmapped or refused does nothing.
BurstOf(g, n) ==
    LET conf   == gcfg[g]
        mapped == n \in DOMAIN conf.actions /\ ~Blocked(conf, conf.actions[n].level)
    IN [gesture |-> g, clicks |-> n,
        outputs |-> IF mapped THEN conf.actions[n].outputs ELSE {},
        level   |-> IF mapped THEN conf.actions[n].level ELSE "off"]

\* off_on_release, reported with a count of 0.
DipOf(g) == [gesture |-> g, clicks |-> 0, outputs |-> gcfg[g].releaseOff, level |-> "off"]

EngineTick(nowUs, lit) ==
    /\ fired' = { DipOf(g) : g \in { h \in Gestures : Armed(h, lit) } } \cup
                { BurstOf(g, rt[g].clicks) : g \in { h \in Gestures : Resolves(h, lit, nowUs) } }
    /\ rt' = [g \in Gestures |->
                 IF Resolves(g, lit, nowUs)
                 THEN [AfterReleaseLoop(g, lit) EXCEPT !.clicks = 0, !.fireNow = FALSE]
                 ELSE AfterReleaseLoop(g, lit)]
    /\ UNCHANGED <<gcfg, lastSignal>>

-------------------------------------------------------------------------------
(* loadJson() *)

\* Every output an entry names must be one the bank has.
GesturesAccepted(sect, names) ==
    \A g \in DOMAIN sect :
        /\ sect[g].releaseOff \subseteq names
        /\ \A n \in DOMAIN sect[g].actions : sect[g].actions[n].outputs \subseteq names

\* The freshly built gestures have no history.
RuntimeAfterLoad(g) == Fresh

\* An accepted section starts every gesture afresh but keeps lastSignal_.
EngineLoadJson(sect, names) ==
    /\ IF GesturesAccepted(sect, names)
       THEN gcfg' = sect /\ rt' = [g \in Gestures |-> RuntimeAfterLoad(g)]
       ELSE UNCHANGED <<gcfg, rt>>
    /\ UNCHANGED <<lastSignal, fired>>

-------------------------------------------------------------------------------
(* Specification *)

EngineInit ==
    /\ gcfg \in { sect \in GestureSections : GesturesAccepted(sect, Outputs) }
    /\ rt = [g \in Gestures |-> Fresh]
    /\ lastSignal = [s \in Signals |-> Unknown]
    /\ fired = {}

GInit == now = 0 /\ EngineInit

gvars == <<now, engineVars>>

\* The engine driven on time: tick() is given the current time, and a frame is
\* handled as it arrives.
Report == \E s \in Signals, t \in Texts : EngineOnSignal(s, t, now)
TickNow == \E lit \in SUBSET Outputs : EngineTick(now, lit)
LoadGestures ==
    \E sect \in GestureSections, names \in SUBSET Outputs : EngineLoadJson(sect, names)

GNext ==
    \/ (Report \/ TickNow \/ LoadGestures) /\ UNCHANGED now
    \/ TimePasses /\ UNCHANGED engineVars

GSpec == GInit /\ [][GNext]_gvars

-------------------------------------------------------------------------------
(* Properties *)

\* Every variable has its type; a name without an entry has no runtime either.
GTypeOK ==
    /\ now \in Time
    /\ gcfg \in GestureSections
    /\ rt \in [Gestures -> Runtime]
    /\ \A g \in Gestures \ DOMAIN gcfg : rt[g] = Fresh
    /\ lastSignal \in [Signals -> Texts \cup {Unknown}]
    /\ fired \in SUBSET Fired

\* A burst is marked for immediate resolution exactly while its count has reached
\* the highest mapped one: no path leaves the mark behind on a smaller count, and
\* none forgets it on a count that was overshot before tick() ran.
FireNowMeansFullCount ==
    \A g \in DOMAIN gcfg :
        rt[g].fireNow <=> MaxClicks(gcfg[g]) \in 1 .. rt[g].clicks

\* The engine's three views of a signal agree: a gesture that has seen its signal
\* holds the same text as lastSignal_, and believes the control pressed exactly
\* when that text is its trigger.
ViewsAgree ==
    \A g \in DOMAIN gcfg :
        /\ rt[g].haveLast => rt[g].lastText = lastSignal[gcfg[g].signal]
        /\ rt[g].pressed <=> rt[g].haveLast /\ rt[g].lastText = gcfg[g].trigger

\* What the engine keeps of each gesture between two calls hangs together.
EngineInv == GTypeOK /\ FireNowMeansFullCount /\ ViewsAgree
===============================================================================
