---------------------------- MODULE LightsProofs ----------------------------
(***************************************************************************)
(* Proofs about the gesture engine, for every table and every sequence of  *)
(* calls; about the tasks of DrivingLights that drive it together with the *)
(* bank of outputs; and, against GestureReference, that the clicks the     *)
(* engine counts one event at a time are those of the pulses it was told.  *)
(***************************************************************************)
EXTENDS DrivingLights, OutputBankProofs, GestureReference, SequenceTheorems

-------------------------------------------------------------------------------
(* One gesture *)

\* What the properties of the engine say of one gesture with entry conf and
\* runtime r, when the latest text of its signal is text.
GestureInv(conf, r, text) ==
    /\ r \in Runtime
    /\ r.fireNow <=> MaxClicks(conf) \in 1 .. r.clicks
    /\ r.haveLast => r.lastText = text
    /\ r.pressed <=> r.haveLast /\ r.lastText = conf.trigger

\* EngineInv, gesture by gesture.
EngineFacts ==
    /\ now \in Time
    /\ gcfg \in GestureSections
    /\ rt \in [Gestures -> Runtime]
    /\ \A g \in Gestures \ DOMAIN gcfg : rt[g] = Fresh
    /\ lastSignal \in [Signals -> Texts \cup {Unknown}]
    /\ fired \in SUBSET Fired
    /\ \A g \in DOMAIN gcfg : GestureInv(gcfg[g], rt[g], lastSignal[gcfg[g].signal])

\* The two are the same
LEMMA EngineInvIs == EngineInv <=> EngineFacts
  <1>1. gcfg \in GestureSections => DOMAIN gcfg \subseteq Gestures
    BY EngineAssumption
  <1> QED
    BY <1>1, Zenon DEF EngineInv, EngineFacts, GTypeOK, FireNowMeansFullCount, ViewsAgree, GestureInv

\* ... and they are the same after a step.
LEMMA EngineInvIsNext == EngineInv' <=> EngineFacts'
  BY EngineInvIs, PTL

\* The entries of a section have the fields struct Gesture has.
LEMMA EntryType ==
    ASSUME NEW sect \in GestureSections, NEW g \in DOMAIN sect
    PROVE  g \in Gestures /\ IsGestureConfig(sect[g])
  BY EngineAssumption

\* A gesture without a history.
LEMMA FreshInv ==
    ASSUME NEW conf, NEW text
    PROVE  Fresh \in Runtime /\ (conf.trigger \in Texts => GestureInv(conf, Fresh, text))
  <1>1. Fresh \in Runtime
    BY UptimeAssumption DEF Fresh, Runtime, Time
  <1>2. MaxClicks(conf) \notin 1 .. 0
    OBVIOUS
  <1> QED
    BY <1>1, <1>2 DEF Fresh, GestureInv

\* A release: a long hold, a bounce, or a click.
LEMMA ReleasedInv ==
    ASSUME NEW conf, NEW r \in Runtime, NEW recvUs \in Time,
           r.fireNow <=> MaxClicks(conf) \in 1 .. r.clicks
    PROVE  LET q == Released(conf, r, recvUs) IN
           /\ q \in Runtime
           /\ q.fireNow <=> MaxClicks(conf) \in 1 .. q.clicks
           /\ ~q.pressed
           /\ q.haveLast = r.haveLast /\ q.lastText = r.lastText
  <1> DEFINE up == [r EXCEPT !.pressed = FALSE,
                             !.releasePending = @ \/ conf.releaseOff # {}]
             long == Elapsed(recvUs, r.pressedUs) > conf.maxHold
             bounce == r.clicks # 0 /\ Elapsed(recvUs, r.lastReleaseUs) < conf.minGap
             zero == [up EXCEPT !.clicks = 0, !.fireNow = FALSE]
             click == [up EXCEPT !.clicks = @ + 1, !.lastReleaseUs = recvUs,
                                 !.fireNow = @ \/ MaxClicks(conf) \in 1 .. r.clicks + 1]
  <1>1. /\ up \in Runtime /\ ~up.pressed
        /\ up.haveLast = r.haveLast /\ up.lastText = r.lastText
        /\ up.clicks = r.clicks /\ up.fireNow = r.fireNow
    BY DEF Runtime
  <1>2. /\ zero \in Runtime /\ ~zero.pressed
        /\ zero.haveLast = r.haveLast /\ zero.lastText = r.lastText
        /\ zero.clicks = 0 /\ zero.fireNow = FALSE
    BY <1>1 DEF Runtime
  <1>3. /\ click \in Runtime /\ ~click.pressed
        /\ click.haveLast = r.haveLast /\ click.lastText = r.lastText
        /\ click.clicks = r.clicks + 1
        /\ click.fireNow <=> r.fireNow \/ MaxClicks(conf) \in 1 .. r.clicks + 1
    <2> PICK full \in BOOLEAN : full <=> up.fireNow \/ MaxClicks(conf) \in 1 .. r.clicks + 1
      OBVIOUS
    <2>1. click = [up EXCEPT !.clicks = @ + 1, !.lastReleaseUs = recvUs, !.fireNow = full]
      BY Zenon
    <2> HIDE DEF up, click
    <2>2. /\ click \in Runtime /\ ~click.pressed
          /\ click.haveLast = r.haveLast /\ click.lastText = r.lastText
          /\ click.clicks = r.clicks + 1
          /\ click.fireNow = full
      <3>0. r.clicks + 1 \in Nat
        BY DEF Runtime
      <3>1. click \in Runtime
        BY <1>1, <2>1, <3>0 DEF Runtime
      <3> QED
        BY <1>1, <2>1, <3>1 DEF Runtime
    <2> QED
      BY <1>1, <2>2, Zenon
  <1>4. \/ Released(conf, r, recvUs) = zero
        \/ Released(conf, r, recvUs) = up
        \/ Released(conf, r, recvUs) = click
    <2>1. CASE long
      BY <2>1 DEF Released
    <2>2. CASE ~long /\ bounce
      BY <2>2 DEF Released
    <2>3. CASE ~long /\ ~bounce
      BY <2>3 DEF Released
    <2> QED
      BY <2>1, <2>2, <2>3
  <1>5. r.clicks \in Nat
    BY DEF Runtime
  <1>6. MaxClicks(conf) \notin 1 .. 0
    OBVIOUS
  <1> HIDE DEF up, zero, click
  <1> QED
    BY <1>1, <1>2, <1>3, <1>4, <1>5, <1>6

\* A report of the gesture's signal.
LEMMA AfterSignalInv ==
    ASSUME NEW conf, NEW r, NEW old, NEW text \in Texts, NEW recvUs \in Time,
           GestureInv(conf, r, old)
    PROVE  GestureInv(conf, AfterSignal(conf, r, text, recvUs), text)
  <1> DEFINE seen == [r EXCEPT !.haveLast = TRUE, !.lastText = text]
             down == [seen EXCEPT !.pressed = TRUE, !.pressedUs = recvUs]
  <1>0. r \in Runtime
    BY DEF GestureInv
  <1>1. /\ seen \in Runtime /\ seen.haveLast /\ seen.lastText = text
        /\ seen.fireNow = r.fireNow /\ seen.clicks = r.clicks /\ seen.pressed = r.pressed
    BY <1>0 DEF Runtime
  <1>2. /\ down \in Runtime /\ down.haveLast /\ down.lastText = text /\ down.pressed
        /\ down.fireNow = r.fireNow /\ down.clicks = r.clicks
    BY <1>0, <1>1 DEF Runtime
  <1>3. CASE ~IsEdge(r, text)
    BY <1>3 DEF AfterSignal, IsEdge, GestureInv
  <1>4. CASE IsEdge(r, text) /\ text = conf.trigger
    <2>1. AfterSignal(conf, r, text, recvUs) = down
      BY <1>4 DEF AfterSignal
    <2> QED
      BY <1>2, <1>4, <2>1 DEF GestureInv
  <1>5. CASE IsEdge(r, text) /\ text # conf.trigger /\ r.pressed
    <2>1. AfterSignal(conf, r, text, recvUs) = Released(conf, seen, recvUs)
      BY <1>5 DEF AfterSignal
    <2>2. seen.fireNow <=> MaxClicks(conf) \in 1 .. seen.clicks
      BY <1>1 DEF GestureInv
    <2> HIDE DEF seen
    <2> QED
      BY <1>1, <1>5, <2>1, <2>2, ReleasedInv DEF GestureInv
  <1>6. CASE IsEdge(r, text) /\ text # conf.trigger /\ ~r.pressed
    <2>1. AfterSignal(conf, r, text, recvUs) = seen
      BY <1>6 DEF AfterSignal
    <2> QED
      BY <1>1, <1>6, <2>1 DEF GestureInv
  <1> QED
    BY <1>3, <1>4, <1>5, <1>6

-------------------------------------------------------------------------------
(* The engine *)

\* onSignal(): every gesture of that signal takes the text in, no other moves.
LEMMA EngineOnSignalPreserves ==
    ASSUME EngineInv, NEW s \in Signals, NEW t \in Texts, NEW recvUs \in Time,
           EngineOnSignal(s, t, recvUs), now' \in Time
    PROVE  EngineInv'
  <1>1. /\ gcfg \in GestureSections
        /\ rt \in [Gestures -> Runtime]
        /\ \A g \in Gestures \ DOMAIN gcfg : rt[g] = Fresh
        /\ lastSignal \in [Signals -> Texts \cup {Unknown}]
        /\ fired \in SUBSET Fired
        /\ \A g \in DOMAIN gcfg : GestureInv(gcfg[g], rt[g], lastSignal[gcfg[g].signal])
    BY EngineInvIs DEF EngineFacts
  <1>2. gcfg' = gcfg /\ fired' = fired
    BY DEF EngineOnSignal
  <1>3. lastSignal' = [lastSignal EXCEPT ![s] = t]
    BY DEF EngineOnSignal
  <1>4. ASSUME NEW g \in DOMAIN gcfg
        PROVE  GestureInv(gcfg[g], rt'[g], lastSignal'[gcfg[g].signal])
    <2>1. g \in Gestures /\ gcfg[g].signal \in Signals
      BY <1>1, EntryType DEF IsGestureConfig
    <2>2. CASE gcfg[g].signal = s
      <3>1. rt'[g] = AfterSignal(gcfg[g], rt[g], t, recvUs)
        BY <2>1, <2>2, Zenon DEF EngineOnSignal
      <3>2. lastSignal'[gcfg[g].signal] = t
        BY <1>1, <1>3, <2>1, <2>2
      <3> QED
        BY <1>1, <3>1, <3>2, AfterSignalInv
    <2>3. CASE gcfg[g].signal # s
      <3>1. rt'[g] = rt[g]
        BY <2>1, <2>3, Zenon DEF EngineOnSignal
      <3>2. lastSignal'[gcfg[g].signal] = lastSignal[gcfg[g].signal]
        BY <1>1, <1>3, <2>1, <2>3
      <3> QED
        BY <1>1, <3>1, <3>2
    <2> QED
      BY <2>2, <2>3
  <1>5. \A g \in Gestures \ DOMAIN gcfg : rt'[g] = Fresh
    BY <1>1, Zenon DEF EngineOnSignal
  <1>6. rt' \in [Gestures -> Runtime]
    <2>1. \A g \in Gestures : rt'[g] \in Runtime
      BY <1>4, <1>5, FreshInv DEF GestureInv
    <2>2. DOMAIN rt' = Gestures /\ rt' = [g \in Gestures |-> rt'[g]]
      BY DEF EngineOnSignal
    <2> QED
      BY <2>1, <2>2, Zenon
  <1>7. lastSignal' \in [Signals -> Texts \cup {Unknown}]
    BY <1>1, <1>3
  <1> QED
    BY <1>1, <1>2, <1>4, <1>5, <1>6, <1>7, EngineInvIsNext, Zenon DEF EngineFacts

\* The two loops of tick(), for one gesture.
LEMMA TickInv ==
    ASSUME NEW conf, NEW r, NEW text, GestureInv(conf, r, text)
    PROVE  /\ GestureInv(conf, [r EXCEPT !.releasePending = FALSE], text)
           /\ GestureInv(conf, [r EXCEPT !.releasePending = FALSE, !.clicks = 0, !.fireNow = FALSE], text)
           /\ GestureInv(conf, [r EXCEPT !.clicks = 0, !.fireNow = FALSE], text)
  <1>1. r \in Runtime
    BY DEF GestureInv
  <1>2. MaxClicks(conf) \notin 1 .. 0
    OBVIOUS
  <1> QED
    BY <1>1, <1>2 DEF GestureInv, Runtime

\* What tick() decides has the form of an entry of fired.
LEMMA FiredType ==
    ASSUME EngineInv, NEW lit, NEW nowUs, NEW g \in Gestures
    PROVE  /\ Armed(g, lit) => DipOf(g) \in Fired
           /\ Resolves(g, lit, nowUs) => BurstOf(g, rt[g].clicks) \in Fired
  <1> SUFFICES ASSUME g \in DOMAIN gcfg
               PROVE  DipOf(g) \in Fired /\ BurstOf(g, rt[g].clicks) \in Fired
    BY DEF Armed, Resolves
  <1>1. gcfg \in GestureSections /\ rt[g].clicks \in Nat
    BY EngineInvIs DEF EngineFacts, Runtime
  <1>2. /\ gcfg[g].releaseOff \in SUBSET Outputs
        /\ gcfg[g].actions \in [DOMAIN gcfg[g].actions -> Action]
    BY <1>1, EntryType DEF IsGestureConfig
  <1>3. DipOf(g) \in Fired
    BY <1>2 DEF DipOf, Fired, GestureLevels
  <1>4. BurstOf(g, rt[g].clicks) \in Fired
    <2> DEFINE n == rt[g].clicks
               conf == gcfg[g]
               mapped == n \in DOMAIN conf.actions /\ ~Blocked(conf, conf.actions[n].level)
    <2>1. CASE mapped
      <3>1. conf.actions[n] \in Action
        BY <1>2, <2>1
      <3>2. BurstOf(g, n) = [gesture |-> g, clicks |-> n, outputs |-> conf.actions[n].outputs,
                             level |-> conf.actions[n].level]
        BY <2>1 DEF BurstOf
      <3> QED
        BY <1>1, <3>1, <3>2 DEF Action, Fired
    <2>2. CASE ~mapped
      <3>1. BurstOf(g, n) = [gesture |-> g, clicks |-> n, outputs |-> {}, level |-> "off"]
        BY <2>2 DEF BurstOf
      <3> QED
        BY <1>1, <3>1 DEF Fired, GestureLevels
    <2> QED
      BY <2>1, <2>2
  <1> QED
    BY <1>3, <1>4

\* tick(): a consumed release and a resolved burst start the count afresh.
LEMMA EngineTickPreserves ==
    ASSUME EngineInv, NEW nowUs, NEW lit, EngineTick(nowUs, lit), now' \in Time
    PROVE  EngineInv'
  <1>1. EngineFacts
    BY EngineInvIs
  <1>2. gcfg' = gcfg /\ lastSignal' = lastSignal
    BY DEF EngineTick
  <1>3. fired' \in SUBSET Fired
    BY FiredType DEF EngineTick
  <1>4. ASSUME NEW g \in Gestures
        PROVE  \/ rt'[g] = [rt[g] EXCEPT !.releasePending = FALSE]
               \/ /\ g \in DOMAIN gcfg
                  /\ rt'[g] = [rt[g] EXCEPT !.releasePending = FALSE, !.clicks = 0, !.fireNow = FALSE]
    <2> DEFINE waited == [rt[g] EXCEPT !.releasePending = FALSE]
               over == [rt[g] EXCEPT !.releasePending = FALSE, !.clicks = 0, !.fireNow = FALSE]
    <2>1. AfterReleaseLoop(g, lit) = IF Armed(g, lit) THEN over ELSE waited
      BY DEF AfterReleaseLoop
    <2>2. /\ [waited EXCEPT !.clicks = 0, !.fireNow = FALSE] = over
          /\ [over EXCEPT !.clicks = 0, !.fireNow = FALSE] = over
      BY <1>1 DEF EngineFacts, Runtime
    <2>3. /\ Resolves(g, lit, nowUs) => g \in DOMAIN gcfg
          /\ Armed(g, lit) => g \in DOMAIN gcfg
      BY DEF Resolves, Armed
    <2>4. rt'[g] = IF Resolves(g, lit, nowUs)
                   THEN [AfterReleaseLoop(g, lit) EXCEPT !.clicks = 0, !.fireNow = FALSE]
                   ELSE AfterReleaseLoop(g, lit)
      BY DEF EngineTick
    <2> HIDE DEF waited, over
    <2>5. rt'[g] = waited \/ (g \in DOMAIN gcfg /\ rt'[g] = over)
      BY <2>1, <2>2, <2>3, <2>4
    <2> QED
      BY <2>5 DEF waited, over
  <1>5. ASSUME NEW g \in DOMAIN gcfg
        PROVE  GestureInv(gcfg[g], rt'[g], lastSignal[gcfg[g].signal])
    <2>1. g \in Gestures
      BY <1>1, EntryType DEF EngineFacts
    <2>2. GestureInv(gcfg[g], rt[g], lastSignal[gcfg[g].signal])
      BY <1>1 DEF EngineFacts
    <2> DEFINE text == lastSignal[gcfg[g].signal]
    <2>3. /\ GestureInv(gcfg[g], [rt[g] EXCEPT !.releasePending = FALSE], text)
          /\ GestureInv(gcfg[g], [rt[g] EXCEPT !.releasePending = FALSE, !.clicks = 0,
                                               !.fireNow = FALSE], text)
      BY <2>2, TickInv
    <2> QED
      BY <1>4, <2>1, <2>3
  <1>6. \A g \in Gestures \ DOMAIN gcfg : rt'[g] = Fresh
    <2>1. [Fresh EXCEPT !.releasePending = FALSE] = Fresh
      <3>1. Fresh.releasePending = FALSE
        BY DEF Fresh
      <3> QED
        BY <3>1, FreshInv DEF Runtime
    <2> QED
      BY <1>1, <1>4, <2>1 DEF EngineFacts
  <1>7. rt' \in [Gestures -> Runtime]
    <2>1. \A g \in Gestures : rt'[g] \in Runtime
      BY <1>5, <1>6, FreshInv DEF GestureInv
    <2>2. rt' = [g \in Gestures |-> rt'[g]]
      BY DEF EngineTick
    <2> QED
      BY <2>1, <2>2, Zenon
  <1> QED
    BY <1>1, <1>2, <1>3, <1>5, <1>6, <1>7, EngineInvIsNext, Zenon DEF EngineFacts

\* loadJson(): a refused section changes nothing, an accepted one starts afresh.
LEMMA EngineLoadJsonPreserves ==
    ASSUME EngineInv, NEW sect \in GestureSections, NEW names, EngineLoadJson(sect, names),
           now' \in Time
    PROVE  EngineInv'
  <1>1. EngineFacts /\ lastSignal' = lastSignal /\ fired' = fired
    BY EngineInvIs DEF EngineLoadJson
  <1>2. CASE GesturesAccepted(sect, names)
    <2>1. gcfg' = sect /\ rt' = [g \in Gestures |-> Fresh]
      BY <1>2 DEF EngineLoadJson, RuntimeAfterLoad
    <2>2. rt' \in [Gestures -> Runtime] /\ \A g \in Gestures : rt'[g] = Fresh
      BY <2>1, FreshInv
    <2>3. \A g \in DOMAIN sect : GestureInv(sect[g], rt'[g], lastSignal[sect[g].signal])
      BY <2>2, EntryType, FreshInv DEF IsGestureConfig
    <2> QED
      BY <1>1, <2>1, <2>2, <2>3, EngineInvIsNext, Zenon DEF EngineFacts
  <1>3. CASE ~GesturesAccepted(sect, names)
    <2>1. UNCHANGED <<gcfg, rt, lastSignal, fired>>
      BY <1>3 DEF EngineLoadJson
    <2> QED
      BY <1>1, <2>1, EngineInvIsNext DEF EngineFacts
  <1> QED
    BY <1>2, <1>3

\* Nothing of the engine moved, except that some of fired may have been done.
LEMMA EngineStutterPreserves ==
    ASSUME EngineInv, UNCHANGED <<gcfg, rt, lastSignal>>, fired' \in SUBSET Fired, now' \in Time
    PROVE  EngineInv'
  BY EngineInvIs, EngineInvIsNext DEF EngineFacts

\* At boot.
LEMMA EngineInitially == EngineInit /\ now \in Time => EngineInv
  <1> SUFFICES ASSUME EngineInit, now \in Time
               PROVE  EngineFacts
    BY EngineInvIs
  <1>1. gcfg \in GestureSections
    BY DEF EngineInit
  <1>2. rt \in [Gestures -> Runtime] /\ \A g \in Gestures : rt[g] = Fresh
    BY FreshInv DEF EngineInit
  <1>3. \A g \in DOMAIN gcfg : GestureInv(gcfg[g], rt[g], lastSignal[gcfg[g].signal])
    BY <1>1, <1>2, EntryType, FreshInv DEF IsGestureConfig
  <1> QED
    BY <1>1, <1>2, <1>3 DEF EngineFacts, EngineInit

\* One step of the engine, whatever it is.
LEMMA EngineInvNext == EngineInv /\ [GNext]_gvars => EngineInv'
  <1> SUFFICES ASSUME EngineInv, [GNext]_gvars
               PROVE  EngineInv'
    OBVIOUS
  <1>0. now \in Time /\ fired \in SUBSET Fired
    BY DEF EngineInv, GTypeOK
  <1>1. CASE Report /\ UNCHANGED now
    BY <1>0, <1>1, EngineOnSignalPreserves DEF Report
  <1>2. CASE TickNow /\ UNCHANGED now
    BY <1>0, <1>2, EngineTickPreserves DEF TickNow
  <1>3. CASE LoadGestures /\ UNCHANGED now
    BY <1>0, <1>3, EngineLoadJsonPreserves DEF LoadGestures
  <1>4. CASE TimePasses /\ UNCHANGED engineVars
    <2>1. now' \in Time
      BY <1>0, <1>4, UptimeAssumption DEF TimePasses, Time
    <2> QED
      BY <1>0, <1>4, <2>1, EngineStutterPreserves DEF engineVars
  <1>5. CASE UNCHANGED gvars
    BY <1>0, <1>5, EngineStutterPreserves DEF gvars, engineVars
  <1> QED
    BY <1>1, <1>2, <1>3, <1>4, <1>5 DEF GNext

\* Whatever reports, ticks and uploads the engine is given, its three views of a
\* signal agree and a burst is marked for resolution exactly at its full count.
THEOREM EngineInvariant == GSpec => []EngineInv
  <1>1. GInit => EngineInv
    BY EngineInitially, UptimeAssumption DEF GInit, Time
  <1>2. EngineInv /\ [GNext]_gvars => EngineInv'
    BY EngineInvNext
  <1> QED
    BY <1>1, <1>2, PTL DEF GSpec

-------------------------------------------------------------------------------
(* The tasks together *)

\* The bank's invariants, the engine's, and the tasks' own types; LTypeOK alone
\* says nothing of pins that two outputs would fight over.
LInv ==
    /\ LTypeOK
    /\ BankInv
    /\ EveryChangeMakesOneEvent

\* What the tasks keep of their own.
TaskTypes ==
    /\ reported \in [Signals -> Texts \cup {Unknown}]
    /\ worker \in {WorkerIdle} \cup
          [pc : {"bank", "engine"}, signal : Signals, text : Texts, recvUs : Time]
    /\ actions \in {Asleep} \cup [pc : {"gestures", "apply"}, nowUs : Time]
    /\ uploader \in {NoUpload} \cup [pc : {"outputs"}]
                     \cup [pc : {"gestures"}, section : GestureSections]

\* LInv, part by part.
LEMMA LInvIs ==
    LInv <=> /\ BankInv /\ EveryChangeMakesOneEvent
             /\ EngineInv
             /\ TaskTypes
             /\ fired # {} => actions.pc = "apply"
  BY Zenon DEF LInv, LTypeOK, BankInv, TaskTypes

\* A step leaves LInv standing when it does so part by part.
LEMMA LInvNext ==
    ASSUME BankInv', EveryChangeMakesOneEvent', EngineInv', TaskTypes',
           fired' # {} => actions'.pc = "apply"
    PROVE  LInv'
  BY Zenon DEF LInv, LTypeOK, BankInv, TaskTypes

\* A step of the engine's callers that leaves the bank and the clock alone.
LEMMA BankAtRest ==
    ASSUME BankInv, EveryChangeMakesOneEvent, UNCHANGED bankVars, now' \in Time
    PROVE  BankInv' /\ EveryChangeMakesOneEvent'
  <1>1. BankInv'
    BY StutterPreserves DEF bankVars, BankInv, TypeOK, PendingOffOnlyWhileOn
  <1> QED
    BY <1>1, CountsUnchanged DEF bankVars

\* A step of the bank's callers that leaves the engine and the clock alone.
LEMMA EngineAtRest ==
    ASSUME EngineInv, UNCHANGED <<now, engineVars>>
    PROVE  EngineInv' /\ fired' = fired
  BY EngineStutterPreserves DEF engineVars, EngineInv, GTypeOK

\* The clock and the CAN worker.
LEMMA WorkerStep ==
    ASSUME LInv, Clock \/ (\E s \in Signals, t \in Texts : Frame(s, t)) \/ Worker
    PROVE  LInv'
  <1>0. /\ BankInv /\ EveryChangeMakesOneEvent /\ EngineInv /\ TaskTypes
        /\ fired # {} => actions.pc = "apply"
        /\ now \in Time /\ fired \in SUBSET Fired
    BY LInvIs DEF EngineInv, GTypeOK
  <1>1. CASE Clock
    <2>1. now' \in Time
      BY <1>0, <1>1, UptimeAssumption DEF Clock, TimePasses, Time
    <2>2. EngineInv'
      BY <1>0, <1>1, <2>1, EngineStutterPreserves DEF Clock, engineVars
    <2> QED
      BY <1>0, <1>1, <2>1, <2>2, BankAtRest, LInvNext DEF Clock, engineVars, taskVars, TaskTypes
  <1>2. ASSUME NEW s \in Signals, NEW t \in Texts, Frame(s, t)
        PROVE  LInv'
    <2>1. TaskTypes'
      BY <1>0, <1>2 DEF Frame, TaskTypes
    <2> QED
      BY <1>0, <1>2, <2>1, BankAtRest, EngineAtRest, LInvNext DEF Frame
  <1>3. CASE TellBank
    <2>1. worker.signal \in Signals /\ worker.text \in Texts
      BY <1>0, <1>3 DEF TellBank, TaskTypes, WorkerIdle
    <2>2. BankInv' /\ EveryChangeMakesOneEvent'
      BY <1>0, <1>3, OnSignalPreserves, CountsUnchanged DEF TellBank, OnSignal
    <2>3. TaskTypes'
      BY <1>0, <1>3 DEF TellBank, TaskTypes, WorkerIdle
    <2> QED
      BY <1>0, <1>3, <2>2, <2>3, EngineAtRest, LInvNext DEF TellBank
  <1>4. CASE TellEngine
    <2>1. worker.signal \in Signals /\ worker.text \in Texts /\ worker.recvUs \in Time
      BY <1>0, <1>4 DEF TellEngine, TaskTypes, WorkerIdle
    <2>2. EngineInv' /\ fired' = fired
      BY <1>0, <1>4, <2>1, EngineOnSignalPreserves DEF TellEngine, EngineOnSignal
    <2>3. TaskTypes'
      BY <1>0, <1>4 DEF TellEngine, TaskTypes
    <2> QED
      BY <1>0, <1>4, <2>2, <2>3, BankAtRest, LInvNext DEF TellEngine
  <1> QED
    BY <1>1, <1>2, <1>3, <1>4 DEF Worker

\* actionsTask.
LEMMA ActionsStep ==
    ASSUME LInv, ActionsTask
    PROVE  LInv'
  <1>0. /\ BankInv /\ EveryChangeMakesOneEvent /\ EngineInv /\ TaskTypes
        /\ fired # {} => actions.pc = "apply"
        /\ now \in Time /\ fired \in SUBSET Fired /\ Ticker \in Callers
    BY LInvIs DEF EngineInv, GTypeOK, Callers
  <1>1. CASE Wake
    <2>1. fired = {}
      BY <1>0, <1>1 DEF Wake, Asleep
    <2>2. TaskTypes'
      BY <1>0, <1>1 DEF Wake, TaskTypes
    <2> QED
      BY <1>0, <1>1, <2>1, <2>2, BankAtRest, EngineAtRest, LInvNext DEF Wake
  <1>2. CASE TickGestures
    <2>1. EngineInv'
      BY <1>0, <1>2, EngineTickPreserves DEF TickGestures
    <2>2. TaskTypes' /\ actions'.pc = "apply"
      BY <1>0, <1>2 DEF TickGestures, TaskTypes, Asleep
    <2> QED
      BY <1>0, <1>2, <2>1, <2>2, BankAtRest, LInvNext DEF TickGestures
  <1>3. CASE CarryOut
    <2> PICK f \in fired :
            \/ \E o \in f.outputs :
                  /\ Set(Ticker, o, f.level)
                  /\ fired' = (fired \ {f}) \cup {[f EXCEPT !.outputs = @ \ {o}]}
            \/ /\ fired' = fired \ {f}
               /\ UNCHANGED bankVars
      BY <1>3 DEF CarryOut
    <2>1. actions.pc = "apply" /\ UNCHANGED <<now, gcfg, rt, lastSignal, taskVars>>
      BY <1>3 DEF CarryOut
    <2>2. f \in Fired
      BY <1>0
    <2>3. fired' \in SUBSET Fired
      <3>1. \A o : [f EXCEPT !.outputs = @ \ {o}] \in Fired
        BY <2>2 DEF Fired
      <3> QED
        BY <1>0, <3>1
    <2>4. BankInv' /\ EveryChangeMakesOneEvent'
      <3>1. ASSUME NEW o \in f.outputs, Set(Ticker, o, f.level)
            PROVE  BankInv' /\ EveryChangeMakesOneEvent'
        <4>1. o \in Outputs /\ f.level \in Levels
          BY <2>2 DEF Fired, GestureLevels, Levels
        <4> QED
          BY <1>0, <2>1, <3>1, <4>1, SetPreserves, SetCounts
      <3> QED
        BY <1>0, <2>1, <3>1, BankAtRest
    <2>5. EngineInv'
      BY <1>0, <2>1, <2>3, EngineStutterPreserves
    <2> QED
      BY <1>0, <2>1, <2>4, <2>5, LInvNext DEF taskVars, TaskTypes
  <1>4. CASE TickOutputs
    <2>1. BankInv' /\ EveryChangeMakesOneEvent'
      BY <1>0, <1>4, TickPreserves, TickCounts DEF TickOutputs
    <2>2. TaskTypes'
      BY <1>0, <1>4 DEF TickOutputs, TaskTypes
    <2> QED
      BY <1>0, <1>4, <2>1, <2>2, EngineAtRest, LInvNext DEF TickOutputs
  <1> QED
    BY <1>1, <1>2, <1>3, <1>4 DEF ActionsTask

\* Commands, the kill switch and canreset.
LEMMA UserStep ==
    ASSUME LInv, NEW u \in Users, Command(u) \/ KillSwitch(u) \/ ResetState(u)
    PROVE  LInv'
  <1>0. /\ BankInv /\ EveryChangeMakesOneEvent /\ EngineInv /\ TaskTypes
        /\ fired # {} => actions.pc = "apply"
        /\ now \in Time /\ u \in Callers
    BY LInvIs DEF EngineInv, GTypeOK, Callers
  <1>1. CASE Command(u)
    <2>1. BankInv' /\ EveryChangeMakesOneEvent'
      BY <1>0, <1>1, SetPreserves, SetCounts DEF Command
    <2> QED
      BY <1>0, <1>1, <2>1, EngineAtRest, LInvNext DEF Command, taskVars, TaskTypes
  <1>2. CASE KillSwitch(u)
    <2>1. BankInv' /\ EveryChangeMakesOneEvent'
      BY <1>0, <1>2, SetEnabledPreserves, SetEnabledCounts DEF KillSwitch
    <2> QED
      BY <1>0, <1>2, <2>1, EngineAtRest, LInvNext DEF KillSwitch, taskVars, TaskTypes
  <1>3. CASE ResetState(u)
    <2>1. TaskTypes'
      BY <1>0, <1>3 DEF ResetState, TaskTypes
    <2> QED
      BY <1>0, <1>3, <2>1, BankAtRest, EngineAtRest, LInvNext DEF ResetState
  <1> QED
    BY <1>1, <1>2, <1>3

\* POST /signals, between whose parts every other task may run.
LEMMA UploadStep ==
    ASSUME LInv, Upload
    PROVE  LInv'
  <1>0. /\ BankInv /\ EveryChangeMakesOneEvent /\ EngineInv /\ TaskTypes
        /\ fired # {} => actions.pc = "apply"
        /\ now \in Time
    BY LInvIs DEF EngineInv, GTypeOK
  <1>1. CASE UploadSignals
    <2>1. TaskTypes'
      BY <1>0, <1>1 DEF UploadSignals, TaskTypes
    <2> QED
      BY <1>0, <1>1, <2>1, BankAtRest, EngineAtRest, LInvNext DEF UploadSignals
  <1>2. CASE UploadOutputs
    <2> PICK d \in Documents :
            /\ LoadJson(Uploader, d.outputs)
            /\ uploader' = IF Accepted(d.outputs)
                           THEN [pc |-> "gestures", section |-> d.gestures]
                           ELSE NoUpload
      BY <1>2 DEF UploadOutputs
    <2>1. d.outputs \in Sections /\ d.gestures \in GestureSections /\ Uploader \in Callers
      BY LightsAssumption DEF Callers
    <2>2. BankInv' /\ EveryChangeMakesOneEvent'
      BY <1>0, <1>2, <2>1, LoadJsonPreserves, LoadJsonCounts DEF UploadOutputs
    <2>3. TaskTypes'
      BY <1>0, <1>2, <2>1 DEF UploadOutputs, TaskTypes
    <2> QED
      BY <1>0, <1>2, <2>2, <2>3, EngineAtRest, LInvNext DEF UploadOutputs
  <1>3. CASE UploadGestures
    <2>1. uploader.section \in GestureSections
      BY <1>0, <1>3 DEF UploadGestures, TaskTypes, NoUpload
    <2>2. EngineInv' /\ fired' = fired
      BY <1>0, <1>3, <2>1, EngineLoadJsonPreserves DEF UploadGestures, EngineLoadJson
    <2>3. TaskTypes'
      BY <1>0, <1>3 DEF UploadGestures, TaskTypes
    <2> QED
      BY <1>0, <1>3, <2>2, <2>3, BankAtRest, LInvNext DEF UploadGestures
  <1> QED
    BY <1>1, <1>2, <1>3 DEF Upload

\* However the tasks, the commands and the uploads interleave, the bank and the
\* engine keep what each of them keeps alone.
THEOREM LightsInvariant == LSpec => []LInv
  <1>1. LInit => LInv
    <2> SUFFICES ASSUME LInit
                 PROVE  LInv
      OBVIOUS
    <2>1. now \in Time
      BY UptimeAssumption DEF LInit, Time
    <2>2. BankInv /\ EveryChangeMakesOneEvent /\ EngineInv
      BY <2>1, BankInitially, CountsInitially, EngineInitially DEF LInit
    <2>3. TaskTypes /\ fired = {}
      BY DEF LInit, TaskTypes, EngineInit
    <2> QED
      BY <2>2, <2>3, LInvIs
  <1>2. LInv /\ [LNext]_lvars => LInv'
    <2> SUFFICES ASSUME LInv, [LNext]_lvars
                 PROVE  LInv'
      OBVIOUS
    <2>0. /\ BankInv /\ EveryChangeMakesOneEvent /\ EngineInv /\ TaskTypes
          /\ fired # {} => actions.pc = "apply"
          /\ now \in Time
      BY LInvIs DEF EngineInv, GTypeOK
    <2>1. ASSUME NEW c \in Callers, Hook(c)
          PROVE  LInv'
      <3>1. BankInv' /\ EveryChangeMakesOneEvent'
        BY <2>0, <2>1, AnnouncePreserves, AnnounceCounts DEF Hook
      <3> QED
        BY <2>0, <2>1, <3>1, EngineAtRest, LInvNext DEF Hook, taskVars, TaskTypes
    <2>2. CASE UNCHANGED lvars
      BY <2>0, <2>2, BankAtRest, EngineAtRest, LInvNext DEF lvars, taskVars, TaskTypes
    <2> QED
      BY <2>1, <2>2, WorkerStep, ActionsStep, UserStep, UploadStep DEF LNext
  <1> QED
    BY <1>1, <1>2, PTL DEF LSpec

\* Every variable of the tasks keeps its type, the gestures' views agree across the
\* tasks, and a tick's decisions are carried out within its pass.
THEOREM LightsTypeCorrect == LSpec => []LTypeOK
  <1>1. LInv => LTypeOK
    BY DEF LInv
  <1> QED
    BY <1>1, LightsInvariant, PTL

\* Whatever the gestures decided before outputs_enable was cleared, nothing is
\* energised after.
THEOREM LightsKillSwitchHolds == LSpec => []DisabledMeansDark
  <1>1. LInv => DisabledMeansDark
    BY DarkWhenDisabled DEF LInv
  <1> QED
    BY <1>1, LightsInvariant, PTL

\* Whichever task switches an output, its pins and coils follow.
THEOREM LightsTargetsCorrect == LSpec => []TargetsFollowOutputs
  <1>1. LInv => TargetsFollowOutputs
    BY TargetsFollow DEF LInv
  <1> QED
    BY <1>1, LightsInvariant, PTL

\* However the tasks interleave, each change of an output makes one event.
THEOREM LightsEventsCorrect == LSpec => []EveryChangeMakesOneEvent
  <1>1. LInv => EveryChangeMakesOneEvent
    BY DEF LInv
  <1> QED
    BY <1>1, LightsInvariant, PTL

-------------------------------------------------------------------------------
(* Switch-offs that are due are kept *)

\* The record of a switch-off is dropped only with the output.
LEMMA ApplyKeepsRecord ==
    ASSUME NEW c, NEW S, NEW v \in BOOLEAN, Apply(c, S, v),
           NEW o \in Outputs, on[o], on'[o], offPending[o]
    PROVE  offPending'[o]
  <1> DEFINE moved == { q \in S : on[q] # v }
  <1>1. /\ on'[o] = IF o \in moved THEN v ELSE on[o]
        /\ offPending'[o] = (offPending[o] /\ o \notin moved)
    BY Zenon DEF Apply
  <1>2. o \notin moved
    BY <1>1
  <1> QED
    BY <1>1, <1>2, Zenon

\* As far as one output is concerned that stays on.
RecordIsKept(o) == on[o] /\ on'[o] /\ offPending[o] => offPending'[o]

LEMMA SetKeepsRecord ==
    ASSUME BankInv, NEW c, NEW name, NEW level, Set(c, name, level), NEW o \in Outputs
    PROVE  RecordIsKept(o)
  <1> SUFFICES ASSUME on[o], on'[o], offPending[o] PROVE offPending'[o]
    BY DEF RecordIsKept
  <1>1. on \in [Outputs -> BOOLEAN] /\ Configured \subseteq Outputs
    BY BankAssumption DEF BankInv, TypeOK, IsSection, Configured
  <1>2. CASE MayDrive(name)
    <2> DEFINE v == IF level = "toggle" THEN ~on[name] ELSE level = "on"
    <2>1. v \in BOOLEAN
      BY Zenon
    <2>2. Apply(c, {name}, v)
      BY <1>2, Zenon DEF Set
    <2> QED
      BY <2>1, <2>2, ApplyKeepsRecord, Zenon
  <1>3. CASE ~MayDrive(name)
    BY <1>3 DEF Set
  <1> QED
    BY <1>2, <1>3

LEMMA SetEnabledKeepsRecord ==
    ASSUME NEW c, NEW e \in BOOLEAN, SetEnabled(c, e), NEW o \in Outputs
    PROVE  RecordIsKept(o)
  <1> SUFFICES ASSUME on[o], on'[o], offPending[o] PROVE offPending'[o]
    BY DEF RecordIsKept
  <1>1. CASE e
    BY <1>1 DEF SetEnabled
  <1>2. CASE ~e
    <2>1. Apply(c, Configured, FALSE)
      BY <1>2, Zenon DEF SetEnabled
    <2> QED
      BY <2>1, ApplyKeepsRecord, Zenon
  <1> QED
    BY <1>1, <1>2

\* tick() leaves nothing on that a record asks to switch off.
LEMMA TickSwitchesOff ==
    ASSUME BankInv, NEW c, NEW nowUs, Tick(c, nowUs), NEW o \in Outputs, on[o], offPending[o]
    PROVE  ~on'[o]
  <1>1. o \in Due(nowUs)
    BY DEF BankInv, TypeOK, Due
  <1>2. Apply(c, Due(nowUs), FALSE)
    BY Zenon DEF Tick
  <1>3. on'[o] = IF o \in { q \in Due(nowUs) : on[q] # FALSE } THEN FALSE ELSE on[o]
    BY <1>2, Zenon DEF Apply
  <1> QED
    BY <1>1, <1>3

LEMMA LoadSwitchesOff ==
    ASSUME NEW c, NEW sect, LoadJson(c, sect), NEW o \in Outputs
    PROVE  RecordIsKept(o)
  BY Zenon DEF LoadJson, OnAfterLoad, RecordIsKept

\* A step of the tasks either leaves the bank's records alone, or is one of its calls.
LEMMA RecordsAreKept ==
    ASSUME LInv, [LNext]_lvars, ~TickOutputs, NEW o \in Outputs
    PROVE  RecordIsKept(o)
  <1>0. BankInv /\ fired \in SUBSET Fired
    BY LInvIs DEF EngineInv, GTypeOK
  <1>1. ASSUME UNCHANGED bankVars PROVE RecordIsKept(o)
    BY <1>1 DEF bankVars, RecordIsKept
  <1>2. CASE Clock \/ (\E s \in Signals, t \in Texts : Frame(s, t)) \/ TellEngine \/ Wake
             \/ TickGestures \/ UploadSignals \/ UploadGestures \/ UNCHANGED lvars
    BY <1>1, <1>2 DEF Clock, Frame, TellEngine, Wake, TickGestures, UploadSignals,
                      UploadGestures, lvars
  <1>3. CASE TellBank
    BY <1>3 DEF TellBank, OnSignal, RecordIsKept
  <1>4. CASE CarryOut
    BY <1>0, <1>1, <1>4, SetKeepsRecord DEF CarryOut
  <1>5. ASSUME NEW u \in Users, Command(u) \/ KillSwitch(u) \/ ResetState(u)
        PROVE  RecordIsKept(o)
    BY <1>0, <1>1, <1>5, SetKeepsRecord, SetEnabledKeepsRecord
       DEF Command, KillSwitch, ResetState
  <1>6. CASE UploadOutputs
    BY <1>6, LoadSwitchesOff DEF UploadOutputs
  <1>7. ASSUME NEW c \in Callers, Hook(c) PROVE RecordIsKept(o)
    BY <1>7 DEF Hook, AnnounceAny, Announce, RecordIsKept
  <1> QED
    BY <1>2, <1>3, <1>4, <1>5, <1>6, <1>7 DEF LNext, Worker, ActionsTask, Upload

\* A switch-off that the bus asks for while the output is on stays recorded until it is
\* done, and the next pass of actionsTask does it.
THEOREM StopReportsAreKept == LSpec => StopReportIsKept
  <1>1. ASSUME LInv, [LNext]_lvars, NEW o \in Outputs, on[o], on'[o]
        PROVE  /\ (TellBank /\ WantsOff(o, worker.signal, worker.text)) => offPending'[o]
               /\ offPending[o] => offPending'[o] /\ ~TickOutputs
    <2>1. (TellBank /\ WantsOff(o, worker.signal, worker.text)) => offPending'[o]
      BY Zenon DEF TellBank, OnSignal
    <2>2. BankInv
      BY <1>1, LInvIs
    <2>3. ASSUME offPending[o], TickOutputs PROVE FALSE
      BY <1>1, <2>2, <2>3, TickSwitchesOff DEF TickOutputs
    <2>4. ASSUME offPending[o], ~TickOutputs PROVE offPending'[o]
      BY <1>1, <2>4, RecordsAreKept, Zenon DEF RecordIsKept
    <2> QED
      BY <2>1, <2>3, <2>4
  <1>2. LInv /\ [LNext]_lvars =>
            [ \A o \in Outputs : (on[o] /\ on'[o]) =>
                  /\ (TellBank /\ WantsOff(o, worker.signal, worker.text)) => offPending'[o]
                  /\ offPending[o] => offPending'[o] /\ ~TickOutputs ]_lvars
    BY <1>1, Zenon
  <1> QED
    BY <1>2, LightsInvariant, PTL DEF LSpec, StopReportIsKept

\* A report of the control's signal keeps the record of a release, and leaving the
\* trigger makes one.
LEMMA ReleaseIsRecorded ==
    ASSUME NEW conf, NEW r \in Runtime, NEW text, NEW recvUs, conf.releaseOff # {},
           r.releasePending \/ (r.pressed /\ r.haveLast /\ r.lastText = conf.trigger /\ text # conf.trigger)
    PROVE  AfterSignal(conf, r, text, recvUs).releasePending
  <1> DEFINE seen == [r EXCEPT !.haveLast = TRUE, !.lastText = text]
             up == [seen EXCEPT !.pressed = FALSE,
                                !.releasePending = @ \/ conf.releaseOff # {}]
  <1>1. CASE ~IsEdge(r, text)
    BY <1>1 DEF AfterSignal, IsEdge
  <1>2. CASE IsEdge(r, text) /\ text = conf.trigger
    BY <1>2 DEF AfterSignal, Runtime
  <1>3. CASE IsEdge(r, text) /\ text # conf.trigger
    <2>1. AfterSignal(conf, r, text, recvUs)
              = IF r.pressed THEN Released(conf, seen, recvUs) ELSE seen
      BY <1>3 DEF AfterSignal
    <2>2. ~r.pressed => seen.releasePending
      BY DEF Runtime
    <2>3. Released(conf, seen, recvUs).releasePending
      BY DEF Released, Runtime
    <2> QED
      BY <2>1, <2>2, <2>3
  <1> QED
    BY <1>1, <1>2, <1>3

\* What tick() decided and has not carried out.
DipDecided(g, o) == \E f \in fired : f.gesture = g /\ f.clicks = 0 /\ o \in f.outputs

\* onSignal()
LEMMA TellEngineKeepsDip ==
    ASSUME LInv, TellEngine, NEW g \in DOMAIN gcfg, NEW o \in gcfg[g].releaseOff,
           DipDue(g, o) \/ LeavesTrigger(g)
    PROVE  DipDue(g, o)'
  <1>1. /\ rt \in [Gestures -> Runtime] /\ gcfg \in GestureSections
        /\ rt[g].pressed => rt[g].haveLast /\ rt[g].lastText = gcfg[g].trigger
    BY LInvIs DEF EngineInv, GTypeOK, ViewsAgree
  <1>2. g \in Gestures
    BY <1>1, EntryType
  <1>3. /\ fired' = fired
        /\ rt'[g] = IF gcfg[g].signal = worker.signal
                    THEN AfterSignal(gcfg[g], rt[g], worker.text, worker.recvUs) ELSE rt[g]
    BY <1>2, Zenon DEF TellEngine, EngineOnSignal
  <1>4. ASSUME DipDecided(g, o) PROVE DipDue(g, o)'
    BY <1>3, <1>4, Zenon DEF DipDecided, DipDue
  <1>5. ASSUME rt[g].releasePending \/ LeavesTrigger(g) PROVE rt'[g].releasePending
    <2>1. CASE gcfg[g].signal = worker.signal
      <3>1. rt[g] \in Runtime /\ gcfg[g].releaseOff # {}
        BY <1>1, <1>2
      <3>2. rt[g].releasePending \/ (/\ rt[g].pressed /\ rt[g].haveLast
                                     /\ rt[g].lastText = gcfg[g].trigger
                                     /\ worker.text # gcfg[g].trigger)
        BY <1>1, <1>5 DEF LeavesTrigger
      <3>3. AfterSignal(gcfg[g], rt[g], worker.text, worker.recvUs).releasePending
        BY <3>1, <3>2, ReleaseIsRecorded
      <3> QED
        BY <1>3, <2>1, <3>3
    <2>2. CASE gcfg[g].signal # worker.signal
      BY <1>3, <1>5, <2>2 DEF LeavesTrigger
    <2> QED
      BY <2>1, <2>2
  <1> QED
    BY <1>4, <1>5, Zenon DEF DipDue, DipDecided

\* tick(): the record is consumed with a decision as long as the output is on.
LEMMA TickDecidesDip ==
    ASSUME LInv, TickGestures, NEW g \in DOMAIN gcfg, NEW o \in gcfg[g].releaseOff,
           DipDue(g, o), o \in Outputs, on[o]
    PROVE  DipDue(g, o)'
  <1>1. fired = {} /\ gcfg \in GestureSections
    BY LInvIs DEF TickGestures, EngineInv, GTypeOK
  <1>2. rt[g].releasePending
    BY <1>1 DEF DipDue
  <1>3. g \in Gestures
    BY <1>1, EntryType
  <1> DEFINE lit == { q \in Outputs : on[q] }
  <1>4. Armed(g, lit)
    <2>1. o \in gcfg[g].releaseOff \cap lit
      OBVIOUS
    <2> HIDE DEF lit
    <2> QED
      BY <1>2, <2>1 DEF Armed
  <1>5. DipOf(g) \in fired'
    <2>1. fired' = { DipOf(h) : h \in { q \in Gestures : Armed(q, lit) } } \cup
                   { BurstOf(h, rt[h].clicks) :
                        h \in { q \in Gestures : Resolves(q, lit, actions.nowUs) } }
      BY Zenon DEF TickGestures, EngineTick
    <2> HIDE DEF lit
    <2> QED
      BY <1>3, <1>4, <2>1, Zenon
  <1>6. DipOf(g).gesture = g /\ DipOf(g).clicks = 0 /\ o \in DipOf(g).outputs
    BY DEF DipOf
  <1> QED
    BY <1>5, <1>6, Zenon DEF DipDue

\* What tick() decided on a release switches off.
DipsAreOff == \A f \in fired : f.clicks = 0 => f.level = "off"

LEMMA TickDecidesOff == LInv /\ TickGestures => DipsAreOff'
  <1> SUFFICES ASSUME LInv, TickGestures, NEW f \in fired', f.clicks = 0
               PROVE  f.level = "off"
    BY DEF DipsAreOff
  <1> DEFINE lit == { q \in Outputs : on[q] }
             nowUs == actions.nowUs
  <1>1. rt \in [Gestures -> Runtime]
    BY LInvIs DEF EngineInv, GTypeOK
  <1>2. fired' = { DipOf(h) : h \in { q \in Gestures : Armed(q, lit) } } \cup
                 { BurstOf(h, rt[h].clicks) : h \in { q \in Gestures : Resolves(q, lit, nowUs) } }
    BY Zenon DEF TickGestures, EngineTick
  <1> HIDE DEF lit, nowUs
  <1>3. CASE \E h \in Gestures : f = DipOf(h)
    BY <1>3 DEF DipOf
  <1>4. ASSUME NEW h \in Gestures, Resolves(h, lit, nowUs), f = BurstOf(h, rt[h].clicks)
        PROVE  FALSE
    <2>1. f.clicks = rt[h].clicks
      BY <1>4 DEF BurstOf
    <2>2. AfterReleaseLoop(h, lit).clicks # 0
      BY <1>4 DEF Resolves
    <2>3. AfterReleaseLoop(h, lit).clicks = IF Armed(h, lit) THEN 0 ELSE rt[h].clicks
      BY <1>1 DEF AfterReleaseLoop, Runtime
    <2> QED
      BY <2>1, <2>2, <2>3
  <1> QED
    BY <1>2, <1>3, <1>4, Zenon

LEMMA DipsStayOff == LInv /\ DipsAreOff /\ [LNext]_lvars => DipsAreOff'
  <1> SUFFICES ASSUME LInv, DipsAreOff, [LNext]_lvars
               PROVE  DipsAreOff'
    OBVIOUS
  <1>0. fired \in SUBSET Fired
    BY LInvIs DEF EngineInv, GTypeOK
  <1>1. ASSUME fired' = fired PROVE DipsAreOff'
    BY <1>1 DEF DipsAreOff
  <1>2. CASE Clock \/ (\E s \in Signals, t \in Texts : Frame(s, t)) \/ TellBank \/ TellEngine
             \/ Wake \/ TickOutputs \/ Upload \/ UNCHANGED lvars
    BY <1>1, <1>2 DEF Clock, Frame, TellBank, TellEngine, EngineOnSignal, Wake, TickOutputs,
                      Upload, UploadSignals, UploadOutputs, UploadGestures, EngineLoadJson,
                      lvars, engineVars
  <1>3. ASSUME NEW u \in Users, Command(u) \/ KillSwitch(u) \/ ResetState(u)
        PROVE  DipsAreOff'
    BY <1>1, <1>3 DEF Command, KillSwitch, ResetState, engineVars
  <1>4. ASSUME NEW c \in Callers, Hook(c) PROVE DipsAreOff'
    BY <1>1, <1>4 DEF Hook, engineVars
  <1>5. CASE CarryOut
    <2> SUFFICES ASSUME NEW d \in fired', d.clicks = 0 PROVE d.level = "off"
      BY DEF DipsAreOff
    <2>1. PICK f \in fired :
             \/ \E q \in f.outputs : fired' = (fired \ {f}) \cup {[f EXCEPT !.outputs = @ \ {q}]}
             \/ fired' = fired \ {f}
      BY <1>5, Zenon DEF CarryOut
    <2>2. CASE d \in fired
      BY <2>2 DEF DipsAreOff
    <2>3. ASSUME NEW q, d = [f EXCEPT !.outputs = @ \ {q}] PROVE d.level = "off"
      <3>1. f \in Fired
        BY <1>0
      <3>2. d.clicks = f.clicks /\ d.level = f.level
        BY <2>3, <3>1 DEF Fired
      <3> QED
        BY <3>2 DEF DipsAreOff
    <2> QED
      BY <2>1, <2>2, <2>3, Zenon
  <1> QED
    BY <1>2, <1>3, <1>4, <1>5, TickDecidesOff DEF LNext, Worker, ActionsTask

LEMMA SetOffSwitchesOff ==
    ASSUME BankInv, NEW c, NEW o \in Outputs, Set(c, o, "off"), on[o]
    PROVE  ~on'[o]
  <1>1. MayDrive(o) /\ on \in [Outputs -> BOOLEAN]
    BY DEF BankInv, TypeOK, SwitchHolds, MayDrive
  <1>2. Apply(c, {o}, IF "off" = "toggle" THEN ~on[o] ELSE "off" = "on")
    BY <1>1, Zenon DEF Set
  <1>3. Apply(c, {o}, FALSE)
    <2>1. (IF "off" = "toggle" THEN ~on[o] ELSE "off" = "on") = FALSE
      OBVIOUS
    <2> QED
      BY <1>2, <2>1, Zenon
  <1>4. on'[o] = IF o \in { q \in {o} : on[q] # FALSE } THEN FALSE ELSE on[o]
    BY <1>3, Zenon DEF Apply
  <1> QED
    BY <1>1, <1>4

\* The rest of tick(): an output is taken from what was decided with its set().
LEMMA CarryOutKeepsDip ==
    ASSUME LInv, DipsAreOff, CarryOut, NEW g, NEW o \in Outputs, DipDue(g, o), on[o], on'[o]
    PROVE  DipDue(g, o)'
  <1>0. BankInv /\ fired \in SUBSET Fired
    BY LInvIs DEF EngineInv, GTypeOK
  <1>1. rt' = rt
    BY DEF CarryOut
  <1>2. ASSUME NEW d \in fired, d.gesture = g, d.clicks = 0, o \in d.outputs
        PROVE  DipDecided(g, o)'
    <2>1. PICK f \in fired :
             \/ \E q \in f.outputs :
                   /\ Set(Ticker, q, f.level)
                   /\ fired' = (fired \ {f}) \cup {[f EXCEPT !.outputs = @ \ {q}]}
             \/ f.outputs = {} /\ fired' = fired \ {f}
      BY Zenon DEF CarryOut
    <2>2. CASE f # d
      <3>1. d \in fired'
        BY <2>1, <2>2
      <3> QED
        BY <1>2, <3>1, Zenon DEF DipDecided
    <2>3. CASE f = d
      <3>1. PICK q \in d.outputs :
               /\ Set(Ticker, q, d.level)
               /\ fired' = (fired \ {d}) \cup {[d EXCEPT !.outputs = @ \ {q}]}
        BY <1>2, <2>1, <2>3
      <3>2. d.level = "off"
        BY <1>2 DEF DipsAreOff
      <3>3. q # o
        BY <1>0, <3>1, <3>2, SetOffSwitchesOff
      <3>4. d \in Fired
        BY <1>0
      <3> DEFINE e == [d EXCEPT !.outputs = @ \ {q}]
      <3>5. e.gesture = g /\ e.clicks = 0 /\ o \in e.outputs
        BY <1>2, <3>3, <3>4 DEF Fired
      <3>6. e \in fired'
        BY <3>1
      <3> HIDE DEF e
      <3> QED
        BY <3>5, <3>6, Zenon DEF DipDecided
    <2> QED
      BY <2>2, <2>3
  <1> QED
    BY <1>1, <1>2, Zenon DEF DipDue, DipDecided

LEMMA DipsAreKeptStep ==
    ASSUME LInv, DipsAreOff, [LNext]_lvars, ~UploadGestures,
           NEW g \in DOMAIN gcfg, NEW o \in gcfg[g].releaseOff, on[o], on'[o],
           DipDue(g, o) \/ (LeavesTrigger(g) /\ TellEngine)
    PROVE  DipDue(g, o)'
  <1>0. o \in Outputs
    <2>1. gcfg \in GestureSections
      BY LInvIs DEF EngineInv, GTypeOK
    <2> QED
      BY <2>1, EntryType DEF IsGestureConfig
  <1>1. CASE TellEngine
    BY <1>1, TellEngineKeepsDip
  <1> SUFFICES ASSUME ~TellEngine, DipDue(g, o) PROVE DipDue(g, o)'
    BY <1>1
  <1>2. ASSUME rt' = rt, fired' = fired PROVE DipDue(g, o)'
    BY <1>2, Zenon DEF DipDue
  <1>3. CASE TickGestures
    BY <1>0, <1>3, TickDecidesDip
  <1>4. CASE CarryOut
    BY <1>0, <1>4, CarryOutKeepsDip
  <1>5. CASE Clock \/ (\E s \in Signals, t \in Texts : Frame(s, t)) \/ TellBank \/ Wake
             \/ TickOutputs \/ UploadSignals \/ UploadOutputs \/ UNCHANGED lvars
    BY <1>2, <1>5 DEF Clock, Frame, TellBank, Wake, TickOutputs, UploadSignals, UploadOutputs,
                      lvars, engineVars
  <1>6. ASSUME NEW u \in Users, Command(u) \/ KillSwitch(u) \/ ResetState(u)
        PROVE  DipDue(g, o)'
    BY <1>2, <1>6 DEF Command, KillSwitch, ResetState, engineVars
  <1>7. ASSUME NEW c \in Callers, Hook(c) PROVE DipDue(g, o)'
    BY <1>2, <1>7 DEF Hook, engineVars
  <1> QED
    BY <1>3, <1>4, <1>5, <1>6, <1>7 DEF LNext, Worker, ActionsTask, Upload

\* A release that should dip an output is not forgotten before the output is off, whatever
\* the count of clicks, the commands and an upload of outputs do, until new gestures come.
THEOREM DipsAreKept == LSpec => DipIsKept
  <1>1. LInit => DipsAreOff
    BY DEF LInit, EngineInit, DipsAreOff
  <1>2. LInv /\ DipsAreOff /\ [LNext]_lvars => DipsAreOff'
    BY DipsStayOff
  <1>3. LInv /\ DipsAreOff /\ [LNext]_lvars =>
            [ \A g \in DOMAIN gcfg : \A o \in gcfg[g].releaseOff :
                  (/\ on[o] /\ on'[o]
                   /\ ~UploadGestures
                   /\ DipDue(g, o) \/ (LeavesTrigger(g) /\ TellEngine)) => DipDue(g, o)' ]_lvars
    BY DipsAreKeptStep, Zenon
  <1> QED
    BY <1>1, <1>2, <1>3, LightsInvariant, PTL DEF LSpec, DipIsKept

-------------------------------------------------------------------------------
(* Clicks: the reference definition *)

\* A sequence of pulses, in the order of their ends, none of which is to come.
IsStory(ps, upto) ==
    /\ ps \in Seq(Pulse)
    /\ \A i \in DOMAIN ps : ps[i].up <= upto
    /\ \A i, j \in DOMAIN ps : i <= j => ps[i].up <= ps[j].up

\* C is the set of the pulses that count, n their number, and latest the end of the last.
Counts(conf, ps, C, n, latest) ==
    /\ C \subseteq SinceHold(conf, ps) /\ IsCount(conf, ps, C)
    /\ IsFiniteSet(C) /\ Cardinality(C) = n
    /\ C # {} => \E m \in C : ps[m].up = latest /\ \A j \in C : j <= m

\* There is one such set only.
LEMMA CountIsUnique ==
    ASSUME NEW conf, NEW ps \in Seq(Pulse),
           NEW C \in SUBSET SinceHold(conf, ps), NEW D \in SUBSET SinceHold(conf, ps),
           IsCount(conf, ps, C), IsCount(conf, ps, D)
    PROVE  C = D
  <1> DEFINE Differ == { i \in SinceHold(conf, ps) : ~(i \in C <=> i \in D) }
  <1>1. SinceHold(conf, ps) \subseteq Nat
    BY LenProperties DEF SinceHold
  <1>2. CASE Differ # {}
    <2>1. Differ \in SUBSET Nat
      BY <1>1
    <2>2. PICK i \in Differ : \A j \in Differ : i <= j
      BY <1>2, <2>1, LeastOf
    <2>3. \A j \in Nat : j < i => (j \in C <=> j \in D)
      BY <2>1, <2>2
    <2>4. i \in C <=> \A j \in C : j < i => ps[i].up - ps[j].up >= conf.minGap
      BY <2>2 DEF IsCount
    <2>5. i \in D <=> \A j \in D : j < i => ps[i].up - ps[j].up >= conf.minGap
      BY <2>2 DEF IsCount
    <2>6. C \subseteq Nat /\ D \subseteq Nat
      BY <1>1
    <2> HIDE DEF Differ
    <2>7. i \in C <=> i \in D
      BY <2>3, <2>4, <2>5, <2>6
    <2> QED
      BY <2>2, <2>7 DEF Differ
  <1>3. CASE Differ = {}
    BY <1>3
  <1> QED
    BY <1>2, <1>3

LEMMA ClicksAreCounted ==
    ASSUME NEW conf, NEW ps \in Seq(Pulse), NEW C, NEW n, NEW latest, Counts(conf, ps, C, n, latest)
    PROVE  ClicksOf(conf, ps) = n
  <1>1. C \in SUBSET SinceHold(conf, ps) /\ IsCount(conf, ps, C)
    BY DEF Counts
  <1> DEFINE D == CHOOSE E \in SUBSET SinceHold(conf, ps) : IsCount(conf, ps, E)
  <1>2. D \in SUBSET SinceHold(conf, ps) /\ IsCount(conf, ps, D)
    BY <1>1
  <1>3. D = C
    BY <1>1, <1>2, CountIsUnique
  <1> QED
    BY <1>3 DEF ClicksOf, Counts

LEMMA NothingCounts ==
    ASSUME NEW conf, NEW latest
    PROVE  Counts(conf, <<>>, {}, 0, latest)
  BY FS_EmptySet DEF Counts, SinceHold, IsCount

-------------------------------------------------------------------------------
(* Clicks: one more pulse *)

LEMMA OneMorePulse ==
    ASSUME NEW ps, NEW upto \in Time, IsStory(ps, upto), NEW p \in Pulse, p.up = upto
    PROVE  LET qs == Append(ps, p)
               last == Len(ps) + 1
           IN /\ IsStory(qs, upto)
              /\ Len(ps) \in Nat /\ DOMAIN ps = 1 .. Len(ps) /\ DOMAIN qs = 1 .. last /\ Len(qs) = last
              /\ qs[last] = p /\ \A i \in DOMAIN ps : qs[i] = ps[i]
  <1> DEFINE qs == Append(ps, p)
             last == Len(ps) + 1
  <1>1. ps \in Seq(Pulse)
    BY DEF IsStory
  <1>2. /\ Len(ps) \in Nat /\ DOMAIN ps = 1 .. Len(ps)
        /\ qs \in Seq(Pulse) /\ Len(qs) = last /\ DOMAIN qs = 1 .. last
        /\ qs[last] = p /\ \A i \in DOMAIN ps : qs[i] = ps[i]
    BY <1>1, LenProperties, AppendProperties
  <1> HIDE DEF qs
  <1>3. \A i \in DOMAIN qs : i = last \/ i \in DOMAIN ps
    BY <1>2
  <1>4. \A i \in DOMAIN qs : qs[i].up <= upto
    BY <1>2, <1>3, UptimeAssumption DEF IsStory, Time
  <1>5. ASSUME NEW i \in DOMAIN qs, NEW j \in DOMAIN qs, i <= j
        PROVE  qs[i].up <= qs[j].up
    <2>1. CASE j = last
      BY <1>2, <1>4, <2>1
    <2>2. CASE j # last
      <3>1. i \in DOMAIN ps /\ j \in DOMAIN ps
        BY <1>2, <1>5, <2>2
      <3> QED
        BY <1>2, <1>5, <3>1 DEF IsStory
    <2> QED
      BY <2>1, <2>2
  <1> QED
    BY <1>2, <1>4, <1>5 DEF IsStory, qs

\* A pulse that was held too long leaves nothing that counts.
LEMMA LongPulse ==
    ASSUME NEW conf, NEW ps, NEW upto \in Time, IsStory(ps, upto), NEW p \in Pulse, p.up = upto,
           conf.maxHold \in Nat, p.up - p.down > conf.maxHold, NEW latest
    PROVE  Counts(conf, Append(ps, p), {}, 0, latest)
  <1> DEFINE qs == Append(ps, p)
             last == Len(ps) + 1
  <1>1. DOMAIN qs = 1 .. last /\ Len(qs) = last /\ qs[last] = p /\ Len(ps) \in Nat
    BY OneMorePulse
  <1> HIDE DEF qs
  <1>2. SinceHold(conf, qs) = {}
    <2> SUFFICES ASSUME NEW i \in 1 .. last, \A j \in i .. last : qs[j].up - qs[j].down <= conf.maxHold
                 PROVE  FALSE
      BY <1>1 DEF SinceHold
    <2>1. p.up - p.down <= conf.maxHold
      BY <1>1
    <2>2. p.up \in Int /\ p.down \in Int
      BY UptimeAssumption DEF Pulse, Time
    <2> QED
      BY <2>1, <2>2
  <1> QED
    BY <1>2, FS_EmptySet DEF Counts, IsCount, qs

\* A shorter one counts, unless it comes too soon after the last one that does.
LEMMA ShortPulse ==
    ASSUME NEW conf, NEW ps, NEW upto \in Time, IsStory(ps, upto), NEW p \in Pulse, p.up = upto,
           conf.maxHold \in Nat, conf.minGap \in Nat, ~(p.up - p.down > conf.maxHold),
           NEW C, NEW n, NEW latest, Counts(conf, ps, C, n, latest)
    PROVE  /\ n \in Nat /\ (n = 0 <=> C = {})
           /\ n # 0 => latest \in Time /\ latest <= upto
           /\ n # 0 /\ upto - latest < conf.minGap => Counts(conf, Append(ps, p), C, n, latest)
           /\ ~(n # 0 /\ upto - latest < conf.minGap) =>
                 Counts(conf, Append(ps, p), C \cup {Len(ps) + 1}, n + 1, upto)
  <1> DEFINE qs == Append(ps, p)
             last == Len(ps) + 1
  <1>1. /\ Len(ps) \in Nat /\ DOMAIN ps = 1 .. Len(ps) /\ DOMAIN qs = 1 .. last /\ Len(qs) = last
        /\ qs[last] = p /\ \A i \in DOMAIN ps : qs[i] = ps[i]
    BY OneMorePulse
  <1> HIDE DEF qs
  <1>2. n \in Nat /\ (n = 0 <=> C = {})
    BY FS_CardinalityType, FS_EmptySet DEF Counts
  <1>3. /\ C \subseteq SinceHold(conf, ps) /\ IsCount(conf, ps, C) /\ C \subseteq DOMAIN ps
    BY DEF Counts, SinceHold
  <1>4. \A i \in DOMAIN ps : ps[i].up \in Time /\ ps[i].up <= upto
    <2>1. \A i \in DOMAIN ps : ps[i] \in Pulse
      BY <1>1, ElementOfSeq DEF IsStory
    <2> QED
      BY <2>1 DEF IsStory, Pulse
  <1>5. n # 0 => latest \in Time /\ latest <= upto
    BY <1>2, <1>3, <1>4 DEF Counts
  <1>6. p.up \in Int /\ p.down \in Int /\ p.up - p.down <= conf.maxHold
    BY UptimeAssumption DEF Pulse, Time
  <1>7. SinceHold(conf, qs) = SinceHold(conf, ps) \cup {last}
    <2>1. ASSUME NEW i \in DOMAIN ps
          PROVE  i \in SinceHold(conf, qs) <=> i \in SinceHold(conf, ps)
      <3>1. \A j \in i .. last : j = last \/ (j \in i .. Len(ps) /\ j \in DOMAIN ps)
        BY <1>1
      <3>2. \A j \in i .. Len(ps) : j \in i .. last /\ j \in DOMAIN ps
        BY <1>1
      <3> QED
        BY <1>1, <1>6, <3>1, <3>2 DEF SinceHold
    <2>2. last \in SinceHold(conf, qs)
      BY <1>1, <1>6 DEF SinceHold
    <2>3. \A i \in DOMAIN qs : i = last \/ i \in DOMAIN ps
      BY <1>1
    <2>4. SinceHold(conf, qs) \subseteq DOMAIN qs /\ SinceHold(conf, ps) \subseteq DOMAIN ps
      BY DEF SinceHold
    <2> QED
      BY <2>1, <2>2, <2>3, <2>4
  <1>8. \A i \in SinceHold(conf, ps) :
            i \in C <=> \A j \in C : j < i => qs[i].up - qs[j].up >= conf.minGap
    BY <1>1, <1>3 DEF IsCount, SinceHold
  <1>9. last \notin C /\ last \notin DOMAIN ps /\ \A j \in C : j < last
    BY <1>1, <1>3
  <1>10. ASSUME n # 0, upto - latest < conf.minGap
         PROVE  Counts(conf, qs, C, n, latest)
    <2>1. PICK m \in C : ps[m].up = latest /\ \A j \in C : j <= m
      BY <1>2, <1>10 DEF Counts
    <2>2. ~(\A j \in C : j < last => qs[last].up - qs[j].up >= conf.minGap)
      <3>1. m < last /\ qs[last].up = upto /\ qs[m].up = latest
        BY <1>1, <1>3, <1>9, <2>1
      <3>2. latest \in Int /\ upto \in Int
        BY <1>5, <1>10, UptimeAssumption DEF Time
      <3> QED
        BY <1>10, <3>1, <3>2
    <2>3. IsCount(conf, qs, C)
      BY <1>7, <1>8, <1>9, <2>2 DEF IsCount
    <2>4. \E k \in C : qs[k].up = latest /\ \A j \in C : j <= k
      BY <1>1, <1>3, <2>1
    <2> QED
      BY <1>7, <2>3, <2>4 DEF Counts
  <1>11. ASSUME ~(n # 0 /\ upto - latest < conf.minGap)
         PROVE  Counts(conf, qs, C \cup {last}, n + 1, upto)
    <2>1. \A j \in C : qs[last].up - qs[j].up >= conf.minGap
      <3> SUFFICES ASSUME NEW j \in C PROVE qs[last].up - qs[j].up >= conf.minGap
        OBVIOUS
      <3>1. PICK m \in C : ps[m].up = latest /\ \A k \in C : k <= m
        BY DEF Counts
      <3>2. ps[j].up <= latest /\ qs[j].up = ps[j].up /\ ps[j].up \in Time /\ n # 0
        BY <1>1, <1>2, <1>3, <1>4, <3>1 DEF IsStory
      <3>3. qs[last].up = upto /\ upto - latest >= conf.minGap
        BY <1>1, <1>5, <1>11, <3>2, UptimeAssumption DEF Time
      <3> QED
        BY <1>5, <3>2, <3>3, UptimeAssumption DEF Time
    <2>2. ASSUME NEW i \in SinceHold(conf, qs)
          PROVE  i \in C \cup {last}
                 <=> \A j \in C \cup {last} : j < i => qs[i].up - qs[j].up >= conf.minGap
      <3>1. CASE i = last
        BY <1>1, <2>1, <3>1
      <3>2. CASE i # last
        <4>1. i \in SinceHold(conf, ps) /\ i \in DOMAIN ps
          BY <1>7, <3>2 DEF SinceHold
        <4>2. ~(last < i)
          BY <1>1, <4>1
        <4> QED
          BY <1>8, <3>2, <4>1, <4>2
      <3> QED
        BY <3>1, <3>2
    <2>3. IsCount(conf, qs, C \cup {last})
      BY <2>2 DEF IsCount
    <2>4. IsFiniteSet(C \cup {last}) /\ Cardinality(C \cup {last}) = n + 1
      BY <1>9, FS_AddElement DEF Counts
    <2>5. \E m \in C \cup {last} : qs[m].up = upto /\ \A j \in C \cup {last} : j <= m
      <3>1. qs[last].up = upto /\ \A j \in C \cup {last} : j <= last
        BY <1>1, <1>3, <1>9
      <3> QED
        BY <3>1
    <2> QED
      BY <1>3, <1>7, <2>3, <2>4, <2>5 DEF Counts
  <1> QED
    BY <1>2, <1>5, <1>10, <1>11 DEF qs

-------------------------------------------------------------------------------
(* Clicks: the engine follows the story *)

\* The engine saw what the story tells, and counted the pulses that count.
Follows(conf, r, st) ==
    /\ st = [last |-> st.last, down |-> st.down, pulses |-> st.pulses]
    /\ st.last = IF r.haveLast THEN r.lastText ELSE Unknown
    /\ r.pressed => st.down = r.pressedUs
    /\ st.down \in Time /\ st.down <= now
    /\ IsStory(st.pulses, now)
    /\ \E C : Counts(conf, st.pulses, C, r.clicks, r.lastReleaseUs)

ClickInv == \A g \in DOMAIN gcfg : Follows(gcfg[g], rt[g], story[g])

LEMMA FreshFollows ==
    ASSUME NEW conf, now \in Time
    PROVE  Follows(conf, Fresh, NoStory)
  <1>1. <<>> \in Seq(Pulse) /\ DOMAIN <<>> = {}
    BY EmptySeq
  <1>2. IsStory(<<>>, now)
    BY <1>1 DEF IsStory
  <1>3. 0 \in Time /\ 0 <= now
    BY UptimeAssumption DEF Time
  <1> QED
    BY <1>2, <1>3, NothingCounts DEF Follows, NoStory, Fresh

\* The burst is over.
LEMMA EmptyFollows ==
    ASSUME NEW conf, NEW r \in Runtime, NEW st, Follows(conf, r, st), now \in Time,
           NEW q \in Runtime, q.haveLast = r.haveLast, q.lastText = r.lastText,
           q.pressed = r.pressed, q.pressedUs = r.pressedUs, q.clicks = 0
    PROVE  Follows(conf, q, [st EXCEPT !.pulses = <<>>])
  <1>1. IsStory(<<>>, now)
    BY EmptySeq DEF IsStory
  <1>2. [st EXCEPT !.pulses = <<>>] = [last |-> st.last, down |-> st.down, pulses |-> <<>>]
    BY DEF Follows
  <1> QED
    BY <1>1, <1>2, NothingCounts DEF Follows

\* A release, against the story that takes the pulse in.
LEMMA ReleaseFollows ==
    ASSUME NEW conf, IsGestureConfig(conf), NEW r \in Runtime, now \in Time,
           NEW ps, IsStory(ps, now), r.pressedUs <= now,
           NEW C, Counts(conf, ps, C, r.clicks, r.lastReleaseUs)
    PROVE  LET q == Released(conf, r, now)
               qs == Append(ps, [down |-> r.pressedUs, up |-> now])
           IN /\ ~q.pressed /\ q.haveLast = r.haveLast /\ q.lastText = r.lastText
              /\ IsStory(qs, now)
              /\ \E D : Counts(conf, qs, D, q.clicks, q.lastReleaseUs)
  <1> DEFINE p == [down |-> r.pressedUs, up |-> now]
             q == Released(conf, r, now)
             up == [r EXCEPT !.pressed = FALSE,
                             !.releasePending = @ \/ conf.releaseOff # {}]
             long == Elapsed(now, r.pressedUs) > conf.maxHold
             bounce == r.clicks # 0 /\ Elapsed(now, r.lastReleaseUs) < conf.minGap
  <1>1. p \in Pulse /\ p.up = now /\ p.down = r.pressedUs
    BY DEF Pulse, Runtime
  <1>2. conf.maxHold \in Nat /\ conf.minGap \in Nat
    BY DEF IsGestureConfig
  <1>3. Elapsed(now, r.pressedUs) = p.up - p.down
    BY <1>1 DEF Elapsed
  <1>4. /\ ~up.pressed /\ up.haveLast = r.haveLast /\ up.lastText = r.lastText
        /\ up.clicks = r.clicks /\ up.lastReleaseUs = r.lastReleaseUs
        /\ DOMAIN up = DOMAIN r
        /\ DOMAIN r = {"haveLast", "lastText", "pressed", "pressedUs", "clicks", "lastReleaseUs",
                       "fireNow", "releasePending"}
    BY DEF Runtime
  <1>5. IsStory(Append(ps, p), now)
    BY <1>1, OneMorePulse
  <1> HIDE DEF p
  <1>6. CASE long
    <2>1. q = [up EXCEPT !.clicks = 0, !.fireNow = FALSE]
      BY <1>6 DEF Released
    <2> HIDE DEF up, q
    <2>2. /\ ~q.pressed /\ q.haveLast = r.haveLast /\ q.lastText = r.lastText /\ q.clicks = 0
      BY <1>4, <2>1
    <2>3. Counts(conf, Append(ps, p), {}, 0, q.lastReleaseUs)
      BY <1>1, <1>2, <1>3, <1>6, LongPulse
    <2> QED
      BY <1>5, <2>2, <2>3 DEF p, q
  <1>7. CASE ~long
    <2>1. /\ r.clicks # 0 => r.lastReleaseUs <= now
          /\ r.clicks # 0 /\ now - r.lastReleaseUs < conf.minGap =>
                Counts(conf, Append(ps, p), C, r.clicks, r.lastReleaseUs)
          /\ ~(r.clicks # 0 /\ now - r.lastReleaseUs < conf.minGap) =>
                Counts(conf, Append(ps, p), C \cup {Len(ps) + 1}, r.clicks + 1, now)
      <3>1. ~(p.up - p.down > conf.maxHold)
        BY <1>3, <1>7
      <3> HIDE DEF long, bounce, up, q
      <3>2. /\ r.clicks # 0 => r.lastReleaseUs \in Time /\ r.lastReleaseUs <= now
            /\ r.clicks # 0 /\ now - r.lastReleaseUs < conf.minGap =>
                  Counts(conf, Append(ps, p), C, r.clicks, r.lastReleaseUs)
            /\ ~(r.clicks # 0 /\ now - r.lastReleaseUs < conf.minGap) =>
                  Counts(conf, Append(ps, p), C \cup {Len(ps) + 1}, r.clicks + 1, now)
        BY <1>1, <1>2, <3>1, ShortPulse, ZenonT(40)
      <3> QED
        BY <3>2
    <2>2. bounce <=> r.clicks # 0 /\ now - r.lastReleaseUs < conf.minGap
      BY <2>1 DEF Elapsed
    <2>3. CASE bounce
      <3>1. q = up
        BY <1>7, <2>3 DEF Released
      <3> QED
        BY <1>4, <1>5, <2>1, <2>2, <2>3, <3>1 DEF p
    <2>4. CASE ~bounce
      <3> PICK full \in BOOLEAN : full <=> up.fireNow \/ MaxClicks(conf) \in 1 .. r.clicks + 1
        OBVIOUS
      <3>1. q = [up EXCEPT !.clicks = @ + 1, !.lastReleaseUs = now, !.fireNow = full]
        <4>1. q = [up EXCEPT !.clicks = @ + 1, !.lastReleaseUs = now,
                             !.fireNow = @ \/ MaxClicks(conf) \in 1 .. r.clicks + 1]
          BY <1>7, <2>4 DEF Released
        <4>2. [up EXCEPT !.clicks = @ + 1, !.lastReleaseUs = now, !.fireNow = full]
              = [up EXCEPT !.clicks = @ + 1, !.lastReleaseUs = now,
                           !.fireNow = @ \/ MaxClicks(conf) \in 1 .. r.clicks + 1]
          BY Zenon
        <4> QED
          BY <4>1, <4>2, Zenon
      <3> HIDE DEF up, q, bounce
      <3>2. /\ ~q.pressed /\ q.haveLast = r.haveLast /\ q.lastText = r.lastText
            /\ q.clicks = r.clicks + 1 /\ q.lastReleaseUs = now
        BY <1>4, <3>1
      <3>3. Counts(conf, Append(ps, p), C \cup {Len(ps) + 1}, r.clicks + 1, now)
        BY <2>1, <2>2, <2>4
      <3> QED
        BY <1>5, <3>2, <3>3 DEF p, q
    <2> QED
      BY <2>3, <2>4
  <1> QED
    BY <1>6, <1>7

\* A report of the signal.
LEMMA ReportFollows ==
    ASSUME NEW conf, IsGestureConfig(conf), NEW r \in Runtime, now \in Time, NEW st,
           Follows(conf, r, st), NEW text \in Texts,
           r.pressed <=> r.haveLast /\ r.lastText = conf.trigger
    PROVE  Follows(conf, AfterSignal(conf, r, text, now), Told(conf, st, text))
  <1> DEFINE seen == [r EXCEPT !.haveLast = TRUE, !.lastText = text]
             q == AfterSignal(conf, r, text, now)
             tl == Told(conf, st, text)
  <1>1. conf.trigger \in Texts /\ Unknown \notin Texts
    BY EngineAssumption DEF IsGestureConfig
  <1>2. IsEdge(r, text) <=> text # st.last
    BY <1>1 DEF IsEdge, Follows
  <1>3. r.pressed <=> st.last = conf.trigger
    BY <1>1 DEF Follows
  <1>4. /\ seen \in Runtime /\ seen.haveLast /\ seen.lastText = text /\ seen.pressed = r.pressed
        /\ seen.pressedUs = r.pressedUs /\ seen.clicks = r.clicks
        /\ seen.lastReleaseUs = r.lastReleaseUs
    BY DEF Runtime
  <1>5. /\ st = [last |-> st.last, down |-> st.down, pulses |-> st.pulses]
        /\ st.down \in Time /\ st.down <= now /\ IsStory(st.pulses, now)
        /\ r.pressed => st.down = r.pressedUs
    BY DEF Follows
  <1>6. PICK C : Counts(conf, st.pulses, C, r.clicks, r.lastReleaseUs)
    BY DEF Follows
  <1>7. CASE text = st.last
    BY <1>2, <1>7 DEF AfterSignal, Told
  <1>8. CASE text # st.last /\ text = conf.trigger
    <2>1. q = [seen EXCEPT !.pressed = TRUE, !.pressedUs = now]
      BY <1>2, <1>8 DEF AfterSignal
    <2>2. tl = [last |-> text, down |-> now, pulses |-> st.pulses]
      BY <1>5, <1>8 DEF Told
    <2> HIDE DEF seen, q, tl
    <2>3. /\ q.haveLast /\ q.lastText = text /\ q.pressedUs = now /\ q.clicks = r.clicks
          /\ q.lastReleaseUs = r.lastReleaseUs
      BY <1>4, <2>1 DEF Runtime
    <2>4. now <= now
      BY UptimeAssumption DEF Time
    <2> QED
      BY <1>5, <1>6, <2>2, <2>3, <2>4 DEF Follows, q, tl
  <1>9. CASE text # st.last /\ text # conf.trigger /\ r.pressed
    <2>1. q = Released(conf, seen, now)
      BY <1>2, <1>9 DEF AfterSignal
    <2>2. tl = [last |-> text, down |-> st.down,
                pulses |-> Append(st.pulses, [down |-> st.down, up |-> now])]
      BY <1>3, <1>5, <1>9 DEF Told
    <2> HIDE DEF seen, q, tl
    <2>3. st.down = seen.pressedUs /\ seen.pressedUs <= now
      BY <1>4, <1>5, <1>9
    <2>4. Counts(conf, st.pulses, C, seen.clicks, seen.lastReleaseUs)
      BY <1>4, <1>6
    <2> DEFINE qs == Append(st.pulses, [down |-> seen.pressedUs, up |-> now])
    <2>5. /\ ~q.pressed /\ q.haveLast = seen.haveLast /\ q.lastText = seen.lastText
          /\ IsStory(qs, now)
          /\ \E D : Counts(conf, qs, D, q.clicks, q.lastReleaseUs)
      BY <1>4, <1>5, <2>1, <2>3, <2>4, ReleaseFollows
    <2>6. tl.pulses = qs /\ tl.last = text /\ tl.down = st.down
      BY <2>2, <2>3
    <2> HIDE DEF qs
    <2> QED
      BY <1>4, <1>5, <2>2, <2>3, <2>5, <2>6 DEF Follows, q, tl
  <1>10. CASE text # st.last /\ text # conf.trigger /\ ~r.pressed
    <2>1. q = seen
      BY <1>2, <1>10 DEF AfterSignal
    <2>2. tl = [last |-> text, down |-> st.down, pulses |-> st.pulses]
      BY <1>3, <1>5, <1>10 DEF Told
    <2> HIDE DEF seen, q, tl
    <2> QED
      BY <1>4, <1>5, <1>6, <1>10, <2>1, <2>2 DEF Follows, q, tl
  <1> QED
    BY <1>7, <1>8, <1>9, <1>10

-------------------------------------------------------------------------------
(* Clicks: the operations *)

\* The steps of the history are steps of the engine.
LEMMA HistoryStepsAreSteps == HNext => GNext
  BY DEF HNext, GNext, HReport, Report, HTick, TickNow, HLoad, LoadGestures

\* What EngineInv says of one gesture.
LEMMA GestureFacts ==
    ASSUME EngineInv, NEW g \in DOMAIN gcfg
    PROVE  /\ g \in Gestures /\ IsGestureConfig(gcfg[g]) /\ rt[g] \in Runtime
           /\ rt[g].pressed <=> rt[g].haveLast /\ rt[g].lastText = gcfg[g].trigger
  <1>1. EngineFacts
    BY EngineInvIs
  <1> QED
    BY <1>1, EntryType DEF EngineFacts, GestureInv

LEMMA HReportStep == EngineInv /\ ClickInv /\ HReport /\ UNCHANGED now => ClickInv'
  <1> SUFFICES ASSUME EngineInv, ClickInv, HReport, UNCHANGED now, NEW g \in DOMAIN gcfg'
               PROVE  Follows(gcfg[g], rt[g], story[g])'
    BY DEF ClickInv
  <1>1. PICK s \in Signals, t \in Texts :
          /\ EngineOnSignal(s, t, now)
          /\ story' = [h \in Gestures |->
                          IF h \in DOMAIN gcfg /\ gcfg[h].signal = s
                          THEN Told(gcfg[h], story[h], t) ELSE story[h]]
    BY DEF HReport
  <1>2. gcfg' = gcfg /\ now' = now /\ now \in Time
    BY <1>1 DEF EngineOnSignal, EngineInv, GTypeOK
  <1>3. /\ g \in DOMAIN gcfg /\ g \in Gestures /\ IsGestureConfig(gcfg[g]) /\ rt[g] \in Runtime
        /\ rt[g].pressed <=> rt[g].haveLast /\ rt[g].lastText = gcfg[g].trigger
        /\ Follows(gcfg[g], rt[g], story[g])
    BY <1>2, GestureFacts DEF ClickInv
  <1>4. CASE gcfg[g].signal = s
    <2>1. rt'[g] = AfterSignal(gcfg[g], rt[g], t, now) /\ story'[g] = Told(gcfg[g], story[g], t)
      BY <1>1, <1>3, <1>4, Zenon DEF EngineOnSignal
    <2>2. Follows(gcfg[g], rt'[g], story'[g])
      BY <1>2, <1>3, <2>1, ReportFollows
    <2> QED
      BY <1>2, <2>2 DEF Follows
  <1>5. CASE gcfg[g].signal # s
    <2>1. rt'[g] = rt[g] /\ story'[g] = story[g]
      BY <1>1, <1>3, <1>5, Zenon DEF EngineOnSignal
    <2> QED
      BY <1>2, <1>3, <2>1 DEF Follows
  <1> QED
    BY <1>4, <1>5

LEMMA HTickStep == EngineInv /\ ClickInv /\ HTick /\ UNCHANGED now => ClickInv'
  <1> SUFFICES ASSUME EngineInv, ClickInv, HTick, UNCHANGED now, NEW g \in DOMAIN gcfg'
               PROVE  Follows(gcfg[g], rt[g], story[g])'
    BY DEF ClickInv
  <1>1. PICK lit \in SUBSET Outputs :
          /\ EngineTick(now, lit)
          /\ story' = [h \in Gestures |->
                          IF Armed(h, lit) \/ Resolves(h, lit, now)
                          THEN [story[h] EXCEPT !.pulses = <<>>] ELSE story[h]]
    BY DEF HTick
  <1>2. gcfg' = gcfg /\ now' = now /\ now \in Time
    BY <1>1 DEF EngineTick, EngineInv, GTypeOK
  <1>3. /\ g \in DOMAIN gcfg /\ g \in Gestures /\ rt[g] \in Runtime
        /\ Follows(gcfg[g], rt[g], story[g])
    BY <1>2, GestureFacts DEF ClickInv
  <1> DEFINE r == rt[g]
             q == AfterReleaseLoop(g, lit)
  <1>4. /\ rt'[g] = IF Resolves(g, lit, now) THEN [q EXCEPT !.clicks = 0, !.fireNow = FALSE] ELSE q
        /\ story'[g] = IF Armed(g, lit) \/ Resolves(g, lit, now)
                       THEN [story[g] EXCEPT !.pulses = <<>>] ELSE story[g]
    BY <1>1, <1>3, Zenon DEF EngineTick
  <1>5. /\ q \in Runtime /\ q.haveLast = r.haveLast /\ q.lastText = r.lastText
        /\ q.pressed = r.pressed /\ q.pressedUs = r.pressedUs
        /\ IF Armed(g, lit) THEN q.clicks = 0
           ELSE q.clicks = r.clicks /\ q.lastReleaseUs = r.lastReleaseUs
    BY <1>3 DEF AfterReleaseLoop, Runtime
  <1> HIDE DEF q
  <1>6. CASE Resolves(g, lit, now)
    <2> DEFINE z == [q EXCEPT !.clicks = 0, !.fireNow = FALSE]
    <2>1. /\ z \in Runtime /\ z.haveLast = q.haveLast /\ z.lastText = q.lastText
          /\ z.pressed = q.pressed /\ z.pressedUs = q.pressedUs /\ z.clicks = 0
      BY <1>5 DEF Runtime
    <2>2. rt'[g] = z /\ story'[g] = [story[g] EXCEPT !.pulses = <<>>]
      BY <1>4, <1>6
    <2> HIDE DEF z
    <2>3. Follows(gcfg[g], z, [story[g] EXCEPT !.pulses = <<>>])
      BY <1>2, <1>3, <1>5, <2>1, EmptyFollows
    <2> QED
      BY <1>2, <2>2, <2>3 DEF Follows
  <1>7. CASE ~Resolves(g, lit, now) /\ Armed(g, lit)
    <2>1. rt'[g] = q /\ story'[g] = [story[g] EXCEPT !.pulses = <<>>]
      BY <1>4, <1>7
    <2>2. Follows(gcfg[g], q, [story[g] EXCEPT !.pulses = <<>>])
      BY <1>2, <1>3, <1>5, <1>7, EmptyFollows
    <2> QED
      BY <1>2, <2>1, <2>2 DEF Follows
  <1>8. CASE ~Resolves(g, lit, now) /\ ~Armed(g, lit)
    <2>1. rt'[g] = q /\ story'[g] = story[g]
      BY <1>4, <1>8
    <2>2. Follows(gcfg[g], q, story[g])
      BY <1>3, <1>5, <1>8 DEF Follows
    <2> QED
      BY <1>2, <2>1, <2>2 DEF Follows
  <1> QED
    BY <1>6, <1>7, <1>8

LEMMA HLoadStep == EngineInv /\ ClickInv /\ HLoad /\ UNCHANGED now => ClickInv'
  <1> SUFFICES ASSUME EngineInv, ClickInv, HLoad, UNCHANGED now, NEW g \in DOMAIN gcfg'
               PROVE  Follows(gcfg[g], rt[g], story[g])'
    BY DEF ClickInv
  <1>1. PICK sect \in GestureSections, names \in SUBSET Outputs :
          /\ EngineLoadJson(sect, names)
          /\ story' = IF GesturesAccepted(sect, names) THEN [h \in Gestures |-> NoStory] ELSE story
    BY DEF HLoad
  <1>2. now' = now /\ now \in Time
    BY DEF EngineInv, GTypeOK
  <1>3. CASE GesturesAccepted(sect, names)
    <2>1. gcfg' = sect /\ g \in Gestures
      BY <1>1, <1>3, EngineAssumption DEF EngineLoadJson
    <2>2. rt'[g] = Fresh /\ story'[g] = NoStory
      BY <1>1, <1>3, <2>1, Zenon DEF EngineLoadJson, RuntimeAfterLoad
    <2>3. Follows(gcfg'[g], Fresh, NoStory)
      BY <1>2, FreshFollows
    <2> QED
      BY <1>2, <2>2, <2>3 DEF Follows
  <1>4. CASE ~GesturesAccepted(sect, names)
    <2>1. gcfg' = gcfg /\ rt' = rt /\ story' = story
      BY <1>1, <1>4 DEF EngineLoadJson
    <2> QED
      BY <1>2, <2>1 DEF ClickInv, Follows
  <1> QED
    BY <1>3, <1>4

\* Time alone changes nothing.
LEMMA LaterFollows ==
    ASSUME EngineInv, ClickInv, now' \in Time, now <= now', UNCHANGED <<engineVars, story>>
    PROVE  ClickInv'
  <1> SUFFICES ASSUME NEW g \in DOMAIN gcfg
               PROVE  Follows(gcfg[g], rt[g], story[g])'
    BY DEF ClickInv, engineVars
  <1>1. gcfg' = gcfg /\ rt' = rt /\ story' = story
    BY DEF engineVars
  <1>2. Follows(gcfg[g], rt[g], story[g])
    BY DEF ClickInv
  <1>3. now \in Nat /\ now' \in Nat
    BY UptimeAssumption DEF EngineInv, GTypeOK, Time
  <1>4. story[g].down \in Nat
    BY <1>2, UptimeAssumption DEF Follows, Time
  <1>5. \A i \in DOMAIN story[g].pulses : story[g].pulses[i].up \in Nat
    <2>1. \A i \in DOMAIN story[g].pulses : story[g].pulses[i] \in Pulse
      BY <1>2, ElementOfSeq, LenProperties DEF Follows, IsStory
    <2> QED
      BY <2>1, UptimeAssumption DEF Pulse, Time
  <1>6. IsStory(story[g].pulses, now')
    BY <1>2, <1>3, <1>5 DEF Follows, IsStory
  <1>7. story[g].down <= now'
    BY <1>2, <1>3, <1>4 DEF Follows
  <1> QED
    BY <1>1, <1>2, <1>6, <1>7 DEF Follows

-------------------------------------------------------------------------------
(* Clicks: the theorem *)

\* Whatever reports, repeats, ticks and uploads come in between, the count of a burst is the
\* number of its pulses that the documented meaning of a click counts: neither too long, nor
\* followed by one that was, nor a bounce (onSignal() and tick(), Actions.cpp).
THEOREM ClicksAreRight == HSpec => []ClicksMatchPulses
  <1>1. HInit => EngineInv /\ ClickInv
    <2> SUFFICES ASSUME HInit PROVE EngineInv /\ ClickInv
      OBVIOUS
    <2>1. now \in Time
      BY UptimeAssumption DEF HInit, GInit, Time
    <2>2. EngineInv
      BY <2>1, EngineInitially DEF HInit, GInit
    <2>3. ASSUME NEW g \in DOMAIN gcfg PROVE Follows(gcfg[g], rt[g], story[g])
      <3>1. g \in Gestures
        BY <2>2, GestureFacts
      <3>2. rt[g] = Fresh /\ story[g] = NoStory
        BY <3>1, Zenon DEF HInit, GInit, EngineInit
      <3> QED
        BY <2>1, <3>2, FreshFollows
    <2> QED
      BY <2>2, <2>3 DEF ClickInv
  <1>2. EngineInv /\ ClickInv /\ [HNext]_hvars => EngineInv' /\ ClickInv'
    <2> SUFFICES ASSUME EngineInv, ClickInv, [HNext]_hvars
                 PROVE  EngineInv' /\ ClickInv'
      OBVIOUS
    <2>1. [GNext]_gvars
      BY HistoryStepsAreSteps DEF hvars
    <2>2. EngineInv'
      BY <2>1, EngineInvNext
    <2>3. now \in Time /\ now <= now
      BY UptimeAssumption DEF EngineInv, GTypeOK, Time
    <2>4. CASE HReport /\ UNCHANGED now
      BY <2>2, <2>4, HReportStep
    <2>5. CASE HTick /\ UNCHANGED now
      BY <2>2, <2>5, HTickStep
    <2>6. CASE HLoad /\ UNCHANGED now
      BY <2>2, <2>6, HLoadStep
    <2>7. CASE TimePasses /\ UNCHANGED <<engineVars, story>>
      <3>1. now' \in Time /\ now <= now'
        BY <2>3, <2>7, UptimeAssumption DEF TimePasses, Time
      <3> QED
        BY <2>2, <2>7, <3>1, LaterFollows
    <2>8. CASE UNCHANGED hvars
      BY <2>2, <2>3, <2>8, LaterFollows DEF hvars, gvars
    <2> QED
      BY <2>2, <2>4, <2>5, <2>6, <2>7, <2>8 DEF HNext
  <1>3. EngineInv /\ ClickInv => ClicksMatchPulses
    <2> SUFFICES ASSUME EngineInv, ClickInv, NEW g \in DOMAIN gcfg
                 PROVE  rt[g].clicks = ClicksOf(gcfg[g], story[g].pulses)
      BY DEF ClicksMatchPulses
    <2>1. Follows(gcfg[g], rt[g], story[g])
      BY DEF ClickInv
    <2>2. PICK C : Counts(gcfg[g], story[g].pulses, C, rt[g].clicks, rt[g].lastReleaseUs)
      BY <2>1 DEF Follows
    <2>3. story[g].pulses \in Seq(Pulse)
      BY <2>1 DEF Follows, IsStory
    <2> QED
      BY <2>2, <2>3, ClicksAreCounted
  <1> QED
    BY <1>1, <1>2, <1>3, PTL DEF HSpec

===============================================================================
