---------------------------- MODULE DrivingLights ----------------------------
(***************************************************************************)
(* How the tasks of main/main.cpp drive the outputs together: the CAN      *)
(* worker feeds decoded signals to OutputBank and then to GestureEngine,   *)
(* actionsTask ticks both with one timestamp, MQTT and HTTP commands       *)
(* switch outputs directly, and an upload replaces the signals, then the   *)
(* outputs, then the gestures.  The S3 has two cores and the tasks are not *)
(* pinned, so any two of these steps interleave.                           *)
(***************************************************************************)
EXTENDS OutputBank, GestureEngine

CONSTANTS
    Uploader,    \* the HTTP task
    Documents    \* what it may be sent: an "outputs" and a "gestures" section

ASSUME LightsAssumption ==
    /\ Documents # {} => Uploader \in Users
    /\ \A d \in Documents : d.outputs \in Sections /\ d.gestures \in GestureSections

VARIABLES
    reported,  \* SignalTable: the text it last let through, by signal
    worker,    \* the CAN worker: where it is in onFrame, and with which report
    actions,   \* actionsTask: where it is in its loop, and the time it read
    uploader   \* POST /signals: which part of its document it applies next

taskVars == <<reported, worker, actions, uploader>>

lvars == <<now, bankVars, engineVars, taskVars>>

WorkerIdle == [pc |-> "idle"]
Asleep == [pc |-> "sleep"]
NoUpload == [pc |-> "none"]

-------------------------------------------------------------------------------
(* Time *)

Clock ==
    /\ TimePasses
    /\ UNCHANGED <<bankVars, engineVars, taskVars>>

-------------------------------------------------------------------------------
(* The CAN worker *)

\* A frame with text t for signal s is received and decoded; SignalTable lets
\* only a text through that differs from the one it let through before.
Frame(s, t) ==
    /\ worker = WorkerIdle
    /\ reported[s] # t
    /\ reported' = [reported EXCEPT ![s] = t]
    /\ worker' = [pc |-> "bank", signal |-> s, text |-> t, recvUs |-> now]
    /\ UNCHANGED <<now, bankVars, engineVars, actions, uploader>>

\* outputs.onSignal(...)
TellBank ==
    /\ worker.pc = "bank"
    /\ OnSignal(worker.signal, worker.text)
    /\ worker' = [worker EXCEPT !.pc = "engine"]
    /\ UNCHANGED <<now, engineVars, reported, actions, uploader>>

\* gestures.onSignal(...)
TellEngine ==
    /\ worker.pc = "engine"
    /\ EngineOnSignal(worker.signal, worker.text, worker.recvUs)
    /\ worker' = WorkerIdle
    /\ UNCHANGED <<now, bankVars, reported, actions, uploader>>

-------------------------------------------------------------------------------
(* actionsTask *)

\* The delay is over; the timestamp for both ticks is read.
Wake ==
    /\ actions = Asleep
    /\ Idle(Ticker)
    /\ actions' = [pc |-> "gestures", nowUs |-> now]
    /\ UNCHANGED <<now, bankVars, engineVars, reported, worker, uploader>>

\* gestures->tick(now), up to the end of its critical section.
TickGestures ==
    /\ actions.pc = "gestures"
    /\ EngineTick(actions.nowUs, { o \in Outputs : on[o] })
    /\ actions' = [actions EXCEPT !.pc = "apply"]
    /\ UNCHANGED <<now, bankVars, reported, worker, uploader>>

\* The rest of gestures->tick(now): the entries of fired are carried out one
\* output at a time, dips before bursts, each reported once it is done.
CarryOut ==
    /\ actions.pc = "apply"
    /\ \E f \in fired :
          /\ f.clicks # 0 => \A h \in fired : h.clicks # 0
          /\ \/ \E o \in f.outputs :
                   /\ Set(Ticker, o, f.level)
                   /\ fired' = (fired \ {f}) \cup {[f EXCEPT !.outputs = @ \ {o}]}
             \/ /\ f.outputs = {}
                /\ Idle(Ticker)
                /\ fired' = fired \ {f}
                /\ UNCHANGED bankVars
    /\ UNCHANGED <<now, gcfg, rt, lastSignal, taskVars>>

\* Seeded fault: the outputs are ticked without waiting for the gestures.
TickOutputsEarly ==
    /\ actions.pc = "apply"
    /\ Tick(Ticker, actions.nowUs)
    /\ actions' = Asleep
    /\ UNCHANGED <<now, engineVars, reported, worker, uploader>>

\* outputs->tick(now), with the timestamp of Wake.
TickOutputs ==
    /\ actions.pc = "apply"
    /\ fired = {}
    /\ Tick(Ticker, actions.nowUs)
    /\ actions' = Asleep
    /\ UNCHANGED <<now, engineVars, reported, worker, uploader>>

-------------------------------------------------------------------------------
(* MQTT and HTTP *)

\* A task serves one request at a time.
Free(u) == u = Uploader => uploader = NoUpload

\* cmnd/<name>/output and POST /can/output.
Command(u) ==
    /\ Free(u)
    /\ \E o \in Outputs, level \in Levels : Set(u, o, level)
    /\ UNCHANGED <<now, engineVars, taskVars>>

\* The onChange hook of outputs_enable.
KillSwitch(u) ==
    /\ Free(u)
    /\ \E e \in BOOLEAN : SetEnabled(u, e)
    /\ UNCHANGED <<now, engineVars, taskVars>>

\* canreset, or a mark with "reset": every signal will be reported again.
ResetState(u) ==
    /\ Free(u)
    /\ reported' = [s \in Signals |-> Unknown]
    /\ UNCHANGED <<now, bankVars, engineVars, worker, actions, uploader>>

\* signals_.loadJson(): a new table is in force that has reported nothing yet.
UploadSignals ==
    /\ Documents # {}
    /\ uploader = NoUpload /\ Idle(Uploader)
    /\ reported' = [s \in Signals |-> Unknown]
    /\ uploader' = [pc |-> "outputs"]
    /\ UNCHANGED <<now, bankVars, engineVars, worker, actions>>

\* outputs_.loadJson(), where it first matters which document this is; a refusal
\* ends the upload.
UploadOutputs ==
    /\ uploader.pc = "outputs"
    /\ \E d \in Documents :
          /\ LoadJson(Uploader, d.outputs)
          /\ uploader' = IF Accepted(d.outputs)
                         THEN [pc |-> "gestures", section |-> d.gestures]
                         ELSE NoUpload
    /\ UNCHANGED <<now, engineVars, reported, worker, actions>>

\* gestures_.loadJson(), whose names are looked up among the new outputs.
UploadGestures ==
    /\ uploader.pc = "gestures"
    /\ EngineLoadJson(uploader.section, Configured)
    /\ uploader' = NoUpload
    /\ UNCHANGED <<now, bankVars, reported, worker, actions>>

\* change_(), called by the task whose call moved an output.
Hook(c) ==
    /\ AnnounceAny(c)
    /\ UNCHANGED <<now, engineVars, taskVars>>

-------------------------------------------------------------------------------
(* Specification *)

LInit ==
    /\ now = 0
    /\ BankInit
    /\ EngineInit
    /\ GesturesAccepted(gcfg, Configured)
    /\ reported = [s \in Signals |-> Unknown]
    /\ worker = WorkerIdle
    /\ actions = Asleep
    /\ uploader = NoUpload

ActionsTask == Wake \/ TickGestures \/ CarryOut \/ TickOutputs

Worker == TellBank \/ TellEngine

Upload == UploadSignals \/ UploadOutputs \/ UploadGestures

LNext ==
    \/ Clock
    \/ \E s \in Signals, t \in Texts : Frame(s, t)
    \/ Worker
    \/ ActionsTask
    \/ \E u \in Users : Command(u) \/ KillSwitch(u) \/ ResetState(u)
    \/ Upload
    \/ \E c \in Callers : Hook(c)

LSpec == LInit /\ [][LNext]_lvars

\* The scheduler runs every ready task, the hook that actionsTask calls only queues a
\* message, and actionsTask sleeps for 25ms at a time.
LFairSpec ==
    /\ LSpec
    /\ WF_lvars(Worker)
    /\ WF_lvars(ActionsTask)
    /\ WF_lvars(Hook(Ticker))
-------------------------------------------------------------------------------
(* Properties *)

\* Every variable of the tasks has its type, on top of the components' own, and
\* what a tick decided is carried out within its pass of the loop.
LTypeOK ==
    /\ TypeOK
    /\ EngineInv
    /\ fired # {} => actions.pc = "apply"
    /\ reported \in [Signals -> Texts \cup {Unknown}]
    /\ worker \in {WorkerIdle} \cup
          [pc : {"bank", "engine"}, signal : Signals, text : Texts, recvUs : Time]
    /\ actions \in {Asleep} \cup [pc : {"gestures", "apply"}, nowUs : Time]
    /\ uploader \in {NoUpload} \cup [pc : {"outputs"}]
                     \cup [pc : {"gestures"}, section : GestureSections]

\* A switch-off condition that is reported while the output is on takes effect,
\* whatever the riders, the commands, the gestures and an upload do meanwhile.
StopReportDouses ==
    \A o \in Outputs :
        (worker.pc = "bank" /\ WantsOff(o, worker.signal, worker.text)) ~> ~on[o]

\* The worker is about to tell the engine that the control of gesture g left its
\* trigger value.
LeavesTrigger(g) ==
    /\ g \in DOMAIN gcfg
    /\ worker.pc = "engine"
    /\ worker.signal = gcfg[g].signal
    /\ worker.text # gcfg[g].trigger
    /\ rt[g].pressed

\* off_on_release: when the control leaves the trigger while a listed output is
\* on, that output goes off - after a click, a bounce, or a mile of high beam -
\* unless an upload is about to replace the gesture.
DipHappens ==
    \A g \in Gestures, o \in Outputs :
        (LeavesTrigger(g) /\ o \in gcfg[g].releaseOff /\ on[o])
            ~> (~on[o] \/ uploader.pc = "gestures")

\* Why StopReportDouses can hold: as long as an output stays on, a report that asks to
\* switch it off is recorded, no step of any task drops the record, and no pass of
\* actionsTask ends with the output still on.
StopReportIsKept ==
    [][ \A o \in Outputs : (on[o] /\ on'[o]) =>
            /\ (TellBank /\ WantsOff(o, worker.signal, worker.text)) => offPending'[o]
            /\ offPending[o] => offPending'[o] /\ ~TickOutputs ]_lvars

\* A dip of output o by gesture g is due: the release is recorded, or tick() has decided
\* it and not carried it out yet.
DipDue(g, o) ==
    \/ rt[g].releasePending
    \/ \E f \in fired : f.gesture = g /\ f.clicks = 0 /\ o \in f.outputs

\* Why DipHappens can hold: as long as the output stays on, a release makes its dip due
\* and no step but the arrival of new gestures makes it forgotten - tick() consumes the
\* record only with a decision, and what it decided is dropped only when it is done.
DipIsKept ==
    [][ \A g \in DOMAIN gcfg : \A o \in gcfg[g].releaseOff :
            (/\ on[o] /\ on'[o]
             /\ ~UploadGestures
             /\ DipDue(g, o) \/ (LeavesTrigger(g) /\ TellEngine)) => DipDue(g, o)' ]_lvars

\* "force off after this long on": actionsTask takes an output off, with no
\* off_when recorded for it, only when it has been on for auto_off_ms.
AutoOffRunsItsTime ==
    [][ \A o \in Outputs :
            (on[o] /\ ~on'[o] /\ TickOutputs /\ ~offPending[o]) =>
                now - onSinceUs[o] >= cfg[o].autoOff ]_lvars

\* "The window runs from the last release": a burst short of the full count
\* resolves only when that long has passed since its last release.
WindowRunsFromLastRelease ==
    [][ \A g \in DOMAIN gcfg :
            (/\ TickGestures
             /\ rt[g].clicks # 0 /\ rt'[g].clicks = 0
             /\ ~rt[g].fireNow
             /\ ~Armed(g, { o \in Outputs : on[o] })) =>
                now - rt[g].lastReleaseUs >= gcfg[g].window ]_lvars

\* "Checked here so a misspelled output is a 400 on upload rather than a gesture
\* that silently does nothing": between uploads, every output that a gesture
\* names is one the bank has.
GesturesNameOutputs == uploader = NoUpload => GesturesAccepted(gcfg, Configured)

\* No task is in the middle of anything.
AllQuiet ==
    /\ worker = WorkerIdle
    /\ actions = Asleep
    /\ \A c \in Callers : Idle(c)
    /\ \A o \in Outputs : ~offPending[o]

\* "A burst that would switch anything ON or toggle is refused unless that enum
\* signal's latest value matches": when only gestures switch, and everything that
\* was reported has been dealt with, no lamp a gesture guards with a requirement
\* is on although the signal last said what its off_when names.
GuardedLampsAreOff ==
    AllQuiet =>
        \A g \in DOMAIN gcfg, o \in Configured, s \in Signals :
            ( /\ gcfg[g].require # NoRequire
              /\ gcfg[g].require[1] = s
              /\ <<s, lastSignal[s]>> \in cfg[o].offWhen ) => ~on[o]
===============================================================================
