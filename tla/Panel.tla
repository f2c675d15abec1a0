--------------------------------- MODULE Panel ---------------------------------
(***************************************************************************)
(* What a panel at the broker sees (main/main.cpp): the outputs, announced *)
(* by the change hook, the RS485 link, reported by modbusTask and restated *)
(* once by telemetryTask, and the frames the CAN worker publishes.  All of *)
(* them go through the Publisher.                                          *)
(*                                                                         *)
(* Each writer looks at the state it tells of at one moment and publishes  *)
(* at a later one, without a lock in between.  One output, one link and    *)
(* one identifier stand for all.                                           *)
(***************************************************************************)
EXTENDS Publisher

CONSTANTS
    Callers,      \* the tasks that switch the output: MQTT, HTTP, actionsTask
    MaxChanges    \* bound on the changes of everything there is to tell

ASSUME PanelAssumption ==
    /\ IsFiniteSet(Callers) /\ Callers \cap {"modbus", "telemetry", "worker"} = {}
    /\ Writers = Callers \cup {"modbus", "telemetry", "worker"}
    /\ Topics = {"output", "link", "frame"} /\ Values = {0, 1}
    /\ MaxChanges \in Nat

VARIABLES
    on,          \* OutputBank's state of the output
    linkUp,      \* ModbusBus's health: consecErr is 0
    lastLinkUp,  \* modbusTask's lastLinkUp, "unknown" before the first
    prev,        \* FrameTable's last published payload
    enable,      \* settings.publishEnable
    telling,     \* what each writer is about to publish: none or one value
    restated,    \* telemetryTask has restated the link
    changes,     \* changes so far
    crossed,     \* history: the topics on which one writer has looked while another was
                 \* between its look and its message
    unannounced  \* history: since its last announced change an upload has switched the
                 \* output off

stateVars == <<on, linkUp, lastLinkUp, prev, enable, restated, changes, unannounced>>
panelVars == <<pubVars, stateVars, telling, crossed>>

Unknown == 2

TopicOf(w) ==
    CASE w \in Callers -> "output"
      [] w = "worker"  -> "frame"
      [] OTHER         -> "link"

Silent(w) == telling[w] = <<>> /\ w \notin refused

\* Another writer of the topic of w has looked, or modbusTask is about to.
Busy(w) ==
    \/ \E x \in Writers \ {w} : TopicOf(x) = TopicOf(w) /\ telling[x] # <<>>
    \/ w = "telemetry" /\ linkUp # lastLinkUp

\* Writer w is going to say v.
Tell(w, v) ==
    /\ telling' = [telling EXCEPT ![w] = <<v>>]
    /\ crossed' = IF Busy(w) THEN crossed \cup {TopicOf(w)} ELSE crossed

Change == changes < MaxChanges /\ changes' = changes + 1

-------------------------------------------------------------------------------
(* The writers look *)

\* set() or tick() changes the output under its lock, and then raises the event.
Switch(c) ==
    /\ Change
    /\ Silent(c)
    /\ on' = 1 - on /\ unannounced' = FALSE
    /\ Tell(c, on')
    /\ UNCHANGED <<pubVars, linkUp, lastLinkUp, prev, enable, restated>>

\* POST /signals, on the HTTP task: loadJson() builds every output anew, switched off, and
\* raises no event.  The task is not in the middle of switching the output.
Upload ==
    /\ "http" \in Callers => Silent("http")
    /\ on = 1
    /\ on' = 0 /\ unannounced' = TRUE
    /\ UNCHANGED <<pubVars, linkUp, lastLinkUp, prev, enable, restated, changes, telling, crossed>>

\* writeCoils() ends: the node answered, or it did not.
WriteCoils ==
    /\ telling["modbus"] = <<>>
    /\ \E up \in {0, 1} :
          /\ linkUp' = up
          /\ IF linkUp \notin {up, Unknown} THEN Change ELSE UNCHANGED changes
    /\ UNCHANGED <<pubVars, on, lastLinkUp, prev, enable, restated, telling, crossed, unannounced>>

\* modbusTask at the end of its cycle: "then transitions only".
ReportLink ==
    /\ linkUp # Unknown
    /\ Silent("modbus")
    /\ linkUp # lastLinkUp
    /\ lastLinkUp' = linkUp
    /\ Tell("modbus", linkUp)
    /\ UNCHANGED <<pubVars, on, linkUp, prev, enable, restated, changes, unannounced>>

\* "Restate the link alongside init": health(), once something was written.
RestateLink ==
    /\ ~restated
    /\ restated' = TRUE
    /\ IF linkUp = Unknown THEN UNCHANGED <<telling, crossed>> ELSE Tell("telemetry", linkUp)
    /\ UNCHANGED <<pubVars, on, linkUp, lastLinkUp, prev, enable, changes, unannounced>>

\* observe() answers that the frame is to be published: it changed, or its heartbeat is
\* due.  With publish_enable off that is all.
Observed(v) ==
    /\ Silent("worker")
    /\ prev' = v
    /\ IF enable
       THEN Tell("worker", v) /\ UNCHANGED <<pubQueue, publisher, current>>
       ELSE /\ Supersede("frame") /\ pubQueue' = Older("frame")
            /\ UNCHANGED <<telling, crossed>>
    /\ UNCHANGED <<pubDropped, refused, shown, unreported>>
    /\ UNCHANGED <<on, linkUp, lastLinkUp, enable, restated, unannounced>>

FrameChanges == Change /\ Observed(1 - prev)

\* Seeded fault: a heartbeat repeats nothing while the payload is the same.
HeartbeatIsDueOnChange == FALSE

HeartbeatIsDue == TRUE

Heartbeat == HeartbeatIsDue /\ Observed(prev) /\ UNCHANGED changes

SetEnable ==
    /\ Change
    /\ enable' = ~enable
    /\ UNCHANGED <<pubVars, on, linkUp, lastLinkUp, prev, restated, telling, crossed, unannounced>>

-------------------------------------------------------------------------------
(* The writers publish *)

Publish(w) ==
    /\ telling[w] # <<>>
    /\ PublishAsync(w, TopicOf(w), telling[w][1])
    /\ telling' = [telling EXCEPT ![w] = <<>>]
    /\ UNCHANGED <<stateVars, crossed>>

Writer(w) == Publish(w) \/ (CountDrop(w) /\ UNCHANGED <<stateVars, telling, crossed>>)

-------------------------------------------------------------------------------
(* Specification *)

\* The broker keeps what an earlier boot said last; of the link that may be anything.
PanelInit ==
    /\ \E v \in Values : PubInit([t \in Topics |-> IF t = "link" THEN v ELSE 0])
    /\ on = 0 /\ linkUp = Unknown /\ lastLinkUp = Unknown /\ prev = 0 /\ enable = TRUE
    /\ telling = [w \in Writers |-> <<>>]
    /\ restated = FALSE /\ changes = 0 /\ crossed = {} /\ unannounced = FALSE

PublisherRuns == PublisherTask /\ UNCHANGED <<stateVars, telling, crossed>>

Look ==
    \/ \E c \in Callers : Switch(c)
    \/ Upload
    \/ WriteCoils
    \/ ReportLink
    \/ RestateLink
    \/ FrameChanges
    \/ Heartbeat
    \/ SetEnable

PanelNext == Look \/ (\E w \in Writers : Writer(w)) \/ PublisherRuns

\* publish() returns, with success now and then; a task does not stop between looking and
\* publishing; modbusTask cycles; the identifier stays on the bus.
PanelSpec ==
    /\ PanelInit /\ [][PanelNext]_panelVars
    /\ WF_panelVars(PublisherRuns)
    /\ SF_panelVars(Delivered /\ UNCHANGED <<stateVars, telling, crossed>>)
    /\ \A w \in Writers : WF_panelVars(Writer(w))
    /\ WF_panelVars(ReportLink)
    /\ SF_panelVars(Heartbeat)

-------------------------------------------------------------------------------
(* Properties *)

\* Every variable has its type.
PanelTypeOK ==
    /\ PubTypeOK
    /\ on \in Values /\ prev \in Values /\ enable \in BOOLEAN
    /\ linkUp \in Values \cup {Unknown} /\ lastLinkUp \in Values \cup {Unknown}
    /\ telling \in [Writers -> {<<>>} \cup {<<v>> : v \in Values}]
    /\ restated \in BOOLEAN /\ changes \in 0 .. MaxChanges /\ crossed \subseteq Topics
    /\ unannounced \in BOOLEAN

\* The type invariant, and that no drop goes uncounted.
PanelSound == PanelTypeOK /\ DropsAccounted

Truth(t) == CASE t = "output" -> on [] t = "link" -> linkUp [] t = "frame" -> prev

\* No one is about to say anything on the topic, and nothing said is on its way.
Settled(t) ==
    /\ \A w \in Writers : TopicOf(w) = t => Silent(w)
    /\ \A i \in DOMAIN pubQueue : pubQueue[i].topic # t
    /\ publisher.pc = "publish" => publisher.msg.topic # t
    /\ t = "link" => lastLinkUp = linkUp /\ linkUp # Unknown

\* The broker was given the last there was to say.
Shown(t) == Settled(t) /\ current[t]

\* A topic shows the truth once it has settled, unless its last message was dropped, lost
\* or switched off, or the messages of two tasks have ever crossed on it.  One untruth is
\* left: after an upload that switched the output off the topic still says "on", until
\* the next announced change - and it is never wrong in another way.
ShowsTheTruth ==
    \A t \in Topics : (Shown(t) /\ t \notin crossed) =>
        shown[t] = IF t = "output" /\ unannounced THEN 1 ELSE Truth(t)

\* "an optional slow heartbeat so a static ID still reports in": whatever was dropped, lost
\* or not sent, the broker has the last payload in the end while publishing is enabled.
FrameCatchesUp == <>[]enable => <>[](shown["frame"] = prev)

\* "Every output change is announced, whatever caused it, so a Node-RED panel can show the
\* true state": two tasks at once are no exception, nor is an upload.
PanelIsTrue == Shown("output") => shown["output"] = on

\* "Every output change is announced", in the order in which the output changed: without an
\* upload since the last announced change the panel shows its state, whoever switched it.
AnnouncedInOrder == (Shown("output") /\ ~unannounced) => shown["output"] = on

\* "Restate the link alongside init" repairs the topic, and never leaves it on a state the
\* link had before.
RestateIsTrue == Shown("link") => shown["link"] = linkUp
===============================================================================
