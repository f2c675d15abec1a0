--------------------------- MODULE ModbusReconciler ---------------------------
(***************************************************************************)
(* class ModbusBus (main/ModbusBus.cpp) and modbusTask (main/main.cpp):    *)
(* the task that owns the RS485 port and writes the complete coil state of *)
(* each output node, on every notification and again on a heartbeat.       *)
(*                                                                         *)
(* The bank is seen through desiredCoils(), the variable wanted; the hook  *)
(* of a change runs after the change, and hooks counts the notifications   *)
(* still to be given.  The nodes are not in the repository: one takes over *)
(* a request that arrives and answers it, and forgets its coils when it    *)
(* restarts.                                                               *)
(***************************************************************************)
EXTENDS Naturals, FiniteSets, FiniteSetsExt

CONSTANTS
    Nodes,      \* unit ids
    Patterns,   \* what the coils of one node can be set to
    Dark,       \* a node that has just restarted
    Tables,     \* which nodes the outputs of a table use
    BriskLimit, \* failures in a row that are retried briskly, 5 in the code
    MaxHooks    \* bound on the notifications on their way

ASSUME ReconcilerAssumption ==
    /\ Nodes \subseteq Nat
    /\ Dark \in Patterns
    /\ Tables \subseteq SUBSET Nodes
    /\ BriskLimit \in Nat \ {0}
    /\ MaxHooks \in Nat

VARIABLES
    wanted,      \* OutputBank::desiredCoils()
    picture,     \* the copy of it the current cycle writes
    held,        \* the coils of each node
    answers,     \* the nodes that hear the master and are heard
    hooks,       \* notifications on their way to the task
    notified,    \* the task's notification value is not 0
    enable,      \* the setting modbus_enable
    running,     \* ctx_ # nullptr
    consecErr,   \* Health::consecErr, up to BriskLimit
    lastLinkUp,  \* the link state last reported since the port started
    timeDue,     \* lastTimeUs is 0 or a period ago
    task,        \* where the task is in its loop
    silent       \* history: the table was replaced since picture was taken

inputVars == <<hooks, notified, enable>>
busVars == <<running, consecErr>>
envVars == <<held, answers>>
linkVars == <<lastLinkUp, timeDue>>
rvars == <<wanted, picture, silent, inputVars, busVars, envVars, linkVars, task>>

Demands == UNION { [used -> Patterns] : used \in Tables }

At(pc) == task.pc = pc

-------------------------------------------------------------------------------
(* The outputs, the settings and the wire *)

\* An output moves: its change hook will notify the task.
OutputMoves ==
    /\ hooks < MaxHooks
    /\ wanted' \in { w \in Demands : DOMAIN w = DOMAIN wanted /\ w # wanted }
    /\ hooks' = hooks + 1
    /\ UNCHANGED <<picture, silent, notified, enable, busVars, envVars, linkVars, task>>

\* An upload replaces the table; every output starts off and no hook runs.
TableReplaced ==
    /\ wanted' \in { w \in Demands : \A n \in DOMAIN w : w[n] = Dark }
    /\ silent' = TRUE
    /\ UNCHANGED <<picture, inputVars, busVars, envVars, linkVars, task>>

\* The setting changes, and its hook will notify the task.
EnableChanges ==
    /\ hooks < MaxHooks
    /\ enable' = ~enable
    /\ hooks' = hooks + 1
    /\ UNCHANGED <<wanted, picture, silent, notified, busVars, envVars, linkVars, task>>

\* xTaskNotifyGive(g_modbusTask)
Notify ==
    /\ hooks > 0
    /\ hooks' = hooks - 1
    /\ notified' = TRUE
    /\ UNCHANGED <<wanted, picture, silent, enable, busVars, envVars, linkVars, task>>

\* A node is unplugged or plugged in, a wire breaks or is repaired.
WireChanges(n) ==
    /\ answers' = IF n \in answers THEN answers \ {n} ELSE answers \cup {n}
    /\ UNCHANGED <<wanted, picture, silent, inputVars, busVars, held, linkVars, task>>

\* A node browns out, or its watchdog expires.
NodeRestarts(n) ==
    /\ held' = [held EXCEPT ![n] = Dark]
    /\ UNCHANGED <<wanted, picture, silent, inputVars, busVars, answers, linkVars, task>>

\* modbus_time_period_ms has passed since the clock was last sent.
PeriodPasses ==
    /\ ~timeDue
    /\ timeDue' = TRUE
    /\ UNCHANGED <<wanted, picture, silent, inputVars, busVars, envVars, lastLinkUp, task>>

Environment ==
    \/ OutputMoves \/ TableReplaced \/ EnableChanges \/ Notify \/ PeriodPasses
    \/ \E n \in Nodes : WireChanges(n) \/ NodeRestarts(n)

-------------------------------------------------------------------------------
(* ModbusBus *)

\* writeCoils(), as counted in the health; ok says whether an answer came.
CountCoils(ok) ==
    consecErr' = CASE ok -> 0
                   [] ~ok /\ consecErr < BriskLimit -> consecErr + 1
                   [] ~ok /\ consecErr >= BriskLimit -> consecErr

\* Seeded fault: clock updates are counted in the health.
CountClockInHealth(ok) == CountCoils(ok)

\* writeRegisters() keeps its own counters.
CountClock(ok) == UNCHANGED consecErr

-------------------------------------------------------------------------------
(* modbusTask *)

\* start() fails; the delay takes no notification.
StartFails ==
    /\ At("top") /\ enable /\ ~running
    /\ task' = [pc |-> "retry"]
    /\ UNCHANGED <<wanted, picture, silent, inputVars, busVars, envVars, linkVars>>

RetryEnds ==
    /\ At("retry")
    /\ task' = [pc |-> "top"]
    /\ UNCHANGED <<wanted, picture, silent, inputVars, busVars, envVars, linkVars>>

\* start() brings the port up with a fresh Health.
Start ==
    /\ At("top") /\ enable /\ ~running
    /\ running' = TRUE
    /\ consecErr' = 0
    /\ lastLinkUp' = "unknown"
    /\ timeDue' = TRUE
    /\ task' = [pc |-> "cycle"]
    /\ UNCHANGED <<wanted, picture, silent, inputVars, envVars>>

\* The port is up already.
Continue ==
    /\ At("top") /\ enable /\ running
    /\ task' = [pc |-> "cycle"]
    /\ UNCHANGED <<wanted, picture, silent, inputVars, busVars, envVars, linkVars>>

\* The port is stopped if it runs, and the task waits for a notification or a second.
Disabled ==
    /\ At("top") /\ ~enable
    /\ running' = FALSE
    /\ task' = [pc |-> "wait", brisk |-> FALSE]
    /\ UNCHANGED <<wanted, picture, silent, inputVars, consecErr, envVars, linkVars>>

\* desiredCoils() is copied once for the whole cycle.
LookAtOutputs ==
    /\ At("cycle")
    /\ picture' = wanted
    /\ silent' = FALSE
    /\ task' = [pc |-> "write", todo |-> DOMAIN wanted, allOk |-> TRUE]
    /\ UNCHANGED <<wanted, inputVars, busVars, envVars, linkVars>>

\* Seeded fault: every node is sent the coils of the first one.
BitsOfFirst(n) == picture[Min(DOMAIN picture)]

\* What goes out to a node.
BitsFor(n) == picture[n]

\* Seeded fault: a failed write ends the cycle.
LeftAfterStopping(n) == IF n \in answers THEN task.todo \ {n} ELSE {}

\* The nodes still to be written after n.
LeftAfter(n) == task.todo \ {n}

\* writeCoils() for the next node of the table.  A node that does not answer may
\* have taken the request over all the same: only its answer was lost.
WriteCoils ==
    /\ At("write") /\ task.todo # {}
    /\ LET n == Min(task.todo) IN
       /\ \/ held' = [held EXCEPT ![n] = BitsFor(n)]
          \/ n \notin answers /\ UNCHANGED held
       /\ CountCoils(n \in answers)
       /\ task' = [task EXCEPT !.todo = LeftAfter(n), !.allOk = @ /\ n \in answers]
    /\ UNCHANGED <<wanted, picture, silent, inputVars, running, answers, linkVars>>

\* The coils are out; the clock follows when a period has passed or the port has
\* just started, if modbus_time_enable is set and SNTP has set the clock.
WritesEnd ==
    /\ At("write") /\ task.todo = {}
    /\ \E sendable \in BOOLEAN :
          /\ task' = [pc |-> "clock", allOk |-> task.allOk,
                      todo |-> IF sendable /\ timeDue THEN DOMAIN wanted ELSE {}]
          /\ timeDue' = (timeDue /\ ~sendable)
    /\ UNCHANGED <<wanted, picture, silent, inputVars, busVars, envVars, lastLinkUp>>

\* writeRegisters() for the next node.
WriteClock ==
    /\ At("clock") /\ task.todo # {}
    /\ LET n == Min(task.todo) IN
       /\ CountClock(n \in answers)
       /\ task' = [task EXCEPT !.todo = @ \ {n}]
    /\ UNCHANGED <<wanted, picture, silent, inputVars, running, envVars, linkVars>>

LinkState == IF consecErr = 0 THEN "up" ELSE "down"

\* A failed write is retried soon unless the node has been gone for a while.
IsBrisk == ~task.allOk /\ consecErr < BriskLimit

\* Seeded fault: the notification is taken at the end of the cycle.
ReportTakingNotification ==
    /\ At("clock") /\ task.todo = {}
    /\ lastLinkUp' = LinkState
    /\ task' = [pc |-> "wait", brisk |-> IsBrisk]
    /\ notified' = FALSE
    /\ UNCHANGED <<wanted, picture, silent, hooks, enable, busVars, envVars, timeDue>>

\* The link is reported if it changed, and the task chooses how long to wait.
Report ==
    /\ At("clock") /\ task.todo = {}
    /\ lastLinkUp' = LinkState
    /\ task' = [pc |-> "wait", brisk |-> IsBrisk]
    /\ UNCHANGED <<wanted, picture, silent, inputVars, busVars, envVars, timeDue>>

\* ulTaskNotifyTake: a notification, or the time is up.
Wake ==
    /\ At("wait")
    /\ notified' = FALSE
    /\ task' = [pc |-> "top"]
    /\ UNCHANGED <<wanted, picture, silent, hooks, enable, busVars, envVars, linkVars>>

ModbusTask ==
    \/ StartFails \/ RetryEnds \/ Start \/ Continue \/ Disabled
    \/ LookAtOutputs \/ WriteCoils \/ WritesEnd \/ WriteClock \/ Report \/ Wake

-------------------------------------------------------------------------------
(* Specification *)

RInit ==
    /\ wanted \in { w \in Demands : \A n \in DOMAIN w : w[n] = Dark }
    /\ picture = [n \in {} |-> Dark]
    /\ held = [n \in Nodes |-> Dark]
    /\ answers \in SUBSET Nodes
    /\ hooks = 0 /\ notified = FALSE
    /\ enable \in BOOLEAN
    /\ running = FALSE /\ consecErr = 0
    /\ lastLinkUp = "unknown" /\ timeDue = TRUE
    /\ task = [pc |-> "top"]
    /\ silent = FALSE

RNext == Environment \/ ModbusTask

RSpec == RInit /\ [][RNext]_rvars

\* The scheduler runs the task, and every wait of it has a timeout.
RFairSpec == RSpec /\ WF_rvars(ModbusTask)

-------------------------------------------------------------------------------
(* Properties *)

\* Every variable has its type, and nothing is sent while the port is down.
RTypeOK ==
    /\ wanted \in Demands
    /\ picture \in Demands \cup {[n \in {} |-> Dark]}
    /\ held \in [Nodes -> Patterns]
    /\ answers \subseteq Nodes
    /\ hooks \in 0 .. MaxHooks
    /\ notified \in BOOLEAN /\ enable \in BOOLEAN /\ running \in BOOLEAN
    /\ timeDue \in BOOLEAN /\ silent \in BOOLEAN
    /\ consecErr \in 0 .. BriskLimit
    /\ lastLinkUp \in {"unknown", "up", "down"}
    /\ task \in [pc : {"top", "retry", "cycle"}] \cup [pc : {"wait"}, brisk : BOOLEAN]
                \cup [pc : {"write", "clock"}, todo : SUBSET Nodes, allOk : BOOLEAN]
    /\ task.pc \in {"cycle", "write", "clock"} => running

\* The task never sleeps over a change that announced itself: whenever it waits
\* with a picture that is out of date, a notification has been given or is on its
\* way - unless the change was an upload, which gives none.
NoLostWakeup ==
    At("wait") /\ running /\ picture # wanted => notified \/ hooks > 0 \/ silent

\* A cycle that got an answer to every coil write is not reported as a fault,
\* whatever became of the clock updates.
CleanCycleIsUp ==
    At("clock") /\ task.allOk /\ DOMAIN picture # {} => consecErr = 0

\* The link between the bank and the nodes is a mirror: a node's coils change only by its
\* restart, or by taking over what the bank wanted of that node when the task last looked.
Mirror == INSTANCE CoilMirror
IsMirror == Mirror!MirrorSpec

\* Node n is used and reachable, and the port is up.
Reachable(n) ==
    /\ n \in DOMAIN wanted /\ n \in answers
    /\ enable /\ running

\* Once the outputs stand still, a node that can be reached comes to hold what is
\* wanted of it, however often it restarts, whether or not the last change was
\* announced, and although the other nodes are dead.
NodesConverge ==
    \A n \in Nodes :
        <>[]Reachable(n) /\ <>[][UNCHANGED wanted]_wanted =>
            []<>(n \in DOMAIN wanted /\ held[n] = wanted[n])

\* "Writes the complete coil state on every change, and again every period":
\* NoLostWakeup for every change.
EveryChangeWakes ==
    At("wait") /\ running /\ picture # wanted => notified \/ hooks > 0

\* "Retry briskly for the first few failures, then settle to the heartbeat": while
\* the port stays up, the task keeps coming back to a full wait.
BacksOff == <>[]running => []<>(At("wait") /\ ~task.brisk)
===============================================================================
