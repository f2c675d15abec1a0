-------------------------------- MODULE CanNode --------------------------------
(***************************************************************************)
(* The TWAI controller of class CanBus (main/CanBus.h, main/CanBus.cpp) as *)
(* it is created, retuned and asked for its state, and the setting that    *)
(* says at which rate (main/main.cpp, main/CanWebServer.cpp).              *)
(*                                                                         *)
(* The driver knows a controller by its handle; node_ holds the handle, or *)
(* null.  setBitrate() deletes the controller and creates another one,     *)
(* with no lock, while other tasks go on using node_.  The driver is       *)
(* external: each of its calls may refuse, a refused call changes nothing, *)
(* and the chip has one controller.                                        *)
(*                                                                         *)
(* One settings change is applied at a time: the library that calls the    *)
(* hook is not part of the repository.                                     *)
(***************************************************************************)
EXTENDS Naturals, Sequences

CONSTANTS
    Rates,      \* the bit rates a user may ask for
    Default,    \* the compiled-in can_bitrate
    Allowed,    \* 10000 to 1000000
    Workable,   \* the rates the driver can time
    MaxNodes,   \* bound on the controllers created in one boot
    MaxBoots    \* bound on the boots

ASSUME NodeAssumption ==
    /\ Workable \subseteq Allowed /\ Allowed \subseteq Rates /\ Default \in Workable
    /\ MaxNodes \in Nat \ {0} /\ MaxBoots \in Nat \ {0}

VARIABLES
    setting,   \* settings.canBitrate
    stored,    \* the setting on the flash
    node,      \* node_: a handle, 0 when it is null
    handles,   \* the controllers created since boot: their rates and states
    bitrate,   \* bitrate_
    tuner,     \* the task that applies a setting: where it is
    reader,    \* statsTask or /can/status in info(): the handle it passed on
    boots,     \* boots so far, for the bound
    booted,    \* history: the rate start() was called with
    refusals,  \* history: refusals of the driver in the current call
    hurt,      \* history: one call since boot was refused more than once, or start() was
    touched,   \* history: the driver was given a deleted handle
    stuck      \* history: the controller createNode() could not enable and the driver would
               \* not delete, 0 when there is none

nvars == <<setting, stored, node, handles, bitrate, tuner, reader, boots, booted,
           refusals, hurt, touched, stuck>>

Idle == [pc |-> "idle"]
NotReading == 0
None == 0

\* The state of a handle; the driver has nothing running or stopped otherwise.
States == {"stopped", "running", "deleted"}

StateOf(h) == handles[h].st

SetState(h, st) == handles' = [handles EXCEPT ![h].st = st]

Exists == \E h \in DOMAIN handles : StateOf(h) # "deleted"

Refuse ==
    /\ refusals' = refusals + 1
    /\ hurt' = (hurt \/ refusals >= 1)

Agree == UNCHANGED <<refusals, hurt>>

-------------------------------------------------------------------------------
(* Boot *)

\* start() creates and enables a controller at the rate of the setting, or leaves
\* none - unless the driver will not delete the one it would not enable.  Its steps are
\* one: no other task has been created yet.
Boot(rate) ==
    /\ setting' = rate /\ booted' = rate
    /\ tuner' = Idle /\ reader' = NotReading
    /\ refusals' = 0
    /\ \/ /\ rate \in Workable
          /\ handles' = <<[rate |-> rate, st |-> "running"]>>
          /\ node' = 1 /\ bitrate' = rate /\ hurt' = FALSE /\ stuck' = None
       \/ /\ handles' = <<>>
          /\ node' = 0 /\ bitrate' = 0
          /\ hurt' = (rate \in Workable) /\ stuck' = None
       \/ /\ rate \in Workable
          /\ handles' = <<[rate |-> rate, st |-> "stopped"]>>
          /\ node' = 0 /\ bitrate' = 0 /\ hurt' = TRUE /\ stuck' = 1

\* The power fails, or a restart is asked for, at any moment.
Restart ==
    /\ boots < MaxBoots
    /\ boots' = boots + 1
    /\ Boot(stored)
    /\ UNCHANGED <<stored, touched>>

-------------------------------------------------------------------------------
(* can_bitrate changes: the hook, setBitrate(), and the save *)

\* loadFromJson() writes the setting and calls the hook.
Post(rate) ==
    /\ tuner = Idle
    /\ setting' = rate
    /\ tuner' = [pc |-> "hook"]
    /\ refusals' = 0
    /\ UNCHANGED <<stored, node, handles, bitrate, reader, boots, booted, hurt, touched, stuck>>

Goto(pc) == tuner' = [tuner EXCEPT !.pc = pc]

\* Out of range, no controller, or nothing to change.
Done == setting \notin Allowed \/ node = 0 \/ setting = bitrate

Hook ==
    /\ tuner.pc = "hook"
    /\ tuner' = IF Done THEN [pc |-> "save"]
                        ELSE [pc |-> "disable", rate |-> setting, previous |-> bitrate]
    /\ UNCHANGED <<setting, stored, node, handles, bitrate, reader, boots, booted, refusals, hurt, touched, stuck>>

Disable ==
    /\ tuner.pc = "disable"
    /\ \/ SetState(node, "stopped") /\ Goto("delete") /\ Agree
       \/ UNCHANGED handles /\ tuner' = [pc |-> "save"] /\ Refuse
    /\ UNCHANGED <<setting, stored, node, bitrate, reader, boots, booted, touched, stuck>>

Delete ==
    /\ tuner.pc = "delete"
    /\ \/ SetState(node, "deleted") /\ Goto("null") /\ Agree
       \/ UNCHANGED handles /\ Goto("put back") /\ Refuse
    /\ UNCHANGED <<setting, stored, node, bitrate, reader, boots, booted, touched, stuck>>

\* "put it back the way it was", whatever the driver says to it.
PutBack ==
    /\ tuner.pc = "put back"
    /\ \/ SetState(node, "running") /\ Agree
       \/ UNCHANGED handles /\ Refuse
    /\ tuner' = [pc |-> "save"]
    /\ UNCHANGED <<setting, stored, node, bitrate, reader, boots, booted, touched, stuck>>

\* node_ = nullptr, after the delete before.
ForgetNode ==
    /\ tuner.pc = "null"
    /\ node' = 0
    /\ Goto("new")
    /\ UNCHANGED <<setting, stored, handles, bitrate, reader, boots, booted, refusals, hurt, touched, stuck>>

\* Seeded fault: setBitrate() does not try the previous rate.
RetryNone(t) == [pc |-> "save"]

\* createNode() has failed: at the wanted rate it is called again with the previous
\* one, at that one setBitrate() gives up.
Retry(t) ==
    IF t.rate # t.previous THEN [t EXCEPT !.pc = "new", !.rate = t.previous]
                           ELSE [pc |-> "save"]

\* twai_new_node_onchip() writes node_ itself.
New ==
    /\ tuner.pc = "new"
    /\ \/ /\ tuner.rate \in Workable /\ ~Exists
          /\ Len(handles) < MaxNodes
          /\ handles' = Append(handles, [rate |-> tuner.rate, st |-> "stopped"])
          /\ node' = Len(handles')
          /\ Goto("enable") /\ Agree
       \/ /\ UNCHANGED handles /\ node' = 0
          /\ tuner' = Retry(tuner) /\ Refuse
    /\ UNCHANGED <<setting, stored, bitrate, reader, boots, booted, touched, stuck>>

\* twai_node_register_event_callbacks() and twai_node_enable(); a refusal of either leaves
\* a controller that is to be deleted.
Enable ==
    /\ tuner.pc = "enable"
    /\ \/ SetState(node, "running") /\ Goto("commit") /\ Agree
       \/ UNCHANGED handles /\ Goto("discard") /\ Refuse
    /\ UNCHANGED <<setting, stored, node, bitrate, reader, boots, booted, touched, stuck>>

\* Seeded fault: a controller that cannot be enabled is forgotten, not deleted.
DiscardedKept == "stopped"

\* A controller that cannot be enabled is deleted.
Discarded == "deleted"

\* twai_node_delete() in createNode(), which does not look at its result.
Discard ==
    /\ tuner.pc = "discard"
    /\ \/ SetState(node, Discarded) /\ Agree /\ UNCHANGED stuck
       \/ stuck' = node /\ Refuse /\ UNCHANGED handles
    /\ Goto("undo")
    /\ UNCHANGED <<setting, stored, node, bitrate, reader, boots, booted, touched>>

\* node_ = nullptr, whether the controller that could not be enabled is deleted or not.
Undo ==
    /\ tuner.pc = "undo"
    /\ node' = 0
    /\ tuner' = Retry(tuner)
    /\ UNCHANGED <<setting, stored, handles, bitrate, reader, boots, booted, refusals, hurt, touched, stuck>>

\* bitrate_ = bitrate, the rate createNode() was called with.
Commit ==
    /\ tuner.pc = "commit"
    /\ bitrate' = tuner.rate
    /\ tuner' = [pc |-> "save"]
    /\ UNCHANGED <<setting, stored, node, handles, reader, boots, booted, refusals, hurt, touched, stuck>>

\* settings.save(), whatever became of the hook.
Save ==
    /\ tuner.pc = "save"
    /\ stored' = setting
    /\ tuner' = Idle
    /\ UNCHANGED <<setting, node, handles, bitrate, reader, boots, booted, refusals, hurt, touched, stuck>>

-------------------------------------------------------------------------------
(* info() *)

\* node_ is not null; the call goes to the driver with what it holds.
AskInfo ==
    /\ reader = NotReading
    /\ node # 0
    /\ reader' = node
    /\ UNCHANGED <<setting, stored, node, handles, bitrate, tuner, boots, booted, refusals, hurt, touched, stuck>>

\* The driver reads the controller behind the handle.
ReadInfo ==
    /\ reader # NotReading
    /\ touched' = (touched \/ StateOf(reader) = "deleted")
    /\ reader' = NotReading
    /\ UNCHANGED <<setting, stored, node, handles, bitrate, tuner, boots, booted, refusals, hurt, stuck>>

-------------------------------------------------------------------------------
(* Specification *)

NInit ==
    /\ stored = Default /\ setting = Default
    /\ node = 1 /\ handles = <<[rate |-> Default, st |-> "running"]>> /\ bitrate = Default
    /\ tuner = Idle /\ reader = NotReading
    /\ boots = 1 /\ booted = Default
    /\ refusals = 0 /\ hurt = FALSE /\ touched = FALSE /\ stuck = None

SetBitrate == Disable \/ Delete \/ PutBack \/ ForgetNode \/ New \/ Enable \/ Discard \/ Undo \/ Commit

NNext ==
    \/ Restart
    \/ \E rate \in Rates : Post(rate)
    \/ Hook
    \/ SetBitrate
    \/ Save
    \/ AskInfo
    \/ ReadInfo

NSpec == NInit /\ [][NNext]_nvars

-------------------------------------------------------------------------------
(* Properties *)

Retuning == [pc : {"disable", "delete", "put back", "null", "new", "enable", "discard", "undo", "commit"},
             rate : Rates, previous : Rates]

\* Every variable has its type.
NTypeOK ==
    /\ {setting, stored, booted} \subseteq Rates /\ bitrate \in Rates \cup {0}
    /\ handles \in Seq([rate : Workable, st : States]) /\ Len(handles) <= MaxNodes
    /\ node \in 0 .. Len(handles) /\ reader \in 0 .. Len(handles)
    /\ stuck \in 0 .. Len(handles)
    /\ tuner \in {Idle} \cup [pc : {"hook", "save"}] \cup Retuning
    /\ boots \in 1 .. MaxBoots
    /\ refusals \in Nat /\ hurt \in BOOLEAN /\ touched \in BOOLEAN

\* At every step of setBitrate(), whatever the driver refuses, the controllers and node_
\* agree: the only controller that exists is the one in node_, and node_ names a deleted
\* one only between the delete and the assignment that follows it.  The one exception is
\* what createNode() makes of a refused delete, whose result it ignores: that controller is
\* left behind - stopped, never running - and there is no other for the rest of the boot.
NothingLeftBehind ==
    /\ \A h \in DOMAIN handles : StateOf(h) # "deleted" =>
          h = node \/ (h = stuck /\ StateOf(h) = "stopped" /\ node = 0)
    /\ (node # 0 /\ StateOf(node) = "deleted") => tuner.pc \in {"null", "undo"}

\* "On failure we rebuild at the previous rate so the monitor is never left dead after a
\* bad guess": between two settings, with no call since boot refused twice, a board
\* whose controller came up has it running, at the rate it reports.
OneRefusalIsSurvived ==
    (tuner = Idle /\ ~hurt /\ handles # <<>>) =>
        /\ node # 0
        /\ StateOf(node) = "running"
        /\ bitrate = handles[node].rate

\* "A few frames are missed across the switch; the worker task and queue are untouched,
\* so nothing else in the pipeline notices": nobody asks a controller that is gone.
NobodyNotices == ~touched

\* "... out of range [10000,1000000]; ignoring": no controller is ever asked to run
\* at a rate out of range.
OutOfRangeIsIgnored == booted \in Allowed /\ (bitrate = 0 \/ bitrate \in Allowed)

\* "the monitor is never left dead after a bad guess": with a driver that refuses
\* nothing but rates it cannot time, there is a controller between two settings,
\* whatever rate within the range was guessed.
NeverLeftDead == (tuner = Idle /\ ~hurt /\ booted \in Allowed) => node # 0
===============================================================================
