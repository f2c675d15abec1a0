------------------------------ MODULE OutputBank ------------------------------
(***************************************************************************)
(* class OutputBank (main/Actions.h, main/Actions.cpp): the named outputs  *)
(* of the "outputs" section, each a set of local GPIOs and Modbus coils    *)
(* that are driven together.                                               *)
(*                                                                         *)
(* Every method holds lock_ for its whole critical section, so each is one *)
(* action.  The change callback runs after the lock is released: the       *)
(* events a call produced stay in pending[c] of the task c that made it,   *)
(* and Announce(c) hands them over one at a time, interleaved with the     *)
(* calls of the other tasks.  A task is inside its call until its events   *)
(* are gone.                                                               *)
(***************************************************************************)
EXTENDS Board, Integers, FiniteSets

CONSTANTS
    Users,     \* the tasks that serve a human: MQTT and HTTP
    Ticker,    \* actionsTask
    Pins,      \* GPIO numbers a table may name
    Reserved,  \* the GPIOs gpioRejectReason() refuses
    Slaves,    \* Modbus unit ids
    CoilSpan,  \* coil addresses are 0 .. CoilSpan-1
    Sections   \* the "outputs" sections that are uploaded

Levels == {"on", "off", "toggle"}

\* One entry of the "outputs" section, as struct Output keeps it.
OutputConfig ==
    [gpios     : SUBSET Pins,
     coils     : SUBSET (Slaves \X (0 .. CoilSpan - 1)),
     activeLow : BOOLEAN,
     autoOff   : Nat,
     offWhen   : SUBSET (Signals \X Texts)]

\* A section maps the names it declares to their entries.
IsSection(sect) ==
    /\ DOMAIN sect \subseteq Outputs
    /\ sect \in [DOMAIN sect -> OutputConfig]

ASSUME BankAssumption ==
    /\ IsFiniteSet(Users) /\ Ticker \notin Users
    /\ Reserved \subseteq Pins
    /\ CoilSpan \in Nat
    /\ \A sect \in Sections : IsSection(sect)
    /\ \A sect \in Sections : \A o \in DOMAIN sect : sect[o].autoOff < Wrap

VARIABLES
    cfg,         \* outputs_: the configuration in force, by name
    on,          \* Output::on
    onSinceUs,   \* Output::onSinceUs
    offPending,  \* Output::offPending
    enabled,     \* enabled_, the outputs_enable kill switch
    pin,         \* what each GPIO does: "input" after gpio_reset_pin
    pending,     \* events collected under the lock, not yet given to change_
    balance      \* history: announced ons less announced and silent offs

bankVars == <<cfg, on, onSinceUs, offPending, enabled, pin, pending, balance>>

Callers == Users \cup {Ticker}

Configured == DOMAIN cfg

Event == [name : Outputs, on : BOOLEAN]

-------------------------------------------------------------------------------
(* Helpers *)

\* The level that puts an output with this entry in state v.
LevelFor(entry, v) == IF v # entry.activeLow THEN "high" ELSE "low"

\* Seeded fault: the check that a pin is used once is gone.
AcceptedSharingPins(sect) ==
    /\ \A o \in DOMAIN sect : sect[o].gpios \cap Reserved = {}
    /\ \A o, q \in DOMAIN sect : o # q => sect[o].coils \cap sect[q].coils = {}

\* The entries do not fight over a pin or a coil, and no pin is reserved.
Accepted(sect) ==
    /\ \A o \in DOMAIN sect : sect[o].gpios \cap Reserved = {}
    /\ \A o, q \in DOMAIN sect :
          o # q => /\ sect[o].gpios \cap sect[q].gpios = {}
                   /\ sect[o].coils \cap sect[q].coils = {}

\* driveLocked for each output of S.
Driven(S, v) ==
    [p \in Pins |->
        IF \E o \in S : p \in cfg[o].gpios
        THEN LevelFor(cfg[CHOOSE o \in S : p \in cfg[o].gpios], v)
        ELSE pin[p]]

\* applyLocked for each output of S: outputs already in state v are skipped,
\* the others yield one event each, kept by the calling task.
Apply(c, S, v) ==
    LET moved == { o \in S : on[o] # v } IN
    /\ pin' = Driven(moved, v)
    /\ on' = [o \in Outputs |-> IF o \in moved THEN v ELSE on[o]]
    /\ onSinceUs' = [o \in Outputs |->
                        IF o \in moved THEN (IF v THEN now ELSE 0) ELSE onSinceUs[o]]
    /\ offPending' = [o \in Outputs |-> offPending[o] /\ o \notin moved]
    /\ pending' = [pending EXCEPT ![c] = { [name |-> o, on |-> v] : o \in moved }]

\* A task starts a call only when its previous one has returned.
Idle(c) == pending[c] = {}

-------------------------------------------------------------------------------
(* Operations *)

\* Seeded fault: the kill switch is not consulted.
MayDriveIgnoringSwitch(name) == name \in Configured

\* The early return of set(), and the search for the name.
MayDrive(name) == enabled /\ name \in Configured

\* set(): nothing happens while disabled, or for a name the bank does not have.
Set(c, name, level) ==
    /\ Idle(c)
    /\ IF MayDrive(name)
       THEN Apply(c, {name}, IF level = "toggle" THEN ~on[name] ELSE level = "on")
       ELSE UNCHANGED <<pin, on, onSinceUs, offPending, pending>>
    /\ UNCHANGED <<cfg, enabled, balance>>

\* Seeded fault: outputs that are off record the condition too.
WantsOffAlways(o, signal, text) ==
    o \in Configured /\ <<signal, text>> \in cfg[o].offWhen

\* The condition matters to an output that is on.
WantsOff(o, signal, text) ==
    o \in Configured /\ on[o] /\ <<signal, text>> \in cfg[o].offWhen

\* onSignal(): remember the condition for tick() to act on.
OnSignal(signal, text) ==
    /\ offPending' = [o \in Outputs |-> offPending[o] \/ WantsOff(o, signal, text)]
    /\ UNCHANGED <<cfg, on, onSinceUs, enabled, pin, pending, balance>>

\* Seeded fault: off_when is only looked at for outputs with a timer.
DueOnTimerOnly(nowUs) ==
    { o \in Configured :
        on[o] /\ cfg[o].autoOff # 0
              /\ (offPending[o] \/ Elapsed(nowUs, onSinceUs[o]) >= cfg[o].autoOff) }

\* Seeded fault: outputs with an off_when ignore their timer.
DueWithoutTimer(nowUs) ==
    { o \in Configured :
        on[o] /\ IF cfg[o].offWhen # {} THEN offPending[o]
                 ELSE cfg[o].autoOff # 0
                      /\ Elapsed(nowUs, onSinceUs[o]) >= cfg[o].autoOff }

\* tick() switches these outputs off.
Due(nowUs) ==
    { o \in Configured :
        /\ on[o]
        /\ \/ offPending[o]
           \/ /\ cfg[o].autoOff # 0
              /\ Elapsed(nowUs, onSinceUs[o]) >= cfg[o].autoOff }

Tick(c, nowUs) ==
    /\ Idle(c)
    /\ Apply(c, Due(nowUs), FALSE)
    /\ UNCHANGED <<cfg, enabled, balance>>

\* Seeded fault: the outputs the kill switch forces off are not announced.
SetEnabledSilently(c, e) ==
    /\ Idle(c)
    /\ enabled # e
    /\ enabled' = e
    /\ on' = [o \in Outputs |-> on[o] /\ e]
    /\ offPending' = [o \in Outputs |-> offPending[o] /\ e]
    /\ pin' = IF e THEN pin ELSE Driven({ o \in Configured : on[o] }, FALSE)
    /\ UNCHANGED <<cfg, onSinceUs, pending, balance>>

\* setEnabled(): clearing the switch forces everything off.
SetEnabled(c, e) ==
    /\ Idle(c)
    /\ enabled # e
    /\ enabled' = e
    /\ IF e THEN UNCHANGED <<pin, on, onSinceUs, offPending, pending>>
            ELSE Apply(c, Configured, FALSE)
    /\ UNCHANGED <<cfg, balance>>

\* Seeded fault: outputs keep their state over an upload.
OnAfterLoadKept(o) == on[o]

\* The freshly installed outputs start off.
OnAfterLoad(o) == FALSE

\* loadJson(): a refused section changes nothing.  An accepted one releases the
\* old pins and parks the new ones at their inactive level; every output starts
\* off and no event is produced for those that were on.
LoadJson(c, sect) ==
    /\ Idle(c)
    /\ IF Accepted(sect)
       THEN /\ cfg' = sect
            /\ on' = [o \in Outputs |-> OnAfterLoad(o)]
            /\ onSinceUs' = [o \in Outputs |-> 0]
            /\ offPending' = [o \in Outputs |-> FALSE]
            /\ pin' = [p \in Pins |->
                          IF \E o \in DOMAIN sect : p \in sect[o].gpios
                          THEN LevelFor(sect[CHOOSE o \in DOMAIN sect : p \in sect[o].gpios],
                                        FALSE)
                          ELSE "input"]
            /\ balance' = [o \in Outputs |-> IF on[o] THEN balance[o] - 1 ELSE balance[o]]
       ELSE UNCHANGED <<cfg, on, onSinceUs, offPending, pin, balance>>
    /\ UNCHANGED <<enabled, pending>>

\* change_(): event ev of c's call reaches the hook, which publishes it.
Announce(c, ev) ==
    /\ ev \in pending[c]
    /\ pending' = [pending EXCEPT ![c] = @ \ {ev}]
    /\ balance' = [balance EXCEPT ![ev.name] = IF ev.on THEN @ + 1 ELSE @ - 1]
    /\ UNCHANGED <<cfg, on, onSinceUs, offPending, enabled, pin>>

AnnounceAny(c) == \E ev \in pending[c] : Announce(c, ev)

\* desiredCoils(): what the reconciler is told to write to a slave, and the span.
CoilsOf(slave) == { k \in UNION { cfg[o].coils : o \in Configured } : k[1] = slave }

CoilCount(slave) ==
    IF CoilsOf(slave) = {} THEN 0
    ELSE 1 + (CHOOSE a \in 0 .. CoilSpan - 1 :
                 /\ <<slave, a>> \in CoilsOf(slave)
                 /\ \A k \in CoilsOf(slave) : k[2] <= a)

DesiredCoils(slave) ==
    [a \in 0 .. CoilCount(slave) - 1 |->
        enabled /\ \E o \in Configured : on[o] /\ <<slave, a>> \in cfg[o].coils]

-------------------------------------------------------------------------------
(* Specification *)

\* Construction, then app_main loads the stored table and applies the setting.
BankInit ==
    /\ cfg \in { sect \in Sections : Accepted(sect) }
    /\ on = [o \in Outputs |-> FALSE]
    /\ onSinceUs = [o \in Outputs |-> 0]
    /\ offPending = [o \in Outputs |-> FALSE]
    /\ enabled \in BOOLEAN
    /\ pin = [p \in Pins |->
                 IF \E o \in Configured : p \in cfg[o].gpios
                 THEN LevelFor(cfg[CHOOSE o \in Configured : p \in cfg[o].gpios], FALSE)
                 ELSE "input"]
    /\ pending = [c \in Callers |-> {}]
    /\ balance = [o \in Outputs |-> 0]

Init == now = 0 /\ BankInit

vars == <<now, bankVars>>

\* The calls that leave the table alone.
Operate ==
    \/ \E c \in Callers, name \in Outputs, level \in Levels : Set(c, name, level)
    \/ \E s \in Signals, t \in Texts : OnSignal(s, t)
    \/ Tick(Ticker, now)
    \/ \E c \in Users, e \in BOOLEAN : SetEnabled(c, e)
    \/ \E c \in Callers : AnnounceAny(c)

Reload == \E c \in Users, sect \in Sections : LoadJson(c, sect)

Next ==
    \/ Operate /\ UNCHANGED now
    \/ Reload /\ UNCHANGED now
    \/ TimePasses /\ UNCHANGED bankVars

Spec == Init /\ [][Next]_vars

\* A hook call returns, and actionsTask comes back to tick() every 25ms however
\* many gesture actions it carries out in between.
Fairness ==
    /\ \A c \in Callers : WF_vars(AnnounceAny(c) /\ UNCHANGED now)
    /\ SF_vars(Tick(Ticker, now) /\ UNCHANGED now)

FairSpec == Spec /\ Fairness

-------------------------------------------------------------------------------
(* Properties *)

\* Every variable has its type; only a configured output can be on.
TypeOK ==
    /\ now \in Time
    /\ cfg \in Sections
    /\ on \in [Outputs -> BOOLEAN]
    /\ \A o \in Outputs : on[o] => o \in Configured
    /\ onSinceUs \in [Outputs -> Time]
    /\ offPending \in [Outputs -> BOOLEAN]
    /\ enabled \in BOOLEAN
    /\ pin \in [Pins -> {"input", "low", "high"}]
    /\ pending \in [Callers -> SUBSET Event]
    /\ balance \in [Outputs -> Int]

\* An off_when that onSignal() recorded never outlives the on-period it was
\* recorded for: whatever switched the output off meanwhile, the next on does
\* not start with a switch-off already queued.
PendingOffOnlyWhileOn == \A o \in Outputs : offPending[o] => on[o]

\* The kill switch: while outputs_enable is 0 nothing is energised, neither an
\* output, nor a pin, nor a coil, whatever calls are in flight.
DisabledMeansDark ==
    ~enabled =>
        /\ \A o \in Outputs : ~on[o]
        /\ \A o \in Configured : \A p \in cfg[o].gpios : pin[p] = LevelFor(cfg[o], FALSE)
        /\ \A s \in Slaves : \A a \in DOMAIN DesiredCoils(s) : ~DesiredCoils(s)[a]

\* Pins, coils and the logical state say the same: each pin of an output is at
\* the level of its state, each coil bit is the state of the one output that
\* claims it, coils nobody claims are written off, and a pin no output claims
\* has been released.
TargetsFollowOutputs ==
    /\ \A o \in Configured :
          /\ \A p \in cfg[o].gpios : pin[p] = LevelFor(cfg[o], on[o])
          /\ \A k \in cfg[o].coils : DesiredCoils(k[1])[k[2]] = on[o]
    /\ \A p \in Pins :
          (\A o \in Configured : p \notin cfg[o].gpios) => pin[p] = "input"
    /\ \A s \in Slaves : \A a \in DOMAIN DesiredCoils(s) :
          <<s, a>> \notin CoilsOf(s) => ~DesiredCoils(s)[a]

\* The events of output o that are still on their way to the hook.
Undelivered(o, v) == { c \in Callers : [name |-> o, on |-> v] \in pending[c] }

\* However the calls of several tasks interleave, each change of an output makes
\* exactly one event: its announced and its undelivered changes add up to its
\* state.  (The switch-offs of a table reload make none; balance deducts them.)
EveryChangeMakesOneEvent ==
    \A o \in Outputs :
        balance[o] + Cardinality(Undelivered(o, TRUE)) - Cardinality(Undelivered(o, FALSE))
            = IF on[o] THEN 1 ELSE 0

\* A recorded off_when is acted on: tick() switches the output off unless
\* something else does first.
RecordedOffHappens == \A o \in Outputs : offPending[o] ~> ~on[o]

\* An output whose auto_off time is up goes off.
TimerExpired(o) ==
    /\ o \in Configured
    /\ on[o]
    /\ cfg[o].autoOff # 0
    /\ now - onSinceUs[o] >= cfg[o].autoOff

ExpiredTimerSwitchesOff == \A o \in Outputs : TimerExpired(o) ~> ~on[o]

\* Every switch-off that is due happens, whether a signal or the timer asks for it.
DueSwitchOffsHappen == RecordedOffHappens /\ ExpiredTimerSwitchesOff
===============================================================================
