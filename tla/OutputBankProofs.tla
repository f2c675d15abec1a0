--------------------------- MODULE OutputBankProofs ---------------------------
(***************************************************************************)
(* Proofs about OutputBank, for every table, every set of tasks and every  *)
(* bound on the clock.  Each operation has a lemma of its own, so that a   *)
(* module that composes the bank with other components can cite it.        *)
(***************************************************************************)
EXTENDS OutputBank, NaturalFacts, FiniteSetTheorems, TLAPS

-------------------------------------------------------------------------------
(* The inductive invariant *)

\* The pins of an output are at the level of its state, the others are inputs.
PinsFollow ==
    \A p \in Pins :
        /\ \A o \in Configured : p \in cfg[o].gpios => pin[p] = LevelFor(cfg[o], on[o])
        /\ (\A o \in Configured : p \notin cfg[o].gpios) => pin[p] = "input"

\* The kill switch, as far as the logical states go.
SwitchHolds == ~enabled => \A o \in Outputs : ~on[o]

\* PinsFollow survives a call only because the table in force was accepted: two
\* outputs sharing a pin would overwrite each other's level.
BankInv ==
    /\ TypeOK
    /\ Accepted(cfg)
    /\ PendingOffOnlyWhileOn
    /\ SwitchHolds
    /\ PinsFollow

-------------------------------------------------------------------------------
(* Lemmas on the helpers *)

\* A driven pin is low or high.
LEMMA LevelForType ==
    ASSUME NEW entry, NEW v
    PROVE  LevelFor(entry, v) \in {"low", "high"}
  BY DEF LevelFor

\* The table in force is one of OutputConfig entries, by names of outputs.
LEMMA TableType ==
    ASSUME TypeOK
    PROVE  /\ Configured \subseteq Outputs
           /\ \A o \in Configured : /\ cfg[o] \in OutputConfig
                                    /\ cfg[o].gpios \subseteq Pins
  <1>1. IsSection(cfg)
    BY BankAssumption DEF TypeOK
  <1> QED
    BY <1>1 DEF IsSection, Configured, OutputConfig

\* Driving a set of outputs moves their pins and no other.
LEMMA DrivenPins ==
    ASSUME TypeOK, Accepted(cfg), NEW S \in SUBSET Configured, NEW v \in BOOLEAN
    PROVE  /\ Driven(S, v) \in [Pins -> {"input", "low", "high"}]
           /\ \A o \in S : \A p \in cfg[o].gpios : Driven(S, v)[p] = LevelFor(cfg[o], v)
           /\ \A p \in Pins :
                 (\A o \in S : p \notin cfg[o].gpios) => Driven(S, v)[p] = pin[p]
  <1>1. Driven(S, v) \in [Pins -> {"input", "low", "high"}]
    BY LevelForType DEF Driven, TypeOK
  <1>2. ASSUME NEW o \in S, NEW p \in cfg[o].gpios
        PROVE  Driven(S, v)[p] = LevelFor(cfg[o], v)
    <2>1. p \in Pins
      BY TableType
    <2>2. ASSUME NEW q \in S, p \in cfg[q].gpios
          PROVE  q = o
      BY <2>2 DEF Accepted, Configured
    <2>3. (CHOOSE q \in S : p \in cfg[q].gpios) = o
      BY <2>2
    <2> QED
      BY <2>1, <2>3 DEF Driven
  <1>3. ASSUME NEW p \in Pins, \A o \in S : p \notin cfg[o].gpios
        PROVE  Driven(S, v)[p] = pin[p]
    BY <1>3 DEF Driven
  <1> QED
    BY <1>1, <1>2, <1>3

-------------------------------------------------------------------------------
(* Each operation preserves the invariant *)

\* The heart of the matter: applying state v to the outputs of S.
LEMMA ApplyPreserves ==
    ASSUME BankInv, NEW c \in Callers, NEW S \in SUBSET Configured, NEW v \in BOOLEAN,
           Apply(c, S, v), UNCHANGED <<now, cfg, balance>>,
           enabled' \in BOOLEAN,
           v => enabled',
           enabled' \/ ~enabled \/ S = Configured
    PROVE  BankInv'
  <1> DEFINE moved == { o \in S : on[o] # v }
  <1>0. TypeOK /\ Accepted(cfg) /\ now \in Time /\ 0 \in Time
    BY UptimeAssumption DEF BankInv, TypeOK, Time
  <1>1. moved \in SUBSET Configured /\ Configured \subseteq Outputs
    BY <1>0, TableType
  <1>2. /\ on' \in [Outputs -> BOOLEAN]
        /\ \A o \in moved : on'[o] = v
        /\ \A o \in Outputs \ moved : on'[o] = on[o]
    BY <1>0, <1>1, Zenon DEF Apply, TypeOK
  <1>3. \A o \in S : on'[o] = v
    BY <1>1, <1>2
  <1>4. /\ onSinceUs' \in [Outputs -> Time]
        /\ offPending' \in [Outputs -> BOOLEAN]
        /\ \A o \in Outputs : offPending'[o] => offPending[o] /\ o \notin moved
        /\ pending' \in [Callers -> SUBSET Event]
    <2>1. onSinceUs' \in [Outputs -> Time]
      BY <1>0 DEF Apply, TypeOK
    <2>2. /\ offPending' \in [Outputs -> BOOLEAN]
          /\ \A o \in Outputs : offPending'[o] => offPending[o] /\ o \notin moved
      BY <1>0, Zenon DEF Apply, TypeOK
    <2>3. { [name |-> o, on |-> v] : o \in moved } \in SUBSET Event
      BY <1>1 DEF Event
    <2>4. pending' \in [Callers -> SUBSET Event]
      BY <1>0, <2>3, Zenon DEF Apply, TypeOK
    <2> QED
      BY <2>1, <2>2, <2>4
  <1>5. pin' = Driven(moved, v)
    BY DEF Apply
  <1>6. TypeOK'
    <2>1. pin' \in [Pins -> {"input", "low", "high"}]
      BY <1>0, <1>1, <1>5, DrivenPins
    <2>2. \A o \in Outputs : on'[o] => o \in Configured
      BY <1>0, <1>1, <1>2 DEF TypeOK
    <2> QED
      BY <1>0, <1>2, <1>4, <2>1, <2>2 DEF TypeOK, Configured
  <1>7. PendingOffOnlyWhileOn'
    BY <1>2, <1>4 DEF PendingOffOnlyWhileOn, BankInv
  <1>8. SwitchHolds'
    <2> SUFFICES ASSUME ~enabled', NEW o \in Outputs, on'[o]
                 PROVE  FALSE
      BY DEF SwitchHolds
    <2>1. ~v
      OBVIOUS
    <2>2. o \notin S
      BY <1>3, <2>1
    <2>3. on[o]
      BY <1>2, <2>2
    <2>4. enabled /\ o \in Configured
      BY <1>0, <2>3 DEF BankInv, SwitchHolds, TypeOK
    <2> QED
      BY <2>2, <2>4
  <1>9. PinsFollow'
    <2> SUFFICES ASSUME NEW p \in Pins
                 PROVE  /\ \A o \in Configured : p \in cfg[o].gpios =>
                              pin'[p] = LevelFor(cfg[o], on'[o])
                        /\ (\A o \in Configured : p \notin cfg[o].gpios) => pin'[p] = "input"
      BY DEF PinsFollow, Configured, LevelFor
    <2>1. ASSUME NEW o \in Configured, p \in cfg[o].gpios
          PROVE  pin'[p] = LevelFor(cfg[o], on'[o])
      <3>1. CASE o \in moved
        BY <1>0, <1>1, <1>2, <1>5, <2>1, <3>1, DrivenPins
      <3>2. CASE o \notin moved
        <4>1. \A q \in moved : p \notin cfg[q].gpios
          BY <1>0, <1>1, <2>1, <3>2 DEF Accepted, Configured
        <4>2. pin'[p] = pin[p]
          BY <1>0, <1>1, <1>5, <4>1, DrivenPins
        <4>3. on'[o] = on[o]
          BY <1>1, <1>2, <3>2
        <4> QED
          BY <2>1, <4>2, <4>3 DEF BankInv, PinsFollow
      <3> QED
        BY <3>1, <3>2
    <2>2. ASSUME \A o \in Configured : p \notin cfg[o].gpios
          PROVE  pin'[p] = "input"
      <3>1. pin'[p] = pin[p]
        BY <1>0, <1>1, <1>5, <2>2, DrivenPins
      <3> QED
        BY <2>2, <3>1 DEF BankInv, PinsFollow
    <2> QED
      BY <2>1, <2>2
  <1> QED
    BY <1>0, <1>6, <1>7, <1>8, <1>9 DEF BankInv, Accepted

\* Nothing but the clock or the announcements moved.
LEMMA StutterPreserves ==
    ASSUME BankInv, now' \in Time, UNCHANGED <<cfg, on, onSinceUs, enabled, pin>>,
           offPending' \in [Outputs -> BOOLEAN],
           \A o \in Outputs : offPending'[o] => on[o],
           pending' \in [Callers -> SUBSET Event], balance' \in [Outputs -> Int]
    PROVE  BankInv'
  <1>1. TypeOK'
    BY DEF BankInv, TypeOK, Configured
  <1>2. PinsFollow' /\ SwitchHolds' /\ Accepted(cfg)' /\ PendingOffOnlyWhileOn'
    BY DEF BankInv, PinsFollow, SwitchHolds, Accepted, PendingOffOnlyWhileOn, Configured, LevelFor
  <1> QED
    BY <1>1, <1>2 DEF BankInv

\* set(): an unknown name or a cleared switch changes nothing; otherwise one output
\* moves.
LEMMA SetPreserves ==
    ASSUME BankInv, NEW c \in Callers, NEW name \in Outputs, NEW level \in Levels,
           Set(c, name, level), UNCHANGED now
    PROVE  BankInv'
  <1>1. CASE MayDrive(name)
    <2> DEFINE v == IF level = "toggle" THEN ~on[name] ELSE level = "on"
    <2>1. v \in BOOLEAN
      BY Zenon DEF BankInv, TypeOK
    <2>2. Apply(c, {name}, v) /\ UNCHANGED <<now, cfg, balance>> /\ enabled' = enabled
      BY <1>1, Zenon DEF Set
    <2>3. enabled /\ {name} \in SUBSET Configured
      BY <1>1 DEF MayDrive
    <2> QED
      BY <2>1, <2>2, <2>3, ApplyPreserves
  <1>2. CASE ~MayDrive(name)
    <2>1. UNCHANGED <<now, cfg, on, onSinceUs, offPending, enabled, pin, pending, balance>>
      BY <1>2 DEF Set
    <2> QED
      BY <2>1, StutterPreserves DEF BankInv, TypeOK, PendingOffOnlyWhileOn
  <1> QED
    BY <1>1, <1>2

\* onSignal(): only outputs that are on are marked.
LEMMA OnSignalPreserves ==
    ASSUME BankInv, NEW s, NEW t, OnSignal(s, t), UNCHANGED now
    PROVE  BankInv'
  <1>1. /\ offPending' \in [Outputs -> BOOLEAN]
        /\ \A o \in Outputs : offPending'[o] => offPending[o] \/ on[o]
    BY Zenon DEF OnSignal, WantsOff
  <1>2. \A o \in Outputs : offPending'[o] => on[o]
    BY <1>1 DEF BankInv, PendingOffOnlyWhileOn
  <1> QED
    BY <1>1, <1>2, StutterPreserves DEF OnSignal, BankInv, TypeOK

\* tick(): what is due goes off.
LEMMA TickPreserves ==
    ASSUME BankInv, NEW c \in Callers, NEW nowUs, Tick(c, nowUs), UNCHANGED now
    PROVE  BankInv'
  <1>1. Due(nowUs) \in SUBSET Configured
    BY DEF Due
  <1> QED
    BY <1>1, ApplyPreserves DEF Tick, BankInv, TypeOK

\* setEnabled(): whoever clears the switch also switches everything off.
LEMMA SetEnabledPreserves ==
    ASSUME BankInv, NEW c \in Callers, NEW e \in BOOLEAN, SetEnabled(c, e), UNCHANGED now
    PROVE  BankInv'
  <1>1. CASE e
    <2>1. enabled' /\ enabled' \in BOOLEAN
      BY <1>1 DEF SetEnabled
    <2> QED
      BY <1>1, <2>1 DEF SetEnabled, BankInv, TypeOK, PendingOffOnlyWhileOn, PinsFollow,
                        SwitchHolds, Accepted, Configured, LevelFor
  <1>2. CASE ~e
    BY <1>2, ApplyPreserves DEF SetEnabled
  <1> QED
    BY <1>1, <1>2

\* The hook touches neither outputs nor pins.
LEMMA AnnouncePreserves ==
    ASSUME BankInv, NEW c \in Callers, AnnounceAny(c), UNCHANGED now
    PROVE  BankInv'
  <1> PICK ev \in pending[c] : Announce(c, ev)
    BY DEF AnnounceAny
  <1>1. pending' \in [Callers -> SUBSET Event]
    BY DEF Announce, BankInv, TypeOK
  <1>2. balance' \in [Outputs -> Int]
    <2>1. ev.name \in Outputs
      BY DEF BankInv, TypeOK, Event
    <2>2. balance \in [Outputs -> Int]
      BY DEF BankInv, TypeOK
    <2> QED
      BY <2>1, <2>2 DEF Announce
  <1> QED
    BY <1>1, <1>2, StutterPreserves DEF Announce, BankInv, TypeOK, PendingOffOnlyWhileOn

\* loadJson(): a refused section changes nothing, an accepted one starts over.
LEMMA LoadJsonPreserves ==
    ASSUME BankInv, NEW c \in Callers, NEW sect \in Sections, LoadJson(c, sect), UNCHANGED now
    PROVE  BankInv'
  <1>1. CASE Accepted(sect)
    <2>1. /\ cfg' = sect
          /\ on' = [o \in Outputs |-> FALSE]
          /\ onSinceUs' = [o \in Outputs |-> 0]
          /\ offPending' = [o \in Outputs |-> FALSE]
          /\ pin' = [p \in Pins |->
                        IF \E o \in DOMAIN sect : p \in sect[o].gpios
                        THEN LevelFor(sect[CHOOSE o \in DOMAIN sect : p \in sect[o].gpios], FALSE)
                        ELSE "input"]
          /\ balance' = [o \in Outputs |-> IF on[o] THEN balance[o] - 1 ELSE balance[o]]
          /\ UNCHANGED <<now, enabled, pending>>
      BY <1>1, Zenon DEF LoadJson, OnAfterLoad
    <2>2. balance' \in [Outputs -> Int]
      BY <2>1 DEF BankInv, TypeOK
    <2>3. pin' \in [Pins -> {"input", "low", "high"}]
      BY <2>1, LevelForType
    <2>4. onSinceUs' \in [Outputs -> Time]
      BY <2>1, UptimeAssumption DEF Time
    <2>5. \A o \in Outputs : ~on'[o] /\ ~offPending'[o]
      BY <2>1
    <2>6. on' \in [Outputs -> BOOLEAN] /\ offPending' \in [Outputs -> BOOLEAN]
      BY <2>1
    <2>7. TypeOK'
      BY <2>1, <2>2, <2>3, <2>4, <2>5, <2>6 DEF BankInv, TypeOK
    <2>8. PinsFollow'
      <3> SUFFICES ASSUME NEW p \in Pins
                   PROVE  /\ \A o \in DOMAIN sect : p \in sect[o].gpios =>
                                pin'[p] = LevelFor(sect[o], on'[o])
                          /\ (\A o \in DOMAIN sect : p \notin sect[o].gpios) => pin'[p] = "input"
        <4>1. cfg' = sect
          BY <2>1
        <4> QED
          BY <4>1 DEF PinsFollow, Configured, LevelFor
      <3>1. ASSUME NEW o \in DOMAIN sect, p \in sect[o].gpios
            PROVE  pin'[p] = LevelFor(sect[o], on'[o])
        <4>1. \A q \in DOMAIN sect : p \in sect[q].gpios => q = o
          BY <1>1, <3>1 DEF Accepted
        <4>2. (CHOOSE q \in DOMAIN sect : p \in sect[q].gpios) = o
          BY <3>1, <4>1
        <4>3. o \in Outputs
          BY BankAssumption DEF IsSection
        <4>4. on'[o] = FALSE
          BY <2>1, <4>3
        <4>5. pin'[p] = LevelFor(sect[o], FALSE)
          BY <2>1, <3>1, <4>2
        <4> QED
          BY <4>4, <4>5
      <3>2. (\A o \in DOMAIN sect : p \notin sect[o].gpios) => pin'[p] = "input"
        BY <2>1
      <3> QED
        BY <3>1, <3>2
    <2> QED
      BY <1>1, <2>1, <2>5, <2>7, <2>8
         DEF BankInv, Accepted, PendingOffOnlyWhileOn, SwitchHolds
  <1>2. CASE ~Accepted(sect)
    <2>1. UNCHANGED <<now, cfg, on, onSinceUs, offPending, enabled, pin, pending, balance>>
      BY <1>2 DEF LoadJson
    <2> QED
      BY <2>1, StutterPreserves DEF BankInv, TypeOK, PendingOffOnlyWhileOn
  <1> QED
    BY <1>1, <1>2

-------------------------------------------------------------------------------
(* The theorems *)

\* The boot sequence establishes the invariant.
LEMMA BankInitially == BankInit /\ now \in Time => BankInv
  <1> SUFFICES ASSUME BankInit, now \in Time
               PROVE  BankInv
    OBVIOUS
  <1>1. cfg \in Sections /\ Accepted(cfg)
    BY DEF BankInit
  <1>2. /\ on \in [Outputs -> BOOLEAN] /\ offPending \in [Outputs -> BOOLEAN]
        /\ \A o \in Outputs : ~on[o] /\ ~offPending[o]
    BY DEF BankInit
  <1>3. onSinceUs \in [Outputs -> Time]
    BY UptimeAssumption DEF BankInit, Time
  <1>4. enabled \in BOOLEAN /\ pending \in [Callers -> SUBSET Event] /\ balance \in [Outputs -> Int]
    BY DEF BankInit
  <1>5. pin = [p \in Pins |->
                  IF \E o \in Configured : p \in cfg[o].gpios
                  THEN LevelFor(cfg[CHOOSE o \in Configured : p \in cfg[o].gpios], FALSE)
                  ELSE "input"]
    BY DEF BankInit
  <1>6. pin \in [Pins -> {"input", "low", "high"}]
    BY <1>5, LevelForType
  <1>7. TypeOK
    BY <1>1, <1>2, <1>3, <1>4, <1>6 DEF TypeOK
  <1>8. PinsFollow
    <2> SUFFICES ASSUME NEW p \in Pins
                 PROVE  /\ \A o \in Configured : p \in cfg[o].gpios =>
                              pin[p] = LevelFor(cfg[o], on[o])
                        /\ (\A o \in Configured : p \notin cfg[o].gpios) => pin[p] = "input"
      BY DEF PinsFollow
    <2>1. ASSUME NEW o \in Configured, p \in cfg[o].gpios
          PROVE  pin[p] = LevelFor(cfg[o], on[o])
      <3>1. \A q \in Configured : p \in cfg[q].gpios => q = o
        BY <1>1, <2>1 DEF Accepted, Configured
      <3>2. (CHOOSE q \in Configured : p \in cfg[q].gpios) = o
        BY <2>1, <3>1
      <3>3. pin[p] = LevelFor(cfg[o], FALSE)
        BY <1>5, <2>1, <3>2
      <3>4. on[o] = FALSE
        BY <1>7, TableType DEF BankInit
      <3> QED
        BY <3>3, <3>4
    <2>2. (\A o \in Configured : p \notin cfg[o].gpios) => pin[p] = "input"
      BY <1>5
    <2> QED
      BY <2>1, <2>2
  <1> QED
    BY <1>1, <1>2, <1>7, <1>8 DEF BankInv, PendingOffOnlyWhileOn, SwitchHolds

\* Every step of the bank and of the clock preserves it.
LEMMA BankStep == BankInv /\ [Next]_vars => BankInv'
  <1> SUFFICES ASSUME BankInv, [Next]_vars
               PROVE  BankInv'
    OBVIOUS
  <1>0. Users \subseteq Callers /\ Ticker \in Callers
    BY DEF Callers
  <1>1. ASSUME NEW c \in Callers, NEW name \in Outputs, NEW level \in Levels,
               Set(c, name, level), UNCHANGED now
        PROVE  BankInv'
    BY <1>1, SetPreserves
  <1>2. ASSUME NEW s \in Signals, NEW t \in Texts, OnSignal(s, t), UNCHANGED now
        PROVE  BankInv'
    BY <1>2, OnSignalPreserves
  <1>3. CASE Tick(Ticker, now) /\ UNCHANGED now
    BY <1>0, <1>3, TickPreserves
  <1>4. ASSUME NEW c \in Users, NEW e \in BOOLEAN, SetEnabled(c, e), UNCHANGED now
        PROVE  BankInv'
    BY <1>0, <1>4, SetEnabledPreserves
  <1>5. ASSUME NEW c \in Callers, AnnounceAny(c), UNCHANGED now
        PROVE  BankInv'
    BY <1>5, AnnouncePreserves
  <1>6. ASSUME NEW c \in Users, NEW sect \in Sections, LoadJson(c, sect), UNCHANGED now
        PROVE  BankInv'
    BY <1>0, <1>6, LoadJsonPreserves
  <1>7. CASE TimePasses /\ UNCHANGED bankVars
    <2>1. now' \in Time
      BY <1>7, UptimeAssumption DEF TimePasses, Time, BankInv, TypeOK
    <2> QED
      BY <1>7, <2>1, StutterPreserves DEF bankVars, BankInv, TypeOK, PendingOffOnlyWhileOn
  <1>8. CASE UNCHANGED vars
    BY <1>8, StutterPreserves DEF vars, bankVars, BankInv, TypeOK, PendingOffOnlyWhileOn
  <1> QED
    BY <1>1, <1>2, <1>3, <1>4, <1>5, <1>6, <1>7, <1>8 DEF Next, Operate, Reload

\* The bank keeps its invariant through any interleaving of its callers.
THEOREM BankInvariant == Spec => []BankInv
  <1>1. Init => BankInv
    BY BankInitially, UptimeAssumption DEF Init, Time
  <1> QED
    BY <1>1, BankStep, PTL DEF Spec

\* Every variable keeps its type; only a configured output is ever on.
THEOREM TypeCorrect == Spec => []TypeOK
  <1>1. BankInv => TypeOK
    BY DEF BankInv
  <1> QED
    BY <1>1, BankInvariant, PTL

\* A recorded off_when never outlives the on-period it was recorded for.
THEOREM NoStaleSwitchOff == Spec => []PendingOffOnlyWhileOn
  <1>1. BankInv => PendingOffOnlyWhileOn
    BY DEF BankInv
  <1> QED
    BY <1>1, BankInvariant, PTL

\* Pins and coils are dark because the outputs are.
LEMMA DarkWhenDisabled == BankInv => DisabledMeansDark
  <1> SUFFICES ASSUME BankInv, ~enabled
               PROVE  /\ \A o \in Outputs : ~on[o]
                      /\ \A o \in Configured : \A p \in cfg[o].gpios :
                            pin[p] = LevelFor(cfg[o], FALSE)
                      /\ \A s \in Slaves : \A a \in DOMAIN DesiredCoils(s) : ~DesiredCoils(s)[a]
    BY DEF DisabledMeansDark
  <1>1. \A o \in Outputs : ~on[o]
    BY DEF BankInv, SwitchHolds
  <1>2. ASSUME NEW o \in Configured, NEW p \in cfg[o].gpios
        PROVE  pin[p] = LevelFor(cfg[o], FALSE)
    <2>1. o \in Outputs /\ p \in Pins
      BY TableType DEF BankInv
    <2>2. on[o] = FALSE
      BY <1>1, <2>1 DEF BankInv, TypeOK
    <2> QED
      BY <2>1, <2>2 DEF BankInv, PinsFollow
  <1>3. ASSUME NEW s \in Slaves, NEW a \in DOMAIN DesiredCoils(s)
        PROVE  ~DesiredCoils(s)[a]
    BY <1>3 DEF DesiredCoils
  <1> QED
    BY <1>1, <1>2, <1>3

\* While outputs_enable is 0, no output, no pin and no coil is energised.
THEOREM KillSwitchHolds == Spec => []DisabledMeansDark
  BY BankInvariant, DarkWhenDisabled, PTL

-------------------------------------------------------------------------------
(* Coils *)

\* The span handed to the reconciler reaches every coil an output names.
LEMMA SpanCoversCoils ==
    ASSUME TypeOK, NEW o \in Configured, NEW k \in cfg[o].coils
    PROVE  /\ k = <<k[1], k[2]>> /\ k[1] \in Slaves
           /\ k[2] \in DOMAIN DesiredCoils(k[1])
  <1>0. k \in Slaves \X (0 .. CoilSpan - 1) /\ CoilSpan \in Nat
    BY TableType, BankAssumption DEF OutputConfig
  <1>1. k = <<k[1], k[2]>> /\ k[1] \in Slaves /\ k[2] \in 0 .. CoilSpan - 1
    BY <1>0
  <1>2. k \in CoilsOf(k[1])
    BY DEF CoilsOf
  <1>3. ASSUME NEW l \in CoilsOf(k[1])
        PROVE  l = <<k[1], l[2]>> /\ l[2] \in 0 .. CoilSpan - 1
    <2>1. PICK q \in Configured : l \in cfg[q].coils /\ l[1] = k[1]
      BY DEF CoilsOf
    <2>2. l \in Slaves \X (0 .. CoilSpan - 1)
      BY <2>1, TableType DEF OutputConfig
    <2> QED
      BY <2>1, <2>2
  <1> DEFINE Below == { n \in Nat : <<k[1], CoilSpan - n>> \in CoilsOf(k[1]) }
             IsTop(a) == /\ <<k[1], a>> \in CoilsOf(k[1])
                         /\ \A l \in CoilsOf(k[1]) : l[2] <= a
  <1>4. PICK x \in Below : \A y \in Below : x <= y
    <2>1. CoilSpan - k[2] \in Nat /\ CoilSpan - (CoilSpan - k[2]) = k[2]
      BY <1>0, <1>1
    <2>2. Below # {}
      BY <1>1, <1>2, <2>1
    <2>3. Below \in SUBSET Nat
      OBVIOUS
    <2> HIDE DEF Below
    <2> QED
      BY <2>2, <2>3, LeastOf
  <1>5. CoilSpan - x \in 0 .. CoilSpan - 1
    <2>1. <<k[1], CoilSpan - x>> \in CoilsOf(k[1])
      BY <1>4
    <2> QED
      BY <1>3, <2>1
  <1>6. ASSUME NEW l \in CoilsOf(k[1])
        PROVE  l[2] <= CoilSpan - x
    <2>1. CoilSpan - l[2] \in Nat /\ CoilSpan - (CoilSpan - l[2]) = l[2] /\ l[2] \in Int
      BY <1>0, <1>3, <1>6
    <2>2. CoilSpan - l[2] \in Below
      BY <1>3, <1>6, <2>1
    <2>3. x <= CoilSpan - l[2] /\ x \in Nat
      BY <1>4, <2>2
    <2> QED
      BY <1>0, <2>1, <2>3
  <1>7. IsTop(CoilSpan - x)
    BY <1>4, <1>6
  <1> HIDE DEF IsTop
  <1>8. PICK top \in 0 .. CoilSpan - 1 :
            IsTop(top) /\ top = CHOOSE a \in 0 .. CoilSpan - 1 : IsTop(a)
    BY <1>5, <1>7
  <1>9. CoilCount(k[1]) = 1 + top
    BY <1>2, <1>8 DEF CoilCount, IsTop
  <1>10. k[2] <= top
    BY <1>2, <1>8 DEF IsTop
  <1> QED
    BY <1>0, <1>1, <1>8, <1>9, <1>10 DEF DesiredCoils

\* A coil bit is the state of the one output that may claim the coil.
LEMMA TargetsFollow == BankInv => TargetsFollowOutputs
  <1> SUFFICES ASSUME BankInv
               PROVE  TargetsFollowOutputs
    OBVIOUS
  <1>0. TypeOK /\ Accepted(cfg) /\ Configured \subseteq Outputs
    BY TableType DEF BankInv
  <1>1. ASSUME NEW o \in Configured, NEW p \in cfg[o].gpios
        PROVE  pin[p] = LevelFor(cfg[o], on[o])
    BY <1>0, TableType DEF BankInv, PinsFollow
  <1>2. ASSUME NEW o \in Configured, NEW k \in cfg[o].coils
        PROVE  DesiredCoils(k[1])[k[2]] = on[o]
    <2>1. k = <<k[1], k[2]>> /\ k[2] \in DOMAIN DesiredCoils(k[1])
      BY <1>0, SpanCoversCoils
    <2>2. DesiredCoils(k[1])[k[2]] =
             (enabled /\ \E q \in Configured : on[q] /\ <<k[1], k[2]>> \in cfg[q].coils)
      BY <2>1 DEF DesiredCoils
    <2>3. \A q \in Configured : k \in cfg[q].coils => q = o
      BY <1>0 DEF Accepted, Configured
    <2>4. on[o] => enabled
      BY <1>0 DEF BankInv, SwitchHolds
    <2>5. on[o] \in BOOLEAN
      BY <1>0 DEF TypeOK
    <2>6. (enabled /\ \E q \in Configured : on[q] /\ <<k[1], k[2]>> \in cfg[q].coils) <=> on[o]
      BY <2>1, <2>3, <2>4
    <2> QED
      BY <2>2, <2>5, <2>6, Zenon
  <1>3. ASSUME NEW p \in Pins, \A o \in Configured : p \notin cfg[o].gpios
        PROVE  pin[p] = "input"
    BY <1>3 DEF BankInv, PinsFollow
  <1>4. ASSUME NEW s \in Slaves, NEW a \in DOMAIN DesiredCoils(s), <<s, a>> \notin CoilsOf(s)
        PROVE  ~DesiredCoils(s)[a]
    <2>1. \A o \in Configured : <<s, a>> \notin cfg[o].coils
      BY <1>4 DEF CoilsOf
    <2> QED
      BY <1>4, <2>1 DEF DesiredCoils
  <1> QED
    BY <1>1, <1>2, <1>3, <1>4 DEF TargetsFollowOutputs

\* Pins and coils say what the outputs say, whatever table was loaded last.
THEOREM TargetsCorrect == Spec => []TargetsFollowOutputs
  BY BankInvariant, TargetsFollow, PTL

-------------------------------------------------------------------------------
(* Events *)

\* The events of an output among a finite set of tasks can be counted.
LEMMA UndeliveredCounts ==
    ASSUME NEW o, NEW v
    PROVE  /\ IsFiniteSet(Undelivered(o, v))
           /\ Cardinality(Undelivered(o, v)) \in Nat
  <1>1. IsFiniteSet(Callers)
    BY BankAssumption, FS_AddElement DEF Callers
  <1>2. Undelivered(o, v) \in SUBSET Callers
    BY DEF Undelivered
  <1> QED
    BY <1>1, <1>2, FS_Subset, FS_CardinalityType

\* The two counts of output o, and their sum with the announced changes.
Ons(o) == Cardinality(Undelivered(o, TRUE))
Offs(o) == Cardinality(Undelivered(o, FALSE))
Sum(o) == balance[o] + Ons(o) - Offs(o)

\* The numbers of undelivered events are natural numbers.
LEMMA CountsType ==
    ASSUME NEW o
    PROVE  Ons(o) \in Nat /\ Offs(o) \in Nat
  BY UndeliveredCounts DEF Ons, Offs

\* The event count of an output, read for each of its two states.
LEMMA SumIs ==
    ASSUME EveryChangeMakesOneEvent, NEW o \in Outputs
    PROVE  /\ on[o] => Sum(o) = 1
           /\ ~on[o] => Sum(o) = 0
  <1>1. Sum(o) = IF on[o] THEN 1 ELSE 0
    BY DEF EveryChangeMakesOneEvent, Sum, Ons, Offs
  <1> QED
    BY <1>1, Zenon

\* EveryChangeMakesOneEvent follows from the two cases
LEMMA SumsSuffice ==
    ASSUME \A o \in Outputs : (on[o] => Sum(o) = 1) /\ (~on[o] => Sum(o) = 0)
    PROVE  EveryChangeMakesOneEvent
  <1> SUFFICES ASSUME NEW o \in Outputs
               PROVE  Sum(o) = IF on[o] THEN 1 ELSE 0
    BY DEF EveryChangeMakesOneEvent, Sum, Ons, Offs
  <1> QED
    BY Zenon

\* ... and so it does in the next state.
LEMMA SumsSufficeNext ==
    ASSUME \A o \in Outputs : (on'[o] => Sum(o)' = 1) /\ (~on'[o] => Sum(o)' = 0)
    PROVE  EveryChangeMakesOneEvent'
  <1> SUFFICES ASSUME NEW o \in Outputs
               PROVE  Sum(o)' = IF on'[o] THEN 1 ELSE 0
    BY DEF EveryChangeMakesOneEvent, Sum, Ons, Offs
  <1> QED
    BY Zenon

\* Nothing that the counts depend on moved.
LEMMA CountsUnchanged ==
    ASSUME EveryChangeMakesOneEvent, UNCHANGED <<on, pending, balance>>
    PROVE  EveryChangeMakesOneEvent'
  BY DEF EveryChangeMakesOneEvent, Undelivered

\* The caller had nothing undelivered, so each change adds one event.
LEMMA ApplyCounts ==
    ASSUME BankInv, EveryChangeMakesOneEvent, NEW c \in Callers, Idle(c),
           NEW S \in SUBSET Configured, NEW v \in BOOLEAN, Apply(c, S, v), UNCHANGED balance
    PROVE  EveryChangeMakesOneEvent'
  <1> DEFINE moved == { o \in S : on[o] # v }
  <1> SUFFICES ASSUME NEW o \in Outputs
               PROVE  (on'[o] => Sum(o)' = 1) /\ (~on'[o] => Sum(o)' = 0)
    BY SumsSufficeNext
  <1>1. /\ on[o] => Sum(o) = 1
        /\ ~on[o] => Sum(o) = 0
        /\ balance[o] \in Int
        /\ on[o] \in BOOLEAN
    BY SumIs DEF BankInv, TypeOK
  <1>2. \A w \in BOOLEAN : c \notin Undelivered(o, w)
    BY DEF Undelivered, Idle
  <1>3. on'[o] = IF o \in moved THEN v ELSE on[o]
    BY DEF Apply
  <1>4. ASSUME NEW w \in BOOLEAN
        PROVE  Undelivered(o, w)' = IF o \in moved /\ w = v
                                    THEN Undelivered(o, w) \cup {c}
                                    ELSE Undelivered(o, w)
    <2>1. /\ pending \in [Callers -> SUBSET Event]
          /\ pending' = [pending EXCEPT ![c] = { [name |-> q, on |-> v] : q \in moved }]
      BY DEF Apply, BankInv, TypeOK
    <2>2. \A d \in Callers : d # c => pending'[d] = pending[d]
      BY <2>1
    <2>3. pending'[c] = { [name |-> q, on |-> v] : q \in moved }
      BY <2>1
    <2>4. [name |-> o, on |-> w] \in pending'[c] <=> o \in moved /\ w = v
      BY <2>3
    <2> HIDE DEF moved
    <2> QED
      BY <1>2, <2>2, <2>4 DEF Undelivered
  <1>5. \A w \in BOOLEAN :
            Cardinality(Undelivered(o, w)') =
                IF o \in moved /\ w = v THEN Cardinality(Undelivered(o, w)) + 1
                                        ELSE Cardinality(Undelivered(o, w))
    BY <1>2, <1>4, UndeliveredCounts, FS_AddElement
  <1>5a. Ons(o)' = IF o \in moved /\ v = TRUE THEN Ons(o) + 1 ELSE Ons(o)
    BY <1>5, Zenon DEF Ons
  <1>5b. Offs(o)' = IF o \in moved /\ v = FALSE THEN Offs(o) + 1 ELSE Offs(o)
    BY <1>5, Zenon DEF Offs
  <1>6. o \in moved => on[o] # v
    OBVIOUS
  <1>7. Ons(o) \in Nat /\ Offs(o) \in Nat
    BY CountsType
  <1> HIDE DEF moved
  <1>8. CASE o \notin moved
    <2>1. Sum(o)' = Sum(o)
      BY <1>5a, <1>5b, <1>8 DEF Sum
    <2> QED
      BY <1>1, <1>3, <1>8, <2>1, Zenon
  <1>9. CASE o \in moved /\ v
    <2>1. v = TRUE /\ Sum(o)' = Sum(o) + 1
      BY <1>1, <1>5a, <1>5b, <1>7, <1>9 DEF Sum
    <2>2. on'[o] /\ Sum(o) = 0
      BY <1>1, <1>3, <1>6, <1>9, Zenon
    <2> QED
      BY <2>1, <2>2
  <1>10. CASE o \in moved /\ ~v
    <2>1. v = FALSE /\ Sum(o)' = Sum(o) - 1
      BY <1>1, <1>5a, <1>5b, <1>7, <1>10 DEF Sum
    <2>2. ~on'[o] /\ Sum(o) = 1
      BY <1>1, <1>3, <1>6, <1>10, Zenon
    <2> QED
      BY <2>1, <2>2
  <1> QED
    BY <1>8, <1>9, <1>10

\* An announcement moves an event from the undelivered to the announced ones.
LEMMA AnnounceCounts ==
    ASSUME BankInv, EveryChangeMakesOneEvent, NEW c \in Callers, AnnounceAny(c)
    PROVE  EveryChangeMakesOneEvent'
  <1> PICK ev \in pending[c] : Announce(c, ev)
    BY DEF AnnounceAny
  <1>1. /\ pending \in [Callers -> SUBSET Event] /\ balance \in [Outputs -> Int]
        /\ on \in [Outputs -> BOOLEAN]
        /\ ev \in Event
    BY DEF BankInv, TypeOK
  <1> SUFFICES ASSUME NEW o \in Outputs
               PROVE  (on'[o] => Sum(o)' = 1) /\ (~on'[o] => Sum(o)' = 0)
    BY SumsSufficeNext
  <1>2. /\ on[o] => Sum(o) = 1
        /\ ~on[o] => Sum(o) = 0
        /\ balance[o] \in Int
        /\ on' = on
    BY <1>1, SumIs DEF Announce
  <1>3. balance'[o] = IF ev.name = o THEN (IF ev.on THEN balance[o] + 1 ELSE balance[o] - 1)
                      ELSE balance[o]
    BY <1>1 DEF Announce
  <1>4. ASSUME NEW w \in BOOLEAN
        PROVE  /\ Undelivered(o, w)' = IF ev = [name |-> o, on |-> w]
                                       THEN Undelivered(o, w) \ {c}
                                       ELSE Undelivered(o, w)
               /\ ev = [name |-> o, on |-> w] => c \in Undelivered(o, w)
    <2>1. \A d \in Callers : d # c => pending'[d] = pending[d]
      BY <1>1 DEF Announce
    <2>2. pending'[c] = pending[c] \ {ev}
      BY <1>1 DEF Announce
    <2> QED
      BY <2>1, <2>2 DEF Undelivered
  <1>5. \A w \in BOOLEAN :
            Cardinality(Undelivered(o, w)') =
                IF ev = [name |-> o, on |-> w] THEN Cardinality(Undelivered(o, w)) - 1
                                               ELSE Cardinality(Undelivered(o, w))
    BY <1>4, UndeliveredCounts, FS_RemoveElement
  <1>5a. Ons(o)' = IF ev = [name |-> o, on |-> TRUE] THEN Ons(o) - 1 ELSE Ons(o)
    BY <1>5, Zenon DEF Ons
  <1>5b. Offs(o)' = IF ev = [name |-> o, on |-> FALSE] THEN Offs(o) - 1 ELSE Offs(o)
    BY <1>5, Zenon DEF Offs
  <1>6. Ons(o) \in Nat /\ Offs(o) \in Nat
    BY CountsType
  <1>7. /\ ev = [name |-> o, on |-> TRUE] <=> ev.name = o /\ ev.on
        /\ ev = [name |-> o, on |-> FALSE] <=> ev.name = o /\ ~ev.on
    BY <1>1 DEF Event
  <1>8. Sum(o)' = Sum(o)
    <2>1. CASE ev.name # o
      BY <1>2, <1>3, <1>5a, <1>5b, <1>7, <2>1 DEF Sum
    <2>2. CASE ev.name = o /\ ev.on
      BY <1>2, <1>3, <1>5a, <1>5b, <1>6, <1>7, <2>2 DEF Sum
    <2>3. CASE ev.name = o /\ ~ev.on
      BY <1>2, <1>3, <1>5a, <1>5b, <1>6, <1>7, <2>3 DEF Sum
    <2> QED
      BY <2>1, <2>2, <2>3
  <1> QED
    BY <1>2, <1>8

\* A reload switches off what was on without an event, and balance deducts it.
LEMMA LoadJsonCounts ==
    ASSUME BankInv, EveryChangeMakesOneEvent, NEW c, NEW sect, LoadJson(c, sect)
    PROVE  EveryChangeMakesOneEvent'
  <1>1. CASE ~Accepted(sect)
    BY <1>1, CountsUnchanged DEF LoadJson
  <1>2. CASE Accepted(sect)
    <2> SUFFICES ASSUME NEW o \in Outputs
                 PROVE  ~on'[o] /\ Sum(o)' = 0
      BY SumsSufficeNext, Zenon
    <2>1. /\ on[o] => Sum(o) = 1
          /\ ~on[o] => Sum(o) = 0
          /\ balance[o] \in Int
      BY SumIs DEF BankInv, TypeOK
    <2>2. ~on'[o]
      BY <1>2 DEF LoadJson, OnAfterLoad
    <2>3. /\ on[o] => balance'[o] = balance[o] - 1
          /\ ~on[o] => balance'[o] = balance[o]
      <3>1. balance' = [q \in Outputs |-> IF on[q] THEN balance[q] - 1 ELSE balance[q]]
        BY <1>2 DEF LoadJson
      <3> QED
        BY <3>1, Zenon
    <2>4. \A w : Undelivered(o, w)' = Undelivered(o, w)
      BY <1>2 DEF LoadJson, Undelivered
    <2>5. /\ balance'[o] = balance[o] - 1 => Sum(o)' = Sum(o) - 1
          /\ balance'[o] = balance[o] => Sum(o)' = Sum(o)
      <3>1. Ons(o)' = Ons(o) /\ Offs(o)' = Offs(o)
        BY <2>4 DEF Ons, Offs
      <3> QED
        BY <2>1, <3>1, CountsType DEF Sum
    <2>6. CASE on[o]
      BY <2>1, <2>2, <2>3, <2>5, <2>6
    <2>7. CASE ~on[o]
      BY <2>1, <2>2, <2>3, <2>5, <2>7
    <2> QED
      BY <2>6, <2>7
  <1> QED
    BY <1>1, <1>2

\* set(): one change, one event, or neither.
LEMMA SetCounts ==
    ASSUME BankInv, EveryChangeMakesOneEvent, NEW c \in Callers, NEW name \in Outputs,
           NEW level \in Levels, Set(c, name, level)
    PROVE  EveryChangeMakesOneEvent'
  <1>1. CASE MayDrive(name)
    <2> DEFINE v == IF level = "toggle" THEN ~on[name] ELSE level = "on"
    <2>1. v \in BOOLEAN
      BY Zenon DEF BankInv, TypeOK
    <2>2. Idle(c) /\ Apply(c, {name}, v) /\ UNCHANGED balance
      BY <1>1, Zenon DEF Set
    <2>3. {name} \in SUBSET Configured
      BY <1>1 DEF MayDrive
    <2> QED
      BY <2>1, <2>2, <2>3, ApplyCounts
  <1>2. CASE ~MayDrive(name)
    BY <1>2, CountsUnchanged DEF Set
  <1> QED
    BY <1>1, <1>2

\* tick(): an event for each output that was due.
LEMMA TickCounts ==
    ASSUME BankInv, EveryChangeMakesOneEvent, NEW c \in Callers, NEW nowUs, Tick(c, nowUs)
    PROVE  EveryChangeMakesOneEvent'
  <1>1. Due(nowUs) \in SUBSET Configured
    BY DEF Due
  <1> QED
    BY <1>1, ApplyCounts DEF Tick

\* setEnabled(): an event for each output it forces off.
LEMMA SetEnabledCounts ==
    ASSUME BankInv, EveryChangeMakesOneEvent, NEW c \in Callers, NEW e \in BOOLEAN,
           SetEnabled(c, e)
    PROVE  EveryChangeMakesOneEvent'
  <1>1. CASE e
    BY <1>1, CountsUnchanged DEF SetEnabled
  <1>2. CASE ~e
    BY <1>2, ApplyCounts DEF SetEnabled
  <1> QED
    BY <1>1, <1>2

\* Every step keeps changes and events in balance.
LEMMA CountsStep == BankInv /\ EveryChangeMakesOneEvent /\ [Next]_vars => EveryChangeMakesOneEvent'
  <1> SUFFICES ASSUME BankInv, EveryChangeMakesOneEvent, [Next]_vars
               PROVE  EveryChangeMakesOneEvent'
    OBVIOUS
  <1>0. Users \subseteq Callers /\ Ticker \in Callers
    BY DEF Callers
  <1>1. CASE Operate
    <2>1. ASSUME NEW s \in Signals, NEW t \in Texts, OnSignal(s, t)
          PROVE  EveryChangeMakesOneEvent'
      BY <2>1, CountsUnchanged DEF OnSignal
    <2> QED
      BY <1>0, <1>1, <2>1, SetCounts, TickCounts, SetEnabledCounts, AnnounceCounts DEF Operate
  <1>2. CASE Reload
    BY <1>2, LoadJsonCounts DEF Reload
  <1>3. CASE UNCHANGED bankVars
    BY <1>3, CountsUnchanged DEF bankVars
  <1> QED
    BY <1>1, <1>2, <1>3 DEF Next, vars

\* At boot nothing is on and nothing was announced.
LEMMA CountsInitially == BankInit => EveryChangeMakesOneEvent
  <1> SUFFICES ASSUME BankInit, NEW o \in Outputs
               PROVE  ~on[o] /\ Sum(o) = 0
    BY SumsSuffice, Zenon
  <1>1. Undelivered(o, TRUE) = {} /\ Undelivered(o, FALSE) = {}
    BY DEF Undelivered, BankInit
  <1>2. balance[o] = 0 /\ ~on[o]
    BY DEF BankInit
  <1>3. Ons(o) = 0 /\ Offs(o) = 0
    BY <1>1, FS_EmptySet DEF Ons, Offs
  <1> QED
    BY <1>2, <1>3 DEF Sum

\* However many tasks call the bank at once, each change of an output makes
\* exactly one event.
THEOREM EventsCorrect == Spec => []EveryChangeMakesOneEvent
  <1>1. Init => EveryChangeMakesOneEvent
    BY CountsInitially DEF Init
  <1> QED
    BY <1>1, BankInvariant, CountsStep, PTL DEF Spec
===============================================================================
