# Verification of canmqtt

canmqtt is the firmware of an ESP32-S3 on a motorcycle's CAN bus (`src/main/`, C++ on ESP-IDF/FreeRTOS).
It decodes frames with a table, publishes changes over MQTT, keeps a capture for reverse engineering, and
lets the rider switch auxiliary lights with the high-beam control, on local pins or over RS485.
This directory holds TLA+ models of its logic, TLC runs over small instances, and TLAPS proofs.
`PROJECT.json` lists the runs, the source lines of every definition, the hazards and the findings.

## 1. Inventory

### Components

| component | source | state | operations | what makes it correct |
|---|---|---|---|---|
| `OutputBank` | `Actions.{h,cpp}` | the outputs of the table with `on`, `onSinceUs`, `offPending`; `enabled_`; the pins | `loadJson`, `set`, `onSignal`, `tick`, `setEnabled`, `desiredCoils` | kill switch, pins and coils follow the state, every change told once, due switch-offs happen |
| `GestureEngine` | `Actions.{h,cpp}` | per gesture: last text, pressed, clicks, `fireNow`, `releasePending`; `lastSignal_` | `loadJson`, `onSignal`, `tick` | a click is a complete short pulse; bursts resolve once, in time; repeats do nothing |
| task wiring | `main.cpp` | where each task is; the time `actionsTask` read | `onFrame`, `actionsTask`, MQTT and HTTP handlers, setting hooks | a stop report or a dip takes effect whatever interleaves |
| RS485 reconciler | `main.cpp` `modbusTask`, `ModbusBus.*` | port, `Health`, notification, link state last reported | start, stop, cycle, wait | the nodes mirror the bank; no change is slept over; nodes converge |
| table store | `SignalTable.cpp` `signalstore`, `CanWebServer.cpp`, `main.cpp` | `signals.json`, `signals.tmp`, what each component runs | upload, boot, `write`, `ensureDefault` | the board can always decode after a reboot; answers are true |
| `FrameTable` | `FrameTable.*`, `CanWebServer.cpp` | hash table of IDs, ring of frames, ring of labels | `observe`, `mark`, `reset`, reports | every frame counted once; changes and heartbeats published; reports complete |
| `SignalTable` | `SignalTable.*` | per signal: last value, last publish | `loadJson`, `decode`, `resetState` | a change is reported once, none is lost to the deadband or `min_ms` |
| `CanClock` | `CanClock.*` | the field of the table, the last reading with its time | `loadJson`, `onFrame`, `timeOfDay`, `offsetVsLocal` | the answer follows the bike's clock, over midnight and after an upload |
| `CanBus` | `CanBus.*` | TWAI node, receive queue, counters | `start`, `setBitrate`, `inject`, receive interrupt, worker | frames once and in order, drops counted, a refused bit rate is survived, a frame goes out as asked |
| `CanWebServer` | `CanWebServer.*` | none of its own | HTTP handlers | consistent answers |
| publisher and its writers | `main.cpp` | a queue of 32 messages, a drop counter; what each writer is about to say | `publishAsync`, `publisherTask`; the change hook, `modbusReport`, the restated link, the frame reports | a writer never blocks; drops are counted; a topic ends on the truth |
| OTA | `main.cpp`, `CanWebServer.cpp` | two slots and their states, the boot partition, `g_gotIp` | POST /firmware, `otaVerifyTask`, `onGotIp` | the board always boots; only an image that reached the network is confirmed |
| `Settings`, statistics, self-test | `Settings.h`, `main.cpp` | NVS settings | setting hooks, periodic reports, test frames | a setting is applied, or refused |

### How they interact

- The receive interrupt stamps a frame and queues it; the **CAN worker** runs `onFrame`: clock sample,
  `decode()`, for each changed enum signal `outputs.onSignal` then `gestures.onSignal`, then
  `FrameTable::observe`.
- **actionsTask**, every 25 ms, reads the time once and calls `gestures->tick(now)`, which may call
  `outputs.set`, then `outputs->tick(now)`.
- The **MQTT** and **HTTP** tasks call `outputs.set`, `outputs.setEnabled` (through a settings hook),
  `mark`, `reset`, and, HTTP only, upload a table.
- Each component has one mutex. Callbacks (`change_`, `report_`) run **after** it is released.
  The change hook notifies **modbusTask** and queues an MQTT message.
- **modbusTask** alone owns the RS485 port.

### What is hard

The board has two cores and the tasks are not pinned, so any two steps interleave (interleaving, stale
reads, callbacks out of order); times are unsigned 64-bit and are compared after they were read
elsewhere (wrap-around); nodes restart and answers get lost; the power goes with the ignition, in the
middle of a flash write as well; rings, queues and tables are at their limits; the broker and the TWAI
driver may be slow while their callers do not wait. The list with the lines
is `hazards` in `PROJECT.json`.

## 2. Modules

| module | role |
|---|---|
| `Uptime` | time, `Elapsed` (the wrapping subtraction) |
| `Board` | the vocabulary of tables: outputs, coils, signals, texts |
| `OutputBank` | `class OutputBank`, one action per method, one for each callback |
| `GestureEngine` | `class GestureEngine`; what `tick` decided waits in `fired` |
| `GestureReference` | `GestureEngine` beside the history of pulses; the reference definition of a click |
| `DrivingLights` | composes both with the worker, `actionsTask`, commands, kill switch, uploads |
| `CoilMirror` | abstract: a node's coils change only by its restart, or by taking over as a whole what the bank wanted of it at the last look |
| `ModbusReconciler` | `ModbusBus` and `modbusTask`; implements `CoilMirror` |
| `TableStore` | `signalstore`, POST /signals, the boot sequence, power failures |
| `FrameTable` | `class FrameTable` and the dump |
| `SignalTable` | `class SignalTable`, and the worker's use of the names it hands out |
| `CanClock` | `class CanClock` and GET /can/status, beside the bike's counter |
| `LossyChannel` | abstract: a channel that may refuse an item, but delivers what it took |
| `CanQueue` | receive interrupt, `inject`, the queue, the worker; implements `LossyChannel` |
| `CanNode` | `start`, `setBitrate`, `createNode`, `info`, the setting hook, restarts |
| `CanTransmit` | `transmit` and `selfTestTask` on a driver that keeps pointers |
| `Publisher` | `publishAsync` and `publisherTask` |
| `Panel` | composes `Publisher` with its writers, up to what the broker shows |
| `OtaUpdate` | POST /firmware, `otaVerifyTask`, the bootloader |
| `NaturalFacts` | lemmas on numbers, `%` and `\div`, that several proofs cite |
| `OutputBankProofs`, `ModbusProofs`, `LightsProofs`, `FlashProofs`, `CanBusProofs`, `PanelProofs`, `WorkerProofs` | theorems and proofs, by run: bank; reconciler; engine, clicks and composition; store and update; the four parts of `canbus`; publisher and panel; capture and decoder |
| `MC*` | values for TLC; `MCActions`, `MCWorker`, `MCCanBus` and `MCFlash` put components side by side |

The four side-by-side modules check several components in one run. Such components share no variable but
the clock, which none of them holds back for another, and no property speaks of two of them; a behaviour of the whole is then
right exactly when each component's part of it is, so the run lets one component move in each behaviour
(variable `part`) instead of multiplying state spaces that say nothing of each other. Fairness is stated for the part that moves.
Where components do interact they are composed: `DrivingLights`, `ModbusReconciler`, `TableStore`, `Panel`.

### How state and actions correspond to the code

*OutputBank.* `cfg`, `on`, `onSinceUs`, `offPending`, `enabled` are the fields of the same names (`cfg` is
the configuration half of `outputs_`). Each method holds `lock_` throughout its critical section and
becomes one action; the events it collected stay in `pending[c]` of the calling task until `Announce`
gives them to the hook, which runs outside the lock in the code. `balance` is a history variable: the
announced ons less the announced offs; a table reload, which announces nothing, is deducted. The JSON
checks are abstracted to what a well-typed section can still get wrong: reserved pins, and pins or coils
claimed twice. An event's `by` text is left out.

*GestureEngine.* `rt[g]` is the runtime half of `struct Gesture`. `tick` is split where the code unlocks:
`EngineTick` decides and fills `fired`; `CarryOut` (in `DrivingLights`) calls `set` output by output.
The dips of one tick are carried out before its bursts, as in the vector. The reports to MQTT are left out.

*DrivingLights.* `worker` and `actions` are program counters with their locals. A frame is received and
dequeued in one step: the queue's delay is part of the delay between `Frame` and `TellBank`. `reported` is
what `decode()` remembers of a signal; `ResetState` is `canreset`. `uploader` is the place of POST /signals in
its document: signals, outputs, gestures, each loaded under its own lock; the document is chosen where it first matters.
The HTTP task serves one request at a time (`Free`).

*ModbusReconciler.* `wanted` is `desiredCoils()`, `picture` the copy the cycle iterates over, `task` the
place in the loop with `allOk` and the remaining slaves. `hooks` counts the changes whose hook has not
reached `xTaskNotifyGive` yet. `consecErr` stops counting at `BriskLimit` since the code only compares
it with 0 and 5. A node that does not answer may or may not have acted on the request. `desiredCoils` for
the clock is read again, as in the code. `silent` (history) remembers that a table was replaced since the last look.

*TableStore.* A document is its version, the sections that are well formed, the outputs it declares and
the outputs its gestures name. Each flash operation of `write()` is an action with its failures; `Mount`
may find the partition unreadable and format it; `PowerFails` may also bring another firmware image with
another built-in table. `saved`, `fault` and `hurt` are history variables that say which promises a fault
has excused: `hurt` is set when the stored table was lost to a fault or to a power failure between
`remove()` and `rename()`.

*FrameTable.* One action per method. An ID stands for the pair of identifier and extended flag, a
payload for the zero-padded bytes, `Hash` for `hashId`. A frame or a label may be stamped one tick before
it is stored. `sent`, `heard`, `lately`, `labels` are histories since the reset, against which the counters,
rings and reports are compared. Publishing means that `observe()` returned true.

*SignalTable.* Bytes and words are sets of bits, so that nibbles, parts and little-endian lists are set
operations at any width. `frames` and `last` are the two halves of `SignalDef`; `table` numbers the memory
that `frames_` owns, so that `worker` can hold pointers into a table that is gone. What a list of more bytes
than the word shifts out is a choice. `told` and `latest` are histories since the reset or the upload: what was reported
last, and what was read last.

*CanClock.* The motorcycle counts seconds from `start` and wraps at `period`, midnight or the width of the field;
a broadcast is read up to `Latency` ticks later (`air`), or never. GET /can/status asks three times without a lock
between (`status`). `since` (history) is when the field was configured. Times are scaled: `Second`, `HalfDay`, `Base` are parameters.

*CanQueue.* An increment of a counter is a load and a store, since the code's is not atomic: the interrupt and `inject`
are at `isr` and `inject`. `made`, `accepted`, `handled` are histories of the frames; `overlap` remembers
that the two have counted at the same time.

*CanNode.* `handles` are the controllers the driver has created and their states; `node` is `node_`. `setBitrate`
and `createNode` are one action per driver call, each of which may fail. `refusals` and `hurt` (histories) remember whether
one setting met two refusals; `touched`, that a deleted controller was used. `createNode` does not look at the result of the delete on its error
paths (`Discard`): `stuck` (history) is the controller it then forgets. Two settings at once are not modelled.

*CanTransmit.* `header` and `payload` say whose identifier and whose bytes the static buffers hold; the driver reads them when
a transfer gets the wire. `late` (history) are the requests whose caller gave up waiting.

*Publisher and Panel.* A writer looks at its state, and publishes what it saw later (`telling`). `current` says
whether the broker was given the last there was to say, `unreported` counts the drops no log line told of,
`crossed` the topics on which two writers were between look and message at once. An upload switches the output off and tells
nobody (`Upload`); `unannounced` (history) says that the last change was such a one.

*OtaUpdate.* A slot holds an image or an unfinished one, with the state the bootloader keeps. `Crash` and `PowerCycle`
go through the bootloader's choice (`ToRun`). `reached` (history) are the slots whose image had an address since it was written.

## 3. Runs

All bounds are constants of the cfg. `Wrap` stands for 2^64 and only has to exceed every
duration and the clock. The clock bound `MaxTime` freezes time at the end; every time-out of the table fits below it.

| run | what it explores | bounds, and why they are enough |
|---|---|---|
| `actions` | MQTT, HTTP and `actionsTask` on one bank, with uploads; one control under all sequences of reports, ticks and uploads | bank: two outputs, one with a pin and one with a timer, three pins of which one is reserved, one slave with three coils; five sections: shipped, another, two that are refused, empty; two users and the ticker are three callers, enough for every pair. Engine: time to 5 and bursts of 4 pulses, more than the highest mapped count (3), windows, holds and gaps of 1 to 3 ticks; tables with and without `off_on_release` |
| `lights` | worker, `actionsTask`, one HTTP user on the shipped table, any number of uploads | two documents: the shipped table, and one without outputs whose gestures are therefore refused; one lamp that needs the engine and that a release dips; MaxTime 1 distinguishes a short pulse from a long one (`max_hold` 0) |
| `modbus` | two nodes, tables that use both or none | one node may be dead while the other is not; `BriskLimit` 2 instead of 5; one notification in flight (`MaxHooks`) since the task only sees whether there was one |
| `flash` | two built-in tables, eight uploads; firmware posted and cut short | tables: an upload refused by each of the four components, one refused for its targets, newer, equal and older versions. Firmware: a good image, one without Wi-Fi, one that crashes; 3 posts, so that both slots are rewritten, and 5 boots |
| `worker` | frames of three IDs in the capture; frames of two IDs through the decoder | capture: two slots, colliding hashes, rings of two; three frames fill the table and wrap the frame ring, three labels wrap the label ring, two tasks place labels (symmetric); a byte that some tables mute. Decoder: bytes of 2 bits, words of 2 bytes, numbers and enums of every kind, tables that count bytes from 0 and from 1, two that are refused; 2 uploads; `min_ms` 2, which time to 2 just lets pass |
| `canbus` | reception, bit rate, transmission, clock | reception: queue of 2, 5 frames, time to 1. Bit rate: four rates, of which one is out of range and one the driver cannot time; 4 controllers, so that a setting can fail twice and another follow; 2 boots. Transmission: driver queue of 2, 5 requests. Clock: a day of 6 seconds, 2 ticks each, from just before midnight and from noon, a field that is wide enough and one that is not, 2 uploads |
| `panel` | three topics; `actionsTask` switches the output and an upload on the HTTP task may switch it off at any moment; `modbusTask`, `telemetryTask`, the worker | queue of 2, 1 unreported drop, 2 changes of anything: a state and its opposite, or changes of two topics, with the queue full or empty; with a second task that switches the output only the exception of `ShowsTheTruth` is exercised more |

Every property of these runs has a mutant: a definition replaced by one with a plausible bug
(marked "Seeded fault" in the modules), under which TLC finds the property violated.
Where a run lists one `...Sound` property, that is the conjunction of the components' type invariants
with what is inductive beside them.

Properties worth knowing:

- `actions`: `PendingOffOnlyWhileOn` - a recorded `off_when` acts only on the on-period it was recorded in;
  `DueSwitchOffsHappen` - it does act, and so does an expired timer; `DisabledMeansDark`; `TargetsFollowOutputs`;
  `EveryChangeMakesOneEvent`. `ClicksMatchPulses` compares the incremental count with the definition of a
  click read off the history; `BurstsResolve` - no burst is left behind.
- `lights`: `StopReportDouses` and `DipHappens` across the tasks and in the middle of uploads. A dip is lost only to an
  upload that replaces the gesture before `tick` has seen the release.
  What the two ask of every single step is `StopReportIsKept` and `DipIsKept`: as long as the output is on, a switch-off that was recorded,
  decided or half carried out is not forgotten. Both are proved; `tlc -config LightsSteps.cfg MCDrivingLights` checks them without
  fairness up to MaxTime 2, beside the run.
- `modbus`: `IsMirror` (refinement of `CoilMirror`, which says what a node may take over and not how soon), `NoLostWakeup`, `CleanCycleIsUp`, `NodesConverge`.
- `flash`: `NeverUndecodable`, `UploadSurvives`, `AnswersAreHonest`, `NeverRegresses`; `AlwaysBoots`, `AddressConfirms`.
- `worker`: `EveryFrameCounted`, `BrokerSeesChanges`, `BrokerSeesHeartbeat`; `DumpIsComplete` compares the report, for every
  limit and every size of chunk, with the history; `NothingLost` - what the throttle holds back is never forgotten;
  `DitherIsSilent` - the rule of the shipped table about deadbands, over all raw values: a step as it is *shown*
  (`StepShown`), which is a unit more than `scale` suggests when readings fall half way between two units, because `std::round` rounds
  them away from zero on both sides (`SignalTable.cpp:275`).
- `canbus`: `IsChannel` (refinement of `LossyChannel`, with delivery), `CountersAddUp`, `NothingLeftBehind` - with each call of
  the driver refused or not, the deletes included, the one controller there can be beside `node_` is one it would neither enable nor delete -,
  `OneRefusalIsSurvived`, `SentAsAsked`, `TodFollowsTheBike`, `OffsetIdentifiesTheClock`.
- `panel`: `ShowsTheTruth` - a settled topic on which nothing was dropped or has crossed shows the state, with one exception that is spelt out: after an
  upload has switched the output off its topic shows "on", until the next announced change; `FrameCatchesUp` - whatever was dropped, the heartbeat repairs.

`DueSwitchOffsHappen` holds of the bank alone, where `tick` gets the current time; what happens with
the older time that `actionsTask` passes is the run `auto_off_early`.

### Disagreements between the code and what it says

Five runs expect a violation; each checks one sentence of the repository. Details and lines are in `findings`.

| run | the sentence | what happens |
|---|---|---|
| `auto_off_early` | "force off after this long on" | a gesture switches an `auto_off_ms` output on after `actionsTask` read the time; the subtraction wraps and the same pass forces it off |
| `require_race` | "refused unless that enum signal's latest value matches" | checked under the lock, used after it: the lamp goes on although the engine has stopped, and stays on |
| `backs_off` | "retry briskly for the first few failures ... then settle" | one failure counter for all nodes: a healthy node resets it, a dead one is retried every 50 ms for ever |
| `previous_lost` | "the previous one stays usable" | between `remove()` and `rename()` there is no `signals.json`; the next boot seeds the built-in table |
| `names_stay_valid` | "valid while the table lives" | an upload replaces the table while the worker follows names `decode()` handed out |

More sentences of the repository do not hold. Their properties stand in the modules, each with a
configuration, but no run repeats them (`tlc -config X.cfg M`, and TLC shows how):

| configuration, module | property | what happens |
|---|---|---|
| `WindowCutShort.cfg`, `MCDrivingLights` | `WindowRunsFromLastRelease` | a release stamped after `actionsTask` read the time wraps the difference (`Actions.cpp:677`) and ends its burst; `Actions.h:180` |
| `LightsSteps.cfg`, `MCDrivingLights` | `GesturesNameOutputs`, in place of its properties | an upload whose gestures are refused leaves the new outputs under the old gestures, which then silently do nothing (`CanWebServer.cpp:738`); `Actions.cpp:504` |
| `EveryChangeWakes.cfg`, `MCModbus` | `EveryChangeWakes` | an upload switches outputs off without waking the reconciler (`Actions.cpp:248`); the next heartbeat repairs it; `main.cpp:459` |
| `MinMsFloor.cfg`, `MCSignalTable` | `MinMsFloor` | a frame stamped before the last report and decoded after it is not held back (`SignalTable.cpp:279`); `SignalTable.h:42` |
| `TableStoreGaps.cfg`, `MCTableStore` | `StoredIsInUse` | an upload refused half-way is partly in use, and GET /signals answers another table (`CanWebServer.cpp:738`); `CanWebServer.cpp:695` |
| | `FailureIsReported` | the last buffer is written by `fclose()`, whose result is ignored (`SignalTable.cpp:395`); `CanWebServer.cpp:747` |
| `CanNodeGaps.cfg`, `MCCanBus` | `NeverLeftDead`, `OutOfRangeIsIgnored` | the setting is saved though the hook or the driver refused it (`main.cpp:214`), and the next boot starts with it; `CanBus.cpp:239`, `main.cpp:930` |
| | `NobodyNotices` | `info()` gives the driver a handle that `setBitrate()` deletes (`CanBus.cpp:254`); `CanBus.cpp:238` |
| `BuffersStayAlive.cfg`, `CanTransmit` | `BuffersStayAlive` | a wait that times out gives the buffers to the next transfer (`CanBus.cpp:303`); `CanBus.cpp:283` |
| `CountersMonotonic.cfg`, `CanQueue` | `CountersAreMonotonic` | `inject()` stores a count the interrupt has moved on (`CanBus.cpp:331`); `CanBus.h:41` |
| `PanelGaps.cfg`, `MCPanel` | `PanelIsTrue` | an upload switches a lit output off and publishes nothing: its topic goes on saying "on", although nothing was dropped, lost or overtaken (`Actions.cpp:248`); `main.cpp:784`, "Every output change is announced, whatever caused it" |
| | `AnnouncedInOrder`, `RestateIsTrue` | the messages of two tasks on one topic arrive in the other order (`Actions.cpp:284`, `main.cpp:428`); `main.cpp:784`, `main.cpp:422` |
| | `NothingUnsaid` | a drop is counted after the publisher took the counter and went to wait (`main.cpp:161`); `main.cpp:174` |
| `RollsItselfBack.cfg`, `MCFlash` | `RollsItselfBack` | without an address the new image runs, unconfirmed, until somebody cycles the power (`main.cpp:344`); `src/README.md:613` |

### Fairness

- `FairSpec` (bank): weak fairness of each callback, which only queues a message, and strong fairness of
  `Tick`: `actionsTask` returns to it every 25 ms however many `set` calls it makes in between (those
  disable `Tick` for a moment because the task is inside another call).
- `HFairSpec`: `actionsTask` ticks for ever.
- `LFairSpec`: weak fairness of the worker, of `actionsTask` and of the callback it makes. Nothing is assumed of
  frames, the users' callbacks, commands, uploads or the clock.
- `RFairSpec`: weak fairness of `modbusTask` as a whole; every wait in it has a timeout. Nothing is
  assumed of notifications, nodes or the wire; `NodesConverge` assumes in its premise that the node
  is eventually always reachable.

- `QSpec` (reception): weak fairness of the worker, which outranks every other task of the firmware, and of the end of an
  interrupt.
- `PanelSpec`: weak fairness of the publisher, of every writer between look and message, and of `ReportLink`; strong fairness of
  `Delivered` - the client succeeds now and then - and of `Heartbeat`, since the identifier stays on the bus.
  `FrameCatchesUp` assumes in its premise that publishing stays enabled.
- `OtaSpec`: weak fairness of `otaVerifyTask` and of `esp_restart()`. Nothing is assumed of Wi-Fi, the client or the ignition.

`worker` and the other parts of `canbus` and `flash` check safety only. Deadlock is checked in all runs but `canbus` and `flash`,
where a part stops once its bound on frames, requests, boots or posts is reached.

## 4. Proofs

Every theorem holds for every value of the constants that satisfies the named assumptions. These say
what kind of thing a constant is and, where the code relies on it, how constants relate: `UptimeAssumption` (the clock does not
reach `Wrap`: 2^64 microseconds), `BankAssumption` (finitely many tasks, `auto_off_ms` below `Wrap`), `EngineAssumption`, `LightsAssumption`,
`ReconcilerAssumption`, `StoreAssumption` (a built-in table is whole), `OtaAssumption` (the image the board is shipped with works),
`QueueAssumption`, `NodeAssumption` (the default bit rate works), `TransmitAssumption`, `ClockAssumption` (a day fits the widest field),
`PublisherAssumption`, `PanelAssumption`, `TableAssumption` (finitely many IDs), `SignalAssumption` (a word is a whole number of bytes).
TLC evaluates each of them in a run. The bounds of the runs are constants as well, so the theorems hold for every bound.

| module | theorem | statement |
|---|---|---|
| `OutputBankProofs` | `BankInvariant` | `Spec => []BankInv` |
| | `TypeCorrect`, `NoStaleSwitchOff`, `KillSwitchHolds`, `TargetsCorrect`, `EventsCorrect` | the five invariants of the bank in the run `actions` |
| `LightsProofs` | `EngineInvariant`, `ClicksAreRight` | `GSpec => []EngineInv`, `HSpec => []ClicksMatchPulses` |
| | `LightsInvariant` | `LSpec => []LInv` |
| | `LightsTypeCorrect`, `LightsKillSwitchHolds`, `LightsTargetsCorrect`, `LightsEventsCorrect` | `LTypeOK`, `DisabledMeansDark`, `TargetsFollowOutputs` and `EveryChangeMakesOneEvent` of the composition |
| | `StopReportsAreKept`, `DipsAreKept` | `LSpec => StopReportIsKept`, `LSpec => DipIsKept`, action properties |
| `ModbusProofs` | `ReconcilerInvariant`, `NoChangeIsSleptOver`, `CleanCyclesAreUp` | `RSpec => []RInv` and two invariants of the run `modbus` |
| | `ImplementsMirror` | `RSpec => MirrorSpec` of `CoilMirror` |
| `FlashProofs` | `StoreInvariant`, `BoardsDecode`, `UploadsSurvive`, `AnswersHonest` | `SSpec => []StoreInv`, and three invariants of the run `flash` |
| | `TablesNeverRegress` | `SSpec => NeverRegresses`, an action property |
| | `OtaInvariant`, `BoardBoots`, `ConfirmedWasReached` | `OtaSpec => []OtaInv`, `AlwaysBoots`, and that only an image that had an address is confirmed |
| | `FlashIsSound` | `FlSpec => []FlashSound` |
| `CanBusProofs` | `ReceiveInvariant`, `CountersAreRight` | `QSpec => []QInv`, `CountersAddUp` |
| | `ImplementsChannel` | `QSpec => ChannelSafe` of `LossyChannel` |
| | `TransmitInvariant`, `TransfersAsAsked` | `TSpec => []TInv`, `SentAsAsked` |
| | `NodeInvariant`, `OneControllerAtMost`, `BadGuessIsSurvived` | `NSpec => []NInv`, `NothingLeftBehind`, `OneRefusalIsSurvived` |
| | `ClockInvariant`, `TimeOfDayIsRight`, `OffsetIsRight` | `KSpec => []KInv`, `TodFollowsTheBike`, `OffsetIdentifiesTheClock` |
| | `BusIsSound` | `BSpec => []BusSound` |
| `PanelProofs` | `PanelInvariant`, `DropsAreAccounted`, `PanelShowsTheTruth` | `PanelSpec => []PanelInv`, `PanelSound`, `ShowsTheTruth` |
| `WorkerProofs` | `CaptureInvariant`, `ChangesReachTheBroker`, `HeartbeatsReachTheBroker`, `FramesAreCounted` | `FSpec => []FInv`, `BrokerSeesChanges`, `BrokerSeesHeartbeat`, `EveryFrameCounted` |
| | `DumpsAreComplete` | `FSpec => []DumpIsComplete` |
| | `SignalInvariant`, `ThrottleLosesNothing` | `DSpec => []DInv`, `NothingLost` |
| | `DitherStaysSilent` | `DSpec => DitherIsSilent`, an action property |
| | `WorkerIsSound` | `WSpec => []RecordsSound` |

*The bank.* `BankInv` adds three things to the properties. `Accepted(cfg)`: no pin or coil is claimed
twice; without it two outputs would overwrite each other's level and `PinsFollow` would not survive a
call. `SwitchHolds`: disabled outputs are off; `DisabledMeansDark` says more (pins, coils) but follows from it
with `PinsFollow`. There is one lemma per method (`SetPreserves`, `TickPreserves`, ...), stated on the action so
that a composed module can cite it; `LightsProofs` does. `EventsCorrect` is a second induction over `BankInv`: its step shows how the
number of undelivered events of an output changes with each action (`CountsStep`). It needs
`IsFiniteSet(Users)`.

*Clicks.* `ClicksOf` defines the number of clicks as the size of a set of pulses that each come soon enough after the one before.
The engine only has a counter and the time of the last release. `ClickInv` relates them: there is a set that counts (`Counts`), of that
size, whose last pulse ended at that time. That there is only one (`CountIsUnique`) is shown by the least pulse in which two would differ.
Each event either adds a pulse to the set, starts a new one, or shows that a pulse does not count.

*The composition.* `LInv` is the bank's and the engine's invariant with the places of worker, `actionsTask` and upload; each step is
a method of one of the two beside a step of the task, so the parts' lemmas are cited, not repeated.
`StopReportIsKept` and `DipIsKept` are the safety halves of `StopReportDouses` and `DipHappens`, which add that the tasks run.
A set of the bank drops a record only with the output (`ApplyKeepsRecord`), and `tick` leaves on nothing that has one
(`TickSwitchesOff`). A dip is in one of two places, recorded or decided; that carrying it out switches *off* needs one more invariant, that what `tick`
decided with a count of 0 is a switch-off (`DipsAreOff`): a burst is never decided with that count.

*The reconciler.* `NoLostWakeup` speaks of the wait only; `RInv` extends it to the whole cycle from the look on
(`ChangesAreKnown`), because the change comes in between. `CleanCycleIsUp` needs the same statement for the writes
so far (`AnswersCount`). For the refinement each step of the task is a `Look`, a `Copy` or a stutter of
the mirror, and `TodoInPicture` gives `Copy` its guard.

*The store.* `StoreInv` says, for each place in boot and upload, what the two files hold (`FilesAreWhole`, `WritesAreWhole`), that a document
being installed was accepted so far (`UploadsInstall`), that what was answered as stored is the file (`SavedIsStored`), and that a boot that
met no fault has loaded it (`BootsDecode`).

*The update.* `Fallback`: while the image that runs is on trial, the other slot holds the confirmed one that ran before, and nobody writes it.
`SelectedInTurn`: the other slot is selected exactly between the end of a post and the restart; `AddressIsOfThis` ties `g_gotIp` to the image that runs.

*The bus.* `QInv` says where each accepted frame is (`NothingLostOnTheWay`), and how each counter relates to the increments that are over and to the value that
it is about to store (`NoneAhead`; `NoneBehind` while the two have never overlapped). `TInv` follows a transfer from the static buffers to the wire. `NInv`
says at each driver call which handles exist and in which state. `KInv` says of a reading and of a broadcast on its way (`ReadingIs`,
`AirIs`) which value of the bike's counter they carry; the rest is arithmetic modulo a day.

*The panel.* `TruthInv`: the newest message of a topic, wherever it is (with its writer, in the queue, with the publisher, at the broker),
says the state, unless a drop or a crossing excuses it. For the output that is the state it was last announced with
(`Announced`), which an upload leaves at "on".

*The capture.* Probing is right because slots are never freed before a reset: `Reachable` (who has a slot is found, and found there) and
`NoRoomForGood` (who was refused once meets no free slot again), which say that an ID has never two records nor is split between a
record and the overflow. `EveryFrameCounted` is about sums over all slots; `Total` is such a sum over any finite set,
and its laws (`TotalGrows`, ...) are shown by an induction over subsets that is stated for a set of subsets instead of a predicate,
and so needs no operator as argument.

*The dump.* `RingsKeep` is the invariant: read from its oldest place on, each ring is its history (`lately`, `labels`), which
`recentFrames` and `recentMarks` then copy (`RingShows`). The code takes the two copies one after the other, each under the lock (`CanWebServer.cpp:368`); the property
reads both in one state, and the lemma `DumpTells` is about any two lists. What remains is about operators. `Tells(text, fs, ms)` says that
a text shows the frames `fs` and the labels `ms`, in order; it is closed under concatenation (`TellsBoth`), so a text may be told piece by piece.
A fold over a sequence is turned into its stages, `acc[i]` after `i` elements (`FoldExists`, `FoldSteps`), and an ordinary
induction over `i` shows that after `i` lines, or chunks, the text tells the first frames and a part of the labels, and the others are still to come (`SoFar`);
the last chunk takes those. Nothing is assumed of the times of frames or labels: `UpTo` may cut anywhere.
`DumpIsComplete` says which lines show the frames by their places in the text (`Shows`), because a filter over a sequence is a
recursive definition that the provers cannot open.

*The decoder.* `Remembers`: what the code keeps of the last report is what was reported, and a reading that differs from it by more than the deadband is younger
than `min_ms`. For `DitherStaysSilent` words must be numbers below 2^WordBits, and two numbers that differ by one must be
shown no more than `StepShown` apart (`ShownApart`). The first attempt at this lemma failed for a good reason: with a
negative scale, and with readings half way between two units, the step is larger than the earlier form of the property allowed
for, and TLC confirmed it; the property states the step as it is shown.

Only model-checked: all liveness (`DueSwitchOffsHappen`, `BurstsResolve`, `StopReportDouses`, `DipHappens`,
`NodesConverge`, the delivery part of `IsChannel`, `FrameCatchesUp`, `AddressConfirms`), which is beyond the prover;
and the runs that expect a violation. Of every invariant and every action property a passing run checks there is a theorem.

*What the proofs rest on.* tlapm 1.4.5 gives its SMT solver two facts that are stronger than TLA+: that whatever has `1 .. n` as its domain,
and only that, has the length `n`, and that membership in a set of records looks at the set where it should look at the record.
Values that are no sequences, or no records, must not be mixed with them. Every obligation the solver proves was
therefore proved again with the weaker facts that hold; the three that had depended on the others have other proofs.

## 5. Not modelled

- The text formats: JSON parsing beyond the accept/refuse decision, candump lines, topics.
- `snapshot()`, `/can/ids`, the rest of `/can/status`, statistics: reports without state.
- Two settings hooks at once: whether the settings component, a library, serialises them is not in the repository.
- What `rawValue()` makes of a list of more bytes than its word holds is a choice, and no property speaks of it
  (`SignalTable.cpp:207`; the shipped table names at most three).
- An upload without a clock section leaves the last reading (`CanClock.cpp:48`), of which GET /can/status
  then says that it exceeds a day (`CanWebServer.cpp:507`): a wording, seen while modelling.
- The MQTT client, Wi-Fi, `esp_ota` and the bootloader, NVS, the Modbus stack and the TWAI driver are libraries:
  external, modelled only by what the code relies on.
- Electrical behaviour: pulls, the level of a pin while it is reconfigured.

## 6. Plan

Order: the lights first, because they are what can go wrong on the road; then the link that carries
them; then the store that decides what they are; then the capture, the decoder, the clock, the bus, the publisher and the
update. All of these are modelled, and of every component the safety properties its runs check are proved.

What remains:

1. The model: `SignalTable` in place of the variable `reported` of `DrivingLights`, so that a text held back by `min_ms` reaches the gestures late.
2. `DueSwitchOffsHappen`, `BurstsResolve`, `NodesConverge` and `FrameCatchesUp` have no safety half stated; what a step must not do for
   them is in `PendingOffOnlyWhileOn`, `FireNowMeansFullCount`, `IsMirror` and `ShowsTheTruth`.

Abstract specifications worth stating: a switchboard for `OutputBank` (every target shows one state), an atomic
register for the store (a boot sees the last table written), a lossy log for the capture rings. `CoilMirror` and `LossyChannel` are stated.
