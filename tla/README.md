# A TLA+ model of the OpenThread sleepy sensor

The firmware in `src/` measures temperature and humidity on the low-power (LP)
core of an ESP32-C6 and publishes over Thread and MQTT from the main (HP) core,
which sleeps nearly always. Most of what can go wrong is in the places where
two actors meet: two cores over a few words of RTC memory, two FreeRTOS tasks
over a flag and an event bit, the device and a broker whose retained messages
outlive both, a setting that can cut the radio link that would correct it. This
directory models those meetings, checks them with TLC on small instances and
proves most of the safety properties for every instance with TLAPS.

`PROJECT.json` lists the components, the runs, the source lines behind every
definition, the hazards, and the places where the code and its own comments
disagree.

## 1. The system and its parts

| Part | Source | State | Operations |
|---|---|---|---|
| LP program | `components/lp_sensor_core/lp_core/main.cpp` | last delivered baseline, skip budget, heater schedule, the results | one run per poll: consume an acknowledgement, measure, run the heater if due, decide, wake the HP core |
| LP shared memory | `lp_sensor_core.c`, `lp_core/shared_layout.h` | sequence counter, result words, config words, acknowledgement words | `init`, `start`, `apply_config`, `get_state`, `ack_delivered`, `wait_for_wake`, light-sleep exit callback |
| Sensor task | `main/sensorstask.cpp` | stall count, unconfirmed count, last heartbeat, last acknowledged value | one pass of `executeTask()` |
| Publish task | `main/mqtt_sender.cpp` (task and hand-off) | `s_task_running`, idle event bit, `s_last_ok` | `mqtt_send_sensor_data`, `mqtt_is_busy`, `mqtt_wait_for_idle`, `mqtt_publish_task` |
| MQTT session | `main/mqtt_sender.cpp` (client) | subscribed flag, discovery mask, counted acknowledgements | connect, subscribe or not, publish, count, replay, echo, close |
| Runtime settings | `main/runtime_config.cpp` | received, settled and saved values | receive, settle, clamp, apply, save, echo, boot |
| TX-power trial | `main/runtime_config.cpp`, `main/sensorstask.cpp` | known-good, pending, rejected power, failure count | apply, note a cycle's result, confirm, revert, pin for an update, boot |
| History log | `main/history_log.cpp` | ring, wrapping head and tail | append, peek, advance |
| OTA updater | `main/ota_updater.cpp` | manifest, install request, resume point, chunk window, attempt budget | message handlers, session, finalize, reboot |
| OTA staging tool | `tools/ota_push.py` | retained topics on the broker | clear, stage chunks, stage manifest, request install |
| Network links | `main/net/` | event bits, NAT64 prefix, poll period, uplink reading | state-changed callback, Wi-Fi event handler, wait for ready, broker address, poll windows, refresh, telemetry, set power |
| RTC clock fix | `main/rtc_clock_fix.cpp` | ring of calibrations, its mean, run of rejections, status period | light-sleep exit callback, wrap of `rtc_clk_cal()`, setters, status task |
| HP awake statistics | `main/hp_awake_stats.cpp` | accumulated sleep, start of the period | light-sleep exit callback, read and reset |
| Boot | `main/main.cpp` | settings in effect | restore, convert, start |

How they interact:

* The LP core writes results between two increments of `result_seq` (a sequence lock)
  and the HP core copies them word by word; the HP core writes configuration and
  acknowledgements into words that the LP core reads without any lock.
* The sensor task starts the publish task, waits for its idle bit and reads
  `s_last_ok`. The publish task may stay alive after that to download an update.
* The sensor task acknowledges a delivered reading to the LP core, or appends an
  undelivered one to the history log, which the publish task replays.
* esp-mqtt calls back from its own task: acknowledgements, retained settings,
  the manifest, the install flag, firmware chunks.
* Sensor task and publish task share the network link. The publish task opens and
  closes nested poll windows on it, builds the broker's address from a prefix
  that the OpenThread task writes, and reads the telemetry; the sensor task
  waits at its gate and asks for a refresh after a failed cycle. OpenThread and
  the Wi-Fi driver call back from tasks of their own.
* Every light sleep of the HP core runs two exit callbacks before any task; a
  settings change reaches the clock fix from the publish task.
* Two supervisors reboot the device: no LP progress for two passes, and no
  confirmed publish for five.

What is hard to test here is listed under `hazards` in `PROJECT.json`: torn and
stale reads between the cores, an acknowledgement overtaken by the next one, a
wake that is lost, a heater run of several minutes that looks like a dead LP
core, a publish that is confirmed late or never, a ring lapped while it is
being copied, counters at their wrap, retained messages that survive the request
they were part of, a connection lost halfway through a download, a reboot in
the middle of a trial, a bit, a prefix or a mean that outlives what it was true
of.

What makes each part correct:

* shared memory: a validated read is one consistent result, and the current one;
* LP program: a difference from the delivered baseline is flagged, and silence is
  bounded by the configured skip;
* sensor and publish task: what is acknowledged was delivered, what was tried
  and failed is kept, no wake is published twice, a dead LP core is rebooted and
  a live one is not;
* TX power: the radio always runs at the power the state machine says, a trial
  that breaks the link ends;
* history: a bounded FIFO that drops only its oldest records;
* update: only a whole image with a matching hash boots, a cycle always returns
  to sleep, a request is served;
* session: success means that the broker has it, a skipped subscription loses
  nothing;
* settings: what is saved is what is in effect, and device and broker agree in
  the end;
* network link: the radio polls as the open window says on every way out of it,
  what the link tells its users is true of the network, and a network that works
  again is used again;
* light sleep: the sleep is timed by the mean of the newest calibrations, a
  stale mean does not lock itself in, and the time awake is accounted for.

## 2. The modules

Every module starts with a comment on its actors and its abstraction. Time is
the order of events except in `SensorsTask`, where it is counted in poll
intervals. A payload is a number or a name that says which one it is.

**`LpCore`** The LP program and the shared block, one step per observable store.
`LpStart`, `LpConsume*`, `LpBegin`, `LpMeasure`, `LpHeater*`, `LpCalibrate`,
`LpDecide`, `LpEnd` and `LpWake` are one run of `main()`. `Rd*` is `get_state()`
word by word, `Ack*` `ack_delivered()`, `Cfg*` `apply_config()`. `AckOverlap`
says whether an acknowledgement may be written before the LP program has
consumed the previous one.

**`PublishTask`** `SendSensorData` (with its refusals), `Pub*`: the flag, the
idle bit, the result and the update tail as the sensor task can see them.

**`SensorsTask`** Extends both. A pass is `HpGate`, then `HpOtaBusy`,
`HpStalled`, `HpPublish` or `HpQuiet`, then `HpIdle` or `HpIdleTimeout`, then
`HpWrap` (the supervisors), then the wait. The HP chip has one core and the sensor
task the higher priority, so the publish task moves only while the sensor task
is blocked. `Env` is the set of things that may go wrong in a run: `attach`,
`publish`, `lost` (a wake), `fall` (all read attempts fail), `dead` (the LP core
stops), `ota`, `task` (task creation fails), `stall` (a publish cycle outlasts the
sensor task's wait).

**`TxPower`** The trial: sensor pass, publish task, NVS with typed keys, reboot.
The radio works at the powers in `Works`; with `NvsMayFail` every write to NVS may
fail. A note by the sensor task, which has the higher priority on the one core, is
a step. The publish task can be preempted by one, so an apply is two steps
(`ApplyTrial`, `ApplyTrialRest`), and so are the two ends of an update session:
`SessionBegins` sets the session flag and `PinMax` pins the power, `SessionEnds`
clears the flag, `UnpinLoads` reads the power in effect and `UnpinSets` sets it. The
sensor task's wait may time out before each of them (`PassTimesOut`); without the
flag that is a failed cycle. The history variable `torn` names the calls that a revert
came into the middle of and that nothing has made good since.

**`HistoryLog`** and **`HistoryQueue`** The ring with wrapping counters and a
record-by-record copy that an append may interrupt; the queue it implements
(`ImplementsQueue`).

**`OtaUpdater`** Staging tool, broker, publish task, esp-mqtt's task. An image
is a set of named bytes, so a hash matches exactly when the bytes do.

**`MqttSession`** The client against an external broker: two ordered streams
that are lost with the connection, a session that the broker may forget, a
subscription it may refuse.

**`RuntimeConfig`** Two integer settings with their unit conversions: the
publish gap (to skipped polls) and the heater period (to heater cycles), clamps
and rounding included. Its faults are a connection lost while the acknowledgement
is awaited or while echoes are in the outbox (the drain cap drops them in the same
way), settings that `nvs_open()`, `nvs_set_u32()` or `nvs_commit()` does not store,
and settings that cannot be read at a boot. `nvsFailed` and `echoLost` remember which
settings a fault left different.

**`ThreadLink`** The Thread transport under the OpenThread lock:
`ProcessStateChange`, `RefreshNat64Prefix`, `EnhAckReport`, the telemetry in its
two parts. The stack is external: `Attach`, `Detach`, `SwitchParent` and
`NetDataChanges` owe one callback for any number of changes. The prefix is kept
as two halves, because its reader takes it without the lock.

**`WifiLink`** The Wi-Fi transport: `WifiEventHandler` over the queue of posted
events, with an external driver (`ApAccepts`, `ApFails`, `GetsAddress`).

**`NetworkLink`** Extends both and composes them with the sensor task (gate,
result, refresh) and the publish task (`Pub*`, `Ota*`), reduced to the hooks
they call, in their order, on every path. Which transport and which address
families are configured is an initial state, as `app_main()` accepts them.

**`LightSleep`** What runs around a light sleep: `LightSleepAttempt` with both
exit callbacks, the ring (`AcceptCold`, `UpdateMean`), the wrap, the setters, the
status task, the awake time. `s_count` is kept modulo the ring once it has filled
it; `accepted`, `band`, `steady` and `trulyAwake` are history.

**`MC*`** Instances for TLC; `HistoryLog` and `NetworkLink` need none, their
constants are numbers and sets that a configuration can write. **`*Proofs`** One
module of theorems for each of `SensorsTask` (the theorems about `LpCore`, which
it extends, come first in it), `MqttSession`, `TxPower`, `HistoryLog`,
`OtaUpdater`, `RuntimeConfig`, `NetworkLink` and `LightSleep` (section 5).

## 3. The runs

Passing runs (`tlc -config <run>.cfg <module>`):

| Run | Instance | Shows |
|---|---|---|
| `LpPolls` | 2 temperatures, humidity above the heater threshold, 3 polls, 1 acknowledgement, 1 config change, 2 read attempts (10 in the code) | clean reads are stable and current; the baseline is an acknowledged value; a reading unlike all that were acknowledged, by the thresholds in force at the decision, is flagged; silence is bounded |
| `TaskDelivery` | 4 polls; `attach`, `publish`, `lost`, `fall`, `dead` | acknowledged readings were delivered; tried readings are kept; a wake is published once; leftover flags were handled; the safeguard wait never publishes |
| `TaskSupervisor` | 3 polls, a heater run of 4 polls; `publish`, `lost`, `dead`; fair | a stall reboot means the LP core is dead; a dead one is rebooted; a flag is seen |
| `TaskOta` | 2 polls; `publish`, `ota`, `task` | an image is confirmed only after its own boot delivered |
| `TxTrial` | requests -15 and 0 dBm, link works from 0 dBm, 2 requests, 1 reboot, an update due, NVS writes that may fail; fair | a download has full power; otherwise the radio has the reported power, the known-good one unless a trial is on; a promoted power was proven in the boot that promoted it; a broken trial ends |
| `HistoryReplay` | 4 slots, batches of 3, counters wrap at 16, 22 appends | replay is in order; the ring implements the queue |
| `OtaRestage` | 2 stagings, images of 5 and 6 bytes, chunks of 2; `loss`, `clear`, `quit`, `flash` | only whole images boot; a resume point is backed by stored bytes |
| `OtaCycle` | 1 staging; `loss`, `idle`, `slow`, `crash`, `battery`, `click`; fair | the publish cycle always ends; a request that can be served and has attempts left is served, unless its sessions are disturbed again and again |
| `MqttAcks` | 2 groups, 1 change of the retained value, 3 faults; `loss`, `forget`, `acl`, `boot`; fair | success means the broker received it and the device is up to date; skipped and replayed messages had been received; changes arrive |
| `CfgSettle` | poll of 25 s, requests at 0, around two polls, above the maximum, not a number; 2 requests, 1 boot, 1 fault; fair | saved is current; conversions match; device and broker converge; a command that crosses no publish is applied |
| `LinkWindows` | both transports, 2 parents, 2 prefixes, 3 changes of the mesh, 2 faults of the access point, 1 lost session, 1 download; fair | the poll period is that of the open window; bits, prefix and reading are current; a usable network is used |
| `SleepClock` | ring of 3, 3 rejections to a restart, 2 close periods and a distant one, 0, 1, 2 and too many samples, status off and below its floor | the mean is of the newest values and settles; no period change is lost; the awake time is right |

The type invariant of each module is stated beside its properties; `LpPolls`
checks the one that the proofs use.

The bounds are the smallest that reach the interesting cases. A seqlock needs
one writer overtaking one reader, so two polls during a read; the third lets the
baseline change in between. The device of `LpPolls` boots with a threshold wider than
the difference of the two temperatures and with a heater, and its one change of
the settings lowers the threshold, at any point of a poll. The stall supervisor needs two passes and a heater
run longer than that. The ring is lapped more than once and its counters wrap
once. An image has three chunks because the window is two deep. 25 s divides
neither a minute nor the gaps, so every conversion rounds. Three changes of the
mesh are an attach, a change while a cycle holds the old address, and one more
that undoes it or comes before the callback of the second. A ring of three wraps
with every number of samples from one to all of it, and three rejections are
enough for a run to be broken off, to be completed, and to begin again
(`MeanSettles` allows one run for each sample: a first value of a new band that is
accepted may leave a mean from which the next is a jump again). `ReadAttempts` is 2
instead of 10: what matters is a failed attempt, a retried one and the fall
through. `AckOverlap = FALSE` in `LpPolls` assumes that the
HP core writes an acknowledgement only once the LP program has consumed the
previous one, which holds as long as a publish ends within the poll interval it
began in; `LpAckOverlap` shows what happens otherwise. One fault in `CfgSettle` is
any of a lost connection, settings not stored and settings not read; the run also
passes with two (3.7 million states).

### Counterexamples kept beside the runs

Each of these configurations checks one property that a comment or document
states and the code does not keep; the finding in `PROJECT.json` quotes the
comment.

| Config | Module | Property | What happens |
|---|---|---|---|
| `LpAckOverlap` | `MCLpCore` | `BaselineIsAcked` | the baseline mixes the words of two acknowledgements |
| `LpFallThrough` | `MCLpCore` | `FallThroughNotTorn` | the last of the failed attempts is returned, torn |
| `LpConfigReread` | `MCLpCore` | `ConfigReadOnce` | an offset is read twice with a heater run in between |
| `TaskOtaAck` | `MCSensorsTask` | `AckedWasDelivered` | a refused start leaves the previous success in place |
| `TaskStallLoss` | `MCSensorsTask` | `TriedIsKept` | a publish that outlasts the task's wait is neither acknowledged nor kept |
| `TaskHeaterSwallow` | `MCSensorsTask` | `LeftoverIsHandled` | a flag raised after the heater is taken for a leftover |
| `TaskHeaterReboot` | `MCSensorsTask` | `StallRebootMeansDead` | snapshots inside a heater run look like a stall |
| `TaskHeaterReboot` with `Env = {"lost", "fall"}` | `MCSensorsTask` | `PublishedOnce` | a fall-through's heartbeat of zero makes the task forget that it published the snapshot of a heater run |
| `TaskLongGap` | `MCSensorsTask` | `SafeguardIsSilent` | the safeguard keeps the boot-time skip after it was raised |
| `TxDoubts` (with this invariant) | `MCTxPower` | `KnownGoodIsProven` | the cycle that applies a power ends with the success of its own message, sent at the old one, and is taken for the new one's evidence |
| `TxDoubts` (with this invariant) | `MCTxPower` | `PromotedSurvives` | NVS types differ, so the promoted power is not restored |
| `TxDoubts` | `MCTxPower` | `RejectedNotRetried` | an out-of-range command that clamps to the rejected power is tried again |
| `TxDoubts` (with this invariant) | `MCTxPower` | `NoTrialIsKnownGood` | the sensor task's wait times out between two assignments of `runtime_config_apply_pending()` with two failures counted; the trial that begins is reverted and the radio set to its power all the same |
| `TxTrial` (with this invariant) | `MCTxPower` | `ReportedIsRadio` | the wait times out while the unpin after a session waits for the OpenThread lock; the trial is reverted and the radio then set to the power loaded before |
| `TxOtaRevert` | `MCTxPower` | `RevertHasEvidence` | update-only cycles, which publish nothing, count against the trial |
| `HistoryOverlap` | `HistoryLog` | `ReplayOrdered` | appends lap the ring while a batch is copied |
| `OtaDoubts` | `MCOtaUpdater` | `LowBatteryDefers` | an update-only cycle carries no battery reading |
| `OtaDoubts` (with this property) | `MCOtaUpdater` | `ZeroProgressCounts` | a full download with a bad hash counts as no progress |
| `OtaDoubts` (with this invariant) | `MCOtaUpdater` | `ManifestHasItsChunks` | the clear deletes chunks before their manifest |
| `OtaDoubts` (with this invariant) | `MCOtaUpdater` | `InstallWasApproved` | an old install flag approves a new image |
| `OtaDoubts` (with this property) | `MCOtaUpdater` | `RequestIsNotLockedOut` | an exhausted budget is never refilled |
| `OtaDoubts` (with this property) | `MCOtaUpdater` | `RequestSurvives` | finishing one install deletes the next request |
| `MqttForgotten` | `MCMqttSession` | `SkippedIsSubscribed` | a session that the broker recreated has no subscription |
| `CfgMissed` | `MCRuntimeConfig` | `CommandIsApplied` | the device's own publish overwrites a command |
| `CfgMissed` (with this property) | `MCRuntimeConfig` | `DisplayIsReality` | the one echo of a clamped value is lost with its connection and the broker keeps the value out of range |
| `CfgMissed` (with this invariant) | `MCRuntimeConfig` | `AppliedIsDurable` | a value is echoed that NVS did not take |
| `LinkDoubts` | `NetworkLink` | `UriIsWhole` | the broker's address is mixed from two prefixes |
| `LinkDoubts` (with this invariant) | `NetworkLink` | `StatsAreOfOneParent` | the uplink reading is of another parent than the rest |
| `LinkDoubts` (with this invariant) | `NetworkLink` | `StatsMeanAttached` | a detached device has telemetry, the counter deltas |
| `LinkDoubts` (with this invariant) | `NetworkLink` | `WifiReadyIsRouted` | a link-local address opens the gate |
| `WifiGivesUp` | `NetworkLink` | `LinkRecovers` | after one `esp_wifi_connect()` that fails nothing connects again |
| `SleepClock` (with this invariant) | `MCLightSleep` | `FailedStartIsStock` | a start that failed still substitutes the mean |

What the passing properties leave out because of them: `SafeguardIsSilent`
excuses a dead LP core, a lost wake and a failed measurement; `DeadIsRebooted`
excuses an update that is due for ever, which defers the supervisor; `FlagIsSeen`
allows a reboot for another reason; `OkMeansUpToDate` asks for a subscription that was
granted or that the broker still holds when the cycle ends, and `ChangeArrives`
excludes a session whose subscription the broker forgot; `Converges` excuses a command
that is not a number and, where the echo was lost, asks only that the broker holds a
request for the value in effect; `SavedIsCurrent` excuses a setting whose last
access to NVS failed; `RadioPower` excuses what a revert in the middle of an apply or
of an unpin leaves behind, until the power is next set without one.
`CycleReturns` does not hold when flash writes fail or an
image is staged again halfway on a flaky link, because progress resets the
reconnect loop of one cycle, so `OtaCycle` has one staging and no `flash`.
`LinkStateIsCurrent` asks of a Wi-Fi gate for IPv6 only the link-local address the
code waits for, and `LinkRecovers` is checked for calls of `esp_wifi_connect()` that
start an attempt.

## 4. Fairness

Weak fairness is stated on the steps of the tasks themselves and on nothing
else: `HpStep`, `SleepExit`, `Tick`, `LpStep` and `Publisher` in `SensorsTask`,
the passes of both tasks in `TxPower`, `PushStep`, `SessionStep` and `ChunkStep`
in `OtaUpdater`, `CycleStep`, `OnEvent` and `BrokerReads` in `MqttSession`,
`CycleStep` and `BrokerReads` in `RuntimeConfig`; in `NetworkLink` the publish task,
the sensor task's wait, an owed callback, a posted event and an access point that
answers. One strong fairness is stated, there: passes with values to publish
keep coming among those that only update, because the LP program flags a value
at least every `max_skip_cycles + 1` polls. FreeRTOS runs a ready task
when no higher one is ready and every wait in the code has a timeout; the LP
timer is hardware. Losing a wake, a packet, a connection or the LP core is never
fair, and neither is anything that a person does.

## 5. The proofs

Every theorem holds for all values of the constants that the module's named
`ASSUME` admits (types, positive sizes, a counter range that the ring's capacity
divides), so for any number of polls, requests, restarts, images, parents or
records. Where a theorem has a hypothesis, the property is false without it: TLC
finds a counterexample in the configuration named beside it, or in the same one
with this property or this member of `Env`. `Timely` means neither `stall` nor `ota`.

| Module | Theorem | Property | Hypothesis |
|---|---|---|---|
| `SensorsTaskProofs` | `LpTypes` | `LpTypeOK` | |
| | `SeqlockIsSafe` | `CleanReadIsStable` | |
| | `SeqlockIsLinearizable` | `CleanReadIsCurrent` | |
| | `BaselineNeverMixed` | `BaselineIsAcked` | `~AckOverlap` (`LpAckOverlap`) |
| | `UnackedIsFlagged` | `UndeliveredIsFlagged` | `~AckOverlap` (`LpAckOverlap` with this property) |
| | `SilenceIsBounded` | `SilenceBounded` | |
| | `ConfirmationIsEarned` | `ConfirmedAfterDelivery` | |
| | `AckIsGenuine` | `AckedWasDelivered` | `Timely` (`TaskOtaAck`; `TaskStallLoss` with this invariant) |
| | `NoReadingIsLost` | `TriedIsKept` | `Timely`, no `task` (`TaskStallLoss`, also with `ota` or `task`) |
| | `NeverPublishedTwice` | `PublishedOnce` | no `fall`, or no heater (`TaskHeaterReboot` with `fall`) |
| | `NoFlagIsSwallowed` | `LeftoverIsHandled` | no heater (`TaskHeaterSwallow`), no `ota` (`TaskStallLoss` with `ota` and this invariant) |
| | `SafeguardStaysSilent` | `SafeguardIsSilent` | no heater (`TaskHeaterReboot` with this invariant), no live setting with more skips than the boot's (`TaskLongGap`) |
| | `StallRebootIsDeath` | `StallRebootMeansDead` | a heater run shorter than two safeguard windows (`TaskHeaterReboot`), no `fall` (`TaskHeaterReboot` with `fall` and a heater of 4 polls; with no heater it takes 12 polls and one read attempt) |
| `MqttSessionProofs` | `SessionTypes` | `MqttTypeOK` | |
| | `OkIsReceived` | `OkMeansReceived` | |
| | `SkippedIsReceived` | `SkippedWasReceived` | |
| | `ReplayedIsReceived` | `ReplayedWasReceived` | |
| | `OkIsUpToDate` | `OkMeansUpToDate` | |
| `TxPowerProofs` | `TxTypes` | `TxTypeOK` | |
| | `RadioAtKnownPower` | `RadioPower` | |
| | `PromotionIsOfThisBoot` | `PromotedInItsBoot` | |
| `HistoryLogProofs` | `ReplayInOrder` | `ReplayOrdered` | `~Overlap` (`HistoryOverlap`) |
| | `RingImplementsQueue` | `ImplementsQueue` | `~Overlap` |
| `OtaUpdaterProofs` | `WholeImageBoots` | `BootsWholeImage` | |
| | `ResumesAtNextByte` | `ResumePoint` | |
| `RuntimeConfigProofs` | `RestartChangesNothing` | `SavedIsCurrent` | |
| | `CyclesKeepThePromise` | `CyclesMatchSettings` | |
| `NetworkLinkProofs` | `PollIsOfWindow` | `PollMatchesWindow` | |
| | `LinkIsCurrent` | `LinkStateIsCurrent` | |
| `LightSleepProofs` | `PeriodChangeIsNoticed` | `NoLostPeriodChange` | |
| | `AwakeReadingIsTrue` | `AwakeIsTrue` | |
| | `MeanIsNewest` | `MeanIsOfNewest` | |

Few of the properties are inductive as they stand. What each argument rests on:

**Shared memory.** `CleanReadIsStable` says nothing of a reader in the middle of
a copy. `SeqInv` adds what the protocol relies on: the counter is odd exactly
while the LP program writes (`OddWhileWriting`), an even counter means the words
are a whole result (`EvenIsStable`), the counter the reader noted is not in the
future (`NotedIsPast`), and while it has not moved every word copied so far is
still the one in memory (`CopiedIsCurrent`). `LpEffect` reduces the LP program's
steps to what they do to the counter and the words. An acknowledgement is three
stores and its consumption three loads, so `AckInv` says how far each side is
(`WrittenSoFar`, `TakenSoFar`) and that they never overlap (`OneSideAtATime`), the
one place where `~AckOverlap` is used. `SilenceInv` adds that the visible silence
never exceeds the program's own skip count and that the budget word holds a
budget some caller wrote, even halfway through `apply_config()`.

`UndeliveredIsFlagged` was first stated of the state in which the LP program is
about to wake the HP core, with the thresholds in memory at that moment. That
is not provable, and with wide enough thresholds TLC refutes it: the HP core may
lower a threshold after the decision was made by the old one. It is now stated
of the step that decides.

**Sensor and publish task.** `s_last_ok` belongs to "the last publish", whichever
that is. `OutcomeIsGenuine` (a recorded success means that some message of
this boot was received) suffices for the rollback, in every environment. For an acknowledgement
it must be the success of this pass's reading, so `HandoffInv` follows the hand-off:
a publish task that runs while the sensor task waits was started by this pass and
carries its reading (`TaskOfThisPass`), and its outcome is this reading's
(`OutcomeOfThisPass`). Both fail when a cycle outlives its pass, by an update or by a
connection that outlasts the wait: that is `Timely`. A publish task that cannot be
created leaves its reading nowhere, hence the absence of `task` in
`NoReadingIsLost`.

`PublishedOnce` and `LeftoverIsHandled` are about the heartbeat as a name of a
result. `SeenInOrder` says that what the task saw last is not later than what is
in memory, and that published results are not later than what it saw; it holds
unless a fall-through returns heartbeat 0. With fall-throughs, but without the
heater, a result becomes readable only when its heartbeat, its flag and its
values are all there, and `OnceInv` says that a published result whose heartbeat is
the current one is the one the task remembers (`HeartbeatOrder`,
`PublishedIsRemembered`). `RememberedIsPublished` is the converse for the flags that
the gate ignores.

**The safeguard and the stall supervisor.** Both are accounts of polls. The wait of
the sensor task ends after `max_skip_cycles + 3` polls. `GapInv` says that every
poll of one wait but the one in progress was a skipped one (`PollsCounted`). A
skip counter that is reset in the middle of the wait would break the count; only the
consumption of an acknowledgement resets it, the task writes those only before it
waits, and so only the first poll of a wait can consume one (`AckTakenFirst`). With the budget of no live setting above the boot's
(`BudgetInv`) a wait therefore sees at most `max_skip_cycles + 1` polls.

A heater run holds the heartbeat still although the LP core lives. `StallInv` says
that, while the newest heartbeat is one the task has already seen, the windows it
has seen without progress, counted and open (`CountedPolls`, `OpenPolls`), fit into
the polls since that heartbeat was counted (`SilentPolls`): those of the heater run and
one for the run that follows (`WindowsAreSilent`). A second silent window needs
`2 * SafeguardPolls` of them. The bound on the heater is exact: with windows of 3 polls
TLC finds no false reboot for a heater run of 4, and one for a run of 5.

**MQTT session.** Acknowledgements are counted and never matched to a message.
`CountInv` makes the count mean something: whatever was published on this connection
and is not counted yet is on its way up or is a PUBACK on its way down (`Owed`), no
connection starts with anything owed, the expected number is fixed before the first
message is sent, and every message the cycle needs was received or is on its
way. So when the count is full nothing of it is still on its way (`ReceivedInv`).
The counting lemmas are facts about the places of a packet kind in a sequence and
their cardinality.

`OkMeansUpToDate` is about the order of two streams. The broker answers a
SUBSCRIBE with the retained value, and a CONNECT with the changes queued for the
session, before it reads the messages that follow, so these come down before
the acknowledgement of the state message. `ConnectInv` and `SubscribeInv` say what
may be under way together with a CONNECT or a SUBSCRIBE, `OrderInv` that changes
come down in their order and that an acknowledgement of a change going up never
overtakes a change coming down. `BeliefInv` carries the argument from one cycle to
the next: as long as the device believes in a subscription that the broker holds,
the broker has nothing older in its queue than what the device has seen, not even after
the acknowledgements on their way. `ReachInv` then says that before every PUBACK
on the way down the device is up to date, and `KnowInv` that it stays so to the end
of the cycle.

The property was first stated with the exclusion "unless the session is orphaned"
(`s_session_subscribed`, but the broker's session has no subscription). That is
false: an orphaned session that the broker forgets after the link has dropped is
not there at all, so not orphaned by that definition, while the cycle has already
ended ok without the change. It takes five faults, more than the run allowed, and it
was found because the proof could not be closed. The property now names the subscription that
the cycle relied on.

**TX power.** `TrialInv` ties the position of the publish task to the trial: no
cycle before the first attach, the session flag set exactly from its store to its
clearing, a trial's power in effect except between the two steps of an apply, and
the power an unpin has loaded still the one in effect. A note that reverts a trial
sets the radio and the reported power together (`NoteOutcome`), so at the end of a
session, where the radio is still pinned, it costs nothing: the unpin loads what the
revert left. Between the two steps of an apply or of an unpin it does, and `torn`
records it (`NoteKeepsPower`); this is all that `RadioPower` excuses.
`PromotedInItsBoot` needs only that a trial that goes on
after the first attach was begun in this boot (`BootInv`).

**History.** A record's slot is its index modulo the capacity, and the counters
wrap at a multiple of it; the modular lemmas (`Distributes` to the slot lemmas)
say that neighbouring records differ in their slots as long as no more than
the capacity are held. `RingHolds` says that the slot of each held record holds it,
`BatchInv` that a batch in the making is a prefix of what is held. The refinement maps
the ring to the run of held indices (`PendingRun`) and a batch to its prefix
(`BatchRun`); each step of the ring is then a step of `HistoryQueue` or a stutter.

**Update.** Only the hash is compared with the manifest, so that the flash holds
the image rests on `HashFollowsFlash`: while the hash operation is usable it was fed
exactly what was written. `ResumePoint` counts bytes, so it takes the types of
everything that can become a chunk or a manifest (`KindsInv`) and the cardinality
facts of `FiniteSetTheorems`: the bytes of a chunk are new, and as many as its size.

**Settings.** Between receipt and save a setting exists three times. `CfgInv` says
that the converted values are those of the settings (`ShadowIsConverted`) and that
what is about to be saved is exactly what the flash lacks, beside the settings of
which an earlier access to it failed (`SnapshotIsTheDifference`).
The conversions are arithmetic: `DivBounds` bounds an
integer division from both sides, and the rest follows for every poll interval.

**Links.** `PollMatchesWindow` is inductive: each hook sets the period of the window
it opens or returns to. `ThreadCurrent` is the Thread half of `LinkStateIsCurrent`;
the Wi-Fi half depends on the events still queued, so `WifiInv` says that each
difference between the driver and the bits is announced by one of them (`Announced`).

**Light sleep.** `NoLostPeriodChange` is inductive. `AwakeInv` says that the time
since the last reading is the sleep accumulated plus the time awake, so that the
subtraction in the code gives the latter unless the result's width cuts it off.
`RingInv` says that the i-th newest accepted value is in the slot that `update_mean()`
reads for i, and that the mean is the one computed from the ring. Storing a value
shifts every index by one, and by the modular lemmas the slot stays; no sum is ever
evaluated, two sums over equal functions are equal.

Only model-checked:

* every liveness property (`DeadIsRebooted`, `FlagIsSeen`, `BrokenTrialReverts`,
  `CycleReturns`, `RequestIsServed`, `ChangeArrives`, `Converges`,
  `OrderlyCommandIsApplied`, `LinkRecovers`): fairness and ENABLED are outside the
  prover;
* `MeanSettles`: that a mean of values in a band lies in the band is a bound on a
  sum of any length, an induction over data.

## 6. Not modelled

* Timing in milliseconds and current: a timeout may come whenever its wait is
  not yet over, and a poll period is one of four names.
* The die temperature, the ADC and the battery curve, LED and GPIO, the boot
  counter and the reset reason: stateless reads of hardware, or telemetry that
  nothing depends on.
* What a status line prints, with the counters only it reads.
* The text of the discovery payloads and of the YAML file, and TLS.
* Float settings and the antenna switch: they pass through the same receive,
  settle and save path as the two settings that are modelled. The clock
  settings' effect is in `LightSleep`, their way there in neither.
* Preemption of `runtime_config_apply_pending()` at other statements than the one
  in `TxPower`, between a trial's flag and its counter: a revert before the flag is that
  of an earlier trial and the new one begins after it all the same, and one after
  the counter is cleared takes three failed passes, minutes, while the call waits for
  the OpenThread lock.
* A fall-through of `get_state()` that returns an earlier attempt's copy: it reads
  like a clean read taken just before. The untouched, zero argument is modelled.
* The wrap of the 32-bit sequence counter: it takes 2^32 runs within one read.
* Router and leader roles: the device joins as a minimal end device
  (`configure_ot_network()`), so OpenThread never gives it one.
* Third-party drivers that are kept in the tree, and the analysis scripts.

## 7. Plan

Done: the modules of section 2, the runs of section 3, and a theorem for every
safety property that a run checks except `MeanSettles`.

What is left to do:

1. The antenna switch and the float settings in `RuntimeConfig`.
2. The type invariants of `SensorsTask`, `HistoryLog`, `OtaUpdater`, `RuntimeConfig`,
   `NetworkLink` and `LightSleep` as theorems of their own. The proofs use the parts they
   need of them.
