# Verification of the indoor-air-quality monitor

TLA+ models, TLC runs and TLAPS proofs for `iot-esp32-iaq-app` (the ESP32
firmware, C++ on FreeRTOS) and `iot-backend-iaq` (the Django backend). Paths
below are relative to the two, and the code is the reference.

## 1. Inventory

| Part | State it keeps | Operations | Talks to |
| --- | --- | --- | --- |
| Wi-Fi manager (`wifi/`) | `WifiSm` state, event queue of 10, reconnect counter, one-shot timer, credentials in RAM | start, connect, reconnect, provision, save credentials | Wi-Fi driver events, timer task, BLE host task, display, MQTT |
| BLE provisioner (`ble/`) | running, stop pending, two received flags and buffers, queue of 2 | begin, end, onWrite, onDisconnect | Wi-Fi task (start/stop), NimBLE host task (callbacks), storage |
| Environment sensor (`sensor/`) | BSEC configuration, mode, saved flag and time, length-1 request queue | change mode, run, save state | MQTT and OTA tasks, storage, telemetry queue |
| OTA updater (`utils/ota_updater`) | in-progress flag, url | request, run | sensor queue, display |
| Claim handler (`claim/`) | claimed, code, showing | ISR toggle, show, hide, setClaimed | display overlay, MQTT, storage |
| MQTT bridge (`mqtt/`) | started, connected; the client's outbox | connect, publish, handle events | broker, sensor, claim, OTA |
| Telemetry publisher | a queue of 10 readings | enqueue, drain | sensor, display, MQTT |
| Display controller | state and one overlay under a mutex, enabled | setters, enable, disable, render | every firmware task |
| Storage | keys in flash under a mutex | get/put per key | every firmware task |
| Message handlers (`mqtt/handlers.py`) | rows, device-id cache of 10 | one handler per topic | broker, database |
| Views (`iaq/views.py`) | rows | add device, publish command, show | database, broker |
| MQTT client command | subscription | connect, subscribe, loop | broker |
| History (`forms.py`, `history.js`) | none | validate a range, find gaps | views |
| Clock (`rtc.cpp`, `time_sync.cpp`) | the chip's time and voltage-low flag, the system clock | seed, sync, write | I2C, network time |
| Health reporter, device info | a timer | publish, read | MQTT, libraries |

`main.cpp` joins the firmware's parts. Wi-Fi events of the driver become events
of the Wi-Fi task's queue; connecting starts the MQTT client, losing the last
attempt starts BLE setup, and credentials written over BLE come back as an
event. MQTT messages become requests of the sensor's queue, an update, a claim
status or a restart, each in the MQTT client's task. The sensor's readings go
through the telemetry queue to the display and to MQTT. The broker carries
readings, claim requests and the retained status, description and mode to one
ingestion process; web requests talk to devices through the broker and to the
ingestion process only through the database.

What makes it hard:

* nine tasks and an interrupt, each with its own steps between two looks at
  shared state (`end()` and `onDisconnect`, the claim button and `setClaimed`,
  the display's switch and its setters);
* queues that drop when full, and one of length one that overwrites;
* failures of libraries half-way through a change (BSEC, flash, task creation);
* one overlay, and one pair of keys in flash, written and read by several tasks in
  several steps;
* a driver whose events do not correspond one to one with attempts;
* messages lost, repeated, retained, or handled before their device has a row;
* database requests in separate transactions, and a cache nothing clears.

What makes each part correct:

* Wi-Fi: at most one retry under way; set-up only after the budget is spent;
  `begin()` only with both credentials; an attempt is resolved.
* BLE: no teardown under a peer; a stop completes; a session sees only its own
  writes.
* Sensor: the rate, the configuration and the stored mode are those of the mode it
  reports; what was learned is kept. OTA: one at a time, and it ends with the display
  on and the sensor asked to sample.
* Claiming: a device has one owner, taken by a code it showed; device, listing
  and owner agree.
* Presence: shown online exactly when connected; a command once.
* Ingestion: the latest reading is the newest; nothing dangles; no device's
  reading is stored for another.
* Credentials: what a peer gave in full is what is tried; a torn pair leads back
  to set-up.
* Display: no change goes unseen while it is on, and no overlay is shown that
  nobody wants.
* History: a page has the readings of its days, each once; only an outage
  interrupts the line.
* Clock: a time written survives a loss of power.

## 2. Plan

Done, in this order: the Wi-Fi manager with its abstract lifecycle and its
proofs; the BLE provisioner; the sensor and the updater composed with it;
claiming, with the abstract registry it implements; ingestion, with what the
administrator and the web process change underneath; the display and its callers;
presence; the provisioner composed with the two tasks that write and read the
credentials; the history page; the clock; then a proof module for each of the
modules whose runs check safety, so that every invariant and every refinement of a
passing run is a theorem. Left, in this order:

1. `BleProvisioner` with callers other than the Wi-Fi task: `NoTeardownUnderPeer` for
   its own `Next`, of which `Provisioning` has proved the part its Wi-Fi task uses.
2. `WifiLifecycle`: what it promises, proved of it once and inherited by `WifiManager`
   through the refinement.
3. What the liveness properties need of safety: that a stop put off, an update or a
   withdrawn code keeps the step that completes it possible until it is taken.
4. `Presence`: an abstract module, a device and what the backend knows of it, that
   `ModeAgrees` and `StatusAgrees` would be the refinement of.

## 3. Modules

What the environment may do is named by strings. In `WifiManager` a constant,
`Faults`, lists those a run allows. In the other modules with faults a constant
`Scenarios` lists sets of them and a variable (`faults`, `changes`) that no step
changes holds the one a behaviour lives in: one run covers them all, and a property
that some of them are known to break says which it leaves out. `PROJECT.json` maps
every definition to its lines. A definition marked as a mutant is a plausible bug
of the one below it, which breaks the property it is listed with.

* **WifiLifecycle** is what the Wi-Fi subsystem promises: attempts, a bounded
  number of retries, set-up, online. **WifiManager** implements it. Its state is
  the state machine of `wifi_sm.hpp`, the queue, the counter, the timer, the
  driver's radio, the credentials in flash and RAM, and what the other parts
  were last told. `Receive` dispatches the head of the queue to one `Handle…`
  action per row of the transition table, guard and actions together; the
  driver, the timer, the BLE task saving credentials (two writes, then an
  event) and restarts are actions of their own. The guard `loadCredentials`
  reads flash and may fail, and Boost.SML evaluates it for both rows.
* **BleProvisioner**: the BLE task step by step (`receive`, `started`, `count`,
  `pend`, `drop`, `deinit` are the points at which it can be interrupted),
  callers that start and stop, a peer that pairs, writes and leaves, and the
  callbacks of the NimBLE host task.
* **Provisioning** extends it with the buffers the callbacks fill, the host task's
  `saveCredentialsAndEnqueueUpdate` (two writes, then an event), flash, the Wi-Fi
  task's `loadCredentials` (two reads) and its start and stop requests. The Wi-Fi
  task is otherwise as `WifiLifecycle` promises, so that the two compositions meet
  in the abstract module. `meant` is a history variable: the network the peer wrote
  of last.
* **EnvSensor**: the sensor task. `Apply` is `applyMode` with each of BSEC's
  calls failing at will; `MaybeSave` is `maybeSaveStateToStorage`, called from
  the loop and before a switch. **OtaUpdater** extends it with the requests and
  the update tasks, the display's switch and restarts.
* **ClaimRegistry**: a device has no owner until a user takes it, while it
  offers its code, and keeps it unless an administrator takes it away.
  **ClaimSystem**: button task, MQTT task, link with outbox,
  ingestion, and the claim view as its separate queries
  (`FindClaim`, `CreateDevice`, `PublishStatus`, with what can intervene). In the
  scenarios with `"alone"` all users are after one device with a long outbox, in the
  others one user is after all devices, with an outbox of one.
* **Ingestion**: a message between `_get_device_id` and its transaction, the LRU
  cache, rows created, edited and deleted underneath. `draft` is the row a request of
  the web process has read and not yet saved: the admin site saves every field of it,
  the visibility view the one it changes (`update_fields`).
* **DisplayController**: setters that change state under the mutex and then look
  at `m_enabled`, the switch, and the display task with its notification. The
  callers are the Wi-Fi, NimBLE, MQTT and button tasks, each with the calls it has
  still to make (`todo`).
* **Presence**: the telemetry queue, the MQTT client's outbox and connection, the
  broker's session, will and retained messages, the ingestion process and its
  subscription, the `DeviceStatus`/`DeviceInfo` rows, and the two steps of
  `IaqDevicePublishView`.
* **History**: the readings stored are the state; the form, the query and
  `history.js` are operators on it, the reference definitions stand in the
  properties.
* **Clock**: the chip, its battery and its voltage-low flag, the system clock, and the
  two tasks that set one from the other. Times are epoch, stale or right.

Proofs are in modules of their own, `…Proofs`, each named after the one it is about.
The type invariants of `ClaimSystem`, `Presence` and `OtaUpdater` are theorems there, and
no run spends a property on them.

## 4. Runs

| Run | What it shows |
| --- | --- |
| `wifi_faults` | with a queue of 3, so that events are dropped, and every fault: retries are single and counted, credentials are behind every attempt, and the lifecycle is implemented |
| `wifi_ideal` | with the code's queue of 10 and budget of 5 and no fault: the queue never fills, no state is a dead end, no event is taken for another attempt's, and the device comes to rest |
| `provisioning` | no teardown under a connected peer, whoever leaves when, and stops complete; what a steady peer gave is tried as it was given; nothing of an earlier session is saved; after failed and interrupted saves what is used is what is stored, and a torn pair leads back to set-up |
| `ota_faults` | the sensor task under mode commands, failures of BSEC and flash, restarts and up to two updates: the rate is the mode's and so, unless a subscription is rejected, is the configuration; what BSEC has learned is in flash before it is reset, and nothing worth less replaces it; one update at a time, display off during it and on after it; the sensor is made to resume, and does unless BSEC rejects the mode |
| `claiming` | ownership and the registry refinement under lost links, restarts, failed writes, missed messages and deletions; while links hold, of devices that may have drawn one code those that show it and only those get listed, and an owned one learns of it |
| `ingest_changes` | the latest is the newest; no dangling reference; no other device's row, with cache evictions, edits, deletions and restarts |
| `display_wakeups` | no change goes unseen while the display is on, no overlay is shown that its owner took back, and a passkey is seen while its session lasts |
| `presence_faults` | once nothing is on its way, a device is shown online exactly when connected and in its sensor's mode; a reboot asked for once happens once |
| `history` | for every series of six readings and every request: the page has the calibrated readings of its days, in order; the line is interrupted exactly where most neighbouring intervals are shorter than half |
| `ble_lost_stop` | violation: a peer that leaves between the count and the flag leaves BLE running for ever |
| `presence_claimed` | violation: a device claimed while connected is refused as offline until it connects again |
| `clock_unset` | violation: a clock chip whose voltage-low flag is set is never set again |

The last three show the code at odds with a comment or a message of its own; the
findings quote both. With the early return on the voltage-low flag taken out of
`Write`, `SurvivesPowerLoss` holds.

Every other limit a property states is there because TLC showed that it fails
without it. The ones a maintainer should know:

* a subscription BSEC rejects leaves the new mode's configuration, with nothing
  learned, at the old mode's rate (`applyMode`, `env_sensor.cpp:292`), which
  `env_sensor.cpp:15-17` warns of; asking for the mode it still reports changes
  nothing (`env_sensor.cpp:245`). `ModeIsEffective` says nothing of the configuration
  there, and `LearnedIsKept` nothing of what a save then writes over: the accuracy is
  still High, and the next change of mode saves the reset state in place of a mature one;
* a failed update asks the sensor to resume once. The request is used up before BSEC
  is asked (`env_sensor.cpp:202-207`), so that a mode BSEC rejects leaves the sensor
  Disabled until a user asks for one, against `ota_updater.cpp:58-59`: `SensorResumes`
  promises a resumption where BSEC rejects nothing, and the attempt where it may;
* `s_currentAccuracy` stays as it was when the sensor is disabled, so that a save in
  Disabled mode, or on the way out of it, reaches `configASSERT(false)`
  (`storage.cpp:31`): one update of a sensor that was accurate is enough. It is the
  model's `Panic`, a restart;
* the save of the outgoing mode sets `m_hasSavedStateForMode` for the incoming one
  (`env_sensor.cpp:249-255`), whose first High accuracy is then not saved, against
  `env_sensor.hpp:49-50`: its state waits for the four hours, or for its own change;
* a withdrawn code that was sent while offline stays listed
  (`mqtt_bridge.cpp:268`); no claim status of false is ever sent, so a deleted
  device goes on saying it is registered;
* the device-id cache gives a device that was deleted and claimed again the id of its
  old row, and its readings are refused (`handlers.py:138`);
* a deleted latest reading is not replaced by the newest left (`models.py:28`);
* a mode told while the queue is full, or given up by the MQTT client, is not told
  again until it changes or the device restarts (`telemetry_publisher.cpp:23`,
  `mqtt_bridge.cpp:244`), though `mqtt_bridge.hpp:61-62` lets a late subscriber rely
  on it;
* a device that could not store its claim status says after a restart that it is
  unclaimed, and lists its code again, which the server refuses (`claim_handler.cpp:40`);
* a command counts as sent when the 500 ms for the broker's answer are over
  (`publisher.py:33`);
* an attempt whose only outcome is the filtered CONNECTION_FAIL leaves the state machine in
  `StConnecting` (`wifi_manager.cpp:35`);
* an open network's empty password counts as a failed write, so that such a network
  can never be given (`wifi_adapter.cpp:66`);
* a peer that corrects a field after it wrote both may have a mixed pair tried, and flash
  may differ from what is used; one that leaves half-way leaves a device that
  does not advertise, until it restarts (`ble_provisioner.cpp:146`);
* hiding the claim code, or ending set-up, takes away the other's overlay
  (`display_controller.cpp:108`), and `show()` looks at `m_claimed` once, so that a
  claim status in between leaves the code of a claimed device on show;
* an end date alone, more than a week ago, is refused, because the start's default
  is after it (`forms.py:56`);
* an edit on the admin site puts back the latest reading its page was opened with;
* a seeded clock has a plausible date, so that `sync()` reports success before the
  network answered and the chip is given its own time back (`time_sync.cpp`);
* `begin()`'s own clean-up disconnect may take the state machine out of
  `StConnecting` before the address arrives (`wifi_manager.cpp:40`).

### Bounds

* Wi-Fi: two saves of credentials and one clean-up event let every pair of
  events meet in the queue; a budget of 2 shows the first, a middle and the last
  retry. The proofs are for every value, and `wifi_ideal` uses the code's own.
* BLE: the code's queue of two; one peer, as NimBLE's configuration allows.
* Provisioning: two networks, so that a name and a password can be of different
  ones, and one event in the Wi-Fi task's queue; an update that finds it full is
  lost. A peer may leave half-way, after which nothing moves: the run does not check
  deadlock.
* Sensor: all modes that can be requested. `SensorMode::Continuous` never is. Of the
  four scenarios two are the sensor's alone, with restarts; two have updates, one with
  restarts and a BSEC that takes every mode, one with rejections and failed saves.
* OTA: two updates, so that the second meets every step of the first.
* Claiming: one device with two users and two codes for races between users and
  two messages per outbox, a code and its withdrawal; two devices, with one user and
  one message each, for codes that collide.
* Display: two sessions, so that a passkey can outlive its own.
* History: days of three times, ranges of up to two days and a window of two on each
  side, so that the edges of days, of the range and of the series all matter in six
  readings; intervals of nothing, the usual and an outage; one reading late by
  one, and one uncalibrated. A full store ends a behaviour, hence no check of deadlock.
* Ingestion: a cache smaller than the number of devices, so that it evicts; three
  ids let one device be created, deleted and created again beside another; one view at
  a time holds a row it has read.
* Presence: a telemetry queue of one, an outbox of three (what a connect sends and
  one mode more), an inbox of the three retained messages, two reboots, the
  second perhaps through a stale status. Devices do not interact here, so there is one.
  The outbox bound keeps two places free for the next connect, so that it never
  stops the device.

### Fairness

* FreeRTOS runs every task that is ready: weak fairness on the steps of tasks and
  timers, never on requests, presses, peers or readings.
* An attempt the driver began ends, by its own timeouts (`AttemptEnds`); so does a
  download. A peer asked to go is gone at last, by its answer or by the link's
  supervision timeout. In `Provisioning` this is strong fairness: the host task takes
  its events in order, so that writes of a peer cannot hold the end of its link
  back for ever.
* No access point lets a device in with a name and a password that do not belong
  together, and the Wi-Fi task gives such a pair up, as `Settles` shows it does.
* In `ClaimSystem` a connection that stays up carries messages, and
  a request a web worker began goes on. Nobody is obliged to press a button.

### Taken from outside `src/`

`WiFi.begin()` may emit ASSOC_LEAVE and DISCONNECTED for an earlier connection.
NimBLE does not advertise again by itself. `Preferences::putString` returns a
length, so that an empty password counts as a failed write. `configASSERT` is
enabled, as in ESP-IDF's default. The MQTT client keeps QoS 1 messages in an outbox
in RAM, tries them again after a reconnect, gives them up after 30 s and
acknowledges a message after its event handler; it connects with a clean session.
The clock chip (PCF8563) keeps its voltage-low flag until its time is set, and
`getLocalTime` returns as soon as the system clock has a plausible date. Django's admin
site saves every field of its form. A broker that accepts a client id again ends
the older session, will included. A foreign key locks its row, so that a transaction
of the ingestion process and a deletion do not overlap; row ids are not used twice.
Readings are kept as a set, which does not tell a duplicate from its original.

## 5. Proofs

Every invariant, action property and refinement that a passing run checks is a
theorem, for every value of the constants that the module's assumption allows and
every scenario. `PROJECT.json` lists them by module.

Each proof module has the same layout. `IInv` conjoins the properties with what they
need to be inductive, in named parts, each of which says why it holds in its comment.
Lemmas say what the shared operators do (a queue, an outbox, a cache); one lemma per
action shows that it keeps `IInv`; `NextIInv` collects them by the disjuncts of `Next`;
`Invariance` is the temporal step, and the theorems follow from it.

**WifiManagerProofs.** `ReconnectToken` says that a timer armed, or a retry in the
queue, is the only one and belongs to the state that waits for it. That a second
retry cannot be produced depends on how the counter relates to the state
(`AttemptBudget`), and the refinement of `WifiLifecycle` on the notifications and
credentials of the state, so that the inductive invariant is the conjunction of all.
`GiveUpOnlyAfterBudget` is proved and no run repeats it: the refinement and
`AttemptBudget` give it between them. The properties of `wifi_ideal` are proved with
`Calm` as a hypothesis: no fault, no clean-up event, and a queue with room for two
events beside the updates that may wait; the code's 10 leave room for seven of those.
`CalmInv` counts what may wait in the queue: one start, one retry (`ReconnectToken`), one report of each
change of the driver's link, in the order it happened (`LinkReported`), and the
updates (`UpdatesFit`).

**ProvisioningProofs.** The invariant is in layers, because what holds depends on the
scenario. Whatever the Wi-Fi task asks, the stack and the host task agree
(`StackAgrees`, `SaverAgrees`), which is enough for `NoTeardownUnderPeer`. If it asks for
one thing at a time (`Patient`), a start finds the stack at rest and the flags clear
(`RequestsAgree`, `FlagsAgree`), hence `SavedIsOfSession`. A peer that does not correct
what it wrote adds that nothing is saved while it is read (`SteadyAgrees`), and without
failed writes and restarts flash is torn only during a save (`FlashAgrees`): together
they give `UsedIsStored` and `TriedIsMeant`, although the two writes and the two reads
are separate steps of two tasks.

**OtaUpdaterProofs**, for the sensor too. `ModeIsEffective` is inductive with the types.
`LearnedIsKept` is an action property, and what a save writes depends on two pieces of
state that need not agree: what BSEC has learned, and the accuracy it last reported.
`LearningAgrees` says how they may differ. A mature BSEC that has not said so was
restored from flash, where its state still is; a High accuracy of a BSEC that is not
mature is an earlier mode's, and flash then holds nothing mature of the present one,
as it would have been restored. The second part fails where BSEC rejects a subscription
or a state, and is stated without. `FlagAgrees` says that `m_inProgress` covers
a request from its head to the end of the task it creates, `DisplayAgrees` at which of
these points the display is off.

**ClaimSystemProofs.** Whatever can show that a device is offered comes from a press of
its button (`OfferedFirst`), and whatever tells it that it is registered from its owner
(`OwnedFirst`): code and status under way, row, flash, and the one row a request has
found. These give `ClaimedIsOwned` and the refinement of `ClaimRegistry`, action by
action. `ListedWhileShown` needs that the last message of a device which hides its code
is the withdrawal (`HiddenIsWithdrawn`), in whatever the outbox was left in.

**IngestionProofs.** `NothingDangles` and `LatestIsNewest` need that a row has at most one
latest reading of a kind, in the table and in the page of a form (`OneAtATime`), and that
none stored is newer (`NewestSoFar`). `StoredForItsDevice` needs that cache and message
in hand agree with the rows as long as no device is deleted (`CacheAgrees`).

**DisplayControllerProofs.** `NothingIsMissed` is inductive with the types: the one bit of
notification that is left after the look at `m_enabled` is enough. `OverlayIsDue` needs
which calls a task may still have to make (`WishesAgree`), and that the passkey of an
earlier set-up is cleared before the overlay comes (`PasskeyIsFresh`).

**PresenceProofs.** `LastSays(s, topic, v, known)`: the last message about the topic in `s`
says `v`, or there is none and `v` is known. The invariant applies it along the way of a
fact, from the sensor's mode through queue and outbox to what the broker retains
(`ModeOnItsWay`), from there through the inbox to the row (`BackendAgrees`); the status
enters at the broker, with the will (`BrokerAgrees`). Two lemmas say what adding a
message and taking the first one does to it. With all queues empty, what is said last is
what is known. `CommandsAgree` counts the reboots a device may yet receive.
`RefusalIsTrue` bounds the finding of `presence_claimed`: a device that was registered
before it connected is refused as offline only while that is so or on its way.

**HistoryProofs.** Both properties rest on one fact, `RankFills`: ranking the members of
a finite set by what is ahead of them puts one of them in every place. Ranks are
different and within the size of the set, and an injection between finite sets of one
size is onto, so no induction is needed. It gives the page in order, each
reading once, and the median `history.js` sorts for, from which `GapByMajority` follows
for every series and window.

### Assumptions

The constants' assumptions are the code's: queues that hold something, model values
that are distinct. Two say more. `PresenceConstants` asks for an outbox and an inbox of at
least three, what a connect sends and a mode (in the code
memory limits the outbox, and the broker's configuration the inbox).
`Calm` is the environment of `wifi_ideal`.

### Only model-checked

Whatever depends on fairness, which the prover cannot reach: `Settles`, `StopCompletes`,
`GivenIsTried`, `TornIsRepaired`, `SensorResumes`, `UpdateEnds`, `ShownIsListed`,
`OwnerIsTold` and `PasskeyIsSeen`. The three violations are TLC's counterexamples;
`BleProvisioner` without the Wi-Fi task and `Clock` have no theorem.

## 6. Not modelled

`disconnect()` of the MQTT bridge and the Wi-Fi events StopRequested,
DisconnectRequested, ProvisioningRequested and ReconnectRequested, which nothing
in the firmware calls or enqueues. The health reporter and device information, which
keep no state to get wrong. What is drawn and what the chart looks like, JSON and
payload sizes, the telemetry filter for values that are not numbers. Accounts and
settings of the backend, which are Django's. Vendored code, among it Boost.SML, of
which run-to-completion and the order of guards are assumed.
