# TLA+ models of the Industrial Energy Edge Controller

The controller is an ESP32 firmware: FreeRTOS tasks on two cores measure energy,
detect faults, save the total to flash and talk to MQTT, Modbus TCP, Blynk and an
update server. These modules model the parts of it in which several tasks, a
reset, a network or a wrapping clock meet, check them with TLC on small instances,
and prove the most important results with TLAPS for every instance.

Contents: 1 the system, 2 the modules and the code, 3 the runs, 4 bounds, 5
fairness, 6 proofs, 7 disagreements, 8 what is not modelled, 9 plan.

## 1. The system

| Component | Code | State | Operations | What makes it correct |
|---|---|---|---|---|
| FaultManager, FaultTask | `src/fault_manager.cpp`, `src/main.cpp:96-103` | state, active fault, two timestamps, count | `evaluate(sample, now)` for each sample of the queue | debounce, no missed fault, recovery only after stability, over a clock that wraps |
| EnergyTask, EnergyMeter, simulator | `src/main.cpp:72-94`, `src/energy_meter.cpp`, `src/simulator.cpp` | accumulated kWh | sample, publish in the snapshot, overwrite three queues | never waits for another task, never loses the total |
| Shared snapshot | `src/main.cpp:34-70` | sample, fault event, health; a mutex | copy and update with a timeout, from four tasks | copies are whole, a given-up update does no lasting harm |
| EnergyStore, StorageTask | `src/energy_store.cpp`, `src/main.cpp:105-113` | three NVS keys, a copy of a sample | load at start, save each period | the total survives resets and failed writes |
| TelemetryBuffer | `src/telemetry_buffer.cpp` | ring, head, tail, count, dropped | push, peek, pop, discardOldest | keeps the newest records in order and counts the dropped ones |
| MqttService | `src/mqtt_service.cpp` | session, last attempt, the buffer | submitTelemetry, tick (reconnect, replay), other publications | every record is delivered, buffered or counted as dropped; a backlog is replayed |
| NetworkTask | `src/main.cpp:115-201` | last fault seen, last OTA state, timers | one loop over all network services | right pairing of samples and faults, each change of fault once |
| OtaManager | `src/ota_manager.cpp` | state, error, manifest, rollback flag, health | reportHealth, process (check, download, validate, install, confirm) | only whole newer images are booted, confirmation after a healthy period |
| ModbusServer, codec | `src/modbus_server.cpp`, `src/modbus_codec.cpp` | registers, one client | update, tick | framing, exceptions, register encoding |
| NetworkManager, Blynk | `src/network_manager.cpp` | last attempt, counters | tick | retries without blocking |
| Diagnostics | `src/diagnostics.cpp` | a copy of the snapshot | print | shows a whole copy |
| Version, manifest | `src/version.cpp`, `src/ota_manager.cpp` | none | parse, compare | the order of versions |

How they interact: EnergyTask overwrites one-element queues to FaultTask,
NetworkTask and StorageTask. FaultTask writes its event into the snapshot, from
which NetworkTask takes it and pairs it with the sample of its own queue. The
snapshot is guarded by a mutex every task gives up waiting for after 5 or 20 ms;
StorageTask reads its first copy without it. NetworkTask calls MqttService,
OtaManager, ModbusServer and NetworkManager one after the other. A reset leaves
only NVS and the firmware partitions.

What is hard here: tasks of two cores between any two assignments; updates and
copies that are skipped; a millisecond counter that wraps; connections that are
dead and not yet known to be; resets between the keys of a save or the parts of a
download; results of calls that are ignored. `PROJECT.json` lists these hazards at
their lines, with the properties that cover them.

## 2. The modules and the code

| Module | Models | Correspondence |
|---|---|---|
| `FaultManager` | `FaultManager::evaluate` | variables are the class's members; timestamps are taken modulo `Wrap`; `EvaluateAbnormal` and `EvaluateHealthy` are the two branches |
| `FaultLifecycle` | what a fault manager promises (abstract) | phases and real durations, no timestamps |
| `FaultTask` | the loop of FaultTask | one step per sample; history variables hold real durations; `ImplementsLifecycle` is the refinement |
| `TelemetryBuffer` | the ring buffer | `records`, `head`, `tail`, `count`, `droppedCount`; one operator per method |
| `DropOldestQueue` | what the buffer promises (abstract) | a sequence that loses its head when full |
| `NetworkManager` | tick() and the Wi-Fi driver | the age of `lastAttemptMs`, modulo `Wrap`; an action per outcome of tick(); Blynk is connected or not at each step |
| `MqttService` | submitTelemetry and tick inside NetworkTask | a step per submission, per tick of each service, per connection attempt (which may fail), announcement and replayed record; access point, broker and TCP connection change in between; the broker keeps a session, its last will and the retained status; composes `TelemetryBuffer` and `NetworkManager` |
| `ModbusServer` | update(), tick() and the codec | a connection is a stream of 16-bit words, of which some have arrived; tick() is one step; clients connect, send and leave freely |
| `EnergyPersistence` | setup(), EnergyTask and StorageTask around the total | a step per field and per key, resets in between; a task that could not be created is missing |
| `SharedSnapshot` | the mutex and every copy and update of the snapshot, the two copies of NetworkTask's loop included | a step per part; tasks may give up, or stop with the mutex |
| `Controller` | EnergyTask, FaultTask and NetworkTask with their queues | composes `FaultManager`; a reading goes through the meter's filter; a copy or an update is one step, which `SharedSnapshot` justifies (`CopiesAreWhole`) |
| `OtaManager` | process() with flash, bootloader and update server | a step per blocking operation, resets in between; `begin` may fail to read the state of its image |
| `FaultTaskProofs`, `TelemetryBufferProofs`, `SharedSnapshotProofs`, `MqttServiceProofs`, `EnergyPersistenceProofs`, `ControllerProofs`, `OtaManagerProofs`, `ModbusServerProofs` | theorems | section 6 |
| `MC*` | instances for TLC | readings, records, versions |

The data is abstract where no property looks at it: a telemetry record is its
number, an image is its version and whether its bytes are right, a sample in
`EnergyPersistence` is energy and cost in units of what one sample can add. Mutated
forms of definitions (`MinusNoWrap`, `DrainOneUnchecked`, ...) stand beside the
originals; they are plausible errors that the properties must notice, and no
specification uses them.

## 3. The runs

| Run | Shows |
|---|---|
| `fault` | With irregular samples and a wrapping clock: FAULT only after the debounce time (`FaultIsDebounced`), always by then (`SustainedSeriousIsFault`), NORMAL only after and always by the recovery time (`RecoveryIsConfirmed`, `HealthyReturnsToNormal`), reports that agree with the samples (`ReportAgrees`), and all of it as a refinement of the lifecycle |
| `mqtt` | Each record is received, swallowed by a dead connection, buffered or counted as dropped, and only one of these (`RecordsAccountedFor`); the ring's indices (`IndicesAgree`); the newest records are kept in order (`NewestAreKept`); the ring is a drop-oldest queue; Wi-Fi is joined again although Blynk's attempts set the same timer back (`WifiIsRejoined`); an outage that ends leads to an empty buffer (`BacklogIsReplayed`); one that stays is shown by the broker (`OutageIsShown`) |
| `modbus` | Each client gets the answers to its own requests, in order: their registers or the exception that fits (`AnswersMatch`), every frame is answered and counted (`FramesAreCounted`), what a client decodes is one measurement and never an older one than before (`ReadingsGoForward`), requests are answered (`RequestsAreAnswered`) and waiting clients get their turn (`WaitingClientsAreServed`) |
| `persistence` | The total is carried over resets (`TotalIsCarriedOver`), never lowered in NVS (`CheckpointsNeverGoBack`), a complete save leaves keys that belong together (`SavedPairAgrees`), and what is measured is saved in the end if the store opens and the tasks exist (`EnergyIsSaved`) |
| `snapshot` | No task works on a torn copy (`CopiesAreWhole`), and measurement goes on whichever other tasks stop, with the mutex or without (`MeasurementGoesOn`) |
| `controller` | A waiting sample is the newest (`NewestIsWaiting`), telemetry goes forward (`TelemetryGoesForward`), no fault event is announced twice in a row (`FaultIsNotRepeated`), a fault that stays is seen (`SettledFaultIsSeen`), and a current that stays too high or a lasting return to normal comes through the whole chain (`LastingConditionIsSeen`) |
| `ota` | Only whole, newer images are selected (`OnlyWholeImagesBoot`), the manager waits for verification only while the bootloader does, and always then if it could read the state of its image (`ProbationIsKnown`), an image is confirmed after a healthy period in real time (`ConfirmedWhenHealthy`), the offered version comes to run unless an attempt fails (`UpdateArrives`) |
| `fault_overcurrent`, `fault_debounce`, `persistence_torn`, `snapshot_heap`, `ota_report` | one disagreement each, section 7 |

`RecordsAccountedFor` is deliberately not "every record arrives": a record that is
published on a dead connection is lost without an error (QoS 0), and the property
says exactly which records those are.

`AnswersMatch` and `RequestsAreAnswered` hold for a client as long as it sends frames
of twelve bytes. A frame of another length is not skipped: `tick()` reads twelve bytes
whatever the length field says, so a shorter one waits for the next frame and
everything that follows is misread. The documentation speaks of malformed requests,
not of what follows them. `FramesAreCounted` and `ReadingsGoForward` hold for such
clients, too. The answer to a malformed frame carries the transaction id 0, not that
of the frame.

`LastingConditionIsSeen` assumes that FaultTask keeps pace with the samples: with a
clock of two values, as the run has, skipped samples could always fall on the same
value. Failing sensors are a serious condition like a high current and take the same
branch of `evaluate()`; the run has no reading of them (section 4), `fault` has.

`ProbationIsKnown` is deliberately not an equivalence. When `begin()` cannot read the
running partition or its state, `rollbackPending_` stays false
(`src/ota_manager.cpp:108-110`) although the bootloader may be waiting: such an image is
never confirmed, however healthy, and the next reset gives it up. The history
variable `stateRead` tells this case from all others.

## 4. Bounds, and why they are enough

- `fault`: a reading on each side of every threshold and an invalid one, debounce
  2, recovery 5, a clock that wraps at 8 and gaps up to 3: the clock wraps inside a
  debounce and a recovery, samples may be spaced irregularly and skip past a
  deadline. The proofs remove the bound.
- `mqtt`: three records, a buffer of two, one replayed record per cycle, retry
  intervals of two cycles for Wi-Fi and MQTT and timers that wrap at 3: the ring wraps
  and overflows, live records overtake the backlog, a session of before is still held
  when the next one begins, and the timers wrap in a session. The proofs about the
  ring hold for every capacity and any number of records. The code replays up to two
  per cycle, which with this buffer would be all at once.
- `modbus`: two clients with two and one requests, one of which may send each kind of
  frame: legal, illegal in function, quantity and address, malformed, too short and
  too long. What is sent arrives at once or but for the last word. Registers have
  four values, so that small numbers need two registers and outgrow them; of the
  measurements the second one saturates.
- `persistence`: three units of energy, two tariffs, two resets: a save can be cut
  off and its remains be loaded, saved over and cut off again. Deadlock is not
  checked: a controller that could create neither of the two tasks really does
  nothing until it is reset.
- `snapshot`: four fault events such that two may differ in state, in code or in
  both; so a copy with parts of two updates is always noticed. The tasks run for
  ever, there is no bound on steps.
- `controller`: a normal reading and one of 9 A with a voltage sensor that yields no
  number, which the filter turns into a valid sample and `evaluate()` into an
  overcurrent; debounce and recovery of one sample, timestamps modulo 2. Samples of the
  other kinds change which branch of `evaluate()` is taken, not how its result
  travels, and are left to `fault`: a third reading takes TLC beyond what liveness
  checking allows. The sample number stops at `MaxSeq` = 2; from then on
  the tasks go on and off without end, so that repetition and liveness are checked
  over runs of any length.
- `ota`: three versions of which each part decides once, a download in two parts, a
  check period of 3, a health window of 2 and cycles of up to 2 with a clock that
  wraps at 5; two resets that nobody asked for, and as many restarts as updates.

A gap between samples, or a cycle, is assumed to be shorter than the clock's range
less the longest timer (`GapAssumption`, `MqttAssumption`, `OtaAssumption`): 49.7
days less some seconds in the code, 8 seconds less 5 here.

## 5. Fairness

- Every task is scheduled again and again (weak fairness): FreeRTOS runs them by
  priority and each sleeps in its loop. `snapshot` assumes it of EnergyTask only,
  which is what makes `MeasurementGoesOn` worth stating.
- A task that tries for the mutex time and again gets it at times (strong fairness
  in `Controller`): it is held for microseconds and waited for at least 5 ms.
  `SharedSnapshot`'s `Spec` says for the same reason that NetworkTask completes a copy
  again and again.
- Connecting to the broker succeeds in the end while Wi-Fi and broker stay up, though
  any number of attempts may fail (strong fairness of `TickConnects` with a session):
  this is about credentials and an answer in time, which the code cannot bring about.
  A broker that stops is assumed to forget its sessions and its retained status.
- A write to NVS that is tried each period succeeds at times (strong fairness of
  each successful `PutKwh` and `PutCost`), and a send buffer that is full again and
  again is also free again and again (`DrainOne`). The keep-alive of the MQTT client
  finds a dead connection in the end, and so does the broker with its own.
- A join that is tried again and again while the access point is there succeeds
  (strong fairness of `Joined`): it takes a few seconds, the retry interval is ten.
  The network delivers what Modbus clients have sent; nothing is assumed of the
  clients.
- `OtaManager`: a download ends. The code does not see to that: a server that keeps
  the connection open in silence holds NetworkTask in the loop at
  `src/ota_manager.cpp:190`. It is listed as a hazard and is an assumption here.

No fairness is assumed of resets, of the access point, of the broker, of Modbus clients or of a server's releases;
liveness properties have them as hypotheses (`<>[](accessPoint /\ broker)`,
`<>[](storageReady /\ ...)` with both tasks of the total, `<>[](state # "FAILED")`).
That the buffer stays empty once it is replayed also rests on the finite number of
records in the run.

## 6. Proofs

All theorems hold for every value of the constants under the named assumptions, and
`tlapm` checks them to the last leaf.

- `FaultTaskProofs` (assumptions `TimingAssumption`, `ReadingsAssumption`,
  `GapAssumption`): `TypeCorrect`, `FaultDebounced`, `SeriousReachesFault`,
  `HealthyReaches`, `ReportCorrect`, `RecoveryConfirmed` and `Refinement`. None of
  these is inductive: the code knows timestamps, the properties speak of durations.
  The invariant `IInv` says what a timestamp means: until the debounce time the
  wrapped difference is the duration of the abnormality (`DebounceExact`); while
  there is no FAULT it bounds the duration of the serious condition
  (`DebounceRuns`); in RECOVERY it is the healthy duration (`RecoveryExact`). Each
  step either keeps a difference below the deadline, where adding a gap cannot wrap
  it, or fires the deadline.
- `TelemetryBufferProofs`: `BufferInvariance` (types, `tail = head + count` modulo
  the capacity, contents) and `BufferRefinement` (the ring implements
  `DropOldestQueue`), for every capacity. The lemmas are about slots: the slot of an
  index after a wrap, and that the tail slot holds no waiting record unless full.
- `SharedSnapshotProofs`: `SnapshotTypes` and `SnapshotCopiesWhole`. The invariant
  says who is inside the mutex (`MutexInv`: a program counter between take and give
  is that of the holder), how far an update has come (`UpdateInv`) and what of a
  copy has been taken (`CopyInv`). It is proved of `Init /\ [][Next]_vars`, so
  fairness plays no part in it.

- `MqttServiceProofs` (`MqttAssumption`, `RetryAssumption`, `CapacityAssumption`):
  `TypeCorrect`, `ServiceIndices`, `AllAccountedFor`, `NewestKept` and
  `ServiceRefinement`. It extends `TelemetryBufferProofs`: a step of the service
  pushes one record, discards one or leaves the buffer alone, so the ring's invariant
  and its refinement carry over. That a record is in one place only is not inductive
  alone: a record put where others went must not be there yet, which follows from
  the order of the buffer (`NewestAreKept`: what waits is newer than all that was
  dropped) and from `SwallowedAreGone`. `NewestKept` says nothing of delivered
  records: live ones overtake the backlog.
- `EnergyPersistenceProofs` (`PersistenceAssumption`): `TypeCorrect`,
  `TotalCarriedOver`, `SavedPair` and `NeverBack`. Two values are on their way to
  NVS, the copy StorageTask starts with and the sample in its queue, and the copy
  may be the newer one. `MeterInv` bounds everything in RAM by the meter, `OrderInv`
  says at each step of both tasks which value cannot be older than what NVS holds, and
  `PairInv` how far a save has come.
- `ControllerProofs` (`ControllerAssumption`, `TimingAssumption`): `TypeCorrect`,
  `NewestWaits`, `TelemetryForward` and `NotRepeated`. The number of a sample reaches
  the telemetry by two ways, on its own and in the fault event it gave rise to;
  `SampleWayInv` and `FaultWayInv` order the numbers along each. `AnnouncedInv` relates
  what NetworkTask has noted to what it has published.
- `OtaManagerProofs` (`OtaAssumption`): `TypeCorrect`, `WholeImages`,
  `ProbationKnown` and `Confirmed`. `InstallInv` keeps the comparison of versions
  valid until the image is selected, `FallbackInv` says the image to fall back on is
  whole and older, and `WindowInv` that the measured healthy window, in which zero
  means both "not running" and a time, is never longer than the real one while that
  is too short.
- `ModbusServerProofs` (`ModbusAssumption`, `RequestAssumption`): `TypeCorrect`,
  `FramesCounted`, `ReadingsForward` and `AnswersAreRight`. First the codec, for every
  frame: the fields of what is parsed have their widths, a legal request lies in the
  registers, two registers give back the value that was split, and every frame gets
  exactly one answer (`ResponseIs`). For the counters, the next answer of a client
  is not among the counted ones yet (`CountInv`). For the answers, what is unread on
  the connection of a client in step is exactly its requests without an answer,
  frame by frame (`PendingInv`). `RequestAssumption` is about the answers that the
  requests of the model state: registers, or the exception of the Modbus standard in
  the order in which the code looks for reasons; the repository's document promises
  "an exception response" and no code (`docs/modbus-register-map.md:24`). The theorem
  is that this answer, and no other, reaches this client at this place.

Every safety property that a passing run checks, invariant or action property, is
proved. The inductive invariants were checked by TLC on the instances of section 3
before they were proved.

The assumptions bound what the code bounds: words and transaction ids of 16 bits,
states, faults, uptime and cost that fit their registers (`ModbusAssumption`; a
cost beyond 32 bits would be undefined behaviour in the conversion), timers shorter
than the range of the clock, a positive capacity. The counts of resets, samples and
requests are parameters; no proof uses that they are small.

Only model-checked: all liveness, which is out of the prover's reach
(`BacklogIsReplayed`, `WifiIsRejoined`, `OutageIsShown`, `EnergyIsSaved`,
`MeasurementGoesOn`, `SettledFaultIsSeen`, `LastingConditionIsSeen`, `UpdateArrives`,
`RequestsAreAnswered`, `WaitingClientsAreServed`).

## 7. Disagreements between the code and its documents

| Run | Code | Document |
|---|---|---|
| `fault_overcurrent` | every OVERCURRENT sample is serious (`src/fault_manager.cpp:17`); `overcurrentFaultA` decides nothing | `docs/fault-state-machine.md:46-47`: warning and serious threshold differ |
| `fault_debounce` | the debounce timer starts at any abnormal sample, so one serious sample may enter FAULT (`src/fault_manager.cpp:27`) | `docs/fault-state-machine.md:25`: a serious condition stayed active through the debounce period |
| `persistence_torn` | StorageTask copies the snapshot without the mutex (`src/main.cpp:106`) | `docs/architecture.md:70`: a mutex protects the copy |
| `snapshot_heap` | the free heap goes to a private copy; the register stays zero (`src/main.cpp:213`) | `docs/modbus-register-map.md:38`: register 7 is the free heap |
| `ota_report` | process() runs from check to install in one call; the states between are never published (`src/main.cpp:163`) | `docs/ota-update.md:54`: reports CHECKING, DOWNLOADING, ... |

Two more differences have no run of their own, because the models contain them as
what the code does:

- A relapse in RECOVERY goes to WARNING (`src/fault_manager.cpp:31`); the diagram of
  `docs/fault-state-machine.md:13-19` has no such edge. `FaultLifecycle` has it.
- An image whose state cannot be read is never confirmed
  (`src/ota_manager.cpp:108-110`); `docs/ota-update.md` does not speak of the case.

`persistence` shows that the torn copy does no lasting harm: the energy in NVS never
goes back, and the first save of a queued sample repairs the pair.

## 8. Not modelled

- MQTT messages other than telemetry and the status: they are sent once, keep no
  state, and their results are ignored. (One of them, the diagnostics, is longer than
  what the MQTT library sends by default; it is listed as a hazard.)
- Counters and fields that are only reported, except Modbus's (among them what
  NetworkTask stores in the snapshot at `src/main.cpp:172-185`); formatting, JSON, parsing of
  manifests and versions; printing; rounding in the encoders of registers and
  floating-point integration; the simulator, which `config::inputMode` never selects.
- NetworkTask's telemetry and diagnostics timers: no document promises a rate.
- Blynk beyond its attempts to connect: values are handed to its library.
- A Modbus frame with an odd number of bytes: connections are streams of words.
- `requestCheck()` from outside and a second update on an image on probation as far
  as the bootloader's own policy goes: nothing calls the first, and the second
  depends on the platform; the model keeps the running image when there is no other.
- `pop` of the buffer is not called by the firmware; it is peek and discardOldest.

## 9. Plan

1. Proofs: that the debounce of `FaultTaskProofs` also holds of the fault manager
   inside `Controller`, where samples may be skipped.
2. The counters of the health part in `SharedSnapshot`, and the loss of energy at a
   restart as a bound in `EnergyPersistence`.

To repeat the checks: `tlc -config <run>.cfg <module>` and `tlapm <module>.tla`.
