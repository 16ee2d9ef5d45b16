--------------------------- MODULE EnergyPersistence ---------------------------
(***************************************************************************)
(* The accumulated energy on its way through RAM and flash: setup() loads  *)
(* it, EnergyTask adds to it, publishes it in the snapshot and the storage *)
(* queue, StorageTask writes it to NVS key by key, and a reset may come    *)
(* between any two steps.  The tasks run on two cores: the assignments to  *)
(* the fields of a struct are steps of their own.                          *)
(*                                                                         *)
(* Energy is counted in units of what a sample can add; the cost is the    *)
(* energy times the tariff.  A sample is the pair of the two.  consumed is *)
(* a history variable: all the energy the meter has seen.                  *)
(*                                                                         *)
(* A controller whose queues or tasks could not be created does nothing    *)
(* more until it is reset: deadlock is not checked.                        *)
(***************************************************************************)
EXTENDS Naturals, Sequences

CONSTANTS Tariffs,       \* values of config::costPerKWh in successive firmwares
          MaxEnergy,     \* bound on the energy measured
          MaxResets      \* bound on the number of resets

ASSUME PersistenceAssumption ==
  /\ Tariffs \subseteq Nat \ {0}
  /\ MaxEnergy \in Nat /\ MaxResets \in Nat

VARIABLES
  nvs,            \* the keys "kwh", "cost" and "tariff"; tariff 0: not stored
  resets,
  storageReady, tariff,
  energyPc, energyKWh, data,     \* EnergyTask: its total and the sample in hand
  latest,                        \* snapshot.latest
  storageQueue,                  \* a sample, or none
  storagePc, stored,             \* StorageTask: its copy of a sample
  queued,                        \* that copy came from the queue
  consumed

energyVars == <<energyPc, energyKWh, data, latest, storageQueue, consumed>>
storageVars == <<storagePc, stored, queued>>
bootVars == <<resets, storageReady, tariff>>
vars == <<nvs, bootVars, energyVars, storageVars>>

Sample == [kwh : Nat, cost : Nat]
Zero == [kwh |-> 0, cost |-> 0]

Init ==
  /\ nvs = [kwh |-> 0, cost |-> 0, tariff |-> 0]
  /\ resets = 0
  /\ storageReady = FALSE /\ tariff = 0
  /\ energyPc = "off" /\ energyKWh = 0 /\ data = Zero
  /\ latest = Zero /\ storageQueue = <<>>
  /\ storagePc = "off" /\ stored = Zero /\ queued = FALSE
  /\ consumed = 0

-----------------------------------------------------------------------------
\* Mutated form: the store is opened and its values are not loaded.
SetupForgets ==
  /\ energyPc = "off"
  /\ \E configured \in Tariffs : tariff' = configured
  /\ storageReady' = TRUE
  /\ latest' = Zero /\ storageQueue' = <<>>
  /\ energyPc' = "start" /\ energyKWh' = 0 /\ data' = Zero
  /\ storagePc' = "start" /\ stored' = Zero /\ queued' = FALSE
  /\ UNCHANGED <<nvs, resets, consumed>>

\* EnergyStore::load(): what is not stored, or cannot be read because the store
\* did not open, takes its default.
load(ready, configured) ==
  IF ready
    THEN [kwh |-> nvs.kwh, cost |-> nvs.cost,
          tariff |-> IF nvs.tariff # 0 THEN nvs.tariff ELSE configured]
    ELSE [kwh |-> 0, cost |-> 0, tariff |-> configured]

\* setup(): open the store, load, create the queues and the tasks.  A task that
\* cannot be created is missing ("none") and the others run; without the queues
\* there are no tasks.
Setup ==
  /\ energyPc = "off"
  /\ \E ready \in BOOLEAN, configured \in Tariffs :
       /\ storageReady' = ready
       /\ LET loaded == load(ready, configured)
          IN  /\ latest' = [kwh |-> loaded.kwh, cost |-> loaded.cost]
              /\ tariff' = loaded.tariff
  /\ storageQueue' = <<>>
  /\ energyPc' \in {"start", "none"} /\ energyKWh' = 0 /\ data' = Zero
  /\ storagePc' \in {"start", "none"} /\ stored' = Zero /\ queued' = FALSE
  /\ UNCHANGED <<nvs, resets, consumed>>

\* Power loss, watchdog or ESP.restart(): only NVS survives.
Reset ==
  /\ energyPc # "off" /\ resets < MaxResets
  /\ resets' = resets + 1
  /\ storageReady' = FALSE /\ tariff' = 0
  /\ energyPc' = "off" /\ energyKWh' = 0 /\ data' = Zero
  /\ latest' = Zero /\ storageQueue' = <<>>
  /\ storagePc' = "off" /\ stored' = Zero /\ queued' = FALSE
  /\ UNCHANGED <<nvs, consumed>>

-----------------------------------------------------------------------------
\* EnergyTask starts from the loaded total.  Mutated form: from nothing.
EnergyStartsAtZero ==
  /\ energyPc = "start"
  /\ energyKWh' = 0
  /\ energyPc' = "sample"
  /\ UNCHANGED <<nvs, bootVars, data, latest, storageQueue, consumed, storageVars>>
EnergyStarts ==
  /\ energyPc = "start"
  /\ energyKWh' = latest.kwh
  /\ energyPc' = "sample"
  /\ UNCHANGED <<nvs, bootVars, data, latest, storageQueue, consumed, storageVars>>

calculateCost(kwh) == kwh * tariff

\* EnergyMeter::read() and EnergySimulator::sample().
read(increment) ==
  [kwh |-> energyKWh + increment, cost |-> calculateCost(energyKWh + increment)]

\* The sample has some energy more, or none when there is no power.
Measure ==
  /\ energyPc = "sample"
  /\ \E increment \in {0, 1} :
       /\ consumed + increment <= MaxEnergy
       /\ consumed' = consumed + increment
       /\ data' = read(increment)
       /\ energyKWh' = data'.kwh
  /\ energyPc' = "snapshot"
  /\ UNCHANGED <<nvs, bootVars, latest, storageQueue, storageVars>>

\* updateEnergySnapshot(), field by field; it is skipped when the mutex is not
\* free in time.
PublishKwh ==
  /\ energyPc = "snapshot"
  /\ \/ latest' = [latest EXCEPT !.kwh = data.kwh] /\ energyPc' = "snapshotCost"
     \/ UNCHANGED latest /\ energyPc' = "queue"
  /\ UNCHANGED <<nvs, bootVars, energyKWh, data, storageQueue, consumed, storageVars>>

PublishCost ==
  /\ energyPc = "snapshotCost"
  /\ latest' = [latest EXCEPT !.cost = data.cost]
  /\ energyPc' = "queue"
  /\ UNCHANGED <<nvs, bootVars, energyKWh, data, storageQueue, consumed, storageVars>>

\* Mutated form: the queue grows.
EnqueueAppends ==
  /\ energyPc = "queue"
  /\ storageQueue' = Append(storageQueue, data)
  /\ energyPc' = "sample"
  /\ UNCHANGED <<nvs, bootVars, energyKWh, data, latest, consumed, storageVars>>
Enqueue ==
  /\ energyPc = "queue"
  /\ storageQueue' = <<data>>
  /\ energyPc' = "sample"
  /\ UNCHANGED <<nvs, bootVars, energyKWh, data, latest, consumed, storageVars>>

EnergyTask == EnergyStarts \/ Measure \/ PublishKwh \/ PublishCost \/ Enqueue

-----------------------------------------------------------------------------
\* StorageTask first copies snapshot.latest, field by field and without the mutex.
CopyKwh ==
  /\ storagePc = "start"
  /\ stored' = [stored EXCEPT !.kwh = latest.kwh]
  /\ storagePc' = "startCost"
  /\ UNCHANGED <<nvs, bootVars, energyVars, queued>>

CopyCost ==
  /\ storagePc = "startCost"
  /\ stored' = [stored EXCEPT !.cost = latest.cost]
  /\ storagePc' = "receive"
  /\ UNCHANGED <<nvs, bootVars, energyVars, queued>>

\* Mutated form: the sample is looked at and left in the queue, and the first
\* one that was received is saved for ever.
ReceiveOnce ==
  /\ storagePc = "receive"
  /\ IF storageQueue # <<>> /\ ~queued
       THEN stored' = Head(storageQueue) /\ queued' = TRUE
       ELSE UNCHANGED <<stored, queued>>
  /\ storagePc' = "putKwh"
  /\ UNCHANGED <<nvs, bootVars, energyVars>>

\* Every period the newest sample is taken from the queue, if there is one.
Receive ==
  /\ storagePc = "receive"
  /\ IF storageQueue # <<>>
       THEN stored' = Head(storageQueue) /\ queued' = TRUE /\ storageQueue' = <<>>
       ELSE UNCHANGED <<stored, queued, storageQueue>>
  /\ storagePc' = "putKwh"
  /\ UNCHANGED <<nvs, bootVars, energyPc, energyKWh, data, latest, consumed>>

\* EnergyStore::save(): three keys, written in turn until one fails.  A store
\* that is not open fails.  The result is ignored.
Put(key, value, pc, next) ==
  /\ storagePc = pc
  /\ \/ storageReady /\ nvs' = [nvs EXCEPT ![key] = value] /\ storagePc' = next
     \/ UNCHANGED nvs /\ storagePc' = "receive"
  /\ UNCHANGED <<bootVars, energyVars, stored, queued>>

PutKwh == Put("kwh", stored.kwh, "putKwh", "putCost")
\* Mutated form: the cost is not written.
PutCostSkipped == Put("tariff", tariff, "putCost", "putTariff")
PutCost == Put("cost", stored.cost, "putCost", "putTariff")
PutTariff == Put("tariff", tariff, "putTariff", "saved")

\* The task sleeps until the next period.
Sleep ==
  /\ storagePc = "saved"
  /\ storagePc' = "receive"
  /\ UNCHANGED <<nvs, bootVars, energyVars, stored, queued>>

StorageTask == CopyKwh \/ CopyCost \/ Receive \/ PutKwh \/ PutCost \/ PutTariff \/ Sleep

Next == Setup \/ Reset \/ EnergyTask \/ StorageTask

Fairness ==
  /\ WF_vars(Setup) /\ WF_vars(EnergyTask) /\ WF_vars(StorageTask)
  /\ SF_vars(PutKwh /\ storagePc' = "putCost")
  /\ SF_vars(PutCost /\ storagePc' = "putTariff")

Spec == Init /\ [][Next]_vars /\ Fairness

-----------------------------------------------------------------------------
TypeOK ==
  /\ nvs \in [kwh : Nat, cost : Nat, tariff : Tariffs \cup {0}]
  /\ resets \in 0 .. MaxResets
  /\ storageReady \in BOOLEAN /\ tariff \in Tariffs \cup {0}
  /\ energyPc \in {"off", "none", "start", "sample", "snapshot", "snapshotCost", "queue"}
  /\ energyKWh \in Nat /\ data \in Sample /\ latest \in Sample
  /\ storageQueue \in Seq(Sample) /\ Len(storageQueue) <= 1
  /\ storagePc \in {"off", "none", "start", "startCost", "receive", "putKwh", "putCost",
                    "putTariff", "saved"}
  /\ stored \in Sample /\ queued \in BOOLEAN
  /\ consumed \in Nat

\* A task that does not exist or has not taken its first step.
NotStarted == {"off", "none", "start"}

\* The total is carried over every restart: from the moment EnergyTask has
\* started, its total is at least what NVS holds, so no checkpoint is lost to
\* a stale start value; and no energy is counted that was not consumed.
TotalIsCarriedOver ==
  /\ storageReady /\ energyPc \notin NotStarted => nvs.kwh <= energyKWh
  /\ nvs.kwh <= consumed /\ energyKWh <= consumed

\* A checkpoint never lowers the saved total, although StorageTask may hold a
\* copy taken before a newer sample was queued, saves it again when the queue is
\* empty, and is cut off by resets.
CheckpointsNeverGoBack == [][nvs'.kwh >= nvs.kwh]_vars

\* A complete save of a queued sample leaves keys that belong together, whatever
\* an earlier save left behind when a key failed or a reset came in between.
SavedPairAgrees ==
  storagePc = "saved" /\ queued
    => nvs = [kwh |-> stored.kwh, cost |-> stored.kwh * tariff, tariff |-> tariff]

\* The energy measured is saved in the end, with its cost, if the store is open,
\* both tasks exist and the resets stop.
EnergyIsSaved ==
  <>[](storageReady /\ energyPc # "none" /\ storagePc # "none")
    => <>[](nvs.kwh = energyKWh /\ nvs.cost = energyKWh * tariff)

-----------------------------------------------------------------------------
\* docs/architecture.md: "A mutex protects the short copy operation when tasks
\* read or update that snapshot."  Then the copy StorageTask starts with is a
\* snapshot that was there, energy and cost of one sample.  (With MaxResets = 0
\* the loaded pair is consistent as well.)
StartCopyIsOneSample == storagePc = "receive" => stored.cost = stored.kwh * tariff
=============================================================================
