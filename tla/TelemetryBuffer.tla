---------------------------- MODULE TelemetryBuffer ----------------------------
(***************************************************************************)
(* The class TelemetryBuffer: the circular buffer that holds telemetry     *)
(* while MQTT is unavailable.  head is the oldest record, tail the slot of *)
(* the next one.  droppedCount is a natural number: at a record every two  *)
(* seconds its 32 bits last for centuries.                                 *)
(***************************************************************************)
EXTENDS Naturals, Sequences

CONSTANTS Record,                   \* the telemetry records
          NoRecord,                 \* a default-constructed one, in unused slots
          telemetryBufferCapacity   \* 64 in include/config.h

ASSUME CapacityAssumption == telemetryBufferCapacity \in Nat \ {0}
ASSUME NoRecordAssumption == NoRecord \notin Record

VARIABLES records, head, tail, count, droppedCount

bufferVars == <<records, head, tail, count, droppedCount>>

Slots == 0 .. telemetryBufferCapacity - 1

BufferTypeOK ==
  /\ records \in [Slots -> Record \cup {NoRecord}]
  /\ head \in Slots
  /\ tail \in Slots
  /\ count \in 0 .. telemetryBufferCapacity
  /\ droppedCount \in Nat

BufferInit ==
  /\ records = [s \in Slots |-> NoRecord]
  /\ head = 0 /\ tail = 0 /\ count = 0
  /\ droppedCount = 0

empty == count = 0
full == count = telemetryBufferCapacity

\* Mutated form of nextSlot: an index that runs out of the array.
nextSlotNoWrap(s) == s + 1
nextSlot(s) == (s + 1) % telemetryBufferCapacity

\* Mutated forms of push: a full buffer refuses the newest record, and a full
\* buffer overwrites its oldest record and leaves head behind.
pushDropsNewest(r) ==
  /\ IF full
       THEN droppedCount' = droppedCount + 1 /\ UNCHANGED <<records, tail, count>>
       ELSE /\ records' = [records EXCEPT ![tail] = r]
            /\ tail' = nextSlot(tail)
            /\ count' = count + 1
            /\ UNCHANGED droppedCount
  /\ UNCHANGED head
pushKeepsHead(r) ==
  /\ records' = [records EXCEPT ![tail] = r]
  /\ tail' = nextSlot(tail)
  /\ count' = IF full THEN count ELSE count + 1
  /\ droppedCount' = IF full THEN droppedCount + 1 ELSE droppedCount
  /\ UNCHANGED head

push(r) ==
  /\ records' = [records EXCEPT ![tail] = r]
  /\ tail' = nextSlot(tail)
  /\ \/ /\ full
        /\ head' = nextSlot(head)
        /\ droppedCount' = droppedCount + 1
        /\ UNCHANGED count
     \/ /\ ~full
        /\ count' = count + 1
        /\ UNCHANGED <<head, droppedCount>>

\* peek() succeeds when the buffer is not empty and yields this record.
peek == records[head]

\* Mutated form of discardOldest: the count is left as it was.
discardOldestKeepsCount ==
  /\ ~empty
  /\ head' = nextSlot(head)
  /\ UNCHANGED <<records, tail, count, droppedCount>>

discardOldest ==
  /\ ~empty
  /\ head' = nextSlot(head)
  /\ count' = count - 1
  /\ UNCHANGED <<records, tail, droppedCount>>

\* The operations by themselves; pop() is peek() and discardOldest().
BufferNext == (\E r \in Record : push(r)) \/ discardOldest

BufferSpec == BufferInit /\ [][BufferNext]_bufferVars

-----------------------------------------------------------------------------
\* The slot of the i-th record from head h, and the records held, oldest first.
Slot(h, i) == (h + (i - 1)) % telemetryBufferCapacity
Contents == [i \in 1 .. count |-> records[Slot(head, i)]]

\* The indices agree: tail is count slots after head, and the slots in between
\* hold records that were pushed.
IndicesAgree ==
  /\ tail = Slot(head, count + 1)
  /\ \A i \in 1 .. count : Contents[i] \in Record

Queue == INSTANCE DropOldestQueue
           WITH queue <- Contents, lost <- droppedCount, Limit <- telemetryBufferCapacity

\* The ring buffer implements the drop-oldest queue.
ImplementsQueue == Queue!Spec
=============================================================================
