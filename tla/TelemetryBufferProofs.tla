------------------------- MODULE TelemetryBufferProofs -------------------------
(***************************************************************************)
(* Proofs about TelemetryBuffer for every capacity and every set of        *)
(* records: its indices stay in range and agree, and it implements the     *)
(* drop-oldest queue.                                                      *)
(***************************************************************************)
EXTENDS TelemetryBuffer, SequenceTheorems, TLAPS

Cap == telemetryBufferCapacity

IInv == BufferTypeOK /\ IndicesAgree

-----------------------------------------------------------------------------
\* The capacity is positive.
LEMMA CapIs == Cap \in Nat \ {0} /\ Slots = 0 .. Cap - 1
  BY CapacityAssumption DEF Cap, Slots

\* Arithmetic of the ring: an index that passes the end once starts over.
LEMMA ModIs ==
  ASSUME NEW x \in 0 .. 2 * Cap - 1
  PROVE  x % Cap = IF x < Cap THEN x ELSE x - Cap
  BY CapIs

\* The next slot, without the modulus.
LEMMA NextSlotIs ==
  ASSUME NEW s \in Slots
  PROVE  /\ nextSlot(s) \in Slots
         /\ nextSlot(s) = IF s + 1 < Cap THEN s + 1 ELSE s + 1 - Cap
<1>1. s \in 0 .. Cap - 1 /\ Cap \in Nat \ {0}
  BY CapIs
<1>2. nextSlot(s) = (s + 1) % Cap
  BY DEF nextSlot, Cap
<1> DEFINE x == s + 1
<1>3. x \in 0 .. 2 * Cap - 1
  BY <1>1
<1> HIDE DEF x
<1>4. x % Cap = IF x < Cap THEN x ELSE x - Cap
  BY <1>3, ModIs
<1> QED
  BY <1>1, <1>2, <1>4, CapIs DEF x

\* The slot of a record, without the modulus.
LEMMA SlotIs ==
  ASSUME NEW h \in Slots, NEW i \in 1 .. Cap + 1
  PROVE  /\ Slot(h, i) \in Slots
         /\ Slot(h, i) = IF h + i - 1 < Cap THEN h + i - 1 ELSE h + i - 1 - Cap
<1>1. h \in 0 .. Cap - 1 /\ Cap \in Nat \ {0} /\ i \in 1 .. Cap + 1
  BY CapIs
<1>2. Slot(h, i) = (h + (i - 1)) % Cap
  BY DEF Slot, Cap
<1> DEFINE x == h + (i - 1)
<1>3. x \in 0 .. 2 * Cap - 1
  BY <1>1
<1> HIDE DEF x
<1>4. x % Cap = IF x < Cap THEN x ELSE x - Cap
  BY <1>3, ModIs
<1> QED
  BY <1>1, <1>2, <1>4, CapIs DEF x

\* Moving head by one slot renumbers the records by one, ...
LEMMA SlotShift ==
  ASSUME NEW h \in Slots, NEW i \in 1 .. Cap
  PROVE  Slot(nextSlot(h), i) = Slot(h, i + 1)
<1>1. /\ Cap \in Nat \ {0} /\ h \in 0 .. Cap - 1 /\ i \in 1 .. Cap
      /\ i \in 1 .. Cap + 1 /\ i + 1 \in 1 .. Cap + 1
  BY CapIs
<1> DEFINE g == nextSlot(h) j == i + 1
<1>2. /\ g \in Slots /\ g \in 0 .. Cap - 1
      /\ g = IF h + 1 < Cap THEN h + 1 ELSE h + 1 - Cap
  BY NextSlotIs, CapIs
<1>3. j \in 1 .. Cap + 1
  BY <1>1
<1> HIDE DEF g, j
<1>4. Slot(g, i) = IF g + i - 1 < Cap THEN g + i - 1 ELSE g + i - 1 - Cap
  BY <1>1, <1>2, SlotIs
<1>5. Slot(h, j) = IF h + j - 1 < Cap THEN h + j - 1 ELSE h + j - 1 - Cap
  BY <1>3, SlotIs
<1> QED
  BY <1>1, <1>2, <1>4, <1>5 DEF g, j

\* ... writing the slot after the last record moves tail by one, ...
LEMMA SlotAfter ==
  ASSUME NEW h \in Slots, NEW i \in 1 .. Cap
  PROVE  nextSlot(Slot(h, i)) = Slot(h, i + 1)
<1>1. /\ Cap \in Nat \ {0} /\ h \in 0 .. Cap - 1 /\ i \in 1 .. Cap
      /\ i \in 1 .. Cap + 1
  BY CapIs
<1> DEFINE g == Slot(h, i) j == i + 1
<1>2. /\ g \in Slots /\ g \in 0 .. Cap - 1
      /\ g = IF h + i - 1 < Cap THEN h + i - 1 ELSE h + i - 1 - Cap
  BY <1>1, SlotIs, CapIs
<1>3. j \in 1 .. Cap + 1
  BY <1>1
<1> HIDE DEF g, j
<1>4. nextSlot(g) = IF g + 1 < Cap THEN g + 1 ELSE g + 1 - Cap
  BY <1>2, NextSlotIs
<1>5. Slot(h, j) = IF h + j - 1 < Cap THEN h + j - 1 ELSE h + j - 1 - Cap
  BY <1>3, SlotIs
<1> QED
  BY <1>1, <1>2, <1>4, <1>5 DEF g, j

\* ... no two records share a slot, and a full buffer comes back to head.
LEMMA SlotsDiffer ==
  ASSUME NEW h \in Slots, NEW i \in 1 .. Cap, NEW j \in 1 .. Cap, i # j
  PROVE  Slot(h, i) # Slot(h, j)
<1>1. /\ Cap \in Nat \ {0} /\ h \in 0 .. Cap - 1 /\ i \in 1 .. Cap /\ j \in 1 .. Cap
      /\ i \in 1 .. Cap + 1 /\ j \in 1 .. Cap + 1
  BY CapIs
<1>2. /\ Slot(h, i) = IF h + i - 1 < Cap THEN h + i - 1 ELSE h + i - 1 - Cap
      /\ Slot(h, j) = IF h + j - 1 < Cap THEN h + j - 1 ELSE h + j - 1 - Cap
  BY <1>1, SlotIs
<1> QED
  BY <1>1, <1>2

\* Counting on from the next slot is counting one further.
LEMMA SlotWraps ==
  ASSUME NEW h \in Slots
  PROVE  Slot(h, 1) = h /\ Slot(h, Cap + 1) = h
<1>1. /\ Cap \in Nat \ {0} /\ h \in 0 .. Cap - 1
      /\ 1 \in 1 .. Cap + 1 /\ Cap + 1 \in 1 .. Cap + 1
  BY CapIs
<1> DEFINE j == Cap + 1
<1>2. Slot(h, 1) = IF h + 1 - 1 < Cap THEN h + 1 - 1 ELSE h + 1 - 1 - Cap
  BY <1>1, SlotIs
<1> HIDE DEF j
<1>3. Slot(h, j) = IF h + j - 1 < Cap THEN h + j - 1 ELSE h + j - 1 - Cap
  BY <1>1, SlotIs DEF j
<1> QED
  BY <1>1, <1>2, <1>3 DEF j

-----------------------------------------------------------------------------
Numbers == /\ Cap \in Nat \ {0} /\ count \in 0 .. Cap
           /\ head \in Slots /\ tail \in Slots /\ droppedCount \in Nat
           /\ records \in [Slots -> Record \cup {NoRecord}]
           /\ full <=> count = Cap

\* The numeric part of the type invariant.
LEMMA TypeGives == IInv => Numbers
  BY CapIs DEF IInv, BufferTypeOK, Numbers, Cap, full

\* The contents as a sequence of records.
LEMMA ContentsIs ==
  IInv => /\ Contents \in Seq(Record)
          /\ Len(Contents) = count
          /\ \A i \in 1 .. count : Contents[i] = records[Slot(head, i)]
<1> SUFFICES ASSUME IInv
             PROVE  /\ Contents \in Seq(Record)
                    /\ Len(Contents) = count
                    /\ \A i \in 1 .. count : Contents[i] = records[Slot(head, i)]
  OBVIOUS
<1>1. count \in Nat
  BY TypeGives DEF Numbers
<1>2. \A i \in 1 .. count : Contents[i] \in Record
  BY DEF IInv, IndicesAgree
<1>3. Contents = [i \in 1 .. count |-> records[Slot(head, i)]]
  BY DEF Contents
<1>4. Contents \in [1 .. count -> Record]
  BY <1>2, <1>3
<1> QED
  BY <1>1, <1>3, <1>4

\* Writing the slot at tail leaves the records held as they are.
LEMMA TailSlotIsFree ==
  ASSUME IInv, NEW i \in 1 .. count, i # 1 \/ ~full
  PROVE  Slot(head, i) # tail
<1>1. Numbers /\ tail = Slot(head, count + 1)
  BY TypeGives DEF IInv, IndicesAgree
<1>2. CASE ~full
  <2>1. i \in 1 .. Cap /\ count + 1 \in 1 .. Cap /\ i # count + 1
    BY <1>1, <1>2 DEF Numbers
  <2> QED
    BY <1>1, <2>1, SlotsDiffer DEF Numbers
<1>3. CASE full
  <2>1. i \in 1 .. Cap /\ 1 \in 1 .. Cap /\ i # 1 /\ count = Cap
    BY <1>1, <1>3 DEF Numbers
  <2>2. tail = head /\ head = Slot(head, 1)
    BY <1>1, <2>1, SlotWraps DEF Numbers
  <2> QED
    BY <1>1, <2>1, <2>2, SlotsDiffer DEF Numbers
<1> QED
  BY <1>2, <1>3

\* push keeps the types.
LEMMA PushTypeOK ==
  ASSUME IInv, NEW r \in Record, push(r)
  PROVE  BufferTypeOK'
<1>1. Numbers
  BY TypeGives
<1>2. nextSlot(tail) \in Slots /\ nextSlot(head) \in Slots
  BY <1>1, NextSlotIs DEF Numbers
<1>3. count' \in 0 .. Cap /\ droppedCount' \in Nat
  BY <1>1 DEF push, Numbers
<1> QED
  BY <1>1, <1>2, <1>3 DEF push, BufferTypeOK, Numbers, Cap

\* The slots of the records after a push, case by case, and the agreement of
\* the indices.
LEMMA PushWithRoom ==
  ASSUME IInv, NEW r \in Record, push(r), ~full
  PROVE  /\ count' = count + 1 /\ droppedCount' = droppedCount
         /\ tail' = Slot(head', count' + 1)
         /\ \A i \in 1 .. count : records'[Slot(head', i)] = Contents[i]
         /\ records'[Slot(head', count')] = r
<1>1. Numbers /\ tail = Slot(head, count + 1)
  BY TypeGives DEF IInv, IndicesAgree
<1>2. /\ count' = count + 1 /\ droppedCount' = droppedCount /\ head' = head
      /\ tail' = nextSlot(tail)
      /\ records' = [records EXCEPT ![tail] = r]
  BY DEF push
<1>3. count + 1 \in 1 .. Cap /\ (count + 1) + 1 = count + 2
  BY <1>1 DEF Numbers
<1>4. tail' = Slot(head, (count + 1) + 1)
  BY <1>1, <1>2, <1>3, SlotAfter DEF Numbers
<1>5. ASSUME NEW i \in 1 .. count PROVE records'[Slot(head, i)] = Contents[i]
  <2>1. i \in 1 .. Cap + 1
    BY <1>1 DEF Numbers
  <2>2. Slot(head, i) \in Slots /\ Slot(head, i) # tail
    BY <1>1, <2>1, SlotIs, TailSlotIsFree DEF Numbers
  <2> QED
    BY <1>1, <1>2, <2>2, ContentsIs DEF Numbers
<1>6. records'[tail] = r
  BY <1>1, <1>2 DEF Numbers
<1> QED
  BY <1>1, <1>2, <1>4, <1>5, <1>6

\* push into a full buffer: every record moves up by one and r takes the last place.
LEMMA PushWhenFull ==
  ASSUME IInv, NEW r \in Record, push(r), full
  PROVE  /\ count' = count /\ count = Cap /\ droppedCount' = droppedCount + 1
         /\ tail' = Slot(head', count' + 1)
         /\ \A i \in 1 .. count - 1 : records'[Slot(head', i)] = Contents[i + 1]
         /\ records'[Slot(head', count')] = r
<1>1. Numbers /\ tail = Slot(head, count + 1) /\ count = Cap
  BY TypeGives DEF IInv, IndicesAgree, Numbers
<1>2. /\ count' = count /\ droppedCount' = droppedCount + 1 /\ head' = nextSlot(head)
      /\ tail' = nextSlot(tail)
      /\ records' = [records EXCEPT ![tail] = r]
  BY DEF push
<1>3. tail = head /\ head' \in Slots
  BY <1>1, <1>2, SlotWraps, NextSlotIs DEF Numbers
<1>4. tail' = Slot(head', count + 1)
  BY <1>1, <1>2, <1>3, SlotWraps
<1>5. ASSUME NEW i \in 1 .. count - 1 PROVE records'[Slot(head', i)] = Contents[i + 1]
  <2>1. i \in 1 .. Cap /\ i + 1 \in 1 .. count /\ i + 1 \in 1 .. Cap + 1 /\ i + 1 # 1
    BY <1>1 DEF Numbers
  <2>2. Slot(head', i) = Slot(head, i + 1)
    BY <1>1, <1>2, <2>1, SlotShift DEF Numbers
  <2>3. Slot(head, i + 1) \in Slots /\ Slot(head, i + 1) # tail
    BY <1>1, <2>1, SlotIs, TailSlotIsFree DEF Numbers
  <2> QED
    BY <1>1, <1>2, <2>1, <2>2, <2>3, ContentsIs DEF Numbers
<1>6. Slot(head', count) = tail
  <2>1. Cap \in 1 .. Cap
    BY <1>1 DEF Numbers
  <2> QED
    BY <1>1, <1>2, <2>1, SlotShift DEF Numbers
<1>7. records'[tail] = r
  BY <1>1, <1>2 DEF Numbers
<1> QED
  BY <1>1, <1>2, <1>4, <1>5, <1>6, <1>7

\* push keeps tail count slots after head.
LEMMA PushIndices ==
  ASSUME IInv, NEW r \in Record, push(r)
  PROVE  IndicesAgree'
<1>1. Numbers /\ \A i \in 1 .. count : Contents[i] \in Record
  BY TypeGives DEF IInv, IndicesAgree
<1>2. Contents' = [i \in 1 .. count' |-> records'[Slot(head', i)]]
  BY DEF Contents, Slot
<1>3. CASE ~full
  <2>1. ASSUME NEW i \in 1 .. count' PROVE records'[Slot(head', i)] \in Record
    <3>1. i \in 1 .. count \/ i = count'
      BY <1>1, <1>3, PushWithRoom DEF Numbers
    <3> QED
      BY <1>1, <1>3, <3>1, PushWithRoom
  <2> QED
    BY <1>2, <1>3, <2>1, PushWithRoom DEF IndicesAgree, Slot
<1>4. CASE full
  <2>1. ASSUME NEW i \in 1 .. count' PROVE records'[Slot(head', i)] \in Record
    <3>1. (i \in 1 .. count - 1 /\ i + 1 \in 1 .. count) \/ i = count'
      BY <1>1, <1>4, PushWhenFull DEF Numbers
    <3> QED
      BY <1>1, <1>4, <3>1, PushWhenFull
  <2> QED
    BY <1>2, <1>4, <2>1, PushWhenFull DEF IndicesAgree, Slot
<1> QED
  BY <1>3, <1>4

\* discardOldest keeps the invariant.
LEMMA DiscardStep ==
  ASSUME IInv, discardOldest
  PROVE  /\ count' = count - 1 /\ count > 0 /\ droppedCount' = droppedCount
         /\ \A i \in 1 .. count - 1 : records'[Slot(head', i)] = Contents[i + 1]
         /\ IInv'
<1>1. Numbers /\ tail = Slot(head, count + 1) /\ \A i \in 1 .. count : Contents[i] \in Record
  BY TypeGives DEF IInv, IndicesAgree
<1>2. /\ count # 0 /\ count' = count - 1 /\ head' = nextSlot(head)
      /\ tail' = tail /\ records' = records /\ droppedCount' = droppedCount
  BY DEF discardOldest, empty
<1>3. /\ count \in 1 .. Cap /\ count' \in 0 .. Cap /\ count' + 1 = count
      /\ nextSlot(head) \in Slots
  BY <1>1, <1>2, NextSlotIs DEF Numbers
<1>4. BufferTypeOK'
  BY <1>1, <1>2, <1>3 DEF BufferTypeOK, Numbers, Cap
<1>5. tail' = Slot(head', count' + 1)
  BY <1>1, <1>2, <1>3, SlotShift DEF Numbers
<1>6. ASSUME NEW i \in 1 .. count - 1 PROVE records'[Slot(head', i)] = Contents[i + 1]
  <2>1. i \in 1 .. Cap /\ i + 1 \in 1 .. count
    BY <1>1, <1>3 DEF Numbers
  <2>2. Slot(head', i) = Slot(head, i + 1)
    BY <1>1, <1>2, <2>1, SlotShift DEF Numbers
  <2> QED
    BY <1>2, <2>1, <2>2, ContentsIs
<1>7. ASSUME NEW i \in 1 .. count' PROVE records'[Slot(head', i)] \in Record
  <2>1. i \in 1 .. count - 1 /\ i + 1 \in 1 .. count
    BY <1>2, <1>3 DEF Numbers
  <2> QED
    BY <1>1, <1>6, <2>1
<1>8. IndicesAgree'
  <2>1. Contents' = [i \in 1 .. count' |-> records'[Slot(head', i)]]
    BY DEF Contents, Slot
  <2> QED
    BY <1>5, <1>7, <2>1 DEF IndicesAgree, Slot
<1> QED
  BY <1>2, <1>3, <1>4, <1>6, <1>8 DEF IInv

-----------------------------------------------------------------------------
\* push keeps the invariant.
LEMMA PushKeepsInv ==
  ASSUME IInv, NEW r \in Record, push(r)
  PROVE  IInv'
  BY PushTypeOK, PushIndices DEF IInv

\* The invariant holds of the empty buffer.
LEMMA InitIInv == BufferInit => IInv
<1> SUFFICES ASSUME BufferInit PROVE IInv
  OBVIOUS
<1>1. BufferTypeOK
  BY CapIs DEF BufferInit, BufferTypeOK, Cap
<1>2. 0 \in Slots /\ Slot(0, 1) = 0
  BY CapIs, SlotWraps
<1> QED
  BY <1>1, <1>2 DEF BufferInit, IInv, IndicesAgree

\* The indices of the ring stay in range and agree with each other.
THEOREM BufferInvariance == BufferSpec => [](BufferTypeOK /\ IndicesAgree)
<1>1. IInv /\ [BufferNext]_bufferVars => IInv'
  <2>1. ASSUME IInv, NEW r \in Record, push(r) PROVE IInv'
    BY <2>1, PushKeepsInv
  <2>2. ASSUME IInv, discardOldest PROVE IInv'
    BY <2>2, DiscardStep
  <2>3. ASSUME IInv, UNCHANGED bufferVars PROVE IInv'
    BY <2>3 DEF bufferVars, IInv, BufferTypeOK, IndicesAgree, Contents
  <2> QED
    BY <2>1, <2>2, <2>3 DEF BufferNext
<1>2. IInv => BufferTypeOK /\ IndicesAgree
  BY DEF IInv
<1> QED
  BY InitIInv, <1>1, <1>2, PTL DEF BufferSpec

\* A push appends a record to the queue, dropping the oldest of a full one.
LEMMA PushRefines ==
  ASSUME IInv, NEW r \in Record, push(r)
  PROVE  Queue!Push(r)
<1>1. Numbers
  BY TypeGives
<1>2. /\ Contents \in Seq(Record) /\ Len(Contents) = count
      /\ \A i \in 1 .. count : Contents[i] = records[Slot(head, i)]
  BY ContentsIs
<1>3. IInv'
  BY PushKeepsInv
<1>4. /\ Contents' \in Seq(Record) /\ Len(Contents') = count'
      /\ \A i \in 1 .. count' : Contents'[i] = records'[Slot(head', i)]
  <2>1. ContentsIs!1' => ContentsIs!2'
    BY ContentsIs, PTL
  <2> QED
    BY <1>3, <2>1 DEF Slot
<1>5. CASE ~full
  <2> DEFINE new == Append(Contents, r)
  <2>1. /\ new \in Seq(Record) /\ Len(new) = count + 1
        /\ \A i \in 1 .. count : new[i] = Contents[i]
        /\ new[count + 1] = r
    BY <1>2, AppendProperties
  <2> HIDE DEF new
  <2>2. \A i \in 1 .. count' : Contents'[i] = new[i]
    <3> TAKE i \in 1 .. count'
    <3>1. i \in 1 .. count \/ i = count + 1
      BY <1>1, <1>5, PushWithRoom DEF Numbers
    <3> QED
      BY <1>4, <1>5, <2>1, <3>1, PushWithRoom
  <2>3. Contents' = new
    BY <1>4, <1>5, <2>1, <2>2, PushWithRoom, SeqEqual
  <2>4. count < Cap
    BY <1>1, <1>5 DEF Numbers
  <2> QED
    BY <1>2, <1>5, <2>3, <2>4, PushWithRoom DEF Queue!Push, new, Cap
<1>6. CASE full
  <2>1. Contents # <<>>
    BY <1>1, <1>2, <1>6 DEF Numbers
  <2>2. /\ Tail(Contents) \in Seq(Record) /\ Len(Tail(Contents)) = count - 1
        /\ \A i \in 1 .. count - 1 : Tail(Contents)[i] = Contents[i + 1]
    BY <1>2, <2>1, HeadTailProperties
  <2> DEFINE new == Append(Tail(Contents), r)
  <2>3. /\ new \in Seq(Record) /\ Len(new) = count
        /\ \A i \in 1 .. count - 1 : new[i] = Contents[i + 1]
        /\ new[count] = r
    BY <1>1, <2>2, AppendProperties DEF Numbers
  <2> HIDE DEF new
  <2>4. \A i \in 1 .. count' : Contents'[i] = new[i]
    <3> TAKE i \in 1 .. count'
    <3>1. i \in 1 .. count - 1 \/ i = count
      BY <1>1, <1>6, PushWhenFull DEF Numbers
    <3> QED
      BY <1>4, <1>6, <2>3, <3>1, PushWhenFull
  <2>5. Contents' = new
    BY <1>4, <1>6, <2>3, <2>4, PushWhenFull, SeqEqual
  <2> QED
    BY <1>2, <1>6, <2>5, PushWhenFull DEF Queue!Push, new, Cap
<1> QED
  BY <1>5, <1>6

\* discardOldest is Discard of the queue.
LEMMA DiscardRefines ==
  ASSUME IInv, discardOldest
  PROVE  Queue!Discard
<1>1. Numbers /\ count > 0
  BY TypeGives, DiscardStep
<1>2. /\ Contents \in Seq(Record) /\ Len(Contents) = count
      /\ Contents # <<>>
  BY <1>1, ContentsIs DEF Numbers
<1>3. /\ Contents' \in Seq(Record) /\ Len(Contents') = count'
      /\ \A i \in 1 .. count' : Contents'[i] = records'[Slot(head', i)]
  <2>1. ContentsIs!1' => ContentsIs!2'
    BY ContentsIs, PTL
  <2> QED
    BY DiscardStep, <2>1 DEF Slot
<1>4. /\ Tail(Contents) \in Seq(Record) /\ Len(Tail(Contents)) = count - 1
      /\ \A i \in 1 .. count - 1 : Tail(Contents)[i] = Contents[i + 1]
  BY <1>2, HeadTailProperties
<1>5. \A i \in 1 .. Len(Contents') : Contents'[i] = Tail(Contents)[i]
  BY <1>3, <1>4, DiscardStep
<1>6. Contents' = Tail(Contents)
  BY <1>3, <1>4, <1>5, DiscardStep, SeqEqual
<1> QED
  BY <1>2, <1>6, DiscardStep DEF Queue!Discard

\* The ring buffer implements the drop-oldest queue, whatever its capacity.
THEOREM BufferRefinement == BufferSpec => ImplementsQueue
<1>1. BufferInit => Queue!Init
  BY DEF BufferInit, Queue!Init, Contents
<1>2. IInv /\ [BufferNext]_bufferVars => [Queue!Next]_<<Contents, droppedCount>>
  <2>1. ASSUME IInv, NEW r \in Record, push(r) PROVE Queue!Next
    BY <2>1, PushRefines DEF Queue!Next
  <2>2. ASSUME IInv, discardOldest PROVE Queue!Next
    BY <2>2, DiscardRefines DEF Queue!Next
  <2>3. ASSUME UNCHANGED bufferVars PROVE UNCHANGED <<Contents, droppedCount>>
    BY <2>3 DEF bufferVars, Contents
  <2> QED
    BY <2>1, <2>2, <2>3 DEF BufferNext
<1> QED
  BY BufferInvariance, <1>1, <1>2, PTL DEF BufferSpec, ImplementsQueue, Queue!Spec, IInv
=============================================================================
