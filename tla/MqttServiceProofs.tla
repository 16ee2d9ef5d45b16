---------------------------- MODULE MqttServiceProofs ----------------------------
(***************************************************************************)
(* Proofs about MqttService, for every number of records, every capacity   *)
(* of the buffer and drain limit, and all intervals: the buffer under the  *)
(* service is still the drop-oldest queue, and no record is lost without   *)
(* being counted, whatever the Wi-Fi, the broker and the connection do.    *)
(*                                                                         *)
(* BInv is the buffer's own invariant (TelemetryBufferProofs).  The count  *)
(* of the records needs more: a record that is put where others went must  *)
(* not be there yet, which the order of the buffer (NewestAreKept) and     *)
(* SwallowedAreGone give.                                                  *)
(***************************************************************************)
EXTENDS MqttService, TelemetryBufferProofs, FiniteSetTheorems

\* A record that went into a dead connection has left the buffer.
SwallowedAreGone == \A s \in swallowed : s \notin Buffered

\* The buffer's own invariant, and the two parts of the types.
BInv == BufferTypeOK /\ IndicesAgree

ControlTypeOK ==
  /\ WifiTypeOK
  /\ broker \in BOOLEAN /\ link \in {"none", "open", "stale"}
  /\ session \in BOOLEAN /\ status \in {"offline", "online"}
  /\ attemptAge \in 0 .. Wrap - 1
  /\ pc \in {"submit", "network", "tick", "announce", "drain"} /\ sent \in 0 .. mqttDrainPerLoop

RecordTypeOK ==
  /\ BufferTypeOK
  /\ submitted \in 0 .. Cardinality(Record)
  /\ delivered \in Seq(Record)
  /\ swallowed \subseteq Record /\ evicted \subseteq Record

RecordInv ==
  /\ RecordTypeOK
  /\ IndicesAgree
  /\ RecordsAccountedFor
  /\ NewestAreKept
  /\ SwallowedAreGone

-----------------------------------------------------------------------------
\* The records are the numbers up to a natural number.
LEMMA RecordIs ==
  /\ Cardinality(Record) \in Nat /\ IsFiniteSet(Record)
  /\ Record = 1 .. Cardinality(Record)
  /\ Record \subseteq Nat
<1>1. Cardinality(Record) \in Nat
  BY MqttAssumption, FS_CardinalityType
<1> QED
  BY <1>1, MqttAssumption

\* The age of an attempt stays in range.
LEMMA AgeTypes ==
  /\ 0 \in 0 .. Wrap - 1
  /\ \A a \in 0 .. Wrap - 1, d \in 1 .. MaxCycle : (a + d) % Wrap \in 0 .. Wrap - 1
  BY RetryAssumption, MqttAssumption

\* NetworkManager, the driver and the access point keep their types.
LEMMA WifiTypes ==
  ASSUME WifiTypeOK, NetworkTick \/ Joined \/ JoinFails \/ AccessPointChanges
  PROVE  WifiTypeOK'
<1> USE AgeTypes DEF WifiTypeOK
<1>1. CASE NetworkTick
  BY <1>1 DEF NetworkTick, JoinAgain, ConnectBlynk, NoAttempt
<1>2. CASE Joined \/ JoinFails
  BY <1>2 DEF Joined, JoinFails
<1>3. CASE AccessPointChanges
  BY <1>3 DEF AccessPointChanges
<1> QED
  BY <1>1, <1>2, <1>3

\* Every step keeps the types of the task, the connection and the environment.
LEMMA ControlTypes == ControlTypeOK /\ [Next]_vars => ControlTypeOK'
<1> SUFFICES ASSUME ControlTypeOK, [Next]_vars PROVE ControlTypeOK'
  OBVIOUS
<1> USE DEF ControlTypeOK
<1>1. CASE BeginCycle
  <2>1. attemptAge' \in 0 .. Wrap - 1 /\ WifiTypeOK'
    BY <1>1, AgeTypes DEF BeginCycle, WifiTypeOK
  <2> QED
    BY <1>1, <2>1 DEF BeginCycle
<1>2. CASE TickNetwork
  BY <1>2, WifiTypes DEF TickNetwork
<1>3. CASE TickReturns \/ TickLoops
  BY <1>3 DEF TickReturns, TickLoops, envVars, wifiVars, WifiTypeOK
<1>4. CASE TickConnects
  BY <1>4, AgeTypes DEF TickConnects, SessionBegins, lastWill, wifiVars, WifiTypeOK
<1>5. CASE Announce
  BY <1>5 DEF Announce, wifiVars, WifiTypeOK
<1>6. CASE DrainOne
  <2>1. sent' \in 0 .. mqttDrainPerLoop
    BY <1>6, MqttAssumption DEF DrainOne
  <2> QED
    BY <1>6, <2>1 DEF DrainOne, envVars, wifiVars, WifiTypeOK
<1>7. CASE DrainEnds
  <2>1. 0 \in 0 .. mqttDrainPerLoop
    BY MqttAssumption
  <2> QED
    BY <1>7, <2>1 DEF DrainEnds, envVars, wifiVars, WifiTypeOK
<1>8. CASE Environment
  <2>1. LinkBreaks => link' \in {"none", "open", "stale"}
    BY DEF LinkBreaks
  <2>2. CASE WifiChanges
    BY <1>8, <2>1, <2>2, WifiTypes DEF Environment, WifiChanges
  <2>3. CASE BrokerChanges
    BY <1>8, <2>1, <2>3 DEF Environment, BrokerChanges, wifiVars, WifiTypeOK
  <2>4. CASE StaleDetected \/ SessionExpires
    BY <1>8, <2>4 DEF Environment, StaleDetected, SessionExpires, lastWill, wifiVars, WifiTypeOK
  <2> QED
    BY <1>8, <2>2, <2>3, <2>4 DEF Environment
<1>9. CASE UNCHANGED vars
  BY <1>9 DEF vars, envVars, wifiVars, WifiTypeOK
<1> QED
  BY <1>1, <1>2, <1>3, <1>4, <1>5, <1>6, <1>7, <1>8, <1>9
     DEF Next, NetworkTask, CycleWithRecord, CycleWithout

-----------------------------------------------------------------------------
\* What the buffer's proofs need of its state.
LEMMA BufferFacts ==
  ASSUME BInv
  PROVE  /\ IInv /\ count \in Nat
         /\ Contents \in Seq(Record) /\ Len(Contents) = count
         /\ Buffered \subseteq Record
<1>1. IInv
  BY DEF BInv, IInv
<1>2. count \in Nat
  BY <1>1, TypeGives DEF Numbers
<1> QED
  BY <1>1, <1>2, ContentsIs DEF Buffered, BInv, IndicesAgree

\* The record peek() shows is the first of the contents.
LEMMA PeekIsOldest ==
  ASSUME BInv, ~empty
  PROVE  /\ count > 0 /\ 1 \in 1 .. count
         /\ peek = Contents[1] /\ peek \in Record /\ peek \in Buffered
<1>1. count \in Nat /\ count # 0 /\ head \in Slots
  BY BufferFacts DEF empty, BInv, BufferTypeOK
<1>2. 1 \in 1 .. count
  BY <1>1
<1>3. Contents[1] = records[head] /\ Contents[1] \in Record
  BY <1>1, <1>2, SlotWraps DEF Contents, BInv, IndicesAgree
<1> QED
  BY <1>1, <1>2, <1>3 DEF peek, Buffered

\* A push into a buffer with room puts the record after the others.
LEMMA PushPlaces ==
  ASSUME BInv, NEW r \in Record, push(r), ~full
  PROVE  /\ count' = count + 1 /\ droppedCount' = droppedCount
         /\ \A i \in 1 .. count : Contents'[i] = Contents[i]
         /\ Contents'[count'] = r
         /\ Buffered' = Buffered \cup {r}
<1>1. IInv /\ count \in Nat
  BY BufferFacts
<1>2. /\ count' = count + 1 /\ droppedCount' = droppedCount
      /\ \A i \in 1 .. count : records'[Slot(head', i)] = Contents[i]
      /\ records'[Slot(head', count')] = r
  BY <1>1, PushWithRoom
<1>3. \A i \in 1 .. count' : Contents'[i] = records'[Slot(head', i)]
  BY DEF Contents, Slot
<1>4. 1 .. count' = (1 .. count) \cup {count'} /\ count' \in 1 .. count'
  BY <1>1, <1>2
<1>5. /\ \A i \in 1 .. count : Contents'[i] = Contents[i]
      /\ Contents'[count'] = r
  BY <1>2, <1>3, <1>4
<1>6. Buffered' = {Contents'[i] : i \in 1 .. count'}
  BY DEF Buffered
<1> QED
  BY <1>2, <1>4, <1>5, <1>6 DEF Buffered

\* A push into a full buffer takes the oldest record's place.
LEMMA PushFullPlaces ==
  ASSUME BInv, NEW r \in Record, push(r), full
  PROVE  /\ count' = count /\ droppedCount' = droppedCount + 1 /\ ~empty
         /\ \A i \in 1 .. count - 1 : Contents'[i] = Contents[i + 1]
         /\ Contents'[count] = r
         /\ Buffered' \subseteq Buffered \cup {r}
         /\ Buffered' \cup {peek} = Buffered \cup {r}
<1>1. IInv /\ count \in Nat
  BY BufferFacts
<1>2. /\ count' = count /\ count = Cap /\ droppedCount' = droppedCount + 1
      /\ \A i \in 1 .. count - 1 : records'[Slot(head', i)] = Contents[i + 1]
      /\ records'[Slot(head', count')] = r
  BY <1>1, PushWhenFull
<1>3. \A i \in 1 .. count' : Contents'[i] = records'[Slot(head', i)]
  BY DEF Contents, Slot
<1>4. count \in Nat \ {0} /\ ~empty
  BY <1>2, CapIs DEF empty
<1>5. /\ \A i \in 1 .. count - 1 : i \in 1 .. count /\ i + 1 \in 1 .. count
      /\ \A i \in 1 .. count : i = count \/ i \in 1 .. count - 1
      /\ \A i \in 1 .. count : i = 1 \/ (i - 1 \in 1 .. count - 1 /\ (i - 1) + 1 = i)
      /\ count \in 1 .. count
  BY <1>4
<1>6. /\ \A i \in 1 .. count - 1 : Contents'[i] = Contents[i + 1]
      /\ Contents'[count] = r
  BY <1>2, <1>3, <1>5
<1>7. Buffered' = {Contents'[i] : i \in 1 .. count}
  BY <1>2 DEF Buffered
<1>8. Buffered' \subseteq Buffered \cup {r}
  BY <1>5, <1>6, <1>7 DEF Buffered
<1>9. peek = Contents[1] /\ peek \in Buffered /\ r \in Buffered'
  BY <1>4, <1>5, <1>6, <1>7, PeekIsOldest
<1>10. ASSUME NEW b \in Buffered PROVE b \in Buffered' \cup {peek}
  <2>1. PICK i \in 1 .. count : b = Contents[i]
    BY DEF Buffered
  <2> QED
    BY <1>5, <1>6, <1>7, <1>9, <2>1
<1> QED
  BY <1>2, <1>4, <1>6, <1>8, <1>9, <1>10

\* discardOldest takes the oldest record away.
LEMMA DiscardPlaces ==
  ASSUME BInv, discardOldest
  PROVE  /\ BInv' /\ count' = count - 1 /\ count > 0 /\ droppedCount' = droppedCount
         /\ \A i \in 1 .. count - 1 : Contents'[i] = Contents[i + 1]
         /\ Buffered' = {Contents[i + 1] : i \in 1 .. count - 1}
         /\ Buffered' \cup {peek} = Buffered
<1>1. IInv /\ count \in Nat /\ ~empty
  BY BufferFacts DEF discardOldest
<1>2. /\ count' = count - 1 /\ count > 0 /\ droppedCount' = droppedCount
      /\ \A i \in 1 .. count - 1 : records'[Slot(head', i)] = Contents[i + 1]
      /\ IInv'
  BY <1>1, DiscardStep
<1>3. \A i \in 1 .. count' : Contents'[i] = records'[Slot(head', i)]
  BY DEF Contents, Slot
<1>4. /\ \A i \in 1 .. count - 1 : i + 1 \in 1 .. count
      /\ \A i \in 1 .. count : i = 1 \/ (i - 1 \in 1 .. count - 1 /\ (i - 1) + 1 = i)
  BY <1>1
<1>5. \A i \in 1 .. count - 1 : Contents'[i] = Contents[i + 1]
  BY <1>2, <1>3
<1>6. Buffered' = {Contents[i + 1] : i \in 1 .. count - 1}
  BY <1>2, <1>5 DEF Buffered
<1>7. peek = Contents[1] /\ peek \in Buffered
  BY <1>1, PeekIsOldest
<1>8. ASSUME NEW b \in Buffered PROVE b \in Buffered' \cup {peek}
  <2>1. PICK i \in 1 .. count : b = Contents[i]
    BY DEF Buffered
  <2> QED
    BY <1>4, <1>6, <1>7, <2>1
<1>9. Buffered' \subseteq Buffered
  BY <1>4, <1>6 DEF Buffered
<1> QED
  BY <1>2, <1>5, <1>6, <1>7, <1>8, <1>9 DEF IInv, BInv

\* One more record received, and one more put where it was not.
LEMMA ReceivedOneMore ==
  ASSUME delivered \in Seq(Record), NEW r \in Record, delivered' = Append(delivered, r)
  PROVE  /\ delivered' \in Seq(Record) /\ Len(delivered') = Len(delivered) + 1
         /\ Received' = Received \cup {r}
<1>1. /\ delivered' \in Seq(Record) /\ Len(delivered') = Len(delivered) + 1
      /\ \A i \in 1 .. Len(delivered) : delivered'[i] = delivered[i]
      /\ delivered'[Len(delivered) + 1] = r
      /\ Len(delivered) \in Nat
  BY AppendProperties, LenProperties
<1>2. /\ 1 .. Len(delivered') = (1 .. Len(delivered)) \cup {Len(delivered) + 1}
  BY <1>1
<1>3. Received' = {delivered'[i] : i \in 1 .. Len(delivered')}
  BY DEF Received
<1> QED
  BY <1>1, <1>2, <1>3 DEF Received

\* A set of records with one more.
LEMMA OneMore ==
  ASSUME NEW S \in SUBSET Record, NEW r \in Record, r \notin S
  PROVE  /\ S \cup {r} \subseteq Record
         /\ Cardinality(S) \in Nat
         /\ Cardinality(S \cup {r}) = Cardinality(S) + 1
<1>1. IsFiniteSet(S)
  BY RecordIs, FS_Subset
<1> QED
  BY <1>1, FS_CardinalityType, FS_AddElement

-----------------------------------------------------------------------------
\* Every record that is anywhere has been submitted.
LEMMA AllSubmitted ==
  ASSUME RecordInv
  PROVE  /\ BInv /\ submitted \in Nat /\ count \in Nat
         /\ Len(delivered) \in Nat
         /\ Cardinality(swallowed) \in Nat /\ Cardinality(evicted) \in Nat
         /\ Received \cup swallowed \cup Buffered \cup evicted = 1 .. submitted
         /\ \A x \in Received \cup swallowed \cup Buffered \cup evicted :
              x \in Nat /\ x <= submitted
<1>1. BInv /\ submitted \in Nat /\ Len(delivered) \in Nat
  BY RecordIs, LenProperties DEF RecordInv, RecordTypeOK, BInv
<1>2. count \in Nat
  BY <1>1, BufferFacts
<1>3. IsFiniteSet(swallowed) /\ IsFiniteSet(evicted)
  BY RecordIs, FS_Subset DEF RecordInv, RecordTypeOK
<1>4. Received \cup swallowed \cup Buffered \cup evicted = 1 .. submitted
  BY DEF RecordInv, RecordsAccountedFor
<1> QED
  BY <1>1, <1>2, <1>3, <1>4, FS_CardinalityType

\* A step that moves no record keeps the record part of the invariant.
LEMMA QuietStep ==
  ASSUME RecordInv, UNCHANGED <<bufferVars, submitted, sentVars, evicted>>
  PROVE  RecordInv'
<1> USE DEF bufferVars, sentVars
<1>1. RecordTypeOK' /\ IndicesAgree'
  BY DEF RecordInv, RecordTypeOK, BufferTypeOK, IndicesAgree, Contents
<1>2. Contents' = Contents /\ Buffered' = Buffered /\ Received' = Received
  BY DEF Contents, Buffered, Received
<1>3. RecordsAccountedFor' /\ NewestAreKept' /\ SwallowedAreGone'
  BY <1>2 DEF RecordInv, RecordsAccountedFor, NewestAreKept, SwallowedAreGone
<1> QED
  BY <1>1, <1>3 DEF RecordInv

\* A record that is submitted is received, goes into a dead connection, or is
\* buffered, at the cost of the oldest one when the buffer is full.
LEMMA SubmitStep ==
  ASSUME RecordInv, NEW r \in Record, r = submitted + 1, submitted' = r, submitTelemetry(r)
  PROVE  RecordInv'
<1> DEFINE AccountedFor ==
             /\ Received' \cup swallowed' \cup Buffered' \cup evicted' = 1 .. r
             /\ Len(delivered') + Cardinality(swallowed') + count' + Cardinality(evicted') = r
             /\ droppedCount' = Cardinality(evicted')
<1>0. AccountedFor => RecordsAccountedFor'
  BY DEF RecordsAccountedFor
<1>1. /\ BInv /\ submitted \in Nat /\ count \in Nat
      /\ Len(delivered) \in Nat
      /\ Cardinality(swallowed) \in Nat /\ Cardinality(evicted) \in Nat
      /\ Received \cup swallowed \cup Buffered \cup evicted = 1 .. submitted
      /\ \A x \in Received \cup swallowed \cup Buffered \cup evicted :
           x \in Nat /\ x <= submitted
  BY AllSubmitted
<1>2. /\ 1 .. r = (1 .. submitted) \cup {r}
      /\ submitted' \in 0 .. Cardinality(Record)
      /\ \A x \in Received \cup swallowed \cup Buffered \cup evicted : x < r /\ x # r
  BY <1>1, RecordIs
<1>3. /\ Len(delivered) + Cardinality(swallowed) + count + Cardinality(evicted) = submitted
      /\ droppedCount = Cardinality(evicted)
  BY DEF RecordInv, RecordsAccountedFor
<1>4. CASE Publish(r, TRUE) /\ UNCHANGED <<bufferVars, evicted>>
  <2>1. /\ Contents' = Contents /\ Buffered' = Buffered
        /\ count' = count /\ droppedCount' = droppedCount /\ evicted' = evicted
        /\ IndicesAgree' /\ BufferTypeOK' /\ NewestAreKept'
    BY <1>4 DEF bufferVars, Contents, Buffered, RecordInv, RecordTypeOK, BufferTypeOK,
       IndicesAgree, NewestAreKept
  <2>2. CASE delivered' = Append(delivered, r) /\ UNCHANGED swallowed
    <3>1. /\ delivered' \in Seq(Record) /\ Len(delivered') = Len(delivered) + 1
          /\ Received' = Received \cup {r}
      BY <2>2, ReceivedOneMore DEF RecordInv, RecordTypeOK
    <3>2. AccountedFor
      BY SMTT(30), <1>1, <1>2, <1>3, <2>1, <2>2, <3>1
    <3>3. SwallowedAreGone'
      BY <2>1, <2>2 DEF RecordInv, SwallowedAreGone
    <3> QED
      BY <1>0, <1>2, <2>1, <2>2, <3>1, <3>2, <3>3 DEF RecordInv, RecordTypeOK
  <2>3. CASE swallowed' = swallowed \cup {r} /\ UNCHANGED delivered
    <3>1. /\ swallowed' \subseteq Record
          /\ Cardinality(swallowed') = Cardinality(swallowed) + 1
      BY <1>2, <2>3, OneMore DEF RecordInv, RecordTypeOK
    <3>2. Received' = Received
      BY <2>3 DEF Received
    <3>3. AccountedFor
      BY <1>1, <1>2, <1>3, <2>1, <2>3, <3>1, <3>2
    <3>4. SwallowedAreGone'
      BY <1>2, <2>1, <2>3 DEF RecordInv, SwallowedAreGone
    <3> QED
      BY <1>0, <1>2, <2>1, <2>3, <3>1, <3>3, <3>4 DEF RecordInv, RecordTypeOK
  <2> QED
    BY <1>4, <2>2, <2>3 DEF Publish
<1>5. CASE push(r) /\ UNCHANGED sentVars /\ evicted' = IF full THEN evicted \cup {peek} ELSE evicted
  <2>1. BInv' /\ Received' = Received
    BY <1>1, <1>5, BufferFacts, PushKeepsInv DEF BInv, IInv, sentVars, Received
  <2>2. CASE ~full /\ evicted' = evicted
    <3>1. /\ count' = count + 1 /\ droppedCount' = droppedCount
          /\ \A i \in 1 .. count : Contents'[i] = Contents[i]
          /\ Contents'[count'] = r
          /\ Buffered' = Buffered \cup {r}
      BY <1>1, <1>5, <2>2, PushPlaces
    <3>2. AccountedFor
      BY <1>1, <1>2, <1>3, <1>5, <2>1, <2>2, <3>1 DEF sentVars
    <3>3. ASSUME NEW i \in 1 .. count', NEW j \in 1 .. count', i < j
          PROVE  Contents'[i] < Contents'[j]
      <4>1. i \in 1 .. count /\ (j \in 1 .. count \/ j = count')
        BY <1>1, <3>1, <3>3
      <4>2. Contents[i] \in Buffered
        BY <4>1 DEF Buffered
      <4> QED
        BY <1>2, <3>1, <3>3, <4>1, <4>2 DEF RecordInv, NewestAreKept
    <3>4. \A e \in evicted' : \A b \in Buffered' : e < b
      BY <1>2, <2>2, <3>1 DEF RecordInv, NewestAreKept
    <3>5. SwallowedAreGone'
      BY <1>2, <1>5, <3>1 DEF RecordInv, SwallowedAreGone, sentVars
    <3> QED
      BY <1>0, <1>2, <1>5, <2>1, <2>2, <3>2, <3>3, <3>4, <3>5
         DEF RecordInv, RecordTypeOK, NewestAreKept, BInv, sentVars
  <2>3. CASE full /\ evicted' = evicted \cup {peek}
    <3>1. /\ count' = count /\ droppedCount' = droppedCount + 1 /\ ~empty
          /\ \A i \in 1 .. count - 1 : Contents'[i] = Contents[i + 1]
          /\ Contents'[count] = r
          /\ Buffered' \subseteq Buffered \cup {r}
          /\ Buffered' \cup {peek} = Buffered \cup {r}
      BY <1>1, <1>5, <2>3, PushFullPlaces
    <3>2. /\ count > 0 /\ 1 \in 1 .. count
          /\ peek = Contents[1] /\ peek \in Record /\ peek \in Buffered
      BY <1>1, <3>1, PeekIsOldest
    <3>3. peek \notin evicted
      BY <1>1, <3>2 DEF RecordInv, NewestAreKept
    <3>4. evicted' \subseteq Record /\ Cardinality(evicted') = Cardinality(evicted) + 1
      BY <2>3, <3>2, <3>3, OneMore DEF RecordInv, RecordTypeOK
    <3>5. AccountedFor
      <4>1. Received' \cup swallowed' \cup Buffered' \cup evicted' = 1 .. r
        <5>1. Buffered' \cup evicted' = Buffered \cup evicted \cup {r}
          BY <2>3, <3>1, <3>2
        <5> QED
          BY <1>1, <1>2, <1>5, <2>1, <5>1 DEF sentVars
      <4>2. Len(delivered') = Len(delivered) /\ Cardinality(swallowed') = Cardinality(swallowed)
        BY <1>5 DEF sentVars
      <4> QED
        BY <1>1, <1>3, <3>1, <3>4, <4>1, <4>2
    <3>6. ASSUME NEW i \in 1 .. count', NEW j \in 1 .. count', i < j
          PROVE  Contents'[i] < Contents'[j]
      <4>1. /\ i \in 1 .. count - 1 /\ i + 1 \in 1 .. count
            /\ (j \in 1 .. count - 1 /\ j + 1 \in 1 .. count /\ i + 1 < j + 1) \/ j = count
        BY <1>1, <3>1, <3>6
      <4>2. Contents[i + 1] \in Buffered
        BY <4>1 DEF Buffered
      <4> QED
        BY <1>2, <3>1, <4>1, <4>2 DEF RecordInv, NewestAreKept
    <3>7. ASSUME NEW b \in Buffered' PROVE peek < b
      <4>1. PICK i \in 1 .. count : b = Contents'[i]
        BY <3>1 DEF Buffered
      <4>2. CASE i = count
        BY <1>2, <3>1, <3>2, <4>1, <4>2
      <4>3. CASE i # count
        <5>1. i \in 1 .. count - 1 /\ i + 1 \in 1 .. count /\ 1 < i + 1
          BY <1>1, <4>3
        <5> QED
          BY <3>1, <3>2, <4>1, <5>1 DEF RecordInv, NewestAreKept
      <4> QED
        BY <4>2, <4>3
    <3>8. \A e \in evicted' : \A b \in Buffered' : e < b
      BY <1>2, <2>3, <3>1, <3>7 DEF RecordInv, NewestAreKept
    <3>9. SwallowedAreGone'
      BY <1>2, <1>5, <3>1 DEF RecordInv, SwallowedAreGone, sentVars
    <3> QED
      BY <1>0, <1>2, <1>5, <2>1, <3>4, <3>5, <3>6, <3>8, <3>9
         DEF RecordInv, RecordTypeOK, NewestAreKept, BInv, sentVars
  <2> QED
    BY <1>5, <2>2, <2>3
<1> QED
  BY <1>4, <1>5 DEF submitTelemetry, Publish

\* A record that is replayed leaves the buffer for the broker or for a dead
\* connection, where it has not been before.
LEMMA DrainStep ==
  ASSUME RecordInv, NEW r \in Record, r = peek, ~empty,
         Publish(r, TRUE), discardOldest, UNCHANGED <<submitted, evicted>>
  PROVE  RecordInv'
<1> DEFINE AccountedFor ==
             /\ Received' \cup swallowed' \cup Buffered' \cup evicted = 1 .. submitted
             /\ Len(delivered') + Cardinality(swallowed') + count' + Cardinality(evicted) = submitted
             /\ droppedCount' = Cardinality(evicted)
<1>0. AccountedFor => RecordsAccountedFor'
  BY DEF RecordsAccountedFor
<1>1. /\ BInv /\ submitted \in Nat /\ count \in Nat
      /\ Len(delivered) \in Nat
      /\ Cardinality(swallowed) \in Nat /\ Cardinality(evicted) \in Nat
      /\ Received \cup swallowed \cup Buffered \cup evicted = 1 .. submitted
      /\ \A x \in Received \cup swallowed \cup Buffered \cup evicted :
           x \in Nat /\ x <= submitted
  BY AllSubmitted
<1>2. /\ Len(delivered) + Cardinality(swallowed) + count + Cardinality(evicted) = submitted
      /\ droppedCount = Cardinality(evicted)
  BY DEF RecordInv, RecordsAccountedFor
<1>3. /\ BInv' /\ count' = count - 1 /\ count > 0 /\ droppedCount' = droppedCount
      /\ \A i \in 1 .. count - 1 : Contents'[i] = Contents[i + 1]
      /\ Buffered' = {Contents[i + 1] : i \in 1 .. count - 1}
      /\ Buffered' \cup {r} = Buffered
  BY <1>1, DiscardPlaces
<1>4. r = Contents[1] /\ r \in Buffered /\ 1 \in 1 .. count
  BY <1>1, PeekIsOldest
<1>5. \A i \in 1 .. count - 1 : i + 1 \in 1 .. count /\ 1 < i + 1
  BY <1>1
<1>6. r \notin Buffered'
  <2>1. ASSUME NEW i \in 1 .. count - 1 PROVE Contents[i + 1] # r
    <3>1. Contents[1] < Contents[i + 1]
      BY <1>4, <1>5 DEF RecordInv, NewestAreKept
    <3>2. Contents[1] \in Nat
      BY <1>1, <1>4
    <3> QED
      BY <1>4, <3>1, <3>2
  <2> QED
    BY <1>3, <2>1
<1>7. NewestAreKept'
  <2>1. ASSUME NEW i \in 1 .. count', NEW j \in 1 .. count', i < j
        PROVE  Contents'[i] < Contents'[j]
    <3>1. /\ i \in 1 .. count - 1 /\ j \in 1 .. count - 1
          /\ i + 1 \in 1 .. count /\ j + 1 \in 1 .. count /\ i + 1 < j + 1
      BY <1>1, <1>3, <2>1
    <3> QED
      BY <1>3, <3>1 DEF RecordInv, NewestAreKept
  <2>2. \A e \in evicted' : \A b \in Buffered' : e < b
    BY <1>3 DEF RecordInv, NewestAreKept
  <2> QED
    BY <2>1, <2>2 DEF NewestAreKept
<1>8. CASE delivered' = Append(delivered, r) /\ UNCHANGED swallowed
  <2>1. /\ delivered' \in Seq(Record) /\ Len(delivered') = Len(delivered) + 1
        /\ Received' = Received \cup {r}
    BY <1>8, ReceivedOneMore DEF RecordInv, RecordTypeOK
  <2>2. Received' \cup swallowed' \cup Buffered' \cup evicted = 1 .. submitted
    BY <1>1, <1>3, <1>8, <2>1
  <2>3. AccountedFor
    BY <1>1, <1>2, <1>3, <1>8, <2>1, <2>2
  <2>4. SwallowedAreGone'
    BY <1>3, <1>8 DEF RecordInv, SwallowedAreGone
  <2> QED
    BY <1>0, <1>3, <1>7, <1>8, <2>1, <2>3, <2>4 DEF RecordInv, RecordTypeOK, BInv
<1>9. CASE swallowed' = swallowed \cup {r} /\ UNCHANGED delivered
  <2>1. r \notin swallowed
    BY <1>4 DEF RecordInv, SwallowedAreGone
  <2>2. swallowed' \subseteq Record /\ Cardinality(swallowed') = Cardinality(swallowed) + 1
    BY <1>9, <2>1, OneMore DEF RecordInv, RecordTypeOK
  <2>3. Received' = Received
    BY <1>9 DEF Received
  <2>4. Received' \cup swallowed' \cup Buffered' \cup evicted = 1 .. submitted
    BY <1>1, <1>3, <1>9, <2>3
  <2>5. AccountedFor
    BY <1>1, <1>2, <1>3, <1>9, <2>2, <2>4
  <2>6. SwallowedAreGone'
    BY <1>3, <1>6, <1>9 DEF RecordInv, SwallowedAreGone
  <2> QED
    BY <1>0, <1>3, <1>7, <1>9, <2>2, <2>5, <2>6 DEF RecordInv, RecordTypeOK, BInv
<1> QED
  BY <1>8, <1>9 DEF Publish

\* What a step does with the records: it submits one, replays one, or leaves all
\* where they are.
LEMMA StepKinds ==
  ASSUME RecordInv, [Next]_vars
  PROVE  \/ \E r \in Record : /\ r = submitted + 1 /\ submitted' = r /\ submitTelemetry(r)
         \/ \E r \in Record : /\ r = peek /\ ~empty /\ Publish(r, TRUE) /\ discardOldest
                              /\ UNCHANGED <<submitted, evicted>>
         \/ UNCHANGED <<bufferVars, submitted, sentVars, evicted>>
<1>1. CASE CycleWithRecord
  <2>1. submitted + 1 \in Record
    BY <1>1, RecordIs DEF CycleWithRecord, RecordInv, RecordTypeOK
  <2>2. PICK r \in Record : r = submitted + 1
    BY <2>1
  <2>3. submitted' = r /\ submitTelemetry(r)
    BY <1>1, <2>2 DEF CycleWithRecord, submitTelemetry, Publish, push
  <2> QED
    BY <2>2, <2>3
<1>2. CASE DrainOne
  <2>1. ~empty /\ peek \in Record
    BY <1>2, AllSubmitted, PeekIsOldest DEF DrainOne
  <2>2. PICK r \in Record : r = peek
    BY <2>1
  <2>3. Publish(r, TRUE) /\ discardOldest /\ UNCHANGED <<submitted, evicted>>
    BY <1>2, <2>2 DEF DrainOne, Publish
  <2> QED
    BY <2>1, <2>2, <2>3
<1>3. CASE \/ CycleWithout \/ TickNetwork \/ TickReturns \/ TickConnects \/ Announce \/ TickLoops
           \/ DrainEnds \/ Environment \/ UNCHANGED vars
  BY <1>3 DEF CycleWithout, TickNetwork, TickReturns, TickConnects, Announce, TickLoops, DrainEnds,
     Environment, vars
<1> QED
  BY <1>1, <1>2, <1>3 DEF Next, NetworkTask

\* The invariant holds in every state, whatever the Wi-Fi and the broker do.
LEMMA Invariance == Spec => [](ControlTypeOK /\ RecordInv)
<1>1. Init => ControlTypeOK /\ RecordInv
  <2> SUFFICES ASSUME Init PROVE ControlTypeOK /\ RecordInv
    OBVIOUS
  <2>1. BInv /\ count = 0
    BY InitIInv DEF Init, BufferInit, IInv, BInv
  <2>2. ControlTypeOK
    <3>1. 0 \in 0 .. mqttDrainPerLoop
      BY MqttAssumption
    <3> QED
      BY <3>1, AgeTypes DEF Init, WifiInit, ControlTypeOK, WifiTypeOK
  <2>3. RecordTypeOK
    BY <2>1, RecordIs DEF Init, BInv, RecordTypeOK
  <2>4. Buffered = {} /\ Received = {}
    BY <2>1 DEF Init, Buffered, Received
  <2>5. Cardinality({}) = 0 /\ droppedCount = 0
    BY FS_EmptySet DEF Init, BufferInit
  <2>6. RecordsAccountedFor /\ NewestAreKept /\ SwallowedAreGone
    BY <2>1, <2>4, <2>5 DEF Init, RecordsAccountedFor, NewestAreKept, SwallowedAreGone
  <2> QED
    BY <2>1, <2>2, <2>3, <2>6 DEF RecordInv, BInv
<1>2. RecordInv /\ [Next]_vars => RecordInv'
  BY StepKinds, SubmitStep, DrainStep, QuietStep
<1> QED
  BY <1>1, <1>2, ControlTypes, PTL DEF Spec

\* Every variable of the service, the buffer, NetworkManager and the environment
\* keeps its type.
THEOREM TypeCorrect == Spec => []TypeOK
<1>1. ControlTypeOK /\ RecordInv => TypeOK
  BY DEF ControlTypeOK, RecordInv, RecordTypeOK, TypeOK
<1> QED
  BY <1>1, Invariance, PTL

\* The indices of the ring agree under the service.
THEOREM ServiceIndices == Spec => []IndicesAgree
<1>1. RecordInv => IndicesAgree
  BY DEF RecordInv
<1> QED
  BY <1>1, Invariance, PTL

\* No record is lost without being counted, and none is in two places: for any
\* number of records and of outages.
THEOREM AllAccountedFor == Spec => []RecordsAccountedFor
<1>1. RecordInv => RecordsAccountedFor
  BY DEF RecordInv
<1> QED
  BY <1>1, Invariance, PTL

\* What waits is in order and newer than all that was dropped.
THEOREM NewestKept == Spec => []NewestAreKept
<1>1. RecordInv => NewestAreKept
  BY DEF RecordInv
<1> QED
  BY <1>1, Invariance, PTL

\* The buffer as the service uses it is the drop-oldest queue.
THEOREM ServiceRefinement == Spec => ImplementsQueue
<1>1. Init => Queue!Init
  BY DEF Init, BufferInit, Queue!Init, Contents
<1>2. RecordInv /\ [Next]_vars => [Queue!Next]_<<Contents, droppedCount>>
  <2> SUFFICES ASSUME RecordInv, [Next]_vars
               PROVE  Queue!Next \/ UNCHANGED <<Contents, droppedCount>>
    OBVIOUS
  <2>1. IInv
    BY AllSubmitted, BufferFacts
  <2>2. ASSUME NEW r \in Record, push(r) PROVE Queue!Next
    BY <2>1, <2>2, PushRefines DEF Queue!Next
  <2>3. discardOldest => Queue!Next
    BY <2>1, DiscardRefines DEF Queue!Next
  <2>4. UNCHANGED bufferVars => UNCHANGED <<Contents, droppedCount>>
    BY DEF bufferVars, Contents
  <2>5. (\E r \in Record : push(r)) \/ discardOldest \/ UNCHANGED bufferVars
    BY StepKinds DEF submitTelemetry
  <2> QED
    BY <2>2, <2>3, <2>4, <2>5
<1> QED
  BY <1>1, <1>2, Invariance, PTL DEF Spec, ImplementsQueue, Queue!Spec
=============================================================================
