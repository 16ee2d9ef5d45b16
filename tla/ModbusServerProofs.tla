--------------------------- MODULE ModbusServerProofs ---------------------------
(***************************************************************************)
(* Proofs about ModbusServer, for any number of clients, any requests and  *)
(* any measurements: the types and the counters of diagnostics (IInv), the *)
(* answers (AnswersInv) and the values in them.                            *)
(***************************************************************************)
EXTENDS ModbusServer, SequenceTheorems, FiniteSetTheorems, TLAPS

\* What the counting needs: a client's answers are among all requests, and the
\* next one is not counted yet.
CountInv ==
  /\ \A c \in Clients : Len(answers[c]) <= requestCount
  /\ IsFiniteSet(Written)
  /\ FramesAreCounted

\* What a client in step has sent and got no answer to is what there is to read:
\* frame by frame, the next request first.
Pending(c) ==
  LET n == Len(answers[c])
  IN  /\ n <= Len(sent[c])
      /\ Len(stream[c]) = 6 * (Len(sent[c]) - n)
      /\ \A i \in n + 1 .. Len(sent[c]) :
           /\ stream[c][6 * (i - n - 1) + 1] = c + i
           /\ \A j \in 1 .. 5 : stream[c][6 * (i - n - 1) + 1 + j] = sent[c][i].words[j]

PendingInv == \A c \in Clients : Aligned(c) /\ connection[c] # "closed" => Pending(c)

IInv == TypeOK /\ CountInv
AnswersInv == TypeOK /\ PendingInv /\ AnswersMatch

-----------------------------------------------------------------------------
\* The constants, one by one.
Measurement ==
  [voltage : Int, current : Int, power : Int, energyWh : Nat,
   currentState : 0 .. Word - 1, activeFault : 0 .. Word - 1, freeHeapKiB : Nat,
   uptimeSeconds : 0 .. Word * Word - 1, cents : 0 .. Word * Word - 1]

LEMMA WordIs == Word \in Nat /\ Word > 1
<1>1. Word \in Nat \ {0, 1}
  BY ModbusAssumption
<1> QED
  BY <1>1

LEMMA ReadingsAre == Readings # <<>> /\ Readings \in Seq(Measurement)
  BY ModbusAssumption DEF Measurement

LEMMA LimitIs == modbusMaxRegisters \in 1 .. 16
  BY ModbusAssumption

LEMMA ClientsAre == \A c \in Clients : c \in Nat /\ c # 0
<1>1. Clients \subseteq Nat \ {0}
  BY ModbusAssumption
<1> QED
  BY <1>1

LEMMA RequestsAre ==
  \A c \in Clients :
    /\ MaxRequests[c] \in Nat /\ c + MaxRequests[c] \in UInt16
    /\ \A r \in Requests[c] : r.words \in Seq(UInt16)
<1>1. MaxRequests \in [Clients -> Nat]
  BY ModbusAssumption
<1>2. \A c \in Clients :
        /\ c + MaxRequests[c] \in UInt16
        /\ \A r \in Requests[c] : r.words \in Seq(UInt16)
  BY ModbusAssumption
<1> QED
  BY <1>1, <1>2

-----------------------------------------------------------------------------
\* The codec.
Registers == Seq(0 .. Word - 1)

LEMMA RegistersConcat ==
  ASSUME NEW s \in Registers, NEW t \in Registers
  PROVE  /\ s \o t \in Registers /\ Len(s \o t) = Len(s) + Len(t)
         /\ \A i \in 1 .. Len(s) + Len(t) :
              (s \o t)[i] = IF i <= Len(s) THEN s[i] ELSE t[i - Len(s)]
<1>1. s \in Seq(0 .. Word - 1) /\ t \in Seq(0 .. Word - 1)
  BY DEF Registers
<1>2. /\ s \o t \in Seq(0 .. Word - 1) /\ Len(s \o t) = Len(s) + Len(t)
      /\ \A i \in 1 .. Len(s) + Len(t) :
           (s \o t)[i] = IF i <= Len(s) THEN s[i] ELSE t[i - Len(s)]
  BY <1>1, ConcatProperties
<1> QED
  BY <1>2 DEF Registers

\* What fits in two registers comes out of them again, high word first.
LEMMA SplitIs ==
  ASSUME NEW v \in 0 .. Word * Word - 1
  PROVE  /\ splitUint32(v) \in Registers /\ Len(splitUint32(v)) = 2
         /\ splitUint32(v)[1] * Word + splitUint32(v)[2] = v
<1> DEFINE q == v \div Word m == v % Word
<1>1. Word \in Nat /\ Word > 1 /\ v \in Nat
  BY WordIs
<1>2. q \in Int /\ m \in 0 .. Word - 1 /\ v = q * Word + m
  BY <1>1
<1> HIDE DEF q, m
<1>3. q >= 0
  <2> SUFFICES ASSUME q <= -1 PROVE FALSE
    BY <1>2
  <2>1. q * Word <= -Word
    BY <1>1, <1>2
  <2> QED
    BY <1>1, <1>2, <2>1
<1>4. q <= Word - 1
  <2> SUFFICES ASSUME q >= Word PROVE FALSE
    BY <1>1, <1>2
  <2>1. q * Word >= Word * Word
    BY <1>1, <1>2
  <2>2. v < Word * Word
    BY <1>1
  <2> QED
    BY <1>1, <1>2, <2>1, <2>2
<1>5. q \in 0 .. Word - 1
  BY <1>1, <1>2, <1>3, <1>4
<1>6. splitUint32(v) = <<q, m>>
  BY DEF splitUint32, q, m
<1>7. <<q, m>> \in Registers
  BY <1>2, <1>5 DEF Registers
<1> QED
  BY <1>2, <1>6, <1>7

\* A register holds what fits.
LEMMA ScaledIs == \A v \in Int : scaled(v) \in 0 .. Word - 1
  BY WordIs DEF scaled

\* The energy fits in two registers; what is larger is cut.
LEMMA EnergyIs ==
  ASSUME NEW v \in Nat
  PROVE  /\ energyWh(v) \in 0 .. Word * Word - 1
         /\ energyWh(v) = IF v < Word * Word THEN v ELSE Word * Word - 1
<1> DEFINE square == Word * Word
<1>1. square \in Nat /\ square > 1
  BY WordIs
<1>2. energyWh(v) = IF v <= 0 THEN 0 ELSE IF v >= square - 1 THEN square - 1 ELSE v
  BY DEF energyWh
<1> HIDE DEF square
<1>3. /\ energyWh(v) \in 0 .. square - 1
      /\ energyWh(v) = IF v < square THEN v ELSE square - 1
  BY <1>1, <1>2
<1> QED
  BY <1>3 DEF square

\* A measurement fills sixteen registers: with the energy from the fourth on, the
\* uptime from the ninth and the cost from the eleventh.
LEMMA RegistersAre ==
  ASSUME NEW k \in DOMAIN Readings
  PROVE  LET r == registers(Readings[k])
         IN  /\ r \in Registers /\ Len(r) = 16
             /\ r[4] * Word + r[5] = energyWh(Readings[k].energyWh)
             /\ r[9] * Word + r[10] = Readings[k].uptimeSeconds
             /\ r[11] * Word + r[12] = Readings[k].cents
<1> DEFINE m == Readings[k]
           A == <<scaled(m.voltage), scaled(m.current), scaled(m.power)>>
           B == splitUint32(energyWh(m.energyWh))
           C == <<m.currentState, m.activeFault, m.freeHeapKiB % Word>>
           D == splitUint32(m.uptimeSeconds)
           E == splitUint32(m.cents)
           F == <<0, 0, 0, 0>>
<1>1. m \in Measurement
  BY ReadingsAre
<1>2. registers(m) = A \o B \o C \o D \o E \o F
  BY DEF registers
<1> HIDE DEF m
<1>3. A \in Registers /\ Len(A) = 3
  BY <1>1, ScaledIs DEF Registers, Measurement
<1>4. /\ B \in Registers /\ Len(B) = 2
      /\ B[1] * Word + B[2] = energyWh(m.energyWh)
  BY <1>1, EnergyIs, SplitIs DEF Measurement
<1>5. C \in Registers /\ Len(C) = 3
  <2>1. m.freeHeapKiB % Word \in 0 .. Word - 1
    BY <1>1, WordIs DEF Measurement
  <2> QED
    BY <1>1, <2>1 DEF Registers, Measurement
<1>6. /\ D \in Registers /\ Len(D) = 2
      /\ D[1] * Word + D[2] = m.uptimeSeconds
  BY <1>1, SplitIs DEF Measurement
<1>7. /\ E \in Registers /\ Len(E) = 2
      /\ E[1] * Word + E[2] = m.cents
  BY <1>1, SplitIs DEF Measurement
<1>8. F \in Registers /\ Len(F) = 4
  BY WordIs DEF Registers
<1> HIDE DEF A, B, C, D, E, F
<1> DEFINE AB == A \o B AC == AB \o C AD == AC \o D AE == AD \o E AF == AE \o F
<1>9. AB \in Registers /\ Len(AB) = 5 /\ AB[4] = B[1] /\ AB[5] = B[2]
  <2>1. /\ AB \in Registers /\ Len(AB) = Len(A) + Len(B)
        /\ \A i \in 1 .. Len(A) + Len(B) :
             AB[i] = IF i <= Len(A) THEN A[i] ELSE B[i - Len(A)]
    BY <1>3, <1>4, RegistersConcat
  <2> HIDE DEF AB
  <2> QED
    BY <1>3, <1>4, <2>1
<1> HIDE DEF AB
<1>10. AC \in Registers /\ Len(AC) = 8 /\ AC[4] = B[1] /\ AC[5] = B[2]
  <2>1. /\ AC \in Registers /\ Len(AC) = Len(AB) + Len(C)
        /\ \A i \in 1 .. Len(AB) + Len(C) :
             AC[i] = IF i <= Len(AB) THEN AB[i] ELSE C[i - Len(AB)]
    BY <1>5, <1>9, RegistersConcat
  <2> HIDE DEF AC
  <2> QED
    BY <1>5, <1>9, <2>1
<1> HIDE DEF AC
<1>11. /\ AD \in Registers /\ Len(AD) = 10 /\ AD[4] = B[1] /\ AD[5] = B[2]
       /\ AD[9] = D[1] /\ AD[10] = D[2]
  <2>1. /\ AD \in Registers /\ Len(AD) = Len(AC) + Len(D)
        /\ \A i \in 1 .. Len(AC) + Len(D) :
             AD[i] = IF i <= Len(AC) THEN AC[i] ELSE D[i - Len(AC)]
    BY <1>6, <1>10, RegistersConcat
  <2> HIDE DEF AD
  <2> QED
    BY <1>6, <1>10, <2>1
<1> HIDE DEF AD
<1>12. /\ AE \in Registers /\ Len(AE) = 12 /\ AE[4] = B[1] /\ AE[5] = B[2]
       /\ AE[9] = D[1] /\ AE[10] = D[2] /\ AE[11] = E[1] /\ AE[12] = E[2]
  <2>1. /\ AE \in Registers /\ Len(AE) = Len(AD) + Len(E)
        /\ \A i \in 1 .. Len(AD) + Len(E) :
             AE[i] = IF i <= Len(AD) THEN AD[i] ELSE E[i - Len(AD)]
    BY <1>7, <1>11, RegistersConcat
  <2> HIDE DEF AE
  <2> QED
    BY <1>7, <1>11, <2>1
<1> HIDE DEF AE
<1>13. /\ AF \in Registers /\ Len(AF) = 16 /\ AF[4] = B[1] /\ AF[5] = B[2]
       /\ AF[9] = D[1] /\ AF[10] = D[2] /\ AF[11] = E[1] /\ AF[12] = E[2]
  <2>1. /\ AF \in Registers /\ Len(AF) = Len(AE) + Len(F)
        /\ \A i \in 1 .. Len(AE) + Len(F) :
             AF[i] = IF i <= Len(AE) THEN AE[i] ELSE F[i - Len(AE)]
    BY <1>8, <1>12, RegistersConcat
  <2> HIDE DEF AF
  <2> QED
    BY <1>8, <1>12, <2>1
<1> HIDE DEF AF
<1>14. registers(m) = AF
  BY <1>2 DEF AF, AE, AD, AC, AB
<1> QED
  BY <1>4, <1>6, <1>7, <1>13, <1>14 DEF m

-----------------------------------------------------------------------------
LEMMA WordsAreNaturals ==
  UInt16 \subseteq Nat /\ 0 \in UInt16 /\ \A w \in UInt16, n \in Nat : n <= w => n \in UInt16
<1>1. 256 * 256 - 1 \in Nat
  OBVIOUS
<1> DEFINE top == 256 * 256 - 1
<1> HIDE DEF top
<1>2. top \in Nat =>
        0 .. top \subseteq Nat /\ 0 \in 0 .. top /\ \A w \in 0 .. top, n \in Nat : n <= w => n \in 0 .. top
  OBVIOUS
<1> QED
  BY <1>1, <1>2, Zenon DEF UInt16, top

\* A word is made of two bytes.
LEMMA BytesAre ==
  ASSUME NEW w \in UInt16
  PROVE  w \div 256 \in 0 .. 255 /\ w % 256 \in 0 .. 255
<1> DEFINE top == 256 * 256 - 1
<1>0. top \in Nat /\ w \in 0 .. top
  <2>1. top \in Nat
    OBVIOUS
  <2> QED
    BY <2>1, Zenon DEF UInt16
<1> HIDE DEF top
<1>1. w \in Int /\ w >= 0 /\ w <= top
  BY <1>0
<1>2. w \div 256 \in Int /\ w \div 256 >= 0 /\ w \div 256 <= 255
  BY <1>1 DEF top
<1>3. w % 256 \in Int /\ w % 256 >= 0 /\ w % 256 <= 255
  BY <1>1 DEF top
<1> QED
  BY <1>2, <1>3

Request ==
  [transactionId : UInt16, unitId : 0 .. 255, function : 0 .. 255, startAddress : UInt16,
   quantity : UInt16]

\* What parseReadRequest makes of any twelve bytes: a request whose fields have
\* their widths, and that lies within the registers if there is no error.
LEMMA ParsedIs ==
  ASSUME NEW frame, \A i \in 1 .. 6 : frame[i] \in UInt16
  PROVE  LET parsed == parseReadRequest(frame)
         IN  /\ parsed.request \in Request
             /\ parsed.error = "NONE" =>
                  /\ parsed.request.quantity \in 1 .. 16
                  /\ parsed.request.startAddress + parsed.request.quantity <= 16
<1>1. /\ frame[1] \in UInt16 /\ frame[4] \in UInt16 /\ frame[5] \in UInt16
      /\ frame[6] \in UInt16 /\ UInt16 \subseteq Nat /\ 0 \in UInt16
  BY WordsAreNaturals
<1>2. CASE Malformed(frame)
  <2>1. NoRequest \in Request
    BY <1>1 DEF NoRequest, Request
  <2>2. parseReadRequest(frame) = [request |-> NoRequest, error |-> "MALFORMED_FRAME"]
    BY <1>2 DEF parseReadRequest
  <2> QED
    BY <2>1, <2>2
<1>3. CASE ~Malformed(frame)
  <2> DEFINE request == Fields(frame)
  <2>1. request \in Request
    <3>1. frame[4] \div 256 \in 0 .. 255 /\ frame[4] % 256 \in 0 .. 255
      BY <1>1, BytesAre
    <3> QED
      BY <1>1, <3>1 DEF Fields, Request
  <2>2. parseReadRequest(frame) = [request |-> request, error |-> Illegal(request)]
    BY <1>3 DEF parseReadRequest
  <2> HIDE DEF request
  <2>3. Illegal(request) = "NONE" =>
          /\ request.quantity \in 1 .. 16
          /\ request.startAddress + request.quantity <= 16
    <3>1. modbusMaxRegisters \in 1 .. 16 /\ request.quantity \in Nat /\ request.startAddress \in Nat
      BY <1>1, <2>1, LimitIs DEF Request
    <3> QED
      BY <3>1 DEF Illegal
  <2> QED
    BY <2>1, <2>2, <2>3
<1> QED
  BY <1>2, <1>3

\* The answer to the frame that arrived first.
FirstFrame(c) == SubSeq(stream[c], 1, 6)

Result(c) == parseReadRequest(FirstFrame(c))

Wanted(c) ==
  SubSeq(registers(Readings[reading]), Result(c).request.startAddress + 1,
         Result(c).request.startAddress + Result(c).request.quantity)

ResponseTo(c) ==
  IF Result(c).error # "NONE" THEN buildExceptionResponse(Result(c).request, Result(c).error)
  ELSE buildReadResponse(Result(c).request, Wanted(c))

LEMMA ServeIs ==
  ASSUME NEW c
  PROVE  Serve(c) =
           (/\ stream' = [stream EXCEPT ![c] = SubSeq(@, 7, Len(@))]
            /\ arrived' = [arrived EXCEPT ![c] = @ - 6]
            /\ answers' = [answers EXCEPT ![c] = @ \o ResponseTo(c)]
            /\ requestCount' = requestCount + 1
            /\ errorCount' = IF Result(c).error # "NONE" \/ ResponseTo(c) = <<>>
                             THEN errorCount + 1 ELSE errorCount)
  BY DEF Serve, ResponseTo, Wanted, Result, FirstFrame

\* What is read of the stream, and what stays.
LEMMA StreamIs ==
  ASSUME TypeOK, NEW c \in Clients, FrameArrived(c)
  PROVE  LET rest == SubSeq(stream[c], 7, Len(stream[c]))
         IN  /\ Len(stream[c]) >= 6
             /\ Len(FirstFrame(c)) = 6
             /\ \A i \in 1 .. 6 : FirstFrame(c)[i] = stream[c][i] /\ FirstFrame(c)[i] \in UInt16
             /\ rest \in Seq(UInt16) /\ Len(rest) = Len(stream[c]) - 6
             /\ \A i \in 1 .. Len(rest) : rest[i] = stream[c][i + 6]
<1> DEFINE s == stream[c]
<1>1. s \in Seq(UInt16) /\ Len(s) \in Nat /\ arrived[c] \in 0 .. Len(s)
  BY DEF TypeOK
<1>2. arrived[c] >= 6
  BY DEF FrameArrived
<1>3. Len(s) >= 6
  BY <1>1, <1>2
<1>4. \A i \in 1 .. Len(s) : s[i] \in UInt16
  BY <1>1, ElementOfSeq
<1> HIDE DEF s
<1>5. \A i \in 1 .. 6 : s[i] \in UInt16
  BY <1>1, <1>3, <1>4
<1>6. \A i \in 7 .. Len(s) : s[i] \in UInt16
  BY <1>1, <1>4
<1>7. /\ Len(SubSeq(s, 1, 6)) = 6
      /\ \A i \in 1 .. 6 : SubSeq(s, 1, 6)[i] = s[i]
  BY <1>5, SubSeqProperties
<1> DEFINE rest == SubSeq(s, 7, Len(s))
<1> HIDE DEF rest
<1>8. /\ rest \in Seq(UInt16)
      /\ Len(rest) = IF 7 <= Len(s) THEN Len(s) - 7 + 1 ELSE 0
      /\ \A i \in 1 .. Len(s) - 7 + 1 : rest[i] = s[7 + i - 1]
  BY <1>1, <1>6, SubSeqProperties DEF rest
<1>9. rest \in Seq(UInt16) /\ Len(rest) = Len(s) - 6
  <2> DEFINE n == Len(s)
  <2>1. n \in Nat /\ n >= 6
    BY <1>1, <1>3
  <2>2. Len(rest) = IF 7 <= n THEN n - 7 + 1 ELSE 0
    BY <1>8
  <2> HIDE DEF n
  <2>3. (IF 7 <= n THEN n - 7 + 1 ELSE 0) = n - 6
    BY <2>1
  <2> QED
    BY <1>8, <2>2, <2>3 DEF n
<1>10. \A i \in 1 .. Len(rest) : rest[i] = s[i + 6]
  <2> TAKE i \in 1 .. Len(rest)
  <2>1. i \in 1 .. Len(s) - 7 + 1 /\ 7 + i - 1 = i + 6
    BY <1>1, <1>9
  <2> QED
    BY <1>8, <2>1
<1> QED
  BY <1>3, <1>5, <1>7, <1>9, <1>10 DEF s, rest, FirstFrame

\* Every frame gets exactly one answer, an exception just when there is an error;
\* an answer with all registers holds the measurement of this moment.
LEMMA ResponseIs ==
  ASSUME TypeOK, NEW c \in Clients, FrameArrived(c)
  PROVE  \E a \in Response :
           /\ ResponseTo(c) = <<a>>
           /\ a.exception # 0 <=> Result(c).error # "NONE"
           /\ Len(a.values) = 16 => Decodes(a, reading)
           /\ a.transactionId = Result(c).request.transactionId
           /\ a.function = IF a.exception = 0 THEN Result(c).request.function
                           ELSE WithTopBit(Result(c).request.function)
           /\ a.exception = IF Result(c).error = "NONE" THEN 0 ELSE exceptionCode(Result(c).error)
           /\ Len(a.values) = IF Result(c).error = "NONE" THEN Result(c).request.quantity ELSE 0
<1> DEFINE q == Result(c).request
           e == Result(c).error
<1> SUFFICES
      \E a \in Response :
        /\ ResponseTo(c) = <<a>>
        /\ a.exception # 0 <=> e # "NONE"
        /\ Len(a.values) = 16 => Decodes(a, reading)
        /\ a.transactionId = q.transactionId
        /\ a.function = IF a.exception = 0 THEN q.function ELSE WithTopBit(q.function)
        /\ a.exception = IF e = "NONE" THEN 0 ELSE exceptionCode(e)
        /\ Len(a.values) = IF e = "NONE" THEN q.quantity ELSE 0
  OBVIOUS
<1>1. /\ q \in Request
      /\ e = "NONE" => q.quantity \in 1 .. 16 /\ q.startAddress + q.quantity <= 16
  BY StreamIs, ParsedIs DEF Result
<1> HIDE DEF q, e
<1>2. CASE e # "NONE"
  <2> DEFINE a == [transactionId |-> q.transactionId, unitId |-> q.unitId,
                   function |-> WithTopBit(q.function), exception |-> exceptionCode(e),
                   values |-> <<>>]
  <2>1. exceptionCode(e) \in 1 .. 3
    BY DEF exceptionCode
  <2>2. WithTopBit(q.function) \in 0 .. 255
    BY <1>1 DEF WithTopBit, Request
  <2>3. <<>> \in Seq(0 .. Word - 1) /\ Len(<<>>) = 0
    BY EmptySeq
  <2>4. a \in Response
    BY <1>1, <2>1, <2>2, <2>3 DEF Response, Request
  <2>5. ResponseTo(c) = <<a>>
    BY <1>2 DEF ResponseTo, buildExceptionResponse, q, e
  <2> HIDE DEF a
  <2>6. /\ a.transactionId = q.transactionId /\ a.function = WithTopBit(q.function)
        /\ a.exception = exceptionCode(e) /\ a.values = <<>>
    BY DEF a
  <2>7. a.exception # 0 /\ Len(a.values) = 0
    BY <2>1, <2>3, <2>6
  <2> QED
    <3>1. /\ a.exception # 0 <=> e # "NONE"
          /\ Len(a.values) = 16 => Decodes(a, reading)
          /\ a.transactionId = q.transactionId
          /\ a.function = IF a.exception = 0 THEN q.function ELSE WithTopBit(q.function)
          /\ a.exception = IF e = "NONE" THEN 0 ELSE exceptionCode(e)
          /\ Len(a.values) = IF e = "NONE" THEN q.quantity ELSE 0
      BY <1>2, <2>6, <2>7
    <3> QED
      BY <2>4, <2>5, <3>1
<1>3. CASE e = "NONE"
  <2> DEFINE r == registers(Readings[reading])
             from == q.startAddress + 1
             to == q.startAddress + q.quantity
             v == SubSeq(r, from, to)
             a == [transactionId |-> q.transactionId, unitId |-> q.unitId,
                   function |-> q.function, exception |-> 0, values |-> v]
  <2>1. reading \in DOMAIN Readings
    BY DEF TypeOK
  <2>2. r \in Registers /\ Len(r) = 16
    BY <2>1, RegistersAre
  <2>3. /\ q.startAddress \in Nat /\ q.quantity \in 1 .. 16
        /\ from \in 1 .. 16 /\ to \in 1 .. 16 /\ to - from + 1 = q.quantity
    <3>1. q.startAddress \in Nat
      BY <1>1, WordsAreNaturals DEF Request
    <3>2. q.quantity \in 1 .. 16 /\ q.startAddress + q.quantity <= 16
      BY <1>1, <1>3
    <3> QED
      BY <3>1, <3>2
  <2>4. \A i \in 1 .. 16 : r[i] \in 0 .. Word - 1
    BY <2>2, ElementOfSeq DEF Registers
  <2> HIDE DEF r, from, to, v
  <2>5. \A i \in from .. to : r[i] \in 0 .. Word - 1
    BY <2>3, <2>4
  <2>6. /\ v \in Seq(0 .. Word - 1)
        /\ Len(v) = IF from <= to THEN to - from + 1 ELSE 0
        /\ \A i \in 1 .. to - from + 1 : v[i] = r[from + i - 1]
    BY <2>3, <2>5, SubSeqProperties DEF v
  <2>7. Len(v) = q.quantity
    <3>1. from <= to /\ to - from + 1 = q.quantity
      BY <2>3
    <3>2. Len(v) = IF from <= to THEN to - from + 1 ELSE 0
      BY <2>6
    <3> QED
      BY <3>1, <3>2
  <2>8. v # <<>> /\ 9 + 2 * Len(v) <= 64
    <3>1. Len(<<>>) = 0
      BY EmptySeq
    <3>2. Len(v) \in 1 .. 16
      BY <2>3, <2>7
    <3>3. v # <<>>
      <4> SUFFICES ASSUME v = <<>> PROVE FALSE
        OBVIOUS
      <4>1. Len(v) = 0
        BY <3>1
      <4> QED
        BY <3>2, <4>1
    <3>4. \A n \in 1 .. 16 : 9 + 2 * n <= 64
      OBVIOUS
    <3> QED
      BY <3>2, <3>3, <3>4
  <2>9. ResponseTo(c) = <<a>>
    <3>1. ResponseTo(c) = buildReadResponse(q, v)
      BY <1>3 DEF ResponseTo, Wanted, q, e, r, from, to, v
    <3> QED
      BY <2>3, <2>7, <2>8, <3>1 DEF buildReadResponse
  <2>10. a \in Response
    BY <1>1, <2>6 DEF Response, Request
  <2>11. Len(v) = 16 => Decodes(a, reading)
    <3> SUFFICES ASSUME Len(v) = 16 PROVE Decodes(a, reading)
      OBVIOUS
    <3>1. from = 1 /\ to = 16
      <4>1. q.quantity = 16 /\ q.startAddress + 16 <= 16 /\ q.startAddress \in Nat
        BY <1>1, <1>3, <2>3, <2>7
      <4>2. q.startAddress = 0
        BY <4>1
      <4> QED
        BY <4>1, <4>2 DEF from, to
    <3>2. \A i \in 1 .. 16 : v[i] = r[i]
      <4> TAKE i \in 1 .. 16
      <4>1. i \in 1 .. to - from + 1 /\ from + i - 1 = i
        BY <3>1
      <4> QED
        BY <2>6, <4>1
    <3>3. /\ v[4] = r[4] /\ v[5] = r[5] /\ v[9] = r[9] /\ v[10] = r[10]
          /\ v[11] = r[11] /\ v[12] = r[12]
      BY <3>2
    <3>4. /\ r[4] * Word + r[5] = energyWh(Readings[reading].energyWh)
          /\ r[9] * Word + r[10] = Readings[reading].uptimeSeconds
          /\ r[11] * Word + r[12] = Readings[reading].cents
      BY <2>1, RegistersAre DEF r
    <3>5. Readings[reading].energyWh \in Nat
      <4>1. Readings[reading] \in Measurement
        BY <2>1, ReadingsAre
      <4> QED
        BY <4>1 DEF Measurement
    <3>6. energyWh(Readings[reading].energyWh) =
            IF Readings[reading].energyWh < Word * Word THEN Readings[reading].energyWh
            ELSE Word * Word - 1
      BY <3>5, EnergyIs
    <3>7. a.values = v
      OBVIOUS
    <3>8. 4 + 1 = 5 /\ 9 + 1 = 10 /\ 11 + 1 = 12
      OBVIOUS
    <3> HIDE DEF a
    <3> QED
      BY <3>3, <3>4, <3>6, <3>7, <3>8 DEF Decodes
  <2>12. /\ a.transactionId = q.transactionId /\ a.function = q.function
         /\ a.exception = 0 /\ a.values = v
    OBVIOUS
  <2> HIDE DEF a
  <2> QED
    BY <1>3, <2>7, <2>9, <2>10, <2>11, <2>12
<1> QED
  BY <1>2, <1>3

-----------------------------------------------------------------------------
\* Serving a client adds a to its answers, counts it, and takes six words; the
\* other clients notice nothing.
ServedWith(c, a) ==
  /\ answers' \in [Clients -> Seq(Response)]
  /\ Len(answers'[c]) = Len(answers[c]) + 1
  /\ \A i \in 1 .. Len(answers[c]) : answers'[c][i] = answers[c][i]
  /\ answers'[c][Len(answers[c]) + 1] = a
  /\ \A d \in Clients \ {c} :
       answers'[d] = answers[d] /\ stream'[d] = stream[d] /\ arrived'[d] = arrived[d]
  /\ stream' \in [Clients -> Seq(UInt16)]
  /\ Len(stream'[c]) = Len(stream[c]) - 6
  /\ \A i \in 1 .. Len(stream[c]) - 6 : stream'[c][i] = stream[c][i + 6]
  /\ DOMAIN arrived' = Clients /\ arrived'[c] = arrived[c] - 6
  /\ requestCount' = requestCount + 1
  /\ errorCount' = IF a.exception # 0 THEN errorCount + 1 ELSE errorCount

LEMMA ServeGives ==
  ASSUME TypeOK, NEW c \in Clients, FrameArrived(c), Serve(c), NEW a \in Response,
         ResponseTo(c) = <<a>>, a.exception # 0 <=> Result(c).error # "NONE"
  PROVE  ServedWith(c, a)
<1>1. /\ stream' = [stream EXCEPT ![c] = SubSeq(@, 7, Len(@))]
      /\ arrived' = [arrived EXCEPT ![c] = @ - 6]
      /\ answers' = [answers EXCEPT ![c] = @ \o ResponseTo(c)]
      /\ requestCount' = requestCount + 1
      /\ errorCount' = IF Result(c).error # "NONE" \/ ResponseTo(c) = <<>>
                       THEN errorCount + 1 ELSE errorCount
  BY ServeIs
<1>2. /\ stream \in [Clients -> Seq(UInt16)] /\ DOMAIN arrived = Clients
      /\ answers \in [Clients -> Seq(Response)]
  BY DEF TypeOK
<1>3. /\ Append(answers[c], a) \in Seq(Response)
      /\ Len(Append(answers[c], a)) = Len(answers[c]) + 1
      /\ \A i \in 1 .. Len(answers[c]) : Append(answers[c], a)[i] = answers[c][i]
      /\ Append(answers[c], a)[Len(answers[c]) + 1] = a
  BY <1>2, AppendProperties
<1>4. answers[c] \o <<a>> = Append(answers[c], a)
  BY <1>2, AppendIsConcat
<1> DEFINE more == Append(answers[c], a)
           rest == SubSeq(stream[c], 7, Len(stream[c]))
<1>5. answers' = [answers EXCEPT ![c] = more] /\ stream' = [stream EXCEPT ![c] = rest]
  BY <1>1, <1>4
<1>6. /\ rest \in Seq(UInt16) /\ Len(rest) = Len(stream[c]) - 6
      /\ \A i \in 1 .. Len(rest) : rest[i] = stream[c][i + 6]
  BY StreamIs
<1>7. <<a>> # <<>>
  BY <1>3
<1>8. errorCount' = IF a.exception # 0 THEN errorCount + 1 ELSE errorCount
  BY <1>1, <1>7
<1> HIDE DEF more, rest
<1>9. /\ answers' \in [Clients -> Seq(Response)] /\ answers'[c] = more
      /\ \A d \in Clients \ {c} : answers'[d] = answers[d]
  BY <1>2, <1>3, <1>5 DEF more
<1>10. /\ stream' \in [Clients -> Seq(UInt16)] /\ stream'[c] = rest
       /\ \A d \in Clients \ {c} : stream'[d] = stream[d]
  BY <1>2, <1>5, <1>6
<1>11. /\ DOMAIN arrived' = Clients /\ arrived'[c] = arrived[c] - 6
       /\ \A d \in Clients \ {c} : arrived'[d] = arrived[d]
  BY <1>1, <1>2
<1>12. /\ Len(answers'[c]) = Len(answers[c]) + 1
       /\ \A i \in 1 .. Len(answers[c]) : answers'[c][i] = answers[c][i]
       /\ answers'[c][Len(answers[c]) + 1] = a
  BY <1>3, <1>9 DEF more
<1>13. /\ Len(stream'[c]) = Len(stream[c]) - 6
       /\ \A i \in 1 .. Len(stream[c]) - 6 : stream'[c][i] = stream[c][i + 6]
  BY <1>6, <1>10
<1> QED
  BY <1>1, <1>8, <1>9, <1>10, <1>11, <1>12, <1>13 DEF ServedWith

\* A request is appended to what a client has sent, its number and words to the stream.
SentWith(c, r) ==
  /\ DOMAIN sent' = Clients
  /\ sent'[c] \in Seq(Requests[c]) /\ Len(sent'[c]) = Len(sent[c]) + 1
  /\ \A i \in 1 .. Len(sent[c]) : sent'[c][i] = sent[c][i]
  /\ sent'[c][Len(sent[c]) + 1] = r
  /\ \A d \in Clients \ {c} : sent'[d] = sent[d] /\ stream'[d] = stream[d]
  /\ stream' \in [Clients -> Seq(UInt16)]
  /\ Len(stream'[c]) = Len(stream[c]) + 1 + Len(r.words)
  /\ \A i \in 1 .. Len(stream[c]) : stream'[c][i] = stream[c][i]
  /\ stream'[c][Len(stream[c]) + 1] = c + Len(sent[c]) + 1
  /\ \A j \in 1 .. Len(r.words) : stream'[c][Len(stream[c]) + 1 + j] = r.words[j]

LEMMA SendGives ==
  ASSUME TypeOK, NEW c \in Clients, Len(sent[c]) < MaxRequests[c], NEW r \in Requests[c],
         sent' = [sent EXCEPT ![c] = Append(@, r)],
         stream' = [stream EXCEPT ![c] = @ \o <<c + Len(sent[c]) + 1>> \o r.words]
  PROVE  SentWith(c, r)
<1>1. /\ DOMAIN sent = Clients /\ sent[c] \in Seq(Requests[c])
      /\ stream \in [Clients -> Seq(UInt16)]
  BY DEF TypeOK
<1> DEFINE id == c + Len(sent[c]) + 1
           more == Append(sent[c], r)
           s == stream[c]
           w == r.words
           t == s \o <<id>>
           u == t \o w
<1>2. id \in UInt16
  <2>1. /\ c \in Nat /\ MaxRequests[c] \in Nat /\ c + MaxRequests[c] \in UInt16
        /\ Len(sent[c]) \in Nat
    BY <1>1, ClientsAre, RequestsAre
  <2>2. id \in Nat /\ id <= c + MaxRequests[c]
    BY <2>1
  <2> QED
    BY <2>1, <2>2, WordsAreNaturals
<1>3. w \in Seq(UInt16) /\ Len(w) \in Nat
  BY RequestsAre, LenProperties
<1>4. s \in Seq(UInt16) /\ Len(s) \in Nat
  BY <1>1, LenProperties
<1>5. sent' = [sent EXCEPT ![c] = more] /\ stream' = [stream EXCEPT ![c] = u]
  OBVIOUS
<1>6. /\ more \in Seq(Requests[c]) /\ Len(more) = Len(sent[c]) + 1
      /\ \A i \in 1 .. Len(sent[c]) : more[i] = sent[c][i]
      /\ more[Len(sent[c]) + 1] = r
  BY <1>1, AppendProperties
<1> HIDE DEF id, more, s, w, t, u
<1>7. Append(s, id) = t
  BY <1>2, <1>4, AppendIsConcat DEF t
<1>8. /\ t \in Seq(UInt16) /\ Len(t) = Len(s) + 1
      /\ \A i \in 1 .. Len(s) : t[i] = s[i]
      /\ t[Len(s) + 1] = id
  <2>1. /\ Append(s, id) \in Seq(UInt16) /\ Len(Append(s, id)) = Len(s) + 1
        /\ \A i \in 1 .. Len(s) : Append(s, id)[i] = s[i]
        /\ Append(s, id)[Len(s) + 1] = id
    BY <1>2, <1>4, AppendProperties
  <2> QED
    BY <1>7, <2>1
<1>9. /\ u \in Seq(UInt16) /\ Len(u) = Len(t) + Len(w)
      /\ \A i \in 1 .. Len(t) + Len(w) : u[i] = IF i <= Len(t) THEN t[i] ELSE w[i - Len(t)]
  BY <1>3, <1>8, ConcatProperties DEF u
<1> DEFINE m == Len(s) n == Len(w)
<1>10. /\ m \in Nat /\ n \in Nat /\ Len(t) = m + 1 /\ Len(u) = m + 1 + n
  BY <1>3, <1>4, <1>8, <1>9
<1>11. \A i \in 1 .. m : u[i] = s[i]
  BY <1>8, <1>9, <1>10
<1>12. u[m + 1] = id
  BY <1>8, <1>9, <1>10
<1>13. \A j \in 1 .. n : u[m + 1 + j] = w[j]
  <2> TAKE j \in 1 .. n
  <2>1. m + 1 + j \in 1 .. Len(t) + Len(w) /\ ~(m + 1 + j <= Len(t)) /\ m + 1 + j - Len(t) = j
    BY <1>10
  <2> QED
    BY <1>9, <2>1
<1>14. DOMAIN sent' = Clients /\ sent'[c] = more /\ \A d \in Clients \ {c} : sent'[d] = sent[d]
  BY <1>1, <1>5
<1>15. /\ stream' \in [Clients -> Seq(UInt16)] /\ stream'[c] = u
       /\ \A d \in Clients \ {c} : stream'[d] = stream[d]
  BY <1>1, <1>5, <1>9
<1>16. /\ sent'[c] \in Seq(Requests[c]) /\ Len(sent'[c]) = Len(sent[c]) + 1
       /\ \A i \in 1 .. Len(sent[c]) : sent'[c][i] = sent[c][i]
       /\ sent'[c][Len(sent[c]) + 1] = r
  BY <1>6, <1>14
<1>17. /\ Len(stream'[c]) = m + 1 + n
       /\ \A i \in 1 .. m : stream'[c][i] = s[i]
       /\ stream'[c][m + 1] = id
       /\ \A j \in 1 .. n : stream'[c][m + 1 + j] = w[j]
  BY <1>10, <1>11, <1>12, <1>13, <1>15
<1> QED
  BY <1>14, <1>15, <1>16, <1>17, Zenon DEF SentWith, id, s, w

-----------------------------------------------------------------------------
\* What a cycle of NetworkTask does about the frames: it serves one that has
\* arrived from an open connection, or none.
LEMMA TickServes ==
  ASSUME TypeOK, tick
  PROVE  \/ \E c \in Clients, a \in Response :
              /\ connection[c] = "open" /\ FrameArrived(c) /\ Serve(c) /\ ServedWith(c, a)
              /\ ResponseTo(c) = <<a>>
              /\ Len(a.values) = 16 => Decodes(a, reading)
         \/ UNCHANGED <<requestCount, errorCount, answers, stream, arrived>>
<1>1. CASE ~(Connected(Served) /\ FrameArrived(Served))
  BY <1>1 DEF tick, streamVars
<1>2. CASE Connected(Served) /\ FrameArrived(Served)
  <2> DEFINE c == Served
  <2>1. Serve(c) /\ connection[c] = "open" /\ FrameArrived(c) /\ c # NoClient
    BY <1>2 DEF tick, Connected
  <2>2. c \in Clients
    <3>1. client \in Clients \cup {NoClient} /\ backlog \in Seq(Clients)
      BY DEF TypeOK
    <3>2. backlog # <<>> => Head(backlog) \in Clients
      BY <3>1, HeadTailProperties
    <3> QED
      BY <2>1, <3>1, <3>2 DEF Served, Accepts
  <2> HIDE DEF c
  <2>3. PICK a \in Response :
          /\ ResponseTo(c) = <<a>>
          /\ a.exception # 0 <=> Result(c).error # "NONE"
          /\ Len(a.values) = 16 => Decodes(a, reading)
    BY <2>1, <2>2, ResponseIs
  <2>4. ServedWith(c, a)
    BY <2>1, <2>2, <2>3, ServeGives
  <2> QED
    BY <2>1, <2>2, <2>3, <2>4
<1> QED
  BY <1>1, <1>2

\* The server's own part of the types.
LEMMA ServerTypes ==
  ASSUME TypeOK, tick
  PROVE  /\ client' \in Clients \cup {NoClient} /\ backlog' \in Seq(Clients)
         /\ reading' = reading /\ connection' = connection /\ sent' = sent
<1>1. client \in Clients \cup {NoClient} /\ backlog \in Seq(Clients)
  BY DEF TypeOK
<1>2. backlog # <<>> => Head(backlog) \in Clients /\ Tail(backlog) \in Seq(Clients)
  BY <1>1, HeadTailProperties
<1> QED
  BY <1>1, <1>2 DEF tick, Served, Accepts, netVars

\* Serving keeps the counters and streams in their types.
LEMMA ServedTypes ==
  ASSUME TypeOK, NEW c \in Clients, NEW a, FrameArrived(c), ServedWith(c, a)
  PROVE  /\ requestCount' \in Nat /\ errorCount' \in 0 .. requestCount'
         /\ stream' \in [Clients -> Seq(UInt16)] /\ answers' \in [Clients -> Seq(Response)]
         /\ DOMAIN arrived' = Clients /\ \A d \in Clients : arrived'[d] \in 0 .. Len(stream'[d])
<1>1. /\ requestCount \in Nat /\ errorCount \in 0 .. requestCount
      /\ \A d \in Clients : arrived[d] \in 0 .. Len(stream[d]) /\ stream[d] \in Seq(UInt16)
  BY DEF TypeOK
<1>2. requestCount' \in Nat /\ errorCount' \in 0 .. requestCount'
  BY <1>1 DEF ServedWith
<1>3. arrived'[c] \in 0 .. Len(stream'[c])
  <2>1. Len(stream[c]) \in Nat /\ arrived[c] \in 0 .. Len(stream[c]) /\ arrived[c] >= 6
    BY <1>1 DEF FrameArrived
  <2>2. arrived'[c] = arrived[c] - 6 /\ Len(stream'[c]) = Len(stream[c]) - 6
    BY DEF ServedWith
  <2> QED
    BY <2>1, <2>2
<1>4. \A d \in Clients \ {c} : arrived'[d] \in 0 .. Len(stream'[d])
  BY <1>1 DEF ServedWith
<1> QED
  BY <1>2, <1>3, <1>4 DEF ServedWith

LEMMA TypesInit == Init => TypeOK
<1> SUFFICES ASSUME Init PROVE TypeOK
  OBVIOUS
<1>1. \A S : <<>> \in Seq(S) /\ Len(<<>>) = 0
  BY EmptySeq
<1>2. reading \in DOMAIN Readings
  <2>1. Len(Readings) \in Nat \ {0} /\ DOMAIN Readings = 1 .. Len(Readings)
    BY ReadingsAre, EmptySeq, LenProperties
  <2> QED
    BY <2>1 DEF Init
<1>3. \A c \in Clients : sent[c] \in Seq(Requests[c])
  BY <1>1 DEF Init
<1>4. \A c \in Clients : arrived[c] \in 0 .. Len(stream[c])
  BY <1>1 DEF Init
<1>5. stream \in [Clients -> Seq(UInt16)] /\ answers \in [Clients -> Seq(Response)]
  BY <1>1 DEF Init
<1>6. backlog \in Seq(Clients)
  BY <1>1 DEF Init
<1> QED
  BY <1>2, <1>3, <1>4, <1>5, <1>6 DEF Init, TypeOK

LEMMA TypesStep == TypeOK /\ [Next]_vars => TypeOK'
<1> SUFFICES ASSUME TypeOK, [Next]_vars PROVE TypeOK'
  OBVIOUS
<1>1. CASE update
  <2>1. reading' \in DOMAIN Readings
    <3>1. Len(Readings) \in Nat /\ DOMAIN Readings = 1 .. Len(Readings)
      BY ReadingsAre, LenProperties
    <3> QED
      BY <1>1, <3>1 DEF update, TypeOK
  <2> QED
    BY <1>1, <2>1 DEF update, serverVars, netVars, streamVars, TypeOK
<1>2. CASE tick
  <2>1. /\ client' \in Clients \cup {NoClient} /\ backlog' \in Seq(Clients)
        /\ reading' = reading /\ connection' = connection /\ sent' = sent
    BY <1>2, ServerTypes
  <2>2. /\ requestCount' \in Nat /\ errorCount' \in 0 .. requestCount'
        /\ stream' \in [Clients -> Seq(UInt16)] /\ answers' \in [Clients -> Seq(Response)]
        /\ DOMAIN arrived' = Clients /\ \A d \in Clients : arrived'[d] \in 0 .. Len(stream'[d])
    <3>1. CASE \E c \in Clients, a \in Response : FrameArrived(c) /\ ServedWith(c, a)
      BY <3>1, ServedTypes
    <3>2. CASE UNCHANGED <<requestCount, errorCount, answers, stream, arrived>>
      BY <3>2 DEF TypeOK
    <3> QED
      BY <1>2, <3>1, <3>2, TickServes
  <2> QED
    BY <2>1, <2>2 DEF TypeOK
<1>3. ASSUME NEW c \in Clients, Connect(c) PROVE TypeOK'
  <2>1. backlog' \in Seq(Clients)
    BY <1>3, AppendProperties DEF Connect, TypeOK
  <2>2. connection' \in [Clients -> {"none", "open", "closed"}]
    BY <1>3 DEF Connect, TypeOK
  <2> QED
    BY <1>3, <2>1, <2>2 DEF Connect, streamVars, TypeOK
<1>4. ASSUME NEW c \in Clients, Send(c) PROVE TypeOK'
  <2>1. PICK r \in Requests[c] :
          /\ sent' = [sent EXCEPT ![c] = Append(@, r)]
          /\ stream' = [stream EXCEPT ![c] = @ \o <<c + Len(sent[c]) + 1>> \o r.words]
    BY <1>4 DEF Send
  <2>2. SentWith(c, r)
    BY <1>4, <2>1, SendGives DEF Send
  <2>3. DOMAIN sent' = Clients /\ \A d \in Clients : sent'[d] \in Seq(Requests[d])
    BY <2>2 DEF SentWith, TypeOK
  <2>4. \A d \in Clients : arrived[d] \in 0 .. Len(stream'[d])
    <3>1. Len(stream[c]) \in Nat /\ Len(r.words) \in Nat /\ arrived[c] \in 0 .. Len(stream[c])
      BY RequestsAre, LenProperties DEF TypeOK
    <3>2. arrived[c] \in 0 .. Len(stream'[c])
      <4>1. Len(stream'[c]) = Len(stream[c]) + 1 + Len(r.words)
        BY <2>2 DEF SentWith
      <4>2. \A m \in Nat, n \in Nat : \A k \in 0 .. m : k \in 0 .. m + 1 + n
        OBVIOUS
      <4> QED
        BY <3>1, <4>1, <4>2
    <3> QED
      BY <2>2, <3>2 DEF SentWith, TypeOK
  <2>5. stream' \in [Clients -> Seq(UInt16)]
    BY <2>2 DEF SentWith
  <2> QED
    BY <1>4, <2>3, <2>4, <2>5 DEF Send, serverVars, TypeOK
<1>5. ASSUME NEW c \in Clients, Arrive(c) PROVE TypeOK'
  <2>1. PICK n \in {Len(stream[c]) - 1, Len(stream[c])} :
          arrived[c] < n /\ arrived' = [arrived EXCEPT ![c] = n]
    BY <1>5 DEF Arrive
  <2>2. Len(stream[c]) \in Nat /\ arrived[c] \in 0 .. Len(stream[c])
    BY LenProperties DEF TypeOK
  <2>3. n \in 0 .. Len(stream[c])
    BY <2>1, <2>2
  <2>4. DOMAIN arrived' = Clients /\ \A d \in Clients : arrived'[d] \in 0 .. Len(stream[d])
    BY <2>1, <2>3 DEF TypeOK
  <2> QED
    BY <1>5, <2>4 DEF Arrive, serverVars, netVars, TypeOK
<1>6. ASSUME NEW c \in Clients, Leave(c) PROVE TypeOK'
  <2>1. <<>> \in Seq(UInt16) /\ Len(<<>>) = 0
    BY EmptySeq
  <2>2. stream' \in [Clients -> Seq(UInt16)]
    BY <1>6, <2>1 DEF Leave, TypeOK
  <2>3. DOMAIN arrived' = Clients /\ \A d \in Clients : arrived'[d] \in 0 .. Len(stream'[d])
    <3>1. stream'[c] = <<>> /\ arrived'[c] = 0 /\ DOMAIN arrived' = Clients
      BY <1>6 DEF Leave, TypeOK
    <3>2. \A d \in Clients \ {c} : stream'[d] = stream[d] /\ arrived'[d] = arrived[d]
      BY <1>6 DEF Leave, TypeOK
    <3> QED
      <4>1. arrived'[c] \in 0 .. Len(stream'[c])
        BY <2>1, <3>1
      <4>2. \A d \in Clients \ {c} : arrived'[d] \in 0 .. Len(stream'[d])
        BY <3>2 DEF TypeOK
      <4> QED
        BY <3>1, <4>1, <4>2
  <2>4. connection' \in [Clients -> {"none", "open", "closed"}]
    BY <1>6 DEF Leave, TypeOK
  <2> QED
    BY <1>6, <2>2, <2>3, <2>4 DEF Leave, serverVars, TypeOK
<1>7. CASE UNCHANGED vars
  BY <1>7 DEF vars, serverVars, netVars, streamVars, TypeOK
<1> QED
  BY <1>1, <1>2, <1>3, <1>4, <1>5, <1>6, <1>7 DEF Next

\* The types: register values and answers fit in theirs, and no more words are read
\* than have arrived, for all clients and requests.
THEOREM TypeCorrect == Spec => []TypeOK
  BY TypesInit, TypesStep, PTL DEF Spec

-----------------------------------------------------------------------------
\* The counters.
LEMMA CountInit == Init => CountInv
<1> SUFFICES ASSUME Init PROVE CountInv
  OBVIOUS
<1>1. requestCount = 0 /\ errorCount = 0 /\ \A c \in Clients : Len(answers[c]) = 0
  BY EmptySeq DEF Init
<1>2. Written = {} /\ Exceptions = {}
  BY <1>1 DEF Written, Exceptions
<1>3. IsFiniteSet({}) /\ Cardinality({}) = 0
  BY FS_EmptySet
<1> QED
  BY <1>1, <1>2, <1>3 DEF CountInv, FramesAreCounted

\* The answer to one more frame is one more answer written.
LEMMA WrittenGrows ==
  ASSUME TypeOK, CountInv, NEW c \in Clients, NEW a \in Response, ServedWith(c, a)
  PROVE  LET new == <<c, Len(answers[c]) + 1>>
         IN  /\ Written' = Written \cup {new} /\ new \notin Written
             /\ Exceptions' = IF a.exception # 0 THEN Exceptions \cup {new} ELSE Exceptions
             /\ new \notin Exceptions
<1> DEFINE n == Len(answers[c])
           new == <<c, n + 1>>
<1>1. /\ requestCount \in Nat /\ requestCount' = requestCount + 1
      /\ \A d \in Clients : Len(answers[d]) \in Nat /\ Len(answers[d]) <= requestCount
  BY LenProperties DEF TypeOK, CountInv, ServedWith
<1>2. /\ Len(answers'[c]) = n + 1
      /\ \A d \in Clients \ {c} : answers'[d] = answers[d]
      /\ \A i \in 1 .. n : answers'[c][i] = answers[c][i]
      /\ answers'[c][n + 1] = a
  BY DEF ServedWith
<1>3. n \in Nat /\ n <= requestCount
  BY <1>1
<1> HIDE DEF n
<1>4. Written' = {w \in Clients \X (1 .. requestCount') : w[2] <= Len(answers'[w[1]])}
  BY DEF Written
<1>5. ASSUME NEW w \in Written
      PROVE  w \in Written' /\ w # new /\ answers'[w[1]][w[2]] = answers[w[1]][w[2]]
  <2>1. w \in Clients \X (1 .. requestCount) /\ w[2] <= Len(answers[w[1]])
    BY <1>5 DEF Written
  <2>2. PICK d \in Clients, i \in 1 .. requestCount : w = <<d, i>>
    BY <2>1
  <2>3. i <= Len(answers[d]) /\ i \in 1 .. requestCount'
    BY <1>1, <2>1, <2>2
  <2>4. CASE d = c
    <3>1. i \in 1 .. n
      BY <1>3, <2>3, <2>4 DEF n
    <3>2. answers'[d][i] = answers[d][i] /\ i <= Len(answers'[d]) /\ i # n + 1
      BY <1>2, <1>3, <2>4, <3>1
    <3> QED
      BY <1>4, <2>2, <2>3, <3>2
  <2>5. CASE d # c
    BY <1>2, <1>4, <2>2, <2>3, <2>5
  <2> QED
    BY <2>4, <2>5
<1>6. new \in Written' /\ answers'[new[1]][new[2]] = a
  <2>1. n + 1 \in 1 .. requestCount'
    BY <1>1, <1>3
  <2> QED
    BY <1>2, <1>4, <2>1
<1>7. ASSUME NEW w \in Written', w # new
      PROVE  w \in Written
  <2>1. w \in Clients \X (1 .. requestCount') /\ w[2] <= Len(answers'[w[1]])
    BY <1>4, <1>7
  <2>2. PICK d \in Clients, i \in 1 .. requestCount' : w = <<d, i>>
    BY <2>1
  <2>3. i \in Nat /\ i >= 1 /\ i <= Len(answers'[d])
    BY <1>1, <2>1, <2>2
  <2>4. i <= Len(answers[d])
    <3>1. CASE d = c
      <4>1. i # n + 1
        BY <1>7, <2>2, <3>1
      <4> QED
        BY <1>2, <1>3, <2>3, <3>1, <4>1 DEF n
    <3>2. CASE d # c
      BY <1>2, <2>3, <3>2
    <3> QED
      BY <3>1, <3>2
  <2>5. i \in 1 .. requestCount
    BY <1>1, <2>3, <2>4
  <2> QED
    BY <2>2, <2>4, <2>5 DEF Written
<1> HIDE DEF new
<1>8. Written' = Written \cup {new} /\ new \notin Written
  BY <1>5, <1>6, <1>7
<1>9. Exceptions' = {w \in Written' : answers'[w[1]][w[2]].exception # 0}
  BY DEF Exceptions
<1>10. Exceptions' = IF a.exception # 0 THEN Exceptions \cup {new} ELSE Exceptions
  <2>1. \A w \in Written : w \in Exceptions' <=> w \in Exceptions
    BY <1>5, <1>9 DEF Exceptions
  <2>2. new \in Exceptions' <=> a.exception # 0
    BY <1>6, <1>9
  <2>3. Exceptions \subseteq Written /\ Exceptions' \subseteq Written \cup {new}
    BY <1>8, <1>9 DEF Exceptions
  <2> QED
    BY <1>8, <2>1, <2>2, <2>3
<1>11. new \notin Exceptions
  BY <1>8 DEF Exceptions
<1> QED
  BY <1>8, <1>10, <1>11 DEF new, n

LEMMA CountStep == TypeOK /\ CountInv /\ [Next]_vars => CountInv'
<1> SUFFICES ASSUME TypeOK, CountInv, [Next]_vars PROVE CountInv'
  OBVIOUS
<1>1. CASE UNCHANGED <<requestCount, errorCount, answers>>
  BY <1>1 DEF CountInv, FramesAreCounted, Written, Exceptions
<1>2. ASSUME NEW c \in Clients, NEW a \in Response, ServedWith(c, a)
      PROVE  CountInv'
  <2> DEFINE new == <<c, Len(answers[c]) + 1>>
  <2>1. /\ Written' = Written \cup {new} /\ new \notin Written
        /\ Exceptions' = IF a.exception # 0 THEN Exceptions \cup {new} ELSE Exceptions
        /\ new \notin Exceptions
    BY <1>2, WrittenGrows
  <2> HIDE DEF new
  <2>2. /\ IsFiniteSet(Written) /\ requestCount = Cardinality(Written)
        /\ errorCount = Cardinality(Exceptions)
    BY DEF CountInv, FramesAreCounted
  <2>3. IsFiniteSet(Exceptions)
    <3>1. Exceptions \in SUBSET Written
      BY DEF Exceptions
    <3> QED
      BY <2>2, <3>1, FS_Subset
  <2>4. IsFiniteSet(Written') /\ Cardinality(Written') = requestCount + 1
    BY <2>1, <2>2, FS_AddElement
  <2>5. Cardinality(Exceptions') = IF a.exception # 0 THEN errorCount + 1 ELSE errorCount
    BY <2>1, <2>2, <2>3, FS_AddElement
  <2>6. /\ requestCount' = requestCount + 1
        /\ errorCount' = IF a.exception # 0 THEN errorCount + 1 ELSE errorCount
    BY <1>2 DEF ServedWith
  <2>7. \A d \in Clients : Len(answers'[d]) <= requestCount'
    <3>1. /\ requestCount \in Nat
          /\ \A d \in Clients : Len(answers[d]) \in Nat /\ Len(answers[d]) <= requestCount
      BY LenProperties DEF TypeOK, CountInv
    <3>2. /\ Len(answers'[c]) = Len(answers[c]) + 1
          /\ \A d \in Clients \ {c} : answers'[d] = answers[d]
      BY <1>2 DEF ServedWith
    <3>3. Len(answers'[c]) <= requestCount + 1
      BY <3>1, <3>2
    <3>4. \A d \in Clients \ {c} : Len(answers'[d]) <= requestCount + 1
      BY <3>1, <3>2
    <3> QED
      BY <2>6, <3>3, <3>4
  <2> QED
    BY <2>4, <2>5, <2>6, <2>7 DEF CountInv, FramesAreCounted
<1>3. CASE tick
  BY <1>1, <1>2, <1>3, TickServes
<1>4. CASE ~tick
  BY <1>1, <1>4 DEF Next, update, Connect, Send, Arrive, Leave, vars, serverVars
<1> QED
  BY <1>3, <1>4

\* requestCount is the number of answers written to all clients together, and
\* errorCount that of the exceptions among them: no frame is left without an answer.
THEOREM FramesCounted == Spec => []FramesAreCounted
<1>1. Init => IInv
  BY TypesInit, CountInit DEF IInv
<1>2. IInv /\ [Next]_vars => IInv'
  BY TypesStep, CountStep DEF IInv
<1>3. IInv => FramesAreCounted
  BY DEF IInv, CountInv
<1> QED
  BY <1>1, <1>2, <1>3, PTL DEF Spec

-----------------------------------------------------------------------------
\* The measurements.  Read says which one each answer of a client was made from.
ReadInOrder(c, read) ==
  /\ read \in [DOMAIN answers[c] -> DOMAIN Readings]
  /\ \A i \in DOMAIN answers[c] :
       /\ Len(answers[c][i].values) = 16 => Decodes(answers[c][i], read[i])
       /\ read[i] <= reading /\ \A j \in 1 .. i : read[j] <= read[i]

LEMMA ForwardIs == ReadingsGoForward <=> \A c \in Clients : \E read : ReadInOrder(c, read)
  BY DEF ReadingsGoForward, ReadInOrder

LEMMA ForwardInit == Init => ReadingsGoForward
<1> SUFFICES ASSUME Init, NEW c \in Clients PROVE \E read : ReadInOrder(c, read)
  BY ForwardIs
<1>1. DOMAIN answers[c] = {}
  BY DEF Init
<1>2. ReadInOrder(c, [i \in {} |-> 1])
  BY <1>1 DEF ReadInOrder
<1> QED
  BY <1>2

\* The next answer is made from the last measurement, which is no older than any.
LEMMA ForwardServed ==
  ASSUME TypeOK, ReadingsGoForward, NEW c \in Clients, NEW a \in Response, ServedWith(c, a),
         Len(a.values) = 16 => Decodes(a, reading), reading' = reading
  PROVE  \E read : ReadInOrder(c, read)'
<1>1. PICK read : ReadInOrder(c, read)
  BY ForwardIs
<1> DEFINE n == Len(answers[c])
           more == [i \in 1 .. n + 1 |-> IF i <= n THEN read[i] ELSE reading]
<1>2. n \in Nat /\ DOMAIN answers[c] = 1 .. n
  BY LenProperties DEF TypeOK
<1>3. /\ answers'[c] \in Seq(Response) /\ Len(answers'[c]) = n + 1
      /\ \A i \in 1 .. n : answers'[c][i] = answers[c][i]
      /\ answers'[c][n + 1] = a
  BY DEF ServedWith
<1>4. DOMAIN answers'[c] = 1 .. n + 1
  BY <1>3, LenProperties
<1> HIDE DEF n
<1>5. /\ reading \in DOMAIN Readings /\ reading \in Nat /\ DOMAIN Readings \subseteq Nat
  <2>1. DOMAIN Readings = 1 .. Len(Readings) /\ Len(Readings) \in Nat
    BY ReadingsAre, LenProperties
  <2> QED
    BY <2>1 DEF TypeOK
<1>6. /\ read \in [1 .. n -> DOMAIN Readings]
      /\ \A i \in 1 .. n :
           /\ Len(answers[c][i].values) = 16 => Decodes(answers[c][i], read[i])
           /\ read[i] <= reading /\ \A j \in 1 .. i : read[j] <= read[i]
  BY <1>1, <1>2 DEF ReadInOrder
<1>7. \A i \in 1 .. n + 1 : i \in 1 .. n \/ i = n + 1
  BY <1>2
<1>8. /\ \A i \in 1 .. n : more[i] = read[i]
      /\ more[n + 1] = reading
  BY <1>2
<1>9. more \in [1 .. n + 1 -> DOMAIN Readings]
  BY <1>2, <1>5, <1>6
<1> HIDE DEF more
<1>10. \A i \in 1 .. n + 1 : Len(answers'[c][i].values) = 16 => Decodes(answers'[c][i], more[i])
  BY <1>3, <1>6, <1>7, <1>8
<1>11. \A i \in 1 .. n + 1 : more[i] <= reading /\ \A j \in 1 .. i : more[j] <= more[i]
  <2> TAKE i \in 1 .. n + 1
  <2>1. \A j \in 1 .. n + 1 : more[j] <= reading
    BY <1>5, <1>6, <1>7, <1>8
  <2>2. CASE i \in 1 .. n
    <3>1. \A j \in 1 .. i : j \in 1 .. n
      BY <1>2, <2>2
    <3> QED
      BY <1>6, <1>8, <2>1, <2>2, <3>1
  <2>3. CASE i = n + 1
    BY <1>8, <2>1, <2>3
  <2> QED
    BY <1>7, <2>1, <2>2, <2>3
<1>12. PICK m : m = more
  OBVIOUS
<1>13. ReadInOrder(c, m)'
  BY <1>4, <1>9, <1>10, <1>11, <1>12 DEF ReadInOrder, Decodes
<1> QED
  BY <1>13

LEMMA ForwardStep == TypeOK /\ ReadingsGoForward /\ [Next]_vars => ReadingsGoForward'
<1> SUFFICES ASSUME TypeOK, ReadingsGoForward, [Next]_vars PROVE ReadingsGoForward'
  OBVIOUS
<1>1. ASSUME NEW c \in Clients, answers'[c] = answers[c], reading' >= reading, reading' \in Nat
      PROVE  \E read : ReadInOrder(c, read)'
  <2>1. PICK read : ReadInOrder(c, read)
    BY ForwardIs
  <2>2. reading \in Nat /\ \A i \in DOMAIN answers[c] : read[i] \in Nat
    <3>1. DOMAIN Readings \subseteq Nat
      BY ReadingsAre, LenProperties
    <3> QED
      BY <2>1, <3>1 DEF ReadInOrder, TypeOK
  <2>3. \A i \in DOMAIN answers[c] : read[i] <= reading'
    BY <1>1, <2>1, <2>2 DEF ReadInOrder
  <2>4. ReadInOrder(c, read)'
    BY <1>1, <2>1, <2>3 DEF ReadInOrder, Decodes
  <2> QED
    BY <2>4
<1>2. reading \in Nat
  <2>1. DOMAIN Readings \subseteq Nat
    BY ReadingsAre, LenProperties
  <2> QED
    BY <2>1 DEF TypeOK
<1>3. CASE tick
  <2>1. reading' = reading
    BY <1>3 DEF tick
  <2>2. CASE answers' = answers
    BY <1>1, <1>2, <2>1, <2>2 DEF ReadingsGoForward, ReadInOrder
  <2>3. ASSUME NEW c \in Clients, NEW a \in Response, ServedWith(c, a),
               Len(a.values) = 16 => Decodes(a, reading)
        PROVE  \A d \in Clients : \E read : ReadInOrder(d, read)'
    <3>1. \E read : ReadInOrder(c, read)'
      BY <2>1, <2>3, ForwardServed
    <3>2. \A d \in Clients \ {c} : answers'[d] = answers[d]
      BY <2>3 DEF ServedWith
    <3>3. \A d \in Clients \ {c} : \E read : ReadInOrder(d, read)'
      BY <1>1, <1>2, <2>1, <3>2
    <3> QED
      BY <3>1, <3>3
  <2>4. \A d \in Clients : \E read : ReadInOrder(d, read)'
    BY <1>1, <1>2, <1>3, <2>1, <2>2, <2>3, TickServes
  <2> QED
    BY <2>4 DEF ReadingsGoForward, ReadInOrder
<1>4. CASE ~tick
  <2>1. answers' = answers
    BY <1>4 DEF Next, update, Connect, Send, Arrive, Leave, vars, serverVars
  <2>2. reading' = reading \/ reading' = reading + 1
    BY <1>4 DEF Next, update, Connect, Send, Arrive, Leave, vars
  <2>3. reading' >= reading /\ reading' \in Nat
    BY <1>2, <2>2
  <2>4. \A d \in Clients : \E read : ReadInOrder(d, read)'
    BY <1>1, <2>1, <2>3
  <2> QED
    BY <2>4 DEF ReadingsGoForward, ReadInOrder
<1> QED
  BY <1>3, <1>4

\* A client that reads all registers gets the two-register values of one
\* measurement put together right, and never an older one than before, whoever was
\* served in between.
THEOREM ReadingsForward == Spec => []ReadingsGoForward
<1>1. Init => TypeOK /\ ReadingsGoForward
  BY TypesInit, ForwardInit
<1>2. (TypeOK /\ ReadingsGoForward) /\ [Next]_vars => (TypeOK /\ ReadingsGoForward)'
  BY TypesStep, ForwardStep
<1> QED
  BY <1>1, <1>2, PTL DEF Spec

-----------------------------------------------------------------------------
\* The answers.
\* The answer to the frame of a request is the one the request states.
LEMMA AnswerIs ==
  ASSUME TypeOK, NEW c \in Clients, FrameArrived(c), NEW r \in Requests[c], Len(r.words) = 5,
         NEW i \in Nat, stream[c][1] = c + i, \A j \in 1 .. 5 : stream[c][1 + j] = r.words[j],
         NEW a, ResponseTo(c) = <<a>>
  PROVE  /\ a.exception = r.exception /\ Len(a.values) = r.registers
         /\ a.transactionId = IF r.malformed THEN 0 ELSE c + i
         /\ ~r.malformed => a.function = IF r.exception = 0 THEN r.words[3] % 256
                                                           ELSE (r.words[3] % 256) + 128
<1> DEFINE frame == FirstFrame(c)
           q == Result(c).request
           e == Result(c).error
           w == r.words
           function == w[3] % 256
<1>1. PICK b \in Response :
        /\ ResponseTo(c) = <<b>>
        /\ b.transactionId = q.transactionId
        /\ b.function = IF b.exception = 0 THEN q.function ELSE WithTopBit(q.function)
        /\ b.exception = IF e = "NONE" THEN 0 ELSE exceptionCode(e)
        /\ Len(b.values) = IF e = "NONE" THEN q.quantity ELSE 0
  BY ResponseIs
<1>2. a = b
  BY <1>1
<1>3. /\ function < 128
      /\ r.malformed <=> (w[1] # 0 \/ w[2] # 6 \/ w[3] \div 256 = 0)
      /\ r.exception = IF r.malformed THEN 3
                       ELSE IF function \notin {3, 4} THEN 1
                       ELSE IF w[5] \notin 1 .. modbusMaxRegisters THEN 3
                       ELSE IF w[4] + w[5] > 16 THEN 2 ELSE 0
      /\ r.registers = IF r.exception = 0 THEN w[5] ELSE 0
  BY RequestAssumption
<1>4. w \in Seq(UInt16) /\ \A j \in 1 .. 5 : w[j] \in Nat
  <2>1. w \in Seq(UInt16) /\ UInt16 \subseteq Nat
    BY RequestsAre, WordsAreNaturals
  <2> QED
    BY <2>1, ElementOfSeq
<1>5. /\ frame[1] = c + i /\ frame[2] = w[1] /\ frame[3] = w[2] /\ frame[4] = w[3]
      /\ frame[5] = w[4] /\ frame[6] = w[5]
  <2>1. \A j \in 1 .. 6 : frame[j] = stream[c][j]
    BY StreamIs
  <2>2. /\ stream[c][1 + 1] = w[1] /\ stream[c][1 + 2] = w[2] /\ stream[c][1 + 3] = w[3]
        /\ stream[c][1 + 4] = w[4] /\ stream[c][1 + 5] = w[5]
    OBVIOUS
  <2>3. 1 + 1 = 2 /\ 1 + 2 = 3 /\ 1 + 3 = 4 /\ 1 + 4 = 5 /\ 1 + 5 = 6
    OBVIOUS
  <2> QED
    BY <2>1, <2>2, <2>3
<1>6. Result(c) = parseReadRequest(frame)
  BY DEF Result
<1> HIDE DEF frame, q, e, w
<1>7. r.malformed <=> Malformed(frame)
  BY <1>3, <1>5 DEF Malformed
<1>8. CASE r.malformed
  <2>1. q = NoRequest /\ e = "MALFORMED_FRAME"
    BY <1>6, <1>7, <1>8 DEF parseReadRequest, q, e
  <2>2. a.exception = 3 /\ Len(a.values) = 0 /\ a.transactionId = 0
    BY <1>1, <1>2, <2>1 DEF NoRequest, exceptionCode
  <2> QED
    BY <1>3, <1>8, <2>2
<1>9. CASE ~r.malformed
  <2>1. q = Fields(frame) /\ e = Illegal(q)
    BY <1>6, <1>7, <1>9 DEF parseReadRequest, q, e
  <2>2. /\ q.transactionId = c + i /\ q.function = function
        /\ q.startAddress = w[4] /\ q.quantity = w[5]
    BY <1>5, <2>1 DEF Fields
  <2>3. e = IF function \notin {3, 4} THEN "ILLEGAL_FUNCTION"
            ELSE IF w[5] \notin 1 .. modbusMaxRegisters THEN "ILLEGAL_VALUE"
            ELSE IF w[4] + w[5] > 16 THEN "ILLEGAL_ADDRESS"
            ELSE "NONE"
    BY <2>1, <2>2 DEF Illegal
  <2> HIDE DEF function
  <2>4. /\ r.exception = IF e = "NONE" THEN 0 ELSE exceptionCode(e)
        /\ r.exception = 0 <=> e = "NONE"
    BY <1>3, <1>9, <2>3 DEF exceptionCode
  <2>5. a.exception = r.exception /\ Len(a.values) = r.registers /\ a.transactionId = c + i
    BY <1>1, <1>2, <1>3, <2>2, <2>4
  <2>6. WithTopBit(function) = function + 128
    BY <1>3 DEF WithTopBit
  <2>7. a.function = IF r.exception = 0 THEN function ELSE function + 128
    BY <1>1, <1>2, <2>2, <2>4, <2>6
  <2> QED
    BY <1>9, <2>5, <2>7 DEF function, w
<1> QED
  BY <1>8, <1>9

\* Pending, without its LET.
LEMMA PendingIs ==
  ASSUME NEW c
  PROVE  Pending(c) =
           (/\ Len(answers[c]) <= Len(sent[c])
            /\ Len(stream[c]) = 6 * (Len(sent[c]) - Len(answers[c]))
            /\ \A i \in Len(answers[c]) + 1 .. Len(sent[c]) :
                 /\ stream[c][6 * (i - Len(answers[c]) - 1) + 1] = c + i
                 /\ \A j \in 1 .. 5 : stream[c][6 * (i - Len(answers[c]) - 1) + 1 + j]
                                        = sent[c][i].words[j])
  BY DEF Pending

\* Serving a client in step answers its next request and leaves the ones after it.
LEMMA PendingServed ==
  ASSUME AnswersInv, NEW c \in Clients, NEW a, connection[c] = "open", FrameArrived(c),
         ServedWith(c, a), ResponseTo(c) = <<a>>, Aligned(c), sent' = sent
  PROVE  /\ Pending(c)'
         /\ Len(answers'[c]) <= Len(sent'[c])
         /\ (\A i \in DOMAIN answers[c] : Answers(c, i, answers[c][i]))'
<1> DEFINE n == Len(answers[c])
           m == Len(sent[c])
           s == stream[c]
           t == stream'[c]
<1>1. TypeOK /\ Pending(c)
  BY DEF AnswersInv, PendingInv
<1>2. n \in Nat /\ m \in Nat /\ DOMAIN answers[c] = 1 .. n /\ DOMAIN sent[c] = 1 .. m
  BY <1>1, LenProperties DEF TypeOK
<1>3. /\ n <= m /\ Len(s) = 6 * (m - n)
      /\ \A i \in n + 1 .. m :
           /\ s[6 * (i - n - 1) + 1] = c + i
           /\ \A j \in 1 .. 5 : s[6 * (i - n - 1) + 1 + j] = sent[c][i].words[j]
  BY <1>1, PendingIs
<1>3a. ASSUME NEW i \in n + 1 .. m, NEW x, x = 6 * (i - n - 1)
      PROVE  s[x + 1] = c + i /\ \A j \in 1 .. 5 : s[x + 1 + j] = sent[c][i].words[j]
  BY <1>3, <1>3a
<1>4. Len(s) >= 6
  BY <1>1, StreamIs
<1>5. /\ Len(answers'[c]) = n + 1
      /\ \A i \in 1 .. n : answers'[c][i] = answers[c][i]
      /\ answers'[c][n + 1] = a
      /\ Len(t) = Len(s) - 6 /\ \A i \in 1 .. Len(s) - 6 : t[i] = s[i + 6]
      /\ answers'[c] \in Seq(Response)
  BY DEF ServedWith
<1> HIDE DEF n, m, s, t
<1>6. n + 1 <= m /\ n + 1 \in n + 1 .. m /\ n + 1 \in 1 .. m
  BY <1>2, <1>3, <1>4
<1>7. Len(t) = 6 * (m - (n + 1))
  BY <1>2, <1>3, <1>5
<1>8. ASSUME NEW i \in n + 1 + 1 .. m
      PROVE  /\ t[6 * (i - (n + 1) - 1) + 1] = c + i
             /\ \A j \in 1 .. 5 : t[6 * (i - (n + 1) - 1) + 1 + j] = sent[c][i].words[j]
  <2> DEFINE k == 6 * (i - (n + 1) - 1)
  <2>1. k \in Nat /\ k + 6 <= Len(s) - 6 /\ i \in n + 1 .. m /\ 6 * (i - n - 1) = k + 6 /\ Len(s) \in Nat
    BY <1>2, <1>3
  <2> HIDE DEF k
  <2>2. s[k + 6 + 1] = c + i /\ \A j \in 1 .. 5 : s[k + 6 + 1 + j] = sent[c][i].words[j]
    BY <1>3a, <2>1
  <2>3. t[k + 1] = s[k + 6 + 1]
    <3>1. k + 1 \in 1 .. Len(s) - 6 /\ k + 1 + 6 = k + 6 + 1
      BY <2>1
    <3> QED
      BY <1>5, <3>1
  <2>4. \A j \in 1 .. 5 : t[k + 1 + j] = s[k + 6 + 1 + j]
    <3> TAKE j \in 1 .. 5
    <3>1. k + 1 + j \in 1 .. Len(s) - 6 /\ k + 1 + j + 6 = k + 6 + 1 + j
      BY <2>1
    <3> QED
      BY <1>5, <3>1
  <2> QED
    BY <2>2, <2>3, <2>4 DEF k
<1>9. Pending(c)'
  <2>1. Pending(c)' = (/\ Len(answers'[c]) <= Len(sent'[c])
                       /\ Len(stream'[c]) = 6 * (Len(sent'[c]) - Len(answers'[c]))
                       /\ \A i \in Len(answers'[c]) + 1 .. Len(sent'[c]) :
                            /\ stream'[c][6 * (i - Len(answers'[c]) - 1) + 1] = c + i
                            /\ \A j \in 1 .. 5 : stream'[c][6 * (i - Len(answers'[c]) - 1) + 1 + j]
                                                   = sent'[c][i].words[j])
    BY DEF Pending
  <2>2. Len(sent'[c]) = m /\ sent' = sent /\ stream'[c] = t
    BY DEF m, t
  <2> QED
    BY <1>5, <1>6, <1>7, <1>8, <2>1, <2>2
<1>10. ASSUME NEW k, k = n + 1
       PROVE  Answers(c, k, a)
  <2> DEFINE r == sent[c][n + 1]
  <2>1. r \in Requests[c] /\ Len(r.words) = 5
    <3>1. sent[c] \in Seq(Requests[c]) /\ n + 1 \in 1 .. Len(sent[c])
      BY <1>1, <1>6 DEF TypeOK, m
    <3>2. Len(r.words) = 5
      BY <1>2, <1>6 DEF Aligned
    <3> QED
      BY <3>1, <3>2, ElementOfSeq
  <2>3. s[1] = c + (n + 1) /\ \A j \in 1 .. 5 : s[1 + j] = r.words[j]
    <3>1. k \in n + 1 .. m /\ 0 = 6 * (k - n - 1) /\ 0 + 1 = 1
      BY <1>2, <1>6, <1>10
    <3>2. s[0 + 1] = c + k /\ \A j \in 1 .. 5 : s[0 + 1 + j] = sent[c][k].words[j]
      BY <1>3a, <3>1
    <3> QED
      BY <1>10, <3>1, <3>2
  <2> HIDE DEF r
  <2>4. n + 1 \in Nat
    BY <1>2
  <2>5. /\ a.exception = r.exception /\ Len(a.values) = r.registers
        /\ a.transactionId = IF r.malformed THEN 0 ELSE c + (n + 1)
        /\ ~r.malformed => a.function = IF r.exception = 0 THEN r.words[3] % 256
                                                          ELSE (r.words[3] % 256) + 128
    <3>1. stream[c][1] = c + (n + 1) /\ \A j \in 1 .. 5 : stream[c][1 + j] = r.words[j]
      BY <2>3 DEF s
    <3> QED
      BY <1>1, <2>1, <2>4, <3>1, AnswerIs
  <2> QED
    BY <1>10, <2>5 DEF Answers, r
<1>11. (\A i \in DOMAIN answers[c] : Answers(c, i, answers[c][i]))'
  <2> SUFFICES ASSUME NEW i \in DOMAIN answers'[c]
               PROVE  (Answers(c, i, answers[c][i]))'
    OBVIOUS
  <2>1. DOMAIN answers'[c] = 1 .. n + 1
    BY <1>5, LenProperties
  <2>2. Answers(c, i, answers'[c][i])
    <3>1. CASE i \in 1 .. n
      <4>1. Len(answers[c]) <= Len(sent[c]) /\ \A k \in DOMAIN answers[c] : Answers(c, k, answers[c][k])
        BY DEF AnswersInv, AnswersMatch
      <4>2. Answers(c, i, answers[c][i])
        BY <1>2, <3>1, <4>1
      <4> QED
        BY <1>5, <3>1, <4>2
    <3>2. CASE i = n + 1
      BY <1>5, <1>10, <3>2
    <3> QED
      BY <1>2, <2>1, <3>1, <3>2
  <2> QED
    BY <2>2 DEF Answers
<1>12. Len(answers'[c]) <= Len(sent'[c])
  BY <1>5, <1>6 DEF m
<1> QED
  BY <1>9, <1>11, <1>12

\* Sending adds the request and its frame at the end.
LEMMA PendingSent ==
  ASSUME AnswersInv, NEW c \in Clients, NEW r \in Requests[c], connection[c] = "open",
         SentWith(c, r), Aligned(c)', answers' = answers
  PROVE  Aligned(c) /\ Pending(c)'
<1> DEFINE n == Len(answers[c])
           m == Len(sent[c])
           s == stream[c]
           t == stream'[c]
<1>1. /\ TypeOK /\ sent[c] \in Seq(Requests[c]) /\ sent'[c] \in Seq(Requests[c])
      /\ answers[c] \in Seq(Response) /\ s \in Seq(UInt16)
  BY DEF AnswersInv, TypeOK, SentWith
<1>2. n \in Nat /\ m \in Nat /\ DOMAIN sent[c] = 1 .. m
  BY <1>1, LenProperties
<1>3. /\ Len(sent'[c]) = m + 1 /\ \A i \in 1 .. m : sent'[c][i] = sent[c][i]
      /\ sent'[c][m + 1] = r
      /\ Len(t) = Len(s) + 1 + Len(r.words)
      /\ \A i \in 1 .. Len(s) : t[i] = s[i]
      /\ t[Len(s) + 1] = c + m + 1
      /\ \A j \in 1 .. Len(r.words) : t[Len(s) + 1 + j] = r.words[j]
  BY DEF SentWith
<1>4. DOMAIN sent'[c] = 1 .. m + 1
  BY <1>1, <1>3, LenProperties
<1> HIDE DEF n, m, s, t
<1>5. Aligned(c) /\ Len(r.words) = 5
  <2>1. \A i \in 1 .. m + 1 : Len(sent'[c][i].words) = 5
    BY <1>4 DEF Aligned
  <2>2. m + 1 \in 1 .. m + 1 /\ \A i \in 1 .. m : i \in 1 .. m + 1
    BY <1>2
  <2>3. Len(r.words) = 5
    BY <1>3, <2>1, <2>2
  <2>4. \A i \in 1 .. m : Len(sent[c][i].words) = 5
    BY <1>3, <2>1, <2>2
  <2> QED
    BY <1>2, <2>3, <2>4 DEF Aligned
<1>6. Pending(c)
  BY <1>5 DEF AnswersInv, PendingInv
<1>7. /\ n <= m /\ Len(s) = 6 * (m - n)
      /\ \A i \in n + 1 .. m :
           /\ s[6 * (i - n - 1) + 1] = c + i
           /\ \A j \in 1 .. 5 : s[6 * (i - n - 1) + 1 + j] = sent[c][i].words[j]
  BY <1>6, PendingIs DEF n, m, s
<1>8. n <= m + 1 /\ Len(t) = 6 * (m + 1 - n)
  BY <1>2, <1>3, <1>5, <1>7
<1>9. ASSUME NEW i \in n + 1 .. m + 1
      PROVE  /\ t[6 * (i - n - 1) + 1] = c + i
             /\ \A j \in 1 .. 5 : t[6 * (i - n - 1) + 1 + j] = sent'[c][i].words[j]
  <2> DEFINE k == 6 * (i - n - 1)
  <2>1. k \in Nat
    BY <1>2, <1>7
  <2>2. CASE i = m + 1
    <3>1. k = Len(s) /\ c + i = c + m + 1
      <4>1. c \in Nat
        BY ClientsAre
      <4> QED
        BY <1>2, <1>7, <2>2, <4>1
    <3> HIDE DEF k
    <3>2. t[k + 1] = c + i /\ \A j \in 1 .. 5 : t[k + 1 + j] = r.words[j]
      BY <1>3, <1>5, <3>1
    <3> QED
      BY <1>3, <2>2, <3>2 DEF k
  <2>3. CASE i # m + 1
    <3>1. i \in n + 1 .. m /\ i \in 1 .. m /\ k + 6 <= Len(s)
      BY <1>2, <1>7, <2>3
    <3>2. s[k + 1] = c + i /\ \A j \in 1 .. 5 : s[k + 1 + j] = sent[c][i].words[j]
      BY <1>7, <3>1
    <3> HIDE DEF k
    <3>3. k + 1 \in 1 .. Len(s) /\ \A j \in 1 .. 5 : k + 1 + j \in 1 .. Len(s)
      <4>1. Len(s) \in Nat
        BY <1>2, <1>7
      <4> QED
        BY <2>1, <3>1, <4>1
    <3>4. t[k + 1] = s[k + 1] /\ \A j \in 1 .. 5 : t[k + 1 + j] = s[k + 1 + j]
      BY <1>3, <3>3
    <3>5. sent'[c][i] = sent[c][i]
      BY <1>3, <3>1
    <3> QED
      BY <3>2, <3>4, <3>5 DEF k
  <2> QED
    BY <2>2, <2>3
<1>10. Pending(c)'
  <2>1. Pending(c)' = (/\ Len(answers'[c]) <= Len(sent'[c])
                       /\ Len(stream'[c]) = 6 * (Len(sent'[c]) - Len(answers'[c]))
                       /\ \A i \in Len(answers'[c]) + 1 .. Len(sent'[c]) :
                            /\ stream'[c][6 * (i - Len(answers'[c]) - 1) + 1] = c + i
                            /\ \A j \in 1 .. 5 : stream'[c][6 * (i - Len(answers'[c]) - 1) + 1 + j]
                                                   = sent'[c][i].words[j])
    BY DEF Pending
  <2>2. Len(answers'[c]) = n /\ stream'[c] = t
    BY DEF n, t
  <2>3. Len(sent'[c]) = m + 1
    BY <1>3
  <2>4. /\ Len(answers'[c]) <= Len(sent'[c])
        /\ Len(stream'[c]) = 6 * (Len(sent'[c]) - Len(answers'[c]))
    BY <1>2, <1>8, <2>2, <2>3
  <2>5. ASSUME NEW i \in Len(answers'[c]) + 1 .. Len(sent'[c])
        PROVE  /\ stream'[c][6 * (i - Len(answers'[c]) - 1) + 1] = c + i
               /\ \A j \in 1 .. 5 : stream'[c][6 * (i - Len(answers'[c]) - 1) + 1 + j]
                                      = sent'[c][i].words[j]
    <3>1. i \in n + 1 .. m + 1
      BY <2>2, <2>3, <2>5
    <3> QED
      BY <1>9, <2>2, <3>1
  <2> QED
    BY <2>1, <2>4, <2>5
<1> QED
  BY <1>5, <1>10

LEMMA AnswersInit == Init => AnswersInv
<1> SUFFICES ASSUME Init PROVE AnswersInv
  OBVIOUS
<1>1. \A c \in Clients : answers[c] = <<>> /\ sent[c] = <<>> /\ stream[c] = <<>>
  BY DEF Init
<1>2. Len(<<>>) = 0 /\ DOMAIN <<>> = {}
  BY EmptySeq
<1>3. ASSUME NEW c \in Clients PROVE Pending(c)
  <2>1. Len(answers[c]) = 0 /\ Len(sent[c]) = 0 /\ Len(stream[c]) = 0
    BY <1>1, <1>2
  <2>2. /\ Len(answers[c]) <= Len(sent[c])
        /\ Len(stream[c]) = 6 * (Len(sent[c]) - Len(answers[c]))
        /\ \A i \in Len(answers[c]) + 1 .. Len(sent[c]) : FALSE
    BY <2>1
  <2> QED
    BY <2>1, <2>2, PendingIs
<1>4. AnswersMatch
  BY <1>1, <1>2 DEF AnswersMatch
<1> QED
  BY <1>3, <1>4, TypesInit DEF AnswersInv, PendingInv

\* A client whose part of the state stays as it is stays in step and keeps its answers.
LEMMA AnswersStay ==
  ASSUME AnswersInv, NEW c \in Clients, sent'[c] = sent[c], answers'[c] = answers[c], Aligned(c)'
  PROVE  /\ Aligned(c)
         /\ Len(answers'[c]) <= Len(sent'[c])
         /\ (\A i \in DOMAIN answers[c] : Answers(c, i, answers[c][i]))'
         /\ connection[c] # "closed" /\ stream'[c] = stream[c] => Pending(c)'
<1>1. Aligned(c)
  BY DEF Aligned
<1>2. Len(answers[c]) <= Len(sent[c]) /\ \A i \in DOMAIN answers[c] : Answers(c, i, answers[c][i])
  BY <1>1 DEF AnswersInv, AnswersMatch
<1>3. connection[c] # "closed" => Pending(c)
  BY <1>1 DEF AnswersInv, PendingInv
<1>4. (\A i \in DOMAIN answers[c] : Answers(c, i, answers[c][i]))'
  BY <1>2 DEF Answers
<1>5. stream'[c] = stream[c] => (Pending(c)' <=> Pending(c))
  BY DEF Pending
<1> QED
  BY <1>1, <1>2, <1>3, <1>4, <1>5

LEMMA AnswersStep == AnswersInv /\ [Next]_vars => AnswersInv'
<1> SUFFICES ASSUME AnswersInv, [Next]_vars PROVE AnswersInv'
  OBVIOUS
<1>1. TypeOK /\ TypeOK'
  BY TypesStep DEF AnswersInv
<1> SUFFICES ASSUME NEW d \in Clients, Aligned(d)'
             PROVE  /\ connection'[d] # "closed" => Pending(d)'
                    /\ Len(answers'[d]) <= Len(sent'[d])
                    /\ (\A i \in DOMAIN answers[d] : Answers(d, i, answers[d][i]))'
  BY <1>1 DEF AnswersInv, PendingInv, AnswersMatch
<1>2. CASE /\ sent'[d] = sent[d] /\ answers'[d] = answers[d] /\ stream'[d] = stream[d]
           /\ connection'[d] # "closed" => connection[d] # "closed"
  BY <1>2, AnswersStay
<1>3. CASE tick
  <2>1. sent' = sent /\ connection' = connection
    BY <1>1, <1>3, ServerTypes
  <2>2. CASE answers' = answers /\ stream' = stream
    BY <1>2, <2>1, <2>2
  <2>3. ASSUME NEW c \in Clients, NEW a \in Response, connection[c] = "open", FrameArrived(c),
               ServedWith(c, a), ResponseTo(c) = <<a>>
        PROVE  /\ connection'[d] # "closed" => Pending(d)'
               /\ Len(answers'[d]) <= Len(sent'[d])
               /\ (\A i \in DOMAIN answers[d] : Answers(d, i, answers[d][i]))'
    <3>1. CASE d = c
      <4>1. Aligned(c)
        BY <2>1, <3>1 DEF Aligned
      <4> QED
        BY <2>1, <2>3, <3>1, <4>1, PendingServed
    <3>2. CASE d # c
      <4>1. answers'[d] = answers[d] /\ stream'[d] = stream[d]
        BY <2>3, <3>2 DEF ServedWith
      <4> QED
        BY <1>2, <2>1, <4>1
    <3> QED
      BY <3>1, <3>2
  <2> QED
    BY <1>1, <1>3, <2>2, <2>3, TickServes
<1>4. ASSUME NEW c \in Clients, Send(c)
      PROVE  /\ connection'[d] # "closed" => Pending(d)'
             /\ Len(answers'[d]) <= Len(sent'[d])
             /\ (\A i \in DOMAIN answers[d] : Answers(d, i, answers[d][i]))'
  <2>1. PICK r \in Requests[c] : SentWith(c, r)
    <3>1. PICK r \in Requests[c] :
            /\ sent' = [sent EXCEPT ![c] = Append(@, r)]
            /\ stream' = [stream EXCEPT ![c] = @ \o <<c + Len(sent[c]) + 1>> \o r.words]
      BY <1>4 DEF Send
    <3> QED
      BY <1>1, <1>4, <3>1, SendGives DEF Send
  <2>2. answers' = answers /\ connection' = connection /\ connection[c] = "open"
    BY <1>4 DEF Send, Connected, serverVars
  <2>3. CASE d = c
    <3>1. Aligned(c) /\ Pending(c)'
      BY <2>1, <2>2, <2>3, PendingSent
    <3>2. Len(answers[c]) <= Len(sent[c]) /\ \A i \in DOMAIN answers[c] : Answers(c, i, answers[c][i])
      BY <3>1 DEF AnswersInv, AnswersMatch
    <3>3. /\ Len(answers[c]) \in Nat /\ Len(sent[c]) \in Nat
          /\ DOMAIN answers[c] = 1 .. Len(answers[c])
      BY <1>1, LenProperties DEF TypeOK
    <3>4. /\ Len(sent'[c]) = Len(sent[c]) + 1
          /\ \A i \in 1 .. Len(sent[c]) : sent'[c][i] = sent[c][i]
      BY <2>1 DEF SentWith
    <3>5. \A i \in DOMAIN answers[c] : sent'[c][i] = sent[c][i]
      BY <3>2, <3>3, <3>4
    <3>6. (\A i \in DOMAIN answers[c] : Answers(c, i, answers[c][i]))'
      BY SMTT(30), <2>2, <3>2, <3>5 DEF Answers
    <3>7. Len(answers'[c]) <= Len(sent'[c])
      BY <2>2, <3>2, <3>3, <3>4
    <3> QED
      BY <2>3, <3>1, <3>6, <3>7
  <2>4. CASE d # c
    <3>1. sent'[d] = sent[d] /\ stream'[d] = stream[d]
      BY <2>1, <2>4 DEF SentWith
    <3> QED
      BY <1>2, <2>2, <3>1
  <2> QED
    BY <2>3, <2>4
<1>5. ASSUME NEW c \in Clients, Leave(c)
      PROVE  /\ connection'[d] # "closed" => Pending(d)'
             /\ Len(answers'[d]) <= Len(sent'[d])
             /\ (\A i \in DOMAIN answers[d] : Answers(d, i, answers[d][i]))'
  <2>1. sent' = sent /\ answers' = answers
    BY <1>5 DEF Leave, serverVars
  <2>2. CASE d = c
    <3>1. connection'[d] = "closed"
      BY <1>1, <1>5, <2>2 DEF Leave, TypeOK
    <3> QED
      BY <2>1, <3>1, AnswersStay
  <2>3. CASE d # c
    <3>1. connection'[d] = connection[d] /\ stream'[d] = stream[d]
      BY <1>1, <1>5, <2>3 DEF Leave, TypeOK
    <3> QED
      BY <1>2, <2>1, <3>1
  <2> QED
    BY <2>2, <2>3
<1>6. ASSUME NEW c \in Clients, Connect(c)
      PROVE  /\ connection'[d] # "closed" => Pending(d)'
             /\ Len(answers'[d]) <= Len(sent'[d])
             /\ (\A i \in DOMAIN answers[d] : Answers(d, i, answers[d][i]))'
  <2>1. sent' = sent /\ answers' = answers /\ stream' = stream
    BY <1>6 DEF Connect, streamVars
  <2>2. connection'[d] # "closed" => connection[d] # "closed"
    BY <1>1, <1>6 DEF Connect, TypeOK
  <2> QED
    BY <1>2, <2>1, <2>2
<1>7. CASE update \/ (\E c \in Clients : Arrive(c)) \/ UNCHANGED vars
  <2>1. sent' = sent /\ answers' = answers /\ stream' = stream /\ connection' = connection
    BY <1>7 DEF update, Arrive, vars, serverVars, netVars, streamVars
  <2> QED
    BY <1>2, <2>1
<1> QED
  BY <1>3, <1>4, <1>5, <1>6, <1>7 DEF Next

\* Every client that sends frames of the length of a read request gets the
\* answers its own requests state, in their order: any number of clients,
\* any requests, and any pieces in which they arrive.
THEOREM AnswersAreRight == Spec => []AnswersMatch
<1>1. AnswersInv => AnswersMatch
  BY DEF AnswersInv
<1> QED
  BY <1>1, AnswersInit, AnswersStep, PTL DEF Spec
=============================================================================
