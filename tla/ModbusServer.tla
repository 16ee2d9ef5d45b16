------------------------------ MODULE ModbusServer ------------------------------
(***************************************************************************)
(* ModbusServer and its codec: NetworkTask calls update() with a new       *)
(* measurement and tick() in every cycle; tick() serves one client at a    *)
(* time and at most one frame.  Clients connect, send, wait and leave as   *)
(* they like, and what they send arrives in pieces.                        *)
(*                                                                         *)
(* A connection is a stream of 16-bit words: every function of the         *)
(* protocol that matters here has an even number of bytes.  The frame of a *)
(* read request has six words.  A client's number is added to the          *)
(* transaction ids of its requests.  Values come in the unit of their      *)
(* register; rounding to it is left out.                                   *)
(***************************************************************************)
EXTENDS Integers, Sequences, FiniteSets

CONSTANTS
  Clients,             \* numbers of the clients
  Requests,            \* of each client: what it may send, but for the transaction id
  MaxRequests,         \* bound on the requests of a client
  Readings,            \* the measurements, in the order they are taken
  Word,                \* number of values of a register
  modbusMaxRegisters

UInt16 == 0 .. 256 * 256 - 1

\* The widths of the code: words and transaction ids of 16 bits, counters of two
\* registers.
ASSUME ModbusAssumption ==
  /\ Clients \subseteq Nat \ {0}
  /\ MaxRequests \in [Clients -> Nat]
  /\ \A c \in Clients :
       /\ c + MaxRequests[c] \in UInt16
       /\ \A r \in Requests[c] : r.words \in Seq(UInt16)
  /\ Word \in Nat \ {0, 1}
  /\ Readings # <<>>
  /\ Readings \in Seq([voltage : Int, current : Int, power : Int, energyWh : Nat,
                       currentState : 0 .. Word - 1, activeFault : 0 .. Word - 1, freeHeapKiB : Nat,
                       uptimeSeconds : 0 .. Word * Word - 1, cents : 0 .. Word * Word - 1])
  /\ modbusMaxRegisters \in 1 .. 16

VARIABLES
  reading,                  \* which of Readings update() brought last
  client,                   \* client_, or NoClient
  requestCount, errorCount,
  connection, backlog,      \* of each client; those the server has not looked at
  sent,                     \* history: the requests of each client
  stream, arrived,          \* words not read yet, and how many of them are there
  answers                   \* what the server wrote to each client

netVars == <<connection, sent>>
streamVars == <<stream, arrived>>
serverVars == <<client, backlog, requestCount, errorCount, answers>>
vars == <<reading, serverVars, netVars, streamVars>>

NoClient == 0

Init ==
  /\ reading = 1
  /\ client = NoClient /\ backlog = <<>>
  /\ requestCount = 0 /\ errorCount = 0
  /\ connection = [c \in Clients |-> "none"]
  /\ sent = [c \in Clients |-> <<>>]
  /\ stream = [c \in Clients |-> <<>>] /\ arrived = [c \in Clients |-> 0]
  /\ answers = [c \in Clients |-> <<>>]

-----------------------------------------------------------------------------
\* The codec.  A register holds what fits.  Mutated form of scaled: too large a
\* value overflows.
scaledNoLimit(value) == IF value <= 0 THEN 0 ELSE value
scaled(value) == IF value <= 0 THEN 0 ELSE IF value >= Word - 1 THEN Word - 1 ELSE value

energyWh(wh) == IF wh <= 0 THEN 0 ELSE IF wh >= Word * Word - 1 THEN Word * Word - 1 ELSE wh

\* High word first.  Mutated form: low word first.
splitUint32LowFirst(value) == <<value % Word, value \div Word>>
splitUint32(value) == <<value \div Word, value % Word>>

registers(r) ==
  <<scaled(r.voltage), scaled(r.current), scaled(r.power)>>
    \o splitUint32(energyWh(r.energyWh))
    \o <<r.currentState, r.activeFault, r.freeHeapKiB % Word>>
    \o splitUint32(r.uptimeSeconds) \o splitUint32(r.cents)
    \o <<0, 0, 0, 0>>

NoRequest == [transactionId |-> 0, unitId |-> 0, function |-> 0, startAddress |-> 0, quantity |-> 0]

Malformed(frame) == frame[2] # 0 \/ frame[3] # 6 \/ frame[4] \div 256 = 0

Fields(frame) ==
  [transactionId |-> frame[1], unitId |-> frame[4] \div 256, function |-> frame[4] % 256,
   startAddress |-> frame[5], quantity |-> frame[6]]

\* Mutated form of Illegal: a request for no registers is legal.
IllegalUnlessEmpty(request) ==
  IF request.function \notin {3, 4} THEN "ILLEGAL_FUNCTION"
  ELSE IF request.quantity > modbusMaxRegisters THEN "ILLEGAL_VALUE"
  ELSE IF request.startAddress + request.quantity > 16 THEN "ILLEGAL_ADDRESS"
  ELSE "NONE"
Illegal(request) ==
  IF request.function \notin {3, 4} THEN "ILLEGAL_FUNCTION"
  ELSE IF request.quantity \notin 1 .. modbusMaxRegisters THEN "ILLEGAL_VALUE"
  ELSE IF request.startAddress + request.quantity > 16 THEN "ILLEGAL_ADDRESS"
  ELSE "NONE"

\* What is made of a frame: the request, empty when the frame is malformed, and
\* the error.
parseReadRequest(frame) ==
  IF Malformed(frame)
    THEN [request |-> NoRequest, error |-> "MALFORMED_FRAME"]
    ELSE [request |-> Fields(frame), error |-> Illegal(Fields(frame))]

\* Mutated form: address and value are mixed up.
exceptionCodeSwapped(error) ==
  CASE error = "ILLEGAL_FUNCTION" -> 1 [] error = "ILLEGAL_ADDRESS" -> 3 [] OTHER -> 2
exceptionCode(error) ==
  CASE error = "ILLEGAL_FUNCTION" -> 1 [] error = "ILLEGAL_ADDRESS" -> 2 [] OTHER -> 3

WithTopBit(function) == IF function < 128 THEN function + 128 ELSE function

\* A response: with an exception, or with the values.
buildExceptionResponse(request, error) ==
  <<[transactionId |-> request.transactionId, unitId |-> request.unitId,
     function |-> WithTopBit(request.function), exception |-> exceptionCode(error),
     values |-> <<>>]>>

\* There is none when it is empty or does not fit in 64 bytes.
buildReadResponse(request, values) ==
  IF values = <<>> \/ 9 + 2 * Len(values) > 64 THEN <<>>
  ELSE <<[transactionId |-> request.transactionId, unitId |-> request.unitId,
          function |-> request.function, exception |-> 0, values |-> values]>>

-----------------------------------------------------------------------------
update ==
  /\ reading < Len(Readings) /\ reading' = reading + 1
  /\ UNCHANGED <<serverVars, netVars, streamVars>>

Connected(c) == c # NoClient /\ connection[c] = "open"

\* When the client has gone, the next one is taken, if it is still there.
\* Mutated form of Accepts: only before there was a client.
AcceptsFirst == client = NoClient /\ backlog # <<>>
Accepts == ~Connected(client) /\ backlog # <<>>
Served == IF Accepts /\ Connected(Head(backlog)) THEN Head(backlog) ELSE client

\* Mutated form of FrameArrived: off by one.
FrameArrivedAndMore(c) == arrived[c] > 6
FrameArrived(c) == arrived[c] >= 6

\* Six words are read and answered.
Serve(c) ==
  LET parsed == parseReadRequest(SubSeq(stream[c], 1, 6))
      request == parsed.request
      response ==
        IF parsed.error # "NONE" THEN buildExceptionResponse(request, parsed.error)
        ELSE buildReadResponse(request, SubSeq(registers(Readings[reading]), request.startAddress + 1,
                                               request.startAddress + request.quantity))
  IN  /\ stream' = [stream EXCEPT ![c] = SubSeq(@, 7, Len(@))]
      /\ arrived' = [arrived EXCEPT ![c] = @ - 6]
      /\ answers' = [answers EXCEPT ![c] = @ \o response]
      /\ requestCount' = requestCount + 1
      /\ errorCount' = IF parsed.error # "NONE" \/ response = <<>> THEN errorCount + 1 ELSE errorCount

tick ==
  /\ client' = Served
  /\ backlog' = IF Accepts THEN Tail(backlog) ELSE backlog
  /\ \/ Connected(Served) /\ FrameArrived(Served) /\ Serve(Served)
     \/ /\ ~(Connected(Served) /\ FrameArrived(Served))
        /\ UNCHANGED <<requestCount, errorCount, answers, streamVars>>
  /\ UNCHANGED <<reading, netVars>>

-----------------------------------------------------------------------------
\* The clients and the network.
Connect(c) ==
  /\ connection[c] = "none" /\ connection' = [connection EXCEPT ![c] = "open"]
  /\ backlog' = Append(backlog, c)
  /\ UNCHANGED <<reading, client, requestCount, errorCount, answers, sent, streamVars>>

Send(c) ==
  /\ Connected(c) /\ Len(sent[c]) < MaxRequests[c]
  /\ \E r \in Requests[c] :
       /\ sent' = [sent EXCEPT ![c] = Append(@, r)]
       /\ stream' = [stream EXCEPT ![c] = @ \o <<c + Len(sent[c]) + 1>> \o r.words]
  /\ UNCHANGED <<reading, serverVars, connection, arrived>>

\* All of it arrives, or all but the last word: other cuts differ in nothing.
Arrive(c) ==
  /\ \E n \in {Len(stream[c]) - 1, Len(stream[c])} :
       arrived[c] < n /\ arrived' = [arrived EXCEPT ![c] = n]
  /\ UNCHANGED <<reading, serverVars, netVars, stream>>

\* What a client that leaves has sent is not read any more.
Leave(c) ==
  /\ Connected(c) /\ connection' = [connection EXCEPT ![c] = "closed"]
  /\ stream' = [stream EXCEPT ![c] = <<>>] /\ arrived' = [arrived EXCEPT ![c] = 0]
  /\ UNCHANGED <<reading, serverVars, sent>>

Next ==
  \/ update \/ tick
  \/ \E c \in Clients : Connect(c) \/ Send(c) \/ Arrive(c) \/ Leave(c)

\* NetworkTask runs and the network delivers; nothing is assumed of the clients.
Spec == Init /\ [][Next]_vars /\ WF_vars(tick) /\ \A c \in Clients : WF_vars(Arrive(c))

-----------------------------------------------------------------------------
Response ==
  [transactionId : UInt16, unitId : 0 .. 255, function : 0 .. 255, exception : 0 .. 3,
   values : Seq(0 .. Word - 1)]

TypeOK ==
  /\ reading \in DOMAIN Readings
  /\ client \in Clients \cup {NoClient} /\ backlog \in Seq(Clients)
  /\ requestCount \in Nat /\ errorCount \in 0 .. requestCount
  /\ connection \in [Clients -> {"none", "open", "closed"}]
  /\ DOMAIN sent = Clients /\ \A c \in Clients : sent[c] \in Seq(Requests[c])
  /\ stream \in [Clients -> Seq(UInt16)]
  /\ DOMAIN arrived = Clients /\ \A c \in Clients : arrived[c] \in 0 .. Len(stream[c])
  /\ answers \in [Clients -> Seq(Response)]

\* The answer that a request of twelve bytes states with it: the exception codes are
\* those of the Modbus standard, in the order in which the code looks for them.
\* Function codes from 128 on are those of exceptions.
ASSUME RequestAssumption ==
  \A c \in Clients : \A r \in Requests[c] : Len(r.words) = 5 =>
    LET function == r.words[3] % 256
        first == r.words[4]
        quantity == r.words[5]
    IN  /\ function < 128
        /\ r.malformed <=> (r.words[1] # 0 \/ r.words[2] # 6 \/ r.words[3] \div 256 = 0)
        /\ r.exception = IF r.malformed THEN 3
                         ELSE IF function \notin {3, 4} THEN 1
                         ELSE IF quantity \notin 1 .. modbusMaxRegisters THEN 3
                         ELSE IF first + quantity > 16 THEN 2 ELSE 0
        /\ r.registers = IF r.exception = 0 THEN quantity ELSE 0

\* The client has sent frames of twelve bytes only.
Aligned(c) == \A i \in DOMAIN sent[c] : Len(sent[c][i].words) = 5

\* The answer a is the one that the i-th request of a client states.
Answers(c, i, a) ==
  LET r == sent[c][i]
  IN  /\ a.exception = r.exception /\ Len(a.values) = r.registers
      /\ a.transactionId = IF r.malformed THEN 0 ELSE c + i
      /\ ~r.malformed => a.function = IF r.exception = 0 THEN r.words[3] % 256
                                                        ELSE (r.words[3] % 256) + 128

\* docs/modbus-register-map.md: unsupported or malformed requests receive an
\* exception (which one it does not say), the others their registers.  Each client gets the answers to its own
\* requests, one for each and in their order, whoever was served before it, however
\* its bytes arrive and whatever an earlier frame was, as long as its frames have
\* the length of a read request.  (A frame of another length is not skipped: it
\* shifts all that follow it, or waits for what follows it.)
AnswersMatch ==
  \A c \in Clients : Aligned(c) =>
    /\ Len(answers[c]) <= Len(sent[c])
    /\ \A i \in DOMAIN answers[c] : Answers(c, i, answers[c][i])

\* The answers written so far, by client and place, and those that are exceptions.
Written == {w \in Clients \X (1 .. requestCount) : w[2] <= Len(answers[w[1]])}
Exceptions == {w \in Written : answers[w[1]][w[2]].exception # 0}

\* No frame is left without an answer, well-formed or not, in step with its sender
\* or not, and the two counters that diagnostics report say how many there were.
FramesAreCounted ==
  requestCount = Cardinality(Written) /\ errorCount = Cardinality(Exceptions)

\* What a client decodes from an answer with all registers is reading k, up to what
\* two registers can hold.
Decodes(a, k) ==
  LET Double(n) == a.values[n] * Word + a.values[n + 1]
      Held(value) == IF value < Word * Word THEN value ELSE Word * Word - 1
  IN  /\ Double(4) = Held(Readings[k].energyWh)
      /\ Double(9) = Readings[k].uptimeSeconds
      /\ Double(11) = Readings[k].cents

\* A client that reads all registers gets the values of one measurement, with the
\* high and the low words put together right, and when it reads again it never gets
\* an older measurement, whoever else was served in between.
ReadingsGoForward ==
  \A c \in Clients :
    \E read \in [DOMAIN answers[c] -> DOMAIN Readings] :
      \A i \in DOMAIN answers[c] :
        /\ Len(answers[c][i].values) = 16 => Decodes(answers[c][i], read[i])
        /\ read[i] <= reading /\ \A j \in 1 .. i : read[j] <= read[i]

\* A client that is served gets all its answers without having to send another
\* request, unless it leaves or falls out of step.
RequestsAreAnswered ==
  \A c \in Clients :
    client = c ~> Len(answers[c]) = Len(sent[c]) \/ connection[c] = "closed" \/ ~Aligned(c)

\* A client that connects is served, or leaves, if all others leave in the end:
\* one that is silent or out of step keeps the server only as long as it stays.
WaitingClientsAreServed ==
  \A c \in Clients :
    (\A d \in Clients \ {c} : <>[](connection[d] # "open"))
      => (connection[c] = "open" ~> client = c \/ connection[c] = "closed")
=============================================================================
