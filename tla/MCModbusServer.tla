----------------------------- MODULE MCModbusServer -----------------------------
(***************************************************************************)
(* ModbusServer for TLC: two clients, the second of which sends one        *)
(* request; registers of four values, so that small numbers need two       *)
(* registers and outgrow them.                                             *)
(***************************************************************************)
EXTENDS ModbusServer

MCClients == {100, 200}
MCMaxRequests == [c \in MCClients |-> IF c = 100 THEN 2 ELSE 1]

\* A frame after its transaction id: protocol, length, unit 1 and function, and the
\* rest; and the answer it must get.
Frame(length, function, rest, exception, registersRead) ==
  [words |-> <<0, length, 256 + function>> \o rest, exception |-> exception,
   registers |-> registersRead, malformed |-> FALSE]
Damaged(frame, i, word) ==
  [frame EXCEPT !.words[i] = word, !.exception = 3, !.registers = 0, !.malformed = TRUE]

ReadAll == Frame(6, 3, <<0, 16>>, 0, 16)

MCRequests == [c \in MCClients |-> {ReadAll} \cup
  IF c = 200 THEN {} ELSE
  {Frame(6, 4, <<15, 2>>, 2, 0),                       \* beyond the last register
   Frame(6, 3, <<0, 0>>, 3, 0),                        \* none
   Frame(6, 6, <<0, 1>>, 1, 0),                        \* write single register
   Damaged(ReadAll, 1, 1),                             \* another protocol
   Frame(2, 7, <<>>, 1, 0),                            \* read exception status: shorter
   Frame(8, 22, <<0, 1, 1>>, 1, 0)}]                   \* mask write register: longer

Reading(value) ==
  [voltage |-> value, current |-> 0, power |-> -1, energyWh |-> value, currentState |-> 0,
   activeFault |-> 0, freeHeapKiB |-> 0, uptimeSeconds |-> value + 1, cents |-> value + 2]
MCReadings == <<Reading(6), [Reading(9) EXCEPT !.energyWh = 17]>>
=============================================================================
