CONSTANTS
  Clients <- MCClients
  Requests <- MCRequests
  MaxRequests <- MCMaxRequests
  Readings <- MCReadings
  Word = 4
  modbusMaxRegisters = 16
SPECIFICATION Spec
INVARIANTS TypeOK AnswersMatch FramesAreCounted ReadingsGoForward
PROPERTIES RequestsAreAnswered WaitingClientsAreServed
