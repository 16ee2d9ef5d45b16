CONSTANTS
  SystemState <- MCSystemState
  FaultCode <- MCFaultCode
  NoEvent <- MCNoEvent
  Events <- MCEvents
  ActualHeap = 1
SPECIFICATION Spec
PROPERTY FreeHeapIsServed
