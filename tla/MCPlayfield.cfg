SPECIFICATION ChipsSpec
CONSTANTS
  Opcodes <- MCOpcodes
  Machines <- MCCpuMachines
  Steps <- MCCpuSteps
  TimerMax = 7
  Prescales <- MCPrescales
  DefaultPrescale = 4
  PollPeriod = 2
  Programs <- MCPrograms
  Begin <- MCBegin
  Offers <- MCOffers
  End <- MCEnd
  Rate <- MCRate
  Drain = 2000
  Threshold = 33826
CHECK_DEADLOCK FALSE
INVARIANT
  FieldAsWritten
