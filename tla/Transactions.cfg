SPECIFICATION Spec
CONSTANTS
  MaxTransactions = 3
  MaxPayload = 3
  Null = Null
INVARIANTS
  TypeOK
  RequestsAreCommands
  AnsweredInTurn
  OkIsComplete
  AskedAgainEnds
PROPERTIES
  Answered
CHECK_DEADLOCK FALSE
