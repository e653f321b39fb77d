SPECIFICATION FairSpec
CONSTANTS
  Queries <- MCQueries
  U64 = 16777216
  FunctionName <- MCFunctionName
  CellDigits = 4
  SymbolName <- MCSymbolName
  Memory <- MCMemory
  Registers <- MCRegisters
  Datatypes <- MCDatatypes
  Externals <- MCExternals
  Comments <- MCComments
  Strings <- MCStrings
  MaxCommands = 2
  MaxQueries = 2
INVARIANTS
  InSync
  ResultsAreOwn
PROPERTIES
  
  CommandEnds
CHECK_DEADLOCK FALSE
