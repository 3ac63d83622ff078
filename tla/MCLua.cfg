SPECIFICATION LuaSpec
CONSTANTS
  Programs <- Written
  Refused <- WrittenBadly
  Code <- Compiled
  Meant <- Meanings
  OFFSET_sC = 2
  MAXARG_C = 5
  OFFSET_sBx = 3
  MAXINDEXRK = 2
  MAX_FSTACK = 85
  STACKSIZE = 60
  Idle <- FirstOnes
  Protos <- MCProtos
  VarintBase = 4
  INT_MAX = 15
  MAXUNSIGNED = 63
  InstructionSize = 4
  HeaderSize = 3
  LUAI_MAXSHORTLEN = 1
  Dumped <- luaU_dump
  Undumped <- luaU_undump
  Requests <- MCRequests
  Code0 <- Codes
  MAXCCALLS = 6
  LUA_MAXCAPTURES = 3
  Matched <- match
  Meant0 <- Expected
  Threads = {"main", "co"}
  Main = "main"
  LUAI_MAXCCALLS = 4
  ERRORCCALLS = 6
  MaxChoices = 6
INVARIANTS CompiledRunsAsWritten UndumpRestores MatchesAsPatternSays CountsMatchStack
PROPERTIES ReturnLeavesNothingOpen CallsKeepActivations
