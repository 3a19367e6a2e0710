SPECIFICATION FairSpec
CONSTANTS
  Over <- MCOver
  Turn <- MCTurn
  Winner <- MCWinner
  NormalMoves <- MCNormal
  FlagMoves <- MCFlags
  Outcomes <- MCOutcomes
  MaxFlagPositions = 1
  FlagsFirst = FALSE
  Batch = 4
  UpperBounds <- MCBounds
  Recorders = {cpu, other}
  Cpu = cpu
  CpuNum = 2
  OtherSuggestions <- OneSuggestion
  Times = {2}
  MaxSuggestions = 1
INVARIANTS LiveChildrenCounted CountsAddUp SureWinIsSuggested ReportIsConsistent
PROPERTY SearchEnds
CHECK_DEADLOCK FALSE
