SPECIFICATION Spec
CONSTANTS
  NumBoardRows = 2
  NumFieldsFirstRow = 3
  MaxMove = 4
  InitialPieces <- OneEach
INVARIANT FinalScoreCountsBoard
