SPECIFICATION Spec
CONSTANTS
  NumBoardRows = 2
  NumFieldsFirstRow = 5
  MaxValue = 2
  NumFlags = 2
  NumRockCells = 2
  NumGrassCells = 2
  Layouts <- TheLayouts
INVARIANTS TypeOK CountersMatchBoard NextValMatchesBoard ScoreMatchesBoard GrassIsCollected RandomMoveIsLegal
PROPERTIES WinnerIsFinal

