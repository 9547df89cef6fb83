SPECIFICATION PieceSpec
CONSTANTS
  Size = 4
  Bytes = {0, 1, 2}
INVARIANTS
  ComparesTexts
  ShowsWhatIsLeft
