SPECIFICATION Spec
CONSTANTS
  B = 4
  N16 = 2
  N32 = 2
  N64 = 2
  NMd5 = 1
  NotUtf8 = {3}
  Code <- MCCode
  NativeCodes = {1, 3}
  START = 2
  Bodies <- MCBodies
  Payloads <- MCPayloads
  Bits = 2
  I31 = 16
  CELL_WIDTH = 2
  CELL_HEIGHT = 3
  Glyphs <- MCGlyphs
  MissingGlyph <- MCMissingGlyph
  RealtimeText = 1
  Texts <- MCTexts
  Noise = {1}
  Strays <- MCStrays
  MaxItems = 2
INVARIANTS
  TypeOK
  AtBoundary
  FramesArrive
  NeverWaits
  PanelShowsText
CHECK_DEADLOCK FALSE
