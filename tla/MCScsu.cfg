CONSTANTS
  Alphabet <- MCAlphabet
  WindowUse <- initialWindowUse
  MaxUnits = 5
SPECIFICATION Spec
INVARIANTS
  ScsuTypeOK
  DecoderFollows
  DecodedIsGiven
  ThreeBytesPerUnit
  LoopsRotate
PROPERTIES
  WindowUseIsRecency
