CONSTANTS
  Input <- MCInput
SPECIFICATION Spec
INVARIANTS
  BufferSizesDoNotMatter
