CONSTANTS
  base = base
  extension = extension
  plain = plain
  extended = extended
  composite = composite
  t1 = t1
  t2 = t2
  t3 = t3
  b1 = b1
  b2 = b2
  b3 = b3
  b4 = b4
  NULL = NULL
  Threads = {t1}
  Blocks = {b1, b2, b3}
  Names = {base, extension}
  BaseOf <- MCBaseOf
  Converters = {plain, extended, composite}
  PartsOf <- MCPartsOf
  Default = extended
  TableSize = 1
SPECIFICATION Spec
SYMMETRY MCSymmetry
INVARIANTS
  CachedIsInTable
