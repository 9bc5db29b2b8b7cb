SPECIFICATION MCSpec
CONSTANTS
  WordBits = 2
  Widths <- SmallWidths
  KeptBits = 3
  WideBits = 5
INVARIANTS
  TypeOK
  OrderIsNumeric
  WordTypeOK
PROPERTIES
  ActsAsModularInt
  ActsAsModularWord
