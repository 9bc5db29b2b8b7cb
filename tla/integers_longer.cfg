SPECIFICATION Spec
CONSTANTS
  WordBits = 2
  Widths = {2, 3, 4, 5}
PROPERTY CarryGoesOn
