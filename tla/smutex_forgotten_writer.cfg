\* A writer that registers while another unlocks.
CONSTANTS
  Threads = {w1, w2}
  Writers = {w1, w2}
  Readers = {}
  CountMod = 4
SPECIFICATION Spec
SYMMETRY Symmetry
INVARIANTS
  NoForgottenWriter
