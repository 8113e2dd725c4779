CONSTANTS
  Packets = {p1, p2}
  Base = 2
  Scripts <- MCScripts
  Fields = {0, 1}
SPECIFICATION Spec
INVARIANTS  ReadBack WrittenIsAccepted
SYMMETRY Symmetry
