SPECIFICATION Spec
CONSTANTS
  Proc = {p1, p2}
  Phase = {provision, apply}
  Inode = {i1, i2, i3, i4}
  NoOp = NoOp
  NoInode = NoInode
  Serial = TRUE
SYMMETRY Symmetry
INVARIANTS
  TypeOK
  StateReadable
PROPERTIES
  OnlyResetForgets
  ImplementsLog
