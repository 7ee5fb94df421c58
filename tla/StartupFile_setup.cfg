SPECIFICATION Spec
CONSTANTS
  p1 = p1
  p2 = p2
  Runs = {p1, p2}
  Kinds = {"zshrc", "profile", "file"}
  Texts <- MCTexts
  Said = {"x", "y"}
  MaxSaid = 1
  Original = Original
  Absent = Absent
SYMMETRY MCSymmetry
INVARIANTS
  TypeOK
  WholeOrAsItWas
  KeepsTheRest
  ComesBack
  SetUpOnce
CHECK_DEADLOCK FALSE
