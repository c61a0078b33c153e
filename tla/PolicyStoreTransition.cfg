\* A version that is no longer current takes a lifecycle transition.
SPECIFICATION Spec
CONSTANTS
  p1 = p1
  p2 = p2
  w1 = w1
  w2 = w2
  plain = plain
  t1 = t1
  t2 = t2
  a1 = a1
  o1 = o1
  o2 = o2
  None = None
  Process = {p1, p2}
  Policy = {w1}
  Reserved = {w1}
  Text = {t1, t2}
  Ambiguity = {a1}
  Option = {o1, o2}
  Time <- MCTime
  Capacity = 1
  MaxVersion = 2
  AskedMoves <- MCMoves
PROPERTIES
  OnlyCurrentVersionTransitions
SYMMETRY MCSymmetry
