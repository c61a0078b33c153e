\* Two processes create, amend, decide, delete and retire: two workspaces that
\* compete for one place and a plain project that may be created again.
SPECIFICATION Spec
CONSTANTS
  p1 = p1
  p2 = p2
  w1 = w1
  w2 = w2
  plain = plain
  t1 = t1
  t2 = t2
  a1 = a1
  o1 = o1
  o2 = o2
  None = None
  Process = {p1, p2}
  Policy = {w1, w2, plain}
  Reserved = {w1, w2}
  Text = {t1}
  Ambiguity = {a1}
  Option = {o1, o2}
  Time <- MCTime
  Capacity = 1
  MaxVersion = 3
  AskedMoves <- MCMoves
INVARIANTS
  VersionsFormOneChain
  DecisionsReproduce
PROPERTIES
  ImplementsHistory
CONSTRAINT MCBound
SYMMETRY MCSymmetry
