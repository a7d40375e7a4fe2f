CONSTANTS
  Ports = {p1}
  Listeners = {l1, l2}
  Conns = {c1, c2}
  r1 = r1
  r2 = r2
  x = x
  y = y
  s1 = s1
  s2 = s2
  Ids = {r1, r2}
  Agents = {x, y}
  Sources = {s1, s2}
  Rules <- MCRules
  Keeps <- MCKeeps
  Limit = 2
  MaxGen = 1
  None = None
SPECIFICATION Spec
SYMMETRY RelaySymmetry
INVARIANTS RelaysAreDeclared 
