SPECIFICATION Spec
CONSTANTS
  Conns = {c1, c2}
  Texts = {"0", "1", "yes", "no"}
  MaxNumber = 1
INVARIANT SetsVisible
