SPECIFICATION Spec
CONSTANTS
  Keys <- ManyKeys
  Deletable <- FewKeys
  Values = {v1, v2}
  Radix = 2
  NotFound = NotFound
INVARIANTS SeparableIsMap NoWrongValue DisjointIsMap DamageStaysLocal
SYMMETRY ValueSymmetry
