SPECIFICATION Spec
CONSTANTS
  Keys <- SomeKeys
  Deletable = {}
  Values = {v1, v2}
  Radix = 2
  NotFound = NotFound
INVARIANT TrieIsMap
