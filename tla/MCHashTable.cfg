\* Tables of 2, 4 and 8 buckets; a step skips at most two empty buckets.
CONSTANTS
  v1 = v1
  v2 = v2
  Keys <- FewKeys
  Values = {v1, v2}
  NoValue = NoValue
  Hash <- Colliding
  InitSize = 2
  MaxLoadFactor = 0
  EmptyVisits = 2
SPECIFICATION Spec
INVARIANT Consistent
INVARIANT NothingBehindIndex
INVARIANT LoadIsBounded
PROPERTY RehashAdvances
PROPERTY ImplementsStore
