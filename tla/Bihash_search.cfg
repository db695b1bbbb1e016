SPECIFICATION Spec
CONSTANTS
  Threads = {"t1", "t2"}
  Readers = {"r"}
  Keys = {"a", "b", "c", "d"}
  Vals = {"x"}
  Replaced = {}
  Buckets = {1, 2}
  BucketOf <- MCBucketOf
  PageHash <- MCPageHash
  PerPage = 1
  AtBucketLevel = {TRUE, FALSE}
  Debug = {TRUE}
  NBlocks = 6
  MaxLog2 = 3
  Budgets <- MCBudgets
INVARIANT SearchLinear
