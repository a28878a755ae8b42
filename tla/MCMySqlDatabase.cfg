SPECIFICATION Spec
CONSTANTS
  t1 = t1
  t2 = t2
  a = a
  b = b
  Tasks <- TwoTasks
  Names <- OneName
  QueueLimit = 1
  Faults = {"statement", "process", "crash"}
  MaxStores = 4
INVARIANTS
  QueueBounded
  NewestIsKept
PROPERTIES
  RepositorySpec
  RegressionIsRepaired
