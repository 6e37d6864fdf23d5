SPECIFICATION Spec
CONSTANTS
  Null = Null
  d1 = d1
  d2 = d2
  d3 = d3
  app = app
  Instances = {a, b}
  Documents = {d1, d2, d3}
  CollectionOf <- MCCollectionOf
  Applications = {app}
  ApplicationOf <- MCApplicationOf
  Legacies <- MCLegacies
  MaxRetries = 1
  LaggingReads = {"collections"}
INVARIANTS
  RenamedBeforeServing
