SPECIFICATION PartsSpec
CONSTANTS
  Principals = {u1, u2}
  NoBucket = NoBucket
  Cost = 3
  Rate = 2
  Burst = 2
  BucketTtl = 2
  MaxSubjects = 1
  LastSecond = 4
  MaxLate = 1
  Openers = {p1, p2, p3}
  OldOpeners = {p3}
  Nobody = Nobody
  MetadataSteps = 2
  MaxCrashes = 1
  MaxLosses = 1
  MaxRequest = 2
  MaxResponse = 2
  MaxError = 1
  Largest = 3
  Importers = {i1, i2}
  Loaders = {l1}
  Operator = Operator
  Names = {"a", "b"}
  Files = {"a.yaml", "b.yaml"}
  FileOf <- MCFileOf
  NoFile = NoFile
  MaxOperations = 2
  MaxEdits = 1
  MaxFaults = 1
  Arguments = {"id", "body"}
  BodyArgument = "body"
  NoArgument = "none"
  Tokens <- MCTokens
  IndexOf <- MCIndexOf
  Documents <- MCDocuments
  Pointers <- MCPointers
  MaxMasks = 3
INVARIANTS
  RateTypeOK RateHolds
  StartupTypeOK SchemaInOrder OneVaultKey RefusalsAreExplained
  ProxyTypeOK BuffersAreBounded AnswerIsTruthful
  ImportIsAllOrNothing LoadIsComplete ArgumentsAreSentOnce MaskRemovesExactly
PROPERTIES RetryAfterIsHonest StartupEnds CallSettles
CHECK_DEADLOCK FALSE
