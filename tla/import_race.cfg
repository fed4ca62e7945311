SPECIFICATION FilesSpec
CONSTANTS
  Importers = {i1, i2}
  Loaders = {}
  Operator = Operator
  Names = {"a", "b"}
  Files = {"a.yaml", "b.yaml"}
  FileOf <- MCFileOf
  NoFile = NoFile
  MaxOperations = 2
  MaxEdits = 0
  MaxFaults = 0
INVARIANT ImportSparesOthers
CHECK_DEADLOCK FALSE
