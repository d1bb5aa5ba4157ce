SPECIFICATION Spec
CONSTANTS
  c1 = c1
  c2 = c2
  bad = bad
  FlagKeys = {"f"}
  SegmentKeys = {1, 2}
  Conditions = {c1, c2}
  Descriptions = {"old", "new"}
  FlagTypes = {"boolean", "string"}
  Values = {"true", "false", "text"}
  ValuesOf <- MCValuesOf
  MaxRule = 2
  NoValue = NoValue
  Absent = Absent
  JSONTrue = "true"
  JSONFalse = "false"
  Malformed = {bad}
  Workload <- Transactions
  Stored <- FromFlag
  Sessions = {s1, s2}
  MaxIdle = 2
  MaxSegConds = 1
SYMMETRY Symmetry
INVARIANT StaysSound
PROPERTY ImplementsCatalog
