SPECIFICATION BatchSpec
CONSTANTS
  c1 = c1
  c2 = c2
  bad = bad
  FlagKeys = {"f", "g"}
  SegmentKeys = {1}
  Conditions = {c1, c2}
  Descriptions = {"old", "new"}
  FlagTypes = {"boolean", "string"}
  Values = {"true", "false", "text"}
  ValuesOf <- MCValuesOf
  MaxRule = 2
  NoValue = NoValue
  Absent = Absent
  JSONTrue = "true"
  JSONFalse = "false"
  Malformed = {bad}
  Batches <- Thrice
  Workload <- ReadsAndWrites
  Stored <- FromRule
  Sessions = {s1, s2}
  MaxIdle = 2
  MaxSegConds = 1
SYMMETRY Symmetry
INVARIANT SnapshotRead
INVARIANT BatchReadsForward
