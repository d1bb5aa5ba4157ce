SPECIFICATION CatalogSpec
CONSTANTS
  c1 = c1
  c2 = c2
  bad = bad
  FlagKeys = {"f"}
  SegmentKeys = {1, 2}
  Conditions = {c1, c2}
  Descriptions = {"old", "new"}
  FlagTypes = {"boolean", "string"}
  Values = {"true", "false", "text"}
  ValuesOf <- MCValuesOf
  MaxRule = 2
  NoValue = NoValue
  Absent = Absent
  JSONTrue = "true"
  JSONFalse = "false"
  Malformed = {bad}
  Workload <- Changes
  Stored <- FromEmpty
  Sessions = {s1, s2}
SYMMETRY Symmetry
INVARIANT TypeOK
INVARIANT Consistent
INVARIANT NeverUnguarded
INVARIANT DefaultsHaveType
