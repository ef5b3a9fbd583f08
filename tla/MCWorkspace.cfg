CONSTANTS
  p1 = p1
  p2 = p2
  a1 = a1
  aComment = aComment
  b1 = b1
  b2 = b2
  junk = junk
  NFiles = 2
  NKinds = 2
  JsonKinds = {2}
  Texts = {a1, aComment, b1, b2, junk}
  Loadable = {a1, aComment, b1, b2}
  Imports <- MCImports
  Declares <- MCDeclares
  Shape <- MCShape
  FirstSources <- MCFirst
  Drafts <- MCDrafts
  StubPair <- MCPair
  Patterns <- MCPatterns
  Procs = {p1, p2}
  MaxRunning = 2
  MaxEdits = 1
  MaxFaults = 1
  Absent = Absent
  Torn = Torn
  Headerless = Headerless
SPECIFICATION Spec
SYMMETRY MCSymmetry
CHECK_DEADLOCK FALSE
PROPERTIES CheckIsRight GenerateRefreshes GenerateIsScoped StubIsRight VerifyIsRight
