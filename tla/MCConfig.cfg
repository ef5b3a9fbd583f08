CONSTANTS
  Texts <- MCTexts
  NumberOf <- MCNumberOf
  LengthOf <- MCLengthOf
  Urls = {"http://x"}
  EnumTexts = {"7"}
  Shapes <- MCShapes
  Methods <- MCMethods
  MaxSteps = 3
  NaN = NaN
  None = None
SPECIFICATION Spec
CHECK_DEADLOCK FALSE
INVARIANTS FieldIsItsCalls AllProblemsReported HighestSourceWins
