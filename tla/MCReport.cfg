CONSTANTS
  Bundle = {b1, b2}
  Event <- MCEvents
  Type <- MCTypes
  X = X
  Y = Y
  Page = {1, 2}
  Contents <- MCContents
  Exception = {"cppcrash"}
  Segment = 2
  MaxInputs = 4
  MaxExceptions = 1
SPECIFICATION Spec
INVARIANTS
  EveryInputCounted
  EveryExceptionCounted
  ReportSurvives
  ReportsAgree
  FocusLinesOnce
  CoverageWithinBounds
SYMMETRY MCSymmetry
