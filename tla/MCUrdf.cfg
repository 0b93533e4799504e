CONSTANTS
  a = a
  b = b
  c = c
  b_sc = b_sc
  p = p
  q = q
  r = r
  t = t
  Absent = Absent
  NoName = NoName
  Documents <- SomeDocuments
  Options <- SomeOptions
  Wrapper <- SomeWrapper
SPECIFICATION Spec
CHECK_DEADLOCK FALSE
INVARIANTS
  ParserIsExact
  ExtractedIsPath
  ErrorsAreTrue
PROPERTY
  LoadReturns
