CONSTANTS
  Objects = {x, y}
  Payloads = {p}
  Moved = Moved
  Nothing = Nothing
  Absent = Absent
  Temp = Temp
  Throws = {"reinit"}
SPECIFICATION Spec
INVARIANT
  ThrowKeepsObjects
