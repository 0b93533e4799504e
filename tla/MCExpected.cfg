CONSTANTS
  Objects = {x, y, z}
  Payloads = {p, q}
  Moved = Moved
  Nothing = Nothing
  Absent = Absent
  Temp = Temp
  Throws = {"construct", "assign"}
SYMMETRY Symmetry
SPECIFICATION Spec
INVARIANT
  MembersLive
PROPERTY
  RefinesSum
