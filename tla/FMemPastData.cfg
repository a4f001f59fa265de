\* A stream that is moved past its data and read there.
SPECIFICATION Spec
CONSTANTS
  Size = 3
  SizeModulus = 16
  Reach = 9
  MaxCount = 4
  Bytes = {1, 2}
INVARIANT ReadsStayInData
CHECK_DEADLOCK FALSE
