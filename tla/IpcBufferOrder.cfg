\* The buffers in the order of the program, as in
\* appletQueryApplicationPlayStatistics.
SPECIFICATION Spec
CONSTANTS
  MaxAdds = 2
  RawSizes = {4}
  AnyOrder = {"buffers"}
  PointerSize = 0
INVARIANTS
  MessageFound
