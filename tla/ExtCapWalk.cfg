\* Lists of up to 3 entries starting at dword 16, or near the top of the
\* 16-bit offset range, with next pointers 1, 16 and 255, or no list.
CONSTANTS
  XecpValues = {0, 16, 65400}
  NextValues = {1, 16, 255}
  CapIds = {1, 2}
  MaxCaps = 3
SPECIFICATION Spec
CONSTRAINT LogBound
INVARIANT WalkMatchesList
PROPERTY WalkEnds
CHECK_DEADLOCK FALSE
