\* A command ring of 4 TRBs at physical address 0x40; the xHC may post a
\* completion for any command slot or a Transfer, Port Status Change or
\* Host Controller Event.
CONSTANTS
  RingBase = 64
  RingLen = 4
  OtherEvents = {32, 34, 37}
SPECIFICATION Spec
INVARIANT TypeOK
INVARIANT TryFromDecodesExactly
