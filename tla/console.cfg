CONSTANTS
  a = a
  b = b
  c = c
  t = t
  k = k
  NL = NL
  Chars = {a, b, c, t, k, NL, CR}
  CR = CR
  FifoDepth = 2
  MaxIrqs = 2
  MainText <- TwoLines
  IrqText <- TickLine
SPECIFICATION FairSpec
INVARIANTS NoOverrun TextPreserved HandlerLinesWhole
PROPERTIES EverythingSent
CHECK_DEADLOCK FALSE
