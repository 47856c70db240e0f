CONSTANTS
  e1 = e1
  e2 = e2
  Items = {e1, e2}
  Capacity = 4
  Zero = Zero
  Ok = Ok
  Failed = Failed
SPECIFICATION Spec
PROPERTIES ImplementsFifo
