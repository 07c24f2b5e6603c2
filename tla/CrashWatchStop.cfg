CONSTANTS
  ServerId = {a}
  Client = {c1}
  Watch = watch0
  None = none
  MaxRestarts = 1
  MaxBoots = 0
  InspectFails = FALSE
SPECIFICATION Spec
PROPERTY
  StopIsNoCrash
