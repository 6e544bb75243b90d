CONSTANTS
  Products = {p1}
  Rows = {p1}
  Fields = {price, stock}
  Bodies <- AllBodies
  MaxWrites = 2
  Ops = {o1, o2}
  Flushes = {f1}
  Instances = {i1}
  None = None
SPECIFICATION Spec
PROPERTY OnlySuccessesRemoved
