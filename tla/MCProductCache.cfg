CONSTANTS
  Products = {p0, p1}
  Rows = {p1}
  Fields = {price}
  Bodies <- SomeBodies
  MaxWrites = 2
  Ops = {o1}
  Flushes = {f1, f2}
  Instances = {i1}
  None = None
SPECIFICATION Spec
INVARIANTS TypeOK AppliedOrQueued
PROPERTIES ImplementsWriteBehind QueueDrains CacheSettles
