CONSTANTS
  Users = {u1, u2}
  Bodies <- AllBodies
  MaxRows = 1
  Broadcast = Broadcast
  NoUser = NoUser
  NoData = NoData
SPECIFICATION Spec
INVARIANTS TypeOK EventsShown ReadsShown OwnList
PROPERTIES HeardIsListed
