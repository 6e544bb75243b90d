CONSTANTS
  Instances = {i1}
  Users = {u1}
  Tabs = {t1}
  Conns = {c1}
  MaxId = 2
  Bodies <- UserBodies
  UserOf <- OneUser
  Broadcast = Broadcast
  NoConn = NoConn
  NoRequest = NoRequest
SPECIFICATION SafetySpec
INVARIANT NothingLost
