CONSTANTS
  Instances = {i1}
  Users = {u1, u2}
  Tabs = {t1, t2, t3}
  Conns = {c1, c2}
  MaxId = 1
  Bodies <- OneOfEach
  UserOf <- SharedUser
  Broadcast = Broadcast
  NoConn = NoConn
  NoRequest = NoRequest
SPECIFICATION SafetySpec
INVARIANTS TypeOK Addressed OwedInFlight
PROPERTY ServesPages
SYMMETRY Symmetry
