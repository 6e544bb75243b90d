CONSTANTS
  Instances = {i1}
  Users = {u1}
  Conns = {c1, c2, c3}
SPECIFICATION Spec
INVARIANTS TypeOK RefsBounded NoChannelLeak ExactUnlessOverlap
PROPERTIES StreamOpens ChannelReleased
