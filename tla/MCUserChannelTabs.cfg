CONSTANTS
  Instances = {i1}
  Users = {u1}
  Conns = {c1, c2}
SPECIFICATION SafetySpec
INVARIANT UnsubscribeOnlyWithLast
