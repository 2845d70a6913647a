SPECIFICATION Spec
CHECK_DEADLOCK FALSE
CONSTANTS
  u1 = u1
  u2 = u2
  g1 = g1
  g2 = g2
  p1 = p1
  p2 = p2
  NoUser = NoUser
  NoGroup = NoGroup
  NoProc = NoProc
  User = {u1, u2}
  Group = {g1}
  Proc = {p1, p2}
  Op = {"create", "enter", "update"}
  Alone = {}
  Fault = {}
  MaxCalls = 3
INVARIANT CountMatches
