SPECIFICATION HistorySpec
CHECK_DEADLOCK FALSE
CONSTANTS
  u1 = u1
  u2 = u2
  g1 = g1
  NoUser = NoUser
  NoGroup = NoGroup
  NoProc = NoProc
  p1 = p1
  r1 = r1
  User = {u1, u2}
  Group = {g1}
  Proc = {p1}
  Reader = {r1}
  Op = {"create", "enter", "pass", "leave", "remove", "dismiss", "delete", "enable", "disable", "deleteUser", "update", "getInfo", "getList"}
  Alone = {"update"}
  Fault = {"rollback"}
  MaxCalls = 4
  MaxMsg = 1
SYMMETRY MCSymmetry
INVARIANTS
  CacheCoherent
  HistoryComplete
  FanOut
  HistoryTrue
  HistoryInv
