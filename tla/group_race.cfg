SPECIFICATION RaceSpec
CHECK_DEADLOCK FALSE
CONSTANTS
  u1 = u1
  u2 = u2
  g1 = g1
  g2 = g2
  p1 = p1
  p2 = p2
  NoUser = NoUser
  NoGroup = NoGroup
  NoProc = NoProc
  User = {u1, u2}
  Group = {g1}
  Proc = {p1, p2}
  Op = {"create", "enter", "pass", "leave", "remove", "dismiss", "delete", "enable", "disable", "deleteUser", "update", "getInfo", "getList"}
  Alone = {"update"}
  Fault = {"rollback", "crash", "redis"}
  MaxCalls = 4
SYMMETRY MCSymmetry
INVARIANTS GroupInv CountMatches OwnerIsMember DismissedEmpty ContactsMatch TrueUnlessRaced
PROPERTIES DismissedStays ImplementsAtomicGroups
