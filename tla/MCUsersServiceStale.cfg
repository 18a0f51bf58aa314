SPECIFICATION Spec
CONSTANTS
  NoValue = NoValue
  NoUser = NoUser
  Unset = Unset
  NaN = NaN
  NotBoolean = NotBoolean
  u1 = u1
  U1 = U1
  u2 = u2
  k1 = k1
  k2 = k2
  admin = admin
  root = root
  dev = dev
  e1 = e1
  e2 = e2
  e3 = e3
  odd = odd
  r1 = r1
  r2 = r2
  r3 = r3
  Requests = {r1, r2, r3}
  Ids = {u1, U1, u2}
  Keys = {k1, k2}
  Emails = {e1, e2, odd}
  WellFormedEmails = {e1, e2}
  UpdatedEmail = e3
  CollisionEmails = {e1}
  Operators = {admin, root, dev}
  Admins = {admin, root}
  ProfileKey <- MCProfileKey
  OperatorId <- MCOperatorId
  SeededTable <- MCSeededTable
  Calls <- MCReadDelete
  RepositoryKinds = {"custom"}
  Faults = {}
INVARIANTS
  DeletionIsImmediate
