SPECIFICATION Spec
CONSTANTS
  NoRow = NoRow
  Unset = Unset
  Unknown = Unknown
  ann = ann
  eve = eve
  nil = nil
  p1 = p1
  p2 = p2
  r1 = r1
  r2 = r2
  r3 = r3
  r4 = r4
  Requests = {r1, r2, r3, r4}
  Users = {ann, eve, nil}
  Passwords = {p1, p2}
  PasswordHashes <- MCPasswordHashes
  SeededAccounts <- MCSeededAccounts
  Calls <- MCCalls
  RepositoryKinds = {"custom"}
  NotFoundAddress = nil
  Faults = {}
PROPERTIES
  ReplayEndsFamily
