SPECIFICATION Spec
CONSTANTS
  NoValue = NoValue
  a = a
  A = A
  b = b
  ka = ka
  kb = kb
  web = web
  cli = cli
  r1 = r1
  r2 = r2
  r3 = r3
  r4 = r4
  Requests = {r1, r2, r3, r4}
  Emails = {a, A, b}
  Agents = {web, cli}
  Keys = {ka, kb}
  SessionKey <- MCSessionKey
  Calls <- MCCalls
  Faults = {"crash", "cache_error", "lost_reply"}
INVARIANTS
  TypeOK
  SessionsExpire
  NoResurrection
  RevocationIsFinal
  AnswerMatchesFootprint
