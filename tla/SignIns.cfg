CONSTANTS
  Procs = {p1, p2}
  Sessions = {corp}
  Legacy = {}
  Ports = {8080}
  Conns = {c1}
  Intervals = {0, 1}
  Lifetimes = {4}
  DefaultInterval = 1
  SlowDownStep = 1
  PkceTimeout = 1
  None = None
  MaxAttempts = 2
  MaxClients = 2
SPECIFICATION FairSpec
INVARIANTS TypeOK WaitEndsWithItsOwn AnswerComesFirst TokenKeepsItsClient
PROPERTIES PollsArePaced LoginsEnd
