SPECIFICATION MCSpec
CONSTANTS
  u1 = u1
  u2 = u2
  u3 = u3
  Users <- MCUsers
  NoUser = NoUser
  FD_SETSIZE = 2
  OpenMax = 2
  START_ID = 1000
  LISTENQ = 1
  ProcMax = 2
  May <- MCMay
  MaxTyped = 1
  h1 = h1
  h2 = h2
  Talkers <- MCTalkers
  Nowhere = Nowhere
  TableSize = 3
  FirstId = 1000
  MaxLines <- MCLines
  k1 = k1
  k2 = k2
  p1 = p1
  p2 = p2
  r1 = r1
  r2 = r2
  x = x
  NoItem = NoItem
  Free = Free
  Producers <- MCProducers
  Consumers <- MCConsumers
  BUFFER_SIZE = 1
  Items <- MCItems
  Callers <- MCCallers
  NoCaller = NoCaller
  BACKLOG = 2
  ProcTable = 1
INVARIANTS
  RoundsSafe
  NumbersRight
  TalkersRight
  UnansweredOnlyIfRefused
PROPERTIES
  AllButThirdHear
  UsersServed
  EveryCallerAnswered
  BufferNeverStalls
CHECK_DEADLOCK FALSE
