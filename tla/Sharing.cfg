SPECIFICATION MCSpec
CONSTANTS
  c1 = c1
  c2 = c2
  c3 = c3
  hello = hello
  clem = clem
  NoClient = NoClient
  Clients <- MCClients
  MAX_CHATS = 2
  Backlog = 2
  Speech <- MCSpeech
  Name <- MCName
  MaxSent <- MCMaxSent
  p1 = p1
  p2 = p2
  r1 = r1
  r2 = r2
  x = x
  y = y
  NoItem = NoItem
  Free = Free
  Producers <- MCProducers
  Consumers <- MCConsumers
  BUFFER_SIZE = 2
  Items <- MCItems
SYMMETRY Symmetry
CHECK_DEADLOCK FALSE
INVARIANTS
  ChatTypeOK
  TableRight
  NoBlockingRead
  TypeOK
  BufferSafe
  Accounted
  SomebodyCanMove
PROPERTIES
  ImplementsRoom
  ImplementsStack
