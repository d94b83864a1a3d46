CONSTANTS
  a = a
  b = b
  Servers = {a, b}
  Calls = {1}
  MaxVersion = 2
  Stores <- Every
  Transports = {1, 2}
  Listens = {1}
SPECIFICATION Spec
SYMMETRY Permuted
INVARIANTS
  TypeOK
  NoStaleHit
  ListenBelongs
  ReadyIsConnected
CHECK_DEADLOCK FALSE
