CONSTANTS
  c1 = c1
  c2 = c2
  a = a
  b = b
  Conns = {c1, c2}
  Text = {a, b}
  Empty = Empty
  Garbage = Garbage
  Fin = Fin
  Rst = Rst
  MaxLines = 2
  NoConn = NoConn
SPECIFICATION FairSpec
INVARIANTS
  EchoesTheRequest
  OnlyBadLinesKill
PROPERTIES
  EveryClientSettled
