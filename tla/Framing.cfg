CONSTANTS
  Base = 2
  Width = 2
  Payloads <- SomePayloads
  Capacities = {0, 1, 3, 4}
  MaxSent = 3
  WireCap = 3
SPECIFICATION Spec
INVARIANTS
  BytesInOrder
PROPERTIES
  ImplementsChannel
