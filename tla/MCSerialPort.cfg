SPECIFICATION Spec
CONSTANTS
  Clients <- MCClients
  WriterOf <- MCWriterOf
  maxRetries = 1
INVARIANTS TypeOK WrittenIsReceived
PROPERTY HeartbeatGoesOn
