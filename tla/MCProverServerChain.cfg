SPECIFICATION Spec
CONSTANTS
  c1 = c1
  c2 = c2
  b1 = b1
  b2 = b2
  NotJson = NotJson
  NotFelt = NotFelt
  NoBatch = NoBatch
  Torn = Torn
  Hash <- MCHash
  Zero = 0
  Body <- MCBody
  hash_request <- MCHashRequest
  Client <- OneClient
  Message <- OneMessage
  Capacity = 4
  MaxRequests = 3
PROPERTIES
  BatchesChain
