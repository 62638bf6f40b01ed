SPECIFICATION Spec
CONSTANTS
  t1 = t1
  t2 = t2
  Senders = {t1, t2}
  Jobs <- MCJobs
  Owner <- MCOwner
  FirstNonce <- MCFirstNonce
  ChainId <- MCChain
  Prices = {10, 20}
INVARIANTS
  SentAsPrepared
  FixedNonceOnce
  OwnNonceSeen
PROPERTIES
  SendReturns
CHECK_DEADLOCK FALSE
