SPECIFICATION Spec
CONSTANTS
  alice = alice
  bob = bob
  Usdc = Usdc
  Coin = Coin
  Token <- MCToken
  NoToken = NoToken
  NoBatch = NoBatch
  Torn = Torn
  NoProof = NoProof
  Id = {0, 1}
  User = {alice, bob}
  Key = {0, 11}
  StarkPrime = 13
  Zero <- MCZero
  NoCommitment <- MCZero
  Commitment <- MCCommitment
  poseidon_hash_many <- MCHashMany
  Request <- AllRequests
  Registration <- MCRegistration
  Capacity = 2
  MaxLog = 2
  MaxRegistrations = 2
  MaxCalldata = 2
INVARIANTS
  TreeUpdateVerified
CHECK_DEADLOCK FALSE
