\* main of verify_tangem_signature: the phase-2 verdict against what the signature signs.
CONSTANTS
  RawSafeTxHash = RawSafeTxHash
  Sha256Once = Sha256Once
  Sha256Twice = Sha256Twice
  Keccak256Once = Keccak256Once
  PersonalSign = PersonalSign
  PubKeys = {"k1", "k2"}
  Addrs = {"a1", "a2"}
  Registered = "a1"
  Fail = Fail
  None = None
  Pending = Pending
  InvalidLength = InvalidLength
  InvalidHex = InvalidHex
  InvalidParity = InvalidParity
  Phase2Recoveries <- MCPhase2Recoveries
  Phase1Recoveries <- MCPhase1Recoveries
SPECIFICATION Spec
INVARIANTS TypeOK VerdictReflectsRecovery
