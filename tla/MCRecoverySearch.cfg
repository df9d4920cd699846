\* Well-formed calls of verify_signature_recovery.
CONSTANTS
  Labels = {l1, l2}
  Digests = {d1, d2}
  PubKeys = {k1, k2}
  Addrs = {a1, a2}
  Fail = Fail
  None = None
  Pending = Pending
  InvalidLength = InvalidLength
  InvalidHex = InvalidHex
  InvalidParity = InvalidParity
  MaxCands <- MCMaxCands
  SigLens <- MCSigLens
  RsHex <- MCRsHex
  VBytes <- MCVBytes
  ExpForms <- MCExpForms
SPECIFICATION Spec
INVARIANTS TypeOK ResultMeetsContract
PROPERTIES ImplementsFindMatch
