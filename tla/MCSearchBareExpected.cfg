\* An expected address without the 0x prefix against the byte-exact comparison.
CONSTANTS
  Labels = {l1, l2}
  Digests = {d1, d2}
  PubKeys = {k1, k2}
  Addrs = {a1, a2}
  Fail = Fail
  None = None
  Pending = Pending
  InvalidLength = InvalidLength
  InvalidHex = InvalidHex
  InvalidParity = InvalidParity
  MaxCands <- MCMaxCands
  SigLens <- MCSigLens
  RsHex <- MCRsHex
  VBytes <- MCVBytes
  ExpForms <- MCExpFormsBare
SPECIFICATION Spec
INVARIANTS ResultMeetsContract
