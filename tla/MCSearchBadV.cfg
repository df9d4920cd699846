\* A v byte outside {0, 1, 27, 28} against the contract's InvalidParity.
CONSTANTS
  Labels = {l1, l2}
  Digests = {d1, d2}
  PubKeys = {k1, k2}
  Addrs = {a1, a2}
  Fail = Fail
  None = None
  Pending = Pending
  InvalidLength = InvalidLength
  InvalidHex = InvalidHex
  InvalidParity = InvalidParity
  MaxCands <- MCMaxCands
  SigLens <- MCSigLens
  RsHex <- MCRsHex
  VBytes <- MCVBytesBad
  ExpForms <- MCExpForms
SPECIFICATION Spec
INVARIANTS ResultMeetsContract
