\* Signature texts of the wrong length against the contract's InvalidLength.
CONSTANTS
  Labels = {l1, l2}
  Digests = {d1, d2}
  PubKeys = {k1, k2}
  Addrs = {a1, a2}
  Fail = Fail
  None = None
  Pending = Pending
  InvalidLength = InvalidLength
  InvalidHex = InvalidHex
  InvalidParity = InvalidParity
  MaxCands <- MCMaxCands
  SigLens <- MCSigLensBad
  RsHex <- MCRsHex
  VBytes <- MCVBytes
  ExpForms <- MCExpForms
SPECIFICATION Spec
INVARIANTS ResultMeetsContract
