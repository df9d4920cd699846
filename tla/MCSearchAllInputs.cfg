\* Every input domain widened: a reported match is the first matching trial.
CONSTANTS
  Labels = {l1, l2}
  Digests = {d1, d2}
  PubKeys = {k1, k2}
  Addrs = {a1, a2}
  Fail = Fail
  None = None
  Pending = Pending
  InvalidLength = InvalidLength
  InvalidHex = InvalidHex
  InvalidParity = InvalidParity
  MaxCands <- MCMaxCands
  SigLens <- MCSigLensBad
  RsHex <- MCRsHexBad
  VBytes <- MCVBytesBad
  ExpForms <- MCExpFormsBare
SPECIFICATION Spec
INVARIANTS ReportedMatchIsFirst
