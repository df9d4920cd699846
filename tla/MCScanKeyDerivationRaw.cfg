\* The test_key_derivation version on 64-byte raw keys.
CONSTANTS
  Variants = {"key_derivation"}
  MaxWallets <- MCMaxWallets
  Xs <- MCXs
  CurveXs <- MCXs
  X04 <- MCNoX
  YForms <- MCCurveYs
  CompLeads <- MCCompLeads
  PrefLeads <- MCPrefLeads
  KeyLens <- MCRawOnly
  HexOK <- MCHexValid
  Backends <- MCCoincurve
SPECIFICATION Spec
INVARIANTS MatchesComplete
