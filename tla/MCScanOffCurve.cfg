\* Uncompressed keys off the curve.
CONSTANTS
  Variants = {"all_wallets"}
  MaxWallets <- MCMaxWallets
  Xs <- MCXs
  CurveXs <- MCXs
  X04 <- MCNoX
  YForms <- MCAllYs
  CompLeads <- MCCompLeads
  PrefLeads <- MCPrefLeads
  KeyLens <- MCUncompressedOnly
  HexOK <- MCHexValid
  Backends <- MCCoincurve
SPECIFICATION Spec
INVARIANTS MatchesSound
