\* Valid encodings of curve points, both backends: the all-wallets scan finds exactly the spec's matches.
CONSTANTS
  Variants = {"all_wallets"}
  MaxWallets <- MCMaxWallets
  Xs <- MCXs
  CurveXs <- MCXs
  X04 <- MCNoX
  YForms <- MCCurveYs
  CompLeads <- MCCompLeads
  PrefLeads <- MCPrefLeads
  KeyLens <- MCKeyLens
  HexOK <- MCHexOK
  Backends <- MCBothBackends
SPECIFICATION Spec
INVARIANTS TypeOK MatchesSound MatchesComplete
