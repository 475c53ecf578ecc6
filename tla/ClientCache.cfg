SPECIFICATION Spec
CONSTANTS
  t1 = t1
  t2 = t2
  Threads = {t1, t2}
  Names <- MCNames
  Trim <- MCTrim
  Fold <- MCFold
  Catalogue <- MCCatalogue
  WreqProfile <- MCWreqProfile
  Platform <- MCPlatform
  PassThrough = "pass-through"
  Fallback = "rustls_default"
  None = "none"
  MaxBuilds = 4
SYMMETRY Symmetry
INVARIANTS
  TypeOK
  OneClientPerKey
  FingerprintIsRight
