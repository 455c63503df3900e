SPECIFICATION PlatformSpec
CONSTANTS
  w1 = w1
  w2 = w2
  w3 = w3
  n1 = n1
  n2 = n2
  p1 = p1
  p2 = p2
  k1 = k1
  k2 = k2
  k3 = k3
  VerifiedPublishers = {"legalise"}
  KeyedPublishers = {"legalise"}
  Catalogue <- CatalogueDef
  Manifests <- ManifestsDef
  Updates <- UpdatesDef
  Actors = {n1, n2}
  MaxCeremonies = 2
  MaxFailures = 1
  Exports <- ExportsDef
  Packs = {pack}
  Callers = {w1, w2, w3}
  Versions = {1}
  Shapes <- ShapesDef
  Owners = {o1, o2}
  ApiKeys = {"a", "b"}
  Secrets = {k1, k2, k3}
  FirstSecret = k1
  BatchSize = 1
  MaxSaves = 2
  MaxRuns = 2
  NoRow = NoRow
  Calls = {w1, w2, w3}
  Limit <- LimitDef
  Sizes = {1, 2}
  MaxDays = 1
  People = {p1, p2}
  Acts = {w1, w2, w3}
  NoUser = NoUser
  AutoAdmin = TRUE
INVARIANTS
  
  
  PackWhole
  StateExplained
  KeysKept
  OvershootBounded
  
  
SYMMETRY RequestSymmetry
CHECK_DEADLOCK FALSE
