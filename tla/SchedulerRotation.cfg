CONSTANTS
  Auth = {1, 2, 3}
  Parent = {1, 2}
  Provider = {codex, gemini}
  Model = {m1}
  Priority = {0}
  Snapshots <- RotatedSnapshots
  MixedRequests <- OneOrder
  Strategies = {"round-robin"}
  MaxTime = 2
  Codex = codex
  AnyModel = any
  codex = codex
  gemini = gemini
  m1 = m1
  NoParent = NoParent
  NoAuth = NoAuth
  NoProvider = NoProvider
  NoSnapshot = NoSnapshot
  NoShard = NoShard
  NoRequest = NoRequest
  MaxTried = 1
SPECIFICATION RotationSpec
INVARIANTS BoundedWait BoundedMixedWait
VIEW WithoutAnswer
