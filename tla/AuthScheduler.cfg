CONSTANTS
  Auth = {1, 2}
  Parent = {1, 2}
  Provider = {codex, gemini}
  Model = {m1}
  Priority = {0, 1}
  Snapshots <- ManySnapshots
  MixedRequests <- OneOrder
  Strategies = {"round-robin", "fill-first"}
  MaxTime = 3
  Codex = codex
  AnyModel = any
  codex = codex
  gemini = gemini
  m1 = m1
  any = any
  NoParent = NoParent
  NoAuth = NoAuth
  NoProvider = NoProvider
  NoSnapshot = NoSnapshot
  NoShard = NoShard
SPECIFICATION Spec
INVARIANTS TypeOK HeldByItsProvider IndexesAgree ReadyIsUnblocked NoneSetAsideForGood PickIsBest RefusalIsJustified
