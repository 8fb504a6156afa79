SPECIFICATION MCSpec
CONSTANTS
  fresh = fresh
  other = other
  Generations = {g1}
  NoGeneration = NoGeneration
  Cookies = {fresh, rotated}
  NoCookie = NoCookie
  Others = {other}
  TtlMs = 1
  AbsoluteMs = 1
  Clients = {keeper, c1}
  Keeper = keeper
  NoSession = NoSession
  NoEnvelope = NoEnvelope
  Captures <- MCCaptures
  MaxTime = 0
  MaxWrites = 1
INVARIANTS
  OnlyOthersStopACycle
PROPERTIES
  CycleEnds
