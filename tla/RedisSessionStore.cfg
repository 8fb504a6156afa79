SPECIFICATION StoreSpec
CONSTANTS
  g1 = g1
  g2 = g2
  c1 = c1
  c2 = c2
  c3 = c3
  fresh = fresh
  rotated = rotated
  other = other
  Generations = {g1, g2}
  NoGeneration = NoGeneration
  Cookies = {fresh, rotated}
  NoCookie = NoCookie
  Others = {other}
  TtlMs = 2
  AbsoluteMs = 2
  Clients = {c1, c2}
  NoSession = NoSession
  NoEnvelope = NoEnvelope
  Captures <- MCCaptures
  MaxTime = 2
  MaxWrites = 2
SYMMETRY Symmetry
INVARIANTS
  LogoutIsFinal
PROPERTIES
  LifeRefined
  QualifiedCallsSpareOthers
  NoLostRenewal
