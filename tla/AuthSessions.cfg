SPECIFICATION MCSpec
CONSTANTS
  fresh = fresh
  other = other
  Generations = {g1, g2}
  NoGeneration = NoGeneration
  Cookies = {fresh, rotated}
  NoCookie = NoCookie
  Others = {other}
  TtlMs = 1
  AbsoluteMs = 0
  Clients = {h1, bg}
  Handlers = {h1}
  Kinds = {"handoff", "refresh", "renew", "logout", "use"}
  NoSession = NoSession
  NoEnvelope = NoEnvelope
  Captures <- MCCaptures
  MaxTime = 0
  MaxWrites = 2
  People = {p1, p2}
  Windows = {w1, w2}
  States = {s1}
  Callbacks = {b1, b2}
  Shared = Shared
  MaxCookies = 2
  MaxSignIns = 1
SYMMETRY Symmetry
INVARIANTS
  OneOtherRenewalIsMerged
  RenewalAnswersTruly
  TokenSeesOwnSession
  DeadHasACause
  SignInsAreOwn
