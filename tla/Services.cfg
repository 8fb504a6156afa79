SPECIFICATION ServicesSpec
CONSTANTS
  MaxRequests = 5
  Courses = {1, 2}
  Contents <- SmallContents
  YearDays = 3
  LastDay = 3
  Plain = Plain
  Foreign = Foreign
  NoProgress = NoProgress
  Concurrency = 1
  MaxLists = 1
  MaxHides = 1
  Works = {1, 2}
  DueHours = {0, 36, 48}
  FirstHour = 29
  LastHour = 30
  DueSoon = 12
  Irs = Irs
  Jadwal = Jadwal
  Mata = Mata
  SliceOrder <- SmallSliceOrder
  SourceOf <- SmallSources
  MaxLoads = 2
  Kodes = {1, 2}
  Watched = {1}
  FirstMonth = 4
  LastMonth = 12
  MaxMeetings = 2
  Codes = {1, 2, 3}
  MaxPolls = 2
  Items = {i1, i2, i3}
  WithPage = {i1, i2}
  Nothing = Nothing
  Outlines <- SmallOutlines
  YearLength = 3
  MaxOpens = 3
  fresh = fresh
  other = other
  Generations = {g1, g2}
  NoGeneration = NoGeneration
  Cookies = {fresh, rotated}
  NoCookie = NoCookie
  Others = {other}
  TtlMs = 1
  AbsoluteMs = 1
  Clients = {k1, k2}
  NoSession = NoSession
  NoRecord = NoRecord
  Captures <- SmallCaptures
  MaxTime = 2
SYMMETRY ClientsAlike
CHECK_DEADLOCK FALSE
INVARIANTS
  ResponsesAreRead
  CourseListIsTrue
  CourseworkAgrees
  DashboardIsHonest
  RecordsAgree
  ScreensHold
PROPERTIES
  MapLifeRefined
