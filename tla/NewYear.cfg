SPECIFICATION CoursesSpec
CONSTANTS
    Courses = {1}
    Contents <- SmallContents
    YearDays = 3
    LastDay = 4
    Plain = Plain
    Foreign = Foreign
    NoProgress = NoProgress
    Concurrency = 1
    MaxLists = 2
    MaxHides = 0
CHECK_DEADLOCK FALSE
INVARIANT ProgressNeverFalls
