SPECIFICATION DailySpec
CONSTANTS
    g1 = g1
    c1 = c1
    c2 = c2
    p1 = p1
    p2 = p2
    i1 = i1
    Guilds <- OneGuild
    Items <- OneItem
    Commands <- TwoCommands
    Passes <- TwoPasses
    DayLength = 2
    DefaultHour = 1
    FirstHour = 1
    MaxNow = 4
    MaxRestart = 2
SYMMETRY Alike
INVARIANTS
    OncePerDay
PROPERTIES
    PostedOnceADay
CHECK_DEADLOCK FALSE
