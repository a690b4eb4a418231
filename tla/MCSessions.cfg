\* Two sessions and two paths, a command that may die and the legacy job.
SPECIFICATION FairSpec
CONSTANTS
    s1 = s1
    s2 = s2
    r1 = r1
    a = a
    b = b
    Job = Job
    Nobody = Nobody
    Limit <- MCLimit
    Watched = s1
    Sessions <- TwoSessions
    Anonymous <- NoneAnonymous
    Rounds <- OneRound
    Paths <- TwoPaths
    Settings <- MCSettings
CHECK_DEADLOCK FALSE
INVARIANTS NeverWithTheJob LeftWorkIsTold
PROPERTIES  TurnEnds
