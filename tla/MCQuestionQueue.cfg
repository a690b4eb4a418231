\* Three writers, any of which may die, over two days.
SPECIFICATION FairSpec
CONSTANTS
    w1 = w1
    w2 = w2
    w3 = w3
    ta = ta
    tb = tb
    ia = ia
    Never = Never
    NoReply = NoReply
    Nobody = Nobody
    DedupDays = 0
    EscalateAfter = 1
    MaxAge = 0
    MaxQuestions = 1
    MaxLines = 3
    Texts <- MCTexts
    Ids <- MCIds
    IdOf <- MCIdOf
    Days <- MCDays
    Writers <- MCWriters
    First <- MCFirst
CHECK_DEADLOCK FALSE
INVARIANTS QuestionsAreAskedOnce
PROPERTIES ImplementsAbstractQueue CommandsEnd
