\* A round, the propose its model runs, and two other commands, one of which
\* runs in another pid namespace; any of them may die.
SPECIFICATION FairSpec
CONSTANTS
    p1 = p1
    p2 = p2
    p3 = p3
    p4 = p4
    NoProc = NoProc
    Unreadable = Unreadable
    MaxAttempts = 3
    Procs <- FourProcs
    Judges <- OneApart
    ParentOf <- OneRound
CHECK_DEADLOCK FALSE
INVARIANTS MutualExclusion
PROPERTIES ImplementsAbstractLock DeadLockNeverVacated 
