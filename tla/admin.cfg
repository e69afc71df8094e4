\* Two processes, a crash, an edit of the Secret, a lease of one tick.
CONSTANTS
    p1 = p1
    p2 = p2
    w1 = w1
    w2 = w2
    NoPassword = none
    Processes <- Procs
    Passwords <- Pws
    Duration = 1
    MaxEdits = 1
    MaxCrashes = 1
SPECIFICATION FairSpec
INVARIANT BootstrapSerialised
INVARIANT FlagMeansUser
PROPERTY RotationIsNotForgotten
PROPERTY StaleLeaseIsReplaced
