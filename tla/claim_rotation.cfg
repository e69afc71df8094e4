CONSTANTS
    p1 = p1
    p2 = p2
    w1 = w1
    w2 = w2
    NoPassword = none
    Processes <- Procs
    Passwords <- Pws
    Duration = 1
    MaxEdits = 1
    MaxCrashes = 1
SPECIFICATION FairSpec
PROPERTY ChangedSecretIsSignalled
