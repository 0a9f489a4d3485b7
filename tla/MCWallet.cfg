\* Two processes load and save, at once or one after the other, under two
\* passwords, with any failures and a crash.
SPECIFICATION Spec
CONSTANTS
    p1 = p1  p2 = p2  k1 = k1  k2 = k2  w1 = w1  w2 = w2
    Procs <- TwoProcesses
    Pairs <- TwoPairs
    Passwords <- TwoPasswords
    DirectSaves = TRUE
    MaxCrashes = 1
    Absent = Absent  Hole = Hole  NoPair = NoPair
INVARIANTS
    TypeOK WholeFilesMatch SavedIsOnDisk
PROPERTIES
    IdentityStable LoadsReturnTheSaved LoadsLeaveFiles
SYMMETRY Symmetry
