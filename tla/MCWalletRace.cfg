\* Two processes start with no wallet.
SPECIFICATION Spec
CONSTANTS
    p1 = p1  p2 = p2  k1 = k1  k2 = k2  w1 = w1  w2 = w2
    Procs <- TwoProcesses
    Pairs <- TwoPairs
    Passwords <- TwoPasswords
    DirectSaves = FALSE
    MaxCrashes = 0
    Absent = Absent  Hole = Hole  NoPair = NoPair
INVARIANTS
    LoadedKeysAreSaved
SYMMETRY Symmetry
