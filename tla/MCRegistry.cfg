\* Four requests of any kind at once.
SPECIFICATION Spec
CONSTANTS
    r1 = r1  r2 = r2  r3 = r3  r4 = r4  n1 = n1  n2 = n2  f1 = f1  f2 = f2
    Requests <- FourRequests
    Networks <- TwoNetworks
    Profiles <- TwoProfiles
    Counts <- SomeCounts
    Ids <- TwoIds
    None = None
INVARIANTS TypeOK OneRowPerNetwork CountsBelong
PROPERTIES KeepsContractWithoutMerges
SYMMETRY RequestSymmetry
CHECK_DEADLOCK FALSE
