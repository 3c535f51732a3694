CONSTANTS
    Requests = {q1, q2}
    Numbers = {n1}
    Cent = 1
    Grace = 1
    MaxCharge = 2
    InitBalance = 2
    Topup = 2
    MaxBalance = 2
    MaxPasses = 1
    MaxFaults = 1
    MaxCrashes = 1
SPECIFICATION Spec
SYMMETRY RequestSymmetry
INVARIANTS OverdraftBounded MeterMatchesLedger MissedOnlyByRace OwnedIsTracked
