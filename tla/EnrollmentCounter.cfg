SPECIFICATION MCSpec
CONSTANTS
    a = a
    b = b
    c = c
    d = d
    law = law
    med = med
    social = social
    k = k
    e1 = e1
    e2 = e2
    Applicants <- MCApplicants
    Programs <- MCPrograms
    Streams <- MCStreams
    NoSeat = NoSeat
    Preference <- MCPreference
    Capacity <- MCCapacity
    Grade12 <- MCGrade12
    UATScores = {60, 80}
    Rankers = {k}
    MaxRuns = 3
    Enrollers <- TwoSlots
    ByHand = {b}
    MaxStarts = 4
SYMMETRY Symmetry
INVARIANTS CounterIsHighest
CHECK_DEADLOCK FALSE
