SPECIFICATION MCSpec
CONSTANTS
    r1 = r1
    r2 = r2
    Slots <- TwoSlots
    Scores = {60, 90}
    Verdicts = {"ADMIT", "REJECT", "RECOMMEND_ADMIT"}
    MaxReferences = 2
    MaxTransitions = 13
SYMMETRY Symmetry
INVARIANTS TurnsAgree PaymentGate
PROPERTIES RefinesRecord
CHECK_DEADLOCK FALSE
