SPECIFICATION Spec
CONSTANTS
    B = 3
    W32 = 5
    W64 = 10
    MaxBytes = 5
    MaxName = 2
INVARIANTS
    AnswersByTheGrammar
    RefusesOnlyTheMalformed
    StringFits
CHECK_DEADLOCK FALSE
