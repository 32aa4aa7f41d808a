SPECIFICATION MCSpec
CONSTANTS
    r1 = r1
    b2 = b2
    b1 = b1
    Builders = {b1, b2}
    Readers = {r1}
    q1 = q1
    q2 = q2
    Requests = {q1, q2}
    Batches = 1
    MaxBytes = 5
    MaxBuilds = 3
    MaxVersion = 1
CHECK_DEADLOCK FALSE
SYMMETRY BuilderSymmetry
INVARIANTS
    PublishedIsWhole
    BudgetHeldAlone
PROPERTIES
    PublishedIsKept
    AnswersAreCurrentAlone
