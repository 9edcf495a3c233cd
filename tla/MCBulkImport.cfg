SPECIFICATION ImportSpec
CONSTANTS
    p1 = p1
    p2 = p2
    j1 = j1
    j2 = j2
    Hand = Hand
    Person <- TwoPeople
    Known <- OnePerson
    WithUtr <- OnePerson
    Payments = 1
    Job <- TwoJobs
    Kinds = {"leads", "admissions"}
    Handling = {"skip", "use"}
    Files <- TheFiles
CHECK_DEADLOCK FALSE
SYMMETRY Symmetry
INVARIANTS
    ImportTypeOK
    AdmittedOnce
    AllOrNothing
    RowsAccounted
PROPERTIES
    HandOfferKept
