\* The number of requests is bounded, so that the system stops.  Two
\* requests at a time, four in all, at a prediction below the threshold
\* and one at it.
SPECIFICATION Spec
CONSTANTS
    p1 = p1
    p2 = p2
    ann = ann
    bob = bob
    letter = letter
    memo = memo
    r1 = r1
    r2 = r2
    Predictions = {p1, p2}
    Confident = {}
    Borderline = {p2}
    ClassNames <- TwoClasses
    Admins = {ann}
    Reviewers = {bob}
    Nobody = Nobody
    Missing = Missing
    Requests = {r1, r2}
    MaxCalls = 4
    Faults = {"db"}
SYMMETRY Symmetry
INVARIANTS
    IdNamesLabel
    CreditIsDue
PROPERTIES
    AnswerHolds
    ImplementsLabelling
CHECK_DEADLOCK FALSE
