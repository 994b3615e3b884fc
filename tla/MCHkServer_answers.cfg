SPECIFICATION Spec
CONSTANTS
    Robots = {r1, r2}
    Nowhere = nowhere
    Numbers <- MCNumbers
    MaxTicks = 9
SYMMETRY MCSymmetry
INVARIANTS
    LengthHonest
    AnswersMatch
    SentToSender
    InterruptsInTurn
    DoorInfoSentOnce
CHECK_DEADLOCK FALSE
