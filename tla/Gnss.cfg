SPECIFICATION GnssFairSpec
CONSTANTS
    Scenarios <- MCScenarios
    Rates = {"1HZ", "5HZ"}
    Slots = 2
    SatsMax = 3
    ViewMax = 4
    LineMax = 3
    Rows = 2
    OfflineAfter = 2
    QueueMax = 4
INVARIANTS GnssInv AnswersAreTrue
PROPERTIES ViewSettles
