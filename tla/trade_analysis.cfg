\* Every report of python/analysis on every small log.
SPECIFICATION Spec
CONSTANTS
    Missing = Missing
    InitialBalance = 16
    DaysPerMonth = 1
    MonthsPerYear = 2
    TaxRate <- MCTaxRate
    FeeFactor <- MCFeeFactor
    ModerateRate = 30
    HighRate = 50
    DrawdownFloor = 5
    ScoreModerate = 2
    ScoreHigh = 5
    MinimumTradeCount = 30
    Reports = {"performance", "snapshots", "context", "costs", "funnel", "benchmark", "overfitting"}
    Written <- MCWritten
    MaxRecords <- MCMaxRecords
    Period <- MCPeriod
    Levels <- MCLevels
    InSample <- MCInSample
INVARIANTS
    ReportAddsUp
    ReportIgnoresOrder
    DrawdownIsDeepest
    ReturnsCompound
    LosingStreakIsLongest
    RowsAreTheTrades
    ReversalsAgree
    TiersAreThirds
    BreakdownsAddUp
    TaxedGainIsDue
    DeferralNeverLoses
    WorsePeriodNeverHelps
CHECK_DEADLOCK FALSE
