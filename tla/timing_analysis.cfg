\* The shadow trades of both timing analyzers and the reports on them.
SPECIFICATION Spec
CONSTANTS
    Missing = Missing
    InitialBalance = 16
    DaysPerMonth = 1
    Kinds = {"entry", "breakout"}
    Bars <- MCBars
    Prices <- MCPrices
    Spread = 1
    RUnit = 2
    RiskReward = 1
    MaxWaitBars = 3
    MaxHoldingBars = 2
    MaxFaults = 1
INVARIANTS
    TradesEnterOnTime
    OutcomesAreReached
    TablesAgree
CHECK_DEADLOCK FALSE
