--------------------------- MODULE MCTradeAnalysis ---------------------------
(***************************************************************************)
(* Small logs for each report: a handful of records that meet the special  *)
(* cases (trades that open and close together, lose all that another       *)
(* earned, close in the same instant or after a gap of days; candidates    *)
(* that are named twice or never), in every order.                         *)
(***************************************************************************)
EXTENDS TradeAnalysis

Closed(id, ticket, open, close, pnl) ==
    [event_type |-> "TRADE_CLOSED", trade_candidate_id |-> id,
     position_ticket |-> ticket, direction |-> IF ticket = 1 THEN "BUY" ELSE "SELL",
     open_time |-> open, close_time |-> close, pnl |-> pnl,
     commission |-> 0, swap |-> 0, point_value |-> 1, exit_spread_points |-> 1]

Candidate(id, pattern, atr) ==
    [event_type |-> "CANDIDATE", trade_candidate_id |-> id, pattern |-> pattern,
     atr |-> atr, spread_points |-> 2, risk_reward_ratio |-> 2]

Snapshot(t, equity) ==
    [event_type |-> "ACCOUNT_SNAPSHOT", trade_candidate_id |-> Missing,
     timestamp |-> t, equity |-> equity]

Risk(id, status, budget) ==
    [event_type |-> "RISK_DECISION", trade_candidate_id |-> id,
     status |-> status, risk_budget |-> budget]

Order(id, status, slippage) ==
    [event_type |-> "ORDER_SUBMISSION", trade_candidate_id |-> id,
     status |-> status, slippage_points |-> slippage]

Analytics(id, mfe) ==
    [event_type |-> "TRADE_ANALYTICS", trade_candidate_id |-> id, mfe |-> mfe]

Exit(type, id) ==
    [event_type |-> type, trade_candidate_id |-> id, reason_code |-> "R",
     trend_direction |-> "UP"]

Pipeline(status, reason) ==
    [event_type |-> "ENTRY_PIPELINE", trade_candidate_id |-> Missing,
     final_status |-> status, reason_code |-> reason]

Metrics(type, pf, net, drawdown, count) ==
    [event_type |-> type, trade_candidate_id |-> Missing,
     metrics |-> [profit_factor |-> pf, sharpe_ratio |-> 100, expectancy |-> net,
                  net_profit |-> net, max_drawdown_rate |-> drawdown,
                  number_of_trades |-> count]]

\* A period that lost: a profit factor below one, a Sharpe ratio of zero, a
\* negative expectancy and net profit.
MCInSample ==
    [Metrics("FOLD", 90, -50, 10, 30).metrics EXCEPT !.sharpe_ratio = 0]

PerformanceRecords ==
    {Closed(1, 1, 0, 5, pnl) : pnl \in {-8, 32}}
        \cup {Closed(1, 2, 0, 30, pnl) : pnl \in {-12, 0}}
        \cup {Closed(2, 1, 5, 30, pnl) : pnl \in {-8, 32}}
        \cup {Closed(2, 2, 30, 75, -12), Closed(3, 1, 0, 0, -8)}
        \cup {Candidate(1, "breakout", 1), Candidate(1, "range", 2)}

SnapshotRecords ==
    {Closed(1, 1, 1, 5, -8), Closed(2, 1, 30, 75, 32)}
        \cup {Snapshot(t, equity) : t \in {1, 10, 50, 80}, equity \in {8, 24}}

ContextRecords ==
    {Closed(1, 1, 0, 5, -1), Closed(1, 2, 0, 30, 0), Closed(2, 1, 9, 14, 2),
     Candidate(1, "range", 2), Candidate(2, "range", 1),
     Risk(1, "APPROVED", 2), Risk(1, "APPROVED", 1), Risk(1, "REJECTED", 3),
     Analytics(1, 0), Analytics(1, 2), Analytics(2, 3), Candidate(2, Missing, 1)}
        \cup {Exit(type, 1) : type \in {"TIME_STOP_EXIT", "RANGE_EXIT",
                                        "TREND_REVERSAL_EXIT", "EARLY_ADVERSE_EXIT"}}

CostRecords(log) ==
    IF log = <<>>  \* then trades, of which the costliest lose
    THEN {Order(1, "ACCEPTED", 1), Order(1, "REJECTED", 5), Candidate(1, "range", 1)}
    ELSE {[Closed(Len(log), 1, 0, Len(log), IF c = -4 THEN -12 ELSE 1 + 8 * Max({c, 0}))
                EXCEPT !.commission = c] : c \in {-4, -2, -1, 1}}
           \cup (IF Len(log) = 1
                 THEN {Order(1, "ACCEPTED", 3), [Closed(1, 1, 0, 1, 1) EXCEPT !.point_value = 0]}
                 ELSE {})

FunnelRecords ==
    {Pipeline("CANDIDATE", Missing), Pipeline("NO_TRADE", Missing),
     Pipeline("NO_TRADE", "REGIME_NOT_TRENDING"), Pipeline("NO_TRADE", "TREND_NOT_ALIGNED"),
     Pipeline("NO_TRADE", "RSI_FILTERED"), Pipeline("NO_TRADE", "ENTRY_PATTERN_NOT_FOUND"),
     Pipeline("NO_TRADE", "SPREAD_TOO_HIGH"), Snapshot(1, 0)}

\* Each trade doubles or halves the account, in the month of the last one or later.
BenchmarkRecords(log) ==
    LET equity == InitialBalance + NetPnl(AuditTrades(log))
        last == IF log = <<>> THEN 1
                ELSE TokyoMonth(log[Len(log)].close_time)
    IN  {Closed(Len(log) + 1, 1, 0, 24 * m - 9, pnl) :
            m \in {n \in last..Max(Period) + 1 : n > 1}, pnl \in {equity, -(equity \div 2)}}

OverfittingRecords(log) ==
    {Metrics(type, pf, net, drawdown, 30) :
        type \in (IF log = <<>> THEN {"OOS", "FOLD"} ELSE {"FOLD"}),
        pf \in {150, 55, 40, Missing}, net \in {1000, -100},
        drawdown \in {1, 14, 30}}
      \cup {Metrics("FOLD", 150, 1000, 10, 29)}

MCWritten(name, log) ==
    CASE name = "performance" -> PerformanceRecords
      [] name = "snapshots" -> SnapshotRecords
      [] name = "context" -> ContextRecords
      [] name = "costs" -> CostRecords(log)
      [] name = "funnel" -> FunnelRecords
      [] name = "benchmark" -> BenchmarkRecords(log)
      [] name = "overfitting" -> OverfittingRecords(log)

MCMaxRecords ==
    [performance |-> 4, snapshots |-> 4, context |-> 4, costs |-> 6, funnel |-> 3,
     benchmark |-> 4, overfitting |-> 3]

MCPeriod == 2..11
MCLevels == [m \in 1..11 |-> IF m \in {3, 7, 8} THEN 2 ELSE IF m > 8 THEN 8 ELSE 4]
MCTaxRate == <<1, 2>>
MCFeeFactor == <<1, 1>>

=============================================================================
