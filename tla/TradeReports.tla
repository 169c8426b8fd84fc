---------------------------- MODULE TradeReports ----------------------------
(***************************************************************************)
(* The performance report of python/analysis: what `reports` makes of an   *)
(* audit log, that is of the records of the EA's JSONL files, one file     *)
(* after the other in the order of the command line.                       *)
(*                                                                         *)
(* A record carries the fields of its payload next to event_type and       *)
(* trade_candidate_id.  Money is whole; times are whole hours from the     *)
(* start of a month; a month has DaysPerMonth days.  A rate is a pair of   *)
(* numerator and denominator.  A report that ends in a ValueError is       *)
(* Refused.                                                                *)
(***************************************************************************)
EXTENDS Sublists, FiniteSets, SequencesExt, TLC

CONSTANTS
    InitialBalance,     \* --initial-balance
    DaysPerMonth,       \* days of a month, all months alike
    Missing             \* None, NaN or NaT

ASSUME TradeReportsAssumption ==
    /\ InitialBalance \in Nat \ {0}
    /\ DaysPerMonth \in Nat \ {0}
    /\ Missing \notin Int

Day(t) == t \div 24
Month(t) == Day(t) \div DaysPerMonth

Refused == [refused |-> TRUE]

\* The sum of a finite function's values.
Total(f) ==
    LET sum[S \in SUBSET DOMAIN f] ==
            IF S = {} THEN 0 ELSE LET x == CHOOSE x \in S : TRUE IN f[x] + sum[S \ {x}]
    IN  sum[DOMAIN f]

-----------------------------------------------------------------------------
(* reports.py: from records to trades and snapshots                        *)

Records(log, type) == Those(log, LAMBDA r : r.event_type = type)

OfCandidate(records, id) ==
    Those(records, LAMBDA r : r.trade_candidate_id = id)

\* The pattern of the first CANDIDATE of this id, wherever the log has it.
Strategy(log, id) ==
    LET named == OfCandidate(Records(log, "CANDIDATE"), id)
    IN  IF named = <<>> THEN "UNKNOWN" ELSE named[1].pattern

AuditTrades(log) ==
    LET closed == Records(log, "TRADE_CLOSED")
        Trade(r) == [trade_id |-> <<r.trade_candidate_id, r.position_ticket>>,
                     trade_candidate_id |-> r.trade_candidate_id,
                     strategy |-> Strategy(log, r.trade_candidate_id),
                     direction |-> r.direction,
                     open_time |-> r.open_time, close_time |-> r.close_time,
                     net_pnl |-> r.pnl,
                     commission |-> r.commission, swap |-> r.swap]
    IN  [k \in DOMAIN closed |-> Trade(closed[k])]

Snapshots(log) ==
    LET records == Records(log, "ACCOUNT_SNAPSHOT")
    IN  [k \in DOMAIN records |->
            [timestamp |-> records[k].timestamp, equity |-> records[k].equity]]

\* Mistaken: the order of the log decides between trades that close together.
ClosesBeforeOnly(t, u) == t.close_time < u.close_time

\* The order of sort_values(["close_time", "trade_id"]); a trade_id is a
\* string in the code and a pair of numbers here, totally ordered in both.
ClosesBefore(t, u) ==
    \/ t.close_time < u.close_time
    \/ /\ t.close_time = u.close_time
       /\ \/ t.trade_id[1] < u.trade_id[1]
          \/ /\ t.trade_id[1] = u.trade_id[1]
             /\ t.trade_id[2] < u.trade_id[2]

\* A stable sort: each trade goes before those that it closes before.
NormalizedTrades(trades) ==
    LET Insert(rows, t) ==
            Append(Those(rows, LAMBDA u : ~ ClosesBefore(t, u)), t)
                \o Those(rows, LAMBDA u : ClosesBefore(t, u))
        sorted[n \in 0..Len(trades)] ==
            IF n = 0 THEN <<>> ELSE Insert(sorted[n - 1], trades[n])
    IN  sorted[Len(trades)]

\* What is missing, not a number or not a time is an error.
ValidTrades(trades) ==
    /\ IsInjective([k \in DOMAIN trades |-> trades[k].trade_id])
    /\ \A k \in DOMAIN trades :
          /\ trades[k].trade_id \in Int \X Int
          /\ trades[k].strategy # Missing /\ trades[k].direction # Missing
          /\ trades[k].open_time \in Nat /\ trades[k].close_time \in Nat
          /\ trades[k].open_time <= trades[k].close_time
          /\ trades[k].net_pnl \in Int
          /\ trades[k].commission \in Int /\ trades[k].swap \in Int

ValidSnapshots(snapshots) ==
    /\ IsInjective([k \in DOMAIN snapshots |-> snapshots[k].timestamp])
    /\ \A k \in DOMAIN snapshots :
          /\ snapshots[k].timestamp \in Nat
          /\ snapshots[k].equity \in Nat \ {0}

SupportedAuditEvents ==
    {"CANDIDATE", "EXTERNAL_DECISION", "RISK_DECISION", "ORDER_SUBMISSION", "DEAL",
     "POSITION_SNAPSHOT", "TRADE_CLOSED", "ACCOUNT_SNAPSHOT", "SYSTEM_ERROR",
     "TRADE_ANALYTICS", "TIME_STOP_EXIT", "ENTRY_PIPELINE", "ENTRY_TIMING_SETUP",
     "ENTRY_TIMING_TRADE", "RANGE_EXIT", "RANGE_ALERT", "BREAKOUT_TIMING_SETUP",
     "BREAKOUT_TIMING_TRADE", "TREND_REVERSAL_EXIT", "EARLY_ADVERSE_EXIT"}

\* load_analysis_inputs, with which every report on trades begins, returns: one
\* bad record, a snapshot among the trades as well, fails it.
Loads(log) ==
    /\ \A k \in DOMAIN log :
          /\ log[k].event_type \in SupportedAuditEvents
          /\ log[k].event_type = "CANDIDATE" => log[k].pattern # Missing
    /\ ValidTrades(AuditTrades(log))
    /\ ValidSnapshots(Snapshots(log))

-----------------------------------------------------------------------------
(* performance.py and drawdown.py                                          *)

NetPnl(trades) ==
    LET sum[n \in 0..Len(trades)] == IF n = 0 THEN 0 ELSE sum[n - 1] + trades[n].net_pnl
    IN  sum[Len(trades)]

ClosedBy(trades, t) == Those(trades, LAMBDA u : u.close_time <= t)
OpenTimes(trades) == {trades[k].open_time : k \in DOMAIN trades}
CloseTimes(trades) == {trades[k].close_time : k \in DOMAIN trades}

\* One point per instant at which trades closed: groupby, sum, cumsum.
RealizedEquityCurve(trades) ==
    [t \in CloseTimes(trades) |-> InitialBalance + NetPnl(ClosedBy(trades, t))]

\* The initial balance is a point at the first open_time, unless a trade
\* closes at that very instant: groupby("timestamp").last() keeps the trade's.
RealizedPoints(trades) ==
    LET curve == RealizedEquityCurve(trades)
    IN  IF trades = <<>> THEN <<>>
        ELSE [t \in DOMAIN curve \cup {Min(OpenTimes(trades))} |->
                IF t \in DOMAIN curve THEN curve[t] ELSE InitialBalance]

\* The initial balance comes before the first snapshot in any case.
SnapshotPoints(trades, snapshots) ==
    LET times == {snapshots[k].timestamp : k \in DOMAIN snapshots}
        At(t) == CHOOSE k \in DOMAIN snapshots : snapshots[k].timestamp = t
        baseline == IF /\ trades # <<>>
                       /\ Min(OpenTimes(trades)) < Min(times)
                    THEN Min(OpenTimes(trades)) ELSE Min(times) - 1
    IN  [t \in times \cup {baseline} |->
            IF t \in times THEN snapshots[At(t)].equity ELSE InitialBalance]

\* build_drawdown_curve: the running peak and the fall from it, at each point.
DrawdownCurve(points) ==
    [t \in DOMAIN points |->
        LET peak == Max({points[u] : u \in {v \in DOMAIN points : v <= t}})
        IN  [peak |-> peak, amount |-> peak - points[t]]]

\* Which refuses an equity that is not positive.
CurveRefused(points) == \E t \in DOMAIN points : points[t] <= 0

\* Mistaken: compares amounts of money instead of rates.
DeeperAmount(a, b) == a.amount > b.amount

Deeper(a, b) == a.amount * b.peak > b.amount * a.peak

NoDrawdown == [amount |-> 0, peak |-> 1, peak_time |-> Missing,
               trough_time |-> Missing, recovery_time |-> Missing]

\* The first of the deepest falls; its peak is the last point that high.
SummarizeDrawdown(points) ==
    LET curve == DrawdownCurve(points)
        times == DOMAIN points
        trough == Min({t \in times : \A u \in times : ~ Deeper(curve[u], curve[t])})
        peak == curve[trough].peak
        peaks == {t \in times : t <= trough /\ points[t] = peak}
        recovered == {t \in times : t > trough /\ points[t] >= peak}
    IN  IF times = {} \/ curve[trough].amount <= 0 THEN NoDrawdown
        ELSE [amount |-> curve[trough].amount, peak |-> peak,
              peak_time |-> Max(peaks), trough_time |-> trough,
              recovery_time |-> IF recovered = {} THEN Missing
                                ELSE Min(recovered)]

\* resample("1D").sum(): every day from the first close to the last has a
\* return, relative to the equity with which the day began.
DailyReturns(trades) ==
    LET days == {Day(t) : t \in CloseTimes(trades)}
        Before(d) == Those(trades, LAMBDA t : Day(t.close_time) < d)
        Within(d) == Those(trades, LAMBDA t : Day(t.close_time) = d)
    IN  IF trades = <<>> THEN <<>>
        ELSE [d \in Min(days)..Max(days) |->
                <<NetPnl(Within(d)), InitialBalance + NetPnl(Before(d))>>]

\* Mistaken: the first day has no previous day and returns nothing.
SnapshotDailyReturnsWithoutFirst(snapshots) ==
    LET days == {Day(snapshots[k].timestamp) : k \in DOMAIN snapshots}
        Until(d) == {k \in DOMAIN snapshots : Day(snapshots[k].timestamp) <= d}
        Equity(d) ==
            LET last == CHOOSE k \in Until(d) : \A j \in Until(d) :
                            snapshots[j].timestamp <= snapshots[k].timestamp
            IN  snapshots[last].equity
        Previous(d) == IF d = Min(days) THEN Equity(d) ELSE Equity(d - 1)
    IN  [d \in Min(days)..Max(days) |-> <<Equity(d) - Previous(d), Previous(d)>>]

\* The last equity of each day, carried over days without a snapshot; the
\* first day's return is relative to the initial balance.
SnapshotDailyReturns(snapshots) ==
    LET days == {Day(snapshots[k].timestamp) : k \in DOMAIN snapshots}
        Until(d) == {k \in DOMAIN snapshots : Day(snapshots[k].timestamp) <= d}
        Equity(d) ==
            LET last == CHOOSE k \in Until(d) : \A j \in Until(d) :
                            snapshots[j].timestamp <= snapshots[k].timestamp
            IN  snapshots[last].equity
        Previous(d) == IF d = Min(days) THEN InitialBalance ELSE Equity(d - 1)
    IN  [d \in Min(days)..Max(days) |-> <<Equity(d) - Previous(d), Previous(d)>>]

AggregateTradeGroup(trades) ==
    LET wins == Those(trades, LAMBDA t : t.net_pnl > 0)
        losses == Those(trades, LAMBDA t : t.net_pnl < 0)
    IN  [number_of_trades |-> Len(trades), net_profit |-> NetPnl(trades),
         wins |-> Len(wins), losses |-> Len(losses),
         gross_profit |-> NetPnl(wins), gross_loss |-> NetPnl(losses)]

\* Mistaken: a trade that breaks even does not end the streak.
MaxConsecutiveLossesOrNone(trades) ==
    LET current[n \in 0..Len(trades)] ==
            IF n > 0 /\ trades[n].net_pnl <= 0 THEN current[n - 1] + 1 ELSE 0
    IN  Max({current[n] : n \in 0..Len(trades)})

\* The greatest length that the current streak has after any trade.
MaxConsecutiveLosses(trades) ==
    LET current[n \in 0..Len(trades)] ==
            IF n > 0 /\ trades[n].net_pnl < 0 THEN current[n - 1] + 1 ELSE 0
    IN  Max({current[n] : n \in 0..Len(trades)})

PerformanceRefused(trades, snapshots) ==
    LET daily == DailyReturns(trades)
    IN  \/ ~ ValidTrades(trades)
        \/ ~ ValidSnapshots(snapshots)
        \/ InitialBalance + NetPnl(trades) <= 0
        \/ CurveRefused(RealizedEquityCurve(trades))
        \/ \E d \in DOMAIN daily : daily[d][2] <= 0

\* The metrics; the Sharpe ratio and the CAGR are represented by the returns
\* and the balances that they are computed from.
AnalyzePerformance(unsorted, snapshots) ==
    LET trades == NormalizedTrades(unsorted)
        closed == SummarizeDrawdown(RealizedPoints(trades))
        marked == snapshots # <<>>
    IN  IF PerformanceRefused(trades, snapshots) THEN Refused
        ELSE [refused |-> FALSE,
              trades |-> trades,
              ending_balance |-> InitialBalance + NetPnl(trades),
              totals |-> AggregateTradeGroup(trades),
              maximum_consecutive_losses |-> MaxConsecutiveLosses(trades),
              drawdown_source |-> IF marked THEN "ACCOUNT_EQUITY_SNAPSHOTS"
                                  ELSE "CLOSED_TRADES",
              drawdown |-> IF marked
                           THEN SummarizeDrawdown(SnapshotPoints(trades, snapshots))
                           ELSE closed,
              closed_drawdown |-> closed,
              returns |-> IF marked THEN SnapshotDailyReturns(snapshots)
                          ELSE DailyReturns(trades)]

-----------------------------------------------------------------------------
(* reports.py: groups, months and the report                               *)

\* groupby drops the rows whose key is missing.
GroupedPerformance(trades) ==
    [s \in {trades[k].strategy : k \in DOMAIN trades} \ {Missing} |->
        AggregateTradeGroup(Those(trades, LAMBDA t : t.strategy = s))]

\* Mistaken: leaves out the months whose sum is zero, not those without a trade.
MonthlyPerformanceByProfit(trades) ==
    LET Within(m) == Those(trades, LAMBDA t : Month(t.close_time) = m)
        Before(m) == Those(trades, LAMBDA t : Month(t.close_time) < m)
    IN  [m \in {Month(t) : t \in {u \in CloseTimes(trades) : NetPnl(Within(Month(u))) # 0}} |->
            [net_profit |-> NetPnl(Within(m)), number_of_trades |-> Len(Within(m)),
             starting_balance |-> InitialBalance + NetPnl(Before(m))]]

\* resample("MS"), without the months in which no trade closed.
MonthlyPerformance(trades) ==
    [m \in {Month(t) : t \in CloseTimes(trades)} |->
        LET within == Those(trades, LAMBDA t : Month(t.close_time) = m)
            before == Those(trades, LAMBDA t : Month(t.close_time) < m)
        IN  [net_profit |-> NetPnl(within), number_of_trades |-> Len(within),
             starting_balance |-> InitialBalance + NetPnl(before)]]

PerformanceReport(log) ==
    LET performance == AnalyzePerformance(AuditTrades(log), Snapshots(log))
    IN  IF ~ Loads(log) \/ performance.refused THEN Refused
        ELSE [refused |-> FALSE, metrics |-> performance,
              by_strategy |-> GroupedPerformance(performance.trades),
              monthly |-> MonthlyPerformance(performance.trades)]

=============================================================================
