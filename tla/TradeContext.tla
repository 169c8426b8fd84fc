---------------------------- MODULE TradeContext ----------------------------
(***************************************************************************)
(* The breakdown and cost reports of python/analysis: every closed trade   *)
(* is joined with what the other records of the audit log say about its    *)
(* candidate, and the joined rows are classified and counted.              *)
(*                                                                         *)
(* The joins are relational left joins on trade_candidate_id, as pandas    *)
(* does them: one row for every pair that matches, so that a trade is      *)
(* counted once only as long as the right side has an id once.             *)
(***************************************************************************)
EXTENDS TradeReports

-----------------------------------------------------------------------------
(* trade_breakdown.py: the context of a candidate                          *)

\* Mistaken: every record of a candidate counts.
EveryRecord(records) == records

\* `seen`: of the records of one candidate the first counts.
FirstPerCandidate(records) ==
    Sublist(records,
            {k \in DOMAIN records : \A j \in 1..k - 1 :
                records[j].trade_candidate_id # records[k].trade_candidate_id})

\* A row with more columns.
With(row, columns) ==
    [c \in DOMAIN row \cup DOMAIN columns |->
        IF c \in DOMAIN columns THEN columns[c] ELSE row[c]]

\* pd.to_numeric(errors="coerce"): what is not a number is missing.  The code
\* converts the columns after all joins, which comes to the same.
Number(x) == IF x \in Int THEN x ELSE Missing

Columns(records, Column(_)) ==
    [k \in DOMAIN records |->
        With([trade_candidate_id |-> records[k].trade_candidate_id], Column(records[k]))]

CandidateContext(log) ==
    Columns(FirstPerCandidate(Records(log, "CANDIDATE")),
            LAMBDA r : [entry_atr |-> Number(r.atr),
                        entry_spread_points |-> Number(r.spread_points),
                        risk_reward_ratio |-> Number(r.risk_reward_ratio)])

\* The records of a type that end in this status.
Concluded(log, type, status) == Those(Records(log, type), LAMBDA r : r.status = status)

\* A rejection says nothing of the risk budget: the first approval counts.
RiskContext(log) ==
    Columns(FirstPerCandidate(Concluded(log, "RISK_DECISION", "APPROVED")),
            LAMBDA r : [risk_budget |-> Number(r.risk_budget)])

AnalyticsContext(log) ==
    Columns(FirstPerCandidate(Records(log, "TRADE_ANALYTICS")),
            LAMBDA r : [mfe |-> Number(r.mfe)])

ClosedContext(log) ==
    Columns(FirstPerCandidate(Records(log, "TRADE_CLOSED")),
            LAMBDA r : [point_value |-> Number(r.point_value),
                        exit_spread_points |-> Number(r.exit_spread_points)])

TimeStopContext(log) ==
    Columns(FirstPerCandidate(Records(log, "TIME_STOP_EXIT")),
            LAMBDA r : [time_stop_reason_code |-> r.reason_code])

RangeExitContext(log) ==
    Columns(FirstPerCandidate(Records(log, "RANGE_EXIT")),
            LAMBDA r : [range_exit_reason_code |-> r.reason_code])

TrendReversalContext(log) ==
    Columns(FirstPerCandidate(Records(log, "TREND_REVERSAL_EXIT")),
            LAMBDA r : [trend_reversal_reason_code |-> r.reason_code,
                        trend_reversal_trend_direction |-> r.trend_direction])

EarlyAdverseExitContext(log) ==
    Columns(FirstPerCandidate(Records(log, "EARLY_ADVERSE_EXIT")),
            LAMBDA r : [early_adverse_exit_reason_code |-> r.reason_code])

\* A row with each record of its candidate, or with what stands for none.
Matches(row, context, absent) ==
    LET same == OfCandidate(context, row.trade_candidate_id)
    IN  IF same = <<>> THEN <<With(row, absent)>>
        ELSE [k \in DOMAIN same |-> With(row, same[k])]

\* trades.merge(context, on="trade_candidate_id", how="left")
Merge(rows, context, absent) ==
    FlattenSeq([k \in DOMAIN rows |-> Matches(rows[k], context, absent)])

\* SESSION_BOUNDARIES, in UTC hours.
Session(t) ==
    LET hour == t % 24
    IN  CASE hour < 8 \/ hour >= 22 -> "Tokyo"
          [] hour \in 8..12  -> "London"
          [] hour \in 13..16 -> "London_NewYork_Overlap"
          [] hour \in 17..21 -> "NewYork"

\* The value at this place of the sorted values.
Ranked(values, place) ==
    CHOOSE x \in ToSet(values) :
        /\ Cardinality({k \in DOMAIN values : values[k] < x}) < place
        /\ place <= Cardinality({k \in DOMAIN values : values[k] <= x})

\* A quantile, interpolated between the two nearest values, times three.
Quantile(values, q) ==
    LET position == q * (Len(values) - 1)
        below == (position \div 3) + 1
        beyond == position % 3
    IN  Ranked(values, below) * (3 - beyond)
          + (IF beyond = 0 THEN 0 ELSE Ranked(values, below + 1) * beyond)

\* pd.qcut into three: the edges are the quantiles; an interval is open on
\* the left, except for the first; equal edges are dropped.
Edges(values) == {Quantile(values, q) : q \in 0..3}

\* Mistaken: intervals are closed on the left.
IntervalFromLeft(x, edges) ==
    1 + Cardinality({e \in edges \ {Min(edges)} : e <= 3 * x})

\* The interval of a value: it lies above that many inner edges.
Interval(x, edges) ==
    1 + Cardinality({e \in edges \ {Min(edges)} : e < 3 * x})

Present(values) == Those(values, LAMBDA x : x # Missing)

QuantileBand(values) ==
    LET present == Present(values)
        edges == Edges(present)
    IN  [k \in DOMAIN values |->
            IF \/ values[k] = Missing
               \/ Cardinality(ToSet(present)) < 2
            THEN Missing ELSE Interval(values[k], edges)]

Column(rows, name) == [k \in DOMAIN rows |-> rows[k][name]]

\* r / budget, as a pair whose second is positive; no risk budget and a budget
\* of zero give none.
RMultiple(x, budget) ==
    CASE x = Missing \/ budget \in {Missing, 0} -> Missing
      [] budget < 0 -> <<-x, -budget>>
      [] OTHER -> <<x, budget>>

\* The contexts, one join after the other.
JoinedRows(log) ==
    LET trades == NormalizedTrades(AuditTrades(log))
        candidate == Merge(trades, CandidateContext(log),
                           [entry_atr |-> Missing, entry_spread_points |-> Missing,
                            risk_reward_ratio |-> Missing])
        risk == Merge(candidate, RiskContext(log), [risk_budget |-> Missing])
        analytics == Merge(risk, AnalyticsContext(log), [mfe |-> Missing])
        closed == Merge(analytics, ClosedContext(log),
                        [point_value |-> Missing, exit_spread_points |-> Missing])
        timeStop == Merge(closed, TimeStopContext(log), [time_stop_reason_code |-> Missing])
        rangeExit == Merge(timeStop, RangeExitContext(log),
                           [range_exit_reason_code |-> Missing])
        reversal == Merge(rangeExit, TrendReversalContext(log),
                          [trend_reversal_reason_code |-> Missing,
                           trend_reversal_trend_direction |-> Missing])
    IN  Merge(reversal, EarlyAdverseExitContext(log),
              [early_adverse_exit_reason_code |-> Missing])

DerivedColumns(row, mfeR) ==
    [r_multiple |-> RMultiple(row.net_pnl, row.risk_budget),
     mfe_r |-> mfeR,
     session |-> Session(row.open_time),
     close_session |-> Session(row.close_time),
     reached_unrealized_profit_before_loss |->
        row.mfe # Missing /\ row.mfe > 0 /\ row.net_pnl < 0,
     reached_tp_equivalent_r |->
        /\ mfeR # Missing
        /\ row.risk_reward_ratio # Missing
        /\ mfeR[1] >= row.risk_reward_ratio * mfeR[2]]

\* The bands compare a row with all others.
Banded(rows, atr, mfe, hold) ==
    [k \in DOMAIN rows |->
        With(rows[k],
             With([atr_band |-> atr[k], mfe_band |-> mfe[k], hold_time_band |-> hold[k]],
                  DerivedColumns(rows[k], RMultiple(rows[k].mfe, rows[k].risk_budget))))]

WithDerived(rows) ==
    Banded(rows, QuantileBand(Column(rows, "entry_atr")), QuantileBand(Column(rows, "mfe")),
           QuantileBand([k \in DOMAIN rows |-> rows[k].close_time - rows[k].open_time]))

BuildTradeContext(log) == WithDerived(JoinedRows(log))

-----------------------------------------------------------------------------
(* trade_breakdown.py: the summaries                                       *)

BreakdownBy(rows, name) ==
    [value \in ToSet(Column(rows, name)) \ {Missing} |->
        AggregateTradeGroup(Those(rows, LAMBDA row : row[name] = value))]

ReversalFromProfitSummary(rows) ==
    LET losses == Those(rows, LAMBDA row : row.net_pnl < 0)
        withMfe == Those(losses, LAMBDA row : row.mfe # Missing)
    IN  [losing_trades_total |-> Len(losses),
         losing_trades_with_mfe_data |-> Len(withMfe),
         reached_unrealized_profit |->
            Len(Those(withMfe, LAMBDA row : row.mfe > 0))]

\* Mistaken: a trade that ends at break-even kept something.
GivebackSummaryOfLosses(rows) ==
    LET withProfit == Those(rows, LAMBDA row : row.mfe # Missing /\ row.mfe > 0)
    IN  [trades_with_unrealized_profit |-> Len(withProfit),
         fully_reversed |->
            Len(Those(withProfit, LAMBDA row : row.mfe - row.net_pnl > row.mfe))]

\* A ratio of 1 or more: the trade gave back all of its unrealized profit.
GivebackSummary(rows) ==
    LET withProfit == Those(rows, LAMBDA row : row.mfe # Missing /\ row.mfe > 0)
    IN  [trades_with_unrealized_profit |-> Len(withProfit),
         fully_reversed |->
            Len(Those(withProfit, LAMBDA row : row.mfe - row.net_pnl >= row.mfe))]

\* The rows that an exit of this kind closed: its reason code is notna().
Triggered(rows, name) == Those(rows, LAMBDA row : row[name] # Missing)

WouldHaveReachedTp(rows) ==
    Len(Those(rows, LAMBDA row : row.reached_tp_equivalent_r))

TimeStopSummary(rows) ==
    AggregateTradeGroup(Triggered(rows, "time_stop_reason_code"))

RangeExitSummary(rows) ==
    LET triggered == Triggered(rows, "range_exit_reason_code")
    IN  [total |-> AggregateTradeGroup(triggered),
         by_reason_code |-> BreakdownBy(triggered, "range_exit_reason_code")]

TrendReversalExitSummary(rows) ==
    LET triggered == Triggered(rows, "trend_reversal_reason_code")
    IN  [total |-> AggregateTradeGroup(triggered),
         would_have_reached_tp |-> WouldHaveReachedTp(triggered),
         by_trend_direction |-> BreakdownBy(triggered, "trend_reversal_trend_direction")]

EarlyAdverseExitSummary(rows) ==
    LET triggered == Triggered(rows, "early_adverse_exit_reason_code")
    IN  [total |-> AggregateTradeGroup(triggered),
         would_have_reached_tp |-> WouldHaveReachedTp(triggered),
         by_direction |-> BreakdownBy(triggered, "direction")]

\* Mistaken: a reason that the table does not name has a stage of its own.
ReasonStageOfTable(reason) ==
    CASE reason = "REGIME_NOT_TRENDING" -> "market_regime"
      [] reason = "TREND_NOT_ALIGNED" -> "htf_bias"
      [] reason \in {"ATR_TOO_LOW", "ADX_TOO_LOW", "CONFIRMATION_ADX_TOO_LOW",
                     "RSI_FILTERED"} -> "trend_strength_or_momentum_filter"
      [] reason = "ENTRY_PATTERN_NOT_FOUND" -> "setup_or_trigger"
      [] OTHER -> reason

\* ENTRY_PIPELINE_REASON_STAGE.get(reason_code, "other")
ReasonStage(reason) ==
    CASE reason = "REGIME_NOT_TRENDING" -> "market_regime"
      [] reason = "TREND_NOT_ALIGNED" -> "htf_bias"
      [] reason \in {"ATR_TOO_LOW", "ADX_TOO_LOW", "CONFIRMATION_ADX_TOO_LOW",
                     "RSI_FILTERED"} -> "trend_strength_or_momentum_filter"
      [] reason = "ENTRY_PATTERN_NOT_FOUND" -> "setup_or_trigger"
      [] OTHER -> "other"

Stages == {"market_regime", "htf_bias", "setup_or_trigger", "other",
           "trend_strength_or_momentum_filter"}

RejectedAt(r) ==
    ReasonStage(IF r.reason_code = Missing THEN "UNKNOWN" ELSE r.reason_code)

EntryPipelineFunnelSummary(log) ==
    LET evaluations == Records(log, "ENTRY_PIPELINE")
        rejected == Those(evaluations, LAMBDA r : r.final_status # "CANDIDATE")
    IN  [total_bars_evaluated |-> Len(evaluations),
         reached_final_candidate |-> Len(evaluations) - Len(rejected),
         rejected_by_stage |->
            [stage \in Stages |-> Len(Those(rejected, LAMBDA r : RejectedAt(r) = stage))]]

-----------------------------------------------------------------------------
(* cost_sensitivity.py                                                     *)

OrderSubmissionContext(log) ==
    Columns(FirstPerCandidate(Concluded(log, "ORDER_SUBMISSION", "ACCEPTED")),
            LAMBDA r : [entry_slippage_points |-> Number(r.slippage_points)])

\* Three tiers, or none at all when two of the edges are equal.
CostTierBand(costs) ==
    LET edges == Edges(costs)
    IN  [k \in DOMAIN costs |->
            IF \/ Cardinality(ToSet(costs)) < 3
               \/ Cardinality(edges) < 4
            THEN Missing ELSE Interval(costs[k], edges)]

OrZero(x) == IF x = Missing THEN 0 ELSE x

CostColumns(row, point) ==
    LET spread == (OrZero(row.entry_spread_points) + OrZero(row.exit_spread_points)) * point
        slippage == OrZero(row.entry_slippage_points) * point
        total == spread + slippage - row.commission - row.swap
    IN  [cost_data_available |-> point > 0,
         total_spread_cost |-> spread,
         entry_slippage_cost |-> slippage,
         total_cost |-> total,
         pnl_before_cost |-> row.net_pnl + total]

WithCosts(rows) ==
    LET PointValue(row) == IF OrZero(row.point_value) > 0 THEN row.point_value ELSE 0
    IN  [k \in DOMAIN rows |-> With(rows[k], CostColumns(rows[k], PointValue(rows[k])))]

WithTiers(rows, tier) == [k \in DOMAIN rows |-> With(rows[k], [cost_tier |-> tier[k]])]

Tiered(rows) == WithTiers(rows, CostTierBand(Column(rows, "total_cost")))

BuildCostContext(log) ==
    Tiered(WithCosts(Merge(BuildTradeContext(log), OrderSubmissionContext(log),
                           [entry_slippage_points |-> Missing])))

\* The sum of a column.
CostSum(rows, name) == NetPnl([k \in DOMAIN rows |-> [net_pnl |-> rows[k][name]]])

CostSummary(rows) ==
    [trades_total |-> Len(rows),
     trades_with_cost_data |-> Len(Those(rows, LAMBDA row : row.cost_data_available)),
     total_cost |-> CostSum(rows, "total_cost"),
     total_spread_cost |-> CostSum(rows, "total_spread_cost"),
     total_slippage_cost |-> CostSum(rows, "entry_slippage_cost"),
     total_commission |-> CostSum(rows, "commission"),
     total_swap |-> CostSum(rows, "swap")]

\* analyze_performance on the rows, with another column as net_pnl.
MetricsForFrame(rows, name) ==
    AnalyzePerformance([k \in DOMAIN rows |-> [rows[k] EXCEPT !.net_pnl = rows[k][name]]],
                       <<>>)

\* The tiers that have trades, each with its costs and its own performance.
TierBreakdown(rows) ==
    [tier \in ToSet(Column(rows, "cost_tier")) \ {Missing} |->
        LET part == Those(rows, LAMBDA row : row.cost_tier = tier)
        IN  [trades |-> Len(part), total_cost |-> CostSum(part, "total_cost"),
             metrics |-> MetricsForFrame(part, "net_pnl")]]

\* One frame that performance.py refuses fails the whole report.
CostReportRefused(rows) ==
    LET tiers == TierBreakdown(rows)
    IN  \/ MetricsForFrame(rows, "net_pnl").refused
        \/ MetricsForFrame(rows, "pnl_before_cost").refused
        \/ \E tier \in DOMAIN tiers : tiers[tier].metrics.refused

=============================================================================
