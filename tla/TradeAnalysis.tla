---------------------------- MODULE TradeAnalysis ----------------------------
(***************************************************************************)
(* The audit log of the EA as the reports of python/analysis see it: a log *)
(* grows by one record after the other, in whatever order the daily files  *)
(* are given, and each report is a function of the log so far.  The        *)
(* reports are stated in TradeReports, TradeContext and ReleaseChecks;     *)
(* here is what must hold of them for every log.                           *)
(***************************************************************************)
EXTENDS TradeContext, ReleaseChecks

CONSTANTS
    Reports,            \* the reports to examine
    Written(_, _),      \* report and log -> the records that may come next
    MaxRecords,         \* bound: report -> the length of its log
    Period,             \* the months of the benchmark comparison
    Levels,             \* the benchmark's level at the end of each month
    InSample            \* the metrics of the in-sample period

VARIABLES
    report,             \* the report that is made
    input,              \* the records of its input files, in order
    output              \* the report on them

vars == <<report, input, output>>

\* main() of trade_breakdown.py, from the joined rows.
ContextSummaries(rows) ==
    [refused |-> FALSE, rows |-> rows,
     by |-> [name \in {"session", "close_session", "atr_band", "mfe_band",
                       "hold_time_band"} |-> BreakdownBy(rows, name)],
     reversal |-> ReversalFromProfitSummary(rows),
     giveback |-> GivebackSummary(rows),
     time_stop |-> TimeStopSummary(rows),
     range_exit |-> RangeExitSummary(rows),
     trend_reversal_exit |-> TrendReversalExitSummary(rows),
     early_adverse_exit |-> EarlyAdverseExitSummary(rows)]

ContextReport(log) ==
    IF Loads(log) THEN ContextSummaries(BuildTradeContext(log))
    ELSE Refused

\* main() of cost_sensitivity.py, from the joined rows.
CostSummaries(rows) ==
    IF CostReportRefused(rows) THEN Refused
    ELSE [refused |-> FALSE, rows |-> rows, summary |-> CostSummary(rows),
          tiers |-> TierBreakdown(rows)]

CostReport(log) ==
    IF Loads(log) THEN CostSummaries(BuildCostContext(log))
    ELSE Refused

\* The funnel of the same main(), from the records as they are.
FunnelReport(log) ==
    IF Loads(log) THEN [refused |-> FALSE, funnel |-> EntryPipelineFunnelSummary(log)]
    ELSE Refused

\* main() of benchmark_comparison.py, for one period.
BenchmarkReport(log) ==
    IF ~ Loads(log) \/ EaRefused(AuditTrades(log), Period) THEN Refused
    ELSE [refused |-> FALSE] @@ ComparePeriod(AuditTrades(log), Period, Levels)

\* The metrics of the periods of a kind.
PeriodMetrics(log, type) ==
    LET of == Records(log, type) IN [k \in DOMAIN of |-> of[k].metrics]

Assess(log) == AssessOverfitting(InSample, PeriodMetrics(log, "OOS"), PeriodMetrics(log, "FOLD"))

ReportOn(name, log) ==
    CASE name \in {"performance", "snapshots"} -> PerformanceReport(log)
      [] name = "context" -> ContextReport(log)
      [] name = "costs" -> CostReport(log)
      [] name = "funnel" -> FunnelReport(log)
      [] name = "benchmark" -> BenchmarkReport(log)
      [] name = "overfitting" ->
            IF PeriodMetrics(log, "OOS") = <<>> /\ PeriodMetrics(log, "FOLD") = <<>> THEN Refused
            ELSE [refused |-> FALSE, classification |-> Assess(log)]

Init ==
    /\ report \in Reports
    /\ input = <<>>
    /\ output = ReportOn(report, <<>>)

Write ==
    /\ Len(input) < MaxRecords[report]
    /\ \E r \in Written(report, input) : input' = Append(input, r)
    /\ output' = ReportOn(report, input')
    /\ UNCHANGED report

Spec == Init /\ [][Write]_vars

-----------------------------------------------------------------------------
(* Properties                                                              *)

Reported == report \in {"performance", "snapshots"} /\ ~ output.refused
Joined == report = "context" /\ ~ output.refused
Costed == report = "costs" /\ ~ output.refused
Piped == report = "funnel" /\ ~ output.refused
Assessed == report = "overfitting" /\ ~ output.refused
Compared == report = "benchmark" /\ ~ output.refused

(***************************************************************************)
(* Nothing is lost between the log and the tables: every TRADE_CLOSED is   *)
(* in exactly one strategy and one month, and their profits add up to the  *)
(* net profit, also for a trade whose candidate is in no file              *)
(* (strategies.get(candidate_id, "UNKNOWN"), reports.py).                  *)
(***************************************************************************)
AddsUp(groups) ==
    /\ Len(Records(input, "TRADE_CLOSED")) =
          Total([g \in DOMAIN groups |-> groups[g].number_of_trades])
    /\ output.metrics.ending_balance =
          InitialBalance + Total([g \in DOMAIN groups |-> groups[g].net_profit])

ReportAddsUp ==
    Reported => AddsUp(output.by_strategy) /\ AddsUp(output.monthly)

(***************************************************************************)
(* The report does not depend on the order of the files or of the records  *)
(* in them, except for two candidates of one id, of which the first counts *)
(* (setdefault): two neighbours may change places.                         *)
(***************************************************************************)
ReportIgnoresOrder ==
    report \in {"performance", "snapshots"} =>
        \A i \in 1..Len(input) - 1 :
            \/ /\ input[i].event_type = "CANDIDATE"
               /\ input[i + 1].event_type = "CANDIDATE"
            \/ PerformanceReport([input EXCEPT ![i] = input[i + 1],
                                               ![i + 1] = input[i]]) = output

(***************************************************************************)
(* The reported drawdown is the largest fall, as a rate, between any two   *)
(* moments of the account, the beginning included, and it really happened  *)
(* between the reported times.  The beginning is left out in one case, and *)
(* the property says in which: a trade closes at the very instant of the   *)
(* first open_time, and its point replaces the one of the initial balance. *)
(***************************************************************************)
Deepest(drawdown, times, Equity(_)) ==
    /\ \A t \in times : \A u \in times :
          t < u => (Equity(t) - Equity(u)) * drawdown.peak
                     <= drawdown.amount * Equity(t)
    /\ drawdown.amount > 0 =>
          /\ drawdown.peak_time < drawdown.trough_time
          /\ Equity(drawdown.peak_time) = drawdown.peak
          /\ Equity(drawdown.trough_time) = drawdown.peak - drawdown.amount
          /\ \A t \in times : drawdown.peak_time < t
                /\ (drawdown.recovery_time = Missing \/ t < drawdown.recovery_time)
                  => Equity(t) < drawdown.peak

DrawdownIsDeepest ==
    Reported =>
        LET trades == output.metrics.trades
            opened == Min(OpenTimes(trades))
            closes == CloseTimes(trades)
            marks == Snapshots(input)
            Balance(t) == InitialBalance + NetPnl(ClosedBy(trades, t))
            Marked(t) ==
                IF \E k \in DOMAIN marks : marks[k].timestamp = t
                THEN marks[CHOOSE k \in DOMAIN marks : marks[k].timestamp = t].equity
                ELSE InitialBalance
        IN  /\ trades # <<>> =>
                 Deepest(output.metrics.closed_drawdown,
                         closes \cup {opened}, Balance)
            /\ marks # <<>> =>
                 Deepest(output.metrics.drawdown,
                         {marks[k].timestamp : k \in DOMAIN marks}
                            \cup {IF trades # <<>> /\ \A k \in DOMAIN marks :
                                                        opened < marks[k].timestamp
                                  THEN opened ELSE -1}, Marked)

(***************************************************************************)
(* The returns of the report, whose Sharpe ratio it states, compound to    *)
(* what the account earned: each day, and each month with a trade, begins  *)
(* with what the one before ended with, the first with the initial balance *)
(* (shift(1, fill_value=0.0), returns.iloc[0], ffill).                     *)
(***************************************************************************)
Chained(periods, Start(_), Change(_), ending) ==
    periods # {} =>
        /\ Start(Min(periods)) = InitialBalance
        /\ Start(Max(periods)) + Change(Max(periods)) = ending
        /\ \A p \in periods \ {Max(periods)} :
              Start(p) + Change(p) = Start(Min({q \in periods : q > p}))

ReturnsCompound ==
    Reported =>
        LET metrics == output.metrics
            monthly == output.monthly
            marks == Snapshots(input)
            last == CHOOSE k \in DOMAIN marks : \A j \in DOMAIN marks :
                        marks[j].timestamp <= marks[k].timestamp
        IN  /\ Chained(DOMAIN monthly,
                       LAMBDA m : monthly[m].starting_balance,
                       LAMBDA m : monthly[m].net_profit, metrics.ending_balance)
            /\ Chained(DOMAIN metrics.returns,
                       LAMBDA d : metrics.returns[d][2],
                       LAMBDA d : metrics.returns[d][1],
                       IF marks = <<>> THEN metrics.ending_balance
                       ELSE marks[last].equity)

(***************************************************************************)
(* maximum_consecutive_losses is the length of the longest run of losing   *)
(* trades in the order in which they closed.                               *)
(***************************************************************************)
LosingStreakIsLongest ==
    Reported =>
        LET trades == output.metrics.trades
            Lost(i, j) == \A k \in i..j : trades[k].net_pnl < 0
        IN  output.metrics.maximum_consecutive_losses =
                Max({0} \cup {r[2] - r[1] + 1 : r \in
                        {q \in (DOMAIN trades) \X (DOMAIN trades) :
                            q[1] <= q[2] /\ Lost(q[1], q[2])}})

(***************************************************************************)
(* The joins neither lose nor double a trade, however often a candidate's  *)
(* records are in the log, and what a row says of its candidate is what    *)
(* the first record that may say it says: of the risk decisions the first  *)
(* approval, of the orders the first that was accepted.                    *)
(***************************************************************************)
FirstSays(row, type, status, column, value) ==
    LET says == {k \in DOMAIN input :
                    /\ input[k].event_type = type
                    /\ input[k].trade_candidate_id = row.trade_candidate_id
                    /\ status = "any" \/ input[k].status = status}
    IN  value = IF says = {} THEN Missing ELSE Number(input[Min(says)][column])

RowsAreTheTrades ==
    /\ Joined =>
         /\ [k \in DOMAIN output.rows |-> output.rows[k].trade_id] =
               LET trades == NormalizedTrades(AuditTrades(input))
               IN  [k \in DOMAIN trades |-> trades[k].trade_id]
         /\ \A k \in DOMAIN output.rows :
               /\ FirstSays(output.rows[k], "RISK_DECISION", "APPROVED", "risk_budget",
                            output.rows[k].risk_budget)
               /\ FirstSays(output.rows[k], "TRADE_ANALYTICS", "any", "mfe", output.rows[k].mfe)
    /\ Costed =>
         /\ Len(output.rows) = Len(Records(input, "TRADE_CLOSED"))
         /\ \A k \in DOMAIN output.rows :
               FirstSays(output.rows[k], "ORDER_SUBMISSION", "ACCEPTED",
                         "slippage_points", output.rows[k].entry_slippage_points)

(***************************************************************************)
(* Two summaries count reversals, each in its own way, and agree: a trade  *)
(* that gave back all of its unrealized profit either lost although it had *)
(* been ahead, as reversal_from_profit_summary and the column of the       *)
(* context say, or broke even.                                             *)
(***************************************************************************)
ReversalsAgree ==
    Joined =>
        LET lost == Those(output.rows, LAMBDA row : row.reached_unrealized_profit_before_loss)
            even == Those(output.rows, LAMBDA row : /\ row.net_pnl = 0
                                                 /\ row.mfe # Missing
                                                 /\ row.mfe > 0)
        IN  /\ output.reversal.reached_unrealized_profit = Len(lost)
            /\ output.giveback.fully_reversed = Len(lost) + Len(even)

(***************************************************************************)
(* The cost tiers cover all trades or none, never put a costlier trade in  *)
(* a lower tier, and are thirds: when all costs differ, no tier has two    *)
(* trades more than another.                                               *)
(***************************************************************************)
TiersAreThirds ==
    Costed =>
        LET size == [tier \in 1..3 |->
                        Len(Those(output.rows, LAMBDA row : row.cost_tier = tier))]
            tiered == ToSet(Column(output.rows, "cost_tier")) # {Missing}
            distinct == IsInjective(Column(output.rows, "total_cost"))
        IN  output.rows # <<>> /\ tiered =>
                /\ \A j, k \in DOMAIN output.rows :
                      output.rows[j].total_cost <= output.rows[k].total_cost =>
                        /\ output.rows[j].cost_tier \in 1..3
                        /\ output.rows[j].cost_tier <= output.rows[k].cost_tier
                /\ distinct => \A i, j \in 1..3 : size[i] - size[j] <= 1

(***************************************************************************)
(* A breakdown has every row whose column has a value, the tiers and the   *)
(* exits as well, and the funnel has every evaluated bar, also one whose   *)
(* reason code is missing or not in ENTRY_PIPELINE_REASON_STAGE.           *)
(***************************************************************************)
Counts(groups) == Total([g \in DOMAIN groups |-> groups[g].number_of_trades])

BreakdownsAddUp ==
    /\ Joined =>
         /\ \A name \in {"session", "close_session", "mfe_band", "hold_time_band"} :
               Counts(output.by[name]) =
                  Len(Those(output.rows, LAMBDA row : row[name] # Missing))
         /\ \A name \in {"mfe_band", "atr_band"} :
               LET of == IF name = "mfe_band" THEN "mfe" ELSE "entry_atr"
                   values == Present(Column(output.rows, of))
               IN  Counts(output.by[name]) \in {0, Len(values)}
         /\ Counts(output.range_exit.by_reason_code) =
               output.range_exit.total.number_of_trades
         /\ Counts(output.early_adverse_exit.by_direction) =
               output.early_adverse_exit.total.number_of_trades
    /\ Costed =>
         LET costs == output.summary
             tiers == output.tiers
         IN  /\ costs.total_cost = costs.total_spread_cost + costs.total_slippage_cost
                                     - costs.total_commission - costs.total_swap
             /\ DOMAIN tiers # {} =>
                  costs.total_cost = Total([t \in DOMAIN tiers |-> tiers[t].total_cost])
    /\ Piped =>
         LET funnel == output.funnel
         IN  funnel.total_bars_evaluated =
                funnel.reached_final_candidate + Total(funnel.rejected_by_stage)

(***************************************************************************)
(* A loss reduces the taxable income of the three years after it and of no *)
(* other: no stretch of years uses more than was lost in and up to three   *)
(* years before it, and no tax is due in a year before the gains since     *)
(* each loss of the three years before have made up for that loss          *)
(* (apply_annual_tax; docs/release-gate.md, the tax rules).                *)
(***************************************************************************)
TaxedGainIsDue ==
    Compared =>
        LET years == output.tax_years
            Used(i, j) == FoldLeft(LAMBDA sum, y : Plus(sum, y.carryforward_used),
                                   Whole(0), SubSeq(years, i, j))
            Loss(i) == IF years[i].gain[1] < 0
                       THEN Minus(Whole(0), years[i].gain) ELSE Whole(0)
            Lost(i, j) == FoldSet(LAMBDA k, sum : Plus(sum, Loss(k)), Whole(0),
                                  (i..j) \cap DOMAIN years)
        IN  /\ \A i, j \in DOMAIN years :
                  i <= j => ~ Less(Lost(i - 3, j - 1), Used(i, j))
            /\ \A i, j \in DOMAIN years :
                  i < j /\ j <= i + 3 /\ Positive(years[j].tax) =>
                     ~ Less(Used(i + 1, j), Loss(i))

(***************************************************************************)
(* Paying tax every year never beats paying it once at the end on the same *)
(* returns, so that an EA that meets the criteria earned more than the     *)
(* benchmark before taxes, too: the comparison is not won by the tax.      *)
(***************************************************************************)
DeferralNeverLoses ==
    Compared =>
        LET ea == EaMonthlyReturns(AuditTrades(input), Period)
            benchmark == BenchmarkMonthlyReturns(Levels, Period)
        IN  /\ ~ Less(BenchmarkEnding(ea, Period), output.ea_ending)
            /\ output.criteria_met =>
                  Less(Compound(benchmark, Period), Compound(ea, Period))

NoBetter(a, b) ==
    /\ a.number_of_trades = b.number_of_trades
    /\ \A metric \in EvaluatedMetrics :
          \/ a[metric] = b[metric]
          \/ /\ a[metric] \in Int
             /\ b[metric] \in Int
             /\ IF metric \in LowerIsBetter THEN a[metric] > b[metric]
                ELSE a[metric] < b[metric]

(***************************************************************************)
(* A period that did worse never makes the assessment better, whatever the *)
(* other periods are; and one period with too few trades makes it          *)
(* INSUFFICIENT_DATA, however good the others look.                        *)
(***************************************************************************)
WorsePeriodNeverHelps ==
    Assessed =>
        /\ \A k \in DOMAIN input :
              \A r \in Written(report, <<>>) :
                 r.event_type = input[k].event_type /\ NoBetter(r.metrics, input[k].metrics)
                    => Assess([input EXCEPT ![k] = r]) >= output.classification
        /\ (output.classification = -1) <=>
              \/ ~ EnoughTrades(InSample)
              \/ \E k \in DOMAIN input : /\ input[k].event_type \in {"OOS", "FOLD"}
                                        /\ ~ EnoughTrades(input[k].metrics)

=============================================================================
