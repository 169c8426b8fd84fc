---------------------------- MODULE ReleaseChecks ----------------------------
(***************************************************************************)
(* Two checks of python/analysis that a release depends on: the comparison *)
(* with the benchmark after taxes (benchmark_comparison.py) and the        *)
(* diagnosis of overfitting (overfitting.py).                              *)
(*                                                                         *)
(* A month is a number; Tokyo is nine hours ahead of UTC.  A return is a   *)
(* fraction.  The CAGRs of two series over the same months compare as      *)
(* their ending multiples do, and are represented by them.                 *)
(***************************************************************************)
EXTENDS TradeReports, Fractions

CONSTANTS
    MonthsPerYear,
    TaxRate,            \* TAX_RATE, a fraction
    FeeFactor,          \* monthly_fee_factor, a fraction
    ModerateRate,       \* degradation_moderate_rate, in percent
    HighRate,           \* degradation_high_rate, in percent
    DrawdownFloor,      \* drawdown_relative_floor, in percent
    ScoreModerate,
    ScoreHigh,
    MinimumTradeCount

ASSUME ReleaseChecksAssumption ==
    /\ MonthsPerYear \in Nat \ {0}
    /\ 0 < TaxRate[1] /\ TaxRate[1] < TaxRate[2]
    /\ 0 < FeeFactor[1] /\ FeeFactor[1] <= FeeFactor[2]
    /\ ModerateRate \in Nat /\ HighRate \in Nat /\ ModerateRate <= HighRate
    /\ ScoreModerate \in Nat /\ ScoreHigh \in Nat /\ ScoreModerate <= ScoreHigh
    /\ MinimumTradeCount \in Nat \ {0}
    /\ DrawdownFloor \in Nat \ {0}

LossCarryforwardYears == 3

-----------------------------------------------------------------------------
(* benchmark_comparison.py                                                 *)

TokyoMonth(t) == Month(t + 9)
Year(m) == m \div MonthsPerYear

PnlOfMonth(trades, m) ==
    NetPnl(SelectSeq(trades, LAMBDA t : TokyoMonth(t.close_time) = m))

EquityAfter(trades, m) ==
    InitialBalance
        + NetPnl(SelectSeq(trades, LAMBDA t : TokyoMonth(t.close_time) <= m))

\* Trades outside the period are an error, and so is a lost account.
EaRefused(trades, months) ==
    \/ ~ ValidTrades(trades)
    \/ \E t \in CloseTimes(trades) : TokyoMonth(t) \notin months
    \/ \E m \in months : EquityAfter(trades, m) <= 0

EaMonthlyReturns(trades, months) ==
    [m \in months |-> Frac(PnlOfMonth(trades, m),
                           EquityAfter(trades, m) - PnlOfMonth(trades, m))]

BenchmarkMonthlyReturns(levels, months) ==
    [m \in months |->
        Minus(Times(Frac(levels[m], levels[m - 1]), FeeFactor), Whole(1))]

Compound(returns, months) ==
    FoldSet(LAMBDA m, multiple : Times(multiple, Plus(Whole(1), returns[m])),
            Whole(1), months)

\* Mistaken: a loss that a gain used up can be used again.
UseCarryforwardAgain(carryforward, gain) ==
    LET Use(state, c) ==
            LET applied == Least(c.loss, state.gain)
            IN  [state EXCEPT !.gain = Minus(@, applied), !.used = Plus(@, applied)]
    IN  FoldLeft(Use, [gain |-> gain, used |-> Whole(0), kept |-> carryforward],
                 carryforward)

\* The losses that a gain uses up, the oldest first.
UseCarryforward(carryforward, gain) ==
    LET Use(state, c) ==
            LET applied == Least(c.loss, state.gain)
                left == Minus(c.loss, applied)
            IN  [gain |-> Minus(state.gain, applied),
                 used |-> Plus(state.used, applied),
                 kept |-> IF Positive(left)
                          THEN Append(state.kept, [origin |-> c.origin, loss |-> left])
                          ELSE state.kept]
    IN  FoldLeft(Use, [gain |-> gain, used |-> Whole(0), kept |-> <<>>], carryforward)

\* Mistaken: a loss expires with its third year instead of after it.
UnexpiredTooShort(carryforward, year) ==
    SelectSeq(carryforward, LAMBDA c : year - c.origin < LossCarryforwardYears)

\* The losses that may still be used in a year.
Unexpired(carryforward, year) ==
    SelectSeq(carryforward, LAMBDA c : year - c.origin <= LossCarryforwardYears)

\* What is left of the losses after a year without or with a gain.
CarriedForward(carryforward, gain) ==
    IF Positive(gain) THEN UseCarryforward(carryforward, gain)
    ELSE [used |-> Whole(0), kept |-> carryforward]

TaxableIncome(gain, used) == IF Positive(gain) THEN Minus(gain, used) ELSE Whole(0)

CloseYear(state, y, gain, use, tax) ==
    LET wealth == Minus(Plus(state.wealth, gain), tax)
    IN  [wealth |-> wealth,
         carryforward |->
            IF gain[1] < 0
            THEN Append(use.kept, [origin |-> y, loss |-> Minus(Whole(0), gain)])
            ELSE use.kept,
         taxYears |-> Append(state.taxYears,
            [year |-> y, gain |-> gain, carryforward_used |-> use.used,
             tax |-> tax, wealth_end |-> wealth])]

AssessUse(state, y, gain, use) ==
    CloseYear(state, y, gain, use, Times(TaxableIncome(gain, use.used), TaxRate))

AssessGain(state, y, gain) ==
    AssessUse(state, y, gain, CarriedForward(Unexpired(state.carryforward, y), gain))

ApplyAnnualTax(returns, months) ==
    LET years == Min({Year(m) : m \in months})..Max({Year(m) : m \in months})
        Multiple(y) == Compound(returns, {m \in months : Year(m) = y})
        Assess(state, y) ==
            AssessGain(state, y, Times(state.wealth, Minus(Multiple(y), Whole(1))))
        start == [wealth |-> Whole(1), carryforward |-> <<>>, taxYears |-> <<>>]
    IN  FoldLeft(Assess, start, SetToSortSeq(years, <)).taxYears

\* The benchmark is sold at the end; only a gain is taxed.
AfterTax(multiple, gain) ==
    IF Positive(gain) THEN Minus(multiple, Times(gain, TaxRate)) ELSE multiple
Sold(multiple) == AfterTax(multiple, Minus(multiple, Whole(1)))
BenchmarkEnding(returns, months) == Sold(Compound(returns, months))

\* n times the sum of squares less the square of the sum: the variance, scaled.
SumOf(returns, months) ==
    FoldSet(LAMBDA m, sum : Plus(sum, returns[m]), Whole(0), months)
Square(x) == Times(x, x)
Variance(returns, months) ==
    LET squares == [m \in months |-> Square(returns[m])]
    IN  Minus(Times(Whole(Cardinality(months)), SumOf(squares, months)),
              Square(SumOf(returns, months)))

\* s / sqrt(v) > t / sqrt(w), by signs and squares.
RatioExceeds(s, v, t, w) ==
    /\ Positive(v)
    /\ Positive(w)
    /\ \/ Positive(s) /\ ~ Positive(t)
       \/ s[1] = 0 /\ t[1] < 0
       \/ Positive(s) /\ Positive(t) /\ Less(Times(Square(t), v), Times(Square(s), w))
       \/ s[1] < 0 /\ t[1] < 0 /\ Less(Times(Square(s), w), Times(Square(t), v))

\* mean / deviation of one series is above the other's; a series of one month
\* or without variance has no ratio.
SharpeExceeds(ea, benchmark, months) ==
    /\ Cardinality(months) >= 2
    /\ RatioExceeds(SumOf(ea, months), Variance(ea, months),
                    SumOf(benchmark, months), Variance(benchmark, months))

CompareSeries(taxYears, ea, benchmark, ending, months) ==
    LET eaEnding == taxYears[Len(taxYears)].wealth_end
    IN  [tax_years |-> taxYears, ea_ending |-> eaEnding, benchmark_ending |-> ending,
         criteria_met |->
            Less(ending, eaEnding) /\ SharpeExceeds(ea, benchmark, months)]

CompareReturns(ea, benchmark, months) ==
    CompareSeries(ApplyAnnualTax(ea, months), ea, benchmark,
                  BenchmarkEnding(benchmark, months), months)

ComparePeriod(trades, months, levels) ==
    CompareReturns(EaMonthlyReturns(trades, months),
                   BenchmarkMonthlyReturns(levels, months), months)

-----------------------------------------------------------------------------
(* overfitting.py                                                          *)

HigherIsBetter == {"profit_factor", "sharpe_ratio", "expectancy", "net_profit"}
LowerIsBetter == {"max_drawdown_rate"}
EvaluatedMetrics == HigherIsBetter \cup LowerIsBetter

\* Mistaken: a smaller drawdown is a degradation.
DegradedAlike(metric, inSample, other, limit) ==
    /\ inSample \in Int
    /\ other \in Int
    /\ inSample # 0
    /\ (inSample - other) * 100 >= limit * Magnitude(inSample)

\* The rate of degradation, in percent, reaches a limit; no value, one that is not
\* finite, and an in-sample value of zero have no rate.
Degraded(metric, inSample, other, limit) ==
    /\ inSample \in Int
    /\ other \in Int
    /\ IF metric \in LowerIsBetter
       THEN (other - inSample) * 100 >= limit * Max({Magnitude(inSample), DrawdownFloor})
       ELSE /\ inSample # 0
            /\ (inSample - other) * 100 >= limit * Magnitude(inSample)

SeverityScore(metric, inSample, other) ==
    IF Degraded(metric, inSample, other, HighRate) THEN 2
    ELSE IF Degraded(metric, inSample, other, ModerateRate) THEN 1
    ELSE 0

Score(inSample, metrics) ==
    Total([metric \in EvaluatedMetrics |->
              SeverityScore(metric, inSample[metric], metrics[metric])])

\* The class of a mean score, a fraction of total and count: 0, 1 or 2 for
\* LOW, MODERATE and HIGH.
ClassifyScore(total, count) ==
    IF total >= ScoreHigh * count THEN 2
    ELSE IF total >= ScoreModerate * count THEN 1
    ELSE 0

EnoughTrades(metrics) ==
    /\ metrics.number_of_trades \in Nat
    /\ metrics.number_of_trades >= MinimumTradeCount

TradeCountSufficient(inSample, metrics) == EnoughTrades(inSample) /\ EnoughTrades(metrics)

\* One short period makes the whole assessment INSUFFICIENT_DATA, here -1.
AssessOverfitting(inSample, oos, folds) ==
    LET periods == oos \o folds
        total == Total([k \in DOMAIN folds |-> Score(inSample, folds[k])])
        classes == {ClassifyScore(Score(inSample, oos[k]), 1) : k \in DOMAIN oos}
                     \cup (IF folds = <<>> THEN {} ELSE {ClassifyScore(total, Len(folds))})
    IN  IF \A k \in DOMAIN periods : TradeCountSufficient(inSample, periods[k])
        THEN Max(classes) ELSE -1

=============================================================================
