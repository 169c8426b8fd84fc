---------------------------- MODULE TimingReport ----------------------------
(***************************************************************************)
(* The reports of python/analysis on the two timing analyzers' events:     *)
(* entry_timing and breakout_timing, which tabulate the shadow trades by   *)
(* variant and the setups as a whole.  An average is represented by the    *)
(* sum and the count that it is computed from.                             *)
(***************************************************************************)
EXTENDS TimingAnalyzer, TradeReports

\* DRAWDOWN_BASELINE_R, so large that no curve reaches zero.
BaselineR == 10000 * RUnit

VariantsOf(k) ==
    IF k = "entry" THEN {"IMMEDIATE", "WAIT_1_BAR", "WAIT_2_BARS", "WAIT_TRIGGER"}
    ELSE {"IMMEDIATE", "CONFIRM_1_BAR", "CONFIRM_2_BARS", "CONFIRM_3_BARS"}

ExtractSetups(events) == Those(events, LAMBDA e : e.type = "SETUP")

\* The rows of the trades' table, as groups of trades have them.
ExtractTrades(events) ==
    LET trades == Those(events, LAMBDA e : e.type = "TRADE")
    IN  [k \in DOMAIN trades |->
            [variant |-> trades[k].variant, entry_bar_time |-> trades[k].entered,
             net_pnl |-> trades[k].pnl_r,
             mfe_r |-> trades[k].mfe_r, mae_r |-> trades[k].mae_r]]

SumR(rows, column) == FoldLeft(LAMBDA sum, r : sum + r[column], 0, rows)

\* One point per bar at which trades entered, the first one after their losses.
EquityCurveFromPnlR(trades) ==
    [t \in {trades[k].entry_bar_time : k \in DOMAIN trades} |->
        BaselineR + NetPnl(Those(trades, LAMBDA u : u.entry_bar_time <= t))]

\* The whole report is refused when the curve of one variant is.
VariantSummary(trades) ==
    [v \in VariantsOf(kind) |->
        LET part == Those(trades, LAMBDA t : t.variant = v)
            curve == EquityCurveFromPnlR(part)
        IN  [refused |-> CurveRefused(curve),
             totals |-> AggregateTradeGroup(part),
             max_drawdown_r |-> SummarizeDrawdown(curve).amount,
             sum_mfe_r |-> SumR(part, "mfe_r"),
             sum_mae_r |-> SumR(part, "mae_r")]]

Excursions(setups) ==
    [setups_observed |-> Len(setups),
     sum_mfe_r |-> SumR(setups, "mfe_r"),
     sum_mae_r |-> SumR(setups, "mae_r")]

PreEntryExcursionSummary(setups) ==
    [excursions |-> Excursions(setups),
     trigger_found_count |-> Len(Those(setups, LAMBDA s : s.confirmed # {}))]

\* The rates, as counts of the setups observed.
ConfirmationHoldSummary(setups) ==
    [excursions |-> Excursions(setups),
     held |-> [n \in 1..3 |-> Len(Those(setups, LAMBDA s : n \in s.confirmed))]]

-----------------------------------------------------------------------------
(* The hazards: bars that are lost, ends that coincide, restarts.          *)

IndexOf(variant) ==
    CHOOSE n \in 0..3 :
        variant \in CASE n = 0 -> {"IMMEDIATE"}
                      [] n = 1 -> {"WAIT_1_BAR", "CONFIRM_1_BAR"}
                      [] n = 2 -> {"WAIT_2_BARS", "CONFIRM_2_BARS"}
                      [] OTHER -> {"CONFIRM_3_BARS"}

\* Bar j of those processed confirms the setup of bar i.
ConfirmedBy(i, j) ==
    LET s == processed[i]
        b == processed[j]
    IN  /\ kind = "entry" => b.turns
        /\ IF s.setup = "BUY" THEN b.close > s.level ELSE b.close < s.level

\* The bar at which a variant of the setup of bar i enters, if it does.
EntryBars(i, variant) ==
    LET n == DOMAIN processed
        triggers == {j \in n : i < j /\ j <= i + MaxWaitBars /\ ConfirmedBy(i, j)}
    IN  IF variant = "WAIT_TRIGGER"
        THEN {j \in triggers : \A k \in triggers : j <= k}
        ELSE {j \in n \cap {i + IndexOf(variant)} :
                 kind = "breakout" /\ i < j => ConfirmedBy(i, j)}

TradesOfThisStart ==
    active \o Those(log, LAMBDA e : e.type = "TRADE" /\ e.start = restarts)

TradesDue ==
    UNION {UNION {
        {[setup |-> processed[i].place, variant |-> v, direction |-> processed[i].setup,
          entered |-> processed[j].place, price |-> processed[j].close,
          stop |-> processed[j].atr, wait |-> j - i] :
            j \in {k \in EntryBars(i, v) : processed[k].atr > 0}}
        : v \in VariantsOf(kind)} : i \in {k \in DOMAIN processed : processed[k].setup # "NONE"}}

\* The shadow trades since the EA's start are those of the rules, each once: a
\* variant enters at the close of its own bar, counted in the bars that were
\* processed, so that a bar whose data was missing delays it and loses nothing
\* (OnTick notes the bar as seen before it has its data).
TradesEnterOnTime ==
    LET Terms(t) == [setup |-> t.setup, variant |-> t.variant, direction |-> t.direction,
                     entered |-> t.entered, price |-> t.price, stop |-> t.stop,
                     wait |-> t.wait]
    IN  /\ {Terms(TradesOfThisStart[k]) : k \in DOMAIN TradesOfThisStart} = TradesDue
        /\ Len(TradesOfThisStart) = Cardinality(TradesDue)

\* The close of the last bar that a trade of this start was held for.
LastClose(trade) ==
    LET entry == CHOOSE j \in DOMAIN processed : processed[j].place = trade.entered
    IN  processed[entry + MaxHoldingBars].close

\* A trade ends the first time that it reaches its stop, its target or its time,
\* and its R multiple is that of this end: no trade that is still held has
\* reached one, and none that ended had reached another before.
OutcomesAreReached ==
    /\ \A k \in DOMAIN active :
          LET t == active[k]
          IN  /\ t.held < MaxHoldingBars
              /\ Gain(t.direction, t.price, t.adverse) > -t.stop
              /\ Gain(t.direction, t.price, t.favorable) < RiskReward * t.stop
    /\ \A k \in DOMAIN log : log[k].type = "TRADE" =>
          LET t == log[k]
              stopped == t.mae_r <= -RUnit
              reached == t.mfe_r >= RiskReward * RUnit
          IN  CASE t.exit = "SL" -> stopped /\ ~ reached /\ t.pnl_r = -RUnit
                [] t.exit = "TP" -> reached /\ ~ stopped /\ t.pnl_r = RiskReward * RUnit
                [] t.exit = "EXPIRED" ->
                      /\ ~ stopped /\ ~ reached
                      /\ t.held = MaxHoldingBars
                      /\ t.start = restarts =>
                            t.pnl_r * t.stop = RUnit * Gain(t.direction, t.price, LastClose(t))

\* A variant of the setup was due by now.
WasDue(s, variant) ==
    CASE variant = "WAIT_TRIGGER" -> s.confirmed # {}
      [] kind = "breakout" /\ IndexOf(variant) > 0 -> IndexOf(variant) \in s.confirmed
      [] OTHER -> s.elapsed >= IndexOf(variant)

\* How many of the setups in the log were to enter, by the setups' table alone.
DueByTable(variant) ==
    LET setups == ExtractSetups(log)
    IN  CASE variant = "WAIT_TRIGGER" -> PreEntryExcursionSummary(setups).trigger_found_count
          [] kind = "breakout" /\ IndexOf(variant) > 0 ->
                ConfirmationHoldSummary(setups).held[IndexOf(variant)]
          [] OTHER -> Excursions(setups).setups_observed

\* The trades of a variant, in its row, still open, lost or skipped, are as many as
\* the setups, in the tables, pending or lost, that were to enter by it.
AccountedFor(row, v) ==
    LET Of(trades) == Len(Those(trades, LAMBDA t : t.variant = v))
        Unfinished(setups) == Len(Those(setups, LAMBDA s : WasDue(s, v)))
    IN  row.totals.number_of_trades + Of(active) + Of(lost.trades) + Of(skipped)
             = DueByTable(v) + Unfinished(pending) + Unfinished(lost.setups)

\* What trades lost that entered after the first bar of all of them.
LaterLosses(trades) ==
    NetPnl(Those(trades, LAMBDA t :
               /\ t.net_pnl < 0
               /\ \E k \in DOMAIN trades : trades[k].entry_bar_time < t.entry_bar_time))

\* The table of the trades agrees with that of the setups, over restarts and
\* all: for each variant, its trades are as many as the setups that were to
\* enter by it, but for those still open or pending, lost in a restart, or
\* skipped for want of a stop.  No variant's drawdown exceeds what it lost after
\* its first bar: the curve begins after the losses of that bar, not with the
\* baseline.
TablesAgree ==
    \A v \in VariantsOf(kind) :
        LET trades == ExtractTrades(log)
            row == VariantSummary(trades)[v]
        IN  ~ row.refused =>
                /\ AccountedFor(row, v)
                /\ row.max_drawdown_r <= - LaterLosses(Those(trades, LAMBDA t : t.variant = v))

=============================================================================
