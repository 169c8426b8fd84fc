--------------------------- MODULE TimingAnalyzer ---------------------------
(***************************************************************************)
(* The two timing analyzers of the EA, CEntryTimingAnalyzer and            *)
(* CBreakoutTimingAnalyzer: on every tick they advance pending setups and  *)
(* shadow trades, trades without orders that enter on a setup's bar or on  *)
(* a later one, and hand the finished ones to CTimingAnalysisHook, which   *)
(* writes them to the audit log.  Nothing survives a restart but the log.  *)
(*                                                                         *)
(* The analyzers are alike but for the variants they compare, and do not   *)
(* meet: `kind` says which one it is.  Prices and stop distances (ATR times *)
(* its multiple) are whole numbers; a bar has the number of its place in   *)
(* the chart for its time, and a setup's id is the number of its bar.  The *)
(* level of a bar is what a later close must pass to confirm the setup:    *)
(* its own high or low, or the edge of the range it broke out of.  The six *)
(* checkpoints of a trade and the order of events within one tick are left *)
(* out.                                                                    *)
(***************************************************************************)
EXTENDS Sublists, SequencesExt

CONSTANTS
    Kinds,              \* analyzers: "entry", "breakout"
    Bars,               \* analyzer -> for each place in the chart, the bars it may have
    Prices,             \* bids of a tick
    Spread,             \* ask less bid
    RUnit,              \* how many parts of 1R the log tells apart
    RiskReward,         \* risk_reward_ratio
    MaxWaitBars,        \* entry_timing_max_wait_bars
    MaxHoldingBars,     \* entry_ and breakout_timing_max_holding_bars
    MaxFaults           \* bound: bars whose data is missing, and restarts of the EA

Bar == [high : Int, low : Int, close : Int, level : Int, atr : Nat,
        turns : BOOLEAN, setup : {"NONE", "BUY", "SELL"}]

ASSUME TimingAnalyzerAssumption ==
    /\ Kinds \subseteq {"entry", "breakout"}
    /\ Prices \subseteq Int
    /\ Spread \in Nat
    /\ RUnit \in Nat \ {0}
    /\ RiskReward \in Nat \ {0}
    /\ MaxWaitBars \in Nat \ {0}
    /\ MaxHoldingBars \in Nat \ {0}
    /\ MaxFaults \in Nat
    /\ \A kind \in Kinds : 1 \in DOMAIN Bars[kind]
    /\ \A kind \in Kinds : \A n \in DOMAIN Bars[kind] : \A b \in Bars[kind][n] :
          /\ b \in Bar
          /\ b.low <= b.close /\ b.close <= b.high
          /\ b.atr > 0 => RUnit % b.atr = 0
          /\ b.setup # "NONE" => b.atr > 0
          /\ b.low > RiskReward * b.atr  \* stops and targets are prices

VARIABLES
    kind,           \* which analyzer
    chart,          \* place of the forming bar
    closed,         \* the bar before it
    last,           \* m_last_bar_time, 0 for none
    pending,        \* m_pending
    active,         \* m_active
    log,            \* the audit log's events
    processed,      \* history: the bars that were processed since the start
    missing,        \* bound's counter: bars that were not
    restarts,       \* bound's counter
    lost,           \* history: the setups and trades that restarts dropped
    skipped         \* history: the variants that found no stop distance

market == <<chart, closed>>
vars == <<kind, market, last, pending, active, log, processed, missing, restarts, lost, skipped>>

\* A bar, and where the chart has it.
Placed(bar, n) ==
    [field \in {"place"} \cup DOMAIN bar |-> IF field = "place" THEN n ELSE bar[field]]

Init ==
    /\ kind \in Kinds
    /\ chart = 2
    /\ \E b \in Bars[kind][1] : closed = Placed(b, 1)
    /\ last = 0
    /\ pending = <<>>
    /\ active = <<>>
    /\ log = <<>>
    /\ processed = <<>>
    /\ missing = 0
    /\ restarts = 0
    /\ lost = [setups |-> <<>>, trades |-> <<>>]
    /\ skipped = <<>>

-----------------------------------------------------------------------------
(* The rules. *)

\* How far a price has moved in the direction of a trade.
Gain(direction, from, to) == IF direction = "BUY" THEN to - from ELSE from - to

\* UpdateExcursion
Furthest(direction, a, b) == IF Gain(direction, a, b) > 0 THEN b ELSE a
Excursion(x, direction, price) ==
    [x EXCEPT !.favorable = Furthest(direction, @, price),
              !.adverse = IF Gain(direction, @, price) < 0 THEN price ELSE @]

\* The price at which a trade of this direction would end now.
ExitPrice(direction, bid) == IF direction = "BUY" THEN bid ELSE bid + Spread

\* PriceToR, exact by the choice of RUnit.
PriceToR(direction, from, to, stop) == (Gain(direction, from, to) * RUnit) \div stop

Finalized(trade, reason, price) ==
    [trade EXCEPT !.exit = reason,
                  !.pnl_r = PriceToR(trade.direction, trade.price, price, trade.stop)]

\* The stop is looked at before the target.
Monitored(trade, bid) ==
    LET gain == Gain(trade.direction, trade.price, ExitPrice(trade.direction, bid))
        seen == Excursion(trade, trade.direction, ExitPrice(trade.direction, bid))
        Stop(r) == IF trade.direction = "BUY" THEN trade.price + r * trade.stop
                   ELSE trade.price - r * trade.stop
    IN  CASE gain <= -trade.stop -> Finalized(seen, "SL", Stop(-1))
          [] gain >= RiskReward * trade.stop -> Finalized(seen, "TP", Stop(RiskReward))
          [] OTHER -> seen

\* Mistaken: a trade is held for one bar more.
AgedBeyond(trade, bar) ==
    LET older == [trade EXCEPT !.held = @ + 1]
    IN  IF older.held > MaxHoldingBars THEN Finalized(older, "EXPIRED", bar.close) ELSE older

\* A new bar: one more bar held; at the limit the trade ends at the bar's close.
Aged(trade, bar) ==
    LET older == [trade EXCEPT !.held = @ + 1]
    IN  IF older.held >= MaxHoldingBars THEN Finalized(older, "EXPIRED", bar.close) ELSE older

Entry(setup, variant, direction, bar, wait) ==
    [setup |-> setup, variant |-> variant, direction |-> direction, entered |-> bar.place,
     price |-> bar.close, stop |-> bar.atr, wait |-> wait, held |-> 0,
     favorable |-> bar.close, adverse |-> bar.close, exit |-> "open", pnl_r |-> 0]

-----------------------------------------------------------------------------
(* Pending setups. *)

\* IsPullbackTrigger, a rule of the strategy that is not in this repository: the
\* bar turns back into the trend and closes beyond the setup's bar.
\* HoldsBreakout: it closes beyond the level that was broken.
Confirms(setup, bar) ==
    IF kind = "entry"
    THEN bar.turns /\ Gain(setup.direction, setup.level, bar.close) > 0
    ELSE Gain(setup.direction, setup.level, bar.close) > 0

\* Mistaken: the last bar of the wait is not looked at.
WatchesTooShort(setup, elapsed) ==
    IF kind = "entry" THEN setup.confirmed = {} /\ elapsed < MaxWaitBars
    ELSE elapsed <= 3

\* Whether the setup still looks for its trigger, or for the breakout to hold.
Watches(setup, elapsed) ==
    IF kind = "entry" THEN setup.confirmed = {} /\ elapsed <= MaxWaitBars
    ELSE elapsed <= 3

AdvancedSetup(setup, bar) ==
    LET elapsed == setup.elapsed + 1
        range == Excursion(Excursion(setup, setup.direction, bar.high),
                           setup.direction, bar.low)
    IN  [range EXCEPT !.elapsed = elapsed,
                      !.confirmed = IF Watches(setup, elapsed) /\ Confirms(setup, bar)
                                    THEN @ \cup {elapsed} ELSE @]

\* The variants whose time is this bar.
Due(setup) ==
    LET n == setup.elapsed
    IN  IF kind = "entry"
        THEN (IF n = 1 THEN <<"WAIT_1_BAR">> ELSE IF n = 2 THEN <<"WAIT_2_BARS">> ELSE <<>>)
               \o (IF n \in setup.confirmed THEN <<"WAIT_TRIGGER">> ELSE <<>>)
        ELSE IF n \in setup.confirmed
             THEN <<<<"CONFIRM_1_BAR", "CONFIRM_2_BARS", "CONFIRM_3_BARS">>[n]>>
             ELSE <<>>

\* RegisterActiveTrade returns without a word when there is no stop distance.
Registered(bar) == bar.atr > 0

Entries(setups, bar) ==
    FlattenSeq([k \in DOMAIN setups |->
        LET s == setups[k]
            due == Due(s)
        IN  [i \in DOMAIN due |-> Entry(s.setup, due[i], s.direction, bar, s.elapsed)]])

\* Mistaken: a trigger completes the setup before its other variants are due.
CompletedByTrigger(setup) ==
    IF kind = "entry" THEN setup.confirmed # {} \/ setup.elapsed >= MaxWaitBars
    ELSE setup.elapsed >= 3

Completed(setup) ==
    IF kind = "entry"
    THEN /\ setup.elapsed >= 2
         /\ setup.confirmed # {} \/ setup.elapsed >= MaxWaitBars
    ELSE setup.elapsed >= 3

\* The bar itself is a setup: it is pending from now on and enters at once.
Detected(bar) ==
    IF bar.setup = "NONE" THEN <<>>
    ELSE <<[setup |-> bar.place, direction |-> bar.setup, level |-> bar.level,
            close |-> bar.close, stop |-> bar.atr, elapsed |-> 0, confirmed |-> {},
            favorable |-> bar.close, adverse |-> bar.close]>>

Immediate(bar) ==
    [k \in DOMAIN Detected(bar) |-> Entry(bar.place, "IMMEDIATE", bar.setup, bar, 0)]

-----------------------------------------------------------------------------
(* What happens. *)

\* What the log says of a setup or a trade; `start` says in which start of the
\* EA it was and is no part of the log.
SetupEvent(s) ==
    [type |-> "SETUP", start |-> restarts, setup |-> s.setup, confirmed |-> s.confirmed,
     mfe_r |-> PriceToR(s.direction, s.close, s.favorable, s.stop),
     mae_r |-> PriceToR(s.direction, s.close, s.adverse, s.stop)]

TradeEvent(t) ==
    [type |-> "TRADE", start |-> restarts, setup |-> t.setup, variant |-> t.variant,
     entered |-> t.entered, price |-> t.price, direction |-> t.direction, stop |-> t.stop,
     wait |-> t.wait, held |-> t.held, exit |-> t.exit, pnl_r |-> t.pnl_r,
     mfe_r |-> PriceToR(t.direction, t.price, t.favorable, t.stop),
     mae_r |-> PriceToR(t.direction, t.price, t.adverse, t.stop)]

SetupEvents(setups) == [k \in DOMAIN setups |-> SetupEvent(setups[k])]
TradeEvents(trades) == [k \in DOMAIN trades |-> TradeEvent(trades[k])]

Open(trades) == Those(trades, LAMBDA t : t.exit = "open")
Ended(trades) == Those(trades, LAMBDA t : t.exit # "open")

\* The forming bar closes and another one opens; the EA may be too busy to see it.
BarOpens ==
    /\ chart \in DOMAIN Bars[kind]
    /\ \E b \in Bars[kind][chart] : closed' = Placed(b, chart)
    /\ chart' = chart + 1
    /\ UNCHANGED <<kind, last, pending, active, log, processed, missing, restarts, lost, skipped>>

\* A tick of a bar that was seen before, or one on which iTime has no answer
\* (0): the open trades are monitored and no bar is noted.
Tick(bid) ==
    LET trades == [k \in DOMAIN active |-> Monitored(active[k], bid)]
    IN  /\ active' = Open(trades)
        /\ log' = log \o TradeEvents(Ended(trades))
        /\ UNCHANGED <<kind, market, last, pending, processed, missing, restarts, lost, skipped>>

\* The first tick of a bar whose data is missing: the bar is noted as seen all
\* the same, and what the analyzer would have done with the closed one is lost.
TickWithoutData(bid) ==
    LET trades == [k \in DOMAIN active |-> Monitored(active[k], bid)]
    IN  /\ last # chart
        /\ missing + restarts < MaxFaults
        /\ missing' = missing + 1
        /\ last' = chart
        /\ active' = Open(trades)
        /\ log' = log \o TradeEvents(Ended(trades))
        /\ UNCHANGED <<kind, market, pending, processed, restarts, lost, skipped>>

\* The first tick of a bar: ProcessNewBar with the closed one.
TickOfNewBar(bid) ==
    LET trades == [k \in DOMAIN active |-> Monitored(active[k], bid)]
        aged == [k \in DOMAIN Open(trades) |-> Aged(Open(trades)[k], closed)]
        setups == [k \in DOMAIN pending |-> AdvancedSetup(pending[k], closed)]
        entries == Entries(setups, closed)
    IN  /\ last # chart
        /\ last' = chart
        /\ active' = Open(aged) \o (IF Registered(closed) THEN entries ELSE <<>>)
                       \o Immediate(closed)
        /\ pending' = Those(setups, LAMBDA s : ~ Completed(s)) \o Detected(closed)
        /\ log' = log \o SetupEvents(Those(setups, Completed))
                      \o TradeEvents(Ended(trades) \o Ended(aged))
        /\ processed' = Append(processed, closed)
        /\ skipped' = IF Registered(closed) THEN skipped ELSE skipped \o entries
        /\ UNCHANGED <<kind, market, missing, restarts, lost>>

\* Shutdown and Initialize: pending setups and open trades leave no event.
Restart ==
    /\ missing + restarts < MaxFaults
    /\ restarts' = restarts + 1
    /\ last' = 0
    /\ pending' = <<>>
    /\ active' = <<>>
    /\ lost' = [setups |-> lost.setups \o pending, trades |-> lost.trades \o active]
    /\ processed' = <<>>
    /\ UNCHANGED <<kind, market, log, missing, skipped>>

Next ==
    \/ BarOpens
    \/ \E bid \in Prices : Tick(bid) \/ TickWithoutData(bid) \/ TickOfNewBar(bid)
    \/ Restart

Spec == Init /\ [][Next]_vars

=============================================================================
