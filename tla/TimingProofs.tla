---------------------------- MODULE TimingProofs ----------------------------
(***************************************************************************)
(* What TimingReport says of the shadow trades, proved for any chart, any  *)
(* number of bars and faults, and any length of the log.                   *)
(***************************************************************************)
EXTENDS TimingReport, TradeReportsProofs

-----------------------------------------------------------------------------
(* The kinds of the data.                                                  *)

Direction == {"BUY", "SELL"}

Variants == {"IMMEDIATE", "WAIT_1_BAR", "WAIT_2_BARS", "WAIT_TRIGGER",
             "CONFIRM_1_BAR", "CONFIRM_2_BARS", "CONFIRM_3_BARS"}

PlacedBar == [place : Nat, high : Int, low : Int, close : Int, level : Int, atr : Nat,
              turns : BOOLEAN, setup : {"NONE"} \cup Direction]

PendingSetup == [setup : Nat, direction : Direction, level : Int, close : Int,
                 stop : Nat \ {0},
                 elapsed : Nat, confirmed : SUBSET Nat, favorable : Int, adverse : Int]

Trade == [setup : Nat, variant : Variants, direction : Direction, entered : Nat, price : Int,
          stop : Nat, wait : Nat, held : Nat, favorable : Int, adverse : Int,
          exit : {"open", "SL", "TP", "EXPIRED"}, pnl_r : Int]

SetupEventType == [type : {"SETUP"}, start : Nat, setup : Nat, confirmed : SUBSET Nat,
                   mfe_r : Int, mae_r : Int]

TradeEventType == [type : {"TRADE"}, start : Nat, setup : Nat, variant : Variants,
                   entered : Nat, price : Int, direction : Direction, stop : Nat,
                   wait : Nat, held : Nat, exit : {"open", "SL", "TP", "EXPIRED"},
                   pnl_r : Int, mfe_r : Int, mae_r : Int]

Event == SetupEventType \cup TradeEventType

TypeInv ==
    /\ kind \in Kinds
    /\ chart \in Nat
    /\ closed \in PlacedBar
    /\ last \in Nat
    /\ pending \in Seq(PendingSetup)
    /\ active \in Seq(Trade)
    /\ log \in Seq(Event)
    /\ processed \in Seq(PlacedBar)
    /\ missing \in Nat /\ restarts \in Nat
    /\ lost \in [setups : Seq(PendingSetup), trades : Seq(Trade)]
    /\ skipped \in Seq(Trade)

-----------------------------------------------------------------------------
(* The inductive invariant.                                                *)

\* R multiples of a stop distance are exact, and a setup has one.
Sound(bar) ==
    /\ bar.atr > 0 => RUnit % bar.atr = 0
    /\ bar.setup # "NONE" => bar.atr > 0

\* The bars that were processed since the start, in the order of the chart.
ChartInv ==
    /\ closed.place = chart - 1
    /\ last <= chart
    /\ Sound(closed)
    /\ \A j \in DOMAIN processed : Sound(processed[j]) /\ processed[j].place < last
    /\ \A i, j \in DOMAIN processed : i < j => processed[i].place < processed[j].place

\* An open trade has a stop distance and has reached neither end nor time.
Running(t) ==
    /\ t.stop > 0 /\ RUnit % t.stop = 0
    /\ t.exit = "open"
    /\ t.held < MaxHoldingBars
    /\ Gain(t.direction, t.price, t.adverse) <= 0
    /\ Gain(t.direction, t.price, t.adverse) > -t.stop
    /\ Gain(t.direction, t.price, t.favorable) >= 0
    /\ Gain(t.direction, t.price, t.favorable) < RiskReward * t.stop

\* It has been held since its bar was processed.
HeldSince(t, bars) ==
    \E j \in DOMAIN bars : bars[j].place = t.entered /\ j + t.held = Len(bars)

\* What OutcomesAreReached says of one event, but for the bar of its end.
Settled(e) ==
    LET stopped == e.mae_r <= -RUnit
        reached == e.mfe_r >= RiskReward * RUnit
    IN  /\ e.exit \in {"SL", "TP", "EXPIRED"}
        /\ e.exit = "SL" => stopped /\ ~ reached /\ e.pnl_r = -RUnit
        /\ e.exit = "TP" => reached /\ ~ stopped /\ e.pnl_r = RiskReward * RUnit
        /\ e.exit = "EXPIRED" => ~ stopped /\ ~ reached /\ e.held = MaxHoldingBars

\* That bar: its close is what the trade ended at.
ExpiredAt(e, bars) ==
    e.exit = "EXPIRED" =>
        \E j \in DOMAIN bars :
            /\ bars[j].place = e.entered
            /\ j + MaxHoldingBars \in DOMAIN bars
            /\ e.pnl_r * e.stop
                 = RUnit * Gain(e.direction, e.price, bars[j + MaxHoldingBars].close)

OutcomeInv ==
    /\ \A t \in ToSet(active) : Running(t) /\ HeldSince(t, processed)
    /\ \A e \in ToSet(log) :
          /\ e.start <= restarts
          /\ e.type = "TRADE" => Settled(e)
          /\ e.type = "TRADE" /\ e.start = restarts => ExpiredAt(e, processed)

-----------------------------------------------------------------------------
(* R multiples.                                                            *)

LEMMA GainIsWhole ==
    ASSUME NEW d, NEW a \in Int, NEW b \in Int
    PROVE  Gain(d, a, b) \in Int
BY DEF Gain

LEMMA ProductOrder ==
    ASSUME NEW a \in Int, NEW b \in Int, NEW q \in Nat, q > 0
    PROVE  (a * q <= b * q) <=> (a <= b)
<1>1. a <= b => (b - a) * q >= 0
  OBVIOUS
<1>2. a > b => (a - b) * q > 0
  OBVIOUS
<1>3. (b - a) * q = b * q - a * q /\ (a - b) * q = a * q - b * q
  OBVIOUS
<1>4. a * q \in Int /\ b * q \in Int
  OBVIOUS
<1> QED
  BY <1>1, <1>2, <1>3, <1>4

LEMMA ExactQuotient ==
    ASSUME NEW b \in Nat, b > 0, NEW a \in Int
    PROVE  /\ a % b = 0 => b * (a \div b) = a
           /\ (a * b) \div b = a
<1>1. a % b = 0 => b * (a \div b) = a
  BY SMTT(30)
<1>2. (a * b) \div b = a
  BY SMTT(30)
<1> QED
  BY <1>1, <1>2

\* An R multiple is exact where the unit is a multiple of the stop distance.
LEMMA PriceToRExact ==
    ASSUME NEW d, NEW from \in Int, NEW to \in Int, NEW stop \in Nat,
           stop > 0, RUnit % stop = 0
    PROVE  /\ PriceToR(d, from, to, stop) \in Int
           /\ PriceToR(d, from, to, stop) * stop = RUnit * Gain(d, from, to)
           /\ \A x \in Int : PriceToR(d, from, to, stop) <= x * RUnit
                                <=> Gain(d, from, to) <= x * stop
           /\ \A x \in Int : PriceToR(d, from, to, stop) >= x * RUnit
                                <=> Gain(d, from, to) >= x * stop
           /\ \A x \in Int : Gain(d, from, to) = x * stop
                                => PriceToR(d, from, to, stop) = x * RUnit
<1> DEFINE g == Gain(d, from, to)
           q == RUnit \div stop
<1>1. RUnit \in Nat /\ RUnit > 0
  BY TimingAnalyzerAssumption
<1>2. q \in Nat /\ RUnit = q * stop /\ q > 0
  <2>1. q \in Int
    BY <1>1
  <2>2. RUnit = stop * q
    BY <1>1, ExactQuotient
  <2> HIDE DEF q
  <2>3. q > 0
    <3>1. q <= 0 => stop * q <= 0
      BY <2>1
    <3> QED BY <1>1, <2>1, <2>2, <3>1
  <2> QED BY <2>1, <2>2, <2>3
<1>3. g \in Int
  BY GainIsWhole
<1>4. PriceToR(d, from, to, stop) = (g * RUnit) \div stop
  BY DEF PriceToR
<1> HIDE DEF g, q
<1>5. (g * RUnit) \div stop = g * q
  <2>1. g * q \in Int /\ g * RUnit = (g * q) * stop
    BY <1>2, <1>3
  <2> QED BY <2>1, ExactQuotient
<1>6. PriceToR(d, from, to, stop) = g * q /\ g * q \in Int
  BY <1>2, <1>3, <1>4, <1>5
<1>7. (g * q) * stop = RUnit * g
  BY <1>2, <1>3
<1>8. ASSUME NEW x \in Int
      PROVE  /\ (g * q <= x * RUnit) <=> (g <= x * stop)
             /\ (g * q >= x * RUnit) <=> (g >= x * stop)
             /\ g = x * stop => g * q = x * RUnit
  <2> DEFINE y == x * stop
  <2>1. y \in Int /\ x * RUnit = y * q
    BY <1>2
  <2> HIDE DEF y
  <2>2. (g * q <= y * q) <=> (g <= y)
    BY <1>2, <1>3, <2>1, ProductOrder
  <2>3. (y * q <= g * q) <=> (y <= g)
    BY <1>2, <1>3, <2>1, ProductOrder
  <2>4. g * q \in Int /\ y * q \in Int
    BY <1>2, <1>3, <2>1
  <2> QED BY <1>3, <2>1, <2>2, <2>3, <2>4 DEF y
<1> QED
  BY <1>6, <1>7, <1>8 DEF g

LEMMA GainAdds ==
    ASSUME NEW d, NEW a \in Int, NEW b \in Int, NEW c \in Int
    PROVE  Gain(d, a, c) = Gain(d, a, b) + Gain(d, b, c)
BY DEF Gain

-----------------------------------------------------------------------------
(* One shadow trade.                                                       *)

\* What a trade never changes.
SameTerms(t, u) ==
    /\ t.setup = u.setup /\ t.variant = u.variant /\ t.direction = u.direction
    /\ t.entered = u.entered /\ t.price = u.price /\ t.stop = u.stop /\ t.wait = u.wait

\* The extremes of an excursion are the furthest prices so far.
LEMMA ExcursionExtremes ==
    ASSUME NEW t \in Trade, NEW p \in Int, t.stop > 0
    PROVE  LET x == Excursion(t, t.direction, p)
               g == Gain(t.direction, t.price, p)
               f == Gain(t.direction, t.price, t.favorable)
               a == Gain(t.direction, t.price, t.adverse)
           IN  /\ x \in Trade /\ SameTerms(x, t)
               /\ x.held = t.held /\ x.exit = t.exit /\ x.pnl_r = t.pnl_r
               /\ Gain(x.direction, x.price, x.favorable) = IF g > f THEN g ELSE f
               /\ Gain(x.direction, x.price, x.adverse) = IF g < a THEN g ELSE a
<1> DEFINE x == Excursion(t, t.direction, p)
<1>1. x \in Trade /\ SameTerms(x, t) /\ x.held = t.held /\ x.exit = t.exit /\ x.pnl_r = t.pnl_r
  BY DEF Excursion, Furthest, Trade, SameTerms
<1>2. /\ x.favorable = Furthest(t.direction, t.favorable, p)
      /\ x.adverse = IF Gain(t.direction, t.adverse, p) < 0 THEN p ELSE t.adverse
  BY DEF Excursion, Trade
<1>3. t.price \in Int /\ t.favorable \in Int /\ t.adverse \in Int
  BY DEF Trade
<1> HIDE DEF x
<1>4. Gain(x.direction, x.price, x.favorable)
        = IF Gain(t.direction, t.price, p) > Gain(t.direction, t.price, t.favorable)
          THEN Gain(t.direction, t.price, p) ELSE Gain(t.direction, t.price, t.favorable)
  BY <1>1, <1>2, <1>3 DEF Furthest, Gain, SameTerms
<1>5. Gain(x.direction, x.price, x.adverse)
        = IF Gain(t.direction, t.price, p) < Gain(t.direction, t.price, t.adverse)
          THEN Gain(t.direction, t.price, p) ELSE Gain(t.direction, t.price, t.adverse)
  BY <1>1, <1>2, <1>3 DEF Gain, SameTerms
<1> QED
  BY <1>1, <1>4, <1>5 DEF x

\* What an event says of the trade's extremes, in exact multiples.
LEMMA EventExtremes ==
    ASSUME NEW t \in Trade, t.stop > 0, RUnit % t.stop = 0
    PROVE  LET e == TradeEvent(t)
               f == Gain(t.direction, t.price, t.favorable)
               a == Gain(t.direction, t.price, t.adverse)
           IN  /\ e.mae_r \in Int /\ e.mfe_r \in Int
               /\ e.mae_r <= -RUnit <=> a <= -t.stop
               /\ e.mfe_r >= RiskReward * RUnit <=> f >= RiskReward * t.stop
               /\ e.exit = t.exit /\ e.held = t.held /\ e.pnl_r = t.pnl_r
               /\ e.type = "TRADE" /\ e.start = restarts /\ SameTerms(e, t)
<1> DEFINE e == TradeEvent(t)
           f == Gain(t.direction, t.price, t.favorable)
           a == Gain(t.direction, t.price, t.adverse)
<1>1. t.price \in Int /\ t.favorable \in Int /\ t.adverse \in Int /\ t.stop \in Nat
  BY DEF Trade
<1>2. RUnit \in Nat /\ RiskReward \in Nat
  BY TimingAnalyzerAssumption
<1>3. /\ e.mae_r = PriceToR(t.direction, t.price, t.adverse, t.stop)
      /\ e.mfe_r = PriceToR(t.direction, t.price, t.favorable, t.stop)
      /\ e.exit = t.exit /\ e.held = t.held /\ e.pnl_r = t.pnl_r
      /\ e.type = "TRADE" /\ e.start = restarts /\ SameTerms(e, t)
  BY DEF TradeEvent, SameTerms
<1>4. /\ e.mae_r \in Int
      /\ (e.mae_r <= (-1) * RUnit) <=> (a <= (-1) * t.stop)
  BY <1>1, <1>3, PriceToRExact
<1>5. /\ e.mfe_r \in Int
      /\ (e.mfe_r >= RiskReward * RUnit) <=> (f >= RiskReward * t.stop)
  BY <1>1, <1>2, <1>3, PriceToRExact
<1>6. (-1) * RUnit = -RUnit /\ (-1) * t.stop = -t.stop
  BY <1>1, <1>2
<1> QED
  BY <1>3, <1>4, <1>5, <1>6

LEMMA EventType ==
    ASSUME NEW t \in Trade, restarts \in Nat, t.stop > 0, RUnit % t.stop = 0
    PROVE  TradeEvent(t) \in Event
<1>1. TradeEvent(t).mae_r \in Int /\ TradeEvent(t).mfe_r \in Int
  BY EventExtremes
<1> QED
  BY <1>1 DEF TradeEvent, Trade, Event, TradeEventType

\* A tick ends a trade at its stop or at its target, or leaves it running.
LEMMA MonitoredTrade ==
    ASSUME NEW t \in Trade, Running(t), NEW bid \in Int
    PROVE  LET m == Monitored(t, bid)
           IN  /\ m \in Trade /\ SameTerms(m, t) /\ m.held = t.held
               /\ m.exit = "open" => Running(m)
               /\ m.exit # "open" => m.exit \in {"SL", "TP"} /\ Settled(TradeEvent(m))
<1> DEFINE m == Monitored(t, bid)
           p == ExitPrice(t.direction, bid)
           g == Gain(t.direction, t.price, p)
           seen == Excursion(t, t.direction, p)
           Stop(r) == IF t.direction = "BUY" THEN t.price + r * t.stop
                      ELSE t.price - r * t.stop
           f == Gain(t.direction, t.price, t.favorable)
           a == Gain(t.direction, t.price, t.adverse)
<1>1. /\ t.price \in Int /\ t.favorable \in Int /\ t.adverse \in Int /\ t.stop \in Nat
      /\ t.direction \in Direction
  BY DEF Trade
<1>2. RiskReward \in Nat /\ RiskReward >= 1 /\ RUnit \in Nat /\ RUnit >= 1 /\ Spread \in Nat
  BY TimingAnalyzerAssumption
<1>3. p \in Int
  BY <1>2 DEF ExitPrice
<1>4. g \in Int /\ f \in Int /\ a \in Int
  BY <1>1, <1>3, GainIsWhole
<1>5. /\ t.stop > 0 /\ RUnit % t.stop = 0 /\ t.exit = "open" /\ t.held < MaxHoldingBars
      /\ a <= 0 /\ a > -t.stop /\ f >= 0 /\ f < RiskReward * t.stop
  BY DEF Running
<1>6. /\ seen \in Trade /\ SameTerms(seen, t)
      /\ seen.held = t.held /\ seen.exit = t.exit
      /\ Gain(seen.direction, seen.price, seen.favorable) = IF g > f THEN g ELSE f
      /\ Gain(seen.direction, seen.price, seen.adverse) = IF g < a THEN g ELSE a
  BY <1>3, <1>5, ExcursionExtremes
<1>7. m = CASE g <= -t.stop -> Finalized(seen, "SL", Stop(-1))
            [] g >= RiskReward * t.stop -> Finalized(seen, "TP", Stop(RiskReward))
            [] OTHER -> seen
  BY DEF Monitored
<1>8. ASSUME NEW r \in Int
      PROVE  /\ Stop(r) \in Int
             /\ Gain(t.direction, t.price, Stop(r)) = r * t.stop
  <2>1. r * t.stop \in Int
    BY <1>1, <1>8
  <2> QED BY <1>1, <2>1 DEF Gain, Direction
<1>9. RiskReward * t.stop >= t.stop /\ RiskReward * t.stop \in Int
  <2>1. (RiskReward - 1) * t.stop >= 0
    BY <1>1, <1>2
  <2> QED BY <1>1, <1>2, <2>1
<1> HIDE DEF m, p, g, seen, Stop, f, a
<1>10. ASSUME NEW reason \in {"SL", "TP"}, NEW r \in Int,
              m = Finalized(seen, reason, Stop(r))
       PROVE  /\ m \in Trade /\ SameTerms(m, t) /\ m.held = t.held /\ m.exit = reason
              /\ m.favorable = seen.favorable /\ m.adverse = seen.adverse
              /\ m.pnl_r = r * RUnit
  <2>1. PriceToR(t.direction, t.price, Stop(r), t.stop) = r * RUnit
    BY <1>1, <1>5, <1>8, PriceToRExact
  <2>2. r * RUnit \in Int
    BY <1>2
  <2>3. /\ seen.direction = t.direction /\ seen.price = t.price /\ seen.stop = t.stop
    BY <1>6 DEF SameTerms
  <2>4. m = [seen EXCEPT !.exit = reason, !.pnl_r = r * RUnit]
    BY <1>10, <2>1, <2>3 DEF Finalized
  <2> QED BY <1>6, <2>2, <2>4 DEF Trade, SameTerms
<1>11. CASE g <= -t.stop
  <2>1. m = Finalized(seen, "SL", Stop(-1))
    <3>1. ~ (g >= RiskReward * t.stop)
      BY <1>1, <1>4, <1>5, <1>9, <1>11
    <3> QED BY <1>7, <1>11, <3>1
  <2>2. /\ m \in Trade /\ SameTerms(m, t) /\ m.held = t.held /\ m.exit = "SL"
        /\ m.favorable = seen.favorable /\ m.adverse = seen.adverse /\ m.pnl_r = -RUnit
    BY <1>2, <1>10, <2>1
  <2>3. /\ Gain(m.direction, m.price, m.favorable) < RiskReward * t.stop
        /\ Gain(m.direction, m.price, m.adverse) <= -t.stop
    BY <1>1, <1>4, <1>5, <1>6, <1>9, <1>11, <2>2 DEF SameTerms
  <2>4. Settled(TradeEvent(m))
    <3>1. m.stop = t.stop
      BY <2>2 DEF SameTerms
    <3>2. /\ TradeEvent(m).mae_r <= -RUnit
          /\ ~ (TradeEvent(m).mfe_r >= RiskReward * RUnit)
          /\ TradeEvent(m).exit = "SL" /\ TradeEvent(m).pnl_r = -RUnit
      <4>1. ~ (Gain(m.direction, m.price, m.favorable) >= RiskReward * m.stop)
        BY <1>1, <1>4, <1>6, <1>9, <2>2, <2>3, <3>1 DEF SameTerms
      <4> QED BY <1>5, <2>2, <2>3, <3>1, <4>1, EventExtremes
    <3> QED BY <3>2 DEF Settled
  <2> QED BY <2>2, <2>4 DEF m
<1>12. CASE ~ (g <= -t.stop) /\ g >= RiskReward * t.stop
  <2>1. m = Finalized(seen, "TP", Stop(RiskReward))
    BY <1>7, <1>12
  <2>2. /\ m \in Trade /\ SameTerms(m, t) /\ m.held = t.held /\ m.exit = "TP"
        /\ m.favorable = seen.favorable /\ m.adverse = seen.adverse
        /\ m.pnl_r = RiskReward * RUnit
    BY <1>2, <1>10, <2>1
  <2>3. /\ Gain(m.direction, m.price, m.favorable) >= RiskReward * t.stop
        /\ ~ (Gain(m.direction, m.price, m.adverse) <= -t.stop)
    BY <1>1, <1>4, <1>5, <1>6, <1>9, <1>12, <2>2 DEF SameTerms
  <2>4. Settled(TradeEvent(m))
    <3>1. m.stop = t.stop
      BY <2>2 DEF SameTerms
    <3>2. /\ ~ (TradeEvent(m).mae_r <= -RUnit)
          /\ TradeEvent(m).mfe_r >= RiskReward * RUnit
          /\ TradeEvent(m).exit = "TP" /\ TradeEvent(m).pnl_r = RiskReward * RUnit
      BY <1>5, <2>2, <2>3, <3>1, EventExtremes
    <3> QED BY <3>2 DEF Settled
  <2> QED BY <2>2, <2>4 DEF m
<1>13. CASE ~ (g <= -t.stop) /\ ~ (g >= RiskReward * t.stop)
  <2>1. m = seen
    BY <1>7, <1>13
  <2>2. Running(m)
    BY <1>1, <1>4, <1>5, <1>6, <1>9, <1>13, <2>1 DEF Running, SameTerms
  <2> QED BY <1>5, <1>6, <2>1, <2>2 DEF m
<1> QED
  BY <1>11, <1>12, <1>13

\* A new bar ends a trade whose time is up, at the close of that bar, or leaves
\* it running for one bar more.
LEMMA AgedTrade ==
    ASSUME NEW t \in Trade, Running(t), NEW bar \in PlacedBar
    PROVE  LET a == Aged(t, bar)
           IN  /\ a \in Trade /\ SameTerms(a, t) /\ a.held = t.held + 1
               /\ a.exit = "open" => Running(a)
               /\ a.exit # "open" =>
                     /\ a.exit = "EXPIRED"
                     /\ Settled(TradeEvent(a))
                     /\ a.held = MaxHoldingBars
                     /\ a.pnl_r * a.stop = RUnit * Gain(a.direction, a.price, bar.close)
<1> DEFINE a == Aged(t, bar)
           older == [t EXCEPT !.held = @ + 1]
<1>1. /\ t.price \in Int /\ t.favorable \in Int /\ t.adverse \in Int /\ t.stop \in Nat
      /\ t.held \in Nat /\ bar.close \in Int
  BY DEF Trade, PlacedBar
<1>2. /\ t.stop > 0 /\ RUnit % t.stop = 0 /\ t.exit = "open" /\ t.held < MaxHoldingBars
      /\ Gain(t.direction, t.price, t.adverse) <= 0
      /\ Gain(t.direction, t.price, t.adverse) > -t.stop
      /\ Gain(t.direction, t.price, t.favorable) >= 0
      /\ Gain(t.direction, t.price, t.favorable) < RiskReward * t.stop
      /\ MaxHoldingBars \in Nat
  BY TimingAnalyzerAssumption DEF Running
<1>3. /\ older \in Trade /\ SameTerms(older, t) /\ older.held = t.held + 1
      /\ older.exit = "open" /\ older.favorable = t.favorable /\ older.adverse = t.adverse
  BY <1>2 DEF Trade, SameTerms
<1>4. a = IF older.held >= MaxHoldingBars THEN Finalized(older, "EXPIRED", bar.close)
          ELSE older
  BY DEF Aged
<1> HIDE DEF a, older
<1>5. CASE ~ (older.held >= MaxHoldingBars)
  <2>1. a = older
    BY <1>4, <1>5
  <2>2. Running(a)
    BY <1>1, <1>2, <1>3, <1>5, <2>1 DEF Running, SameTerms
  <2> QED BY <1>3, <2>1, <2>2 DEF a
<1>6. CASE older.held >= MaxHoldingBars
  <2> DEFINE r == PriceToR(t.direction, t.price, bar.close, t.stop)
  <2>1. r \in Int /\ r * t.stop = RUnit * Gain(t.direction, t.price, bar.close)
    BY <1>1, <1>2, PriceToRExact
  <2> HIDE DEF r
  <2>2. a = [older EXCEPT !.exit = "EXPIRED", !.pnl_r = r]
    BY <1>3, <1>4, <1>6 DEF Finalized, SameTerms, r
  <2>3. /\ a \in Trade /\ SameTerms(a, t) /\ a.held = t.held + 1 /\ a.exit = "EXPIRED"
        /\ a.favorable = t.favorable /\ a.adverse = t.adverse /\ a.pnl_r = r
    BY <1>3, <2>1, <2>2 DEF Trade, SameTerms
  <2>4. a.held = MaxHoldingBars
    BY <1>1, <1>2, <1>3, <1>6, <2>3
  <2>5. /\ a.stop = t.stop /\ a.price = t.price /\ a.direction = t.direction
    BY <2>3 DEF SameTerms
  <2>6. Settled(TradeEvent(a))
    <3>1. /\ ~ (Gain(a.direction, a.price, a.adverse) <= -a.stop)
          /\ ~ (Gain(a.direction, a.price, a.favorable) >= RiskReward * a.stop)
      <4>1. /\ RiskReward * t.stop \in Int /\ RiskReward \in Nat
            /\ Gain(t.direction, t.price, t.adverse) \in Int
            /\ Gain(t.direction, t.price, t.favorable) \in Int
        BY <1>1, GainIsWhole, TimingAnalyzerAssumption
      <4> QED BY <1>1, <1>2, <2>3, <2>5, <4>1
    <3>2. /\ ~ (TradeEvent(a).mae_r <= -RUnit)
          /\ ~ (TradeEvent(a).mfe_r >= RiskReward * RUnit)
          /\ TradeEvent(a).exit = "EXPIRED" /\ TradeEvent(a).held = MaxHoldingBars
      BY <1>2, <2>3, <2>4, <2>5, <3>1, EventExtremes
    <3> QED BY <3>2 DEF Settled
  <2> QED BY <2>1, <2>3, <2>4, <2>5, <2>6 DEF a
<1> QED
  BY <1>5, <1>6

\* A trade that enters has a stop distance, and runs.
LEMMA EntryRuns ==
    ASSUME NEW setup \in Nat, NEW variant \in Variants, NEW d \in Direction,
           NEW bar \in PlacedBar, Sound(bar), NEW wait \in Nat
    PROVE  /\ Entry(setup, variant, d, bar, wait) \in Trade
           /\ bar.atr > 0 => Running(Entry(setup, variant, d, bar, wait))
<1> DEFINE t == Entry(setup, variant, d, bar, wait)
<1>1. bar.atr \in Nat /\ bar.close \in Int /\ bar.place \in Nat
  BY DEF PlacedBar
<1>2. t \in Trade
  BY <1>1 DEF Entry, Trade
<1>3. /\ t.stop = bar.atr /\ t.exit = "open" /\ t.held = 0
      /\ t.price = bar.close /\ t.favorable = bar.close /\ t.adverse = bar.close
  BY DEF Entry
<1>4. ASSUME bar.atr > 0
      PROVE  Running(t)
  <2>1. Gain(t.direction, bar.close, bar.close) = 0
    BY <1>1 DEF Gain
  <2>2. RiskReward * bar.atr > 0 /\ MaxHoldingBars > 0
    BY <1>1, <1>4, TimingAnalyzerAssumption
  <2>3. RUnit % bar.atr = 0
    BY <1>4 DEF Sound
  <2> QED BY <1>1, <1>3, <1>4, <2>1, <2>2, <2>3 DEF Running
<1> QED
  BY <1>2, <1>4

-----------------------------------------------------------------------------
(* Sequences of trades and of setups.                                      *)

\* A function on the positions of a sequence is a sequence.
LEMMA MapIsSeq ==
    ASSUME NEW n \in Nat, NEW S, NEW f, f = [k \in 1..n |-> f[k]], \A k \in 1..n : f[k] \in S
    PROVE  f \in Seq(S) /\ Len(f) = n /\ DOMAIN f = 1..n
<1>1. f \in [1..n -> S]
  OBVIOUS
<1>2. f \in Seq(S)
  BY <1>1, SeqDef
<1>3. DOMAIN f = 1..n /\ Len(f) = n
  BY <1>1, <1>2, LenProperties
<1> QED
  BY <1>2, <1>3

LEMMA OneElement ==
    ASSUME NEW S, NEW x \in S
    PROVE  <<x>> \in Seq(S) /\ Len(<<x>>) = 1 /\ <<x>>[1] = x /\ ToSet(<<x>>) = {x}
<1>1. <<x>> \in Seq(S) /\ Len(<<x>>) = 1 /\ <<x>>[1] = x
  OBVIOUS
<1>2. DOMAIN <<x>> = {1}
  OBVIOUS
<1>3. ToSet(<<x>>) = {x}
  BY <1>1, <1>2 DEF ToSet
<1> QED
  BY <1>1, <1>3

LEMMA OpenAndEnded ==
    ASSUME NEW trades \in Seq(Trade)
    PROVE  /\ Open(trades) \in Seq(Trade) /\ Ended(trades) \in Seq(Trade)
           /\ ToSet(Open(trades)) = {t \in ToSet(trades) : t.exit = "open"}
           /\ ToSet(Ended(trades)) = {t \in ToSet(trades) : t.exit # "open"}
<1>1. DOMAIN trades = 1..Len(trades)
  BY LenProperties
<1>2. Open(trades) = Sublist(trades, {n \in DOMAIN trades : trades[n].exit = "open"})
  BY DEF Open, Those
<1>3. Ended(trades) = Sublist(trades, {n \in DOMAIN trades : trades[n].exit # "open"})
  BY DEF Ended, Those
<1>4. ToSet(Open(trades)) = {t \in ToSet(trades) : t.exit = "open"}
  <2> DEFINE P == {n \in DOMAIN trades : trades[n].exit = "open"}
  <2>1. ToSet(Sublist(trades, P)) = {trades[n] : n \in P \cap (1..Len(trades))}
    BY ToSetSublist
  <2>2. {trades[n] : n \in P \cap (1..Len(trades))} = {t \in ToSet(trades) : t.exit = "open"}
    BY <1>1 DEF ToSet
  <2> QED BY <1>2, <2>1, <2>2
<1>5. ToSet(Ended(trades)) = {t \in ToSet(trades) : t.exit # "open"}
  <2> DEFINE P == {n \in DOMAIN trades : trades[n].exit # "open"}
  <2>1. ToSet(Sublist(trades, P)) = {trades[n] : n \in P \cap (1..Len(trades))}
    BY ToSetSublist
  <2>2. {trades[n] : n \in P \cap (1..Len(trades))} = {t \in ToSet(trades) : t.exit # "open"}
    BY <1>1 DEF ToSet
  <2> QED BY <1>3, <2>1, <2>2
<1>6. Open(trades) \in Seq(Trade)
  <2> DEFINE P == {n \in DOMAIN trades : trades[n].exit = "open"}
  <2>1. Open(trades) = Sublist(trades, P)
    BY <1>2
  <2> HIDE DEF P
  <2> QED BY <2>1, SublistPicks
<1>7. Ended(trades) \in Seq(Trade)
  <2> DEFINE P == {n \in DOMAIN trades : trades[n].exit # "open"}
  <2>1. Ended(trades) = Sublist(trades, P)
    BY <1>3
  <2> HIDE DEF P
  <2> QED BY <2>1, SublistPicks
<1> QED
  BY <1>4, <1>5, <1>6, <1>7

\* All trades at a tick: SameTerms with those before, one for one.
MonitoredAll(bid) == [k \in DOMAIN active |-> Monitored(active[k], bid)]

LEMMA MonitoredTrades ==
    ASSUME TypeInv, OutcomeInv, NEW bid \in Prices
    PROVE  /\ MonitoredAll(bid) \in Seq(Trade)
           /\ Len(MonitoredAll(bid)) = Len(active)
           /\ DOMAIN MonitoredAll(bid) = 1..Len(active)
           /\ \A k \in 1..Len(active) :
                 LET t == active[k]
                     m == MonitoredAll(bid)[k]
                 IN  /\ t \in Trade /\ Running(t) /\ HeldSince(t, processed)
                     /\ m \in Trade /\ SameTerms(m, t) /\ m.held = t.held
                     /\ m.exit = "open" => Running(m)
                     /\ m.exit # "open" => m.exit \in {"SL", "TP"} /\ Settled(TradeEvent(m))
<1>1. Len(active) \in Nat /\ DOMAIN active = 1..Len(active) /\ bid \in Int
  BY LenProperties, TimingAnalyzerAssumption DEF TypeInv
<1>2. \A k \in 1..Len(active) :
         active[k] \in Trade /\ Running(active[k]) /\ HeldSince(active[k], processed)
  BY <1>1, ElementOfSeq DEF TypeInv, OutcomeInv, ToSet
<1> DEFINE f == MonitoredAll(bid)
<1>3. f = [k \in 1..Len(active) |-> f[k]] /\ \A k \in 1..Len(active) : f[k] = Monitored(active[k], bid)
  BY <1>1 DEF MonitoredAll
<1> HIDE DEF f
<1>4. \A k \in 1..Len(active) :
         LET t == active[k]
             m == f[k]
         IN  /\ m \in Trade /\ SameTerms(m, t) /\ m.held = t.held
             /\ m.exit = "open" => Running(m)
             /\ m.exit # "open" => m.exit \in {"SL", "TP"} /\ Settled(TradeEvent(m))
  BY <1>1, <1>2, <1>3, MonitoredTrade
<1>5. f \in Seq(Trade) /\ Len(f) = Len(active) /\ DOMAIN f = 1..Len(active)
  BY <1>1, <1>3, <1>4, MapIsSeq
<1> QED
  BY <1>2, <1>4, <1>5 DEF f

\* The events of trades are those of its members.
LEMMA EventsOfTrades ==
    ASSUME NEW trades \in Seq(Trade), restarts \in Nat,
           \A t \in ToSet(trades) : t.stop > 0 /\ RUnit % t.stop = 0
    PROVE  /\ TradeEvents(trades) \in Seq(Event)
           /\ Len(TradeEvents(trades)) = Len(trades)
           /\ \A k \in 1..Len(trades) : TradeEvents(trades)[k] = TradeEvent(trades[k])
           /\ ToSet(TradeEvents(trades)) = {TradeEvent(t) : t \in ToSet(trades)}
<1> DEFINE f == TradeEvents(trades)
<1>1. Len(trades) \in Nat /\ DOMAIN trades = 1..Len(trades)
  BY LenProperties
<1>2. \A k \in 1..Len(trades) : trades[k] \in Trade /\ trades[k] \in ToSet(trades)
  BY <1>1, ElementOfSeq DEF ToSet
<1>3. f = [k \in 1..Len(trades) |-> f[k]] /\ \A k \in 1..Len(trades) : f[k] = TradeEvent(trades[k])
  BY <1>1 DEF TradeEvents
<1> HIDE DEF f
<1>4. \A k \in 1..Len(trades) : f[k] \in Event
  BY <1>2, <1>3, EventType
<1>5. f \in Seq(Event) /\ Len(f) = Len(trades) /\ DOMAIN f = 1..Len(trades)
  BY <1>1, <1>3, <1>4, MapIsSeq
<1>6. ToSet(f) = {TradeEvent(t) : t \in ToSet(trades)}
  BY <1>1, <1>3, <1>5 DEF ToSet
<1> QED
  BY <1>3, <1>5, <1>6 DEF f

\* What a tick leaves running and what it ends.
LEMMA TickOutcome ==
    ASSUME TypeInv, OutcomeInv, NEW bid \in Prices
    PROVE  LET open == Open(MonitoredAll(bid))
               ended == Ended(MonitoredAll(bid))
           IN  /\ open \in Seq(Trade) /\ ended \in Seq(Trade)
               /\ \A t \in ToSet(open) : Running(t) /\ HeldSince(t, processed)
               /\ \A t \in ToSet(ended) :
                     /\ t.stop > 0 /\ RUnit % t.stop = 0
                     /\ t.exit \in {"SL", "TP"}
                     /\ Settled(TradeEvent(t))
<1> DEFINE m == MonitoredAll(bid)
<1>1. m \in Seq(Trade) /\ DOMAIN m = 1..Len(active)
  BY MonitoredTrades
<1>2. ASSUME NEW u \in ToSet(m)
      PROVE  /\ u.stop > 0 /\ RUnit % u.stop = 0
             /\ u.exit = "open" => Running(u) /\ HeldSince(u, processed)
             /\ u.exit # "open" => u.exit \in {"SL", "TP"} /\ Settled(TradeEvent(u))
  <2>1. PICK k \in 1..Len(active) : u = m[k]
    BY <1>1 DEF ToSet
  <2> DEFINE t == active[k]
  <2>2. /\ t \in Trade /\ Running(t) /\ HeldSince(t, processed)
        /\ SameTerms(u, t) /\ u.held = t.held
        /\ u.exit = "open" => Running(u)
        /\ u.exit # "open" => u.exit \in {"SL", "TP"} /\ Settled(TradeEvent(u))
    BY <2>1, MonitoredTrades
  <2>3. u.stop > 0 /\ RUnit % u.stop = 0
    BY <2>2 DEF Running, SameTerms
  <2>4. HeldSince(u, processed)
    BY <2>2 DEF HeldSince, SameTerms
  <2> QED BY <2>2, <2>3, <2>4
<1> HIDE DEF m
<1>3. /\ Open(m) \in Seq(Trade) /\ Ended(m) \in Seq(Trade)
      /\ ToSet(Open(m)) = {t \in ToSet(m) : t.exit = "open"}
      /\ ToSet(Ended(m)) = {t \in ToSet(m) : t.exit # "open"}
  BY <1>1, OpenAndEnded
<1>4. \A t \in ToSet(Open(m)) : Running(t) /\ HeldSince(t, processed)
  BY <1>2, <1>3
<1>5. \A t \in ToSet(Ended(m)) :
         t.stop > 0 /\ RUnit % t.stop = 0 /\ t.exit \in {"SL", "TP"} /\ Settled(TradeEvent(t))
  BY <1>2, <1>3
<1> QED
  BY <1>3, <1>4, <1>5 DEF m

\* The trades that a new bar finds running, one bar older.
AgedAll(trades, bar) == [k \in DOMAIN trades |-> Aged(trades[k], bar)]

LEMMA AgedTrades ==
    ASSUME NEW trades \in Seq(Trade), NEW bar \in PlacedBar,
           \A t \in ToSet(trades) : Running(t)
    PROVE  /\ AgedAll(trades, bar) \in Seq(Trade)
           /\ Len(AgedAll(trades, bar)) = Len(trades)
           /\ DOMAIN AgedAll(trades, bar) = 1..Len(trades)
           /\ \A k \in 1..Len(trades) : trades[k] \in ToSet(trades)
                                        /\ trades[k] \in Trade
                                        /\ AgedAll(trades, bar)[k] = Aged(trades[k], bar)
<1> DEFINE f == AgedAll(trades, bar)
<1>1. Len(trades) \in Nat /\ DOMAIN trades = 1..Len(trades)
  BY LenProperties
<1>2. \A k \in 1..Len(trades) : trades[k] \in Trade /\ trades[k] \in ToSet(trades)
  BY <1>1, ElementOfSeq DEF ToSet
<1>3. f = [k \in 1..Len(trades) |-> f[k]] /\ \A k \in 1..Len(trades) : f[k] = Aged(trades[k], bar)
  BY <1>1 DEF AgedAll
<1> HIDE DEF f
<1>4. \A k \in 1..Len(trades) : f[k] \in Trade
  BY <1>2, <1>3, AgedTrade
<1>5. f \in Seq(Trade) /\ Len(f) = Len(trades) /\ DOMAIN f = 1..Len(trades)
  BY <1>1, <1>3, <1>4, MapIsSeq
<1> QED
  BY <1>2, <1>3, <1>5 DEF f

\* What a new bar leaves running and what it ends.
LEMMA AgeOutcome ==
    ASSUME NEW trades \in Seq(Trade), NEW bars \in Seq(PlacedBar), NEW bar \in PlacedBar,
           \A t \in ToSet(trades) : Running(t) /\ HeldSince(t, bars)
    PROVE  LET aged == AgedAll(trades, bar)
               now == Append(bars, bar)
           IN  /\ Open(aged) \in Seq(Trade) /\ Ended(aged) \in Seq(Trade)
               /\ \A t \in ToSet(Open(aged)) : Running(t) /\ HeldSince(t, now)
               /\ \A t \in ToSet(Ended(aged)) :
                     /\ t.stop > 0 /\ RUnit % t.stop = 0
                     /\ Settled(TradeEvent(t))
                     /\ ExpiredAt(TradeEvent(t), now)
<1> DEFINE aged == AgedAll(trades, bar)
           now == Append(bars, bar)
<1>1. /\ aged \in Seq(Trade) /\ DOMAIN aged = 1..Len(trades)
      /\ \A k \in 1..Len(trades) : trades[k] \in ToSet(trades) /\ trades[k] \in Trade
                                   /\ aged[k] = Aged(trades[k], bar)
  BY AgedTrades
<1>2. /\ Len(bars) \in Nat /\ Len(now) = Len(bars) + 1
      /\ DOMAIN bars = 1..Len(bars) /\ DOMAIN now = 1..(Len(bars) + 1)
      /\ now[Len(bars) + 1] = bar /\ \A i \in 1..Len(bars) : now[i] = bars[i]
  BY AppendProperties, LenProperties
<1>3. MaxHoldingBars \in Nat /\ MaxHoldingBars >= 1
  BY TimingAnalyzerAssumption
<1> HIDE DEF aged, now
<1>4. ASSUME NEW u \in ToSet(aged)
      PROVE  /\ u.stop > 0 /\ RUnit % u.stop = 0
             /\ u.exit = "open" => Running(u) /\ HeldSince(u, now)
             /\ u.exit # "open" => Settled(TradeEvent(u)) /\ ExpiredAt(TradeEvent(u), now)
  <2>1. PICK k \in 1..Len(trades) : u = aged[k]
    BY <1>1 DEF ToSet
  <2> DEFINE t == trades[k]
  <2>2. /\ t \in Trade /\ Running(t) /\ HeldSince(t, bars) /\ u = Aged(t, bar)
    BY <1>1, <2>1
  <2> HIDE DEF t
  <2>3. /\ u \in Trade /\ SameTerms(u, t) /\ u.held = t.held + 1
        /\ u.exit = "open" => Running(u)
        /\ u.exit # "open" =>
              /\ u.exit = "EXPIRED"
              /\ Settled(TradeEvent(u))
              /\ u.held = MaxHoldingBars
              /\ u.pnl_r * u.stop = RUnit * Gain(u.direction, u.price, bar.close)
    BY <2>2, AgedTrade
  <2>4. u.stop > 0 /\ RUnit % u.stop = 0
    BY <2>2, <2>3 DEF Running, SameTerms
  <2>5. PICK j \in 1..Len(bars) : bars[j].place = t.entered /\ j + t.held = Len(bars)
    BY <1>2, <2>2 DEF HeldSince
  <2>6. t.held \in Nat
    BY <2>2 DEF Trade
  <2>7. j \in DOMAIN now /\ now[j].place = u.entered /\ j + u.held = Len(now)
    <3>1. j \in DOMAIN now /\ now[j] = bars[j]
      BY <1>2
    <3>2. u.entered = t.entered
      BY <2>3 DEF SameTerms
    <3>3. j + (t.held + 1) = Len(bars) + 1
      <4>1. j \in Nat
        BY <1>2
      <4>2. j + t.held = Len(bars)
        BY <2>5
      <4> QED BY <2>6, <4>1, <4>2
    <3> QED BY <1>2, <2>3, <2>5, <3>1, <3>2, <3>3
  <2>8. HeldSince(u, now)
    BY <2>7 DEF HeldSince
  <2>9. ASSUME u.exit # "open"
        PROVE  ExpiredAt(TradeEvent(u), now)
    <3>1. j + MaxHoldingBars = Len(bars) + 1
      BY <1>2, <2>3, <2>7, <2>9
    <3>2. j + MaxHoldingBars \in DOMAIN now /\ now[j + MaxHoldingBars] = bar
      BY <1>2, <3>1
    <3>3. /\ TradeEvent(u).entered = u.entered /\ TradeEvent(u).pnl_r = u.pnl_r
          /\ TradeEvent(u).stop = u.stop /\ TradeEvent(u).direction = u.direction
          /\ TradeEvent(u).price = u.price
      BY DEF TradeEvent
    <3> QED BY <2>3, <2>7, <2>9, <3>2, <3>3 DEF ExpiredAt
  <2> QED BY <2>3, <2>4, <2>8, <2>9
<1>5. /\ Open(aged) \in Seq(Trade) /\ Ended(aged) \in Seq(Trade)
      /\ ToSet(Open(aged)) = {t \in ToSet(aged) : t.exit = "open"}
      /\ ToSet(Ended(aged)) = {t \in ToSet(aged) : t.exit # "open"}
  BY <1>1, OpenAndEnded
<1>6. \A t \in ToSet(Open(aged)) : Running(t) /\ HeldSince(t, now)
  BY <1>4, <1>5
<1>7. \A t \in ToSet(Ended(aged)) :
         /\ t.stop > 0 /\ RUnit % t.stop = 0
         /\ Settled(TradeEvent(t)) /\ ExpiredAt(TradeEvent(t), now)
  BY <1>4, <1>5
<1> QED
  BY <1>5, <1>6, <1>7 DEF aged, now

-----------------------------------------------------------------------------
(* One pending setup.                                                      *)

\* A bar advances a setup by one; it may confirm it, and never takes a
\* confirmation back.
LEMMA AdvancedKeeps ==
    ASSUME NEW s \in PendingSetup, NEW bar \in PlacedBar
    PROVE  LET a == AdvancedSetup(s, bar)
           IN  /\ a \in PendingSetup
               /\ a.setup = s.setup /\ a.direction = s.direction /\ a.level = s.level
               /\ a.elapsed = s.elapsed + 1
               /\ a.confirmed = IF Watches(s, s.elapsed + 1) /\ Confirms(s, bar)
                                THEN s.confirmed \cup {s.elapsed + 1} ELSE s.confirmed
<1> DEFINE one == Excursion(s, s.direction, bar.high)
           range == Excursion(one, s.direction, bar.low)
           c == IF Watches(s, s.elapsed + 1) /\ Confirms(s, bar)
                THEN s.confirmed \cup {s.elapsed + 1} ELSE s.confirmed
<1>1. bar.high \in Int /\ bar.low \in Int
  BY DEF PlacedBar
<1>2. /\ one \in PendingSetup
      /\ one.setup = s.setup /\ one.direction = s.direction /\ one.level = s.level
      /\ one.elapsed = s.elapsed /\ one.confirmed = s.confirmed
  BY <1>1 DEF Excursion, Furthest, PendingSetup
<1> HIDE DEF one
<1>3. /\ range \in PendingSetup
      /\ range.setup = s.setup /\ range.direction = s.direction /\ range.level = s.level
      /\ range.elapsed = s.elapsed /\ range.confirmed = s.confirmed
  BY <1>1, <1>2 DEF Excursion, Furthest, PendingSetup
<1> HIDE DEF range
<1>4. s.elapsed \in Nat /\ s.confirmed \subseteq Nat
  BY DEF PendingSetup
<1>5. c \subseteq Nat /\ s.elapsed + 1 \in Nat
  BY <1>4
<1>6. AdvancedSetup(s, bar) = [range EXCEPT !.elapsed = s.elapsed + 1, !.confirmed = c]
  BY <1>3 DEF AdvancedSetup, range, one
<1> HIDE DEF c
<1>7. /\ AdvancedSetup(s, bar) \in PendingSetup
      /\ AdvancedSetup(s, bar).setup = s.setup
      /\ AdvancedSetup(s, bar).direction = s.direction
      /\ AdvancedSetup(s, bar).level = s.level
      /\ AdvancedSetup(s, bar).elapsed = s.elapsed + 1
      /\ AdvancedSetup(s, bar).confirmed = c
  BY <1>3, <1>5, <1>6 DEF PendingSetup
<1> QED
  BY <1>7 DEF c

\* A setup that was not completed is due for known variants only.
LEMMA DueVariants ==
    ASSUME NEW s \in PendingSetup, s.elapsed >= 1, kind \in Kinds,
           kind = "breakout" => s.elapsed <= 3
    PROVE  Due(s) \in Seq(Variants)
<1>1. s.elapsed \in Nat
  BY DEF PendingSetup
<1>2. CASE kind = "entry"
  <2> DEFINE a == IF s.elapsed = 1 THEN <<"WAIT_1_BAR">>
                  ELSE IF s.elapsed = 2 THEN <<"WAIT_2_BARS">> ELSE <<>>
             b == IF s.elapsed \in s.confirmed THEN <<"WAIT_TRIGGER">> ELSE <<>>
  <2>1. a \in Seq(Variants) /\ b \in Seq(Variants)
    <3>1. {"WAIT_1_BAR", "WAIT_2_BARS", "WAIT_TRIGGER"} \subseteq Variants
      BY DEF Variants
    <3>2. \A v \in Variants : <<v>> \in Seq(Variants)
      OBVIOUS
    <3>3. <<>> \in Seq(Variants)
      OBVIOUS
    <3> QED BY <3>1, <3>2, <3>3
  <2>2. Due(s) = a \o b
    BY <1>2 DEF Due
  <2> HIDE DEF a, b
  <2> QED BY <2>1, <2>2, ConcatProperties
<1>3. CASE kind # "entry"
  <2>1. s.elapsed \in {1, 2, 3}
    BY <1>1, <1>3, TimingAnalyzerAssumption
  <2>2. Due(s) = IF s.elapsed \in s.confirmed
                 THEN <<<<"CONFIRM_1_BAR", "CONFIRM_2_BARS", "CONFIRM_3_BARS">>[s.elapsed]>>
                 ELSE <<>>
    BY <1>3 DEF Due
  <2>3. <<"CONFIRM_1_BAR", "CONFIRM_2_BARS", "CONFIRM_3_BARS">>[s.elapsed] \in Variants
    BY <2>1 DEF Variants
  <2> QED BY <2>2, <2>3
<1> QED
  BY <1>2, <1>3

-----------------------------------------------------------------------------
(* The setups of a bar and what enters on it.                              *)

\* Of the setups of the moment, none is completed.
Waiting == \A s \in ToSet(pending) : ~ Completed(s)

AdvancedAll(bar) == [k \in DOMAIN pending |-> AdvancedSetup(pending[k], bar)]

LEMMA AdvancedSetups ==
    ASSUME TypeInv, Waiting, NEW bar \in PlacedBar
    PROVE  /\ AdvancedAll(bar) \in Seq(PendingSetup)
           /\ Len(AdvancedAll(bar)) = Len(pending)
           /\ DOMAIN AdvancedAll(bar) = 1..Len(pending)
           /\ \A k \in 1..Len(pending) :
                 /\ pending[k] \in PendingSetup /\ pending[k] \in ToSet(pending)
                 /\ AdvancedAll(bar)[k] = AdvancedSetup(pending[k], bar)
                 /\ Due(AdvancedAll(bar)[k]) \in Seq(Variants)
<1> DEFINE f == AdvancedAll(bar)
<1>1. Len(pending) \in Nat /\ DOMAIN pending = 1..Len(pending)
  BY LenProperties DEF TypeInv
<1>2. \A k \in 1..Len(pending) : pending[k] \in PendingSetup /\ pending[k] \in ToSet(pending)
  BY <1>1, ElementOfSeq DEF ToSet, TypeInv
<1>3. /\ f = [k \in 1..Len(pending) |-> f[k]]
      /\ \A k \in 1..Len(pending) : f[k] = AdvancedSetup(pending[k], bar)
  BY <1>1 DEF AdvancedAll
<1> HIDE DEF f
<1>4. \A k \in 1..Len(pending) : f[k] \in PendingSetup
  BY <1>2, <1>3, AdvancedKeeps
<1>5. f \in Seq(PendingSetup) /\ Len(f) = Len(pending) /\ DOMAIN f = 1..Len(pending)
  BY <1>1, <1>3, <1>4, MapIsSeq
<1>6. ASSUME NEW k \in 1..Len(pending)
      PROVE  Due(f[k]) \in Seq(Variants)
  <2>1. ~ Completed(pending[k]) /\ pending[k].elapsed \in Nat
    BY <1>2 DEF Waiting, PendingSetup
  <2>2. kind = "breakout" => pending[k].elapsed < 3
    BY <2>1 DEF Completed
  <2>3. f[k].elapsed = pending[k].elapsed + 1
    <3>1. pending[k] \in PendingSetup /\ f[k] = AdvancedSetup(pending[k], bar)
      BY <1>2, <1>3
    <3> DEFINE s == pending[k]
    <3>2. s \in PendingSetup /\ f[k] = AdvancedSetup(s, bar)
      BY <3>1
    <3> HIDE DEF s
    <3>3. AdvancedSetup(s, bar).elapsed = s.elapsed + 1
      BY <3>2, AdvancedKeeps
    <3> QED BY <3>2, <3>3 DEF s
  <2>4. f[k].elapsed >= 1 /\ kind = "breakout" => f[k].elapsed <= 3
    BY <2>1, <2>2, <2>3
  <2>5. f[k].elapsed >= 1
    BY <2>1, <2>3
  <2> QED BY <1>4, <2>4, <2>5, DueVariants DEF TypeInv
<1> QED
  BY <1>2, <1>3, <1>5, <1>6 DEF f

\* The entries of setups on a bar, one for each variant that is due: a place
\* in the entries is a setup and a place in what is due of it.
EntriesOf(setups, bar) ==
    [k \in DOMAIN setups |->
        LET s == setups[k]
            due == Due(s)
        IN  [i \in DOMAIN due |-> Entry(s.setup, due[i], s.direction, bar, s.elapsed)]]

LEMMA EntryPlaces ==
    ASSUME NEW setups \in Seq(PendingSetup), NEW bar \in PlacedBar, Sound(bar),
           \A k \in 1..Len(setups) : Due(setups[k]) \in Seq(Variants)
    PROVE  /\ Entries(setups, bar) \in Seq(Trade)
           /\ EntriesOf(setups, bar) \in Seq(Seq(Trade))
           /\ Entries(setups, bar) = FlattenSeq(EntriesOf(setups, bar))
           /\ \E b : Flattens(b, Entries(setups, bar), EntriesOf(setups, bar),
                              Places(EntriesOf(setups, bar), Len(setups)))
           /\ Len(EntriesOf(setups, bar)) = Len(setups)
           /\ \A k \in 1..Len(setups) :
                 /\ setups[k] \in PendingSetup
                 /\ Len(EntriesOf(setups, bar)[k]) = Len(Due(setups[k]))
                 /\ \A i \in 1..Len(Due(setups[k])) :
                       /\ Due(setups[k])[i] \in Variants
                       /\ EntriesOf(setups, bar)[k][i]
                            = Entry(setups[k].setup, Due(setups[k])[i],
                                    setups[k].direction, bar, setups[k].elapsed)
<1> DEFINE f == EntriesOf(setups, bar)
<1>1. Len(setups) \in Nat /\ DOMAIN setups = 1..Len(setups)
  BY LenProperties
<1>2. \A k \in 1..Len(setups) : setups[k] \in PendingSetup
  BY ElementOfSeq
<1>3. /\ f = [k \in 1..Len(setups) |-> f[k]]
      /\ \A k \in 1..Len(setups) :
            f[k] = [i \in DOMAIN Due(setups[k]) |->
                       Entry(setups[k].setup, Due(setups[k])[i], setups[k].direction,
                             bar, setups[k].elapsed)]
  BY <1>1 DEF EntriesOf
<1> HIDE DEF f
<1>4. ASSUME NEW k \in 1..Len(setups)
      PROVE  /\ f[k] \in Seq(Trade) /\ Len(f[k]) = Len(Due(setups[k]))
             /\ \A i \in 1..Len(Due(setups[k])) :
                   /\ Due(setups[k])[i] \in Variants
                   /\ f[k][i] = Entry(setups[k].setup, Due(setups[k])[i], setups[k].direction,
                                      bar, setups[k].elapsed)
  <2> DEFINE s == setups[k]
             due == Due(s)
             g == f[k]
  <2>1. due \in Seq(Variants) /\ Len(due) \in Nat /\ DOMAIN due = 1..Len(due)
    BY LenProperties
  <2>2. \A i \in 1..Len(due) : due[i] \in Variants
    BY <2>1, ElementOfSeq
  <2>3. /\ g = [i \in 1..Len(due) |-> g[i]]
        /\ \A i \in 1..Len(due) : g[i] = Entry(s.setup, due[i], s.direction, bar, s.elapsed)
    BY <1>3, <2>1
  <2>4. s.setup \in Nat /\ s.direction \in Direction /\ s.elapsed \in Nat
    BY <1>2 DEF PendingSetup
  <2> HIDE DEF due, s, g
  <2>5. \A i \in 1..Len(due) : g[i] \in Trade
    BY <2>2, <2>3, <2>4, EntryRuns, SMTT(30)
  <2>6. g \in Seq(Trade) /\ Len(g) = Len(due)
    BY <2>1, <2>3, <2>5, MapIsSeq
  <2> QED BY <2>2, <2>3, <2>6 DEF g, due, s
<1>5. f \in Seq(Seq(Trade)) /\ Len(f) = Len(setups)
  BY <1>1, <1>3, <1>4, MapIsSeq
<1>6. Entries(setups, bar) = FlattenSeq(f)
  BY DEF Entries, EntriesOf, f
<1>7. Entries(setups, bar) \in Seq(Trade)
  BY <1>5, <1>6, FlattenPlaces
<1>8. \E b : Flattens(b, Entries(setups, bar), f, Places(f, Len(setups)))
  BY <1>5, <1>6, FlattenPlaces
<1> QED
  BY <1>2, <1>4, <1>5, <1>6, <1>7, <1>8 DEF f

\* The bar itself, where it is a setup.
LEMMA DetectedSetup ==
    ASSUME NEW bar \in PlacedBar, Sound(bar)
    PROVE  /\ Detected(bar) \in Seq(PendingSetup)
           /\ Immediate(bar) \in Seq(Trade)
           /\ Len(Detected(bar)) = IF bar.setup = "NONE" THEN 0 ELSE 1
           /\ Len(Immediate(bar)) = Len(Detected(bar))
           /\ \A s \in ToSet(Detected(bar)) :
                 /\ bar.setup # "NONE"
                 /\ s.setup = bar.place /\ s.direction = bar.setup /\ s.level = bar.level
                 /\ s.elapsed = 0 /\ s.confirmed = {} /\ ~ Completed(s)
           /\ \A t \in ToSet(Immediate(bar)) :
                 /\ bar.setup # "NONE"
                 /\ t = Entry(bar.place, "IMMEDIATE", bar.setup, bar, 0)
                 /\ Running(t)
<1>1. CASE bar.setup = "NONE"
  <2>1. Detected(bar) = <<>> /\ Immediate(bar) = <<>>
    BY <1>1 DEF Detected, Immediate
  <2> QED BY <1>1, <2>1 DEF ToSet
<1>2. CASE bar.setup # "NONE"
  <2> DEFINE s == [setup |-> bar.place, direction |-> bar.setup, level |-> bar.level,
                   close |-> bar.close, stop |-> bar.atr, elapsed |-> 0, confirmed |-> {},
                   favorable |-> bar.close, adverse |-> bar.close]
             t == Entry(bar.place, "IMMEDIATE", bar.setup, bar, 0)
  <2>1. /\ bar.place \in Nat /\ bar.setup \in Direction /\ bar.atr > 0
        /\ bar.atr \in Nat \ {0}
    BY <1>2 DEF PlacedBar, Sound
  <2>2. s \in PendingSetup
    BY <2>1 DEF PendingSetup, PlacedBar
  <2>3. t \in Trade /\ Running(t)
    BY <2>1, EntryRuns DEF Variants
  <2>4. ~ Completed(s)
    BY DEF Completed
  <2>5. Detected(bar) = <<s>>
    BY <1>2 DEF Detected
  <2>6. Immediate(bar) = <<t>>
    <3>1. DOMAIN Detected(bar) = {1}
      BY <2>5
    <3> QED BY <3>1 DEF Immediate
  <2>7. s.setup = bar.place /\ s.direction = bar.setup /\ s.level = bar.level
        /\ s.elapsed = 0 /\ s.confirmed = {}
    OBVIOUS
  <2> HIDE DEF s, t
  <2>8. /\ <<s>> \in Seq(PendingSetup) /\ Len(<<s>>) = 1 /\ ToSet(<<s>>) = {s}
        /\ <<t>> \in Seq(Trade) /\ Len(<<t>>) = 1 /\ ToSet(<<t>>) = {t}
    BY <2>2, <2>3, OneElement
  <2> QED
    BY <1>2, <2>3, <2>4, <2>5, <2>6, <2>7, <2>8 DEF t
<1> QED
  BY <1>1, <1>2

\* A bar of the chart, at its place.
LEMMA BarAtPlace ==
    ASSUME kind \in Kinds, NEW n \in Nat, n \in DOMAIN Bars[kind], NEW b \in Bars[kind][n]
    PROVE  Placed(b, n) \in PlacedBar /\ Placed(b, n).place = n /\ Sound(Placed(b, n))
<1> DEFINE c == Placed(b, n)
           fields == {"place", "high", "low", "close", "level", "atr", "turns", "setup"}
<1>1. /\ b \in Bar /\ (b.atr > 0 => RUnit % b.atr = 0) /\ (b.setup # "NONE" => b.atr > 0)
  BY TimingAnalyzerAssumption
<1>2. DOMAIN b = {"high", "low", "close", "level", "atr", "turns", "setup"}
  BY <1>1 DEF Bar
<1>3. c = [x \in fields |-> c[x]]
  BY <1>2 DEF Placed
<1>4. /\ c.place = n /\ c.high = b.high /\ c.low = b.low /\ c.close = b.close
      /\ c.level = b.level /\ c.atr = b.atr /\ c.turns = b.turns /\ c.setup = b.setup
  BY <1>2 DEF Placed
<1> HIDE DEF c
<1>5. [x \in fields |-> c[x]]
        = [place |-> c.place, high |-> c.high, low |-> c.low, close |-> c.close,
           level |-> c.level, atr |-> c.atr, turns |-> c.turns, setup |-> c.setup]
  OBVIOUS
<1>6. c = [place |-> n, high |-> b.high, low |-> b.low, close |-> b.close, level |-> b.level,
           atr |-> b.atr, turns |-> b.turns, setup |-> b.setup]
  BY <1>3, <1>4, <1>5
<1>7. c \in PlacedBar
  BY <1>1, <1>6 DEF Bar, PlacedBar, Direction
<1>8. Sound(c)
  BY <1>1, <1>4 DEF Sound
<1> QED
  BY <1>4, <1>7, <1>8 DEF c

-----------------------------------------------------------------------------
(* The invariant is inductive.                                             *)

IInv == TypeInv /\ ChartInv /\ OutcomeInv /\ Waiting

LEMMA OutcomesInit == Init => IInv
<1> SUFFICES ASSUME Init PROVE IInv
  OBVIOUS
<1>1. PICK b \in Bars[kind][1] : closed = Placed(b, 1)
  BY DEF Init
<1>2. closed \in PlacedBar /\ closed.place = 1 /\ Sound(closed)
  BY <1>1, BarAtPlace, TimingAnalyzerAssumption DEF Init
<1>3. TypeInv
  BY <1>2 DEF Init, TypeInv
<1>4. ChartInv
  BY <1>2 DEF Init, ChartInv
<1>5. OutcomeInv /\ Waiting
  BY DEF Init, OutcomeInv, Waiting, ToSet
<1> QED
  BY <1>3, <1>4, <1>5 DEF IInv

LEMMA OutcomesBarOpens == IInv /\ BarOpens => IInv'
<1> SUFFICES ASSUME IInv, BarOpens PROVE IInv'
  OBVIOUS
<1>1. TypeInv /\ ChartInv /\ OutcomeInv /\ Waiting
  BY DEF IInv
<1>2. PICK b \in Bars[kind][chart] : closed' = Placed(b, chart)
  BY DEF BarOpens
<1>3. closed' \in PlacedBar /\ closed'.place = chart /\ Sound(closed')
  BY <1>1, <1>2, BarAtPlace DEF BarOpens, TypeInv
<1>4. chart' = chart + 1 /\ chart \in Nat /\ last \in Nat
      /\ UNCHANGED <<kind, last, pending, active, log, processed, missing, restarts, lost, skipped>>
  BY <1>1 DEF BarOpens, TypeInv
<1>5. TypeInv'
  BY <1>1, <1>3, <1>4 DEF TypeInv
<1>6. ChartInv'
  BY <1>1, <1>3, <1>4 DEF ChartInv, Sound
<1>7. OutcomeInv'
  BY <1>1, <1>4 DEF OutcomeInv, HeldSince, ExpiredAt
<1>8. Waiting'
  BY <1>1, <1>4 DEF Waiting, Completed
<1> QED
  BY <1>5, <1>6, <1>7, <1>8 DEF IInv

LEMMA LogGrows ==
    ASSUME NEW events \in Seq(Event), restarts \in Nat, NEW trades \in Seq(Trade),
           \A t \in ToSet(trades) : t.stop > 0 /\ RUnit % t.stop = 0
    PROVE  /\ events \o TradeEvents(trades) \in Seq(Event)
           /\ ToSet(events \o TradeEvents(trades))
                = ToSet(events) \cup {TradeEvent(t) : t \in ToSet(trades)}
<1>1. /\ TradeEvents(trades) \in Seq(Event)
      /\ ToSet(TradeEvents(trades)) = {TradeEvent(t) : t \in ToSet(trades)}
  BY EventsOfTrades
<1> HIDE DEF TradeEvents
<1>2. events \o TradeEvents(trades) \in Seq(Event)
  BY <1>1, ConcatElements
<1> QED
  BY <1>1, <1>2, ToSetConcat

\* What a tick writes and leaves, seen before or not, is as the invariant says.
LEMMA OutcomesOfTick ==
    ASSUME IInv, NEW bid \in Prices,
           active' = Open(MonitoredAll(bid)),
           log' = log \o TradeEvents(Ended(MonitoredAll(bid))),
           UNCHANGED <<processed, restarts>>
    PROVE  active' \in Seq(Trade) /\ log' \in Seq(Event) /\ OutcomeInv'
<1>1. TypeInv /\ OutcomeInv /\ restarts \in Nat /\ log \in Seq(Event)
  BY DEF IInv, TypeInv
<1> DEFINE open == Open(MonitoredAll(bid))
           ended == Ended(MonitoredAll(bid))
<1>2. /\ open \in Seq(Trade) /\ ended \in Seq(Trade)
      /\ \A t \in ToSet(open) : Running(t) /\ HeldSince(t, processed)
      /\ \A t \in ToSet(ended) :
            /\ t.stop > 0 /\ RUnit % t.stop = 0
            /\ t.exit \in {"SL", "TP"}
            /\ Settled(TradeEvent(t))
  BY <1>1, TickOutcome
<1>3. active' = open /\ log' = log \o TradeEvents(ended)
  OBVIOUS
<1> HIDE DEF open, ended
<1>4. log' \in Seq(Event) /\ ToSet(log') = ToSet(log) \cup {TradeEvent(t) : t \in ToSet(ended)}
  BY <1>1, <1>2, <1>3, LogGrows
<1>5. \A t \in ToSet(active') : Running(t) /\ HeldSince(t, processed')
  BY <1>2, <1>3
<1>6. ASSUME NEW e \in ToSet(log')
      PROVE  /\ e.start <= restarts'
             /\ e.type = "TRADE" => Settled(e)
             /\ e.type = "TRADE" /\ e.start = restarts' => ExpiredAt(e, processed')
  <2>1. CASE e \in ToSet(log)
    BY <1>1, <2>1 DEF OutcomeInv
  <2>2. CASE e \notin ToSet(log)
    <3>1. PICK t \in ToSet(ended) : e = TradeEvent(t)
      BY <1>4, <2>2
    <3>2. e.start = restarts /\ e.exit = t.exit
      BY <3>1 DEF TradeEvent
    <3>3. e.exit # "EXPIRED"
      BY <1>2, <3>2
    <3> QED BY <1>1, <1>2, <3>1, <3>2, <3>3 DEF ExpiredAt
  <2> QED BY <2>1, <2>2
<1>7. OutcomeInv'
  BY <1>5, <1>6 DEF OutcomeInv, Running, Settled, HeldSince, ExpiredAt
<1> QED
  BY <1>2, <1>3, <1>4, <1>7

LEMMA OutcomesTick ==
    ASSUME IInv, NEW bid \in Prices, Tick(bid) \/ TickWithoutData(bid)
    PROVE  IInv'
<1>1. TypeInv /\ ChartInv /\ OutcomeInv /\ Waiting
  BY DEF IInv
<1>2. /\ active' = Open(MonitoredAll(bid))
      /\ log' = log \o TradeEvents(Ended(MonitoredAll(bid)))
      /\ UNCHANGED <<kind, market, pending, processed, restarts, lost, skipped>>
      /\ last' \in {last, chart} /\ missing' \in {missing, missing + 1}
  BY DEF Tick, TickWithoutData, MonitoredAll
<1>3. active' \in Seq(Trade) /\ log' \in Seq(Event) /\ OutcomeInv'
  BY <1>2, OutcomesOfTick
<1>4. TypeInv'
  BY <1>1, <1>2, <1>3 DEF TypeInv, market
<1>5. ChartInv'
  <2>1. /\ chart' = chart /\ closed' = closed /\ processed' = processed
        /\ chart \in Nat /\ last \in Nat
    BY <1>1, <1>2 DEF market, TypeInv
  <2>2. last <= last' /\ last' <= chart
    BY <1>1, <1>2, <2>1 DEF ChartInv
  <2>3. processed \in Seq(PlacedBar) /\ last' \in Nat
    BY <1>1, <1>2 DEF TypeInv
  <2>4. \A j \in DOMAIN processed : processed[j].place \in Nat
    <3>1. \A j \in DOMAIN processed : processed[j] \in PlacedBar
      BY <2>3, ElementOfSeq, LenProperties
    <3> QED BY <3>1 DEF PlacedBar
  <2> QED BY <1>1, <2>1, <2>2, <2>3, <2>4 DEF ChartInv
<1>6. Waiting'
  BY <1>1, <1>2 DEF Waiting, Completed
<1> QED
  BY <1>3, <1>4, <1>5, <1>6 DEF IInv

\* What an event says of its bar stays true of a longer chart.
LEMMA ExpiredAtLonger ==
    ASSUME NEW e, NEW bars \in Seq(PlacedBar), NEW bar \in PlacedBar, ExpiredAt(e, bars)
    PROVE  ExpiredAt(e, Append(bars, bar))
<1> DEFINE now == Append(bars, bar)
<1>1. /\ Len(bars) \in Nat /\ DOMAIN bars = 1..Len(bars) /\ DOMAIN now = 1..(Len(bars) + 1)
      /\ \A i \in 1..Len(bars) : now[i] = bars[i]
  BY AppendProperties, LenProperties
<1> HIDE DEF now
<1>2. \A i \in DOMAIN bars : i \in DOMAIN now /\ now[i] = bars[i]
  BY <1>1
<1>3. ExpiredAt(e, now)
  BY <1>2 DEF ExpiredAt
<1> QED
  BY <1>3 DEF now

LEMMA OutcomesRestart == IInv /\ Restart => IInv'
<1> SUFFICES ASSUME IInv, Restart PROVE IInv'
  OBVIOUS
<1>1. TypeInv /\ ChartInv /\ OutcomeInv
  BY DEF IInv
<1>2. lost' = [setups |-> lost.setups \o pending, trades |-> lost.trades \o active]
  BY DEF Restart
<1>3. lost' \in [setups : Seq(PendingSetup), trades : Seq(Trade)]
  <2>1. lost.setups \in Seq(PendingSetup) /\ lost.trades \in Seq(Trade)
    BY <1>1 DEF TypeInv
  <2>2. lost.setups \o pending \in Seq(PendingSetup) /\ lost.trades \o active \in Seq(Trade)
    BY <1>1, <2>1, ConcatElements DEF TypeInv
  <2> QED BY <1>2, <2>2
<1>4. TypeInv'
  BY <1>1, <1>3 DEF TypeInv, Restart, market
<1>5. ChartInv'
  BY <1>1 DEF ChartInv, Restart, market, TypeInv
<1>6. OutcomeInv'
  <2>1. \A e \in ToSet(log) : e.start <= restarts /\ e.start \in Nat
    BY <1>1, ElementOfSeq, LenProperties
       DEF OutcomeInv, TypeInv, ToSet, Event, SetupEventType, TradeEventType
  <2>2. restarts' = restarts + 1 /\ log' = log /\ active' = <<>> /\ restarts \in Nat
    BY <1>1 DEF Restart, TypeInv
  <2>3. \A e \in ToSet(log') : e.start <= restarts' /\ e.start # restarts'
    BY <2>1, <2>2
  <2> QED
    BY <1>1, <2>2, <2>3 DEF OutcomeInv, Settled, ToSet
<1>7. Waiting'
  BY DEF Waiting, Restart, ToSet
<1> QED
  BY <1>4, <1>5, <1>6, <1>7 DEF IInv

\* The kinds of what a new bar leaves.
LEMMA NewBarKinds ==
    ASSUME IInv, NEW bid \in Prices, TickOfNewBar(bid)
    PROVE  /\ Entries(AdvancedAll(closed), closed) \in Seq(Trade)
           /\ \A t \in ToSet(Entries(AdvancedAll(closed), closed)) :
                 /\ t.entered = closed.place /\ t.held = 0
                 /\ closed.atr > 0 => Running(t)
           /\ pending' \in Seq(PendingSetup)
           /\ \A s \in ToSet(pending') : ~ Completed(s)
           /\ SetupEvents(Those(AdvancedAll(closed), Completed)) \in Seq(Event)
           /\ \A e \in ToSet(SetupEvents(Those(AdvancedAll(closed), Completed))) :
                 e.type = "SETUP" /\ e.start = restarts
<1>1. TypeInv /\ Waiting /\ closed \in PlacedBar /\ Sound(closed) /\ restarts \in Nat
  BY DEF IInv, TypeInv, ChartInv
<1> DEFINE f == AdvancedAll(closed)
<1>2. /\ f \in Seq(PendingSetup) /\ Len(f) = Len(pending) /\ DOMAIN f = 1..Len(f)
      /\ \A k \in 1..Len(f) : Due(f[k]) \in Seq(Variants)
  BY <1>1, AdvancedSetups
<1>3. pending' = Those(f, LAMBDA s : ~ Completed(s)) \o Detected(closed)
  BY DEF TickOfNewBar, AdvancedAll
<1> HIDE DEF f
<1> DEFINE g == EntriesOf(f, closed)
           r == Entries(f, closed)
<1>4. /\ r \in Seq(Trade) /\ Len(g) = Len(f)
      /\ \A k \in 1..Len(f) :
            /\ f[k] \in PendingSetup
            /\ Len(g[k]) = Len(Due(f[k]))
            /\ \A i \in 1..Len(Due(f[k])) :
                  /\ Due(f[k])[i] \in Variants
                  /\ g[k][i] = Entry(f[k].setup, Due(f[k])[i], f[k].direction, closed,
                                     f[k].elapsed)
  BY <1>1, <1>2, EntryPlaces
<1>5. PICK b : Flattens(b, r, g, Places(g, Len(f)))
  BY <1>1, <1>2, EntryPlaces
<1> HIDE DEF g, r
<1>6. ASSUME NEW t \in ToSet(r)
      PROVE  /\ t.entered = closed.place /\ t.held = 0
             /\ closed.atr > 0 => Running(t)
  <2>1. PICK x \in 1..Len(r) : t = r[x]
    BY <1>4, LenProperties DEF ToSet
  <2>2. PICK k \in 1..Len(f), i \in Nat : b[x] = <<k, i>> /\ i \in 1..Len(g[k]) /\ t = g[k][i]
    <3>1. b[x] \in Places(g, Len(f)) /\ r[x] = g[b[x][1]][b[x][2]]
      BY <1>5, <2>1 DEF Flattens
    <3>2. b[x] \in (1..Len(f)) \X Nat /\ b[x][2] \in 1..Len(g[b[x][1]])
      BY <3>1 DEF Places
    <3>3. PICK k \in 1..Len(f), i \in Nat : b[x] = <<k, i>>
      BY <3>2
    <3>4. b[x][1] = k /\ b[x][2] = i
      BY <3>3
    <3> QED BY <2>1, <3>1, <3>2, <3>3, <3>4
  <2>3. /\ f[k] \in PendingSetup /\ Due(f[k])[i] \in Variants
        /\ t = Entry(f[k].setup, Due(f[k])[i], f[k].direction, closed, f[k].elapsed)
    BY <1>4, <2>2
  <2>4. f[k].setup \in Nat /\ f[k].direction \in Direction /\ f[k].elapsed \in Nat
    BY <2>3 DEF PendingSetup
  <2> QED
    BY <1>1, <2>3, <2>4, EntryRuns DEF Entry
<1>7. /\ pending' \in Seq(PendingSetup)
      /\ \A s \in ToSet(pending') : ~ Completed(s)
  <2> DEFINE P == {n \in DOMAIN f : ~ Completed(f[n])}
             kept == Sublist(f, P)
  <2>1. pending' = kept \o Detected(closed)
    BY <1>3 DEF Those
  <2>2. kept \in Seq(PendingSetup) /\ ToSet(kept) = {f[n] : n \in P \cap (1..Len(f))}
    <3> HIDE DEF P
    <3> QED BY <1>2, SublistPicks, ToSetSublist
  <2>3. \A s \in ToSet(kept) : ~ Completed(s)
    BY <2>2
  <2> HIDE DEF kept, P
  <2>4. /\ Detected(closed) \in Seq(PendingSetup)
        /\ \A s \in ToSet(Detected(closed)) : ~ Completed(s)
    BY <1>1, DetectedSetup
  <2> QED
    BY <2>1, <2>2, <2>3, <2>4, ConcatElements, ToSetConcat
<1>8. LET events == SetupEvents(Those(f, Completed))
      IN  /\ events \in Seq(Event)
          /\ \A e \in ToSet(events) : e.type = "SETUP" /\ e.start = restarts
  <2> DEFINE P == {n \in DOMAIN f : Completed(f[n])}
             done == Sublist(f, P)
             events == SetupEvents(done)
  <2>1. Those(f, Completed) = done
    BY DEF Those
  <2>2. done \in Seq(PendingSetup)
    <3> HIDE DEF P
    <3> QED BY <1>2, SublistPicks
  <2> HIDE DEF done
  <2>3. Len(done) \in Nat /\ DOMAIN done = 1..Len(done) /\ \A k \in 1..Len(done) : done[k] \in PendingSetup
    BY <2>2, LenProperties, ElementOfSeq
  <2>4. /\ events = [k \in 1..Len(done) |-> events[k]]
        /\ \A k \in 1..Len(done) : events[k] = SetupEvent(done[k])
    BY <2>3 DEF SetupEvents
  <2> HIDE DEF events
  <2>5. ASSUME NEW k \in 1..Len(done)
        PROVE  events[k] \in Event /\ events[k].type = "SETUP" /\ events[k].start = restarts
    <3> DEFINE s == done[k]
    <3>1. s \in PendingSetup /\ events[k] = SetupEvent(s)
      BY <2>3, <2>4
    <3> HIDE DEF s
    <3>2. /\ s.close \in Int /\ s.favorable \in Int /\ s.adverse \in Int
          /\ s.stop \in Nat /\ s.stop > 0 /\ s.setup \in Nat /\ s.confirmed \subseteq Nat
          /\ RUnit \in Nat
      BY <3>1, TimingAnalyzerAssumption DEF PendingSetup
    <3>3. \A x \in Int : PriceToR(s.direction, s.close, x, s.stop) \in Int
      BY <3>2 DEF PriceToR, Gain
    <3>4. SetupEvent(s) \in SetupEventType
      BY <1>1, <3>2, <3>3 DEF SetupEvent, SetupEventType
    <3> QED BY <3>1, <3>4 DEF Event, SetupEvent
  <2>6. events \in Seq(Event) /\ DOMAIN events = 1..Len(done)
    BY <2>3, <2>4, <2>5, MapIsSeq
  <2>7. \A e \in ToSet(events) : e.type = "SETUP" /\ e.start = restarts
    BY <2>5, <2>6 DEF ToSet
  <2> QED
    BY <2>1, <2>6, <2>7 DEF events
<1> QED
  BY <1>4, <1>6, <1>7, <1>8 DEF f, r

LEMMA OutcomesNewBar ==
    ASSUME IInv, NEW bid \in Prices, TickOfNewBar(bid)
    PROVE  IInv'
<1>1. /\ TypeInv /\ ChartInv /\ OutcomeInv /\ Waiting
      /\ closed \in PlacedBar /\ Sound(closed) /\ restarts \in Nat /\ log \in Seq(Event)
      /\ processed \in Seq(PlacedBar) /\ chart \in Nat /\ last \in Nat
  BY DEF IInv, TypeInv, ChartInv
<1> DEFINE open == Open(MonitoredAll(bid))
           ended == Ended(MonitoredAll(bid))
           aged == AgedAll(open, closed)
           entries == Entries(AdvancedAll(closed), closed)
           registered == IF Registered(closed) THEN entries ELSE <<>>
           events == SetupEvents(Those(AdvancedAll(closed), Completed))
           now == Append(processed, closed)
<1>2. /\ last # chart /\ last' = chart /\ processed' = now
      /\ active' = Open(aged) \o registered \o Immediate(closed)
      /\ log' = log \o events \o TradeEvents(ended \o Ended(aged))
      /\ skipped' = IF Registered(closed) THEN skipped ELSE skipped \o entries
      /\ UNCHANGED <<kind, market, missing, restarts, lost>>
  BY DEF TickOfNewBar, MonitoredAll, AgedAll, AdvancedAll
<1>3. /\ open \in Seq(Trade) /\ ended \in Seq(Trade)
      /\ \A t \in ToSet(open) : Running(t) /\ HeldSince(t, processed)
      /\ \A t \in ToSet(ended) :
            /\ t.stop > 0 /\ RUnit % t.stop = 0 /\ t.exit \in {"SL", "TP"}
            /\ Settled(TradeEvent(t))
  BY <1>1, TickOutcome
<1> HIDE DEF open, ended
<1>4. /\ Open(aged) \in Seq(Trade) /\ Ended(aged) \in Seq(Trade)
      /\ \A t \in ToSet(Open(aged)) : Running(t) /\ HeldSince(t, now)
      /\ \A t \in ToSet(Ended(aged)) :
            /\ t.stop > 0 /\ RUnit % t.stop = 0 /\ Settled(TradeEvent(t))
            /\ ExpiredAt(TradeEvent(t), now)
  BY <1>1, <1>3, AgeOutcome
<1>5. /\ entries \in Seq(Trade)
      /\ \A t \in ToSet(entries) : t.entered = closed.place /\ t.held = 0
                                   /\ (closed.atr > 0 => Running(t))
      /\ pending' \in Seq(PendingSetup)
      /\ \A s \in ToSet(pending') : ~ Completed(s)
      /\ events \in Seq(Event)
      /\ \A e \in ToSet(events) : e.type = "SETUP" /\ e.start = restarts
  BY NewBarKinds
<1>6. /\ Immediate(closed) \in Seq(Trade)
      /\ \A t \in ToSet(Immediate(closed)) :
            /\ t.entered = closed.place /\ t.held = 0 /\ Running(t)
  <2>1. /\ Immediate(closed) \in Seq(Trade)
        /\ \A t \in ToSet(Immediate(closed)) :
              t = Entry(closed.place, "IMMEDIATE", closed.setup, closed, 0) /\ Running(t)
    BY <1>1, DetectedSetup
  <2> QED BY <2>1 DEF Entry
<1> HIDE DEF aged, entries, events
<1>7. /\ registered \in Seq(Trade)
      /\ \A t \in ToSet(registered) : t.entered = closed.place /\ t.held = 0 /\ Running(t)
  <2>1. CASE Registered(closed)
    BY <1>5, <2>1 DEF Registered
  <2>2. CASE ~ Registered(closed)
    BY <2>2 DEF ToSet
  <2> QED BY <2>1, <2>2
<1> HIDE DEF registered
<1>8. /\ Len(processed) \in Nat /\ now \in Seq(PlacedBar) /\ Len(now) = Len(processed) + 1
      /\ DOMAIN processed = 1..Len(processed) /\ DOMAIN now = 1..(Len(processed) + 1)
      /\ now[Len(processed) + 1] = closed
      /\ \A i \in 1..Len(processed) : now[i] = processed[i]
  BY <1>1, AppendProperties, LenProperties
<1> DEFINE started == Open(aged) \o registered
<1>9. /\ active' \in Seq(Trade)
      /\ ToSet(active') = ToSet(Open(aged)) \cup ToSet(registered) \cup ToSet(Immediate(closed))
  <2>1. started \in Seq(Trade) /\ ToSet(started) = ToSet(Open(aged)) \cup ToSet(registered)
    BY <1>4, <1>7, ConcatElements, ToSetConcat
  <2> HIDE DEF started
  <2>2. active' = started \o Immediate(closed)
    BY <1>2 DEF started
  <2> QED BY <1>6, <2>1, <2>2, ConcatElements, ToSetConcat
<1>10. \A t \in ToSet(active') : Running(t) /\ HeldSince(t, now)
  <2>1. ASSUME NEW t, t.entered = closed.place, t.held = 0
        PROVE  HeldSince(t, now)
    <3>1. now[Len(now)].place = t.entered /\ Len(now) \in DOMAIN now /\ Len(now) + t.held = Len(now)
      <4> HIDE DEF now
      <4> QED BY <1>8, <2>1
    <3> HIDE DEF now
    <3> QED BY <3>1 DEF HeldSince
  <2> HIDE DEF now
  <2> QED BY <1>4, <1>6, <1>7, <1>9, <2>1
<1> DEFINE ends == ended \o Ended(aged)
           before == log \o events
<1>11. /\ ends \in Seq(Trade) /\ ToSet(ends) = ToSet(ended) \cup ToSet(Ended(aged))
       /\ before \in Seq(Event) /\ ToSet(before) = ToSet(log) \cup ToSet(events)
  BY <1>1, <1>3, <1>4, <1>5, ConcatElements, ToSetConcat
<1>12. log' = before \o TradeEvents(ends)
  BY <1>2
<1> HIDE DEF ends, before
<1>13. /\ log' \in Seq(Event)
       /\ ToSet(log') = ToSet(log) \cup ToSet(events) \cup {TradeEvent(t) : t \in ToSet(ends)}
  <2>1. \A t \in ToSet(ends) : t.stop > 0 /\ RUnit % t.stop = 0
    BY <1>3, <1>4, <1>11
  <2> QED BY <1>1, <1>11, <1>12, <2>1, LogGrows
<1>14. ASSUME NEW e \in ToSet(log')
       PROVE  /\ e.start <= restarts'
              /\ e.type = "TRADE" => Settled(e)
              /\ e.type = "TRADE" /\ e.start = restarts' => ExpiredAt(e, now)
  <2>0. restarts' = restarts
    BY <1>2
  <2>1. CASE e \in ToSet(log)
    <3>1. /\ e.start <= restarts /\ (e.type = "TRADE" => Settled(e))
          /\ e.type = "TRADE" /\ e.start = restarts => ExpiredAt(e, processed)
      BY <1>1, <2>1 DEF OutcomeInv
    <3> QED BY <1>1, <2>0, <3>1, ExpiredAtLonger
  <2>2. CASE e \in ToSet(events)
    BY <1>1, <1>5, <2>0, <2>2
  <2>3. CASE \E t \in ToSet(ends) : e = TradeEvent(t)
    <3>1. PICK t \in ToSet(ends) : e = TradeEvent(t)
      BY <2>3
    <3>2. e.start = restarts /\ e.exit = t.exit
      BY <3>1 DEF TradeEvent
    <3>3. CASE t \in ToSet(ended)
      <4>1. e.exit # "EXPIRED" /\ Settled(e)
        BY <1>3, <3>1, <3>2, <3>3
      <4> QED BY <1>1, <2>0, <3>2, <4>1 DEF ExpiredAt
    <3>4. CASE t \in ToSet(Ended(aged))
      <4> HIDE DEF now
      <4> QED BY <1>1, <1>4, <2>0, <3>1, <3>2, <3>4
    <3> QED BY <1>11, <3>3, <3>4
  <2> QED BY <1>13, <2>1, <2>2, <2>3
<1>15. OutcomeInv'
  <2> HIDE DEF now
  <2> QED BY <1>2, <1>10, <1>14
          DEF OutcomeInv, Running, Settled, HeldSince, ExpiredAt
<1>16. TypeInv'
  <2>1. skipped' \in Seq(Trade)
    BY <1>1, <1>2, <1>5, ConcatElements DEF TypeInv
  <2> HIDE DEF now
  <2> QED BY <1>1, <1>2, <1>5, <1>8, <1>9, <1>13, <2>1 DEF TypeInv, market
<1>17. ChartInv'
  <2>1. /\ closed.place = chart - 1 /\ last <= chart - 1 /\ closed.place \in Nat
    BY <1>1, <1>2 DEF ChartInv, PlacedBar
  <2>2. \A j \in DOMAIN processed : processed[j].place \in Nat
    <3>1. \A j \in DOMAIN processed : processed[j] \in PlacedBar
      BY <1>1, ElementOfSeq, LenProperties
    <3> QED BY <3>1 DEF PlacedBar
  <2>3. \A j \in DOMAIN processed :
           Sound(processed[j]) /\ processed[j].place < last /\ processed[j].place < closed.place
    BY <1>1, <2>1, <2>2 DEF ChartInv
  <2> HIDE DEF now
  <2>4. \A j \in DOMAIN now : Sound(now[j]) /\ now[j].place < chart
    BY <1>1, <1>8, <2>1, <2>2, <2>3
  <2>5. \A i, j \in DOMAIN now : i < j => now[i].place < now[j].place
    BY <1>1, <1>8, <2>3 DEF ChartInv
  <2> QED
    BY <1>1, <1>2, <2>1, <2>4, <2>5 DEF ChartInv, market, Sound
<1>18. Waiting'
  BY <1>2, <1>5 DEF Waiting, Completed
<1> QED
  BY <1>15, <1>16, <1>17, <1>18 DEF IInv

LEMMA OutcomesStep == IInv /\ [Next]_vars => IInv'
<1> SUFFICES ASSUME IInv, [Next]_vars PROVE IInv'
  OBVIOUS
<1>1. CASE BarOpens
  BY <1>1, OutcomesBarOpens
<1>2. CASE \E bid \in Prices : Tick(bid) \/ TickWithoutData(bid)
  BY <1>2, OutcomesTick
<1>3. CASE \E bid \in Prices : TickOfNewBar(bid)
  BY <1>3, OutcomesNewBar
<1>4. CASE Restart
  BY <1>4, OutcomesRestart
<1>5. CASE UNCHANGED vars
  BY <1>5 DEF vars, market, IInv, TypeInv, ChartInv, Sound, OutcomeInv, HeldSince, ExpiredAt,
              Waiting, Completed, Running, Settled
<1> QED
  BY <1>1, <1>2, <1>3, <1>4, <1>5 DEF Next

\* The bar at which an event's trade expired is the one LastClose finds.
LEMMA LastCloseIsTheBar ==
    ASSUME TypeInv, ChartInv, NEW e, NEW j \in DOMAIN processed, processed[j].place = e.entered
    PROVE  LastClose(e) = processed[j + MaxHoldingBars].close
<1>1. Len(processed) \in Nat /\ DOMAIN processed = 1..Len(processed)
  BY LenProperties DEF TypeInv
<1>2. \A i \in DOMAIN processed : processed[i].place \in Nat
  <2>1. \A i \in DOMAIN processed : processed[i] \in PlacedBar
    BY ElementOfSeq, LenProperties DEF TypeInv
  <2> QED BY <2>1 DEF PlacedBar
<1>3. ASSUME NEW i \in DOMAIN processed, processed[i].place = e.entered
      PROVE  i = j
  <2>1. i \in Nat /\ j \in Nat
    BY <1>1
  <2>2. ~ (i < j) /\ ~ (j < i)
    BY <1>2, <1>3 DEF ChartInv
  <2> QED BY <2>1, <2>2
<1>4. (CHOOSE i \in DOMAIN processed : processed[i].place = e.entered) = j
  BY <1>3
<1> QED
  BY <1>4 DEF LastClose

LEMMA OutcomesFollow == IInv => OutcomesAreReached
<1> SUFFICES ASSUME IInv PROVE OutcomesAreReached
  OBVIOUS
<1>1. TypeInv /\ ChartInv /\ OutcomeInv
  BY DEF IInv
<1>2. ASSUME NEW k \in DOMAIN active
      PROVE  LET t == active[k]
             IN  /\ t.held < MaxHoldingBars
                 /\ Gain(t.direction, t.price, t.adverse) > -t.stop
                 /\ Gain(t.direction, t.price, t.favorable) < RiskReward * t.stop
  <2>1. Running(active[k])
    BY <1>1 DEF OutcomeInv, ToSet
  <2> QED BY <2>1 DEF Running
<1>3. ASSUME NEW k \in DOMAIN log, log[k].type = "TRADE"
      PROVE  LET t == log[k]
                 stopped == t.mae_r <= -RUnit
                 reached == t.mfe_r >= RiskReward * RUnit
             IN  CASE t.exit = "SL" -> stopped /\ ~ reached /\ t.pnl_r = -RUnit
                   [] t.exit = "TP" -> reached /\ ~ stopped /\ t.pnl_r = RiskReward * RUnit
                   [] t.exit = "EXPIRED" ->
                         /\ ~ stopped /\ ~ reached
                         /\ t.held = MaxHoldingBars
                         /\ t.start = restarts =>
                               t.pnl_r * t.stop = RUnit * Gain(t.direction, t.price, LastClose(t))
  <2> DEFINE t == log[k]
  <2>1. Settled(t) /\ (t.start = restarts => ExpiredAt(t, processed))
    BY <1>1, <1>3 DEF OutcomeInv, ToSet
  <2> HIDE DEF t
  <2>2. ASSUME t.exit = "EXPIRED", t.start = restarts
        PROVE  t.pnl_r * t.stop = RUnit * Gain(t.direction, t.price, LastClose(t))
    <3>1. PICK j \in DOMAIN processed :
             /\ processed[j].place = t.entered
             /\ t.pnl_r * t.stop
                  = RUnit * Gain(t.direction, t.price, processed[j + MaxHoldingBars].close)
      BY <2>1, <2>2 DEF ExpiredAt
    <3>2. LastClose(t) = processed[j + MaxHoldingBars].close
      BY <1>1, <3>1, LastCloseIsTheBar
    <3> QED BY <3>1, <3>2
  <2>3. CASE t.exit = "SL"
    BY <2>1, <2>3 DEF Settled, t
  <2>4. CASE t.exit = "TP"
    BY <2>1, <2>4 DEF Settled, t
  <2>5. CASE t.exit = "EXPIRED"
    BY <2>1, <2>2, <2>5 DEF Settled, t
  <2> QED BY <2>1, <2>3, <2>4, <2>5 DEF Settled
<1> QED
  BY <1>2, <1>3 DEF OutcomesAreReached

\* The inductive invariant: the kinds of the data, the order of the bars that
\* were processed, and what is true of every open trade and of every event.
THEOREM OutcomesInvariant == Spec => []IInv
<1>1. Init => IInv
  BY OutcomesInit
<1>2. IInv /\ [Next]_vars => IInv'
  BY OutcomesStep
<1> QED
  BY <1>1, <1>2, PTL DEF Spec

\* A shadow trade ends the first time that it reaches its stop, its target or
\* its time, with the R multiple of that end (OnTick, MonitorActiveTrades and
\* AgeActiveTrades of the two analyzers), for any chart and any faults.
THEOREM OutcomesReached == Spec => []OutcomesAreReached
BY OutcomesInvariant, OutcomesFollow, PTL

-----------------------------------------------------------------------------
(* When trades enter.  The rules of TimingReport, on any sequence of bars. *)

ConfirmedIn(bars, i, j) ==
    /\ kind = "entry" => bars[j].turns
    /\ IF bars[i].setup = "BUY" THEN bars[j].close > bars[i].level
       ELSE bars[j].close < bars[i].level

TriggersIn(bars, i) ==
    {j \in DOMAIN bars : i < j /\ j <= i + MaxWaitBars /\ ConfirmedIn(bars, i, j)}

EntryBarsIn(bars, i, v) ==
    IF v = "WAIT_TRIGGER"
    THEN {j \in TriggersIn(bars, i) : \A k \in TriggersIn(bars, i) : j <= k}
    ELSE {j \in DOMAIN bars \cap {i + IndexOf(v)} :
             kind = "breakout" /\ i < j => ConfirmedIn(bars, i, j)}

\* The setup of bar i enters by variant v at bar j.
Enters(bars, i, v, j) ==
    /\ i \in DOMAIN bars /\ bars[i].setup # "NONE"
    /\ v \in VariantsOf(kind)
    /\ j \in EntryBarsIn(bars, i, v) /\ bars[j].atr > 0

DueTerms(bars, i, v, j) ==
    [setup |-> bars[i].place, variant |-> v, direction |-> bars[i].setup,
     entered |-> bars[j].place, price |-> bars[j].close, stop |-> bars[j].atr, wait |-> j - i]

\* The bars that confirmed the setup of bar i, counted from it, among the next n.
Offsets(bars, i, n) ==
    IF kind = "entry"
    THEN {m \in 1..n : /\ m <= MaxWaitBars /\ ConfirmedIn(bars, i, i + m)
                       /\ \A k \in 1..(m - 1) : ~ ConfirmedIn(bars, i, i + k)}
    ELSE {m \in 1..n : ConfirmedIn(bars, i, i + m)}

FollowsUp(s, bars, i) ==
    /\ i \in DOMAIN bars /\ bars[i].setup # "NONE"
    /\ s.setup = bars[i].place /\ s.direction = bars[i].setup /\ s.level = bars[i].level
    /\ s.elapsed = Len(bars) - i
    /\ s.confirmed = Offsets(bars, i, Len(bars) - i)

\* The setup of bar i is completed by the last bar.
DoneBy(bars, i) ==
    Completed([elapsed |-> Len(bars) - i, confirmed |-> Offsets(bars, i, Len(bars) - i)])

\* The pending setups are the bars' own that are not completed, each once.
PendingInv ==
    /\ \A s \in ToSet(pending) : \E i \in DOMAIN processed : FollowsUp(s, processed, i)
    /\ \A i \in DOMAIN processed : processed[i].setup # "NONE" /\ ~ DoneBy(processed, i) =>
          \E s \in ToSet(pending) : FollowsUp(s, processed, i)
    /\ \A k, l \in DOMAIN pending : pending[k].setup = pending[l].setup => k = l

TermsOf(t) ==
    [setup |-> t.setup, variant |-> t.variant, direction |-> t.direction,
     entered |-> t.entered, price |-> t.price, stop |-> t.stop, wait |-> t.wait]

ThisStart(e) == e.type = "TRADE" /\ e.start = restarts

Terms(trades) == {TermsOf(t) : t \in ToSet(trades)}
LogTerms(events) == {TermsOf(e) : e \in {x \in ToSet(events) : ThisStart(x)}}

Distinct(trades) ==
    \A k, l \in DOMAIN trades : TermsOf(trades[k]) = TermsOf(trades[l]) => k = l
LogDistinct(events) ==
    \A k, l \in DOMAIN events :
        ThisStart(events[k]) /\ ThisStart(events[l]) /\ TermsOf(events[k]) = TermsOf(events[l])
            => k = l

\* The terms that are due, and those due at the last bar.
DueSet(bars) ==
    {DueTerms(bars, p[1], p[2], p[3]) :
        p \in {q \in (DOMAIN bars) \X VariantsOf(kind) \X (DOMAIN bars) :
                  Enters(bars, q[1], q[2], q[3])}}
NewDue(bars) ==
    {DueTerms(bars, p[1], p[2], Len(bars)) :
        p \in {q \in (DOMAIN bars) \X VariantsOf(kind) : Enters(bars, q[1], q[2], Len(bars))}}

\* The trades of this start, open or ended, are those that were due, each once.
EnteredInv ==
    /\ Terms(active) \cup LogTerms(log) = DueSet(processed)
    /\ Distinct(active) /\ LogDistinct(log) /\ Terms(active) \cap LogTerms(log) = {}

-----------------------------------------------------------------------------
(* The terms of sequences of trades.                                       *)

LEMMA SameTermsOf == ASSUME NEW t, NEW u, SameTerms(t, u) PROVE TermsOf(t) = TermsOf(u)
BY DEF SameTerms, TermsOf

LEMMA EventTerms == ASSUME NEW t PROVE TermsOf(TradeEvent(t)) = TermsOf(t)
BY DEF TradeEvent, TermsOf

\* What keeps the terms of each keeps those of all.
LEMMA MapTerms ==
    ASSUME NEW S, NEW T, NEW f \in Seq(S), NEW g \in Seq(T), Len(f) = Len(g),
           \A k \in 1..Len(f) : TermsOf(g[k]) = TermsOf(f[k])
    PROVE  Terms(g) = Terms(f) /\ (Distinct(f) => Distinct(g))
<1>1. Len(f) \in Nat /\ DOMAIN f = 1..Len(f) /\ DOMAIN g = 1..Len(f)
  BY LenProperties
<1>2. ToSet(f) = {f[k] : k \in 1..Len(f)} /\ ToSet(g) = {g[k] : k \in 1..Len(f)}
  BY <1>1 DEF ToSet
<1>3. Terms(f) = {TermsOf(f[k]) : k \in 1..Len(f)} /\ Terms(g) = {TermsOf(g[k]) : k \in 1..Len(f)}
  BY <1>2 DEF Terms
<1>4. Terms(g) = Terms(f)
  BY <1>3
<1>5. Distinct(f) => Distinct(g)
  BY <1>1 DEF Distinct
<1> QED
  BY <1>4, <1>5

LEMMA ConcatTerms ==
    ASSUME NEW S, NEW s \in Seq(S), NEW t \in Seq(S)
    PROVE  /\ Terms(s \o t) = Terms(s) \cup Terms(t)
           /\ Distinct(s) /\ Distinct(t) /\ Terms(s) \cap Terms(t) = {} => Distinct(s \o t)
<1> DEFINE r == s \o t
<1>1. /\ r \in Seq(S) /\ ToSet(r) = ToSet(s) \cup ToSet(t)
      /\ \A i \in 1..Len(s) : r[i] = s[i]
      /\ \A i \in 1..Len(t) : r[Len(s) + i] = t[i]
      /\ \A i \in 1..Len(r) : i \in 1..Len(s) \/ (i - Len(s) \in 1..Len(t)
                                                  /\ i = Len(s) + (i - Len(s)))
      /\ Len(s) \in Nat /\ Len(t) \in Nat /\ Len(r) \in Nat
      /\ DOMAIN s = 1..Len(s) /\ DOMAIN t = 1..Len(t) /\ DOMAIN r = 1..Len(r)
  BY ConcatElements, ToSetConcat, LenProperties
<1> HIDE DEF r
<1>2. Terms(r) = Terms(s) \cup Terms(t)
  BY <1>1 DEF Terms
<1>3. ASSUME Distinct(s), Distinct(t), Terms(s) \cap Terms(t) = {},
             NEW k \in 1..Len(r), NEW l \in 1..Len(r), TermsOf(r[k]) = TermsOf(r[l])
      PROVE  k = l
  <2>1. \A i \in 1..Len(s) : r[i] = s[i] /\ TermsOf(s[i]) \in Terms(s)
    BY <1>1 DEF Terms, ToSet
  <2>2. \A i \in 1..Len(t) : TermsOf(t[i]) \in Terms(t)
    BY <1>1 DEF Terms, ToSet
  <2>3. CASE k \in 1..Len(s) /\ l \in 1..Len(s)
    BY <1>1, <1>3, <2>1, <2>3 DEF Distinct
  <2>4. CASE k \in 1..Len(s) /\ l \notin 1..Len(s)
    <3>1. l - Len(s) \in 1..Len(t) /\ r[l] = t[l - Len(s)]
      BY <1>1, <2>4
    <3>2. TermsOf(r[k]) \in Terms(s) /\ TermsOf(r[l]) \in Terms(t)
      BY <2>1, <2>2, <2>4, <3>1
    <3> QED BY <1>3, <3>2
  <2>5. CASE k \notin 1..Len(s) /\ l \in 1..Len(s)
    <3>1. k - Len(s) \in 1..Len(t) /\ r[k] = t[k - Len(s)]
      BY <1>1, <2>5
    <3>2. TermsOf(r[l]) \in Terms(s) /\ TermsOf(r[k]) \in Terms(t)
      BY <2>1, <2>2, <2>5, <3>1
    <3> QED BY <1>3, <3>2
  <2>6. CASE k \notin 1..Len(s) /\ l \notin 1..Len(s)
    <3>1. /\ l - Len(s) \in 1..Len(t) /\ r[l] = t[l - Len(s)]
          /\ k - Len(s) \in 1..Len(t) /\ r[k] = t[k - Len(s)]
      BY <1>1, <2>6
    <3>2. k - Len(s) = l - Len(s)
      BY <1>1, <1>3, <3>1 DEF Distinct
    <3> QED BY <1>1, <3>2
  <2> QED BY <2>3, <2>4, <2>5, <2>6
<1>4. Distinct(s) /\ Distinct(t) /\ Terms(s) \cap Terms(t) = {} => Distinct(r)
  BY <1>1, <1>3 DEF Distinct
<1> QED
  BY <1>2, <1>4 DEF r

\* Open and ended trades together have the terms of all, and none in common.
LEMMA OpenAndEndedTerms ==
    ASSUME NEW trades \in Seq(Trade), Distinct(trades)
    PROVE  /\ Terms(Open(trades)) \cup Terms(Ended(trades)) = Terms(trades)
           /\ Terms(Open(trades)) \cap Terms(Ended(trades)) = {}
           /\ Distinct(Open(trades)) /\ Distinct(Ended(trades))
<1> DEFINE O == {n \in DOMAIN trades : trades[n].exit = "open"}
           E == {n \in DOMAIN trades : trades[n].exit # "open"}
<1>1. Len(trades) \in Nat /\ DOMAIN trades = 1..Len(trades)
  BY LenProperties
<1>2. Open(trades) = Sublist(trades, O) /\ Ended(trades) = Sublist(trades, E)
  BY DEF Open, Ended, Those
<1>3. O \subseteq 1..Len(trades) /\ E \subseteq 1..Len(trades)
      /\ O \cup E = 1..Len(trades) /\ O \cap E = {}
  BY <1>1
<1> HIDE DEF O, E
<1>4. ASSUME NEW P \in SUBSET (1..Len(trades))
      PROVE  /\ Terms(Sublist(trades, P)) = {TermsOf(trades[n]) : n \in P}
             /\ Distinct(Sublist(trades, P))
  <2> DEFINE r == Sublist(trades, P)
  <2>1. P \cap (1..Len(trades)) = P
    BY <1>4
  <2>2. r \in Seq(Trade) /\ ToSet(r) = {trades[n] : n \in P} /\ DOMAIN r = 1..Len(r)
    BY <2>1, SublistPicks, ToSetSublist, LenProperties
  <2>3. PICK b : Picks(b, r, trades, P)
    BY <2>1, SublistPicks
  <2> HIDE DEF r
  <2>4. Terms(r) = {TermsOf(trades[n]) : n \in P}
    BY <2>2 DEF Terms
  <2>5. ASSUME NEW k \in DOMAIN r, NEW l \in DOMAIN r, TermsOf(r[k]) = TermsOf(r[l])
        PROVE  k = l
    <3>1. b[k] \in 1..Len(trades) /\ b[l] \in 1..Len(trades)
          /\ r[k] = trades[b[k]] /\ r[l] = trades[b[l]]
      BY <1>4, <2>2, <2>3 DEF Picks
    <3>2. b[k] = b[l]
      BY <1>1, <2>5, <3>1 DEF Distinct
    <3> QED BY <2>2, <2>3, <3>2 DEF Picks
  <2> QED BY <2>4, <2>5 DEF Distinct, r
<1>5. /\ Terms(Open(trades)) = {TermsOf(trades[n]) : n \in O}
      /\ Terms(Ended(trades)) = {TermsOf(trades[n]) : n \in E}
      /\ Distinct(Open(trades)) /\ Distinct(Ended(trades))
  BY <1>2, <1>3, <1>4
<1>6. Terms(trades) = {TermsOf(trades[n]) : n \in 1..Len(trades)}
  BY <1>1 DEF Terms, ToSet
<1>7. \A k \in O, l \in E : TermsOf(trades[k]) # TermsOf(trades[l])
  BY <1>1, <1>3 DEF Distinct
<1> QED
  BY <1>3, <1>5, <1>6, <1>7

\* The log takes the terms of the trades that it is told of.
LEMMA LogTermsGrow ==
    ASSUME NEW events \in Seq(Event), NEW trades \in Seq(Trade), restarts \in Nat,
           \A t \in ToSet(trades) : t.stop > 0 /\ RUnit % t.stop = 0,
           LogDistinct(events), Distinct(trades), LogTerms(events) \cap Terms(trades) = {}
    PROVE  /\ LogTerms(events \o TradeEvents(trades)) = LogTerms(events) \cup Terms(trades)
           /\ LogDistinct(events \o TradeEvents(trades))
<1> DEFINE t == TradeEvents(trades)
           r == events \o t
<1>1. /\ t \in Seq(Event) /\ Len(t) = Len(trades)
      /\ \A k \in 1..Len(trades) : t[k] = TradeEvent(trades[k])
  BY EventsOfTrades
<1>2. \A k \in 1..Len(trades) : TermsOf(t[k]) = TermsOf(trades[k]) /\ ThisStart(t[k])
  <2>1. \A u : TermsOf(TradeEvent(u)) = TermsOf(u) /\ ThisStart(TradeEvent(u))
    BY EventTerms DEF ThisStart, TradeEvent
  <2> QED BY <1>1, <2>1
<1> HIDE DEF t
<1>3. Terms(t) = Terms(trades) /\ Distinct(t)
  BY <1>1, <1>2, MapTerms
<1>4. /\ r \in Seq(Event) /\ ToSet(r) = ToSet(events) \cup ToSet(t)
      /\ \A i \in 1..Len(events) : r[i] = events[i]
      /\ \A i \in 1..Len(t) : r[Len(events) + i] = t[i]
      /\ \A i \in 1..Len(r) : i \in 1..Len(events) \/ (i - Len(events) \in 1..Len(t)
                                                       /\ i = Len(events) + (i - Len(events)))
      /\ Len(events) \in Nat /\ Len(t) \in Nat /\ Len(r) \in Nat
      /\ DOMAIN events = 1..Len(events) /\ DOMAIN t = 1..Len(t) /\ DOMAIN r = 1..Len(r)
  BY <1>1, ConcatElements, ToSetConcat, LenProperties
<1> HIDE DEF r
<1>5. \A e \in ToSet(t) : ThisStart(e)
  BY <1>1, <1>2, <1>4 DEF ToSet
<1>6. LogTerms(r) = LogTerms(events) \cup Terms(trades)
  <2>1. LogTerms(r) = LogTerms(events) \cup Terms(t)
    BY <1>4, <1>5 DEF LogTerms, Terms
  <2> QED BY <1>3, <2>1
<1>7. ASSUME NEW k \in 1..Len(r), NEW l \in 1..Len(r), ThisStart(r[k]), ThisStart(r[l]),
             TermsOf(r[k]) = TermsOf(r[l])
      PROVE  k = l
  <2>1. \A i \in 1..Len(events) : ThisStart(r[i]) => TermsOf(r[i]) \in LogTerms(events)
    BY <1>4 DEF LogTerms, ToSet
  <2>2. \A i \in 1..Len(t) : TermsOf(t[i]) \in Terms(trades)
    BY <1>3, <1>4 DEF Terms, ToSet
  <2>3. CASE k \in 1..Len(events) /\ l \in 1..Len(events)
    BY <1>4, <1>7, <2>3 DEF LogDistinct
  <2>4. CASE k \in 1..Len(events) /\ l \notin 1..Len(events)
    <3>1. l - Len(events) \in 1..Len(t) /\ r[l] = t[l - Len(events)]
      BY <1>4, <2>4
    <3>2. TermsOf(r[k]) \in LogTerms(events) /\ TermsOf(r[l]) \in Terms(trades)
      BY <1>7, <2>1, <2>2, <2>4, <3>1
    <3> QED BY <1>7, <3>2
  <2>5. CASE k \notin 1..Len(events) /\ l \in 1..Len(events)
    <3>1. k - Len(events) \in 1..Len(t) /\ r[k] = t[k - Len(events)]
      BY <1>4, <2>5
    <3>2. TermsOf(r[l]) \in LogTerms(events) /\ TermsOf(r[k]) \in Terms(trades)
      BY <1>7, <2>1, <2>2, <2>5, <3>1
    <3> QED BY <1>7, <3>2
  <2>6. CASE k \notin 1..Len(events) /\ l \notin 1..Len(events)
    <3>1. /\ l - Len(events) \in 1..Len(t) /\ r[l] = t[l - Len(events)]
          /\ k - Len(events) \in 1..Len(t) /\ r[k] = t[k - Len(events)]
      BY <1>4, <2>6
    <3>2. k - Len(events) = l - Len(events)
      BY <1>3, <1>4, <1>7, <3>1 DEF Distinct
    <3> QED BY <1>4, <3>2
  <2> QED BY <2>3, <2>4, <2>5, <2>6
<1>8. LogDistinct(r)
  BY <1>4, <1>7 DEF LogDistinct
<1> QED
  BY <1>6, <1>8 DEF r, t

\* Events of setups have no terms.
LEMMA SetupEventsHaveNoTerms ==
    ASSUME NEW events \in Seq(Event), NEW more \in Seq(Event),
           \A e \in ToSet(more) : e.type = "SETUP", LogDistinct(events)
    PROVE  /\ LogTerms(events \o more) = LogTerms(events)
           /\ LogDistinct(events \o more)
<1> DEFINE r == events \o more
<1>1. /\ r \in Seq(Event) /\ ToSet(r) = ToSet(events) \cup ToSet(more)
      /\ \A i \in 1..Len(events) : r[i] = events[i]
      /\ \A i \in 1..Len(more) : r[Len(events) + i] = more[i]
      /\ \A i \in 1..Len(r) : i \in 1..Len(events) \/ (i - Len(events) \in 1..Len(more)
                                                       /\ i = Len(events) + (i - Len(events)))
      /\ DOMAIN events = 1..Len(events) /\ DOMAIN more = 1..Len(more) /\ DOMAIN r = 1..Len(r)
  BY ConcatElements, ToSetConcat, LenProperties
<1> HIDE DEF r
<1>2. \A e \in ToSet(more) : ~ ThisStart(e)
  BY DEF ThisStart
<1>3. LogTerms(r) = LogTerms(events)
  BY <1>1, <1>2 DEF LogTerms
<1>4. ASSUME NEW k \in DOMAIN r, ThisStart(r[k])
      PROVE  k \in DOMAIN events /\ r[k] = events[k]
  <2>1. CASE k \in 1..Len(events)
    BY <1>1, <2>1
  <2>2. CASE k \notin 1..Len(events)
    <3>1. k - Len(events) \in 1..Len(more) /\ r[k] = more[k - Len(events)]
      BY <1>1, <2>2
    <3>2. r[k] \in ToSet(more)
      BY <1>1, <3>1 DEF ToSet
    <3> QED BY <1>2, <1>4, <3>2
  <2> QED BY <2>1, <2>2
<1>5. LogDistinct(r)
  BY <1>4 DEF LogDistinct
<1> QED
  BY <1>3, <1>5 DEF r

-----------------------------------------------------------------------------
(* What one more bar adds.                                                 *)

\* The facts of a bar appended, used throughout.
Extends(now, bars, bar) ==
    /\ bars \in Seq(PlacedBar) /\ now \in Seq(PlacedBar) /\ bar \in PlacedBar
    /\ Len(bars) \in Nat /\ Len(now) = Len(bars) + 1
    /\ DOMAIN bars = 1..Len(bars) /\ DOMAIN now = 1..(Len(bars) + 1)
    /\ now[Len(bars) + 1] = bar
    /\ \A i \in 1..Len(bars) : now[i] = bars[i] /\ bars[i] \in PlacedBar

LEMMA AppendExtends ==
    ASSUME NEW bars \in Seq(PlacedBar), NEW bar \in PlacedBar
    PROVE  Extends(Append(bars, bar), bars, bar)
BY AppendProperties, LenProperties, ElementOfSeq DEF Extends

LEMMA ConfirmedBefore ==
    ASSUME NEW bars, NEW now, NEW bar, Extends(now, bars, bar),
           NEW i \in 1..Len(bars), NEW j \in 1..Len(bars)
    PROVE  ConfirmedIn(now, i, j) <=> ConfirmedIn(bars, i, j)
BY DEF Extends, ConfirmedIn

LEMMA IndexKinds ==
    /\ IndexOf("IMMEDIATE") = 0
    /\ IndexOf("WAIT_1_BAR") = 1 /\ IndexOf("CONFIRM_1_BAR") = 1
    /\ IndexOf("WAIT_2_BARS") = 2 /\ IndexOf("CONFIRM_2_BARS") = 2
    /\ IndexOf("CONFIRM_3_BARS") = 3
<1> DEFINE Has(v, n) == v \in CASE n = 0 -> {"IMMEDIATE"}
                                [] n = 1 -> {"WAIT_1_BAR", "CONFIRM_1_BAR"}
                                [] n = 2 -> {"WAIT_2_BARS", "CONFIRM_2_BARS"}
                                [] OTHER -> {"CONFIRM_3_BARS"}
<1>1. \A v : IndexOf(v) = CHOOSE n \in 0..3 : Has(v, n)
  BY DEF IndexOf
<1>2. /\ \A v : Has(v, 0) <=> v = "IMMEDIATE"
      /\ \A v : Has(v, 1) <=> v \in {"WAIT_1_BAR", "CONFIRM_1_BAR"}
      /\ \A v : Has(v, 2) <=> v \in {"WAIT_2_BARS", "CONFIRM_2_BARS"}
      /\ \A v : Has(v, 3) <=> v = "CONFIRM_3_BARS"
  OBVIOUS
<1>3. 0..3 = {0, 1, 2, 3}
  OBVIOUS
<1> HIDE DEF Has
<1>4. ASSUME NEW v, NEW n \in 0..3, Has(v, n), \A m \in 0..3 : Has(v, m) => m = n
      PROVE  IndexOf(v) = n
  BY <1>1, <1>4
<1>5. IndexOf("IMMEDIATE") = 0
  <2>1. Has("IMMEDIATE", 0) /\ \A m \in 0..3 : Has("IMMEDIATE", m) => m = 0
    BY <1>2, <1>3
  <2> QED BY <1>3, <1>4, <2>1
<1>6. ASSUME NEW v \in {"WAIT_1_BAR", "CONFIRM_1_BAR"}
      PROVE  IndexOf(v) = 1
  <2>1. Has(v, 1) /\ \A m \in 0..3 : Has(v, m) => m = 1
    BY <1>2, <1>3
  <2> QED BY <1>3, <1>4, <2>1
<1>7. ASSUME NEW v \in {"WAIT_2_BARS", "CONFIRM_2_BARS"}
      PROVE  IndexOf(v) = 2
  <2>1. Has(v, 2) /\ \A m \in 0..3 : Has(v, m) => m = 2
    BY <1>2, <1>3
  <2> QED BY <1>3, <1>4, <2>1
<1>8. IndexOf("CONFIRM_3_BARS") = 3
  <2>1. Has("CONFIRM_3_BARS", 3) /\ \A m \in 0..3 : Has("CONFIRM_3_BARS", m) => m = 3
    BY <1>2, <1>3
  <2> QED BY <1>3, <1>4, <2>1
<1> QED
  BY <1>5, <1>6, <1>7, <1>8

\* One more bar decides nothing anew about the bars before it.
LEMMA EntersBefore ==
    ASSUME NEW bars, NEW now, NEW bar, Extends(now, bars, bar),
           NEW i \in 1..Len(bars), NEW v \in VariantsOf(kind), NEW j \in 1..Len(bars)
    PROVE  Enters(now, i, v, j) <=> Enters(bars, i, v, j)
<1>1. /\ Len(bars) \in Nat /\ DOMAIN bars = 1..Len(bars) /\ DOMAIN now = 1..(Len(bars) + 1)
      /\ \A k \in 1..Len(bars) : now[k] = bars[k]
  BY DEF Extends
<1>2. \A k \in 1..Len(bars) : ConfirmedIn(now, i, k) <=> ConfirmedIn(bars, i, k)
  BY ConfirmedBefore
<1>3. j \in EntryBarsIn(now, i, v) <=> j \in EntryBarsIn(bars, i, v)
  <2>1. CASE v = "WAIT_TRIGGER"
    <3>1. \A k \in 1..Len(bars) : k \in TriggersIn(now, i) <=> k \in TriggersIn(bars, i)
      BY <1>1, <1>2 DEF TriggersIn
    <3>2. /\ \A k \in TriggersIn(now, i) : k \in 1..Len(bars) \/ k = Len(bars) + 1
          /\ TriggersIn(bars, i) \subseteq 1..Len(bars)
      BY <1>1 DEF TriggersIn
    <3>3. (\A k \in TriggersIn(now, i) : j <= k) <=> (\A k \in TriggersIn(bars, i) : j <= k)
      BY <1>1, <3>1, <3>2
    <3> QED BY <2>1, <3>1, <3>3 DEF EntryBarsIn
  <2>2. CASE v # "WAIT_TRIGGER"
    BY <1>1, <1>2, <2>2 DEF EntryBarsIn
  <2> QED BY <2>1, <2>2
<1> QED
  BY <1>1, <1>3 DEF Enters

\* A setup's own bar is where it enters at once, and not otherwise.
LEMMA EntersAtOnce ==
    ASSUME NEW bars, NEW now, NEW bar, Extends(now, bars, bar), kind \in Kinds,
           NEW v \in VariantsOf(kind)
    PROVE  Enters(now, Len(now), v, Len(now))
             <=> v = "IMMEDIATE" /\ bar.setup # "NONE" /\ bar.atr > 0
<1>1. /\ Len(bars) \in Nat /\ Len(now) = Len(bars) + 1 /\ DOMAIN now = 1..(Len(bars) + 1)
      /\ Len(now) \in DOMAIN now /\ now[Len(now)] = bar
  BY DEF Extends
<1>2. Len(now) \in EntryBarsIn(now, Len(now), v) <=> v = "IMMEDIATE"
  <2>1. CASE v = "WAIT_TRIGGER"
    BY <1>1, <2>1 DEF EntryBarsIn, TriggersIn
  <2>2. CASE v # "WAIT_TRIGGER"
    <3>1. v = "IMMEDIATE" => IndexOf(v) = 0
      BY IndexKinds
    <3>2. v # "IMMEDIATE" => IndexOf(v) \in {1, 2, 3}
      BY <2>2, IndexKinds DEF VariantsOf
    <3>3. Len(now) \in EntryBarsIn(now, Len(now), v) <=> IndexOf(v) = 0
      BY <1>1, <2>2, <3>1, <3>2 DEF EntryBarsIn
    <3> QED BY <3>1, <3>2, <3>3
  <2> QED BY <2>1, <2>2
<1> QED
  BY <1>1, <1>2 DEF Enters

\* The bars after bar i, as far as they have confirmed it.
LEMMA OffsetsGrow ==
    ASSUME NEW bars, NEW now, NEW bar, Extends(now, bars, bar), kind \in Kinds,
           NEW i \in 1..Len(bars)
    PROVE  LET n == Len(bars) - i
               C == ConfirmedIn(now, i, Len(bars) + 1)
           IN  /\ n \in Nat /\ i + (n + 1) = Len(now)
               /\ Offsets(bars, i, n) \subseteq 1..n
               /\ Offsets(now, i, n + 1)
                    = Offsets(bars, i, n)
                        \cup (IF /\ C
                                 /\ kind = "entry" => Offsets(bars, i, n) = {} /\ n + 1 <= MaxWaitBars
                              THEN {n + 1} ELSE {})
<1> DEFINE n == Len(bars) - i
           C(k) == ConfirmedIn(now, i, i + k)
<1>1. /\ Len(bars) \in Nat /\ i \in Nat /\ n \in Nat /\ i + (n + 1) = Len(now)
      /\ i + (n + 1) = Len(bars) + 1
  BY DEF Extends
<1>2. \A k \in 1..n : ConfirmedIn(bars, i, i + k) <=> C(k)
  <2>1. \A k \in 1..n : i + k \in 1..Len(bars)
    BY <1>1
  <2> QED BY <2>1, ConfirmedBefore
<1>3. MaxWaitBars \in Nat
  BY TimingAnalyzerAssumption
<1> HIDE DEF n, C
<1>4. CASE kind = "entry"
  <2>1. Offsets(bars, i, n)
          = {m \in 1..n : m <= MaxWaitBars /\ C(m) /\ \A k \in 1..(m - 1) : ~ C(k)}
    <3>1. \A m \in 1..n : \A k \in 1..(m - 1) : k \in 1..n
      BY <1>1
    <3>2. \A m \in 1..n : (\A k \in 1..(m - 1) : ~ ConfirmedIn(bars, i, i + k))
                             <=> (\A k \in 1..(m - 1) : ~ C(k))
      BY <1>2, <3>1
    <3> QED BY <1>2, <1>4, <3>2 DEF Offsets
  <2>2. Offsets(now, i, n + 1)
          = {m \in 1..(n + 1) : m <= MaxWaitBars /\ C(m) /\ \A k \in 1..(m - 1) : ~ C(k)}
    BY <1>4 DEF Offsets, C
  <2>3. 1..(n + 1) = (1..n) \cup {n + 1} /\ (n + 1) - 1 = n
    BY <1>1
  <2>4. ASSUME n + 1 <= MaxWaitBars
        PROVE  Offsets(bars, i, n) = {} <=> \A k \in 1..n : ~ C(k)
    <3>1. ASSUME NEW k \in 1..n, C(k)
          PROVE  Offsets(bars, i, n) # {}
      <4> DEFINE T == {m \in 1..n : C(m)}
      <4>1. T \in SUBSET Nat /\ T # {}
        BY <1>1, <3>1
      <4>2. PICK m \in T : \A l \in T : m <= l
        BY <4>1, LeastNatural
      <4>3. \A l \in 1..(m - 1) : ~ C(l)
        BY <1>1, <4>2
      <4>4. m <= MaxWaitBars
        BY <1>1, <1>3, <2>4, <4>2
      <4> QED BY <2>1, <4>2, <4>3, <4>4
    <3> QED BY <2>1, <3>1
  <2>5. Offsets(now, i, n + 1)
          = Offsets(bars, i, n)
              \cup (IF n + 1 <= MaxWaitBars /\ C(n + 1) /\ \A k \in 1..n : ~ C(k)
                    THEN {n + 1} ELSE {})
    BY <2>1, <2>2, <2>3
  <2>6. Offsets(bars, i, n) \subseteq 1..n
    BY <2>1
  <2>7. C(n + 1) <=> ConfirmedIn(now, i, Len(bars) + 1)
    BY <1>1 DEF C
  <2> QED BY <1>1, <1>4, <2>4, <2>5, <2>6, <2>7 DEF n
<1>5. CASE kind # "entry"
  <2>1. Offsets(bars, i, n) = {m \in 1..n : C(m)}
    BY <1>2, <1>5 DEF Offsets
  <2>2. Offsets(now, i, n + 1) = {m \in 1..(n + 1) : C(m)}
    BY <1>5 DEF Offsets, C
  <2>3. 1..(n + 1) = (1..n) \cup {n + 1}
    BY <1>1
  <2>4. Offsets(now, i, n + 1) = Offsets(bars, i, n) \cup (IF C(n + 1) THEN {n + 1} ELSE {})
    BY <2>1, <2>2, <2>3
  <2>5. C(n + 1) <=> ConfirmedIn(now, i, Len(bars) + 1)
    BY <1>1 DEF C
  <2>6. Offsets(bars, i, n) \subseteq 1..n
    BY <2>1
  <2> QED BY <1>1, <1>5, <2>4, <2>5, <2>6 DEF n
<1> QED
  BY <1>4, <1>5

LEMMA CompletedIsDone ==
    ASSUME NEW s, NEW bars, NEW i, FollowsUp(s, bars, i)
    PROVE  Completed(s) <=> DoneBy(bars, i)
BY DEF FollowsUp, DoneBy, Completed

\* A pending setup, advanced, follows its bar up with one bar more.
LEMMA AdvancedFollows ==
    ASSUME NEW bars, NEW now, NEW bar, Extends(now, bars, bar), kind \in Kinds,
           NEW i \in 1..Len(bars), NEW s \in PendingSetup, FollowsUp(s, bars, i), ~ Completed(s)
    PROVE  FollowsUp(AdvancedSetup(s, bar), now, i)
<1> DEFINE n == Len(bars) - i
           a == AdvancedSetup(s, bar)
           C == ConfirmedIn(now, i, Len(bars) + 1)
<1>1. /\ Len(bars) \in Nat /\ Len(now) = Len(bars) + 1 /\ bar \in PlacedBar
      /\ i \in DOMAIN now /\ now[i] = bars[i] /\ now[Len(bars) + 1] = bar
      /\ bars[i] \in PlacedBar
  BY DEF Extends
<1>2. /\ s.setup = bars[i].place /\ s.direction = bars[i].setup /\ s.level = bars[i].level
      /\ s.elapsed = n /\ s.confirmed = Offsets(bars, i, n) /\ bars[i].setup # "NONE"
  BY DEF FollowsUp
<1>3. /\ a.setup = s.setup /\ a.direction = s.direction /\ a.level = s.level
      /\ a.elapsed = s.elapsed + 1
      /\ a.confirmed = IF Watches(s, s.elapsed + 1) /\ Confirms(s, bar)
                       THEN s.confirmed \cup {s.elapsed + 1} ELSE s.confirmed
  BY <1>1, AdvancedKeeps
<1>4. /\ n \in Nat /\ i + (n + 1) = Len(now)
      /\ Offsets(now, i, n + 1)
           = Offsets(bars, i, n)
               \cup (IF /\ C
                        /\ kind = "entry" => Offsets(bars, i, n) = {} /\ n + 1 <= MaxWaitBars
                     THEN {n + 1} ELSE {})
  BY OffsetsGrow
<1>5. Confirms(s, bar) <=> C
  <2>1. s.direction \in Direction /\ s.level \in Int /\ bar.close \in Int
    BY <1>1 DEF PendingSetup, PlacedBar
  <2>2. Gain(s.direction, s.level, bar.close) > 0
          <=> IF bars[i].setup = "BUY" THEN bar.close > bars[i].level
              ELSE bar.close < bars[i].level
    BY <1>2, <2>1 DEF Gain
  <2> QED BY <1>1, <2>2 DEF Confirms, ConfirmedIn
<1>6. Watches(s, n + 1) <=> (kind = "entry" => Offsets(bars, i, n) = {} /\ n + 1 <= MaxWaitBars)
  <2>1. kind # "entry" => n + 1 <= 3
    BY <1>2, <1>4 DEF Completed
  <2> QED BY <1>2, <2>1 DEF Watches
<1> HIDE DEF n, a, C
<1>7. a.confirmed = Offsets(now, i, n + 1)
  BY <1>2, <1>3, <1>4, <1>5, <1>6
<1>8. a.elapsed = n + 1 /\ Len(now) - i = n + 1
  BY <1>1, <1>2, <1>3 DEF n
<1> QED
  BY <1>1, <1>2, <1>3, <1>7, <1>8 DEF FollowsUp, a

LEMMA IndexIsWhole == \A v \in Variants \ {"WAIT_TRIGGER"} : IndexOf(v) \in 0..3
BY IndexKinds DEF Variants

\* The variants that are due of a setup, each once.
LEMMA DueNames ==
    ASSUME kind \in Kinds, NEW s \in PendingSetup, s.elapsed >= 1,
           kind = "breakout" => s.elapsed <= 3
    PROVE  /\ ToSet(Due(s)) \subseteq VariantsOf(kind) \ {"IMMEDIATE"}
           /\ \A x, y \in 1..Len(Due(s)) : Due(s)[x] = Due(s)[y] => x = y
           /\ \A v \in VariantsOf(kind) :
                 v \in ToSet(Due(s))
                   <=> IF v = "WAIT_TRIGGER" THEN s.elapsed \in s.confirmed
                       ELSE IndexOf(v) = s.elapsed
                            /\ (kind = "breakout" => s.elapsed \in s.confirmed)
<1> DEFINE n == s.elapsed
           K == s.confirmed
           IsDue(v) == IF v = "WAIT_TRIGGER" THEN n \in K
                       ELSE IndexOf(v) = n /\ (kind = "breakout" => n \in K)
<1>1. n \in Nat /\ n >= 1
  BY DEF PendingSetup
<1>3. kind \in {"entry", "breakout"}
  BY TimingAnalyzerAssumption
<1> HIDE DEF n, K
<1>7. CASE kind = "entry"
  <2> DEFINE a == IF n = 1 THEN <<"WAIT_1_BAR">>
                  ELSE IF n = 2 THEN <<"WAIT_2_BARS">> ELSE <<>>
             b == IF n \in K THEN <<"WAIT_TRIGGER">> ELSE <<>>
  <2>1. Due(s) = a \o b
    BY <1>7 DEF Due, n, K
  <2>2. /\ a \in Seq(Variants) /\ b \in Seq(Variants) /\ Len(a) <= 1 /\ Len(b) <= 1
        /\ ToSet(a) = IF n = 1 THEN {"WAIT_1_BAR"} ELSE IF n = 2 THEN {"WAIT_2_BARS"} ELSE {}
        /\ ToSet(b) = IF n \in K THEN {"WAIT_TRIGGER"} ELSE {}
        /\ Len(a) = 1 => a[1] \in {"WAIT_1_BAR", "WAIT_2_BARS"}
        /\ Len(b) = 1 => b[1] = "WAIT_TRIGGER"
    <3>1. /\ "WAIT_1_BAR" \in Variants /\ "WAIT_2_BARS" \in Variants /\ "WAIT_TRIGGER" \in Variants
      BY DEF Variants
    <3>2. <<>> \in Seq(Variants) /\ Len(<<>>) = 0 /\ ToSet(<<>>) = {}
      BY DEF ToSet
    <3>3. \A v \in Variants : /\ <<v>> \in Seq(Variants) /\ Len(<<v>>) = 1 /\ <<v>>[1] = v
                              /\ ToSet(<<v>>) = {v}
      BY OneElement
    <3>4. /\ a \in Seq(Variants) /\ Len(a) <= 1
          /\ ToSet(a) = IF n = 1 THEN {"WAIT_1_BAR"} ELSE IF n = 2 THEN {"WAIT_2_BARS"} ELSE {}
          /\ Len(a) = 1 => a[1] \in {"WAIT_1_BAR", "WAIT_2_BARS"}
      <4>1. CASE n = 1
        <5>1. a = <<"WAIT_1_BAR">>
          BY <4>1
        <5> HIDE DEF a
        <5> QED BY <3>1, <3>3, <4>1, <5>1
      <4>2. CASE n = 2
        <5>1. a = <<"WAIT_2_BARS">>
          BY <4>2
        <5> HIDE DEF a
        <5> QED BY <3>1, <3>3, <4>2, <5>1
      <4>3. CASE n # 1 /\ n # 2
        <5>1. a = <<>>
          BY <4>3
        <5> HIDE DEF a
        <5> QED BY <3>2, <4>3, <5>1
      <4> QED BY <4>1, <4>2, <4>3
    <3>5. /\ b \in Seq(Variants) /\ Len(b) <= 1
          /\ ToSet(b) = IF n \in K THEN {"WAIT_TRIGGER"} ELSE {}
          /\ Len(b) = 1 => b[1] = "WAIT_TRIGGER"
      <4>1. CASE n \in K
        <5>1. b = <<"WAIT_TRIGGER">>
          BY <4>1
        <5> HIDE DEF b
        <5> QED BY <3>1, <3>3, <4>1, <5>1
      <4>2. CASE n \notin K
        <5>1. b = <<>>
          BY <4>2
        <5> HIDE DEF b
        <5> QED BY <3>2, <4>2, <5>1
      <4> QED BY <4>1, <4>2
    <3> HIDE DEF a, b
    <3> QED BY <3>4, <3>5
  <2> HIDE DEF a, b
  <2>3. ToSet(Due(s)) = ToSet(a) \cup ToSet(b)
    BY <2>1, <2>2, ToSetConcat
  <2>4. ASSUME NEW x \in 1..Len(Due(s)), NEW y \in 1..Len(Due(s)), Due(s)[x] = Due(s)[y]
        PROVE  x = y
    <3> DEFINE r == a \o b
    <3>1. /\ Len(r) = Len(a) + Len(b) /\ Len(a) \in Nat /\ Len(b) \in Nat
          /\ \A k \in 1..Len(a) : r[k] = a[k]
          /\ \A k \in 1..Len(b) : r[Len(a) + k] = b[k]
      BY <2>2, ConcatElements, LenProperties
    <3>2. r = Due(s)
      BY <2>1
    <3> HIDE DEF r
    <3>3. CASE Len(r) <= 1
      BY <2>4, <3>1, <3>2, <3>3
    <3>4. CASE ~ (Len(r) <= 1)
      <4>1. Len(a) = 1 /\ Len(b) = 1 /\ Len(r) = 2
        <5>1. Len(a) <= 1 /\ Len(b) <= 1
          BY <2>2
        <5>2. Len(r) = Len(a) + Len(b) /\ Len(a) \in Nat /\ Len(b) \in Nat
          BY <3>1
        <5>3. \A p, q \in Nat : p <= 1 /\ q <= 1 /\ ~ (p + q <= 1) => p = 1 /\ q = 1 /\ p + q = 2
          OBVIOUS
        <5>4. ~ (Len(a) + Len(b) <= 1)
          BY <3>4, <5>2
        <5> QED BY <5>1, <5>2, <5>3, <5>4
      <4>2. r[1] = a[1] /\ r[2] = b[1]
        BY <3>1, <4>1
      <4>3. r[1] # r[2]
        BY <2>2, <4>1, <4>2
      <4> QED BY <2>4, <3>2, <4>1, <4>3
    <3> QED BY <3>3, <3>4
  <2>5. VariantsOf(kind) = {"IMMEDIATE", "WAIT_1_BAR", "WAIT_2_BARS", "WAIT_TRIGGER"}
    BY <1>7 DEF VariantsOf
  <2>6. ASSUME NEW v \in VariantsOf(kind)
        PROVE  v \in ToSet(Due(s)) <=> IsDue(v)
    <3>1. CASE v = "WAIT_TRIGGER"
      BY <2>2, <2>3, <3>1
    <3>2. CASE v = "IMMEDIATE"
      <4>1. ~ (IndexOf(v) = n)
        BY <1>1, <3>2, IndexKinds
      <4> QED BY <2>2, <2>3, <3>2, <4>1
    <3>3. CASE v = "WAIT_1_BAR"
      BY <1>7, <2>2, <2>3, <3>3, IndexKinds
    <3>4. CASE v = "WAIT_2_BARS"
      BY <1>7, <2>2, <2>3, <3>4, IndexKinds
    <3> QED BY <2>5, <3>1, <3>2, <3>3, <3>4
  <2> QED BY <2>2, <2>3, <2>4, <2>5, <2>6 DEF n, K
<1>8. CASE kind = "breakout"
  <2> DEFINE names == <<"CONFIRM_1_BAR", "CONFIRM_2_BARS", "CONFIRM_3_BARS">>
  <2>1. n \in {1, 2, 3}
    BY <1>1, <1>8 DEF n
  <2>2. Due(s) = IF n \in K THEN <<names[n]>> ELSE <<>>
    BY <1>8 DEF Due, n, K
  <2>3. /\ names[n] \in {"CONFIRM_1_BAR", "CONFIRM_2_BARS", "CONFIRM_3_BARS"}
        /\ \A v \in {"CONFIRM_1_BAR", "CONFIRM_2_BARS", "CONFIRM_3_BARS"} :
              v = names[n] <=> IndexOf(v) = n
    BY <2>1, IndexKinds
  <2> HIDE DEF names
  <2>4. /\ ToSet(Due(s)) = IF n \in K THEN {names[n]} ELSE {}
        /\ Len(Due(s)) <= 1
    <3>1. ToSet(<<>>) = {} /\ Len(<<>>) = 0
      BY DEF ToSet
    <3>2. ToSet(<<names[n]>>) = {names[n]} /\ Len(<<names[n]>>) = 1
      BY <2>3, OneElement
    <3>3. CASE n \in K
      BY <2>2, <3>2, <3>3
    <3>4. CASE n \notin K
      BY <2>2, <3>1, <3>4
    <3> QED BY <3>3, <3>4
  <2>5. VariantsOf(kind) = {"IMMEDIATE", "CONFIRM_1_BAR", "CONFIRM_2_BARS", "CONFIRM_3_BARS"}
    BY <1>8 DEF VariantsOf
  <2>6. \A x, y \in 1..Len(Due(s)) : x = y
    <3>1. Due(s) \in Seq(Variants)
      BY <1>1, <1>8, DueVariants DEF n
    <3>2. Len(Due(s)) \in Nat /\ Len(Due(s)) <= 1
      BY <2>4, <3>1, LenProperties
    <3>3. \A x \in 1..Len(Due(s)) : x = 1
      BY <3>2
    <3> QED BY <3>3
  <2>7. ASSUME NEW v \in VariantsOf(kind)
        PROVE  v \in ToSet(Due(s)) <=> IsDue(v)
    <3>1. v # "WAIT_TRIGGER"
      BY <2>5
    <3>2. IsDue(v) <=> IndexOf(v) = n /\ n \in K
      BY <1>8, <3>1
    <3>3. CASE v = "IMMEDIATE"
      <4>1. ~ (IndexOf(v) = n)
        BY <1>1, <3>3, IndexKinds
      <4> QED BY <2>3, <2>4, <3>2, <3>3, <4>1
    <3>4. CASE v # "IMMEDIATE"
      BY <2>3, <2>4, <2>5, <3>2, <3>4
    <3> QED BY <3>3, <3>4
  <2> QED BY <2>3, <2>4, <2>5, <2>6, <2>7 DEF n, K
<1> QED
  BY <1>3, <1>7, <1>8 DEF n, K

\* What is due of a setup is what enters at the last bar, each once.
LEMMA DueEnters ==
    ASSUME NEW now \in Seq(PlacedBar), kind \in Kinds, NEW s \in PendingSetup,
           NEW i \in 1..(Len(now) - 1), FollowsUp(s, now, i),
           kind = "breakout" => s.elapsed <= 3
    PROVE  /\ ToSet(Due(s)) \subseteq VariantsOf(kind) \ {"IMMEDIATE"}
           /\ \A x, y \in 1..Len(Due(s)) : Due(s)[x] = Due(s)[y] => x = y
           /\ \A v \in VariantsOf(kind) :
                 v \in ToSet(Due(s)) <=> Len(now) \in EntryBarsIn(now, i, v)
<1> DEFINE n == Len(now) - i
           C(k) == ConfirmedIn(now, i, i + k)
           K == Offsets(now, i, n)
<1>1. /\ Len(now) \in Nat /\ DOMAIN now = 1..Len(now) /\ i \in Nat /\ n \in Nat /\ n >= 1
      /\ i + n = Len(now)
  BY LenProperties
<1>2. s.elapsed = n /\ s.confirmed = K
  BY DEF FollowsUp
<1>3. MaxWaitBars \in Nat /\ kind \in {"entry", "breakout"}
  BY TimingAnalyzerAssumption
<1>4. ASSUME NEW v \in VariantsOf(kind), v # "WAIT_TRIGGER"
      PROVE  /\ IndexOf(v) \in 0..3
             /\ Len(now) \in EntryBarsIn(now, i, v)
                  <=> IndexOf(v) = n /\ (kind = "breakout" => C(n))
  <2>1. IndexOf(v) \in 0..3
    BY <1>4, IndexIsWhole DEF VariantsOf, Variants
  <2>2. Len(now) = i + IndexOf(v) <=> IndexOf(v) = n
    BY <1>1, <2>1
  <2>3. ConfirmedIn(now, i, Len(now)) <=> C(n)
    BY <1>1
  <2> HIDE DEF n, C
  <2> QED BY <1>1, <1>4, <2>1, <2>2, <2>3 DEF EntryBarsIn
<1>5. Len(now) \in EntryBarsIn(now, i, "WAIT_TRIGGER")
        <=> n <= MaxWaitBars /\ C(n) /\ \A k \in 1..(n - 1) : ~ C(k)
  <2> DEFINE T == TriggersIn(now, i)
  <2>1. Len(now) \in T <=> n <= MaxWaitBars /\ C(n)
    <3>1. Len(now) <= i + MaxWaitBars <=> n <= MaxWaitBars
      BY <1>1, <1>3
    <3>2. ConfirmedIn(now, i, Len(now)) <=> C(n)
      BY <1>1
    <3> HIDE DEF n, C
    <3> QED BY <1>1, <3>1, <3>2 DEF TriggersIn
  <2>2. ASSUME n <= MaxWaitBars, NEW k \in 1..(n - 1)
        PROVE  C(k) <=> i + k \in T
    <3>1. i + k \in DOMAIN now /\ i < i + k /\ i + k <= i + MaxWaitBars
      BY <1>1, <1>3, <2>2
    <3> QED BY <3>1 DEF TriggersIn
  <2>3. ASSUME NEW j \in T
        PROVE  j \in Nat /\ i < j /\ j <= Len(now)
    BY <1>1 DEF TriggersIn
  <2>4. Len(now) \in EntryBarsIn(now, i, "WAIT_TRIGGER")
          <=> Len(now) \in T /\ \A j \in T : Len(now) <= j
    BY DEF EntryBarsIn
  <2> HIDE DEF T, C
  <2>5. ASSUME n <= MaxWaitBars
        PROVE  (\A j \in T : Len(now) <= j) <=> \A k \in 1..(n - 1) : ~ C(k)
    <3>1. ASSUME NEW k \in 1..(n - 1), C(k)
          PROVE  i + k \in T /\ ~ (Len(now) <= i + k)
      BY <1>1, <2>2, <2>5, <3>1
    <3>2. ASSUME NEW j \in T, ~ (Len(now) <= j)
          PROVE  j - i \in 1..(n - 1) /\ C(j - i)
      <4>1. j - i \in 1..(n - 1) /\ i + (j - i) = j
        BY <1>1, <2>3, <3>2
      <4> QED BY <2>2, <2>5, <4>1
    <3> QED BY <3>1, <3>2
  <2> QED BY <2>1, <2>4, <2>5
<1>6. n \in K <=> C(n) /\ (kind = "entry" => n <= MaxWaitBars /\ \A k \in 1..(n - 1) : ~ C(k))
  <2>1. n \in 1..n
    BY <1>1
  <2>2. CASE kind = "entry"
    <3>1. K = {m \in 1..n : m <= MaxWaitBars /\ C(m) /\ \A k \in 1..(m - 1) : ~ C(k)}
      BY <2>2 DEF Offsets
    <3> HIDE DEF n, C, K
    <3> QED BY <2>1, <2>2, <3>1
  <2>3. CASE kind # "entry"
    <3>1. K = {m \in 1..n : C(m)}
      BY <2>3 DEF Offsets
    <3> HIDE DEF n, C, K
    <3> QED BY <2>1, <2>3, <3>1
  <2> QED BY <2>2, <2>3
<1> HIDE DEF n, C, K
<1>7. /\ ToSet(Due(s)) \subseteq VariantsOf(kind) \ {"IMMEDIATE"}
      /\ \A x, y \in 1..Len(Due(s)) : Due(s)[x] = Due(s)[y] => x = y
      /\ \A v \in VariantsOf(kind) :
            v \in ToSet(Due(s))
              <=> IF v = "WAIT_TRIGGER" THEN n \in K
                  ELSE IndexOf(v) = n /\ (kind = "breakout" => n \in K)
  BY <1>1, <1>2, DueNames
<1>8. ASSUME NEW v \in VariantsOf(kind)
      PROVE  v \in ToSet(Due(s)) <=> Len(now) \in EntryBarsIn(now, i, v)
  <2>1. CASE v = "WAIT_TRIGGER"
    <3>1. kind = "entry"
      BY <1>3, <2>1 DEF VariantsOf
    <3> QED BY <1>5, <1>6, <1>7, <2>1, <3>1
  <2>2. CASE v # "WAIT_TRIGGER"
    BY <1>3, <1>4, <1>6, <1>7, <2>2
  <2> QED BY <2>1, <2>2
<1> QED
  BY <1>7, <1>8

\* A setup that was completed enters no more, and stays completed.
LEMMA DoneEntersNoMore ==
    ASSUME NEW bars, NEW now, NEW bar, Extends(now, bars, bar), kind \in Kinds,
           NEW i \in 1..Len(bars), DoneBy(bars, i)
    PROVE  /\ DoneBy(now, i)
           /\ \A v \in VariantsOf(kind) : Len(now) \notin EntryBarsIn(now, i, v)
<1> DEFINE n == Len(bars) - i
           K == Offsets(bars, i, n)
<1>1. /\ Len(bars) \in Nat /\ Len(now) = Len(bars) + 1 /\ DOMAIN now = 1..Len(now)
      /\ n \in Nat /\ i \in Nat /\ i + (n + 1) = Len(now)
  BY DEF Extends
<1>2. K \subseteq Offsets(now, i, n + 1) /\ K \subseteq 1..n
  BY OffsetsGrow
<1>3. Len(now) - i = n + 1
  BY <1>1
<1>4. MaxWaitBars \in Nat /\ kind \in {"entry", "breakout"}
  BY TimingAnalyzerAssumption
<1>5. IF kind = "entry" THEN n >= 2 /\ (K # {} \/ n >= MaxWaitBars) ELSE n >= 3
  BY DEF DoneBy, Completed
<1>6. K \subseteq {m \in 1..n : ConfirmedIn(now, i, i + m)}
  <2>1. K \subseteq {m \in 1..n : ConfirmedIn(bars, i, i + m)}
    BY DEF Offsets
  <2>2. \A m \in 1..n : i + m \in 1..Len(bars)
    BY <1>1
  <2>3. \A m \in 1..n : ConfirmedIn(now, i, i + m) <=> ConfirmedIn(bars, i, i + m)
    BY <2>2, ConfirmedBefore
  <2> QED BY <2>1, <2>3
<1> HIDE DEF n, K
<1>7. DoneBy(now, i)
  <2>1. n + 1 >= n
    BY <1>1
  <2>2. IF kind = "entry" THEN n + 1 >= 2 /\ (Offsets(now, i, n + 1) # {} \/ n + 1 >= MaxWaitBars)
        ELSE n + 1 >= 3
    <3>1. CASE kind = "entry"
      <4>1. n >= 2 /\ (K # {} \/ n >= MaxWaitBars)
        BY <1>5, <3>1
      <4>2. K # {} => Offsets(now, i, n + 1) # {}
        BY <1>2
      <4>3. n + 1 >= 2 /\ (n >= MaxWaitBars => n + 1 >= MaxWaitBars)
        BY <1>1, <1>4, <4>1
      <4> QED BY <3>1, <4>1, <4>2, <4>3
    <3>2. CASE kind # "entry"
      BY <1>1, <1>5, <3>2
    <3> QED BY <3>1, <3>2
  <2> QED BY <1>3, <2>2 DEF DoneBy, Completed
<1>8. ASSUME NEW v \in VariantsOf(kind), Len(now) \in EntryBarsIn(now, i, v)
      PROVE  FALSE
  <2>1. CASE v = "WAIT_TRIGGER"
    <3>1. kind = "entry"
      BY <1>4, <2>1 DEF VariantsOf
    <3>2. Len(now) \in TriggersIn(now, i) /\ \A k \in TriggersIn(now, i) : Len(now) <= k
      BY <1>8, <2>1 DEF EntryBarsIn
    <3>3. Len(now) <= i + MaxWaitBars
      BY <3>2 DEF TriggersIn
    <3>4. PICK m \in K : TRUE
      BY <1>1, <1>4, <1>5, <3>1, <3>3
    <3>5. m \in 1..n /\ ConfirmedIn(now, i, i + m)
      BY <1>6, <3>4
    <3>6. i + m \in DOMAIN now /\ i < i + m /\ i + m <= i + MaxWaitBars /\ ~ (Len(now) <= i + m)
      BY <1>1, <1>4, <3>3, <3>5
    <3>7. i + m \in TriggersIn(now, i)
      BY <3>5, <3>6 DEF TriggersIn
    <3> QED BY <3>2, <3>6, <3>7
  <2>2. CASE v # "WAIT_TRIGGER"
    <3>1. IndexOf(v) \in 0..3
      BY <2>2, IndexIsWhole DEF VariantsOf, Variants
    <3>2. Len(now) = i + IndexOf(v)
      BY <1>8, <2>2 DEF EntryBarsIn
    <3>3. kind = "entry" => IndexOf(v) \in {0, 1, 2}
      BY <2>2, IndexKinds DEF VariantsOf
    <3> QED BY <1>1, <1>4, <1>5, <3>1, <3>2, <3>3
  <2> QED BY <2>1, <2>2
<1> QED
  BY <1>7, <1>8

-----------------------------------------------------------------------------
(* The pending setups are those of the bars.                               *)

\* A setup that is pending, advanced by the new bar.
LEMMA AdvancedPending ==
    ASSUME IInv, PendingInv, NEW now, Extends(now, processed, closed)
    PROVE  /\ \A k \in 1..Len(pending) : \E i \in 1..Len(processed) :
                 /\ FollowsUp(pending[k], processed, i)
                 /\ FollowsUp(AdvancedAll(closed)[k], now, i)
                 /\ AdvancedAll(closed)[k].setup = pending[k].setup
                 /\ AdvancedAll(closed)[k].elapsed >= 1
                 /\ kind = "breakout" => AdvancedAll(closed)[k].elapsed <= 3
           /\ \A k, l \in 1..Len(pending) :
                 AdvancedAll(closed)[k].setup = AdvancedAll(closed)[l].setup => k = l
<1>1. /\ TypeInv /\ Waiting /\ kind \in Kinds /\ closed \in PlacedBar
      /\ DOMAIN pending = 1..Len(pending) /\ DOMAIN processed = 1..Len(processed)
  BY LenProperties DEF IInv, TypeInv
<1> DEFINE f == AdvancedAll(closed)
<1>2. \A k \in 1..Len(pending) :
         /\ pending[k] \in PendingSetup /\ pending[k] \in ToSet(pending)
         /\ f[k] = AdvancedSetup(pending[k], closed)
  BY <1>1, AdvancedSetups
<1> HIDE DEF f
<1>3. ASSUME NEW k \in 1..Len(pending)
      PROVE  /\ \E i \in 1..Len(processed) :
                   FollowsUp(pending[k], processed, i) /\ FollowsUp(f[k], now, i)
             /\ f[k].setup = pending[k].setup
             /\ f[k].elapsed >= 1
             /\ kind = "breakout" => f[k].elapsed <= 3
  <2> DEFINE s == pending[k]
  <2>1. s \in PendingSetup /\ ~ Completed(s) /\ f[k] = AdvancedSetup(s, closed)
    BY <1>1, <1>2 DEF Waiting
  <2>2. PICK i \in 1..Len(processed) : FollowsUp(s, processed, i)
    BY <1>1, <1>2 DEF PendingInv
  <2> HIDE DEF s
  <2>3. FollowsUp(f[k], now, i)
    BY <1>1, <2>1, <2>2, AdvancedFollows
  <2>4. f[k].setup = s.setup /\ f[k].elapsed = s.elapsed + 1
    <3>1. AdvancedSetup(s, closed).setup = s.setup
          /\ AdvancedSetup(s, closed).elapsed = s.elapsed + 1
      BY <1>1, <2>1, AdvancedKeeps
    <3> QED BY <2>1, <3>1
  <2>5. s.elapsed \in Nat /\ (kind = "breakout" => ~ (s.elapsed >= 3))
    BY <2>1 DEF PendingSetup, Completed
  <2>6. f[k].elapsed >= 1 /\ (kind = "breakout" => f[k].elapsed <= 3)
    BY <2>4, <2>5
  <2> QED BY <2>2, <2>3, <2>4, <2>6 DEF s
<1>4. ASSUME NEW k \in 1..Len(pending), NEW l \in 1..Len(pending), f[k].setup = f[l].setup
      PROVE  k = l
  BY <1>1, <1>3, <1>4 DEF PendingInv
<1> QED
  BY <1>3, <1>4 DEF f

LEMMA PendingNewBar ==
    ASSUME IInv, PendingInv, NEW bid \in Prices, TickOfNewBar(bid)
    PROVE  PendingInv'
<1> DEFINE f == AdvancedAll(closed)
           P == {n \in DOMAIN f : ~ Completed(f[n])}
           kept == Sublist(f, P)
           new == Detected(closed)
           now == Append(processed, closed)
<1>1. /\ TypeInv /\ ChartInv /\ Waiting /\ kind \in Kinds /\ closed \in PlacedBar
      /\ Sound(closed) /\ processed \in Seq(PlacedBar)
      /\ DOMAIN processed = 1..Len(processed) /\ Len(processed) \in Nat
  BY LenProperties DEF IInv, TypeInv, ChartInv
<1>2. /\ pending' = kept \o new /\ processed' = now /\ kind' = kind /\ last # chart
  BY DEF TickOfNewBar, AdvancedAll, Those
<1>3. Extends(now, processed, closed)
  BY <1>1, AppendExtends
<1>4. f \in Seq(PendingSetup) /\ DOMAIN f = 1..Len(pending) /\ Len(f) = Len(pending)
  BY <1>1, AdvancedSetups
<1> HIDE DEF now
<1>5. /\ \A k \in 1..Len(pending) : \E i \in 1..Len(processed) :
            /\ FollowsUp(pending[k], processed, i) /\ FollowsUp(f[k], now, i)
            /\ f[k].setup = pending[k].setup
      /\ \A k, l \in 1..Len(pending) : f[k].setup = f[l].setup => k = l
  BY <1>3, AdvancedPending
<1> HIDE DEF f
<1>6. P \cap (1..Len(f)) = P /\ P \subseteq 1..Len(pending)
  BY <1>4
<1>7. /\ \A n \in P : ~ Completed(f[n])
      /\ \A n \in 1..Len(pending) : n \notin P => Completed(f[n])
  BY <1>4
<1> HIDE DEF P
<1>8. kept \in Seq(PendingSetup) /\ ToSet(kept) = {f[n] : n \in P} /\ DOMAIN kept = 1..Len(kept)
  BY <1>4, <1>6, SublistPicks, ToSetSublist, LenProperties
<1>9. PICK b : Picks(b, kept, f, P)
  BY <1>4, <1>6, SublistPicks
<1> HIDE DEF kept
<1>10. /\ new \in Seq(PendingSetup) /\ Len(new) = IF closed.setup = "NONE" THEN 0 ELSE 1
       /\ DOMAIN new = 1..Len(new)
       /\ \A s \in ToSet(new) :
             /\ closed.setup # "NONE"
             /\ s.setup = closed.place /\ s.direction = closed.setup /\ s.level = closed.level
             /\ s.elapsed = 0 /\ s.confirmed = {}
  BY <1>1, DetectedSetup, LenProperties
<1> HIDE DEF new
<1>11. /\ Len(now) = Len(processed) + 1 /\ DOMAIN now = 1..(Len(processed) + 1)
       /\ now[Len(processed) + 1] = closed
       /\ \A i \in 1..Len(processed) : now[i] = processed[i] /\ processed[i] \in PlacedBar
  BY <1>3 DEF Extends
<1>12. \A i \in 1..Len(processed) : processed[i].place < closed.place
  <2>1. closed.place = chart - 1 /\ last <= chart - 1 /\ chart \in Nat /\ last \in Nat
    BY <1>1, <1>2 DEF ChartInv, TypeInv
  <2>2. \A i \in 1..Len(processed) : processed[i].place < last /\ processed[i].place \in Nat
    BY <1>1, <1>11 DEF ChartInv, PlacedBar
  <2> QED BY <2>1, <2>2
<1>13. \A i \in 1..Len(processed) : processed[i].place # closed.place
  <2>1. closed.place \in Nat /\ \A i \in 1..Len(processed) : processed[i].place \in Nat
    BY <1>1, <1>11 DEF PlacedBar
  <2> QED BY <1>12, <2>1
<1>14. \A s \in ToSet(new) : FollowsUp(s, now, Len(now))
  <2>1. Offsets(now, Len(now), 0) = {}
    BY DEF Offsets
  <2>2. Len(now) \in DOMAIN now /\ now[Len(now)] = closed /\ Len(now) - Len(now) = 0
    BY <1>1, <1>11
  <2> QED BY <1>10, <2>1, <2>2 DEF FollowsUp
<1>15. ToSet(pending') = ToSet(kept) \cup ToSet(new)
  BY <1>2, <1>8, <1>10, ToSetConcat
<1>16. ASSUME NEW s \in ToSet(pending')
       PROVE  \E i \in DOMAIN now : FollowsUp(s, now, i)
  <2>1. CASE s \in ToSet(new)
    BY <1>1, <1>11, <1>14, <2>1
  <2>2. CASE s \in ToSet(kept)
    <3>1. PICK k \in 1..Len(pending) : s = f[k]
      BY <1>6, <1>8, <2>2
    <3> QED BY <1>1, <1>5, <1>11, <3>1
  <2> QED BY <1>15, <2>1, <2>2
<1>17. ASSUME NEW i \in DOMAIN now, now[i].setup # "NONE", ~ DoneBy(now, i)
       PROVE  \E s \in ToSet(pending') : FollowsUp(s, now, i)
  <2>1. CASE i \in 1..Len(processed)
    <3>1. ~ DoneBy(processed, i)
      BY <1>1, <1>3, <1>17, <2>1, DoneEntersNoMore
    <3>2. PICK s \in ToSet(pending) : FollowsUp(s, processed, i)
      BY <1>1, <1>11, <1>17, <2>1, <3>1 DEF PendingInv
    <3>3. PICK k \in 1..Len(pending) : s = pending[k]
      BY <1>1, <3>2, LenProperties DEF ToSet, TypeInv
    <3>4. PICK j \in 1..Len(processed) :
             FollowsUp(pending[k], processed, j) /\ FollowsUp(f[k], now, j)
      BY <1>5
    <3>5. processed[i].place = processed[j].place
      BY <3>2, <3>3, <3>4 DEF FollowsUp
    <3>6. i = j
      <4>1. ~ (i < j) /\ ~ (j < i)
        <5>1. processed[i].place \in Nat
          BY <1>11, <2>1 DEF PlacedBar
        <5> QED BY <1>1, <2>1, <3>4, <3>5, <5>1 DEF ChartInv
      <4> QED BY <1>1, <2>1, <3>4, <4>1
    <3>7. FollowsUp(f[k], now, i)
      BY <3>4, <3>6
    <3>8. ~ Completed(f[k])
      BY <1>17, <3>7, CompletedIsDone
    <3>9. f[k] \in ToSet(pending')
      BY <1>7, <1>8, <1>15, <3>8
    <3> QED BY <3>7, <3>9
  <2>2. CASE i \notin 1..Len(processed)
    <3>1. i = Len(now)
      BY <1>1, <1>11, <2>2
    <3>2. closed.setup # "NONE" /\ Len(new) = 1
      BY <1>1, <1>10, <1>11, <1>17, <3>1
    <3>3. new[1] \in ToSet(new)
      BY <1>10, <3>2 DEF ToSet
    <3> QED BY <1>14, <1>15, <3>1, <3>3
  <2> QED BY <2>1, <2>2
<1>18. ASSUME NEW k \in DOMAIN pending', NEW l \in DOMAIN pending',
              pending'[k].setup = pending'[l].setup
       PROVE  k = l
  <2> DEFINE r == kept \o new
  <2>1. /\ Len(kept) \in Nat /\ Len(new) \in Nat /\ DOMAIN r = 1..Len(r)
        /\ \A x \in 1..Len(kept) : r[x] = kept[x]
        /\ \A x \in 1..Len(r) : x \in 1..Len(kept) \/ (x - Len(kept) \in 1..Len(new)
                                                       /\ x = Len(kept) + (x - Len(kept)))
        /\ \A x \in 1..Len(new) : r[Len(kept) + x] = new[x]
        /\ Len(r) \in Nat
    BY <1>8, <1>10, ConcatElements, LenProperties
  <2>2. r = pending'
    BY <1>2
  <2> HIDE DEF r
  <2>3. ASSUME NEW x \in 1..Len(kept)
        PROVE  r[x] = f[b[x]] /\ b[x] \in 1..Len(pending)
               /\ \E i \in 1..Len(processed) : r[x].setup = processed[i].place
    <3>1. r[x] = f[b[x]] /\ b[x] \in 1..Len(pending)
      BY <1>6, <1>9, <2>1 DEF Picks
    <3>2. PICK i \in 1..Len(processed) :
             FollowsUp(pending[b[x]], processed, i) /\ f[b[x]].setup = pending[b[x]].setup
      BY <1>5, <3>1
    <3> QED BY <3>1, <3>2 DEF FollowsUp
  <2>4. ASSUME NEW x \in 1..Len(r), x \notin 1..Len(kept)
        PROVE  r[x].setup = closed.place /\ x = Len(kept) + 1
    <3>1. x - Len(kept) \in 1..Len(new) /\ r[x] = new[x - Len(kept)]
      BY <2>1, <2>4
    <3>2. r[x] \in ToSet(new)
      BY <1>10, <3>1 DEF ToSet
    <3>3. Len(new) \in {0, 1}
      BY <1>10
    <3> QED BY <1>10, <2>1, <3>1, <3>2, <3>3
  <2>5. CASE k \in 1..Len(kept) /\ l \in 1..Len(kept)
    <3>1. b[k] = b[l]
      <4>1. b[k] \in 1..Len(pending) /\ b[l] \in 1..Len(pending)
            /\ f[b[k]].setup = f[b[l]].setup
        BY <1>18, <2>2, <2>3, <2>5
      <4> QED BY <1>5, <4>1
    <3> QED BY <1>9, <2>5, <3>1 DEF Picks
  <2>6. CASE k \notin 1..Len(kept) /\ l \notin 1..Len(kept)
    BY <1>18, <2>1, <2>2, <2>4, <2>6
  <2>7. CASE k \in 1..Len(kept) /\ l \notin 1..Len(kept)
    BY <1>13, <1>18, <2>1, <2>2, <2>3, <2>4, <2>7
  <2>8. CASE k \notin 1..Len(kept) /\ l \in 1..Len(kept)
    BY <1>13, <1>18, <2>1, <2>2, <2>3, <2>4, <2>8
  <2> QED BY <2>5, <2>6, <2>7, <2>8
<1>19. \A s, i : FollowsUp(s, processed, i)' <=> FollowsUp(s, now, i)
  BY <1>2 DEF FollowsUp, Offsets, ConfirmedIn
<1>20. \A i : DoneBy(processed, i)' <=> DoneBy(now, i)
  BY <1>2 DEF DoneBy, Completed, Offsets, ConfirmedIn
<1> QED
  BY <1>2, <1>16, <1>17, <1>18, <1>19, <1>20 DEF PendingInv

-----------------------------------------------------------------------------
(* The trades that enter are those that are due.                           *)

\* What one more bar makes due, and when the rest was.
LEMMA DueGrows ==
    ASSUME NEW bars, NEW now, NEW bar, Extends(now, bars, bar),
           \A i \in 1..Len(bars) : bars[i].place # bar.place
    PROVE  /\ DueSet(now) = DueSet(bars) \cup NewDue(now)
           /\ DueSet(bars) \cap NewDue(now) = {}
<1>1. /\ Len(bars) \in Nat /\ Len(now) = Len(bars) + 1 /\ Len(now) \in DOMAIN now
      /\ DOMAIN bars = 1..Len(bars) /\ DOMAIN now = 1..(Len(bars) + 1)
      /\ now[Len(bars) + 1] = bar /\ \A i \in 1..Len(bars) : now[i] = bars[i]
  BY DEF Extends
<1>2. \A i, j \in 1..Len(bars) : \A v : DueTerms(now, i, v, j) = DueTerms(bars, i, v, j)
  BY <1>1 DEF DueTerms
<1>3. \A i, j, v : Enters(now, i, v, j) =>
         i \in DOMAIN now /\ j \in DOMAIN now /\ v \in VariantsOf(kind)
         /\ (j \in 1..Len(bars) => i \in 1..Len(bars))
  <2> SUFFICES ASSUME NEW i, NEW j, NEW v, Enters(now, i, v, j)
               PROVE  i \in DOMAIN now /\ j \in DOMAIN now /\ v \in VariantsOf(kind)
                      /\ (j \in 1..Len(bars) => i \in 1..Len(bars))
    OBVIOUS
  <2>1. i \in DOMAIN now /\ v \in VariantsOf(kind) /\ j \in EntryBarsIn(now, i, v)
    BY DEF Enters
  <2>2. CASE v = "WAIT_TRIGGER"
    <3>1. j \in DOMAIN now /\ i < j
      BY <2>1, <2>2 DEF EntryBarsIn, TriggersIn
    <3> QED BY <1>1, <2>1, <3>1
  <2>3. CASE v # "WAIT_TRIGGER"
    <3>1. j \in DOMAIN now /\ j = i + IndexOf(v)
      BY <2>1, <2>3 DEF EntryBarsIn
    <3>2. IndexOf(v) \in 0..3
      BY <2>1, <2>3, IndexIsWhole DEF VariantsOf, Variants
    <3> QED BY <1>1, <2>1, <3>1, <3>2
  <2> QED BY <2>2, <2>3
<1>4. \A i, j \in 1..Len(bars) : \A v \in VariantsOf(kind) :
         Enters(now, i, v, j) <=> Enters(bars, i, v, j)
  BY EntersBefore
<1>5. DueSet(bars) \subseteq DueSet(now)
  <2> SUFFICES ASSUME NEW d \in DueSet(bars) PROVE d \in DueSet(now)
    OBVIOUS
  <2>1. PICK i \in DOMAIN bars, v \in VariantsOf(kind), j \in DOMAIN bars :
           Enters(bars, i, v, j) /\ d = DueTerms(bars, i, v, j)
    BY DEF DueSet
  <2>2. /\ i \in DOMAIN now /\ j \in DOMAIN now /\ Enters(now, i, v, j)
        /\ d = DueTerms(now, i, v, j)
    BY <1>1, <1>2, <1>4, <2>1
  <2>3. <<i, v, j>> \in (DOMAIN now) \X VariantsOf(kind) \X (DOMAIN now)
    BY <2>2
  <2> QED BY <2>2, <2>3 DEF DueSet
<1>6. NewDue(now) \subseteq DueSet(now)
  <2> SUFFICES ASSUME NEW d \in NewDue(now) PROVE d \in DueSet(now)
    OBVIOUS
  <2>1. PICK i \in DOMAIN now, v \in VariantsOf(kind) :
           Enters(now, i, v, Len(now)) /\ d = DueTerms(now, i, v, Len(now))
    BY DEF NewDue
  <2>2. <<i, v, Len(now)>> \in (DOMAIN now) \X VariantsOf(kind) \X (DOMAIN now)
    BY <1>1
  <2> QED BY <2>1, <2>2 DEF DueSet
<1>7. DueSet(now) \subseteq DueSet(bars) \cup NewDue(now)
  <2> SUFFICES ASSUME NEW d \in DueSet(now) PROVE d \in DueSet(bars) \cup NewDue(now)
    OBVIOUS
  <2>1. PICK i \in DOMAIN now, v \in VariantsOf(kind), j \in DOMAIN now :
           Enters(now, i, v, j) /\ d = DueTerms(now, i, v, j)
    BY DEF DueSet
  <2>2. CASE j \in 1..Len(bars)
    <3>1. i \in 1..Len(bars) /\ Enters(bars, i, v, j) /\ d = DueTerms(bars, i, v, j)
      BY <1>2, <1>3, <1>4, <2>1, <2>2
    <3>2. <<i, v, j>> \in (DOMAIN bars) \X VariantsOf(kind) \X (DOMAIN bars)
      BY <1>1, <2>2, <3>1
    <3> QED BY <3>1, <3>2 DEF DueSet
  <2>3. CASE j \notin 1..Len(bars)
    <3>1. j = Len(now)
      BY <1>1, <2>3
    <3>2. <<i, v>> \in (DOMAIN now) \X VariantsOf(kind)
      OBVIOUS
    <3> QED BY <2>1, <3>1, <3>2 DEF NewDue
  <2> QED BY <2>2, <2>3
<1>8. \A d \in DueSet(bars) : d.entered # bar.place
  <2> SUFFICES ASSUME NEW d \in DueSet(bars) PROVE d.entered # bar.place
    OBVIOUS
  <2>1. PICK i \in DOMAIN bars, v \in VariantsOf(kind), j \in DOMAIN bars :
           d = DueTerms(bars, i, v, j)
    BY <1>1 DEF DueSet
  <2> QED BY <1>1, <2>1 DEF DueTerms
<1>9. \A d \in NewDue(now) : d.entered = bar.place
  BY <1>1 DEF NewDue, DueTerms
<1> QED
  BY <1>5, <1>6, <1>7, <1>8, <1>9

LEMMA EntryTerms ==
    ASSUME NEW s, NEW now, NEW i, FollowsUp(s, now, i), NEW v
    PROVE  TermsOf(Entry(s.setup, v, s.direction, now[Len(now)], s.elapsed))
             = DueTerms(now, i, v, Len(now))
BY DEF FollowsUp, TermsOf, Entry, DueTerms

\* The entries of a new bar are what it makes due, each once.
LEMMA EntriesAreDue ==
    ASSUME IInv, PendingInv, NEW now, Extends(now, processed, closed),
           \A i \in 1..Len(processed) : processed[i].place # closed.place
    PROVE  LET entries == Entries(AdvancedAll(closed), closed)
               now2 == (IF Registered(closed) THEN entries ELSE <<>>) \o Immediate(closed)
           IN  now2 \in Seq(Trade) /\ Terms(now2) = NewDue(now) /\ Distinct(now2)
<1> DEFINE f == AdvancedAll(closed)
           r == Entries(f, closed)
           g == EntriesOf(f, closed)
           one == Immediate(closed)
           registered == IF Registered(closed) THEN r ELSE <<>>
<1>1. /\ TypeInv /\ Waiting /\ kind \in Kinds /\ closed \in PlacedBar /\ Sound(closed)
      /\ Len(processed) \in Nat
  BY LenProperties DEF IInv, TypeInv, ChartInv
<1>2. /\ f \in Seq(PendingSetup) /\ Len(f) = Len(pending)
      /\ \A k \in 1..Len(f) : f[k] \in PendingSetup /\ Due(f[k]) \in Seq(Variants)
  BY <1>1, AdvancedSetups, ElementOfSeq
<1>3. /\ \A k \in 1..Len(f) : \E i \in 1..Len(processed) :
            /\ FollowsUp(f[k], now, i) /\ FollowsUp(pending[k], processed, i)
            /\ f[k].elapsed >= 1 /\ (kind = "breakout" => f[k].elapsed <= 3)
      /\ \A k, l \in 1..Len(f) : f[k].setup = f[l].setup => k = l
  BY <1>2, AdvancedPending
<1>4. /\ DOMAIN processed = 1..Len(processed) /\ Len(now) = Len(processed) + 1
      /\ DOMAIN now = 1..(Len(processed) + 1) /\ now \in Seq(PlacedBar)
      /\ now[Len(now)] = closed /\ Len(now) \in DOMAIN now
      /\ \A i \in 1..Len(processed) : now[i] = processed[i] /\ processed[i] \in PlacedBar
  BY DEF Extends
<1> HIDE DEF f
<1>5. /\ r \in Seq(Trade) /\ Len(g) = Len(f)
      /\ \A k \in 1..Len(f) :
            /\ Len(g[k]) = Len(Due(f[k]))
            /\ \A i \in 1..Len(Due(f[k])) :
                  /\ Due(f[k])[i] \in Variants
                  /\ g[k][i] = Entry(f[k].setup, Due(f[k])[i], f[k].direction, closed,
                                     f[k].elapsed)
  BY <1>1, <1>2, EntryPlaces
<1>6. PICK b : Flattens(b, r, g, Places(g, Len(f)))
  BY <1>1, <1>2, EntryPlaces
<1> HIDE DEF g, r
\* What each place is due to.
<1>7. ASSUME NEW k \in 1..Len(f)
      PROVE  \E i \in 1..Len(processed) :
                /\ FollowsUp(f[k], now, i) /\ FollowsUp(pending[k], processed, i)
                /\ ToSet(Due(f[k])) \subseteq VariantsOf(kind) \ {"IMMEDIATE"}
                /\ \A x, y \in 1..Len(Due(f[k])) : Due(f[k])[x] = Due(f[k])[y] => x = y
                /\ \A v \in VariantsOf(kind) :
                      v \in ToSet(Due(f[k])) <=> Len(now) \in EntryBarsIn(now, i, v)
  <2>1. PICK i \in 1..Len(processed) :
           /\ FollowsUp(f[k], now, i) /\ FollowsUp(pending[k], processed, i)
           /\ f[k].elapsed >= 1 /\ (kind = "breakout" => f[k].elapsed <= 3)
    BY <1>3
  <2> DEFINE s == f[k]
  <2>2. s \in PendingSetup /\ FollowsUp(s, now, i) /\ (kind = "breakout" => s.elapsed <= 3)
        /\ i \in 1..(Len(now) - 1)
    BY <1>1, <1>2, <1>4, <2>1
  <2> HIDE DEF s
  <2>3. /\ ToSet(Due(s)) \subseteq VariantsOf(kind) \ {"IMMEDIATE"}
        /\ \A x, y \in 1..Len(Due(s)) : Due(s)[x] = Due(s)[y] => x = y
        /\ \A v \in VariantsOf(kind) :
              v \in ToSet(Due(s)) <=> Len(now) \in EntryBarsIn(now, i, v)
    BY <1>1, <1>4, <2>2, DueEnters
  <2> QED BY <2>1, <2>3 DEF s
<1> DEFINE IsAt(x, k, j, i, v) ==
             /\ k \in 1..Len(f) /\ j \in 1..Len(Due(f[k])) /\ i \in 1..Len(processed)
             /\ v = Due(f[k])[j]
             /\ b[x] = <<k, j>> /\ FollowsUp(f[k], now, i)
             /\ v \in VariantsOf(kind) /\ v # "IMMEDIATE"
             /\ TermsOf(r[x]) = DueTerms(now, i, v, Len(now))
             /\ Len(now) \in EntryBarsIn(now, i, v)
<1>8. ASSUME NEW x \in 1..Len(r)
      PROVE  \E k, j, i, v : IsAt(x, k, j, i, v)
  <2>1. PICK k \in 1..Len(f), j \in Nat : b[x] = <<k, j>> /\ j \in 1..Len(g[k]) /\ r[x] = g[k][j]
    BY <1>6 DEF Flattens, Places
  <2>2. /\ j \in 1..Len(Due(f[k]))
        /\ r[x] = Entry(f[k].setup, Due(f[k])[j], f[k].direction, closed, f[k].elapsed)
    BY <1>5, <2>1
  <2>3. PICK i \in 1..Len(processed) :
           /\ FollowsUp(f[k], now, i)
           /\ ToSet(Due(f[k])) \subseteq VariantsOf(kind) \ {"IMMEDIATE"}
           /\ \A v \in VariantsOf(kind) :
                 v \in ToSet(Due(f[k])) <=> Len(now) \in EntryBarsIn(now, i, v)
    BY <1>7
  <2>4. Due(f[k])[j] \in ToSet(Due(f[k]))
    <3>1. DOMAIN Due(f[k]) = 1..Len(Due(f[k]))
      BY <1>2, LenProperties
    <3> QED BY <2>2, <3>1 DEF ToSet
  <2>5. TermsOf(r[x]) = DueTerms(now, i, Due(f[k])[j], Len(now))
    <3> DEFINE s == f[k]
               v == Due(f[k])[j]
    <3>1. FollowsUp(s, now, i) /\ r[x] = Entry(s.setup, v, s.direction, now[Len(now)], s.elapsed)
      BY <1>4, <2>2, <2>3
    <3> HIDE DEF s, v
    <3>2. TermsOf(r[x]) = DueTerms(now, i, v, Len(now))
      BY <3>1, EntryTerms
    <3> QED BY <3>2 DEF v
  <2> QED BY <2>1, <2>2, <2>3, <2>4, <2>5
<1> HIDE DEF IsAt
<1>9. DOMAIN r = 1..Len(r)
  BY <1>5, LenProperties
<1>10. Distinct(r)
  <2> SUFFICES ASSUME NEW x \in 1..Len(r), NEW y \in 1..Len(r), TermsOf(r[x]) = TermsOf(r[y])
               PROVE  x = y
    BY <1>9 DEF Distinct
  <2>8. PICK k, j, i, v : IsAt(x, k, j, i, v)
    BY <1>8
  <2>9. PICK l, m, h, w : IsAt(y, l, m, h, w)
    BY <1>8
  <2>1. /\ k \in 1..Len(f) /\ j \in 1..Len(Due(f[k])) /\ v = Due(f[k])[j]
        /\ b[x] = <<k, j>> /\ FollowsUp(f[k], now, i)
        /\ TermsOf(r[x]) = DueTerms(now, i, v, Len(now))
    BY <2>8 DEF IsAt
  <2>2. /\ l \in 1..Len(f) /\ m \in 1..Len(Due(f[l])) /\ w = Due(f[l])[m]
        /\ b[y] = <<l, m>> /\ FollowsUp(f[l], now, h)
        /\ TermsOf(r[y]) = DueTerms(now, h, w, Len(now))
    BY <2>9 DEF IsAt
  <2>3. now[i].place = now[h].place /\ v = w
    <3>1. DueTerms(now, i, v, Len(now)) = DueTerms(now, h, w, Len(now))
      BY <2>1, <2>2
    <3> QED BY <3>1 DEF DueTerms
  <2>4. f[k].setup = f[l].setup
    BY <2>1, <2>2, <2>3 DEF FollowsUp
  <2>5. k = l
    BY <1>3, <2>1, <2>2, <2>4
  <2>6. j = m
    BY <1>7, <2>1, <2>2, <2>3, <2>5
  <2>7. b[x] = b[y]
    BY <2>1, <2>2, <2>5, <2>6
  <2> QED BY <1>6, <2>7 DEF Flattens
<1>11. /\ one \in Seq(Trade)
       /\ \A t \in ToSet(one) :
             closed.setup # "NONE" /\ t = Entry(closed.place, "IMMEDIATE", closed.setup, closed, 0)
       /\ Len(one) = (IF closed.setup = "NONE" THEN 0 ELSE 1) /\ DOMAIN one = 1..Len(one)
  BY <1>1, DetectedSetup, LenProperties
<1> HIDE DEF one
<1>12. TermsOf(Entry(closed.place, "IMMEDIATE", closed.setup, closed, 0))
         = DueTerms(now, Len(now), "IMMEDIATE", Len(now))
  BY <1>1, <1>4 DEF TermsOf, Entry, DueTerms
<1>13. Distinct(one) /\ Terms(one) = IF closed.setup = "NONE" THEN {}
                                     ELSE {DueTerms(now, Len(now), "IMMEDIATE", Len(now))}
  <2>1. CASE closed.setup = "NONE"
    BY <1>11, <2>1 DEF Distinct, Terms
  <2>2. CASE closed.setup # "NONE"
    <3>1. DOMAIN one = {1} /\ ToSet(one) = {one[1]}
      BY <1>11, <2>2 DEF ToSet
    <3>2. TermsOf(one[1]) = DueTerms(now, Len(now), "IMMEDIATE", Len(now))
      BY <1>11, <1>12, <3>1
    <3> QED BY <2>2, <3>1, <3>2 DEF Distinct, Terms
  <2> QED BY <2>1, <2>2
<1>14. registered \in Seq(Trade) /\ Distinct(registered)
  <2>1. CASE Registered(closed)
    BY <1>5, <1>10, <2>1
  <2>2. CASE ~ Registered(closed)
    BY <2>2 DEF Distinct
  <2> QED BY <2>1, <2>2
<1>15. Terms(registered) = IF closed.atr > 0 THEN {TermsOf(r[x]) : x \in 1..Len(r)} ELSE {}
  <2>1. CASE closed.atr > 0
    BY <1>9, <2>1 DEF Terms, ToSet, Registered
  <2>2. CASE ~ (closed.atr > 0)
    BY <2>2 DEF Terms, ToSet, Registered
  <2> QED BY <2>1, <2>2
<1> HIDE DEF registered
<1>16. Terms(registered) \cap Terms(one) = {}
  <2> SUFFICES ASSUME NEW x \in 1..Len(r), closed.setup # "NONE",
                      TermsOf(r[x]) = DueTerms(now, Len(now), "IMMEDIATE", Len(now))
               PROVE  FALSE
    BY <1>13, <1>15
  <2>1. PICK k, j, i, v : IsAt(x, k, j, i, v)
    BY <1>8
  <2>2. v # "IMMEDIATE" /\ TermsOf(r[x]) = DueTerms(now, i, v, Len(now))
    BY <2>1 DEF IsAt
  <2> QED BY <2>2 DEF DueTerms
<1>17. NewDue(now) \subseteq Terms(registered) \cup Terms(one)
  <2> SUFFICES ASSUME NEW d \in NewDue(now) PROVE d \in Terms(registered) \cup Terms(one)
    OBVIOUS
  <2>1. PICK i \in DOMAIN now, v \in VariantsOf(kind) :
           Enters(now, i, v, Len(now)) /\ d = DueTerms(now, i, v, Len(now))
    BY DEF NewDue
  <2>2. /\ now[i].setup # "NONE" /\ Len(now) \in EntryBarsIn(now, i, v) /\ closed.atr > 0
    BY <1>4, <2>1 DEF Enters
  <2>3. CASE i = Len(now)
    <3>1. v = "IMMEDIATE" /\ closed.setup # "NONE"
      BY <1>1, <2>1, <2>3, EntersAtOnce
    <3> QED BY <1>13, <2>1, <2>3, <3>1
  <2>4. CASE i # Len(now)
    <3>1. i \in 1..Len(processed)
      BY <1>1, <1>4, <2>4
    <3>2. ~ DoneBy(processed, i)
      BY <1>1, <2>2, <3>1, DoneEntersNoMore
    <3>3. PICK s \in ToSet(pending) : FollowsUp(s, processed, i)
      BY <1>4, <2>2, <3>1, <3>2 DEF PendingInv
    <3>4. PICK k \in 1..Len(f) : s = pending[k]
      BY <1>1, <1>2, <3>3, LenProperties DEF ToSet, TypeInv
    <3>5. PICK h \in 1..Len(processed) :
             /\ FollowsUp(f[k], now, h) /\ FollowsUp(pending[k], processed, h)
             /\ \A w \in VariantsOf(kind) :
                   w \in ToSet(Due(f[k])) <=> Len(now) \in EntryBarsIn(now, h, w)
      BY <1>7
    <3>6. h = i
      <4>1. processed[i].place = processed[h].place
        BY <3>3, <3>4, <3>5 DEF FollowsUp
      <4>2. processed[i].place \in Nat
        BY <1>4, <3>1 DEF PlacedBar
      <4>3. ~ (i < h) /\ ~ (h < i)
        BY <1>4, <3>1, <4>1, <4>2 DEF IInv, ChartInv
      <4> QED BY <1>1, <3>1, <4>3
    <3>7. v \in ToSet(Due(f[k]))
      BY <2>1, <2>2, <3>5, <3>6
    <3>8. PICK j \in 1..Len(Due(f[k])) : v = Due(f[k])[j]
      BY <1>2, <3>7, LenProperties DEF ToSet
    <3>9. <<k, j>> \in Places(g, Len(f))
      BY <1>5, <3>8 DEF Places
    <3>10. PICK x \in 1..Len(r) : b[x] = <<k, j>> /\ r[x] = g[k][j]
      BY <1>6, <3>9 DEF Flattens
    <3>11. r[x] = Entry(f[k].setup, v, f[k].direction, closed, f[k].elapsed)
      BY <1>5, <3>8, <3>10
    <3>12. TermsOf(r[x]) = DueTerms(now, i, v, Len(now))
      BY <1>4, <3>5, <3>6, <3>11, EntryTerms
    <3> QED BY <1>15, <2>1, <2>2, <3>12
  <2> QED BY <2>3, <2>4
<1>18. Terms(registered) \subseteq NewDue(now)
  <2> SUFFICES ASSUME closed.atr > 0, NEW x \in 1..Len(r) PROVE TermsOf(r[x]) \in NewDue(now)
    BY <1>15
  <2>8. PICK k, j, i, v : IsAt(x, k, j, i, v)
    BY <1>8
  <2>1. /\ v \in VariantsOf(kind) /\ i \in 1..Len(processed) /\ k \in 1..Len(f)
        /\ TermsOf(r[x]) = DueTerms(now, i, v, Len(now)) /\ FollowsUp(f[k], now, i)
        /\ Len(now) \in EntryBarsIn(now, i, v)
    BY <2>8 DEF IsAt
  <2>2. Enters(now, i, v, Len(now))
    BY <1>4, <2>1 DEF Enters, FollowsUp
  <2>3. <<i, v>> \in (DOMAIN now) \X VariantsOf(kind)
    BY <1>1, <1>4, <2>1
  <2> QED BY <2>1, <2>2, <2>3 DEF NewDue
<1>19. Terms(one) \subseteq NewDue(now)
  <2> SUFFICES ASSUME closed.setup # "NONE"
               PROVE  DueTerms(now, Len(now), "IMMEDIATE", Len(now)) \in NewDue(now)
    BY <1>13
  <2>1. "IMMEDIATE" \in VariantsOf(kind) /\ closed.atr > 0
    BY <1>1 DEF VariantsOf, Sound
  <2>2. Enters(now, Len(now), "IMMEDIATE", Len(now))
    BY <1>1, <2>1, EntersAtOnce
  <2>3. <<Len(now), "IMMEDIATE">> \in (DOMAIN now) \X VariantsOf(kind)
    BY <1>4, <2>1
  <2> QED BY <2>2, <2>3 DEF NewDue
<1> DEFINE all == registered \o one
<1>20. /\ all \in Seq(Trade) /\ Terms(all) = Terms(registered) \cup Terms(one)
       /\ Distinct(all)
  BY <1>11, <1>13, <1>14, <1>16, ConcatTerms, ConcatElements
<1>21. all \in Seq(Trade) /\ Terms(all) = NewDue(now) /\ Distinct(all)
  <2> HIDE DEF all
  <2> QED BY <1>17, <1>18, <1>19, <1>20
<1> QED
  BY <1>21 DEF registered, one, r, f

\* The terms of the trades that a tick monitors are those of the open ones.
LEMMA TickTerms ==
    ASSUME IInv, EnteredInv, NEW bid \in Prices
    PROVE  LET open == Open(MonitoredAll(bid))
               ended == Ended(MonitoredAll(bid))
           IN  /\ open \in Seq(Trade) /\ ended \in Seq(Trade)
               /\ Terms(open) \cup Terms(ended) = Terms(active)
               /\ Terms(open) \cap Terms(ended) = {}
               /\ Distinct(open) /\ Distinct(ended)
               /\ \A t \in ToSet(ended) : t.stop > 0 /\ RUnit % t.stop = 0
<1>1. TypeInv /\ OutcomeInv /\ active \in Seq(Trade)
  BY DEF IInv, TypeInv
<1> DEFINE m == MonitoredAll(bid)
<1>2. /\ m \in Seq(Trade) /\ Len(m) = Len(active)
      /\ \A k \in 1..Len(active) : SameTerms(m[k], active[k])
  BY <1>1, MonitoredTrades
<1>3. /\ Open(m) \in Seq(Trade) /\ Ended(m) \in Seq(Trade)
      /\ \A t \in ToSet(Ended(m)) : t.stop > 0 /\ RUnit % t.stop = 0
  BY <1>1, TickOutcome
<1> HIDE DEF m
<1>4. Terms(m) = Terms(active) /\ Distinct(m)
  BY <1>1, <1>2, MapTerms, SameTermsOf DEF EnteredInv
<1>5. /\ Terms(Open(m)) \cup Terms(Ended(m)) = Terms(m)
      /\ Terms(Open(m)) \cap Terms(Ended(m)) = {}
      /\ Distinct(Open(m)) /\ Distinct(Ended(m))
  BY <1>2, <1>4, OpenAndEndedTerms
<1> QED
  BY <1>3, <1>4, <1>5 DEF m

\* The invariant of the next state, said of its values.
LEMMA EnteredNext ==
    ASSUME kind' = kind, restarts' = restarts,
           NEW trades, trades = active', NEW events, events = log', NEW now, now = processed',
           Terms(trades) \cup LogTerms(events) = DueSet(now),
           Distinct(trades), LogDistinct(events), Terms(trades) \cap LogTerms(events) = {}
    PROVE  EnteredInv'
<1>1. DueSet(processed)' = DueSet(now)
  BY DEF DueSet, Enters, EntryBarsIn, TriggersIn, ConfirmedIn
<1>2. LogTerms(log)' = LogTerms(events) /\ (LogDistinct(log)' <=> LogDistinct(events))
  BY DEF LogTerms, LogDistinct, ThisStart
<1>3. Terms(active)' = Terms(trades) /\ (Distinct(active)' <=> Distinct(trades))
  BY DEF Terms, Distinct
<1> QED
  BY <1>1, <1>2, <1>3 DEF EnteredInv

LEMMA EnteredTick ==
    ASSUME IInv, EnteredInv, NEW bid \in Prices, Tick(bid) \/ TickWithoutData(bid)
    PROVE  EnteredInv'
<1> DEFINE open == Open(MonitoredAll(bid))
           ended == Ended(MonitoredAll(bid))
           events == log \o TradeEvents(ended)
<1>1. /\ active' = open /\ log' = events /\ processed' = processed
      /\ kind' = kind /\ restarts' = restarts
  BY DEF Tick, TickWithoutData, MonitoredAll
<1>2. /\ open \in Seq(Trade) /\ ended \in Seq(Trade)
      /\ Terms(open) \cup Terms(ended) = Terms(active)
      /\ Terms(open) \cap Terms(ended) = {}
      /\ Distinct(open) /\ Distinct(ended)
      /\ \A t \in ToSet(ended) : t.stop > 0 /\ RUnit % t.stop = 0
  BY TickTerms
<1> HIDE DEF open, ended
<1>3. /\ log \in Seq(Event) /\ restarts \in Nat
      /\ Terms(active) \cup LogTerms(log) = DueSet(processed)
      /\ LogDistinct(log) /\ Terms(active) \cap LogTerms(log) = {}
  BY DEF IInv, TypeInv, EnteredInv
<1>4. LogTerms(events) = LogTerms(log) \cup Terms(ended) /\ LogDistinct(events)
  BY <1>2, <1>3, LogTermsGrow
<1> HIDE DEF events
<1>5. /\ Terms(open) \cup LogTerms(events) = DueSet(processed)
      /\ Terms(open) \cap LogTerms(events) = {}
  BY <1>2, <1>3, <1>4
<1> QED
  BY <1>1, <1>2, <1>4, <1>5, EnteredNext

LEMMA EnteredNewBar ==
    ASSUME IInv, PendingInv, EnteredInv, NEW bid \in Prices, TickOfNewBar(bid)
    PROVE  EnteredInv'
<1> DEFINE open == Open(MonitoredAll(bid))
           ended == Ended(MonitoredAll(bid))
           aged == AgedAll(open, closed)
           entries == Entries(AdvancedAll(closed), closed)
           registered == IF Registered(closed) THEN entries ELSE <<>>
           new == registered \o Immediate(closed)
           setups == SetupEvents(Those(AdvancedAll(closed), Completed))
           ends == ended \o Ended(aged)
           before == log \o setups
           events == before \o TradeEvents(ends)
           now == Append(processed, closed)
           trades == Open(aged) \o new
<1>1. /\ TypeInv /\ ChartInv /\ OutcomeInv /\ Waiting
      /\ closed \in PlacedBar /\ Sound(closed) /\ restarts \in Nat /\ log \in Seq(Event)
      /\ processed \in Seq(PlacedBar) /\ chart \in Nat /\ last \in Nat
      /\ Terms(active) \cup LogTerms(log) = DueSet(processed)
      /\ LogDistinct(log) /\ Terms(active) \cap LogTerms(log) = {}
  BY DEF IInv, TypeInv, ChartInv, EnteredInv
<1>2. /\ last # chart /\ processed' = now
      /\ active' = Open(aged) \o registered \o Immediate(closed)
      /\ log' = log \o setups \o TradeEvents(ended \o Ended(aged))
      /\ kind' = kind /\ restarts' = restarts
  BY DEF TickOfNewBar, MonitoredAll, AgedAll, AdvancedAll
<1>3. /\ open \in Seq(Trade) /\ ended \in Seq(Trade)
      /\ Terms(open) \cup Terms(ended) = Terms(active)
      /\ Terms(open) \cap Terms(ended) = {}
      /\ Distinct(open) /\ Distinct(ended)
      /\ \A t \in ToSet(ended) : t.stop > 0 /\ RUnit % t.stop = 0
  BY TickTerms
<1>4. \A t \in ToSet(open) : Running(t) /\ HeldSince(t, processed)
  BY <1>1, TickOutcome
<1> HIDE DEF open, ended
<1>5. /\ aged \in Seq(Trade) /\ Len(aged) = Len(open)
      /\ \A k \in 1..Len(open) : SameTerms(aged[k], open[k])
  <2>1. /\ aged \in Seq(Trade) /\ Len(aged) = Len(open)
        /\ \A k \in 1..Len(open) : /\ open[k] \in ToSet(open) /\ open[k] \in Trade
                                   /\ aged[k] = Aged(open[k], closed)
    BY <1>1, <1>3, <1>4, AgedTrades
  <2>2. \A t \in Trade : Running(t) => SameTerms(Aged(t, closed), t)
    BY <1>1, AgedTrade
  <2> QED BY <1>4, <2>1, <2>2
<1>6. \A t \in ToSet(Ended(aged)) : t.stop > 0 /\ RUnit % t.stop = 0
  BY <1>1, <1>3, <1>4, AgeOutcome
<1> HIDE DEF aged
<1>7. Terms(aged) = Terms(open) /\ Distinct(aged)
  BY <1>3, <1>5, MapTerms, SameTermsOf
<1>8. /\ Open(aged) \in Seq(Trade) /\ Ended(aged) \in Seq(Trade)
      /\ Terms(Open(aged)) \cup Terms(Ended(aged)) = Terms(open)
      /\ Terms(Open(aged)) \cap Terms(Ended(aged)) = {}
      /\ Distinct(Open(aged)) /\ Distinct(Ended(aged))
  BY <1>5, <1>7, OpenAndEnded, OpenAndEndedTerms
<1>9. Extends(now, processed, closed)
  BY <1>1, AppendExtends
<1>10. \A i \in 1..Len(processed) : processed[i].place # closed.place
  <2>1. closed.place = chart - 1 /\ last <= chart - 1
    BY <1>1, <1>2 DEF ChartInv
  <2>2. \A i \in 1..Len(processed) : processed[i].place < last /\ processed[i].place \in Nat
    BY <1>1, <1>9 DEF ChartInv, PlacedBar, Extends
  <2> QED BY <1>1, <2>1, <2>2
<1> HIDE DEF now
<1>11. new \in Seq(Trade) /\ Terms(new) = NewDue(now) /\ Distinct(new)
  BY <1>9, <1>10, EntriesAreDue
<1>12. /\ DueSet(now) = DueSet(processed) \cup NewDue(now)
       /\ DueSet(processed) \cap NewDue(now) = {}
  BY <1>9, <1>10, DueGrows
<1>13. setups \in Seq(Event) /\ \A e \in ToSet(setups) : e.type = "SETUP"
  BY NewBarKinds
<1>14. entries \in Seq(Trade) /\ Immediate(closed) \in Seq(Trade)
  BY <1>1, NewBarKinds, DetectedSetup
<1> HIDE DEF entries
<1>15. registered \in Seq(Trade)
  BY <1>14
<1> HIDE DEF registered, setups
<1>16. active' = trades
  <2>1. Open(aged) \o registered \o Immediate(closed) = Open(aged) \o (registered \o Immediate(closed))
    <3> DEFINE a == Open(aged)
               i == Immediate(closed)
    <3>1. a \in Seq(Trade) /\ registered \in Seq(Trade) /\ i \in Seq(Trade)
      BY <1>8, <1>14, <1>15
    <3> HIDE DEF a, i
    <3>2. (a \o registered) \o i = a \o (registered \o i)
      BY <3>1, ConcatAssociative
    <3> QED BY <3>2 DEF a, i
  <2> QED BY <1>2, <2>1
<1>17. log' = events
  BY <1>2
<1> HIDE DEF new
<1>18. /\ Terms(trades) = Terms(Open(aged)) \cup NewDue(now)
       /\ Distinct(trades)
  <2>1. Terms(Open(aged)) \cap Terms(new) = {}
    BY <1>1, <1>3, <1>8, <1>11, <1>12
  <2> QED BY <1>8, <1>11, <2>1, ConcatTerms
<1>19. /\ before \in Seq(Event) /\ LogTerms(before) = LogTerms(log) /\ LogDistinct(before)
  BY <1>1, <1>13, SetupEventsHaveNoTerms, ConcatElements
<1>20. /\ ends \in Seq(Trade) /\ Distinct(ends)
       /\ Terms(ends) = Terms(ended) \cup Terms(Ended(aged))
       /\ \A t \in ToSet(ends) : t.stop > 0 /\ RUnit % t.stop = 0
  <2>1. Terms(ended) \cap Terms(Ended(aged)) = {}
    BY <1>3, <1>8
  <2>2. ends \in Seq(Trade) /\ ToSet(ends) = ToSet(ended) \cup ToSet(Ended(aged))
    BY <1>3, <1>8, ConcatElements, ToSetConcat
  <2>3. Distinct(ends) /\ Terms(ends) = Terms(ended) \cup Terms(Ended(aged))
    BY <1>3, <1>8, <2>1, ConcatTerms
  <2> QED BY <1>3, <1>6, <2>2, <2>3
<1> HIDE DEF before, ends
<1>21. /\ LogTerms(events) = LogTerms(log) \cup Terms(ends) /\ LogDistinct(events)
  <2>1. LogTerms(before) \cap Terms(ends) = {}
    BY <1>1, <1>3, <1>8, <1>19, <1>20
  <2> QED BY <1>1, <1>19, <1>20, <2>1, LogTermsGrow
<1> HIDE DEF trades, events
<1>22. Terms(trades) \cup LogTerms(events) = DueSet(now)
  BY <1>1, <1>3, <1>8, <1>12, <1>18, <1>20, <1>21
<1>23. Terms(trades) \cap LogTerms(events) = {}
  BY <1>1, <1>3, <1>8, <1>12, <1>18, <1>20, <1>21
<1> QED
  BY <1>2, <1>16, <1>17, <1>18, <1>21, <1>22, <1>23, EnteredNext

LEMMA EnteredRestart == IInv /\ Restart => EnteredInv' /\ PendingInv'
<1> SUFFICES ASSUME IInv, Restart PROVE EnteredInv' /\ PendingInv'
  OBVIOUS
<1>1. TypeInv /\ OutcomeInv
  BY DEF IInv
<1>2. /\ active' = <<>> /\ pending' = <<>> /\ processed' = <<>> /\ log' = log
      /\ restarts' = restarts + 1 /\ restarts \in Nat
  BY <1>1 DEF Restart, TypeInv
<1>3. \A e \in ToSet(log) : e.start <= restarts /\ e.start \in Nat
  <2>1. \A e \in ToSet(log) : e \in Event
    <3>1. log \in Seq(Event)
      BY <1>1 DEF TypeInv
    <3> HIDE DEF Event
    <3> QED BY <3>1, ElementOfSeq, LenProperties DEF ToSet
  <2>2. \A e \in Event : e.start \in Nat
    BY DEF Event, SetupEventType, TradeEventType
  <2>3. \A e \in ToSet(log) : e.start <= restarts
    BY <1>1 DEF OutcomeInv, ToSet
  <2> QED BY <2>1, <2>2, <2>3
<1>4. \A e \in ToSet(log) : e.start # restarts'
  BY <1>2, <1>3
<1>5. LogTerms(log)' = {}
  BY <1>2, <1>4 DEF LogTerms, ThisStart
<1>6. LogDistinct(log)'
  <2>1. \A k \in DOMAIN log : log[k].start # restarts'
    BY <1>4 DEF ToSet
  <2> QED BY <1>2, <2>1 DEF LogDistinct, ThisStart
<1>7. Terms(active)' = {} /\ Distinct(active)'
  BY <1>2 DEF Terms, Distinct, ToSet
<1>8. DueSet(processed)' = {}
  BY <1>2 DEF DueSet
<1>9. PendingInv'
  BY <1>2 DEF PendingInv, ToSet
<1> QED
  BY <1>5, <1>6, <1>7, <1>8, <1>9 DEF EnteredInv

LEMMA EnteredInit == Init => EnteredInv /\ PendingInv
<1> SUFFICES ASSUME Init PROVE EnteredInv /\ PendingInv
  OBVIOUS
<1>1. active = <<>> /\ pending = <<>> /\ processed = <<>> /\ log = <<>>
  BY DEF Init
<1>2. LogTerms(log) = {} /\ LogDistinct(log) /\ Terms(active) = {} /\ Distinct(active)
  BY <1>1 DEF LogTerms, LogDistinct, Terms, Distinct, ToSet
<1>3. DueSet(processed) = {}
  BY <1>1 DEF DueSet
<1> QED
  BY <1>1, <1>2, <1>3 DEF EnteredInv, PendingInv, ToSet

EntryIInv == IInv /\ PendingInv /\ EnteredInv

LEMMA EntryStep == EntryIInv /\ [Next]_vars => EntryIInv'
<1> SUFFICES ASSUME EntryIInv, [Next]_vars PROVE EntryIInv'
  OBVIOUS
<1>1. IInv /\ PendingInv /\ EnteredInv /\ IInv'
  BY OutcomesStep DEF EntryIInv
<1>2. ASSUME kind' = kind, pending' = pending, processed' = processed
      PROVE  PendingInv'
  <2>1. \A s, i : FollowsUp(s, processed, i)' <=> FollowsUp(s, processed, i)
    BY <1>2 DEF FollowsUp, Offsets, ConfirmedIn
  <2>2. \A i : DoneBy(processed, i)' <=> DoneBy(processed, i)
    BY <1>2 DEF DoneBy, Completed, Offsets, ConfirmedIn
  <2> QED BY <1>1, <1>2, <2>1, <2>2 DEF PendingInv
<1>3. CASE BarOpens \/ UNCHANGED vars
  <2>1. UNCHANGED <<kind, pending, active, log, processed, restarts>>
    BY <1>3 DEF BarOpens, vars, market
  <2>2. EnteredInv'
    BY <1>1, <2>1, EnteredNext DEF EnteredInv
  <2> QED BY <1>1, <1>2, <2>1, <2>2 DEF EntryIInv
<1>4. CASE \E bid \in Prices : Tick(bid) \/ TickWithoutData(bid)
  <2>1. UNCHANGED <<kind, pending, processed>>
    BY <1>4 DEF Tick, TickWithoutData
  <2> QED BY <1>1, <1>2, <1>4, <2>1, EnteredTick DEF EntryIInv
<1>5. CASE \E bid \in Prices : TickOfNewBar(bid)
  BY <1>1, <1>5, PendingNewBar, EnteredNewBar DEF EntryIInv
<1>6. CASE Restart
  BY <1>1, <1>6, EnteredRestart DEF EntryIInv
<1> QED
  BY <1>3, <1>4, <1>5, <1>6 DEF Next

LEMMA TradesDueAreDueSet == ASSUME TypeInv PROVE TradesDue = DueSet(processed)
<1>1. \A i, j : ConfirmedBy(i, j) <=> ConfirmedIn(processed, i, j)
  BY DEF ConfirmedBy, ConfirmedIn
<1>2. \A i, v : EntryBars(i, v) = EntryBarsIn(processed, i, v)
  BY <1>1 DEF EntryBars, EntryBarsIn, TriggersIn
<1>3. \A i, v, j : DueTerms(processed, i, v, j) =
         [setup |-> processed[i].place, variant |-> v, direction |-> processed[i].setup,
          entered |-> processed[j].place, price |-> processed[j].close,
          stop |-> processed[j].atr, wait |-> j - i]
  BY DEF DueTerms
<1> DEFINE I == {i \in DOMAIN processed : processed[i].setup # "NONE"}
           J(i, v) == {k \in EntryBarsIn(processed, i, v) : processed[k].atr > 0}
<1>4. TradesDue = UNION {UNION {{DueTerms(processed, i, v, j) : j \in J(i, v)}
                                   : v \in VariantsOf(kind)} : i \in I}
  BY <1>2, <1>3 DEF TradesDue
<1>5. ASSUME NEW d
      PROVE  d \in TradesDue
               <=> \E i \in I : \E v \in VariantsOf(kind) : \E j \in J(i, v) :
                      d = DueTerms(processed, i, v, j)
  <2> HIDE DEF J, I
  <2> QED BY <1>4
<1>6. \A i, v, j : Enters(processed, i, v, j) <=> i \in I /\ v \in VariantsOf(kind) /\ j \in J(i, v)
  BY DEF Enters
<1>7. \A i, v, j : j \in J(i, v) => j \in DOMAIN processed
  BY DEF EntryBarsIn, TriggersIn
<1> HIDE DEF I, J
<1>8. ASSUME NEW d \in DueSet(processed)
      PROVE  d \in TradesDue
  <2>1. PICK i \in DOMAIN processed, v \in VariantsOf(kind), j \in DOMAIN processed :
           Enters(processed, i, v, j) /\ d = DueTerms(processed, i, v, j)
    BY DEF DueSet
  <2> QED BY <1>5, <1>6, <2>1
<1>9. ASSUME NEW d \in TradesDue
      PROVE  d \in DueSet(processed)
  <2>1. PICK i, v, j : /\ i \in I /\ v \in VariantsOf(kind) /\ j \in J(i, v)
                       /\ d = DueTerms(processed, i, v, j)
    BY <1>5
  <2>2. Enters(processed, i, v, j) /\ i \in DOMAIN processed /\ j \in DOMAIN processed
    BY <1>6, <1>7, <2>1 DEF I
  <2>3. <<i, v, j>> \in (DOMAIN processed) \X VariantsOf(kind) \X (DOMAIN processed)
    BY <2>1, <2>2
  <2> QED BY <2>1, <2>2, <2>3 DEF DueSet
<1> QED
  BY <1>8, <1>9

\* A sublist of distinct terms has those of what it keeps.
LEMMA SublistTerms ==
    ASSUME NEW S, NEW s \in Seq(S), NEW P,
           \A k, l \in P \cap (1..Len(s)) : TermsOf(s[k]) = TermsOf(s[l]) => k = l
    PROVE  /\ Sublist(s, P) \in Seq(S) /\ Distinct(Sublist(s, P))
           /\ Terms(Sublist(s, P)) = {TermsOf(s[k]) : k \in P \cap (1..Len(s))}
<1> DEFINE r == Sublist(s, P)
           K == P \cap (1..Len(s))
<1>1. r \in Seq(S) /\ \E b : Picks(b, r, s, K)
  BY SublistPicks
<1>2. ToSet(r) = {s[k] : k \in K}
  BY ToSetSublist
<1>3. DOMAIN r = 1..Len(r)
  BY <1>1, LenProperties
<1> HIDE DEF r, K
<1>4. PICK b : Picks(b, r, s, K)
  BY <1>1
<1>5. Terms(r) = {TermsOf(s[k]) : k \in K}
  BY <1>2 DEF Terms
<1>6. ASSUME NEW i \in 1..Len(r), NEW j \in 1..Len(r), TermsOf(r[i]) = TermsOf(r[j])
      PROVE  i = j
  <2>1. b[i] \in K /\ b[j] \in K /\ r[i] = s[b[i]] /\ r[j] = s[b[j]]
    BY <1>3, <1>4 DEF Picks
  <2>2. b[i] = b[j]
    BY <1>6, <2>1 DEF K
  <2> QED BY <1>3, <1>4, <2>2 DEF Picks
<1>7. Distinct(r)
  BY <1>3, <1>6 DEF Distinct
<1> QED
  BY <1>1, <1>5, <1>7 DEF r, K

\* A sequence without duplicates has as many elements as its set.
LEMMA DistinctCount ==
    ASSUME NEW S, NEW s \in Seq(S), Distinct(s)
    PROVE  Cardinality(Terms(s)) = Len(s)
<1> DEFINE f == [k \in 1..Len(s) |-> TermsOf(s[k])]
<1>1. Len(s) \in Nat /\ DOMAIN s = 1..Len(s)
  BY LenProperties
<1>2. Terms(s) = {TermsOf(s[k]) : k \in 1..Len(s)}
  BY <1>1 DEF Terms, ToSet
<1>3. f \in [1..Len(s) -> Terms(s)]
  BY <1>2
<1>4. \A k, l \in 1..Len(s) : f[k] = f[l] => k = l
  BY <1>1 DEF Distinct
<1>5. \A t \in Terms(s) : \E k \in 1..Len(s) : f[k] = t
  BY <1>2
<1> HIDE DEF f
<1>6. f \in Bijection(1..Len(s), Terms(s))
  BY <1>3, <1>4, <1>5 DEF Bijection, Injection, Surjection, IsInjective
<1>7. ExistsBijection(1..Len(s), Terms(s))
  BY <1>6 DEF ExistsBijection
<1> QED
  BY <1>1, <1>7, FS_CountingElements

LEMMA EntriesFollow == EntryIInv => TradesEnterOnTime
<1> SUFFICES ASSUME EntryIInv PROVE TradesEnterOnTime
  OBVIOUS
<1> DEFINE P == {n \in DOMAIN log : log[n].type = "TRADE" /\ log[n].start = restarts}
           ended == Sublist(log, P)
           S == Trade \cup Event
           all == active \o ended
<1>1. TypeInv /\ EnteredInv
  BY DEF EntryIInv, IInv
<1>2. TradesOfThisStart = all
  BY DEF TradesOfThisStart, Those
<1>3. active \in Seq(S) /\ log \in Seq(S) /\ DOMAIN log = 1..Len(log)
  <2>1. active \in Seq(Trade) /\ log \in Seq(Event)
    BY <1>1 DEF TypeInv
  <2> HIDE DEF S
  <2>2. Trade \subseteq S /\ Event \subseteq S
    BY DEF S
  <2> QED BY <2>1, <2>2, LenProperties, ElementOfSeq, SeqDef
<1> HIDE DEF S
<1>4. \A k \in 1..Len(log) : k \in P <=> ThisStart(log[k])
  BY <1>3 DEF ThisStart
<1>5. P \cap (1..Len(log)) = P /\ LogTerms(log) = {TermsOf(log[k]) : k \in P}
  BY <1>3, <1>4 DEF LogTerms, ToSet
<1>6. \A k, l \in P : TermsOf(log[k]) = TermsOf(log[l]) => k = l
  BY <1>1, <1>3, <1>4 DEF EnteredInv, LogDistinct
<1> HIDE DEF P
<1>7. ended \in Seq(S) /\ Distinct(ended) /\ Terms(ended) = LogTerms(log)
  BY <1>3, <1>5, <1>6, SublistTerms
<1> HIDE DEF ended
<1>8. all \in Seq(S) /\ Distinct(all) /\ Terms(all) = DueSet(processed)
  <2>1. /\ Terms(active) \cup LogTerms(log) = DueSet(processed)
        /\ Distinct(active) /\ Terms(active) \cap LogTerms(log) = {}
    BY <1>1 DEF EnteredInv
  <2>2. all \in Seq(S)
    BY <1>3, <1>7, ConcatElements
  <2>3. /\ Terms(all) = Terms(active) \cup Terms(ended)
        /\ Distinct(active) /\ Distinct(ended) /\ Terms(active) \cap Terms(ended) = {}
              => Distinct(all)
    BY <1>3, <1>7, ConcatTerms
  <2> HIDE DEF all
  <2> QED BY <1>7, <2>1, <2>2, <2>3
<1> HIDE DEF all
<1>9. Terms(all) = TradesDue /\ Len(all) = Cardinality(TradesDue)
  BY <1>1, <1>8, TradesDueAreDueSet, DistinctCount
<1>10. {TermsOf(all[k]) : k \in DOMAIN all} = TradesDue
  BY <1>9 DEF Terms, ToSet
<1> QED
  BY <1>2, <1>9, <1>10 DEF TradesEnterOnTime, TermsOf

\* The shadow trades since the start, open and ended, have the terms that the
\* rules give to the bars that were processed: the invariant is
\* about AddShadowTrade and ProcessPendingSetups, with the setups that still wait.
THEOREM EntriesInvariant == Spec => []EntryIInv
<1>1. Init => EntryIInv
  BY OutcomesInit, EnteredInit DEF EntryIInv
<1> QED
  BY <1>1, EntryStep, PTL DEF Spec

\* Whatever the chart and the bars whose data was missing, each variant's trade of
\* each setup enters at the close of its own bar, with the stop of that bar, once.
THEOREM EntriesOnTime == Spec => []TradesEnterOnTime
BY EntriesInvariant, EntriesFollow, PTL

-----------------------------------------------------------------------------
(* The two tables.                                                         *)

OfVariant(v) == {t \in Trade : t.variant = v}
EndedOf(v) == {e \in TradeEventType : e.variant = v}
DueSetups(v) == {s \in PendingSetup : WasDue(s, v)}

\* The setups in the log that were to enter by a variant.
EnteredBy(v) ==
    {e \in SetupEventType :
        CASE v = "WAIT_TRIGGER" -> e.confirmed # {}
          [] kind = "breakout" /\ IndexOf(v) > 0 -> IndexOf(v) \in e.confirmed
          [] OTHER -> TRUE}

AccountedInv ==
    \A v \in VariantsOf(kind) :
        Count(log, EndedOf(v)) + Count(active, OfVariant(v))
          + Count(lost.trades, OfVariant(v)) + Count(skipped, OfVariant(v))
        = Count(log, EnteredBy(v)) + Count(pending, DueSetups(v))
          + Count(lost.setups, DueSetups(v))

\* A setup was confirmed by bars since its own only.
MarkedInv == \A s \in ToSet(pending) : s.confirmed \subseteq 1..s.elapsed

TablesIInv == IInv /\ MarkedInv /\ AccountedInv

-----------------------------------------------------------------------------
(* One setup.                                                              *)

\* What a bar makes due of a setup is what was not due before.
LEMMA AdvancedDue ==
    ASSUME kind \in Kinds, NEW s \in PendingSetup, NEW bar \in PlacedBar, ~ Completed(s),
           s.confirmed \subseteq 1..s.elapsed, NEW v \in VariantsOf(kind)
    PROVE  LET a == AdvancedSetup(s, bar)
           IN  /\ a \in PendingSetup /\ a.confirmed \subseteq 1..a.elapsed
               /\ WasDue(a, v) <=> WasDue(s, v) \/ v \in ToSet(Due(a))
               /\ ~ (WasDue(s, v) /\ v \in ToSet(Due(a)))
               /\ ToSet(Due(a)) \subseteq VariantsOf(kind)
               /\ \A x, y \in 1..Len(Due(a)) : Due(a)[x] = Due(a)[y] => x = y
<1> DEFINE a == AdvancedSetup(s, bar)
           n == s.elapsed
<1>1. /\ a \in PendingSetup /\ a.elapsed = n + 1
      /\ a.confirmed = IF Watches(s, n + 1) /\ Confirms(s, bar)
                       THEN s.confirmed \cup {n + 1} ELSE s.confirmed
  BY AdvancedKeeps
<1>2. n \in Nat /\ kind \in {"entry", "breakout"} /\ s.confirmed \subseteq 1..n
  BY TimingAnalyzerAssumption DEF PendingSetup
<1>3. kind = "breakout" => n < 3
  BY <1>2 DEF Completed
<1> HIDE DEF a
<1>4. a.elapsed >= 1 /\ (kind = "breakout" => a.elapsed <= 3)
  BY <1>1, <1>2, <1>3
<1>5. /\ ToSet(Due(a)) \subseteq VariantsOf(kind)
      /\ \A x, y \in 1..Len(Due(a)) : Due(a)[x] = Due(a)[y] => x = y
      /\ v \in ToSet(Due(a))
           <=> IF v = "WAIT_TRIGGER" THEN n + 1 \in a.confirmed
               ELSE IndexOf(v) = n + 1 /\ (kind = "breakout" => n + 1 \in a.confirmed)
  BY <1>1, <1>2, <1>4, DueNames
<1>6. a.confirmed \subseteq 1..(n + 1) /\ n + 1 \notin s.confirmed
  BY <1>1, <1>2
<1>7. \A m \in Nat : m # n + 1 => (m \in a.confirmed <=> m \in s.confirmed)
  BY <1>1
<1>8. CASE v = "WAIT_TRIGGER"
  <2>1. kind = "entry"
    BY <1>2, <1>8 DEF VariantsOf
  <2>2. Watches(s, n + 1) => s.confirmed = {}
    BY <2>1 DEF Watches
  <2>3. (a.confirmed # {} <=> s.confirmed # {} \/ n + 1 \in a.confirmed)
        /\ ~ (s.confirmed # {} /\ n + 1 \in a.confirmed)
    BY <1>1, <1>6, <2>2
  <2>4. (WasDue(a, v) <=> a.confirmed # {}) /\ (WasDue(s, v) <=> s.confirmed # {})
    BY <1>8, <2>1 DEF WasDue
  <2> QED BY <1>1, <1>5, <1>6, <1>8, <2>3, <2>4 DEF a
<1>9. CASE v # "WAIT_TRIGGER"
  <2>1. IndexOf(v) \in 0..3
    BY <1>9, IndexIsWhole DEF VariantsOf, Variants
  <2>2. CASE kind = "breakout" /\ IndexOf(v) > 0
    <3>1. (WasDue(a, v) <=> IndexOf(v) \in a.confirmed)
          /\ (WasDue(s, v) <=> IndexOf(v) \in s.confirmed)
      BY <1>9, <2>2 DEF WasDue
    <3> QED BY <1>1, <1>5, <1>6, <1>7, <1>9, <2>1, <2>2, <3>1 DEF a
  <2>3. CASE ~ (kind = "breakout" /\ IndexOf(v) > 0)
    <3>1. (WasDue(a, v) <=> a.elapsed >= IndexOf(v)) /\ (WasDue(s, v) <=> n >= IndexOf(v))
      BY <1>9, <2>3 DEF WasDue
    <3>2. n + 1 >= IndexOf(v) <=> n >= IndexOf(v) \/ IndexOf(v) = n + 1
      BY <1>2, <2>1
    <3>3. ~ (n >= IndexOf(v) /\ IndexOf(v) = n + 1)
      BY <1>2, <2>1
    <3>4. kind = "breakout" => ~ (IndexOf(v) = n + 1)
      BY <1>2, <2>1, <2>3
    <3> QED BY <1>1, <1>2, <1>5, <1>6, <1>9, <3>1, <3>2, <3>3, <3>4 DEF a
  <2> QED BY <2>2, <2>3
<1> QED
  BY <1>8, <1>9

\* A setup that is completed tells the log which variants were due.
LEMMA CompletedTells ==
    ASSUME kind \in Kinds, NEW s \in PendingSetup, Completed(s), restarts \in Nat,
           NEW v \in VariantsOf(kind)
    PROVE  SetupEvent(s) \in EnteredBy(v) <=> s \in DueSetups(v)
<1>1. SetupEvent(s) \in SetupEventType /\ SetupEvent(s).confirmed = s.confirmed
  <2>1. /\ s.close \in Int /\ s.favorable \in Int /\ s.adverse \in Int
        /\ s.stop \in Nat /\ s.stop > 0 /\ s.setup \in Nat /\ s.confirmed \subseteq Nat
        /\ RUnit \in Nat
    BY TimingAnalyzerAssumption DEF PendingSetup
  <2>2. \A x \in Int : PriceToR(s.direction, s.close, x, s.stop) \in Int
    BY <2>1 DEF PriceToR, Gain
  <2> QED BY <2>1, <2>2 DEF SetupEvent, SetupEventType
<1>2. s.elapsed \in Nat /\ kind \in {"entry", "breakout"}
  BY TimingAnalyzerAssumption DEF PendingSetup
<1>3. CASE v = "WAIT_TRIGGER"
  BY <1>1, <1>3 DEF EnteredBy, DueSetups, WasDue
<1>4. CASE v # "WAIT_TRIGGER" /\ kind = "breakout" /\ IndexOf(v) > 0
  BY <1>1, <1>4 DEF EnteredBy, DueSetups, WasDue
<1>5. CASE v # "WAIT_TRIGGER" /\ ~ (kind = "breakout" /\ IndexOf(v) > 0)
  <2>1. IndexOf(v) \in 0..3
    BY <1>5, IndexIsWhole DEF VariantsOf, Variants
  <2>2. kind = "entry" => IndexOf(v) <= 2 /\ s.elapsed >= 2
    BY <1>5, IndexKinds DEF VariantsOf, Completed
  <2>3. s.elapsed >= IndexOf(v)
    BY <1>2, <1>5, <2>1, <2>2
  <2>4. WasDue(s, v)
    BY <1>5, <2>3 DEF WasDue
  <2>5. SetupEvent(s) \in EnteredBy(v)
    BY <1>1, <1>5 DEF EnteredBy
  <2> QED BY <2>4, <2>5 DEF DueSetups
<1> QED
  BY <1>3, <1>4, <1>5

-----------------------------------------------------------------------------
(* Counts of trades and of events.                                         *)

\* Where there is none, none is counted.
LEMMA NoCount ==
    ASSUME NEW S, NEW s \in Seq(S), NEW A, \A n \in 1..Len(s) : s[n] \notin A
    PROVE  Count(s, A) = 0
<1>1. {n \in 1..Len(s) : s[n] \in A} = {}
  OBVIOUS
<1> QED
  BY <1>1, CountType, FS_EmptySet

\* A trade is open or has ended.
LEMMA OpenAndEndedCount ==
    ASSUME NEW trades \in Seq(Trade), NEW A
    PROVE  Count(Open(trades), A) + Count(Ended(trades), A) = Count(trades, A)
<1> DEFINE P == {n \in DOMAIN trades : trades[n].exit = "open"}
           Q == {n \in DOMAIN trades : trades[n].exit # "open"}
<1>1. Open(trades) = Sublist(trades, P) /\ Ended(trades) = Sublist(trades, Q)
  BY DEF Open, Ended, Those
<1>2. P \cap Q = {} /\ P \cup Q = 1..Len(trades)
  BY LenProperties
<1> HIDE DEF P, Q
<1> QED
  BY <1>1, <1>2, SplitCount

\* The events of trades that ended.
LEMMA EventsCount ==
    ASSUME NEW trades \in Seq(Trade), restarts \in Nat, NEW v,
           \A t \in ToSet(trades) : t.stop > 0 /\ RUnit % t.stop = 0
    PROVE  /\ TradeEvents(trades) \in Seq(Event)
           /\ Count(TradeEvents(trades), EndedOf(v)) = Count(trades, OfVariant(v))
           /\ Count(TradeEvents(trades), EnteredBy(v)) = 0
<1> DEFINE f == TradeEvents(trades)
<1>1. /\ f \in Seq(Event) /\ Len(f) = Len(trades)
      /\ \A k \in 1..Len(trades) : f[k] = TradeEvent(trades[k])
  BY EventsOfTrades
<1>2. \A k \in 1..Len(trades) : trades[k] \in Trade /\ f[k] \in Event
  BY <1>1, ElementOfSeq
<1>3. \A t : TradeEvent(t).type = "TRADE" /\ TradeEvent(t).variant = t.variant
  BY DEF TradeEvent
<1> HIDE DEF f
<1>4. \A e \in Event : e.type = "TRADE" => e \in TradeEventType
  BY DEF Event, SetupEventType
<1>5. \A e \in SetupEventType : e.type = "SETUP"
  BY DEF SetupEventType
<1>6. \A k \in 1..Len(trades) : trades[k] \in OfVariant(v) <=> f[k] \in EndedOf(v)
  BY <1>1, <1>2, <1>3, <1>4 DEF OfVariant, EndedOf
<1>7. \A k \in 1..Len(f) : f[k] \notin EnteredBy(v)
  BY <1>1, <1>3, <1>5 DEF EnteredBy
<1>8. Count(f, EndedOf(v)) = Count(trades, OfVariant(v))
  BY <1>1, <1>6, MapCount
<1>9. Count(f, EnteredBy(v)) = 0
  BY <1>1, <1>7, NoCount
<1> QED
  BY <1>1, <1>8, <1>9 DEF f

\* A tick takes from the open trades what it writes to the log.
LEMMA TickCount ==
    ASSUME IInv, NEW bid \in Prices, NEW v
    PROVE  LET ended == Ended(MonitoredAll(bid))
           IN  /\ ended \in Seq(Trade)
               /\ \A t \in ToSet(ended) : t.stop > 0 /\ RUnit % t.stop = 0
               /\ Count(Open(MonitoredAll(bid)), OfVariant(v)) + Count(ended, OfVariant(v))
                    = Count(active, OfVariant(v))
<1>1. TypeInv /\ OutcomeInv /\ active \in Seq(Trade)
  BY DEF IInv, TypeInv
<1>2. /\ Ended(MonitoredAll(bid)) \in Seq(Trade)
      /\ \A t \in ToSet(Ended(MonitoredAll(bid))) : t.stop > 0 /\ RUnit % t.stop = 0
  BY <1>1, TickOutcome
<1> DEFINE m == MonitoredAll(bid)
<1>3. /\ m \in Seq(Trade) /\ Len(m) = Len(active)
      /\ \A k \in 1..Len(active) : active[k] \in Trade /\ m[k] \in Trade /\ SameTerms(m[k], active[k])
  BY <1>1, MonitoredTrades
<1> HIDE DEF m
<1>4. \A k \in 1..Len(active) : active[k] \in OfVariant(v) <=> m[k] \in OfVariant(v)
  BY <1>3 DEF OfVariant, SameTerms
<1>5. Count(active, OfVariant(v)) = Count(m, OfVariant(v))
  BY <1>1, <1>3, <1>4, MapCount
<1>6. Count(Open(m), OfVariant(v)) + Count(Ended(m), OfVariant(v)) = Count(m, OfVariant(v))
  BY <1>3, OpenAndEndedCount
<1> QED
  BY <1>2, <1>5, <1>6 DEF m

\* The same for those that a bar finds running.
LEMMA AgeCount ==
    ASSUME NEW trades \in Seq(Trade), NEW bar \in PlacedBar, NEW v,
           \A t \in ToSet(trades) : Running(t)
    PROVE  Count(Open(AgedAll(trades, bar)), OfVariant(v))
             + Count(Ended(AgedAll(trades, bar)), OfVariant(v)) = Count(trades, OfVariant(v))
<1> DEFINE m == AgedAll(trades, bar)
<1>1. /\ m \in Seq(Trade) /\ Len(m) = Len(trades)
      /\ \A k \in 1..Len(trades) : trades[k] \in ToSet(trades) /\ trades[k] \in Trade
                                   /\ m[k] = Aged(trades[k], bar)
  BY AgedTrades
<1> HIDE DEF m
<1>2. \A k \in 1..Len(trades) : m[k] \in Trade /\ SameTerms(m[k], trades[k])
  BY <1>1, AgedTrade
<1>3. \A k \in 1..Len(trades) : trades[k] \in OfVariant(v) <=> m[k] \in OfVariant(v)
  BY <1>1, <1>2 DEF OfVariant, SameTerms
<1>4. Count(trades, OfVariant(v)) = Count(m, OfVariant(v))
  BY <1>1, <1>3, MapCount
<1>5. Count(Open(m), OfVariant(v)) + Count(Ended(m), OfVariant(v)) = Count(m, OfVariant(v))
  BY <1>1, OpenAndEndedCount
<1> QED
  BY <1>4, <1>5 DEF m

-----------------------------------------------------------------------------
(* Counts of setups.                                                       *)

\* What the setups of the moment enter on a bar is what the bar made due.
LEMMA EntriesCount ==
    ASSUME IInv, MarkedInv, NEW v \in VariantsOf(kind)
    PROVE  /\ Count(Entries(AdvancedAll(closed), closed), OfVariant(v))
                + Count(pending, DueSetups(v)) = Count(AdvancedAll(closed), DueSetups(v))
           /\ \A k \in 1..Len(pending) :
                 AdvancedAll(closed)[k].confirmed \subseteq 1..AdvancedAll(closed)[k].elapsed
<1> DEFINE f == AdvancedAll(closed)
           g == EntriesOf(f, closed)
           r == Entries(f, closed)
           A == OfVariant(v)
<1>1. /\ TypeInv /\ Waiting /\ closed \in PlacedBar /\ Sound(closed) /\ kind \in Kinds
      /\ pending \in Seq(PendingSetup)
  BY DEF IInv, TypeInv, ChartInv
<1>2. /\ f \in Seq(PendingSetup) /\ Len(f) = Len(pending)
      /\ \A k \in 1..Len(f) : /\ pending[k] \in PendingSetup /\ pending[k] \in ToSet(pending)
                              /\ f[k] = AdvancedSetup(pending[k], closed)
                              /\ Due(f[k]) \in Seq(Variants)
  BY <1>1, AdvancedSetups
<1> HIDE DEF f
<1>3. ASSUME NEW k \in 1..Len(f)
      PROVE  /\ f[k] \in PendingSetup /\ f[k].confirmed \subseteq 1..f[k].elapsed
             /\ WasDue(f[k], v) <=> WasDue(pending[k], v) \/ v \in ToSet(Due(f[k]))
             /\ ~ (WasDue(pending[k], v) /\ v \in ToSet(Due(f[k])))
             /\ \A x, y \in 1..Len(Due(f[k])) : Due(f[k])[x] = Due(f[k])[y] => x = y
  <2> DEFINE s == pending[k]
             a == f[k]
  <2>1. /\ s \in PendingSetup /\ a = AdvancedSetup(s, closed) /\ ~ Completed(s)
        /\ s.confirmed \subseteq 1..s.elapsed
    BY <1>1, <1>2 DEF Waiting, MarkedInv
  <2> HIDE DEF s, a
  <2>2. /\ a \in PendingSetup /\ a.confirmed \subseteq 1..a.elapsed
        /\ WasDue(a, v) <=> WasDue(s, v) \/ v \in ToSet(Due(a))
        /\ ~ (WasDue(s, v) /\ v \in ToSet(Due(a)))
        /\ \A x, y \in 1..Len(Due(a)) : Due(a)[x] = Due(a)[y] => x = y
    BY <1>1, <2>1, AdvancedDue
  <2> QED BY <2>2 DEF s, a
<1>4. /\ Len(g) = Len(f) /\ r \in Seq(Trade)
      /\ \A k \in 1..Len(f) :
            /\ f[k] \in PendingSetup
            /\ Len(g[k]) = Len(Due(f[k]))
            /\ \A i \in 1..Len(Due(f[k])) :
                  /\ Due(f[k])[i] \in Variants
                  /\ g[k][i] = Entry(f[k].setup, Due(f[k])[i], f[k].direction, closed,
                                     f[k].elapsed)
  BY <1>1, <1>2, EntryPlaces
<1>5. g \in Seq(Seq(Trade)) /\ r = FlattenSeq(g)
  BY <1>1, <1>2, EntryPlaces
<1> HIDE DEF g, r
<1>6. ASSUME NEW k \in 1..Len(f), NEW i \in 1..Len(g[k])
      PROVE  g[k][i] \in A <=> Due(f[k])[i] = v
  <2>1. /\ i \in 1..Len(Due(f[k]))
        /\ g[k][i] = Entry(f[k].setup, Due(f[k])[i], f[k].direction, closed, f[k].elapsed)
    BY <1>4
  <2>2. g[k] \in Seq(Trade) /\ g[k][i] \in Trade
    BY <1>4, <1>5, ElementOfSeq
  <2>3. g[k][i].variant = Due(f[k])[i]
    BY <2>1 DEF Entry
  <2> QED BY <2>2, <2>3 DEF OfVariant
<1> HIDE DEF A
<1>7. ASSUME NEW k \in 1..Len(g), NEW i \in 1..Len(g[k]), NEW j \in 1..Len(g[k]),
             g[k][i] \in A, g[k][j] \in A
      PROVE  i = j
  <2>1. k \in 1..Len(f) /\ i \in 1..Len(Due(f[k])) /\ j \in 1..Len(Due(f[k]))
    BY <1>4, <1>7
  <2>2. Due(f[k])[i] = v /\ Due(f[k])[j] = v
    BY <1>6, <1>7, <2>1
  <2> QED BY <1>3, <2>1, <2>2
<1> DEFINE D == {k \in 1..Len(g) : \E i \in 1..Len(g[k]) : g[k][i] \in A}
           K == {k \in 1..Len(f) : v \in ToSet(Due(f[k]))}
           L == {k \in 1..Len(pending) : pending[k] \in DueSetups(v)}
           M == {k \in 1..Len(f) : f[k] \in DueSetups(v)}
<1>8. Count(r, A) = Cardinality(D)
  BY <1>5, <1>7, FlattenCount, ZenonT(30)
<1>9. ASSUME NEW k \in 1..Len(f)
      PROVE  v \in ToSet(Due(f[k])) <=> \E i \in 1..Len(g[k]) : g[k][i] \in A
  <2>1. DOMAIN Due(f[k]) = 1..Len(g[k])
    BY <1>2, <1>4, LenProperties
  <2> QED BY <1>6, <2>1 DEF ToSet
<1>10. D = K
  BY <1>4, <1>9
<1>11. K \cup L = M /\ K \cap L = {} /\ K \subseteq 1..Len(f) /\ L \subseteq 1..Len(f)
  BY <1>2, <1>3 DEF DueSetups
<1>12. Count(pending, DueSetups(v)) = Cardinality(L) /\ Count(f, DueSetups(v)) = Cardinality(M)
  BY <1>1, <1>2, CountType
<1>13. PICK n \in Nat : n = Len(f)
  BY <1>2, LenProperties
<1> HIDE DEF D, K, L, M
<1>14. K \subseteq 1..n /\ L \subseteq 1..n /\ K \cap L = {}
  BY <1>11, <1>13
<1>15. Cardinality(K \cup L) = Cardinality(K) + Cardinality(L)
  BY ONLY n \in Nat, <1>14, Apart, ZenonT(30)
<1>16. Count(r, A) + Count(pending, DueSetups(v)) = Count(f, DueSetups(v))
  BY <1>8, <1>10, <1>11, <1>12, <1>15
<1> QED
  BY <1>2, <1>3, <1>16 DEF f, r, A

\* A setup's event is one of the log's.
LEMMA SetupIsEvent ==
    ASSUME NEW s \in PendingSetup, restarts \in Nat
    PROVE  SetupEvent(s) \in SetupEventType /\ SetupEvent(s) \in Event
<1>1. /\ s.close \in Int /\ s.favorable \in Int /\ s.adverse \in Int
      /\ s.stop \in Nat /\ s.stop > 0 /\ s.setup \in Nat /\ s.confirmed \subseteq Nat
      /\ RUnit \in Nat
  BY TimingAnalyzerAssumption DEF PendingSetup
<1>2. \A x \in Int : PriceToR(s.direction, s.close, x, s.stop) \in Int
  BY <1>1 DEF PriceToR, Gain
<1> QED
  BY <1>1, <1>2 DEF SetupEvent, SetupEventType, Event

\* The log of a setup that is done says which of its variants were due.
LEMMA SetupEventsCount ==
    ASSUME kind \in Kinds, restarts \in Nat, NEW setups \in Seq(PendingSetup),
           \A s \in ToSet(setups) : Completed(s), NEW v \in VariantsOf(kind)
    PROVE  /\ SetupEvents(setups) \in Seq(Event)
           /\ Count(SetupEvents(setups), EnteredBy(v)) = Count(setups, DueSetups(v))
           /\ Count(SetupEvents(setups), EndedOf(v)) = 0
<1> DEFINE f == SetupEvents(setups)
<1>1. Len(setups) \in Nat /\ DOMAIN setups = 1..Len(setups)
  BY LenProperties
<1>2. \A k \in 1..Len(setups) : setups[k] \in PendingSetup /\ Completed(setups[k])
  BY <1>1, ElementOfSeq DEF ToSet
<1>3. f = [k \in 1..Len(setups) |-> f[k]]
      /\ \A k \in 1..Len(setups) : f[k] = SetupEvent(setups[k])
  BY <1>1 DEF SetupEvents
<1> HIDE DEF f
<1>4. \A k \in 1..Len(setups) : f[k] \in Event /\ f[k].type = "SETUP"
  BY <1>2, <1>3, SetupIsEvent DEF SetupEvent
<1>5. f \in Seq(Event) /\ Len(f) = Len(setups)
  BY <1>1, <1>3, <1>4, MapIsSeq
<1>6. \A k \in 1..Len(setups) : setups[k] \in DueSetups(v) <=> f[k] \in EnteredBy(v)
  BY <1>2, <1>3, CompletedTells
<1>7. \A k \in 1..Len(f) : f[k] \notin EndedOf(v)
  BY <1>4, <1>5 DEF EndedOf, TradeEventType
<1>8. Count(setups, DueSetups(v)) = Count(f, EnteredBy(v))
  BY <1>5, <1>6, MapCount
<1>9. Count(f, EndedOf(v)) = 0
  BY <1>5, <1>7, NoCount
<1> QED
  BY <1>5, <1>8, <1>9 DEF f

\* A setup is kept or done.
LEMMA KeptAndDoneCount ==
    ASSUME NEW setups \in Seq(PendingSetup), NEW A
    PROVE  LET kept == Those(setups, LAMBDA s : ~ Completed(s))
               done == Those(setups, Completed)
           IN  /\ kept \in Seq(PendingSetup) /\ done \in Seq(PendingSetup)
               /\ \A s \in ToSet(kept) : ~ Completed(s) /\ s \in ToSet(setups)
               /\ \A s \in ToSet(done) : Completed(s)
               /\ Count(kept, A) + Count(done, A) = Count(setups, A)
<1> DEFINE P == {n \in DOMAIN setups : ~ Completed(setups[n])}
           Q == {n \in DOMAIN setups : Completed(setups[n])}
           kept == Those(setups, LAMBDA s : ~ Completed(s))
           done == Those(setups, Completed)
<1>1. kept = Sublist(setups, P) /\ done = Sublist(setups, Q)
  BY DEF Those
<1>2. DOMAIN setups = 1..Len(setups)
  BY LenProperties
<1>3. P \cap Q = {} /\ P \cup Q = 1..Len(setups)
  BY <1>2
<1>4. \A n \in P : ~ Completed(setups[n]) /\ setups[n] \in ToSet(setups)
  BY DEF ToSet
<1>5. \A n \in Q : Completed(setups[n])
  OBVIOUS
<1> HIDE DEF P, Q, kept, done
<1>6. kept \in Seq(PendingSetup) /\ done \in Seq(PendingSetup)
  BY <1>1, SublistPicks
<1>7. Count(kept, A) + Count(done, A) = Count(setups, A)
  BY <1>1, <1>3, SplitCount
<1>8. /\ ToSet(kept) = {setups[n] : n \in P \cap (1..Len(setups))}
      /\ ToSet(done) = {setups[n] : n \in Q \cap (1..Len(setups))}
  BY <1>1, ToSetSublist
<1>9. \A s \in ToSet(kept) : ~ Completed(s) /\ s \in ToSet(setups)
  BY <1>4, <1>8
<1>10. \A s \in ToSet(done) : Completed(s)
  BY <1>5, <1>8
<1> QED
  BY <1>6, <1>7, <1>9, <1>10 DEF kept, done

\* A setup that a bar detects enters at once, and by no other variant.
LEMMA DetectedCount ==
    ASSUME NEW bar \in PlacedBar, Sound(bar), kind \in Kinds, NEW v \in VariantsOf(kind)
    PROVE  Count(Immediate(bar), OfVariant(v)) = Count(Detected(bar), DueSetups(v))
<1>1. /\ Detected(bar) \in Seq(PendingSetup) /\ Immediate(bar) \in Seq(Trade)
      /\ Len(Immediate(bar)) = Len(Detected(bar))
      /\ \A s \in ToSet(Detected(bar)) : s.elapsed = 0 /\ s.confirmed = {}
      /\ \A t \in ToSet(Immediate(bar)) :
            t = Entry(bar.place, "IMMEDIATE", bar.setup, bar, 0)
  BY DetectedSetup
<1> DEFINE d == Detected(bar)
           m == Immediate(bar)
<1> HIDE DEF d, m
<1>2. ASSUME NEW k \in 1..Len(m)
      PROVE  m[k] \in OfVariant(v) <=> d[k] \in DueSetups(v)
  <2>1. /\ m[k] \in Trade /\ m[k] \in ToSet(m) /\ d[k] \in PendingSetup /\ d[k] \in ToSet(d)
    BY <1>1, ElementOfSeq, LenProperties DEF ToSet, d, m
  <2>2. m[k].variant = "IMMEDIATE"
    BY <1>1, <2>1 DEF Entry, m
  <2>3. d[k].elapsed = 0 /\ d[k].confirmed = {}
    BY <1>1, <2>1 DEF d
  <2>4. WasDue(d[k], v) <=> v = "IMMEDIATE"
    <3>1. CASE v = "WAIT_TRIGGER"
      BY <2>3, <3>1 DEF WasDue
    <3>2. CASE v = "IMMEDIATE"
      BY <2>3, <3>2, IndexKinds DEF WasDue
    <3>3. CASE v \notin {"WAIT_TRIGGER", "IMMEDIATE"}
      <4>1. IndexOf(v) \in {1, 2, 3}
        BY <3>3, IndexKinds DEF VariantsOf
      <4>2. CASE kind = "breakout"
        BY <2>3, <3>3, <4>1, <4>2 DEF WasDue
      <4>3. CASE kind # "breakout"
        BY <2>3, <3>3, <4>1, <4>3 DEF WasDue
      <4> QED BY <4>2, <4>3
    <3> QED BY <3>1, <3>2, <3>3
  <2> QED BY <2>1, <2>2, <2>4 DEF OfVariant, DueSetups
<1>3. Count(m, OfVariant(v)) = Count(d, DueSetups(v))
  BY <1>1, <1>2, MapCount DEF d, m
<1> QED
  BY <1>3 DEF d, m

-----------------------------------------------------------------------------
(* The steps.                                                              *)

\* The accounts of the next state, said of its values.
LEMMA AccountedNext ==
    ASSUME kind' = kind,
           \A v \in VariantsOf(kind) :
               Count(log', EndedOf(v)) + Count(active', OfVariant(v))
                 + Count(lost.trades', OfVariant(v)) + Count(skipped', OfVariant(v))
               = Count(log', EnteredBy(v)) + Count(pending', DueSetups(v))
                 + Count(lost.setups', DueSetups(v))
    PROVE  AccountedInv'
<1>1. VariantsOf(kind)' = VariantsOf(kind)
  BY DEF VariantsOf
<1>2. \A v : EnteredBy(v)' = EnteredBy(v) /\ DueSetups(v)' = DueSetups(v)
             /\ EndedOf(v)' = EndedOf(v) /\ OfVariant(v)' = OfVariant(v)
  BY DEF EnteredBy, DueSetups, EndedOf, OfVariant, WasDue
<1> QED
  BY <1>1, <1>2 DEF AccountedInv

\* Nothing is counted at first.
LEMMA TablesInit == Init => MarkedInv /\ AccountedInv
<1> SUFFICES ASSUME Init PROVE MarkedInv /\ AccountedInv
  OBVIOUS
<1>1. /\ log = <<>> /\ active = <<>> /\ skipped = <<>> /\ pending = <<>>
      /\ lost.trades = <<>> /\ lost.setups = <<>>
  BY DEF Init
<1>2. \A A : Count(<<>>, A) = 0
  <2> TAKE A
  <2>1. {n \in DOMAIN <<>> : <<>>[n] \in A} = {}
    OBVIOUS
  <2> QED BY <2>1, FS_EmptySet DEF Count
<1>3. AccountedInv
  BY <1>1, <1>2 DEF AccountedInv
<1>4. MarkedInv
  BY <1>1 DEF MarkedInv, ToSet
<1> QED
  BY <1>3, <1>4

\* Steps that leave the accounts alone.
LEMMA TablesUnchanged ==
    ASSUME MarkedInv, AccountedInv, UNCHANGED <<kind, log, active, lost, skipped, pending>>
    PROVE  MarkedInv' /\ AccountedInv'
<1>1. MarkedInv'
  BY DEF MarkedInv
<1>2. AccountedInv'
  BY AccountedNext DEF AccountedInv
<1> QED
  BY <1>1, <1>2

\* A tick moves trades to the log, and nothing else.
LEMMA TablesTick ==
    ASSUME IInv, MarkedInv, AccountedInv, NEW bid \in Prices, Tick(bid) \/ TickWithoutData(bid)
    PROVE  MarkedInv' /\ AccountedInv'
<1> DEFINE open == Open(MonitoredAll(bid))
           ended == Ended(MonitoredAll(bid))
           events == TradeEvents(ended)
<1>1. /\ active' = open /\ log' = log \o events
      /\ UNCHANGED <<kind, pending, lost, skipped>>
  BY DEF Tick, TickWithoutData, MonitoredAll
<1>2. restarts \in Nat /\ log \in Seq(Event) /\ active \in Seq(Trade)
  BY DEF IInv, TypeInv
<1> HIDE DEF open, ended, events
<1>3. ASSUME NEW v \in VariantsOf(kind)
      PROVE  /\ Count(log', EndedOf(v)) + Count(active', OfVariant(v))
                  = Count(log, EndedOf(v)) + Count(active, OfVariant(v))
             /\ Count(log', EnteredBy(v)) = Count(log, EnteredBy(v))
  <2>1. /\ ended \in Seq(Trade) /\ (\A t \in ToSet(ended) : t.stop > 0 /\ RUnit % t.stop = 0)
        /\ Count(open, OfVariant(v)) + Count(ended, OfVariant(v)) = Count(active, OfVariant(v))
    BY TickCount DEF open, ended
  <2>2. /\ events \in Seq(Event)
        /\ Count(events, EndedOf(v)) = Count(ended, OfVariant(v))
        /\ Count(events, EnteredBy(v)) = 0
    BY <1>2, <2>1, EventsCount DEF events
  <2>3. /\ Count(log', EndedOf(v)) = Count(log, EndedOf(v)) + Count(events, EndedOf(v))
        /\ Count(log', EnteredBy(v)) = Count(log, EnteredBy(v)) + Count(events, EnteredBy(v))
    BY <1>1, <1>2, <2>2, ConcatCount
  <2>4. open \in Seq(Trade)
    BY TickOutcome DEF open, IInv
  <2>5. /\ Count(log, EndedOf(v)) \in Nat /\ Count(log, EnteredBy(v)) \in Nat
        /\ Count(open, OfVariant(v)) \in Nat /\ Count(ended, OfVariant(v)) \in Nat
    BY <1>2, <2>1, <2>4, CountType
  <2> QED BY <1>1, <2>1, <2>2, <2>3, <2>5
<1>4. ASSUME NEW v \in VariantsOf(kind)
      PROVE  Count(log', EndedOf(v)) + Count(active', OfVariant(v))
               + Count(lost.trades', OfVariant(v)) + Count(skipped', OfVariant(v))
             = Count(log', EnteredBy(v)) + Count(pending', DueSetups(v))
               + Count(lost.setups', DueSetups(v))
  BY <1>1, <1>3 DEF AccountedInv
<1>5. AccountedInv'
  BY <1>1, <1>4, AccountedNext
<1>6. MarkedInv'
  BY <1>1 DEF MarkedInv
<1> QED
  BY <1>5, <1>6

\* A restart moves what is open and pending to what is lost.
LEMMA TablesRestart ==
    ASSUME IInv, MarkedInv, AccountedInv, Restart
    PROVE  MarkedInv' /\ AccountedInv'
<1>1. /\ active' = <<>> /\ pending' = <<>> /\ UNCHANGED <<kind, log, skipped>>
      /\ lost'.trades = lost.trades \o active /\ lost'.setups = lost.setups \o pending
  BY DEF Restart
<1>2. /\ active \in Seq(Trade) /\ lost.trades \in Seq(Trade) /\ pending \in Seq(PendingSetup)
      /\ lost.setups \in Seq(PendingSetup) /\ log \in Seq(Event) /\ skipped \in Seq(Trade)
  BY DEF IInv, TypeInv
<1>3. \A A : Count(<<>>, A) = 0
  <2> TAKE A
  <2>1. {n \in DOMAIN <<>> : <<>>[n] \in A} = {}
    OBVIOUS
  <2> QED BY <2>1, FS_EmptySet DEF Count
<1>4. ASSUME NEW v \in VariantsOf(kind)
      PROVE  Count(log', EndedOf(v)) + Count(active', OfVariant(v))
               + Count(lost.trades', OfVariant(v)) + Count(skipped', OfVariant(v))
             = Count(log', EnteredBy(v)) + Count(pending', DueSetups(v))
               + Count(lost.setups', DueSetups(v))
  <2>1. Count(lost.trades \o active, OfVariant(v))
          = Count(lost.trades, OfVariant(v)) + Count(active, OfVariant(v))
    BY <1>2, ConcatCount
  <2>2. Count(lost.setups \o pending, DueSetups(v))
          = Count(lost.setups, DueSetups(v)) + Count(pending, DueSetups(v))
    BY <1>2, ConcatCount
  <2>3. Count(active', OfVariant(v)) = 0 /\ Count(pending', DueSetups(v)) = 0
    BY <1>1, <1>3
  <2>4. /\ Count(log, EndedOf(v)) \in Nat /\ Count(log, EnteredBy(v)) \in Nat
        /\ Count(active, OfVariant(v)) \in Nat /\ Count(lost.trades, OfVariant(v)) \in Nat
        /\ Count(skipped, OfVariant(v)) \in Nat
        /\ Count(pending, DueSetups(v)) \in Nat /\ Count(lost.setups, DueSetups(v)) \in Nat
    BY <1>2, CountType
  <2>5. Count(log, EndedOf(v)) + Count(active, OfVariant(v))
          + Count(lost.trades, OfVariant(v)) + Count(skipped, OfVariant(v))
        = Count(log, EnteredBy(v)) + Count(pending, DueSetups(v))
          + Count(lost.setups, DueSetups(v))
    BY DEF AccountedInv
  <2> QED BY <1>1, <2>1, <2>2, <2>3, <2>4, <2>5
<1>5. AccountedInv'
  BY <1>1, <1>4, AccountedNext
<1>6. MarkedInv'
  BY <1>1 DEF MarkedInv, ToSet
<1> QED
  BY <1>5, <1>6

\* A new bar: what it makes due enters or is skipped, what ends is in the log, and
\* a setup that is done leaves its word there.
LEMMA TablesNewBar ==
    ASSUME IInv, MarkedInv, AccountedInv, NEW bid \in Prices, TickOfNewBar(bid)
    PROVE  MarkedInv' /\ AccountedInv'
<1> DEFINE open == Open(MonitoredAll(bid))
           ended == Ended(MonitoredAll(bid))
           aged == AgedAll(open, closed)
           held == Open(aged)
           expired == Ended(aged)
           setups == AdvancedAll(closed)
           entries == Entries(setups, closed)
           registered == IF Registered(closed) THEN entries ELSE <<>>
           kept == Those(setups, LAMBDA s : ~ Completed(s))
           done == Those(setups, Completed)
           told == SetupEvents(done)
           events == TradeEvents(ended \o expired)
           detected == Detected(closed)
           immediate == Immediate(closed)
<1>1. /\ TypeInv /\ OutcomeInv /\ Waiting /\ kind \in Kinds
      /\ closed \in PlacedBar /\ Sound(closed) /\ restarts \in Nat /\ log \in Seq(Event)
      /\ active \in Seq(Trade) /\ pending \in Seq(PendingSetup) /\ skipped \in Seq(Trade)
      /\ lost.trades \in Seq(Trade) /\ lost.setups \in Seq(PendingSetup)
  BY DEF IInv, TypeInv, ChartInv
<1>2. /\ active' = held \o registered \o immediate
      /\ pending' = kept \o detected
      /\ log' = log \o told \o events
      /\ skipped' = IF Registered(closed) THEN skipped ELSE skipped \o entries
      /\ UNCHANGED <<kind, lost>>
  BY DEF TickOfNewBar, MonitoredAll, AgedAll, AdvancedAll
<1>3. /\ open \in Seq(Trade) /\ ended \in Seq(Trade)
      /\ \A t \in ToSet(open) : Running(t) /\ HeldSince(t, processed)
      /\ \A t \in ToSet(ended) : t.stop > 0 /\ RUnit % t.stop = 0
  BY <1>1, TickOutcome
<1>4. setups \in Seq(PendingSetup) /\ Len(setups) = Len(pending)
  BY <1>1, AdvancedSetups
<1>5. /\ entries \in Seq(Trade)
      /\ told \in Seq(Event)
  BY NewBarKinds
<1>6. detected \in Seq(PendingSetup) /\ immediate \in Seq(Trade)
  BY <1>1, DetectedSetup
<1>7. /\ kept \in Seq(PendingSetup) /\ done \in Seq(PendingSetup)
      /\ \A s \in ToSet(kept) : ~ Completed(s) /\ s \in ToSet(setups)
      /\ \A s \in ToSet(done) : Completed(s)
      /\ \A A : Count(kept, A) + Count(done, A) = Count(setups, A)
  <2> HIDE DEF setups
  <2> QED BY <1>4, KeptAndDoneCount
<1>8. /\ held \in Seq(Trade) /\ expired \in Seq(Trade)
      /\ \A t \in ToSet(expired) : t.stop > 0 /\ RUnit % t.stop = 0
  <2> HIDE DEF open
  <2>1. processed \in Seq(PlacedBar)
    BY <1>1 DEF TypeInv
  <2> QED BY <1>1, <1>3, <2>1, AgeOutcome
<1>9. ASSUME NEW v \in VariantsOf(kind)
      PROVE  /\ Count(open, OfVariant(v)) + Count(ended, OfVariant(v))
                  = Count(active, OfVariant(v))
             /\ Count(held, OfVariant(v)) + Count(expired, OfVariant(v))
                  = Count(open, OfVariant(v))
             /\ Count(entries, OfVariant(v)) + Count(pending, DueSetups(v))
                  = Count(setups, DueSetups(v))
             /\ Count(immediate, OfVariant(v)) = Count(detected, DueSetups(v))
  <2>1. Count(open, OfVariant(v)) + Count(ended, OfVariant(v)) = Count(active, OfVariant(v))
    BY TickCount
  <2>2. Count(entries, OfVariant(v)) + Count(pending, DueSetups(v))
          = Count(setups, DueSetups(v))
    BY EntriesCount
  <2>3. Count(immediate, OfVariant(v)) = Count(detected, DueSetups(v))
    BY <1>1, DetectedCount
  <2>4. Count(held, OfVariant(v)) + Count(expired, OfVariant(v)) = Count(open, OfVariant(v))
    <3> HIDE DEF open
    <3> QED BY <1>1, <1>3, AgeCount
  <2> QED BY <2>1, <2>2, <2>3, <2>4
<1>10. MarkedInv'
  <2>1. \A k \in 1..Len(pending) : setups[k].confirmed \subseteq 1..setups[k].elapsed
    <3>1. kind = "entry" \/ kind = "breakout"
      BY <1>1, TimingAnalyzerAssumption
    <3>2. "IMMEDIATE" \in VariantsOf(kind)
      BY DEF VariantsOf
    <3> QED BY <3>2, EntriesCount
  <2>2. \A s \in ToSet(detected) : s.confirmed = {}
    BY <1>1, DetectedSetup
  <2> HIDE DEF setups, kept, detected
  <2>3. \A s \in ToSet(setups) : s.confirmed \subseteq 1..s.elapsed
    BY <1>4, <2>1, LenProperties DEF ToSet
  <2>4. ToSet(pending') = ToSet(kept) \cup ToSet(detected)
    BY <1>2, <1>6, <1>7, ToSetConcat
  <2>5. \A s \in ToSet(pending') : s.confirmed \subseteq 1..s.elapsed
    BY <1>7, <2>2, <2>3, <2>4
  <2> QED BY <2>5 DEF MarkedInv
<1> HIDE DEF open, ended, aged, held, expired, setups, entries, kept, done, detected, immediate
<1> DEFINE ends == ended \o expired
<1>11. /\ ends \in Seq(Trade) /\ \A t \in ToSet(ends) : t.stop > 0 /\ RUnit % t.stop = 0
  <2>1. ends \in Seq(Trade) /\ ToSet(ends) = ToSet(ended) \cup ToSet(expired)
    BY <1>3, <1>8, ConcatElements, ToSetConcat
  <2> QED BY <1>3, <1>8, <2>1
<1>12. ASSUME NEW v \in VariantsOf(kind)
       PROVE  /\ Count(told, EnteredBy(v)) = Count(done, DueSetups(v))
              /\ Count(told, EndedOf(v)) = 0
              /\ events \in Seq(Event)
              /\ Count(events, EndedOf(v)) = Count(ended, OfVariant(v)) + Count(expired, OfVariant(v))
              /\ Count(events, EnteredBy(v)) = 0
  <2>1. /\ Count(told, EnteredBy(v)) = Count(done, DueSetups(v))
        /\ Count(told, EndedOf(v)) = 0
    BY <1>1, <1>7, SetupEventsCount
  <2>2. Count(ends, OfVariant(v)) = Count(ended, OfVariant(v)) + Count(expired, OfVariant(v))
    BY <1>3, <1>8, ConcatCount
  <2>3. events = TradeEvents(ends)
    OBVIOUS
  <2> HIDE DEF ends, events
  <2>4. /\ events \in Seq(Event)
        /\ Count(events, EndedOf(v)) = Count(ends, OfVariant(v))
        /\ Count(events, EnteredBy(v)) = 0
    BY <1>1, <1>11, <2>3, EventsCount
  <2> QED BY <2>1, <2>2, <2>4
<1> HIDE DEF told, events, ends
<1>13. ASSUME NEW v \in VariantsOf(kind)
       PROVE  Count(log', EndedOf(v)) + Count(active', OfVariant(v))
                + Count(lost.trades', OfVariant(v)) + Count(skipped', OfVariant(v))
              = Count(log', EnteredBy(v)) + Count(pending', DueSetups(v))
                + Count(lost.setups', DueSetups(v))
  <2> DEFINE before == log \o told
             begun == held \o registered
  <2>0. PICK A, B, C, D :
           A = OfVariant(v) /\ B = DueSetups(v) /\ C = EndedOf(v) /\ D = EnteredBy(v)
    OBVIOUS
  <2>1. /\ before \in Seq(Event)
        /\ Count(before, C) = Count(log, C) + Count(told, C)
        /\ Count(before, D) = Count(log, D) + Count(told, D)
    BY <1>1, <1>5, ConcatElements, ConcatCount
  <2>2. log' = before \o events /\ events \in Seq(Event)
    BY <1>2, <1>12
  <2>3. registered \in Seq(Trade)
        /\ Count(registered, A) + Count(skipped', A) = Count(entries, A) + Count(skipped, A)
    <3>1. Count(entries, A) \in Nat /\ Count(skipped, A) \in Nat
      BY <1>1, <1>5, CountType
    <3>2. CASE Registered(closed)
      BY <1>2, <1>5, <3>1, <3>2
    <3>3. CASE ~ Registered(closed)
      <4>1. Count(<<>>, A) = 0
        <5>1. {n \in DOMAIN <<>> : <<>>[n] \in A} = {}
          OBVIOUS
        <5> QED BY <5>1, FS_EmptySet DEF Count
      <4>2. Count(skipped \o entries, A) = Count(skipped, A) + Count(entries, A)
        BY <1>1, <1>5, ConcatCount
      <4>3. registered = <<>> /\ skipped' = skipped \o entries
        BY <1>2, <3>3
      <4> HIDE DEF registered
      <4>4. Count(registered, A) = 0 /\ Count(skipped', A) = Count(skipped, A) + Count(entries, A)
        BY <4>1, <4>2, <4>3
      <4>5. registered \in Seq(Trade)
        BY <4>3
      <4> QED BY <3>1, <4>4, <4>5
    <3> QED BY <3>2, <3>3
  <2> HIDE DEF registered, before
  <2>4. /\ begun \in Seq(Trade) /\ Count(begun, A) = Count(held, A) + Count(registered, A)
    BY <1>8, <2>3, ConcatElements, ConcatCount
  <2>5. active' = begun \o immediate
    BY <1>2
  <2> HIDE DEF begun
  <2>6. Count(active', A) = Count(begun, A) + Count(immediate, A)
    BY <1>6, <2>4, <2>5, ConcatCount
  <2>7. /\ Count(log', C) = Count(before, C) + Count(events, C)
        /\ Count(log', D) = Count(before, D) + Count(events, D)
    BY <2>1, <2>2, ConcatCount
  <2>8. Count(pending', B) = Count(kept, B) + Count(detected, B)
    BY <1>2, <1>6, <1>7, ConcatCount
  <2>9. /\ Count(open, A) + Count(ended, A) = Count(active, A)
        /\ Count(held, A) + Count(expired, A) = Count(open, A)
        /\ Count(entries, A) + Count(pending, B) = Count(setups, B)
        /\ Count(immediate, A) = Count(detected, B)
        /\ Count(kept, B) + Count(done, B) = Count(setups, B)
    BY <1>7, <1>9, <2>0
  <2>10. /\ Count(told, D) = Count(done, B) /\ Count(told, C) = 0
         /\ Count(events, C) = Count(ended, A) + Count(expired, A) /\ Count(events, D) = 0
    BY <1>12, <2>0
  <2>11. Count(log, C) + Count(active, A) + Count(lost.trades, A) + Count(skipped, A)
           = Count(log, D) + Count(pending, B) + Count(lost.setups, B)
    BY <2>0 DEF AccountedInv
  <2>12. lost' = lost
    BY <1>2
  <2>13. /\ Count(log, C) \in Nat /\ Count(log, D) \in Nat /\ Count(active, A) \in Nat
         /\ Count(lost.trades, A) \in Nat /\ Count(skipped, A) \in Nat
         /\ Count(pending, B) \in Nat /\ Count(lost.setups, B) \in Nat
         /\ Count(open, A) \in Nat /\ Count(ended, A) \in Nat /\ Count(held, A) \in Nat
         /\ Count(expired, A) \in Nat /\ Count(entries, A) \in Nat
         /\ Count(setups, B) \in Nat /\ Count(immediate, A) \in Nat
         /\ Count(kept, B) \in Nat /\ Count(done, B) \in Nat /\ Count(detected, B) \in Nat
    BY <1>1, <1>3, <1>4, <1>5, <1>6, <1>7, <1>8, CountType
  <2>14. Count(registered, A) \in Nat /\ Count(skipped', A) \in Nat
    <3>1. skipped' \in Seq(Trade)
      BY <1>1, <1>2, <1>5, ConcatElements
    <3> QED BY <2>3, <3>1, CountType
  <2>15. Count(log', C) = Count(log, C) + Count(ended, A) + Count(expired, A)
         /\ Count(log', D) = Count(log, D) + Count(done, B)
    <3>1. Count(before, C) = Count(log, C) /\ Count(before, D) = Count(log, D) + Count(done, B)
      BY <2>1, <2>10, <2>13
    <3>2. Count(log', C) = Count(log, C) + (Count(ended, A) + Count(expired, A))
      BY <2>7, <2>10, <3>1
    <3>3. Count(log', D) = Count(log, D) + Count(done, B)
      BY <2>7, <2>10, <2>13, <3>1
    <3> QED BY <2>13, <3>2, <3>3
  <2>16. Count(active', A) = Count(held, A) + Count(registered, A) + Count(immediate, A)
    BY <2>4, <2>6
  <2>17. Count(ended, A) + Count(expired, A) + Count(held, A) = Count(active, A)
    BY <2>9, <2>13
  <2>18. Count(pending', B) + Count(done, B) = Count(entries, A) + Count(pending, B) + Count(immediate, A)
    BY <2>8, <2>9, <2>13
  <2>19. /\ Count(log', C) \in Nat /\ Count(active', A) \in Nat
         /\ Count(log', D) \in Nat /\ Count(pending', B) \in Nat
    BY <2>8, <2>13, <2>14, <2>15, <2>16
  <2>20. Count(log', C) + Count(active', A)
           = Count(log, C) + Count(active, A) + Count(registered, A) + Count(immediate, A)
    BY <2>13, <2>14, <2>15, <2>16, <2>17
  <2>21. Count(log', D) + Count(pending', B)
           = Count(log, D) + Count(pending, B) + Count(entries, A) + Count(immediate, A)
    <3>1. PICK a \in Nat, b \in Nat, c \in Nat, d \in Nat, e \in Nat, f \in Nat :
             /\ a = Count(log, D) /\ b = Count(done, B) /\ c = Count(pending', B)
             /\ d = Count(entries, A) /\ e = Count(pending, B) /\ f = Count(immediate, A)
      BY <2>13, <2>19
    <3>2. c + b = d + e + f
      BY <2>18, <3>1
    <3>3. a + b + c = a + e + d + f
      BY ONLY a \in Nat, b \in Nat, c \in Nat, d \in Nat, e \in Nat, f \in Nat, <3>2
    <3> QED BY <2>15, <3>1, <3>3
  <2>22. Count(log', C) + Count(active', A) + Count(lost.trades, A) + Count(skipped', A)
           = Count(log', D) + Count(pending', B) + Count(lost.setups, B)
    <3>1. PICK p \in Nat, q \in Nat, r \in Nat, t \in Nat, l \in Nat, m \in Nat, n \in Nat :
             /\ p = Count(log', C) /\ q = Count(active', A)
             /\ r = Count(log', D) /\ t = Count(pending', B)
             /\ l = Count(lost.trades, A) /\ m = Count(skipped', A) /\ n = Count(lost.setups, B)
      BY <2>13, <2>14, <2>19
    <3>2. PICK a \in Nat, b \in Nat, c \in Nat, d \in Nat, e \in Nat, f \in Nat, g \in Nat, h \in Nat :
             /\ a = Count(log, C) /\ b = Count(active, A) /\ c = Count(registered, A)
             /\ d = Count(immediate, A) /\ e = Count(log, D) /\ f = Count(pending, B)
             /\ g = Count(entries, A) /\ h = Count(skipped, A)
      BY <2>13, <2>14
    <3>3. /\ p + q = a + b + c + d /\ r + t = e + f + g + d
          /\ c + m = g + h /\ a + b + l + h = e + f + n
      BY <2>3, <2>11, <2>20, <2>21, <3>1, <3>2
    <3>4. p + q + l + m = r + t + n
      BY <3>3
    <3> QED BY <3>1, <3>4
  <2> QED BY <2>0, <2>12, <2>22
<1>14. AccountedInv'
  BY <1>2, <1>13, AccountedNext
<1> QED
  BY <1>10, <1>14

\* Every step keeps the accounts.
LEMMA TablesStep == TablesIInv /\ [Next]_vars => TablesIInv'
<1> SUFFICES ASSUME TablesIInv, [Next]_vars PROVE TablesIInv'
  OBVIOUS
<1>0. IInv /\ MarkedInv /\ AccountedInv
  BY DEF TablesIInv
<1>1. IInv'
  BY <1>0, OutcomesStep
<1>2. MarkedInv' /\ AccountedInv'
  <2>1. CASE BarOpens
    BY <1>0, <2>1, TablesUnchanged DEF BarOpens
  <2>2. CASE \E bid \in Prices : Tick(bid) \/ TickWithoutData(bid)
    BY <1>0, <2>2, TablesTick
  <2>3. CASE \E bid \in Prices : TickOfNewBar(bid)
    BY <1>0, <2>3, TablesNewBar
  <2>4. CASE Restart
    BY <1>0, <2>4, TablesRestart
  <2>5. CASE UNCHANGED vars
    BY <1>0, <2>5, TablesUnchanged DEF vars
  <2> QED BY <2>1, <2>2, <2>3, <2>4, <2>5 DEF Next
<1> QED
  BY <1>1, <1>2 DEF TablesIInv

\* The accounts behind the reports' tables are kept through every step: per
\* variant, the trades ended, open, lost or skipped are as many as the setups that
\* the log, the pending ones and the lost ones say were to enter by it.
THEOREM TablesInvariant == Spec => []TablesIInv
<1>1. Init => TablesIInv
  BY OutcomesInit, TablesInit DEF TablesIInv
<1>2. TablesIInv /\ [Next]_vars => TablesIInv'
  BY TablesStep
<1> QED
  BY <1>1, <1>2, PTL DEF Spec

-----------------------------------------------------------------------------
(* The reports' tables.                                                    *)

Row == [variant : Variants, entry_bar_time : Nat, net_pnl : Int, mfe_r : Int, mae_r : Int]

\* How many pass a test.
LEMMA CountOfThose ==
    ASSUME NEW S, NEW s \in Seq(S), NEW A, NEW P, \A n \in 1..Len(s) : n \in P <=> s[n] \in A
    PROVE  Len(Sublist(s, P)) = Count(s, A)
<1>1. P \cap (1..Len(s)) = {n \in 1..Len(s) : s[n] \in A}
  OBVIOUS
<1>2. Len(Sublist(s, P)) = Cardinality(P \cap (1..Len(s)))
  BY SublistLength
<1>3. Count(s, A) = Cardinality({n \in 1..Len(s) : s[n] \in A})
  BY CountType
<1> QED
  BY <1>1, <1>2, <1>3

\* The rows of the trades' table are the trades of the log.
LEMMA RowsOfTheLog ==
    ASSUME TypeInv, NEW v
    PROVE  /\ ExtractTrades(log) \in Seq(Row)
           /\ Count(ExtractTrades(log), {r \in Row : r.variant = v}) = Count(log, EndedOf(v))
<1> DEFINE P == {n \in DOMAIN log : log[n].type = "TRADE"}
           t == Sublist(log, P)
           x == ExtractTrades(log)
<1>1. log \in Seq(Event)
  BY DEF TypeInv
<1>2. PICK b : Picks(b, t, log, P \cap (1..Len(log)))
  BY <1>1, SublistPicks
<1>3. t \in Seq(Event) /\ Len(t) \in Nat /\ DOMAIN t = 1..Len(t) /\ DOMAIN log = 1..Len(log)
  BY <1>1, SublistPicks, LenProperties
<1>4. x = [k \in DOMAIN t |->
             [variant |-> t[k].variant, entry_bar_time |-> t[k].entered,
              net_pnl |-> t[k].pnl_r, mfe_r |-> t[k].mfe_r, mae_r |-> t[k].mae_r]]
  BY DEF ExtractTrades, Those
<1>5. \A n \in P : n \in 1..Len(log) /\ log[n].type = "TRADE"
  BY <1>3
<1> HIDE DEF P, t, x
<1>6. \A k \in 1..Len(t) : t[k] \in TradeEventType
  <2>1. \A k \in 1..Len(t) : t[k] \in Event /\ t[k].type = "TRADE"
    BY <1>2, <1>3, <1>5, ElementOfSeq DEF Picks
  <2>2. \A e \in Event : e.type = "TRADE" => e \in TradeEventType
    BY DEF Event, SetupEventType
  <2> QED BY <2>1, <2>2
<1>7. x = [k \in 1..Len(t) |-> x[k]]
      /\ \A k \in 1..Len(t) : x[k] \in Row /\ x[k].variant = t[k].variant
  BY <1>3, <1>4, <1>6 DEF TradeEventType, Row
<1>8. x \in Seq(Row) /\ Len(x) = Len(t)
  BY <1>3, <1>7, MapIsSeq
<1> DEFINE R == {r \in Row : r.variant = v}
<1>9. \A k \in 1..Len(x) : x[k] \in R <=> t[k] \in EndedOf(v)
  BY <1>6, <1>7, <1>8 DEF EndedOf
<1> HIDE DEF R
<1>10. Count(x, R) = Count(t, EndedOf(v))
  BY <1>3, <1>8, <1>9, MapCount
<1>11. Count(t, EndedOf(v)) = Cardinality({n \in P \cap (1..Len(log)) : log[n] \in EndedOf(v)})
  BY <1>1, SublistCount DEF t
<1>12. {n \in P \cap (1..Len(log)) : log[n] \in EndedOf(v)}
         = {n \in 1..Len(log) : log[n] \in EndedOf(v)}
  BY <1>3 DEF P, EndedOf, TradeEventType
<1>13. Count(t, EndedOf(v)) = Count(log, EndedOf(v))
  BY <1>1, <1>11, <1>12, CountType
<1> QED
  BY <1>8, <1>10, <1>13 DEF x, R

\* The setups' table counts those that were to enter by a variant.
LEMMA SetupsOfTheLog ==
    ASSUME TypeInv, NEW v \in VariantsOf(kind)
    PROVE  DueByTable(v) = Count(log, EnteredBy(v))
<1> DEFINE P == {n \in DOMAIN log : log[n].type = "SETUP"}
           x == Sublist(log, P)
           A == EnteredBy(v)
<1>1. log \in Seq(Event)
  BY DEF TypeInv
<1>2. PICK b : Picks(b, x, log, P \cap (1..Len(log)))
  BY <1>1, SublistPicks
<1>3. x \in Seq(Event) /\ Len(x) \in Nat /\ DOMAIN x = 1..Len(x) /\ DOMAIN log = 1..Len(log)
  BY <1>1, SublistPicks, LenProperties
<1>4. ExtractSetups(log) = x
  BY DEF ExtractSetups, Those
<1>5. \A n \in P : n \in 1..Len(log) /\ log[n].type = "SETUP"
  BY <1>3
<1>12. {n \in P \cap (1..Len(log)) : log[n] \in A} = {n \in 1..Len(log) : log[n] \in A}
  BY <1>3 DEF EnteredBy, SetupEventType
<1> HIDE DEF P, x
<1>6. \A k \in 1..Len(x) : x[k] \in SetupEventType
  <2>1. \A k \in 1..Len(x) : x[k] \in Event /\ x[k].type = "SETUP"
    BY <1>2, <1>3, <1>5, ElementOfSeq DEF Picks
  <2>2. \A e \in Event : e.type = "SETUP" => e \in SetupEventType
    BY DEF Event, TradeEventType
  <2> QED BY <2>1, <2>2
<1>7. Count(x, A) = Count(log, A)
  <2>1. Count(x, A) = Cardinality({n \in P \cap (1..Len(log)) : log[n] \in A})
    BY <1>1, SublistCount DEF x
  <2> QED BY <1>1, <1>12, <2>1, CountType
<1>8. CASE v = "WAIT_TRIGGER"
  <2> DEFINE Q == {n \in DOMAIN x : x[n].confirmed # {}}
  <2>0. kind # "breakout"
    BY <1>8 DEF VariantsOf
  <2>1. DueByTable(v) = Len(Sublist(x, Q))
    BY <1>4, <1>8, <2>0 DEF DueByTable, PreEntryExcursionSummary, Those
  <2>2. \A n \in 1..Len(x) : n \in Q <=> x[n] \in A
    BY <1>3, <1>6, <1>8, <2>0 DEF EnteredBy
  <2> HIDE DEF Q, A
  <2> QED BY <1>3, <1>7, <2>1, <2>2, CountOfThose DEF A
<1>9. CASE v # "WAIT_TRIGGER" /\ kind = "breakout" /\ IndexOf(v) > 0
  <2> DEFINE Q == {n \in DOMAIN x : IndexOf(v) \in x[n].confirmed}
  <2>0. IndexOf(v) \in 1..3
    BY <1>9, IndexIsWhole DEF VariantsOf, Variants
  <2>1. DueByTable(v) = Len(Sublist(x, Q))
    <3>1. DueByTable(v) = ConfirmationHoldSummary(x).held[IndexOf(v)]
      BY <1>4, <1>9 DEF DueByTable
    <3>2. ConfirmationHoldSummary(x).held
            = [n \in 1..3 |-> Len(Those(x, LAMBDA s : n \in s.confirmed))]
      BY DEF ConfirmationHoldSummary
    <3>3. PICK i \in 1..3 : i = IndexOf(v)
      BY <2>0
    <3>4. [n \in 1..3 |-> Len(Those(x, LAMBDA s : n \in s.confirmed))][i]
            = Len(Those(x, LAMBDA s : i \in s.confirmed))
      OBVIOUS
    <3>5. Those(x, LAMBDA s : i \in s.confirmed) = Sublist(x, {n \in DOMAIN x : i \in x[n].confirmed})
      BY DEF Those
    <3> QED BY <3>1, <3>2, <3>3, <3>4, <3>5
  <2>2. \A n \in 1..Len(x) : n \in Q <=> x[n] \in A
    BY <1>3, <1>6, <1>9 DEF EnteredBy
  <2> HIDE DEF Q, A
  <2> QED BY <1>3, <1>7, <2>1, <2>2, CountOfThose DEF A
<1>10. CASE v # "WAIT_TRIGGER" /\ ~ (kind = "breakout" /\ IndexOf(v) > 0)
  <2>1. DueByTable(v) = Len(x)
    BY <1>4, <1>10 DEF DueByTable, Excursions
  <2>2. \A n \in 1..Len(x) : x[n] \in A
    BY <1>3, <1>6, <1>10 DEF EnteredBy
  <2> HIDE DEF A
  <2>3. Len(x) = Count(x, A)
    <3>1. {n \in 1..Len(x) : x[n] \in A} = 1..Len(x)
      BY <2>2
    <3>2. Cardinality(1..Len(x)) = Len(x)
      <4>1. PICK m \in Nat : m = Len(x)
        BY <1>3
      <4>2. Cardinality(1..m) = IF 1 > m THEN 0 ELSE m - 1 + 1
        BY FS_Interval
      <4> QED BY <4>1, <4>2
    <3> QED BY <1>3, <3>1, <3>2, CountType
  <2> QED BY <1>7, <2>1, <2>3 DEF A
<1> QED
  BY <1>8, <1>9, <1>10

\* The setups that are not in the table yet, and the trades of a variant.
LEMMA UnfinishedCount ==
    ASSUME NEW x \in Seq(PendingSetup), NEW v
    PROVE  Len(Those(x, LAMBDA s : WasDue(s, v))) = Count(x, DueSetups(v))
<1> DEFINE Q == {n \in DOMAIN x : WasDue(x[n], v)}
<1>1. Those(x, LAMBDA s : WasDue(s, v)) = Sublist(x, Q)
  BY DEF Those
<1>2. \A n \in 1..Len(x) : n \in Q <=> x[n] \in DueSetups(v)
  BY LenProperties, ElementOfSeq DEF DueSetups
<1> HIDE DEF Q
<1> QED
  BY <1>1, <1>2, CountOfThose

LEMMA VariantCount ==
    ASSUME NEW S, NEW x \in Seq(S), NEW v
    PROVE  Len(Those(x, LAMBDA t : t.variant = v)) = Count(x, {t \in S : t.variant = v})
<1> DEFINE Q == {n \in DOMAIN x : x[n].variant = v}
           A == {t \in S : t.variant = v}
<1>1. Those(x, LAMBDA t : t.variant = v) = Sublist(x, Q)
  BY DEF Those
<1>2. \A n \in 1..Len(x) : n \in Q <=> x[n] \in A
  BY LenProperties, ElementOfSeq
<1> HIDE DEF Q, A
<1> QED
  BY <1>1, <1>2, CountOfThose DEF A

\* A variant's row is accounted for when the log is.
LEMMA RowsAreAccountedFor ==
    ASSUME TypeInv, AccountedInv, NEW v \in VariantsOf(kind)
    PROVE  AccountedFor(VariantSummary(ExtractTrades(log))[v], v)
<1> DEFINE row == VariantSummary(ExtractTrades(log))[v]
<1>1. row.totals.number_of_trades = Len(Those(ExtractTrades(log), LAMBDA t : t.variant = v))
  BY DEF VariantSummary, AggregateTradeGroup
<1>2. row.totals.number_of_trades = Count(log, EndedOf(v))
  <2>1. ExtractTrades(log) \in Seq(Row)
    BY RowsOfTheLog
  <2>2. Len(Those(ExtractTrades(log), LAMBDA t : t.variant = v))
          = Count(ExtractTrades(log), {t \in Row : t.variant = v})
    BY <2>1, VariantCount, ZenonT(30)
  <2> QED BY <1>1, <2>2, RowsOfTheLog
<1> HIDE DEF row
<1>3. /\ active \in Seq(Trade) /\ lost.trades \in Seq(Trade) /\ skipped \in Seq(Trade)
      /\ pending \in Seq(PendingSetup) /\ lost.setups \in Seq(PendingSetup)
  BY DEF TypeInv
<1>4. /\ Len(Those(active, LAMBDA t : t.variant = v)) = Count(active, OfVariant(v))
      /\ Len(Those(lost.trades, LAMBDA t : t.variant = v)) = Count(lost.trades, OfVariant(v))
      /\ Len(Those(skipped, LAMBDA t : t.variant = v)) = Count(skipped, OfVariant(v))
  <2>1. ASSUME NEW x \in Seq(Trade)
        PROVE  Len(Those(x, LAMBDA t : t.variant = v)) = Count(x, OfVariant(v))
    BY VariantCount, ZenonT(30) DEF OfVariant
  <2> QED BY <1>3, <2>1
<1>5. /\ Len(Those(pending, LAMBDA s : WasDue(s, v))) = Count(pending, DueSetups(v))
      /\ Len(Those(lost.setups, LAMBDA s : WasDue(s, v))) = Count(lost.setups, DueSetups(v))
  BY <1>3, UnfinishedCount
<1>6. Count(log, EndedOf(v)) + Count(active, OfVariant(v))
          + Count(lost.trades, OfVariant(v)) + Count(skipped, OfVariant(v))
        = DueByTable(v) + Count(pending, DueSetups(v)) + Count(lost.setups, DueSetups(v))
  BY SetupsOfTheLog DEF AccountedInv
<1>7. AccountedFor(row, v)
  BY <1>2, <1>4, <1>5, <1>6 DEF AccountedFor
<1> QED
  BY <1>7 DEF row

\* The deepest fall of a curve of R multiples is at most what was lost by the trades
\* that entered after the first bar of the curve.
LEMMA FallsByLosses ==
    ASSUME NEW part \in Seq(Row), ~ CurveRefused(EquityCurveFromPnlR(part))
    PROVE  SummarizeDrawdown(EquityCurveFromPnlR(part)).amount
             <= - LaterLosses(part)
<1> DEFINE T == {part[k].entry_bar_time : k \in DOMAIN part}
           Until(t) == {n \in DOMAIN part : part[n].entry_bar_time <= t}
           points == EquityCurveFromPnlR(part)
           L == {n \in DOMAIN part :
                   /\ part[n].net_pnl < 0
                   /\ \E k \in DOMAIN part : part[k].entry_bar_time < part[n].entry_bar_time}
           amount == SummarizeDrawdown(points).amount
           loss == LaterLosses(part)
<1>1. Len(part) \in Nat /\ DOMAIN part = 1..Len(part)
  BY LenProperties
<1>2. \A k \in DOMAIN part : part[k] \in Row
  BY <1>1, ElementOfSeq
<1>3. \A x \in Row : x.net_pnl \in Int
  BY DEF Row
<1>4. T \in SUBSET Int /\ IsFiniteSet(T)
  <2>1. IsFiniteSet(DOMAIN part)
    BY <1>1, FS_Interval
  <2>2. \A k \in DOMAIN part : part[k].entry_bar_time \in Int
    BY <1>2 DEF Row
  <2> DEFINE f == [k \in DOMAIN part |-> part[k].entry_bar_time]
  <2>3. T = {f[k] : k \in DOMAIN part}
    OBVIOUS
  <2> HIDE DEF f, T
  <2>4. IsFiniteSet(T)
    BY <2>1, <2>3, FiniteImage
  <2> QED BY <2>2, <2>4 DEF T
<1>5. points = [t \in T |-> BaselineR + NetPnl(Sublist(part, Until(t)))]
  BY DEF EquityCurveFromPnlR, Those
<1>6. loss = NetPnl(Sublist(part, L))
  BY DEF LaterLosses, Those
<1>7. \A n \in 1..Len(part) : n \in L => part[n].net_pnl < 0
  BY <1>1
<1>8. BaselineR \in Int
  BY TimingAnalyzerAssumption DEF BaselineR
<1>9. ASSUME NEW P, NEW Q, P \subseteq Q,
             \A n \in 1..Len(part) : n \in Q \ P /\ part[n].net_pnl < 0 => n \in L
      PROVE  /\ NetPnl(Sublist(part, P)) \in Int /\ NetPnl(Sublist(part, Q)) \in Int
             /\ loss \in Int
             /\ NetPnl(Sublist(part, P)) - NetPnl(Sublist(part, Q)) <= - loss
  <2> HIDE DEF L, loss
  <2> QED BY <1>3, <1>6, <1>7, <1>9, FallIsLost
<1>10. ASSUME NEW u \in T, NEW t \in T, u <= t
       PROVE  /\ Until(u) \subseteq Until(t)
              /\ \A n \in 1..Len(part) :
                    n \in Until(t) \ Until(u) /\ part[n].net_pnl < 0 => n \in L
  <2>1. \A n \in DOMAIN part : part[n].entry_bar_time \in Int
    BY <1>2 DEF Row
  <2>2. u \in Int /\ t \in Int
    BY <1>4
  <2>3. PICK k \in DOMAIN part : part[k].entry_bar_time = u
    OBVIOUS
  <2> HIDE DEF T
  <2>4. Until(u) \subseteq Until(t)
    BY <1>10, <2>1, <2>2
  <2>5. ASSUME NEW n \in 1..Len(part), n \in Until(t) \ Until(u), part[n].net_pnl < 0
        PROVE  n \in L
    <3>1. n \in DOMAIN part /\ part[k].entry_bar_time < part[n].entry_bar_time
      BY <1>1, <2>1, <2>2, <2>3, <2>5
    <3> QED BY <2>5, <3>1
  <2> QED BY <2>4, <2>5
<1> HIDE DEF T, Until, L, loss, points
<1>11. points \in [T -> Int]
  <2>1. \A t \in T : NetPnl(Sublist(part, Until(t))) \in Int
    <3>1. \A t \in T : Until(t) \subseteq Until(t) /\ Until(t) \ Until(t) = {}
      OBVIOUS
    <3> QED BY <1>9, <3>1
  <2>2. \A t \in T : BaselineR + NetPnl(Sublist(part, Until(t))) \in Int
    BY <1>8, <2>1
  <2> QED BY <1>5, <2>2
<1>12. \/ amount = 0
       \/ \E u, t \in T : u <= t /\ amount = points[u] - points[t]
  <2>1. ~ CurveRefused(points)
    BY DEF points
  <2> QED BY <1>4, <1>11, <2>1, DrawdownIsFall
<1> HIDE DEF amount
<1>13. CASE amount = 0
  <2>1. loss \in Int /\ NetPnl(Sublist(part, {})) \in Int
        /\ NetPnl(Sublist(part, {})) - NetPnl(Sublist(part, {})) <= - loss
    BY <1>9, {} \subseteq {}, {} \ {} = {}
  <2> QED BY <1>13, <2>1 DEF amount, loss, points
<1>14. ASSUME NEW u \in T, NEW t \in T, u <= t, amount = points[u] - points[t]
       PROVE  amount <= - loss
  <2>1. /\ NetPnl(Sublist(part, Until(u))) \in Int /\ NetPnl(Sublist(part, Until(t))) \in Int
        /\ loss \in Int
        /\ NetPnl(Sublist(part, Until(u))) - NetPnl(Sublist(part, Until(t))) <= - loss
    BY <1>9, <1>10, <1>14
  <2>2. /\ points[u] = BaselineR + NetPnl(Sublist(part, Until(u)))
        /\ points[t] = BaselineR + NetPnl(Sublist(part, Until(t)))
    BY <1>5
  <2> QED BY <1>8, <1>14, <2>1, <2>2
<1> QED
  BY <1>12, <1>13, <1>14 DEF amount, loss, points

\* A sound log makes the tables agree.
LEMMA TablesFollow == TypeInv /\ AccountedInv => TablesAgree
<1> SUFFICES ASSUME TypeInv, AccountedInv, NEW v \in VariantsOf(kind),
                    ~ VariantSummary(ExtractTrades(log))[v].refused
             PROVE  LET row == VariantSummary(ExtractTrades(log))[v]
                    IN  /\ AccountedFor(row, v)
                        /\ row.max_drawdown_r
                             <= - LaterLosses(Those(ExtractTrades(log),
                                                    LAMBDA t : t.variant = v))
  BY DEF TablesAgree
<1> DEFINE x == ExtractTrades(log)
           part == Those(x, LAMBDA t : t.variant = v)
           row == VariantSummary(x)[v]
<1>1. AccountedFor(row, v)
  BY RowsAreAccountedFor
<1>2. x \in Seq(Row)
  BY RowsOfTheLog
<1>3. part \in Seq(Row)
  <2> HIDE DEF x
  <2> QED BY <1>2, SublistPicks DEF Those
<1>4. /\ row.refused = CurveRefused(EquityCurveFromPnlR(part))
      /\ row.max_drawdown_r = SummarizeDrawdown(EquityCurveFromPnlR(part)).amount
  BY DEF VariantSummary
<1>5. ~ row.refused
  OBVIOUS
<1> HIDE DEF x, part, row
<1>6. row.max_drawdown_r <= - LaterLosses(part)
  BY <1>3, <1>4, <1>5, FallsByLosses
<1> QED
  BY <1>1, <1>6 DEF row, x, part

(* The tables of the reports agree after any number of restarts: for each  *)
(* variant its trades and the setups that were to enter by it are as many, *)
(* but for those open, pending, lost or skipped, and its drawdown is at    *)
(* most what its trades lost after the first bar at which it entered.      *)
THEOREM TablesAlwaysAgree == Spec => []TablesAgree
<1>1. TablesIInv => TablesAgree
  BY TablesFollow DEF TablesIInv, IInv
<1> QED
  BY <1>1, TablesInvariant, PTL

=============================================================================
