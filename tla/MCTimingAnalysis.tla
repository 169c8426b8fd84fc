-------------------------- MODULE MCTimingAnalysis --------------------------
(***************************************************************************)
(* Charts of six bars about a price of 10: a setup to buy and, while it is *)
(* pending, perhaps one to sell; bars that confirm them, fall back, or     *)
(* have no range (ATR 0).  Bids at which a trade stops, reaches its target *)
(* or stays open.                                                          *)
(***************************************************************************)
EXTENDS TimingReport

MCBar(close, level, atr, turns, setup) ==
    [high |-> close + 1, low |-> close - 1, close |-> close, level |-> level,
     atr |-> atr, turns |-> turns, setup |-> setup]

Setup == MCBar(10, 10, 2, FALSE, "BUY")
Rise == MCBar(11, 11, 2, TRUE, "NONE")
Again == MCBar(11, 11, 1, TRUE, "SELL")
Fall == MCBar(9, 9, 1, TRUE, "NONE")
Still == MCBar(10, 10, 0, FALSE, "NONE")

MCBars == [k \in {"entry", "breakout"} |->
    <<{Setup}, {Rise, Still}, {Fall, Again}, {Rise}, {Fall}, {Rise}>>]

MCPrices == {9, 13}

=============================================================================
