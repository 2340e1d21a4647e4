------------------------------ MODULE MCTrading ------------------------------
(***************************************************************************)
(* Values for the constants of TradingRuntime.  Prices are chosen so that  *)
(* a signal at 10 (stop 8 or 12, target 14 or 6) meets a bar that only     *)
(* moves, one that goes through the stop, one that goes through the        *)
(* target, and one that does both.                                         *)
(***************************************************************************)
EXTENDS TradingRuntime

Quote(open, high, low, close) == [open |-> open, high |-> high, low |-> low, close |-> close]

Flat  == Quote(10, 11, 9, 10)
Crash == Quote(10, 10, 6, 7)
Spike == Quote(10, 14, 10, 13)
Wide  == Quote(9, 15, 5, 11)

MCBars == {Flat, Crash, Spike, Wide}

Validation == [wall |-> FALSE, symbols |-> {"BTC"}, bars |-> MCBars, sizes |-> {100}]
Targeting  == [wall |-> FALSE, symbols |-> {"BTC"}, bars |-> {Flat, Crash}, sizes |-> {50, 150}]
Live       == [wall |-> TRUE, symbols |-> {"BTC", "ETH"}, bars |-> {Flat, Crash}, sizes |-> {100}]

MCSymbols == {"BTC", "ETH"}
MCMarkets == {Validation, Targeting, Live}

AnyFill == {"close", "mid", "next_open"}
=============================================================================
