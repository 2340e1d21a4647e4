------------------------------ MODULE MCMetrics ------------------------------
(***************************************************************************)
(* Bars of twelve hours, months of two days, and a run over three days and *)
(* two months.                                                             *)
(***************************************************************************)
EXTENDS Metrics

Up   == [trend |-> "UP", volatility |-> "LOW"]
Down == [trend |-> "DOWN", volatility |-> "HIGH"]

MCBars == {[open |-> 10, touch |-> 20, close |-> 20, context |-> Up],
           [open |-> 20, touch |-> 15, close |-> 10, context |-> Down]}

MCOrders == {[side |-> "BUY", quantity |-> 2, funded |-> TRUE],
             [side |-> "SELL", quantity |-> 1, funded |-> TRUE],
             [side |-> "SELL", quantity |-> 2, funded |-> FALSE]}
=============================================================================
