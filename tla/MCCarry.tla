------------------------------- MODULE MCCarry -------------------------------
(***************************************************************************)
(* Values for the constants of CarryRunner.  A unit is half a spot lot.    *)
(* The snapshots are a calm market, a rally that grows the pair and its    *)
(* basis, and one whose funding is too low to hold the pair.               *)
(***************************************************************************)
EXTENDS CarryRunner

Market(spotPx, perpPx, trailing) ==
  [spotPx |-> spotPx, perpPx |-> perpPx, funding |-> 100, trailing |-> trailing]

MCSnapshots == {Market(10, 10, 1), Market(15, 16, 1), Market(10, 10, -1)}

AnyFault == Legs \X FaultKinds

Anywhere == Steps \ {"idle"}

LiveOrDry == BOOLEAN
=============================================================================
