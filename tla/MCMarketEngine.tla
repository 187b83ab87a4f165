--------------------------- MODULE MCMarketEngine ---------------------------
(* The small instance of MarketEngine that TLC checks. *)
EXTENDS MarketEngine

\* The handlers that call the controls are interchangeable.
CallerSymmetry == Permutations(Callers)
=============================================================================
