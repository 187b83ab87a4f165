---------------------------- MODULE MCMetricsStore -----------------------------
(***************************************************************************)
(* Model checking MetricsStore: producers are interchangeable.             *)
(***************************************************************************)
EXTENDS MetricsStore, TLC

ProducerSymmetry == Permutations(Producers)
================================================================================
