--------------------------- MODULE MCAlertSummaries ---------------------------
(* AlertSummaries for TLC: the alerts are interchangeable. *)
EXTENDS AlertSummaries, TLC

Symmetry == Permutations(Alerts)
=============================================================================
