-------------------------- MODULE MCReportImport --------------------------
(***************************************************************************)
(* A small instance of ReportImport for TLC: two messages with a report    *)
(* each, for two senders, and a report about both from before the counters. *)
(***************************************************************************)
EXTENDS ReportImport

CONSTANTS m1, m2, r1, r2, old, a, b, w1

OneEach == [m \in Messages |-> IF m = m1 THEN r1 ELSE r2]
SenderOf == [r \in Reports |-> IF r = r1 THEN {a} ELSE IF r = r2 THEN {b} ELSE {a, b}]
HoldsOld == [r \in {w1} |-> old]
=============================================================================
