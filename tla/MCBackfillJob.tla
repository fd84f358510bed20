--------------------------- MODULE MCBackfillJob ---------------------------
(***************************************************************************)
(* Small instances of BackfillJob for TLC.                                 *)
(***************************************************************************)
EXTENDS BackfillJob, TLC

\* Two jobs: the older one has a window of two page batches.
TwoJobs == {1, 2}
TwoJobBatches == [j \in TwoJobs |-> IF j = 1 THEN 2 ELSE 1]

\* One job, alone with its workers and operators.
OneJob == {1}
OneJobBatches == [j \in OneJob |-> 2]

NoCalls == {}
JobCalls == {"cancel", "retry"}
SourceCalls == {"cancel", "retry", "delete", "toggle"}
=============================================================================
