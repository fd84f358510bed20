----------------------- MODULE MCMailHealthIncidents -----------------------
(***************************************************************************)
(* Small instances of MailHealthIncidents for TLC.                         *)
(***************************************************************************)
EXTENDS MailHealthIncidents

SchedulerOnly == {"scheduler"}
SchedulerAndHandler == {"scheduler", "handler"}

\* One outcome that interrupts and one that does so only for all_signals.
TwoOutcomes == {"action_required", "no_action_likely_unauthorized_use"}
TwoActionable == {"action_required", "investigation_required"}
OneOutcome == {"action_required"}

Default == {"actionable_only"}
ThreePostures == {"actionable_only", "all_signals", "disabled"}
=============================================================================
