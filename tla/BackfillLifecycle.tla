------------------------- MODULE BackfillLifecycle -------------------------
(***************************************************************************)
(* What a backfill job promises: it waits, is worked on by one run at a    *)
(* time, and each run either reads the next page batch of the window or    *)
(* fails.  A failed run starts over at the first batch, until MaxAttempts  *)
(* runs were started; a job is completed once its last batch was read.     *)
(***************************************************************************)
EXTENDS Naturals

CONSTANTS Jobs, Batches, MaxAttempts

VARIABLES
  phase,    \* "absent", "waiting", "working", "completed" or "failed"
  next,     \* next[j]: batches of the window read without a failure in between
  attempts  \* attempts[j]: runs started

vars == <<phase, next, attempts>>

Init ==
  /\ phase = [j \in Jobs |-> "absent"]
  /\ next = [j \in Jobs |-> 0]
  /\ attempts = [j \in Jobs |-> 0]

Move(j, from, to) == phase[j] = from /\ phase' = [phase EXCEPT ![j] = to]

Submit(j) == Move(j, "absent", "waiting") /\ UNCHANGED <<next, attempts>>

Start(j) ==
  /\ Move(j, "waiting", "working")
  /\ attempts' = [attempts EXCEPT ![j] = @ + 1]
  /\ UNCHANGED next

ReadBatch(j) ==
  /\ Move(j, "working", IF next[j] + 1 < Batches[j] THEN "waiting" ELSE "completed")
  /\ next' = [next EXCEPT ![j] = @ + 1]
  /\ UNCHANGED attempts

Failure(j) ==
  /\ Move(j, "working", IF attempts[j] < MaxAttempts THEN "waiting" ELSE "failed")
  /\ next' = [next EXCEPT ![j] = 0]
  /\ UNCHANGED attempts

Next == \E j \in Jobs : Submit(j) \/ Start(j) \/ ReadBatch(j) \/ Failure(j)

Spec == Init /\ [][Next]_vars
=============================================================================
