------------------------- MODULE SchedulerLifecycle -------------------------
(***************************************************************************)
(* SchedulerStore implements TaskLifecycle.                                *)
(***************************************************************************)
EXTENDS SchedulerStore

Staged(s) == IF session[s].state = "committing" THEN completion[s].terminal ELSE "none"

Lifecycle == INSTANCE TaskLifecycle WITH
  state <- [s \in Sessions |-> session[s].state],
  token <- [s \in Sessions |-> session[s].token],
  staged <- [s \in Sessions |-> Staged(s)]

(* Whatever the processes, workers and the clock do, every session lives   *)
(* the life of a TaskSessionState: each assignment under the next token,   *)
(* nothing after a cancellation but Cancelled, and no result published but *)
(* the one that was staged.                                                *)
EverySessionLives == Lifecycle!LifecycleSpec
=============================================================================
