--------------------------- MODULE TaskLifecycle ---------------------------
(***************************************************************************)
(* What the scheduler promises about Task Sessions: the life of a          *)
(* TaskSessionState (domain/task_session.rs), whatever the number of       *)
(* processes, workers, leases and crashes behind it.                       *)
(*                                                                         *)
(* Every assignment of a session has a token of its own.  A session that   *)
(* was cancelled or that succeeded is never run again, a cancellation that *)
(* was accepted while it ran has no other end than Cancelled, and a staged *)
(* result is published as it was staged or the session is Blocked.         *)
(***************************************************************************)
EXTENDS Naturals

CONSTANT Sessions

VARIABLES
  state,    (* of each session: a TaskSessionState, or absent or removed   *)
  token,    (* assignments granted so far                                  *)
  staged    (* terminal state of the result being committed, else none     *)

TerminalStates == {"succeeded", "failed", "blocked", "cancelled"}

LifecycleInit ==
  \A s \in Sessions : state[s] = "absent" /\ token[s] = 0 /\ staged[s] = "none"

(* The session moves from a state to another, keeping token and result.    *)
Moves(s, from, to) ==
  /\ state[s] \in from /\ state'[s] \in to
  /\ token'[s] = token[s] /\ staged'[s] = staged[s]

Submit(s) == Moves(s, {"absent"}, {"queued"})

(* The session gets a worker; it may be taken from one whose lease ended.  *)
Grant(s) ==
  /\ state[s] \in {"queued", "running"} /\ state'[s] = "running"
  /\ token'[s] = token[s] + 1
  /\ staged'[s] = staged[s]

(* The lease or the process of its worker ended.                           *)
Revoke(s) == Moves(s, {"running"}, {"queued", "blocked"})

RequestCancel(s) ==
  Moves(s, {"queued"}, {"cancelled"}) \/ Moves(s, {"running"}, {"cancelling"})

EndCancel(s) == Moves(s, {"cancelling"}, {"cancelled"})

Report(s) == Moves(s, {"running"}, TerminalStates)

Stage(s) ==
  /\ state[s] = "running" /\ state'[s] = "committing"
  /\ token'[s] = token[s]
  /\ staged'[s] \in {"succeeded", "blocked"}

Publish(s) ==
  /\ state[s] = "committing" /\ state'[s] \in {staged[s], "blocked"}
  /\ token'[s] = token[s]
  /\ staged'[s] = "none"

Reopen(s) == Moves(s, {"blocked", "failed"}, {"queued"})

Remove(s) ==
  /\ state[s] \in TerminalStates /\ state'[s] = "removed"
  /\ token'[s] = 0
  /\ staged'[s] = staged[s]

Stays(s) == Moves(s, {state[s]}, {state[s]})

(* A step of the scheduler may move several sessions: a claim also         *)
(* recovers every expired one.                                             *)
LifecycleNext ==
  \A s \in Sessions :
    \/ Submit(s) \/ Grant(s) \/ Revoke(s) \/ RequestCancel(s) \/ EndCancel(s)
    \/ Report(s) \/ Stage(s) \/ Publish(s) \/ Reopen(s) \/ Remove(s) \/ Stays(s)

LifecycleSpec == LifecycleInit /\ [][LifecycleNext]_<<state, token, staged>>
=============================================================================
