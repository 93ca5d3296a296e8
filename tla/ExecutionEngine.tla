-------------------------- MODULE ExecutionEngine --------------------------
(***************************************************************************)
(* One process of application/execution_engine.rs over the durable store:  *)
(* the Scheduler thread, its fixed pool of Worker threads and its          *)
(* projection thread.                                                      *)
(*                                                                         *)
(* The Scheduler thread repeats run_scheduler's loop: receive one message  *)
(* or time out, renew the leases when their timer is due, retry the        *)
(* outcomes it could not resolve, hand one staged result to the projector  *)
(* and give idle workers work.  phase is where it is in that loop and todo *)
(* the assignments it has still to visit there; every call of the store is *)
(* a step of its own, so workers, the projector, the clock, a second       *)
(* process and a crash of this one come between any two of them.           *)
(*                                                                         *)
(* Every call of the store may fail (a busy or full database): the store   *)
(* is then unchanged and the Scheduler does what its error branch does.    *)
(*                                                                         *)
(* dispatch chooses an idle worker by how often each was used; any idle    *)
(* worker may be chosen here.  The outbox is read in the order of staging; *)
(* any of its rows may come first here.  A message channel is a queue per  *)
(* worker: messages of different workers have no order.                    *)
(***************************************************************************)
EXTENDS SchedulerStore, Sequences

CONSTANTS
  WorkerCount,    (* MAX_EXECUTION_WORKERS, the threads of the pool        *)
  Reports,        (* what an executor may return                           *)
  TimelyRenewal   (* the clock never runs past a lease before it is renewed *)

Workers == 1..WorkerCount

(* The form of an outcome, its terminal state and its error.               *)
Outcomes == ({"plain"} \X PlainOutcomes) \cup ({"output"} \X Outputs("agent"))

ASSUME EngineAssumption ==
  /\ WorkerCount \in Nat \ {0}
  /\ Reports \subseteq Outcomes
  /\ TimelyRenewal \in BOOLEAN
  /\ Null \notin Sessions \cup Owners \cup Outcomes

VARIABLES
  owner,        (* owner_id of this Scheduler, Null while it does not run  *)
  registered,   (* scheduler_owners                                        *)
  phase,        (* where the Scheduler thread is in its loop               *)
  todo,         (* sessions the current phase has still to visit           *)
  active,       (* Scheduler.active                                        *)
  cancelled,    (* assignments whose TaskCancellation is set               *)
  slot,         (* session_id of each worker's snapshot, Null when Idle    *)
  inbox,        (* commands of each worker; the first one is executing     *)
  finished,     (* WorkerFinished messages not yet received                *)
  projection    (* the result in flight to the projector, or Null          *)

storeVars == <<session, attempt, completion, nextSequence, now>>
loopVars == <<phase, todo>>
workerVars == <<inbox, finished>>
memory == <<phase, todo, active, cancelled, slot, inbox, finished, projection>>
engineVars == <<owner, registered, memory>>
allVars == <<storeVars, engineVars>>

NoAssignment == [attempt |-> 0, outcome |-> Null]

(* Threads, channels and the Scheduler's tables of a process that starts.  *)
FreshMemory ==
  /\ active' = [s \in Sessions |-> NoAssignment]
  /\ cancelled' = {}
  /\ slot' = [w \in Workers |-> Null]
  /\ inbox' = [w \in Workers |-> <<>>]
  /\ finished' = [w \in Workers |-> <<>>]
  /\ projection' = Null
  /\ todo' = {}

EngineInit ==
  /\ Init
  /\ owner = Null
  /\ registered = {}
  /\ phase = "receive"
  /\ todo = {}
  /\ active = [s \in Sessions |-> NoAssignment]
  /\ cancelled = {}
  /\ slot = [w \in Workers |-> Null]
  /\ inbox = [w \in Workers |-> <<>>]
  /\ finished = [w \in Workers |-> <<>>]
  /\ projection = Null

Up == owner # Null
At(p) == Up /\ phase = p
Tracked == {s \in Sessions : active[s].attempt # 0}
Pending == {s \in Sessions : active[s].outcome # Null}

(* A call of recover_matching_attempts, which may find nothing to do.      *)
RecoverAny(hit) == IF hit = {} THEN UNCHANGED storeVars ELSE Recover(hit)

-----------------------------------------------------------------------------
(* Start and end of the process *)

Start(o) ==
  /\ ~Up
  /\ o \in Owners \ registered
  /\ owner' = o
  /\ registered' = registered \cup {o}
  /\ RecoverAny(Expired)
  /\ phase' = "project"
  /\ UNCHANGED <<todo, active, cancelled, slot, inbox, finished, projection>>

Crash ==
  /\ Up
  /\ owner' = Null
  /\ phase' = "receive"
  /\ FreshMemory
  /\ UNCHANGED <<storeVars, registered>>

(* Scheduler::shutdown; abandon_owner may fail like every call.            *)
Shutdown ==
  /\ At("receive")
  /\ RecoverAny(OwnedBy(owner)) \/ UNCHANGED storeVars
  /\ owner' = Null
  /\ phase' = "receive"
  /\ FreshMemory
  /\ UNCHANGED registered

-----------------------------------------------------------------------------
(* The end of a message: the renewal timer may be due.  Every outcome that *)
(* is pending is retried; one whose backoff has not passed is a retry that *)
(* fails.                                                                  *)

RetryNext ==
  /\ phase' = "retry"
  /\ todo' = {s \in Sessions : active'[s].outcome # Null}

AfterMessage ==
  \/ /\ phase' = "renew"
     /\ todo' = {s \in Sessions : active'[s].attempt # 0}
  \/ RetryNext

(* Commands of a client of this process. *)
HandleClient(s) ==
  /\ At("receive")
  /\ \/ RemoveTerminal(s)
     \/ \E r \in Requests : \/ Enqueue(s, r)
                            \/ ResumeAfterApproval(s, r)
                            \/ ContinueInterrupted(s, r)
  /\ UNCHANGED <<owner, registered, active, cancelled, slot, workerVars, projection>>
  /\ AfterMessage

(* Scheduler::cancel: also tells the worker of this process.               *)
HandleCancel(s) ==
  /\ At("receive")
  /\ Cancel(s) \/ (session[s].state = "cancelling" /\ UNCHANGED storeVars)
  /\ cancelled' = IF session'[s].state = "cancelling" /\ active[s].attempt # 0
                  THEN cancelled \cup {<<s, active[s].attempt>>} ELSE cancelled
  /\ UNCHANGED <<owner, registered, active, slot, workerVars, projection>>
  /\ AfterMessage

(* A timeout, a query, or a command that is refused or fails.              *)
QuietRound ==
  /\ At("receive")
  /\ UNCHANGED <<storeVars, owner, registered, active, cancelled, slot, workerVars,
                 projection>>
  /\ AfterMessage

-----------------------------------------------------------------------------
(* Outcomes *)

(* Mutant of Apply: a cancelling assignment cannot be resolved.            *)
ApplyUncancelled(s, n, outcome) ==
  \/ outcome[1] = "plain" /\ ResolvePlain(s, n, outcome[2])
  \/ outcome[1] = "output" /\ StageOutput(s, n, outcome[2])

(* resolve_assignment(fence, outcome) = Applied                            *)
Apply(s, n, outcome) ==
  \/ ResolveCancelling(s, n)
  \/ outcome[1] = "plain" /\ ResolvePlain(s, n, outcome[2])
  \/ outcome[1] = "output" /\ StageOutput(s, n, outcome[2])

(* Mutant of SlotsAfter: the first busy worker becomes Idle, whatever it runs. *)
SlotsAfterAny(s) ==
  LET holders == {w \in Workers : slot[w] # Null}
  IN  [w \in Workers |->
         IF w \in holders /\ (\A v \in holders : w <= v) THEN Null ELSE slot[w]]

(* The first worker whose snapshot names the session becomes Idle.         *)
SlotsAfter(s) ==
  LET holders == {w \in Workers : slot[w] = s}
  IN  [w \in Workers |->
         IF w \in holders /\ (\A v \in holders : w <= v) THEN Null ELSE slot[w]]

(* try_resolve_completion *)
Resolve(s, outcome) ==
  /\ Apply(s, active[s].attempt, outcome)
     \/ (~Resolvable(s, active[s].attempt) /\ UNCHANGED storeVars)
  /\ active' = [active EXCEPT ![s] = NoAssignment]
  /\ slot' = SlotsAfter(s)

(* Mutants of ResolveFails: the outcome, or the whole assignment, is lost. *)
ResolveFailsForgetful(s, outcome) ==
  /\ active' = [active EXCEPT ![s].outcome = Null]
  /\ UNCHANGED <<storeVars, slot>>
ResolveFailsAndDrops(s, outcome) ==
  /\ active' = [active EXCEPT ![s] = NoAssignment]
  /\ slot' = SlotsAfter(s)
  /\ UNCHANGED storeVars

ResolveFails(s, outcome) ==
  /\ active' = [active EXCEPT ![s].outcome = outcome]
  /\ UNCHANGED <<storeVars, slot>>

(* Mutant of Expects: the report's fence is not compared.                  *)
ExpectsAnyAttempt(w, s, n) == slot[w] = s /\ active[s].attempt # 0

(* Scheduler::finish ignores a report of another assignment.               *)
Expects(w, s, n) == slot[w] = s /\ active[s].attempt = n

HandleFinished(w) ==
  /\ At("receive")
  /\ finished[w] # <<>>
  /\ LET s == Head(finished[w])[1][1]
         n == Head(finished[w])[1][2]
         outcome == Head(finished[w])[2]
     IN  IF Expects(w, s, n)
         THEN Resolve(s, outcome) \/ ResolveFails(s, outcome)
         ELSE UNCHANGED <<storeVars, active, slot>>
  /\ finished' = [finished EXCEPT ![w] = Tail(@)]
  /\ UNCHANGED <<owner, registered, cancelled, inbox, projection>>
  /\ AfterMessage

(* renew_leases, one assignment after the other.  An assignment that lost  *)
(* its lease, is seen to be cancelling or could not be renewed is told to  *)
(* stop.                                                                   *)
RenewLease(s) ==
  /\ At("renew")
  /\ s \in todo
  /\ LET n == active[s].attempt IN
       \/ Renew(s, n) /\ UNCHANGED cancelled
       \/ /\ session[s].state = "cancelling" /\ Renew(s, n)
          /\ cancelled' = cancelled \cup {<<s, n>>}
       \/ /\ UNCHANGED storeVars
          /\ cancelled' = cancelled \cup {<<s, n>>}
  /\ todo' = todo \ {s}
  /\ UNCHANGED <<owner, registered, phase, active, slot, workerVars, projection>>

RecoverAfterRenewal ==
  /\ At("renew")
  /\ todo = {}
  /\ RecoverAny(Expired) \/ UNCHANGED storeVars
  /\ UNCHANGED <<owner, registered, active, cancelled, slot, workerVars, projection>>
  /\ RetryNext

(* Mutant of RetryResolution: a retry takes the outcome, and a failed one   *)
(* does not put it back.                                                   *)
RetryTakesOutcome(s) ==
  /\ At("retry")
  /\ s \in todo
  /\ Resolve(s, active[s].outcome) \/ ResolveFails(s, Null)
  /\ todo' = todo \ {s}
  /\ UNCHANGED <<owner, registered, phase, cancelled, workerVars, projection>>

(* retry_pending_worker_completions *)
RetryResolution(s) ==
  /\ At("retry")
  /\ s \in todo
  /\ Resolve(s, active[s].outcome) \/ ResolveFails(s, active[s].outcome)
  /\ todo' = todo \ {s}
  /\ UNCHANGED <<owner, registered, phase, cancelled, workerVars, projection>>

RetriesDone ==
  /\ At("retry")
  /\ todo = {}
  /\ phase' = "project"
  /\ UNCHANGED <<storeVars, owner, registered, todo, active, cancelled, slot,
                 workerVars, projection>>

-----------------------------------------------------------------------------
(* Projection *)

(* dispatch_projection: finalize what was projected, or send what is due.  *)
FinalizeProjected ==
  /\ projection = Null
  /\ \E s \in Projected : FinalizeCompletion(s, completion[s].attempt)
  /\ UNCHANGED projection

SendDue ==
  /\ projection = Null
  /\ Projected = {}
  /\ \E s \in Due :
       projection' = [fence |-> <<s, completion[s].attempt>>, result |-> "pending"]
  /\ UNCHANGED storeVars

DispatchProjection ==
  /\ At("project")
  /\ FinalizeProjected \/ SendDue \/ UNCHANGED <<storeVars, projection>>
  /\ phase' = "dispatch"
  /\ UNCHANGED <<owner, registered, todo, active, cancelled, slot, workerVars>>

(* The projection thread returns from CompletionProjector::project.        *)
Project(result) ==
  /\ Up
  /\ projection # Null
  /\ projection.result = "pending"
  /\ projection' = [projection EXCEPT !.result = result]
  /\ UNCHANGED <<storeVars, owner, registered, phase, todo, active, cancelled, slot,
                 workerVars>>

(* projection_finished: any of its calls may fail or find the result gone. *)
HandleProjection ==
  /\ At("receive")
  /\ projection # Null
  /\ UNCHANGED <<owner, registered, active, cancelled, slot, workerVars>>
  /\ LET s == projection.fence[1]
         n == projection.fence[2]
     IN  \/ /\ projection.result = "projected"
            /\ MarkCompletionProjected(s, n)
            /\ projection' = [projection EXCEPT !.result = "marked"]
            /\ phase' = "finalize"
            /\ UNCHANGED todo
         \/ /\ \/ projection.result = "retryable" /\ RecordCompletionError(s, n)
               \/ projection.result = "rejected" /\ RejectCompletion(s, n)
               \/ projection.result # "pending" /\ UNCHANGED storeVars
            /\ projection' = Null
            /\ AfterMessage

FinalizeAfterMark ==
  /\ At("finalize")
  /\ \/ FinalizeCompletion(projection.fence[1], projection.fence[2])
     \/ UNCHANGED storeVars
  /\ projection' = Null
  /\ UNCHANGED <<owner, registered, active, cancelled, slot, workerVars>>
  /\ AfterMessage

-----------------------------------------------------------------------------
(* Dispatch *)

Idle == {w \in Workers : slot[w] = Null}

(* A claim succeeds: the new assignment replaces whatever active held for  *)
(* the session, and is sent to the worker.                                 *)
DispatchClaim(w, s) ==
  /\ At("dispatch")
  /\ w \in Idle
  /\ ClaimNext(owner, s)
  /\ active' = [active EXCEPT ![s] = [attempt |-> session'[s].active, outcome |-> Null]]
  /\ slot' = [slot EXCEPT ![w] = s]
  /\ inbox' = [inbox EXCEPT ![w] = Append(@, <<s, session'[s].active>>)]
  /\ UNCHANGED <<owner, registered, phase, todo, cancelled, finished, projection>>

ClaimPossible ==
  /\ HasCapacity(AttemptsAfter(Expired))
  /\ \E s \in Sessions : /\ Candidate(SessionsAfter(Expired), s)
                         /\ session[s].attempts < MaxAttempts

(* No worker is idle, nothing can be claimed, or the claim fails.          *)
DispatchDone ==
  /\ At("dispatch")
  /\ \/ UNCHANGED storeVars
     \/ Idle # {} /\ ~ClaimPossible /\ RecoverExpired
  /\ phase' = "receive"
  /\ UNCHANGED <<owner, registered, todo, active, cancelled, slot, workerVars, projection>>

-----------------------------------------------------------------------------
(* Worker threads *)

Executing(w) == IF inbox[w] = <<>> THEN {} ELSE {Head(inbox[w])}

WorkerEvent(w) ==
  /\ \E f \in Executing(w) :
       \/ AppendAssignmentEvent(f[1], f[2])
       \/ \E id \in Runtimes : BindOpencodeSession(f[1], f[2], id)
  /\ UNCHANGED engineVars

(* The executor returned (or panicked: a failure); a cancelled assignment  *)
(* reports Cancelled whatever it returned.                                 *)
WorkerReport(w) ==
  /\ \E f \in Executing(w) :
       \E outcome \in (IF f \in cancelled THEN {<<"plain", <<"cancelled", "none">>>>}
                                          ELSE Reports) :
         finished' = [finished EXCEPT ![w] = Append(@, <<f, outcome>>)]
  /\ inbox' = [inbox EXCEPT ![w] = Tail(@)]
  /\ UNCHANGED <<storeVars, owner, registered, phase, todo, active, cancelled, slot,
                 projection>>

-----------------------------------------------------------------------------
(* The rest of the world *)

OtherProcessCancels(s) == Cancel(s) /\ UNCHANGED engineVars

RenewedInTime(t) == \A s \in Tracked :
  attempt[s][active[s].attempt].state = "running" => attempt[s][active[s].attempt].lease > t

Tick(t) ==
  /\ t > now
  /\ TimelyRenewal => RenewedInTime(t)
  /\ SetClock(t)
  /\ UNCHANGED engineVars

LoopNext ==
  \/ QuietRound
  \/ \E w \in Workers : HandleFinished(w)
  \/ HandleProjection
  \/ FinalizeAfterMark
  \/ \E s \in Sessions : RenewLease(s) \/ RetryResolution(s)
  \/ RecoverAfterRenewal
  \/ RetriesDone
  \/ DispatchProjection
  \/ \E w \in Workers, s \in Sessions : DispatchClaim(w, s)
  \/ DispatchDone

EngineNext ==
  \/ LoopNext
  \/ \E s \in Sessions : HandleClient(s) \/ HandleCancel(s) \/ OtherProcessCancels(s)
  \/ \E w \in Workers : WorkerEvent(w) \/ WorkerReport(w)
  \/ \E result \in {"projected", "retryable", "rejected"} : Project(result)
  \/ \E o \in Owners : Start(o)
  \/ Crash
  \/ Shutdown
  \/ \E t \in 0..MaxNow : Tick(t)

EngineSpec == EngineInit /\ [][EngineNext]_allVars

(* The Scheduler thread runs; executors return; a message is received at   *)
(* some time, since the channel is first in, first out; and a call of the  *)
(* store that is retried for ever, or a projection, does not fail for ever.*)
Fairness ==
  /\ WF_allVars(LoopNext)
  /\ \A w \in Workers : WF_allVars(WorkerReport(w)) /\ SF_allVars(HandleFinished(w))
  /\ \A s \in Sessions : SF_allVars(RetryResolution(s) /\ active'[s] = NoAssignment)

ProjectionFairness ==
  /\ SF_allVars(DispatchProjection /\ (FinalizeProjected \/ SendDue))
  /\ SF_allVars(Project("projected") \/ Project("rejected"))
  /\ SF_allVars(HandleProjection)
  /\ SF_allVars(HandleProjection /\ completion' # completion)

FairEngineSpec == EngineSpec /\ Fairness /\ ProjectionFairness

-----------------------------------------------------------------------------
(* Safety *)

FencesAt(w) == {inbox[w][i] : i \in DOMAIN inbox[w]}
FencesReported(w) == {finished[w][i][1] : i \in DOMAIN finished[w]}

(* WorkerState::Running: the worker owns exactly one running session.  Its *)
(* session is tracked under an assignment that this worker executes or has *)
(* reported, or whose outcome waits to be resolved, and no other worker    *)
(* shows the session; so the end of the assignment makes the worker idle.  *)
BusyWorkersReturn ==
  /\ \A w \in Workers : slot[w] # Null =>
       LET a == active[slot[w]] IN
         /\ a.attempt # 0
         /\ a.outcome = Null => <<slot[w], a.attempt>> \in FencesAt(w) \cup FencesReported(w)
         /\ \A v \in Workers : slot[v] = slot[w] => v = w
  /\ \A s \in Tracked : \E w \in Workers : slot[w] = s

(* No two workers drive one Task Session at the same time.                 *)
OneDriver ==
  \A w, v \in Workers : \A f \in Executing(w), g \in Executing(v) :
    f[1] = g[1] => w = v

(* Whatever runs in the store under this Scheduler's name and a live lease *)
(* is tracked: somebody will renew it, resolve it or cancel it.            *)
LiveAttemptsTracked ==
  \A p \in OwnedBy(owner) :
    Live(attempt[p[1]][p[2]].lease) => active[p[1]].attempt = p[2]

(* While a result is with the projector, the outbox still waits for it.    *)
ProjectionInFlightIsStaged ==
  projection # Null => StagedBy(projection.fence[1], projection.fence[2])

(* An outcome that could not be resolved is kept, unchanged, until it is   *)
(* resolved or its assignment is no longer current.                        *)
PendingOutcomeKept ==
  [][\A s \in Sessions :
       active[s].outcome # Null /\ owner' = owner /\ Resolvable(s, active[s].attempt) =>
         \/ active'[s] = active[s]
         \/ attempt'[s][active[s].attempt].state # "running"]_allVars

(* An assignment never ends with a result while the worker it was given to *)
(* still executes it: a report of a superseded assignment resolves nothing *)
(* but itself.                                                             *)
ResultOfItsOwnWorker ==
  [][\A w \in Workers : \A p \in FencesAt(w) :
       attempt[p[1]][p[2]].state = "running" =>
         attempt'[p[1]][p[2]].state \in {"running", "interrupted"}]_allVars

-----------------------------------------------------------------------------
(* Liveness *)

(* Every worker becomes idle again.                                        *)
WorkersReturnToIdle == \A w \in Workers : slot[w] # Null ~> slot[w] = Null

(* The assignment the engine tracks for s is the one the store runs.       *)
Mine(s) == active[s].attempt # 0 /\ session[s].active = active[s].attempt

(* A session that is cancelled while a running engine tracks it ends as    *)
(* cancelled: the renewal or the command shows it to the worker, and the   *)
(* outcome is resolved, retried after every failure of the store.          *)
CancellingEnds ==
  \A s \in Sessions :
    session[s].state = "cancelling" /\ Mine(s) ~> session[s].state # "cancelling" \/ ~Up

(* A result staged in the outbox does not stay there while the engine      *)
(* runs: the projector is sent the row until it is marked and finalized,   *)
(* or rejected.                                                            *)
CommittingEnds ==
  \A s \in Sessions :
    session[s].state = "committing" /\ Up ~> session[s].state # "committing" \/ ~Up
=============================================================================
