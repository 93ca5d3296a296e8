--------------------------- MODULE SchedulerStore ---------------------------
(***************************************************************************)
(* The durable scheduler of infrastructure/scheduler_store.rs: the queue   *)
(* of Task Sessions, their assignment attempts, leases and fencing tokens, *)
(* and the outbox of staged results.                                       *)
(*                                                                         *)
(* Every public operation of the store is one BEGIN IMMEDIATE transaction, *)
(* so each is one action here.  The callers are not modelled: any process  *)
(* may call any operation at any time, with any fence the store ever       *)
(* issued, however old.  That is what a delayed message, a worker that     *)
(* outlived its lease or a second application process can do.              *)
(*                                                                         *)
(* A row is a record; a row that does not exist has a value of its own     *)
(* (NoSession, NoAttempt, NoCompletion).  session_id and attempt_id are    *)
(* AUTOINCREMENT keys and are never reused; an attempt is named by its     *)
(* session and attempt_number, which claim_next alone assigns.             *)
(***************************************************************************)
EXTENDS Naturals, FiniteSets

CONSTANTS
  Sessions,     (* session_id values the queue may allocate              *)
  Owners,       (* owner_id values: one per running Scheduler            *)
  Runtimes,     (* OpenCode session identities                           *)
  Requests,     (* task envelopes a client may submit                    *)
  Null,         (* the SQL NULL of an ownership or identity column       *)
  GlobalLimit,  (* MAX_EXECUTION_WORKERS: running attempts at most       *)
  LeaseTime,    (* the lease a claim or a renewal grants                 *)
  RetryDelays,  (* delays of projection_retry_delay_millis               *)
  MaxAttempts,  (* bound: claims of one session                          *)
  MaxSequence,  (* bound: enqueues and resumes together                  *)
  MaxNow        (* bound: readings of the wall clock                     *)

(* Keys of exclusive ownership, each qualified by its workspace. *)
OwnershipKeys == {"conversation", "subject", "run"}

ASSUME BoundsAssumption ==
  /\ GlobalLimit \in Nat
  /\ LeaseTime \in Nat \ {0}
  /\ RetryDelays \subseteq Nat
  /\ MaxAttempts \in Nat
  /\ MaxSequence \in Nat
  /\ MaxNow \in Nat

ASSUME RequestsAssumption ==
  \A r \in Requests : /\ DOMAIN r = OwnershipKeys \cup {"kind"}
                      /\ r.kind \in {"agent", "chat", "edit", "legacy"}

ASSUME NullAssumption == Null \notin Requests /\ Null \notin Runtimes

VARIABLES
  session,        (* scheduler_task_sessions                             *)
  attempt,        (* scheduler_task_attempts                             *)
  completion,     (* scheduler_task_completions                          *)
  nextSequence,   (* scheduler_metadata.next_enqueue_sequence            *)
  now             (* now_millis()                                        *)

vars == <<session, attempt, completion, nextSequence, now>>

-----------------------------------------------------------------------------
(* Rows *)

Attempts == 1..MaxAttempts
AttemptNumbers == 0..MaxAttempts
Optional(S) == S \cup {Null}
Active == {"running", "cancelling", "committing"}
Assigned == {"running", "cancelling"}
Terminal == {"succeeded", "failed", "blocked", "cancelled"}
Errors == {"none", "approval", "other"}
SessionStates == {"absent", "queued", "removed"} \cup Active \cup Terminal
StagedStates == {"none", "succeeded", "blocked"}
AttemptStates == {"none", "running", "committing", "interrupted"} \cup Terminal

(* active is active_attempt_id (0 for NULL), lease is lease_expires_at (0  *)
(* for NULL).  error keeps only whether the text contains                  *)
(* [approval_required].  journal is the attempt of the newest row of       *)
(* scheduler_task_events that names an attempt.                            *)
SessionRow ==
  [state : SessionStates, request : Optional(Requests), sequence : Nat,
   attempts : AttemptNumbers, token : AttemptNumbers, active : AttemptNumbers,
   lease : Nat, error : Errors, runtime : Optional(Runtimes),
   journal : AttemptNumbers]

NoSession ==
  [state |-> "absent", request |-> Null, sequence |-> 0, attempts |-> 0,
   token |-> 0, active |-> 0, lease |-> 0, error |-> "none",
   runtime |-> Null, journal |-> 0]

Removed == [NoSession EXCEPT !.state = "removed"]

AttemptRow ==
  [state : AttemptStates, token : AttemptNumbers, owner : Optional(Owners),
   lease : Nat]

NoAttempt == [state |-> "none", token |-> 0, owner |-> Null, lease |-> 0]

CompletionRow ==
  [attempt : AttemptNumbers, token : AttemptNumbers,
   terminal : StagedStates, error : Errors, retryAt : Nat,
   projected : BOOLEAN, finalized : BOOLEAN]

NoCompletion ==
  [attempt |-> 0, token |-> 0, terminal |-> "none", error |-> "none",
   retryAt |-> 0, projected |-> FALSE, finalized |-> FALSE]

TypeOK ==
  /\ session \in [Sessions -> SessionRow]
  /\ attempt \in [Sessions -> [Attempts -> AttemptRow]]
  /\ completion \in [Sessions -> CompletionRow]
  /\ nextSequence \in Nat
  /\ now \in 0..MaxNow

Init ==
  /\ session = [s \in Sessions |-> NoSession]
  /\ attempt = [s \in Sessions |-> [n \in Attempts |-> NoAttempt]]
  /\ completion = [s \in Sessions |-> NoCompletion]
  /\ nextSequence = 1
  /\ now = 0

-----------------------------------------------------------------------------
(* Guards shared by the operations *)

(* lease_expires_at > now, false for NULL *)
Live(lease) == lease > now

(* The fence of attempt n was issued and its session row still names it.   *)
FenceMatches(s, n) ==
  /\ attempt[s][n].state # "none"
  /\ session[s].active = n
  /\ session[s].token = attempt[s][n].token

(* resolve_assignment_at: both rows live, the attempt running.             *)
Resolvable(s, n) ==
  /\ FenceMatches(s, n)
  /\ session[s].state \in Assigned
  /\ Live(session[s].lease)
  /\ attempt[s][n].state = "running"
  /\ Live(attempt[s][n].lease)

(* assignment_is_current_on: the same, and not being cancelled.            *)
AssignmentIsCurrent(s, n) == Resolvable(s, n) /\ session[s].state = "running"

(* The row a StagedCompletion of attempt n names, not yet finalized.       *)
StagedBy(s, n) ==
  /\ attempt[s][n].state # "none"
  /\ completion[s].attempt = n
  /\ completion[s].token = attempt[s][n].token
  /\ ~completion[s].finalized

CommittingBy(s, n) == FenceMatches(s, n) /\ session[s].state = "committing"

(* Two requests that may not be active together.                           *)
Overlap(a, b) == \E k \in OwnershipKeys : a[k] # Null /\ a[k] = b[k]

-----------------------------------------------------------------------------
(* Queue *)

Enqueue(s, r) ==
  /\ session[s].state = "absent"
  /\ nextSequence <= MaxSequence
  /\ session' = [session EXCEPT ![s] =
       [NoSession EXCEPT !.state = "queued", !.request = r,
                         !.sequence = nextSequence]]
  /\ nextSequence' = nextSequence + 1
  /\ UNCHANGED <<attempt, completion, now>>

(* Mutant of Requeue: the finalized result stays in the outbox.            *)
RequeueKeepingResult(s, r) ==
  /\ session[s].runtime # Null
  /\ r.conversation = session[s].request.conversation
  /\ r.subject = session[s].request.subject
  /\ nextSequence <= MaxSequence
  /\ session' = [session EXCEPT ![s] =
       [@ EXCEPT !.state = "queued", !.request = r, !.sequence = nextSequence,
                 !.active = 0, !.lease = 0, !.error = "none"]]
  /\ nextSequence' = nextSequence + 1
  /\ UNCHANGED <<attempt, completion, now>>

(* The part of resume_session that follows its state check.                *)
Requeue(s, r) ==
  /\ session[s].runtime # Null
  /\ r.conversation = session[s].request.conversation
  /\ r.subject = session[s].request.subject
  /\ nextSequence <= MaxSequence
  /\ session' = [session EXCEPT ![s] =
       [@ EXCEPT !.state = "queued", !.request = r, !.sequence = nextSequence,
                 !.active = 0, !.lease = 0, !.error = "none"]]
  /\ completion' = [completion EXCEPT ![s] = NoCompletion]
  /\ nextSequence' = nextSequence + 1
  /\ UNCHANGED <<attempt, now>>

ResumeAfterApproval(s, r) ==
  /\ session[s].state = "blocked"
  /\ session[s].error = "approval"
  /\ Requeue(s, r)

ContinueInterrupted(s, r) ==
  /\ session[s].state \in {"blocked", "failed"}
  /\ session[s].error # "approval"
  /\ Requeue(s, r)

(* Mutant of Cancel: a committing session may still be cancelled.          *)
CancelWhileCommitting(s) ==
  /\ session[s].state \in {"queued", "running", "committing"}
  /\ session' = [session EXCEPT ![s].state =
       IF @ = "queued" THEN "cancelled" ELSE "cancelling"]
  /\ UNCHANGED <<attempt, completion, nextSequence, now>>

Cancel(s) ==
  /\ session[s].state \in {"queued", "running"}
  /\ session' = [session EXCEPT ![s].state =
       IF @ = "queued" THEN "cancelled" ELSE "cancelling"]
  /\ UNCHANGED <<attempt, completion, nextSequence, now>>

(* DELETE ... ON DELETE CASCADE *)
RemoveTerminal(s) ==
  /\ session[s].state \in Terminal
  /\ session' = [session EXCEPT ![s] = Removed]
  /\ attempt' = [attempt EXCEPT ![s] = [n \in Attempts |-> NoAttempt]]
  /\ completion' = [completion EXCEPT ![s] = NoCompletion]
  /\ UNCHANGED <<nextSequence, now>>

-----------------------------------------------------------------------------
(* Recovery: recover_matching_attempts over the set hit of <<s, n>> *)

Running == {p \in Sessions \X Attempts : attempt[p[1]][p[2]].state = "running"}
(* Mutants of Expired: the query forgets the attempt's state, or the lease *)
(* ends one clock reading early.                                           *)
ExpiredInAnyState == {p \in Sessions \X Attempts :
  attempt[p[1]][p[2]].state # "none" /\ attempt[p[1]][p[2]].lease <= now}
ExpiredEarly == {p \in Running : attempt[p[1]][p[2]].lease <= now + 1}

Expired == {p \in Running : attempt[p[1]][p[2]].lease <= now}
OwnedBy(o) == {p \in Running : attempt[p[1]][p[2]].owner = o}

(* Mutants of RecoveredState: the attempt's state is written to the session *)
(* row, or a cancelled session is queued again.                            *)
RecoveredAsAttempt(row) == "interrupted"
RecoveredUncancelled(row) ==
  IF row.request.kind = "agent" /\ row.runtime = Null THEN "blocked" ELSE "queued"

RecoveredState(row) ==
  IF row.state = "cancelling" THEN "cancelled"
  ELSE IF row.request.kind = "agent" /\ row.runtime = Null THEN "blocked"
  ELSE "queued"

RecoveredRow(row) ==
  [row EXCEPT !.state = RecoveredState(row), !.active = 0, !.lease = 0,
              !.error = IF RecoveredState(row) = "blocked" THEN "other" ELSE "none",
              !.journal = row.active]

SessionsAfter(hit) ==
  [s \in Sessions |->
     IF <<s, session[s].active>> \in hit /\ session[s].state \in Assigned
     THEN RecoveredRow(session[s])
     ELSE session[s]]

AttemptsAfter(hit) ==
  [s \in Sessions |-> [n \in Attempts |->
     IF <<s, n>> \in hit
     THEN [attempt[s][n] EXCEPT !.state = "interrupted", !.lease = 0]
     ELSE attempt[s][n]]]

Recover(hit) ==
  /\ session' = SessionsAfter(hit)
  /\ attempt' = AttemptsAfter(hit)
  /\ UNCHANGED <<completion, nextSequence, now>>

(* recover_expired, and a claim that finds no capacity or no candidate     *)
RecoverExpired == Expired # {} /\ Recover(Expired)

AbandonOwner(o) == OwnedBy(o) # {} /\ Recover(OwnedBy(o))

-----------------------------------------------------------------------------
(* Claim: recovery and the assignment of the oldest eligible session, in   *)
(* one transaction.  rows and tries stand for the tables after recovery.   *)

RunningIn(tries) ==
  {p \in Sessions \X Attempts : tries[p[1]][p[2]].state = "running"}

(* Mutant of HasCapacity: one attempt too many.                            *)
HasCapacityOffByOne(tries) ==
  Cardinality({p \in RunningIn(tries) : Live(tries[p[1]][p[2]].lease)}) <= GlobalLimit

HasCapacity(tries) ==
  Cardinality({p \in RunningIn(tries) : Live(tries[p[1]][p[2]].lease)}) < GlobalLimit

(* Mutant of Eligible: a committing session no longer owns its keys.       *)
EligibleBesideCommitting(rows, s) ==
  /\ rows[s].state = "queued"
  /\ \A t \in Sessions : rows[t].state \in Assigned =>
                           ~Overlap(rows[s].request, rows[t].request)

Eligible(rows, s) ==
  /\ rows[s].state = "queued"
  /\ \A t \in Sessions : rows[t].state \in Active =>
                           ~Overlap(rows[s].request, rows[t].request)

Candidate(rows, s) ==
  /\ Eligible(rows, s)
  /\ \A t \in Sessions : Eligible(rows, t) => rows[s].sequence <= rows[t].sequence

ClaimedRow(row) ==
  [row EXCEPT !.state = "running", !.attempts = @ + 1, !.token = @ + 1,
              !.active = row.attempts + 1, !.lease = now + LeaseTime,
              !.error = "none", !.journal = row.attempts + 1]

(* Inserts attempt rows[s].attempts + 1 of session s for owner o.          *)
Assign(rows, tries, o, s) ==
  /\ rows[s].attempts < MaxAttempts
  /\ session' = [rows EXCEPT ![s] = ClaimedRow(rows[s])]
  /\ attempt' = [tries EXCEPT ![s] = [tries[s] EXCEPT ![rows[s].attempts + 1] =
       [state |-> "running", token |-> rows[s].token + 1, owner |-> o,
        lease |-> now + LeaseTime]]]

ClaimNext(o, s) ==
  /\ HasCapacity(AttemptsAfter(Expired))
  /\ Candidate(SessionsAfter(Expired), s)
  /\ Assign(SessionsAfter(Expired), AttemptsAfter(Expired), o, s)
  /\ UNCHANGED <<completion, nextSequence, now>>

-----------------------------------------------------------------------------
(* Operations of the holder of a fence *)

(* Mutant of Renew: the session row keeps its old lease.                   *)
RenewAttemptOnly(s, n) ==
  /\ attempt[s][n].state = "running"
  /\ Live(attempt[s][n].lease)
  /\ attempt' = [attempt EXCEPT ![s][n].lease = now + LeaseTime]
  /\ UNCHANGED <<session, completion, nextSequence, now>>

(* Renewal checks the attempt row; the session row follows when it is      *)
(* still assigned to the same attempt.                                     *)
Renew(s, n) ==
  /\ attempt[s][n].state = "running"
  /\ Live(attempt[s][n].lease)
  /\ attempt' = [attempt EXCEPT ![s][n].lease = now + LeaseTime]
  /\ session' = [session EXCEPT ![s].lease =
       IF FenceMatches(s, n) /\ session[s].state \in Assigned /\ Live(@)
       THEN now + LeaseTime ELSE @]
  /\ UNCHANGED <<completion, nextSequence, now>>

(* Mutant of AppendAssignmentEvent: the fence is not compared.             *)
AppendUnfencedEvent(s, n) ==
  /\ session[s].state = "running"
  /\ attempt[s][n].state # "none"
  /\ session' = [session EXCEPT ![s].journal = n]
  /\ UNCHANGED <<attempt, completion, nextSequence, now>>

(* append_assignment_event: only the newest journal entry is kept          *)
AppendAssignmentEvent(s, n) ==
  /\ AssignmentIsCurrent(s, n)
  /\ session' = [session EXCEPT ![s].journal = n]
  /\ UNCHANGED <<attempt, completion, nextSequence, now>>

(* Mutant of BindOpencodeSession: a bound identity may be replaced.        *)
RebindOpencodeSession(s, n, id) ==
  /\ AssignmentIsCurrent(s, n)
  /\ session' = [session EXCEPT ![s].runtime = id, ![s].journal = n]
  /\ UNCHANGED <<attempt, completion, nextSequence, now>>

BindOpencodeSession(s, n, id) ==
  /\ AssignmentIsCurrent(s, n)
  /\ session[s].runtime \in {Null, id}
  /\ session' = [session EXCEPT ![s].runtime = id, ![s].journal = n]
  /\ UNCHANGED <<attempt, completion, nextSequence, now>>

(* terminalize_assignment *)
Terminalize(s, n, state, error) ==
  /\ attempt' = [attempt EXCEPT ![s][n] = [@ EXCEPT !.state = state, !.lease = 0]]
  /\ session' = [session EXCEPT ![s] =
       [@ EXCEPT !.state = state, !.active = 0, !.lease = 0, !.error = error,
                 !.journal = n]]
  /\ UNCHANGED <<completion, nextSequence, now>>

(* A cancelled session ignores the outcome its worker reports.             *)
ResolveCancelling(s, n) ==
  /\ Resolvable(s, n)
  /\ session[s].state = "cancelling"
  /\ Terminalize(s, n, "cancelled", "none")

(* Outcomes without structured output: TaskExecutionOutput::None, Failed,  *)
(* Blocked and Cancelled. The error text of the two failures is the       *)
(* executor's: it may or may not say that an approval is required.         *)
PlainOutcomes == {<<"succeeded", "none">>, <<"cancelled", "none">>}
                   \cup ({"failed", "blocked"} \X {"approval", "other"})

(* Mutant of ResolvePlain: the outcome overrides a cancellation.           *)
ResolvePlainUncancelled(s, n, outcome) ==
  Resolvable(s, n) /\ Terminalize(s, n, outcome[1], outcome[2])

ResolvePlain(s, n, outcome) ==
  /\ Resolvable(s, n)
  /\ session[s].state = "running"
  /\ Terminalize(s, n, outcome[1], outcome[2])

(* Structured output: the terminal state and the error text (an agent's    *)
(* reason for being blocked is free text).                                 *)
Outputs(kind) ==
  CASE kind = "agent" -> {<<"succeeded", "none">>} \cup
                         ({"blocked"} \X {"approval", "other"})
    [] kind \in {"chat", "edit"} -> {<<"succeeded", "none">>}
    [] OTHER -> {}

OwnsOutput(r) ==
  /\ r.kind \in {"agent", "chat"} => r.conversation # Null
  /\ r.kind = "agent" => r.run # Null

(* resolve_assignment_at: the result goes to the outbox, the session keeps *)
(* its ownership without a lease until the result is projected.  The       *)
(* INSERT fails when the outbox still holds a row of this session.         *)
StageOutput(s, n, output) ==
  /\ Resolvable(s, n)
  /\ session[s].state = "running"
  /\ output \in Outputs(session[s].request.kind)
  /\ OwnsOutput(session[s].request)
  /\ completion[s] = NoCompletion
  /\ completion' = [completion EXCEPT ![s] =
       [attempt |-> n, token |-> attempt[s][n].token, terminal |-> output[1],
        error |-> output[2], retryAt |-> now, projected |-> FALSE,
        finalized |-> FALSE]]
  /\ attempt' = [attempt EXCEPT ![s][n] =
       [@ EXCEPT !.state = "committing", !.lease = 0]]
  /\ session' = [session EXCEPT ![s] =
       [@ EXCEPT !.state = "committing", !.lease = 0, !.error = "none",
                 !.journal = n]]
  /\ UNCHANGED <<nextSequence, now>>

-----------------------------------------------------------------------------
(* Outbox *)

(* Mutant of Projected: a result projected before its finalization failed  *)
(* is not found again.                                                     *)
NothingProjected == {}

Projected == {s \in Sessions : completion[s].projected /\ ~completion[s].finalized}
(* Mutant of Due: the query forgets finalized_at.                          *)
DueOrRejected == {s \in Sessions : /\ completion[s].attempt # 0
                                   /\ ~completion[s].projected
                                   /\ completion[s].retryAt <= now}

Due == {s \in Sessions : /\ completion[s].attempt # 0
                         /\ ~completion[s].projected /\ ~completion[s].finalized
                         /\ completion[s].retryAt <= now}

RecordCompletionError(s, n) ==
  /\ StagedBy(s, n)
  /\ \E d \in RetryDelays :
       completion' = [completion EXCEPT ![s].retryAt = now + d]
  /\ UNCHANGED <<session, attempt, nextSequence, now>>

MarkCompletionProjected(s, n) ==
  /\ StagedBy(s, n)
  /\ completion' = [completion EXCEPT ![s].projected = TRUE]
  /\ UNCHANGED <<session, attempt, nextSequence, now>>

(* Ends the assignment of a committing session in the given state; its     *)
(* attempt has no lease to clear since StageOutput.                        *)
Release(s, n, state, error) ==
  /\ session' = [session EXCEPT ![s] =
       [@ EXCEPT !.state = state, !.active = 0, !.lease = 0, !.error = error,
                 !.journal = n]]
  /\ attempt' = [attempt EXCEPT ![s][n].state =
       IF @ = "committing" THEN state ELSE @]

FinalizeCompletion(s, n) ==
  /\ StagedBy(s, n)
  /\ completion[s].projected
  /\ CommittingBy(s, n)
  /\ Release(s, n, completion[s].terminal, completion[s].error)
  /\ completion' = [completion EXCEPT ![s].finalized = TRUE]
  /\ UNCHANGED <<nextSequence, now>>

RejectCompletion(s, n) ==
  /\ CommittingBy(s, n)
  /\ Release(s, n, "blocked", "other")
  /\ completion' = [completion EXCEPT ![s] =
       IF StagedBy(s, n)
       THEN [@ EXCEPT !.terminal = "blocked", !.finalized = TRUE] ELSE @]
  /\ UNCHANGED <<nextSequence, now>>

-----------------------------------------------------------------------------
(* SystemTime may step in either direction. *)
SetClock(t) ==
  /\ now' = t
  /\ UNCHANGED <<session, attempt, completion, nextSequence>>

ClientNext(s) ==
  \/ Cancel(s)
  \/ RemoveTerminal(s)
  \/ \E r \in Requests : \/ Enqueue(s, r)
                         \/ ResumeAfterApproval(s, r)
                         \/ ContinueInterrupted(s, r)

HolderNext(s, n) ==
  \/ Renew(s, n)
  \/ AppendAssignmentEvent(s, n)
  \/ \E id \in Runtimes : BindOpencodeSession(s, n, id)
  \/ ResolveCancelling(s, n)
  \/ \E outcome \in PlainOutcomes : ResolvePlain(s, n, outcome)
  \/ \E output \in Outputs("agent") : StageOutput(s, n, output)

OutboxNext(s, n) ==
  \/ RecordCompletionError(s, n)
  \/ MarkCompletionProjected(s, n)
  \/ FinalizeCompletion(s, n)
  \/ RejectCompletion(s, n)

Next ==
  \/ \E s \in Sessions : ClientNext(s)
  \/ \E s \in Sessions, o \in Owners : ClaimNext(o, s)
  \/ \E s \in Sessions, n \in Attempts : HolderNext(s, n) \/ OutboxNext(s, n)
  \/ \E o \in Owners : AbandonOwner(o)
  \/ RecoverExpired
  \/ \E t \in 0..MaxNow : SetClock(t)

Spec == Init /\ [][Next]_vars

-----------------------------------------------------------------------------
(* Safety *)

(* The two tables name the same assignment: a session is running or        *)
(* cancelling exactly while its active attempt, under the session's own    *)
(* token and lease, is running; it is committing exactly while that        *)
(* attempt is; and no other attempt of it runs or commits.                 *)
RowsAgree ==
  \A s \in Sessions :
    /\ session[s].state \in Active <=> session[s].active # 0
    /\ session[s].active # 0 =>
         /\ session[s].active = session[s].attempts
         /\ FenceMatches(s, session[s].active)
         /\ attempt[s][session[s].active].state =
              (IF session[s].state = "committing" THEN "committing" ELSE "running")
         /\ attempt[s][session[s].active].lease = session[s].lease
    /\ \A n \in Attempts :
         attempt[s][n].state \in {"running", "committing"} => session[s].active = n

(* Tokens grow with the attempts of a session and none is issued twice, so *)
(* a fence names one assignment for ever.                                  *)
TokensIncrease ==
  \A s \in Sessions : \A m, n \in Attempts :
    m < n /\ attempt[s][n].state # "none" =>
      /\ attempt[s][m].state # "none"
      /\ attempt[s][m].token < attempt[s][n].token
      /\ attempt[s][n].token <= session[s].token

(* The rows agree, and a fence names one assignment for ever.  Recovery,   *)
(* renewal and every call of a worker rely on it: they abort or diverge    *)
(* when the rows disagree, and compare nothing but the fence.              *)
AssignmentConsistent == RowsAgree /\ TokensIncrease

(* The outbox holds an unfinalized result of a session exactly while the   *)
(* session commits it, and none at all while the session is queued or      *)
(* assigned: staging never meets an old row, finalizing the head of the    *)
(* outbox never finds it stale, and no result is projected for a session   *)
(* that is about to run again.                                             *)
OutboxConsistent ==
  \A s \in Sessions :
    /\ session[s].state = "committing" <=>
         completion[s].attempt # 0 /\ ~completion[s].finalized
    /\ session[s].state = "committing" => StagedBy(s, session[s].active)
    /\ session[s].state \in {"absent", "queued", "removed"} \cup Assigned =>
         completion[s] = NoCompletion

(* No two sessions that share a conversation, a subject or an execution    *)
(* run of a workspace are ever active together, from the claim until the   *)
(* projection of the result ends.                                          *)
ExclusiveOwnership ==
  \A s, t \in Sessions :
    s # t /\ session[s].state \in Active /\ session[t].state \in Active =>
      ~Overlap(session[s].request, session[t].request)

(* However many schedulers claim, at most GlobalLimit attempts run.        *)
CapacityBound == Cardinality(Running) <= GlobalLimit

-----------------------------------------------------------------------------
(* What a step may never do *)

(* A cancellation that was accepted is not overtaken: whatever the worker  *)
(* reports later, and whichever scheduler recovers it, a cancelling        *)
(* session ends cancelled and stages no result.                            *)
CancelWins ==
  [][\A s \in Sessions : session[s].state = "cancelling" =>
       session'[s].state \in {"cancelling", "cancelled"}]_vars

(* Events reach the journal in the order of the attempts: once a session   *)
(* is assigned again, no event of an earlier attempt is appended.          *)
JournalFollowsAttempts ==
  [][\A s \in Sessions : session'[s].state # "removed" =>
       session'[s].journal >= session[s].journal]_vars

(* The OpenCode session of a Task Session is bound once: no later attempt  *)
(* and no resume replaces it.                                              *)
RuntimeBoundOnce ==
  [][\A s \in Sessions :
       session[s].runtime # Null /\ session'[s].state # "removed" =>
         session'[s].runtime = session[s].runtime]_vars

(* A result in the outbox survives until the session is released with the  *)
(* staged outcome, or blocked by a rejection: no recovery, cancellation,   *)
(* claim or late call drops it.                                            *)
StagedResultKept ==
  [][\A s \in Sessions : session[s].state = "committing" =>
       \/ /\ session'[s].state = "committing"
          /\ completion'[s] = [completion[s] EXCEPT
               !.retryAt = completion'[s].retryAt,
               !.projected = completion'[s].projected]
          /\ completion[s].projected => completion'[s].projected
       \/ /\ session'[s].state \in {"blocked", completion[s].terminal}
          /\ completion'[s].finalized]_vars

(* An attempt that ended stays as it ended until its session is removed:   *)
(* a late renewal or result of a superseded worker revives nothing.        *)
EndedAttemptsAreInert ==
  [][\A s \in Sessions : \A n \in Attempts :
       attempt[s][n].state \in Terminal \cup {"interrupted"} =>
         attempt'[s][n] \in {attempt[s][n], NoAttempt}]_vars
=============================================================================
