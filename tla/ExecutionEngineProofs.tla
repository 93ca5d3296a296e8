------------------------ MODULE ExecutionEngineProofs ------------------------
(***************************************************************************)
(* The engine over the store.                                              *)
(*                                                                         *)
(* What it does to the store is what SchedulerStore allows, so the         *)
(* theorems about the store hold of the engine.  That needs that the       *)
(* fences it holds, wherever they are, were issued: EShape and Visits.     *)
(*                                                                         *)
(* A result stays staged while it is projected because all that can take   *)
(* it from the outbox, the two ends of a projection, are steps of this     *)
(* engine that clear the projection; every other step is one of QuietNext  *)
(* or a claim.                                                             *)
(*                                                                         *)
(* Whatever runs under this owner and a live lease is tracked, because     *)
(* only a claim starts an attempt and the engine forgets one only when it  *)
(* cannot be resolved any more.                                            *)
(*                                                                         *)
(* A fence is in one place at a time: with a worker, in a report or in a   *)
(* pending outcome (OnePlace).  So a result is always that of the worker   *)
(* the fence was given to, and no report overwrites a pending outcome.     *)
(*                                                                         *)
(* If every lease is renewed in time, no tracked assignment is recovered,  *)
(* so workers and assignments stay in step (WorkersInStep).                *)
(***************************************************************************)
EXTENDS ExecutionEngine, SchedulerStoreProofs

Fences == Sessions \X Attempts
Projections == [fence : Fences, result : {"pending", "projected", "retryable", "rejected", "marked"}]

(* The fences in memory: the Scheduler's, the workers' and the projector's.*)
EShape ==
  /\ owner \in Owners \cup {Null}
  /\ active \in [Sessions -> [attempt : AttemptNumbers, outcome : Outcomes \cup {Null}]]
  /\ inbox \in [Workers -> Seq(Fences)]
  /\ finished \in [Workers -> Seq(Fences \X Outcomes)]
  /\ projection # Null => projection \in Projections

(* What the loop has still to visit is tracked, or pending, or with the    *)
(* projector.                                                              *)
Visits ==
  /\ \A s \in Sessions : active[s].outcome # Null => active[s].attempt # 0
  /\ todo \subseteq Sessions
  /\ phase = "renew" => \A s \in todo : active[s].attempt # 0
  /\ phase = "retry" => \A s \in todo : active[s].outcome # Null
  /\ phase = "finalize" => projection \in Projections

EInv == EShape /\ Visits

-----------------------------------------------------------------------------
(* Steps of the store *)

USE BoundsAssumption

(* All that leaves the outbox to itself and assigns nothing.  The engine    *)
(* never sees the clock step back.                                         *)
QuietNext ==
  \/ \E s \in Sessions : ClientNext(s)
  \/ \E s \in Sessions, n \in Attempts : HolderNext(s, n)
  \/ \E o \in Owners : AbandonOwner(o)
  \/ RecoverExpired
  \/ \E t \in 0..MaxNow : t > now /\ SetClock(t)

Claims == \E s \in Sessions, o \in Owners : ClaimNext(o, s)

LEMMA QuietIsNext == QuietNext \/ Claims => Next
BY DEF QuietNext, Claims, Next

(* Being staged, in terms of two rows only.                                *)
LEMMA StagedMeans ==
  ASSUME IInv, NEW s \in Sessions, NEW n \in Attempts
  PROVE  StagedBy(s, n) <=>
           /\ n <= session[s].attempts /\ completion[s].attempt = n
           /\ completion[s].token = n /\ ~completion[s].finalized
BY DEF IInv, RowInv, Numbered, StagedBy

(* What is staged belongs to a session that is committing.                 *)
LEMMA StagedIsCommitting ==
  ASSUME IInv, NEW s \in Sessions, NEW n \in Attempts, StagedBy(s, n)
  PROVE  session[s].state = "committing"
<1>1. completion[s].attempt = n /\ ~completion[s].finalized /\ n # 0
  BY DEF StagedBy, Attempts
<1> QED BY <1>1 DEF IInv, RowInv, OutboxRows

(* The attempts of a session are counted on for as long as it is there.    *)
LEMMA AttemptsCountOn ==
  ASSUME IInv, QuietNext \/ Claims, NEW s \in Sessions, session[s].state = "committing"
  PROVE  session'[s].attempts >= session[s].attempts /\ completion'[s] = completion[s]
<1>0. /\ session \in [Sessions -> SessionRow] /\ completion \in [Sessions -> CompletionRow]
      /\ session[s].attempts \in Nat
  BY RowFacts DEF IInv
<1>1. ASSUME NEW t \in Sessions, ClientNext(t)
      PROVE  session'[s].attempts >= session[s].attempts /\ completion'[s] = completion[s]
  <2>1. CASE Cancel(t)
    BY <1>0, <2>1 DEF Cancel, SessionRow
  <2>2. CASE t # s
    <3>1. session'[s] = session[s] /\ completion'[s] = completion[s]
      <4>1. CASE Cancel(t)
        BY <1>0, <2>2, <4>1 DEF Cancel
      <4>2. CASE RemoveTerminal(t)
        BY <1>0, <2>2, <4>2 DEF RemoveTerminal
      <4>3. ASSUME NEW r \in Requests, Enqueue(t, r) \/ Requeue(t, r)
            PROVE  session'[s] = session[s] /\ completion'[s] = completion[s]
        BY <1>0, <2>2, <4>3 DEF Enqueue, Requeue
      <4> QED BY <1>1, <4>1, <4>2, <4>3 DEF ClientNext, ResumeAfterApproval, ContinueInterrupted
    <3> QED BY <1>0, <3>1
  <2>3. CASE t = s /\ ~Cancel(t)
    BY <1>1, <2>3 DEF ClientNext, RemoveTerminal, Enqueue, ResumeAfterApproval,
                      ContinueInterrupted, Terminal
  <2> QED BY <2>1, <2>2, <2>3
<1>2. ASSUME NEW hit \in SUBSET Running, Recover(hit)
      PROVE  session'[s].attempts >= session[s].attempts /\ completion'[s] = completion[s]
  BY <1>0, <1>2 DEF Recover, SessionsAfter, Assigned
<1>3. ASSUME NEW t \in Sessions, NEW o \in Owners, ClaimNext(o, t)
      PROVE  session'[s].attempts >= session[s].attempts /\ completion'[s] = completion[s]
  <2>1. SessionsAfter(Expired)[s] = session[s]
    BY <1>0 DEF SessionsAfter, Assigned
  <2>2. t # s
    BY <1>3, <2>1 DEF ClaimNext, Candidate, Eligible
  <2> QED BY <1>0, <1>3, <2>1, <2>2 DEF ClaimNext, Assign
<1>4. ASSUME NEW t \in Sessions, NEW n \in Attempts, HolderNext(t, n)
      PROVE  session'[s].attempts >= session[s].attempts /\ completion'[s] = completion[s]
  <2>1. CASE Renew(t, n)
    BY <1>0, <2>1 DEF Renew, SessionRow
  <2>2. CASE t # s /\ ~Renew(t, n)
    <3>1. session'[s] = session[s] /\ completion'[s] = completion[s]
      <4>1. CASE AppendAssignmentEvent(t, n)
        BY <1>0, <2>2, <4>1 DEF AppendAssignmentEvent
      <4>2. ASSUME NEW id \in Runtimes, BindOpencodeSession(t, n, id)
            PROVE  session'[s] = session[s] /\ completion'[s] = completion[s]
        BY <1>0, <2>2, <4>2 DEF BindOpencodeSession
      <4>3. ASSUME NEW state, NEW error, Terminalize(t, n, state, error)
            PROVE  session'[s] = session[s] /\ completion'[s] = completion[s]
        BY <1>0, <2>2, <4>3 DEF Terminalize
      <4>4. ASSUME NEW output \in Outputs("agent"), StageOutput(t, n, output)
            PROVE  session'[s] = session[s] /\ completion'[s] = completion[s]
        BY <1>0, <2>2, <4>4 DEF StageOutput
      <4> QED BY <1>4, <2>2, <4>1, <4>2, <4>3, <4>4 DEF HolderNext, ResolveCancelling, ResolvePlain
    <3> QED BY <1>0, <3>1
  <2>3. CASE t = s /\ ~Renew(t, n)
    BY <1>4, <2>3
    DEF HolderNext, AppendAssignmentEvent, BindOpencodeSession, AssignmentIsCurrent,
        ResolveCancelling, ResolvePlain, StageOutput
  <2> QED BY <2>1, <2>2, <2>3
<1>5. Expired \in SUBSET Running /\ \A o \in Owners : OwnedBy(o) \in SUBSET Running
  BY DEF Expired, OwnedBy
<1>6. ASSUME NEW t \in 0..MaxNow, SetClock(t)
      PROVE  session'[s].attempts >= session[s].attempts /\ completion'[s] = completion[s]
  BY <1>0, <1>6 DEF SetClock
<1> QED BY <1>1, <1>2, <1>3, <1>4, <1>5, <1>6 DEF QuietNext, Claims, AbandonOwner, RecoverExpired

LEMMA StagedKept ==
  ASSUME IInv, IInv', QuietNext \/ Claims \/ UNCHANGED storeVars,
         NEW s \in Sessions, NEW n \in Attempts, StagedBy(s, n)
  PROVE  StagedBy(s, n)'
<1>1. CASE UNCHANGED storeVars
  BY <1>1 DEF storeVars, StagedBy
<1>2. CASE QuietNext \/ Claims
  <2>1. session'[s].attempts >= session[s].attempts /\ completion'[s] = completion[s]
    BY <1>2, StagedIsCommitting, AttemptsCountOn
  <2>2. /\ n <= session[s].attempts /\ completion[s].attempt = n
        /\ completion[s].token = n /\ ~completion[s].finalized
    BY StagedMeans
  <2>3. session[s].attempts \in Nat /\ session'[s].attempts \in Nat /\ n \in Nat
    <3>1. RowInv(session[s], attempt[s], completion[s])
      BY DEF IInv
    <3>2. RowInv(session'[s], attempt'[s], completion'[s])
      BY DEF IInv
    <3> QED BY <3>1, <3>2, RowFacts DEF Attempts
  <2>4. n <= session'[s].attempts
    BY <2>1, <2>2, <2>3
  <2>5. /\ attempt'[s][n].state # "none" /\ attempt'[s][n].token = n
    BY <2>4 DEF IInv, RowInv, Numbered
  <2> QED BY <2>1, <2>2, <2>5 DEF StagedBy
<1> QED BY <1>1, <1>2

(* A row that is due is staged, by the attempt it names.                   *)
LEMMA DueIsStaged ==
  ASSUME IInv, NEW s \in Due
  PROVE  s \in Sessions /\ completion[s].attempt \in Attempts /\ StagedBy(s, completion[s].attempt)
<1>1. /\ s \in Sessions /\ completion[s].attempt # 0 /\ ~completion[s].finalized
      /\ RowInv(session[s], attempt[s], completion[s])
  BY DEF Due, IInv
<1>2. completion[s].attempt \in Attempts
  BY <1>1, RowFacts DEF CompletionRow, AttemptNumbers, Attempts
<1>3. /\ session[s].state = "committing" /\ completion[s].attempt = session[s].active
      /\ completion[s].token = session[s].token
  BY <1>1 DEF RowInv, OutboxRows
<1>4. session[s].active = session[s].attempts /\ session[s].token = session[s].attempts
      /\ session[s].attempts \in Nat
  BY <1>1, <1>2, <1>3, RowFacts DEF RowInv, AssignmentRows, Numbered, Attempts
<1> QED BY <1>1, <1>2, <1>3, <1>4, StagedMeans

-----------------------------------------------------------------------------
(* Steps of the engine *)

(* The five kinds of them, by what they do to the store and to the         *)
(* projection.                                                             *)
SameProjection ==
  projection' = Null \/ (projection # Null /\ projection' # Null /\ projection'.fence = projection.fence)
QuietStep == (QuietNext \/ UNCHANGED storeVars) /\ SameProjection
ClaimStep ==
  /\ SameProjection
  /\ owner \in Owners
  /\ \E w \in Workers, s \in Sessions : DispatchClaim(w, s)
SendStep ==
  /\ UNCHANGED storeVars
  /\ \E s \in Due : projection'.fence = <<s, completion[s].attempt>>
MarkStep ==
  /\ SameProjection
  /\ \E s \in Sessions, n \in Attempts : MarkCompletionProjected(s, n)
EndStep ==
  /\ projection' = Null
  /\ \E s \in Sessions, n \in Attempts : OutboxNext(s, n)
EngineStep == QuietStep \/ ClaimStep \/ SendStep \/ MarkStep \/ EndStep

LEMMA AfterMessageVisits ==
  ASSUME AfterMessage \/ RetryNext,
         \A s \in Sessions : active'[s].outcome # Null => active'[s].attempt # 0
  PROVE  Visits'
BY DEF AfterMessage, RetryNext, Visits

LEMMA RecoverAnyQuiet ==
  /\ RecoverAny(Expired) => QuietNext \/ UNCHANGED storeVars
  /\ \A o \in Owners : RecoverAny(OwnedBy(o)) => QuietNext \/ UNCHANGED storeVars
BY DEF RecoverAny, QuietNext, RecoverExpired, AbandonOwner

(* What a process that starts has in memory.                               *)
LEMMA FreshShape ==
  ASSUME FreshMemory, phase' = "receive", owner' = Null
  PROVE  EInv'
<1>1. 0 \in AttemptNumbers
  BY DEF AttemptNumbers
<1> QED BY <1>1 DEF FreshMemory, NoAssignment, EInv, EShape, Visits

LEMMA OutcomeForms ==
  ASSUME NEW outcome \in Outcomes
  PROVE  /\ outcome[1] = "plain" => outcome[2] \in PlainOutcomes
         /\ outcome[1] = "output" => outcome[2] \in Outputs("agent")
BY DEF Outcomes

(* The end of an assignment is a step of its holder, and nobody tracks it. *)
LEMMA ResolveQuiet ==
  ASSUME EInv, NEW s \in Sessions, active[s].attempt # 0, NEW outcome \in Outcomes,
         Resolve(s, outcome)
  PROVE  /\ QuietNext \/ UNCHANGED storeVars
         /\ active' \in [Sessions -> [attempt : AttemptNumbers, outcome : Outcomes \cup {Null}]]
         /\ \A t \in Sessions \ {s} : active'[t] = active[t]
         /\ active'[s] = NoAssignment
<1>1. active[s].attempt \in Attempts
  BY DEF EInv, EShape, AttemptNumbers, Attempts
<1>2. Apply(s, active[s].attempt, outcome) => HolderNext(s, active[s].attempt)
  BY OutcomeForms DEF Apply, HolderNext
<1>3. active' = [active EXCEPT ![s] = NoAssignment]
  BY DEF Resolve
<1>4. NoAssignment \in [attempt : AttemptNumbers, outcome : Outcomes \cup {Null}]
  BY DEF NoAssignment, AttemptNumbers
<1> QED BY <1>1, <1>2, <1>3, <1>4 DEF Resolve, QuietNext, EInv, EShape

LEMMA ResolveFailsShape ==
  ASSUME EInv, NEW s \in Sessions, active[s].attempt # 0, NEW outcome \in Outcomes,
         ResolveFails(s, outcome)
  PROVE  /\ UNCHANGED storeVars
         /\ active' \in [Sessions -> [attempt : AttemptNumbers, outcome : Outcomes \cup {Null}]]
         /\ \A t \in Sessions \ {s} : active'[t] = active[t]
         /\ active'[s].attempt # 0
<1>1. active \in [Sessions -> [attempt : AttemptNumbers, outcome : Outcomes \cup {Null}]]
  BY DEF EInv, EShape
<1>2. active' = [active EXCEPT ![s].outcome = outcome]
  BY DEF ResolveFails
<1> QED BY <1>1, <1>2 DEF ResolveFails

-----------------------------------------------------------------------------
(* Each step keeps the fences issued and is of one of the five kinds.      *)
LEMMA ClientSteps ==
  ASSUME EInv, NEW s \in Sessions, HandleClient(s) \/ HandleCancel(s) \/ OtherProcessCancels(s)
  PROVE  EInv' /\ QuietStep
<1>1. CASE HandleClient(s)
  <2>1. ClientNext(s)
    BY <1>1 DEF HandleClient, ClientNext
  <2>2. Visits'
    BY <1>1, AfterMessageVisits DEF HandleClient, EInv, Visits
  <2> QED BY <1>1, <2>1, <2>2 DEF HandleClient, workerVars, EInv, EShape, QuietStep, QuietNext, SameProjection
<1>2. CASE HandleCancel(s)
  <2>1. ClientNext(s) \/ UNCHANGED storeVars
    BY <1>2 DEF HandleCancel, ClientNext
  <2>2. Visits'
    BY <1>2, AfterMessageVisits DEF HandleCancel, EInv, Visits
  <2> QED BY <1>2, <2>1, <2>2 DEF HandleCancel, workerVars, EInv, EShape, QuietStep, QuietNext, SameProjection
<1>3. CASE OtherProcessCancels(s)
  BY <1>3 DEF OtherProcessCancels, engineVars, memory, ClientNext, EInv, EShape, Visits,
              QuietStep, QuietNext, SameProjection
<1> QED BY <1>1, <1>2, <1>3

LEMMA FinishedSteps ==
  ASSUME EInv, NEW w \in Workers, HandleFinished(w)
  PROVE  EInv' /\ QuietStep
<1> DEFINE f == Head(finished[w])
<1>1. /\ finished[w] \in Seq(Fences \X Outcomes) /\ finished[w] # <<>>
      /\ finished \in [Workers -> Seq(Fences \X Outcomes)]
  BY DEF HandleFinished, EInv, EShape
<1>2. f \in Fences \X Outcomes /\ Tail(finished[w]) \in Seq(Fences \X Outcomes)
  BY <1>1
<1>3. f[1][1] \in Sessions /\ f[1][2] \in Attempts /\ f[2] \in Outcomes
  BY <1>2 DEF Fences
<1>4. finished' \in [Workers -> Seq(Fences \X Outcomes)]
  BY <1>1, <1>2 DEF HandleFinished
<1> HIDE DEF f
<1>5. /\ QuietNext \/ UNCHANGED storeVars
      /\ active' \in [Sessions -> [attempt : AttemptNumbers, outcome : Outcomes \cup {Null}]]
      /\ \A t \in Sessions : active'[t].outcome # Null => active'[t].attempt # 0
  <2>1. CASE Expects(w, f[1][1], f[1][2])
    <3>1. active[f[1][1]].attempt # 0
      BY <1>3, <2>1 DEF Expects, Attempts
    <3>2. Resolve(f[1][1], f[2]) \/ ResolveFails(f[1][1], f[2])
      BY <2>1 DEF HandleFinished, f
    <3>3. CASE Resolve(f[1][1], f[2])
      BY <1>3, <3>1, <3>3, ResolveQuiet DEF NoAssignment, EInv, Visits
    <3>4. CASE ResolveFails(f[1][1], f[2])
      BY <1>3, <3>1, <3>4, ResolveFailsShape DEF EInv, Visits
    <3> QED BY <3>2, <3>3, <3>4
  <2>2. CASE ~Expects(w, f[1][1], f[1][2])
    <3>1. UNCHANGED <<storeVars, active>>
      BY <2>2 DEF HandleFinished, f
    <3> QED BY <3>1 DEF EInv, EShape, Visits
  <2> QED BY <2>1, <2>2
<1>6. Visits'
  BY <1>5, AfterMessageVisits DEF HandleFinished
<1> QED BY <1>4, <1>5, <1>6 DEF HandleFinished, EInv, EShape, QuietStep, SameProjection

LEMMA RetrySteps ==
  ASSUME EInv, NEW s \in Sessions, RetryResolution(s)
  PROVE  EInv' /\ QuietStep
<1>1. /\ active[s].outcome # Null /\ active[s].attempt # 0 /\ active[s].outcome \in Outcomes
      /\ phase = "retry" /\ phase' = phase /\ todo' = todo \ {s}
  BY DEF RetryResolution, At, EInv, EShape, Visits
<1>2. /\ QuietNext \/ UNCHANGED storeVars
      /\ active' \in [Sessions -> [attempt : AttemptNumbers, outcome : Outcomes \cup {Null}]]
      /\ \A t \in Sessions \ {s} : active'[t] = active[t]
      /\ active'[s].outcome # Null => active'[s].attempt # 0
  <2>1. CASE Resolve(s, active[s].outcome)
    BY <1>1, <2>1, ResolveQuiet DEF NoAssignment
  <2>2. CASE ResolveFails(s, active[s].outcome)
    BY <1>1, <2>2, ResolveFailsShape
  <2> QED BY <2>1, <2>2 DEF RetryResolution
<1>3. Visits'
  BY <1>1, <1>2 DEF EInv, Visits
<1> QED BY <1>2, <1>3 DEF RetryResolution, workerVars, EInv, EShape, QuietStep, SameProjection

LEMMA RenewSteps ==
  ASSUME EInv, NEW s \in Sessions, RenewLease(s)
  PROVE  EInv' /\ QuietStep
<1>1. /\ phase = "renew" /\ phase' = phase /\ todo' = todo \ {s} /\ active' = active
      /\ active[s].attempt \in Attempts
  BY DEF RenewLease, At, EInv, EShape, Visits, AttemptNumbers, Attempts
<1>2. HolderNext(s, active[s].attempt) \/ UNCHANGED storeVars
  BY DEF RenewLease, HolderNext
<1>3. Visits'
  BY <1>1 DEF EInv, Visits
<1> QED BY <1>1, <1>2, <1>3
  DEF RenewLease, workerVars, EInv, EShape, QuietStep, QuietNext, SameProjection

LEMMA LoopSteps ==
  ASSUME EInv, QuietRound \/ RecoverAfterRenewal \/ RetriesDone \/ DispatchDone
  PROVE  EInv' /\ QuietStep
<1>1. CASE QuietRound
  <2>1. Visits'
    BY <1>1, AfterMessageVisits DEF QuietRound, EInv, Visits
  <2> QED BY <1>1, <2>1 DEF QuietRound, workerVars, EInv, EShape, QuietStep, SameProjection
<1>2. CASE RecoverAfterRenewal
  <2>1. Visits'
    BY <1>2, AfterMessageVisits DEF RecoverAfterRenewal, EInv, Visits
  <2>2. QuietNext \/ UNCHANGED storeVars
    BY <1>2, RecoverAnyQuiet DEF RecoverAfterRenewal
  <2> QED BY <1>2, <2>1, <2>2 DEF RecoverAfterRenewal, workerVars, EInv, EShape, QuietStep, SameProjection
<1>3. CASE RetriesDone
  BY <1>3 DEF RetriesDone, workerVars, EInv, EShape, Visits, QuietStep, SameProjection
<1>4. CASE DispatchDone
  BY <1>4 DEF DispatchDone, workerVars, EInv, EShape, Visits, QuietStep, QuietNext, SameProjection
<1> QED BY <1>1, <1>2, <1>3, <1>4

LEMMA ProcessSteps ==
  ASSUME EInv, (\E o \in Owners : Start(o)) \/ Crash \/ Shutdown
  PROVE  EInv' /\ QuietStep
<1>1. ASSUME NEW o \in Owners, Start(o) PROVE EInv' /\ QuietStep
  BY <1>1, RecoverAnyQuiet DEF Start, EInv, EShape, Visits, QuietStep, SameProjection
<1>2. CASE Crash
  BY <1>2, FreshShape DEF Crash, FreshMemory, QuietStep, SameProjection
<1>3. CASE Shutdown
  <2>1. owner \in Owners
    BY <1>3 DEF Shutdown, At, Up, EInv, EShape
  <2> QED BY <1>3, <2>1, FreshShape, RecoverAnyQuiet
    DEF Shutdown, FreshMemory, QuietStep, SameProjection
<1> QED BY <1>1, <1>2, <1>3

LEMMA WorkerSteps ==
  ASSUME EInv, NEW w \in Workers, WorkerEvent(w) \/ WorkerReport(w)
  PROVE  EInv' /\ QuietStep
<1>1. ASSUME NEW f \in Executing(w)
      PROVE  /\ f \in Fences /\ f[1] \in Sessions /\ f[2] \in Attempts
             /\ inbox[w] # <<>>
  BY <1>1 DEF Executing, EInv, EShape, Fences
<1>2. CASE WorkerEvent(w)
  <2>1. PICK f \in Executing(w) : \/ AppendAssignmentEvent(f[1], f[2])
                                  \/ \E id \in Runtimes : BindOpencodeSession(f[1], f[2], id)
    BY <1>2 DEF WorkerEvent
  <2>2. HolderNext(f[1], f[2])
    BY <2>1 DEF HolderNext
  <2> QED BY <1>1, <1>2, <2>2
    DEF WorkerEvent, engineVars, memory, EInv, EShape, Visits, QuietStep, QuietNext, SameProjection
<1>3. CASE WorkerReport(w)
  <2>1. PICK f \in Executing(w) :
          \E outcome \in (IF f \in cancelled THEN {<<"plain", <<"cancelled", "none">>>>} ELSE Reports) :
            finished' = [finished EXCEPT ![w] = Append(@, <<f, outcome>>)]
    BY <1>3 DEF WorkerReport
  <2>2. PICK outcome \in Outcomes : finished' = [finished EXCEPT ![w] = Append(@, <<f, outcome>>)]
    <3>1. <<"plain", <<"cancelled", "none">>>> \in Outcomes
      BY DEF Outcomes, PlainOutcomes
    <3> QED BY <2>1, <3>1, EngineAssumption
  <2>3. <<f, outcome>> \in Fences \X Outcomes
    BY <1>1
  <2>4. finished' \in [Workers -> Seq(Fences \X Outcomes)]
    BY <2>2, <2>3 DEF EInv, EShape
  <2>5. inbox' \in [Workers -> Seq(Fences)]
    <3>1. Tail(inbox[w]) \in Seq(Fences)
      BY <1>1 DEF EInv, EShape
    <3> QED BY <1>3, <3>1 DEF WorkerReport, EInv, EShape
  <2> QED BY <1>3, <2>4, <2>5 DEF WorkerReport, EInv, EShape, Visits, QuietStep, SameProjection
<1> QED BY <1>2, <1>3

LEMMA ClaimSteps ==
  ASSUME EInv, IInv, NEW w \in Workers, NEW s \in Sessions, DispatchClaim(w, s)
  PROVE  EInv' /\ ClaimStep
<1>1. owner \in Owners
  BY DEF DispatchClaim, At, Up, EInv, EShape
<1>2. Claims /\ ClaimNext(owner, s)
  BY <1>1 DEF DispatchClaim, Claims
<1>3. IInv'
  BY <1>2, QuietIsNext, NextInv
<1>4. session'[s].active \in Attempts
  <2>1. SessionsAfter(Expired)[s] \in SessionRow
    <3>1. Expired \in SUBSET Running
      BY DEF Expired
    <3> QED BY <3>1, AfterRows, RowFacts
  <2>2. session' = [SessionsAfter(Expired) EXCEPT ![s] = ClaimedRow(SessionsAfter(Expired)[s])]
    BY <1>2 DEF ClaimNext, Assign
  <2>3. session'[s] = ClaimedRow(SessionsAfter(Expired)[s])
    BY <2>2 DEF SessionsAfter
  <2>4. session'[s].state = "running"
    BY <2>1, <2>3 DEF ClaimedRow, SessionRow
  <2>5. RowInv(session'[s], attempt'[s], completion'[s])
    BY <1>3 DEF IInv
  <2>6. session'[s].active # 0 /\ session'[s].active \in AttemptNumbers
    BY <2>4, <2>5, RowFacts DEF RowInv, AssignmentRows, Active
  <2> QED BY <2>6 DEF AttemptNumbers, Attempts
<1> DEFINE a == [attempt |-> session'[s].active, outcome |-> Null]
<1>5. a \in [attempt : AttemptNumbers, outcome : Outcomes \cup {Null}] /\ a.outcome = Null
  BY <1>4 DEF AttemptNumbers, Attempts
<1>6. active' = [active EXCEPT ![s] = a]
  BY DEF DispatchClaim
<1>7. <<s, session'[s].active>> \in Fences
  BY <1>4 DEF Fences
<1>8. inbox' \in [Workers -> Seq(Fences)]
  BY <1>7 DEF DispatchClaim, EInv, EShape
<1> HIDE DEF a
<1>9. EShape'
  BY <1>5, <1>6, <1>8 DEF DispatchClaim, EInv, EShape
<1>10. Visits'
  BY <1>5, <1>6 DEF DispatchClaim, At, EInv, EShape, Visits
<1>11. SameProjection
  BY DEF DispatchClaim, SameProjection
<1> QED BY <1>1, <1>9, <1>10, <1>11 DEF EInv, ClaimStep

(* The steps that touch the outbox or the projection.                      *)
LEMMA ProjectionSteps ==
  ASSUME EInv, IInv,
         \/ DispatchProjection
         \/ \E result \in {"projected", "retryable", "rejected"} : Project(result)
         \/ HandleProjection
         \/ FinalizeAfterMark
  PROVE  EInv' /\ EngineStep
<1>1. CASE DispatchProjection
  <2>1. Visits'
    BY <1>1 DEF DispatchProjection, EInv, Visits
  <2>2. CASE FinalizeProjected
    <3>1. PICK s \in Projected : FinalizeCompletion(s, completion[s].attempt)
      BY <2>2 DEF FinalizeProjected
    <3>2. projection = Null /\ projection' = Null
      BY <2>2 DEF FinalizeProjected
    <3>3. s \in Sessions /\ completion[s].attempt \in Attempts
      <4>1. s \in Sessions /\ RowInv(session[s], attempt[s], completion[s])
        BY DEF Projected, IInv
      <4>2. completion[s].attempt # 0
        BY <3>1, <4>1 DEF FinalizeCompletion, CommittingBy, RowInv, OutboxRows
      <4> QED BY <4>1, <4>2, RowFacts DEF CompletionRow, AttemptNumbers, Attempts
    <3>4. EndStep
      BY <3>1, <3>2, <3>3 DEF EndStep, OutboxNext
    <3> QED BY <1>1, <2>1, <3>2, <3>4 DEF DispatchProjection, workerVars, EInv, EShape, EngineStep
  <2>3. CASE SendDue
    <3>1. PICK s \in Due : projection' = [fence |-> <<s, completion[s].attempt>>, result |-> "pending"]
      BY <2>3 DEF SendDue
    <3>2. <<s, completion[s].attempt>> \in Fences
      BY DueIsStaged DEF Fences
    <3>3. projection' \in Projections /\ projection'.fence = <<s, completion[s].attempt>>
      BY <3>1, <3>2 DEF Projections
    <3>4. SendStep
      BY <2>3, <3>3 DEF SendDue, SendStep
    <3> QED BY <1>1, <2>1, <3>3, <3>4 DEF DispatchProjection, workerVars, EInv, EShape, EngineStep
  <2>4. CASE UNCHANGED <<storeVars, projection>>
    BY <1>1, <2>1, <2>4
    DEF DispatchProjection, workerVars, EInv, EShape, EngineStep, QuietStep, SameProjection
  <2> QED BY <1>1, <2>2, <2>3, <2>4 DEF DispatchProjection
<1>2. ASSUME NEW result \in {"projected", "retryable", "rejected"}, Project(result)
      PROVE  EInv' /\ EngineStep
  <2>1. projection \in Projections /\ projection # Null
    BY <1>2 DEF Project, EInv, EShape
  <2>2. projection' \in Projections /\ projection'.fence = projection.fence
    BY <1>2, <2>1 DEF Project, Projections
  <2> QED BY <1>2, <2>1, <2>2
    DEF Project, workerVars, EInv, EShape, Visits, EngineStep, QuietStep, SameProjection
<1>3. CASE HandleProjection
  <2> DEFINE s == projection.fence[1]
             n == projection.fence[2]
  <2>1. projection \in Projections /\ projection # Null /\ s \in Sessions /\ n \in Attempts
    BY <1>3 DEF HandleProjection, EInv, EShape, Projections, Fences
  <2> HIDE DEF s, n
  <2>2. CASE /\ MarkCompletionProjected(s, n)
             /\ projection' = [projection EXCEPT !.result = "marked"]
             /\ phase' = "finalize" /\ UNCHANGED todo
    <3>1. projection' \in Projections /\ projection'.fence = projection.fence
      BY <2>1, <2>2 DEF Projections
    <3>2. SameProjection
      BY <2>1, <3>1 DEF SameProjection
    <3>3. MarkStep
      BY <2>1, <2>2, <3>2 DEF MarkStep
    <3> QED BY <1>3, <2>2, <3>1, <3>3
      DEF HandleProjection, workerVars, EInv, EShape, Visits, EngineStep
  <2>3. CASE /\ RecordCompletionError(s, n) \/ RejectCompletion(s, n) \/ UNCHANGED storeVars
             /\ projection' = Null /\ AfterMessage
    <3>1. Visits'
      BY <1>3, <2>3, AfterMessageVisits DEF HandleProjection, EInv, Visits
    <3>2. EndStep \/ QuietStep
      BY <2>1, <2>3 DEF EndStep, OutboxNext, QuietStep, SameProjection
    <3> QED BY <1>3, <2>3, <3>1, <3>2 DEF HandleProjection, workerVars, EInv, EShape, EngineStep
  <2> QED BY <1>3, <2>2, <2>3 DEF HandleProjection, s, n
<1>4. CASE FinalizeAfterMark
  <2>1. Visits'
    BY <1>4, AfterMessageVisits DEF FinalizeAfterMark, EInv, Visits
  <2>2. CASE UNCHANGED storeVars
    BY <1>4, <2>1, <2>2
    DEF FinalizeAfterMark, workerVars, EInv, EShape, EngineStep, QuietStep, SameProjection
  <2>3. CASE FinalizeCompletion(projection.fence[1], projection.fence[2])
    <3>1. projection \in Projections
      BY <1>4 DEF FinalizeAfterMark, At, EInv, Visits
    <3>2. projection.fence[1] \in Sessions /\ projection.fence[2] \in Attempts
      BY <3>1 DEF Projections, Fences
    <3> QED BY <1>4, <2>1, <2>3, <3>2
      DEF FinalizeAfterMark, workerVars, EInv, EShape, EngineStep, EndStep, OutboxNext
  <2> QED BY <1>4, <2>2, <2>3 DEF FinalizeAfterMark
<1> QED BY <1>1, <1>2, <1>3, <1>4

LEMMA EngineSteps ==
  ASSUME EInv, IInv, [EngineNext]_allVars
  PROVE  EInv' /\ EngineStep
<1>1. CASE UNCHANGED allVars
  BY <1>1 DEF allVars, engineVars, memory, EInv, EShape, Visits, EngineStep, QuietStep, SameProjection
<1>2. CASE LoopNext
  BY <1>2, LoopSteps, FinishedSteps, ProjectionSteps, RenewSteps, RetrySteps, ClaimSteps
  DEF LoopNext, EngineStep
<1>3. ASSUME NEW t \in 0..MaxNow, Tick(t) PROVE EInv' /\ EngineStep
  BY <1>3 DEF Tick, engineVars, memory, EInv, EShape, Visits, EngineStep, QuietStep,
              QuietNext, SameProjection
<1>4. CASE \E s \in Sessions : HandleClient(s) \/ HandleCancel(s) \/ OtherProcessCancels(s)
  BY <1>4, ClientSteps DEF EngineStep
<1>5. CASE \E w \in Workers : WorkerEvent(w) \/ WorkerReport(w)
  BY <1>5, WorkerSteps DEF EngineStep
<1>6. CASE \E result \in {"projected", "retryable", "rejected"} : Project(result)
  BY <1>6, ProjectionSteps
<1>7. CASE (\E o \in Owners : Start(o)) \/ Crash \/ Shutdown
  BY <1>7, ProcessSteps DEF EngineStep
<1> QED BY <1>1, <1>2, <1>3, <1>4, <1>5, <1>6, <1>7 DEF EngineNext

LEMMA ClaimStepClaims == ClaimStep => Claims
BY DEF ClaimStep, DispatchClaim, Claims

LEMMA EngineStepIsStoreStep == EngineStep => [Next]_vars
BY QuietIsNext, ClaimStepClaims DEF EngineStep, QuietStep, SendStep, MarkStep, EndStep, OutboxNext, Next, storeVars, vars

LEMMA EngineInvInit == EngineInit => EInv /\ IInv
<1> SUFFICES ASSUME EngineInit PROVE EInv /\ IInv
  OBVIOUS
<1>1. 0 \in AttemptNumbers
  BY DEF AttemptNumbers
<1>2. EShape
  BY <1>1 DEF EngineInit, NoAssignment, EShape
<1>3. Visits
  BY DEF EngineInit, NoAssignment, Visits
<1> QED BY <1>2, <1>3, InitInv DEF EngineInit, EInv

LEMMA EngineInvNext == EInv /\ IInv /\ [EngineNext]_allVars => EInv' /\ IInv'
BY EngineSteps, EngineStepIsStoreStep, NextInv

LEMMA EngineInvAlways == EngineSpec => [](EInv /\ IInv)
BY EngineInvInit, EngineInvNext, PTL DEF EngineSpec

-----------------------------------------------------------------------------
(* The engine is composed with the store: what holds of every behaviour of *)
(* the store holds of its part of every behaviour of the engine.           *)
LEMMA EngineRunsTheStore == EngineSpec => Spec
<1>1. EngineInit => Init
  BY DEF EngineInit
<1>2. EInv /\ IInv /\ [EngineNext]_allVars => [Next]_vars
  BY EngineSteps, EngineStepIsStoreStep
<1> QED BY <1>1, <1>2, EngineInvAlways, PTL DEF EngineSpec, Spec

(* What the store keeps, it keeps under the engine: no two sessions that   *)
(* overlap are active, no more attempts run than the limit, the tables     *)
(* agree, the outbox has the results of the sessions that are committing,  *)
(* cancellations win, and every session lives the life of TaskLifecycle.   *)
THEOREM EngineKeepsTheStore ==
  EngineSpec => /\ [](AssignmentConsistent /\ OutboxConsistent /\ ExclusiveOwnership /\ CapacityBound)
                /\ CancelWins /\ StagedResultKept /\ EverySessionLives
BY EngineRunsTheStore, AssignmentAgrees, OutboxAgrees, OwnershipIsExclusive, CapacityHolds,
   CancellationWins, ResultsAreKept, StoreImplementsLifecycle, PTL

-----------------------------------------------------------------------------
(* The projector *)

LEMMA ProjectionStep ==
  ASSUME EInv, IInv, ProjectionInFlightIsStaged, [EngineNext]_allVars
  PROVE  ProjectionInFlightIsStaged'
<1>1. EInv' /\ EngineStep /\ IInv'
  BY EngineSteps, EngineStepIsStoreStep, NextInv
<1> SUFFICES ASSUME projection' # Null
             PROVE  StagedBy(projection.fence[1], projection.fence[2])'
  BY DEF ProjectionInFlightIsStaged
<1>2. CASE SameProjection /\ projection # Null
  <2>1. projection'.fence = projection.fence
    BY <1>2 DEF SameProjection
  <2>2. /\ projection.fence \in Fences
        /\ projection.fence[1] \in Sessions /\ projection.fence[2] \in Attempts
    BY <1>2 DEF EInv, EShape, Projections, Fences
  <2>3. StagedBy(projection.fence[1], projection.fence[2])
    BY <1>2 DEF ProjectionInFlightIsStaged
  <2>4. PICK s \in Sessions, n \in Attempts : s = projection.fence[1] /\ n = projection.fence[2]
    BY <2>2
  <2>5. StagedBy(s, n)'
    <3>1. CASE QuietNext \/ Claims \/ UNCHANGED storeVars
      BY <1>1, <2>3, <2>4, <3>1, StagedKept
    <3>2. CASE \E t \in Sessions, m \in Attempts : MarkCompletionProjected(t, m)
      <4>1. PICK t \in Sessions, m \in Attempts : MarkCompletionProjected(t, m)
        BY <3>2
      <4>2. completion \in [Sessions -> CompletionRow]
        BY DEF IInv
      <4>3. /\ completion'[s].attempt = completion[s].attempt
            /\ completion'[s].token = completion[s].token
            /\ completion'[s].finalized = completion[s].finalized
        BY <4>1, <4>2 DEF MarkCompletionProjected, CompletionRow
      <4> QED BY <2>3, <2>4, <4>1, <4>3 DEF MarkCompletionProjected, StagedBy
    <3> QED BY <1>1, <3>1, <3>2, ClaimStepClaims
      DEF EngineStep, QuietStep, SendStep, MarkStep, EndStep
  <2> QED BY <2>1, <2>4, <2>5 DEF StagedBy
<1>3. CASE SendStep
  <2>1. PICK s \in Due : projection'.fence = <<s, completion[s].attempt>>
    BY <1>3 DEF SendStep
  <2>2. StagedBy(s, completion[s].attempt)
    BY DueIsStaged
  <2> QED BY <1>3, <2>1, <2>2 DEF SendStep, storeVars, StagedBy
<1> QED BY <1>1, <1>2, <1>3 DEF EngineStep, QuietStep, ClaimStep, MarkStep, EndStep, SameProjection

(* While a result is with the projector the outbox waits for it, whatever  *)
(* recoveries, resumes and cancellations come meanwhile, and after it was  *)
(* sent again by another process (projection_finished relies on it).       *)
THEOREM ProjectionsAreOfStagedResults == EngineSpec => []ProjectionInFlightIsStaged
<1>1. EngineInit => ProjectionInFlightIsStaged
  BY DEF EngineInit, ProjectionInFlightIsStaged
<1>2. EInv /\ IInv /\ ProjectionInFlightIsStaged /\ [EngineNext]_allVars => ProjectionInFlightIsStaged'
  BY ProjectionStep
<1> QED BY <1>1, <1>2, EngineInvAlways, PTL DEF EngineSpec

-----------------------------------------------------------------------------
(* Whoever runs is tracked *)

(* An attempt that runs, or runs under a live lease, after the step did so *)
(* before it, for the same owner.                                          *)
NothingStarts ==
  \A s \in Sessions, n \in Attempts :
    attempt'[s][n].state = "running" =>
      /\ attempt[s][n].state = "running"
      /\ attempt'[s][n].owner = attempt[s][n].owner
      /\ attempt'[s][n].lease > now' => attempt[s][n].lease > now

LEMMA ClientsStartNothing ==
  ASSUME IInv, NEW s \in Sessions, ClientNext(s)
  PROVE  NothingStarts
<1>1. UNCHANGED <<attempt, now>> \/ RemoveTerminal(s)
  BY DEF ClientNext, Cancel, Enqueue, ResumeAfterApproval, ContinueInterrupted, Requeue
<1>2. CASE RemoveTerminal(s)
  BY <1>2 DEF RemoveTerminal, NoAttempt, IInv, NothingStarts
<1> QED BY <1>1, <1>2 DEF NothingStarts

LEMMA RecoveryStartsNothing ==
  ASSUME IInv, NEW hit, Recover(hit)
  PROVE  NothingStarts
<1> SUFFICES ASSUME NEW s \in Sessions, NEW n \in Attempts, attempt'[s][n].state = "running"
             PROVE  attempt'[s][n] = attempt[s][n] /\ now' = now
  BY DEF NothingStarts
<1>1. attempt'[s][n] = IF <<s, n>> \in hit
                       THEN [attempt[s][n] EXCEPT !.state = "interrupted", !.lease = 0]
                       ELSE attempt[s][n]
  BY DEF Recover, AttemptsAfter
<1>2. [attempt[s][n] EXCEPT !.state = "interrupted", !.lease = 0].state # "running"
  BY DEF IInv, AttemptRow
<1> QED BY <1>1, <1>2 DEF Recover

LEMMA HoldersStartNothing ==
  ASSUME IInv, NEW s \in Sessions, NEW n \in Attempts, HolderNext(s, n) \/ OutboxNext(s, n)
  PROVE  NothingStarts
<1>0. attempt \in [Sessions -> [Attempts -> AttemptRow]]
  BY DEF IInv
<1>1. CASE Renew(s, n)
  BY <1>0, <1>1 DEF Renew, Live, AttemptRow, NothingStarts
<1>2. CASE UNCHANGED <<attempt, now>>
  BY <1>2 DEF NothingStarts
<1>3. ASSUME NEW state \in {"succeeded", "failed", "blocked", "cancelled"}, NEW error,
             Terminalize(s, n, state, error)
      PROVE  NothingStarts
  BY <1>0, <1>3 DEF Terminalize, AttemptRow, NothingStarts, ResolveCancelling
<1>4. ASSUME NEW output \in Outputs("agent"), StageOutput(s, n, output)
      PROVE  NothingStarts
  BY <1>0, <1>4 DEF StageOutput, AttemptRow, NothingStarts
<1>5. ASSUME NEW state \in {"succeeded", "blocked"}, NEW error, Release(s, n, state, error),
             now' = now
      PROVE  NothingStarts
  BY <1>0, <1>5 DEF Release, AttemptRow, NothingStarts
<1>6. ASSUME FinalizeCompletion(s, n) PROVE NothingStarts
  <2>1. completion[s].terminal \in {"succeeded", "blocked"}
    BY <1>6 DEF FinalizeCompletion, CommittingBy, IInv, RowInv, OutboxRows
  <2> QED BY <1>5, <1>6, <2>1 DEF FinalizeCompletion
<1>7. ASSUME RejectCompletion(s, n) PROVE NothingStarts
  BY <1>5, <1>7 DEF RejectCompletion
<1>8. ASSUME NEW outcome \in PlainOutcomes, ResolvePlain(s, n, outcome) PROVE NothingStarts
  <2>1. outcome[1] \in {"succeeded", "failed", "blocked", "cancelled"}
    BY DEF PlainOutcomes
  <2> QED BY <1>3, <1>8, <2>1 DEF ResolvePlain
<1>9. ASSUME ResolveCancelling(s, n) PROVE NothingStarts
  BY <1>3, <1>9 DEF ResolveCancelling
<1> QED BY <1>1, <1>2, <1>4, <1>6, <1>7, <1>8, <1>9
  DEF HolderNext, OutboxNext, AppendAssignmentEvent, BindOpencodeSession,
      RecordCompletionError, MarkCompletionProjected

(* Only a claim starts an attempt.                                         *)
LEMMA OnlyClaimsStart ==
  ASSUME IInv, EngineStep, ~ClaimStep
  PROVE  NothingStarts
<1>1. CASE UNCHANGED storeVars
  BY <1>1 DEF storeVars, NothingStarts
<1>2. CASE QuietNext
  <2>1. ASSUME NEW t \in 0..MaxNow, t > now, SetClock(t) PROVE NothingStarts
    <3>1. \A s \in Sessions, n \in Attempts : attempt[s][n].lease \in Nat
      BY DEF IInv, AttemptRow
    <3>2. now \in Nat /\ now' \in Nat /\ now' > now /\ attempt' = attempt
      BY <2>1 DEF SetClock, IInv
    <3> QED BY <3>1, <3>2 DEF NothingStarts
  <2> QED BY <1>2, <2>1, ClientsStartNothing, HoldersStartNothing, RecoveryStartsNothing
    DEF QuietNext, AbandonOwner, RecoverExpired
<1>3. CASE \E s \in Sessions, n \in Attempts : OutboxNext(s, n)
  BY <1>3, HoldersStartNothing
<1> QED BY <1>1, <1>2, <1>3 DEF EngineStep, QuietStep, SendStep, MarkStep, EndStep, OutboxNext

(* What a claim starts is the new attempt alone, for this owner.           *)
LEMMA ClaimStarts ==
  ASSUME EInv, IInv, NEW w \in Workers, NEW t \in Sessions, DispatchClaim(w, t), owner \in Owners,
         NEW s \in Sessions, NEW n \in Attempts, attempt'[s][n].state = "running"
  PROVE  \/ s = t /\ active'[s].attempt = n /\ attempt'[s][n].owner = owner
         \/ /\ s # t /\ attempt[s][n].state = "running"
            /\ attempt'[s][n] = attempt[s][n] /\ now' = now
<1>1. Claims /\ ClaimNext(owner, t)
  BY DEF DispatchClaim, Claims
<1>2. IInv'
  BY <1>1, QuietIsNext, NextInv
<1> DEFINE tries == AttemptsAfter(Expired)[t]
           k == SessionsAfter(Expired)[t].attempts + 1
           new == [state |-> "running", token |-> SessionsAfter(Expired)[t].token + 1,
                   owner |-> owner, lease |-> now + LeaseTime]
<1>3. attempt' = [AttemptsAfter(Expired) EXCEPT ![t] = [tries EXCEPT ![k] = new]]
  BY <1>1 DEF ClaimNext, Assign
<1>4. now' = now
  BY <1>1 DEF ClaimNext
<1>5. \A u \in Sessions, m \in Attempts :
        /\ AttemptsAfter(Expired)[u][m] = IF <<u, m>> \in Expired
             THEN [attempt[u][m] EXCEPT !.state = "interrupted", !.lease = 0] ELSE attempt[u][m]
        /\ attempt[u][m] \in AttemptRow
  BY DEF AttemptsAfter, IInv
<1>6. \A u \in Sessions, m \in Attempts :
        AttemptsAfter(Expired)[u][m].state = "running" =>
          attempt[u][m].state = "running" /\ AttemptsAfter(Expired)[u][m] = attempt[u][m]
  <2> SUFFICES ASSUME NEW u \in Sessions, NEW m \in Attempts,
                      AttemptsAfter(Expired)[u][m].state = "running"
               PROVE  AttemptsAfter(Expired)[u][m] = attempt[u][m]
    OBVIOUS
  <2>1. attempt[u][m] \in AttemptRow
    BY <1>5
  <2>2. [attempt[u][m] EXCEPT !.state = "interrupted", !.lease = 0].state = "interrupted"
    BY <2>1 DEF AttemptRow
  <2> QED BY <1>5, <2>2
<1>7. CASE s # t
  <2>1. attempt'[s] = AttemptsAfter(Expired)[s]
    BY <1>3, <1>7 DEF AttemptsAfter
  <2> QED BY <1>4, <1>6, <1>7, <2>1
<1>8. CASE s = t
  <2>1. session'[s].active = n
    BY <1>2, <1>8 DEF IInv, RowInv, AssignmentRows
  <2>2. active'[s].attempt = n
    BY <1>8, <2>1 DEF DispatchClaim, EInv, EShape
  <2>3. session'[s].active = k
    <3>1. session' = [SessionsAfter(Expired) EXCEPT ![t] = ClaimedRow(SessionsAfter(Expired)[t])]
      BY <1>1 DEF ClaimNext, Assign
    <3>2. session'[t] = ClaimedRow(SessionsAfter(Expired)[t])
      BY <3>1 DEF SessionsAfter
    <3>3. SessionsAfter(Expired)[t] \in SessionRow
      <4>1. Expired \in SUBSET Running
        BY DEF Expired
      <4> QED BY <4>1, AfterRows, RowFacts
    <3> QED BY <1>8, <3>2, <3>3 DEF ClaimedRow, SessionRow
  <2>4. attempt'[s][n] = new
    BY <1>3, <1>8, <2>1, <2>3 DEF AttemptsAfter
  <2> QED BY <1>8, <2>2, <2>4
<1> QED BY <1>7, <1>8

(* Every owner of a running attempt is registered, and a running owner too.*)
Owned ==
  /\ registered \subseteq Owners
  /\ owner # Null => owner \in registered
  /\ \A p \in Running : attempt[p[1]][p[2]].owner \in registered

(* What LiveAttemptsTracked says, of one attempt.                          *)
RunsLive(s, n) ==
  /\ attempt[s][n].state = "running" /\ attempt[s][n].owner = owner
  /\ attempt[s][n].lease > now
AllTracked ==
  \A s \in Sessions, n \in Attempts : RunsLive(s, n) => active[s].attempt = n

LEMMA TrackedMeans == AllTracked <=> LiveAttemptsTracked
<1>1. ASSUME LiveAttemptsTracked PROVE AllTracked
  <2> SUFFICES ASSUME NEW s \in Sessions, NEW n \in Attempts, RunsLive(s, n)
               PROVE  active[s].attempt = n
    BY DEF AllTracked
  <2>1. <<s, n>> \in OwnedBy(owner)
    BY DEF OwnedBy, Running, RunsLive
  <2> QED BY <1>1, <2>1 DEF LiveAttemptsTracked, RunsLive, Live
<1>2. ASSUME AllTracked PROVE LiveAttemptsTracked
  BY <1>2 DEF AllTracked, RunsLive, LiveAttemptsTracked, OwnedBy, Running, Live
<1> QED BY <1>1, <1>2

(* The engine forgets an assignment only when it has ended, or cannot end  *)
(* any more with a result.                                                 *)
Forgets(s) ==
  /\ active[s].attempt \in Attempts
  /\ ~(/\ attempt'[s][active[s].attempt].state = "running"
       /\ attempt'[s][active[s].attempt].lease > now')

LEMMA ApplyEnds ==
  ASSUME IInv, NEW s \in Sessions, NEW n \in Attempts, NEW outcome \in Outcomes, Apply(s, n, outcome)
  PROVE  attempt'[s][n].state # "running"
<1>0. attempt \in [Sessions -> [Attempts -> AttemptRow]]
  BY DEF IInv
<1>1. ASSUME NEW state \in {"succeeded", "failed", "blocked", "cancelled"}, NEW error,
             Terminalize(s, n, state, error)
      PROVE  attempt'[s][n].state # "running"
  BY <1>0, <1>1 DEF Terminalize, AttemptRow
<1>2. CASE ResolveCancelling(s, n)
  BY <1>1, <1>2 DEF ResolveCancelling
<1>3. CASE outcome[1] = "plain" /\ ResolvePlain(s, n, outcome[2])
  <2>1. outcome[2] \in PlainOutcomes
    BY <1>3, OutcomeForms
  <2>2. outcome[2][1] \in {"succeeded", "failed", "blocked", "cancelled"}
    BY <2>1 DEF PlainOutcomes
  <2> QED BY <1>1, <1>3, <2>2 DEF ResolvePlain
<1>4. CASE outcome[1] = "output" /\ StageOutput(s, n, outcome[2])
  BY <1>0, <1>4 DEF StageOutput, AttemptRow
<1> QED BY <1>2, <1>3, <1>4 DEF Apply

LEMMA ResolveForgets ==
  ASSUME EInv, IInv, NEW s \in Sessions, active[s].attempt # 0, NEW outcome \in Outcomes,
         Resolve(s, outcome)
  PROVE  Forgets(s)
<1> DEFINE n == active[s].attempt
<1>0. n \in Attempts
  BY DEF EInv, EShape, AttemptNumbers, Attempts
<1> SUFFICES ~(attempt'[s][n].state = "running" /\ attempt'[s][n].lease > now')
  BY <1>0 DEF Forgets
<1> HIDE DEF n
<1>1. CASE Apply(s, n, outcome)
  BY <1>0, <1>1, ApplyEnds
<1>2. CASE ~Resolvable(s, n) /\ UNCHANGED storeVars
  <2> SUFFICES ASSUME attempt[s][n].state = "running", attempt[s][n].lease > now
               PROVE  Resolvable(s, n)
    BY <1>2 DEF storeVars
  <2>1. RowInv(session[s], attempt[s], completion[s])
    BY DEF IInv
  <2>2. session[s].active = n /\ session[s].active # 0
    BY <1>0, <2>1 DEF RowInv, AssignmentRows, Attempts
  <2>3. /\ session[s].state \in Assigned /\ session[s].lease = attempt[s][n].lease
    BY <2>1, <2>2 DEF RowInv, AssignmentRows, Active, Assigned
  <2>4. session[s].token = attempt[s][n].token
    BY <1>0, <2>1, <2>2 DEF RowInv, AssignmentRows, Numbered
  <2> QED BY <2>2, <2>3, <2>4 DEF Resolvable, FenceMatches, Live
<1> QED BY <1>1, <1>2 DEF Resolve, n

(* What a step of the engine does to what it tracks.                       *)
SameProcess ==
  /\ UNCHANGED <<owner, registered>>
  /\ \A s \in Sessions : active'[s].attempt = active[s].attempt \/ Forgets(s)
Stops == owner' = Null /\ registered' = registered
Starts == \E o \in Owners \ registered : owner' = o /\ registered' = registered \cup {o}

LEMMA ProcessMoves ==
  ASSUME EInv, IInv, [EngineNext]_allVars
  PROVE  SameProcess \/ Stops \/ Starts \/ \E w \in Workers, s \in Sessions : DispatchClaim(w, s)
<1>1. CASE UNCHANGED <<owner, registered, active>>
  BY <1>1 DEF SameProcess
<1>2. ASSUME NEW w \in Workers, HandleFinished(w)
      PROVE  SameProcess
  <2> DEFINE f == Head(finished[w])
  <2>1. f \in Fences \X Outcomes
    <3>1. finished[w] \in Seq(Fences \X Outcomes) /\ finished[w] # <<>>
      BY <1>2 DEF HandleFinished, EInv, EShape
    <3> QED BY <3>1
  <2>2. f[1][1] \in Sessions /\ f[1][2] \in Attempts /\ f[2] \in Outcomes
    BY <2>1 DEF Fences
  <2>3. UNCHANGED <<owner, registered>>
    BY <1>2 DEF HandleFinished
  <2>4. \/ Expects(w, f[1][1], f[1][2]) /\ (Resolve(f[1][1], f[2]) \/ ResolveFails(f[1][1], f[2]))
        \/ UNCHANGED active
    BY <1>2 DEF HandleFinished
  <2> HIDE DEF f
  <2>5. Expects(w, f[1][1], f[1][2]) => active[f[1][1]].attempt # 0
    BY <2>2 DEF Expects, Attempts
  <2>6. ASSUME active[f[1][1]].attempt # 0, Resolve(f[1][1], f[2]) PROVE SameProcess
    BY <2>2, <2>3, <2>6, ResolveQuiet, ResolveForgets DEF SameProcess
  <2>7. ASSUME active[f[1][1]].attempt # 0, ResolveFails(f[1][1], f[2]) PROVE SameProcess
    BY <2>2, <2>3, <2>7 DEF ResolveFails, SameProcess, EInv, EShape
  <2> QED BY <2>3, <2>4, <2>5, <2>6, <2>7 DEF SameProcess
<1>3. ASSUME NEW s \in Sessions, RetryResolution(s)
      PROVE  SameProcess
  <2>1. /\ active[s].attempt # 0 /\ active[s].outcome \in Outcomes
        /\ UNCHANGED <<owner, registered>>
    BY <1>3 DEF RetryResolution, At, EInv, EShape, Visits
  <2>2. CASE Resolve(s, active[s].outcome)
    BY <2>1, <2>2, ResolveQuiet, ResolveForgets DEF SameProcess
  <2>3. CASE ResolveFails(s, active[s].outcome)
    BY <2>1, <2>3 DEF ResolveFails, SameProcess, EInv, EShape
  <2> QED BY <1>3, <2>2, <2>3 DEF RetryResolution
<1>4. ASSUME NEW o \in Owners, Start(o)
      PROVE  Starts
  BY <1>4 DEF Start, Starts
<1>5. Crash \/ Shutdown => Stops
  BY DEF Crash, Shutdown, Stops
<1>6. CASE LoopNext
  BY <1>1, <1>2, <1>3, <1>6
  DEF LoopNext, QuietRound, HandleProjection, FinalizeAfterMark, RenewLease,
      RecoverAfterRenewal, RetriesDone, DispatchProjection, DispatchDone
<1>7. CASE \E s \in Sessions : HandleClient(s) \/ HandleCancel(s) \/ OtherProcessCancels(s)
  BY <1>1, <1>7 DEF HandleClient, HandleCancel, OtherProcessCancels, engineVars, memory
<1>8. CASE \E w \in Workers : WorkerEvent(w) \/ WorkerReport(w)
  BY <1>1, <1>8 DEF WorkerEvent, WorkerReport, engineVars, memory
<1>9. CASE \E result \in {"projected", "retryable", "rejected"} : Project(result)
  BY <1>1, <1>9 DEF Project
<1>10. CASE \E t \in 0..MaxNow : Tick(t)
  BY <1>1, <1>10 DEF Tick, engineVars, memory
<1>11. CASE UNCHANGED allVars
  BY <1>1, <1>11 DEF allVars, engineVars, memory
<1> QED BY <1>4, <1>5, <1>6, <1>7, <1>8, <1>9, <1>10, <1>11 DEF EngineNext

LEMMA TrackedStep ==
  ASSUME EInv, IInv, Owned, AllTracked, [EngineNext]_allVars
  PROVE  Owned' /\ AllTracked'
<1>1. EInv' /\ EngineStep
  BY EngineSteps
<1>2. Null \notin Owners
  BY EngineAssumption
<1>3. CASE \E w \in Workers, t \in Sessions : DispatchClaim(w, t)
  <2>1. PICK w \in Workers, t \in Sessions : DispatchClaim(w, t)
    BY <1>3
  <2>2. owner \in Owners /\ UNCHANGED <<owner, registered>>
    BY <2>1 DEF DispatchClaim, At, Up, EInv, EShape
  <2>3. \A s \in Sessions \ {t} : active'[s] = active[s]
    BY <2>1 DEF DispatchClaim, EInv, EShape
  <2>4. Owned'
    BY <1>2, <2>1, <2>2, ClaimStarts DEF Owned, Running
  <2>5. AllTracked'
    BY <2>1, <2>2, <2>3, ClaimStarts DEF AllTracked, RunsLive
  <2> QED BY <2>4, <2>5
<1>4. CASE ~\E w \in Workers, t \in Sessions : DispatchClaim(w, t)
  <2>1. NothingStarts
    BY <1>1, <1>4, OnlyClaimsStart DEF ClaimStep
  <2>2. SameProcess \/ Stops \/ Starts
    BY <1>4, ProcessMoves
  <2>3. /\ registered' \subseteq Owners /\ registered \subseteq registered'
        /\ owner' # Null => owner' \in registered'
    BY <2>2 DEF SameProcess, Stops, Starts, Owned
  <2>4. \A p \in Running' : p \in Running /\ attempt'[p[1]][p[2]].owner = attempt[p[1]][p[2]].owner
    BY <2>1 DEF Running, NothingStarts
  <2>5. Owned'
    BY <2>3, <2>4 DEF Owned
  <2>6. AllTracked'
    <3> SUFFICES ASSUME NEW s \in Sessions, NEW n \in Attempts, RunsLive(s, n)'
                 PROVE  active'[s].attempt = n
      BY DEF AllTracked
    <3>1. /\ attempt[s][n].state = "running" /\ attempt[s][n].owner = owner'
          /\ attempt[s][n].lease > now
      BY <2>1 DEF RunsLive, NothingStarts
    <3>2. attempt[s][n].owner \in registered
      <4>1. <<s, n>> \in Running
        BY <3>1 DEF Running
      <4> QED BY <4>1 DEF Owned
    <3>3. SameProcess
      BY <1>2, <2>2, <3>1, <3>2 DEF Stops, Starts, Owned
    <3>4. active[s].attempt = n
      BY <3>1, <3>3 DEF SameProcess, AllTracked, RunsLive
    <3>5. ~Forgets(s)
      BY <3>4 DEF Forgets, RunsLive
    <3> QED BY <3>3, <3>4, <3>5 DEF SameProcess
  <2> QED BY <2>5, <2>6
<1> QED BY <1>3, <1>4

(* Whatever runs under this Scheduler's name and a live lease is in its    *)
(* active table (Scheduler.active), through failed calls, retries, claims  *)
(* by other processes, crashes and restarts: no assignment is leaked while *)
(* it can still be renewed, resolved or cancelled.  It holds for any owner *)
(* ids that are not used twice and a clock that does not step back.        *)
THEOREM LiveAttemptsAreTracked == EngineSpec => []LiveAttemptsTracked
<1>1. EngineInit => Owned /\ AllTracked
  BY DEF EngineInit, Init, NoAttempt, Owned, AllTracked, RunsLive, Running
<1>2. EInv /\ IInv /\ Owned /\ AllTracked /\ [EngineNext]_allVars => Owned' /\ AllTracked'
  BY TrackedStep
<1>3. AllTracked => LiveAttemptsTracked
  BY TrackedMeans
<1> QED BY <1>1, <1>2, <1>3, EngineInvAlways, PTL DEF EngineSpec

-----------------------------------------------------------------------------
(* Whose results end an assignment *)

(* A session is removed for ever, or counts its attempts on.               *)
LEMMA AttemptsGrow ==
  ASSUME IInv, [Next]_vars, NEW s \in Sessions
  PROVE  \/ session'[s].state = "removed"
         \/ session[s].state # "removed" /\ session'[s].attempts >= session[s].attempts
<1>1. /\ session[s].token = session[s].attempts /\ session[s].attempts \in Nat
      /\ session'[s].token = session'[s].attempts /\ session'[s].attempts \in Nat
  <2>1. IInv'
    BY NextInv
  <2>2. RowInv(session[s], attempt[s], completion[s]) /\ RowInv(session'[s], attempt'[s], completion'[s])
    BY <2>1 DEF IInv
  <2> QED BY <2>2, RowFacts
<1>2. Lives(s)
  BY StepLives
<1>3. CASE Rests(s)
  BY <1>1, <1>3 DEF Rests, Passes
<1>4. CASE ~Rests(s)
  BY <1>1, <1>2, <1>4 DEF Lives, Granted, Stages, Publishes, Leaves, Terminal
<1> QED BY <1>3, <1>4

(* A fence was issued, and no later attempt of its session bears it again. *)
Issued(f) == session[f[1]].state = "removed" \/ f[2] <= session[f[1]].attempts

StillIssued(f) == session'[f[1]].state = "removed" \/ f[2] <= session'[f[1]].attempts

(* A fence is in one place at most: with a worker, in a report, or in an   *)
(* outcome that waits to be resolved.                                      *)
OnePlace ==
  /\ \A w, v \in Workers : \A i \in DOMAIN inbox[w], j \in DOMAIN inbox[v] :
       inbox[w][i] = inbox[v][j] => w = v /\ i = j
  /\ \A w, v \in Workers : \A i \in DOMAIN finished[w], j \in DOMAIN finished[v] :
       finished[w][i][1] = finished[v][j][1] => w = v /\ i = j
  /\ \A w, v \in Workers : \A i \in DOMAIN inbox[w], j \in DOMAIN finished[v] :
       inbox[w][i] # finished[v][j][1]
  /\ \A s \in Sessions, w \in Workers : active[s].outcome # Null =>
       /\ \A i \in DOMAIN inbox[w] : inbox[w][i] # <<s, active[s].attempt>>
       /\ \A i \in DOMAIN finished[w] : finished[w][i][1] # <<s, active[s].attempt>>

AllIssued ==
  \A w \in Workers :
    /\ \A i \in DOMAIN inbox[w] : Issued(inbox[w][i])
    /\ \A i \in DOMAIN finished[w] : Issued(finished[w][i][1])

LEMMA IssuedStays ==
  ASSUME IInv, [Next]_vars, NEW f \in Fences, Issued(f)
  PROVE  StillIssued(f)
<1>1. f[1] \in Sessions /\ f[2] \in Nat
  BY DEF Fences, Attempts
<1>2. \A s \in Sessions : session[s].attempts \in Nat /\ session'[s].attempts \in Nat
  <2>1. IInv'
    BY NextInv
  <2>2. \A s \in Sessions : /\ RowInv(session[s], attempt[s], completion[s])
                            /\ RowInv(session'[s], attempt'[s], completion'[s])
    BY <2>1 DEF IInv
  <2> QED BY <2>2, RowFacts
<1>3. \/ session'[f[1]].state = "removed"
      \/ session[f[1]].state # "removed" /\ session'[f[1]].attempts >= session[f[1]].attempts
  BY <1>1, AttemptsGrow
<1> QED BY <1>1, <1>2, <1>3 DEF Issued, StillIssued

LEMMA TailFacts ==
  ASSUME NEW S, NEW q \in Seq(S), q # <<>>
  PROVE  /\ Tail(q) \in Seq(S) /\ Len(Tail(q)) = Len(q) - 1 /\ Len(q) \in Nat
         /\ DOMAIN q = 1..Len(q) /\ DOMAIN Tail(q) = 1..(Len(q) - 1)
         /\ \A i \in DOMAIN Tail(q) : i + 1 \in DOMAIN q /\ i + 1 # 1 /\ Tail(q)[i] = q[i + 1]
         /\ 1 \in DOMAIN q /\ Head(q) = q[1]
OBVIOUS

LEMMA AppendFacts ==
  ASSUME NEW S, NEW q \in Seq(S), NEW e
  PROVE  /\ DOMAIN q = 1..Len(q) /\ Len(q) \in Nat
         /\ DOMAIN Append(q, e) = 1..(Len(q) + 1)
         /\ \A i \in DOMAIN q : Append(q, e)[i] = q[i]
         /\ Append(q, e)[Len(q) + 1] = e
OBVIOUS

(* The conjuncts of OnePlace.                                              *)
InOneInbox ==
  \A w, v \in Workers : \A i \in DOMAIN inbox[w], j \in DOMAIN inbox[v] :
    inbox[w][i] = inbox[v][j] => w = v /\ i = j
ReportedOnce ==
  \A w, v \in Workers : \A i \in DOMAIN finished[w], j \in DOMAIN finished[v] :
    finished[w][i][1] = finished[v][j][1] => w = v /\ i = j
ReportedOrNot ==
  \A w, v \in Workers : \A i \in DOMAIN inbox[w], j \in DOMAIN finished[v] :
    inbox[w][i] # finished[v][j][1]
PendingOrNot ==
  \A s \in Sessions, w \in Workers : active[s].outcome # Null =>
    /\ \A i \in DOMAIN inbox[w] : inbox[w][i] # <<s, active[s].attempt>>
    /\ \A i \in DOMAIN finished[w] : finished[w][i][1] # <<s, active[s].attempt>>

LEMMA OnePlaceMeans == OnePlace <=> InOneInbox /\ ReportedOnce /\ ReportedOrNot /\ PendingOrNot
BY DEF OnePlace, InOneInbox, ReportedOnce, ReportedOrNot, PendingOrNot

LEMMA ReportPlaces ==
  ASSUME EInv, OnePlace, AllIssued, NEW w \in Workers, WorkerReport(w)
  PROVE  OnePlace' /\ AllIssued'
<1>0. inbox \in [Workers -> Seq(Fences)] /\ finished \in [Workers -> Seq(Fences \X Outcomes)]
  BY DEF EInv, EShape
<1>1. inbox[w] \in Seq(Fences) /\ inbox[w] # <<>> /\ finished[w] \in Seq(Fences \X Outcomes)
  BY <1>0 DEF WorkerReport, Executing
<1> DEFINE f == inbox[w][1]
<1>2. PICK outcome : finished' = [finished EXCEPT ![w] = Append(@, <<f, outcome>>)]
  <2>1. Executing(w) = {f}
    BY <1>1, TailFacts DEF Executing
  <2> QED BY <2>1 DEF WorkerReport
<1>3. inbox' = [inbox EXCEPT ![w] = Tail(@)] /\ active' = active /\ session' = session
  BY DEF WorkerReport, storeVars
<1>4. \A v \in Workers : \A i \in DOMAIN inbox'[v] :
        \E k \in DOMAIN inbox[v] : /\ k = (IF v = w THEN i + 1 ELSE i)
                                   /\ (v = w => k # 1) /\ inbox'[v][i] = inbox[v][k]
  BY <1>0, <1>1, <1>3, TailFacts
<1>5. \A v \in Workers : \A i \in DOMAIN finished'[v] :
        \/ i \in DOMAIN finished[v] /\ finished'[v][i] = finished[v][i]
        \/ v = w /\ i = Len(finished[w]) + 1 /\ finished'[v][i][1] = f
  BY <1>0, <1>1, <1>2, AppendFacts
<1>6. 1 \in DOMAIN inbox[w] /\ \A v \in Workers : DOMAIN inbox'[v] \subseteq Nat
  <2>1. \A v \in Workers : inbox[v] \in Seq(Fences)
    BY <1>0
  <2>2. Tail(inbox[w]) \in Seq(Fences)
    BY <1>1, TailFacts
  <2>3. \A v \in Workers : inbox'[v] \in Seq(Fences)
    BY <1>3, <2>1, <2>2
  <2> QED BY <1>1, <2>3, TailFacts
<1> HIDE DEF f
<1>7. InOneInbox'
  <2> SUFFICES ASSUME NEW u \in Workers, NEW v \in Workers,
                      NEW i \in DOMAIN inbox'[u], NEW j \in DOMAIN inbox'[v],
                      inbox'[u][i] = inbox'[v][j]
               PROVE  u = v /\ i = j
    BY DEF InOneInbox
  <2>1. PICK k \in DOMAIN inbox[u] : k = (IF u = w THEN i + 1 ELSE i) /\ inbox'[u][i] = inbox[u][k]
    BY <1>4
  <2>2. PICK l \in DOMAIN inbox[v] : l = (IF v = w THEN j + 1 ELSE j) /\ inbox'[v][j] = inbox[v][l]
    BY <1>4
  <2>3. inbox[u][k] = inbox[v][l]
    BY <2>1, <2>2
  <2>4. u = v /\ k = l
    BY <2>3, OnePlaceMeans DEF InOneInbox
  <2>5. i \in Nat /\ j \in Nat
    BY <1>6
  <2> QED BY <2>1, <2>2, <2>4, <2>5
<1>8. ReportedOnce'
  <2> SUFFICES ASSUME NEW u \in Workers, NEW v \in Workers,
                      NEW i \in DOMAIN finished'[u], NEW j \in DOMAIN finished'[v],
                      finished'[u][i][1] = finished'[v][j][1]
               PROVE  u = v /\ i = j
    BY DEF ReportedOnce
  <2>1. \A v_1 \in Workers : \A k \in DOMAIN finished[v_1] : finished[v_1][k][1] # f
    BY <1>6 DEF OnePlace, f
  <2>2. CASE i \in DOMAIN finished[u] /\ finished'[u][i] = finished[u][i]
    <3>1. j \in DOMAIN finished[v] /\ finished'[v][j] = finished[v][j]
      BY <1>5, <2>1, <2>2
    <3> QED BY <2>2, <3>1 DEF OnePlace
  <2>3. CASE u = w /\ i = Len(finished[w]) + 1 /\ finished'[u][i][1] = f
    <3>1. v = w /\ j = Len(finished[w]) + 1
      BY <1>5, <2>1, <2>3
    <3> QED BY <2>3, <3>1
  <2> QED BY <1>5, <2>2, <2>3
<1>9. ReportedOrNot'
  <2> SUFFICES ASSUME NEW u \in Workers, NEW v \in Workers,
                      NEW i \in DOMAIN inbox'[u], NEW j \in DOMAIN finished'[v]
               PROVE  inbox'[u][i] # finished'[v][j][1]
    BY DEF ReportedOrNot
  <2>1. PICK k \in DOMAIN inbox[u] : (u = w => k # 1) /\ inbox'[u][i] = inbox[u][k]
    BY <1>4
  <2>2. CASE j \in DOMAIN finished[v] /\ finished'[v][j] = finished[v][j]
    BY <2>1, <2>2 DEF OnePlace
  <2>3. CASE finished'[v][j][1] = f
    BY <1>6, <2>1, <2>3 DEF OnePlace, f
  <2> QED BY <1>5, <2>2, <2>3
<1>10. PendingOrNot'
  <2> SUFFICES ASSUME NEW s \in Sessions, NEW v \in Workers, active[s].outcome # Null
               PROVE  /\ \A i \in DOMAIN inbox'[v] : inbox'[v][i] # <<s, active[s].attempt>>
                      /\ \A i \in DOMAIN finished'[v] : finished'[v][i][1] # <<s, active[s].attempt>>
    BY <1>3 DEF PendingOrNot
  <2>0. /\ \A i \in DOMAIN inbox[v] : inbox[v][i] # <<s, active[s].attempt>>
        /\ \A i \in DOMAIN finished[v] : finished[v][i][1] # <<s, active[s].attempt>>
    BY DEF OnePlace
  <2>1. \A i \in DOMAIN inbox'[v] : inbox'[v][i] # <<s, active[s].attempt>>
    BY <1>4, <2>0
  <2>2. f # <<s, active[s].attempt>>
    BY <1>6 DEF OnePlace, f
  <2>3. \A i \in DOMAIN finished'[v] : finished'[v][i][1] # <<s, active[s].attempt>>
    BY <1>5, <2>0, <2>2
  <2> QED BY <2>1, <2>3
<1>11. AllIssued'
  <2> SUFFICES ASSUME NEW v \in Workers
               PROVE  /\ \A i \in DOMAIN inbox'[v] : StillIssued(inbox'[v][i])
                      /\ \A i \in DOMAIN finished'[v] : StillIssued(finished'[v][i][1])
    BY DEF AllIssued, Issued, StillIssued
  <2>0. \A g : Issued(g) => StillIssued(g)
    BY <1>3 DEF Issued, StillIssued
  <2>1. \A i \in DOMAIN inbox'[v] : StillIssued(inbox'[v][i])
    BY <1>4, <2>0 DEF AllIssued
  <2>2. Issued(f)
    BY <1>6 DEF AllIssued, f
  <2>3. \A i \in DOMAIN finished'[v] : StillIssued(finished'[v][i][1])
    BY <1>5, <2>0, <2>2 DEF AllIssued
  <2> QED BY <2>1, <2>3
<1> QED BY <1>7, <1>8, <1>9, <1>10, <1>11
  DEF OnePlace, InOneInbox, ReportedOnce, ReportedOrNot, PendingOrNot

(* A report is taken from its queue: an outcome that has to wait from then *)
(* on is in no other place.                                                *)
LEMMA FinishedPlaces ==
  ASSUME EInv, OnePlace, AllIssued, NEW w \in Workers, HandleFinished(w)
  PROVE  /\ OnePlace'
         /\ (\A f \in Fences : Issued(f) => StillIssued(f)) => AllIssued'
<1>0. inbox \in [Workers -> Seq(Fences)] /\ finished \in [Workers -> Seq(Fences \X Outcomes)]
  BY DEF EInv, EShape
<1> DEFINE f == finished[w][1][1]
           outcome == finished[w][1][2]
<1>1. finished[w] \in Seq(Fences \X Outcomes) /\ finished[w] # <<>>
  BY <1>0 DEF HandleFinished
<1>2. /\ 1 \in DOMAIN finished[w] /\ Head(finished[w]) = finished[w][1]
      /\ finished[w][1] \in Fences \X Outcomes
  BY <1>1, TailFacts
<1>3. f \in Fences /\ f[1] \in Sessions /\ f[2] \in Attempts /\ f = <<f[1], f[2]>> /\ outcome \in Outcomes
  BY <1>2 DEF Fences
<1>4. inbox' = inbox /\ finished' = [finished EXCEPT ![w] = Tail(@)]
  BY DEF HandleFinished
<1>5. \A v \in Workers : \A i \in DOMAIN finished'[v] :
        \E k \in DOMAIN finished[v] : /\ k = (IF v = w THEN i + 1 ELSE i)
                                      /\ (v = w => k # 1) /\ finished'[v][i] = finished[v][k]
  BY <1>0, <1>1, <1>4, TailFacts
<1>6. \A v \in Workers : DOMAIN finished'[v] \subseteq Nat
  <2>1. \A v \in Workers : finished[v] \in Seq(Fences \X Outcomes)
    BY <1>0
  <2>2. Tail(finished[w]) \in Seq(Fences \X Outcomes)
    BY <1>1, TailFacts
  <2>3. \A v \in Workers : finished'[v] \in Seq(Fences \X Outcomes)
    BY <1>4, <2>1, <2>2
  <2> QED BY <2>3, TailFacts
<1>7. \A s \in Sessions : active'[s].outcome # Null =>
        \/ active'[s] = active[s]
        \/ <<s, active'[s].attempt>> = f
  <2>1. CASE active' = active
    BY <2>1
  <2>0. active \in [Sessions -> [attempt : AttemptNumbers, outcome : Outcomes \cup {Null}]]
    BY DEF EInv, EShape
  <2>2. CASE Expects(w, f[1], f[2]) /\ Resolve(f[1], outcome)
    BY <1>3, <2>0, <2>2 DEF Resolve, NoAssignment
  <2>3. CASE Expects(w, f[1], f[2]) /\ ResolveFails(f[1], outcome)
    BY <1>3, <2>0, <2>3 DEF ResolveFails, Expects
  <2> QED BY <1>2, <2>1, <2>2, <2>3 DEF HandleFinished
<1> HIDE DEF f, outcome
<1>8. InOneInbox'
  BY <1>4 DEF OnePlace, InOneInbox
<1>9. ReportedOnce'
  <2> SUFFICES ASSUME NEW u \in Workers, NEW v \in Workers,
                      NEW i \in DOMAIN finished'[u], NEW j \in DOMAIN finished'[v],
                      finished'[u][i][1] = finished'[v][j][1]
               PROVE  u = v /\ i = j
    BY DEF ReportedOnce
  <2>1. PICK k \in DOMAIN finished[u] : /\ k = (IF u = w THEN i + 1 ELSE i)
                                         /\ finished'[u][i] = finished[u][k]
    BY <1>5
  <2>2. PICK l \in DOMAIN finished[v] : /\ l = (IF v = w THEN j + 1 ELSE j)
                                         /\ finished'[v][j] = finished[v][l]
    BY <1>5
  <2>3. u = v /\ k = l
    BY <2>1, <2>2 DEF OnePlace
  <2>4. i \in Nat /\ j \in Nat
    BY <1>6
  <2> QED BY <2>1, <2>2, <2>3, <2>4
<1>10. ReportedOrNot'
  BY <1>4, <1>5 DEF OnePlace, ReportedOrNot
<1>11. PendingOrNot'
  <2> SUFFICES ASSUME NEW s \in Sessions, NEW v \in Workers, active'[s].outcome # Null
               PROVE  /\ \A i \in DOMAIN inbox'[v] : inbox'[v][i] # <<s, active'[s].attempt>>
                      /\ \A i \in DOMAIN finished'[v] : finished'[v][i][1] # <<s, active'[s].attempt>>
    BY DEF PendingOrNot
  <2>1. CASE active'[s] = active[s]
    <3>1. /\ \A i \in DOMAIN inbox[v] : inbox[v][i] # <<s, active[s].attempt>>
          /\ \A i \in DOMAIN finished[v] : finished[v][i][1] # <<s, active[s].attempt>>
      BY <2>1 DEF OnePlace
    <3> QED BY <1>4, <1>5, <2>1, <3>1
  <2>2. CASE <<s, active'[s].attempt>> = f
    <3>1. \A i \in DOMAIN inbox'[v] : inbox'[v][i] # f
      BY <1>2, <1>4 DEF OnePlace, f
    <3>2. \A i \in DOMAIN finished'[v] : finished'[v][i][1] # f
      BY <1>2, <1>5 DEF OnePlace, f
    <3> QED BY <2>2, <3>1, <3>2
  <2> QED BY <1>7, <2>1, <2>2
<1>12. ASSUME \A g \in Fences : Issued(g) => StillIssued(g)
       PROVE  AllIssued'
  <2> SUFFICES ASSUME NEW v \in Workers
               PROVE  /\ \A i \in DOMAIN inbox'[v] : StillIssued(inbox'[v][i])
                      /\ \A i \in DOMAIN finished'[v] : StillIssued(finished'[v][i][1])
    BY DEF AllIssued, Issued, StillIssued
  <2>1. inbox[v] \in Seq(Fences) /\ finished[v] \in Seq(Fences \X Outcomes)
    BY <1>0
  <2>2. \A i \in DOMAIN inbox'[v] : inbox'[v][i] \in Fences /\ Issued(inbox'[v][i])
    BY <1>4, <2>1 DEF AllIssued
  <2>3. \A i \in DOMAIN finished'[v] : finished'[v][i][1] \in Fences /\ Issued(finished'[v][i][1])
    BY <1>5, <2>1 DEF AllIssued
  <2> QED BY <1>12, <2>2, <2>3
<1> QED BY <1>8, <1>9, <1>10, <1>11, <1>12
  DEF OnePlace, InOneInbox, ReportedOnce, ReportedOrNot, PendingOrNot

(* A claim issues a fence that is in no place yet.                         *)
LEMMA ClaimedFence ==
  ASSUME EInv, IInv, NEW w \in Workers, NEW t \in Sessions, DispatchClaim(w, t)
  PROVE  /\ session'[t].active = session[t].attempts + 1 /\ session[t].attempts \in Nat
         /\ session'[t].active \in Attempts
         /\ session'[t].attempts = session'[t].active
         /\ session[t].state # "removed" /\ session'[t].state # "removed"
         /\ ~Resolvable(t, active[t].attempt)
<1>0. owner \in Owners
  BY DEF DispatchClaim, At, Up, EInv, EShape
<1>1. ClaimNext(owner, t)
  BY DEF DispatchClaim
<1>2. Expired \in SUBSET Running
  BY DEF Expired
<1>3. SessionsAfter(Expired)[t] \in SessionRow /\ session[t] \in SessionRow
  BY <1>2, AfterRows, RowFacts DEF IInv
<1>4. session' = [SessionsAfter(Expired) EXCEPT ![t] = ClaimedRow(SessionsAfter(Expired)[t])]
  BY <1>1 DEF ClaimNext, Assign
<1>5. session'[t] = ClaimedRow(SessionsAfter(Expired)[t])
  BY <1>4 DEF SessionsAfter
<1>6. SessionsAfter(Expired)[t] = IF <<t, session[t].active>> \in Expired /\ session[t].state \in Assigned
                                  THEN RecoveredRow(session[t]) ELSE session[t]
  BY DEF SessionsAfter
<1>7. SessionsAfter(Expired)[t].attempts = session[t].attempts /\ session[t].attempts \in Nat
  BY <1>3, <1>6 DEF RecoveredRow, SessionRow, AttemptNumbers
<1>8. SessionsAfter(Expired)[t].state = "queued" /\ SessionsAfter(Expired)[t].attempts < MaxAttempts
  BY <1>1 DEF ClaimNext, Candidate, Eligible, Assign
<1>9. /\ session'[t].active = session[t].attempts + 1 /\ session'[t].attempts = session[t].attempts + 1
      /\ session'[t].state = "running"
  BY <1>3, <1>5, <1>7 DEF ClaimedRow, SessionRow
<1>10. session[t].state # "removed"
  BY <1>6, <1>8 DEF Assigned
<1>11. ASSUME Resolvable(t, active[t].attempt) PROVE FALSE
  <2>1. <<t, session[t].active>> \in Expired
    BY <1>6, <1>8, <1>11 DEF Resolvable, Assigned
  <2>2. attempt[t][session[t].active].lease <= now /\ session[t].active = active[t].attempt
    BY <1>11, <2>1 DEF Expired, Resolvable, FenceMatches
  <2>3. attempt[t][active[t].attempt].lease > now
    BY <1>11 DEF Resolvable, Live
  <2>4. attempt[t][active[t].attempt].lease \in Nat /\ now \in Nat
    <3>1. active[t].attempt \in Attempts
      BY <2>1, <2>2 DEF Expired, Running
    <3> QED BY <3>1 DEF IInv, AttemptRow
  <2> QED BY <2>2, <2>3, <2>4
<1>12. session'[t].active \in Attempts
  BY <1>7, <1>8, <1>9 DEF Attempts
<1> QED BY <1>7, <1>9, <1>10, <1>11, <1>12

LEMMA ClaimPlaces ==
  ASSUME EInv, IInv, OnePlace, AllIssued, NEW w \in Workers, NEW t \in Sessions, DispatchClaim(w, t),
         \A f \in Fences : Issued(f) => StillIssued(f)
  PROVE  OnePlace' /\ AllIssued'
<1> DEFINE f == <<t, session'[t].active>>
<1>0. /\ inbox \in [Workers -> Seq(Fences)] /\ finished \in [Workers -> Seq(Fences \X Outcomes)]
      /\ active \in [Sessions -> [attempt : AttemptNumbers, outcome : Outcomes \cup {Null}]]
  BY DEF EInv, EShape
<1>1. /\ finished' = finished /\ inbox' = [inbox EXCEPT ![w] = Append(@, f)]
      /\ active' = [active EXCEPT ![t] = [attempt |-> session'[t].active, outcome |-> Null]]
  BY DEF DispatchClaim
<1>2. f \in Fences /\ f[1] = t /\ f[2] = session'[t].active
  BY ClaimedFence DEF Fences
<1>3. ~Issued(f)
  BY <1>2, ClaimedFence DEF Issued
<1>4. StillIssued(f)
  BY <1>2, ClaimedFence DEF StillIssued, Attempts
<1> HIDE DEF f
<1>5. \A v \in Workers : \A i \in DOMAIN inbox'[v] :
        \/ i \in DOMAIN inbox[v] /\ inbox'[v][i] = inbox[v][i]
        \/ v = w /\ i = Len(inbox[w]) + 1 /\ inbox'[v][i] = f
  <2>1. inbox[w] \in Seq(Fences)
    BY <1>0
  <2> QED BY <1>0, <1>1, <2>1, AppendFacts
<1>6. \A v \in Workers : /\ \A i \in DOMAIN inbox[v] : inbox[v][i] # f
                         /\ \A i \in DOMAIN finished[v] : finished[v][i][1] # f
  BY <1>3 DEF AllIssued
<1>7. InOneInbox'
  <2> SUFFICES ASSUME NEW u \in Workers, NEW v \in Workers,
                      NEW i \in DOMAIN inbox'[u], NEW j \in DOMAIN inbox'[v],
                      inbox'[u][i] = inbox'[v][j]
               PROVE  u = v /\ i = j
    BY DEF InOneInbox
  <2>1. CASE i \in DOMAIN inbox[u] /\ inbox'[u][i] = inbox[u][i]
    <3>1. j \in DOMAIN inbox[v] /\ inbox'[v][j] = inbox[v][j]
      BY <1>5, <1>6, <2>1
    <3>2. inbox[u][i] = inbox[v][j]
      BY <2>1, <3>1
    <3> QED BY <2>1, <3>1, <3>2, OnePlaceMeans DEF InOneInbox
  <2>2. CASE u = w /\ i = Len(inbox[w]) + 1 /\ inbox'[u][i] = f
    <3>1. v = w /\ j = Len(inbox[w]) + 1
      BY <1>5, <1>6, <2>2
    <3> QED BY <2>2, <3>1
  <2> QED BY <1>5, <2>1, <2>2
<1>8. ReportedOnce'
  BY <1>1 DEF OnePlace, ReportedOnce
<1>9. ReportedOrNot'
  BY <1>1, <1>5, <1>6 DEF OnePlace, ReportedOrNot
<1>10. PendingOrNot'
  <2> SUFFICES ASSUME NEW s \in Sessions, NEW v \in Workers, active'[s].outcome # Null
               PROVE  /\ \A i \in DOMAIN inbox'[v] : inbox'[v][i] # <<s, active'[s].attempt>>
                      /\ \A i \in DOMAIN finished'[v] : finished'[v][i][1] # <<s, active'[s].attempt>>
    BY DEF PendingOrNot
  <2>1. s # t /\ active'[s] = active[s]
    BY <1>0, <1>1
  <2>2. f # <<s, active[s].attempt>>
    BY <1>2, <2>1
  <2>3. /\ \A i \in DOMAIN inbox[v] : inbox[v][i] # <<s, active[s].attempt>>
        /\ \A i \in DOMAIN finished[v] : finished[v][i][1] # <<s, active[s].attempt>>
    BY <2>1 DEF OnePlace
  <2> QED BY <1>1, <1>5, <2>1, <2>2, <2>3
<1>11. AllIssued'
  <2> SUFFICES ASSUME NEW v \in Workers
               PROVE  /\ \A i \in DOMAIN inbox'[v] : StillIssued(inbox'[v][i])
                      /\ \A i \in DOMAIN finished'[v] : StillIssued(finished'[v][i][1])
    BY DEF AllIssued, Issued, StillIssued
  <2>1. inbox[v] \in Seq(Fences) /\ finished[v] \in Seq(Fences \X Outcomes)
    BY <1>0
  <2>2. /\ \A i \in DOMAIN inbox[v] : StillIssued(inbox[v][i])
        /\ \A i \in DOMAIN finished[v] : StillIssued(finished[v][i][1])
    BY <2>1 DEF AllIssued
  <2> QED BY <1>1, <1>4, <1>5, <2>2
<1> QED BY <1>7, <1>8, <1>9, <1>10, <1>11
  DEF OnePlace, InOneInbox, ReportedOnce, ReportedOrNot, PendingOrNot

(* What the other steps do to these places: nothing, forget them all, or   *)
(* try once more to resolve an outcome that waits.                         *)
LEMMA OtherPlaces ==
  ASSUME EInv, [EngineNext]_allVars,
         ~\E w \in Workers : \/ HandleFinished(w) \/ WorkerReport(w)
                             \/ \E s \in Sessions : DispatchClaim(w, s)
  PROVE  \/ UNCHANGED <<inbox, finished, active>>
         \/ FreshMemory
         \/ /\ UNCHANGED <<inbox, finished>>
            /\ \A s \in Sessions : active'[s].outcome # Null => active'[s] = active[s]
<1> DEFINE Calm == UNCHANGED <<inbox, finished, active>>
<1>1. ASSUME NEW s \in Sessions, RetryResolution(s)
      PROVE  /\ UNCHANGED <<inbox, finished>>
             /\ \A t \in Sessions : active'[t].outcome # Null => active'[t] = active[t]
  <2>0. active \in [Sessions -> [attempt : AttemptNumbers, outcome : Outcomes \cup {Null}]]
    BY DEF EInv, EShape
  <2>1. CASE Resolve(s, active[s].outcome)
    BY <1>1, <2>0, <2>1 DEF RetryResolution, workerVars, Resolve, NoAssignment
  <2>2. CASE ResolveFails(s, active[s].outcome)
    BY <1>1, <2>0, <2>2 DEF RetryResolution, workerVars, ResolveFails
  <2> QED BY <1>1, <2>1, <2>2 DEF RetryResolution
<1>2. Crash \/ Shutdown => FreshMemory
  BY DEF Crash, Shutdown
<1>3. ASSUME LoopNext, \A s \in Sessions : ~RetryResolution(s) PROVE Calm
  BY <1>3
  DEF LoopNext, QuietRound, HandleProjection, FinalizeAfterMark, RenewLease,
      RecoverAfterRenewal, RetriesDone, DispatchProjection, DispatchDone, workerVars
<1>4. CASE \E s \in Sessions : HandleClient(s) \/ HandleCancel(s) \/ OtherProcessCancels(s)
  BY <1>4 DEF HandleClient, HandleCancel, OtherProcessCancels, engineVars, memory, workerVars
<1>5. CASE \E w \in Workers : WorkerEvent(w)
  BY <1>5 DEF WorkerEvent, engineVars, memory
<1>6. CASE \E result \in {"projected", "retryable", "rejected"} : Project(result)
  BY <1>6 DEF Project, workerVars
<1>7. CASE \E t \in 0..MaxNow : Tick(t)
  BY <1>7 DEF Tick, engineVars, memory
<1>8. CASE UNCHANGED allVars
  BY <1>8 DEF allVars, engineVars, memory
<1>9. CASE \E o \in Owners : Start(o)
  BY <1>9 DEF Start
<1> QED BY <1>1, <1>2, <1>3, <1>4, <1>5, <1>6, <1>7, <1>8, <1>9 DEF EngineNext, LoopNext

LEMMA PlacesStep ==
  ASSUME EInv, IInv, OnePlace, AllIssued, [EngineNext]_allVars
  PROVE  OnePlace' /\ AllIssued'
<1>0. inbox \in [Workers -> Seq(Fences)] /\ finished \in [Workers -> Seq(Fences \X Outcomes)]
  BY DEF EInv, EShape
<1>1. \A f \in Fences : Issued(f) => StillIssued(f)
  BY EngineSteps, EngineStepIsStoreStep, IssuedStays
<1>2. CASE \E w \in Workers : \/ HandleFinished(w) \/ WorkerReport(w)
                              \/ \E s \in Sessions : DispatchClaim(w, s)
  BY <1>1, <1>2, FinishedPlaces, ReportPlaces, ClaimPlaces
<1>3. CASE FreshMemory
  BY <1>3 DEF FreshMemory, NoAssignment, OnePlace, AllIssued
<1>4. CASE /\ UNCHANGED <<inbox, finished>>
           /\ \A s \in Sessions : active'[s].outcome # Null => active'[s] = active[s]
  <2>1. OnePlace'
    BY <1>4 DEF OnePlace
  <2>2. AllIssued'
    <3> SUFFICES ASSUME NEW v \in Workers
                 PROVE  /\ \A i \in DOMAIN inbox'[v] : StillIssued(inbox'[v][i])
                        /\ \A i \in DOMAIN finished'[v] : StillIssued(finished'[v][i][1])
      BY DEF AllIssued, Issued, StillIssued
    <3>1. inbox[v] \in Seq(Fences) /\ finished[v] \in Seq(Fences \X Outcomes)
      BY <1>0
    <3>2. /\ \A i \in DOMAIN inbox[v] : inbox[v][i] \in Fences /\ Issued(inbox[v][i])
          /\ \A i \in DOMAIN finished[v] : finished[v][i][1] \in Fences /\ Issued(finished[v][i][1])
      BY <3>1 DEF AllIssued
    <3> QED BY <1>1, <1>4, <3>2
  <2> QED BY <2>1, <2>2
<1>5. CASE UNCHANGED <<inbox, finished, active>>
  BY <1>4, <1>5
<1> QED BY <1>2, <1>3, <1>4, <1>5, OtherPlaces

(* Every running attempt goes on or is interrupted.                        *)
OthersGoOn(f) ==
  \A s \in Sessions, n \in Attempts :
    attempt[s][n].state = "running" /\ <<s, n>> # f =>
      attempt'[s][n].state \in {"running", "interrupted"}
AllGoOn ==
  \A s \in Sessions, n \in Attempts :
    attempt[s][n].state = "running" => attempt'[s][n].state \in {"running", "interrupted"}

(* A result is written for the fence it was reported under, and no other.  *)
LEMMA OwnResults ==
  ASSUME IInv, NEW s \in Sessions, NEW n \in Attempts, HolderNext(s, n)
  PROVE  OthersGoOn(<<s, n>>)
<1>0. attempt \in [Sessions -> [Attempts -> AttemptRow]]
  BY DEF IInv
<1> SUFFICES \A t \in Sessions, m \in Attempts : <<t, m>> # <<s, n>> => attempt'[t][m] = attempt[t][m]
  BY DEF OthersGoOn
<1>1. CASE Renew(s, n)
  BY <1>0, <1>1 DEF Renew
<1>2. CASE UNCHANGED attempt
  BY <1>2
<1>3. ASSUME NEW state, NEW error, Terminalize(s, n, state, error)
      PROVE  \A t \in Sessions, m \in Attempts : <<t, m>> # <<s, n>> => attempt'[t][m] = attempt[t][m]
  BY <1>0, <1>3 DEF Terminalize
<1>4. ASSUME NEW output \in Outputs("agent"), StageOutput(s, n, output)
      PROVE  \A t \in Sessions, m \in Attempts : <<t, m>> # <<s, n>> => attempt'[t][m] = attempt[t][m]
  BY <1>0, <1>4 DEF StageOutput
<1> QED BY <1>1, <1>2, <1>3, <1>4
  DEF HolderNext, AppendAssignmentEvent, BindOpencodeSession, ResolveCancelling, ResolvePlain

LEMMA ClientsGoOn ==
  ASSUME IInv, NEW s \in Sessions, ClientNext(s)
  PROVE  AllGoOn
<1>1. UNCHANGED attempt \/ RemoveTerminal(s)
  BY DEF ClientNext, Cancel, Enqueue, ResumeAfterApproval, ContinueInterrupted, Requeue
<1>2. CASE RemoveTerminal(s)
  <2> SUFFICES ASSUME NEW t \in Sessions, NEW n \in Attempts, attempt[t][n].state = "running"
               PROVE  attempt'[t][n].state = "running"
    BY DEF AllGoOn
  <2>1. RowInv(session[t], attempt[t], completion[t])
    BY DEF IInv
  <2>2. session[t].active = n /\ session[t].state \in Active
    BY <2>1 DEF RowInv, AssignmentRows, Attempts
  <2>3. s # t
    BY <1>2, <2>2 DEF RemoveTerminal, Terminal, Active
  <2> QED BY <1>2, <2>3 DEF RemoveTerminal, IInv
<1> QED BY <1>1, <1>2 DEF AllGoOn

LEMMA RecoveryGoesOn ==
  ASSUME IInv, NEW hit, Recover(hit)
  PROVE  AllGoOn
<1>1. \A s \in Sessions, n \in Attempts :
        /\ attempt'[s][n] = IF <<s, n>> \in hit
             THEN [attempt[s][n] EXCEPT !.state = "interrupted", !.lease = 0] ELSE attempt[s][n]
        /\ attempt[s][n] \in AttemptRow
  BY DEF Recover, AttemptsAfter, IInv
<1>2. \A s \in Sessions, n \in Attempts :
        [attempt[s][n] EXCEPT !.state = "interrupted", !.lease = 0].state = "interrupted"
  BY <1>1 DEF AttemptRow
<1> QED BY <1>1, <1>2 DEF AllGoOn

LEMMA OutboxGoesOn ==
  ASSUME IInv, NEW s, NEW n, OutboxNext(s, n)
  PROVE  AllGoOn
<1>0. attempt \in [Sessions -> [Attempts -> AttemptRow]]
  BY DEF IInv
<1>1. ASSUME NEW state, NEW error, Release(s, n, state, error)
      PROVE  AllGoOn
  BY <1>0, <1>1 DEF Release, AttemptRow, AllGoOn
<1>2. CASE UNCHANGED attempt
  BY <1>2 DEF AllGoOn
<1> QED BY <1>1, <1>2
  DEF OutboxNext, RecordCompletionError, MarkCompletionProjected, FinalizeCompletion, RejectCompletion

LEMMA ClaimGoesOn ==
  ASSUME EInv, IInv, NEW w \in Workers, NEW t \in Sessions, DispatchClaim(w, t)
  PROVE  AllGoOn
<1>1. ClaimNext(owner, t)
  BY DEF DispatchClaim
<1>2. Expired \in SUBSET Running
  BY DEF Expired
<1> DEFINE tries == AttemptsAfter(Expired)
           k == SessionsAfter(Expired)[t].attempts + 1
<1>3. PICK new : attempt' = [tries EXCEPT ![t] = [tries[t] EXCEPT ![k] = new]]
  BY <1>1 DEF ClaimNext, Assign
<1>4. \A s \in Sessions, n \in Attempts :
        /\ tries[s][n] = IF <<s, n>> \in Expired
             THEN [attempt[s][n] EXCEPT !.state = "interrupted", !.lease = 0] ELSE attempt[s][n]
        /\ attempt[s][n] \in AttemptRow
  BY DEF AttemptsAfter, IInv
<1>5. \A s \in Sessions, n \in Attempts :
        attempt[s][n].state = "running" => tries[s][n].state \in {"running", "interrupted"}
  <2> HIDE DEF tries
  <2> TAKE s \in Sessions, n \in Attempts
  <2>1. CASE <<s, n>> \in Expired
    <3>1. [attempt[s][n] EXCEPT !.state = "interrupted", !.lease = 0].state = "interrupted"
      BY <1>4 DEF AttemptRow
    <3>2. tries[s][n] = [attempt[s][n] EXCEPT !.state = "interrupted", !.lease = 0]
      BY <1>4, <2>1, Zenon
    <3> QED BY <3>1, <3>2
  <2>2. CASE <<s, n>> \notin Expired
    <3>1. tries[s][n] = attempt[s][n]
      BY <1>4, <2>2, Zenon
    <3> QED BY <3>1
  <2> QED BY <2>1, <2>2
<1>6. \A n \in Attempts : attempt[t][n].state = "running" => n # k
  <2>1. RowInv(session[t], attempt[t], completion[t])
    BY DEF IInv
  <2>2. k = session'[t].active /\ k = session[t].attempts + 1
    <3>1. session' = [SessionsAfter(Expired) EXCEPT ![t] = ClaimedRow(SessionsAfter(Expired)[t])]
      BY <1>1 DEF ClaimNext, Assign
    <3>2. session'[t] = ClaimedRow(SessionsAfter(Expired)[t])
      BY <3>1 DEF SessionsAfter
    <3>3. SessionsAfter(Expired)[t] \in SessionRow
      BY <1>2, AfterRows, RowFacts
    <3>4. session'[t].active = k
      BY <3>2, <3>3 DEF ClaimedRow, SessionRow
    <3> QED BY <3>4, ClaimedFence
  <2>3. \A n \in Attempts : attempt[t][n].state = "running" => n <= session[t].attempts
    BY <2>1 DEF RowInv, Numbered
  <2> QED BY <2>2, <2>3, ClaimedFence DEF Attempts
<1>7. \A s \in Sessions, n \in Attempts : (s = t /\ n = k) \/ attempt'[s][n] = tries[s][n]
  BY <1>3 DEF AttemptsAfter
<1> QED BY <1>5, <1>6, <1>7 DEF AllGoOn

(* A worker that still executes sees its assignment go on: only its own    *)
(* report, which is one of two resolutions, ends it with a result.         *)
LEMMA OwnWorkerStep ==
  ASSUME EInv, IInv, OnePlace, [EngineNext]_allVars
  PROVE  \A w \in Workers : \A p \in FencesAt(w) :
           attempt[p[1]][p[2]].state = "running" =>
             attempt'[p[1]][p[2]].state \in {"running", "interrupted"}
<1> DEFINE Goes == \A w \in Workers : \A p \in FencesAt(w) :
             attempt[p[1]][p[2]].state = "running" =>
               attempt'[p[1]][p[2]].state \in {"running", "interrupted"}
<1>0. \A w \in Workers : \A p \in FencesAt(w) :
        p \in Fences /\ p[1] \in Sessions /\ p[2] \in Attempts /\ p = <<p[1], p[2]>>
  <2>1. \A w \in Workers : inbox[w] \in Seq(Fences)
    BY DEF EInv, EShape
  <2>2. \A w \in Workers : \A p \in FencesAt(w) : p \in Fences
    BY <2>1 DEF FencesAt
  <2> QED BY <2>2 DEF Fences
<1>1. ASSUME AllGoOn PROVE Goes
  BY <1>0, <1>1 DEF AllGoOn
<1>2. ASSUME UNCHANGED attempt PROVE Goes
  BY <1>2
<1>3. ASSUME NEW s \in Sessions, NEW outcome \in Outcomes, active[s].attempt # 0, Resolve(s, outcome),
             \A w \in Workers : <<s, active[s].attempt>> \notin FencesAt(w)
      PROVE  Goes
  <2>1. active[s].attempt \in Attempts
    BY <1>3 DEF EInv, EShape, AttemptNumbers, Attempts
  <2>2. HolderNext(s, active[s].attempt) \/ UNCHANGED storeVars
    BY <1>3, OutcomeForms DEF Resolve, Apply, HolderNext
  <2>3. CASE HolderNext(s, active[s].attempt)
    <3>1. OthersGoOn(<<s, active[s].attempt>>)
      BY <2>1, <2>3, OwnResults
    <3> QED BY <1>0, <1>3, <3>1 DEF OthersGoOn
  <2>4. CASE UNCHANGED storeVars
    BY <1>2, <2>4 DEF storeVars
  <2> QED BY <2>2, <2>3, <2>4
<1>4. ASSUME NEW w \in Workers, HandleFinished(w) PROVE Goes
  <2> DEFINE f == finished[w][1][1]
             outcome == finished[w][1][2]
  <2>1. finished[w] \in Seq(Fences \X Outcomes) /\ finished[w] # <<>>
    BY <1>4 DEF HandleFinished, EInv, EShape
  <2>2. /\ 1 \in DOMAIN finished[w] /\ Head(finished[w]) = finished[w][1]
        /\ finished[w][1] \in Fences \X Outcomes
    BY <2>1, TailFacts
  <2>3. f[1] \in Sessions /\ f[2] \in Attempts /\ f = <<f[1], f[2]>> /\ outcome \in Outcomes
    BY <2>2 DEF Fences
  <2>4. \A v \in Workers : f \notin FencesAt(v)
    BY <2>2 DEF OnePlace, FencesAt
  <2>5. \/ Expects(w, f[1], f[2]) /\ (Resolve(f[1], outcome) \/ ResolveFails(f[1], outcome))
        \/ UNCHANGED storeVars
    BY <1>4, <2>2 DEF HandleFinished
  <2> HIDE DEF f, outcome
  <2>6. CASE Expects(w, f[1], f[2]) /\ Resolve(f[1], outcome)
    BY <1>3, <2>3, <2>4, <2>6 DEF Expects, Attempts
  <2>7. CASE UNCHANGED storeVars
    BY <1>2, <2>7 DEF storeVars
  <2> QED BY <2>5, <2>6, <2>7 DEF ResolveFails
<1>5. ASSUME NEW s \in Sessions, RetryResolution(s) PROVE Goes
  <2>1. active[s].outcome # Null /\ active[s].attempt # 0 /\ active[s].outcome \in Outcomes
    BY <1>5 DEF RetryResolution, At, EInv, EShape, Visits
  <2>2. \A w \in Workers : <<s, active[s].attempt>> \notin FencesAt(w)
    BY <2>1 DEF OnePlace, FencesAt
  <2>3. CASE Resolve(s, active[s].outcome)
    BY <1>3, <2>1, <2>2, <2>3
  <2>4. CASE ResolveFails(s, active[s].outcome)
    BY <1>2, <2>4 DEF ResolveFails, storeVars
  <2> QED BY <1>5, <2>3, <2>4 DEF RetryResolution
<1>6. ASSUME NEW s \in Sessions, RenewLease(s) PROVE Goes
  <2>1. active[s].attempt \in Attempts
    BY <1>6 DEF RenewLease, At, EInv, EShape, Visits, AttemptNumbers, Attempts
  <2>2. Renew(s, active[s].attempt) \/ UNCHANGED storeVars
    BY <1>6 DEF RenewLease
  <2>3. ASSUME Renew(s, active[s].attempt) PROVE AllGoOn
    BY <2>1, <2>3 DEF Renew, IInv, AttemptRow, AllGoOn
  <2> QED BY <1>1, <1>2, <2>2, <2>3 DEF storeVars
<1>7. ASSUME NEW w \in Workers, WorkerEvent(w) PROVE Goes
  BY <1>2, <1>7 DEF WorkerEvent, AppendAssignmentEvent, BindOpencodeSession
<1>8. ASSUME NEW hit, RecoverAny(hit) PROVE Goes
  BY <1>1, <1>2, <1>8, RecoveryGoesOn DEF RecoverAny, storeVars
<1>9. ASSUME NEW w \in Workers, NEW s \in Sessions, DispatchClaim(w, s) PROVE Goes
  BY <1>1, <1>9, ClaimGoesOn
<1>10. ASSUME NEW s \in Sessions, HandleClient(s) \/ HandleCancel(s) \/ OtherProcessCancels(s) PROVE Goes
  <2>1. ClientNext(s) \/ UNCHANGED storeVars
    BY <1>10 DEF HandleClient, HandleCancel, OtherProcessCancels, ClientNext
  <2> QED BY <1>1, <1>2, <2>1, ClientsGoOn DEF storeVars
<1>11. ASSUME \/ DispatchProjection \/ HandleProjection \/ FinalizeAfterMark
              \/ \E result \in {"projected", "retryable", "rejected"} : Project(result)
       PROVE  Goes
  <2>1. UNCHANGED storeVars \/ \E s, n : OutboxNext(s, n)
    BY <1>11 DEF DispatchProjection, FinalizeProjected, SendDue, HandleProjection, FinalizeAfterMark,
                 Project, OutboxNext
  <2> QED BY <1>1, <1>2, <2>1, OutboxGoesOn DEF storeVars
<1>12. ASSUME QuietRound \/ RecoverAfterRenewal \/ RetriesDone \/ DispatchDone PROVE Goes
  BY <1>1, <1>2, <1>8, <1>12, RecoveryGoesOn
  DEF QuietRound, RecoverAfterRenewal, RetriesDone, DispatchDone, RecoverExpired, storeVars
<1>13. ASSUME NEW t \in 0..MaxNow, Tick(t) PROVE Goes
  BY <1>2, <1>13 DEF Tick, SetClock
<1>14. ASSUME (\E o \in Owners : Start(o)) \/ Crash \/ Shutdown PROVE Goes
  BY <1>2, <1>8, <1>14 DEF Start, Crash, Shutdown, storeVars
<1>15. ASSUME NEW w \in Workers, WorkerReport(w) PROVE Goes
  BY <1>2, <1>15 DEF WorkerReport, storeVars
<1>16. CASE UNCHANGED allVars
  BY <1>2, <1>16 DEF allVars, storeVars
<1>17. CASE LoopNext
  BY <1>4, <1>5, <1>6, <1>9, <1>11, <1>12, <1>17 DEF LoopNext
<1> QED BY <1>7, <1>10, <1>11, <1>13, <1>14, <1>15, <1>16, <1>17 DEF EngineNext

(* An outcome that waits is resolved, or goes on waiting.                  *)
LEMMA PendingStep ==
  ASSUME EInv, IInv, OnePlace, [EngineNext]_allVars,
         NEW s \in Sessions, active[s].outcome # Null, owner' = owner,
         Resolvable(s, active[s].attempt)
  PROVE  \/ active'[s] = active[s]
         \/ attempt'[s][active[s].attempt].state # "running"
<1>0. /\ active \in [Sessions -> [attempt : AttemptNumbers, outcome : Outcomes \cup {Null}]]
      /\ active[s].attempt # 0 /\ active[s].outcome \in Outcomes
  BY DEF EInv, EShape, Visits
<1>1. ASSUME NEW w \in Workers, HandleFinished(w) PROVE active'[s] = active[s]
  <2> DEFINE f == finished[w][1][1]
             outcome == finished[w][1][2]
  <2>1. finished[w] \in Seq(Fences \X Outcomes) /\ finished[w] # <<>>
    BY <1>1 DEF HandleFinished, EInv, EShape
  <2>2. /\ 1 \in DOMAIN finished[w] /\ Head(finished[w]) = finished[w][1]
        /\ finished[w][1] \in Fences \X Outcomes
    BY <2>1, TailFacts
  <2>3. f[1] \in Sessions /\ f[2] \in Attempts /\ f = <<f[1], f[2]>>
    BY <2>2 DEF Fences
  <2>4. f # <<s, active[s].attempt>>
    BY <2>2 DEF OnePlace
  <2>5. \/ Expects(w, f[1], f[2]) /\ (Resolve(f[1], outcome) \/ ResolveFails(f[1], outcome))
        \/ UNCHANGED active
    BY <1>1, <2>2 DEF HandleFinished
  <2> HIDE DEF f, outcome
  <2>6. Expects(w, f[1], f[2]) => f[1] # s
    BY <2>3, <2>4 DEF Expects
  <2> QED BY <1>0, <2>3, <2>5, <2>6 DEF Resolve, ResolveFails
<1>2. ASSUME NEW t \in Sessions, RetryResolution(t)
      PROVE  active'[s] = active[s] \/ attempt'[s][active[s].attempt].state # "running"
  <2>1. CASE t # s
    BY <1>0, <1>2, <2>1 DEF RetryResolution, Resolve, ResolveFails
  <2>2. CASE t = s /\ ResolveFails(s, active[s].outcome)
    BY <1>0, <2>2 DEF ResolveFails
  <2>3. CASE t = s /\ Resolve(s, active[s].outcome)
    <3>1. Apply(s, active[s].attempt, active[s].outcome)
      BY <2>3 DEF Resolve
    <3>2. active[s].attempt \in Attempts
      BY <1>0 DEF AttemptNumbers, Attempts
    <3> QED BY <1>0, <3>1, <3>2, ApplyEnds
  <2> QED BY <1>2, <2>1, <2>2, <2>3 DEF RetryResolution
<1>3. ASSUME NEW w \in Workers, NEW t \in Sessions, DispatchClaim(w, t) PROVE active'[s] = active[s]
  <2>1. t # s
    BY <1>3, ClaimedFence
  <2> QED BY <1>0, <1>3, <2>1 DEF DispatchClaim
<1>4. ASSUME NEW o \in Owners, Start(o) PROVE active'[s] = active[s]
  BY <1>4 DEF Start
<1>5. ~(Crash \/ Shutdown)
  BY DEF Crash, Shutdown, At, Up
<1>6. ASSUME NEW w \in Workers, WorkerReport(w) PROVE active'[s] = active[s]
  BY <1>6 DEF WorkerReport
<1>7. CASE LoopNext
  BY <1>1, <1>2, <1>3, <1>7
  DEF LoopNext, QuietRound, HandleProjection, FinalizeAfterMark, RenewLease,
      RecoverAfterRenewal, RetriesDone, DispatchProjection, DispatchDone
<1>8. CASE \E t \in Sessions : HandleClient(t) \/ HandleCancel(t) \/ OtherProcessCancels(t)
  BY <1>8 DEF HandleClient, HandleCancel, OtherProcessCancels, engineVars, memory
<1>9. CASE UNCHANGED active
  BY <1>9
<1> QED BY <1>4, <1>5, <1>6, <1>7, <1>8, <1>9
  DEF EngineNext, WorkerEvent, Project, Tick, allVars, engineVars, memory

LEMMA OnePlaceAlways == EngineSpec => []OnePlace
<1>1. EngineInit => OnePlace /\ AllIssued
  BY DEF EngineInit, NoAssignment, OnePlace, AllIssued
<1>2. EInv /\ IInv /\ OnePlace /\ AllIssued /\ [EngineNext]_allVars => OnePlace' /\ AllIssued'
  BY PlacesStep
<1> QED BY <1>1, <1>2, EngineInvAlways, PTL DEF EngineSpec

(* An assignment never ends with a result while the worker it was given to *)
(* still executes it: whatever reports of superseded assignments arrive,   *)
(* and whichever outcomes are retried, try_resolve_completion writes the   *)
(* result of the worker that holds the fence.                              *)
THEOREM ResultsAreTheirWorkers == EngineSpec => ResultOfItsOwnWorker
<1>1. EInv /\ IInv /\ OnePlace /\ [EngineNext]_allVars =>
        [\A w \in Workers : \A p \in FencesAt(w) :
           attempt[p[1]][p[2]].state = "running" =>
             attempt'[p[1]][p[2]].state \in {"running", "interrupted"}]_allVars
  BY OwnWorkerStep
<1> QED BY <1>1, EngineInvAlways, OnePlaceAlways, PTL DEF EngineSpec, ResultOfItsOwnWorker

(* An outcome that could not be resolved is kept unchanged until it is: no *)
(* late report, claim, retry or renewal replaces what the worker returned  *)
(* (ActiveAssignment.pending_outcome).                                     *)
THEOREM PendingOutcomesAreKept == EngineSpec => PendingOutcomeKept
<1>1. EInv /\ IInv /\ OnePlace /\ [EngineNext]_allVars =>
        [\A s \in Sessions :
           active[s].outcome # Null /\ owner' = owner /\ Resolvable(s, active[s].attempt) =>
             \/ active'[s] = active[s]
             \/ attempt'[s][active[s].attempt].state # "running"]_allVars
  BY PendingStep
<1> QED BY <1>1, EngineInvAlways, OnePlaceAlways, PTL DEF EngineSpec, PendingOutcomeKept

-----------------------------------------------------------------------------
(* Workers and assignments, when every lease is renewed in time *)

(* What is tracked runs under a live lease.                                *)
TrackedLive ==
  \A s \in Sessions : active[s].attempt # 0 =>
    /\ attempt[s][active[s].attempt].state = "running"
    /\ attempt[s][active[s].attempt].lease > now

(* The fences a worker has not answered for yet.                           *)
Held(w) == FencesAt(w) \cup FencesReported(w)

(* A worker shows the session of every fence it holds, and what it shows   *)
(* is tracked; what is tracked is shown by one worker.                     *)
FencesShown ==
  \A w \in Workers : \A f \in Held(w) : active[f[1]].attempt = f[2] /\ slot[w] = f[1]
ShownTracked ==
  \A w \in Workers : slot[w] # Null =>
    /\ active[slot[w]].attempt # 0
    /\ active[slot[w]].outcome = Null => <<slot[w], active[slot[w]].attempt>> \in Held(w)
ShownOnce ==
  /\ \A w, v \in Workers : slot[w] # Null /\ slot[v] = slot[w] => v = w
  /\ \A s \in Sessions : active[s].attempt # 0 => \E w \in Workers : slot[w] = s

(* A process that does not run tracks nothing.                             *)
DownIsEmpty == owner = Null => \A s \in Sessions : active[s].attempt = 0

WorkersInStep ==
  /\ slot \in [Workers -> Sessions \cup {Null}]
  /\ TrackedLive /\ FencesShown /\ ShownTracked /\ ShownOnce /\ DownIsEmpty

(* Where an attempt is tracked and live, nothing but its own resolution    *)
(* and a renewal touches it.                                               *)
Endures(s, n) == attempt'[s][n].state = "running" /\ attempt'[s][n].lease > now'

(* Recovery of what expired touches nothing tracked.                       *)
LEMMA RecoveryEndures ==
  ASSUME IInv, Recover(Expired), NEW s \in Sessions, NEW n \in Attempts,
         attempt[s][n].state = "running", attempt[s][n].lease > now
  PROVE  Endures(s, n)
<1>1. attempt[s][n].lease \in Nat /\ now \in Nat
  BY DEF IInv, AttemptRow
<1>2. <<s, n>> \notin Expired
  BY <1>1 DEF Expired
<1> QED BY <1>2 DEF Recover, AttemptsAfter, Endures

LEMMA HolderEndures ==
  ASSUME IInv, NEW t, NEW m, HolderNext(t, m), NEW s \in Sessions, NEW n \in Attempts,
         attempt[s][n].state = "running", attempt[s][n].lease > now,
         Renew(t, m) \/ <<s, n>> # <<t, m>> \/ UNCHANGED attempt
  PROVE  Endures(s, n)
<1>0. attempt \in [Sessions -> [Attempts -> AttemptRow]] /\ now \in Nat
  BY DEF IInv
<1>1. now' = now
  BY DEF HolderNext, Renew, AppendAssignmentEvent, BindOpencodeSession, ResolveCancelling,
         ResolvePlain, StageOutput, Terminalize
<1>2. CASE Renew(t, m)
  BY <1>0, <1>1, <1>2 DEF Renew, AttemptRow, Endures
<1>3. CASE UNCHANGED attempt
  BY <1>1, <1>3 DEF Endures
<1>4. CASE <<s, n>> # <<t, m>> /\ ~Renew(t, m)
  <2>1. ASSUME NEW state, NEW error, Terminalize(t, m, state, error)
        PROVE  attempt'[s][n] = attempt[s][n]
    BY <1>0, <1>4, <2>1 DEF Terminalize
  <2>2. ASSUME NEW output \in Outputs("agent"), StageOutput(t, m, output)
        PROVE  attempt'[s][n] = attempt[s][n]
    BY <1>0, <1>4, <2>2 DEF StageOutput
  <2>3. attempt'[s][n] = attempt[s][n]
    BY <1>4, <2>1, <2>2
    DEF HolderNext, AppendAssignmentEvent, BindOpencodeSession, ResolveCancelling, ResolvePlain
  <2> QED BY <1>1, <2>3 DEF Endures
<1> QED BY <1>2, <1>3, <1>4

LEMMA OutboxEndures ==
  ASSUME IInv, NEW t, NEW m, OutboxNext(t, m), NEW s \in Sessions, NEW n \in Attempts,
         attempt[s][n].state = "running", attempt[s][n].lease > now
  PROVE  Endures(s, n)
<1>0. attempt \in [Sessions -> [Attempts -> AttemptRow]]
  BY DEF IInv
<1>1. now' = now
  BY DEF OutboxNext, RecordCompletionError, MarkCompletionProjected, FinalizeCompletion, RejectCompletion
<1>2. ASSUME NEW state, NEW error, Release(t, m, state, error)
      PROVE  attempt'[s][n] = attempt[s][n]
  BY <1>0, <1>2 DEF Release, AttemptRow
<1>3. attempt'[s][n] = attempt[s][n]
  BY <1>2 DEF OutboxNext, RecordCompletionError, MarkCompletionProjected, FinalizeCompletion, RejectCompletion
<1> QED BY <1>1, <1>3 DEF Endures

LEMMA ClientEndures ==
  ASSUME IInv, NEW t \in Sessions, ClientNext(t), NEW s \in Sessions, NEW n \in Attempts,
         attempt[s][n].state = "running", attempt[s][n].lease > now
  PROVE  Endures(s, n)
<1>1. now' = now
  BY DEF ClientNext, Cancel, RemoveTerminal, Enqueue, ResumeAfterApproval, ContinueInterrupted, Requeue
<1>2. UNCHANGED attempt \/ RemoveTerminal(t)
  BY DEF ClientNext, Cancel, Enqueue, ResumeAfterApproval, ContinueInterrupted, Requeue
<1>3. CASE RemoveTerminal(t)
  <2>1. RowInv(session[s], attempt[s], completion[s])
    BY DEF IInv
  <2>2. session[s].active = n /\ session[s].state \in Active
    BY <2>1 DEF RowInv, AssignmentRows, Attempts
  <2>3. s # t
    BY <1>3, <2>2 DEF RemoveTerminal, Terminal, Active
  <2> QED BY <1>1, <1>3, <2>3 DEF RemoveTerminal, IInv, Endures
<1> QED BY <1>1, <1>2, <1>3 DEF Endures

(* A claim takes a session nobody tracks.                                  *)
LEMMA ClaimEndures ==
  ASSUME EInv, IInv, NEW w \in Workers, NEW t \in Sessions, DispatchClaim(w, t)
  PROVE  /\ Endures(t, session'[t].active)
         /\ \A s \in Sessions, n \in Attempts :
              attempt[s][n].state = "running" /\ attempt[s][n].lease > now =>
                s # t /\ Endures(s, n)
<1>1. ClaimNext(owner, t) /\ now' = now /\ now \in Nat
  BY DEF DispatchClaim, ClaimNext, IInv
<1>2. Expired \in SUBSET Running
  BY DEF Expired
<1> DEFINE rows == SessionsAfter(Expired)
           tries == AttemptsAfter(Expired)
           k == rows[t].attempts + 1
           new == [state |-> "running", token |-> rows[t].token + 1, owner |-> owner,
                   lease |-> now + LeaseTime]
<1>3. attempt' = [tries EXCEPT ![t] = [tries[t] EXCEPT ![k] = new]]
  BY <1>1 DEF ClaimNext, Assign
<1>4. k = session'[t].active /\ k \in Attempts
  <2>1. session' = [SessionsAfter(Expired) EXCEPT ![t] = ClaimedRow(SessionsAfter(Expired)[t])]
    BY <1>1 DEF ClaimNext, Assign
  <2>2. session'[t] = ClaimedRow(SessionsAfter(Expired)[t])
    BY <2>1 DEF SessionsAfter
  <2>3. SessionsAfter(Expired)[t] \in SessionRow
    BY <1>2, AfterRows, RowFacts
  <2>4. session'[t].active = k
    BY <2>2, <2>3 DEF ClaimedRow, SessionRow
  <2> QED BY <2>4, ClaimedFence
<1>5. attempt'[t][k] = new
  BY <1>3, <1>4 DEF AttemptsAfter
<1>6. Endures(t, session'[t].active)
  BY <1>1, <1>4, <1>5 DEF Endures
<1>7. ASSUME NEW s \in Sessions, NEW n \in Attempts, attempt[s][n].state = "running",
             attempt[s][n].lease > now
      PROVE  s # t /\ Endures(s, n)
  <2>1. attempt[s][n].lease \in Nat
    BY DEF IInv, AttemptRow
  <2>2. <<s, n>> \notin Expired
    BY <1>1, <1>7, <2>1 DEF Expired
  <2>3. tries[s][n] = attempt[s][n]
    BY <2>2 DEF AttemptsAfter
  <2>4. s # t
    <3>1. RowInv(session[s], attempt[s], completion[s])
      BY DEF IInv
    <3>2. session[s].active = n /\ session[s].state \in Active
      BY <1>7, <3>1 DEF RowInv, AssignmentRows, Attempts
    <3>3. SessionsAfter(Expired)[s] = session[s]
      BY <2>2, <3>2 DEF SessionsAfter
    <3>4. SessionsAfter(Expired)[t].state = "queued"
      BY <1>1 DEF ClaimNext, Candidate, Eligible
    <3> QED BY <3>2, <3>3, <3>4 DEF Active
  <2>5. attempt'[s] = tries[s]
    BY <1>3, <2>4 DEF AttemptsAfter
  <2> QED BY <1>1, <1>7, <2>3, <2>4, <2>5 DEF Endures
<1> QED BY <1>6, <1>7

LEMMA HeldAreFences ==
  ASSUME EInv, NEW w \in Workers, NEW f \in Held(w)
  PROVE  f \in Fences /\ f[1] \in Sessions /\ f[2] \in Attempts /\ f = <<f[1], f[2]>>
<1>1. inbox[w] \in Seq(Fences) /\ finished[w] \in Seq(Fences \X Outcomes)
  BY DEF EInv, EShape
<1>2. f \in Fences
  BY <1>1 DEF Held, FencesAt, FencesReported
<1> QED BY <1>2 DEF Fences

(* A step that keeps the memory and what is tracked.                       *)
LEMMA KeepsInStep ==
  ASSUME WorkersInStep, UNCHANGED <<active, slot, inbox, finished>>, owner' = owner \/ owner' # Null,
         \A s \in Sessions : active[s].attempt # 0 => Endures(s, active[s].attempt)
  PROVE  WorkersInStep'
<1>1. \A w : Held(w)' = Held(w)
  BY DEF Held, FencesAt, FencesReported
<1>2. TrackedLive'
  BY DEF TrackedLive, Endures
<1>3. FencesShown' /\ ShownTracked'
  BY <1>1 DEF WorkersInStep, FencesShown, ShownTracked
<1>4. ShownOnce' /\ DownIsEmpty'
  BY DEF WorkersInStep, ShownOnce, DownIsEmpty
<1> QED BY <1>2, <1>3, <1>4 DEF WorkersInStep

(* The end of an assignment frees the worker that shows it.                *)
LEMMA ResolveInStep ==
  ASSUME EInv, IInv, WorkersInStep, NEW s \in Sessions, active[s].attempt # 0,
         NEW outcome \in Outcomes, Resolve(s, outcome), owner' = owner,
         \A w \in Workers : Held(w)' = Held(w) \ {<<s, active[s].attempt>>}
  PROVE  WorkersInStep'
<1> DEFINE n == active[s].attempt
<1>0. /\ active \in [Sessions -> [attempt : AttemptNumbers, outcome : Outcomes \cup {Null}]]
      /\ slot \in [Workers -> Sessions \cup {Null}] /\ n \in Attempts /\ Null \notin Sessions
  BY EngineAssumption DEF EInv, EShape, WorkersInStep, AttemptNumbers, Attempts
<1>1. /\ active' = [active EXCEPT ![s] = NoAssignment] /\ NoAssignment.attempt = 0
  BY DEF Resolve, NoAssignment
<1>2. \A w \in Workers : slot'[w] = IF slot[w] = s THEN Null ELSE slot[w]
  <2>1. slot' = SlotsAfter(s)
    BY DEF Resolve
  <2>2. \A w, v \in Workers : slot[w] = s /\ slot[v] = s => v = w
    BY <1>0 DEF WorkersInStep, ShownOnce
  <2>3. \A w \in Workers : w <= w
    BY EngineAssumption DEF Workers
  <2> QED BY <2>1, <2>2, <2>3 DEF SlotsAfter
<1>3. slot' \in [Workers -> Sessions \cup {Null}]
  BY <1>0 DEF Resolve, SlotsAfter
<1>4. TrackedLive'
  <2> SUFFICES ASSUME NEW t \in Sessions, t # s, active[t].attempt # 0
               PROVE  Endures(t, active[t].attempt)
    BY <1>0, <1>1 DEF TrackedLive, Endures
  <2>1. attempt[t][active[t].attempt].state = "running" /\ attempt[t][active[t].attempt].lease > now
    BY DEF WorkersInStep, TrackedLive
  <2>2. active[t].attempt \in Attempts
    BY <1>0 DEF AttemptNumbers, Attempts
  <2>3. CASE UNCHANGED storeVars
    BY <2>1, <2>3 DEF storeVars, Endures
  <2>4. CASE HolderNext(s, n)
    BY <1>0, <2>1, <2>2, <2>4, HolderEndures
  <2> QED BY <2>3, <2>4, OutcomeForms DEF Resolve, Apply, HolderNext
<1>5. FencesShown'
  <2> SUFFICES ASSUME NEW w \in Workers, NEW f \in Held(w)'
               PROVE  active'[f[1]].attempt = f[2] /\ slot'[w] = f[1]
    BY DEF FencesShown
  <2>1. f \in Held(w) /\ f # <<s, n>>
    OBVIOUS
  <2>2. f[1] \in Sessions /\ f = <<f[1], f[2]>>
    BY <2>1, HeldAreFences
  <2>3. active[f[1]].attempt = f[2] /\ slot[w] = f[1]
    BY <2>1 DEF WorkersInStep, FencesShown
  <2>4. f[1] # s
    BY <2>1, <2>2, <2>3
  <2> QED BY <1>0, <1>1, <1>2, <2>2, <2>3, <2>4
<1>6. ShownTracked'
  <2> SUFFICES ASSUME NEW w \in Workers, slot'[w] # Null
               PROVE  /\ active'[slot'[w]].attempt # 0
                      /\ active'[slot'[w]].outcome = Null =>
                           <<slot'[w], active'[slot'[w]].attempt>> \in Held(w)'
    BY DEF ShownTracked
  <2>1. slot'[w] = slot[w] /\ slot[w] # s /\ slot[w] \in Sessions
    BY <1>0, <1>2
  <2>2. active'[slot[w]] = active[slot[w]]
    BY <1>0, <1>1, <2>1
  <2>3. <<slot[w], active[slot[w]].attempt>> # <<s, n>>
    BY <2>1
  <2> QED BY <2>1, <2>2, <2>3 DEF WorkersInStep, ShownTracked
<1>7. ShownOnce'
  BY <1>0, <1>1, <1>2 DEF WorkersInStep, ShownOnce
<1>8. DownIsEmpty'
  BY <1>0, <1>1 DEF WorkersInStep, DownIsEmpty
<1> QED BY <1>3, <1>4, <1>5, <1>6, <1>7, <1>8 DEF WorkersInStep

LEMMA WaitsInStep ==
  ASSUME EInv, IInv, WorkersInStep, NEW s \in Sessions, active[s].attempt # 0,
         NEW outcome \in Outcomes, ResolveFails(s, outcome), owner' = owner,
         \A w \in Workers : Held(w)' = Held(w) \ {<<s, active[s].attempt>>}
  PROVE  WorkersInStep'
<1>0. /\ active \in [Sessions -> [attempt : AttemptNumbers, outcome : Outcomes \cup {Null}]]
      /\ slot \in [Workers -> Sessions \cup {Null}] /\ Null \notin Outcomes /\ Null \notin Sessions
  BY EngineAssumption DEF EInv, EShape, WorkersInStep
<1>1. /\ active' = [active EXCEPT ![s].outcome = outcome] /\ slot' = slot
      /\ UNCHANGED <<attempt, now>>
  BY DEF ResolveFails, storeVars
<1>2. \A t \in Sessions : /\ active'[t].attempt = active[t].attempt
                          /\ t # s => active'[t] = active[t]
                          /\ active'[s].outcome # Null
  BY <1>0, <1>1
<1>3. TrackedLive'
  BY <1>1, <1>2 DEF WorkersInStep, TrackedLive
<1>4. FencesShown'
  <2> SUFFICES ASSUME NEW w \in Workers, NEW f \in Held(w)'
               PROVE  active'[f[1]].attempt = f[2] /\ slot'[w] = f[1]
    BY DEF FencesShown
  <2>1. f \in Held(w)
    OBVIOUS
  <2>2. f[1] \in Sessions
    BY <2>1, HeldAreFences
  <2> QED BY <1>1, <1>2, <2>1, <2>2 DEF WorkersInStep, FencesShown
<1>5. ShownTracked'
  <2> SUFFICES ASSUME NEW w \in Workers, slot[w] # Null
               PROVE  /\ active'[slot[w]].attempt # 0
                      /\ active'[slot[w]].outcome = Null =>
                           <<slot[w], active'[slot[w]].attempt>> \in Held(w)'
    BY <1>1 DEF ShownTracked
  <2>1. slot[w] \in Sessions
    BY <1>0
  <2>2. CASE slot[w] = s
    BY <1>2, <2>1, <2>2
  <2>3. CASE slot[w] # s
    BY <1>2, <2>1, <2>3 DEF WorkersInStep, ShownTracked
  <2> QED BY <2>2, <2>3
<1>6. ShownOnce'
  BY <1>1, <1>2 DEF WorkersInStep, ShownOnce
<1>7. DownIsEmpty'
  BY <1>2 DEF WorkersInStep, DownIsEmpty
<1> QED BY <1>0, <1>1, <1>3, <1>4, <1>5, <1>6, <1>7 DEF WorkersInStep

(* Taking a report leaves its worker with nothing of that fence.           *)
LEMMA FinishedHeld ==
  ASSUME EInv, OnePlace, NEW w \in Workers, HandleFinished(w)
  PROVE  /\ finished[w][1] \in Fences \X Outcomes /\ finished[w][1][1] \in Held(w)
         /\ Head(finished[w]) = finished[w][1]
         /\ \A v \in Workers : Held(v)' = Held(v) \ {finished[w][1][1]}
<1>0. /\ inbox \in [Workers -> Seq(Fences)] /\ finished \in [Workers -> Seq(Fences \X Outcomes)]
      /\ finished[w] # <<>> /\ inbox' = inbox /\ finished' = [finished EXCEPT ![w] = Tail(@)]
  BY DEF HandleFinished, EInv, EShape
<1> DEFINE f == finished[w][1][1]
<1>1. /\ 1 \in DOMAIN finished[w] /\ Head(finished[w]) = finished[w][1]
      /\ finished[w][1] \in Fences \X Outcomes /\ DOMAIN finished[w] = 1..Len(finished[w])
      /\ Len(finished[w]) \in Nat
  BY <1>0, TailFacts
<1>2. f \in FencesReported(w)
  BY <1>1 DEF FencesReported
<1>3. \A v \in Workers : FencesAt(v)' = FencesAt(v) /\ f \notin FencesAt(v)
  BY <1>0, <1>1 DEF FencesAt, OnePlace
<1>4. \A v \in Workers \ {w} : FencesReported(v)' = FencesReported(v) /\ f \notin FencesReported(v)
  BY <1>0, <1>1 DEF FencesReported, OnePlace
<1>5. FencesReported(w)' = FencesReported(w) \ {f}
  <2>1. \A i \in DOMAIN finished[w] : finished[w][i][1] = f => i = 1
    BY <1>1 DEF OnePlace
  <2>2. /\ DOMAIN Tail(finished[w]) = 1..(Len(finished[w]) - 1)
        /\ \A i \in DOMAIN Tail(finished[w]) : Tail(finished[w])[i] = finished[w][i + 1]
    BY <1>0, TailFacts
  <2>3. finished'[w] = Tail(finished[w])
    BY <1>0
  <2>4. ASSUME NEW g \in FencesReported(w)' PROVE g \in FencesReported(w) /\ g # f
    <3>1. PICK i \in DOMAIN finished'[w] : g = finished'[w][i][1]
      BY <2>4 DEF FencesReported
    <3>2. i + 1 \in DOMAIN finished[w] /\ g = finished[w][i + 1][1] /\ i + 1 # 1
      BY <1>1, <2>2, <2>3, <3>1
    <3> QED BY <2>1, <3>2 DEF FencesReported
  <2>5. ASSUME NEW g \in FencesReported(w), g # f PROVE g \in FencesReported(w)'
    <3>1. PICK i \in DOMAIN finished[w] : g = finished[w][i][1]
      BY <2>5 DEF FencesReported
    <3>2. i # 1 /\ i \in 1..Len(finished[w])
      BY <1>1, <2>5, <3>1
    <3>3. i - 1 \in DOMAIN finished'[w] /\ (i - 1) + 1 = i
      BY <1>1, <2>2, <2>3, <3>2
    <3>4. g = finished'[w][i - 1][1]
      BY <2>2, <2>3, <3>1, <3>3
    <3> QED BY <3>3, <3>4 DEF FencesReported
  <2> QED BY <2>4, <2>5
<1> QED BY <1>1, <1>2, <1>3, <1>4, <1>5 DEF Held

LEMMA ReportHeld ==
  ASSUME EInv, NEW w \in Workers, WorkerReport(w)
  PROVE  \A v \in Workers : Held(v)' = Held(v)
<1>0. /\ inbox \in [Workers -> Seq(Fences)] /\ finished \in [Workers -> Seq(Fences \X Outcomes)]
      /\ inbox[w] # <<>> /\ inbox' = [inbox EXCEPT ![w] = Tail(@)]
  BY DEF WorkerReport, Executing, EInv, EShape
<1> DEFINE f == inbox[w][1]
<1>1. PICK outcome : finished' = [finished EXCEPT ![w] = Append(@, <<f, outcome>>)]
  <2>1. Executing(w) = {f}
    BY <1>0, TailFacts DEF Executing
  <2> QED BY <2>1 DEF WorkerReport
<1>2. \A v \in Workers \ {w} : Held(v)' = Held(v)
  BY <1>0, <1>1 DEF Held, FencesAt, FencesReported
<1>3. FencesReported(w)' = FencesReported(w) \cup {f}
  <2>1. finished[w] \in Seq(Fences \X Outcomes) /\ finished'[w] = Append(finished[w], <<f, outcome>>)
    BY <1>0, <1>1
  <2> HIDE DEF f
  <2>2. /\ DOMAIN finished[w] = 1..Len(finished[w]) /\ Len(finished[w]) \in Nat
        /\ DOMAIN finished'[w] = 1..(Len(finished[w]) + 1)
        /\ \A i \in DOMAIN finished[w] : finished'[w][i] = finished[w][i]
        /\ finished'[w][Len(finished[w]) + 1] = <<f, outcome>>
    BY <2>1, AppendFacts
  <2>3. \A i \in DOMAIN finished'[w] : i \in DOMAIN finished[w] \/ i = Len(finished[w]) + 1
    BY <2>2
  <2>4. Len(finished[w]) + 1 \in DOMAIN finished'[w] /\ \A i \in DOMAIN finished[w] : i \in DOMAIN finished'[w]
    BY <2>2
  <2> QED BY <2>2, <2>3, <2>4 DEF FencesReported
<1>4. FencesAt(w) = FencesAt(w)' \cup {f}
  <2>1. inbox[w] \in Seq(Fences) /\ inbox'[w] = Tail(inbox[w])
    BY <1>0
  <2>2. /\ DOMAIN inbox[w] = 1..Len(inbox[w]) /\ Len(inbox[w]) \in Nat
        /\ DOMAIN inbox'[w] = 1..(Len(inbox[w]) - 1) /\ 1 \in DOMAIN inbox[w]
        /\ \A i \in DOMAIN inbox'[w] : i + 1 \in DOMAIN inbox[w] /\ inbox'[w][i] = inbox[w][i + 1]
    BY <1>0, <2>1, TailFacts
  <2>3. \A i \in DOMAIN inbox[w] : i = 1 \/ (i - 1 \in DOMAIN inbox'[w] /\ inbox'[w][i - 1] = inbox[w][i])
    BY <2>2
  <2> QED BY <2>2, <2>3 DEF FencesAt
<1>5. Held(w)' = Held(w)
  BY <1>3, <1>4 DEF Held
<1> QED BY <1>2, <1>5

LEMMA ClaimInStep ==
  ASSUME EInv, IInv, WorkersInStep, NEW w \in Workers, NEW t \in Sessions, DispatchClaim(w, t)
  PROVE  WorkersInStep'
<1> DEFINE f == <<t, session'[t].active>>
<1>0. /\ active \in [Sessions -> [attempt : AttemptNumbers, outcome : Outcomes \cup {Null}]]
      /\ slot \in [Workers -> Sessions \cup {Null}] /\ inbox \in [Workers -> Seq(Fences)]
      /\ Null \notin Sessions
  BY EngineAssumption DEF EInv, EShape, WorkersInStep
<1>1. /\ active' = [active EXCEPT ![t] = [attempt |-> session'[t].active, outcome |-> Null]]
      /\ slot' = [slot EXCEPT ![w] = t] /\ slot[w] = Null /\ owner' = owner /\ owner # Null
      /\ finished' = finished /\ inbox' = [inbox EXCEPT ![w] = Append(@, f)]
  BY DEF DispatchClaim, Idle, At, Up
<1>2. session'[t].active \in Attempts /\ session'[t].active # 0
  BY ClaimedFence DEF Attempts
<1>3. active[t].attempt = 0
  <2> SUFFICES ASSUME active[t].attempt # 0 PROVE FALSE
    OBVIOUS
  <2>1. active[t].attempt \in Attempts
    BY <1>0 DEF AttemptNumbers, Attempts
  <2> QED BY <2>1, ClaimEndures DEF WorkersInStep, TrackedLive
<1>4. \A v \in Workers : slot[v] # t
  BY <1>0, <1>3 DEF WorkersInStep, ShownTracked
<1>5. /\ \A v \in Workers \ {w} : Held(v)' = Held(v)
      /\ Held(w)' = Held(w) \cup {f}
  <2>1. \A v \in Workers \ {w} : Held(v)' = Held(v)
    BY <1>0, <1>1 DEF Held, FencesAt, FencesReported
  <2>2. FencesAt(w)' = FencesAt(w) \cup {f}
    <3> HIDE DEF f
    <3>1. /\ DOMAIN inbox[w] = 1..Len(inbox[w]) /\ Len(inbox[w]) \in Nat
          /\ DOMAIN inbox'[w] = 1..(Len(inbox[w]) + 1)
          /\ \A i \in DOMAIN inbox[w] : inbox'[w][i] = inbox[w][i]
          /\ inbox'[w][Len(inbox[w]) + 1] = f
      <4>1. inbox[w] \in Seq(Fences) /\ inbox'[w] = Append(inbox[w], f)
        BY <1>0, <1>1
      <4> QED BY <4>1, AppendFacts
    <3>2. \A i \in DOMAIN inbox'[w] : i \in DOMAIN inbox[w] \/ i = Len(inbox[w]) + 1
      BY <3>1
    <3>3. Len(inbox[w]) + 1 \in DOMAIN inbox'[w] /\ \A i \in DOMAIN inbox[w] : i \in DOMAIN inbox'[w]
      BY <3>1
    <3> QED BY <3>1, <3>2, <3>3 DEF FencesAt
  <2>3. FencesReported(w)' = FencesReported(w)
    BY <1>1 DEF FencesReported
  <2> QED BY <2>1, <2>2, <2>3 DEF Held
<1>6. /\ \A s \in Sessions \ {t} : active'[s] = active[s]
      /\ active'[t].attempt = session'[t].active /\ active'[t].outcome = Null
      /\ \A v \in Workers \ {w} : slot'[v] = slot[v]
      /\ slot'[w] = t
  BY <1>0, <1>1
<1>7. TrackedLive'
  <2> SUFFICES ASSUME NEW s \in Sessions, active'[s].attempt # 0
               PROVE  Endures(s, active'[s].attempt)
    BY DEF TrackedLive, Endures
  <2>1. CASE s = t
    BY <1>6, <2>1, ClaimEndures
  <2>2. CASE s # t
    <3>1. active'[s] = active[s] /\ active[s].attempt \in Attempts
      BY <1>0, <1>6, <2>2 DEF AttemptNumbers, Attempts
    <3> QED BY <3>1, ClaimEndures DEF WorkersInStep, TrackedLive
  <2> QED BY <2>1, <2>2
<1>8. FencesShown'
  <2> SUFFICES ASSUME NEW v \in Workers, NEW g \in Held(v)'
               PROVE  active'[g[1]].attempt = g[2] /\ slot'[v] = g[1]
    BY DEF FencesShown
  <2>1. CASE g \in Held(v)
    <3>1. g[1] \in Sessions
      BY <2>1, HeldAreFences
    <3>2. active[g[1]].attempt = g[2] /\ slot[v] = g[1]
      BY <2>1 DEF WorkersInStep, FencesShown
    <3>3. g[1] # t /\ v # w
      BY <1>0, <1>1, <1>4, <3>1, <3>2
    <3> QED BY <1>6, <3>1, <3>2, <3>3
  <2>2. CASE v = w /\ g = f
    BY <1>6, <2>2
  <2> QED BY <1>5, <2>1, <2>2
<1>9. ShownTracked'
  <2> SUFFICES ASSUME NEW v \in Workers, slot'[v] # Null
               PROVE  /\ active'[slot'[v]].attempt # 0
                      /\ active'[slot'[v]].outcome = Null =>
                           <<slot'[v], active'[slot'[v]].attempt>> \in Held(v)'
    BY DEF ShownTracked
  <2>1. CASE v = w
    BY <1>2, <1>5, <1>6, <2>1
  <2>2. CASE v # w
    <3>1. slot'[v] = slot[v] /\ slot[v] # t /\ slot[v] \in Sessions
      BY <1>0, <1>4, <1>6, <2>2
    <3>2. active'[slot[v]] = active[slot[v]] /\ Held(v)' = Held(v)
      BY <1>5, <1>6, <2>2, <3>1
    <3> QED BY <3>1, <3>2 DEF WorkersInStep, ShownTracked
  <2> QED BY <2>1, <2>2
<1>10. ShownOnce'
  <2>1. \A u, v \in Workers : slot'[u] # Null /\ slot'[v] = slot'[u] => v = u
    BY <1>4, <1>6 DEF WorkersInStep, ShownOnce
  <2>2. ASSUME NEW s \in Sessions, active'[s].attempt # 0
        PROVE  \E v \in Workers : slot'[v] = s
    <3>1. CASE s = t
      BY <1>6, <3>1
    <3>2. CASE s # t
      <4>1. PICK v \in Workers : slot[v] = s
        BY <1>6, <2>2, <3>2 DEF WorkersInStep, ShownOnce
      <4>2. v # w
        BY <1>0, <1>1, <4>1
      <4> QED BY <1>6, <4>1, <4>2
    <3> QED BY <3>1, <3>2
  <2> QED BY <2>1, <2>2 DEF ShownOnce
<1>11. DownIsEmpty'
  BY <1>1 DEF DownIsEmpty
<1>12. slot' \in [Workers -> Sessions \cup {Null}]
  BY <1>0, <1>1
<1> QED BY <1>7, <1>8, <1>9, <1>10, <1>11, <1>12 DEF WorkersInStep

LEMMA InStepNext ==
  ASSUME TimelyRenewal, EInv, IInv, OnePlace, WorkersInStep, [EngineNext]_allVars
  PROVE  WorkersInStep'
<1> DEFINE Endure == \A s \in Sessions : active[s].attempt # 0 => Endures(s, active[s].attempt)
           Same == UNCHANGED <<active, slot, inbox, finished>> /\ (owner' = owner \/ owner' # Null)
<1>0. \A s \in Sessions : active[s].attempt # 0 =>
        /\ active[s].attempt \in Attempts
        /\ attempt[s][active[s].attempt].state = "running"
        /\ attempt[s][active[s].attempt].lease > now
  BY DEF WorkersInStep, TrackedLive, EInv, EShape, AttemptNumbers, Attempts
<1>1. ASSUME Same, Endure PROVE WorkersInStep'
  BY <1>1, KeepsInStep
<1>2. ASSUME UNCHANGED <<attempt, now>> PROVE Endure
  BY <1>0, <1>2 DEF Endures
<1>3. ASSUME NEW s \in Sessions, ClientNext(s) PROVE Endure
  BY <1>0, <1>3, ClientEndures
<1>4. ASSUME RecoverAny(Expired) \/ RecoverExpired PROVE Endure
  BY <1>0, <1>2, <1>4, RecoveryEndures DEF RecoverAny, RecoverExpired, storeVars
<1>5. ASSUME NEW s, NEW n, OutboxNext(s, n) PROVE Endure
  BY <1>0, <1>5, OutboxEndures
<1>6. ASSUME NEW s \in Sessions, RenewLease(s) PROVE Endure
  <2>1. Renew(s, active[s].attempt) \/ UNCHANGED storeVars
    BY <1>6 DEF RenewLease
  <2>2. CASE Renew(s, active[s].attempt)
    <3>1. HolderNext(s, active[s].attempt)
      BY <2>2 DEF HolderNext
    <3> QED BY <1>0, <2>2, <3>1, HolderEndures
  <2> QED BY <1>2, <2>1, <2>2 DEF storeVars
<1>7. ASSUME NEW w \in Workers, WorkerEvent(w) PROVE Endure
  BY <1>2, <1>7 DEF WorkerEvent, AppendAssignmentEvent, BindOpencodeSession
<1>8. ASSUME NEW t \in 0..MaxNow, Tick(t) PROVE Endure
  <2>1. \A s \in Sessions : active[s].attempt # 0 => attempt[s][active[s].attempt].lease > t
    BY <1>0, <1>8 DEF Tick, RenewedInTime, Tracked
  <2> QED BY <1>0, <1>8, <2>1 DEF Tick, SetClock, Endures
<1>9. ASSUME NEW s \in Sessions, HandleClient(s) \/ HandleCancel(s) \/ OtherProcessCancels(s)
      PROVE  WorkersInStep'
  <2>1. ClientNext(s) \/ UNCHANGED storeVars
    BY <1>9 DEF HandleClient, HandleCancel, OtherProcessCancels, ClientNext
  <2>2. Same
    BY <1>9 DEF HandleClient, HandleCancel, OtherProcessCancels, engineVars, memory, workerVars
  <2> QED BY <1>1, <1>2, <1>3, <2>1, <2>2 DEF storeVars
<1>10. ASSUME \/ DispatchProjection \/ HandleProjection \/ FinalizeAfterMark
              \/ \E result \in {"projected", "retryable", "rejected"} : Project(result)
       PROVE  WorkersInStep'
  <2>1. UNCHANGED storeVars \/ \E s, n : OutboxNext(s, n)
    BY <1>10 DEF DispatchProjection, FinalizeProjected, SendDue, HandleProjection, FinalizeAfterMark,
                 Project, OutboxNext
  <2>2. Same
    BY <1>10 DEF DispatchProjection, HandleProjection, FinalizeAfterMark, Project, workerVars
  <2> QED BY <1>1, <1>2, <1>5, <2>1, <2>2 DEF storeVars
<1>11. ASSUME QuietRound \/ RecoverAfterRenewal \/ RetriesDone \/ DispatchDone PROVE WorkersInStep'
  <2>1. UNCHANGED storeVars \/ RecoverAny(Expired) \/ RecoverExpired
    BY <1>11 DEF QuietRound, RecoverAfterRenewal, RetriesDone, DispatchDone
  <2>2. Same
    BY <1>11 DEF QuietRound, RecoverAfterRenewal, RetriesDone, DispatchDone, workerVars
  <2> QED BY <1>1, <1>2, <1>4, <2>1, <2>2 DEF storeVars
<1>12. ASSUME NEW s \in Sessions, RenewLease(s) PROVE WorkersInStep'
  BY <1>1, <1>6, <1>12 DEF RenewLease, workerVars
<1>13. ASSUME NEW w \in Workers, WorkerEvent(w) PROVE WorkersInStep'
  BY <1>1, <1>7, <1>13 DEF WorkerEvent, engineVars, memory
<1>14. ASSUME NEW t \in 0..MaxNow, Tick(t) PROVE WorkersInStep'
  BY <1>1, <1>8, <1>14 DEF Tick, engineVars, memory
<1>15. ASSUME NEW o \in Owners, Start(o) PROVE WorkersInStep'
  BY <1>1, <1>4, <1>15, EngineAssumption DEF Start
<1>16. ASSUME Crash \/ Shutdown PROVE WorkersInStep'
  <2>1. FreshMemory /\ owner' = Null
    BY <1>16 DEF Crash, Shutdown
  <2>2. \A w \in Workers : inbox'[w] = <<>> /\ finished'[w] = <<>> /\ slot'[w] = Null
    BY <2>1 DEF FreshMemory
  <2>3. \A w \in Workers : Held(w)' = {}
    BY <2>2 DEF Held, FencesAt, FencesReported
  <2>4. \A s \in Sessions : active'[s].attempt = 0
    BY <2>1 DEF FreshMemory, NoAssignment
  <2>5. slot' \in [Workers -> Sessions \cup {Null}]
    BY <2>1 DEF FreshMemory
  <2> QED BY <2>2, <2>3, <2>4, <2>5
    DEF WorkersInStep, TrackedLive, FencesShown, ShownTracked, ShownOnce, DownIsEmpty
<1>17. ASSUME NEW w \in Workers, WorkerReport(w) PROVE WorkersInStep'
  <2>1. \A v \in Workers : Held(v)' = Held(v)
    BY <1>17, ReportHeld
  <2>2. UNCHANGED <<attempt, now, active, slot, owner>>
    BY <1>17 DEF WorkerReport, storeVars
  <2>3. TrackedLive' /\ ShownOnce' /\ DownIsEmpty'
    BY <2>2 DEF WorkersInStep, TrackedLive, ShownOnce, DownIsEmpty
  <2>4. FencesShown' /\ ShownTracked'
    BY <2>1, <2>2 DEF WorkersInStep, FencesShown, ShownTracked
  <2> QED BY <2>2, <2>3, <2>4 DEF WorkersInStep
<1>18. ASSUME NEW w \in Workers, HandleFinished(w) PROVE WorkersInStep'
  <2> DEFINE f == finished[w][1][1]
             outcome == finished[w][1][2]
  <2>1. /\ finished[w][1] \in Fences \X Outcomes /\ f \in Held(w)
        /\ Head(finished[w]) = finished[w][1]
        /\ \A v \in Workers : Held(v)' = Held(v) \ {f}
    BY <1>18, FinishedHeld
  <2>2. f[1] \in Sessions /\ f[2] \in Attempts /\ f = <<f[1], f[2]>> /\ outcome \in Outcomes
    BY <2>1, HeldAreFences
  <2>3. active[f[1]].attempt = f[2] /\ slot[w] = f[1]
    BY <2>1 DEF WorkersInStep, FencesShown
  <2>4. Resolve(f[1], outcome) \/ ResolveFails(f[1], outcome)
    BY <1>18, <2>1, <2>3 DEF HandleFinished, Expects
  <2>5. owner' = owner
    BY <1>18 DEF HandleFinished
  <2> HIDE DEF f, outcome
  <2>6. active[f[1]].attempt # 0 /\ f = <<f[1], active[f[1]].attempt>>
    BY <2>2, <2>3 DEF Attempts
  <2> QED BY <2>1, <2>2, <2>4, <2>5, <2>6, ResolveInStep, WaitsInStep
<1>19. ASSUME NEW s \in Sessions, RetryResolution(s) PROVE WorkersInStep'
  <2>1. /\ active[s].outcome # Null /\ active[s].attempt # 0 /\ active[s].outcome \in Outcomes
        /\ owner' = owner /\ UNCHANGED <<inbox, finished>>
    BY <1>19 DEF RetryResolution, At, EInv, EShape, Visits, workerVars
  <2>2. \A w \in Workers : Held(w)' = Held(w) \ {<<s, active[s].attempt>>}
    BY <2>1 DEF OnePlace, Held, FencesAt, FencesReported
  <2> QED BY <1>19, <2>1, <2>2, ResolveInStep, WaitsInStep DEF RetryResolution
<1>20. CASE LoopNext
  BY <1>10, <1>11, <1>12, <1>18, <1>19, <1>20, ClaimInStep DEF LoopNext
<1>21. CASE UNCHANGED allVars
  BY <1>1, <1>2, <1>21 DEF allVars, storeVars, engineVars, memory
<1> QED BY <1>9, <1>10, <1>13, <1>14, <1>15, <1>16, <1>17, <1>20, <1>21 DEF EngineNext

LEMMA InStepMeans ==
  ASSUME EInv, WorkersInStep, OnePlace
  PROVE  BusyWorkersReturn /\ OneDriver
<1>0. slot \in [Workers -> Sessions \cup {Null}]
  BY DEF WorkersInStep
<1>1. BusyWorkersReturn
  BY <1>0 DEF WorkersInStep, ShownTracked, ShownOnce, Held, BusyWorkersReturn, Tracked
<1>2. OneDriver
  <2> SUFFICES ASSUME NEW w \in Workers, NEW v \in Workers, NEW f \in Executing(w), NEW g \in Executing(v),
                      f[1] = g[1]
               PROVE  w = v
    BY DEF OneDriver
  <2>1. /\ inbox[w] \in Seq(Fences) /\ inbox[v] \in Seq(Fences)
        /\ inbox[w] # <<>> /\ inbox[v] # <<>>
    BY DEF Executing, EInv, EShape
  <2>2. 1 \in DOMAIN inbox[w] /\ 1 \in DOMAIN inbox[v] /\ f = inbox[w][1] /\ g = inbox[v][1]
    BY <2>1, TailFacts DEF Executing
  <2>3. f \in Held(w) /\ g \in Held(v)
    BY <2>2 DEF Held, FencesAt
  <2>4. f[2] = g[2]
    BY <2>3 DEF WorkersInStep, FencesShown
  <2>5. f = g
    BY <2>3, <2>4, HeldAreFences
  <2> QED BY <2>2, <2>5 DEF OnePlace
<1> QED BY <1>1, <1>2

LEMMA InStepAlways ==
  TimelyRenewal => (EngineSpec => [](BusyWorkersReturn /\ OneDriver))
<1> SUFFICES ASSUME TimelyRenewal PROVE EngineSpec => [](BusyWorkersReturn /\ OneDriver)
  OBVIOUS
<1>1. EngineInit => WorkersInStep
  BY DEF EngineInit, NoAssignment, WorkersInStep, TrackedLive, FencesShown, ShownTracked, ShownOnce,
         DownIsEmpty, Held, FencesAt, FencesReported
<1>2. EInv /\ IInv /\ OnePlace /\ WorkersInStep /\ [EngineNext]_allVars => WorkersInStep'
  BY InStepNext
<1>3. EInv /\ OnePlace /\ WorkersInStep => BusyWorkersReturn /\ OneDriver
  BY InStepMeans
<1> QED BY <1>1, <1>2, <1>3, EngineInvAlways, OnePlaceAlways, PTL DEF EngineSpec

(* When every lease is renewed in time, a busy worker is one whose end the *)
(* Scheduler will see: the session it shows is tracked, the worker holds   *)
(* its fence or the outcome waits, and no other worker shows the session   *)
(* (WorkerState::Running).  With timely renewal no worker leaks, whatever  *)
(* fails, is cancelled, crashes or is retried.                             *)
THEOREM BusyWorkersAreTracked == TimelyRenewal => (EngineSpec => []BusyWorkersReturn)
<1> SUFFICES ASSUME TimelyRenewal PROVE EngineSpec => []BusyWorkersReturn
  OBVIOUS
<1> QED BY InStepAlways, PTL

(* When every lease is renewed in time, no two workers of this process     *)
(* execute for one Task Session at the same time.                          *)
THEOREM SessionsHaveOneDriver == TimelyRenewal => (EngineSpec => []OneDriver)
<1> SUFFICES ASSUME TimelyRenewal PROVE EngineSpec => []OneDriver
  OBVIOUS
<1> QED BY InStepAlways, PTL
=============================================================================
