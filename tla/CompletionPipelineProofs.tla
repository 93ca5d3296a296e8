---------------------- MODULE CompletionPipelineProofs ----------------------
(***************************************************************************)
(* Proofs about CompletionPipeline for any sets of sessions, processes,    *)
(* conversations, runs and messages and any bounds.                        *)
(*                                                                         *)
(* What the pipeline does to the scheduler's database are steps of         *)
(* SchedulerStore, so its invariant IInv holds here too.  PInv adds what   *)
(* connects the two databases and the results in the hands of projectors.  *)
(***************************************************************************)
EXTENDS CompletionPipeline, SchedulerStoreProofs

StepRow == [status : StepStatuses \cup {"absent"}, owned : BOOLEAN,
            result : Projections \cup {Absent}]
Heads == [sequence : Nat, id : Messages \cup Projections]
HeldRow == [session : Sessions, attempt : Attempts, request : Requests,
            head : Heads \cup {Null}, terminal : StagedStates,
            result : {"pending", "projected", "retryable", "rejected", "marked"}]

PipelineTypes ==
  /\ step \in [Runs -> StepRow]
  /\ talk \in [Conversations -> Seq(MessageRow) \cup {Absent}]
  /\ receipts \subseteq Projections
  /\ head \in [Sessions -> Heads \cup {Null}]
  /\ held \in [Processes -> HeldRow \cup {Null}]

(* Messages have ids of their own, and what is known of an answer.         *)
IdsUnique ==
  \A c \in Conversations : \A i, j \in Positions(c) :
    talk[c][i].id = talk[c][j].id => i = j

Answers(c, i, s) ==
  /\ session[s].state # "absent"
  /\ head[s] # Null => i > 1 /\ talk[c][i - 1].id = head[s].id

AnswersKnown ==
  \A c \in Conversations : \A i \in Positions(c) :
    talk[c][i].id \in Projections => Answers(c, i, talk[c][i].id[1])

HeadsOfChats ==
  \A s \in Sessions : head[s] # Null =>
    session[s].state # "absent" /\ session[s].request.kind = "chat"

(* The result of id is in the execution store.                             *)
StoredIn(c, id) == \E i \in Positions(c) : talk[c][i].id = id

Published(id, request) ==
  /\ request.kind = "agent" => id \in receipts
  /\ request.kind = "chat" =>
       request.conversation \in pruned \/ StoredIn(request.conversation, id)

(* A held result is of a session that still has that task and head; an     *)
(* agent's is in the execution store or still staged.                      *)
HeldTask(h) ==
  /\ session[h.session].state # "absent"
  /\ session[h.session].request.kind = h.request.kind
  /\ session[h.session].request.conversation = h.request.conversation
  /\ head[h.session] = h.head

HeldResult(h) ==
  /\ h.request.kind = "agent" =>
       <<h.session, h.attempt>> \in receipts \/ StagedBy(h.session, h.attempt)
  /\ h.result = "rejected" => h.request.kind = "chat"
  /\ h.result \in {"projected", "marked"} =>
       Published(<<h.session, h.attempt>>, h.request)

HeldOfSessions ==
  \A p \in Processes : held[p] # Null => HeldTask(held[p]) /\ HeldResult(held[p])

MarkedPublished ==
  \A s \in Sessions : completion[s].projected =>
    Published(<<s, completion[s].attempt>>, session[s].request)

(* Receipts are of attempts there were, and of every result a step shows.  *)
ReceiptsOfAttempts ==
  /\ \A id \in receipts : id[2] <= session[id[1]].attempts
  /\ \A r \in Runs : step[r].result # Absent => step[r].result \in receipts

PInv ==
  /\ IInv
  /\ PipelineTypes
  /\ IdsUnique
  /\ AnswersKnown
  /\ HeadsOfChats
  /\ HeldOfSessions
  /\ MarkedPublished
  /\ ReceiptsOfAttempts

-----------------------------------------------------------------------------
(* What a step of the scheduler's database leaves of a session: its task,  *)
(* no result newly marked, and a staged result staged.                     *)
TaskStays(s) ==
  /\ session[s].state # "absent" =>
       /\ session'[s].state # "absent"
       /\ session'[s].request.kind = session[s].request.kind
       /\ session'[s].request.conversation = session[s].request.conversation
  /\ session'[s].attempts >= session[s].attempts

MarkStays(s) ==
  completion'[s].projected =>
    completion[s].projected /\ completion'[s].attempt = completion[s].attempt

StagedStays(s) ==
  \A n \in Attempts : StagedBy(s, n) => StagedBy(s, n)'

Stays(s) == TaskStays(s) /\ MarkStays(s) /\ StagedStays(s)

LEMMA SameStays ==
  ASSUME IInv, NEW s \in Sessions, session'[s] = session[s],
         attempt'[s] = attempt[s], completion'[s] = completion[s]
  PROVE  Stays(s)
<1>1. session[s].attempts \in Nat
  BY RowFacts DEF IInv
<1> QED BY <1>1 DEF Stays, TaskStays, MarkStays, StagedStays, StagedBy

LEMMA EnqueueStays ==
  ASSUME IInv, NEW s \in Sessions, NEW r \in Requests, Enqueue(s, r), NEW t \in Sessions
  PROVE  Stays(t)
<1>1. RowInv(session[t], attempt[t], completion[t]) /\ session[t].attempts \in Nat
  BY RowFacts DEF IInv
<1>2. CASE t # s
  BY <1>2, SameStays DEF Enqueue, IInv
<1>3. CASE t = s
  <2>1. session[t].state = "absent" /\ session[t].attempts = 0 /\ session'[t].attempts = 0
    BY <1>1, <1>3 DEF Enqueue, IInv, RowInv, RequestRows, NoSession
  <2> QED BY <2>1 DEF Enqueue, Stays, TaskStays, MarkStays, StagedStays, StagedBy
<1> QED BY <1>2, <1>3

LEMMA RequeueStays ==
  ASSUME IInv, NEW s \in Sessions, NEW r \in Requests, ContinueInterrupted(s, r),
         r.kind = session[s].request.kind, NEW t \in Sessions
  PROVE  Stays(t)
<1>1. RowInv(session[s], attempt[s], completion[s]) /\ session[s].attempts \in Nat
  BY RowFacts DEF IInv
<1>2. CASE t # s
  BY <1>2, SameStays DEF ContinueInterrupted, Requeue, IInv
<1>3. CASE t = s
  <2>1. session \in [Sessions -> SessionRow] /\ session[s] \in SessionRow
    BY DEF IInv
  <2>2. /\ session'[s].state = "queued" /\ session'[s].request = r
        /\ session'[s].attempts = session[s].attempts
    BY <2>1 DEF ContinueInterrupted, Requeue, SessionRow
  <2>3. completion'[s] = NoCompletion
    BY DEF ContinueInterrupted, Requeue, IInv
  <2>4. ~ \E n \in Attempts : StagedBy(s, n)
    <3> SUFFICES ASSUME NEW n \in Attempts, StagedBy(s, n) PROVE FALSE
      OBVIOUS
    <3> QED BY StagedRows DEF ContinueInterrupted
  <2> QED BY <1>1, <1>3, <2>2, <2>3, <2>4
          DEF ContinueInterrupted, Requeue, Stays, TaskStays, MarkStays, StagedStays, NoCompletion
<1> QED BY <1>2, <1>3

LEMMA CancelStays ==
  ASSUME IInv, NEW s \in Sessions, Cancel(s), NEW t \in Sessions
  PROVE  Stays(t)
<1>1. session \in [Sessions -> SessionRow] /\ session[t].attempts \in Nat
  BY RowFacts DEF IInv
<1>2. session'[t] = session[t] \/ session'[t] = [session[t] EXCEPT !.state = "cancelled"]
      \/ session'[t] = [session[t] EXCEPT !.state = "cancelling"]
  BY <1>1 DEF Cancel, SessionRow
<1> QED BY <1>1, <1>2 DEF Cancel, SessionRow, Stays, TaskStays, MarkStays, StagedStays, StagedBy

(* Recovery touches running attempts only.                                 *)
LEMMA AfterStays ==
  ASSUME IInv, NEW hit \in SUBSET Running, NEW t \in Sessions
  PROVE  /\ SessionsAfter(hit)[t].request = session[t].request
         /\ SessionsAfter(hit)[t].attempts = session[t].attempts
         /\ session[t].state # "absent" => SessionsAfter(hit)[t].state # "absent"
         /\ \A n \in Attempts :
              /\ AttemptsAfter(hit)[t][n].token = attempt[t][n].token
              /\ attempt[t][n].state # "none" => AttemptsAfter(hit)[t][n].state # "none"
<1>1. session[t] \in SessionRow /\ attempt[t] \in [Attempts -> AttemptRow]
  BY DEF IInv
<1> QED BY <1>1 DEF SessionsAfter, AttemptsAfter, RecoveredRow, RecoveredState, SessionRow,
           AttemptRow

LEMMA RecoverStays ==
  ASSUME IInv, NEW hit \in SUBSET Running, Recover(hit), NEW t \in Sessions
  PROVE  Stays(t)
<1>1. session[t].attempts \in Nat
  BY RowFacts DEF IInv
<1> QED BY <1>1, AfterStays DEF Recover, Stays, TaskStays, MarkStays, StagedStays, StagedBy

LEMMA ClaimStays ==
  ASSUME IInv, NEW o \in Owners, NEW s \in Sessions, ClaimNext(o, s), NEW t \in Sessions
  PROVE  Stays(t)
<1> DEFINE rows == SessionsAfter(Expired)
           tries == AttemptsAfter(Expired)
<1>1. Expired \in SUBSET Running
  BY DEF Expired
<1>2. /\ RowInv(rows[s], tries[s], completion[s])
      /\ rows[s].attempts \in Nat /\ rows[s].attempts < MaxAttempts
      /\ rows[s].token = rows[s].attempts
  BY <1>1, AfterRows, RowFacts DEF ClaimNext, Assign
<1>3. /\ session' = [rows EXCEPT ![s] = ClaimedRow(rows[s])]
      /\ attempt' = [tries EXCEPT ![s] = [tries[s] EXCEPT ![rows[s].attempts + 1] =
           [state |-> "running", token |-> rows[s].token + 1, owner |-> o,
            lease |-> now + LeaseTime]]]
      /\ completion' = completion
  BY DEF ClaimNext, Assign
<1>4. rows \in [Sessions -> SessionRow] /\ tries \in [Sessions -> [Attempts -> AttemptRow]]
  <2> SUFFICES ASSUME NEW u \in Sessions
               PROVE  rows[u] \in SessionRow /\ tries[u] \in [Attempts -> AttemptRow]
    BY DEF SessionsAfter, AttemptsAfter
  <2> QED BY <1>1, AfterRows, RowFacts
<1>5. /\ session'[t].request = rows[t].request /\ session'[t].attempts >= rows[t].attempts
      /\ rows[t].state # "absent" => session'[t].state # "absent"
  <2>1. CASE t = s
    BY <1>2, <1>3, <1>4, <2>1 DEF ClaimedRow, SessionRow
  <2>2. CASE t # s
    BY <1>1, <1>3, <1>4, <2>2, AfterRows, RowFacts
  <2> QED BY <2>1, <2>2
<1>6. \A n \in Attempts : tries[t][n].state # "none" => attempt'[t][n] = tries[t][n]
  <2>1. CASE t = s
    <3> DEFINE k == rows[s].attempts + 1
    <3>0. k \in Attempts /\ ~(k <= rows[s].attempts)
      BY <1>2, BoundsAssumption DEF Attempts
    <3>1. tries[s][k].state = "none"
      BY <1>2, <3>0 DEF RowInv, Numbered
    <3> QED BY <1>3, <1>4, <2>1, <3>1
  <2>2. CASE t # s
    BY <1>3, <1>4, <2>2
  <2> QED BY <2>1, <2>2
<1>7. session[t].attempts \in Nat
  BY RowFacts DEF IInv
<1>8. TaskStays(t)
  BY <1>1, <1>5, <1>7, AfterStays DEF TaskStays
<1>9. StagedStays(t)
  BY <1>1, <1>3, <1>6, AfterStays DEF StagedStays, StagedBy
<1> QED BY <1>3, <1>8, <1>9 DEF Stays, MarkStays

LEMMA TerminalizeStays ==
  ASSUME IInv, NEW s \in Sessions, NEW n \in Attempts, Resolvable(s, n),
         NEW state \in Terminal, NEW error, Terminalize(s, n, state, error), NEW t \in Sessions
  PROVE  Stays(t)
<1>1. /\ session \in [Sessions -> SessionRow] /\ session[t].attempts \in Nat
      /\ attempt \in [Sessions -> [Attempts -> AttemptRow]]
  BY RowFacts DEF IInv
<1>2. state # "absent" /\ state # "none"
  BY DEF Terminal
<1>3. /\ session'[t].request = session[t].request
      /\ session'[t].attempts = session[t].attempts
      /\ session[t].state # "absent" => session'[t].state # "absent"
  BY <1>1, <1>2 DEF Terminalize, SessionRow
<1>4. \A m \in Attempts : /\ attempt'[t][m].token = attempt[t][m].token
                          /\ attempt[t][m].state # "none" => attempt'[t][m].state # "none"
  BY <1>1, <1>2 DEF Terminalize, AttemptRow
<1> QED BY <1>1, <1>3, <1>4
        DEF Terminalize, Stays, TaskStays, MarkStays, StagedStays, StagedBy

LEMMA StageStays ==
  ASSUME IInv, NEW s \in Sessions, NEW n \in Attempts,
         NEW output \in Outputs("agent"), StageOutput(s, n, output), NEW t \in Sessions
  PROVE  Stays(t)
<1>1. /\ session \in [Sessions -> SessionRow] /\ session[t].attempts \in Nat
      /\ attempt \in [Sessions -> [Attempts -> AttemptRow]]
      /\ completion \in [Sessions -> CompletionRow]
  BY RowFacts DEF IInv
<1>2. /\ session'[t].request = session[t].request
      /\ session'[t].attempts = session[t].attempts
      /\ session[t].state # "absent" => session'[t].state # "absent"
  BY <1>1 DEF StageOutput, SessionRow
<1>3. \A m \in Attempts : /\ attempt'[t][m].token = attempt[t][m].token
                          /\ attempt[t][m].state # "none" => attempt'[t][m].state # "none"
  BY <1>1 DEF StageOutput, AttemptRow
<1>4. CASE t # s
  BY <1>1, <1>2, <1>3, <1>4 DEF StageOutput, Stays, TaskStays, MarkStays, StagedStays, StagedBy
<1>5. CASE t = s
  <2>1. ~completion'[s].projected
    BY <1>1 DEF StageOutput
  <2>2. completion[s].attempt = 0
    BY DEF StageOutput, NoCompletion
  <2>3. ~ \E m \in Attempts : StagedBy(s, m)
    BY <2>2 DEF StagedBy, Attempts
  <2> QED BY <1>1, <1>2, <1>5, <2>1, <2>3 DEF Stays, TaskStays, MarkStays, StagedStays
<1> QED BY <1>4, <1>5

LEMMA HolderStays ==
  ASSUME IInv, NEW s \in Sessions, NEW n \in Attempts, Resolvable(s, n), HolderStep(s, n),
         NEW t \in Sessions
  PROVE  Stays(t)
<1>1. ASSUME NEW id \in Runtimes, BindOpencodeSession(s, n, id) PROVE Stays(t)
  <2>1. session \in [Sessions -> SessionRow] /\ session[t].attempts \in Nat
    BY RowFacts DEF IInv
  <2> QED BY <1>1, <2>1 DEF BindOpencodeSession, SessionRow, Stays, TaskStays, MarkStays,
             StagedStays, StagedBy
<1>2. CASE ResolveCancelling(s, n)
  BY <1>2, TerminalizeStays DEF ResolveCancelling, Terminal
<1>3. ASSUME NEW outcome \in PlainOutcomes, ResolvePlain(s, n, outcome) PROVE Stays(t)
  <2>1. outcome[1] \in Terminal
    BY DEF PlainOutcomes, Terminal
  <2> QED BY <1>3, <2>1, TerminalizeStays DEF ResolvePlain
<1>4. ASSUME NEW output \in Outputs("agent"), StageOutput(s, n, output) PROVE Stays(t)
  BY <1>4, StageStays
<1> QED BY <1>1, <1>2, <1>3, <1>4, PipelineAssumption DEF HolderStep

LEMMA SchedulerStays ==
  ASSUME IInv, SchedulerStep, NEW t \in Sessions
  PROVE  Stays(t)
<1>1. CASE \E s \in Sessions, o \in Owners : ClaimNext(o, s)
  BY <1>1, ClaimStays
<1>2. CASE \E s \in Sessions, n \in Attempts : Resolvable(s, n) /\ HolderStep(s, n)
  BY <1>2, HolderStays
<1>3. CASE \E s \in Sessions : Cancel(s)
  BY <1>3, CancelStays
<1>4. CASE \E o \in Owners : AbandonOwner(o)
  BY <1>4, RecoverStays DEF AbandonOwner, OwnedBy
<1> QED BY <1>1, <1>2, <1>3, <1>4 DEF SchedulerStep

(* A call of the outbox moves the row of its session only.                 *)
LEMMA OutboxStays ==
  ASSUME IInv, NEW s \in Sessions, NEW n \in Attempts, OutboxNext(s, n), NEW t \in Sessions
  PROVE  /\ TaskStays(t)
         /\ t # s => Stays(t)
         /\ RecordCompletionError(s, n) => Stays(t)
         /\ MarkCompletionProjected(s, n) =>
              StagedStays(t) /\ completion'[t].attempt = completion[t].attempt
         /\ FinalizeCompletion(s, n) => MarkStays(t)
         /\ RejectCompletion(s, n) => MarkStays(t)
<1>1. /\ session \in [Sessions -> SessionRow] /\ session[t].attempts \in Nat
      /\ attempt \in [Sessions -> [Attempts -> AttemptRow]]
      /\ completion \in [Sessions -> CompletionRow]
  BY RowFacts DEF IInv
<1>2. ASSUME UNCHANGED <<session, attempt>>,
             NEW new \in CompletionRow, completion' = [completion EXCEPT ![s] = new],
             new.attempt = completion[s].attempt, new.token = completion[s].token,
             new.finalized = completion[s].finalized
      PROVE  /\ TaskStays(t) /\ StagedStays(t)
             /\ completion'[t].attempt = completion[t].attempt
             /\ t # s \/ new.projected = completion[s].projected => Stays(t)
  BY <1>1, <1>2 DEF Stays, TaskStays, MarkStays, StagedStays, StagedBy
<1>3. ASSUME NEW state \in Terminal, NEW error, Release(s, n, state, error),
             NEW new \in CompletionRow, completion' = [completion EXCEPT ![s] = new],
             new.attempt = completion[s].attempt, new.projected = completion[s].projected
      PROVE  TaskStays(t) /\ MarkStays(t) /\ (t # s => Stays(t))
  <2>1. state # "absent"
    BY DEF Terminal
  <2>2. TaskStays(t) /\ (t # s => session'[t] = session[t] /\ attempt'[t] = attempt[t])
    BY <1>1, <1>3, <2>1 DEF Release, SessionRow, TaskStays
  <2>3. MarkStays(t) /\ (t # s => completion'[t] = completion[t])
    BY <1>1, <1>3 DEF MarkStays
  <2> QED BY <2>2, <2>3, SameStays
<1>4. ASSUME RecordCompletionError(s, n) PROVE Stays(t)
  <2>1. PICK d \in RetryDelays : completion' = [completion EXCEPT ![s].retryAt = now + d]
    BY <1>4 DEF RecordCompletionError
  <2>2. now \in Nat /\ d \in Nat
    BY BoundsAssumption DEF IInv
  <2> DEFINE new == [completion[s] EXCEPT !.retryAt = now + d]
  <2>3. /\ new \in CompletionRow /\ new.attempt = completion[s].attempt
        /\ new.token = completion[s].token /\ new.finalized = completion[s].finalized
        /\ new.projected = completion[s].projected
    BY <1>1, <2>2 DEF CompletionRow
  <2>4. completion' = [completion EXCEPT ![s] = new]
    BY <1>1, <2>1
  <2> HIDE DEF new
  <2> QED BY <1>2, <1>4, <2>3, <2>4 DEF RecordCompletionError
<1>5. ASSUME MarkCompletionProjected(s, n)
      PROVE  /\ TaskStays(t) /\ StagedStays(t) /\ (t # s => Stays(t))
             /\ completion'[t].attempt = completion[t].attempt
  <2> DEFINE new == [completion[s] EXCEPT !.projected = TRUE]
  <2>3. /\ new \in CompletionRow /\ new.attempt = completion[s].attempt
        /\ new.token = completion[s].token /\ new.finalized = completion[s].finalized
    BY <1>1 DEF CompletionRow
  <2>4. completion' = [completion EXCEPT ![s] = new]
    BY <1>1, <1>5 DEF MarkCompletionProjected
  <2> HIDE DEF new
  <2> QED BY <1>2, <1>5, <2>3, <2>4 DEF MarkCompletionProjected
<1>6. ASSUME FinalizeCompletion(s, n) PROVE TaskStays(t) /\ MarkStays(t) /\ (t # s => Stays(t))
  <2> DEFINE new == [completion[s] EXCEPT !.finalized = TRUE]
  <2>1. completion[s].terminal \in Terminal
    <3>1. CommittingBy(s, n) /\ RowInv(session[s], attempt[s], completion[s])
      BY <1>6 DEF FinalizeCompletion, IInv
    <3> QED BY <3>1 DEF CommittingBy, RowInv, OutboxRows, Terminal
  <2>3. /\ new \in CompletionRow /\ new.attempt = completion[s].attempt
        /\ new.projected = completion[s].projected
    BY <1>1 DEF CompletionRow
  <2>4. completion' = [completion EXCEPT ![s] = new]
    BY <1>1, <1>6 DEF FinalizeCompletion
  <2> HIDE DEF new
  <2> QED BY <1>3, <1>6, <2>1, <2>3, <2>4 DEF FinalizeCompletion
<1>7. ASSUME RejectCompletion(s, n) PROVE TaskStays(t) /\ MarkStays(t) /\ (t # s => Stays(t))
  <2> DEFINE new == IF StagedBy(s, n)
                    THEN [completion[s] EXCEPT !.terminal = "blocked", !.finalized = TRUE]
                    ELSE completion[s]
  <2>3. /\ new \in CompletionRow /\ new.attempt = completion[s].attempt
        /\ new.projected = completion[s].projected
    BY <1>1 DEF CompletionRow, StagedStates
  <2>4. completion' = [completion EXCEPT ![s] = new]
    BY <1>1, <1>7 DEF RejectCompletion
  <2>5. Release(s, n, "blocked", "other") /\ "blocked" \in Terminal
    BY <1>7 DEF RejectCompletion, Terminal
  <2> HIDE DEF new
  <2> QED BY <1>3, <2>3, <2>4, <2>5
<1> QED BY <1>4, <1>5, <1>6, <1>7 DEF OutboxNext, Stays

-----------------------------------------------------------------------------
(* Each step of the pipeline is a step of the store, or leaves it alone.   *)

LEMMA HeldRows ==
  ASSUME PipelineTypes, NEW p \in Processes, held[p] # Null
  PROVE  held[p] \in HeldRow
BY DEF PipelineTypes

LEMMA FoundIsAttempt ==
  ASSUME IInv, NEW s \in Sessions, FinalizeCompletion(s, completion[s].attempt)
  PROVE  completion[s].attempt \in Attempts
<1>1. session[s].state = "committing" /\ RowInv(session[s], attempt[s], completion[s])
  BY DEF FinalizeCompletion, CommittingBy, IInv
<1>2. completion[s].attempt # 0 /\ completion[s].attempt \in AttemptNumbers
  BY <1>1 DEF RowInv, RowTypes, OutboxRows, CompletionRow
<1> QED BY <1>2, BoundsAssumption DEF AttemptNumbers, Attempts

LEMMA ProjectorIsStore ==
  ASSUME IInv, PipelineTypes, NEW p \in Processes, ProjectorNext(p)
  PROVE  [Next]_vars
<1>1. CASE FinalizeFound(p)
  <2>1. PICK s \in Sessions : FinalizeCompletion(s, completion[s].attempt)
    BY <1>1 DEF FinalizeFound, Projected
  <2>2. completion[s].attempt \in Attempts
    BY <2>1, FoundIsAttempt
  <2> QED BY <2>1, <2>2 DEF Next, OutboxNext
<1>2. CASE \E s \in Sessions : Take(p, s)
  BY <1>2 DEF Take, schedulerVars, vars
<1>3. CASE \E result \in {"projected", "retryable", "rejected"} : Project(p, result)
  BY <1>3 DEF Project, schedulerVars, vars
<1>4. CASE ProjectFails(p) \/ Forget(p)
  BY <1>4 DEF ProjectFails, Forget, schedulerVars, vars
<1>5. ASSUME held[p] # Null, OutboxNext(held[p].session, held[p].attempt)
      PROVE  [Next]_vars
  <2>1. held[p].session \in Sessions /\ held[p].attempt \in Attempts
    BY <1>5, HeldRows DEF HeldRow
  <2> QED BY <1>5, <2>1 DEF Next
<1> QED BY <1>1, <1>2, <1>3, <1>4, <1>5
        DEF ProjectorNext, MarkProjected, FinalizeMarked, RecordRetry, RejectProjection,
            Holds, OutboxNext

LEMMA PipelineIsStore ==
  ASSUME IInv, PipelineTypes, [PipelineNext]_everything
  PROVE  [Next]_vars
<1>1. CASE \E s \in Sessions, r \in Requests : Submit(s, r)
  BY <1>1 DEF Submit, Next, ClientNext
<1>2. CASE SchedulerStep
  <2>1. CASE \E s \in Sessions, n \in Attempts : Resolvable(s, n) /\ HolderStep(s, n)
    BY <2>1, PipelineAssumption DEF HolderStep, HolderNext, Next
  <2>2. CASE \E s \in Sessions : Cancel(s)
    BY <2>2 DEF Next, ClientNext
  <2> QED BY <1>2, <2>1, <2>2 DEF SchedulerStep, Next
<1>3. CASE \E p \in Processes : ProjectorNext(p)
  BY <1>3, ProjectorIsStore
<1>4. CASE \E r \in Runs : RendererReads(r) \/ DirectRun(r)
                           \/ \E u \in Updates : RendererSaves(r, u)
  BY <1>4 DEF RendererReads, DirectRun, RendererSaves, schedulerVars, vars
<1>5. CASE \E c \in Conversations : RendererTalks(c) \/ RendererPrunes(c)
  BY <1>5 DEF RendererTalks, RendererPrunes, schedulerVars, vars
<1>6. CASE UNCHANGED everything
  BY <1>6 DEF everything, schedulerVars, vars
<1> QED BY <1>1, <1>2, <1>3, <1>4, <1>5, <1>6 DEF PipelineNext

-----------------------------------------------------------------------------
(* The execution store *)

Last(c) == IF talk[c] = Absent THEN 0 ELSE Len(talk[c])

LEMMA PositionsAre ==
  ASSUME PipelineTypes, NEW c \in Conversations
  PROVE  /\ Positions(c) = 1..Last(c) /\ Last(c) \in Nat
         /\ \A i \in Positions(c) : talk[c][i] \in MessageRow
         /\ talk[c] # Absent => talk[c] \in Seq(MessageRow)
<1>1. talk[c] \in Seq(MessageRow) \cup {Absent}
  BY DEF PipelineTypes
<1> QED BY <1>1 DEF Positions, Last

(* A message is inserted behind the last one and changes no other.         *)
LEMMA Inserted ==
  ASSUME PipelineTypes, NEW c \in Conversations, NEW message \in MessageRow,
         Insert(c, message)
  PROVE  /\ talk' \in [Conversations -> Seq(MessageRow) \cup {Absent}]
         /\ Positions(c)' = 1..(Last(c) + 1)
         /\ talk'[c][Last(c) + 1] = message
         /\ \A i \in Positions(c) : talk'[c][i] = talk[c][i]
         /\ \A d \in Conversations \ {c} :
              Positions(d)' = Positions(d) /\ talk'[d] = talk[d]
         /\ \A d \in Conversations : \A i \in Positions(d) : talk[d][i].id # message.id
<1> DEFINE old == IF talk[c] = Absent THEN <<>> ELSE talk[c]
<1>1. /\ talk \in [Conversations -> Seq(MessageRow) \cup {Absent}]
      /\ old \in Seq(MessageRow) /\ Len(old) = Last(c)
      /\ Positions(c) = 1..Last(c) /\ Last(c) \in Nat
      /\ talk[c] # Absent => talk[c] = old
      /\ talk[c] = Absent => Last(c) = 0
  BY PositionsAre DEF PipelineTypes, Last
<1>2. talk' = [talk EXCEPT ![c] = Append(old, message)]
  BY <1>1 DEF Insert
<1>3. /\ Append(old, message) \in Seq(MessageRow)
      /\ Append(old, message) # Absent
      /\ DOMAIN Append(old, message) = 1..(Last(c) + 1)
      /\ Append(old, message)[Last(c) + 1] = message
      /\ \A i \in 1..Last(c) : Append(old, message)[i] = old[i]
  <2> HIDE DEF old
  <2> QED BY <1>1, MessagesAssumption
<1>4. talk'[c] = Append(old, message)
  BY <1>1, <1>2
<1>5. \A i \in Positions(c) : talk[c] = old
  BY <1>1
<1>6. Positions(c)' = 1..(Last(c) + 1)
  BY <1>3, <1>4 DEF Positions
<1>7. \A d \in Conversations \ {c} : Positions(d)' = Positions(d) /\ talk'[d] = talk[d]
  BY <1>1, <1>2 DEF Positions
<1>8. \A d \in Conversations : \A i \in Positions(d) : talk[d][i].id # message.id
  BY DEF Insert, Stored
<1>9. talk' \in [Conversations -> Seq(MessageRow) \cup {Absent}]
  <2> HIDE DEF old
  <2> QED BY <1>1, <1>2, <1>3
<1> QED BY <1>1, <1>3, <1>4, <1>5, <1>6, <1>7, <1>8, <1>9

(* A message that is not an answer, or an answer that stands behind its    *)
(* question, leaves every answer where it belongs.                         *)
LEMMA InsertedAnswers ==
  ASSUME PipelineTypes, IdsUnique, AnswersKnown,
         NEW c \in Conversations, NEW message \in MessageRow, Insert(c, message),
         message.id \in Projections =>
           LET s == message.id[1] IN
             /\ session[s].state # "absent"
             /\ head[s] # Null => Last(c) > 0 /\ talk[c][Last(c)].id = head[s].id,
         UNCHANGED <<session, head>>
  PROVE  IdsUnique' /\ AnswersKnown'
<1>1. /\ Positions(c)' = 1..(Last(c) + 1)
      /\ talk'[c][Last(c) + 1] = message
      /\ \A i \in Positions(c) : talk'[c][i] = talk[c][i]
      /\ \A d \in Conversations \ {c} : Positions(d)' = Positions(d) /\ talk'[d] = talk[d]
      /\ \A d \in Conversations : \A i \in Positions(d) : talk[d][i].id # message.id
  BY Inserted
<1>2. Positions(c) = 1..Last(c) /\ Last(c) \in Nat
  BY PositionsAre
<1>3. IdsUnique'
  <2> SUFFICES ASSUME NEW d \in Conversations, NEW i \in Positions(d)', NEW j \in Positions(d)',
                      talk'[d][i].id = talk'[d][j].id
               PROVE  i = j
    BY DEF IdsUnique
  <2>1. CASE d # c
    BY <1>1, <2>1 DEF IdsUnique
  <2>2. CASE d = c
    <3>1. i \in Positions(c) \/ i = Last(c) + 1
      BY <1>1, <1>2, <2>2
    <3>2. j \in Positions(c) \/ j = Last(c) + 1
      BY <1>1, <1>2, <2>2
    <3> QED BY <1>1, <2>2, <3>1, <3>2 DEF IdsUnique
  <2> QED BY <2>1, <2>2
<1>4. AnswersKnown'
  <2> SUFFICES ASSUME NEW d \in Conversations, NEW i \in Positions(d)',
                      talk'[d][i].id \in Projections
               PROVE  Answers(d, i, talk[d][i].id[1])'
    BY DEF AnswersKnown
  <2>1. CASE d # c
    <3>1. i \in Positions(d) /\ talk'[d] = talk[d]
      BY <1>1, <2>1
    <3> QED BY <3>1 DEF AnswersKnown, Answers
  <2>2. CASE d = c /\ i \in Positions(c)
    <3>1. talk'[c][i] = talk[c][i]
      BY <1>1, <2>2
    <3>2. Answers(c, i, talk[c][i].id[1])
      BY <2>2, <3>1 DEF AnswersKnown
    <3>3. i > 1 => talk'[c][i - 1] = talk[c][i - 1]
      BY <1>1, <1>2, <2>2
    <3> QED BY <2>2, <3>1, <3>2, <3>3 DEF Answers
  <2>3. CASE d = c /\ i = Last(c) + 1
    <3>1. talk'[c][i] = message /\ message.id \in Projections
      BY <1>1, <2>3
    <3>2. Last(c) > 0 => talk'[c][i - 1] = talk[c][Last(c)]
      BY <1>1, <1>2, <2>3
    <3> QED BY <1>2, <2>3, <3>1, <3>2 DEF Answers
  <2> QED BY <1>1, <1>2, <2>1, <2>2, <2>3
<1> QED BY <1>3, <1>4

(* Where nothing is said, and no head changes, answers stay too.           *)
LEMMA QuietAnswers ==
  ASSUME IdsUnique, AnswersKnown, HeadsOfChats, UNCHANGED talk,
         \A s \in Sessions : TaskStays(s),
         \A s \in Sessions : session[s].state # "absent" => head'[s] \in {head[s], Null}
  PROVE  IdsUnique' /\ AnswersKnown'
<1>1. IdsUnique'
  BY DEF IdsUnique, Positions
<1>2. AnswersKnown'
  <2> SUFFICES ASSUME NEW d \in Conversations, NEW i \in Positions(d),
                      talk[d][i].id \in Projections
               PROVE  Answers(d, i, talk[d][i].id[1])'
    BY DEF AnswersKnown, Positions
  <2>1. talk[d][i].id[1] \in Sessions
    BY PipelineAssumption
  <2> QED BY <2>1 DEF AnswersKnown, Answers, TaskStays
<1> QED BY <1>1, <1>2

(* A conversation that is pruned takes its answers with it.                *)
LEMMA PrunedAnswers ==
  ASSUME PipelineTypes, IdsUnique, AnswersKnown, NEW c \in Conversations,
         talk' = [talk EXCEPT ![c] = Absent], UNCHANGED <<session, head>>
  PROVE  IdsUnique' /\ AnswersKnown'
<1>1. Positions(c)' = {}
  BY DEF Positions, PipelineTypes
<1>2. \A d \in Conversations \ {c} : Positions(d)' = Positions(d) /\ talk'[d] = talk[d]
  BY DEF Positions, PipelineTypes
<1> QED BY <1>1, <1>2 DEF IdsUnique, AnswersKnown, Answers

-----------------------------------------------------------------------------
(* What a step leaves of the connections between the two databases.        *)

StoreGrows ==
  /\ receipts \subseteq receipts' /\ pruned \subseteq pruned'
  /\ \A c \in Conversations : c \in pruned' \/
       \A i \in Positions(c) : i \in Positions(c)' /\ talk'[c][i] = talk[c][i]

HeadStays(s) ==
  IF session[s].state = "absent"
  THEN head'[s] # Null => /\ session'[s].state # "absent"
                          /\ session'[s].request.kind = "chat"
  ELSE head'[s] = head[s]

(* A result is marked after it was published.                              *)
MarksPublished(s) ==
  MarkStays(s) \/ /\ session[s].state # "absent"
                  /\ completion'[s].attempt = completion[s].attempt
                  /\ Published(<<s, completion[s].attempt>>, session[s].request)

(* An agent's result is no longer staged when it has a receipt.            *)
StagedOrReceived(s) ==
  StagedStays(s) \/ session[s].request.kind # "agent"
    \/ <<s, completion[s].attempt>> \in receipts

HeldOk(p) == HeldTask(held[p]) /\ HeldResult(held[p])

LEMMA PublishedStays ==
  ASSUME StoreGrows, NEW id, NEW kind, NEW conversation,
         kind = "chat" => conversation \in Conversations,
         kind = "agent" => id \in receipts,
         kind = "chat" => conversation \in pruned \/ StoredIn(conversation, id)
  PROVE  /\ kind = "agent" => id \in receipts'
         /\ kind = "chat" => conversation \in pruned' \/ StoredIn(conversation, id)'
<1>1. CASE kind = "chat" /\ StoredIn(conversation, id) /\ conversation \notin pruned'
  <2>1. PICK i \in Positions(conversation) : talk[conversation][i].id = id
    BY <1>1 DEF StoredIn
  <2>2. i \in Positions(conversation)' /\ talk'[conversation][i].id = id
    BY <1>1, <2>1 DEF StoreGrows
  <2> QED BY <1>1, <2>2 DEF StoredIn
<1> QED BY <1>1 DEF StoreGrows

LEMMA HeldStays ==
  ASSUME IInv, StoreGrows, NEW h \in HeldRow, HeldTask(h), HeldResult(h),
         TaskStays(h.session), HeadStays(h.session), StagedOrReceived(h.session)
  PROVE  HeldTask(h)' /\ HeldResult(h)'
<1>1. h.session \in Sessions /\ h.attempt \in Attempts /\ h.request \in Requests
  BY DEF HeldRow
<1>2. HeldTask(h)'
  BY DEF HeldTask, TaskStays, HeadStays
<1>3. h.request.kind = "agent" =>
        <<h.session, h.attempt>> \in receipts' \/ StagedBy(h.session, h.attempt)'
  BY <1>1 DEF HeldTask, HeldResult, StagedOrReceived, StagedStays, StoreGrows, StagedBy
<1>4. h.request.kind = "chat" => h.request.conversation \in Conversations
  BY <1>1, RequestsNameRows
<1>5. h.result \in {"projected", "marked"} => Published(<<h.session, h.attempt>>, h.request)'
  BY <1>4, PublishedStays DEF HeldResult, Published
<1> QED BY <1>2, <1>3, <1>5 DEF HeldResult

LEMMA MarkedStays ==
  ASSUME IInv, IInv', StoreGrows, MarkedPublished, NEW s \in Sessions,
         TaskStays(s), MarksPublished(s), completion'[s].projected
  PROVE  Published(<<s, completion[s].attempt>>, session[s].request)'
<1>1. /\ Published(<<s, completion[s].attempt>>, session[s].request)
      /\ completion'[s].attempt = completion[s].attempt
  BY DEF MarksPublished, MarkStays, MarkedPublished
<1>2. PICK id : id = <<s, completion[s].attempt>>
  OBVIOUS
<1>3. RowInv(session'[s], attempt'[s], completion'[s])
  BY DEF IInv
<1>4. session'[s].state \notin {"absent", "removed"} /\ session'[s].request \in Requests
  BY <1>3 DEF RowInv, OutboxRows, RequestRows, NoCompletion
<1>5. session[s].state # "absent"
  <2>1. RowInv(session[s], attempt[s], completion[s])
    BY DEF IInv
  <2> QED BY <2>1 DEF RowInv, OutboxRows, NoCompletion, MarksPublished, MarkStays
<1>6. /\ session'[s].request.kind = session[s].request.kind
      /\ session'[s].request.conversation = session[s].request.conversation
  BY <1>5 DEF TaskStays
<1>7. session'[s].request.kind = "chat" => session'[s].request.conversation \in Conversations
  BY <1>4, RequestsNameRows
<1>8. /\ session'[s].request.kind = "agent" => id \in receipts'
      /\ session'[s].request.kind = "chat" =>
           \/ session'[s].request.conversation \in pruned'
           \/ StoredIn(session[s].request.conversation, id)'
  <2>1. PICK kind, conversation : /\ kind = session[s].request.kind
                                  /\ conversation = session[s].request.conversation
    OBVIOUS
  <2>2. /\ kind = "chat" => conversation \in Conversations
        /\ kind = "agent" => id \in receipts
        /\ kind = "chat" => conversation \in pruned \/ StoredIn(conversation, id)
    BY <1>1, <1>2, <1>6, <1>7, <2>1 DEF Published
  <2>3. /\ kind = "agent" => id \in receipts'
        /\ kind = "chat" => conversation \in pruned' \/ StoredIn(conversation, id)'
    BY <2>2, PublishedStays
  <2> QED BY <1>6, <2>1, <2>3 DEF StoredIn, Positions
<1> QED BY <1>1, <1>2, <1>8 DEF Published, StoredIn, Positions

LEMMA Connected ==
  ASSUME PInv, IInv', PipelineTypes', IdsUnique', AnswersKnown', ReceiptsOfAttempts',
         StoreGrows,
         \A s \in Sessions : /\ TaskStays(s) /\ HeadStays(s)
                             /\ MarksPublished(s) /\ StagedOrReceived(s),
         \A p \in Processes : held'[p] \in {Null, held[p]} \/ HeldOk(p)'
  PROVE  PInv'
<1>1. HeadsOfChats'
  BY DEF PInv, HeadsOfChats, HeadStays, TaskStays
<1>2. HeldOfSessions'
  <2> SUFFICES ASSUME NEW p \in Processes, held'[p] # Null PROVE HeldOk(p)'
    BY DEF HeldOfSessions, HeldOk
  <2>1. CASE held'[p] = held[p]
    <3>1. PICK h : h = held[p]
      OBVIOUS
    <3>2. h \in HeldRow /\ HeldTask(h) /\ HeldResult(h)
      BY <2>1, <3>1, HeldRows DEF PInv, HeldOfSessions
    <3>3. h.session \in Sessions
      BY <3>2 DEF HeldRow
    <3>4. HeldTask(h)' /\ HeldResult(h)'
      BY <3>2, <3>3, HeldStays DEF PInv
    <3> QED BY <2>1, <3>1, <3>4 DEF HeldOk, HeldTask, HeldResult, Published, StoredIn,
               Positions, StagedBy
  <2> QED BY <2>1
<1>3. MarkedPublished'
  <2> SUFFICES ASSUME NEW s \in Sessions, completion'[s].projected
               PROVE  Published(<<s, completion[s].attempt>>, session[s].request)'
    BY DEF MarkedPublished
  <2> QED BY MarkedStays DEF PInv
<1> QED BY <1>1, <1>2, <1>3 DEF PInv

(* A step of the scheduler's database alone, or of a projector's memory.   *)
LEMMA StoreStepInv ==
  ASSUME PInv, IInv', UNCHANGED <<executionVars, head, pruned>>,
         \A s \in Sessions : TaskStays(s) /\ MarksPublished(s) /\ StagedOrReceived(s),
         held' \in [Processes -> HeldRow \cup {Null}],
         \A p \in Processes : held'[p] \in {Null, held[p]} \/ HeldOk(p)'
  PROVE  PInv'
<1>0. UNCHANGED <<run, step, talk, receipts, head, pruned>>
  BY DEF executionVars
<1>1. PipelineTypes'
  BY <1>0 DEF PInv, PipelineTypes
<1>2. IdsUnique' /\ AnswersKnown'
  BY <1>0, QuietAnswers DEF PInv
<1>3. ReceiptsOfAttempts'
  <2>1. \A id \in receipts : id[1] \in Sessions /\ id[2] \in Nat
    BY PipelineAssumption, BoundsAssumption DEF PInv, PipelineTypes, Attempts
  <2>2. \A s \in Sessions : session[s].attempts \in Nat /\ session'[s].attempts \in Nat
    BY RowFacts DEF PInv, IInv
  <2> QED BY <1>0, <2>1, <2>2 DEF PInv, ReceiptsOfAttempts, TaskStays
<1>4. StoreGrows
  BY <1>0 DEF StoreGrows, Positions
<1>5. \A s \in Sessions : HeadStays(s)
  BY <1>0 DEF HeadStays, PInv, HeadsOfChats
<1> QED BY <1>1, <1>2, <1>3, <1>4, <1>5, Connected

LEMMA StaysIs ==
  ASSUME NEW s \in Sessions, Stays(s)
  PROVE  TaskStays(s) /\ MarksPublished(s) /\ StagedOrReceived(s)
BY DEF Stays, MarksPublished, StagedOrReceived

LEMMA SubmitInv ==
  ASSUME PInv, IInv', NEW s \in Sessions, NEW r \in Requests, Submit(s, r)
  PROVE  PInv'
<1>0. UNCHANGED <<run, step, talk, receipts, held, pruned>>
  BY DEF Submit, executionVars
<1>1. ASSUME NEW t \in Sessions PROVE Stays(t)
  <2>1. CASE Enqueue(s, r)
    BY <2>1, EnqueueStays DEF PInv
  <2>2. CASE ContinueInterrupted(s, r) /\ {r.kind, session[s].request.kind} = {"agent"}
    BY <2>2, RequeueStays DEF PInv
  <2> QED BY <2>1, <2>2 DEF Submit
<1>2. session \in [Sessions -> SessionRow] /\ head \in [Sessions -> Heads \cup {Null}]
  BY DEF PInv, IInv, PipelineTypes
<1>3. r.kind = "chat" => Enqueue(s, r) /\ HeadOf(r.conversation) \in Heads
  <2> SUFFICES ASSUME r.kind = "chat" PROVE Enqueue(s, r) /\ HeadOf(r.conversation) \in Heads
    OBVIOUS
  <2> DEFINE c == r.conversation
  <2>1. c \in Conversations /\ HeadOf(c) # Absent
    BY RequestsNameRows DEF Submit
  <2>2. /\ talk[c] \in Seq(MessageRow) /\ talk[c] # <<>>
        /\ HeadOf(c) = [sequence |-> Len(talk[c]), id |-> talk[c][Len(talk[c])].id]
    BY <2>1, PositionsAre DEF HeadOf, PInv
  <2>3. Len(talk[c]) \in 1..Len(talk[c]) /\ talk[c][Len(talk[c])] \in MessageRow
    BY <2>2
  <2>4. HeadOf(c) \in Heads
    BY <2>2, <2>3 DEF MessageRow, Heads
  <2> QED BY <2>4 DEF Submit
<1>4. PipelineTypes'
  <2>1. head' \in [Sessions -> Heads \cup {Null}]
    BY <1>2, <1>3 DEF Submit
  <2> QED BY <1>0, <2>1 DEF PInv, PipelineTypes
<1>5. ASSUME NEW t \in Sessions PROVE HeadStays(t)
  <2>1. CASE t # s
    BY <1>0, <1>2, <2>1 DEF Submit, HeadStays, PInv, HeadsOfChats
  <2>2. CASE t = s /\ Enqueue(s, r)
    BY <1>2, <2>2 DEF Submit, HeadStays, Enqueue, NoSession
  <2>3. CASE t = s /\ ContinueInterrupted(s, r) /\ {r.kind, session[s].request.kind} = {"agent"}
    BY <1>2, <2>3 DEF Submit, HeadStays, ContinueInterrupted, PInv, HeadsOfChats
  <2> QED BY <2>1, <2>2, <2>3 DEF Submit
<1>6. StoreGrows
  BY <1>0 DEF StoreGrows, Positions
<1>7. \A t \in Sessions : TaskStays(t) /\ MarksPublished(t) /\ StagedOrReceived(t)
  BY <1>1, StaysIs
<1>8. IdsUnique' /\ AnswersKnown'
  BY <1>0, <1>5, <1>7, QuietAnswers DEF PInv, HeadStays
<1>9. ReceiptsOfAttempts'
  <2>1. \A id \in receipts : id[1] \in Sessions /\ id[2] \in Nat
    BY PipelineAssumption, BoundsAssumption DEF PInv, PipelineTypes, Attempts
  <2>2. \A t \in Sessions : session[t].attempts \in Nat /\ session'[t].attempts \in Nat
    BY RowFacts DEF PInv, IInv
  <2> QED BY <1>0, <1>7, <2>1, <2>2 DEF PInv, ReceiptsOfAttempts, TaskStays
<1> QED BY <1>0, <1>4, <1>5, <1>6, <1>7, <1>8, <1>9, Connected

LEMMA SchedulerStepInv ==
  ASSUME PInv, IInv', SchedulerStep
  PROVE  PInv'
<1>1. /\ UNCHANGED <<executionVars, head, pruned>> /\ held' = held
  BY DEF SchedulerStep, pipelineVars
<1>2. \A s \in Sessions : TaskStays(s) /\ MarksPublished(s) /\ StagedOrReceived(s)
  BY SchedulerStays, StaysIs DEF PInv
<1>3. held' \in [Processes -> HeldRow \cup {Null}]
  BY <1>1 DEF PInv, PipelineTypes
<1> QED BY <1>1, <1>2, <1>3, StoreStepInv

-----------------------------------------------------------------------------
(* Projectors *)

(* A session whose result is marked may be finalized by anyone.            *)
LEMMA MarkedReceived ==
  ASSUME PInv, NEW s \in Sessions, completion[s].projected
  PROVE  session[s].request.kind # "agent" \/ <<s, completion[s].attempt>> \in receipts
BY DEF PInv, MarkedPublished, Published

LEMMA FinalizeStays ==
  ASSUME PInv, NEW s \in Sessions, NEW n \in Attempts, FinalizeCompletion(s, n),
         NEW t \in Sessions
  PROVE  TaskStays(t) /\ MarksPublished(t) /\ StagedOrReceived(t)
<1>1. OutboxNext(s, n)
  BY DEF OutboxNext
<1>2. CASE t # s
  BY <1>1, <1>2, OutboxStays, StaysIs DEF PInv
<1>3. CASE t = s
  <2>1. TaskStays(t) /\ MarkStays(t)
    BY <1>1, OutboxStays DEF PInv
  <2>2. completion[s].projected
    BY DEF FinalizeCompletion
  <2> QED BY <1>3, <2>1, <2>2, MarkedReceived DEF MarksPublished, StagedOrReceived
<1> QED BY <1>2, <1>3

LEMMA FinalizeFoundInv ==
  ASSUME PInv, IInv', NEW p \in Processes, FinalizeFound(p)
  PROVE  PInv'
<1>1. PICK s \in Sessions : FinalizeCompletion(s, completion[s].attempt)
  BY DEF FinalizeFound, Projected
<1>2. \A t \in Sessions : TaskStays(t) /\ MarksPublished(t) /\ StagedOrReceived(t)
  BY <1>1, FoundIsAttempt, FinalizeStays DEF PInv
<1>3. UNCHANGED <<executionVars, head, pruned>> /\ held' = held
  BY DEF FinalizeFound, pipelineVars
<1>4. held' \in [Processes -> HeldRow \cup {Null}]
  BY <1>3 DEF PInv, PipelineTypes
<1> QED BY <1>2, <1>3, <1>4, StoreStepInv

LEMMA SameSchedulerStays ==
  ASSUME IInv, UNCHANGED schedulerVars
  PROVE  \A s \in Sessions : TaskStays(s) /\ MarksPublished(s) /\ StagedOrReceived(s)
BY SameStays, StaysIs DEF schedulerVars

LEMMA TakeInv ==
  ASSUME PInv, IInv', NEW p \in Processes, NEW s \in Sessions, Take(p, s)
  PROVE  PInv'
<1>0. PICK h : h = [session |-> s, attempt |-> completion[s].attempt,
                    request |-> session[s].request, head |-> head[s],
                    terminal |-> completion[s].terminal, result |-> "pending"]
  OBVIOUS
<1>1. /\ completion[s] \in CompletionRow /\ completion[s].attempt # 0
      /\ ~completion[s].finalized /\ RowInv(session[s], attempt[s], completion[s])
  BY DEF Take, Due, PInv, IInv
<1>2. session[s].state = "committing" /\ session[s].request \in Requests
  BY <1>1 DEF RowInv, OutboxRows, RequestRows
<1>3. completion[s].attempt \in Attempts
  BY <1>1, BoundsAssumption DEF CompletionRow, AttemptNumbers, Attempts
<1>4. StagedBy(s, completion[s].attempt)
  <2>1. /\ completion[s].attempt = session[s].active
        /\ completion[s].token = session[s].token
        /\ attempt[s][session[s].active].state = "committing"
        /\ session[s].token = session[s].attempts
    BY <1>1, <1>2, <1>3, BoundsAssumption
       DEF RowInv, OutboxRows, AssignmentRows, Numbered, Attempts, Active
  <2>2. attempt[s][session[s].active].token = completion[s].token
    BY <1>1, <1>2, <1>3, <2>1, BoundsAssumption
       DEF RowInv, Numbered, AssignmentRows, Active, Attempts
  <2> QED BY <1>1, <2>1, <2>2 DEF StagedBy
<1>5. h \in HeldRow
  BY <1>0, <1>1, <1>2, <1>3 DEF HeldRow, CompletionRow, PInv, PipelineTypes
<1>6. UNCHANGED <<session, attempt, completion, executionVars, head, pruned>>
  BY DEF Take, schedulerVars
<1>7. held' = [held EXCEPT ![p] = h] /\ held \in [Processes -> HeldRow \cup {Null}]
  BY <1>0 DEF Take, PInv, PipelineTypes
<1>8. HeldTask(h)' /\ HeldResult(h)'
  BY <1>0, <1>2, <1>4, <1>6 DEF HeldTask, HeldResult, StagedBy
<1>9. HeldOk(p)'
  BY <1>7, <1>8 DEF HeldOk, HeldTask, HeldResult, StagedBy, Published, StoredIn, Positions
<1>10. \A q \in Processes : held'[q] \in {Null, held[q]} \/ HeldOk(q)'
  BY <1>7, <1>9
<1>11. held' \in [Processes -> HeldRow \cup {Null}]
  BY <1>5, <1>7
<1> QED BY <1>6, <1>10, <1>11, SameSchedulerStays, StoreStepInv DEF Take, PInv

(* A projector that lets go of what it holds.                              *)
LEMMA LetGo ==
  ASSUME PInv, NEW p \in Processes, held' = [held EXCEPT ![p] = Null]
  PROVE  /\ held' \in [Processes -> HeldRow \cup {Null}]
         /\ \A q \in Processes : held'[q] \in {Null, held[q]}
BY DEF PInv, PipelineTypes

LEMMA LetGoInv ==
  ASSUME PInv, IInv', NEW p \in Processes,
         Forget(p) \/ FinalizeMarked(p) \/ RecordRetry(p) \/ RejectProjection(p)
  PROVE  PInv'
<1>1. PICK h : h = held[p]
  OBVIOUS
<1>2. h \in HeldRow /\ HeldTask(h) /\ HeldResult(h)
  BY <1>1, HeldRows DEF Forget, FinalizeMarked, RecordRetry, RejectProjection, Holds,
                        PInv, HeldOfSessions
<1>3. h.session \in Sessions /\ h.attempt \in Attempts
  BY <1>2 DEF HeldRow
<1>4. \A s \in Sessions : TaskStays(s) /\ MarksPublished(s) /\ StagedOrReceived(s)
  <2>1. CASE Forget(p)
    BY <2>1, SameSchedulerStays DEF Forget, PInv
  <2>2. CASE FinalizeMarked(p)
    BY <1>1, <1>3, <2>2, FinalizeStays DEF FinalizeMarked
  <2>3. CASE RecordRetry(p)
    BY <1>1, <1>3, <2>3, OutboxStays, StaysIs DEF RecordRetry, OutboxNext, PInv
  <2>4. CASE RejectProjection(p)
    <3> SUFFICES ASSUME NEW s \in Sessions
                 PROVE  TaskStays(s) /\ MarksPublished(s) /\ StagedOrReceived(s)
      OBVIOUS
    <3>1. /\ TaskStays(s) /\ MarkStays(s)
          /\ s # h.session => Stays(s)
      BY <1>1, <1>3, <2>4, OutboxStays DEF RejectProjection, OutboxNext, PInv
    <3>2. session[h.session].request.kind = "chat"
      BY <1>1, <1>2, <2>4 DEF RejectProjection, Holds, HeldResult, HeldTask
    <3> QED BY <3>1, <3>2 DEF MarksPublished, StagedOrReceived, Stays
  <2> QED BY <2>1, <2>2, <2>3, <2>4
<1>5. UNCHANGED <<executionVars, head, pruned>> /\ held' = [held EXCEPT ![p] = Null]
  BY DEF Forget, FinalizeMarked, RecordRetry, RejectProjection
<1> QED BY <1>4, <1>5, LetGo, StoreStepInv

(* A projector that reports how the projection of h ended.                 *)
LEMMA ReportedRows ==
  ASSUME PInv, NEW p \in Processes, NEW h, h = held[p], h # Null,
         NEW result \in {"projected", "retryable", "rejected", "marked"},
         Reported(p, result)
  PROVE  /\ held' \in [Processes -> HeldRow \cup {Null}]
         /\ \A q \in Processes : q # p => held'[q] = held[q]
         /\ held'[p].session = h.session /\ held'[p].attempt = h.attempt
         /\ held'[p].request = h.request /\ held'[p].head = h.head
         /\ held'[p].result = result
<1>1. held \in [Processes -> HeldRow \cup {Null}] /\ h \in HeldRow
  BY DEF PInv, PipelineTypes
<1>2. held' = [held EXCEPT ![p] = [h EXCEPT !.result = result]]
  BY DEF Reported
<1>3. [h EXCEPT !.result = result] \in HeldRow
  BY <1>1 DEF HeldRow
<1> QED BY <1>1, <1>2, <1>3 DEF HeldRow

LEMMA ReportedOk ==
  ASSUME PInv, NEW p \in Processes, NEW h, h = held[p], h # Null,
         NEW result \in {"projected", "retryable", "rejected", "marked"},
         Reported(p, result), StoreGrows, UNCHANGED head,
         TaskStays(h.session), StagedOrReceived(h.session),
         result = "rejected" => h.request.kind = "chat",
         result \in {"projected", "marked"} =>
           Published(<<h.session, h.attempt>>, h.request)'
  PROVE  /\ held' \in [Processes -> HeldRow \cup {Null}]
         /\ \A q \in Processes : held'[q] \in {Null, held[q]} \/ HeldOk(q)'
<1>1. /\ held' \in [Processes -> HeldRow \cup {Null}]
      /\ \A q \in Processes : q # p => held'[q] = held[q]
      /\ held'[p].session = h.session /\ held'[p].attempt = h.attempt
      /\ held'[p].request = h.request /\ held'[p].head = h.head
      /\ held'[p].result = result
  BY ReportedRows
<1>2. h \in HeldRow /\ HeldTask(h) /\ HeldResult(h)
  BY HeldRows DEF PInv, HeldOfSessions
<1>3. h.session \in Sessions /\ HeadStays(h.session)
  BY <1>2 DEF HeldRow, HeldTask, HeadStays
<1>4. HeldTask(h)' /\ HeldResult(h)'
  BY <1>2, <1>3, HeldStays DEF PInv
<1>5. HeldOk(p)'
  BY <1>1, <1>4 DEF HeldOk, HeldTask, HeldResult, Published, StoredIn, Positions, StagedBy
<1> QED BY <1>1, <1>5

LEMMA MarkInv ==
  ASSUME PInv, IInv', NEW p \in Processes, MarkProjected(p)
  PROVE  PInv'
<1>1. PICK h : h = held[p] /\ h # Null /\ h.result = "projected"
  BY DEF MarkProjected, Holds
<1>2. h \in HeldRow /\ HeldTask(h) /\ HeldResult(h)
  BY <1>1, HeldRows DEF PInv, HeldOfSessions
<1>3. h.session \in Sessions /\ h.attempt \in Attempts
  BY <1>2 DEF HeldRow
<1>4. MarkCompletionProjected(h.session, h.attempt) /\ OutboxNext(h.session, h.attempt)
  BY <1>1 DEF MarkProjected, OutboxNext
<1>5. completion[h.session].attempt = h.attempt
  BY <1>4 DEF MarkCompletionProjected, StagedBy
<1>6. \A s \in Sessions : TaskStays(s) /\ MarksPublished(s) /\ StagedOrReceived(s)
  <2> SUFFICES ASSUME NEW s \in Sessions
               PROVE  TaskStays(s) /\ MarksPublished(s) /\ StagedOrReceived(s)
    OBVIOUS
  <2>1. /\ TaskStays(s) /\ StagedStays(s)
        /\ s # h.session => Stays(s)
        /\ completion'[s].attempt = completion[s].attempt
    BY <1>3, <1>4, OutboxStays DEF PInv
  <2>2. Published(<<h.session, h.attempt>>, session[h.session].request)
    BY <1>1, <1>2 DEF HeldTask, HeldResult, Published
  <2>3. ASSUME s = h.session PROVE MarksPublished(s)
    BY <1>2, <1>5, <2>1, <2>2, <2>3 DEF MarksPublished, HeldTask
  <2> QED BY <2>1, <2>3 DEF MarksPublished, StagedOrReceived, Stays
<1>7. UNCHANGED <<executionVars, head, pruned>> /\ Reported(p, "marked")
  BY DEF MarkProjected
<1>8. UNCHANGED <<run, step, talk, receipts, head, pruned>>
  BY <1>7 DEF executionVars
<1>9. StoreGrows /\ Published(<<h.session, h.attempt>>, h.request)'
  BY <1>1, <1>2, <1>8 DEF StoreGrows, Positions, HeldResult, Published, StoredIn
<1>10. /\ held' \in [Processes -> HeldRow \cup {Null}]
       /\ \A q \in Processes : held'[q] \in {Null, held[q]} \/ HeldOk(q)'
  BY <1>1, <1>3, <1>6, <1>7, <1>9, ReportedOk
<1> QED BY <1>6, <1>7, <1>10, StoreStepInv

LEMMA ProjectFailsInv ==
  ASSUME PInv, IInv', NEW p \in Processes, ProjectFails(p)
  PROVE  PInv'
<1>1. PICK h : h = held[p] /\ h # Null
  BY DEF ProjectFails, Holds
<1>2. h.session \in Sessions
  BY <1>1, HeldRows DEF HeldRow, PInv
<1>3. \A s \in Sessions : TaskStays(s) /\ MarksPublished(s) /\ StagedOrReceived(s)
  BY SameSchedulerStays DEF ProjectFails, PInv
<1>4. UNCHANGED <<executionVars, head, pruned>> /\ Reported(p, "retryable")
  BY DEF ProjectFails
<1>5. StoreGrows
  BY <1>4 DEF StoreGrows, Positions, executionVars
<1>6. /\ held' \in [Processes -> HeldRow \cup {Null}]
      /\ \A q \in Processes : held'[q] \in {Null, held[q]} \/ HeldOk(q)'
  BY <1>1, <1>2, <1>3, <1>4, <1>5, ReportedOk
<1> QED BY <1>3, <1>4, <1>6, StoreStepInv

(* A step of the execution store alone.                                    *)
LEMMA ExecutionStepInv ==
  ASSUME PInv, IInv', UNCHANGED <<schedulerVars, head>>,
         step' \in [Runs -> StepRow],
         talk' \in [Conversations -> Seq(MessageRow) \cup {Absent}],
         receipts' \subseteq Projections,
         IdsUnique', AnswersKnown', ReceiptsOfAttempts', StoreGrows,
         held' \in [Processes -> HeldRow \cup {Null}],
         \A p \in Processes : held'[p] \in {Null, held[p]} \/ HeldOk(p)'
  PROVE  PInv'
<1>1. PipelineTypes'
  BY DEF PInv, PipelineTypes
<1>2. \A s \in Sessions : TaskStays(s) /\ MarksPublished(s) /\ StagedOrReceived(s)
  BY SameSchedulerStays DEF PInv
<1>3. \A s \in Sessions : HeadStays(s)
  BY DEF HeadStays, PInv, HeadsOfChats
<1> QED BY <1>1, <1>2, <1>3, Connected

LEMMA InsertGrows ==
  ASSUME PipelineTypes, NEW c \in Conversations, NEW message \in MessageRow,
         Insert(c, message), receipts \subseteq receipts', UNCHANGED pruned
  PROVE  /\ StoreGrows
         /\ StoredIn(c, message.id)'
<1>1. /\ Positions(c)' = 1..(Last(c) + 1)
      /\ talk'[c][Last(c) + 1] = message
      /\ \A i \in Positions(c) : talk'[c][i] = talk[c][i]
      /\ \A d \in Conversations \ {c} : Positions(d)' = Positions(d) /\ talk'[d] = talk[d]
  BY Inserted
<1>2. Positions(c) = 1..Last(c) /\ Last(c) \in Nat
  BY PositionsAre
<1>3. StoreGrows
  BY <1>1, <1>2 DEF StoreGrows
<1>4. Last(c) + 1 \in Positions(c)' /\ talk'[c][Last(c) + 1].id = message.id
  BY <1>1, <1>2
<1> QED BY <1>3, <1>4 DEF StoredIn

LEMMA SameAnswers ==
  ASSUME PInv, UNCHANGED <<talk, session, head>>
  PROVE  IdsUnique' /\ AnswersKnown'
BY DEF PInv, IdsUnique, AnswersKnown, Answers, Positions

(* An agent's result: a message at the end, the step, a receipt.           *)
LEMMA NewAgent ==
  ASSUME PInv, UNCHANGED <<schedulerVars, head, pruned>>,
         NEW h \in HeldRow, HeldTask(h), HeldResult(h), h.request.kind = "agent",
         ProjectNewAgent(<<h.session, h.attempt>>, h.request.run, h.request.conversation,
                         h.terminal)
  PROVE  /\ step' \in [Runs -> StepRow]
         /\ talk' \in [Conversations -> Seq(MessageRow) \cup {Absent}]
         /\ receipts' \subseteq Projections /\ <<h.session, h.attempt>> \in receipts'
         /\ IdsUnique' /\ AnswersKnown' /\ ReceiptsOfAttempts' /\ StoreGrows
<1> DEFINE id == <<h.session, h.attempt>>
           c == h.request.conversation
           message == [id |-> id, role |-> "agent", backend |-> TRUE]
           row == [status |-> IF h.terminal = "succeeded" THEN "completed" ELSE "blocked",
                   owned |-> FALSE, result |-> id]
<1>1. /\ h.session \in Sessions /\ h.attempt \in Attempts
      /\ id \in Projections /\ message \in MessageRow /\ row \in StepRow
  BY PipelineAssumption DEF HeldRow, MessageRow, StepRow, StepStatuses, FinalStatuses
<1>2. /\ id \notin receipts /\ receipts' = receipts \cup {id}
      /\ step' = [step EXCEPT ![h.request.run] = row]
      /\ Insert(c, message)
  BY DEF ProjectNewAgent
<1>3. /\ step \in [Runs -> StepRow] /\ receipts \subseteq Projections
      /\ talk \in [Conversations -> Seq(MessageRow) \cup {Absent}]
  BY DEF PInv, PipelineTypes
<1>4. /\ session[h.session].state # "absent" /\ head[h.session] = Null
  BY <1>1 DEF HeldTask, PInv, HeadsOfChats
<1>5. /\ step' \in [Runs -> StepRow]
      /\ \A r \in Runs : step'[r] = step[r] \/ step'[r].result = id
  <2> HIDE DEF row
  <2>1. row.result = id
    BY DEF row
  <2> QED BY <1>1, <1>2, <1>3, <2>1
<1>6. /\ talk' \in [Conversations -> Seq(MessageRow) \cup {Absent}]
      /\ IdsUnique' /\ AnswersKnown' /\ StoreGrows
  <2>1. CASE c \in Conversations
    <3>1. talk' \in [Conversations -> Seq(MessageRow) \cup {Absent}]
      BY <1>1, <1>2, <2>1, Inserted DEF PInv
    <3>2. message.id = id /\ id[1] = h.session
      OBVIOUS
    <3> HIDE DEF message
    <3>3. IdsUnique' /\ AnswersKnown'
      BY <1>1, <1>2, <1>4, <2>1, <3>2, InsertedAnswers DEF PInv, schedulerVars
    <3>4. StoreGrows
      BY <1>1, <1>2, <2>1, InsertGrows DEF PInv
    <3> QED BY <3>1, <3>3, <3>4
  <2>2. CASE c \notin Conversations
    <3>1. talk' = talk
      BY <1>2, <1>3, <2>2 DEF Insert
    <3>2. IdsUnique' /\ AnswersKnown'
      BY <3>1, SameAnswers DEF schedulerVars
    <3>3. StoreGrows
      BY <1>2, <3>1 DEF StoreGrows, Positions
    <3> QED BY <1>3, <3>1, <3>2, <3>3
  <2> QED BY <2>1, <2>2
<1>7. h.attempt <= session[h.session].attempts
  <2>1. StagedBy(h.session, h.attempt)
    BY <1>2 DEF HeldResult
  <2>2. RowInv(session[h.session], attempt[h.session], completion[h.session])
    BY <1>1 DEF PInv, IInv
  <2> QED BY <1>1, <2>1, <2>2 DEF RowInv, Numbered, StagedBy
<1>8. ReceiptsOfAttempts'
  BY <1>1, <1>2, <1>5, <1>7 DEF PInv, ReceiptsOfAttempts, schedulerVars
<1> QED BY <1>1, <1>2, <1>3, <1>5, <1>6, <1>8

(* A chat's answer: a message directly behind the head.                    *)
LEMMA NewAnswer ==
  ASSUME PInv, UNCHANGED <<schedulerVars, head, pruned, run, step, receipts>>,
         NEW h \in HeldRow, HeldTask(h), h.request.kind = "chat",
         IsSnapshot(h.request.conversation, h.head),
         Insert(h.request.conversation,
                [id |-> <<h.session, h.attempt>>, role |-> "agent", backend |-> TRUE])
  PROVE  /\ talk' \in [Conversations -> Seq(MessageRow) \cup {Absent}]
         /\ IdsUnique' /\ AnswersKnown' /\ StoreGrows
         /\ StoredIn(h.request.conversation, <<h.session, h.attempt>>)'
<1> DEFINE id == <<h.session, h.attempt>>
           c == h.request.conversation
           message == [id |-> id, role |-> "agent", backend |-> TRUE]
<1>1. /\ h.session \in Sessions /\ id \in Projections /\ message \in MessageRow
      /\ message.id = id /\ id[1] = h.session
      /\ c \in Conversations
  BY PipelineAssumption, RequestsNameRows DEF HeldRow, MessageRow
<1>2. session[h.session].state # "absent" /\ head[h.session] = h.head
  BY DEF HeldTask
<1>3. Last(c) > 0 /\ talk[c][Last(c)].id = h.head.id
  <2>1. HeadOf(c) = h.head /\ h.head # Absent
    BY DEF IsSnapshot
  <2>2. /\ talk[c] # Absent /\ talk[c] # <<>>
        /\ h.head = [sequence |-> Len(talk[c]), id |-> talk[c][Len(talk[c])].id]
    BY <2>1 DEF HeadOf
  <2>3. talk[c] \in Seq(MessageRow) /\ Last(c) = Len(talk[c])
    BY <1>1, <2>2, PositionsAre DEF PInv, Last
  <2> QED BY <2>2, <2>3
<1>4. Insert(c, message)
  OBVIOUS
<1> HIDE DEF message, id, c
<1>5. talk' \in [Conversations -> Seq(MessageRow) \cup {Absent}]
  BY <1>1, <1>4, Inserted DEF PInv
<1>6. IdsUnique' /\ AnswersKnown'
  BY <1>1, <1>2, <1>3, <1>4, InsertedAnswers DEF PInv, schedulerVars
<1>7. StoreGrows /\ StoredIn(c, id)'
  BY <1>1, <1>4, InsertGrows DEF PInv
<1> QED BY <1>5, <1>6, <1>7 DEF c, id

LEMMA ProjectInv ==
  ASSUME PInv, IInv', NEW p \in Processes,
         NEW result \in {"projected", "retryable", "rejected"}, Project(p, result)
  PROVE  PInv'
<1>1. PICK h : h = held[p] /\ h # Null /\ h.result = "pending"
  BY DEF Project, Holds
<1>2. h \in HeldRow /\ HeldTask(h) /\ HeldResult(h)
  BY <1>1, HeldRows DEF PInv, HeldOfSessions
<1>3. /\ UNCHANGED <<schedulerVars, head, pruned>> /\ Reported(p, result)
      /\ h.session \in Sessions
  BY <1>2 DEF Project, HeldRow
<1>4. TaskStays(h.session) /\ StagedOrReceived(h.session)
  BY <1>3, SameSchedulerStays DEF PInv
<1>5. /\ step \in [Runs -> StepRow] /\ receipts \subseteq Projections
      /\ talk \in [Conversations -> Seq(MessageRow) \cup {Absent}]
  BY DEF PInv, PipelineTypes
<1>6. ASSUME step' \in [Runs -> StepRow],
             talk' \in [Conversations -> Seq(MessageRow) \cup {Absent}],
             receipts' \subseteq Projections,
             IdsUnique', AnswersKnown', ReceiptsOfAttempts', StoreGrows,
             result = "rejected" => h.request.kind = "chat",
             result = "projected" => Published(<<h.session, h.attempt>>, h.request)'
      PROVE  PInv'
  <2>1. result \in {"projected", "marked"} =>
          Published(<<h.session, h.attempt>>, h.request)'
    BY <1>6
  <2>2. /\ held' \in [Processes -> HeldRow \cup {Null}]
        /\ \A q \in Processes : held'[q] \in {Null, held[q]} \/ HeldOk(q)'
    BY <1>1, <1>3, <1>4, <1>6, <2>1, ReportedOk
  <2> QED BY <1>3, <1>6, <2>2, ExecutionStepInv
<1>7. ASSUME Keep,
             result = "rejected" => h.request.kind = "chat",
             result = "projected" => Published(<<h.session, h.attempt>>, h.request)
      PROVE  PInv'
  <2>1. UNCHANGED <<run, step, talk, receipts>>
    BY <1>7 DEF Keep, executionVars
  <2>2. IdsUnique' /\ AnswersKnown'
    BY <1>3, <2>1, SameAnswers DEF schedulerVars
  <2>3. ReceiptsOfAttempts' /\ StoreGrows
    BY <1>3, <2>1 DEF PInv, ReceiptsOfAttempts, StoreGrows, Positions, schedulerVars
  <2>4. result = "projected" => Published(<<h.session, h.attempt>>, h.request)'
    BY <1>3, <1>7, <2>1 DEF Published, StoredIn, Positions
  <2> QED BY <1>5, <1>6, <1>7, <2>1, <2>2, <2>3, <2>4
<1>8. CASE h.request.kind = "agent" /\
             ProjectAgent(<<h.session, h.attempt>>, h.request.run, h.request.conversation,
                          h.terminal, result)
  <2>1. CASE result = "projected" /\ <<h.session, h.attempt>> \in receipts /\ Keep
    BY <1>7, <1>8, <2>1 DEF Published
  <2>2. CASE result = "projected" /\
              ProjectNewAgent(<<h.session, h.attempt>>, h.request.run,
                              h.request.conversation, h.terminal)
    <3>1. /\ step' \in [Runs -> StepRow]
          /\ talk' \in [Conversations -> Seq(MessageRow) \cup {Absent}]
          /\ receipts' \subseteq Projections /\ <<h.session, h.attempt>> \in receipts'
          /\ IdsUnique' /\ AnswersKnown' /\ ReceiptsOfAttempts' /\ StoreGrows
      BY <1>2, <1>3, <1>8, <2>2, NewAgent
    <3>2. Published(<<h.session, h.attempt>>, h.request)'
      BY <1>8, <3>1 DEF Published
    <3> QED BY <1>6, <2>2, <3>1, <3>2
  <2>3. CASE result = "retryable" /\ Keep
    BY <1>7, <2>3
  <2> QED BY <1>8, <2>1, <2>2, <2>3 DEF ProjectAgent
<1>9. CASE h.request.kind = "chat" /\
             ProjectChat(<<h.session, h.attempt>>, h.request.conversation, h.head, result)
  <2>1. CASE /\ result = "projected" /\ Keep
             /\ ChatStored(<<h.session, h.attempt>>, h.request.conversation, h.head)
    <3>1. Published(<<h.session, h.attempt>>, h.request)
      BY <1>9, <2>1 DEF ChatStored, Published, StoredIn
    <3> QED BY <1>7, <2>1, <3>1
  <2>2. CASE /\ result = "projected" /\ IsSnapshot(h.request.conversation, h.head)
             /\ Insert(h.request.conversation, [id |-> <<h.session, h.attempt>>,
                                                role |-> "agent", backend |-> TRUE])
             /\ UNCHANGED <<run, step, receipts>>
    <3>1. /\ talk' \in [Conversations -> Seq(MessageRow) \cup {Absent}]
          /\ IdsUnique' /\ AnswersKnown' /\ StoreGrows
          /\ StoredIn(h.request.conversation, <<h.session, h.attempt>>)'
      BY <1>2, <1>3, <1>9, <2>2, NewAnswer
    <3>2. Published(<<h.session, h.attempt>>, h.request)'
      BY <1>9, <3>1 DEF Published
    <3>3. ReceiptsOfAttempts'
      BY <1>3, <2>2 DEF PInv, ReceiptsOfAttempts, schedulerVars
    <3> QED BY <1>5, <1>6, <2>2, <3>1, <3>2, <3>3
  <2>3. CASE result = "rejected" /\ Keep
    BY <1>7, <1>9, <2>3
  <2> QED BY <1>9, <2>1, <2>2, <2>3 DEF ProjectChat
<1>10. CASE h.request.kind = "edit" /\ result = "projected" /\ Keep
  BY <1>7, <1>10 DEF Published
<1> QED BY <1>1, <1>8, <1>9, <1>10 DEF Project

-----------------------------------------------------------------------------
(* The renderer and direct runs *)

(* What changes no result, no message and nothing that was received.       *)
LEMMA RunsOnlyInv ==
  ASSUME PInv, IInv', UNCHANGED <<schedulerVars, head, held, pruned, talk, receipts>>,
         step' \in [Runs -> StepRow],
         \A r \in Runs : step'[r].result = step[r].result
  PROVE  PInv'
<1>1. /\ talk' \in [Conversations -> Seq(MessageRow) \cup {Absent}]
      /\ receipts' \subseteq Projections /\ held' \in [Processes -> HeldRow \cup {Null}]
  BY DEF PInv, PipelineTypes
<1>2. IdsUnique' /\ AnswersKnown'
  BY SameAnswers DEF schedulerVars
<1>3. ReceiptsOfAttempts' /\ StoreGrows
  BY DEF PInv, ReceiptsOfAttempts, StoreGrows, Positions, schedulerVars
<1> QED BY <1>1, <1>2, <1>3, ExecutionStepInv

LEMMA RendererRunInv ==
  ASSUME PInv, IInv', NEW r \in Runs,
         RendererReads(r) \/ DirectRun(r) \/ \E u \in Updates : RendererSaves(r, u)
  PROVE  /\ PInv'
         /\ \A q \in Runs : step'[q].result = step[q].result
<1> DEFINE RunsOnly == /\ UNCHANGED <<schedulerVars, head, held, pruned, talk, receipts>>
                       /\ step' \in [Runs -> StepRow]
                       /\ \A q \in Runs : step'[q].result = step[q].result
<1>1. step \in [Runs -> StepRow]
  BY DEF PInv, PipelineTypes
<1>2. RunsOnly
  <2>1. CASE RendererReads(r)
    BY <1>1, <2>1 DEF RendererReads, executionVars
  <2>2. ASSUME NEW expired \in BOOLEAN, ClaimStep(r, expired),
               UNCHANGED <<schedulerVars, pipelineVars>>
        PROVE  RunsOnly
    BY <1>1, <2>2 DEF ClaimStep, StepRow, StepStatuses, pipelineVars
  <2>3. ASSUME NEW status \in FinalStatuses, FinishStep(r, status),
               UNCHANGED <<schedulerVars, pipelineVars>>
        PROVE  RunsOnly
    BY <1>1, <2>3 DEF FinishStep, StepRow, StepStatuses, pipelineVars
  <2>4. ASSUME NEW u \in Updates, RendererSaves(r, u) PROVE RunsOnly
    <3>1. u[2] \in StepStatuses
      BY PipelineAssumption
    <3> QED BY <1>1, <2>4, <3>1 DEF RendererSaves, SaveRun, StepRow, StepStatuses
  <2> QED BY <2>1, <2>2, <2>3, <2>4 DEF DirectRun
<1> QED BY <1>2, RunsOnlyInv

LEMMA TalkInv ==
  ASSUME PInv, IInv', NEW c \in Conversations, RendererTalks(c) \/ RendererPrunes(c)
  PROVE  PInv'
<1>1. /\ UNCHANGED <<schedulerVars, head, run, step, receipts>> /\ held' = held
      /\ step' \in [Runs -> StepRow] /\ receipts' \subseteq Projections
      /\ held' \in [Processes -> HeldRow \cup {Null}]
      /\ talk \in [Conversations -> Seq(MessageRow) \cup {Absent}]
  BY DEF RendererTalks, RendererPrunes, AppendConversationMessage, PruneConversation,
         pipelineVars, PInv, PipelineTypes
<1>2. ReceiptsOfAttempts'
  BY <1>1 DEF PInv, ReceiptsOfAttempts, schedulerVars
<1>3. CASE RendererTalks(c)
  <2>1. PICK m \in Messages : Insert(c, [id |-> m, role |-> "user", backend |-> FALSE])
    BY <1>3 DEF RendererTalks, AppendConversationMessage
  <2> DEFINE message == [id |-> m, role |-> "user", backend |-> FALSE]
  <2>2. message \in MessageRow /\ message.id \notin Projections /\ Insert(c, message)
    BY <2>1, MessagesAssumption DEF MessageRow
  <2>3. UNCHANGED <<session, head, pruned>>
    BY <1>3 DEF RendererTalks, schedulerVars, pipelineVars
  <2> HIDE DEF message
  <2>4. talk' \in [Conversations -> Seq(MessageRow) \cup {Absent}]
    BY <2>2, Inserted DEF PInv
  <2>5. IdsUnique' /\ AnswersKnown'
    BY <2>2, <2>3, InsertedAnswers DEF PInv
  <2>6. StoreGrows
    BY <1>1, <2>2, <2>3, InsertGrows DEF PInv
  <2> QED BY <1>1, <1>2, <2>4, <2>5, <2>6, ExecutionStepInv
<1>4. CASE RendererPrunes(c)
  <2>1. talk' = [talk EXCEPT ![c] = Absent] /\ pruned' = pruned \cup {c}
    BY <1>4 DEF RendererPrunes, PruneConversation
  <2>2. talk' \in [Conversations -> Seq(MessageRow) \cup {Absent}]
    BY <1>1, <2>1
  <2>3. IdsUnique' /\ AnswersKnown'
    BY <1>1, <2>1, PrunedAnswers DEF PInv, schedulerVars
  <2>4. StoreGrows
    BY <1>1, <2>1 DEF StoreGrows, Positions
  <2> QED BY <1>1, <1>2, <2>2, <2>3, <2>4, ExecutionStepInv
<1> QED BY <1>3, <1>4

-----------------------------------------------------------------------------
LEMMA PipelineStarts == PipelineInit => PInv
<1> SUFFICES ASSUME PipelineInit PROVE PInv
  OBVIOUS
<1>1. IInv /\ session = [s \in Sessions |-> NoSession]
      /\ completion = [s \in Sessions |-> NoCompletion]
  BY InitInv DEF PipelineInit, Init
<1>2. /\ step = [r \in Runs |-> NoStep] /\ talk = [c \in Conversations |-> Absent]
      /\ receipts = {} /\ head = [s \in Sessions |-> Null]
      /\ held = [p \in Processes |-> Null] /\ pruned = {}
  BY DEF PipelineInit, ExecutionInit
<1>3. PipelineTypes
  BY <1>2 DEF PipelineTypes, NoStep, StepRow
<1> QED BY <1>1, <1>2, <1>3 DEF PInv, IdsUnique, AnswersKnown, Positions, HeadsOfChats,
           HeldOfSessions, MarkedPublished, ReceiptsOfAttempts, NoCompletion, NoStep

LEMMA ProjectorInv ==
  ASSUME PInv, IInv', NEW p \in Processes, ProjectorNext(p)
  PROVE  PInv'
BY FinalizeFoundInv, TakeInv, ProjectInv, ProjectFailsInv, MarkInv, LetGoInv DEF ProjectorNext

LEMMA PipelineStepInv == PInv /\ [PipelineNext]_everything => PInv'
<1> SUFFICES ASSUME PInv, [PipelineNext]_everything PROVE PInv'
  OBVIOUS
<1>0. IInv'
  BY PipelineIsStore, NextInv DEF PInv
<1>1. CASE \E s \in Sessions, r \in Requests : Submit(s, r)
  BY <1>0, <1>1, SubmitInv
<1>2. CASE SchedulerStep
  BY <1>0, <1>2, SchedulerStepInv
<1>3. CASE \E p \in Processes : ProjectorNext(p)
  BY <1>0, <1>3, ProjectorInv
<1>4. CASE \E r \in Runs : RendererReads(r) \/ DirectRun(r)
                           \/ \E u \in Updates : RendererSaves(r, u)
  BY <1>0, <1>4, RendererRunInv
<1>5. CASE \E c \in Conversations : RendererTalks(c) \/ RendererPrunes(c)
  BY <1>0, <1>5, TalkInv
<1>6. CASE UNCHANGED everything
  <2>1. UNCHANGED <<schedulerVars, head, held, pruned, step, talk, receipts>>
    BY <1>6 DEF everything, executionVars, pipelineVars
  <2> QED BY <1>0, <2>1, RunsOnlyInv DEF PInv, PipelineTypes
<1> QED BY <1>1, <1>2, <1>3, <1>4, <1>5, <1>6 DEF PipelineNext

LEMMA PipelineInv == PipelineSpec => []PInv
  BY PipelineStarts, PipelineStepInv, PTL DEF PipelineSpec

(* What the scheduler takes for projected is in the execution store,       *)
(* whichever process projected it and wherever it ended.                   *)
THEOREM ProjectedArePublished == PipelineSpec => []ProjectedIsPublished
<1>1. PInv => ProjectedIsPublished
  <2> SUFFICES ASSUME PInv, NEW s \in Sessions, completion[s].projected
               PROVE  LET id == <<s, completion[s].attempt>>
                          c == session[s].request.conversation
                      IN  /\ session[s].request.kind = "agent" => id \in receipts
                          /\ session[s].request.kind = "chat" => Stored(id) \/ c \in pruned
    BY DEF ProjectedIsPublished
  <2>1. Published(<<s, completion[s].attempt>>, session[s].request)
    BY DEF PInv, MarkedPublished
  <2>2. session[s].request \in Requests
    <3>1. RowInv(session[s], attempt[s], completion[s])
      BY DEF PInv, IInv
    <3>2. completion[s] # NoCompletion
      BY DEF NoCompletion
    <3> QED BY <3>1, <3>2 DEF RowInv, OutboxRows, RequestRows
  <2>3. session[s].request.kind = "chat" => session[s].request.conversation \in Conversations
    BY <2>2, RequestsNameRows
  <2> QED BY <2>1, <2>3 DEF Published, StoredIn, Stored
<1> QED BY <1>1, PipelineInv, PTL

(* The answer of a chat turn stands directly behind its question and is    *)
(* there once, whatever is appended, pruned or repeated meanwhile.         *)
THEOREM AnswersBehindQuestions == PipelineSpec => []AnswersFollowTheirQuestion
<1>1. PInv => AnswersFollowTheirQuestion
  BY DEF PInv, IdsUnique, AnswersKnown, Answers, AnswersFollowTheirQuestion
<1> QED BY <1>1, PipelineInv, PTL

(* A step's result gives way to a later attempt of its session only.       *)
LEMMA AgentForward ==
  ASSUME PInv, NEW p \in Processes, NEW result, Project(p, result),
         NEW r \in Runs, step[r].result # Absent, step'[r].result # step[r].result
  PROVE  /\ step'[r].result[1] = step[r].result[1]
         /\ step'[r].result[2] > step[r].result[2]
<1>1. PICK h : h = held[p] /\ h # Null
  BY DEF Project, Holds
<1>2. h \in HeldRow /\ HeldTask(h) /\ HeldResult(h)
  BY <1>1, HeldRows DEF PInv, HeldOfSessions
<1> DEFINE id == <<h.session, h.attempt>>
<1>3. /\ h.request.kind = "agent"
      /\ ProjectNewAgent(id, h.request.run, h.request.conversation, h.terminal)
  BY <1>1 DEF Project, ProjectAgent, ProjectChat, Keep, executionVars
<1>4. step \in [Runs -> StepRow]
  BY DEF PInv, PipelineTypes
<1>5. r = h.request.run /\ step'[r].result = id
  BY <1>3, <1>4 DEF ProjectNewAgent
<1>6. /\ id \notin receipts /\ step[r].result[1] = h.session
      /\ step[r].result \in receipts
  BY <1>3, <1>5 DEF ProjectNewAgent, AgentConflict, SameSession, PInv, ReceiptsOfAttempts
<1>7. PICK m \in Attempts : step[r].result = <<h.session, m>>
  BY <1>6, PipelineAssumption DEF PInv, PipelineTypes
<1>8. m <= session[h.session].attempts
  BY <1>6, <1>7 DEF PInv, ReceiptsOfAttempts
<1>9. session[h.session].attempts = h.attempt
  <2>1. h.session \in Sessions /\ h.attempt \in Attempts /\ StagedBy(h.session, h.attempt)
    BY <1>2, <1>3, <1>6 DEF HeldResult, HeldRow
  <2>2. /\ RowInv(session[h.session], attempt[h.session], completion[h.session])
        /\ session[h.session].state = "committing" /\ session[h.session].active = h.attempt
    BY <2>1, StagedRows DEF PInv
  <2> QED BY <2>2 DEF RowInv, AssignmentRows, Active
<1>10. m # h.attempt
  BY <1>6, <1>7
<1>11. h.attempt \in Attempts
  BY <1>2 DEF HeldRow
<1> QED BY <1>5, <1>7, <1>8, <1>9, <1>10, <1>11, BoundsAssumption DEF Attempts

LEMMA ResultStep ==
  ASSUME PInv, [PipelineNext]_everything, NEW r \in Runs,
         step[r].result # Absent, step'[r].result # step[r].result
  PROVE  /\ step'[r].result[1] = step[r].result[1]
         /\ step'[r].result[2] > step[r].result[2]
<1> DEFINE Projects == \E p \in Processes, result \in {"projected", "retryable", "rejected"} :
                         Project(p, result)
           RunSteps == \E q \in Runs : RendererReads(q) \/ DirectRun(q)
                                       \/ \E u \in Updates : RendererSaves(q, u)
<1>1. CASE UNCHANGED step
  BY <1>1
<1>2. CASE Projects
  BY <1>2, AgentForward
<1>3. CASE RunSteps
  <2>1. IInv'
    BY PipelineIsStore, NextInv DEF PInv
  <2> QED BY <1>3, <2>1, RendererRunInv
<1>4. UNCHANGED step \/ Projects \/ RunSteps
  BY DEF PipelineNext, Submit, SchedulerStep, ProjectorNext, FinalizeFound, Take,
         ProjectFails, MarkProjected, FinalizeMarked, RecordRetry, RejectProjection,
         Forget, RendererTalks, RendererPrunes, AppendConversationMessage,
         PruneConversation, executionVars, everything
<1> QED BY <1>1, <1>2, <1>3, <1>4

(* Neither a second session nor a late projector puts an older result over *)
(* a newer one.                                                            *)
THEOREM ResultsGoForward == PipelineSpec => ResultsMoveForward
<1>1. PInv /\ [PipelineNext]_everything =>
        [\A r \in Runs : step[r].result # Absent /\ step'[r].result # step[r].result =>
           /\ step'[r].result[1] = step[r].result[1]
           /\ step'[r].result[2] > step[r].result[2]]_everything
  BY ResultStep
<1> QED BY <1>1, PipelineInv, PTL DEF PipelineSpec, ResultsMoveForward

-----------------------------------------------------------------------------
(* A session that commits succeeds in one way.                             *)
LEMMA OnlyFinalizing ==
  ASSUME IInv, [Next]_vars, NEW s \in Sessions,
         session[s].state = "committing", session'[s].state = "succeeded"
  PROVE  \E n \in Attempts : FinalizeCompletion(s, n)
<1>1. /\ session \in [Sessions -> SessionRow] /\ session[s] \in SessionRow
      /\ session'[s].state # session[s].state
  BY DEF IInv
<1>2. ASSUME NEW t \in Sessions, ClientNext(t) PROVE FALSE
  BY <1>1, <1>2 DEF ClientNext, Cancel, RemoveTerminal, Enqueue, ResumeAfterApproval,
     ContinueInterrupted, Requeue, Terminal
<1>3. \A hit : SessionsAfter(hit)[s] = session[s]
  BY DEF SessionsAfter, Assigned
<1>4. ASSUME NEW t \in Sessions, NEW o \in Owners, ClaimNext(o, t) PROVE FALSE
  <2> DEFINE rows == SessionsAfter(Expired)
  <2>1. session' = [rows EXCEPT ![t] = ClaimedRow(rows[t])] /\ rows[t].state = "queued"
    BY <1>4 DEF ClaimNext, Assign, Candidate, Eligible
  <2>2. rows[s] = session[s]
    BY <1>3
  <2>3. t # s
    BY <2>1, <2>2
  <2>4. session'[s] = rows[s]
    BY <2>1, <2>3 DEF SessionsAfter
  <2> QED BY <1>1, <2>2, <2>4
<1>5. ASSUME NEW t \in Sessions, NEW n \in Attempts, HolderNext(t, n) PROVE FALSE
  <2>1. CASE Renew(t, n)
    BY <1>1, <2>1 DEF Renew, SessionRow
  <2>2. CASE AppendAssignmentEvent(t, n)
    BY <1>1, <2>2 DEF AppendAssignmentEvent, SessionRow
  <2>3. ASSUME NEW id \in Runtimes, BindOpencodeSession(t, n, id) PROVE FALSE
    <3>1. session' = [session EXCEPT ![t] = [@ EXCEPT !.runtime = id, !.journal = n]]
      BY <2>3 DEF BindOpencodeSession
    <3> QED BY <1>1, <3>1 DEF SessionRow
  <2>4. CASE session[t].state # "committing" /\ \A u \in Sessions \ {t} : session'[u] = session[u]
    BY <1>1, <2>4
  <2>5. CASE ResolveCancelling(t, n)
    BY <1>1, <2>4, <2>5 DEF ResolveCancelling, Terminalize
  <2>6. ASSUME NEW outcome \in PlainOutcomes, ResolvePlain(t, n, outcome) PROVE FALSE
    BY <1>1, <2>4, <2>6 DEF ResolvePlain, Terminalize
  <2>7. ASSUME NEW output \in Outputs("agent"), StageOutput(t, n, output) PROVE FALSE
    BY <1>1, <2>4, <2>7 DEF StageOutput
  <2> QED BY <1>5, <2>1, <2>2, <2>3, <2>5, <2>6, <2>7 DEF HolderNext
<1>6. ASSUME NEW t \in Sessions, NEW n \in Attempts, OutboxNext(t, n)
      PROVE  \E m \in Attempts : FinalizeCompletion(s, m)
  <2>1. CASE RecordCompletionError(t, n) \/ MarkCompletionProjected(t, n)
    BY <1>1, <2>1 DEF RecordCompletionError, MarkCompletionProjected
  <2>2. CASE FinalizeCompletion(t, n)
    <3>1. t = s
      BY <1>1, <2>2 DEF FinalizeCompletion, Release
    <3> QED BY <2>2, <3>1
  <2>3. CASE RejectCompletion(t, n)
    BY <1>1, <2>3 DEF RejectCompletion, Release, SessionRow
  <2> QED BY <1>6, <2>1, <2>2, <2>3 DEF OutboxNext
<1>7. ASSUME NEW hit, Recover(hit) PROVE FALSE
  BY <1>1, <1>3, <1>7 DEF Recover
<1>8. CASE \E t \in 0..MaxNow : SetClock(t)
  BY <1>1, <1>8 DEF SetClock
<1>9. CASE UNCHANGED vars
  BY <1>1, <1>9 DEF vars
<1> QED
  BY <1>2, <1>4, <1>5, <1>6, <1>7, <1>8, <1>9 DEF Next, AbandonOwner, RecoverExpired

(* The end of the path of a result: a session leaves its commit as         *)
(* succeeded only when the result of the attempt that committed is in the  *)
(* execution store, whoever projected it, however often it was tried and   *)
(* wherever a process stopped between the two databases.                   *)
THEOREM SuccessIsPublished ==
  PipelineSpec =>
    [][\A s \in Sessions :
         session[s].state = "committing" /\ session'[s].state = "succeeded" =>
           Published(<<s, session[s].active>>, session[s].request)]_everything
<1>1. PInv /\ [PipelineNext]_everything =>
        \A s \in Sessions :
          session[s].state = "committing" /\ session'[s].state = "succeeded" =>
            Published(<<s, session[s].active>>, session[s].request)
  <2> SUFFICES ASSUME PInv, [PipelineNext]_everything, NEW s \in Sessions,
                      session[s].state = "committing", session'[s].state = "succeeded"
               PROVE  Published(<<s, session[s].active>>, session[s].request)
    OBVIOUS
  <2>1. IInv /\ [Next]_vars
    BY PipelineIsStore DEF PInv
  <2>2. \E n \in Attempts : FinalizeCompletion(s, n)
    BY <2>1, OnlyFinalizing
  <2>3. completion[s].projected
    BY <2>2 DEF FinalizeCompletion
  <2>4. completion[s].attempt = session[s].active
    BY <2>1 DEF IInv, RowInv, OutboxRows
  <2>5. Published(<<s, completion[s].attempt>>, session[s].request)
    BY <2>3 DEF PInv, MarkedPublished
  <2> QED BY <2>4, <2>5
<1> QED BY <1>1, PipelineInv, PTL DEF PipelineSpec

=============================================================================
