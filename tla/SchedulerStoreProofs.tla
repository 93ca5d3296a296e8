------------------------ MODULE SchedulerStoreProofs ------------------------
(***************************************************************************)
(* Proofs about SchedulerStore for any sets of sessions, owners, runtimes  *)
(* and requests and any bounds.                                            *)
(*                                                                         *)
(* Every table is a function of the session and, but for the ownership     *)
(* keys and the capacity, an operation relates the rows of one session     *)
(* only.  The inductive invariant is therefore a predicate RowInv of the   *)
(* rows of one session, and each operation has a lemma about rows.         *)
(***************************************************************************)
EXTENDS SchedulerLifecycle, FiniteSetTheorems, TLAPS

(* The rows of one session: row of scheduler_task_sessions, tries its      *)
(* attempts, out its completion.                                           *)
RowTypes(row, tries, out) ==
  /\ row \in SessionRow
  /\ tries \in [Attempts -> AttemptRow]
  /\ out \in CompletionRow

(* Attempts are numbered from 1 without a gap, each under its own token.   *)
Numbered(row, tries) ==
  /\ row.token = row.attempts
  /\ row.journal <= row.attempts
  /\ \A n \in Attempts : /\ tries[n].state # "none" <=> n <= row.attempts
                         /\ tries[n].state # "none" => tries[n].token = n

(* RowsAgree, on the rows of one session.                       *)
AssignmentRows(row, tries) ==
  /\ row.state \in Active <=> row.active # 0
  /\ row.active # 0 =>
       /\ row.active = row.attempts
       /\ tries[row.active].state =
            (IF row.state = "committing" THEN "committing" ELSE "running")
       /\ tries[row.active].lease = row.lease
  /\ \A n \in Attempts :
       tries[n].state \in {"running", "committing"} => row.active = n

(* OutboxConsistent, on the rows of one session.                           *)
OutboxRows(row, out) ==
  /\ row.state = "committing" <=> out.attempt # 0 /\ ~out.finalized
  /\ row.state = "committing" =>
       /\ out.attempt = row.active /\ out.token = row.token
       /\ out.terminal \in {"succeeded", "blocked"}
  /\ row.state \in {"absent", "queued", "removed"} \cup Assigned =>
       out = NoCompletion

(* A session has a request; where there is no row there is no attempt and  *)
(* no bound runtime.                                                       *)
RequestRows(row) ==
  /\ row.state \in {"absent", "removed"} => row.attempts = 0 /\ row.runtime = Null
  /\ row.state \notin {"absent", "removed"} => row.request \in Requests

RowInv(row, tries, out) ==
  /\ RowTypes(row, tries, out)
  /\ Numbered(row, tries)
  /\ AssignmentRows(row, tries)
  /\ OutboxRows(row, out)
  /\ RequestRows(row)

IInv ==
  /\ session \in [Sessions -> SessionRow]
  /\ attempt \in [Sessions -> [Attempts -> AttemptRow]]
  /\ completion \in [Sessions -> CompletionRow]
  /\ nextSequence \in Nat
  /\ now \in 0..MaxNow
  /\ \A s \in Sessions : RowInv(session[s], attempt[s], completion[s])

(* What ends or replaces the rows of one session and touches no other.     *)
RowStep(s, row, tries, out) ==
  /\ session' = [session EXCEPT ![s] = row]
  /\ attempt' = [attempt EXCEPT ![s] = tries]
  /\ completion' = [completion EXCEPT ![s] = out]

-----------------------------------------------------------------------------
USE BoundsAssumption

(* A step that replaces the rows of one session by rows that satisfy       *)
(* RowInv preserves the invariant.                                         *)
LEMMA RowStepInv ==
  ASSUME IInv, NEW s \in Sessions, NEW row, NEW tries, NEW out,
         RowInv(row, tries, out), RowStep(s, row, tries, out),
         nextSequence' \in Nat, now' \in 0..MaxNow
  PROVE  IInv'
  BY DEF IInv, RowStep, RowInv, RowTypes

(* A session without a row. *)
LEMMA EmptyRows ==
  /\ RowInv(NoSession, [n \in Attempts |-> NoAttempt], NoCompletion)
  /\ RowInv(Removed, [n \in Attempts |-> NoAttempt], NoCompletion)
<1>1. NoSession \in SessionRow /\ Removed \in SessionRow
  BY DEF NoSession, Removed, SessionRow, SessionStates, Errors, AttemptNumbers,
         Optional
<1>2. [n \in Attempts |-> NoAttempt] \in [Attempts -> AttemptRow]
  BY DEF NoAttempt, AttemptRow, AttemptStates, AttemptNumbers, Optional
<1>3. NoCompletion \in CompletionRow
  BY DEF NoCompletion, CompletionRow, Errors, StagedStates, AttemptNumbers
<1> QED
  BY <1>1, <1>2, <1>3 DEF RowInv, RowTypes, Numbered, AssignmentRows,
     OutboxRows, RequestRows, NoSession, Removed, NoAttempt, NoCompletion,
     Active, Assigned, Terminal, Attempts

LEMMA InitInv == Init => IInv
  BY EmptyRows DEF Init, IInv, RowInv, RowTypes

-----------------------------------------------------------------------------
(* Recovery *)

(* The attempts of one session after those in hit were interrupted.        *)
Interrupted(tries, hit) ==
  [n \in Attempts |-> IF n \in hit
                      THEN [tries[n] EXCEPT !.state = "interrupted", !.lease = 0]
                      ELSE tries[n]]

LEMMA InterruptedRows ==
  ASSUME NEW row, NEW tries, NEW out, RowInv(row, tries, out),
         NEW hit \in SUBSET {n \in Attempts : tries[n].state = "running"},
         hit # {}
  PROVE  /\ hit = {row.active}
         /\ row.state \in Assigned
         /\ RowInv(RecoveredRow(row), Interrupted(tries, hit), out)
<1> DEFINE new == RecoveredRow(row)
           ended == Interrupted(tries, hit)
<1>1. hit = {row.active} /\ row.active \in Attempts /\ row.active # 0
  <2>1. \A n \in hit : n \in Attempts /\ n = row.active
    BY DEF RowInv, AssignmentRows
  <2>2. PICK n \in hit : TRUE
    OBVIOUS
  <2>3. 0 \notin Attempts
    BY DEF Attempts
  <2> QED
    BY <2>1, <2>2, <2>3
<1>2. row.state \in Assigned
  BY <1>1 DEF RowInv, AssignmentRows, Assigned, Active
<1>3. row \in SessionRow /\ tries \in [Attempts -> AttemptRow] /\ out \in CompletionRow
  BY DEF RowInv, RowTypes
<1>4. RecoveredState(row) \in {"cancelled", "blocked", "queued"}
  BY DEF RecoveredState
<1>5. RowTypes(new, ended, out)
  <2>1. new \in SessionRow
    <3>1. RecoveredState(row) \in SessionStates
      BY <1>4 DEF SessionStates, Terminal
    <3>2. (IF RecoveredState(row) = "blocked" THEN "other" ELSE "none") \in Errors
      BY DEF Errors
    <3>3. 0 \in AttemptNumbers
      BY DEF AttemptNumbers
    <3> QED
      BY <1>3, <3>1, <3>2, <3>3 DEF RecoveredRow, SessionRow
  <2>2. ended \in [Attempts -> AttemptRow]
    BY <1>3 DEF Interrupted, AttemptRow, AttemptStates
  <2> QED
    BY <1>3, <2>1, <2>2 DEF RowTypes
<1>6. /\ new.state = RecoveredState(row) /\ new.active = 0 /\ new.attempts = row.attempts
      /\ new.token = row.token /\ new.journal = row.active /\ new.request = row.request
  BY <1>3 DEF RecoveredRow, SessionRow
<1>7. \A n \in Attempts :
        /\ ended[n].token = tries[n].token
        /\ n \in hit => ended[n].state = "interrupted" /\ tries[n].state = "running"
        /\ n \notin hit => ended[n] = tries[n]
  BY <1>3 DEF Interrupted, AttemptRow
<1>8. Numbered(new, ended)
  <2>1. \A n \in Attempts : ended[n].state # "none" <=> tries[n].state # "none"
    BY <1>7
  <2>2. new.token = new.attempts /\ new.journal <= new.attempts
    <3>1. row.active = row.attempts
      BY <1>1 DEF RowInv, AssignmentRows
    <3>2. row.token = row.attempts /\ row.attempts \in Nat
      BY <1>3 DEF RowInv, Numbered, SessionRow, AttemptNumbers
    <3> QED
      BY <1>6, <3>1, <3>2
  <2>3. ASSUME NEW n \in Attempts
        PROVE  /\ ended[n].state # "none" <=> n <= new.attempts
               /\ ended[n].state # "none" => ended[n].token = n
    BY <1>6, <1>7, <2>1 DEF RowInv, Numbered
  <2> QED
    BY <2>2, <2>3 DEF Numbered
<1>9. AssignmentRows(new, ended)
  BY <1>1, <1>4, <1>6, <1>7 DEF RowInv, AssignmentRows, Active
<1>10. OutboxRows(new, out)
  BY <1>2, <1>4, <1>6 DEF RowInv, OutboxRows, Assigned
<1>11. RequestRows(new)
  BY <1>2, <1>4, <1>6 DEF RowInv, RequestRows, Assigned
<1> QED
  BY <1>1, <1>2, <1>5, <1>8, <1>9, <1>10, <1>11 DEF RowInv

(* The two tables after recovery, session by session.                      *)
LEMMA AfterRows ==
  ASSUME IInv, NEW hit \in SUBSET Running, NEW s \in Sessions
  PROVE  /\ RowInv(SessionsAfter(hit)[s], AttemptsAfter(hit)[s], completion[s])
         /\ SessionsAfter(hit)[s].state \in Active => SessionsAfter(hit)[s] = session[s]
<1> DEFINE mine == {n \in Attempts : <<s, n>> \in hit}
<1>1. RowInv(session[s], attempt[s], completion[s])
  BY DEF IInv
<1>2. mine \in SUBSET {n \in Attempts : attempt[s][n].state = "running"}
  BY DEF Running
<1>3. AttemptsAfter(hit)[s] = Interrupted(attempt[s], mine)
  BY DEF AttemptsAfter, Interrupted
<1>4. SessionsAfter(hit)[s] =
        IF <<s, session[s].active>> \in hit /\ session[s].state \in Assigned
        THEN RecoveredRow(session[s]) ELSE session[s]
  BY DEF SessionsAfter
<1>5. CASE mine = {}
  <2>1. <<s, session[s].active>> \notin hit
    BY <1>5 DEF Running
  <2>2. AttemptsAfter(hit)[s] = attempt[s]
    BY <1>1, <1>3, <1>5 DEF Interrupted, RowInv, RowTypes
  <2> QED
    BY <1>1, <1>4, <2>1, <2>2
<1>6. CASE mine # {}
  <2>1. /\ mine = {session[s].active}
        /\ session[s].state \in Assigned
        /\ RowInv(RecoveredRow(session[s]), Interrupted(attempt[s], mine), completion[s])
    BY <1>1, <1>2, <1>6, InterruptedRows
  <2>2. SessionsAfter(hit)[s] = RecoveredRow(session[s])
    BY <1>4, <2>1
  <2>3. RecoveredRow(session[s]).state \notin Active
    BY <1>1 DEF RecoveredRow, RecoveredState, RowInv, RowTypes, SessionRow, Active
  <2> QED
    BY <1>3, <2>1, <2>2, <2>3
<1> QED
  BY <1>5, <1>6

LEMMA RecoverInv ==
  ASSUME IInv, NEW hit \in SUBSET Running, Recover(hit)
  PROVE  IInv'
<1>1. \A s \in Sessions : RowInv(session'[s], attempt'[s], completion'[s])
  BY AfterRows DEF Recover
<1>2. /\ session' \in [Sessions -> SessionRow]
      /\ attempt' \in [Sessions -> [Attempts -> AttemptRow]]
      /\ completion' \in [Sessions -> CompletionRow]
  BY <1>1 DEF Recover, SessionsAfter, AttemptsAfter, RowInv, RowTypes, IInv
<1> QED
  BY <1>1, <1>2 DEF IInv, Recover

-----------------------------------------------------------------------------
(* Claim *)

LEMMA RowFacts ==
  ASSUME NEW row, NEW tries, NEW out, RowInv(row, tries, out)
  PROVE  /\ row \in SessionRow /\ tries \in [Attempts -> AttemptRow]
         /\ out \in CompletionRow
         /\ row.attempts \in Nat /\ row.attempts <= MaxAttempts
         /\ row.token = row.attempts /\ row.journal <= row.attempts
         /\ row.active \in AttemptNumbers /\ row.journal \in Nat
         /\ row.lease \in Nat
  BY DEF RowInv, RowTypes, Numbered, SessionRow, AttemptNumbers

LEMMA ClaimedRows ==
  ASSUME NEW row, NEW tries, NEW out, RowInv(row, tries, out),
         row.state = "queued", row.attempts < MaxAttempts,
         NEW o \in Owners, NEW lease \in Nat, now \in Nat,
         lease = now + LeaseTime
  PROVE  RowInv(ClaimedRow(row),
                [tries EXCEPT ![row.attempts + 1] =
                   [state |-> "running", token |-> row.token + 1, owner |-> o,
                    lease |-> lease]],
                out)
<1> DEFINE k == row.attempts + 1
           try == [state |-> "running", token |-> row.token + 1, owner |-> o,
                   lease |-> lease]
           new == ClaimedRow(row)
           now2 == [tries EXCEPT ![k] = try]
<1>1. /\ row \in SessionRow /\ tries \in [Attempts -> AttemptRow]
      /\ out \in CompletionRow
      /\ row.attempts \in Nat /\ row.token = row.attempts
  BY RowFacts
<1>2. k \in Attempts /\ k \in AttemptNumbers /\ row.token + 1 = k
  BY <1>1 DEF Attempts, AttemptNumbers
<1>3. "running" \in SessionStates /\ "none" \in Errors
  BY DEF SessionStates, Active, Errors
<1>4. /\ new.state = "running" /\ new.attempts = k /\ new.token = k
      /\ new.active = k /\ new.lease = lease /\ new.journal = k
      /\ new.request = row.request
  BY <1>1, <1>2 DEF ClaimedRow, SessionRow
<1>5. try \in AttemptRow
  BY <1>2 DEF AttemptRow, AttemptStates, Optional
<1>6. now2 \in [Attempts -> AttemptRow] /\ now2[k] = try
      /\ \A n \in Attempts : n # k => now2[n] = tries[n]
  BY <1>1, <1>2, <1>5
<1>7. RowTypes(new, now2, out)
  <2>1. new = [row EXCEPT !.state = "running", !.attempts = k, !.token = k,
                          !.active = k, !.lease = lease, !.error = "none",
                          !.journal = k]
    BY <1>1, <1>2 DEF ClaimedRow, SessionRow
  <2> HIDE DEF k, new, now2
  <2>2. new \in SessionRow
    BY <1>1, <1>2, <1>3, <2>1 DEF SessionRow
  <2> QED
    BY <1>1, <1>6, <2>2 DEF RowTypes
<1>8. row.active = 0
  BY DEF RowInv, AssignmentRows, Active
<1> HIDE DEF new, now2
<1>9. Numbered(new, now2)
  <2>1. ASSUME NEW n \in Attempts
        PROVE  /\ now2[n].state # "none" <=> n <= new.attempts
               /\ now2[n].state # "none" => now2[n].token = n
    <3>1. CASE n = k
      BY <1>2, <1>4, <1>6, <3>1
    <3>2. CASE n # k
      <4>1. n <= new.attempts <=> n <= row.attempts
        BY <1>1, <1>4, <3>2 DEF Attempts
      <4> QED
        BY <1>6, <3>2, <4>1 DEF RowInv, Numbered
    <3> QED
      BY <3>1, <3>2
  <2> QED
    BY <1>1, <1>4, <2>1 DEF Numbered
<1>10. AssignmentRows(new, now2)
  <2>1. k # 0
    BY <1>1
  <2>2. \A n \in Attempts : now2[n].state \in {"running", "committing"} => n = k
    BY <1>6, <1>8, <2>1 DEF RowInv, AssignmentRows, Attempts
  <2> HIDE DEF k
  <2> QED
    BY <1>4, <1>6, <2>1, <2>2 DEF AssignmentRows, Active
<1>11. OutboxRows(new, out)
  BY <1>4 DEF RowInv, OutboxRows, Assigned
<1>12. RequestRows(new)
  BY <1>4 DEF RowInv, RequestRows
<1> QED
  BY <1>7, <1>9, <1>10, <1>11, <1>12 DEF RowInv, new, now2

LEMMA ClaimInv ==
  ASSUME IInv, NEW o \in Owners, NEW s \in Sessions, ClaimNext(o, s)
  PROVE  IInv'
<1> DEFINE rows == SessionsAfter(Expired)
           tries == AttemptsAfter(Expired)
           try == [state |-> "running", token |-> rows[s].token + 1,
                   owner |-> o, lease |-> now + LeaseTime]
<1>1. Expired \in SUBSET Running
  BY DEF Expired
<1>2. \A t \in Sessions : RowInv(rows[t], tries[t], completion[t])
  BY <1>1, AfterRows
<1>3. /\ rows[s].state = "queued" /\ rows[s].attempts < MaxAttempts
      /\ session' = [rows EXCEPT ![s] = ClaimedRow(rows[s])]
      /\ attempt' = [tries EXCEPT ![s] =
           [tries[s] EXCEPT ![rows[s].attempts + 1] = try]]
      /\ UNCHANGED <<completion, nextSequence, now>>
  BY DEF ClaimNext, Candidate, Eligible, Assign
<1>4. now \in Nat /\ now + LeaseTime \in Nat
  BY DEF IInv
<1>5. RowInv(ClaimedRow(rows[s]),
             [tries[s] EXCEPT ![rows[s].attempts + 1] = try], completion[s])
  BY <1>2, <1>3, <1>4, ClaimedRows
<1>6. DOMAIN rows = Sessions /\ DOMAIN tries = Sessions
  BY DEF SessionsAfter, AttemptsAfter
<1>7. \A t \in Sessions : RowInv(session'[t], attempt'[t], completion'[t])
  <2> HIDE DEF rows, tries, try
  <2> QED
    BY <1>2, <1>3, <1>5, <1>6
<1>8. /\ session' \in [Sessions -> SessionRow]
      /\ attempt' \in [Sessions -> [Attempts -> AttemptRow]]
  <2>1. /\ session' = [t \in Sessions |-> session'[t]]
        /\ attempt' = [t \in Sessions |-> attempt'[t]]
    BY <1>3, <1>6
  <2>2. \A t \in Sessions : session'[t] \in SessionRow
                         /\ attempt'[t] \in [Attempts -> AttemptRow]
    BY <1>7 DEF RowInv, RowTypes
  <2> QED
    BY <2>1, <2>2
<1> QED
  BY <1>3, <1>7, <1>8 DEF IInv

-----------------------------------------------------------------------------
(* Operations of clients *)

LEMMA EnqueueInv ==
  ASSUME IInv, NEW s \in Sessions, NEW r \in Requests, Enqueue(s, r)
  PROVE  IInv'
<1> DEFINE new == [NoSession EXCEPT !.state = "queued", !.request = r,
                                    !.sequence = nextSequence]
<1>1. RowInv(session[s], attempt[s], completion[s])
  BY DEF IInv
<1>2. NoSession \in SessionRow
  BY EmptyRows DEF RowInv, RowTypes
<1>3. nextSequence \in Nat /\ session[s].state = "absent"
  BY DEF IInv, Enqueue
<1>4. session[s].attempts = 0 /\ session[s].active = 0 /\ completion[s] = NoCompletion
  BY <1>1, <1>3 DEF RowInv, RequestRows, AssignmentRows, OutboxRows, Active
<1>5. /\ new \in SessionRow
      /\ new.state = "queued" /\ new.request = r /\ new.active = NoSession.active
      /\ new.attempts = NoSession.attempts /\ new.token = NoSession.token
      /\ new.journal = NoSession.journal
  <2>1. "queued" \in SessionStates /\ r \in Optional(Requests)
    BY DEF SessionStates, Optional
  <2> QED
    BY <1>2, <1>3, <2>1 DEF SessionRow
<1> HIDE DEF new
<1>6. RowTypes(new, attempt[s], completion[s])
  BY <1>1, <1>5 DEF RowInv, RowTypes
<1>7. Numbered(new, attempt[s])
  BY <1>1, <1>4, <1>5 DEF RowInv, Numbered, NoSession
<1>8. AssignmentRows(new, attempt[s])
  BY <1>1, <1>4, <1>5 DEF RowInv, AssignmentRows, Active, NoSession
<1>9. OutboxRows(new, completion[s])
  BY <1>4, <1>5 DEF OutboxRows, NoCompletion
<1>10. RequestRows(new)
  BY <1>5 DEF RequestRows
<1>11. RowInv(new, attempt[s], completion[s])
  BY <1>6, <1>7, <1>8, <1>9, <1>10 DEF RowInv
<1>12. RowStep(s, new, attempt[s], completion[s])
  BY DEF Enqueue, RowStep, IInv, new
<1>13. nextSequence' \in Nat /\ now' \in 0..MaxNow
  BY <1>3 DEF Enqueue, IInv
<1> QED
  BY <1>11, <1>12, <1>13, RowStepInv

(* A session whose result was released may be queued again.                *)
LEMMA RequeueInv ==
  ASSUME IInv, NEW s \in Sessions, NEW r \in Requests,
         session[s].state \in {"blocked", "failed"}, Requeue(s, r)
  PROVE  IInv'
<1> DEFINE row == session[s]
           new == [row EXCEPT !.state = "queued", !.request = r,
                              !.sequence = nextSequence, !.active = 0,
                              !.lease = 0, !.error = "none"]
<1>1. RowInv(row, attempt[s], completion[s])
  BY DEF IInv
<1>2. row \in SessionRow
  BY <1>1 DEF RowInv, RowTypes
<1>3. nextSequence \in Nat
  BY DEF IInv
<1>4. row.active = 0
  BY <1>1 DEF RowInv, AssignmentRows, Active
<1>5. /\ "queued" \in SessionStates /\ "none" \in Errors /\ 0 \in AttemptNumbers
      /\ r \in Optional(Requests)
  BY DEF SessionStates, Errors, AttemptNumbers, Optional
<1>6. new \in SessionRow
  BY <1>2, <1>3, <1>5 DEF SessionRow
<1>7. /\ new.state = "queued" /\ new.request = r /\ new.active = 0
      /\ new.attempts = row.attempts /\ new.token = row.token
      /\ new.journal = row.journal
  BY <1>2 DEF SessionRow
<1> HIDE DEF new
<1>8. RowTypes(new, attempt[s], NoCompletion)
  BY <1>1, <1>6, EmptyRows DEF RowInv, RowTypes
<1>9. Numbered(new, attempt[s])
  BY <1>1, <1>7 DEF RowInv, Numbered
<1>10. AssignmentRows(new, attempt[s])
  BY <1>1, <1>4, <1>7 DEF RowInv, AssignmentRows, Active
<1>11. OutboxRows(new, NoCompletion)
  BY <1>7 DEF OutboxRows, NoCompletion
<1>12. RequestRows(new)
  BY <1>7 DEF RequestRows
<1>13. RowInv(new, attempt[s], NoCompletion)
  BY <1>8, <1>9, <1>10, <1>11, <1>12 DEF RowInv
<1>14. RowStep(s, new, attempt[s], NoCompletion)
  BY DEF Requeue, RowStep, IInv, new
<1>15. nextSequence' \in Nat /\ now' \in 0..MaxNow
  BY <1>3 DEF Requeue, IInv
<1> QED
  BY <1>13, <1>14, <1>15, RowStepInv

LEMMA CancelInv ==
  ASSUME IInv, NEW s \in Sessions, Cancel(s)
  PROVE  IInv'
<1> DEFINE row == session[s]
           state == IF row.state = "queued" THEN "cancelled" ELSE "cancelling"
           new == [row EXCEPT !.state = state]
<1>1. RowInv(row, attempt[s], completion[s])
  BY DEF IInv
<1>2. row \in SessionRow
  BY <1>1 DEF RowInv, RowTypes
<1>3. row.state \in {"queued", "running"} /\ state \in SessionStates
  BY DEF Cancel, SessionStates, Active, Terminal
<1>4. new \in SessionRow
  <2> HIDE DEF state
  <2> QED
    BY <1>2, <1>3 DEF SessionRow
<1>5. /\ new.state = state /\ new.request = row.request /\ new.active = row.active
      /\ new.attempts = row.attempts /\ new.token = row.token
      /\ new.journal = row.journal /\ new.lease = row.lease
  BY <1>2 DEF SessionRow
<1> HIDE DEF new
<1>6. RowInv(new, attempt[s], completion[s])
  BY <1>1, <1>3, <1>4, <1>5 DEF RowInv, RowTypes, Numbered, AssignmentRows,
     OutboxRows, RequestRows, Active, Assigned
<1>7. RowStep(s, new, attempt[s], completion[s])
  BY DEF Cancel, RowStep, IInv, new
<1> QED
  BY <1>6, <1>7, RowStepInv DEF Cancel, IInv

LEMMA RemoveTerminalInv ==
  ASSUME IInv, NEW s \in Sessions, RemoveTerminal(s)
  PROVE  IInv'
  BY EmptyRows, RowStepInv DEF RemoveTerminal, RowStep, IInv

-----------------------------------------------------------------------------
(* Operations of the holder of a fence *)

LEMMA ResolvableRows ==
  ASSUME IInv, NEW s \in Sessions, NEW n \in Attempts, Resolvable(s, n)
  PROVE  /\ RowInv(session[s], attempt[s], completion[s])
         /\ session[s].active = n /\ n = session[s].attempts /\ n # 0
         /\ session[s].token = n /\ attempt[s][n].token = n
         /\ session[s].state \in Assigned
         /\ session[s].request \in Requests
         /\ attempt[s][n].state = "running"
         /\ completion[s] = NoCompletion
<1>1. RowInv(session[s], attempt[s], completion[s])
  BY DEF IInv
<1>2. /\ session[s].active = n /\ attempt[s][n].state = "running"
      /\ session[s].token = attempt[s][n].token /\ session[s].state \in Assigned
  BY DEF Resolvable, FenceMatches
<1>3. n # 0
  BY DEF Attempts
<1>4. n = session[s].attempts
  BY <1>1, <1>2, <1>3 DEF RowInv, AssignmentRows
<1>5. attempt[s][n].token = n
  BY <1>1, <1>2 DEF RowInv, Numbered
<1>6. completion[s] = NoCompletion /\ session[s].request \in Requests
  BY <1>1, <1>2 DEF RowInv, OutboxRows, RequestRows, Assigned
<1> QED
  BY <1>1, <1>2, <1>3, <1>4, <1>5, <1>6

(* Only the journal and the runtime identity change.                       *)
LEMMA JournalRows ==
  ASSUME NEW row, NEW tries, NEW out, RowInv(row, tries, out),
         row.state \in Assigned, NEW id \in Optional(Runtimes)
  PROVE  RowInv([row EXCEPT !.runtime = id, !.journal = row.attempts], tries, out)
<1> DEFINE new == [row EXCEPT !.runtime = id, !.journal = row.attempts]
<1>1. row \in SessionRow /\ row.attempts \in Nat
  BY RowFacts
<1>2. new \in SessionRow
  BY <1>1 DEF SessionRow
<1>3. /\ new.state = row.state /\ new.request = row.request
      /\ new.active = row.active /\ new.attempts = row.attempts
      /\ new.token = row.token /\ new.journal = row.attempts
      /\ new.lease = row.lease
  BY <1>1 DEF SessionRow
<1> HIDE DEF new
<1>4. RowTypes(new, tries, out)
  BY <1>2 DEF RowInv, RowTypes
<1>5. Numbered(new, tries)
  BY <1>1, <1>3 DEF RowInv, Numbered
<1>6. AssignmentRows(new, tries) /\ OutboxRows(new, out) /\ RequestRows(new)
  BY <1>3 DEF RowInv, AssignmentRows, OutboxRows, RequestRows, Assigned
<1> QED
  BY <1>4, <1>5, <1>6 DEF RowInv, new

LEMMA BindOpencodeSessionInv ==
  ASSUME IInv, NEW s \in Sessions, NEW n \in Attempts, NEW id \in Runtimes,
         BindOpencodeSession(s, n, id)
  PROVE  IInv'
<1> DEFINE new == [session[s] EXCEPT !.runtime = id, !.journal = session[s].attempts]
<1>1. Resolvable(s, n)
  BY DEF BindOpencodeSession, AssignmentIsCurrent
<1>2. /\ RowInv(session[s], attempt[s], completion[s])
      /\ n = session[s].attempts /\ session[s].state \in Assigned
  BY <1>1, ResolvableRows
<1>3. id \in Optional(Runtimes)
  BY DEF Optional
<1>4. RowInv(new, attempt[s], completion[s])
  BY <1>2, <1>3, JournalRows
<1>5. session' = [session EXCEPT ![s] = new]
  BY <1>2 DEF BindOpencodeSession
<1>6. RowStep(s, new, attempt[s], completion[s])
  BY <1>5 DEF BindOpencodeSession, RowStep, IInv
<1> QED
  BY <1>4, <1>6, RowStepInv DEF BindOpencodeSession, IInv

LEMMA AppendAssignmentEventInv ==
  ASSUME IInv, NEW s \in Sessions, NEW n \in Attempts, AppendAssignmentEvent(s, n)
  PROVE  IInv'
<1> DEFINE new == [session[s] EXCEPT !.runtime = session[s].runtime,
                                     !.journal = session[s].attempts]
<1>1. Resolvable(s, n)
  BY DEF AppendAssignmentEvent, AssignmentIsCurrent
<1>2. /\ RowInv(session[s], attempt[s], completion[s])
      /\ n = session[s].attempts /\ session[s].state \in Assigned
  BY <1>1, ResolvableRows
<1>3. session[s] \in SessionRow /\ session[s].runtime \in Optional(Runtimes)
  BY <1>2 DEF RowInv, RowTypes, SessionRow
<1>4. RowInv(new, attempt[s], completion[s])
  BY <1>2, <1>3, JournalRows
<1>5. session' = [session EXCEPT ![s] = new]
  <2>1. new = [session[s] EXCEPT !.journal = n]
    BY <1>2, <1>3 DEF SessionRow
  <2> QED
    BY <2>1 DEF AppendAssignmentEvent
<1>6. RowStep(s, new, attempt[s], completion[s])
  BY <1>5 DEF AppendAssignmentEvent, RowStep, IInv
<1> QED
  BY <1>4, <1>6, RowStepInv DEF AppendAssignmentEvent, IInv

LEMMA RenewInv ==
  ASSUME IInv, NEW s \in Sessions, NEW n \in Attempts, Renew(s, n)
  PROVE  IInv'
<1> DEFINE row == session[s]
           lease == now + LeaseTime
           new == [row EXCEPT !.lease = lease]
           try == [attempt[s][n] EXCEPT !.lease = lease]
           tries == [attempt[s] EXCEPT ![n] = try]
<1>1. RowInv(row, attempt[s], completion[s])
  BY DEF IInv
<1>2. attempt[s][n].state = "running" /\ Live(attempt[s][n].lease)
  BY DEF Renew
<1>3. row.active = n /\ n # 0
  BY <1>1, <1>2 DEF RowInv, AssignmentRows, Attempts
<1>4. /\ row.state \in Assigned /\ row.lease = attempt[s][n].lease
      /\ row.token = attempt[s][n].token
  <2>1. row.state \in Active /\ row.state # "committing"
    BY <1>1, <1>2, <1>3 DEF RowInv, AssignmentRows
  <2>2. row.active = row.attempts /\ row.lease = attempt[s][n].lease
    BY <1>1, <1>3 DEF RowInv, AssignmentRows
  <2>3. row.token = row.attempts /\ attempt[s][n].token = n
    BY <1>1, <1>2 DEF RowInv, Numbered
  <2> QED
    BY <1>3, <2>1, <2>2, <2>3 DEF Active, Assigned
<1>5. row \in SessionRow /\ attempt[s] \in [Attempts -> AttemptRow] /\ lease \in Nat
  BY <1>1 DEF RowInv, RowTypes, IInv
<1>6. FenceMatches(s, n) /\ Live(row.lease)
  BY <1>2, <1>3, <1>4 DEF FenceMatches
<1>7. session' = [session EXCEPT ![s] = new]
  BY <1>4, <1>6 DEF Renew
<1>8. attempt' = [attempt EXCEPT ![s] = tries]
  BY DEF Renew
<1>9. /\ new \in SessionRow /\ new.state = row.state /\ new.request = row.request
      /\ new.active = n /\ new.attempts = row.attempts /\ new.token = row.token
      /\ new.journal = row.journal /\ new.lease = lease
      /\ new.runtime = row.runtime
  BY <1>3, <1>5 DEF SessionRow
<1>10. /\ try \in AttemptRow /\ try.lease = lease /\ try.state = attempt[s][n].state
       /\ try.token = attempt[s][n].token
  BY <1>5 DEF AttemptRow
<1> HIDE DEF new, try
<1>11. /\ tries \in [Attempts -> AttemptRow] /\ tries[n] = try
       /\ \A m \in Attempts : m # n => tries[m] = attempt[s][m]
  BY <1>5, <1>10
<1> HIDE DEF tries, lease
<1>12. RowTypes(new, tries, completion[s])
  BY <1>1, <1>9, <1>11 DEF RowInv, RowTypes
<1>13. Numbered(new, tries)
  BY <1>1, <1>9, <1>10, <1>11 DEF RowInv, Numbered
<1>14. AssignmentRows(new, tries)
  BY <1>1, <1>3, <1>9, <1>10, <1>11 DEF RowInv, AssignmentRows
<1>15. OutboxRows(new, completion[s]) /\ RequestRows(new)
  BY <1>1, <1>3, <1>9 DEF RowInv, OutboxRows, RequestRows
<1>16. RowInv(new, tries, completion[s])
  BY <1>12, <1>13, <1>14, <1>15 DEF RowInv
<1>17. RowStep(s, new, tries, completion[s])
  BY <1>7, <1>8 DEF Renew, RowStep, IInv
<1> QED
  BY <1>16, <1>17, RowStepInv DEF Renew, IInv

(* The active attempt ends together with its session's assignment.         *)
LEMMA EndedRows ==
  ASSUME NEW row, NEW tries, NEW out, RowInv(row, tries, out),
         row.state \in Active,
         NEW state \in Terminal, NEW error \in Errors,
         NEW try \in AttemptRow, try.state = state,
         try.token = tries[row.active].token,
         NEW ended \in CompletionRow, ended.attempt = 0 \/ ended.finalized
  PROVE  RowInv([row EXCEPT !.state = state, !.active = 0, !.lease = 0,
                            !.error = error, !.journal = row.active],
                [tries EXCEPT ![row.active] = try], ended)
<1> DEFINE n == row.active
           new == [row EXCEPT !.state = state, !.active = 0, !.lease = 0,
                              !.error = error, !.journal = row.active]
           now2 == [tries EXCEPT ![n] = try]
<1>1. /\ row \in SessionRow /\ tries \in [Attempts -> AttemptRow]
      /\ row.attempts \in Nat /\ row.attempts <= MaxAttempts
      /\ row.token = row.attempts
  BY RowFacts
<1>2. n # 0 /\ n = row.attempts /\ n \in AttemptNumbers /\ n \in Attempts
  BY <1>1 DEF RowInv, AssignmentRows, Attempts, AttemptNumbers
<1>3. tries[n].state # "none" /\ try.state # "none"
  BY <1>1, <1>2 DEF RowInv, Numbered, Terminal
<1>4. state \in SessionStates /\ 0 \in AttemptNumbers
  BY DEF SessionStates, AttemptNumbers
<1>5. new \in SessionRow
  BY <1>1, <1>2, <1>4 DEF SessionRow
<1>6. /\ new.state = state /\ new.active = 0 /\ new.attempts = row.attempts
      /\ new.token = row.token /\ new.journal = n /\ new.request = row.request
  BY <1>1 DEF SessionRow
<1>7. /\ now2 \in [Attempts -> AttemptRow] /\ now2[n] = try
      /\ \A m \in Attempts : m # n => now2[m] = tries[m]
  BY <1>1, <1>2
<1> HIDE DEF new, now2
<1>8. RowTypes(new, now2, ended)
  BY <1>5, <1>7 DEF RowTypes
<1>9. Numbered(new, now2)
  <2>1. ASSUME NEW m \in Attempts
        PROVE  /\ now2[m].state # "none" <=> m <= new.attempts
               /\ now2[m].state # "none" => now2[m].token = m
    <3>1. CASE m = n
      <4>1. tries[n].token = n
        BY <1>2, <1>3 DEF RowInv, Numbered
      <4> QED
        BY <1>1, <1>2, <1>3, <1>6, <1>7, <3>1, <4>1
    <3>2. CASE m # n
      BY <1>6, <1>7, <3>2 DEF RowInv, Numbered
    <3> QED
      BY <3>1, <3>2
  <2> QED
    BY <1>1, <1>2, <1>6, <2>1 DEF Numbered
<1>10. AssignmentRows(new, now2)
  BY <1>6, <1>7 DEF RowInv, AssignmentRows, Terminal, Active
<1>11. OutboxRows(new, ended)
  BY <1>6 DEF OutboxRows, Terminal, Assigned
<1>12. RequestRows(new)
  BY <1>6 DEF RowInv, RequestRows, Active, Terminal
<1> QED
  BY <1>8, <1>9, <1>10, <1>11, <1>12 DEF RowInv, new, now2

LEMMA TerminalizeInv ==
  ASSUME IInv, NEW s \in Sessions, NEW n \in Attempts, Resolvable(s, n),
         NEW state \in Terminal, NEW error \in Errors,
         Terminalize(s, n, state, error)
  PROVE  IInv'
<1> DEFINE row == session[s]
           new == [row EXCEPT !.state = state, !.active = 0, !.lease = 0,
                              !.error = error, !.journal = row.active]
           try == [attempt[s][n] EXCEPT !.state = state, !.lease = 0]
           tries == [attempt[s] EXCEPT ![n] = try]
<1>1. /\ RowInv(row, attempt[s], completion[s]) /\ row.active = n
      /\ row.state \in Active /\ completion[s] = NoCompletion
  BY ResolvableRows DEF Assigned, Active
<1>2. attempt[s] \in [Attempts -> AttemptRow] /\ completion[s] \in CompletionRow
  BY <1>1 DEF RowInv, RowTypes
<1>3. state \in AttemptStates
  BY DEF AttemptStates
<1>4. try \in AttemptRow /\ try.state = state /\ try.token = attempt[s][n].token
  BY <1>2, <1>3 DEF AttemptRow
<1>5. completion[s].attempt = 0
  BY <1>1 DEF NoCompletion
<1>6. RowInv(new, tries, completion[s])
  <2> HIDE DEF try
  <2> QED
    BY <1>1, <1>2, <1>4, <1>5, EndedRows
<1>7. session' = [session EXCEPT ![s] = new] /\ attempt' = [attempt EXCEPT ![s] = tries]
  BY <1>1 DEF Terminalize
<1>8. RowStep(s, new, tries, completion[s])
  BY <1>7 DEF Terminalize, RowStep, IInv
<1> QED
  BY <1>6, <1>8, RowStepInv DEF Terminalize, IInv

LEMMA StageOutputInv ==
  ASSUME IInv, NEW s \in Sessions, NEW n \in Attempts,
         NEW output \in Outputs("agent"), StageOutput(s, n, output)
  PROVE  IInv'
<1> DEFINE row == session[s]
           new == [row EXCEPT !.state = "committing", !.lease = 0,
                              !.error = "none", !.journal = n]
           try == [attempt[s][n] EXCEPT !.state = "committing", !.lease = 0]
           tries == [attempt[s] EXCEPT ![n] = try]
           out == [attempt |-> n, token |-> attempt[s][n].token,
                   terminal |-> output[1], error |-> output[2],
                   retryAt |-> now, projected |-> FALSE, finalized |-> FALSE]
<1>1. Resolvable(s, n)
  BY DEF StageOutput
<1>2. /\ RowInv(row, attempt[s], completion[s])
      /\ row.active = n /\ n = row.attempts /\ n # 0
      /\ row.token = n /\ attempt[s][n].token = n
      /\ row.request \in Requests /\ row.state \in Assigned
  BY <1>1, ResolvableRows
<1>3. row \in SessionRow /\ attempt[s] \in [Attempts -> AttemptRow] /\ now \in Nat
  BY <1>2 DEF RowInv, RowTypes, IInv
<1>4. /\ "committing" \in SessionStates /\ "committing" \in AttemptStates
      /\ "none" \in Errors /\ n \in AttemptNumbers
  BY DEF SessionStates, Active, AttemptStates, Errors, Attempts, AttemptNumbers
<1>5. new \in SessionRow /\ try \in AttemptRow
  BY <1>3, <1>4 DEF SessionRow, AttemptRow
<1>6. /\ output[1] \in StagedStates /\ output[2] \in Errors
      /\ output[1] \in {"succeeded", "blocked"}
  BY DEF Outputs, StagedStates, Errors
<1>7. out \in CompletionRow
  <2>1. out.attempt \in AttemptNumbers /\ out.token \in AttemptNumbers
    BY <1>2, <1>4
  <2> QED
    BY <1>2, <1>3, <1>4, <1>6 DEF CompletionRow
<1>8. /\ new.state = "committing" /\ new.active = n /\ new.attempts = n
      /\ new.token = n /\ new.journal = n /\ new.lease = 0
      /\ new.request = row.request
      /\ try.state = "committing" /\ try.token = n /\ try.lease = 0
      /\ out.attempt = n /\ out.token = n /\ ~out.finalized
      /\ out.terminal \in {"succeeded", "blocked"}
  BY <1>2, <1>3, <1>6 DEF SessionRow, AttemptRow
<1>9. /\ session' = [session EXCEPT ![s] = new]
      /\ attempt' = [attempt EXCEPT ![s] = tries]
      /\ completion' = [completion EXCEPT ![s] = out]
  BY DEF StageOutput
<1> HIDE DEF new, try, out
<1>10. /\ tries \in [Attempts -> AttemptRow] /\ tries[n] = try
       /\ \A m \in Attempts : m # n => tries[m] = attempt[s][m]
  BY <1>3, <1>5
<1> HIDE DEF tries
<1>11. RowTypes(new, tries, out)
  BY <1>5, <1>7, <1>10 DEF RowTypes
<1>12. Numbered(new, tries)
  BY <1>2, <1>8, <1>10 DEF RowInv, Numbered, Attempts
<1>13. AssignmentRows(new, tries)
  BY <1>2, <1>8, <1>10 DEF RowInv, AssignmentRows, Active
<1>14. OutboxRows(new, out)
  BY <1>2, <1>8 DEF OutboxRows, Assigned
<1>15. RequestRows(new)
  BY <1>2, <1>8 DEF RequestRows
<1>16. RowInv(new, tries, out)
  BY <1>11, <1>12, <1>13, <1>14, <1>15 DEF RowInv
<1>17. RowStep(s, new, tries, out)
  BY <1>9 DEF RowStep
<1> QED
  BY <1>16, <1>17, RowStepInv DEF StageOutput, IInv

-----------------------------------------------------------------------------
(* Outbox *)

LEMMA StagedRows ==
  ASSUME IInv, NEW s \in Sessions, NEW n \in Attempts, StagedBy(s, n)
  PROVE  /\ RowInv(session[s], attempt[s], completion[s])
         /\ session[s].state = "committing" /\ session[s].active = n
<1>1. RowInv(session[s], attempt[s], completion[s])
  BY DEF IInv
<1>2. completion[s].attempt = n /\ ~completion[s].finalized /\ n # 0
  BY DEF StagedBy, Attempts
<1>3. session[s].state = "committing"
  BY <1>1, <1>2 DEF RowInv, OutboxRows
<1> QED
  BY <1>1, <1>2, <1>3 DEF RowInv, OutboxRows

(* Retry bookkeeping changes neither the assignment nor whose result it is. *)
LEMMA BookkeepingInv ==
  ASSUME IInv, NEW s \in Sessions, NEW n \in Attempts, StagedBy(s, n),
         NEW out \in CompletionRow, out.attempt = completion[s].attempt,
         out.token = completion[s].token, out.terminal = completion[s].terminal,
         ~out.finalized,
         completion' = [completion EXCEPT ![s] = out],
         UNCHANGED <<session, attempt, nextSequence, now>>
  PROVE  IInv'
<1>1. /\ RowInv(session[s], attempt[s], completion[s])
      /\ session[s].state = "committing" /\ session[s].active = n
  BY StagedRows
<1>2. RowTypes(session[s], attempt[s], out)
  BY <1>1 DEF RowInv, RowTypes
<1>3. n # 0 /\ completion[s].attempt = n
  BY DEF StagedBy, Attempts
<1>4. OutboxRows(session[s], out)
  BY <1>1, <1>3 DEF RowInv, OutboxRows, Assigned
<1>5. RowInv(session[s], attempt[s], out)
  BY <1>1, <1>2, <1>4 DEF RowInv
<1>6. RowStep(s, session[s], attempt[s], out)
  BY DEF RowStep, IInv
<1> QED
  BY <1>5, <1>6, RowStepInv DEF IInv

LEMMA RecordCompletionErrorInv ==
  ASSUME IInv, NEW s \in Sessions, NEW n \in Attempts, RecordCompletionError(s, n)
  PROVE  IInv'
<1>1. StagedBy(s, n) /\ completion[s] \in CompletionRow /\ ~completion[s].finalized
  BY DEF RecordCompletionError, IInv, StagedBy
<1>2. PICK d \in RetryDelays : completion' = [completion EXCEPT ![s].retryAt = now + d]
  BY DEF RecordCompletionError
<1> DEFINE out == [completion[s] EXCEPT !.retryAt = now + d]
<1>3. now + d \in Nat
  BY DEF IInv
<1>4. /\ out \in CompletionRow /\ out.attempt = completion[s].attempt
      /\ out.token = completion[s].token /\ ~out.finalized
      /\ out.terminal = completion[s].terminal
  BY <1>1, <1>3 DEF CompletionRow
<1>5. completion' = [completion EXCEPT ![s] = out]
  BY <1>2
<1> HIDE DEF out
<1> QED
  BY <1>1, <1>4, <1>5, BookkeepingInv DEF RecordCompletionError

LEMMA MarkCompletionProjectedInv ==
  ASSUME IInv, NEW s \in Sessions, NEW n \in Attempts, MarkCompletionProjected(s, n)
  PROVE  IInv'
<1> DEFINE out == [completion[s] EXCEPT !.projected = TRUE]
<1>1. StagedBy(s, n) /\ completion[s] \in CompletionRow /\ ~completion[s].finalized
  BY DEF MarkCompletionProjected, IInv, StagedBy
<1>2. /\ out \in CompletionRow /\ out.attempt = completion[s].attempt
      /\ out.token = completion[s].token /\ ~out.finalized
      /\ out.terminal = completion[s].terminal
  BY <1>1 DEF CompletionRow
<1>3. completion' = [completion EXCEPT ![s] = out]
  BY DEF MarkCompletionProjected
<1> HIDE DEF out
<1> QED
  BY <1>1, <1>2, <1>3, BookkeepingInv DEF MarkCompletionProjected

(* Both ways a committing session is released.                             *)
LEMMA ReleaseInv ==
  ASSUME IInv, NEW s \in Sessions, NEW n \in Attempts, CommittingBy(s, n),
         NEW state \in Terminal, NEW error \in Errors, Release(s, n, state, error),
         NEW ended \in CompletionRow, ended.finalized,
         completion' = [completion EXCEPT ![s] = ended],
         UNCHANGED <<nextSequence, now>>
  PROVE  IInv'
<1> DEFINE row == session[s]
           new == [row EXCEPT !.state = state, !.active = 0, !.lease = 0,
                              !.error = error, !.journal = row.active]
           try == [attempt[s][n] EXCEPT !.state = state]
           tries == [attempt[s] EXCEPT ![n] = try]
<1>1. RowInv(row, attempt[s], completion[s])
  BY DEF IInv
<1>2. row.active = n /\ row.state = "committing" /\ n # 0
  BY DEF CommittingBy, FenceMatches, Attempts
<1>3. attempt[s][n].state = "committing"
  BY <1>1, <1>2 DEF RowInv, AssignmentRows
<1>4. attempt[s] \in [Attempts -> AttemptRow]
  BY <1>1 DEF RowInv, RowTypes
<1>5. try \in AttemptRow /\ try.state = state /\ try.token = attempt[s][n].token
  <2>1. state \in AttemptStates
    BY DEF AttemptStates
  <2> QED
    BY <1>4, <2>1 DEF AttemptRow
<1>6. session' = [session EXCEPT ![s] = new] /\ attempt' = [attempt EXCEPT ![s] = tries]
  BY <1>2, <1>3 DEF Release
<1> HIDE DEF try
<1>7. RowInv(new, tries, ended)
  <2>1. row.state \in Active
    BY <1>2 DEF Active
  <2> QED
    BY <1>1, <1>2, <1>5, <2>1, EndedRows
<1>8. RowStep(s, new, tries, ended)
  BY <1>6 DEF RowStep
<1> QED
  BY <1>7, <1>8, RowStepInv DEF IInv

LEMMA FinalizeCompletionInv ==
  ASSUME IInv, NEW s \in Sessions, NEW n \in Attempts, FinalizeCompletion(s, n)
  PROVE  IInv'
<1> DEFINE ended == [completion[s] EXCEPT !.finalized = TRUE]
<1>1. completion[s] \in CompletionRow
  BY DEF IInv
<1>2. ended \in CompletionRow /\ ended.finalized /\ completion[s].error \in Errors
  BY <1>1 DEF CompletionRow
<1>3. completion' = [completion EXCEPT ![s] = ended]
  BY DEF FinalizeCompletion
<1>4. completion[s].terminal \in Terminal
  BY StagedRows DEF FinalizeCompletion, RowInv, OutboxRows, Terminal
<1> HIDE DEF ended
<1> QED
  BY <1>2, <1>3, <1>4, ReleaseInv DEF FinalizeCompletion

LEMMA RejectCompletionInv ==
  ASSUME IInv, NEW s \in Sessions, NEW n \in Attempts, RejectCompletion(s, n)
  PROVE  IInv'
<1> DEFINE ended == [completion[s] EXCEPT !.terminal = "blocked", !.finalized = TRUE]
<1>1. completion[s] \in CompletionRow /\ RowInv(session[s], attempt[s], completion[s])
  BY DEF IInv
<1>2. "blocked" \in StagedStates /\ "blocked" \in Terminal /\ "other" \in Errors
  BY DEF StagedStates, Terminal, Errors
<1>3. ended \in CompletionRow /\ ended.finalized
  BY <1>1, <1>2 DEF CompletionRow
<1>4. StagedBy(s, n)
  BY <1>1 DEF RejectCompletion, CommittingBy, FenceMatches, StagedBy, RowInv,
     OutboxRows
<1>5. completion' = [completion EXCEPT ![s] = ended]
  BY <1>4 DEF RejectCompletion
<1> HIDE DEF ended
<1> QED
  BY <1>2, <1>3, <1>5, ReleaseInv DEF RejectCompletion

-----------------------------------------------------------------------------
(* The invariant and what follows from it *)

LEMMA ClientInv ==
  ASSUME IInv, NEW s \in Sessions, ClientNext(s)
  PROVE  IInv'
<1>1. CASE Cancel(s)
  BY <1>1, CancelInv
<1>2. CASE RemoveTerminal(s)
  BY <1>2, RemoveTerminalInv
<1>3. ASSUME NEW r \in Requests, Enqueue(s, r) PROVE IInv'
  BY <1>3, EnqueueInv
<1>4. ASSUME NEW r \in Requests, ResumeAfterApproval(s, r) PROVE IInv'
  BY <1>4, RequeueInv DEF ResumeAfterApproval
<1>5. ASSUME NEW r \in Requests, ContinueInterrupted(s, r) PROVE IInv'
  BY <1>5, RequeueInv DEF ContinueInterrupted
<1> QED
  BY <1>1, <1>2, <1>3, <1>4, <1>5 DEF ClientNext

LEMMA HolderInv ==
  ASSUME IInv, NEW s \in Sessions, NEW n \in Attempts, HolderNext(s, n)
  PROVE  IInv'
<1>1. CASE Renew(s, n)
  BY <1>1, RenewInv
<1>2. CASE AppendAssignmentEvent(s, n)
  BY <1>2, AppendAssignmentEventInv
<1>3. ASSUME NEW id \in Runtimes, BindOpencodeSession(s, n, id) PROVE IInv'
  BY <1>3, BindOpencodeSessionInv
<1>4. CASE ResolveCancelling(s, n)
  <2>1. "cancelled" \in Terminal /\ "none" \in Errors
    BY DEF Terminal, Errors
  <2> QED
    BY <1>4, <2>1, TerminalizeInv DEF ResolveCancelling
<1>5. ASSUME NEW outcome \in PlainOutcomes, ResolvePlain(s, n, outcome) PROVE IInv'
  <2>1. outcome[1] \in Terminal /\ outcome[2] \in Errors
    BY DEF PlainOutcomes, Terminal, Errors
  <2> QED
    BY <1>5, <2>1, TerminalizeInv DEF ResolvePlain
<1>6. ASSUME NEW output \in Outputs("agent"), StageOutput(s, n, output) PROVE IInv'
  BY <1>6, StageOutputInv
<1> QED
  BY <1>1, <1>2, <1>3, <1>4, <1>5, <1>6 DEF HolderNext

LEMMA OutboxInv ==
  ASSUME IInv, NEW s \in Sessions, NEW n \in Attempts, OutboxNext(s, n)
  PROVE  IInv'
  BY RecordCompletionErrorInv, MarkCompletionProjectedInv, FinalizeCompletionInv,
     RejectCompletionInv DEF OutboxNext

LEMMA NextInv == IInv /\ [Next]_vars => IInv'
<1> SUFFICES ASSUME IInv, [Next]_vars PROVE IInv'
  OBVIOUS
<1>1. ASSUME NEW s \in Sessions, ClientNext(s) PROVE IInv'
  BY <1>1, ClientInv
<1>2. ASSUME NEW s \in Sessions, NEW o \in Owners, ClaimNext(o, s) PROVE IInv'
  BY <1>2, ClaimInv
<1>3. ASSUME NEW s \in Sessions, NEW n \in Attempts,
             HolderNext(s, n) \/ OutboxNext(s, n)
      PROVE  IInv'
  BY <1>3, HolderInv, OutboxInv
<1>4. ASSUME NEW o \in Owners, AbandonOwner(o) PROVE IInv'
  <2>1. OwnedBy(o) \in SUBSET Running
    BY DEF OwnedBy
  <2> QED
    BY <1>4, <2>1, RecoverInv DEF AbandonOwner
<1>5. CASE RecoverExpired
  <2>1. Expired \in SUBSET Running
    BY DEF Expired
  <2> QED
    BY <1>5, <2>1, RecoverInv DEF RecoverExpired
<1>6. ASSUME NEW t \in 0..MaxNow, SetClock(t) PROVE IInv'
  BY <1>6 DEF SetClock, IInv
<1>7. CASE UNCHANGED vars
  BY <1>7 DEF vars, IInv
<1> QED
  BY <1>1, <1>2, <1>3, <1>4, <1>5, <1>6, <1>7 DEF Next

LEMMA SpecInv == Spec => []IInv
  BY InitInv, NextInv, PTL DEF Spec

(* Every reachable state has the declared types: no attempt number, token  *)
(* or lease leaves its range.                                              *)
THEOREM TypeCorrect == Spec => []TypeOK
<1>1. IInv => TypeOK
  BY DEF IInv, TypeOK
<1> QED
  BY <1>1, SpecInv, PTL

(* A session and its attempts always agree on the assignment: what         *)
(* recover_matching_attempts and renew_at take for granted.                *)
LEMMA RowsAgreeAlways == Spec => []RowsAgree
<1>1. ASSUME IInv, NEW s \in Sessions
      PROVE  /\ session[s].state \in Active <=> session[s].active # 0
             /\ session[s].active # 0 =>
                  /\ session[s].active = session[s].attempts
                  /\ FenceMatches(s, session[s].active)
                  /\ attempt[s][session[s].active].state =
                       (IF session[s].state = "committing" THEN "committing"
                                                           ELSE "running")
                  /\ attempt[s][session[s].active].lease = session[s].lease
             /\ \A n \in Attempts :
                  attempt[s][n].state \in {"running", "committing"} =>
                    session[s].active = n
  <2>1. RowInv(session[s], attempt[s], completion[s])
    BY <1>1 DEF IInv
  <2>2. session[s].active # 0 => FenceMatches(s, session[s].active)
    <3>1. HAVE session[s].active # 0
    <3>2. session[s].active \in Attempts
      BY <2>1, <3>1, RowFacts DEF AttemptNumbers, Attempts
    <3>3. session[s].active = session[s].attempts /\ session[s].token = session[s].attempts
      BY <2>1, <3>1 DEF RowInv, AssignmentRows, Numbered
    <3>4. attempt[s][session[s].active].state \in {"running", "committing"}
      BY <2>1, <3>1 DEF RowInv, AssignmentRows
    <3>5. attempt[s][session[s].active].token = session[s].active
      BY <2>1, <3>2, <3>4 DEF RowInv, Numbered
    <3> QED
      BY <3>3, <3>4, <3>5 DEF FenceMatches
  <2> QED
    BY <2>1, <2>2 DEF RowInv, AssignmentRows
<1>2. IInv => RowsAgree
  BY <1>1 DEF RowsAgree
<1> QED
  BY <1>2, SpecInv, PTL

(* A result waits in the outbox exactly while its session commits it.      *)
THEOREM OutboxAgrees == Spec => []OutboxConsistent
<1>1. ASSUME IInv, NEW s \in Sessions, session[s].state = "committing"
      PROVE  StagedBy(s, session[s].active)
  <2>1. RowInv(session[s], attempt[s], completion[s])
    BY <1>1 DEF IInv
  <2>2. session[s].active # 0 /\ session[s].active \in Attempts
    BY <1>1, <2>1, RowFacts DEF RowInv, AssignmentRows, Active, AttemptNumbers, Attempts
  <2>3. attempt[s][session[s].active].state = "committing"
    BY <1>1, <2>1, <2>2 DEF RowInv, AssignmentRows
  <2>4. attempt[s][session[s].active].token = session[s].token
    BY <2>1, <2>2, <2>3 DEF RowInv, AssignmentRows, Numbered
  <2> QED
    BY <1>1, <2>1, <2>3, <2>4 DEF RowInv, OutboxRows, StagedBy
<1>2. IInv => OutboxConsistent
  BY <1>1 DEF IInv, RowInv, OutboxRows, OutboxConsistent
<1> QED
  BY <1>2, SpecInv, PTL

(* A fencing token names one assignment of a session for ever.             *)
THEOREM TokensGrow == Spec => []TokensIncrease
<1>1. ASSUME IInv, NEW s \in Sessions, NEW m \in Attempts, NEW n \in Attempts,
             m < n, attempt[s][n].state # "none"
      PROVE  /\ attempt[s][m].state # "none"
             /\ attempt[s][m].token < attempt[s][n].token
             /\ attempt[s][n].token <= session[s].token
  <2>1. RowInv(session[s], attempt[s], completion[s])
    BY <1>1 DEF IInv
  <2>2. n <= session[s].attempts /\ session[s].attempts \in Nat
    BY <1>1, <2>1, RowFacts DEF RowInv, Numbered
  <2>3. m <= session[s].attempts
    BY <1>1, <2>2 DEF Attempts
  <2> QED
    BY <1>1, <2>1, <2>2, <2>3 DEF RowInv, Numbered
<1>2. IInv => TokensIncrease
  BY <1>1 DEF TokensIncrease
<1> QED
  BY <1>2, SpecInv, PTL

(* The rows of an assignment agree and its fence is nobody else's.         *)
THEOREM AssignmentAgrees == Spec => []AssignmentConsistent
<1>1. RowsAgree /\ TokensIncrease => AssignmentConsistent
  BY DEF AssignmentConsistent
<1> QED
  BY <1>1, RowsAgreeAlways, TokensGrow, PTL

-----------------------------------------------------------------------------
(* Cancellation *)

(* Recovery ends a cancelling session or leaves it alone.                  *)
LEMMA CancellingAfter ==
  ASSUME NEW hit, NEW s \in Sessions, session \in [Sessions -> SessionRow],
         session[s].state = "cancelling"
  PROVE  SessionsAfter(hit)[s].state \in {"cancelling", "cancelled"}
  BY DEF SessionsAfter, RecoveredRow, RecoveredState, SessionRow

LEMMA CancelStep ==
  ASSUME session \in [Sessions -> SessionRow], Next,
         NEW s \in Sessions, session[s].state = "cancelling"
  PROVE  session'[s].state \in {"cancelling", "cancelled"}
<1>1. ASSUME NEW t \in Sessions, ClientNext(t)
      PROVE  session'[s].state = "cancelling"
  <2>1. CASE Cancel(t)
    BY <2>1 DEF Cancel
  <2>2. CASE RemoveTerminal(t)
    BY <2>2 DEF RemoveTerminal, Terminal
  <2>3. CASE \E r \in Requests : Enqueue(t, r)
    BY <2>3 DEF Enqueue
  <2>4. CASE \E r \in Requests : ResumeAfterApproval(t, r) \/ ContinueInterrupted(t, r)
    BY <2>4 DEF ResumeAfterApproval, ContinueInterrupted, Requeue
  <2> QED
    BY <1>1, <2>1, <2>2, <2>3, <2>4 DEF ClientNext
<1>2. ASSUME NEW t \in Sessions, NEW o \in Owners, ClaimNext(o, t)
      PROVE  session'[s].state \in {"cancelling", "cancelled"}
  <2>1. SessionsAfter(Expired)[s].state \in {"cancelling", "cancelled"}
    BY CancellingAfter
  <2>2. SessionsAfter(Expired)[t].state = "queued"
    BY <1>2 DEF ClaimNext, Candidate, Eligible
  <2>3. session' = [SessionsAfter(Expired) EXCEPT ![t] = ClaimedRow(SessionsAfter(Expired)[t])]
    BY <1>2 DEF ClaimNext, Assign
  <2>4. s # t
    BY <2>1, <2>2
  <2> QED
    BY <2>1, <2>3, <2>4 DEF SessionsAfter
<1>3. ASSUME NEW t \in Sessions, NEW n \in Attempts, HolderNext(t, n)
      PROVE  session'[s].state \in {"cancelling", "cancelled"}
  <2>1. CASE Renew(t, n)
    BY <2>1 DEF Renew
  <2>2. CASE AppendAssignmentEvent(t, n)
    BY <2>2 DEF AppendAssignmentEvent
  <2>3. CASE \E id \in Runtimes : BindOpencodeSession(t, n, id)
    BY <2>3 DEF BindOpencodeSession
  <2>4. CASE ResolveCancelling(t, n)
    BY <2>4 DEF ResolveCancelling, Terminalize
  <2>5. CASE \E outcome \in PlainOutcomes : ResolvePlain(t, n, outcome)
    BY <2>5 DEF ResolvePlain, Terminalize
  <2>6. CASE \E output \in Outputs("agent") : StageOutput(t, n, output)
    BY <2>6 DEF StageOutput
  <2> QED
    BY <1>3, <2>1, <2>2, <2>3, <2>4, <2>5, <2>6 DEF HolderNext
<1>4. ASSUME NEW t \in Sessions, NEW n \in Attempts, OutboxNext(t, n)
      PROVE  session'[s].state = "cancelling"
  <2>1. CASE RecordCompletionError(t, n) \/ MarkCompletionProjected(t, n)
    BY <2>1 DEF RecordCompletionError, MarkCompletionProjected
  <2>2. CASE FinalizeCompletion(t, n) \/ RejectCompletion(t, n)
    BY <2>2 DEF FinalizeCompletion, RejectCompletion, Release, CommittingBy
  <2> QED
    BY <1>4, <2>1, <2>2 DEF OutboxNext
<1>5. ASSUME NEW hit, Recover(hit)
      PROVE  session'[s].state \in {"cancelling", "cancelled"}
  BY <1>5, CancellingAfter DEF Recover
<1>6. ASSUME NEW t \in 0..MaxNow, SetClock(t) PROVE session'[s].state = "cancelling"
  BY <1>6 DEF SetClock
<1> QED
  BY <1>1, <1>2, <1>3, <1>4, <1>5, <1>6 DEF Next, AbandonOwner, RecoverExpired

(* A cancellation that was accepted wins over every later report, recovery *)
(* and claim: cancel_at promises the user that the session ends cancelled. *)
THEOREM CancellationWins == Spec => CancelWins
<1>1. IInv /\ [Next]_vars =>
        [\A s \in Sessions : session[s].state = "cancelling" =>
            session'[s].state \in {"cancelling", "cancelled"}]_vars
  BY CancelStep DEF IInv
<1> QED
  BY <1>1, SpecInv, PTL DEF Spec, CancelWins

-----------------------------------------------------------------------------
(* Exclusive ownership *)

(* A step that makes no session active keeps the owners apart.             *)
LEMMA FewerActive ==
  ASSUME ExclusiveOwnership,
         \A s \in Sessions : session'[s].state \in Active =>
            session[s].state \in Active /\ session'[s].request = session[s].request
  PROVE  ExclusiveOwnership'
  BY DEF ExclusiveOwnership

LEMMA ClaimExclusive ==
  ASSUME IInv, ExclusiveOwnership, NEW o \in Owners, NEW s \in Sessions, ClaimNext(o, s)
  PROVE  ExclusiveOwnership'
<1> DEFINE rows == SessionsAfter(Expired)
<1>1. Expired \in SUBSET Running
  BY DEF Expired
<1>2. \A t \in Sessions : rows[t].state \in Active => rows[t] = session[t]
  BY <1>1, AfterRows
<1>3. \A t \in Sessions : rows[t].state \in Active => ~Overlap(rows[s].request, rows[t].request)
  BY DEF ClaimNext, Candidate, Eligible
<1>4. rows[s] \in SessionRow /\ DOMAIN rows = Sessions
  BY <1>1, AfterRows DEF RowInv, RowTypes, SessionsAfter
<1>5. session' = [rows EXCEPT ![s] = ClaimedRow(rows[s])]
  BY DEF ClaimNext, Assign
<1>6. ClaimedRow(rows[s]).request = rows[s].request
  BY <1>4 DEF ClaimedRow, SessionRow
<1> HIDE DEF rows
<1>7. \A t \in Sessions : t # s => session'[t] = rows[t]
  BY <1>4, <1>5
<1>8. session'[s].request = rows[s].request
  BY <1>4, <1>5, <1>6
<1>9. ASSUME NEW t \in Sessions, NEW u \in Sessions, t # u,
             session'[t].state \in Active, session'[u].state \in Active
      PROVE  ~Overlap(session'[t].request, session'[u].request)
  <2>1. CASE t # s /\ u # s
    BY <1>2, <1>7, <1>9, <2>1 DEF ExclusiveOwnership
  <2>2. CASE t = s
    BY <1>3, <1>7, <1>8, <1>9, <2>2
  <2>3. CASE u = s
    <3>1. ~Overlap(session'[u].request, session'[t].request)
      BY <1>3, <1>7, <1>8, <1>9, <2>3
    <3> QED
      BY <3>1 DEF Overlap
  <2> QED
    BY <2>1, <2>2, <2>3
<1> QED
  BY <1>9 DEF ExclusiveOwnership

LEMMA ExclusiveStep == IInv /\ ExclusiveOwnership /\ [Next]_vars => ExclusiveOwnership'
<1> SUFFICES ASSUME IInv, ExclusiveOwnership, [Next]_vars PROVE ExclusiveOwnership'
  OBVIOUS
<1>0. session \in [Sessions -> SessionRow]
  BY DEF IInv
<1>1. ASSUME NEW t \in Sessions, ClientNext(t) PROVE ExclusiveOwnership'
  <2>1. CASE Cancel(t)
    BY <1>0, <2>1, FewerActive DEF Cancel, Active, SessionRow
  <2>2. CASE RemoveTerminal(t)
    BY <1>0, <2>2, FewerActive DEF RemoveTerminal, Removed, NoSession, Active
  <2>3. CASE \E r \in Requests : Enqueue(t, r)
    BY <1>0, <2>3, FewerActive DEF Enqueue, NoSession, Active
  <2>4. CASE \E r \in Requests : ResumeAfterApproval(t, r) \/ ContinueInterrupted(t, r)
    <3>1. PICK r \in Requests : Requeue(t, r)
      BY <2>4 DEF ResumeAfterApproval, ContinueInterrupted
    <3>2. session'[t].state = "queued" /\ \A s \in Sessions \ {t} : session'[s] = session[s]
      BY <1>0, <3>1 DEF Requeue, SessionRow
    <3> QED
      BY <3>2, FewerActive DEF Active
  <2> QED
    BY <1>1, <2>1, <2>2, <2>3, <2>4 DEF ClientNext
<1>2. ASSUME NEW t \in Sessions, NEW o \in Owners, ClaimNext(o, t)
      PROVE  ExclusiveOwnership'
  BY <1>2, ClaimExclusive
<1>3. ASSUME NEW t \in Sessions, NEW n \in Attempts, HolderNext(t, n)
      PROVE  ExclusiveOwnership'
  <2>1. CASE Renew(t, n)
    BY <1>0, <2>1, FewerActive DEF Renew, SessionRow
  <2>2. CASE AppendAssignmentEvent(t, n)
    BY <1>0, <2>2, FewerActive DEF AppendAssignmentEvent, SessionRow
  <2>3. CASE \E id \in Runtimes : BindOpencodeSession(t, n, id)
    BY <1>0, <2>3, FewerActive DEF BindOpencodeSession, SessionRow
  <2>4. CASE ResolveCancelling(t, n)
    BY <1>0, <2>4, FewerActive DEF ResolveCancelling, Terminalize, SessionRow, Active
  <2>5. CASE \E outcome \in PlainOutcomes : ResolvePlain(t, n, outcome)
    BY <1>0, <2>5, FewerActive DEF ResolvePlain, Terminalize, SessionRow, Active
  <2>6. CASE \E output \in Outputs("agent") : StageOutput(t, n, output)
    BY <1>0, <2>6, FewerActive DEF StageOutput, SessionRow, Active
  <2> QED
    BY <1>3, <2>1, <2>2, <2>3, <2>4, <2>5, <2>6 DEF HolderNext
<1>4. ASSUME NEW t \in Sessions, NEW n \in Attempts, OutboxNext(t, n)
      PROVE  ExclusiveOwnership'
  <2>1. CASE RecordCompletionError(t, n) \/ MarkCompletionProjected(t, n)
    BY <2>1, FewerActive DEF RecordCompletionError, MarkCompletionProjected
  <2>2. CASE FinalizeCompletion(t, n) \/ RejectCompletion(t, n)
    <3>1. completion[t].terminal \in StagedStates
      BY DEF IInv, CompletionRow
    <3>2. session'[t].state \in StagedStates
      <4>1. ASSUME NEW state, NEW error, Release(t, n, state, error)
            PROVE  session'[t].state = state
        BY <1>0, <4>1 DEF Release, SessionRow
      <4> QED
        BY <2>2, <3>1, <4>1 DEF FinalizeCompletion, RejectCompletion, StagedStates
    <3>3. \A s \in Sessions \ {t} : session'[s] = session[s]
      BY <1>0, <2>2 DEF FinalizeCompletion, RejectCompletion, Release
    <3> QED
      BY <3>2, <3>3, FewerActive DEF StagedStates, Active
  <2> QED
    BY <1>4, <2>1, <2>2 DEF OutboxNext
<1>5. ASSUME NEW hit \in SUBSET Running, Recover(hit) PROVE ExclusiveOwnership'
  BY <1>5, AfterRows, FewerActive DEF Recover
<1>6. ASSUME NEW o \in Owners, AbandonOwner(o) PROVE ExclusiveOwnership'
  <2>1. OwnedBy(o) \in SUBSET Running
    BY DEF OwnedBy
  <2> QED
    BY <1>5, <1>6, <2>1 DEF AbandonOwner
<1>7. CASE RecoverExpired
  <2>1. Expired \in SUBSET Running
    BY DEF Expired
  <2> QED
    BY <1>5, <1>7, <2>1 DEF RecoverExpired
<1>8. ASSUME NEW t \in 0..MaxNow, SetClock(t) PROVE ExclusiveOwnership'
  BY <1>8, FewerActive DEF SetClock
<1>9. CASE UNCHANGED vars
  BY <1>9, FewerActive DEF vars
<1> QED
  BY <1>1, <1>2, <1>3, <1>4, <1>6, <1>7, <1>8, <1>9 DEF Next

(* Sessions that share a conversation, a subject or an execution run never *)
(* hold it together: the candidate query of claim_next is the only lock    *)
(* the workspaces have.                                                    *)
THEOREM OwnershipIsExclusive == Spec => []ExclusiveOwnership
<1>1. Init => ExclusiveOwnership
  BY DEF Init, ExclusiveOwnership, NoSession, Active
<1> QED
  BY <1>1, ExclusiveStep, SpecInv, PTL DEF Spec

-----------------------------------------------------------------------------
(* What a step leaves of a session *)

(* What JournalFollowsAttempts, RuntimeBoundOnce, StagedResultKept and     *)
(* EndedAttemptsAreInert say of one session in one step.                   *)
JournalGrows(s) ==
  session'[s].state # "removed" => session'[s].journal >= session[s].journal

RuntimeStays(s) ==
  session[s].runtime # Null /\ session'[s].state # "removed" =>
    session'[s].runtime = session[s].runtime

ResultStays(s) ==
  session[s].state = "committing" =>
    \/ /\ session'[s].state = "committing"
       /\ completion'[s] = [completion[s] EXCEPT
            !.retryAt = completion'[s].retryAt,
            !.projected = completion'[s].projected]
       /\ completion[s].projected => completion'[s].projected
    \/ /\ session'[s].state \in {"blocked", completion[s].terminal}
       /\ completion'[s].finalized

EndsStay(s) ==
  \A n \in Attempts :
    attempt[s][n].state \in Terminal \cup {"interrupted"} =>
      attempt'[s][n] \in {attempt[s][n], NoAttempt}

Continues(s) == JournalGrows(s) /\ RuntimeStays(s) /\ ResultStays(s) /\ EndsStay(s)

LEMMA Untouched ==
  ASSUME IInv, NEW s \in Sessions, session'[s] = session[s],
         attempt'[s] = attempt[s], completion'[s] = completion[s]
  PROVE  Continues(s)
<1>1. RowInv(session[s], attempt[s], completion[s])
  BY DEF IInv
<1>2. completion[s] \in CompletionRow /\ session[s].journal \in Nat
  BY <1>1, RowFacts
<1>3. completion[s] = [completion[s] EXCEPT !.retryAt = completion[s].retryAt,
                                            !.projected = completion[s].projected]
  BY <1>2 DEF CompletionRow
<1> QED
  BY <1>2, <1>3 DEF Continues, JournalGrows, RuntimeStays, ResultStays, EndsStay

LEMMA SameAttempts ==
  ASSUME NEW s \in Sessions, attempt'[s] = attempt[s]
  PROVE  EndsStay(s)
BY DEF EndsStay

(* A session that is not committing and gets another row, whose outbox row *)
(* may go.                                                                 *)
LEMMA Moved ==
  ASSUME IInv, NEW s \in Sessions, session[s].state # "committing",
         session'[s].journal >= session[s].journal,
         session'[s].runtime = session[s].runtime \/ session[s].runtime = Null,
         EndsStay(s)
  PROVE  Continues(s)
BY DEF Continues, JournalGrows, RuntimeStays, ResultStays

LEMMA ClientContinues ==
  ASSUME IInv, NEW t \in Sessions, ClientNext(t), NEW s \in Sessions
  PROVE  Continues(s)
<1>0. /\ session \in [Sessions -> SessionRow]
      /\ attempt \in [Sessions -> [Attempts -> AttemptRow]]
      /\ completion \in [Sessions -> CompletionRow]
      /\ RowInv(session[t], attempt[t], completion[t])
  BY DEF IInv
<1>1. session[t].journal \in Nat /\ session[t] \in SessionRow
  BY <1>0, RowFacts
<1>2. CASE s # t
  <2>1. session'[s] = session[s] /\ attempt'[s] = attempt[s] /\ completion'[s] = completion[s]
    BY <1>0, <1>2 DEF ClientNext, Cancel, RemoveTerminal, Enqueue, ResumeAfterApproval,
       ContinueInterrupted, Requeue
  <2> QED BY <2>1, Untouched
<1>3. CASE s = t /\ Cancel(t)
  <2>1. /\ session'[s] = [session[s] EXCEPT !.state =
             IF @ = "queued" THEN "cancelled" ELSE "cancelling"]
        /\ attempt'[s] = attempt[s] /\ session[s].state # "committing"
    BY <1>0, <1>3 DEF Cancel
  <2>2. session'[s].journal = session[s].journal /\ session'[s].runtime = session[s].runtime
    BY <1>1, <1>3, <2>1 DEF SessionRow
  <2>3. EndsStay(s)
    BY <2>1, SameAttempts
  <2>4. session'[s].journal >= session[s].journal
    BY <1>1, <1>3, <2>2
  <2> QED BY <2>1, <2>2, <2>3, <2>4, Moved
<1>4. CASE s = t /\ RemoveTerminal(t)
  BY <1>0, <1>4 DEF RemoveTerminal, Removed, NoSession, Terminal, Continues, JournalGrows,
     RuntimeStays, ResultStays, EndsStay
<1>5. ASSUME s = t, NEW r \in Requests, Enqueue(t, r)
      PROVE  Continues(s)
  <2>1. session[s].attempts = 0 /\ session[s].runtime = Null /\ session[s].state = "absent"
    BY <1>0, <1>5 DEF Enqueue, RowInv, RequestRows
  <2>2. session[s].journal = 0
    BY <1>0, <1>1, <1>5, <2>1 DEF RowInv, Numbered
  <2>3. session'[s].journal = 0 /\ attempt'[s] = attempt[s]
    BY <1>0, <1>5 DEF Enqueue, NoSession
  <2>4. EndsStay(s)
    BY <2>3, SameAttempts
  <2> QED BY <2>1, <2>2, <2>3, <2>4, Moved
<1>6. ASSUME s = t, NEW r \in Requests, Requeue(t, r), session[t].state \in {"blocked", "failed"}
      PROVE  Continues(s)
  <2>1. /\ session'[s].journal = session[s].journal
        /\ session'[s].runtime = session[s].runtime /\ attempt'[s] = attempt[s]
    BY <1>0, <1>6 DEF Requeue, SessionRow
  <2>2. EndsStay(s)
    BY <2>1, SameAttempts
  <2> QED BY <1>1, <1>6, <2>1, <2>2, Moved
<1> QED
  BY <1>2, <1>3, <1>4, <1>5, <1>6 DEF ClientNext, ResumeAfterApproval, ContinueInterrupted

(* Recovery moves only what is running.                                    *)
LEMMA RecoverContinues ==
  ASSUME IInv, NEW hit \in SUBSET Running, NEW s \in Sessions
  PROVE  /\ SessionsAfter(hit)[s].journal \in Nat
         /\ SessionsAfter(hit)[s].journal >= session[s].journal
         /\ SessionsAfter(hit)[s].runtime = session[s].runtime
         /\ session[s].state = "committing" => SessionsAfter(hit)[s] = session[s]
         /\ \A n \in Attempts :
              attempt[s][n].state # "running" => AttemptsAfter(hit)[s][n] = attempt[s][n]
<1>1. RowInv(session[s], attempt[s], completion[s])
  BY DEF IInv
<1>2. /\ session[s] \in SessionRow /\ session[s].journal \in Nat
      /\ session[s].attempts \in Nat /\ session[s].journal <= session[s].attempts
      /\ session[s].active \in Nat
  BY <1>1, RowFacts DEF AttemptNumbers
<1>3. session[s].state \in Assigned => session[s].active = session[s].attempts
  BY <1>1 DEF RowInv, AssignmentRows, Assigned, Active
<1>4. /\ RecoveredRow(session[s]).journal = session[s].active
      /\ RecoveredRow(session[s]).runtime = session[s].runtime
  BY <1>2 DEF RecoveredRow, SessionRow
<1>5. SessionsAfter(hit)[s] =
        IF <<s, session[s].active>> \in hit /\ session[s].state \in Assigned
        THEN RecoveredRow(session[s]) ELSE session[s]
  BY DEF SessionsAfter
<1>6. \A n \in Attempts : attempt[s][n].state # "running" => <<s, n>> \notin hit
  BY DEF Running
<1>7. \A n \in Attempts :
        attempt[s][n].state # "running" => AttemptsAfter(hit)[s][n] = attempt[s][n]
  BY <1>6 DEF AttemptsAfter
<1>8. session[s].state = "committing" => SessionsAfter(hit)[s] = session[s]
  BY <1>5 DEF Assigned
<1>9. CASE SessionsAfter(hit)[s] = session[s]
  BY <1>2, <1>7, <1>8, <1>9
<1>10. CASE SessionsAfter(hit)[s] = RecoveredRow(session[s]) /\ session[s].state \in Assigned
  BY <1>2, <1>3, <1>4, <1>7, <1>8, <1>10
<1> QED
  BY <1>5, <1>9, <1>10

LEMMA RecoveryContinues ==
  ASSUME IInv, NEW hit \in SUBSET Running, Recover(hit), NEW s \in Sessions
  PROVE  Continues(s)
<1>1. CASE session[s].state = "committing"
  <2>1. session'[s] = session[s] /\ completion'[s] = completion[s]
    BY <1>1, RecoverContinues DEF Recover
  <2>2. EndsStay(s)
    BY RecoverContinues DEF Recover, EndsStay, Terminal
  <2>3. session[s].journal \in Nat /\ completion[s] \in CompletionRow
    BY RowFacts DEF IInv
  <2>4. completion[s] = [completion[s] EXCEPT !.retryAt = completion[s].retryAt,
                                              !.projected = completion[s].projected]
    BY <2>3 DEF CompletionRow
  <2> QED
    BY <2>1, <2>2, <2>3, <2>4 DEF Continues, JournalGrows, RuntimeStays, ResultStays
<1>2. CASE session[s].state # "committing"
  <2>1. EndsStay(s)
    BY RecoverContinues DEF Recover, EndsStay, Terminal
  <2> QED
    BY <1>2, <2>1, RecoverContinues, Moved DEF Recover
<1> QED BY <1>1, <1>2

LEMMA ClaimContinues ==
  ASSUME IInv, NEW o \in Owners, NEW t \in Sessions, ClaimNext(o, t), NEW s \in Sessions
  PROVE  Continues(s)
<1> DEFINE rows == SessionsAfter(Expired)
           tries == AttemptsAfter(Expired)
           k == rows[t].attempts + 1
<1>1. Expired \in SUBSET Running
  BY DEF Expired
<1>2. /\ rows[t].state = "queued"
      /\ session' = [rows EXCEPT ![t] = ClaimedRow(rows[t])]
      /\ \E try : attempt' = [tries EXCEPT ![t] = [tries[t] EXCEPT ![k] = try]]
      /\ UNCHANGED completion
  BY DEF ClaimNext, Candidate, Eligible, Assign
<1>3. DOMAIN rows = Sessions /\ DOMAIN tries = Sessions
  BY DEF SessionsAfter, AttemptsAfter
<1>4. RowInv(rows[t], tries[t], completion[t])
  BY <1>1, AfterRows
<1>5. /\ rows[t] \in SessionRow /\ rows[t].attempts \in Nat /\ rows[t].journal \in Nat
      /\ rows[t].journal <= rows[t].attempts /\ tries[t] \in [Attempts -> AttemptRow]
  BY <1>4, RowFacts
<1>6. ClaimedRow(rows[t]).journal = k /\ ClaimedRow(rows[t]).runtime = rows[t].runtime
  BY <1>5 DEF ClaimedRow, SessionRow
<1>7. session[t].journal \in Nat /\ session[s].journal \in Nat /\ completion[s] \in CompletionRow
  BY RowFacts DEF IInv
<1>8. /\ rows[s].journal \in Nat /\ rows[s].journal >= session[s].journal
      /\ rows[s].runtime = session[s].runtime
      /\ session[s].state = "committing" => rows[s] = session[s]
      /\ \A n \in Attempts : attempt[s][n].state # "running" => tries[s][n] = attempt[s][n]
  BY <1>1, RecoverContinues
<1>9. k \in Attempts => tries[t][k].state = "none"
  BY <1>4, <1>5 DEF RowInv, Numbered
<1> HIDE DEF rows, tries, k
<1>10. EndsStay(s)
  <2>1. ASSUME NEW n \in Attempts, attempt[s][n].state \in Terminal \cup {"interrupted"}
        PROVE  attempt'[s][n] = attempt[s][n]
    <3>1. attempt[s][n].state # "running" /\ attempt[s][n].state # "none"
      BY <2>1 DEF Terminal
    <3>2. tries[s][n] = attempt[s][n]
      BY <1>8, <3>1
    <3>3. ~(s = t /\ n = k)
      BY <1>9, <3>1, <3>2
    <3> QED BY <1>2, <1>3, <1>5, <3>2, <3>3
  <2> QED BY <2>1 DEF EndsStay
<1>11. CASE s = t
  <2>1. session'[s] = ClaimedRow(rows[t])
    BY <1>2, <1>3, <1>11
  <2>2. session[s].state # "committing"
    BY <1>2, <1>8, <1>11
  <2>3. k >= rows[t].journal
    BY <1>5 DEF k
  <2>4. k \in Nat
    BY <1>5 DEF k
  <2>5. session'[s].journal >= session[s].journal
    BY <1>5, <1>6, <1>7, <1>8, <1>11, <2>1, <2>3, <2>4
  <2> QED BY <1>6, <1>8, <1>10, <1>11, <2>1, <2>2, <2>5, Moved
<1>12. CASE s # t
  <2>1. session'[s] = rows[s]
    BY <1>2, <1>3, <1>12
  <2>2. CASE session[s].state # "committing"
    BY <1>8, <1>10, <2>1, <2>2, Moved
  <2>3. CASE session[s].state = "committing"
    <3>1. completion[s] = [completion[s] EXCEPT !.retryAt = completion[s].retryAt,
                                                !.projected = completion[s].projected]
      BY <1>7 DEF CompletionRow
    <3> QED
      BY <1>2, <1>7, <1>8, <1>10, <2>1, <2>3, <3>1
         DEF Continues, JournalGrows, RuntimeStays, ResultStays
  <2> QED BY <2>2, <2>3
<1> QED BY <1>11, <1>12

(* The row of an attempt that ran is replaced, and no other.               *)
LEMMA EndsOther ==
  ASSUME attempt \in [Sessions -> [Attempts -> AttemptRow]],
         NEW s \in Sessions, NEW t \in Sessions, NEW n \in Attempts, NEW try,
         attempt' = [attempt EXCEPT ![t][n] = try],
         attempt[t][n].state \notin Terminal \cup {"interrupted"} \/ try = attempt[t][n]
  PROVE  EndsStay(s)
<1>1. ASSUME NEW m \in Attempts, attempt[s][m].state \in Terminal \cup {"interrupted"}
      PROVE  attempt'[s][m] = attempt[s][m]
  <2>1. CASE s = t /\ m = n
    BY <1>1, <2>1
  <2>2. CASE ~(s = t /\ m = n)
    BY <2>2
  <2> QED BY <2>1, <2>2
<1> QED BY <1>1 DEF EndsStay

LEMMA HolderContinues ==
  ASSUME IInv, NEW t \in Sessions, NEW n \in Attempts, HolderNext(t, n), NEW s \in Sessions
  PROVE  Continues(s)
<1>0. /\ session \in [Sessions -> SessionRow]
      /\ attempt \in [Sessions -> [Attempts -> AttemptRow]]
      /\ completion \in [Sessions -> CompletionRow]
      /\ RowInv(session[t], attempt[t], completion[t])
  BY DEF IInv
<1>1. /\ session[t].journal \in Nat /\ session[t] \in SessionRow /\ n \in Nat
      /\ session[t].journal <= session[t].attempts /\ session[t].attempts \in Nat
  BY <1>0, RowFacts DEF Attempts
<1>2. ASSUME Resolvable(t, n)
      PROVE  /\ session[t].journal <= n
             /\ session[t].state # "committing"
             /\ attempt[t][n].state \notin Terminal \cup {"interrupted"}
  <2>1. session[t].state \in Active /\ session[t].active = n
    BY <1>2 DEF Resolvable, FenceMatches, Assigned, Active
  <2>2. session[t].active = session[t].attempts
    BY <1>0, <2>1 DEF RowInv, AssignmentRows
  <2> QED BY <1>1, <1>2, <2>1, <2>2 DEF Resolvable, Assigned, Terminal
<1>3. CASE s # t
  <2>1. session'[s] = session[s] /\ attempt'[s] = attempt[s] /\ completion'[s] = completion[s]
    BY <1>0, <1>3 DEF HolderNext, Renew, AppendAssignmentEvent, BindOpencodeSession,
       ResolveCancelling, ResolvePlain, StageOutput, Terminalize
  <2> QED BY <2>1, Untouched
<1>4. CASE s = t /\ Renew(t, n)
  <2>1. /\ attempt' = [attempt EXCEPT ![t][n] =
             [attempt[t][n] EXCEPT !.lease = now + LeaseTime]]
        /\ attempt[t][n].state = "running"
    BY <1>0, <1>4 DEF Renew
  <2>2. EndsStay(s)
    BY <1>0, <2>1, EndsOther DEF Terminal
  <2>3. /\ session'[s].journal = session[s].journal
        /\ session'[s].runtime = session[s].runtime
    BY <1>0, <1>4 DEF Renew, SessionRow
  <2>4. session[s].state # "committing"
    <3>1. session[t].active = n /\ n # 0
      BY <1>0, <2>1 DEF RowInv, AssignmentRows, Attempts
    <3> QED BY <1>0, <1>4, <2>1, <3>1 DEF RowInv, AssignmentRows
  <2>5. session'[s].journal >= session[s].journal
    BY <1>1, <1>4, <2>3
  <2> QED BY <2>2, <2>3, <2>4, <2>5, Moved
<1>5. ASSUME s = t, Resolvable(t, n), EndsStay(s), session'[t].journal = n,
             session'[t].runtime = session[t].runtime \/ session[t].runtime = Null
      PROVE  Continues(s)
  <2>1. session'[s].journal >= session[s].journal
    BY <1>1, <1>2, <1>5
  <2> QED BY <1>2, <1>5, <2>1, Moved
<1>6. CASE s = t /\ AppendAssignmentEvent(t, n)
  <2>1. /\ Resolvable(t, n) /\ attempt'[s] = attempt[s] /\ session'[t].journal = n
        /\ session'[t].runtime = session[t].runtime
    BY <1>0, <1>1, <1>6 DEF AppendAssignmentEvent, AssignmentIsCurrent, SessionRow
  <2>2. EndsStay(s)
    BY <2>1, SameAttempts
  <2> QED BY <1>5, <1>6, <2>1, <2>2
<1>7. ASSUME s = t, NEW id \in Runtimes, BindOpencodeSession(t, n, id)
      PROVE  Continues(s)
  <2>1. Resolvable(t, n) /\ attempt'[s] = attempt[s] /\ session[t].runtime \in {Null, id}
    BY <1>7 DEF BindOpencodeSession, AssignmentIsCurrent
  <2>2. session'[t] = [session[t] EXCEPT !.runtime = id, !.journal = n]
    BY <1>0, <1>7 DEF BindOpencodeSession
  <2>3. session'[t].journal = n /\ session'[t].runtime = id
    BY <1>1, <2>2 DEF SessionRow
  <2>4. EndsStay(s)
    BY <2>1, SameAttempts
  <2> QED BY <1>5, <1>7, <2>1, <2>3, <2>4
<1>8. ASSUME s = t, NEW state, NEW error, Resolvable(t, n), Terminalize(t, n, state, error)
      PROVE  Continues(s)
  <2>1. attempt' = [attempt EXCEPT ![t][n] = [attempt[t][n] EXCEPT !.state = state, !.lease = 0]]
    BY <1>0, <1>8 DEF Terminalize
  <2>2. session'[t] = [session[t] EXCEPT !.state = state, !.active = 0, !.lease = 0,
                                         !.error = error, !.journal = n]
    BY <1>0, <1>8 DEF Terminalize
  <2>3. session'[t].journal = n /\ session'[t].runtime = session[t].runtime
    BY <1>1, <2>2 DEF SessionRow
  <2>4. EndsStay(s)
    BY <1>0, <1>2, <1>8, <2>1, EndsOther
  <2> QED BY <1>5, <1>8, <2>3, <2>4
<1>9. ASSUME s = t, NEW output, StageOutput(t, n, output)
      PROVE  Continues(s)
  <2>1. /\ Resolvable(t, n)
        /\ attempt' = [attempt EXCEPT ![t][n] =
             [attempt[t][n] EXCEPT !.state = "committing", !.lease = 0]]
    BY <1>0, <1>9 DEF StageOutput
  <2>2. session'[t] = [session[t] EXCEPT !.state = "committing", !.lease = 0,
                                         !.error = "none", !.journal = n]
    BY <1>0, <1>9 DEF StageOutput
  <2>3. session'[t].journal = n /\ session'[t].runtime = session[t].runtime
    BY <1>1, <2>2 DEF SessionRow
  <2>4. EndsStay(s)
    BY <1>0, <1>2, <2>1, EndsOther
  <2> QED BY <1>5, <1>9, <2>1, <2>3, <2>4
<1> QED
  BY <1>3, <1>4, <1>6, <1>7, <1>8, <1>9 DEF HolderNext, ResolveCancelling, ResolvePlain

LEMMA OutboxContinues ==
  ASSUME IInv, NEW t \in Sessions, NEW n \in Attempts, OutboxNext(t, n), NEW s \in Sessions
  PROVE  Continues(s)
<1>0. /\ session \in [Sessions -> SessionRow]
      /\ attempt \in [Sessions -> [Attempts -> AttemptRow]]
      /\ completion \in [Sessions -> CompletionRow]
      /\ RowInv(session[t], attempt[t], completion[t])
  BY DEF IInv
<1>1. /\ session[t].journal \in Nat /\ session[t] \in SessionRow /\ n \in Nat
      /\ session[t].journal <= session[t].attempts /\ session[t].attempts \in Nat
      /\ completion[t] \in CompletionRow
  BY <1>0, RowFacts DEF Attempts
<1>2. CASE s # t
  <2>1. session'[s] = session[s] /\ attempt'[s] = attempt[s] /\ completion'[s] = completion[s]
    BY <1>0, <1>2 DEF OutboxNext, RecordCompletionError, MarkCompletionProjected,
       FinalizeCompletion, RejectCompletion, Release
  <2> QED BY <2>1, Untouched
<1>3. ASSUME s = t, session'[s] = session[s], attempt'[s] = attempt[s],
             completion'[s] = [completion[s] EXCEPT !.retryAt = completion'[s].retryAt,
                                                    !.projected = completion'[s].projected],
             completion[s].projected => completion'[s].projected
      PROVE  Continues(s)
  BY <1>1, <1>3, SameAttempts DEF Continues, JournalGrows, RuntimeStays, ResultStays
<1>4. CASE s = t /\ RecordCompletionError(t, n)
  <2>1. PICK d \in RetryDelays : completion' = [completion EXCEPT ![t].retryAt = now + d]
    BY <1>4 DEF RecordCompletionError
  <2>2. completion'[t] = [completion[t] EXCEPT !.retryAt = now + d]
    BY <1>0, <2>1
  <2>3. completion'[t].retryAt = now + d /\ completion'[t].projected = completion[t].projected
    BY <1>1, <2>2 DEF CompletionRow
  <2>4. completion'[t] = [completion[t] EXCEPT !.retryAt = completion'[t].retryAt,
                                               !.projected = completion'[t].projected]
    BY <1>1, <2>2, <2>3 DEF CompletionRow
  <2> QED BY <1>3, <1>4, <2>3, <2>4 DEF RecordCompletionError
<1>5. CASE s = t /\ MarkCompletionProjected(t, n)
  <2>1. completion'[t] = [completion[t] EXCEPT !.projected = TRUE]
    BY <1>0, <1>5 DEF MarkCompletionProjected
  <2>2. completion'[t].projected = TRUE /\ completion'[t].retryAt = completion[t].retryAt
    BY <1>1, <2>1 DEF CompletionRow
  <2>3. completion'[t] = [completion[t] EXCEPT !.retryAt = completion'[t].retryAt,
                                               !.projected = completion'[t].projected]
    BY <1>1, <2>1, <2>2 DEF CompletionRow
  <2> QED BY <1>3, <1>5, <2>2, <2>3 DEF MarkCompletionProjected
<1>6. ASSUME s = t, CommittingBy(t, n), NEW state, NEW error, Release(t, n, state, error),
             state \in {"blocked", completion[t].terminal}, completion'[t].finalized
      PROVE  Continues(s)
  <2>1. session'[t] = [session[t] EXCEPT !.state = state, !.active = 0, !.lease = 0,
                                         !.error = error, !.journal = n]
    BY <1>0, <1>6 DEF Release
  <2>2. /\ session'[t].journal = n /\ session'[t].runtime = session[t].runtime
        /\ session'[t].state = state
    BY <1>1, <2>1 DEF SessionRow
  <2>3. session[t].active = n /\ n # 0 /\ session[t].state = "committing"
    BY <1>6 DEF CommittingBy, FenceMatches, Attempts
  <2>4. session[t].active = session[t].attempts /\ attempt[t][n].state = "committing"
    BY <1>0, <2>3 DEF RowInv, AssignmentRows
  <2>5. attempt' = [attempt EXCEPT ![t][n] = [attempt[t][n] EXCEPT !.state = state]]
    BY <1>0, <1>6, <2>4 DEF Release
  <2>6. EndsStay(s)
    BY <1>0, <2>4, <2>5, EndsOther DEF Terminal
  <2>7. session'[t].journal >= session[t].journal
    BY <1>1, <2>2, <2>3, <2>4
  <2> QED
    BY <1>6, <2>2, <2>6, <2>7 DEF Continues, JournalGrows, RuntimeStays, ResultStays
<1>7. CASE s = t /\ FinalizeCompletion(t, n)
  <2>1. completion'[t] = [completion[t] EXCEPT !.finalized = TRUE]
    BY <1>0, <1>7 DEF FinalizeCompletion
  <2>2. completion'[t].finalized
    BY <1>1, <2>1 DEF CompletionRow
  <2> QED BY <1>6, <1>7, <2>2 DEF FinalizeCompletion
<1>8. CASE s = t /\ RejectCompletion(t, n)
  <2>1. /\ session[t].active = n /\ session[t].state = "committing"
        /\ session[t].token = attempt[t][n].token /\ attempt[t][n].state # "none"
    BY <1>8 DEF RejectCompletion, CommittingBy, FenceMatches
  <2>2. StagedBy(t, n)
    BY <1>0, <2>1 DEF RowInv, OutboxRows, StagedBy
  <2>3. completion'[t] = [completion[t] EXCEPT !.terminal = "blocked", !.finalized = TRUE]
    BY <1>0, <1>8, <2>2 DEF RejectCompletion
  <2>4. completion'[t].finalized
    BY <1>1, <2>3 DEF CompletionRow
  <2> QED BY <1>6, <1>8, <2>4 DEF RejectCompletion
<1> QED
  BY <1>2, <1>4, <1>5, <1>7, <1>8 DEF OutboxNext

LEMMA StepContinues ==
  ASSUME IInv, [Next]_vars, NEW s \in Sessions
  PROVE  Continues(s)
<1>1. CASE \E t \in Sessions : ClientNext(t)
  BY <1>1, ClientContinues
<1>2. CASE \E t \in Sessions, o \in Owners : ClaimNext(o, t)
  BY <1>2, ClaimContinues
<1>3. CASE \E t \in Sessions, n \in Attempts : HolderNext(t, n) \/ OutboxNext(t, n)
  BY <1>3, HolderContinues, OutboxContinues
<1>4. CASE \E o \in Owners : AbandonOwner(o)
  <2>1. PICK o \in Owners : Recover(OwnedBy(o))
    BY <1>4 DEF AbandonOwner
  <2>2. OwnedBy(o) \in SUBSET Running
    BY DEF OwnedBy
  <2> QED BY <2>1, <2>2, RecoveryContinues
<1>5. CASE RecoverExpired
  <2>1. Expired \in SUBSET Running
    BY DEF Expired
  <2> QED BY <1>5, <2>1, RecoveryContinues DEF RecoverExpired
<1>6. CASE \E t \in 0..MaxNow : SetClock(t)
  BY <1>6, Untouched DEF SetClock
<1>7. CASE UNCHANGED vars
  BY <1>7, Untouched DEF vars
<1> QED
  BY <1>1, <1>2, <1>3, <1>4, <1>5, <1>6, <1>7 DEF Next

(* No event of an attempt is appended after one of its successor           *)
(* (append_assignment_event and every transition check the fence).         *)
THEOREM JournalInOrder == Spec => JournalFollowsAttempts
<1>1. IInv /\ [Next]_vars =>
        [\A s \in Sessions : session'[s].state # "removed" =>
           session'[s].journal >= session[s].journal]_vars
  BY StepContinues DEF Continues, JournalGrows
<1> QED BY <1>1, SpecInv, PTL DEF Spec, JournalFollowsAttempts

(* The history of a session stays with it: its OpenCode session is bound   *)
(* once (bind_opencode_session), whatever attempts and resumes follow.     *)
THEOREM RuntimeIsKept == Spec => RuntimeBoundOnce
<1>1. IInv /\ [Next]_vars =>
        [\A s \in Sessions :
           session[s].runtime # Null /\ session'[s].state # "removed" =>
             session'[s].runtime = session[s].runtime]_vars
  BY StepContinues DEF Continues, RuntimeStays
<1> QED BY <1>1, SpecInv, PTL DEF Spec, RuntimeBoundOnce

(* A staged result is published as staged or rejected: nothing that comes  *)
(* between staging and finalize_completion or reject_completion drops it.  *)
THEOREM ResultsAreKept == Spec => StagedResultKept
<1>1. IInv /\ [Next]_vars =>
        [\A s \in Sessions : session[s].state = "committing" =>
           \/ /\ session'[s].state = "committing"
              /\ completion'[s] = [completion[s] EXCEPT
                   !.retryAt = completion'[s].retryAt,
                   !.projected = completion'[s].projected]
              /\ completion[s].projected => completion'[s].projected
           \/ /\ session'[s].state \in {"blocked", completion[s].terminal}
              /\ completion'[s].finalized]_vars
  BY StepContinues DEF Continues, ResultStays
<1> QED BY <1>1, SpecInv, PTL DEF Spec, StagedResultKept

(* What a superseded worker still sends changes nothing of an attempt that *)
(* has ended (renew_at, resolve_assignment_at).                            *)
THEOREM EndsAreFinal == Spec => EndedAttemptsAreInert
<1>1. IInv /\ [Next]_vars =>
        [\A s \in Sessions : \A n \in Attempts :
           attempt[s][n].state \in Terminal \cup {"interrupted"} =>
             attempt'[s][n] \in {attempt[s][n], NoAttempt}]_vars
  BY StepContinues DEF Continues, EndsStay
<1> QED BY <1>1, SpecInv, PTL DEF Spec, EndedAttemptsAreInert

-----------------------------------------------------------------------------
(* Capacity *)

(* The running attempts can be counted, which the claim does.              *)
Counted == IsFiniteSet(Running) /\ CapacityBound

LEMMA FewerRunning ==
  ASSUME Counted, Running' \subseteq Running
  PROVE  Counted'
<1>1. /\ IsFiniteSet(Running') /\ Cardinality(Running') <= Cardinality(Running)
      /\ Cardinality(Running') \in Nat /\ Cardinality(Running) \in Nat
  BY FS_Subset, FS_CardinalityType DEF Counted
<1> QED BY <1>1 DEF Counted, CapacityBound

(* What runs after an operation on one attempt that is not a claim.        *)
LEMMA SameOrLess ==
  ASSUME attempt \in [Sessions -> [Attempts -> AttemptRow]],
         \A s \in Sessions : \A n \in Attempts :
           attempt'[s][n].state = "running" => attempt[s][n].state = "running"
  PROVE  Running' \subseteq Running
BY DEF Running

LEMMA ClaimCounted ==
  ASSUME IInv, Counted, NEW o \in Owners, NEW s \in Sessions, ClaimNext(o, s)
  PROVE  Counted'
<1> DEFINE rows == SessionsAfter(Expired)
           tries == AttemptsAfter(Expired)
           k == rows[s].attempts + 1
           left == RunningIn(tries)
           live == {p \in left : Live(tries[p[1]][p[2]].lease)}
<1>1. attempt \in [Sessions -> [Attempts -> AttemptRow]] /\ now \in Nat
  BY DEF IInv
<1>2. \A t \in Sessions : \A n \in Attempts :
        /\ <<t, n>> \in Expired => tries[t][n].state = "interrupted"
        /\ <<t, n>> \notin Expired => tries[t][n] = attempt[t][n]
  <2>1. ASSUME NEW t \in Sessions, NEW n \in Attempts
        PROVE  /\ attempt[t][n] \in AttemptRow
               /\ tries[t][n] = IF <<t, n>> \in Expired
                    THEN [attempt[t][n] EXCEPT !.state = "interrupted", !.lease = 0]
                    ELSE attempt[t][n]
    BY <1>1 DEF AttemptsAfter
  <2> QED BY <2>1 DEF AttemptRow
<1>3. ASSUME NEW p \in left
      PROVE  /\ p \in Running /\ p \notin Expired
             /\ tries[p[1]][p[2]] = attempt[p[1]][p[2]]
  <2>1. p = <<p[1], p[2]>> /\ p[1] \in Sessions /\ p[2] \in Attempts
    BY <1>3 DEF RunningIn
  <2>2. tries[p[1]][p[2]].state = "running"
    BY <1>3 DEF RunningIn
  <2>3. p \notin Expired
    BY <1>2, <2>1, <2>2
  <2> QED BY <1>2, <2>1, <2>2, <2>3 DEF Running
<1>4. live = left
  <2>1. ASSUME NEW p \in left
        PROVE  Live(tries[p[1]][p[2]].lease)
    <3>1. p[1] \in Sessions /\ p[2] \in Attempts
      BY <2>1 DEF RunningIn
    <3>2. attempt[p[1]][p[2]].lease \in Nat
      BY <1>1, <3>1 DEF AttemptRow
    <3>3. ~(attempt[p[1]][p[2]].lease <= now)
      BY <1>3, <2>1 DEF Expired
    <3> QED BY <1>1, <1>3, <2>1, <3>2, <3>3 DEF Live
  <2> QED BY <2>1
<1>5. IsFiniteSet(left) /\ Cardinality(left) \in Nat
  <2>1. left \in SUBSET Running
    BY <1>3
  <2> QED BY <2>1, FS_Subset, FS_CardinalityType DEF Counted
<1>6. Cardinality(left) < GlobalLimit
  BY <1>4 DEF ClaimNext, HasCapacity
<1>7. \E try : attempt' = [tries EXCEPT ![s] = [tries[s] EXCEPT ![k] = try]]
  BY DEF ClaimNext, Assign
<1>8. DOMAIN tries = Sessions /\ DOMAIN tries[s] = Attempts
  BY DEF AttemptsAfter
<1> HIDE DEF tries, k
<1>9. Running' \in SUBSET (left \cup {<<s, k>>})
  BY <1>7, <1>8 DEF Running, RunningIn
<1> HIDE DEF left
<1>10. /\ IsFiniteSet(left \cup {<<s, k>>})
       /\ Cardinality(left \cup {<<s, k>>}) <= Cardinality(left) + 1
  <2> DEFINE claimed == <<s, k>>
  <2> HIDE DEF claimed
  <2>1. /\ IsFiniteSet(left \cup {claimed})
        /\ \/ Cardinality(left \cup {claimed}) = Cardinality(left)
           \/ Cardinality(left \cup {claimed}) = Cardinality(left) + 1
    BY <1>5, FS_AddElement
  <2> QED BY <1>5, <2>1 DEF claimed
<1>11. /\ IsFiniteSet(Running') /\ Cardinality(Running') \in Nat
       /\ Cardinality(Running') <= Cardinality(left \cup {<<s, k>>})
       /\ Cardinality(left \cup {<<s, k>>}) \in Nat
  BY <1>9, <1>10, FS_Subset, FS_CardinalityType
<1> QED
  BY <1>5, <1>6, <1>10, <1>11 DEF Counted, CapacityBound

LEMMA CountedStep == IInv /\ Counted /\ [Next]_vars => Counted'
<1> SUFFICES ASSUME IInv, Counted, [Next]_vars PROVE Counted'
  OBVIOUS
<1>0. attempt \in [Sessions -> [Attempts -> AttemptRow]]
  BY DEF IInv
<1>1. ASSUME NEW t \in Sessions, ClientNext(t) PROVE Running' \subseteq Running
  <2>1. CASE attempt' = attempt
    BY <2>1 DEF Running
  <2>2. CASE RemoveTerminal(t)
    <3>1. \A s \in Sessions : \A n \in Attempts :
            attempt'[s][n].state = "running" => attempt[s][n].state = "running"
      BY <1>0, <2>2 DEF RemoveTerminal, NoAttempt
    <3> QED BY <1>0, <3>1, SameOrLess
  <2> QED
    BY <1>1, <2>1, <2>2 DEF ClientNext, Cancel, Enqueue, ResumeAfterApproval,
       ContinueInterrupted, Requeue
<1>2. ASSUME NEW t \in Sessions, NEW o \in Owners, ClaimNext(o, t) PROVE Counted'
  BY <1>2, ClaimCounted
<1>3. ASSUME NEW t \in Sessions, NEW n \in Attempts, NEW try,
             attempt' = [attempt EXCEPT ![t][n] = try],
             try.state = "running" => attempt[t][n].state = "running"
      PROVE  Running' \subseteq Running
  BY <1>0, <1>3, SameOrLess
<1>4. ASSUME attempt' = attempt PROVE Running' \subseteq Running
  BY <1>4 DEF Running
<1>5. ASSUME NEW t \in Sessions, NEW n \in Attempts, HolderNext(t, n)
      PROVE  Running' \subseteq Running
  <2>0. attempt[t][n] \in AttemptRow
    BY <1>0
  <2>1. CASE Renew(t, n)
    BY <1>0, <1>3, <2>1 DEF Renew
  <2>2. CASE AppendAssignmentEvent(t, n) \/ \E id \in Runtimes : BindOpencodeSession(t, n, id)
    BY <1>4, <2>2 DEF AppendAssignmentEvent, BindOpencodeSession
  <2>3. ASSUME NEW state, NEW error, Resolvable(t, n), Terminalize(t, n, state, error)
        PROVE  Running' \subseteq Running
    BY <1>0, <1>3, <2>3 DEF Terminalize, Resolvable
  <2>4. ASSUME NEW output, StageOutput(t, n, output) PROVE Running' \subseteq Running
    BY <1>0, <1>3, <2>4 DEF StageOutput, Resolvable
  <2> QED BY <1>5, <2>1, <2>2, <2>3, <2>4 DEF HolderNext, ResolveCancelling, ResolvePlain
<1>6. ASSUME NEW t \in Sessions, NEW n \in Attempts, OutboxNext(t, n)
      PROVE  Running' \subseteq Running
  <2>0. attempt[t][n] \in AttemptRow /\ completion[t].terminal \in StagedStates
    BY <1>0 DEF IInv, CompletionRow
  <2>1. CASE RecordCompletionError(t, n) \/ MarkCompletionProjected(t, n)
    BY <1>4, <2>1 DEF RecordCompletionError, MarkCompletionProjected
  <2>2. ASSUME NEW state, NEW error, Release(t, n, state, error), state # "running"
        PROVE  Running' \subseteq Running
    <3>1. attempt' = [attempt EXCEPT ![t][n] = [attempt[t][n] EXCEPT !.state =
            IF @ = "committing" THEN state ELSE @]]
      BY <1>0, <2>2 DEF Release
    <3> QED BY <1>3, <2>0, <2>2, <3>1 DEF AttemptRow
  <2> QED
    BY <1>6, <2>0, <2>1, <2>2 DEF OutboxNext, FinalizeCompletion, RejectCompletion, StagedStates
<1>7. ASSUME NEW hit \in SUBSET Running, Recover(hit) PROVE Running' \subseteq Running
  BY <1>0, <1>7 DEF Recover, AttemptsAfter, Running, AttemptRow
<1>8. CASE RecoverExpired \/ \E o \in Owners : AbandonOwner(o)
  <2>1. Expired \in SUBSET Running /\ \A o : OwnedBy(o) \in SUBSET Running
    BY DEF Expired, OwnedBy
  <2> QED BY <1>7, <1>8, <2>1, FewerRunning DEF RecoverExpired, AbandonOwner
<1>9. CASE UNCHANGED vars \/ \E t \in 0..MaxNow : SetClock(t)
  BY <1>4, <1>9, FewerRunning DEF vars, SetClock
<1> QED
  BY <1>1, <1>2, <1>5, <1>6, <1>8, <1>9, FewerRunning DEF Next

(* However many Schedulers claim at once and whatever has expired: the     *)
(* limit of claim_next holds, counted after recovery in one transaction.   *)
THEOREM CapacityHolds == Spec => []CapacityBound
<1>1. Init => Counted
  <2>1. ASSUME Init PROVE Running = {}
    BY <2>1 DEF Init, Running, NoAttempt
  <2> QED BY <2>1, FS_EmptySet DEF Counted, CapacityBound
<1>2. Counted => CapacityBound
  BY DEF Counted
<1> QED BY <1>1, <1>2, CountedStep, SpecInv, PTL DEF Spec

-----------------------------------------------------------------------------
(* Refinement of TaskLifecycle *)

(* The state changes that keep the token and the staged result.            *)
Passes ==
  {<<"absent", "queued">>, <<"queued", "cancelled">>, <<"running", "cancelling">>,
   <<"running", "queued">>, <<"cancelling", "cancelled">>}
    \cup ({"running"} \X Terminal) \cup ({"blocked", "failed"} \X {"queued"})

(* One step of the life of a session, on the rows of the store.            *)
Rests(s) ==
  /\ \/ session'[s].state = session[s].state
     \/ <<session[s].state, session'[s].state>> \in Passes
  /\ session'[s].token = session[s].token
  /\ Staged(s)' = Staged(s)

Granted(s) ==
  /\ session[s].state \in {"queued", "running"} /\ session'[s].state = "running"
  /\ session'[s].token = session[s].token + 1
  /\ Staged(s)' = Staged(s)

Stages(s) ==
  /\ session[s].state = "running" /\ session'[s].state = "committing"
  /\ session'[s].token = session[s].token
  /\ Staged(s)' \in {"succeeded", "blocked"}

Publishes(s) ==
  /\ session[s].state = "committing" /\ session'[s].state \in {Staged(s), "blocked"}
  /\ session'[s].token = session[s].token
  /\ Staged(s)' = "none"

Leaves(s) ==
  /\ session[s].state \in Terminal /\ session'[s].state = "removed"
  /\ session'[s].token = 0
  /\ Staged(s)' = Staged(s)

Lives(s) == Rests(s) \/ Granted(s) \/ Stages(s) \/ Publishes(s) \/ Leaves(s)

(* Such a step is one of TaskLifecycle.                                    *)
LEMMA LivesIsLifecycle ==
  ASSUME \A s \in Sessions : Lives(s)
  PROVE  Lifecycle!LifecycleNext
<1> DEFINE state == [s \in Sessions |-> session[s].state]
           token == [s \in Sessions |-> session[s].token]
           staged == [s \in Sessions |-> Staged(s)]
<1>1. \A s \in Sessions :
        /\ state[s] = session[s].state /\ token[s] = session[s].token /\ staged[s] = Staged(s)
        /\ state'[s] = session'[s].state /\ token'[s] = session'[s].token
        /\ staged'[s] = Staged(s)'
  OBVIOUS
<1>2. ASSUME NEW s \in Sessions
      PROVE  \/ Lifecycle!Submit(s) \/ Lifecycle!Grant(s) \/ Lifecycle!Revoke(s)
             \/ Lifecycle!RequestCancel(s) \/ Lifecycle!EndCancel(s) \/ Lifecycle!Report(s)
             \/ Lifecycle!Stage(s) \/ Lifecycle!Publish(s) \/ Lifecycle!Reopen(s)
             \/ Lifecycle!Remove(s) \/ Lifecycle!Stays(s)
  <2>1. CASE Rests(s)
    BY <1>1, <2>1 DEF Rests, Passes, Terminal, Lifecycle!Submit, Lifecycle!Revoke,
       Lifecycle!RequestCancel, Lifecycle!EndCancel, Lifecycle!Report, Lifecycle!Reopen,
       Lifecycle!Stays, Lifecycle!Moves, Lifecycle!TerminalStates
  <2>2. CASE Granted(s)
    BY <1>1, <2>2 DEF Granted, Lifecycle!Grant
  <2>3. CASE Stages(s)
    BY <1>1, <2>3 DEF Stages, Lifecycle!Stage
  <2>4. CASE Publishes(s)
    BY <1>1, <2>4 DEF Publishes, Lifecycle!Publish
  <2>5. CASE Leaves(s)
    BY <1>1, <2>5 DEF Leaves, Terminal, Lifecycle!Remove, Lifecycle!TerminalStates
  <2> QED BY <2>1, <2>2, <2>3, <2>4, <2>5 DEF Lives
<1> QED BY <1>2 DEF Lifecycle!LifecycleNext

(* A session whose row keeps its state and token, and whose result keeps   *)
(* its outcome.                                                            *)
LEMMA SameLife ==
  ASSUME NEW s \in Sessions, session'[s].state = session[s].state,
         session'[s].token = session[s].token,
         completion'[s].terminal = completion[s].terminal
  PROVE  Lives(s)
BY DEF Lives, Rests, Staged

(* A session that passes from one state to another and stages nothing.     *)
LEMMA Passing ==
  ASSUME NEW s \in Sessions, <<session[s].state, session'[s].state>> \in Passes,
         session'[s].token = session[s].token
  PROVE  Lives(s)
<1>1. session[s].state # "committing" /\ session'[s].state # "committing"
  BY DEF Passes, Terminal
<1> QED BY <1>1 DEF Lives, Rests, Staged

LEMMA ClientLives ==
  ASSUME IInv, NEW t \in Sessions, ClientNext(t), NEW s \in Sessions
  PROVE  Lives(s)
<1>0. /\ session \in [Sessions -> SessionRow]
      /\ attempt \in [Sessions -> [Attempts -> AttemptRow]]
      /\ completion \in [Sessions -> CompletionRow]
      /\ RowInv(session[t], attempt[t], completion[t])
      /\ session[t] \in SessionRow
  BY DEF IInv
<1>1. CASE s # t
  <2>1. session'[s] = session[s] /\ completion'[s] = completion[s]
    BY <1>0, <1>1 DEF ClientNext, Cancel, RemoveTerminal, Enqueue, ResumeAfterApproval,
       ContinueInterrupted, Requeue
  <2> QED BY <2>1, SameLife
<1>2. CASE s = t /\ Cancel(t)
  <2>1. session'[t] = [session[t] EXCEPT !.state =
          IF session[t].state = "queued" THEN "cancelled" ELSE "cancelling"]
    BY <1>0, <1>2 DEF Cancel
  <2>2. session'[t].token = session[t].token
    BY <1>0, <2>1 DEF SessionRow
  <2>3. session'[t].state =
          IF session[t].state = "queued" THEN "cancelled" ELSE "cancelling"
    BY <1>0, <2>1 DEF SessionRow
  <2>4. <<session[t].state, session'[t].state>> \in Passes
    BY <1>2, <2>3 DEF Cancel, Passes
  <2> QED BY <1>2, <2>2, <2>4, Passing
<1>3. CASE s = t /\ RemoveTerminal(t)
  <2>1. /\ session'[t].state = "removed" /\ session'[t].token = 0
        /\ session[t].state \in Terminal
    BY <1>0, <1>3 DEF RemoveTerminal, Removed, NoSession
  <2> QED BY <1>3, <2>1 DEF Lives, Leaves, Staged, Terminal
<1>4. ASSUME s = t, NEW r \in Requests, Enqueue(t, r) PROVE Lives(s)
  <2>1. session[t].state = "absent" /\ session[t].token = 0
    BY <1>0, <1>4 DEF Enqueue, RowInv, RequestRows, Numbered
  <2>2. session'[t].state = "queued" /\ session'[t].token = 0
    BY <1>0, <1>4 DEF Enqueue, NoSession
  <2> QED BY <1>4, <2>1, <2>2, Passing DEF Passes
<1>5. ASSUME s = t, NEW r \in Requests, Requeue(t, r), session[t].state \in {"blocked", "failed"}
      PROVE  Lives(s)
  <2>1. session'[t].state = "queued" /\ session'[t].token = session[t].token
    BY <1>0, <1>5 DEF Requeue, SessionRow
  <2> QED BY <1>5, <2>1, Passing DEF Passes
<1> QED
  BY <1>1, <1>2, <1>3, <1>4, <1>5 DEF ClientNext, ResumeAfterApproval, ContinueInterrupted

(* What recovery makes of a session, before a claim.                       *)
LEMMA RecoveredLife ==
  ASSUME IInv, NEW hit, NEW s \in Sessions
  PROVE  /\ SessionsAfter(hit)[s].token = session[s].token
         /\ \/ SessionsAfter(hit)[s] = session[s]
            \/ <<session[s].state, SessionsAfter(hit)[s].state>> \in
                 {<<"running", "queued">>, <<"running", "blocked">>,
                  <<"cancelling", "cancelled">>}
<1>1. session[s] \in SessionRow
  BY DEF IInv
<1>2. \/ SessionsAfter(hit)[s] = session[s]
      \/ SessionsAfter(hit)[s] = RecoveredRow(session[s]) /\ session[s].state \in Assigned
  BY DEF SessionsAfter
<1>3. /\ RecoveredRow(session[s]).token = session[s].token
      /\ RecoveredRow(session[s]).state = RecoveredState(session[s])
  BY <1>1 DEF RecoveredRow, SessionRow
<1> QED BY <1>2, <1>3 DEF RecoveredState, Assigned

LEMMA RecoveryLives ==
  ASSUME IInv, NEW hit, Recover(hit), NEW s \in Sessions
  PROVE  Lives(s)
<1>1. CASE session'[s] = session[s]
  BY <1>1, SameLife DEF Recover
<1>2. CASE session'[s] # session[s]
  <2>1. <<session[s].state, session'[s].state>> \in Passes
    BY <1>2, RecoveredLife DEF Recover, Passes, Terminal
  <2> QED BY <2>1, RecoveredLife, Passing DEF Recover
<1> QED BY <1>1, <1>2

LEMMA ClaimLives ==
  ASSUME IInv, NEW o \in Owners, NEW t \in Sessions, ClaimNext(o, t), NEW s \in Sessions
  PROVE  Lives(s)
<1> DEFINE rows == SessionsAfter(Expired)
<1>1. /\ rows[t].state = "queued" /\ session' = [rows EXCEPT ![t] = ClaimedRow(rows[t])]
      /\ completion' = completion
  BY DEF ClaimNext, Candidate, Eligible, Assign
<1>2. DOMAIN rows = Sessions
  BY DEF SessionsAfter
<1>3. /\ rows[s].token = session[s].token
      /\ \/ rows[s] = session[s]
         \/ <<session[s].state, rows[s].state>> \in
              {<<"running", "queued">>, <<"running", "blocked">>, <<"cancelling", "cancelled">>}
  BY RecoveredLife
<1>4. rows[t] \in SessionRow
  <2>1. Expired \in SUBSET Running
    BY DEF Expired
  <2> QED BY <2>1, AfterRows DEF RowInv, RowTypes
<1> HIDE DEF rows
<1>5. CASE s # t
  <2>1. session'[s] = rows[s]
    BY <1>1, <1>2, <1>5
  <2>2. CASE rows[s] = session[s]
    BY <1>1, <2>1, <2>2, SameLife
  <2>3. CASE rows[s] # session[s]
    <3>1. <<session[s].state, session'[s].state>> \in Passes
      BY <1>3, <2>1, <2>3 DEF Passes, Terminal
    <3> QED BY <1>3, <2>1, <3>1, Passing
  <2> QED BY <2>2, <2>3
<1>6. CASE s = t
  <2>1. session'[s] = ClaimedRow(rows[s])
    BY <1>1, <1>2, <1>6
  <2>2. session'[s].state = "running" /\ session'[s].token = rows[s].token + 1
    BY <1>4, <1>6, <2>1 DEF ClaimedRow, SessionRow
  <2>3. session[s].state \in {"queued", "running"}
    BY <1>1, <1>3, <1>6
  <2> QED BY <1>3, <2>2, <2>3 DEF Lives, Granted, Staged
<1> QED BY <1>5, <1>6

LEMMA HolderLives ==
  ASSUME IInv, NEW t \in Sessions, NEW n \in Attempts, HolderNext(t, n), NEW s \in Sessions
  PROVE  Lives(s)
<1>0. /\ session \in [Sessions -> SessionRow]
      /\ completion \in [Sessions -> CompletionRow]
      /\ session[t] \in SessionRow
  BY DEF IInv
<1>1. CASE s # t
  <2>1. session'[s] = session[s] /\ completion'[s] = completion[s]
    BY <1>0, <1>1 DEF HolderNext, Renew, AppendAssignmentEvent, BindOpencodeSession,
       ResolveCancelling, ResolvePlain, StageOutput, Terminalize
  <2> QED BY <2>1, SameLife
<1>2. CASE Renew(t, n) \/ AppendAssignmentEvent(t, n)
  <2>1. /\ session'[t].state = session[t].state /\ session'[t].token = session[t].token
        /\ completion' = completion
    BY <1>0, <1>2 DEF Renew, AppendAssignmentEvent, SessionRow
  <2> QED BY <1>1, <2>1, SameLife
<1>3. ASSUME NEW id \in Runtimes, BindOpencodeSession(t, n, id) PROVE Lives(s)
  <2>1. session'[t] = [session[t] EXCEPT !.runtime = id, !.journal = n]
    BY <1>0, <1>3 DEF BindOpencodeSession
  <2>2. session'[t].state = session[t].state /\ session'[t].token = session[t].token
    BY <1>0, <2>1 DEF SessionRow
  <2> QED BY <1>1, <1>3, <2>2, SameLife DEF BindOpencodeSession
<1>4. ASSUME s = t, NEW state, NEW error, Terminalize(t, n, state, error),
             <<session[t].state, state>> \in Passes
      PROVE  Lives(s)
  <2>1. session'[t] = [session[t] EXCEPT !.state = state, !.active = 0, !.lease = 0,
                                         !.error = error, !.journal = n]
    BY <1>0, <1>4 DEF Terminalize
  <2>2. session'[t].state = state /\ session'[t].token = session[t].token
    BY <1>0, <2>1 DEF SessionRow
  <2> QED BY <1>4, <2>2, Passing
<1>5. CASE s = t /\ ResolveCancelling(t, n)
  BY <1>4, <1>5 DEF ResolveCancelling, Passes
<1>6. ASSUME s = t, NEW outcome \in PlainOutcomes, ResolvePlain(t, n, outcome)
      PROVE  Lives(s)
  <2>1. <<session[t].state, outcome[1]>> \in Passes
    BY <1>6 DEF ResolvePlain, PlainOutcomes, Passes, Terminal
  <2> QED BY <1>4, <1>6, <2>1 DEF ResolvePlain
<1>7. ASSUME s = t, NEW output \in Outputs("agent"), StageOutput(t, n, output)
      PROVE  Lives(s)
  <2>1. session'[t] = [session[t] EXCEPT !.state = "committing", !.lease = 0,
                                         !.error = "none", !.journal = n]
    BY <1>0, <1>7 DEF StageOutput
  <2>2. /\ session'[t].state = "committing" /\ session'[t].token = session[t].token
        /\ session[t].state = "running"
    BY <1>0, <1>7, <2>1 DEF SessionRow, StageOutput
  <2>3. completion'[t].terminal = output[1]
    BY <1>0, <1>7 DEF StageOutput
  <2>4. output[1] \in {"succeeded", "blocked"}
    BY DEF Outputs
  <2> QED BY <1>7, <2>2, <2>3, <2>4 DEF Lives, Stages, Staged
<1> QED
  BY <1>1, <1>2, <1>3, <1>5, <1>6, <1>7 DEF HolderNext

LEMMA OutboxLives ==
  ASSUME IInv, NEW t \in Sessions, NEW n \in Attempts, OutboxNext(t, n), NEW s \in Sessions
  PROVE  Lives(s)
<1>0. /\ session \in [Sessions -> SessionRow]
      /\ completion \in [Sessions -> CompletionRow]
      /\ session[t] \in SessionRow /\ completion[t] \in CompletionRow
      /\ completion[t].terminal \in StagedStates
      /\ RowInv(session[t], attempt[t], completion[t])
  BY DEF IInv, CompletionRow
<1>1. CASE s # t
  <2>1. session'[s] = session[s] /\ completion'[s] = completion[s]
    BY <1>0, <1>1 DEF OutboxNext, RecordCompletionError, MarkCompletionProjected,
       FinalizeCompletion, RejectCompletion, Release
  <2> QED BY <2>1, SameLife
<1>2. CASE s = t /\ (RecordCompletionError(t, n) \/ MarkCompletionProjected(t, n))
  <2>1. session'[t] = session[t] /\ completion'[t].terminal = completion[t].terminal
    BY <1>0, <1>2 DEF RecordCompletionError, MarkCompletionProjected, CompletionRow
  <2> QED BY <1>2, <2>1, SameLife
<1>3. ASSUME s = t, CommittingBy(t, n), NEW state, NEW error, Release(t, n, state, error),
             state \in {completion[t].terminal, "blocked"}
      PROVE  Lives(s)
  <2>1. session'[t] = [session[t] EXCEPT !.state = state, !.active = 0, !.lease = 0,
                                         !.error = error, !.journal = n]
    BY <1>0, <1>3 DEF Release
  <2>2. session'[t].state = state /\ session'[t].token = session[t].token
    BY <1>0, <2>1 DEF SessionRow
  <2>3. session[t].state = "committing" /\ state # "committing"
    BY <1>0, <1>3 DEF CommittingBy, StagedStates
  <2> QED BY <1>3, <2>2, <2>3 DEF Lives, Publishes, Staged
<1> QED
  BY <1>1, <1>2, <1>3 DEF OutboxNext, FinalizeCompletion, RejectCompletion

LEMMA StepLives == IInv /\ [Next]_vars => \A s \in Sessions : Lives(s)
<1> SUFFICES ASSUME IInv, [Next]_vars, NEW s \in Sessions PROVE Lives(s)
  OBVIOUS
<1>1. CASE \E t \in Sessions : ClientNext(t)
  BY <1>1, ClientLives
<1>2. CASE \E t \in Sessions, o \in Owners : ClaimNext(o, t)
  BY <1>2, ClaimLives
<1>3. CASE \E t \in Sessions, n \in Attempts : HolderNext(t, n) \/ OutboxNext(t, n)
  BY <1>3, HolderLives, OutboxLives
<1>4. CASE RecoverExpired \/ \E o \in Owners : AbandonOwner(o)
  BY <1>4, RecoveryLives DEF RecoverExpired, AbandonOwner
<1>5. CASE UNCHANGED vars \/ \E t \in 0..MaxNow : SetClock(t)
  BY <1>5, SameLife DEF vars, SetClock
<1> QED
  BY <1>1, <1>2, <1>3, <1>4, <1>5 DEF Next

(* Whatever owners, leases, tables and clocks do behind it, each session   *)
(* lives the life of a TaskSessionState (domain/task_session.rs).          *)
THEOREM StoreImplementsLifecycle == Spec => EverySessionLives
<1>1. Init => Lifecycle!LifecycleInit
  BY DEF Init, Lifecycle!LifecycleInit, Staged, NoSession
<1>2. IInv /\ [Next]_vars =>
        [Lifecycle!LifecycleNext]_<<[s \in Sessions |-> session[s].state],
                                    [s \in Sessions |-> session[s].token],
                                    [s \in Sessions |-> Staged(s)]>>
  BY StepLives, LivesIsLifecycle
<1> QED
  BY <1>1, <1>2, SpecInv, PTL DEF Spec, EverySessionLives, Lifecycle!LifecycleSpec
=============================================================================
