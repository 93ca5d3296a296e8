---------------------------- MODULE SessionWatch ----------------------------
(***************************************************************************)
(* The renderer waits for the end of a Task Session (agentTaskSessions.ts, *)
(* promptTaskSessions.ts): it pages through the journal, reads the session *)
(* and then its result, in calls of their own, while the session goes on.  *)
(* Update hints only shorten the pause between two rounds.                 *)
(*                                                                         *)
(* The Scheduler store is reduced to what a waiter can read of one         *)
(* session: its row, its result and its journal.  Attempts and fencing     *)
(* tokens are issued together and are one number here.                     *)
(***************************************************************************)
EXTENDS Naturals, Sequences

CONSTANTS
  WatchAttempts,  (* bound: attempts of the session                        *)
  MaxEvents,      (* bound: events of the session                          *)
  PageSize        (* limit of list_task_session_events                     *)

ASSUME WatchAssumption ==
  WatchAttempts \in Nat \ {0} /\ MaxEvents \in Nat \ {0} /\ PageSize \in Nat \ {0}

VARIABLES
  record,         (* the session: kind, state, attempt, and the result's attempt or 0 *)
  journal,        (* its events                                            *)
  waiter          (* the waiter and what it has seen                       *)

watchVars == <<record, journal, waiter>>

(* An approval is a blocked session whose error asks for one.              *)
Terminal == {"succeeded", "failed", "blocked", "approval", "cancelled"}

NewWaiter(at, from) ==
  [at |-> at, from |-> from, cursor |-> from, end |-> 0, candidate |-> 0,
   seen |-> [state |-> "none", attempt |-> 0], resumed |-> FALSE, told |-> "nothing"]

WatchInit ==
  /\ record \in {[kind |-> k, state |-> "queued", attempt |-> 0, result |-> 0] :
                   k \in {"agent", "prompt"}}
  /\ journal = <<[type |-> "queued", attempt |-> 0]>>
  /\ waiter = NewWaiter("none", 0)

-----------------------------------------------------------------------------
(* The session *)

Append1(type, attempt) ==
  /\ Len(journal) < MaxEvents
  /\ journal' = Append(journal, [type |-> type, attempt |-> attempt])

(* A transition to a state and its event, with the fence it is made with.  *)
Becomes(state, fence) ==
  /\ record' = [record EXCEPT !.state = state]
  /\ Append1(state, fence)
  /\ UNCHANGED waiter

HasCandidate(a) == \E i \in DOMAIN journal : journal[i] = [type |-> "candidate", attempt |-> a]

BeginAttempt ==
  /\ record.state = "queued" /\ record.attempt < WatchAttempts
  /\ record' = [record EXCEPT !.state = "running", !.attempt = @ + 1]
  /\ Append1("running", record.attempt + 1)
  /\ UNCHANGED waiter

(* The executor offers its result as an event before it returns it.        *)
OfferCandidate ==
  /\ record.state = "running" /\ ~HasCandidate(record.attempt)
  /\ Append1("candidate", record.attempt)
  /\ UNCHANGED <<record, waiter>>

StageResult ==
  /\ record.state = "running" /\ HasCandidate(record.attempt)
  /\ record' = [record EXCEPT !.state = "committing", !.result = record.attempt]
  /\ Append1("committing", record.attempt)
  /\ UNCHANGED waiter

(* The staged result is published, or rejected and dropped.  A prompt's    *)
(* result is a success; an agent may also report that it is blocked.       *)
FinalizeResult ==
  /\ record.state = "committing"
  /\ \/ Becomes("succeeded", record.attempt)
     \/ record.kind = "agent" /\ Becomes("blocked", record.attempt)

RejectResult ==
  /\ record.state = "committing"
  /\ \E state \in {"failed", "blocked"} :
       /\ record' = [record EXCEPT !.state = state, !.result = 0]
       /\ Append1(state, record.attempt)
  /\ UNCHANGED waiter

(* The executor fails, or its run needs an approval.                       *)
EndAttempt ==
  /\ record.state = "running" /\ ~HasCandidate(record.attempt)
  /\ \/ Becomes("failed", record.attempt)
     \/ record.kind = "agent" /\ Becomes("approval", record.attempt)

(* The lease ran out; without an OpenCode session the run cannot resume.   *)
RecoverAttempt ==
  /\ record.state = "running"
  /\ \/ Becomes("queued", record.attempt)
     \/ record.kind = "agent" /\ Becomes("blocked", record.attempt)

EndCancelled == record.state = "cancelling" /\ Becomes("cancelled", record.attempt)

(* A cancellation carries no fence.                                        *)
CancelledRecord ==
  CASE record.state = "queued" -> [record EXCEPT !.state = "cancelled"]
    [] record.state = "running" -> [record EXCEPT !.state = "cancelling"]
    [] OTHER -> record

CancelEffect ==
  /\ record' = CancelledRecord
  /\ IF record' = record THEN UNCHANGED journal ELSE Append1(record'.state, 0)

CancelSession == record.state \in {"queued", "running"} /\ CancelEffect /\ UNCHANGED waiter

(* By an approval, or to continue an interrupted agent: the row's result   *)
(* goes.  Whoever waits is not told; the caller becomes a waiter at the    *)
(* event of the resume.                                                    *)
ResumeSession ==
  /\ record.kind = "agent" /\ record.state \in {"approval", "blocked", "failed"}
  /\ record' = [record EXCEPT !.state = "queued", !.result = 0]
  /\ Append1("queued", 0)
  /\ waiter' \in {[waiter EXCEPT !.resumed = TRUE], NewWaiter("page", Len(journal'))}

-----------------------------------------------------------------------------
(* The waiter *)

(* From the first event on; or from the newest one the caller knew when a  *)
(* resume of his was not answered in time.                                 *)
StartWaiting ==
  /\ waiter.at \in {"none", "done"}
  /\ \E from \in {0} \cup (IF record.kind = "agent" THEN {Len(journal)} ELSE {}) :
       waiter' = NewWaiter("page", from)
  /\ UNCHANGED <<record, journal>>

(* What a projection says after the events from first to last: the attempt *)
(* of the newest of these types, or what it said before.                   *)
Projected(types, first, last, before) ==
  LET seen == {i \in first..last : journal[i].type \in types} IN
    IF seen = {} THEN before ELSE journal[CHOOSE i \in seen : \A j \in seen : j <= i].attempt

(* event_page: events after the cursor, up to the limit, and whether there *)
(* are more.  Of what they add the waiter needs the newest candidate's     *)
(* attempt and the fence of the newest event that ends the session.        *)
ReadPage ==
  /\ waiter.at = "page"
  /\ LET last == IF waiter.cursor + PageSize < Len(journal) THEN waiter.cursor + PageSize
                 ELSE Len(journal)
     IN waiter' = [waiter EXCEPT
          !.cursor = last,
          !.candidate = Projected({"candidate"}, waiter.cursor + 1, last, @),
          !.end = Projected(Terminal, waiter.cursor + 1, last, @),
          !.at = IF last < Len(journal) THEN "page" ELSE "session"]
  /\ UNCHANGED <<record, journal>>

(* Mutant of ReadSession: the waiter leaves with the events it has.        *)
ReadSessionAtOnce ==
  /\ waiter.at = "session"
  /\ waiter' = [waiter EXCEPT
       !.at = IF record.state \in Terminal THEN "result" ELSE "page",
       !.seen = [state |-> record.state, attempt |-> record.attempt]]
  /\ UNCHANGED <<record, journal>>

(* A terminal session is left only when the events up to its end are seen. *)
ReadSession ==
  /\ waiter.at = "session"
  /\ waiter' = [waiter EXCEPT
       !.at = IF record.state \in Terminal /\ waiter.cursor >= Len(journal) THEN "result"
              ELSE "page",
       !.seen = [state |-> record.state, attempt |-> record.attempt]]
  /\ UNCHANGED <<record, journal>>

(* validate_agent_task_session_result; only "succeeded" is a result of a   *)
(* prompt.                                                                 *)
Verdict(w) ==
  IF record.kind = "agent"
  THEN IF \/ w.end = 0 \/ w.end # w.seen.attempt
          \/ w.candidate \notin {0, w.seen.attempt}
          \/ w.seen.state \in {"failed", "cancelled"}
       THEN "error"
       ELSE IF w.seen.state = "approval"
       THEN IF record.result = 0 THEN "approval" ELSE "error"
       ELSE IF record.result = 0 THEN "error" ELSE "result"
  ELSE IF w.seen.state = "succeeded" /\ w.candidate \in {0, w.end} /\ record.result # 0
       THEN "result" ELSE "error"

(* An agent's waiter that throws cancels a session that has not ended.     *)
Throws(w, told) ==
  /\ waiter' = [w EXCEPT !.at = "done", !.told = told]
  /\ IF record.kind = "agent" THEN CancelEffect ELSE UNCHANGED <<record, journal>>

ReadResult ==
  /\ waiter.at = "result"
  /\ IF Verdict(waiter) = "error" THEN Throws(waiter, "error")
     ELSE /\ waiter' = [waiter EXCEPT !.at = "done", !.told = Verdict(waiter)]
          /\ UNCHANGED <<record, journal>>

(* A call fails or the waiter's time is over: it cancels the session.      *)
GiveUp ==
  /\ waiter.at \in {"page", "session", "result"}
  /\ Throws(waiter, "failure")

SessionNext ==
  \/ BeginAttempt \/ OfferCandidate \/ StageResult \/ FinalizeResult \/ RejectResult
  \/ EndAttempt \/ RecoverAttempt \/ EndCancelled \/ CancelSession \/ ResumeSession

WatchNext == SessionNext \/ StartWaiting \/ ReadPage \/ ReadSession \/ ReadResult \/ GiveUp

WatchSpec == WatchInit /\ [][WatchNext]_watchVars

-----------------------------------------------------------------------------
Newest(types) == Projected(types, waiter.from + 1, Len(journal), 0)

(* What a waiter that was not cut short tells of a session that nobody     *)
(* resumed meanwhile is what became of it, however its calls interleave    *)
(* with the session: its result, that it waits for an approval, or an      *)
(* error.  Two sessions are told as an error whatever they hold: one whose *)
(* end is not after the event the waiter started from, and one of which an *)
(* earlier attempt offered a candidate and the last one none.              *)
WaitersTellTheEnd ==
  [][waiter.at = "result" /\ waiter'.at = "done" /\ waiter'.told # "failure" /\ ~waiter.resumed =>
       /\ record.state \in Terminal
       /\ waiter'.told =
            IF \/ Newest(Terminal) # record.attempt \/ record.attempt = 0
               \/ Newest({"candidate"}) \notin {0, record.attempt}
               \/ record.state \in {"failed", "cancelled"}
            THEN "error"
            ELSE IF record.state = "approval" THEN "approval"
            ELSE IF record.result # 0 THEN "result" ELSE "error"]_watchVars
=============================================================================
