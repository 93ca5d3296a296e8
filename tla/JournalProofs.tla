---------------------------- MODULE JournalProofs ----------------------------
(***************************************************************************)
(* Proofs about what becomes of the events of a Task Session: a waiter     *)
(* tells what ended its session (SessionWatch), what a chat streams is     *)
(* what its attempt writes (PromptAttempts), and what is read back is what *)
(* the journal holds (JournalReaders).                                     *)
(***************************************************************************)
EXTENDS SessionWatch, PromptAttempts, JournalReaders, SequenceTheorems, FiniteSetTheorems,
        WellFoundedInduction, TLAPS

(* Numbers: the least, the largest up to a bound, and induction.           *)
LEMMA LeastExists ==
  ASSUME NEW S \in SUBSET Nat, S # {}
  PROVE  \E n \in S : \A m \in S : n <= m
<1>1. IsWellFoundedOn(OpToRel(<, Nat), Nat)
  BY NatLessThanWellFounded
<1>2. PICK n \in S : \A m \in S : ~(<<m, n>> \in OpToRel(<, Nat))
  BY <1>1, WFMin
<1>3. \A m \in S : ~(m < n)
  BY <1>2 DEF OpToRel
<1> QED
  BY <1>3

LEMMA LargestExists ==
  ASSUME NEW n \in Nat, NEW S \in SUBSET (1..n), S # {}
  PROVE  \E i \in S : \A j \in S : j <= i
<1> DEFINE T == {k \in Nat : n - k \in S}
<1>1. ASSUME NEW i \in S PROVE n - i \in Nat /\ n - (n - i) = i /\ n - i \in T
  OBVIOUS
<1>2. T \in SUBSET Nat /\ T # {}
  BY <1>1
<1> HIDE DEF T
<1>3. PICK k \in T : \A m \in T : k <= m
  BY <1>2, LeastExists
<1>4. n - k \in S /\ k \in Nat
  BY <1>2 DEF T
<1>5. ASSUME NEW j \in S PROVE j <= n - k
  <2>1. k <= n - j /\ n - j \in Nat /\ j \in Nat
    BY <1>1, <1>3
  <2> QED
    BY <1>4, <2>1
<1> QED
  BY <1>4, <1>5

LEMMA Induction ==
  ASSUME NEW S \in SUBSET Nat, 0 \in S, \A n \in S : n + 1 \in S
  PROVE  S = Nat
<1> SUFFICES ASSUME Nat \ S # {} PROVE FALSE
  OBVIOUS
<1>1. PICK n \in Nat \ S : \A m \in Nat \ S : n <= m
  BY LeastExists
<1>2. n # 0 /\ n - 1 \in Nat /\ n - 1 \in S /\ (n - 1) + 1 = n
  BY <1>1
<1> QED
  BY <1>1, <1>2

-----------------------------------------------------------------------------
-----------------------------------------------------------------------------
(* The waiter of a Task Session.                                           *)
(*                                                                         *)
(* What makes the verdict right is known long before it is given: what the *)
(* waiter holds is what the events between its start and its cursor say,   *)
(* page after page; and from the session it found ended, with all events   *)
(* seen, nothing moves but by a resume.                                    *)

States == {"queued", "running", "committing", "cancelling"} \cup Terminal
Events == [type : States \cup {"candidate"}, attempt : Nat]
Records == [kind : {"agent", "prompt"}, state : States, attempt : Nat, result : Nat]
Waiters ==
  [at : {"none", "page", "session", "result", "done"}, from : Nat, cursor : Nat, end : Nat,
   candidate : Nat, seen : [state : States \cup {"none"}, attempt : Nat], resumed : BOOLEAN,
   told : {"nothing", "result", "approval", "error", "failure"}]

(* Projected, of any journal.                                              *)
Those(events, types, first, last) == {i \in first..last : events[i].type \in types}
Latest(S) == CHOOSE i \in S : \A j \in S : j <= i
NewestIn(events, types, first, last, before) ==
  IF Those(events, types, first, last) = {} THEN before
  ELSE events[Latest(Those(events, types, first, last))].attempt

Holds(w, events) ==
  /\ w.candidate = NewestIn(events, {"candidate"}, w.from + 1, w.cursor, 0)
  /\ w.end = NewestIn(events, Terminal, w.from + 1, w.cursor, 0)

(* A session: what its state says of its result and of its last event.     *)
Consistent(r, events) ==
  /\ r.state \in {"queued", "running", "approval"} => r.result = 0
  /\ r.state \in {"running", "committing", "succeeded"} => r.attempt # 0
  /\ r.state \in {"committing", "succeeded"} => r.result # 0
  /\ r.kind = "prompt" => r.state # "approval" /\ (r.state = "blocked" => r.result = 0)
  /\ r.state = "succeeded" =>
       events[Len(events)] = [type |-> "succeeded", attempt |-> r.attempt]

(* A waiter that is on its way to a verdict, and one that is there.        *)
Follows(w, r, events) ==
  /\ w.from <= w.cursor /\ w.cursor <= Len(events)
  /\ r.kind = "prompt" => w.from = 0
  /\ w.at \in {"page", "session", "result"} => Holds(w, events)
  /\ w.at = "result" /\ ~w.resumed =>
       /\ r.state \in Terminal /\ w.cursor = Len(events)
       /\ w.seen.state = r.state /\ w.seen.attempt = r.attempt

WatchInv ==
  /\ record \in Records /\ journal \in Seq(Events) /\ waiter \in Waiters
  /\ Len(journal) > 0
  /\ Consistent(record, journal)
  /\ Follows(waiter, record, journal)

LEMMA LatestIs ==
  ASSUME NEW S \in SUBSET Nat, NEW n \in S, \A j \in S : j <= n
  PROVE  Latest(S) = n
<1>1. Latest(S) \in S /\ \A j \in S : j <= Latest(S)
  BY DEF Latest
<1>2. Latest(S) \in Nat /\ n \in Nat /\ Latest(S) <= n /\ n <= Latest(S)
  BY <1>1
<1> QED
  BY <1>2

LEMMA NewestIs ==
  ASSUME NEW events, NEW types, NEW first \in Nat, NEW last \in Nat, NEW before,
         NEW n \in Those(events, types, first, last),
         \A j \in Those(events, types, first, last) : j <= n
  PROVE  NewestIn(events, types, first, last, before) = events[n].attempt
<1>1. Those(events, types, first, last) \in SUBSET Nat
  BY DEF Those
<1>2. Latest(Those(events, types, first, last)) = n
  BY <1>1, LatestIs
<1> QED
  BY <1>2 DEF NewestIn

LEMMA NewestExists ==
  ASSUME NEW events, NEW types, NEW first \in Nat \ {0}, NEW last \in Nat,
         Those(events, types, first, last) # {}
  PROVE  \E n \in Those(events, types, first, last) :
           \A j \in Those(events, types, first, last) : j <= n
<1>1. Those(events, types, first, last) \in SUBSET (1..last)
  BY DEF Those
<1> QED
  BY <1>1, LargestExists

(* One projection after the other, of two parts of the journal.            *)
LEMMA ProjectionsCompose ==
  ASSUME NEW events, NEW types, NEW first \in Nat \ {0}, NEW middle \in Nat, NEW last \in Nat,
         first <= middle + 1, middle <= last, NEW before
  PROVE  NewestIn(events, types, first, last, before)
           = NewestIn(events, types, middle + 1, last,
                      NewestIn(events, types, first, middle, before))
<1> DEFINE all == Those(events, types, first, last)
           rear == Those(events, types, middle + 1, last)
<1>1. CASE rear = {}
  <2>1. all = Those(events, types, first, middle)
    BY <1>1 DEF Those
  <2> QED
    BY <1>1, <2>1 DEF NewestIn
<1>2. CASE rear # {}
  <2>1. middle + 1 \in Nat \ {0}
    OBVIOUS
  <2>2. PICK n \in rear : \A j \in rear : j <= n
    BY <1>2, <2>1, NewestExists
  <2>3. rear \subseteq all /\ n > middle /\ n \in Nat /\ \A j \in all : j \in rear \/ j <= middle
    BY <2>2 DEF Those
  <2>4. n \in all /\ \A j \in all : j <= n
    <3>1. ASSUME NEW j \in all PROVE j <= n
      <4>1. j \in Nat
        BY DEF Those
      <4> QED
        BY <2>2, <2>3, <4>1
    <3> QED
      BY <2>3, <3>1
  <2>5. NewestIn(events, types, first, last, before) = events[n].attempt
    BY <2>4, NewestIs
  <2> DEFINE old == NewestIn(events, types, first, middle, before)
  <2> HIDE DEF old
  <2>6. NewestIn(events, types, middle + 1, last, old) = events[n].attempt
    BY <2>1, <2>2, NewestIs
  <2> QED
    BY <2>5, <2>6 DEF old
<1> QED
  BY <1>1, <1>2

(* An event that is appended changes no projection of those before.        *)
LEMMA ProjectionsStay ==
  ASSUME NEW events \in Seq(Events), NEW event \in Events, NEW types, NEW first \in Nat \ {0},
         NEW last \in Nat, last <= Len(events), NEW before
  PROVE  NewestIn(Append(events, event), types, first, last, before)
           = NewestIn(events, types, first, last, before)
<1> DEFINE longer == Append(events, event)
           seen == Those(events, types, first, last)
<1>1. \A i \in first..last : longer[i] = events[i]
  OBVIOUS
<1> HIDE DEF longer
<1>2. Those(longer, types, first, last) = seen
  BY <1>1 DEF Those
<1>3. CASE seen = {}
  BY <1>2, <1>3 DEF NewestIn, longer
<1>4. CASE seen # {}
  <2>1. PICK n \in seen : \A j \in seen : j <= n
    BY <1>4, NewestExists
  <2>2. NewestIn(events, types, first, last, before) = events[n].attempt
    BY <2>1, NewestIs
  <2>3. NewestIn(longer, types, first, last, before) = longer[n].attempt
    BY <1>2, <2>1, NewestIs
  <2>4. n \in first..last
    BY DEF Those
  <2> QED
    BY <1>1, <2>2, <2>3, <2>4 DEF longer
<1> QED
  BY <1>3, <1>4

(* The newest of the events of some types is the last one, if it is one.   *)
LEMMA LastIsNewest ==
  ASSUME NEW events, NEW types, NEW last \in Nat \ {0}, events[last].type \in types
  PROVE  NewestIn(events, types, 1, last, 0) = events[last].attempt
<1>1. /\ last \in Those(events, types, 1, last)
      /\ \A j \in Those(events, types, 1, last) : j <= last
  BY DEF Those
<1> QED
  BY <1>1, NewestIs

(* The session moves on and tells of it, before its end.                   *)
Moved(r, e) ==
  /\ record' = r /\ journal' = Append(journal, e)
  /\ r.kind = record.kind
  /\ Consistent(r, Append(journal, e))

LEMMA HoldsStays ==
  ASSUME NEW w \in Waiters, NEW events \in Seq(Events), NEW e \in Events,
         w.cursor <= Len(events), Holds(w, events)
  PROVE  Holds(w, Append(events, e))
<1>1. w.from + 1 \in Nat \ {0} /\ w.cursor \in Nat
  BY DEF Waiters
<1>2. \A types : NewestIn(Append(events, e), types, w.from + 1, w.cursor, 0)
                   = NewestIn(events, types, w.from + 1, w.cursor, 0)
  BY <1>1, ProjectionsStay
<1> QED
  BY <1>2 DEF Holds

LEMMA MovedKeeps ==
  ASSUME WatchInv, record.state \notin Terminal, NEW r \in Records, NEW e \in Events, Moved(r, e),
         UNCHANGED waiter
  PROVE  WatchInv'
<1> DEFINE longer == Append(journal, e)
<1>1. /\ longer \in Seq(Events) /\ Len(longer) = Len(journal) + 1
      /\ journal \in Seq(Events) /\ Len(journal) \in Nat /\ Len(journal) > 0
      /\ waiter \in Waiters /\ waiter.cursor \in Nat /\ waiter.cursor <= Len(journal)
  BY DEF WatchInv, Waiters, Follows
<1>2. Holds(waiter, journal) => Holds(waiter, longer)
  BY <1>1, HoldsStays
<1>3. record' = r /\ journal' = longer /\ Consistent(r, longer) /\ r.kind = record.kind
  BY DEF Moved
<1> HIDE DEF longer
<1>4. Follows(waiter, r, longer)
  BY <1>1, <1>2, <1>3 DEF WatchInv, Follows
<1> QED
  BY <1>1, <1>3, <1>4 DEF WatchInv

(* Its last event is the one appended.                                     *)
LEMMA AppendedIsLast ==
  ASSUME WatchInv, NEW e \in Events
  PROVE  Append(journal, e)[Len(Append(journal, e))] = e
<1>1. journal \in Seq(Events)
  BY DEF WatchInv
<1> QED
  BY <1>1

LEMMA BecomesMoves ==
  ASSUME WatchInv, NEW state \in States \ {"queued", "running", "committing"},
         Becomes(state, record.attempt),
         state = "approval" => record.kind = "agent" /\ record.result = 0,
         state = "succeeded" => record.state = "committing",
         state = "blocked" => record.kind = "agent"
  PROVE  \E r \in Records, e \in Events : Moved(r, e)
<1> DEFINE r == [record EXCEPT !.state = state]
           e == [type |-> state, attempt |-> record.attempt]
<1>1. /\ record \in Records /\ Consistent(record, journal)
      /\ r \in Records /\ r.kind = record.kind /\ r.state = state /\ r.attempt = record.attempt
      /\ r.result = record.result
      /\ e \in Events
  BY DEF WatchInv, Records, Events
<1>2. Append(journal, e)[Len(Append(journal, e))] = e
  BY <1>1, AppendedIsLast
<1>3. record' = r /\ journal' = Append(journal, e)
  BY DEF Becomes, Append1
<1>4. e = [type |-> state, attempt |-> r.attempt]
  BY <1>1
<1> HIDE DEF r, e
<1>5. Consistent(r, Append(journal, e))
  BY <1>1, <1>2, <1>4 DEF Consistent
<1> QED
  BY <1>1, <1>3, <1>5 DEF Moved

(* Any other state, with its event.                                        *)
LEMMA OtherwiseMoves ==
  ASSUME WatchInv, NEW r \in Records, NEW e \in Events, record' = r,
         journal' = Append(journal, e), r.kind = record.kind,
         r.state \notin {"succeeded", "approval"},
         r.state \in {"queued", "running"} => r.result = 0,
         r.state \in {"running", "committing"} => r.attempt # 0,
         r.state = "committing" => r.result # 0,
         r.state = "blocked" => r.kind = "agent" \/ r.result = 0
  PROVE  Moved(r, e)
BY DEF Moved, Consistent, Records

LEMMA CancelMoves ==
  ASSUME WatchInv, CancelEffect
  PROVE  \/ UNCHANGED <<record, journal>>
         \/ /\ record.state \notin Terminal
            /\ \E r \in Records, e \in Events : Moved(r, e)
<1>1. record \in Records /\ Consistent(record, journal)
  BY DEF WatchInv
<1>2. CASE record.state = "queued"
  <2> DEFINE r == [record EXCEPT !.state = "cancelled"]
             e == [type |-> r.state, attempt |-> 0]
  <2>1. r \in Records /\ r.kind = record.kind /\ r.state = "cancelled" /\ e \in Events
    BY <1>1 DEF Records, States, Terminal, Events
  <2>2. record' = r /\ r # record
    BY <1>1, <1>2, <2>1 DEF CancelEffect, CancelledRecord
  <2>3. journal' = Append(journal, e)
    BY <2>2 DEF CancelEffect, Append1
  <2> HIDE DEF r, e
  <2> QED
    BY <1>2, <2>1, <2>2, <2>3, OtherwiseMoves DEF Terminal
<1>3. CASE record.state = "running"
  <2> DEFINE r == [record EXCEPT !.state = "cancelling"]
             e == [type |-> r.state, attempt |-> 0]
  <2>1. r \in Records /\ r.kind = record.kind /\ r.state = "cancelling" /\ e \in Events
    BY <1>1 DEF Records, States, Terminal, Events
  <2>2. record' = r /\ r # record
    BY <1>1, <1>3, <2>1 DEF CancelEffect, CancelledRecord
  <2>3. journal' = Append(journal, e)
    BY <2>2 DEF CancelEffect, Append1
  <2> HIDE DEF r, e
  <2> QED
    BY <1>3, <2>1, <2>2, <2>3, OtherwiseMoves DEF Terminal
<1>4. CASE record.state \notin {"queued", "running"}
  BY <1>4 DEF CancelEffect, CancelledRecord
<1> QED
  BY <1>2, <1>3, <1>4

LEMMA SessionStep ==
  ASSUME WatchInv, SessionNext, ~ResumeSession
  PROVE  WatchInv'
<1>1. record \in Records /\ Consistent(record, journal) /\ WatchAttempts \in Nat
  BY WatchAssumption DEF WatchInv
<1>2. CASE BeginAttempt
  <2> DEFINE r == [record EXCEPT !.state = "running", !.attempt = record.attempt + 1]
             e == [type |-> "running", attempt |-> record.attempt + 1]
  <2>0. record.attempt \in Nat /\ record.attempt + 1 \in Nat /\ record.attempt + 1 # 0
    BY <1>1 DEF Records
  <2>e. e \in Events
    BY <2>0 DEF States, Events
  <2>r. \A k \in Nat : LET s == [record EXCEPT !.state = "running", !.attempt = k] IN
          s \in Records /\ s.kind = record.kind /\ s.state = "running" /\ s.attempt = k
            /\ s.result = record.result
    BY <1>1 DEF Records, States, Terminal
  <2>1. /\ r \in Records /\ r.kind = record.kind /\ r.state = "running" /\ e \in Events
        /\ r.attempt # 0 /\ r.result = record.result
    BY <2>0, <2>e, <2>r
  <2>2. /\ record' = r /\ journal' = Append(journal, e) /\ UNCHANGED waiter
        /\ record.state = "queued"
    BY <1>2 DEF BeginAttempt, Append1
  <2>3. record.result = 0 /\ record.state \notin Terminal
    BY <1>1, <2>2 DEF Consistent, Terminal
  <2> HIDE DEF r, e
  <2>4. Moved(r, e)
    BY <2>1, <2>2, <2>3, OtherwiseMoves
  <2> QED
    BY <2>1, <2>2, <2>3, <2>4, MovedKeeps
<1>3. CASE OfferCandidate
  <2> DEFINE e == [type |-> "candidate", attempt |-> record.attempt]
  <2>1. /\ record.state = "running" /\ e \in Events /\ journal' = Append(journal, e)
        /\ UNCHANGED <<record, waiter>>
    BY <1>1, <1>3 DEF OfferCandidate, Append1, Records, Events
  <2> HIDE DEF e
  <2>2. Moved(record, e) /\ record.state \notin Terminal
    BY <1>1, <2>1 DEF Moved, Consistent, Terminal
  <2> QED
    BY <1>1, <2>1, <2>2, MovedKeeps
<1>4. CASE StageResult
  <2> DEFINE r == [record EXCEPT !.state = "committing", !.result = record.attempt]
             e == [type |-> "committing", attempt |-> record.attempt]
  <2>1. /\ r \in Records /\ r.kind = record.kind /\ r.state = "committing" /\ e \in Events
        /\ r.attempt = record.attempt /\ r.result = record.attempt
    BY <1>1 DEF Records, States, Terminal, Events
  <2>2. /\ record' = r /\ journal' = Append(journal, e) /\ UNCHANGED waiter
        /\ record.state = "running"
    BY <1>4 DEF StageResult, Append1
  <2>3. record.attempt # 0 /\ record.state \notin Terminal
    BY <1>1, <2>2 DEF Consistent, Terminal
  <2> HIDE DEF r, e
  <2>4. Moved(r, e)
    BY <2>1, <2>2, <2>3, OtherwiseMoves
  <2> QED
    BY <2>1, <2>2, <2>3, <2>4, MovedKeeps
<1>5. CASE RejectResult
  <2>1. PICK state \in {"failed", "blocked"} :
          /\ record' = [record EXCEPT !.state = state, !.result = 0]
          /\ Append1(state, record.attempt)
    BY <1>5 DEF RejectResult
  <2> DEFINE r == [record EXCEPT !.state = state, !.result = 0]
             e == [type |-> state, attempt |-> record.attempt]
  <2>2. /\ r \in Records /\ r.kind = record.kind /\ r.state = state /\ e \in Events
        /\ r.attempt = record.attempt /\ r.result = 0
    BY <1>1, <2>1 DEF Records, States, Terminal, Events
  <2>3. /\ record' = r /\ journal' = Append(journal, e) /\ UNCHANGED waiter
        /\ record.state \notin Terminal
    BY <1>5, <2>1 DEF RejectResult, Append1, Terminal
  <2> HIDE DEF r, e
  <2>4. Moved(r, e)
    BY <2>1, <2>2, <2>3, OtherwiseMoves
  <2> QED
    BY <2>2, <2>3, <2>4, MovedKeeps
<1>6. CASE CancelSession
  <2>1. CancelEffect /\ UNCHANGED waiter
    BY <1>6 DEF CancelSession
  <2>2. CASE UNCHANGED <<record, journal>>
    BY <2>1, <2>2 DEF WatchInv
  <2>3. CASE record.state \notin Terminal /\ \E r \in Records, e \in Events : Moved(r, e)
    BY <2>1, <2>3, MovedKeeps
  <2> QED
    BY <2>1, <2>2, <2>3, CancelMoves
<1>7. ASSUME NEW state \in {"succeeded", "failed", "blocked", "approval", "cancelled"},
             Becomes(state, record.attempt), record.state \notin Terminal,
             state = "approval" => record.kind = "agent" /\ record.result = 0,
             state = "succeeded" => record.state = "committing",
             state = "blocked" => record.kind = "agent"
      PROVE  WatchInv'
  <2>1. state \in States \ {"queued", "running", "committing"} /\ UNCHANGED waiter
    BY <1>7 DEF States, Terminal, Becomes
  <2>2. PICK r \in Records, e \in Events : Moved(r, e)
    BY <1>7, <2>1, BecomesMoves
  <2> QED
    BY <1>7, <2>1, <2>2, MovedKeeps
<1>8. CASE FinalizeResult
  BY <1>7, <1>8 DEF FinalizeResult, Terminal
<1>9. CASE EndAttempt
  <2>1. record.state = "running" /\ record.result = 0 /\ record.state \notin Terminal
    BY <1>1, <1>9 DEF EndAttempt, Consistent, Terminal
  <2> QED
    BY <1>7, <1>9, <2>1 DEF EndAttempt
<1>10. CASE RecoverAttempt
  <2>1. record.state = "running" /\ record.result = 0 /\ record.state \notin Terminal
    BY <1>1, <1>10 DEF RecoverAttempt, Consistent, Terminal
  <2>2. ASSUME Becomes("queued", record.attempt) PROVE WatchInv'
    <3> DEFINE r == [record EXCEPT !.state = "queued"]
               e == [type |-> "queued", attempt |-> record.attempt]
    <3>1. /\ r \in Records /\ r.kind = record.kind /\ r.state = "queued" /\ e \in Events
          /\ r.result = 0
      BY <1>1, <2>1 DEF Records, States, Terminal, Events
    <3>2. record' = r /\ journal' = Append(journal, e) /\ UNCHANGED waiter
      BY <2>2 DEF Becomes, Append1
    <3> HIDE DEF r, e
    <3>3. Moved(r, e)
      BY <3>1, <3>2, OtherwiseMoves
    <3> QED
      BY <2>1, <3>1, <3>2, <3>3, MovedKeeps
  <2> QED
    BY <1>7, <1>10, <2>1, <2>2 DEF RecoverAttempt
<1>11. CASE EndCancelled
  BY <1>7, <1>11 DEF EndCancelled, Terminal
<1> QED
  BY <1>2, <1>3, <1>4, <1>5, <1>6, <1>8, <1>9, <1>10, <1>11 DEF SessionNext

(* A waiter that begins holds nothing, and nothing is there to hold.       *)
LEMMA NewHolds ==
  ASSUME NEW n \in Nat, NEW events
  PROVE  NewWaiter("page", n) \in Waiters /\ Holds(NewWaiter("page", n), events)
<1> DEFINE w == NewWaiter("page", n)
<1>1. /\ w \in Waiters /\ w.from = n /\ w.cursor = n /\ w.candidate = 0 /\ w.end = 0
  BY DEF NewWaiter, Waiters, States
<1> HIDE DEF w
<1>2. \A types : Those(events, types, n + 1, n) = {}
  BY DEF Those
<1>3. \A types : NewestIn(events, types, n + 1, n, 0) = 0
  BY <1>2 DEF NewestIn
<1>4. Holds(w, events)
  BY <1>1, <1>3 DEF Holds
<1> QED
  BY <1>1, <1>4 DEF w

LEMMA NewFollows ==
  ASSUME NEW n \in Nat, NEW r, NEW events, n <= Len(events), r.kind = "prompt" => n = 0
  PROVE  Follows(NewWaiter("page", n), r, events)
<1> DEFINE w == NewWaiter("page", n)
<1>1. w.from = n /\ w.cursor = n /\ w.at = "page"
  BY DEF NewWaiter
<1>2. Holds(w, events)
  BY NewHolds
<1> HIDE DEF w
<1>3. Follows(w, r, events)
  BY <1>1, <1>2 DEF Follows
<1> QED
  BY <1>3 DEF w

LEMMA ResumeStep ==
  ASSUME WatchInv, ResumeSession
  PROVE  WatchInv'
<1> DEFINE r == [record EXCEPT !.state = "queued", !.result = 0]
           e == [type |-> "queued", attempt |-> 0]
           longer == Append(journal, e)
           resumed == [waiter EXCEPT !.resumed = TRUE]
<1>1. /\ record \in Records /\ journal \in Seq(Events) /\ waiter \in Waiters
      /\ Follows(waiter, record, journal)
  BY DEF WatchInv
<1>2. r \in Records /\ r.kind = record.kind /\ r.state = "queued" /\ r.result = 0 /\ e \in Events
  BY <1>1 DEF Records, States, Events
<1>3. record' = r /\ journal' = longer /\ record.kind = "agent"
  BY DEF ResumeSession, Append1
<1>4. waiter' = resumed \/ waiter' = NewWaiter("page", Len(journal'))
  BY DEF ResumeSession
<1>5. longer \in Seq(Events) /\ Len(longer) = Len(journal) + 1 /\ Len(journal) \in Nat
  BY <1>1, <1>2
<1>6. resumed \in Waiters /\ resumed.at = waiter.at /\ resumed.from = waiter.from
        /\ resumed.cursor = waiter.cursor /\ resumed.resumed = TRUE
        /\ resumed.candidate = waiter.candidate /\ resumed.end = waiter.end
  BY <1>1 DEF Waiters
<1> HIDE DEF r
<1>7. Consistent(r, longer)
  BY <1>2, <1>3 DEF Consistent
<1>8. ASSUME Holds(waiter, journal) PROVE Holds(waiter, longer)
  <2>1. waiter.cursor <= Len(journal)
    BY <1>1 DEF Follows
  <2> QED
    BY <1>1, <1>2, <1>8, <2>1, HoldsStays
<1> HIDE DEF e, longer, resumed
<1>9. CASE waiter' = resumed
  <2>1. waiter.at \in {"page", "session", "result"} => Holds(waiter, journal)
    BY <1>1 DEF Follows
  <2>2. waiter.at \in {"page", "session", "result"} => Holds(resumed, longer)
    BY <1>6, <1>8, <2>1 DEF Holds
  <2>3. waiter.from \in Nat /\ waiter.cursor \in Nat
    BY <1>1 DEF Waiters
  <2>4. resumed.from <= resumed.cursor /\ resumed.cursor <= Len(longer)
    BY <1>1, <1>5, <1>6, <2>3 DEF Follows
  <2>5. Follows(resumed, r, longer)
    BY <1>2, <1>3, <1>6, <2>2, <2>4 DEF Follows
  <2>6. Len(longer) > 0
    BY <1>5
  <2> QED
    BY <1>2, <1>3, <1>5, <1>6, <1>7, <1>9, <2>5, <2>6 DEF WatchInv
<1>10. CASE waiter' = NewWaiter("page", Len(journal'))
  <2>1. Len(longer) \in Nat /\ Len(longer) > 0
    BY <1>5
  <2> DEFINE w == NewWaiter("page", Len(longer))
  <2>2. w \in Waiters
    BY <2>1, NewHolds
  <2>3. Follows(w, r, longer)
    BY <1>2, <1>3, <2>1, NewFollows
  <2>4. waiter' = w
    BY <1>3, <1>10
  <2> HIDE DEF w
  <2> QED
    BY <1>2, <1>3, <1>5, <1>7, <2>1, <2>2, <2>3, <2>4 DEF WatchInv
<1> QED
  BY <1>4, <1>9, <1>10

LEMMA StartStep ==
  ASSUME WatchInv, StartWaiting
  PROVE  WatchInv'
<1>1. PICK n \in {0} \cup (IF record.kind = "agent" THEN {Len(journal)} ELSE {}) :
        waiter' = NewWaiter("page", n)
  BY DEF StartWaiting
<1>2. Len(journal) \in Nat
  BY DEF WatchInv
<1>3. n \in Nat /\ n <= Len(journal) /\ (record.kind = "prompt" => n = 0)
  BY <1>1, <1>2
<1> DEFINE w == NewWaiter("page", n)
<1>4. w \in Waiters /\ Follows(w, record, journal)
  BY <1>3, NewHolds, NewFollows
<1>5. waiter' = w /\ UNCHANGED <<record, journal>>
  BY <1>1 DEF StartWaiting
<1> HIDE DEF w
<1> QED
  BY <1>4, <1>5 DEF WatchInv

(* A page takes both projections further.                                  *)
LEMMA ProjectedIsNewest ==
  ASSUME NEW types, NEW first, NEW last, NEW before
  PROVE  Projected(types, first, last, before) = NewestIn(journal, types, first, last, before)
BY DEF Projected, NewestIn, Those, Latest

LEMMA ProjectedIsTyped ==
  ASSUME journal \in Seq(Events), NEW types, NEW first \in Nat \ {0}, NEW last \in Nat,
         last <= Len(journal), NEW before \in Nat
  PROVE  NewestIn(journal, types, first, last, before) \in Nat
<1> DEFINE those == Those(journal, types, first, last)
<1>1. CASE those = {}
  BY <1>1 DEF NewestIn
<1>2. CASE those # {}
  <2>1. PICK n \in those : \A j \in those : j <= n
    BY <1>2, NewestExists
  <2>2. NewestIn(journal, types, first, last, before) = journal[n].attempt
    BY <2>1, NewestIs
  <2>3. n \in 1..Len(journal)
    BY DEF Those
  <2>4. journal[n] \in Events
    BY <2>3
  <2> QED
    BY <2>2, <2>4 DEF Events
<1> QED
  BY <1>1, <1>2

LEMMA PageStep ==
  ASSUME WatchInv, ReadPage
  PROVE  WatchInv'
<1> DEFINE last == IF waiter.cursor + PageSize < Len(journal) THEN waiter.cursor + PageSize
                   ELSE Len(journal)
           c == Projected({"candidate"}, waiter.cursor + 1, last, waiter.candidate)
           t == Projected(Terminal, waiter.cursor + 1, last, waiter.end)
           at == IF last < Len(journal) THEN "page" ELSE "session"
           w == [waiter EXCEPT !.cursor = last, !.candidate = c, !.end = t, !.at = at]
<1>1. /\ journal \in Seq(Events) /\ waiter \in Waiters /\ Follows(waiter, record, journal)
      /\ waiter.at = "page" /\ UNCHANGED <<record, journal>>
  BY DEF WatchInv, ReadPage
<1>2. /\ waiter.from \in Nat /\ waiter.cursor \in Nat /\ Len(journal) \in Nat
      /\ waiter.candidate \in Nat /\ waiter.end \in Nat
      /\ waiter.from <= waiter.cursor /\ waiter.cursor <= Len(journal)
      /\ record.kind = "prompt" => waiter.from = 0
      /\ Holds(waiter, journal)
  BY <1>1 DEF Waiters, Follows
<1>3. last \in Nat /\ waiter.cursor <= last /\ last <= Len(journal)
  BY <1>2, WatchAssumption
<1>4. waiter' = w
  BY DEF ReadPage
<1>5. at \in {"page", "session"}
  OBVIOUS
<1> HIDE DEF last, at
<1>6. /\ c = NewestIn(journal, {"candidate"}, waiter.cursor + 1, last, waiter.candidate)
      /\ t = NewestIn(journal, Terminal, waiter.cursor + 1, last, waiter.end)
  BY ProjectedIsNewest
<1> HIDE DEF c, t
<1>7. c \in Nat /\ t \in Nat
  <2>1. waiter.cursor + 1 \in Nat \ {0}
    BY <1>2
  <2> QED
    BY <1>1, <1>2, <1>3, <1>6, <2>1, ProjectedIsTyped
<1>8. /\ c = NewestIn(journal, {"candidate"}, waiter.from + 1, last, 0)
      /\ t = NewestIn(journal, Terminal, waiter.from + 1, last, 0)
  <2>1. waiter.from + 1 \in Nat \ {0} /\ waiter.from + 1 <= waiter.cursor + 1
    BY <1>2
  <2>2. \A types : NewestIn(journal, types, waiter.from + 1, last, 0)
          = NewestIn(journal, types, waiter.cursor + 1, last,
                     NewestIn(journal, types, waiter.from + 1, waiter.cursor, 0))
    BY <1>2, <1>3, <2>1, ProjectionsCompose
  <2> QED
    BY <1>2, <1>6, <2>2 DEF Holds
<1>9. /\ w \in Waiters /\ w.at = at /\ w.from = waiter.from /\ w.cursor = last
      /\ w.candidate = c /\ w.end = t
  BY <1>1, <1>3, <1>5, <1>7 DEF Waiters
<1> HIDE DEF w
<1>10. Follows(w, record, journal)
  <2>1. w.from <= w.cursor /\ w.cursor <= Len(journal)
    BY <1>2, <1>3, <1>9
  <2> QED
    BY <1>2, <1>5, <1>8, <1>9, <2>1 DEF Follows, Holds
<1> QED
  BY <1>1, <1>4, <1>9, <1>10 DEF WatchInv

LEMMA ReadStep ==
  ASSUME WatchInv, ReadSession
  PROVE  WatchInv'
<1> DEFINE at == IF record.state \in Terminal /\ waiter.cursor >= Len(journal) THEN "result"
                 ELSE "page"
           s == [state |-> record.state, attempt |-> record.attempt]
           w == [waiter EXCEPT !.at = at, !.seen = s]
<1>1. /\ record \in Records /\ waiter \in Waiters /\ Follows(waiter, record, journal)
      /\ journal \in Seq(Events)
      /\ waiter.at = "session" /\ UNCHANGED <<record, journal>> /\ waiter' = w
  BY DEF WatchInv, ReadSession
<1>2. /\ waiter.cursor \in Nat /\ Len(journal) \in Nat /\ waiter.from \in Nat
      /\ waiter.from <= waiter.cursor /\ waiter.cursor <= Len(journal)
      /\ record.kind = "prompt" => waiter.from = 0
      /\ Holds(waiter, journal)
  BY <1>1 DEF Waiters, Follows
<1>3. at \in {"page", "result"}
      /\ (at = "result" => record.state \in Terminal /\ waiter.cursor = Len(journal))
  BY <1>2
<1>4. s \in [state : States \cup {"none"}, attempt : Nat]
      /\ s.state = record.state /\ s.attempt = record.attempt
  BY <1>1 DEF Records
<1> HIDE DEF at, s
<1>5. /\ w \in Waiters /\ w.at = at /\ w.seen = s /\ w.from = waiter.from
      /\ w.cursor = waiter.cursor /\ w.candidate = waiter.candidate /\ w.end = waiter.end
  BY <1>1, <1>3, <1>4 DEF Waiters
<1> HIDE DEF w
<1>6. Follows(w, record, journal)
  BY <1>2, <1>3, <1>4, <1>5 DEF Follows, Holds
<1> QED
  BY <1>1, <1>5, <1>6 DEF WatchInv

(* A waiter that has left; and the session it may have cancelled.          *)
LEMMA LeavesKeeps ==
  ASSUME WatchInv, NEW told \in {"result", "approval", "error", "failure"},
         waiter' = [waiter EXCEPT !.at = "done", !.told = told],
         \/ UNCHANGED <<record, journal>>
         \/ /\ record.state \notin Terminal
            /\ \E r \in Records, e \in Events : Moved(r, e)
  PROVE  WatchInv'
<1> DEFINE w == [waiter EXCEPT !.at = "done", !.told = told]
<1>1. /\ record \in Records /\ journal \in Seq(Events) /\ waiter \in Waiters
      /\ Len(journal) \in Nat /\ Len(journal) > 0 /\ waiter' = w
      /\ Follows(waiter, record, journal)
  BY DEF WatchInv
<1>2. /\ w \in Waiters /\ w.at = "done" /\ w.from = waiter.from /\ w.cursor = waiter.cursor
      /\ waiter.from \in Nat /\ waiter.cursor \in Nat
  BY <1>1 DEF Waiters
<1> HIDE DEF w
<1>3. w.from <= w.cursor /\ w.cursor <= Len(journal) /\ (record.kind = "prompt" => w.from = 0)
  BY <1>1, <1>2 DEF Follows
<1>4. CASE UNCHANGED <<record, journal>>
  <2>1. Follows(w, record, journal)
    BY <1>2, <1>3 DEF Follows
  <2> QED
    BY <1>1, <1>2, <1>4, <2>1 DEF WatchInv
<1>5. ASSUME NEW r \in Records, NEW e \in Events, Moved(r, e) PROVE WatchInv'
  <2> DEFINE longer == Append(journal, e)
  <2>1. /\ longer \in Seq(Events) /\ Len(longer) = Len(journal) + 1
        /\ record' = r /\ journal' = longer /\ Consistent(r, longer) /\ r.kind = record.kind
    BY <1>1, <1>5 DEF Moved
  <2> HIDE DEF longer
  <2>2. w.cursor <= Len(longer) /\ Len(longer) > 0
    BY <1>1, <1>2, <1>3, <2>1
  <2>3. Follows(w, r, longer)
    BY <1>2, <1>3, <2>1, <2>2 DEF Follows
  <2> QED
    BY <1>1, <1>2, <2>1, <2>2, <2>3 DEF WatchInv
<1> QED
  BY <1>4, <1>5

LEMMA ThrowsStep ==
  ASSUME WatchInv, NEW told \in {"error", "failure"}, Throws(waiter, told)
  PROVE  WatchInv'
<1>1. waiter' = [waiter EXCEPT !.at = "done", !.told = told]
  BY DEF Throws
<1>2. CASE record.kind = "agent"
  BY <1>1, <1>2, CancelMoves, LeavesKeeps DEF Throws
<1>3. CASE record.kind # "agent"
  BY <1>1, <1>3, LeavesKeeps DEF Throws
<1> QED
  BY <1>2, <1>3

LEMMA VerdictIs ==
  ASSUME NEW w
  PROVE  Verdict(w) \in {"error", "approval", "result"}
BY DEF Verdict

LEMMA WatchBegins ==
  ASSUME WatchInit
  PROVE  WatchInv
<1> DEFINE e == [type |-> "queued", attempt |-> 0]
           w == NewWaiter("none", 0)
<1>1. PICK k \in {"agent", "prompt"} :
        record = [kind |-> k, state |-> "queued", attempt |-> 0, result |-> 0]
  BY DEF WatchInit
<1>2. e \in Events
  BY DEF States, Events
<1>3. journal = <<e>> /\ waiter = w
  BY DEF WatchInit
<1>4. /\ w \in Waiters /\ w.at = "none" /\ w.from = 0 /\ w.cursor = 0
  BY DEF NewWaiter, Waiters, States
<1> HIDE DEF e, w
<1>5. journal \in Seq(Events) /\ Len(journal) = 1
  BY <1>2, <1>3
<1>6. record \in Records /\ Consistent(record, journal)
  BY <1>1 DEF Records, States, Consistent
<1>7. Follows(w, record, journal)
  BY <1>4, <1>5 DEF Follows
<1> QED
  BY <1>3, <1>4, <1>5, <1>6, <1>7 DEF WatchInv

LEMMA WatchStep == WatchInv /\ [WatchNext]_watchVars => WatchInv'
<1> SUFFICES ASSUME WatchInv, [WatchNext]_watchVars PROVE WatchInv'
  OBVIOUS
<1>1. CASE SessionNext /\ ~ResumeSession
  BY <1>1, SessionStep
<1>2. CASE ResumeSession
  BY <1>2, ResumeStep
<1>3. CASE StartWaiting
  BY <1>3, StartStep
<1>4. CASE ReadPage
  BY <1>4, PageStep
<1>5. CASE ReadSession
  BY <1>5, ReadStep
<1>6. CASE ReadResult
  <2>1. CASE Verdict(waiter) = "error"
    BY <1>6, <2>1, ThrowsStep DEF ReadResult
  <2>2. CASE Verdict(waiter) # "error"
    <3>1. PICK told \in {"result", "approval"} : told = Verdict(waiter)
      BY <2>2, VerdictIs
    <3>2. /\ waiter' = [waiter EXCEPT !.at = "done", !.told = told]
          /\ UNCHANGED <<record, journal>>
      BY <1>6, <2>2, <3>1 DEF ReadResult
    <3> QED
      BY <3>2, LeavesKeeps
  <2> QED
    BY <2>1, <2>2
<1>7. CASE GiveUp
  BY <1>7, ThrowsStep DEF GiveUp
<1>8. CASE UNCHANGED watchVars
  BY <1>8 DEF watchVars, WatchInv
<1> QED
  BY <1>1, <1>2, <1>3, <1>4, <1>5, <1>6, <1>7, <1>8 DEF WatchNext

(* What a waiter with all events holds is what the session came to.        *)
LEMMA VerdictIsRight ==
  ASSUME WatchInv, waiter.at = "result", ~waiter.resumed
  PROVE  /\ record.state \in Terminal
         /\ Verdict(waiter) =
              IF \/ Newest(Terminal) # record.attempt \/ record.attempt = 0
                 \/ Newest({"candidate"}) \notin {0, record.attempt}
                 \/ record.state \in {"failed", "cancelled"}
              THEN "error"
              ELSE IF record.state = "approval" THEN "approval"
              ELSE IF record.result # 0 THEN "result" ELSE "error"
<1>1. /\ record \in Records /\ journal \in Seq(Events) /\ waiter \in Waiters
      /\ Len(journal) \in Nat /\ Len(journal) > 0
      /\ Consistent(record, journal) /\ Follows(waiter, record, journal)
  BY DEF WatchInv
<1>2. /\ record.state \in Terminal /\ waiter.cursor = Len(journal) /\ Holds(waiter, journal)
      /\ waiter.seen.state = record.state /\ waiter.seen.attempt = record.attempt
      /\ record.kind = "prompt" => waiter.from = 0
  BY <1>1 DEF Follows
<1>3. Newest({"candidate"}) = waiter.candidate /\ Newest(Terminal) = waiter.end
  BY <1>2, ProjectedIsNewest DEF Newest, Holds
<1>4. CASE record.kind = "agent"
  <2> DEFINE wrong == waiter.end = 0 \/ waiter.end # record.attempt
             other == waiter.candidate \notin {0, record.attempt}
             over == record.state \in {"failed", "cancelled"}
             verdict == IF wrong \/ other \/ over THEN "error"
                        ELSE IF record.state = "approval" THEN "approval"
                        ELSE IF record.result # 0 THEN "result" ELSE "error"
  <2>1. record.state = "approval" => record.result = 0
    BY <1>1 DEF Consistent
  <2>2. Verdict(waiter) = verdict
    <3>1. CASE wrong \/ other \/ over
      BY <1>2, <1>4, <3>1 DEF Verdict
    <3>2. CASE ~wrong /\ ~other /\ ~over /\ record.state = "approval"
      BY <1>2, <1>4, <2>1, <3>2 DEF Verdict
    <3>3. CASE ~wrong /\ ~other /\ ~over /\ record.state # "approval"
      BY <1>2, <1>4, <3>3 DEF Verdict
    <3> QED
      BY <3>1, <3>2, <3>3
  <2> QED
    BY <1>2, <1>3, <2>2
<1>5. CASE record.kind = "prompt"
  <2>1. CASE record.state = "succeeded"
    <3>1. journal[Len(journal)].type \in Terminal /\ journal[Len(journal)].attempt = record.attempt
      BY <1>1, <2>1 DEF Consistent, Terminal
    <3>2. Len(journal) \in Nat \ {0} /\ waiter.from + 1 = 1
      BY <1>1, <1>2, <1>5
    <3>3. NewestIn(journal, Terminal, 1, Len(journal), 0) = record.attempt
      BY <3>1, <3>2, LastIsNewest
    <3>4. waiter.end = record.attempt
      BY <1>2, <3>2, <3>3 DEF Holds
    <3> QED
      BY <1>1, <1>2, <1>3, <1>5, <2>1, <3>4 DEF Verdict, Consistent
  <2>2. CASE record.state # "succeeded"
    BY <1>1, <1>2, <1>3, <1>5, <2>2 DEF Verdict, Consistent, Terminal
  <2> QED
    BY <2>1, <2>2
<1>6. record.kind \in {"agent", "prompt"}
  BY <1>1 DEF Records
<1> QED
  BY <1>2, <1>4, <1>5, <1>6

(* A waiter that nobody cut short tells what became of a session that      *)
(* nobody resumed: waitForAgentTaskSession and waitForPromptTaskSession    *)
(* never end a turn with another attempt's end or before they have seen it.*)
THEOREM WaitersAreTold == WatchSpec => WaitersTellTheEnd
<1>1. ASSUME WatchInv, [WatchNext]_watchVars, waiter.at = "result", waiter'.at = "done",
             waiter'.told # "failure", ~waiter.resumed
      PROVE  waiter'.told = Verdict(waiter)
  <2>1. waiter \in Waiters
    BY <1>1 DEF WatchInv
  <2>2. ReadResult
    <3>2. CASE SessionNext /\ ~ResumeSession
      <4>1. UNCHANGED waiter
        BY <3>2 DEF SessionNext, BeginAttempt, OfferCandidate, StageResult, FinalizeResult,
                    RejectResult, EndAttempt, RecoverAttempt, EndCancelled, CancelSession, Becomes
      <4> QED
        BY <1>1, <4>1
    <3>3. CASE ResumeSession
      <4>1. waiter' = [waiter EXCEPT !.resumed = TRUE] \/ waiter' = NewWaiter("page", Len(journal'))
        BY <3>3 DEF ResumeSession
      <4>2. waiter'.at # "done"
        BY <1>1, <2>1, <4>1 DEF NewWaiter, Waiters
      <4> QED
        BY <1>1, <4>2
    <3>4. ~StartWaiting /\ ~ReadPage /\ ~ReadSession /\ waiter' # waiter
      BY <1>1 DEF StartWaiting, ReadPage, ReadSession
    <3>5. CASE GiveUp
      <4>1. waiter' = [waiter EXCEPT !.at = "done", !.told = "failure"]
        BY <3>5 DEF GiveUp, Throws
      <4>2. waiter'.told = "failure"
        BY <2>1, <4>1 DEF Waiters
      <4> QED
        BY <1>1, <4>2
    <3> QED
      BY <1>1, <3>2, <3>3, <3>4, <3>5 DEF WatchNext, watchVars
  <2>3. waiter' = [waiter EXCEPT !.at = "done", !.told = Verdict(waiter)]
    BY <2>2 DEF ReadResult, Throws
  <2> QED
    BY <2>1, <2>3 DEF Waiters
<1>2. ASSUME WatchInv, [WatchNext]_watchVars
      PROVE  [waiter.at = "result" /\ waiter'.at = "done" /\ waiter'.told # "failure"
                /\ ~waiter.resumed =>
                /\ record.state \in Terminal
                /\ waiter'.told =
                     IF \/ Newest(Terminal) # record.attempt \/ record.attempt = 0
                        \/ Newest({"candidate"}) \notin {0, record.attempt}
                        \/ record.state \in {"failed", "cancelled"}
                     THEN "error"
                     ELSE IF record.state = "approval" THEN "approval"
                     ELSE IF record.result # 0 THEN "result" ELSE "error"]_watchVars
  BY <1>1, <1>2, VerdictIsRight
<1> QED
  BY <1>2, WatchBegins, WatchStep, PTL DEF WatchSpec, WaitersTellTheEnd
-----------------------------------------------------------------------------
(* What a chat streams and what its attempt writes.                        *)

(* FoldLeft of Coalesce by the recursion it is defined with.               *)
Unfolds(g, w, s, n) ==
  g = [T \in SUBSET (1..n) |-> IF T = {} THEN w ELSE Coalesce(g[T \ {Max(T)}], s[Max(T)])]

LEMMA UnfoldsExists ==
  ASSUME NEW w, NEW s, NEW n \in Nat
  PROVE  \E g : Unfolds(g, w, s, n)
<1> DEFINE Reached == {k \in Nat : \E g : Unfolds(g, w, s, k)}
<1>1. 0 \in Reached
  <2>1. Unfolds([T \in SUBSET (1..0) |-> w], w, s, 0)
    BY DEF Unfolds
  <2> QED
    BY <2>1
<1>2. ASSUME NEW k \in Reached PROVE k + 1 \in Reached
  <2>1. PICK g : Unfolds(g, w, s, k)
    BY <1>2
  <2> DEFINE h == [T \in SUBSET (1..k+1) |->
                     IF k + 1 \in T THEN Coalesce(g[T \ {k + 1}], s[k + 1]) ELSE g[T]]
  <2>2. ASSUME NEW T \in SUBSET (1..k+1)
        PROVE  h[T] = IF T = {} THEN w ELSE Coalesce(h[T \ {Max(T)}], s[Max(T)])
    <3>1. CASE k + 1 \in T
      <4>1. Max(T) = k + 1
        <5>1. /\ Max(T) \in T /\ Max(T) >= k + 1
              /\ T \subseteq 1..(k + 1)
          BY <3>1, \A y \in T : k + 1 >= y DEF Max
        <5>2. Max(T) \in Nat /\ Max(T) <= k + 1
          <6>1. k \in Nat /\ Max(T) \in 1..(k + 1)
            BY <5>1
          <6> QED
            BY <6>1
        <5> QED
          BY <5>1, <5>2
      <4>2. T \ {k + 1} \in SUBSET (1..k+1) /\ k + 1 \notin T \ {k + 1}
        OBVIOUS
      <4>3. h[T \ {k + 1}] = g[T \ {k + 1}] /\ h[T] = Coalesce(g[T \ {k + 1}], s[k + 1])
        BY <3>1, <4>2
      <4> HIDE DEF h
      <4> QED
        BY <3>1, <4>1, <4>3
    <3>2. CASE k + 1 \notin T
      <4>1. T \in SUBSET (1..k)
        BY <3>2
      <4>2. h[T] = g[T]
        BY <3>2
      <4>3. g[T] = IF T = {} THEN w ELSE Coalesce(g[T \ {Max(T)}], s[Max(T)])
        BY <2>1, <4>1 DEF Unfolds
      <4>4. T \ {Max(T)} \in SUBSET (1..k+1) /\ k + 1 \notin T \ {Max(T)}
        BY <3>2
      <4>5. h[T \ {Max(T)}] = g[T \ {Max(T)}]
        BY <4>4
      <4> HIDE DEF h
      <4> QED
        BY <4>2, <4>3, <4>5
    <3> QED
      BY <3>1, <3>2
  <2>3. h = [T \in SUBSET (1..k+1) |-> h[T]]
    OBVIOUS
  <2> HIDE DEF h
  <2>4. h = [T \in SUBSET (1..k+1) |-> IF T = {} THEN w ELSE Coalesce(h[T \ {Max(T)}], s[Max(T)])]
    BY <2>2, <2>3, Zenon
  <2>5. Unfolds(h, w, s, k + 1)
    BY <2>4, Zenon DEF Unfolds
  <2> QED
    BY <2>5
<1>3. Reached = Nat
  <2> HIDE DEF Reached
  <2> QED
    BY <1>1, <1>2, Induction DEF Reached
<1> QED
  BY <1>3

LEMMA UnfoldsStarts ==
  ASSUME NEW w, NEW s, NEW n \in Nat, NEW g, Unfolds(g, w, s, n)
  PROVE  g[1..0] = w
<1>1. 1..0 = {} /\ 1..0 \in SUBSET (1..n)
  OBVIOUS
<1> QED
  BY <1>1 DEF Unfolds

LEMMA UnfoldsSteps ==
  ASSUME NEW w, NEW s, NEW n \in Nat, NEW g, Unfolds(g, w, s, n)
  PROVE  \A k \in 0..(n-1) : g[1..(k+1)] = Coalesce(g[1..k], s[k+1])
<1> TAKE k \in 0..(n-1)
<1>1. 1..(k+1) \in SUBSET (1..n) /\ 1..(k+1) # {} /\ (1..(k+1)) \ {k+1} = 1..k
  OBVIOUS
<1>2. Max(1..(k+1)) = k + 1
  BY DEF Max
<1>3. g[1..(k+1)] = Coalesce(g[(1..(k+1)) \ {Max(1..(k+1))}], s[Max(1..(k+1))])
  BY <1>1 DEF Unfolds
<1> QED
  BY <1>1, <1>2, <1>3

LEMMA FoldIs ==
  ASSUME NEW w, NEW E, NEW s \in Seq(E)
  PROVE  \E g : Unfolds(g, w, s, Len(s)) /\ FoldLeft(Coalesce, w, s) = g[1..Len(s)]
<1> DEFINE g == CHOOSE g : Unfolds(g, w, s, Len(s))
<1>1. DOMAIN s = 1..Len(s) /\ Len(s) \in Nat
  OBVIOUS
<1>2. FoldLeft(Coalesce, w, s) = g[1..Len(s)]
  BY <1>1, Zenon DEF FoldLeft, MapThenFoldSet, Unfolds
<1>3. Unfolds(g, w, s, Len(s))
  BY <1>1, UnfoldsExists
<1> QED
  BY <1>2, <1>3

LEMMA UnfoldsAgree ==
  ASSUME NEW w, NEW s, NEW t, NEW n \in Nat, NEW m \in Nat, n <= m,
         NEW g, Unfolds(g, w, s, n), NEW h, Unfolds(h, w, t, m),
         \A i \in 1..n : s[i] = t[i]
  PROVE  g[1..n] = h[1..n]
<1>1. g[1..0] = w
  BY UnfoldsStarts
<1>2. h[1..0] = w
  BY UnfoldsStarts
<1>3. \A k \in 0..(n-1) : g[1..(k+1)] = Coalesce(g[1..k], s[k+1])
  BY UnfoldsSteps
<1>4. \A k \in 0..(m-1) : h[1..(k+1)] = Coalesce(h[1..k], t[k+1])
  BY UnfoldsSteps
<1> DEFINE Agreeing == {k \in Nat : k <= n => g[1..k] = h[1..k]}
<1>5. 0 \in Agreeing
  BY <1>1, <1>2
<1>6. ASSUME NEW k \in Agreeing PROVE k + 1 \in Agreeing
  <2>1. SUFFICES ASSUME k + 1 <= n PROVE g[1..(k+1)] = h[1..(k+1)]
    OBVIOUS
  <2>2. g[1..k] = h[1..k] /\ k \in 0..(n-1) /\ k \in 0..(m-1) /\ k + 1 \in 1..n
    BY <2>1
  <2>3. g[1..(k+1)] = Coalesce(g[1..k], s[k+1])
    BY <1>3, <2>2
  <2>4. h[1..(k+1)] = Coalesce(h[1..k], t[k+1])
    BY <1>4, <2>2
  <2> QED
    BY <2>2, <2>3, <2>4
<1>7. Agreeing = Nat
  <2> HIDE DEF Agreeing
  <2> QED
    BY <1>5, <1>6, Induction DEF Agreeing
<1> QED
  BY <1>7

LEMMA FoldStarts ==
  ASSUME NEW w
  PROVE  FoldLeft(Coalesce, w, <<>>) = w
<1>1. <<>> \in Seq({0}) /\ Len(<<>>) = 0
  OBVIOUS
<1>2. PICK f : Unfolds(f, w, <<>>, 0) /\ FoldLeft(Coalesce, w, <<>>) = f[1..0]
  BY <1>1, FoldIs
<1> QED
  BY <1>2, UnfoldsStarts

LEMMA FoldAppends ==
  ASSUME NEW w, NEW E, NEW s \in Seq(E), NEW e \in E
  PROVE  FoldLeft(Coalesce, w, Append(s, e)) = Coalesce(FoldLeft(Coalesce, w, s), e)
<1> DEFINE t == Append(s, e)
           n == Len(s)
<1>1. /\ t \in Seq(E) /\ Len(t) = n + 1 /\ n \in Nat /\ n + 1 \in Nat
      /\ t[n + 1] = e /\ \A i \in 1..n : s[i] = t[i]
  OBVIOUS
<1> HIDE DEF t
<1>2. PICK g : Unfolds(g, w, s, n) /\ FoldLeft(Coalesce, w, s) = g[1..n]
  BY FoldIs
<1>3. PICK h : Unfolds(h, w, t, n + 1) /\ FoldLeft(Coalesce, w, t) = h[1..(n + 1)]
  BY <1>1, FoldIs
<1> HIDE DEF n
<1>4. g[1..n] = h[1..n]
  BY <1>1, <1>2, <1>3, UnfoldsAgree
<1>5. n \in 0..((n + 1) - 1)
  BY <1>1
<1>6. h[1..(n+1)] = Coalesce(h[1..n], t[n+1])
  BY <1>1, <1>3, <1>5, UnfoldsSteps
<1>7. FoldLeft(Coalesce, w, t) = Coalesce(FoldLeft(Coalesce, w, s), e)
  BY <1>1, <1>2, <1>3, <1>4, <1>6
<1> QED
  BY <1>7 DEF t

(* FlattenSeq, likewise.                                                   *)
Joins(g, ss, n) == g = [i \in 1..n |-> IF i = 1 THEN ss[i] ELSE g[i-1] \o ss[i]]

LEMMA JoinsExists ==
  ASSUME NEW ss, NEW n \in Nat
  PROVE  \E g : Joins(g, ss, n)
<1> DEFINE Reached == {k \in Nat : \E g : Joins(g, ss, k)}
<1>1. 0 \in Reached
  <2>1. Joins([i \in 1..0 |-> 0], ss, 0)
    BY DEF Joins
  <2> QED
    BY <2>1
<1>2. ASSUME NEW k \in Reached PROVE k + 1 \in Reached
  <2>1. PICK g : Joins(g, ss, k)
    BY <1>2
  <2> DEFINE h == [i \in 1..(k+1) |-> IF i <= k THEN g[i]
                                     ELSE IF i = 1 THEN ss[i] ELSE g[i-1] \o ss[i]]
  <2>2. ASSUME NEW i \in 1..(k+1)
        PROVE  h[i] = IF i = 1 THEN ss[i] ELSE h[i-1] \o ss[i]
    <3>1. CASE i = 1
      BY <2>1, <3>1 DEF Joins
    <3>2. CASE i # 1
      <4>1. i - 1 \in 1..k /\ h[i-1] = g[i-1]
        BY <3>2
      <4>2. h[i] = g[i-1] \o ss[i]
        <5>1. CASE i <= k
          <6>1. i \in 1..k
            BY <5>1
          <6> QED
            BY <2>1, <3>2, <6>1 DEF Joins
        <5>2. CASE ~(i <= k)
          BY <3>2, <5>2
        <5> QED
          BY <5>1, <5>2
      <4> HIDE DEF h
      <4> QED
        BY <3>2, <4>1, <4>2
    <3> QED
      BY <3>1, <3>2
  <2>3. h = [i \in 1..(k+1) |-> h[i]]
    OBVIOUS
  <2> HIDE DEF h
  <2>4. Joins(h, ss, k + 1)
    BY <2>2, <2>3, Zenon DEF Joins
  <2> QED
    BY <2>4
<1>3. Reached = Nat
  <2> HIDE DEF Reached
  <2> QED
    BY <1>1, <1>2, Induction DEF Reached
<1> QED
  BY <1>3

LEMMA FlattenIs ==
  ASSUME NEW ss, Len(ss) \in Nat, Len(ss) # 0
  PROVE  \E g : Joins(g, ss, Len(ss)) /\ FlattenSeq(ss) = g[Len(ss)]
<1> DEFINE g == CHOOSE g : Joins(g, ss, Len(ss))
<1>1. FlattenSeq(ss) = g[Len(ss)]
  BY Zenon DEF FlattenSeq, Joins
<1>2. Joins(g, ss, Len(ss))
  BY JoinsExists
<1> QED
  BY <1>1, <1>2

LEMMA JoinsAgree ==
  ASSUME NEW E, NEW ss \in Seq(Seq(E)), NEW tt \in Seq(Seq(E)), Len(ss) <= Len(tt),
         \A i \in 1..Len(ss) : ss[i] = tt[i],
         NEW g, Joins(g, ss, Len(ss)), NEW h, Joins(h, tt, Len(tt))
  PROVE  \A i \in 1..Len(ss) : g[i] = h[i] /\ g[i] \in Seq(E)
<1> DEFINE n == Len(ss)
           Agreeing == {k \in Nat : k + 1 <= n => g[k+1] = h[k+1] /\ g[k+1] \in Seq(E)}
<1>1. n \in Nat /\ Len(tt) \in Nat /\ \A i \in 1..n : ss[i] \in Seq(E) /\ i \in 1..Len(tt)
  OBVIOUS
<1>2. 0 \in Agreeing
  BY <1>1 DEF Joins
<1>3. ASSUME NEW k \in Agreeing PROVE k + 1 \in Agreeing
  <2>1. SUFFICES ASSUME (k + 1) + 1 <= n PROVE g[(k+1)+1] = h[(k+1)+1] /\ g[(k+1)+1] \in Seq(E)
    OBVIOUS
  <2>2. k + 1 \in 1..n /\ (k+1)+1 \in 1..n /\ (k+1)+1 # 1 /\ ((k+1)+1)-1 = k+1
        /\ g[k+1] = h[k+1] /\ g[k+1] \in Seq(E)
    BY <1>1, <2>1
  <2>3. g[(k+1)+1] = g[k+1] \o ss[(k+1)+1]
    BY <2>2 DEF Joins
  <2>4. h[(k+1)+1] = h[k+1] \o tt[(k+1)+1]
    BY <1>1, <2>2 DEF Joins
  <2>5. ss[(k+1)+1] \in Seq(E) /\ ss[(k+1)+1] = tt[(k+1)+1]
    BY <1>1, <2>2
  <2>6. g[k+1] \o ss[(k+1)+1] \in Seq(E)
    BY <2>2, <2>5
  <2> QED
    BY <2>2, <2>3, <2>4, <2>5, <2>6
<1>4. Agreeing = Nat
  <2> HIDE DEF Agreeing
  <2> QED
    BY <1>2, <1>3, Induction DEF Agreeing
<1>5. ASSUME NEW i \in 1..n PROVE g[i] = h[i] /\ g[i] \in Seq(E)
  <2>1. i - 1 \in Nat /\ (i - 1) + 1 = i /\ i <= n
    BY <1>1
  <2>2. i - 1 \in Agreeing
    BY <1>4, <2>1
  <2> QED
    BY <2>1, <2>2
<1> QED
  BY <1>5

LEMMA FlattenAppends ==
  ASSUME NEW E, NEW ss \in Seq(Seq(E)), NEW x \in Seq(E)
  PROVE  /\ FlattenSeq(ss) \in Seq(E)
         /\ FlattenSeq(Append(ss, x)) = FlattenSeq(ss) \o x
<1> DEFINE tt == Append(ss, x)
           n == Len(ss)
<1>1. /\ tt \in Seq(Seq(E)) /\ n \in Nat /\ Len(tt) = n + 1 /\ tt[n + 1] = x
      /\ \A i \in 1..n : ss[i] = tt[i]
  OBVIOUS
<1> HIDE DEF tt
<1>2. PICK h : Joins(h, tt, n + 1) /\ FlattenSeq(tt) = h[n + 1]
  <2>1. Len(tt) \in Nat /\ Len(tt) # 0 /\ Len(tt) = n + 1
    BY <1>1
  <2>2. \E h : Joins(h, tt, Len(tt)) /\ FlattenSeq(tt) = h[Len(tt)]
    BY <2>1, FlattenIs
  <2> QED
    BY <2>1, <2>2
<1>3. CASE n = 0
  <2>1. ss = <<>> /\ FlattenSeq(ss) = ss
    BY <1>3 DEF FlattenSeq
  <2>2. h[1] = tt[1]
    BY <1>2, <1>3 DEF Joins
  <2> QED
    <3>1. FlattenSeq(tt) = x
      BY <1>1, <1>2, <1>3, <2>2
    <3>2. FlattenSeq(ss) = <<>> /\ <<>> \in Seq(E) /\ <<>> \o x = x
      BY <2>1
    <3> QED
      BY <3>1, <3>2 DEF tt
<1>4. CASE n # 0
  <2>1. PICK g : Joins(g, ss, n) /\ FlattenSeq(ss) = g[n]
    BY <1>1, <1>4, FlattenIs
  <2>2. g[n] = h[n] /\ g[n] \in Seq(E)
    <3>1. n \in 1..n /\ Len(ss) <= Len(tt) /\ Joins(g, ss, Len(ss)) /\ Joins(h, tt, Len(tt))
      BY <1>1, <1>2, <1>4, <2>1
    <3>2. \A i \in 1..Len(ss) : ss[i] = tt[i]
      BY <1>1
    <3>3. \A i \in 1..Len(ss) : g[i] = h[i] /\ g[i] \in Seq(E)
      BY <1>1, <3>1, <3>2, JoinsAgree
    <3> QED
      BY <3>1, <3>3
  <2>3. h[n + 1] = h[n] \o tt[n + 1]
    <3>1. n + 1 \in 1..(n + 1) /\ n + 1 # 1 /\ (n + 1) - 1 = n
      BY <1>1, <1>4
    <3> HIDE DEF n
    <3> QED
      BY <1>2, <3>1 DEF Joins
  <2> QED
    BY <1>1, <1>2, <2>1, <2>2, <2>3 DEF tt
<1> QED
  BY <1>3, <1>4

(* The words of the property.                                              *)
StreamEvents == [kind : StreamKinds \cup {"candidate"}, of : Seq(Nat)]
Piece(e) == IF e.kind = "usage" THEN <<>> ELSE e.of
Failing(events) == \E i \in DOMAIN events : events[i].kind = "failed_tool"

LEMMA ToldAppends ==
  ASSUME NEW s \in Seq(StreamEvents), NEW e \in StreamEvents
  PROVE  Told(s) \in Seq(Nat) /\ Told(Append(s, e)) = Told(s) \o Piece(e)
<1> DEFINE Pieces(events) == [i \in DOMAIN events |-> Piece(events[i])]
           longer == Append(s, e)
<1>1. \A d \in StreamEvents : Piece(d) \in Seq(Nat)
  BY DEF Piece, StreamEvents
<1>2. Told(s) = FlattenSeq(Pieces(s)) /\ Told(longer) = FlattenSeq(Pieces(longer))
  BY DEF Told, Piece
<1>3. \A i \in 1..Len(s) : s[i] \in StreamEvents
  OBVIOUS
<1>4. Pieces(s) \in Seq(Seq(Nat)) /\ Len(Pieces(s)) = Len(s)
  <2>1. DOMAIN s = 1..Len(s) /\ Len(s) \in Nat
    OBVIOUS
  <2>2. \A i \in 1..Len(s) : Piece(s[i]) \in Seq(Nat)
    BY <1>1, <1>3
  <2> QED
    BY <2>1, <2>2
<1>5. Pieces(longer) = Append(Pieces(s), Piece(e))
  <2>1. DOMAIN s = 1..Len(s) /\ DOMAIN longer = 1..(Len(s)+1) /\ Len(s) \in Nat
        /\ longer[Len(s)+1] = e /\ \A i \in 1..Len(s) : longer[i] = s[i]
    OBVIOUS
  <2> HIDE DEF longer
  <2>2. Append(Pieces(s), Piece(e))
          = [i \in 1..(Len(s)+1) |-> IF i = Len(s)+1 THEN Piece(e) ELSE Pieces(s)[i]]
    BY <1>4
  <2>3. \A i \in 1..(Len(s)+1) :
          Piece(longer[i]) = IF i = Len(s)+1 THEN Piece(e) ELSE Pieces(s)[i]
    BY <2>1
  <2> QED
    BY <2>1, <2>2, <2>3
<1> HIDE DEF Pieces, longer
<1>6. FlattenSeq(Pieces(s)) \in Seq(Nat)
      /\ FlattenSeq(Append(Pieces(s), Piece(e))) = FlattenSeq(Pieces(s)) \o Piece(e)
  BY <1>1, <1>4, FlattenAppends
<1> QED
  BY <1>2, <1>5, <1>6 DEF longer

LEMMA PiecesAssociate ==
  ASSUME NEW a \in Seq(Nat), NEW b \in Seq(Nat), NEW c \in Seq(Nat)
  PROVE  (a \o b) \o c = a \o (b \o c)
BY ConcatAssociative

LEMMA ToldNothing == Told(<<>>) = <<>>
BY DEF Told, FlattenSeq

LEMMA ToldConcat ==
  ASSUME NEW s \in Seq(StreamEvents), NEW t \in Seq(StreamEvents)
  PROVE  Told(s \o t) = Told(s) \o Told(t)
<1> DEFINE Joined == {n \in Nat : \A u \in Seq(StreamEvents) : Len(u) = n =>
                                     Told(s \o u) = Told(s) \o Told(u)}
<1>0. PICK e0 : e0 \in StreamEvents
  <2>1. [kind |-> "text", of |-> <<>>] \in StreamEvents
    BY DEF StreamEvents, StreamKinds
  <2> QED
    BY <2>1
<1>1. Told(s) \in Seq(Nat)
  BY <1>0, ToldAppends
<1>2. 0 \in Joined
  <2>1. ASSUME NEW u \in Seq(StreamEvents), Len(u) = 0 PROVE Told(s \o u) = Told(s) \o Told(u)
    <3>1. u = <<>> /\ s \o u = s
      BY <2>1
    <3> QED
      BY <1>1, <3>1, ToldNothing
  <2> QED
    BY <2>1
<1>3. ASSUME NEW n \in Joined PROVE n + 1 \in Joined
  <2>1. ASSUME NEW u \in Seq(StreamEvents), Len(u) = n + 1
        PROVE  Told(s \o u) = Told(s) \o Told(u)
    <3> DEFINE front == SubSeq(u, 1, n)
               last == u[n + 1]
    <3>1. /\ front \in Seq(StreamEvents) /\ last \in StreamEvents /\ Len(front) = n
          /\ u = Append(front, last)
      BY <2>1
    <3> HIDE DEF front, last
    <3>2. s \o u = Append(s \o front, last) /\ s \o front \in Seq(StreamEvents)
      BY <3>1
    <3>3. Told(s \o front) = Told(s) \o Told(front)
      BY <3>1
    <3>4. Told(front) \in Seq(Nat) /\ Told(u) = Told(front) \o Piece(last)
      BY <3>1, ToldAppends
    <3>5. Told(s \o u) = Told(s \o front) \o Piece(last)
      BY <3>1, <3>2, ToldAppends
    <3>6. Piece(last) \in Seq(Nat)
      BY <3>1 DEF Piece, StreamEvents
    <3>7. Told(s \o u) = (Told(s) \o Told(front)) \o Piece(last)
      BY <3>3, <3>5
    <3>8. (Told(s) \o Told(front)) \o Piece(last) = Told(s) \o (Told(front) \o Piece(last))
      BY <1>1, <3>4, <3>6, PiecesAssociate
    <3> QED
      BY <3>4, <3>7, <3>8
  <2> QED
    BY <2>1
<1>4. Joined = Nat
  <2> HIDE DEF Joined
  <2> QED
    BY <1>2, <1>3, Induction DEF Joined
<1> QED
  BY <1>4

LEMMA LastUsageAppends ==
  ASSUME NEW s \in Seq(StreamEvents), NEW e \in StreamEvents
  PROVE  LastUsage(Append(s, e)) = IF e.kind = "usage" THEN e.of ELSE LastUsage(s)
<1> DEFINE t == Append(s, e)
           n == Len(s)
           old == {i \in DOMAIN s : s[i].kind = "usage"}
           new == {i \in DOMAIN t : t[i].kind = "usage"}
<1>1. /\ n \in Nat /\ DOMAIN s = 1..n /\ DOMAIN t = 1..(n+1) /\ t[n+1] = e
      /\ \A i \in 1..n : t[i] = s[i] /\ i \in 1..(n+1)
  OBVIOUS
<1> HIDE DEF t, n
<1>2. CASE e.kind = "usage"
  <2>1. n + 1 \in new /\ new # {} /\ \A j \in new : n + 1 >= j
    BY <1>1, <1>2
  <2>2. Max(new) \in new /\ \A j \in new : Max(new) >= j
    BY <2>1 DEF Max
  <2>3. Max(new) = n + 1
    <3>1. Max(new) \in 1..(n+1) /\ Max(new) >= n + 1
      BY <1>1, <2>1, <2>2
    <3> QED
      BY <1>1, <3>1
  <2> QED
    BY <1>1, <1>2, <2>1, <2>3 DEF LastUsage, t
<1>3. CASE e.kind # "usage"
  <2>1. new = old
    <3>1. ASSUME NEW i \in 1..(n+1), i \notin 1..n PROVE i = n + 1
      BY <1>1, <3>1
    <3> QED
      BY <1>1, <1>3, <3>1
  <2>2. CASE old = {}
    BY <1>3, <2>1, <2>2 DEF LastUsage, t
  <2>3. CASE old # {}
    <3>1. PICK m \in old : \A j \in old : j <= m
      <4>1. old \in SUBSET (1..n)
        BY <1>1
      <4> QED
        BY <1>1, <2>3, <4>1, LargestExists
    <3>2. Max(old) \in old
      <4>1. \A j \in old : m >= j
        BY <1>1, <3>1
      <4> QED
        BY <3>1, <4>1 DEF Max
    <3>3. t[Max(old)] = s[Max(old)]
      BY <1>1, <3>2
    <3> QED
      BY <1>3, <2>1, <2>3, <3>3 DEF LastUsage, t
  <2> QED
    BY <2>2, <2>3
<1> QED
  BY <1>2, <1>3

LEMMA FailingAppends ==
  ASSUME NEW s \in Seq(StreamEvents), NEW e \in StreamEvents
  PROVE  Failing(Append(s, e)) <=> Failing(s) \/ e.kind = "failed_tool"
<1> DEFINE t == Append(s, e)
           n == Len(s)
<1>1. /\ n \in Nat /\ DOMAIN s = 1..n /\ DOMAIN t = 1..(n+1) /\ t[n+1] = e
      /\ \A i \in 1..n : t[i] = s[i] /\ i \in 1..(n+1)
      /\ n + 1 \in 1..(n+1)
      /\ \A i \in 1..(n+1) : i \in 1..n \/ i = n + 1
  OBVIOUS
<1> HIDE DEF t, n
<1>2. Failing(t) <=> Failing(s) \/ e.kind = "failed_tool"
  BY <1>1 DEF Failing
<1> QED
  BY <1>2 DEF t

LEMMA TextAppends ==
  ASSUME NEW s \in Seq(StreamEvents), NEW e \in StreamEvents, e.kind = "text"
  PROVE  /\ Append(s, e) \in Seq(StreamEvents)
         /\ Told(Append(s, e)) = Told(s) \o e.of
         /\ LastUsage(Append(s, e)) = LastUsage(s)
         /\ Failing(Append(s, e)) <=> Failing(s)
<1>1. Append(s, e) \in Seq(StreamEvents)
  OBVIOUS
<1>2. Told(Append(s, e)) = Told(s) \o e.of
  BY ToldAppends DEF Piece
<1>3. LastUsage(Append(s, e)) = LastUsage(s)
  BY LastUsageAppends
<1>4. Failing(Append(s, e)) <=> Failing(s)
  BY FailingAppends
<1> QED
  BY <1>1, <1>2, <1>3, <1>4

LEMMA UsageAppends ==
  ASSUME NEW s \in Seq(StreamEvents), NEW e \in StreamEvents, e.kind = "usage"
  PROVE  /\ Append(s, e) \in Seq(StreamEvents)
         /\ Told(Append(s, e)) = Told(s)
         /\ LastUsage(Append(s, e)) = e.of
         /\ Failing(Append(s, e)) <=> Failing(s)
<1>1. Append(s, e) \in Seq(StreamEvents)
  OBVIOUS
<1>2. Told(Append(s, e)) = Told(s)
  <2>1. Told(s) \in Seq(Nat) /\ Told(Append(s, e)) = Told(s) \o <<>>
    BY ToldAppends DEF Piece
  <2> QED
    BY <2>1
<1>3. LastUsage(Append(s, e)) = e.of
  BY LastUsageAppends
<1>4. Failing(Append(s, e)) <=> Failing(s)
  BY FailingAppends
<1> QED
  BY <1>1, <1>2, <1>3, <1>4

(* What has been gathered of a stream says what the stream says.           *)
Start == [done |-> <<>>, text |-> <<>>, usage |-> <<>>]
Gathered(s) == FoldLeft(Coalesce, Start, s)
Parts == [done : Seq(StreamEvents), text : Seq(Nat), usage : Seq(StreamEvents)]

Faithful(c, s) ==
  /\ c \in Parts
  /\ Told(s) = Told(c.done) \o c.text
  /\ Failing(s) <=> Failing(c.done)
  /\ \/ c.usage = <<>> /\ LastUsage(s) = LastUsage(c.done)
     \/ /\ c.text # <<>> /\ Len(c.usage) = 1
        /\ c.usage[1].kind = "usage" /\ LastUsage(s) = c.usage[1].of

Alike(t, s) ==
  Told(t) = Told(s) /\ LastUsage(t) = LastUsage(s) /\ (Failing(t) <=> Failing(s))

LEMMA FlushedIsAlike ==
  ASSUME NEW s \in Seq(StreamEvents), NEW c, Faithful(c, s)
  PROVE  Flushed(c) \in Seq(StreamEvents) /\ Alike(Flushed(c), s)
<1>1. c \in Parts /\ c.done \in Seq(StreamEvents) /\ c.text \in Seq(Nat)
  BY DEF Faithful, Parts
<1> DEFINE done == c.done
           text == c.text
           e == Event("text", text)
           with == Append(done, e)
<1>2. Told(done) \in Seq(Nat)
  <2>1. [kind |-> "text", of |-> <<>>] \in StreamEvents
    BY DEF StreamEvents, StreamKinds
  <2> QED
    BY <1>1, <2>1, ToldAppends
<1>3. CASE text = <<>>
  <2>1. Flushed(c) = done
    <3>1. c.usage = <<>>
      BY <1>3 DEF Faithful
    <3>2. Flushed(c) = (done \o <<>>) \o <<>>
      BY <1>3, <3>1 DEF Flushed
    <3> QED
      BY <1>1, <3>2
  <2>2. Told(s) = Told(done)
    BY <1>2, <1>3 DEF Faithful
  <2> QED
    BY <1>1, <1>3, <2>1, <2>2 DEF Faithful, Alike
<1>4. CASE text # <<>>
  <2>1. e \in StreamEvents /\ e.kind = "text" /\ e.of = text
    BY <1>1 DEF Event, StreamEvents, StreamKinds
  <2> HIDE DEF e
  <2>2. /\ with \in Seq(StreamEvents)
        /\ Told(with) = Told(done) \o text
        /\ LastUsage(with) = LastUsage(done)
        /\ Failing(with) <=> Failing(done)
    BY <1>1, <2>1, TextAppends
  <2>3. CASE c.usage = <<>>
    <3>1. Flushed(c) = with
      BY <1>1, <1>4, <2>1, <2>3 DEF Flushed, e
    <3>2. LastUsage(s) = LastUsage(done)
      BY <2>3 DEF Faithful
    <3> QED
      BY <2>2, <3>1, <3>2 DEF Faithful, Alike
  <2>4. CASE c.usage # <<>>
    <3>1. PICK u \in StreamEvents : u.kind = "usage" /\ c.usage = <<u>> /\ LastUsage(s) = u.of
      <4>1. /\ c.usage \in Seq(StreamEvents) /\ Len(c.usage) = 1
            /\ c.usage[1].kind = "usage" /\ LastUsage(s) = c.usage[1].of
        BY <1>1, <2>4 DEF Faithful, Parts
      <4>2. c.usage = <<c.usage[1]>> /\ c.usage[1] \in StreamEvents
        BY <4>1
      <4> QED
        BY <4>1, <4>2
    <3>2. Flushed(c) = Append(with, u)
      <4>1. Flushed(c) = (done \o <<e>>) \o <<u>>
        BY <1>4, <3>1 DEF Flushed, e
      <4>2. done \o <<e>> = with /\ with \o <<u>> = Append(with, u)
        BY <1>1, <2>1, <2>2, <3>1
      <4> QED
        BY <4>1, <4>2
    <3> HIDE DEF with
    <3>3. /\ Append(with, u) \in Seq(StreamEvents)
          /\ Told(Append(with, u)) = Told(with)
          /\ LastUsage(Append(with, u)) = u.of
          /\ Failing(Append(with, u)) <=> Failing(with)
      BY <2>2, <3>1, UsageAppends
    <3> QED
      BY <2>2, <3>1, <3>2, <3>3 DEF Faithful, Alike
  <2> QED
    BY <2>3, <2>4
<1> QED
  BY <1>3, <1>4

LEMMA CoalesceIsFaithful ==
  ASSUME NEW s \in Seq(StreamEvents), NEW c, Faithful(c, s),
         NEW e \in StreamEvents, e.kind \in StreamKinds
  PROVE  Faithful(Coalesce(c, e), Append(s, e))
<1> DEFINE t == Append(s, e)
<1>1. /\ c \in Parts /\ c.done \in Seq(StreamEvents) /\ c.text \in Seq(Nat) /\ e.of \in Seq(Nat)
      /\ e.kind \in {"text", "usage", "tool", "failed_tool"}
  BY DEF Faithful, Parts, StreamEvents, StreamKinds
<1>2. /\ t \in Seq(StreamEvents) /\ Told(t) = Told(s) \o Piece(e)
      /\ LastUsage(t) = IF e.kind = "usage" THEN e.of ELSE LastUsage(s)
      /\ Failing(t) <=> Failing(s) \/ e.kind = "failed_tool"
  BY ToldAppends, LastUsageAppends, FailingAppends
<1>3. Told(c.done) \in Seq(Nat) /\ Told(s) \in Seq(Nat)
  BY <1>1, ToldAppends
<1> HIDE DEF t
<1>4. CASE e.kind = "text"
  <2> DEFINE d == [c EXCEPT !.text = c.text \o e.of]
  <2>1. Coalesce(c, e) = d
    BY <1>4 DEF Coalesce
  <2>2. /\ d \in Parts /\ d.done = c.done /\ d.text = c.text \o e.of /\ d.usage = c.usage
        /\ (c.text # <<>> => d.text # <<>>)
    <3>1. c.text \o e.of \in Seq(Nat) /\ (c.text # <<>> => c.text \o e.of # <<>>)
      BY <1>1, ConcatEqualIffEmpty
    <3> QED
      BY <1>1, <3>1 DEF Parts
  <2> HIDE DEF d
  <2>3. Told(t) = Told(d.done) \o d.text
    <3>1. Told(s) = Told(c.done) \o c.text
      BY DEF Faithful
    <3>2. Told(t) = (Told(c.done) \o c.text) \o e.of
      BY <1>2, <1>4, <3>1 DEF Piece
    <3>3. (Told(c.done) \o c.text) \o e.of = Told(c.done) \o (c.text \o e.of)
      BY <1>1, <1>3, PiecesAssociate
    <3> QED
      BY <2>2, <3>2, <3>3
  <2>4. LastUsage(t) = LastUsage(s) /\ (Failing(t) <=> Failing(s))
    BY <1>2, <1>4
  <2> QED
    BY <2>1, <2>2, <2>3, <2>4 DEF Faithful, t
<1>5. CASE e.kind = "usage" /\ c.text # <<>>
  <2> DEFINE d == [c EXCEPT !.usage = <<e>>]
  <2>1. Coalesce(c, e) = d
    BY <1>5 DEF Coalesce
  <2>2. d \in Parts /\ d.done = c.done /\ d.text = c.text /\ d.usage = <<e>>
    <3>1. <<e>> \in Seq(StreamEvents)
      OBVIOUS
    <3>2. \A us \in Seq(StreamEvents) : LET x == [c EXCEPT !.usage = us] IN
            x \in Parts /\ x.done = c.done /\ x.text = c.text /\ x.usage = us
      BY <1>1 DEF Parts
    <3> QED
      BY <3>1, <3>2
  <2> HIDE DEF d
  <2>3. Told(t) = Told(s)
    BY <1>2, <1>3, <1>5 DEF Piece
  <2>4. LastUsage(t) = e.of /\ (Failing(t) <=> Failing(s))
    BY <1>2, <1>5
  <2> QED
    <3>1. Len(d.usage) = 1 /\ d.usage[1] = e
      BY <2>2
    <3> QED
      BY <1>5, <2>1, <2>2, <2>3, <2>4, <3>1 DEF Faithful, t
<1>6. CASE e.kind # "text" /\ ~(e.kind = "usage" /\ c.text # <<>>)
  <2> DEFINE f == Flushed(c)
             d == [done |-> Append(f, e), text |-> <<>>, usage |-> <<>>]
  <2>1. Coalesce(c, e) = d
    BY <1>6 DEF Coalesce
  <2>2. f \in Seq(StreamEvents) /\ Alike(f, s)
    BY FlushedIsAlike
  <2> HIDE DEF f
  <2>3. /\ Append(f, e) \in Seq(StreamEvents)
        /\ Told(Append(f, e)) = Told(f) \o Piece(e)
        /\ LastUsage(Append(f, e)) = IF e.kind = "usage" THEN e.of ELSE LastUsage(f)
        /\ Failing(Append(f, e)) <=> Failing(f) \/ e.kind = "failed_tool"
    BY <2>2, ToldAppends, LastUsageAppends, FailingAppends
  <2>4. d \in Parts /\ d.done = Append(f, e) /\ d.text = <<>> /\ d.usage = <<>>
    BY <2>3 DEF Parts
  <2> HIDE DEF d
  <2>5. Told(d.done) \o d.text = Told(d.done)
    <3>1. Told(d.done) \in Seq(Nat)
      BY <2>3, <2>4, ToldAppends
    <3> QED
      BY <2>4, <3>1
  <2>6. /\ Told(t) = Told(d.done) /\ LastUsage(t) = LastUsage(d.done)
        /\ Failing(t) <=> Failing(d.done)
    BY <1>2, <2>2, <2>3, <2>4 DEF Alike
  <2> QED
    BY <2>1, <2>4, <2>5, <2>6 DEF Faithful, t
<1> QED
  BY <1>4, <1>5, <1>6

(* An attempt: what is written and what is still to be written are what    *)
(* was streamed, with fewer events; nothing is written before the answer   *)
(* is there, and nothing streamed after it.                                *)
Outcomes == {"none", "failed", "blocked", "result"}
Phases == {"resolve", "start", "call", "revalidate", "emit", "ended"}

StreamInv ==
  /\ prompt \in [kind : {"chat", "edit"}, at : Phases, outcome : Outcomes]
  /\ streamed \in Seq(StreamEvents) /\ emitting \in Seq(StreamEvents) /\ logged \in Seq(StreamEvents)
  /\ Faithful(Gathered(streamed), streamed)
  /\ prompt.kind = "edit" => streamed = <<>>
  /\ prompt.at \notin {"emit", "ended"} => logged = <<>> /\ emitting = <<>>
  /\ prompt.at = "emit" => logged \o emitting = Coalesced(streamed) /\ ~Failing(logged)
  /\ prompt.at # "ended" => prompt.outcome = "none"
  /\ StreamsAreWhole

LEMMA GatheredIs ==
  ASSUME NEW s \in Seq(StreamEvents), NEW e \in StreamEvents
  PROVE  Gathered(<<>>) = Start /\ Gathered(Append(s, e)) = Coalesce(Gathered(s), e)
<1>1. FoldLeft(Coalesce, Start, <<>>) = Start
  BY FoldStarts
<1>2. FoldLeft(Coalesce, Start, Append(s, e)) = Coalesce(FoldLeft(Coalesce, Start, s), e)
  BY FoldAppends
<1> QED
  BY <1>1, <1>2, Zenon DEF Gathered

LEMMA NothingIsFaithful == Faithful(Gathered(<<>>), <<>>)
<1>1. [kind |-> "text", of |-> <<>>] \in StreamEvents
  BY DEF StreamEvents, StreamKinds
<1>2. <<>> \in Seq(StreamEvents) /\ Gathered(<<>>) = Start
  <2>1. <<>> \in Seq(StreamEvents)
    OBVIOUS
  <2> QED
    BY <1>1, <2>1, GatheredIs
<1>3. Start \in Parts /\ Start.done = <<>> /\ Start.text = <<>> /\ Start.usage = <<>>
  BY DEF Start, Parts
<1>4. Told(<<>>) = <<>> /\ <<>> \o <<>> = <<>>
  BY ToldNothing
<1> QED
  BY <1>2, <1>3, <1>4 DEF Faithful

LEMMA CoalescedIsAlike ==
  ASSUME StreamInv
  PROVE  Coalesced(streamed) \in Seq(StreamEvents) /\ Alike(Coalesced(streamed), streamed)
<1>1. Coalesced(streamed) = Flushed(Gathered(streamed))
  BY DEF Coalesced, Gathered, Start
<1> QED
  BY <1>1, FlushedIsAlike DEF StreamInv

(* What a sequence starts with is a prefix of it.                          *)
LEMMA PrefixOfConcat ==
  ASSUME NEW a \in Seq(Nat), NEW b \in Seq(Nat)
  PROVE  IsPrefix(a, a \o b)
<1>1. /\ Len(a) \in Nat /\ Len(b) \in Nat /\ Len(a \o b) = Len(a) + Len(b) /\ a \o b \in Seq(Nat)
      /\ \A i \in 1..Len(a) : (a \o b)[i] = a[i]
  OBVIOUS
<1>2. SubSeq(a, 1, Len(a)) = a
  BY SubSeqFull
<1>3. SubSeq(a \o b, 1, Len(a)) = a
  BY <1>1
<1> QED
  BY <1>1, <1>2, <1>3 DEF IsPrefix

LEMMA NothingIsPrefix ==
  ASSUME NEW a \in Seq(Nat)
  PROVE  IsPrefix(<<>>, a)
<1>1. <<>> \in Seq(Nat) /\ <<>> \o a = a
  OBVIOUS
<1> QED
  BY <1>1, PrefixOfConcat

LEMMA ToldIsTyped ==
  ASSUME NEW s \in Seq(StreamEvents)
  PROVE  Told(s) \in Seq(Nat)
<1>1. [kind |-> "text", of |-> <<>>] \in StreamEvents
  BY DEF StreamEvents, StreamKinds
<1> QED
  BY <1>1, ToldAppends

LEMMA StreamBegins == PromptInit => StreamInv
<1> SUFFICES ASSUME PromptInit PROVE StreamInv
  OBVIOUS
<1>1. /\ streamed = <<>> /\ emitting = <<>> /\ logged = <<>>
      /\ prompt \in [kind : {"chat", "edit"}, at : {"resolve"}, outcome : {"none"}]
  BY DEF PromptInit
<1>2. /\ prompt \in [kind : {"chat", "edit"}, at : Phases, outcome : Outcomes]
      /\ prompt.at = "resolve" /\ prompt.outcome = "none"
  BY <1>1 DEF Phases, Outcomes
<1>3. StreamsAreWhole
  <2>1. IsPrefix(Told(<<>>), Told(<<>>))
    <3>1. <<>> \in Seq(Nat)
      OBVIOUS
    <3>2. IsPrefix(<<>>, <<>>)
      BY <3>1, NothingIsPrefix
    <3> QED
      BY <3>2, ToldNothing
  <2> QED
    BY <1>1, <1>2, <2>1, ToldNothing DEF StreamsAreWhole
<1>4. <<>> \in Seq(StreamEvents)
  OBVIOUS
<1> QED
  BY <1>1, <1>2, <1>3, <1>4, NothingIsFaithful DEF StreamInv

(* A step that moves the executor only.                                    *)
LEMMA MovesOnly ==
  ASSUME StreamInv, UNCHANGED <<streamed, emitting, logged>>,
         NEW at \in Phases, NEW outcome \in {"none", "failed", "blocked"},
         prompt' = [prompt EXCEPT !.at = at, !.outcome = outcome],
         prompt.outcome # "result",
         at # "ended" => outcome = "none",
         at \notin {"emit", "ended"} => prompt.at \notin {"emit", "ended"},
         at = "emit" => prompt.at = "emit" \/ (emitting = Coalesced(streamed) /\ logged = <<>>)
  PROVE  StreamInv'
<1> DEFINE p == [prompt EXCEPT !.at = at, !.outcome = outcome]
<1>1. /\ p \in [kind : {"chat", "edit"}, at : Phases, outcome : Outcomes]
      /\ p.kind = prompt.kind /\ p.at = at /\ p.outcome = outcome
  BY DEF StreamInv, Outcomes
<1>2. prompt' = p
  OBVIOUS
<1> HIDE DEF p
<1>3. StreamsAreWhole'
  BY <1>1, <1>2 DEF StreamInv, StreamsAreWhole, Told, LastUsage
<1>4. at = "emit" => logged \o emitting = Coalesced(streamed) /\ ~Failing(logged)
  <2>1. ASSUME emitting = Coalesced(streamed), logged = <<>>
        PROVE  logged \o emitting = Coalesced(streamed) /\ ~Failing(logged)
    <3>1. emitting \in Seq(StreamEvents) /\ <<>> \o emitting = emitting
      BY DEF StreamInv
    <3> QED
      BY <2>1, <3>1 DEF Failing
  <2> QED
    BY <2>1 DEF StreamInv
<1> QED
  BY <1>1, <1>2, <1>3, <1>4 DEF StreamInv

LEMMA StreamStep ==
  ASSUME StreamInv, NEW kind \in StreamKinds, Stream(kind)
  PROVE  StreamInv'
<1> DEFINE e == Event(kind, <<Len(streamed) + 1>>)
<1>1. /\ streamed \in Seq(StreamEvents) /\ Len(streamed) \in Nat /\ Len(streamed) + 1 \in Nat
      /\ logged = <<>> /\ emitting = <<>> /\ prompt.kind = "chat" /\ prompt.at = "call"
      /\ prompt.outcome = "none"
      /\ streamed' = Append(streamed, e) /\ UNCHANGED <<prompt, emitting, logged>>
  BY DEF StreamInv, Stream, Chat
<1>2. e \in StreamEvents /\ e.kind = kind
  <2>1. <<Len(streamed) + 1>> \in Seq(Nat)
    BY <1>1
  <2> QED
    BY <2>1 DEF Event, StreamEvents
<1> HIDE DEF e
<1>3. streamed' \in Seq(StreamEvents)
  BY <1>1, <1>2
<1>4. Faithful(Gathered(streamed), streamed)
  BY DEF StreamInv
<1>5. Faithful(Gathered(Append(streamed, e)), Append(streamed, e))
  <2>1. Gathered(Append(streamed, e)) = Coalesce(Gathered(streamed), e)
    BY <1>1, <1>2, GatheredIs
  <2>2. Faithful(Coalesce(Gathered(streamed), e), Append(streamed, e))
    BY <1>1, <1>2, <1>4, CoalesceIsFaithful
  <2> QED
    BY <2>1, <2>2
<1>6. StreamsAreWhole'
  <2>1. logged' = <<>> /\ prompt'.outcome # "result"
    BY <1>1
  <2>2. IsPrefix(Told(<<>>), Told(streamed'))
    <3>1. Told(streamed') \in Seq(Nat) /\ Told(<<>>) = <<>>
      BY <1>3, ToldIsTyped, ToldNothing
    <3>2. IsPrefix(<<>>, Told(streamed'))
      BY <3>1, NothingIsPrefix
    <3> QED
      BY <3>1, <3>2
  <2> QED
    BY <2>1, <2>2 DEF StreamsAreWhole
<1> QED
  BY <1>1, <1>3, <1>5, <1>6 DEF StreamInv

LEMMA ReturnStep ==
  ASSUME StreamInv, ReturnPrompt
  PROVE  StreamInv'
<1>1. /\ prompt.at = "call" /\ prompt.outcome = "none" /\ logged = <<>> /\ emitting = <<>>
      /\ prompt \in [kind : {"chat", "edit"}, at : Phases, outcome : Outcomes]
      /\ UNCHANGED <<streamed, emitting, logged>>
      /\ prompt.kind = "edit" => streamed = <<>>
  BY DEF StreamInv, ReturnPrompt
<1>2. CASE Ends("failed")
  <2>1. prompt' = [prompt EXCEPT !.at = "ended", !.outcome = "failed"]
    BY <1>2 DEF Ends
  <2> QED
    BY <1>1, <2>1, MovesOnly DEF Phases
<1>3. CASE Chat /\ Goes("revalidate")
  <2>1. prompt' = [prompt EXCEPT !.at = "revalidate", !.outcome = "none"]
    BY <1>1, <1>3 DEF Goes
  <2> QED
    BY <1>1, <2>1, MovesOnly DEF Phases
<1>4. CASE ~Chat /\ Goes("emit")
  <2>1. prompt' = [prompt EXCEPT !.at = "emit", !.outcome = "none"]
    BY <1>1, <1>4 DEF Goes
  <2>2. streamed = <<>>
    BY <1>1, <1>4 DEF Chat
  <2>3. Coalesced(<<>>) = <<>>
    <3>1. [kind |-> "text", of |-> <<>>] \in StreamEvents /\ <<>> \in Seq(StreamEvents)
      BY DEF StreamEvents, StreamKinds
    <3>2. Coalesced(<<>>) = Flushed(Start)
      BY <3>1, GatheredIs DEF Coalesced, Gathered, Start
    <3>3. Flushed(Start) = (<<>> \o <<>>) \o <<>>
      BY DEF Flushed, Start
    <3> QED
      BY <3>2, <3>3
  <2> QED
    BY <1>1, <2>1, <2>2, <2>3, MovesOnly DEF Phases
<1> QED
  BY <1>2, <1>3, <1>4 DEF ReturnPrompt

LEMMA RevalidateStep ==
  ASSUME StreamInv, Revalidate
  PROVE  StreamInv'
<1>1. /\ prompt.at = "revalidate" /\ prompt.outcome = "none" /\ logged = <<>>
      /\ prompt \in [kind : {"chat", "edit"}, at : Phases, outcome : Outcomes]
      /\ UNCHANGED <<streamed, logged>>
  BY DEF StreamInv, Revalidate
<1>2. CASE Ends("blocked") /\ UNCHANGED emitting
  <2>1. prompt' = [prompt EXCEPT !.at = "ended", !.outcome = "blocked"]
    BY <1>2 DEF Ends
  <2> QED
    BY <1>1, <1>2, <2>1, MovesOnly DEF Phases
<1>3. CASE Goes("emit") /\ emitting' = Coalesced(streamed)
  <2> DEFINE p == [prompt EXCEPT !.at = "emit"]
             c == Coalesced(streamed)
  <2>1. /\ p \in [kind : {"chat", "edit"}, at : Phases, outcome : Outcomes]
        /\ p.at = "emit" /\ p.kind = prompt.kind /\ p.outcome = "none"
    BY <1>1 DEF Phases
  <2>2. prompt' = p /\ emitting' = c
    BY <1>3 DEF Goes
  <2>3. c \in Seq(StreamEvents)
    BY CoalescedIsAlike
  <2> HIDE DEF p, c
  <2>4. <<>> \o c = c /\ ~Failing(<<>>)
    BY <2>3 DEF Failing
  <2>5. StreamsAreWhole'
    BY <1>1, <2>1, <2>2 DEF StreamInv, StreamsAreWhole, Told, LastUsage
  <2>6. logged' \o emitting' = Coalesced(streamed') /\ ~Failing(logged')
    BY <1>1, <2>2, <2>4 DEF c
  <2> QED
    BY <1>1, <2>1, <2>2, <2>3, <2>5, <2>6 DEF StreamInv
<1> QED
  BY <1>2, <1>3 DEF Revalidate

LEMMA EmitStep ==
  ASSUME StreamInv, Emit
  PROVE  StreamInv'
<1> DEFINE e == Head(emitting)
           rest == Tail(emitting)
           longer == Append(logged, e)
<1>1. /\ prompt.at = "emit" /\ emitting # <<>> /\ prompt.outcome = "none"
      /\ prompt \in [kind : {"chat", "edit"}, at : Phases, outcome : Outcomes]
      /\ streamed \in Seq(StreamEvents) /\ emitting \in Seq(StreamEvents)
      /\ logged \in Seq(StreamEvents) /\ UNCHANGED streamed
      /\ logged \o emitting = Coalesced(streamed) /\ ~Failing(logged)
  BY DEF StreamInv, Emit
<1>2. CASE Ends("failed") /\ UNCHANGED <<emitting, logged>>
  <2>1. prompt' = [prompt EXCEPT !.at = "ended", !.outcome = "failed"]
    BY <1>2 DEF Ends
  <2> QED
    BY <1>1, <1>2, <2>1, MovesOnly DEF Phases
<1>3. CASE /\ logged' = longer /\ emitting' = rest
           /\ IF e.kind = "failed_tool" THEN Ends("failed") ELSE UNCHANGED prompt
  <2>1. /\ e \in StreamEvents /\ rest \in Seq(StreamEvents) /\ longer \in Seq(StreamEvents)
        /\ longer \o rest = logged \o emitting
    BY <1>1
  <2> HIDE DEF e, rest, longer
  <2>2. Failing(longer) <=> e.kind = "failed_tool"
    BY <1>1, <2>1, FailingAppends DEF longer
  <2>3. IsPrefix(Told(longer), Told(streamed))
    <3>1. Told(longer \o rest) = Told(longer) \o Told(rest)
      BY <2>1, ToldConcat
    <3>2. Told(longer) \in Seq(Nat) /\ Told(rest) \in Seq(Nat)
      BY <2>1, ToldIsTyped
    <3>3. Told(Coalesced(streamed)) = Told(streamed)
      BY CoalescedIsAlike DEF Alike
    <3> QED
      BY <1>1, <2>1, <3>1, <3>2, <3>3, PrefixOfConcat
  <2>4. CASE e.kind = "failed_tool"
    <3> DEFINE p == [prompt EXCEPT !.at = "ended", !.outcome = "failed"]
    <3>1. /\ p \in [kind : {"chat", "edit"}, at : Phases, outcome : Outcomes]
          /\ p.at = "ended" /\ p.kind = prompt.kind /\ p.outcome = "failed"
      BY <1>1 DEF Phases, Outcomes
    <3>2. prompt' = p
      BY <1>3, <2>4 DEF Ends
    <3> HIDE DEF p
    <3>3. StreamsAreWhole'
      BY <1>1, <1>3, <2>3, <3>1, <3>2 DEF StreamsAreWhole
    <3> QED
      BY <1>1, <1>3, <2>1, <3>1, <3>2, <3>3 DEF StreamInv
  <2>5. CASE e.kind # "failed_tool"
    <3>1. UNCHANGED prompt /\ ~Failing(longer)
      BY <1>3, <2>2, <2>5
    <3>2. StreamsAreWhole'
      BY <1>1, <1>3, <2>3, <3>1 DEF StreamsAreWhole
    <3> QED
      BY <1>1, <1>3, <2>1, <3>1, <3>2 DEF StreamInv
  <2> QED
    BY <2>4, <2>5
<1> QED
  BY <1>2, <1>3 DEF Emit

LEMMA OfferStep ==
  ASSUME StreamInv, OfferResult
  PROVE  StreamInv'
<1>1. /\ prompt.at = "emit" /\ emitting = <<>> /\ prompt.outcome = "none"
      /\ prompt \in [kind : {"chat", "edit"}, at : Phases, outcome : Outcomes]
      /\ logged \in Seq(StreamEvents) /\ streamed \in Seq(StreamEvents)
      /\ UNCHANGED <<streamed, emitting>>
      /\ logged \o emitting = Coalesced(streamed) /\ ~Failing(logged)
  BY DEF StreamInv, OfferResult
<1>2. CASE Ends("failed") /\ UNCHANGED logged
  <2>1. prompt' = [prompt EXCEPT !.at = "ended", !.outcome = "failed"]
    BY <1>2 DEF Ends
  <2> QED
    BY <1>1, <1>2, <2>1, MovesOnly DEF Phases
<1>3. CASE logged' = Append(logged, Candidate) /\ Ends("result")
  <2> DEFINE p == [prompt EXCEPT !.at = "ended", !.outcome = "result"]
             longer == Append(logged, Candidate)
  <2>1. /\ p \in [kind : {"chat", "edit"}, at : Phases, outcome : Outcomes]
        /\ p.at = "ended" /\ p.kind = prompt.kind
    BY <1>1 DEF Phases, Outcomes
  <2>2. prompt' = p
    BY <1>3 DEF Ends
  <2> HIDE DEF p
  <2>3. Candidate \in StreamEvents /\ Candidate.kind = "candidate" /\ Candidate.of = <<>>
    <3>1. <<>> \in Seq(Nat)
      OBVIOUS
    <3> QED
      BY <3>1 DEF Candidate, Event, StreamEvents
  <2>4. logged = Coalesced(streamed)
    BY <1>1
  <2>5. Told(logged) = Told(streamed) /\ LastUsage(logged) = LastUsage(streamed) /\ ~Failing(streamed)
    BY <1>1, <2>4, CoalescedIsAlike DEF Alike
  <2>6. longer \in Seq(StreamEvents)
    BY <1>1, <2>3
  <2>7. Told(longer) = Told(logged)
    <3>1. Told(longer) = Told(logged) \o <<>> /\ Told(logged) \in Seq(Nat)
      BY <1>1, <2>3, ToldAppends DEF Piece
    <3> QED
      BY <3>1
  <2>8. LastUsage(longer) = LastUsage(logged)
    BY <1>1, <2>3, LastUsageAppends
  <2>9. IsPrefix(Told(streamed), Told(streamed))
    <3>1. <<>> \in Seq(Nat) /\ Told(streamed) \in Seq(Nat)
      BY <1>1, ToldIsTyped
    <3>2. Told(streamed) \o <<>> = Told(streamed)
      BY <3>1
    <3> QED
      BY <3>1, <3>2, PrefixOfConcat
  <2> HIDE DEF longer
  <2>10. logged' = longer
    BY <1>3 DEF longer
  <2>11. Told(longer) = Told(streamed) /\ LastUsage(longer) = LastUsage(streamed)
    BY <2>5, <2>7, <2>8
  <2>12. \A i \in DOMAIN streamed : streamed[i].kind # "failed_tool"
    BY <2>5 DEF Failing
  <2>13. StreamsAreWhole'
    BY <1>1, <2>9, <2>10, <2>11, <2>12 DEF StreamsAreWhole
  <2> QED
    BY <1>1, <2>1, <2>2, <2>6, <2>10, <2>13 DEF StreamInv
<1> QED
  BY <1>2, <1>3 DEF OfferResult

LEMMA StreamInvStep == StreamInv /\ [PromptNext]_promptVars => StreamInv'
<1> SUFFICES ASSUME StreamInv, [PromptNext]_promptVars PROVE StreamInv'
  OBVIOUS
<1>1. CASE UNCHANGED <<prompt, streamed, emitting, logged>>
  BY <1>1 DEF StreamInv, StreamsAreWhole, Told, LastUsage
<1>2. CASE MoveConversation \/ LoseAssignment \/ UNCHANGED promptVars
  BY <1>1, <1>2 DEF MoveConversation, LoseAssignment, promptVars
<1>3. ASSUME prompt.at \in {"resolve", "start"}, UNCHANGED <<streamed, emitting, logged>>,
             \/ Ends("failed") \/ Ends("blocked")
             \/ Goes("start") \/ Goes("call")
      PROVE  StreamInv'
  <2>1. /\ prompt \in [kind : {"chat", "edit"}, at : Phases, outcome : Outcomes]
        /\ prompt.outcome = "none"
    BY <1>3 DEF StreamInv
  <2>2. PICK at \in {"start", "call", "ended"}, outcome \in {"none", "failed", "blocked"} :
          /\ prompt' = [prompt EXCEPT !.at = at, !.outcome = outcome]
          /\ at # "ended" => outcome = "none"
    <3>1. CASE Ends("failed")
      BY <3>1 DEF Ends
    <3>2. CASE Ends("blocked")
      BY <3>2 DEF Ends
    <3>3. CASE Goes("start")
      <4>1. prompt' = [prompt EXCEPT !.at = "start", !.outcome = "none"]
        BY <2>1, <3>3 DEF Goes
      <4> QED
        BY <4>1
    <3>4. CASE Goes("call")
      <4>1. prompt' = [prompt EXCEPT !.at = "call", !.outcome = "none"]
        BY <2>1, <3>4 DEF Goes
      <4> QED
        BY <4>1
    <3> QED
      BY <1>3, <3>1, <3>2, <3>3, <3>4
  <2> QED
    BY <1>3, <2>1, <2>2, MovesOnly DEF Phases
<1>4. CASE ResolvePrompt \/ RefuseEnvelope \/ CallPrompt
  BY <1>3, <1>4 DEF ResolvePrompt, RefuseEnvelope, CallPrompt
<1>5. CASE \E kind \in StreamKinds : Stream(kind)
  BY <1>5, StreamStep
<1>6. CASE ReturnPrompt \/ Revalidate \/ Emit \/ OfferResult
  BY <1>6, ReturnStep, RevalidateStep, EmitStep, OfferStep
<1> QED
  BY <1>2, <1>4, <1>5, <1>6 DEF PromptNext

(* The journal of a chat: what emit_runtime_event writes after the answer  *)
(* is there, in fewer events, is what the model streamed: in its order,    *)
(* with its last count, and nothing missing once a result is offered.      *)
THEOREM StreamsStayWhole == PromptSpec => []StreamsAreWhole
<1>1. StreamInv => StreamsAreWhole
  BY DEF StreamInv
<1> QED
  BY <1>1, StreamBegins, StreamInvStep, PTL DEF PromptSpec
-----------------------------------------------------------------------------
(* What is read back: the trace of the console, its coverage, the calls.   *)

LogTypes == Traced \cup {"text"}
LogEvents ==
  [type : LogTypes, attempt : Nat, call : ToolIds \cup {"none"},
   indexed : LogTypes \cup {Unindexed}]
Consoles ==
  [session : TraceSessions, generation : Nat, entries : SUBSET Nat, cursor : Nat,
   more : BOOLEAN, state : {"idle", "loading", "ready", "error"}]
Reads ==
  [generation : Nat, session : TraceSessions, from : Nat, replace : BOOLEAN,
   page : [entries : SUBSET Nat, more : BOOLEAN, next : Nat]]

(* An event has its own type as its index, or, until the migration, none;  *)
(* it is of an attempt that began; and an attempt has each stage once.     *)
JournalInv ==
  /\ migrated \in BOOLEAN
  /\ log \in [TraceSessions -> Seq(LogEvents)]
  /\ \A s \in TraceSessions : \A i \in DOMAIN log[s] :
       /\ log[s][i].indexed \in {log[s][i].type, Unindexed}
       /\ migrated /\ log[s][i].type \in Traced => log[s][i].indexed = log[s][i].type
       /\ log[s][i].attempt \in 1..AttemptOf(s)
  /\ \A s \in TraceSessions : \A i, j \in DOMAIN log[s] :
       log[s][i].type \in Stages /\ log[s][i].type = log[s][j].type
         /\ log[s][i].attempt = log[s][j].attempt => i = j

(* The traced events after one number and up to another.                   *)
Between(events, first, last) ==
  {i \in DOMAIN events : i > first /\ i <= last /\ events[i].type \in Traced}

(* A page on its way that the console will take is the only one, and goes  *)
(* on where the console is or replaces what it has.                        *)
Fits(read) ==
  /\ read.from = IF read.replace THEN 0 ELSE console.cursor
  /\ read.from <= read.page.next /\ read.page.next <= Len(log[read.session])
  /\ read.page.entries = Between(log[read.session], read.from, read.page.next)

ConsoleInv ==
  /\ console \in Consoles /\ pages \in SUBSET Reads
  /\ console.cursor <= Len(log[console.session])
  /\ console.entries = Merged({}, Between(log[console.session], 0, console.cursor))
  /\ \A read \in pages :
       /\ read.generation <= console.generation
       /\ IsShown(read) => migrated /\ console.state = "loading" /\ Fits(read)
  /\ \A read, other \in pages : IsShown(read) /\ IsShown(other) => read = other

ReadersInv == JournalInv /\ ConsoleInv

Lifecycles(events) == {i \in DOMAIN events : events[i].type = "lifecycle"}

LEMMA EventsCount ==
  ASSUME NEW events \in Seq(LogEvents), NEW e \in LogEvents
  PROVE  /\ Cardinality(Lifecycles(events)) \in Nat
         /\ Cardinality(Lifecycles(Append(events, e)))
              = IF e.type = "lifecycle" THEN Cardinality(Lifecycles(events)) + 1
                ELSE Cardinality(Lifecycles(events))
<1> DEFINE longer == Append(events, e)
           n == Len(events)
<1>1. /\ n \in Nat /\ DOMAIN events = 1..n /\ DOMAIN longer = 1..(n+1) /\ longer[n+1] = e
      /\ \A i \in 1..n : longer[i] = events[i] /\ i \in 1..(n+1)
      /\ \A i \in 1..(n+1) : i \in 1..n \/ i = n + 1
      /\ n + 1 \in 1..(n+1) /\ n + 1 \notin 1..n
  OBVIOUS
<1>2. IsFiniteSet(Lifecycles(events)) /\ Cardinality(Lifecycles(events)) \in Nat
  <2>1. IsFiniteSet(1..n)
    <3>1. n \in Nat
      BY <1>1
    <3> HIDE DEF n
    <3> QED
      BY <3>1, FS_Interval
  <2>2. Lifecycles(events) \in SUBSET (1..n)
    BY <1>1 DEF Lifecycles
  <2>3. IsFiniteSet(Lifecycles(events))
    BY <2>1, <2>2, FS_Subset
  <2> QED
    BY <2>3, FS_CardinalityType
<1> HIDE DEF longer, n
<1>3. CASE e.type = "lifecycle"
  <2>1. Lifecycles(longer) = Lifecycles(events) \cup {n + 1} /\ n + 1 \notin Lifecycles(events)
    BY <1>1, <1>3 DEF Lifecycles
  <2>2. Cardinality(Lifecycles(longer)) = Cardinality(Lifecycles(events)) + 1
    BY <1>2, <2>1, FS_AddElement
  <2> QED
    BY <1>2, <1>3, <2>2 DEF longer
<1>4. CASE e.type # "lifecycle"
  <2>1. Lifecycles(longer) = Lifecycles(events)
    BY <1>1, <1>4 DEF Lifecycles
  <2> QED
    BY <1>2, <1>4, <2>1 DEF longer
<1> QED
  BY <1>3, <1>4

LEMMA AttemptsAreCounted ==
  ASSUME JournalInv, NEW s \in TraceSessions
  PROVE  AttemptOf(s) \in Nat
<1>1. log[s] \in Seq(LogEvents)
  BY DEF JournalInv
<1>2. [type |-> "text", attempt |-> 0, call |-> "none", indexed |-> "text"] \in LogEvents
  BY DEF LogEvents, LogTypes
<1>3. Cardinality(Lifecycles(log[s])) \in Nat
  BY <1>1, <1>2, EventsCount
<1> QED
  BY <1>3 DEF AttemptOf, Lifecycles

(* A step that appends an event to one journal.                            *)
LEMMA InsertedIs ==
  ASSUME JournalInv, NEW s \in TraceSessions, NEW type \in LogTypes, NEW attempt \in Nat,
         NEW call \in ToolIds \cup {"none"}, InsertEvent(s, type, attempt, call)
  PROVE  \E e \in LogEvents :
           /\ log' = [log EXCEPT ![s] = Append(log[s], e)]
           /\ e.type = type /\ e.attempt = attempt
           /\ e.indexed \in {type, Unindexed}
           /\ migrated /\ type \in Traced => e.indexed = type
           /\ UNCHANGED <<migrated, console, pages>>
<1> DEFINE new == [type |-> type, attempt |-> attempt, call |-> call, indexed |-> type]
           old == [type |-> type, attempt |-> attempt, call |-> call, indexed |-> Unindexed]
           found == Classified(old)
<1>1. PICK e \in Inserted(type, attempt, call) : log' = [log EXCEPT ![s] = Append(log[s], e)]
  BY DEF InsertEvent
<1>2. new \in LogEvents /\ new.type = type /\ new.attempt = attempt /\ new.indexed = type
  BY DEF LogEvents
<1>3. old \in LogEvents /\ old.type = type /\ old.attempt = attempt /\ old.indexed = Unindexed
  BY DEF LogEvents
<1>4. /\ found \in LogEvents /\ found.type = type /\ found.attempt = attempt
      /\ found.indexed = IF type \in Traced THEN type ELSE Unindexed
  <2> HIDE DEF old
  <2>1. CASE type \in Traced
    <3>1. found = [old EXCEPT !.indexed = old.type]
      BY <1>3, <2>1 DEF Classified
    <3> HIDE DEF found
    <3> QED
      BY <1>3, <2>1, <3>1 DEF LogEvents
  <2>2. CASE type \notin Traced
    BY <1>3, <2>2 DEF Classified
  <2> QED
    BY <2>1, <2>2
<1>5. \/ migrated /\ e = new
      \/ e = IF migrated THEN found ELSE old
  BY <1>1 DEF Inserted
<1> HIDE DEF new, old, found
<1>6. UNCHANGED <<migrated, console, pages>>
  BY DEF InsertEvent
<1> QED
  BY <1>1, <1>2, <1>3, <1>4, <1>5, <1>6

LEMMA InsertKeepsJournal ==
  ASSUME JournalInv, NEW s \in TraceSessions, NEW e \in LogEvents,
         log' = [log EXCEPT ![s] = Append(log[s], e)], UNCHANGED migrated,
         e.indexed \in {e.type, Unindexed},
         migrated /\ e.type \in Traced => e.indexed = e.type,
         e.attempt = IF e.type = "lifecycle" THEN AttemptOf(s) + 1 ELSE AttemptOf(s),
         e.attempt # 0,
         e.type \in Stages => e.type \notin EmittedStages(s)
  PROVE  JournalInv'
<1> DEFINE longer == Append(log[s], e)
           n == Len(log[s])
<1>1. /\ log \in [TraceSessions -> Seq(LogEvents)] /\ migrated \in BOOLEAN
      /\ log[s] \in Seq(LogEvents)
  BY DEF JournalInv
<1>2. /\ longer \in Seq(LogEvents) /\ n \in Nat /\ DOMAIN log[s] = 1..n
      /\ DOMAIN longer = 1..(n+1) /\ longer[n+1] = e
      /\ \A i \in 1..n : longer[i] = log[s][i]
      /\ \A i \in 1..(n+1) : i \in 1..n \/ i = n + 1
  BY <1>1
<1> HIDE DEF longer, n
<1>3. /\ log' \in [TraceSessions -> Seq(LogEvents)] /\ log'[s] = longer
      /\ \A t \in TraceSessions : t # s => log'[t] = log[t]
  BY <1>1, <1>2 DEF longer
<1>4. /\ AttemptOf(s) \in Nat
      /\ AttemptOf(s)' = IF e.type = "lifecycle" THEN AttemptOf(s) + 1 ELSE AttemptOf(s)
  <2>1. AttemptOf(s) = Cardinality(Lifecycles(log[s])) /\ AttemptOf(s)' = Cardinality(Lifecycles(longer))
    BY <1>3 DEF AttemptOf, Lifecycles
  <2> QED
    BY <1>1, <2>1, EventsCount DEF longer
<1>5. \A t \in TraceSessions : t # s => AttemptOf(t)' = AttemptOf(t)
  BY <1>3 DEF AttemptOf
<1>6. ASSUME NEW t \in TraceSessions, NEW i \in DOMAIN log'[t]
      PROVE  /\ log'[t][i].indexed \in {log'[t][i].type, Unindexed}
             /\ migrated' /\ log'[t][i].type \in Traced => log'[t][i].indexed = log'[t][i].type
             /\ log'[t][i].attempt \in 1..AttemptOf(t)'
  <2>1. CASE t # s
    BY <1>3, <1>5, <1>6, <2>1 DEF JournalInv
  <2>2. CASE t = s /\ i \in 1..n
    <3>1. log'[t][i] = log[s][i] /\ log[s][i].attempt \in 1..AttemptOf(s)
      BY <1>2, <1>3, <2>2 DEF JournalInv
    <3>2. log[s][i].attempt \in 1..AttemptOf(s)'
      BY <1>4, <3>1
    <3> QED
      BY <1>2, <2>2, <3>1, <3>2 DEF JournalInv
  <2>3. CASE t = s /\ i = n + 1
    <3>1. log'[t][i] = e
      BY <1>2, <1>3, <2>3
    <3>2. e.attempt \in 1..AttemptOf(s)'
      BY <1>4
    <3> QED
      BY <2>3, <3>1, <3>2
  <2> QED
    BY <1>2, <1>3, <1>6, <2>1, <2>2, <2>3
<1>7. ASSUME NEW t \in TraceSessions, NEW i \in DOMAIN log'[t], NEW j \in DOMAIN log'[t],
             log'[t][i].type \in Stages, log'[t][i].type = log'[t][j].type,
             log'[t][i].attempt = log'[t][j].attempt
      PROVE  i = j
  <2>1. CASE t # s
    BY <1>3, <1>7, <2>1 DEF JournalInv
  <2>2. CASE t = s /\ i \in 1..n /\ j \in 1..n
    BY <1>2, <1>3, <1>7, <2>2 DEF JournalInv
  <2>3. ASSUME NEW k \in 1..n, e.type \in Stages, log[s][k].type = e.type,
               log[s][k].attempt = e.attempt
        PROVE  FALSE
    <3>1. e.attempt = AttemptOf(s)
      BY <2>3 DEF Stages
    <3> QED
      BY <1>2, <2>3, <3>1 DEF EmittedStages
  <2> QED
    BY <1>2, <1>3, <1>7, <2>1, <2>2, <2>3
<1> QED
  BY <1>1, <1>3, <1>6, <1>7 DEF JournalInv

LEMMA OpenKeepsJournal ==
  ASSUME JournalInv, OpenStore
  PROVE  /\ JournalInv'
         /\ \A s \in TraceSessions :
              /\ Len(log'[s]) = Len(log[s]) /\ DOMAIN log'[s] = DOMAIN log[s]
              /\ \A i \in DOMAIN log[s] : log'[s][i].type = log[s][i].type
<1>1. /\ log \in [TraceSessions -> Seq(LogEvents)]
      /\ log' = [s \in TraceSessions |-> [i \in DOMAIN log[s] |-> Classified(log[s][i])]]
      /\ migrated' = TRUE
  BY DEF JournalInv, OpenStore
<1>2. ASSUME NEW e \in LogEvents, e.indexed \in {e.type, Unindexed}
      PROVE  /\ Classified(e) \in LogEvents /\ Classified(e).type = e.type
             /\ Classified(e).attempt = e.attempt
             /\ Classified(e).indexed \in {e.type, Unindexed}
             /\ e.type \in Traced => Classified(e).indexed = e.type
  <2>1. CASE e.indexed = Unindexed /\ e.type \in Traced
    <3>1. Classified(e) = [e EXCEPT !.indexed = e.type]
      BY <2>1 DEF Classified
    <3> QED
      BY <2>1, <3>1 DEF LogEvents
  <2>2. CASE ~(e.indexed = Unindexed /\ e.type \in Traced)
    BY <1>2, <2>2 DEF Classified
  <2> QED
    BY <2>1, <2>2
<1>3. ASSUME NEW s \in TraceSessions
      PROVE  /\ log'[s] \in Seq(LogEvents) /\ Len(log'[s]) = Len(log[s])
             /\ DOMAIN log'[s] = DOMAIN log[s]
             /\ \A i \in DOMAIN log[s] :
                  /\ log'[s][i].type = log[s][i].type /\ log'[s][i].attempt = log[s][i].attempt
                  /\ log'[s][i].indexed \in {log[s][i].type, Unindexed}
                  /\ log[s][i].type \in Traced => log'[s][i].indexed = log[s][i].type
  <2>1. log'[s] = [i \in DOMAIN log[s] |-> Classified(log[s][i])]
    BY <1>1
  <2>2. log[s] \in Seq(LogEvents) /\ DOMAIN log[s] = 1..Len(log[s]) /\ Len(log[s]) \in Nat
    BY <1>1
  <2>3. \A i \in DOMAIN log[s] :
          log[s][i] \in LogEvents /\ log[s][i].indexed \in {log[s][i].type, Unindexed}
    BY <2>2 DEF JournalInv
  <2>4. \A i \in 1..Len(log[s]) : Classified(log[s][i]) \in LogEvents
    BY <1>2, <2>2, <2>3
  <2>5. log'[s] \in Seq(LogEvents) /\ Len(log'[s]) = Len(log[s])
    BY <2>1, <2>2, <2>4
  <2> QED
    BY <1>2, <2>1, <2>3, <2>5
<1>4. \A s \in TraceSessions : AttemptOf(s)' = AttemptOf(s)
  <2>1. ASSUME NEW s \in TraceSessions
        PROVE  {i \in DOMAIN log'[s] : log'[s][i].type = "lifecycle"}
                 = {i \in DOMAIN log[s] : log[s][i].type = "lifecycle"}
    BY <1>3
  <2> QED
    BY <2>1 DEF AttemptOf
<1>5. log' \in [TraceSessions -> Seq(LogEvents)]
  BY <1>1, <1>3
<1>6. ASSUME NEW s \in TraceSessions, NEW i \in DOMAIN log'[s]
      PROVE  /\ log'[s][i].indexed \in {log'[s][i].type, Unindexed}
             /\ log'[s][i].type \in Traced => log'[s][i].indexed = log'[s][i].type
             /\ log'[s][i].attempt \in 1..AttemptOf(s)'
  BY <1>3, <1>4 DEF JournalInv
<1>7. ASSUME NEW s \in TraceSessions, NEW i \in DOMAIN log'[s], NEW j \in DOMAIN log'[s],
             log'[s][i].type \in Stages, log'[s][i].type = log'[s][j].type,
             log'[s][i].attempt = log'[s][j].attempt
      PROVE  i = j
  BY <1>3, <1>7 DEF JournalInv
<1>8. JournalInv'
  BY <1>1, <1>5, <1>6, <1>7 DEF JournalInv
<1> QED
  BY <1>3, <1>8

(* The first and the last of some events.                                  *)
LEMMA PartsAreFinite ==
  ASSUME NEW n \in Nat, NEW S \in SUBSET (1..n)
  PROVE  \A T \in SUBSET S : IsFiniteSet(T) /\ Cardinality(T) \in Nat
<1>1. IsFiniteSet(1..n)
  BY FS_Interval
<1>2. ASSUME NEW T \in SUBSET S PROVE IsFiniteSet(T) /\ Cardinality(T) \in Nat
  <2>1. T \in SUBSET (1..n)
    OBVIOUS
  <2>2. IsFiniteSet(T)
    BY <1>1, <2>1, FS_Subset
  <2> QED
    BY <2>2, FS_CardinalityType
<1> QED
  BY <1>2

LEMMA FirstOfIsAll ==
  ASSUME NEW n \in Nat, NEW S \in SUBSET (1..n), NEW limit \in Nat, Cardinality(S) <= limit
  PROVE  FirstOf(limit, S) = S
<1>1. ASSUME NEW i \in S PROVE Cardinality({j \in S : j <= i}) <= limit
  <2>1. {j \in S : j <= i} \in SUBSET S
    OBVIOUS
  <2>2. /\ IsFiniteSet(S) /\ Cardinality(S) \in Nat
        /\ Cardinality({j \in S : j <= i}) \in Nat
    BY <2>1, PartsAreFinite
  <2>3. Cardinality({j \in S : j <= i}) <= Cardinality(S)
    BY <2>1, <2>2, FS_Subset
  <2> QED
    BY <2>2, <2>3
<1> QED
  BY <1>1 DEF FirstOf

LEMMA FirstOfIsDownTo ==
  ASSUME NEW n \in Nat, NEW S \in SUBSET (1..n), S # {}, NEW limit \in Nat \ {0}
  PROVE  /\ Max(FirstOf(limit, S)) \in S
         /\ FirstOf(limit, S) = {i \in S : i <= Max(FirstOf(limit, S))}
<1> DEFINE F == FirstOf(limit, S)
<1>1. F # {}
  <2>1. PICK m \in S : \A j \in S : m <= j
    <3>1. S \in SUBSET Nat
      OBVIOUS
    <3> QED
      BY <3>1, LeastExists
  <2>2. {j \in S : j <= m} = {m}
    <3>1. ASSUME NEW j \in S, j <= m PROVE j = m
      BY <2>1, <3>1
    <3>2. m \in S /\ m <= m
      BY <2>1
    <3> QED
      BY <3>1, <3>2
  <2>3. Cardinality({j \in S : j <= m}) = 1
    BY <2>2, FS_Singleton
  <2>4. Cardinality({j \in S : j <= m}) <= limit
    BY <2>3
  <2>5. m \in F
    BY <2>4 DEF FirstOf
  <2> QED
    BY <2>5
<1>2. F \in SUBSET S
  BY DEF FirstOf
<1>3. PICK m \in F : \A j \in F : j <= m
  <2>1. F \in SUBSET (1..n)
    BY <1>2
  <2> QED
    BY <1>1, <2>1, LargestExists
<1>4. Max(F) \in F /\ \A j \in F : Max(F) >= j
  <2>1. \A j \in F : m >= j
    BY <1>2, <1>3
  <2> QED
    BY <1>3, <2>1 DEF Max
<1>5. ASSUME NEW i \in F, NEW j \in S, j <= i PROVE j \in F
  <2> DEFINE T == {k \in S : k <= i}
             U == {k \in S : k <= j}
  <2>1. T \in SUBSET S /\ U \in SUBSET T
    <3>1. ASSUME NEW k \in S, k <= j PROVE k <= i
      <4>1. k \in 1..n /\ j \in 1..n /\ i \in 1..n
        BY <1>2
      <4> QED
        BY <1>5, <3>1, <4>1
    <3> QED
      BY <3>1
  <2>2. IsFiniteSet(T) /\ Cardinality(T) \in Nat /\ Cardinality(U) \in Nat
    BY <2>1, PartsAreFinite
  <2>3. Cardinality(U) <= Cardinality(T)
    BY <2>1, <2>2, FS_Subset
  <2>4. Cardinality(T) <= limit
    BY DEF FirstOf
  <2> HIDE DEF T, U
  <2>5. Cardinality(U) <= limit
    BY <2>2, <2>3, <2>4
  <2> QED
    BY <2>5 DEF U, FirstOf
<1>6. F = {i \in S : i <= Max(F)}
  <2> HIDE DEF F
  <2>1. ASSUME NEW i \in F PROVE i \in S /\ i <= Max(F)
    BY <1>2, <1>4
  <2>2. ASSUME NEW i \in S, i <= Max(F) PROVE i \in F
    BY <1>4, <1>5, <2>2
  <2> QED
    BY <2>1, <2>2
<1>7. Max(F) \in S
  BY <1>2, <1>4
<1> QED
  BY <1>6, <1>7

LEMMA LastOfKeeps ==
  ASSUME NEW n \in Nat, NEW A \in SUBSET (1..n), NEW B \in SUBSET (1..n),
         \A a \in A, b \in B : a < b, NEW limit \in Nat
  PROVE  LastOf(limit, LastOf(limit, A) \cup B) = LastOf(limit, A \cup B)
<1> DEFINE M == LastOf(limit, A)
           All == A \cup B
           Some == M \cup B
           From(S, i) == {j \in S : j >= i}
<1>1. M \in SUBSET A /\ Some \in SUBSET All /\ All \in SUBSET (1..n)
  BY DEF LastOf
<1>2. \A S \in SUBSET All : IsFiniteSet(S) /\ Cardinality(S) \in Nat
  BY <1>1, PartsAreFinite
<1>3. ASSUME NEW S \in SUBSET All, NEW T \in SUBSET S, Cardinality(S) <= limit
      PROVE  Cardinality(T) <= limit
  <2>1. IsFiniteSet(S) /\ Cardinality(S) \in Nat /\ Cardinality(T) \in Nat
    BY <1>2
  <2>2. Cardinality(T) <= Cardinality(S)
    BY <2>1, FS_Subset
  <2> QED
    BY <1>3, <2>1, <2>2
<1>4. ASSUME NEW S \in SUBSET All, NEW i PROVE From(S, i) \in SUBSET All
  OBVIOUS
<1>5. \A S : \A i : i \in LastOf(limit, S) <=> i \in S /\ Cardinality(From(S, i)) <= limit
  BY DEF LastOf
<1>6. ASSUME NEW i \in All, Cardinality(From(All, i)) <= limit
      PROVE  i \in Some /\ Cardinality(From(Some, i)) <= limit
  <2>1. From(A, i) \in SUBSET From(All, i) /\ From(Some, i) \in SUBSET From(All, i)
    BY <1>1
  <2>2. Cardinality(From(A, i)) <= limit /\ Cardinality(From(Some, i)) <= limit
    BY <1>3, <1>4, <1>6, <2>1
  <2>3. i \in A => i \in M
    BY <1>5, <2>2
  <2> QED
    BY <2>2, <2>3
<1>7. ASSUME NEW i \in Some, Cardinality(From(Some, i)) <= limit
      PROVE  i \in All /\ Cardinality(From(All, i)) <= limit
  <2>1. From(All, i) = From(Some, i)
    <3>1. CASE i \in B
      <4>1. ASSUME NEW j \in A, j >= i PROVE FALSE
        <5>1. j < i /\ j \in 1..n /\ i \in 1..n
          BY <3>1
        <5> QED
          BY <4>1, <5>1
      <4> QED
        BY <1>1, <4>1
    <3>2. CASE i \in M
      <4>1. i \in A /\ Cardinality(From(A, i)) <= limit
        BY <1>1, <1>5, <3>2
      <4>2. ASSUME NEW j \in A, j >= i PROVE j \in M
        <5>1. From(A, j) \in SUBSET From(A, i)
          <6>1. ASSUME NEW k \in A, k >= j PROVE k >= i
            <7>1. i \in 1..n /\ j \in 1..n /\ k \in 1..n
              BY <4>1
            <7> QED
              BY <4>2, <6>1, <7>1
          <6> QED
            BY <6>1
        <5>2. From(A, i) \in SUBSET All
          OBVIOUS
        <5>3. Cardinality(From(A, j)) <= limit
          BY <1>3, <4>1, <5>1, <5>2
        <5> QED
          BY <1>5, <5>3
      <4> QED
        BY <1>1, <4>2
    <3> QED
      BY <3>1, <3>2
  <2> QED
    BY <1>1, <1>7, <2>1
<1>8. \A i : i \in LastOf(limit, Some) <=> i \in LastOf(limit, All)
  <2> HIDE DEF From, Some, All, M
  <2> QED
    BY <1>5, <1>6, <1>7
<1>9. LastOf(limit, Some) = LastOf(limit, All)
  <2>1. LastOf(limit, Some) \subseteq LastOf(limit, All)
    BY <1>8
  <2>2. LastOf(limit, All) \subseteq LastOf(limit, Some)
    BY <1>8
  <2> QED
    BY <2>1, <2>2
<1> QED
  BY <1>9

(* A page, of a store that was opened by this version.                     *)
LEMMA PageIs ==
  ASSUME JournalInv, migrated, NEW s \in TraceSessions, NEW cursor \in Nat,
         cursor <= Len(log[s])
  PROVE  LET page == Page(s, cursor) IN
           /\ page \in [entries : SUBSET Nat, more : BOOLEAN, next : Nat]
           /\ cursor <= page.next /\ page.next <= Len(log[s])
           /\ page.entries = Between(log[s], cursor, page.next)
<1> DEFINE found == After(s, cursor, Traced)
           more == Cardinality(found) > TraceLimit
           entries == FirstOf(TraceLimit, found)
           next == IF more THEN Max(entries) ELSE Max({Len(log[s]), cursor})
           n == Len(log[s])
<1>1. n \in Nat /\ DOMAIN log[s] = 1..n
  BY DEF JournalInv
<1>2. found = {i \in 1..n : i > cursor /\ log[s][i].type \in Traced}
  <2>1. \A i \in 1..n : log[s][i].indexed \in Traced <=> log[s][i].type \in Traced
    <3>1. Unindexed \notin Traced
      BY DEF Unindexed, Traced, Stages, ToolTypes
    <3> QED
      BY <1>1, <3>1 DEF JournalInv
  <2> QED
    BY <1>1, <2>1 DEF After
<1>3. found \in SUBSET (1..n) /\ entries \in SUBSET (1..n)
  BY <1>2 DEF FirstOf
<1>4. TraceLimit \in Nat \ {0} /\ Cardinality(found) \in Nat
  BY <1>1, <1>3, PartsAreFinite, ReadersAssumption
<1> HIDE DEF n, found
<1>5. CASE more
  <2>1. found # {}
    <3>1. found = {} => Cardinality(found) = 0
      BY FS_EmptySet
    <3>2. Cardinality(found) # 0
      BY <1>4, <1>5
    <3> QED
      BY <3>1, <3>2
  <2>2. next \in found /\ entries = {i \in found : i <= next}
    <3>1. /\ Max(FirstOf(TraceLimit, found)) \in found
          /\ FirstOf(TraceLimit, found) = {i \in found : i <= Max(FirstOf(TraceLimit, found))}
      BY <1>1, <1>3, <1>4, <2>1, FirstOfIsDownTo
    <3>2. next = Max(FirstOf(TraceLimit, found))
      BY <1>5
    <3> QED
      BY <3>1, <3>2
  <2>3. next \in 1..n /\ next > cursor
    BY <1>2, <2>2
  <2> HIDE DEF next, entries
  <2>4. entries = Between(log[s], cursor, next)
    <3>1. ASSUME NEW i \in entries PROVE i \in Between(log[s], cursor, next)
      BY <1>1, <1>2, <2>2 DEF Between
    <3>2. ASSUME NEW i \in Between(log[s], cursor, next) PROVE i \in entries
      BY <1>1, <1>2, <2>2 DEF Between
    <3> QED
      BY <3>1, <3>2
  <2>5. next \in Nat /\ cursor <= next /\ next <= n
    BY <1>1, <2>3
  <2>6. Page(s, cursor) = [entries |-> entries, more |-> more, next |-> next]
    BY DEF Page, found, entries, next
  <2>7. entries \in SUBSET Nat
    BY <1>1, <1>3
  <2> HIDE DEF more
  <2> QED
    BY <1>5, <2>4, <2>5, <2>6, <2>7 DEF n
<1>6. CASE ~more
  <2>1. next = n
    <3>1. Max({n, cursor}) = n
      <4>1. \A y \in {n, cursor} : n >= y
        BY <1>1 DEF n
      <4>2. /\ Max({n, cursor}) \in {n, cursor}
            /\ \A y \in {n, cursor} : Max({n, cursor}) >= y
        BY <4>1 DEF Max
      <4>3. Max({n, cursor}) >= n /\ Max({n, cursor}) \in Nat /\ Max({n, cursor}) <= n
        BY <1>1, <4>1, <4>2
      <4> QED
        BY <1>1, <4>3
    <3> QED
      BY <1>6, <3>1 DEF n
  <2>2. entries = found
    <3>1. Cardinality(found) <= TraceLimit /\ TraceLimit \in Nat
      BY <1>4, <1>6
    <3> QED
      BY <1>1, <1>3, <3>1, FirstOfIsAll
  <2> HIDE DEF next, entries
  <2>3. entries = Between(log[s], cursor, next)
    <3>1. ASSUME NEW i \in entries PROVE i \in Between(log[s], cursor, next)
      BY <1>1, <1>2, <2>1, <2>2 DEF Between
    <3>2. ASSUME NEW i \in Between(log[s], cursor, next) PROVE i \in entries
      BY <1>1, <1>2, <2>1, <2>2 DEF Between
    <3> QED
      BY <3>1, <3>2
  <2>4. Page(s, cursor) = [entries |-> entries, more |-> more, next |-> next]
    BY DEF Page, found, entries, next
  <2>5. entries \in SUBSET Nat
    BY <1>1, <1>3
  <2>6. next \in Nat /\ cursor <= next /\ next <= n
    BY <1>1, <2>1 DEF n
  <2>7. more \in BOOLEAN
    OBVIOUS
  <2> HIDE DEF more
  <2> QED
    BY <2>3, <2>4, <2>5, <2>6, <2>7 DEF n
<1> QED
  BY <1>5, <1>6

(* A journal that grows, or whose events get their index, changes nothing  *)
(* of what was read from it.                                               *)
LEMMA LogKeepsConsole ==
  ASSUME ReadersInv, UNCHANGED <<console, pages>>, migrated => migrated',
         \A s \in TraceSessions :
           /\ log'[s] \in Seq(LogEvents) /\ Len(log[s]) <= Len(log'[s])
           /\ \A i \in DOMAIN log[s] : log'[s][i].type = log[s][i].type
  PROVE  ConsoleInv'
<1>1. ASSUME NEW s \in TraceSessions, NEW first, NEW last \in Nat, last <= Len(log[s])
      PROVE  /\ last <= Len(log'[s])
             /\ Between(log'[s], first, last) = Between(log[s], first, last)
  <2>1. /\ log[s] \in Seq(LogEvents) /\ log'[s] \in Seq(LogEvents)
        /\ Len(log[s]) \in Nat /\ Len(log'[s]) \in Nat /\ Len(log[s]) <= Len(log'[s])
        /\ DOMAIN log[s] = 1..Len(log[s]) /\ DOMAIN log'[s] = 1..Len(log'[s])
    BY DEF ReadersInv, JournalInv
  <2>2. PICK old, new : old = log[s] /\ new = log'[s]
    OBVIOUS
  <2>3. PICK n, m : n = Len(old) /\ m = Len(new)
    OBVIOUS
  <2>4. /\ n \in Nat /\ m \in Nat /\ n <= m /\ last <= n /\ last \in Nat
        /\ DOMAIN old = 1..n /\ DOMAIN new = 1..m
        /\ \A i \in 1..n : i \in DOMAIN new /\ new[i].type = old[i].type
    BY <1>1, <2>1, <2>2, <2>3
  <2>5. Between(new, first, last) = Between(old, first, last)
    <3>1. ASSUME NEW i \in Between(new, first, last) PROVE i \in Between(old, first, last)
      <4>1. i \in 1..m /\ i <= last
        BY <2>4 DEF Between
      <4>2. i \in 1..n
        BY <2>4, <4>1
      <4> QED
        BY <2>4, <4>2 DEF Between
    <3>2. ASSUME NEW i \in Between(old, first, last) PROVE i \in Between(new, first, last)
      BY <2>4 DEF Between
    <3> QED
      BY <3>1, <3>2
  <2> QED
    BY <1>1, <2>1, <2>2, <2>5
<1>2. /\ console \in Consoles /\ pages \in SUBSET Reads
      /\ console.session \in TraceSessions /\ console.cursor \in Nat
  BY DEF ReadersInv, ConsoleInv, Consoles
<1>3. /\ console.cursor <= Len(log'[console.session])
      /\ console.entries = Merged({}, Between(log'[console.session], 0, console.cursor))
  BY <1>1, <1>2 DEF ReadersInv, ConsoleInv
<1>4. ASSUME NEW read \in pages, IsShown(read)
      PROVE  /\ migrated' /\ console.state = "loading"
             /\ read.from = IF read.replace THEN 0 ELSE console.cursor
             /\ read.from <= read.page.next /\ read.page.next <= Len(log'[read.session])
             /\ read.page.entries = Between(log'[read.session], read.from, read.page.next)
  <2>1. read.session \in TraceSessions /\ read.page.next \in Nat
    BY <1>2 DEF Reads
  <2>2. migrated /\ console.state = "loading" /\ Fits(read)
    BY <1>4 DEF ReadersInv, ConsoleInv
  <2> QED
    BY <1>1, <2>1, <2>2 DEF Fits
<1>5. UNCHANGED <<console, pages>>
  OBVIOUS
<1> QED
  BY <1>2, <1>3, <1>4, <1>5 DEF ReadersInv, ConsoleInv, IsShown, Fits

LEMMA AskStep ==
  ASSUME ReadersInv, NEW cursor, NEW replace \in BOOLEAN, AskPage(cursor, replace),
         cursor = IF replace THEN 0 ELSE console.cursor
  PROVE  ConsoleInv'
<1> DEFINE page == Page(console.session, cursor)
           asked == [generation |-> console.generation, session |-> console.session,
                     from |-> cursor, replace |-> replace, page |-> page]
           c == [console EXCEPT !.state = "loading"]
<1>1. /\ console \in Consoles /\ pages \in SUBSET Reads /\ console.state # "loading" /\ migrated
      /\ console' = c /\ pages' = pages \cup {asked} /\ UNCHANGED <<migrated, log>>
      /\ console.cursor <= Len(log[console.session])
      /\ console.entries = Merged({}, Between(log[console.session], 0, console.cursor))
  BY DEF ReadersInv, ConsoleInv, AskPage
<1>2. /\ c \in Consoles /\ c.session = console.session /\ c.generation = console.generation
      /\ c.cursor = console.cursor /\ c.entries = console.entries /\ c.state = "loading"
      /\ console.session \in TraceSessions /\ console.cursor \in Nat /\ console.generation \in Nat
  BY <1>1 DEF Consoles
<1>3. cursor \in Nat /\ cursor <= Len(log[console.session])
  <2>1. Len(log[console.session]) \in Nat
    BY <1>2 DEF ReadersInv, JournalInv
  <2> QED
    BY <1>1, <1>2, <2>1
<1>4. /\ page \in [entries : SUBSET Nat, more : BOOLEAN, next : Nat]
      /\ cursor <= page.next /\ page.next <= Len(log[console.session])
      /\ page.entries = Between(log[console.session], cursor, page.next)
  BY <1>1, <1>2, <1>3, PageIs DEF ReadersInv
<1> HIDE DEF page, c
<1>5. /\ asked \in Reads /\ asked.generation = console.generation
      /\ asked.session = console.session /\ asked.from = cursor /\ asked.replace = replace
      /\ asked.page = page
  BY <1>2, <1>3, <1>4 DEF Reads
<1> HIDE DEF asked
<1>6. \A read \in pages : ~IsShown(read)
  BY <1>1 DEF ReadersInv, ConsoleInv
<1>7. \A read \in pages : read.generation <= console.generation
  BY DEF ReadersInv, ConsoleInv
<1> QED
  BY <1>1, <1>2, <1>3, <1>4, <1>5, <1>6, <1>7 DEF ConsoleInv, IsShown, Fits

LEMMA ShowStep ==
  ASSUME ReadersInv, NEW s \in TraceSessions, ShowSession(s)
  PROVE  ConsoleInv'
<1> DEFINE c == [NewConsole(s) EXCEPT !.generation = console.generation + 1]
<1>1. /\ console \in Consoles /\ pages \in SUBSET Reads /\ console.generation \in Nat
      /\ console' = c /\ UNCHANGED <<migrated, log, pages>>
  BY DEF ReadersInv, ConsoleInv, ShowSession, Consoles
<1>2. console.generation + 1 \in Nat
  BY <1>1
<1>3. /\ c \in Consoles /\ c.session = s /\ c.generation = console.generation + 1
      /\ c.cursor = 0 /\ c.entries = {}
  BY <1>2 DEF NewConsole, Consoles
<1> HIDE DEF c
<1>4. Len(log[s]) \in Nat /\ DOMAIN log[s] = 1..Len(log[s])
  BY DEF ReadersInv, JournalInv
<1>5. Merged({}, Between(log[s], 0, 0)) = {}
  <2>1. Between(log[s], 0, 0) = {}
    BY <1>4 DEF Between
  <2> QED
    BY <2>1 DEF Merged, LastOf
<1>6. \A read \in pages : read.generation \in Nat /\ read.generation <= console.generation
  BY <1>1 DEF ReadersInv, ConsoleInv, Reads
<1>7. \A read \in pages : read.generation # c.generation /\ read.generation <= c.generation
  BY <1>1, <1>3, <1>6
<1> QED
  BY <1>1, <1>3, <1>4, <1>5, <1>7 DEF ConsoleInv, IsShown

LEMMA ReceiveStep ==
  ASSUME ReadersInv, NEW read \in pages, ReceivePage(read)
  PROVE  ConsoleInv'
<1>1. /\ console \in Consoles /\ pages \in SUBSET Reads /\ read \in Reads
      /\ pages' = pages \ {read} /\ UNCHANGED <<migrated, log>>
  BY DEF ReadersInv, ConsoleInv, ReceivePage
<1>2. CASE ~IsShown(read)
  <2>1. console' = console
    BY <1>2 DEF ReceivePage
  <2> QED
    BY <1>1, <2>1 DEF ReadersInv, ConsoleInv, IsShown, Fits
<1>3. CASE IsShown(read)
  <2> DEFINE before == IF read.replace THEN {} ELSE console.entries
             now == Merged(before, read.page.entries)
             cursor == Max({read.from, read.page.next})
             c == [console EXCEPT !.entries = now, !.cursor = cursor, !.more = read.page.more,
                                  !.state = "ready"]
  <2>1. console' = c
    BY <1>3 DEF ReceivePage
  <2>2. /\ console.session \in TraceSessions /\ console.cursor \in Nat
        /\ read.session = console.session /\ read.from \in Nat /\ read.page.next \in Nat
        /\ read.page.more \in BOOLEAN
        /\ read.from = IF read.replace THEN 0 ELSE console.cursor
        /\ read.from <= read.page.next /\ read.page.next <= Len(log[console.session])
        /\ read.page.entries = Between(log[console.session], read.from, read.page.next)
    BY <1>1, <1>3 DEF ReadersInv, ConsoleInv, Fits, IsShown, Consoles, Reads
  <2>3. cursor = read.page.next
    <3>1. \A y \in {read.from, read.page.next} : read.page.next >= y
      BY <2>2
    <3>2. cursor \in {read.from, read.page.next} /\ cursor >= read.page.next
      BY <3>1 DEF Max
    <3> QED
      BY <2>2, <3>1, <3>2
  <2>4. Len(log[console.session]) \in Nat
        /\ DOMAIN log[console.session] = 1..Len(log[console.session])
    BY <2>2 DEF ReadersInv, JournalInv
  <2> HIDE DEF cursor
  <2>5. now = Merged({}, Between(log[console.session], 0, cursor))
    <3> DEFINE events == log[console.session]
               A == Between(events, 0, console.cursor)
               B == Between(events, console.cursor, cursor)
    <3>1. CASE read.replace
      BY <2>2, <2>3, <3>1
    <3>2. CASE ~read.replace
      <4>1. now = LastOf(ShownLimit, LastOf(ShownLimit, A) \cup B)
        <5>1. console.entries = Merged({}, A)
          BY DEF ReadersInv, ConsoleInv
        <5>2. Merged({}, A) = LastOf(ShownLimit, A)
          BY DEF Merged
        <5> QED
          BY <2>2, <2>3, <3>2, <5>1, <5>2 DEF Merged
      <4>2. A \in SUBSET (1..Len(events)) /\ B \in SUBSET (1..Len(events))
        BY <2>4 DEF Between
      <4>3. \A a \in A, b \in B : a < b
        <5>1. ASSUME NEW a \in A, NEW b \in B PROVE a < b
          <6>1. a <= console.cursor /\ b > console.cursor /\ a \in 1..Len(events) /\ b \in 1..Len(events)
            BY <2>4 DEF Between
          <6> QED
            BY <2>2, <6>1
        <5> QED
          BY <5>1
      <4>4. A \cup B = Between(events, 0, cursor)
        <5>1. console.cursor <= cursor /\ cursor \in Nat
          BY <2>2, <2>3, <3>2
        <5>2. ASSUME NEW i \in DOMAIN events PROVE i \in A \cup B <=> i \in Between(events, 0, cursor)
          <6>1. i \in Nat /\ i > 0
            BY <2>4
          <6>2. i <= console.cursor \/ i > console.cursor
            BY <2>2, <6>1
          <6>3. i <= console.cursor => i <= cursor
            BY <2>2, <5>1, <6>1
          <6>4. i > console.cursor => i > 0
            BY <6>1
          <6> QED
            BY <6>1, <6>2, <6>3 DEF Between
        <5>3. A \cup B \subseteq DOMAIN events /\ Between(events, 0, cursor) \subseteq DOMAIN events
          BY DEF Between
        <5> HIDE DEF A, B, events
        <5> QED
          BY <5>2, <5>3
      <4>5. ShownLimit \in Nat /\ Len(events) \in Nat
        BY <2>4, ReadersAssumption
      <4>6. LastOf(ShownLimit, LastOf(ShownLimit, A) \cup B) = LastOf(ShownLimit, A \cup B)
        <5> HIDE DEF A, B, events
        <5> QED
          BY <4>2, <4>3, <4>5, LastOfKeeps
      <4> QED
        BY <4>1, <4>4, <4>6 DEF Merged
    <3> QED
      BY <3>1, <3>2
  <2>6. now \in SUBSET Nat
    <3>1. now \subseteq Between(log[console.session], 0, cursor)
      BY <2>5 DEF Merged, LastOf
    <3> QED
      BY <2>4, <3>1 DEF Between
  <2> HIDE DEF now
  <2>7. /\ c \in Consoles /\ c.session = console.session /\ c.generation = console.generation
        /\ c.cursor = cursor /\ c.entries = now
    BY <1>1, <2>2, <2>3, <2>6 DEF Consoles
  <2> HIDE DEF c
  <2>8. \A other \in pages' : other \in Reads /\ ~IsShown(other) /\ other.generation <= c.generation
    BY <1>1, <1>3, <2>7 DEF ReadersInv, ConsoleInv
  <2> QED
    BY <1>1, <2>1, <2>2, <2>3, <2>5, <2>7, <2>8 DEF ConsoleInv, IsShown
<1> QED
  BY <1>2, <1>3

LEMMA FailStep ==
  ASSUME ReadersInv, NEW read \in pages, FailPage(read)
  PROVE  ConsoleInv'
<1> DEFINE c == [console EXCEPT !.state = "error"]
<1>1. /\ console \in Consoles /\ pages \in SUBSET Reads
      /\ pages' = pages \ {read} /\ UNCHANGED <<migrated, log>>
  BY DEF ReadersInv, ConsoleInv, FailPage
<1>2. CASE ~IsShown(read)
  <2>1. console' = console
    BY <1>2 DEF FailPage
  <2> QED
    BY <1>1, <2>1 DEF ReadersInv, ConsoleInv, IsShown, Fits
<1>3. CASE IsShown(read)
  <2>1. console' = c
    BY <1>3 DEF FailPage
  <2>2. /\ c \in Consoles /\ c.session = console.session /\ c.generation = console.generation
        /\ c.cursor = console.cursor /\ c.entries = console.entries
    BY <1>1 DEF Consoles
  <2> HIDE DEF c
  <2>3. \A other \in pages' : other \in pages /\ ~IsShown(other)
    BY <1>1, <1>3 DEF ReadersInv, ConsoleInv
  <2> QED
    BY <1>1, <2>1, <2>2, <2>3 DEF ReadersInv, ConsoleInv, IsShown
<1> QED
  BY <1>2, <1>3

LEMMA InsertStep ==
  ASSUME ReadersInv, NEW s \in TraceSessions, NEW type \in LogTypes, NEW attempt \in Nat,
         NEW call \in ToolIds \cup {"none"}, InsertEvent(s, type, attempt, call),
         attempt = IF type = "lifecycle" THEN AttemptOf(s) + 1 ELSE AttemptOf(s),
         attempt # 0, type \in Stages => type \notin EmittedStages(s)
  PROVE  ReadersInv'
<1>1. PICK e \in LogEvents :
        /\ log' = [log EXCEPT ![s] = Append(log[s], e)]
        /\ e.type = type /\ e.attempt = attempt /\ e.indexed \in {type, Unindexed}
        /\ migrated /\ type \in Traced => e.indexed = type
        /\ UNCHANGED <<migrated, console, pages>>
  BY InsertedIs DEF ReadersInv
<1>2. JournalInv
  BY DEF ReadersInv
<1>3. JournalInv'
  BY <1>1, <1>2, InsertKeepsJournal
<1>4. ASSUME NEW t \in TraceSessions
      PROVE  /\ log'[t] \in Seq(LogEvents) /\ Len(log[t]) <= Len(log'[t])
             /\ \A i \in DOMAIN log[t] : log'[t][i].type = log[t][i].type
  <2>1. log[t] \in Seq(LogEvents) /\ log'[t] \in Seq(LogEvents)
    BY <1>2, <1>3 DEF JournalInv
  <2>2. CASE t = s
    <3>1. log'[t] = Append(log[t], e)
      BY <1>1, <1>2, <2>2 DEF JournalInv
    <3> QED
      BY <2>1, <3>1
  <2>3. CASE t # s
    <3>1. log'[t] = log[t]
      BY <1>1, <1>2, <2>3 DEF JournalInv
    <3> QED
      BY <2>1, <3>1
  <2> QED
    BY <2>2, <2>3
<1>5. ConsoleInv'
  BY <1>1, <1>4, LogKeepsConsole
<1> QED
  BY <1>3, <1>5 DEF ReadersInv

LEMMA OpenStep ==
  ASSUME ReadersInv, OpenStore
  PROVE  ReadersInv'
<1>1. JournalInv /\ JournalInv' /\ UNCHANGED <<console, pages>> /\ migrated'
  BY OpenKeepsJournal DEF ReadersInv, OpenStore
<1>2. ASSUME NEW s \in TraceSessions
      PROVE  /\ log'[s] \in Seq(LogEvents) /\ Len(log[s]) <= Len(log'[s])
             /\ \A i \in DOMAIN log[s] : log'[s][i].type = log[s][i].type
  <2>1. log[s] \in Seq(LogEvents) /\ log'[s] \in Seq(LogEvents)
    BY <1>1 DEF JournalInv
  <2>2. Len(log'[s]) = Len(log[s]) /\ \A i \in DOMAIN log[s] : log'[s][i].type = log[s][i].type
    BY <1>1, OpenKeepsJournal
  <2> QED
    BY <2>1, <2>2
<1>3. ConsoleInv'
  BY <1>1, <1>2, LogKeepsConsole
<1> QED
  BY <1>1, <1>3 DEF ReadersInv

LEMMA ReadersInvStep ==
  ASSUME ReadersInv, [ReadersNext]_readersVars
  PROVE  ReadersInv'
<1>1. JournalInv /\ ConsoleInv
  BY DEF ReadersInv
<1>2. CASE UNCHANGED readersVars
  BY <1>1, <1>2 DEF ReadersInv, JournalInv, ConsoleInv, readersVars, AttemptOf, IsShown, Fits
<1>3. CASE OpenStore
  BY <1>3, OpenStep
<1>4. ASSUME UNCHANGED <<migrated, log>>
      PROVE  JournalInv'
  BY <1>1, <1>4 DEF JournalInv, AttemptOf
<1>5. CASE OpenTrace
  BY <1>4, <1>5, AskStep DEF ReadersInv, OpenTrace, AskPage
<1>6. CASE LoadMore
  <2>1. AskPage(console.cursor, FALSE) /\ FALSE \in BOOLEAN
    BY <1>6 DEF LoadMore
  <2>2. ConsoleInv'
    BY <2>1, AskStep
  <2> QED
    BY <1>4, <2>1, <2>2 DEF ReadersInv, AskPage
<1>7. ASSUME NEW s \in TraceSessions PROVE AttemptOf(s) \in Nat
  BY <1>1, AttemptsAreCounted
<1>8. ASSUME NEW s \in TraceSessions, ClaimAttempt(s) PROVE ReadersInv'
  <2>1. "lifecycle" \in LogTypes /\ "lifecycle" \notin Stages /\ AttemptOf(s) + 1 \in Nat
        /\ AttemptOf(s) + 1 # 0
    BY <1>7 DEF LogTypes, Traced, Stages
  <2> QED
    BY <1>8, <2>1, InsertStep DEF ClaimAttempt
<1>9. ASSUME NEW s \in TraceSessions, EmitText(s) PROVE ReadersInv'
  <2>1. "text" \in LogTypes /\ "text" \notin Stages /\ AttemptOf(s) \in Nat /\ AttemptOf(s) # 0
    BY <1>7, <1>9 DEF LogTypes, Stages, EmitText
  <2> QED
    BY <1>9, <2>1, InsertStep DEF EmitText
<1>10. ASSUME NEW s \in TraceSessions, ShowSession(s) PROVE ReadersInv'
  BY <1>4, <1>10, ShowStep DEF ReadersInv, ShowSession
<1>11. ASSUME NEW s \in TraceSessions, NEW stage \in Stages, EmitStage(s, stage) PROVE ReadersInv'
  <2>1. stage \in LogTypes /\ stage # "lifecycle" /\ AttemptOf(s) \in Nat /\ AttemptOf(s) # 0
        /\ stage \notin EmittedStages(s) /\ InsertEvent(s, stage, AttemptOf(s), "none")
    BY <1>7, <1>11 DEF LogTypes, Traced, Stages, EmitStage
  <2> QED
    BY <2>1, InsertStep
<1>12. ASSUME NEW s \in TraceSessions, NEW type \in ToolTypes, NEW call \in ToolIds,
              EmitTool(s, type, call)
       PROVE  ReadersInv'
  <2>1. type \in LogTypes /\ type # "lifecycle" /\ type \notin Stages
        /\ AttemptOf(s) \in Nat /\ AttemptOf(s) # 0
        /\ InsertEvent(s, type, AttemptOf(s), call)
    BY <1>7, <1>12 DEF LogTypes, Traced, Stages, ToolTypes, EmitTool
  <2> QED
    BY <2>1, InsertStep
<1>13. ASSUME NEW read \in pages, ReceivePage(read) PROVE ReadersInv'
  BY <1>4, <1>13, ReceiveStep DEF ReadersInv, ReceivePage
<1>14. ASSUME NEW read \in pages, FailPage(read) PROVE ReadersInv'
  BY <1>4, <1>14, FailStep DEF ReadersInv, FailPage
<1> QED
  BY <1>2, <1>3, <1>5, <1>6, <1>8, <1>9, <1>10, <1>11, <1>12, <1>13, <1>14 DEF ReadersNext

LEMMA ReadersStart ==
  ASSUME ReadersInit
  PROVE  ReadersInv
<1>1. PICK s \in TraceSessions : console = NewConsole(s)
  BY DEF ReadersInit
<1>2. /\ migrated = FALSE /\ log = [t \in TraceSessions |-> <<>>] /\ pages = {}
  BY DEF ReadersInit
<1>3. \A t \in TraceSessions : log[t] = <<>> /\ DOMAIN log[t] = {} /\ log[t] \in Seq(LogEvents)
  BY <1>2
<1>4. JournalInv
  BY <1>2, <1>3 DEF JournalInv
<1>5. console \in Consoles /\ console.session = s /\ console.cursor = 0 /\ console.entries = {}
  BY <1>1 DEF NewConsole, Consoles
<1>6. Merged({}, Between(log[s], 0, 0)) = {}
  <2>1. Between(log[s], 0, 0) = {}
    BY <1>3 DEF Between
  <2> QED
    BY <2>1 DEF Merged, LastOf
<1>7. 0 <= Len(log[s])
  BY <1>3
<1>8. ConsoleInv
  BY <1>2, <1>5, <1>6, <1>7 DEF ConsoleInv
<1> QED
  BY <1>4, <1>8 DEF ReadersInv

(* FoldLeft of Learned, likewise.                                          *)
Learns(g, w, s, n) ==
  g = [T \in SUBSET (1..n) |-> IF T = {} THEN w ELSE Learned(g[T \ {Max(T)}], s[Max(T)])]

LEMMA LearnsExists ==
  ASSUME NEW w, NEW s, NEW n \in Nat
  PROVE  \E g : Learns(g, w, s, n)
<1> DEFINE Reached == {k \in Nat : \E g : Learns(g, w, s, k)}
<1>1. 0 \in Reached
  <2>1. Learns([T \in SUBSET (1..0) |-> w], w, s, 0)
    BY DEF Learns
  <2> QED
    BY <2>1
<1>2. ASSUME NEW k \in Reached PROVE k + 1 \in Reached
  <2>1. PICK g : Learns(g, w, s, k)
    BY <1>2
  <2> DEFINE h == [T \in SUBSET (1..k+1) |->
                     IF k + 1 \in T THEN Learned(g[T \ {k + 1}], s[k + 1]) ELSE g[T]]
  <2>2. ASSUME NEW T \in SUBSET (1..k+1)
        PROVE  h[T] = IF T = {} THEN w ELSE Learned(h[T \ {Max(T)}], s[Max(T)])
    <3>1. CASE k + 1 \in T
      <4>1. Max(T) = k + 1
        <5>1. /\ Max(T) \in T /\ Max(T) >= k + 1
              /\ T \subseteq 1..(k + 1)
          BY <3>1, \A y \in T : k + 1 >= y DEF Max
        <5>2. Max(T) \in Nat /\ Max(T) <= k + 1
          <6>1. k \in Nat /\ Max(T) \in 1..(k + 1)
            BY <5>1
          <6> QED
            BY <6>1
        <5> QED
          BY <5>1, <5>2
      <4>2. T \ {k + 1} \in SUBSET (1..k+1) /\ k + 1 \notin T \ {k + 1}
        OBVIOUS
      <4>3. h[T \ {k + 1}] = g[T \ {k + 1}] /\ h[T] = Learned(g[T \ {k + 1}], s[k + 1])
        BY <3>1, <4>2
      <4> HIDE DEF h
      <4> QED
        BY <3>1, <4>1, <4>3
    <3>2. CASE k + 1 \notin T
      <4>1. T \in SUBSET (1..k)
        BY <3>2
      <4>2. h[T] = g[T]
        BY <3>2
      <4>3. g[T] = IF T = {} THEN w ELSE Learned(g[T \ {Max(T)}], s[Max(T)])
        BY <2>1, <4>1 DEF Learns
      <4>4. T \ {Max(T)} \in SUBSET (1..k+1) /\ k + 1 \notin T \ {Max(T)}
        BY <3>2
      <4>5. h[T \ {Max(T)}] = g[T \ {Max(T)}]
        BY <4>4
      <4> HIDE DEF h
      <4> QED
        BY <4>2, <4>3, <4>5
    <3> QED
      BY <3>1, <3>2
  <2>3. h = [T \in SUBSET (1..k+1) |-> h[T]]
    OBVIOUS
  <2> HIDE DEF h
  <2>4. h = [T \in SUBSET (1..k+1) |-> IF T = {} THEN w ELSE Learned(h[T \ {Max(T)}], s[Max(T)])]
    BY <2>2, <2>3, Zenon
  <2>5. Learns(h, w, s, k + 1)
    BY <2>4, Zenon DEF Learns
  <2> QED
    BY <2>5
<1>3. Reached = Nat
  <2> HIDE DEF Reached
  <2> QED
    BY <1>1, <1>2, Induction DEF Reached
<1> QED
  BY <1>3

LEMMA LearnsStarts ==
  ASSUME NEW w, NEW s, NEW n \in Nat, NEW g, Learns(g, w, s, n)
  PROVE  g[1..0] = w
<1>1. 1..0 = {} /\ 1..0 \in SUBSET (1..n)
  OBVIOUS
<1> QED
  BY <1>1 DEF Learns

LEMMA LearnsSteps ==
  ASSUME NEW w, NEW s, NEW n \in Nat, NEW g, Learns(g, w, s, n)
  PROVE  \A k \in 0..(n-1) : g[1..(k+1)] = Learned(g[1..k], s[k+1])
<1> TAKE k \in 0..(n-1)
<1>1. 1..(k+1) \in SUBSET (1..n) /\ 1..(k+1) # {} /\ (1..(k+1)) \ {k+1} = 1..k
  OBVIOUS
<1>2. Max(1..(k+1)) = k + 1
  BY DEF Max
<1>3. g[1..(k+1)] = Learned(g[(1..(k+1)) \ {Max(1..(k+1))}], s[Max(1..(k+1))])
  BY <1>1 DEF Learns
<1> QED
  BY <1>1, <1>2, <1>3

LEMMA LearnedIs ==
  ASSUME NEW w, NEW E, NEW s \in Seq(E)
  PROVE  \E g : Learns(g, w, s, Len(s)) /\ FoldLeft(Learned, w, s) = g[1..Len(s)]
<1> DEFINE g == CHOOSE g : Learns(g, w, s, Len(s))
<1>1. DOMAIN s = 1..Len(s) /\ Len(s) \in Nat
  OBVIOUS
<1>2. FoldLeft(Learned, w, s) = g[1..Len(s)]
  BY <1>1, Zenon DEF FoldLeft, MapThenFoldSet, Learns
<1>3. Learns(g, w, s, Len(s))
  BY <1>1, LearnsExists
<1> QED
  BY <1>2, <1>3

LEMMA LearnsAgree ==
  ASSUME NEW w, NEW s, NEW t, NEW n \in Nat, NEW m \in Nat, n <= m,
         NEW g, Learns(g, w, s, n), NEW h, Learns(h, w, t, m),
         \A i \in 1..n : s[i] = t[i]
  PROVE  g[1..n] = h[1..n]
<1>1. g[1..0] = w
  BY LearnsStarts
<1>2. h[1..0] = w
  BY LearnsStarts
<1>3. \A k \in 0..(n-1) : g[1..(k+1)] = Learned(g[1..k], s[k+1])
  BY LearnsSteps
<1>4. \A k \in 0..(m-1) : h[1..(k+1)] = Learned(h[1..k], t[k+1])
  BY LearnsSteps
<1> DEFINE Agreeing == {k \in Nat : k <= n => g[1..k] = h[1..k]}
<1>5. 0 \in Agreeing
  BY <1>1, <1>2
<1>6. ASSUME NEW k \in Agreeing PROVE k + 1 \in Agreeing
  <2>1. SUFFICES ASSUME k + 1 <= n PROVE g[1..(k+1)] = h[1..(k+1)]
    OBVIOUS
  <2>2. g[1..k] = h[1..k] /\ k \in 0..(n-1) /\ k \in 0..(m-1) /\ k + 1 \in 1..n
    BY <2>1
  <2>3. g[1..(k+1)] = Learned(g[1..k], s[k+1])
    BY <1>3, <2>2
  <2>4. h[1..(k+1)] = Learned(h[1..k], t[k+1])
    BY <1>4, <2>2
  <2> QED
    BY <2>2, <2>3, <2>4
<1>7. Agreeing = Nat
  <2> HIDE DEF Agreeing
  <2> QED
    BY <1>5, <1>6, Induction DEF Agreeing
<1> QED
  BY <1>7

LEMMA LearnedStarts ==
  ASSUME NEW w
  PROVE  FoldLeft(Learned, w, <<>>) = w
<1>1. <<>> \in Seq({0}) /\ Len(<<>>) = 0
  OBVIOUS
<1>2. PICK f : Learns(f, w, <<>>, 0) /\ FoldLeft(Learned, w, <<>>) = f[1..0]
  BY <1>1, LearnedIs
<1> QED
  BY <1>2, LearnsStarts

LEMMA LearnedAppends ==
  ASSUME NEW w, NEW E, NEW s \in Seq(E), NEW e \in E
  PROVE  FoldLeft(Learned, w, Append(s, e)) = Learned(FoldLeft(Learned, w, s), e)
<1> DEFINE t == Append(s, e)
           n == Len(s)
<1>1. /\ t \in Seq(E) /\ Len(t) = n + 1 /\ n \in Nat /\ n + 1 \in Nat
      /\ t[n + 1] = e /\ \A i \in 1..n : s[i] = t[i]
  OBVIOUS
<1> HIDE DEF t
<1>2. PICK g : Learns(g, w, s, n) /\ FoldLeft(Learned, w, s) = g[1..n]
  BY LearnedIs
<1>3. PICK h : Learns(h, w, t, n + 1) /\ FoldLeft(Learned, w, t) = h[1..(n + 1)]
  BY <1>1, LearnedIs
<1> HIDE DEF n
<1>4. g[1..n] = h[1..n]
  BY <1>1, <1>2, <1>3, LearnsAgree
<1>5. n \in 0..((n + 1) - 1)
  BY <1>1
<1>6. h[1..(n+1)] = Learned(h[1..n], t[n+1])
  BY <1>1, <1>3, <1>5, LearnsSteps
<1>7. FoldLeft(Learned, w, t) = Learned(FoldLeft(Learned, w, s), e)
  BY <1>1, <1>2, <1>3, <1>4, <1>6
<1> QED
  BY <1>7 DEF t

(* A journal that is classified: the calls it tells of are those made.     *)
Ready(events) == \A i \in DOMAIN events : events[i].indexed \in ToolTypes <=> events[i].type \in ToolTypes

Tools(events) == {j \in DOMAIN events : events[j].type \in ToolTypes}
Made(events) == {<<events[i].attempt, events[i].call>> : i \in Tools(events)}
Completions(events, call) ==
  {i \in DOMAIN events : /\ <<events[i].attempt, events[i].call>> = call
                         /\ events[i].type \in ToolTypes \ {"tool_started"}}
StatusIn(events, call) ==
  IF Completions(events, call) = {} THEN "running"
  ELSE IF events[Max(Completions(events, call))].type = "tool_failed" THEN "failed" ELSE "succeeded"
Known(events) == [call \in Made(events) |-> StatusIn(events, call)]

LEMMA MadeAppends ==
  ASSUME NEW s \in Seq(LogEvents), NEW e \in LogEvents
  PROVE  Made(Append(s, e)) = IF e.type \in ToolTypes THEN Made(s) \cup {CallOf(e)} ELSE Made(s)
<1> DEFINE t == Append(s, e)
           n == Len(s)
<1>1. /\ n \in Nat /\ DOMAIN s = 1..n /\ DOMAIN t = 1..(n+1) /\ t[n+1] = e
      /\ \A i \in 1..n : t[i] = s[i] /\ i \in 1..(n+1)
      /\ \A i \in 1..(n+1) : i \in 1..n \/ i = n + 1
      /\ n + 1 \in 1..(n+1) /\ n + 1 \notin 1..n
  OBVIOUS
<1> HIDE DEF t, n
<1>2. CASE e.type \in ToolTypes
  <2>1. Tools(t) = Tools(s) \cup {n + 1}
    BY <1>1, <1>2 DEF Tools
  <2>2. \A i \in Tools(s) : t[i] = s[i]
    BY <1>1 DEF Tools
  <2>3. Made(t) = Made(s) \cup {CallOf(e)}
    BY <1>1, <2>1, <2>2, Zenon DEF Made, CallOf
  <2> QED
    BY <1>2, <2>3 DEF t
<1>3. CASE e.type \notin ToolTypes
  <2>1. Tools(t) = Tools(s)
    BY <1>1, <1>3 DEF Tools
  <2>2. \A i \in Tools(s) : t[i] = s[i]
    BY <1>1 DEF Tools
  <2>3. Made(t) = Made(s)
    BY <2>1, <2>2, Zenon DEF Made
  <2> QED
    BY <1>3, <2>3 DEF t
<1> QED
  BY <1>2, <1>3

LEMMA StatusAppends ==
  ASSUME NEW s \in Seq(LogEvents), NEW e \in LogEvents, NEW call
  PROVE  StatusIn(Append(s, e), call) =
           IF CallOf(e) = call /\ e.type \in ToolTypes \ {"tool_started"}
             THEN IF e.type = "tool_failed" THEN "failed" ELSE "succeeded"
             ELSE StatusIn(s, call)
<1> DEFINE t == Append(s, e)
           n == Len(s)
           old == Completions(s, call)
           new == Completions(t, call)
<1>1. /\ n \in Nat /\ DOMAIN s = 1..n /\ DOMAIN t = 1..(n+1) /\ t[n+1] = e
      /\ \A i \in 1..n : t[i] = s[i] /\ i \in 1..(n+1)
      /\ \A i \in 1..(n+1) : i \in 1..n \/ i = n + 1
      /\ n + 1 \in 1..(n+1) /\ n + 1 \notin 1..n
  OBVIOUS
<1> HIDE DEF t, n
<1>2. old \in SUBSET (1..n) /\ new \in SUBSET (1..(n+1))
  BY <1>1 DEF Completions
<1>3. CASE CallOf(e) = call /\ e.type \in ToolTypes \ {"tool_started"}
  <2>1. n + 1 \in new
    BY <1>1, <1>3 DEF Completions, CallOf
  <2>2. \A j \in new : n + 1 >= j
    BY <1>1, <1>2
  <2>3. Max(new) \in new /\ \A j \in new : Max(new) >= j
    <3> HIDE DEF new
    <3> QED
      BY <2>1, <2>2 DEF Max
  <2>4. Max(new) = n + 1
    <3>1. Max(new) \in 1..(n+1) /\ Max(new) >= n + 1
      BY <1>2, <2>1, <2>3
    <3> QED
      BY <1>1, <3>1
  <2>5. StatusIn(t, call) = IF e.type = "tool_failed" THEN "failed" ELSE "succeeded"
    BY <1>1, <2>1, <2>4 DEF StatusIn
  <2> QED
    BY <1>3, <2>5 DEF t
<1>4. CASE ~(CallOf(e) = call /\ e.type \in ToolTypes \ {"tool_started"})
  <2>1. new = old
    <3>1. ASSUME NEW i \in new PROVE i \in old
      <4>1. i # n + 1
        BY <1>1, <1>4 DEF Completions, CallOf
      <4>2. i \in 1..n /\ t[i] = s[i]
        BY <1>1, <1>2, <4>1
      <4> QED
        BY <1>1, <4>2 DEF Completions
    <3>2. ASSUME NEW i \in old PROVE i \in new
      BY <1>1 DEF Completions
    <3> QED
      BY <3>1, <3>2
  <2>2. CASE old = {}
    <3>1. StatusIn(t, call) = StatusIn(s, call)
      BY <2>1, <2>2 DEF StatusIn
    <3> QED
      BY <1>4, <3>1 DEF t
  <2>3. CASE old # {}
    <3> HIDE DEF old, new
    <3>1. PICK m \in old : \A j \in old : j <= m
      BY <1>1, <1>2, <2>3, LargestExists
    <3>2. Max(old) \in old
      <4>1. \A j \in old : m >= j
        BY <1>1, <1>2, <3>1
      <4> QED
        BY <3>1, <4>1 DEF Max
    <3>3. t[Max(old)] = s[Max(old)]
      BY <1>1, <1>2, <3>2
    <3>4. StatusIn(t, call) = StatusIn(s, call)
      BY <2>1, <3>3 DEF StatusIn, old, new
    <3> QED
      BY <1>4, <3>4 DEF t
  <2> QED
    BY <2>2, <2>3
<1> QED
  BY <1>3, <1>4

LEMMA LearnedKnows ==
  ASSUME NEW s \in Seq(LogEvents), NEW e \in LogEvents,
         e.indexed \in ToolTypes <=> e.type \in ToolTypes
  PROVE  Learned(Known(s), e) = Known(Append(s, e))
<1> DEFINE longer == Append(s, e)
<1>1. DOMAIN Known(s) = Made(s) /\ \A call \in Made(s) : Known(s)[call] = StatusIn(s, call)
  BY DEF Known
<1>2. Made(longer) = IF e.type \in ToolTypes THEN Made(s) \cup {CallOf(e)} ELSE Made(s)
  BY MadeAppends
<1>3. \A call : StatusIn(longer, call) =
                  IF CallOf(e) = call /\ e.type \in ToolTypes \ {"tool_started"}
                    THEN IF e.type = "tool_failed" THEN "failed" ELSE "succeeded"
                    ELSE StatusIn(s, call)
  BY StatusAppends
<1> HIDE DEF longer
<1>4. CASE e.type \notin ToolTypes
  <2>1. Learned(Known(s), e) = Known(s)
    BY <1>4 DEF Learned
  <2>2. \A call \in Made(s) : StatusIn(longer, call) = StatusIn(s, call)
    BY <1>3, <1>4
  <2>3. Known(longer) = Known(s)
    BY <1>2, <1>4, <2>2, Zenon DEF Known
  <2> QED
    BY <2>1, <2>3 DEF longer
<1>5. CASE e.type \in ToolTypes
  <2> DEFINE c == CallOf(e)
             before == Known(s)
  <2>1. Learned(before, e) =
          [call \in DOMAIN before \cup {c} |-> IF call = c THEN StatusAfter(before, e)
                                               ELSE before[call]]
    BY <1>5 DEF Learned
  <2>2. StatusAfter(before, e) = StatusIn(longer, c)
    <3>1. c \notin Made(s) => StatusIn(s, c) = "running"
      <4>1. Completions(s, c) # {} => c \in Made(s)
        BY DEF Completions, Made, Tools
      <4> QED
        BY <4>1 DEF StatusIn
    <3>2. e.type \in {"tool_started", "tool_succeeded", "tool_failed"}
      BY <1>5 DEF ToolTypes
    <3>3. CASE e.type = "tool_started"
      BY <1>1, <1>3, <3>1, <3>3 DEF StatusAfter
    <3>4. CASE e.type = "tool_succeeded"
      BY <1>3, <3>4 DEF StatusAfter, ToolTypes
    <3>5. CASE e.type = "tool_failed"
      BY <1>3, <3>5 DEF StatusAfter, ToolTypes
    <3> QED
      BY <3>2, <3>3, <3>4, <3>5
  <2>3. Made(longer) = DOMAIN before \cup {c}
    BY <1>1, <1>2, <1>5
  <2>4. ASSUME NEW call \in Made(longer)
        PROVE  StatusIn(longer, call) = IF call = c THEN StatusAfter(before, e) ELSE before[call]
    <3>1. CASE call = c
      BY <2>2, <3>1
    <3>2. CASE call # c
      <4>1. call \in Made(s)
        BY <1>1, <2>3, <3>2
      <4>2. StatusIn(longer, call) = StatusIn(s, call)
        BY <1>3, <3>2
      <4> QED
        BY <1>1, <3>2, <4>1, <4>2
    <3> QED
      BY <3>1, <3>2
  <2> HIDE DEF c, before
  <2>5. Known(longer) = Learned(before, e)
    BY <2>1, <2>3, <2>4, Zenon DEF Known
  <2> QED
    BY <2>5 DEF longer, before
<1> QED
  BY <1>4, <1>5

LEMMA ToolsAppend ==
  ASSUME NEW s \in Seq(LogEvents), NEW e \in LogEvents
  PROVE  FoldLeft(Learned, NoCalls, Append(s, e)) = Learned(FoldLeft(Learned, NoCalls, s), e)
BY LearnedAppends

LEMMA ToolsAreKnown ==
  ASSUME NEW events \in Seq(LogEvents), Ready(events)
  PROVE  FoldLeft(Learned, NoCalls, events) = Known(events)
<1> DEFINE Learning == {n \in Nat : \A es \in Seq(LogEvents) : Len(es) = n /\ Ready(es) =>
                                      FoldLeft(Learned, NoCalls, es) = Known(es)}
<1>1. 0 \in Learning
  <2>1. ASSUME NEW es \in Seq(LogEvents), Len(es) = 0
        PROVE  FoldLeft(Learned, NoCalls, es) = Known(es)
    <3>1. es = <<>> /\ DOMAIN es = {}
      BY <2>1
    <3>2. FoldLeft(Learned, NoCalls, <<>>) = NoCalls
      BY LearnedStarts
    <3>3. Made(es) = {}
      BY <3>1 DEF Made, Tools
    <3>4. Known(es) = [call \in {} |-> "running"]
      <4>1. Known(es) = [call \in {} |-> StatusIn(es, call)]
        BY <3>3 DEF Known
      <4> QED
        BY <4>1, Zenon
    <3> QED
      BY <3>1, <3>2, <3>4 DEF NoCalls
  <2> QED
    BY <2>1
<1>2. ASSUME NEW n \in Learning PROVE n + 1 \in Learning
  <2>1. ASSUME NEW es \in Seq(LogEvents), Len(es) = n + 1, Ready(es)
        PROVE  FoldLeft(Learned, NoCalls, es) = Known(es)
    <3> DEFINE front == SubSeq(es, 1, n)
               last == es[n + 1]
    <3>1. /\ front \in Seq(LogEvents) /\ last \in LogEvents /\ Len(front) = n
          /\ es = Append(front, last)
          /\ \A i \in DOMAIN front : i \in DOMAIN es /\ front[i] = es[i]
          /\ n + 1 \in DOMAIN es
      BY <2>1
    <3>2. Ready(front)
      BY <2>1, <3>1 DEF Ready
    <3>3. last.indexed \in ToolTypes <=> last.type \in ToolTypes
      BY <2>1, <3>1 DEF Ready
    <3> HIDE DEF front, last
    <3>4. FoldLeft(Learned, NoCalls, front) = Known(front)
      BY <3>1, <3>2
    <3>5. FoldLeft(Learned, NoCalls, Append(front, last))
            = Learned(FoldLeft(Learned, NoCalls, front), last)
      BY <3>1, ToolsAppend
    <3>6. Learned(Known(front), last) = Known(Append(front, last))
      BY <3>1, <3>3, LearnedKnows
    <3> QED
      BY <3>1, <3>4, <3>5, <3>6
  <2> QED
    BY <2>1
<1>3. Learning = Nat
  <2> HIDE DEF Learning
  <2> QED
    BY <1>1, <1>2, Induction DEF Learning
<1> QED
  <2>1. Len(events) \in Nat
    OBVIOUS
  <2> QED
    BY <1>3, <2>1

(* A trace with two stages for each attempt has both of every attempt: no  *)
(* attempt has one of them twice.                                          *)
LEMMA CompleteTraces ==
  ASSUME JournalInv, migrated, NEW s \in TraceSessions, Coverage(s) = "complete"
  PROVE  \A a \in 1..AttemptOf(s) : HasBothStages(s, a)
<1> DEFINE n == Len(log[s])
           A == AttemptOf(s)
           D == {i \in DOMAIN log[s] : log[s][i].indexed \in Stages}
           All == (1..A) \X Stages
           Seen == {p \in All : \E i \in D : <<log[s][i].attempt, log[s][i].type>> = p}
           f == [i \in D |-> <<log[s][i].attempt, log[s][i].type>>]
<1>1. log[s] \in Seq(LogEvents) /\ n \in Nat /\ DOMAIN log[s] = 1..n /\ A \in Nat
  BY AttemptsAreCounted DEF JournalInv
<1>2. \A i \in DOMAIN log[s] : log[s][i].indexed \in Stages <=> log[s][i].type \in Stages
  BY DEF JournalInv, Stages, Traced, Unindexed
<1>3. \A i \in D : /\ log[s][i].attempt \in 1..A /\ log[s][i].type \in Stages
                   /\ i \in DOMAIN log[s]
  BY <1>2 DEF JournalInv
<1>4. f \in Injection(D, Seen)
  <2>1. \A i \in D : <<log[s][i].attempt, log[s][i].type>> \in Seen
    BY <1>3
  <2>2. f \in [D -> Seen]
    BY <2>1
  <2>3. ASSUME NEW i \in D, NEW j \in D, f[i] = f[j] PROVE i = j
    <3>1. log[s][i].attempt = log[s][j].attempt /\ log[s][i].type = log[s][j].type
      BY <2>3
    <3> QED
      BY <1>3, <3>1 DEF JournalInv
  <2> HIDE DEF f, D, Seen
  <2> QED
    BY <2>2, <2>3 DEF Injection, IsInjective
<1>5. IsFiniteSet(All) /\ Cardinality(All) = 2 * A
  <2>1. IsFiniteSet(1..A) /\ Cardinality(1..A) = A
    <3>1. 1 \in Int /\ A \in Int
      BY <1>1
    <3>2. IsFiniteSet(1..A) /\ Cardinality(1..A) = IF 1 > A THEN 0 ELSE A - 1 + 1
      BY <3>1, FS_Interval
    <3> QED
      BY <1>1, <3>2
  <2>2. IsFiniteSet(Stages) /\ Cardinality(Stages) = 2
    <3> DEFINE first == "runtime_preparation"
               second == "agent_runtime_request"
    <3>1. Stages = {first} \cup {second} /\ second \notin {first}
      BY DEF Stages
    <3>2. IsFiniteSet({first}) /\ Cardinality({first}) = 1
      BY FS_Singleton
    <3>3. IsFiniteSet({first} \cup {second})
          /\ Cardinality({first} \cup {second}) = Cardinality({first}) + 1
      <4> HIDE DEF first, second
      <4> QED
        BY <3>1, <3>2, FS_AddElement
    <3> QED
      BY <3>1, <3>2, <3>3
  <2> HIDE DEF A
  <2>3. IsFiniteSet(All) /\ Cardinality(All) = Cardinality(1..A) * Cardinality(Stages)
    BY <2>1, <2>2, FS_Product
  <2> QED
    BY <1>1, <2>1, <2>2, <2>3
<1>6. Seen \in SUBSET All
  OBVIOUS
<1>7. /\ IsFiniteSet(Seen) /\ Cardinality(Seen) <= 2 * A
      /\ Cardinality(Seen) = 2 * A => Seen = All
  <2> HIDE DEF Seen, All
  <2> QED
    BY <1>5, <1>6, FS_Subset
<1>8. /\ Cardinality(D) \in Nat /\ Cardinality(Seen) \in Nat
      /\ Cardinality(D) <= Cardinality(Seen)
  <2> HIDE DEF Seen, D, f
  <2>1. IsFiniteSet(D) /\ Cardinality(D) <= Cardinality(Seen)
    BY <1>4, <1>7, FS_Injection
  <2> QED
    BY <1>7, <2>1, FS_CardinalityType
<1>9. A > 0 => ~(Cardinality(D) < 2 * A)
  BY DEF Coverage, StageCount
<1>10. ASSUME A > 0 PROVE Seen = All
  <2> HIDE DEF Seen, D, A, All
  <2> QED
    BY <1>1, <1>7, <1>8, <1>9, <1>10
<1>11. ASSUME NEW a \in 1..A, NEW stage \in Stages
       PROVE  \E i \in DOMAIN log[s] : log[s][i].attempt = a /\ log[s][i].type = stage
  <2>1. A > 0
    BY <1>1
  <2>2. <<a, stage>> \in Seen
    <3>1. <<a, stage>> \in All
      OBVIOUS
    <3> HIDE DEF Seen, All
    <3> QED
      BY <1>10, <2>1, <3>1
  <2>3. PICK i \in D : <<log[s][i].attempt, log[s][i].type>> = <<a, stage>>
    BY <2>2
  <2> QED
    BY <2>3
<1> QED
  BY <1>11 DEF HasBothStages

(* Whatever wrote a journal, before, during or after the migration, and    *)
(* however it grew or the console changed its session between two pages:   *)
(* the console shows the latest traced events of its session, a trace said *)
(* to be complete has both stages of every attempt, and each call has the  *)
(* status its own last completion gave it.                                 *)
THEOREM ReadersSeeJournals == ReadersSpec => []ReadersSeeTheJournal
<1>1. ReadersInit => ReadersInv
  BY ReadersStart
<1>2. ReadersInv /\ [ReadersNext]_readersVars => ReadersInv'
  BY ReadersInvStep
<1>3. ASSUME ReadersInv PROVE ReadersSeeTheJournal
  <2>1. JournalInv /\ ConsoleInv
    BY <1>3 DEF ReadersInv
  <2>2. console.entries = Merged({}, TracedUpTo(console.session, console.cursor))
    <3>1. console.session \in TraceSessions
      BY <2>1 DEF ConsoleInv, Consoles
    <3>2. DOMAIN log[console.session] = 1..Len(log[console.session])
      BY <2>1, <3>1 DEF JournalInv
    <3>3. \A i \in DOMAIN log[console.session] : i > 0
      BY <2>1, <3>1, <3>2 DEF JournalInv
    <3>4. Between(log[console.session], 0, console.cursor)
            = TracedUpTo(console.session, console.cursor)
      BY <3>3 DEF Between, TracedUpTo
    <3> QED
      BY <2>1, <3>4 DEF ConsoleInv
  <2>3. ASSUME NEW s \in TraceSessions, migrated, Coverage(s) = "complete"
        PROVE  \A a \in 1..AttemptOf(s) : HasBothStages(s, a)
    BY <2>1, <2>3, CompleteTraces
  <2>4. ASSUME NEW s \in TraceSessions, migrated
        PROVE  ToolState(s) = [call \in CallsMade(s) |-> StatusOf(s, call)]
    <3>1. log[s] \in Seq(LogEvents)
      BY <2>1 DEF JournalInv
    <3>2. Ready(log[s])
      BY <2>1, <2>4 DEF JournalInv, Ready, ToolTypes, Traced, Unindexed
    <3>3. ToolState(s) = Known(log[s])
      BY <3>1, <3>2, ToolsAreKnown DEF ToolState
    <3>4. CallsMade(s) = Made(log[s])
      BY DEF CallsMade, Made, Tools
    <3>5. \A call : StatusOf(s, call) = StatusIn(log[s], call)
      BY DEF StatusOf, StatusIn, Completions
    <3> QED
      BY <3>3, <3>4, <3>5, Zenon DEF Known
  <2> QED
    BY <2>2, <2>3, <2>4 DEF ReadersSeeTheJournal
<1> QED
  BY <1>1, <1>2, <1>3, PTL DEF ReadersSpec
=============================================================================
