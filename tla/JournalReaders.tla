--------------------------- MODULE JournalReaders ---------------------------
(***************************************************************************)
(* What is read back from the journals of Task Sessions: the execution     *)
(* trace, which the Agent console loads page by page while the session     *)
(* shown may change, its coverage, and the state of the tools' calls.      *)
(*                                                                         *)
(* Both select events by an indexed type that processes of an earlier      *)
(* version do not write.  Opening the store with this version classifies   *)
(* the events it finds and installs the trigger that classifies those such *)
(* a process still appends.                                                *)
(***************************************************************************)
EXTENDS Naturals, SequencesExt

CONSTANTS
  TraceSessions,
  ToolIds,        (* identifiers of tool calls, used again by every attempt *)
  JournalLimit,   (* bound: the events of each session                     *)
  TraceLimit,     (* the limit of a page of the trace                      *)
  ShownLimit,     (* the entries the console keeps                         *)
  MaxShows        (* bound: the times the console shows another session    *)

ASSUME ReadersAssumption ==
  /\ JournalLimit \in [TraceSessions -> Nat]
  /\ TraceLimit \in Nat \ {0} /\ ShownLimit \in Nat \ {0}
  /\ MaxShows \in Nat

VARIABLES
  migrated,       (* has this version opened the store?                    *)
  log,            (* the events of each session, in order                  *)
  console,        (* what the Agent console shows                          *)
  pages           (* the pages on their way to the console                 *)

readersVars == <<migrated, log, console, pages>>

Unindexed == "null"
Stages == {"runtime_preparation", "agent_runtime_request"}
ToolTypes == {"tool_started", "tool_succeeded", "tool_failed"}

(* The types a trace shows: tool_completed is one of them.                 *)
Traced == {"lifecycle"} \cup Stages \cup ToolTypes

(* The kinds that a journal of this version never leaves without a type.   *)
AlwaysTyped == {"lifecycle"} \cup ToolTypes

AttemptOf(s) ==
  Cardinality({i \in DOMAIN log[s] : log[s][i].type = "lifecycle"})

NewConsole(s) ==
  [session |-> s, generation |-> 0, entries |-> {}, cursor |-> 0, more |-> FALSE,
   state |-> "idle"]

ReadersInit ==
  /\ migrated = FALSE
  /\ log = [s \in TraceSessions |-> <<>>]
  /\ \E s \in TraceSessions : console = NewConsole(s)
  /\ pages = {}

-----------------------------------------------------------------------------
(* The journal *)

(* What the trigger and the migration make of an event without a type.     *)
Classified(event) ==
  IF event.indexed = Unindexed /\ event.type \in Traced
    THEN [event EXCEPT !.indexed = event.type] ELSE event

(* An event of this version, or of an earlier one, whose insert runs the   *)
(* trigger once there is one.                                              *)
Inserted(type, attempt, call) ==
  {event \in {[type |-> type, attempt |-> attempt, call |-> call, indexed |-> type]} : migrated}
  \cup LET old == [type |-> type, attempt |-> attempt, call |-> call, indexed |-> Unindexed]
       IN {IF migrated THEN Classified(old) ELSE old}

InsertEvent(s, type, attempt, call) ==
  /\ Len(log[s]) < JournalLimit[s]
  /\ \E event \in Inserted(type, attempt, call) : log' = [log EXCEPT ![s] = Append(@, event)]
  /\ UNCHANGED <<migrated, console, pages>>

(* The lifecycle event of an attempt that begins.                          *)
ClaimAttempt(s) == InsertEvent(s, "lifecycle", AttemptOf(s) + 1, "none")

EmittedStages(s) ==
  {log[s][i].type : i \in {j \in DOMAIN log[s] : log[s][j].attempt = AttemptOf(s)}} \cap Stages

(* An executor tells of its two stages in their order; an event that       *)
(* cannot be appended is dropped and the execution goes on.                *)
EmitStage(s, stage) ==
  /\ AttemptOf(s) > 0 /\ stage \notin EmittedStages(s)
  /\ "agent_runtime_request" \notin EmittedStages(s)
  /\ InsertEvent(s, stage, AttemptOf(s), "none")

EmitTool(s, type, call) ==
  AttemptOf(s) > 0 /\ InsertEvent(s, type, AttemptOf(s), call)

(* Text and activity are replayed but not traced.                          *)
EmitText(s) == AttemptOf(s) > 0 /\ InsertEvent(s, "text", AttemptOf(s), "none")

(* The migration is one transaction.  Every event without a type is        *)
(* classified once: a store opened again only finds those of the trigger.  *)
OpenStore ==
  /\ ~migrated
  /\ migrated' = TRUE
  /\ log' = [s \in TraceSessions |-> [i \in DOMAIN log[s] |-> Classified(log[s][i])]]
  /\ UNCHANGED <<console, pages>>

-----------------------------------------------------------------------------
(* What is read back.  An event is known by its number in the journal,     *)
(* which orders a page and what the console keeps.                         *)

After(s, cursor, types) ==
  {i \in DOMAIN log[s] : i > cursor /\ log[s][i].indexed \in types}

FirstOf(limit, events) == {i \in events : Cardinality({j \in events : j <= i}) <= limit}
LastOf(limit, events) == {i \in events : Cardinality({j \in events : j >= i}) <= limit}

(* A page that is not the last ends at its last entry; the last one ends   *)
(* at the end of the journal.                                              *)
Page(s, cursor) ==
  LET found == After(s, cursor, Traced)
      more == Cardinality(found) > TraceLimit
      entries == FirstOf(TraceLimit, found)
  IN [entries |-> entries, more |-> more,
      next |-> IF more THEN Max(entries) ELSE Max({Len(log[s]), cursor})]

StageCount(s) == Cardinality({i \in DOMAIN log[s] : log[s][i].indexed \in Stages})

Coverage(s) ==
  IF \/ \E i \in DOMAIN log[s] :
          log[s][i].indexed = Unindexed /\ log[s][i].type \in AlwaysTyped
     \/ AttemptOf(s) > 0 /\ StageCount(s) < 2 * AttemptOf(s)
    THEN "partial" ELSE "complete"

(* Calls are told apart by their attempt too.                              *)
CallOf(event) == <<event.attempt, event.call>>

StatusAfter(known, event) ==
  CASE event.type = "tool_succeeded" -> "succeeded"
    [] event.type = "tool_failed" -> "failed"
    [] OTHER -> IF CallOf(event) \in DOMAIN known THEN known[CallOf(event)] ELSE "running"

(* TaskToolState::from_events: the calls and their latest status, from the *)
(* events that tool_state selects.                                         *)
NoCalls == [call \in {} |-> "running"]

Learned(known, event) ==
  IF event.indexed \in ToolTypes
    THEN [call \in DOMAIN known \cup {CallOf(event)} |->
            IF call = CallOf(event) THEN StatusAfter(known, event) ELSE known[call]]
    ELSE known

ToolState(s) == FoldLeft(Learned, NoCalls, log[s])

-----------------------------------------------------------------------------
(* The Agent console.  A page is read by the time it is asked for or later,*)
(* with nothing the page depends on changed but the journal, so that       *)
(* reading it with the request loses no behaviour.  It arrives later.      *)

AskPage(cursor, replace) ==
  /\ migrated /\ console.state # "loading"
  /\ console' = [console EXCEPT !.state = "loading"]
  /\ pages' = pages \cup
       {[generation |-> console.generation, session |-> console.session, from |-> cursor,
         replace |-> replace, page |-> Page(console.session, cursor)]}
  /\ UNCHANGED <<migrated, log>>

OpenTrace == console.state = "idle" /\ AskPage(0, TRUE)
LoadMore == console.state = "ready" /\ console.more /\ AskPage(console.cursor, FALSE)

(* Another session is shown: what was shown is forgotten, and so is a read *)
(* under way, even though a second one may be under way beside it.         *)
ShowSession(s) ==
  /\ s # console.session /\ console.generation < MaxShows
  /\ console' = [NewConsole(s) EXCEPT !.generation = console.generation + 1]
  /\ UNCHANGED <<migrated, log, pages>>

IsOfItsSession(read) == read.session = console.session

IsShown(read) == read.generation = console.generation /\ read.session = console.session

(* The latest ShownLimit of the entries.                                   *)
Merged(shown, entries) == LastOf(ShownLimit, shown \cup entries)

ReceivePage(read) ==
  /\ pages' = pages \ {read}
  /\ console' =
       IF ~IsShown(read) THEN console
       ELSE [console EXCEPT
               !.entries = Merged(IF read.replace THEN {} ELSE @, read.page.entries),
               !.cursor = Max({read.from, read.page.next}),
               !.more = read.page.more,
               !.state = "ready"]
  /\ UNCHANGED <<migrated, log>>

FailPage(read) ==
  /\ pages' = pages \ {read}
  /\ console' = IF IsShown(read) THEN [console EXCEPT !.state = "error"] ELSE console
  /\ UNCHANGED <<migrated, log>>

-----------------------------------------------------------------------------
ReadersNext ==
  \/ OpenStore \/ OpenTrace \/ LoadMore
  \/ \E s \in TraceSessions :
       \/ ClaimAttempt(s) \/ EmitText(s) \/ ShowSession(s)
       \/ \E stage \in Stages : EmitStage(s, stage)
       \/ \E type \in ToolTypes, call \in ToolIds : EmitTool(s, type, call)
  \/ \E read \in pages : ReceivePage(read) \/ FailPage(read)

ReadersSpec == ReadersInit /\ [][ReadersNext]_readersVars

-----------------------------------------------------------------------------
(* Properties *)

(* The events a trace is about, whoever wrote them.                        *)
TracedUpTo(s, cursor) == {i \in DOMAIN log[s] : i <= cursor /\ log[s][i].type \in Traced}

HasBothStages(s, a) ==
  \A stage \in Stages : \E i \in DOMAIN log[s] : log[s][i].attempt = a /\ log[s][i].type = stage

CallsMade(s) == {<<log[s][i].attempt, log[s][i].call>> :
                   i \in {j \in DOMAIN log[s] : log[s][j].type \in ToolTypes}}

(* The status its last completion gave a call of an attempt.               *)
StatusOf(s, call) ==
  LET ends == {i \in DOMAIN log[s] : /\ <<log[s][i].attempt, log[s][i].call>> = call
                                     /\ log[s][i].type \in ToolTypes \ {"tool_started"}}
  IN IF ends = {} THEN "running"
     ELSE IF log[s][Max(ends)].type = "tool_failed" THEN "failed" ELSE "succeeded"

(* Whatever wrote the journal, before, during or after the migration, and  *)
(* however it grew or the console changed its session between two pages:   *)
(* the console shows the latest traced events of its session up to its     *)
(* cursor, and none left out; a trace said to be complete has both stages  *)
(* of every attempt; and each call of each attempt has the status its own  *)
(* last completion gave it.                                                *)
ReadersSeeTheJournal ==
  /\ console.entries = Merged({}, TracedUpTo(console.session, console.cursor))
  /\ \A s \in TraceSessions :
       migrated =>
         /\ Coverage(s) = "complete" => \A a \in 1..AttemptOf(s) : HasBothStages(s, a)
         /\ ToolState(s) = [call \in CallsMade(s) |-> StatusOf(s, call)]
=============================================================================
