----------------------------- MODULE DirectRuns -----------------------------
(***************************************************************************)
(* Runs outside the execution engine: agent runs on a model API, edits and *)
(* chats, which the renderer starts and awaits one by one.  Two registries *)
(* of one process know them, AiRunRegistry (infrastructure/ai_run.rs) and, *)
(* for agent runs, AgentRunRegistry (infrastructure/ai_worker.rs), each    *)
(* under a lock of its own; the commands of lib.rs call first the one and  *)
(* then the other, while calls of other runs come in between.              *)
(*                                                                         *)
(* Plain commands run on the main thread, one at a time; executions run on *)
(* a pool.  The renderer awaits reserve, then grant, then execute, and may *)
(* cancel at any time.  Run ids are used once.                             *)
(***************************************************************************)
EXTENDS Naturals, FiniteSets

CONSTANTS
  AgentIds,       (* runs of kind Agent                                    *)
  EditIds,        (* runs of kind Edit, limited by ACTIVE_CHAT_RUNS        *)
  ChatIds,        (* runs of kind Chat, isolated and not limited           *)
  Folders,        (* canonical working directories                         *)
  NoFolder,       (* scope of a run that is not of the opencode runtime    *)
  AgentLimit,     (* MAX_CONCURRENT_AGENT_RUNS                             *)
  PromptLimit     (* MAX_CONCURRENT_CHAT_RUNS                              *)

(* A run has one id and one kind (AiRunRegistry::begin refuses an id it    *)
(* knows).                                                                 *)
ASSUME DirectAssumption ==
  /\ AgentLimit \in Nat /\ PromptLimit \in Nat /\ NoFolder \notin Folders
  /\ AgentIds \cap (EditIds \cup ChatIds) = {}

VARIABLES
  airun,      (* status and cancellation token of each run                 *)
  entry,      (* AgentRunEntry: none, reserved or started, and its scope   *)
  call,       (* where the command that executes the run is                *)
  verdict,    (* the status the execution reports                          *)
  chatting,   (* ACTIVE_CHAT_RUNS                                          *)
  main        (* a cancellation between its two registries, or none        *)

directVars == <<airun, entry, call, verdict, chatting, main>>

DirectIds == AgentIds \cup EditIds \cup ChatIds
EndedRun == {"completed", "blocked", "failed", "cancelled"}

NoEntry == [state |-> "none", folder |-> NoFolder]

DirectInit ==
  /\ airun = [r \in DirectIds |-> [status |-> "absent", token |-> FALSE]]
  /\ entry = [r \in AgentIds |-> NoEntry]
  /\ call = [r \in DirectIds |-> "none"]
  /\ verdict = [r \in DirectIds |-> "none"]
  /\ chatting = 0
  /\ main = {}

(* AiRunRegistry                                                           *)
Status(r, s) == airun' = [airun EXCEPT ![r].status = s]
EndRun(r, s) ==
  airun' = [airun EXCEPT ![r].status = IF @ \in EndedRun THEN @ ELSE s]
CancelRun(r) ==
  airun' = [airun EXCEPT ![r] =
    IF @.status \in EndedRun \cup {"absent"} THEN @
    ELSE [status |-> "cancelling", token |-> TRUE]]

(* AgentRunRegistry: remove_run gives the folder back with the entry.      *)
Entries == {r \in AgentIds : entry[r] # NoEntry}
RemoveRun(r) == entry' = [entry EXCEPT ![r] = NoEntry]
Reservable(f) ==
  /\ Cardinality(Entries) < AgentLimit
  /\ f # NoFolder => \A q \in Entries : entry[q].folder # f

-----------------------------------------------------------------------------
(* Commands of the main thread *)

(* reserve_ai_worker_run: begin, and finish again if reserve refuses.      *)
ReserveRun(r, f) ==
  /\ main = {}
  /\ airun[r].status = "absent"
  /\ \/ /\ Reservable(f)
        /\ Status(r, "queued")
        /\ entry' = [entry EXCEPT ![r] = [state |-> "reserved", folder |-> f]]
     \/ /\ ~Reservable(f)
        /\ Status(r, "failed")
        /\ UNCHANGED entry
  /\ UNCHANGED <<call, verdict, chatting, main>>

(* Mutant of ReleaseRun: an entry that was started is released, too.       *)
ReleaseStarted(r) ==
  /\ main = {}
  /\ entry[r] # NoEntry
  /\ RemoveRun(r)
  /\ EndRun(r, "cancelled")
  /\ UNCHANGED <<call, verdict, chatting, main>>

(* release_ai_worker_run, whenever it is called.                           *)
ReleaseRun(r) ==
  /\ main = {}
  /\ entry[r].state = "reserved"
  /\ RemoveRun(r)
  /\ EndRun(r, "cancelled")
  /\ UNCHANGED <<call, verdict, chatting, main>>

BeginRun(r) ==
  /\ main = {}
  /\ airun[r].status = "absent"
  /\ Status(r, "queued")
  /\ UNCHANGED <<entry, call, verdict, chatting, main>>

(* cancel_ai_worker_task: the entry is looked up in one registry, then the *)
(* run is cancelled in the other.                                          *)
CancelTask(r) ==
  /\ main = {}
  /\ entry[r] # NoEntry
  /\ main' = {r}
  /\ UNCHANGED <<airun, entry, call, verdict, chatting>>

CancelFound(r) ==
  /\ main = {r}
  /\ CancelRun(r)
  /\ main' = {}
  /\ UNCHANGED <<entry, call, verdict, chatting>>

CancelAiRun(r) ==
  /\ main = {}
  /\ airun[r].status \notin EndedRun \cup {"absent"}
  /\ CancelRun(r)
  /\ UNCHANGED <<entry, call, verdict, chatting, main>>

-----------------------------------------------------------------------------
(* execute_ai_worker_task *)

At(r, place) == call[r] = place
Move(r, place) == call' = [call EXCEPT ![r] = place]

(* The call up to its first registry: the contract, governance, connectors *)
(* and grants are checked; a failure ends the call, not the reservation.   *)
ExecuteTask(r) ==
  /\ At(r, "none")
  /\ entry[r].state = "reserved"
  /\ \/ Move(r, "reserved") \/ Move(r, "ended")
  /\ UNCHANGED <<airun, entry, verdict, chatting, main>>

StartEntry(r) ==
  /\ At(r, "reserved")
  /\ \/ /\ entry[r].state = "reserved"
        /\ entry' = [entry EXCEPT ![r].state = "started"]
        /\ Move(r, "started")
     \/ /\ entry[r].state # "reserved"
        /\ Move(r, "ended")
        /\ UNCHANGED entry
  /\ UNCHANGED <<airun, verdict, chatting, main>>

(* A run that was cancelled before cannot start: its entry is removed and  *)
(* its status stays.                                                       *)
StartAgent(r) ==
  /\ At(r, "started")
  /\ \/ /\ airun[r].status = "queued"
        /\ Status(r, "running")
        /\ Move(r, "claiming")
        /\ UNCHANGED entry
     \/ /\ airun[r].status # "queued"
        /\ RemoveRun(r)
        /\ Move(r, "ended")
        /\ UNCHANGED airun
  /\ UNCHANGED <<verdict, chatting, main>>

(* The step is claimed in the execution store, or it is not.               *)
ClaimForRun(r) ==
  /\ At(r, "claiming")
  /\ \/ Move(r, "working") /\ UNCHANGED <<entry, verdict>>
     \/ /\ RemoveRun(r)
        /\ Move(r, "closing")
        /\ verdict' = [verdict EXCEPT ![r] = "failed"]
  /\ UNCHANGED <<airun, chatting, main>>

(* The worker ends; only a token that is set makes it report cancelled.    *)
WorkAgent(r) ==
  /\ At(r, "working")
  /\ \E v \in {"completed", "blocked", "failed"}
              \cup (IF airun[r].token THEN {"cancelled"} ELSE {}) :
       verdict' = [verdict EXCEPT ![r] = v]
  /\ Move(r, "worked")
  /\ UNCHANGED <<airun, entry, chatting, main>>

(* finish_step may fail, and the entry goes either way.                    *)
FinishAgent(r) ==
  /\ At(r, "worked")
  /\ RemoveRun(r)
  /\ Move(r, "closing")
  /\ \/ UNCHANGED verdict
     \/ verdict' = [verdict EXCEPT ![r] = "failed"]
  /\ UNCHANGED <<airun, chatting, main>>

CloseRun(r) ==
  /\ At(r, "closing")
  /\ EndRun(r, verdict[r])
  /\ Move(r, "ended")
  /\ verdict' = [verdict EXCEPT ![r] = "none"]
  /\ UNCHANGED <<entry, chatting, main>>

-----------------------------------------------------------------------------
(* propose_ai_edit and chat_ai_worker *)

StartPrompt(r) ==
  /\ At(r, "none")
  /\ airun[r].status # "absent"
  /\ \/ /\ airun[r].status = "queued"
        /\ Status(r, "running")
        /\ Move(r, IF r \in EditIds THEN "entering" ELSE "working")
     \/ /\ airun[r].status # "queued"
        /\ Move(r, "ended")
        /\ UNCHANGED airun
  /\ UNCHANGED <<entry, verdict, chatting, main>>

(* acquire_chat_run counts first and looks at what it found then.          *)
EnterEdit(r) ==
  /\ At(r, "entering")
  /\ chatting' = chatting + 1
  /\ Move(r, IF chatting < PromptLimit THEN "working" ELSE "refused")
  /\ UNCHANGED <<airun, entry, verdict, main>>

RefuseEdit(r) ==
  /\ At(r, "refused")
  /\ chatting' = chatting - 1
  /\ verdict' = [verdict EXCEPT ![r] = "failed"]
  /\ Move(r, "closing")
  /\ UNCHANGED <<airun, entry, main>>

(* The provider answers or not; ChatRunGuard is dropped; the answer of a   *)
(* chat is stored, unless its conversation moved on.                       *)
WorkPrompt(r) ==
  /\ At(r, "working")
  /\ \E v \in {"completed", "failed"} \cup (IF airun[r].token THEN {"cancelled"} ELSE {}) :
       /\ verdict' = [verdict EXCEPT ![r] = v]
       /\ Move(r, IF v = "completed" THEN "answered" ELSE "closing")
  /\ chatting' = IF r \in EditIds THEN chatting - 1 ELSE chatting
  /\ UNCHANGED <<airun, entry, main>>

(* An answer to a run that is being cancelled is thrown away.              *)
AnswerPrompt(r) ==
  /\ At(r, "answered")
  /\ verdict' = [verdict EXCEPT ![r] =
       IF airun[r].status = "cancelling" THEN "cancelled" ELSE "completed"]
  /\ Move(r, "closing")
  /\ UNCHANGED <<airun, entry, chatting, main>>

AgentRunNext ==
  \E r \in AgentIds :
    \/ \E f \in Folders \cup {NoFolder} : ReserveRun(r, f)
    \/ ReleaseRun(r) \/ CancelTask(r) \/ CancelFound(r)
    \/ ExecuteTask(r) \/ StartEntry(r) \/ StartAgent(r) \/ ClaimForRun(r)
    \/ WorkAgent(r) \/ FinishAgent(r) \/ CloseRun(r)

PromptRunNext ==
  \E r \in EditIds \cup ChatIds :
    \/ BeginRun(r) \/ CancelAiRun(r)
    \/ StartPrompt(r) \/ EnterEdit(r) \/ RefuseEdit(r)
    \/ WorkPrompt(r) \/ AnswerPrompt(r) \/ CloseRun(r)

DirectSpec == DirectInit /\ [][AgentRunNext \/ PromptRunNext]_directVars

-----------------------------------------------------------------------------
AgentWorking(r) == call[r] \in {"started", "claiming", "working", "worked"}
EditWorking(r) == call[r] = "working"

(* Whatever is reserved, released and cancelled meanwhile: no two agent    *)
(* runs work in one folder, no more work than the limits say, what works   *)
(* has its entry, and a run that lost its entry and its call is neither    *)
(* queued nor running.  (It may be cancelling for ever: a run cancelled    *)
(* between its reservation and its start is never finished, lib.rs:661.)   *)
RegistriesAgree ==
  /\ \A r \in AgentIds : AgentWorking(r) =>
       /\ entry[r].state = "started"
       /\ \A q \in AgentIds \ {r} :
            AgentWorking(q) => entry[q].folder # entry[r].folder \/ entry[r].folder = NoFolder
  /\ Cardinality({r \in AgentIds : AgentWorking(r)}) <= AgentLimit
  /\ Cardinality({r \in EditIds : EditWorking(r)}) <= PromptLimit
  /\ \A r \in AgentIds :
       entry[r] = NoEntry /\ call[r] \in {"none", "ended"} =>
         airun[r].status \notin {"queued", "running"}
=============================================================================
