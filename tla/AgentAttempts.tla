---------------------------- MODULE AgentAttempts ----------------------------
(***************************************************************************)
(* The attempts of one agent Task Session (application/agent_task_executor): *)
(* what an executor resolves and binds before it starts the runtime, and   *)
(* what the tool servers of the runtime may still do when the assignment   *)
(* has ended.  An executor, its runtime and the tool servers of the        *)
(* runtime are threads and processes that learn of the end of the          *)
(* assignment only by asking: several attempts may be alive at once.       *)
(*                                                                         *)
(* The Scheduler store is reduced to which attempt is active: an attempt   *)
(* ends by its result, by a cancellation or with its lease, and the        *)
(* session is claimed again after a recovery or a resume.                  *)
(***************************************************************************)
EXTENDS Integers, FiniteSets

CONSTANTS
  MaxAttempt,     (* bound: attempts of the session                        *)
  MaxCalls        (* bound: calls in the pipe to a connector               *)

ASSUME AttemptsAssumption == MaxAttempt \in Nat \ {0} /\ MaxCalls \in Nat

AttemptNumbers == 1..MaxAttempt
Servers == {"workspace", "connector"}

VARIABLES
  active,         (* the active attempt, 0 for none, and whether it is running *)
  executor,       (* where the executor of an attempt is                   *)
  runtime,        (* the OpenCode process of an attempt                    *)
  governance,     (* the attempt that bound the Rules and Skills, or 0     *)
  manifests,      (* attempts with an Execution Manifest                   *)
  conversation,   (* the attempt whose OpenCode session is bound, or 0     *)
  tool,           (* what the workspace tools of an attempt do             *)
  pipe,           (* calls let through to the connector of an attempt and not begun *)
  owed,           (* history: once an attempt ended, the calls a server had let  *)
                  (* through by then, less those it began since            *)
  spent           (* attempts whose connector sent the approved change     *)

attemptVars ==
  <<active, executor, runtime, governance, manifests, conversation, tool, pipe, owed, spent>>

AttemptsInit ==
  /\ active = [attempt |-> 0, running |-> FALSE]
  /\ executor = [a \in AttemptNumbers |-> "none"]
  /\ runtime = [a \in AttemptNumbers |-> "none"]
  /\ governance = 0
  /\ manifests = {}
  /\ conversation = 0
  /\ tool = [a \in AttemptNumbers |-> "idle"]
  /\ pipe = [a \in AttemptNumbers |-> 0]
  /\ owed = [a \in AttemptNumbers |-> [s \in Servers |-> 0]]
  /\ spent = {}

(* assignment_is_current_on                                                *)
Current(a) == active = [attempt |-> a, running |-> TRUE]

Place(a, place) == executor' = [executor EXCEPT ![a] = place]
StoreKeeps == UNCHANGED <<active, governance, manifests, conversation>>
ToolsKeep == UNCHANGED <<tool, pipe, owed, spent>>
RuntimeKeeps == UNCHANGED runtime /\ ToolsKeep

(* What a server has let through and not begun to carry out.               *)
LetThrough(a, s) ==
  IF s = "connector" THEN pipe[a]
  ELSE IF tool[a] \in {"change", "shell", "commit"} THEN 1 ELSE 0

-----------------------------------------------------------------------------
(* The store *)

Claim ==
  /\ ~active.running /\ active.attempt < MaxAttempt
  /\ active' = [attempt |-> active.attempt + 1, running |-> TRUE]
  /\ executor' = [executor EXCEPT ![active.attempt + 1] = "resolve"]
  /\ UNCHANGED <<governance, manifests, conversation>>
  /\ RuntimeKeeps

(* A cancellation, the end of the lease, or the result of the attempt.     *)
EndAssignment ==
  /\ active.running
  /\ active' = [active EXCEPT !.running = FALSE]
  /\ owed' = [owed EXCEPT ![active.attempt] = [s \in Servers |-> LetThrough(active.attempt, s)]]
  /\ UNCHANGED <<executor, runtime, governance, manifests, conversation, tool, pipe, spent>>

-----------------------------------------------------------------------------
(* The executor: a step that finds the assignment ended ends it, and so    *)
(* does one whose checks, of what was resolved or granted, fail.           *)
Preparing(a) == executor[a] \in {"resolve", "govern", "manifest", "authorize"}

Abandon(a) ==
  /\ Preparing(a) /\ ~Current(a)
  /\ Place(a, "ended")
  /\ StoreKeeps /\ RuntimeKeeps

RefuseResolved(a) ==
  /\ Preparing(a) /\ Current(a)
  /\ Place(a, "ended")
  /\ StoreKeeps /\ RuntimeKeeps

(* Reads the governance there is and resolves the profile, the contract,   *)
(* the workspace and the connectors without the fence.                     *)
Resolve(a) ==
  /\ executor[a] = "resolve" /\ Current(a)
  /\ Place(a, IF governance = 0 THEN "govern" ELSE "manifest")
  /\ StoreKeeps /\ RuntimeKeeps

(* Once, or the same again: Rules and Skills come from an immutable profile. *)
BindGovernance(a) ==
  /\ executor[a] = "govern" /\ Current(a)
  /\ governance' = IF governance = 0 THEN a ELSE governance
  /\ Place(a, "manifest")
  /\ UNCHANGED <<active, manifests, conversation>> /\ RuntimeKeeps

BindManifest(a) ==
  /\ executor[a] = "manifest" /\ Current(a)
  /\ manifests' = manifests \cup {a}
  /\ Place(a, "authorize")
  /\ UNCHANGED <<active, governance, conversation>> /\ RuntimeKeeps

(* Descriptors of the assignment for the tool servers, then the process.   *)
StartRuntime(a) ==
  /\ executor[a] = "authorize" /\ Current(a)
  /\ runtime' = [runtime EXCEPT ![a] = "up"]
  /\ Place(a, "run")
  /\ StoreKeeps /\ ToolsKeep

(* The runtime names its OpenCode session: the bound one, or a new one.  A *)
(* refused event ends the run.                                             *)
BindConversation(a) ==
  /\ executor[a] = "run" /\ runtime[a] = "up"
  /\ IF Current(a)
     THEN conversation' = (IF conversation = 0 THEN a ELSE conversation) /\ UNCHANGED executor
     ELSE Place(a, "stop") /\ UNCHANGED conversation
  /\ UNCHANGED <<active, governance, manifests>> /\ RuntimeKeeps

(* The run ended, was cancelled, or failed to read a line, which leaves    *)
(* its process; or the application ended.  The callback is closed.         *)
EndExecution(a) ==
  /\ executor[a] \in {"run", "stop"}
  /\ Place(a, "ended")
  /\ runtime' \in {[runtime EXCEPT ![a] = "gone"], runtime}
  /\ StoreKeeps /\ ToolsKeep

RuntimeExits(a) ==
  /\ runtime[a] = "up"
  /\ runtime' = [runtime EXCEPT ![a] = "gone"]
  /\ UNCHANGED executor
  /\ StoreKeeps /\ ToolsKeep

-----------------------------------------------------------------------------
(* The tool servers: the workspace tools serve one call at a time; the     *)
(* proxy of a connector lets calls through into a pipe, without waiting    *)
(* for an answer.                                                          *)

Tool(a, doing) == tool' = [tool EXCEPT ![a] = doing]
OthersKeep == StoreKeeps /\ UNCHANGED <<executor, runtime>>

TakeEffect(a, s) ==
  owed' = IF Current(a) THEN owed ELSE [owed EXCEPT ![a][s] = @ - 1]

(* task_tool_authority_is_current, external_authority_is_current: read for *)
(* every call.  The read may also fail.                                    *)
HoldsAuthority(a) == Current(a)

(* A request is read and passes to what carries it out.  The runtime that  *)
(* sent it may be gone.                                                    *)
LetCall(a, s) ==
  /\ runtime[a] # "none"
  /\ \/ /\ s = "workspace" /\ tool[a] = "idle"
        /\ \E call \in {"change", "shell"} : Tool(a, call)
        /\ UNCHANGED pipe
     \/ /\ s = "connector" /\ pipe[a] < MaxCalls
        /\ pipe' = [pipe EXCEPT ![a] = @ + 1]
        /\ UNCHANGED tool
  /\ OthersKeep /\ UNCHANGED <<owed, spent>>

(* Mutant of Authorize: the descriptor is trusted, as it was when issued.  *)
AuthorizeIssued(a, s) == a \in manifests /\ LetCall(a, s)

(* A call that passes the check; the others are refused.                   *)
Authorize(a, s) == HoldsAuthority(a) /\ LetCall(a, s)

(* A write checks the version of the file and then asks again; git asks    *)
(* again when it knows the repository.                                     *)
AuthorizeAgain(a) ==
  /\ tool[a] = "change"
  /\ Tool(a, IF HoldsAuthority(a) THEN "commit" ELSE "idle")
  /\ OthersKeep /\ UNCHANGED <<pipe, owed, spent>>

(* The file is renamed into place, or the git command run to its end: both *)
(* may also fail.                                                          *)
Commit(a) ==
  /\ tool[a] = "commit"
  /\ Tool(a, "idle") /\ TakeEffect(a, "workspace")
  /\ OthersKeep /\ UNCHANGED <<pipe, spent>>

StartShell(a) ==
  /\ tool[a] = "shell"
  /\ Tool(a, "command") /\ TakeEffect(a, "workspace")
  /\ OthersKeep /\ UNCHANGED <<pipe, spent>>

(* The command ended or timed out, or was killed because the assignment    *)
(* had ended.                                                              *)
EndShell(a) ==
  /\ tool[a] = "command"
  /\ Tool(a, "idle")
  /\ OthersKeep /\ UNCHANGED <<pipe, owed, spent>>

(* The connector takes the next call from the pipe: a change that is       *)
(* approved is sent once by this process.                                  *)
Forward(a, change) ==
  /\ pipe[a] > 0
  /\ pipe' = [pipe EXCEPT ![a] = @ - 1] /\ TakeEffect(a, "connector")
  /\ spent' = IF change THEN spent \cup {a} ELSE spent
  /\ OthersKeep /\ UNCHANGED tool

AttemptsNext ==
  \/ Claim \/ EndAssignment
  \/ \E a \in AttemptNumbers :
       \/ Abandon(a) \/ RefuseResolved(a) \/ Resolve(a) \/ BindGovernance(a) \/ BindManifest(a)
       \/ StartRuntime(a) \/ BindConversation(a) \/ EndExecution(a) \/ RuntimeExits(a)
       \/ AuthorizeAgain(a) \/ Commit(a) \/ StartShell(a) \/ EndShell(a)
       \/ \E s \in Servers : Authorize(a, s)
       \/ \E change \in BOOLEAN : Forward(a, change)

AttemptsSpec == AttemptsInit /\ [][AttemptsNext]_attemptVars

-----------------------------------------------------------------------------
(* What README:87 says of stale workers holds up to the calls let through  *)
(* in time: whatever became of its executor and its runtime, a tool server *)
(* carries out after the end of its assignment no more calls than it had   *)
(* let through before, which is one at most for the workspace tools and    *)
(* what is in the pipe for a connector.                                    *)
StaleToolsStop ==
  \A a \in AttemptNumbers, s \in Servers :
    owed[a][s] >= 0 /\ (s = "workspace" => owed[a][s] <= 1)

(* One operator approval is for one change of the cluster (mod.rs:643).    *)
(* The code breaks it: the contract gives every attempt's connector the    *)
(* same approval, unused.                                                  *)
ApprovalSpentOnce == Cardinality(spent) <= 1
=============================================================================
