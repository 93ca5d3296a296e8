--------------------------- MODULE ExecutionStore ---------------------------
(***************************************************************************)
(* The second database, infrastructure/execution_store.rs: execution runs  *)
(* with an optimistic revision, their worker.execute step with its lease   *)
(* and its result, conversations, and the receipts of projected results.   *)
(*                                                                         *)
(* Every operation is one transaction and one operator here; which callers *)
(* use it, and when, is CompletionPipeline.  One workspace is modelled: a  *)
(* call that names another fails without an effect.  Texts, summaries and  *)
(* times are left out; a message is known by its id, and a result by its   *)
(* projection id <<session, attempt>>.                                     *)
(***************************************************************************)
EXTENDS Naturals, Sequences

CONSTANTS
  Runs,           (* run_id values                                        *)
  Conversations,  (* conversation_id values                               *)
  Messages,       (* message_id values a renderer writes                  *)
  Projections,    (* projection_id values, <<session, attempt>>           *)
  Absent,         (* a NULL column, or no row                             *)
  MaxRevision,    (* bound: revisions saves and claims start from         *)
  MaxMessages     (* bound: length up to which a renderer appends         *)

ASSUME ExecutionBounds == MaxRevision \in Nat /\ MaxMessages \in Nat

MessageRow ==
  [id : Messages \cup Projections, role : {"user", "agent"}, backend : BOOLEAN]

(* A renderer's ids begin with "chat-", those of results "task-session:".  *)
ASSUME MessagesAssumption ==
  /\ Messages \cap Projections = {}
  /\ Absent \notin Seq(MessageRow)

VARIABLES
  run,        (* execution_runs                                            *)
  step,       (* step_runs, the row worker.execute of each run             *)
  talk,       (* conversations with their messages in sequence order       *)
  receipts    (* task_completion_projection_receipts                       *)

executionVars == <<run, step, talk, receipts>>

FinalStatuses == {"blocked", "failed", "completed", "cancelled"}
RunStatuses == {"running"} \cup FinalStatuses
StepStatuses == {"pending", "running"} \cup FinalStatuses

NoRun == [revision |-> 0, status |-> "absent"]
NoStep == [status |-> "absent", owned |-> FALSE, result |-> Absent]

ExecutionInit ==
  /\ run = [r \in Runs |-> NoRun]
  /\ step = [r \in Runs |-> NoStep]
  /\ talk = [c \in Conversations |-> Absent]
  /\ receipts = {}

-----------------------------------------------------------------------------
(* Runs and their step *)

(* save: the whole run is replaced, if its revision is the stored one and  *)
(* a final status is kept.  The step keeps its result and, since a saved   *)
(* step names no lease, its lease.                                         *)
SaveAllowed(r, revision, status) ==
  /\ revision = run[r].revision
  /\ run[r].status \in FinalStatuses => status = run[r].status

SaveRun(r, revision, status, stepStatus) ==
  /\ SaveAllowed(r, revision, status)
  /\ run[r].status = "absent" \/ run[r].revision < MaxRevision
  /\ run' = [run EXCEPT ![r] =
       [status |-> status,
        revision |-> IF @.status = "absent" THEN 0 ELSE @.revision + 1]]
  /\ step' = [step EXCEPT ![r].status = stepStatus]
  /\ UNCHANGED <<talk, receipts>>

(* The lease of a direct run is 15 minutes of wall-clock time: whether it  *)
(* has ended is the caller's choice of expired.                            *)
ClaimStep(r, expired) ==
  /\ \/ step[r].status = "pending"
     \/ step[r].status = "running" /\ (~step[r].owned \/ expired)
  /\ run[r].status = "running"
  /\ run[r].revision < MaxRevision
  /\ step' = [step EXCEPT ![r].status = "running", ![r].owned = TRUE]
  /\ run' = [run EXCEPT ![r].revision = @ + 1]
  /\ UNCHANGED <<talk, receipts>>

(* Only an end other than completed ends the run and moves its revision.   *)
FinishStep(r, status) ==
  /\ step[r].owned
  /\ step' = [step EXCEPT ![r].status = status, ![r].owned = FALSE]
  /\ \/ status = "completed" /\ UNCHANGED run
     \/ /\ status \in FinalStatuses \ {"completed"}
        /\ run[r].status = "running"
        /\ run' = [run EXCEPT ![r] = [revision |-> @.revision + 1, status |-> status]]
  /\ UNCHANGED <<talk, receipts>>

-----------------------------------------------------------------------------
(* Conversations *)

Positions(c) == IF talk[c] = Absent THEN {} ELSE DOMAIN talk[c]

Stored(id) == \E c \in Conversations : \E i \in Positions(c) : talk[c][i].id = id

(* The newest message of a conversation and its sequence number.           *)
HeadOf(c) ==
  IF talk[c] \in {Absent, <<>>} THEN Absent
  ELSE [sequence |-> Len(talk[c]), id |-> talk[c][Len(talk[c])].id]

(* insert at MAX(sequence) + 1; message_id is the primary key.             *)
Insert(c, message) ==
  /\ ~Stored(message.id)
  /\ talk' = [talk EXCEPT ![c] =
       Append(IF @ = Absent THEN <<>> ELSE @, message)]

(* append_conversation_message, which creates the conversation; a message  *)
(* that is stored already is returned as it is.                            *)
AppendConversationMessage(c, m, role) ==
  /\ MaxMessages \notin Positions(c)
  /\ Insert(c, [id |-> m, role |-> role, backend |-> FALSE])
  /\ UNCHANGED <<run, step, receipts>>

(* One conversation of prune_conversations: its messages go with it.       *)
PruneConversation(c) ==
  /\ talk[c] # Absent
  /\ talk' = [talk EXCEPT ![c] = Absent]
  /\ UNCHANGED <<run, step, receipts>>

(* The snapshot of a conversation whose newest message is the user's head. *)
IsSnapshot(c, head) ==
  /\ head # Absent
  /\ HeadOf(c) = head
  /\ talk[c][head.sequence].role = "user"

-----------------------------------------------------------------------------
(* Projections: each ends as projected, retryable or rejected *)

Keep == UNCHANGED executionVars

(* The result of the step is none, or of an earlier attempt of the same    *)
(* Task Session.                                                           *)
SameSession(r, p) == step[r].result # Absent => step[r].result[1] = p[1]

(* What no retry of an agent projection gets past, as long as it lasts.    *)
AgentConflict(p, r, c) ==
  /\ p \notin receipts
  /\ \/ run[r].status = "absent"
     \/ talk[c] = Absent
     \/ step[r].status = "absent"
     \/ ~SameSession(r, p)

(* Mutants of ProjectNewAgent: the receipt is not looked up, or the step   *)
(* gets the name of the Task Session's state.                              *)
ProjectAgentAgain(p, r, c, terminal) ==
  /\ run[r].status # "absent" /\ talk[c] # Absent /\ SameSession(r, p)
  /\ Insert(c, [id |-> p, role |-> "agent", backend |-> TRUE])
  /\ step' = [step EXCEPT ![r] =
       [status |-> IF terminal = "succeeded" THEN "completed" ELSE "blocked",
        owned |-> FALSE, result |-> p]]
  /\ receipts' = receipts \cup {p}
  /\ UNCHANGED run
ProjectNewAgent(p, r, c, terminal) ==
  /\ p \notin receipts
  /\ ~AgentConflict(p, r, c)
  /\ Insert(c, [id |-> p, role |-> "agent", backend |-> TRUE])
  /\ step' = [step EXCEPT ![r] =
       [status |-> IF terminal = "succeeded" THEN "completed" ELSE "blocked",
        owned |-> FALSE, result |-> p]]
  /\ run' = IF terminal = "succeeded" THEN run
            ELSE [run EXCEPT ![r] = [revision |-> @.revision + 1, status |-> "blocked"]]
  /\ receipts' = receipts \cup {p}

(* project_agent_task_completion: every error is reported as retryable.    *)
ProjectAgent(p, r, c, terminal, result) ==
  \/ result = "projected" /\ p \in receipts /\ Keep
  \/ result = "projected" /\ ProjectNewAgent(p, r, c, terminal)
  \/ result = "retryable" /\ AgentConflict(p, r, c) /\ Keep

ChatStored(p, c, head) ==
  /\ head.sequence + 1 \in Positions(c)
  /\ talk[c][head.sequence + 1].id = p

(* Mutants of ProjectChat: the answer is appended to whatever is newest,   *)
(* and a context that changed is retried.                                  *)
ProjectChatAtEnd(p, c, head, result) ==
  \/ result = "projected" /\ ChatStored(p, c, head) /\ Keep
  \/ /\ result = "projected"
     /\ talk[c] # Absent
     /\ Insert(c, [id |-> p, role |-> "agent", backend |-> TRUE])
     /\ UNCHANGED <<run, step, receipts>>
  \/ result = "rejected" /\ talk[c] = Absent /\ Keep
ProjectChatRetried(p, c, head, result) ==
  \/ result = "projected" /\ ChatStored(p, c, head) /\ Keep
  \/ /\ result = "projected"
     /\ IsSnapshot(c, head)
     /\ Insert(c, [id |-> p, role |-> "agent", backend |-> TRUE])
     /\ UNCHANGED <<run, step, receipts>>
  \/ result = "retryable" /\ ~ChatStored(p, c, head) /\ ~IsSnapshot(c, head) /\ Keep

(* project_chat_task_completion: the expected head must still be newest.   *)
ProjectChat(p, c, head, result) ==
  \/ result = "projected" /\ ChatStored(p, c, head) /\ Keep
  \/ /\ result = "projected"
     /\ IsSnapshot(c, head)
     /\ Insert(c, [id |-> p, role |-> "agent", backend |-> TRUE])
     /\ UNCHANGED <<run, step, receipts>>
  \/ result = "rejected" /\ ~ChatStored(p, c, head) /\ ~IsSnapshot(c, head) /\ Keep
=============================================================================
