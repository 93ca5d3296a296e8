------------------------- MODULE CompletionPipeline -------------------------
(***************************************************************************)
(* The way of a result between two databases: staged in the outbox of the  *)
(* scheduler, projected into the execution store, marked, finalized; with  *)
(* the renderer, which saves runs and appends messages from copies of its  *)
(* own, and direct runs, which claim and finish the step themselves.       *)
(*                                                                         *)
(* Several processes may share the databases: each has one projector, that *)
(* holds at most one result.  A process may end between any two steps; its *)
(* projector then forgets what it held.  Any call may fail, which reports  *)
(* a projection as retryable and leaves everything else as it was.         *)
(***************************************************************************)
EXTENDS SchedulerStore, ExecutionStore

CONSTANTS
  Processes,      (* processes, each with one projector                    *)
  Endings,        (* how an assignment may end without a structured result *)
  Updates         (* <<run status, step status>> pairs the renderer saves  *)

ASSUME PipelineAssumption ==
  /\ Projections = Sessions \X Attempts
  /\ Endings \subseteq PlainOutcomes
  /\ \A u \in Updates : u[1] \in RunStatuses /\ u[2] \in StepStatuses

(* An envelope names a conversation and a run, or none; that of a chat     *)
(* turn is valid only with a conversation.                                 *)
ASSUME RequestsNameRows ==
  \A r \in Requests :
    /\ r.conversation \in Conversations \cup {Null}
    /\ r.run \in Runs \cup {Null}
    /\ r.kind = "chat" => r.conversation \in Conversations

VARIABLES
  head,     (* chat_head of each session's envelope                        *)
  held,     (* the StagedCompletion a projector holds, and its result      *)
  copy,     (* the ExecutionRun the renderer has in memory, per run        *)
  pruned    (* conversations that were pruned once (history)               *)

pipelineVars == <<head, held, copy, pruned>>
schedulerVars == <<session, attempt, completion, nextSequence, now>>
everything == <<schedulerVars, executionVars, pipelineVars>>

(* base is the content the renderer last read or saved.                    *)
Content(r) == <<run[r].status, step[r].status>>

PipelineInit ==
  /\ Init
  /\ ExecutionInit
  /\ head = [s \in Sessions |-> Null]
  /\ held = [p \in Processes |-> Null]
  /\ copy = [r \in Runs |-> [revision |-> 0, base |-> Content(r)]]
  /\ pruned = {}

-----------------------------------------------------------------------------
(* Clients and the Scheduler, without the outbox *)

(* A chat turn is submitted with the newest message of its conversation;   *)
(* the continue command takes envelopes of agent tasks only.               *)
Submit(s, r) ==
  /\ \/ Enqueue(s, r)
     \/ ContinueInterrupted(s, r) /\ {r.kind, session[s].request.kind} = {"agent"}
  /\ r.kind = "chat" => HeadOf(r.conversation) # Absent
                        /\ IsSnapshot(r.conversation, HeadOf(r.conversation))
  /\ head' = [head EXCEPT ![s] =
       IF r.kind = "chat" THEN HeadOf(r.conversation) ELSE Null]
  /\ UNCHANGED <<executionVars, held, copy, pruned>>

(* Only the executor of agent tasks binds an OpenCode session.             *)
HolderStep(s, n) ==
  \/ \E id \in Runtimes : session[s].request.kind = "agent" /\ BindOpencodeSession(s, n, id)
  \/ ResolveCancelling(s, n)
  \/ \E outcome \in Endings : ResolvePlain(s, n, outcome)
  \/ \E output \in Outputs("agent") : StageOutput(s, n, output)

SchedulerStep ==
  /\ \/ \E s \in Sessions, o \in Owners : ClaimNext(o, s)
     \/ \E s \in Sessions, n \in Attempts : Resolvable(s, n) /\ HolderStep(s, n)
     \/ \E s \in Sessions : Cancel(s)
     \/ \E o \in Owners : AbandonOwner(o)
  /\ UNCHANGED <<executionVars, pipelineVars>>

-----------------------------------------------------------------------------
(* Projectors *)

(* dispatch_projection: what is projected already is finalized first.      *)
FinalizeFound(p) ==
  /\ held[p] = Null
  /\ \E s \in Projected : FinalizeCompletion(s, completion[s].attempt)
  /\ UNCHANGED <<executionVars, pipelineVars>>

Take(p, s) ==
  /\ held[p] = Null
  /\ Projected = {}
  /\ s \in Due
  /\ held' = [held EXCEPT ![p] =
       [session |-> s, attempt |-> completion[s].attempt,
        request |-> session[s].request, head |-> head[s],
        terminal |-> completion[s].terminal, result |-> "pending"]]
  /\ UNCHANGED <<schedulerVars, executionVars, head, copy, pruned>>

Holds(p, result) == held[p] # Null /\ held[p].result = result
Reported(p, result) == held' = [held EXCEPT ![p].result = result]

(* CompletionProjector::project; an edit has nothing to project.           *)
Project(p, result) ==
  /\ Holds(p, "pending")
  /\ LET h == held[p]
         id == <<h.session, h.attempt>>
     IN  \/ h.request.kind = "agent" /\
              ProjectAgent(id, h.request.run, h.request.conversation, h.terminal, result)
         \/ h.request.kind = "chat" /\
              ProjectChat(id, h.request.conversation, h.head, result)
         \/ h.request.kind = "edit" /\ result = "projected" /\ Keep
  /\ Reported(p, result)
  /\ UNCHANGED <<schedulerVars, head, copy, pruned>>

ProjectFails(p) ==
  /\ Holds(p, "pending")
  /\ Reported(p, "retryable")
  /\ UNCHANGED <<schedulerVars, executionVars, head, copy, pruned>>

(* Mutant of MarkProjected: the row is marked before the projection ended. *)
MarkEarly(p) ==
  /\ Holds(p, "projected") \/ Holds(p, "pending")
  /\ MarkCompletionProjected(held[p].session, held[p].attempt)
  /\ Reported(p, "marked")
  /\ UNCHANGED <<executionVars, head, copy, pruned>>

(* projection_finished, one call of the store after the other              *)
MarkProjected(p) ==
  /\ Holds(p, "projected")
  /\ MarkCompletionProjected(held[p].session, held[p].attempt)
  /\ Reported(p, "marked")
  /\ UNCHANGED <<executionVars, head, copy, pruned>>

FinalizeMarked(p) ==
  /\ Holds(p, "marked")
  /\ FinalizeCompletion(held[p].session, held[p].attempt)
  /\ held' = [held EXCEPT ![p] = Null]
  /\ UNCHANGED <<executionVars, head, copy, pruned>>

RecordRetry(p) ==
  /\ Holds(p, "retryable")
  /\ RecordCompletionError(held[p].session, held[p].attempt)
  /\ held' = [held EXCEPT ![p] = Null]
  /\ UNCHANGED <<executionVars, head, copy, pruned>>

RejectProjection(p) ==
  /\ Holds(p, "rejected")
  /\ RejectCompletion(held[p].session, held[p].attempt)
  /\ held' = [held EXCEPT ![p] = Null]
  /\ UNCHANGED <<executionVars, head, copy, pruned>>

(* A call failed or found the result gone, or the process ended.           *)
Forget(p) ==
  /\ held[p] # Null
  /\ held' = [held EXCEPT ![p] = Null]
  /\ UNCHANGED <<schedulerVars, executionVars, head, copy, pruned>>

-----------------------------------------------------------------------------
(* The renderer (routes/+page.svelte) and direct runs *)

(* setExecutionRunForCard waits for the stored run and keeps it;           *)
(* updateExecutionRunForCard does not: its copy stays at the old revision. *)
RendererSaves(r, u) ==
  /\ SaveRun(r, copy[r].revision, u[1], u[2])
  /\ \E known \in {copy[r].revision, run'[r].revision} :
       copy' = [copy EXCEPT ![r] = [revision |-> known, base |-> u]]
  /\ UNCHANGED <<schedulerVars, head, held, pruned>>

RendererReads(r) ==
  /\ run[r].status # "absent"
  /\ copy[r] # [revision |-> run[r].revision, base |-> Content(r)]
  /\ copy' = [copy EXCEPT ![r] = [revision |-> run[r].revision, base |-> Content(r)]]
  /\ UNCHANGED <<schedulerVars, executionVars, head, held, pruned>>

RendererTalks(c) ==
  /\ \E m \in Messages : AppendConversationMessage(c, m, "user")
  /\ UNCHANGED <<schedulerVars, pipelineVars>>

RendererPrunes(c) ==
  /\ PruneConversation(c)
  /\ pruned' = pruned \cup {c}
  /\ UNCHANGED <<schedulerVars, head, held, copy>>

DirectRun(r) ==
  /\ \/ \E expired \in BOOLEAN : ClaimStep(r, expired)
     \/ \E status \in FinalStatuses : FinishStep(r, status)
  /\ UNCHANGED <<schedulerVars, pipelineVars>>

-----------------------------------------------------------------------------
ProjectorNext(p) ==
  \/ FinalizeFound(p)
  \/ \E s \in Sessions : Take(p, s)
  \/ \E result \in {"projected", "retryable", "rejected"} : Project(p, result)
  \/ ProjectFails(p)
  \/ MarkProjected(p)
  \/ FinalizeMarked(p)
  \/ RecordRetry(p)
  \/ RejectProjection(p)
  \/ Forget(p)

PipelineNext ==
  \/ \E s \in Sessions, r \in Requests : Submit(s, r)
  \/ SchedulerStep
  \/ \E p \in Processes : ProjectorNext(p)
  \/ \E r \in Runs : RendererReads(r) \/ DirectRun(r)
                     \/ \E u \in Updates : RendererSaves(r, u)
  \/ \E c \in Conversations : RendererTalks(c) \/ RendererPrunes(c)

PipelineSpec == PipelineInit /\ [][PipelineNext]_everything

(* A process that keeps being started again gets each step done at last:   *)
(* neither its calls nor the process fail for ever.                        *)
PipelineFairness ==
  \A p \in Processes :
    /\ WF_everything(ProjectorNext(p))
    /\ SF_everything(FinalizeFound(p))
    /\ \A s \in Sessions : SF_everything(Take(p, s))
    /\ SF_everything(\E result \in {"projected", "rejected"} : Project(p, result))
    /\ SF_everything(MarkProjected(p))
    /\ SF_everything(RejectProjection(p))

FairPipelineSpec == PipelineSpec /\ PipelineFairness

-----------------------------------------------------------------------------
(* A result that the scheduler takes for projected is in the execution     *)
(* store, whichever process projected it and wherever it ended: an agent's *)
(* receipt and a chat's answer are there, unless the conversation was      *)
(* pruned.  A session that commits never succeeds without it.              *)
ProjectedIsPublished ==
  \A s \in Sessions :
    completion[s].projected =>
      LET id == <<s, completion[s].attempt>>
          c == session[s].request.conversation
      IN  /\ session[s].request.kind = "agent" => id \in receipts
          /\ session[s].request.kind = "chat" => Stored(id) \/ c \in pruned

(* The answer of a chat turn stands directly behind the message it         *)
(* answers, however many messages were appended while it was computed,     *)
(* and no answer is there twice.                                           *)
AnswersFollowTheirQuestion ==
  \A c \in Conversations : \A i \in Positions(c) :
    talk[c][i].id \in Projections =>
      LET s == talk[c][i].id[1] IN
        /\ \A j \in Positions(c) : talk[c][j].id = talk[c][i].id => i = j
        /\ head[s] # Null => i > 1 /\ talk[c][i - 1].id = head[s].id

(* The result a step shows is replaced only by that of a later attempt of  *)
(* the same Task Session: neither a second session nor a projector that    *)
(* comes late with an older result overwrites it.                          *)
ResultsMoveForward ==
  [][\A r \in Runs : step[r].result # Absent /\ step'[r].result # step[r].result =>
       /\ step'[r].result[1] = step[r].result[1]
       /\ step'[r].result[2] > step[r].result[2]]_everything

(* A staged result does not stay staged, except while an agent's result    *)
(* conflicts with the run or the conversation it belongs to.  (Such a      *)
(* conflict is retried for ever: execution_store.rs reports none of an     *)
(* agent's conflicts as permanent.)                                        *)
CommittingEndsOrConflicts ==
  \A s \in Sessions :
    session[s].state = "committing" ~>
      \/ session[s].state # "committing"
      \/ /\ session[s].request.kind = "agent"
         /\ AgentConflict(<<s, session[s].active>>, session[s].request.run,
                          session[s].request.conversation)

(* A save that is accepted replaces what the renderer read: "is stale ...  *)
(* Reload before saving" is the answer to any other.  The code breaks it:  *)
(* a completed result or step does not move the revision.                  *)
SavesLoseNothing ==
  [][\A r \in Runs : \A u \in Updates :
       RendererSaves(r, u) => copy[r].base = Content(r)]_everything
=============================================================================
