---------------------------- MODULE PromptAttempts ----------------------------
(***************************************************************************)
(* An attempt of a chat or edit Task Session                               *)
(* (application/prompt_task_executor.rs).  A chat is asked with the history *)
(* of its conversation up to the message it answers; what the model streams *)
(* is kept back until the answer is there and the conversation is seen not *)
(* to have moved, and then written to the journal in fewer events.         *)
(***************************************************************************)
EXTENDS Naturals, SequencesExt

CONSTANTS
  MaxStreamed,    (* bound: events a model streams                         *)
  MaxTurns        (* bound: messages that come after the one asked about   *)

ASSUME PromptAssumption == MaxStreamed \in Nat /\ MaxTurns \in Nat

VARIABLES
  prompt,         (* kind of the task, place of its executor, outcome      *)
  turns,          (* messages that came after the one asked about          *)
  assigned,       (* whether the assignment is current                     *)
  streamed,       (* buffered_events, numbered; the runtime may call while open *)
  emitting,       (* events still to be written                            *)
  logged          (* events of the attempt that were written               *)

promptVars == <<prompt, turns, assigned, streamed, emitting, logged>>

(* AiWorkerStreamEvent: pieces of text; counts of tokens, each of which    *)
(* replaces the one before; tool calls, and those that failed.             *)
StreamKinds == {"text", "usage", "tool", "failed_tool"}
Event(kind, of) == [kind |-> kind, of |-> of]
Candidate == Event("candidate", <<>>)

PromptInit ==
  /\ prompt \in [kind : {"chat", "edit"}, at : {"resolve"}, outcome : {"none"}]
  /\ turns = 0
  /\ assigned = TRUE
  /\ streamed = <<>>
  /\ emitting = <<>>
  /\ logged = <<>>

Chat == prompt.kind = "chat"
Goes(place) == prompt' = [prompt EXCEPT !.at = place]
Ends(outcome) == prompt' = [prompt EXCEPT !.at = "ended", !.outcome = outcome]

-----------------------------------------------------------------------------
(* coalesce_runtime_events: pieces of text become one, and the counts that *)
(* come between them follow it, the last one only.                         *)

Flushed(c) ==
  c.done \o (IF c.text = <<>> THEN <<>> ELSE <<Event("text", c.text)>>) \o c.usage

(* Mutant of Coalesce: the text before a tool call is written after it. *)
CoalesceLate(c, event) ==
  CASE event.kind = "text" -> [c EXCEPT !.text = @ \o event.of]
    [] event.kind = "usage" /\ c.text # <<>> -> [c EXCEPT !.usage = <<event>>]
    [] OTHER -> [c EXCEPT !.done = Append(@, event)]

Coalesce(c, event) ==
  CASE event.kind = "text" -> [c EXCEPT !.text = @ \o event.of]
    [] event.kind = "usage" /\ c.text # <<>> -> [c EXCEPT !.usage = <<event>>]
    [] OTHER -> [done |-> Append(Flushed(c), event), text |-> <<>>, usage |-> <<>>]

Coalesced(events) ==
  Flushed(FoldLeft(Coalesce, [done |-> <<>>, text |-> <<>>, usage |-> <<>>], events))

-----------------------------------------------------------------------------
(* The user, or a projection, appends a message to the conversation.       *)
MoveConversation ==
  /\ Chat /\ turns < MaxTurns
  /\ turns' = turns + 1
  /\ UNCHANGED <<prompt, assigned, streamed, emitting, logged>>

(* A cancellation, or the end of the lease.                                *)
LoseAssignment ==
  /\ assigned
  /\ assigned' = FALSE
  /\ UNCHANGED <<prompt, turns, streamed, emitting, logged>>

(* resolve_chat_snapshot and resolve_prompt_runtime, after a first progress *)
(* event that the store refuses if the assignment is not current.          *)
ResolvePrompt ==
  /\ prompt.at = "resolve"
  /\ IF ~assigned THEN Ends("failed")
     ELSE IF Chat /\ turns > 0 THEN Ends("blocked") ELSE Goes("start")
  /\ UNCHANGED <<turns, assigned, streamed, emitting, logged>>

(* The envelope is not the executor's, its digest is wrong, the runtime    *)
(* cannot be resolved or is not the one the envelope names.                *)
RefuseEnvelope ==
  /\ prompt.at \in {"resolve", "start"}
  /\ Ends("failed") \/ Ends("blocked")
  /\ UNCHANGED <<turns, assigned, streamed, emitting, logged>>

CallPrompt ==
  /\ prompt.at = "start"
  /\ IF assigned THEN Goes("call") ELSE Ends("failed")
  /\ UNCHANGED <<turns, assigned, streamed, emitting, logged>>

(* The callback of a chat; it is closed when the call has returned, so that *)
(* a runtime that is still alive then adds nothing.                        *)
Stream(kind) ==
  /\ Chat /\ prompt.at = "call" /\ Len(streamed) < MaxStreamed
  /\ streamed' = Append(streamed, Event(kind, <<Len(streamed) + 1>>))
  /\ UNCHANGED <<prompt, turns, assigned, emitting, logged>>

ReturnPrompt ==
  /\ prompt.at = "call"
  /\ Goes(IF Chat THEN "revalidate" ELSE "emit") \/ Ends("failed")
  /\ UNCHANGED <<turns, assigned, streamed, emitting, logged>>

(* revalidate_chat: the message asked about is still the last one.         *)
Revalidate ==
  /\ prompt.at = "revalidate"
  /\ IF turns = 0
     THEN Goes("emit") /\ emitting' = Coalesced(streamed)
     ELSE Ends("blocked") /\ UNCHANGED emitting
  /\ UNCHANGED <<turns, assigned, streamed, logged>>

(* emit_runtime_event: a tool that failed is written and fails the chat,   *)
(* whatever the model made of it.                                          *)
Emit ==
  /\ prompt.at = "emit" /\ emitting # <<>>
  /\ IF assigned
     THEN /\ logged' = Append(logged, Head(emitting))
          /\ emitting' = Tail(emitting)
          /\ IF Head(emitting).kind = "failed_tool" THEN Ends("failed") ELSE UNCHANGED prompt
     ELSE Ends("failed") /\ UNCHANGED <<emitting, logged>>
  /\ UNCHANGED <<turns, assigned, streamed>>

(* The result is announced and returned, unless it is too large.           *)
OfferResult ==
  /\ prompt.at = "emit" /\ emitting = <<>>
  /\ \/ assigned /\ logged' = Append(logged, Candidate) /\ Ends("result")
     \/ Ends("failed") /\ UNCHANGED logged
  /\ UNCHANGED <<turns, assigned, streamed, emitting>>

PromptNext ==
  \/ MoveConversation \/ LoseAssignment \/ ResolvePrompt \/ RefuseEnvelope \/ CallPrompt
  \/ \E kind \in StreamKinds : Stream(kind)
  \/ ReturnPrompt \/ Revalidate \/ Emit \/ OfferResult

PromptSpec == PromptInit /\ [][PromptNext]_promptVars

-----------------------------------------------------------------------------
(* Properties *)

(* What was streamed, without the counts, by number.                       *)
Told(events) == FlattenSeq([i \in DOMAIN events |-> IF events[i].kind = "usage" THEN <<>> ELSE events[i].of])
LastUsage(events) ==
  LET counts == {i \in DOMAIN events : events[i].kind = "usage"} IN
  IF counts = {} THEN <<>> ELSE events[Max(counts)].of

(* An attempt that offers a result has written all that the model streamed, *)
(* text and tool calls in the order they came and the last count of tokens, *)
(* and no tool call that failed; one that ends otherwise has written a     *)
(* prefix of it.  Pieces of text are joined only when nothing but counts    *)
(* came between them.                                                      *)
StreamsAreWhole ==
  /\ IsPrefix(Told(logged), Told(streamed))
  /\ prompt.outcome = "result" =>
       /\ Told(logged) = Told(streamed) /\ LastUsage(logged) = LastUsage(streamed)
       /\ \A i \in DOMAIN streamed : streamed[i].kind # "failed_tool"
=============================================================================
