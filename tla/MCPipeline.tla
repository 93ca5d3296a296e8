----------------------------- MODULE MCPipeline -----------------------------
(* Small instances of CompletionPipeline for TLC. *)
EXTENDS CompletionPipeline, TLC

CONSTANTS s1, s2, c1, g1

AgentTask == [kind |-> "agent", conversation |-> c1, subject |-> Null, run |-> g1]
ChatTurn == [kind |-> "chat", conversation |-> c1, subject |-> Null, run |-> Null]
EditTask == [kind |-> "edit", conversation |-> Null, subject |-> c1, run |-> Null]

AllKinds == {AgentTask, ChatTurn, EditTask}
AgentAndChat == {AgentTask, ChatTurn}
ProjectionIds == Sessions \X Attempts

FailureOnly == {<<"failed", "other">>}

Works == <<"running", "running">>
Done == <<"completed", "completed">>
FewUpdates == {Works, Done}
OneUpdate == {Works}
=============================================================================
