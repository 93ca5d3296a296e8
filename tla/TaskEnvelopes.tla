--------------------------- MODULE TaskEnvelopes ---------------------------
(***************************************************************************)
(* The envelopes of Task Sessions and everyone who judges them: the        *)
(* commands that submit one, the router and the executors that run it, the *)
(* resolver and the check of what it resolved, the store that stages the   *)
(* result, decodes it for the projector and recovers the session.  None of *)
(* them sees what another has checked.                                     *)
(***************************************************************************)
EXTENDS Naturals, Sequences

CONSTANTS
  Texts,          (* identifiers, revisions, messages ...                  *)
  Blank,          (* one that is missing, empty or not canonical           *)
  Connectors,     (* canonical identifiers of connectors                   *)
  OtherCapabilities

Fields == Texts \cup {Blank}
Kinds == {"agent", "chat", "edit"}
External(connector) == <<"external_tools", connector>>
Capabilities ==
  {External(c) : c \in Connectors \cup {Blank}} \cup OtherCapabilities \cup {Blank}

(* TaskSessionEnvelopeV1, TaskSessionInputV2 and TaskSessionEnvelopeV2; of *)
(* the latter fits says that it is within every limit of size.             *)
Sessions ==
  [kind : Kinds, workspace : Fields, digest : Fields, profile : Fields, model : Fields,
   template : Fields, conversation : Fields, run : Fields, subject : Fields,
   context : Fields, rules : Fields, skills : Fields,
   connectors : Seq(Connectors \cup {Blank}), requested : SUBSET Capabilities]
Inputs ==
  [kind : {"chat"}, id : Fields, message : Fields]
    \cup [kind : {"edit"}, path : Fields, instruction : Fields, files : Seq(Fields)]
Envelopes ==
  [version : {1}, session : Sessions]
    \cup [version : {2}, session : Sessions, input : Inputs, fits : BOOLEAN]

-----------------------------------------------------------------------------
(* What an envelope must be to be stored *)

ConnectorsOf(session) == {session.connectors[i] : i \in DOMAIN session.connectors}
ExternalOf(session) == {c \in Connectors \cup {Blank} : External(c) \in session.requested}
Distinct(seq) == \A i, j \in DOMAIN seq : i # j => seq[i] # seq[j]

ValidSession(session) ==
  /\ Blank \notin {session.workspace, session.digest, session.profile, session.model,
                   session.template}
  /\ Blank \notin ConnectorsOf(session) /\ Distinct(session.connectors)
  /\ Blank \notin session.requested
  /\ ExternalOf(session) = ConnectorsOf(session)

(* validate_agent_runtime_ownership                                        *)
OwnsRuntime(session) ==
  /\ ValidSession(session)
  /\ session.kind = "agent"
  /\ Blank \notin {session.conversation, session.run, session.context, session.rules,
                   session.skills}

ValidChat(session, input) ==
  /\ session.kind = "chat" /\ input.kind = "chat"
  /\ Blank \notin {session.conversation, input.id, input.message}

ValidEdit(session, input) ==
  /\ session.kind = "edit" /\ input.kind = "edit"
  /\ Blank \notin {input.path, input.instruction}
  /\ \A i \in DOMAIN input.files : input.files[i] \notin {Blank, input.path}
  /\ Distinct(input.files)

ValidPrompt(envelope) ==
  /\ ValidSession(envelope.session)
  /\ envelope.fits
  /\ Blank \notin {envelope.session.context, envelope.session.rules, envelope.session.skills}
  /\ ConnectorsOf(envelope.session) = {} /\ ExternalOf(envelope.session) = {}
  /\ \/ ValidChat(envelope.session, envelope.input)
     \/ ValidEdit(envelope.session, envelope.input)

ValidEnvelope(envelope) ==
  IF envelope.version = 1 THEN ValidSession(envelope.session) ELSE ValidPrompt(envelope)

-----------------------------------------------------------------------------
(* The commands that bring one in *)

SubmitTakes(envelope) ==
  IF envelope.version = 1 THEN OwnsRuntime(envelope.session) ELSE ValidPrompt(envelope)

(* resume_task_session_after_approval, continue_interrupted_task_session   *)
ContinueTakes(envelope) == envelope.version = 1 /\ OwnsRuntime(envelope.session)

(* The engine asks for a label and for grants that were requested, and     *)
(* TaskRequest::from_envelope checks the envelope once more.               *)
EngineTakes(label, envelope, grants) ==
  /\ label # Blank
  /\ grants \subseteq envelope.session.requested
  /\ ValidEnvelope(envelope)

Accepted(label, envelope, grants) ==
  /\ SubmitTakes(envelope) \/ ContinueTakes(envelope)
  /\ EngineTakes(label, envelope, grants)

-----------------------------------------------------------------------------
(* What runs it *)

(* TaskSessionExecutor goes by the kind, the executors by the version.     *)
Routed(envelope) == IF envelope.session.kind = "agent" THEN "agent" ELSE "prompt"

ExecutorTakes(executor, envelope) ==
  IF executor = "agent" THEN envelope.version = 1 /\ envelope.session.kind = "agent"
                        ELSE envelope.version = 2

(* What the executor returns if it succeeds.                               *)
OutputOf(executor, envelope) ==
  IF executor = "agent" THEN [kind |-> "agent", conversation |-> Blank]
  ELSE IF envelope.input.kind = "chat"
    THEN [kind |-> "chat", conversation |-> envelope.session.conversation]
    ELSE [kind |-> "edit", conversation |-> Blank]

-----------------------------------------------------------------------------
(* What the store does with it *)

(* request_ownership: the columns of the session.                          *)
Ownership(envelope) ==
  [workspace |-> envelope.session.workspace, conversation |-> envelope.session.conversation,
   subject |-> envelope.session.subject, run |-> envelope.session.run]

(* A result that cannot be staged is an error of the store, which the      *)
(* engine takes for a passing one: it retries and keeps the worker.        *)
CanStage(output, row) ==
  /\ row.workspace # Blank
  /\ output.kind = "agent" => row.conversation # Blank /\ row.run # Blank
  /\ output.kind = "chat" => row.conversation = output.conversation

(* StoredCompletion::decode needs the head a chat answers.  A row that     *)
(* cannot be decoded fails the query of all pending completions.           *)
CanDecode(output, envelope) ==
  output.kind = "chat" =>
    ValidEnvelope(envelope) /\ envelope.version = 2 /\ envelope.input.kind = "chat"

(* request_is_agent_envelope: a payload without an envelope is no agent's; *)
(* an envelope that is not valid is an error, and ends the recovery.       *)
IsAgentRequest(envelope) ==
  IF ~ValidEnvelope(envelope) THEN "error"
  ELSE IF envelope.session.kind = "agent" THEN "agent" ELSE "other"

-----------------------------------------------------------------------------
(* What it may use *)

(* An AgentRuntimeProfile that is valid, and the connectors' commands.     *)
Profiles ==
  [id : Texts, model : Texts, template : Texts, rules : Texts, skills : Texts,
   connectors : SUBSET Connectors]
Commands == [Connectors -> Fields]

(* validate_profile_binding                                                *)
Bound(session, profile) ==
  /\ profile.id = session.profile /\ profile.model = session.model
  /\ profile.template = session.template
  /\ profile.rules = session.rules /\ profile.skills = session.skills
  /\ ConnectorsOf(session) \subseteq profile.connectors

(* The runtime and the contract of the run that the stored resolver finds. *)
Resolved(session, profile, commands, contract) ==
  [profile |-> profile.id, workspace |-> session.workspace, model |-> session.model,
   servers |-> [i \in DOMAIN session.connectors |->
                  [name |-> session.connectors[i], id |-> session.connectors[i],
                   command |-> commands[session.connectors[i]]]],
   digest |-> contract]

ServersOf(resolved) == {resolved.servers[i].id : i \in DOMAIN resolved.servers}

(* validate_resolved_task                                                  *)
MatchesEnvelope(session, resolved) ==
  /\ resolved.profile = session.profile /\ resolved.workspace = session.workspace
  /\ resolved.model = session.model
  /\ \A i, j \in DOMAIN resolved.servers : i # j =>
       /\ resolved.servers[i].id # resolved.servers[j].id
       /\ resolved.servers[i].name # resolved.servers[j].name
  /\ \A i \in DOMAIN resolved.servers :
       Blank \notin {resolved.servers[i].name, resolved.servers[i].id,
                     resolved.servers[i].command}
  /\ ServersOf(resolved) = ConnectorsOf(session)
  /\ resolved.digest = session.digest

(* Each server is given an authority, or the attempt fails.                *)
AuthoritiesGiven(resolved, grants) ==
  \A i \in DOMAIN resolved.servers : External(resolved.servers[i].id) \in grants

(* TaskMcpContext: the connectors asked for, and which were granted.       *)
McpContext(session, grants) ==
  {[connector |-> c, granted |-> External(c) \in grants] : c \in ConnectorsOf(session)}
=============================================================================
