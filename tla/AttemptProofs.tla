---------------------------- MODULE AttemptProofs ----------------------------
(***************************************************************************)
(* Proofs about one Task Session and its attempts: that an envelope which  *)
(* is accepted can be run (TaskEnvelopes), that every attempt runs with    *)
(* the Rules and Skills the session is bound to (SessionBindings), and     *)
(* that what an attempt left behind stops (AgentAttempts).                 *)
(***************************************************************************)
EXTENDS TaskEnvelopes, SessionBindings, AgentAttempts, TLAPS

-----------------------------------------------------------------------------
(* Envelopes: what one check lets through, no later one refuses.           *)

(* A stored envelope is one of an agent in version 1, or of a chat or an   *)
(* edit in version 2 with the input of its kind.                           *)
LEMMA AcceptedShape ==
  ASSUME NEW label, NEW envelope \in Envelopes, NEW grants, Accepted(label, envelope, grants)
  PROVE  /\ ValidEnvelope(envelope)
         /\ \/ envelope.version = 1 /\ OwnsRuntime(envelope.session)
            \/ envelope.version = 2 /\ ValidChat(envelope.session, envelope.input)
            \/ envelope.version = 2 /\ ValidEdit(envelope.session, envelope.input)
<1>1. envelope.version \in {1, 2}
  BY DEF Envelopes
<1>2. ValidEnvelope(envelope)
  BY DEF Accepted, EngineTakes
<1>3. CASE envelope.version = 1
  BY <1>2, <1>3 DEF Accepted, SubmitTakes, ContinueTakes
<1>4. CASE envelope.version = 2
  BY <1>2, <1>4 DEF ValidEnvelope, ValidPrompt
<1> QED BY <1>1, <1>3, <1>4

(* submit_task_session, resume_ and continue_, against TaskSessionExecutor,*)
(* finish_assignment, StoredCompletion::decode and recovery: the executor  *)
(* an accepted envelope is routed to takes it, its result can be staged    *)
(* under the session's ownership and decoded for the projector, and        *)
(* recovery tells it from an agent's exactly as the router does.  So no    *)
(* session that was accepted makes the engine retry for ever, hides the    *)
(* results of others or stops the recovery.                                *)
THEOREM AcceptedSessionsRun ==
  ASSUME NEW label, NEW envelope \in Envelopes, NEW grants, Accepted(label, envelope, grants)
  PROVE  LET chosen == Routed(envelope)
             output == OutputOf(chosen, envelope)
         IN /\ ExecutorTakes(chosen, envelope)
            /\ CanStage(output, Ownership(envelope))
            /\ CanDecode(output, envelope)
            /\ IsAgentRequest(envelope) = IF chosen = "agent" THEN "agent" ELSE "other"
<1> DEFINE chosen == Routed(envelope)
           output == OutputOf(chosen, envelope)
<1>1. ValidEnvelope(envelope)
  BY AcceptedShape
<1>2. CASE envelope.version = 1 /\ OwnsRuntime(envelope.session)
  <2>1. chosen = "agent" /\ output.kind = "agent"
    BY <1>2 DEF OwnsRuntime, Routed, OutputOf
  <2>2. CanStage(output, Ownership(envelope))
    BY <1>2, <2>1 DEF OwnsRuntime, ValidSession, CanStage, Ownership
  <2> QED
    BY <1>1, <1>2, <2>1, <2>2 DEF OwnsRuntime, ExecutorTakes, CanDecode, IsAgentRequest
<1>3. CASE envelope.version = 2 /\ ValidChat(envelope.session, envelope.input)
  <2>1. chosen = "prompt" /\ output.kind = "chat"
        /\ output.conversation = envelope.session.conversation
    BY <1>3 DEF ValidChat, Routed, OutputOf
  <2>2. envelope.session.workspace # Blank
    BY <1>1, <1>3 DEF ValidEnvelope, ValidPrompt, ValidSession
  <2>3. CanStage(output, Ownership(envelope))
    BY <2>1, <2>2 DEF CanStage, Ownership
  <2> QED
    BY <1>1, <1>3, <2>1, <2>3 DEF ValidChat, ExecutorTakes, CanDecode, IsAgentRequest
<1>4. CASE envelope.version = 2 /\ ValidEdit(envelope.session, envelope.input)
  <2>1. chosen = "prompt" /\ output.kind = "edit"
    BY <1>4 DEF ValidEdit, Routed, OutputOf
  <2>2. envelope.session.workspace # Blank
    BY <1>1, <1>4 DEF ValidEnvelope, ValidPrompt, ValidSession
  <2>3. CanStage(output, Ownership(envelope))
    BY <2>1, <2>2 DEF CanStage, Ownership
  <2> QED
    BY <1>1, <1>4, <2>1, <2>3 DEF ValidEdit, ExecutorTakes, CanDecode, IsAgentRequest
<1> QED BY <1>2, <1>3, <1>4, AcceptedShape

(* Whatever a resolver returns: an attempt that passes the check of what   *)
(* was resolved and is given the authorities of its servers runs exactly   *)
(* the servers that were asked for, each of them requested and granted, as *)
(* the context shown of the session says; a chat or an edit runs none.     *)
THEOREM RunsUseWhatWasGranted ==
  ASSUME NEW label, NEW envelope \in Envelopes, NEW grants, NEW resolved,
         Accepted(label, envelope, grants),
         MatchesEnvelope(envelope.session, resolved), AuthoritiesGiven(resolved, grants)
  PROVE  /\ \A c \in ServersOf(resolved) :
              External(c) \in grants \cap envelope.session.requested
         /\ McpContext(envelope.session, grants) =
              {[connector |-> c, granted |-> TRUE] : c \in ServersOf(resolved)}
         /\ envelope.session.kind # "agent" => ServersOf(resolved) = {}
<1>1. ServersOf(resolved) = ConnectorsOf(envelope.session)
  BY DEF MatchesEnvelope
<1>2. \A c \in ServersOf(resolved) : External(c) \in grants
  BY DEF ServersOf, AuthoritiesGiven
<1>3. grants \subseteq envelope.session.requested
  BY DEF Accepted, EngineTakes
<1>4. McpContext(envelope.session, grants) =
        {[connector |-> c, granted |-> TRUE] : c \in ServersOf(resolved)}
  BY <1>1, <1>2 DEF McpContext
<1>5. envelope.session.kind # "agent" => ServersOf(resolved) = {}
  <2>1. SUFFICES ASSUME envelope.session.kind # "agent"
                 PROVE  ConnectorsOf(envelope.session) = {}
    BY <1>1
  <2>2. envelope.version # 1 /\ ValidEnvelope(envelope)
    BY <2>1, AcceptedShape DEF OwnsRuntime
  <2> QED BY <2>2 DEF ValidEnvelope, ValidPrompt
<1> QED BY <1>2, <1>3, <1>4, <1>5

(* StoredAgentRuntimeResolver against validate_resolved_task: what it      *)
(* resolves for an accepted agent is refused only when a connector has no  *)
(* command or the contract of the run is not the one that was submitted.   *)
THEOREM ResolvedTasksMatch ==
  ASSUME NEW label, NEW envelope \in Envelopes, NEW grants, NEW profile \in Profiles,
         NEW commands \in Commands, NEW contract \in Fields,
         Accepted(label, envelope, grants), Bound(envelope.session, profile)
  PROVE  MatchesEnvelope(envelope.session,
                         Resolved(envelope.session, profile, commands, contract))
           <=> /\ contract = envelope.session.digest
               /\ \A c \in ConnectorsOf(envelope.session) : commands[c] # Blank
<1> DEFINE asked == envelope.session
           resolved == Resolved(asked, profile, commands, contract)
<1>1. ValidSession(asked)
  BY AcceptedShape DEF ValidEnvelope, ValidPrompt
<1>2. /\ DOMAIN resolved.servers = DOMAIN asked.connectors
      /\ \A i \in DOMAIN asked.connectors :
           /\ resolved.servers[i].name = asked.connectors[i]
           /\ resolved.servers[i].id = asked.connectors[i]
           /\ resolved.servers[i].command = commands[asked.connectors[i]]
  BY DEF Resolved
<1>3. ServersOf(resolved) = ConnectorsOf(asked)
  BY <1>2 DEF ServersOf, ConnectorsOf
<1>4. /\ resolved.profile = asked.profile /\ resolved.workspace = asked.workspace
      /\ resolved.model = asked.model /\ resolved.digest = contract
  BY DEF Bound, Resolved
<1>5. \A i, j \in DOMAIN resolved.servers : i # j =>
        /\ resolved.servers[i].id # resolved.servers[j].id
        /\ resolved.servers[i].name # resolved.servers[j].name
  BY <1>1, <1>2 DEF ValidSession, Distinct
<1>6. (\A i \in DOMAIN resolved.servers :
         Blank \notin {resolved.servers[i].name, resolved.servers[i].id,
                       resolved.servers[i].command})
        <=> \A c \in ConnectorsOf(asked) : commands[c] # Blank
  <2>1. \A i \in DOMAIN asked.connectors : asked.connectors[i] # Blank
    BY <1>1 DEF ValidSession, ConnectorsOf
  <2> QED BY <1>2, <2>1 DEF ConnectorsOf
<1> HIDE DEF resolved
<1>7. MatchesEnvelope(asked, resolved)
        <=> /\ contract = asked.digest
            /\ \A c \in ConnectorsOf(asked) : commands[c] # Blank
  BY <1>3, <1>4, <1>5, <1>6 DEF MatchesEnvelope
<1> QED BY <1>7 DEF resolved

-----------------------------------------------------------------------------
(* What the session is bound to.                                           *)
(*                                                                         *)
(* That the runtimes were given what is bound is not inductive: an attempt *)
(* carries what it resolved from its start to its runtime, while others    *)
(* may bind.  It has resolved what is bound if anything was bound then,    *)
(* and if nothing was, it is the one that binds.                           *)

(* The shapes the EXCEPTs rely on, and the bound on attempts.              *)
ShapesInv ==
  /\ attempt = [number |-> attempt.number, at |-> attempt.at, resolved |-> attempt.resolved]
  /\ attempt.number \in Nat /\ attempt.number <= SessionAttempts
  /\ ran = [a \in 1..SessionAttempts |-> ran[a]]

(* What an attempt resolved is what is bound, or nothing is bound yet.     *)
ResolvedInv ==
  /\ attempt.at = "govern" /\ bound # Ungoverned => attempt.resolved = bound
  /\ attempt.at \in {"manifest", "run"} => attempt.resolved = bound

RanInv == \A a \in 1..SessionAttempts : ran[a] \in {Ungoverned, bound}

BInv == ShapesInv /\ ResolvedInv /\ RanInv

(* An executor goes to another place with what it resolved.                *)
LEMMA AdvanceKeeps ==
  ASSUME ShapesInv, NEW place, Advance(place)
  PROVE  attempt' = [number |-> attempt.number, at |-> place, resolved |-> attempt.resolved]
BY DEF ShapesInv, Advance

(* The steps that neither bind nor run, and leave the attempt where no     *)
(* resolution counts.                                                      *)
LEMMA AwayKeeps ==
  ASSUME BInv, NEW place, place \notin {"govern", "manifest", "run"}, Advance(place),
         bound' = bound, ran' = ran
  PROVE  BInv'
<1>1. attempt' = [number |-> attempt.number, at |-> place, resolved |-> attempt.resolved]
  BY AdvanceKeeps DEF BInv
<1> QED BY <1>1 DEF BInv, ShapesInv, ResolvedInv, RanInv

LEMMA BInvInit == BindingsInit => BInv
BY BindingsAssumption DEF BindingsInit, BInv, ShapesInv, ResolvedInv, RanInv

LEMMA BInvNext == BInv /\ [BindingsNext]_bindingVars => BInv'
<1> SUFFICES ASSUME BInv, [BindingsNext]_bindingVars PROVE BInv'
  OBVIOUS
<1>1. CASE attempt' = attempt /\ bound' = bound /\ ran' = ran
  BY <1>1 DEF BInv, ShapesInv, ResolvedInv, RanInv
<1>2. CASE ClaimSession
  <2>1. /\ attempt' = [number |-> attempt.number + 1, at |-> "resolve", resolved |-> Ungoverned]
        /\ attempt.number < SessionAttempts /\ bound' = bound /\ ran' = ran
    BY <1>2 DEF ClaimSession
  <2> QED BY <2>1, BindingsAssumption DEF BInv, ShapesInv, ResolvedInv, RanInv
<1>3. CASE ResolveRuntime
  <2>1. CASE attempt' = [attempt EXCEPT !.at = "govern", !.resolved = Governed]
    <3>1. attempt' = [number |-> attempt.number, at |-> "govern", resolved |-> Governed]
      BY <2>1 DEF BInv, ShapesInv
    <3>2. bound # Ungoverned => Governed = bound
      BY DEF Governed
    <3>3. bound' = bound /\ ran' = ran
      BY <1>3 DEF ResolveRuntime
    <3> QED BY <3>1, <3>2, <3>3 DEF BInv, ShapesInv, ResolvedInv, RanInv
  <2>2. CASE EndWith("failed")
    BY <1>3, <2>2, AwayKeeps DEF ResolveRuntime, EndWith
  <2> QED BY <1>3, <2>1, <2>2 DEF ResolveRuntime
<1>4. CASE BindResolution
  <2>1. attempt' = [number |-> attempt.number, at |-> "manifest", resolved |-> attempt.resolved]
    BY <1>4, AdvanceKeeps DEF BindResolution, BInv
  <2>2. attempt.at = "govern" /\ ran' = ran
        /\ bound' = IF bound = Ungoverned THEN attempt.resolved ELSE bound
    BY <1>4 DEF BindResolution, Stands
  <2>3. attempt.resolved = bound'
    BY <2>2 DEF BInv, ResolvedInv
  <2>4. RanInv'
    BY <2>2 DEF BInv, RanInv
  <2> QED BY <2>1, <2>2, <2>3, <2>4 DEF BInv, ShapesInv, ResolvedInv
<1>5. CASE BindExecutionManifest
  <2>1. bound' = bound /\ ran' = ran /\ attempt.at = "manifest"
    BY <1>5 DEF BindExecutionManifest, Stands
  <2>2. CASE Advance("run")
    <3>1. attempt' = [number |-> attempt.number, at |-> "run", resolved |-> attempt.resolved]
      BY <2>2, AdvanceKeeps DEF BInv
    <3> QED BY <2>1, <3>1 DEF BInv, ShapesInv, ResolvedInv, RanInv
  <2>3. CASE EndWith("failed")
    BY <2>1, <2>3, AwayKeeps DEF EndWith
  <2> QED BY <1>5, <2>2, <2>3 DEF BindExecutionManifest
<1>6. CASE RunRuntime
  <2>1. attempt' = [number |-> attempt.number, at |-> "end", resolved |-> attempt.resolved]
    BY <1>6, AdvanceKeeps DEF RunRuntime, BInv
  <2>2. bound' = bound /\ attempt.resolved = bound
    BY <1>6 DEF RunRuntime, Stands, BInv, ResolvedInv
  <2>3. ran' = [a \in 1..SessionAttempts |-> IF a = attempt.number THEN bound ELSE ran[a]]
    BY <1>6, <2>2 DEF RunRuntime, BInv, ShapesInv
  <2>4. RanInv'
    BY <2>2, <2>3 DEF BInv, RanInv
  <2>5. ran' = [a \in 1..SessionAttempts |-> ran'[a]]
    BY <2>3
  <2> QED BY <2>1, <2>2, <2>4, <2>5 DEF BInv, ShapesInv, ResolvedInv
<1>7. CASE EndAttemptWith
  BY <1>7, AwayKeeps DEF EndAttemptWith, EndWith
<1>8. CASE RecoverSession
  BY <1>8, AwayKeeps DEF RecoverSession
<1> QED
  BY <1>1, <1>2, <1>3, <1>4, <1>5, <1>6, <1>7, <1>8
  DEF BindingsNext, bindingVars, ChangeSettings, OpenRoot, Submit, Resume

(* bind_governance_resolution and resolve: whatever is changed, resumed or *)
(* recovered between the attempts of a session, the runtime of each is     *)
(* given the one snapshot of Rules and Skills bound to the session.        *)
THEOREM GovernanceIsShared == BindingsSpec => []AttemptsShareGovernance
<1>1. BInv => AttemptsShareGovernance
  BY BindingsAssumption DEF BInv, ShapesInv, RanInv, AttemptsShareGovernance
<1> QED BY <1>1, BInvInit, BInvNext, PTL DEF BindingsSpec

-----------------------------------------------------------------------------
(* What an attempt left behind *)

InHand == {"change", "shell", "commit"}
Over(a) == a < active.attempt \/ (a = active.attempt /\ ~active.running)

StaleTypes ==
  /\ active \in [attempt : Nat, running : BOOLEAN]
  /\ tool \in [AttemptNumbers -> InHand \cup {"idle", "command"}]
  /\ pipe \in [AttemptNumbers -> Nat]
  /\ owed \in [AttemptNumbers -> [Servers -> Int]]

(* Once an attempt is over its servers let no more calls through, so that  *)
(* those they hold are among those they held at the end.  Attempts to come *)
(* have no servers.                                                        *)
StaleInv ==
  /\ StaleTypes
  /\ \A a \in AttemptNumbers : \A s \in Servers :
       /\ ~Over(a) => owed[a][s] = 0
       /\ Over(a) => LetThrough(a, s) <= owed[a][s]
       /\ s = "workspace" => owed[a][s] <= 1
  /\ \A a \in AttemptNumbers : a > active.attempt => tool[a] = "idle" /\ pipe[a] = 0

LEMMA StaleInitially == AttemptsInit => StaleInv
<1> SUFFICES ASSUME AttemptsInit PROVE StaleInv
  OBVIOUS
<1>1. StaleTypes
  BY DEF AttemptsInit, StaleTypes
<1>2. \A a \in AttemptNumbers : ~Over(a)
  BY DEF AttemptsInit, Over, AttemptNumbers
<1> QED
  BY <1>1, <1>2 DEF AttemptsInit, StaleInv

LEMMA LetThroughCounts ==
  ASSUME StaleTypes, NEW a \in AttemptNumbers, NEW s \in Servers
  PROVE  LetThrough(a, s) \in Nat /\ (s = "workspace" => LetThrough(a, s) <= 1)
BY DEF StaleTypes, LetThrough

(* A step that leaves the tools alone: what is over stays over, and only   *)
(* an attempt without tools is claimed.                                    *)
LEMMA StoreSteps ==
  ASSUME StaleInv, UNCHANGED <<tool, pipe, owed>>,
         active' \in [attempt : Nat, running : BOOLEAN],
         \/ active' = active
         \/ ~active.running /\ active'.attempt = active.attempt + 1 /\ active'.running
  PROVE  StaleInv'
<1>1. active \in [attempt : Nat, running : BOOLEAN]
  BY DEF StaleInv, StaleTypes
<1>2. ASSUME NEW a \in AttemptNumbers
      PROVE  (Over(a) <=> Over(a)') /\ (a > active'.attempt => a > active.attempt)
  BY <1>1 DEF Over, AttemptNumbers
<1>3. \A a \in AttemptNumbers : \A s \in Servers : LetThrough(a, s)' = LetThrough(a, s)
  BY DEF LetThrough
<1> QED
  BY <1>2, <1>3 DEF StaleInv, StaleTypes

(* The end of an assignment: what its servers hold is counted.             *)
LEMMA EndSteps ==
  ASSUME StaleInv, EndAssignment
  PROVE  StaleInv'
<1> DEFINE held == [s \in Servers |-> LetThrough(active.attempt, s)]
<1>1. /\ StaleTypes /\ active.running /\ active' = [active EXCEPT !.running = FALSE]
      /\ UNCHANGED <<tool, pipe>> /\ owed' = [owed EXCEPT ![active.attempt] = held]
      /\ active \in [attempt : Nat, running : BOOLEAN]
  BY DEF EndAssignment, StaleInv, StaleTypes
<1>2. /\ active' \in [attempt : Nat, running : BOOLEAN]
      /\ active'.attempt = active.attempt /\ ~active'.running
  BY <1>1
<1>3. \A a \in AttemptNumbers : \A s \in Servers : LetThrough(a, s)' = LetThrough(a, s)
  BY <1>1 DEF LetThrough
<1>4. \A a \in AttemptNumbers : owed'[a] = IF a = active.attempt THEN held ELSE owed[a]
  BY <1>1 DEF StaleTypes
<1>5. active.attempt \in AttemptNumbers => held \in [Servers -> Int]
  <2>1. ASSUME active.attempt \in AttemptNumbers
        PROVE  \A s \in Servers : LetThrough(active.attempt, s) \in Int
    BY <1>1, <2>1, LetThroughCounts
  <2> QED
    BY <2>1
<1>6. StaleTypes'
  BY <1>1, <1>2, <1>4, <1>5 DEF StaleTypes
<1>7. ASSUME NEW a \in AttemptNumbers, NEW s \in Servers
      PROVE  /\ ~Over(a)' => owed'[a][s] = 0
             /\ Over(a)' => LetThrough(a, s)' <= owed'[a][s]
             /\ s = "workspace" => owed'[a][s] <= 1
  <2>1. CASE a = active.attempt
    <3>1. owed'[a][s] = LetThrough(a, s)
      BY <1>4, <2>1
    <3>2. LetThrough(a, s) \in Nat /\ (s = "workspace" => LetThrough(a, s) <= 1)
      BY <1>1, LetThroughCounts
    <3>3. Over(a)'
      BY <1>2, <2>1 DEF Over
    <3> QED
      BY <1>3, <3>1, <3>2, <3>3
  <2>2. CASE a # active.attempt
    <3>1. owed'[a] = owed[a] /\ (Over(a)' <=> Over(a))
      BY <1>2, <1>4, <2>2 DEF Over
    <3> QED
      BY <1>3, <3>1 DEF StaleInv
  <2> QED
    BY <2>1, <2>2
<1> QED
  BY <1>1, <1>2, <1>6, <1>7 DEF StaleInv

(* A server takes a call on under a current assignment, goes on with it,   *)
(* begins it or puts it down, while the attempts stay.                     *)
LEMMA ToolSteps ==
  ASSUME StaleInv, UNCHANGED active, NEW a \in AttemptNumbers, NEW s \in Servers,
         tool' \in [AttemptNumbers -> InHand \cup {"idle", "command"}],
         pipe' \in [AttemptNumbers -> Nat],
         \A b \in AttemptNumbers : b # a => tool'[b] = tool[b] /\ pipe'[b] = pipe[b],
         \A t \in Servers : t # s => LetThrough(a, t)' = LetThrough(a, t),
         a <= active.attempt,
         \/ UNCHANGED owed /\ (Current(a) \/ LetThrough(a, s)' <= LetThrough(a, s))
         \/ TakeEffect(a, s) /\ LetThrough(a, s)' = LetThrough(a, s) - 1
  PROVE  StaleInv'
<1>1. StaleTypes /\ active \in [attempt : Nat, running : BOOLEAN] /\ a \in Nat
  BY DEF StaleInv, StaleTypes, AttemptNumbers
<1>2. \A b \in AttemptNumbers : Over(b)' <=> Over(b)
  BY DEF Over
<1>3. Current(a) <=> ~Over(a)
  BY <1>1 DEF Current, Over
<1>4. /\ owed' \in [AttemptNumbers -> [Servers -> Int]]
      /\ \A b \in AttemptNumbers : \A t \in Servers : b # a \/ t # s => owed'[b][t] = owed[b][t]
      /\ owed'[a][s] = owed[a][s]
         \/ /\ Over(a) /\ owed'[a][s] = owed[a][s] - 1
            /\ LetThrough(a, s)' = LetThrough(a, s) - 1
  <2>1. owed \in [AttemptNumbers -> [Servers -> Int]]
    BY <1>1 DEF StaleTypes
  <2>2. CASE owed' = owed
    BY <2>1, <2>2
  <2>3. CASE /\ Over(a) /\ owed' = [owed EXCEPT ![a][s] = @ - 1]
             /\ LetThrough(a, s)' = LetThrough(a, s) - 1
    BY <2>1, <2>3
  <2> QED
    BY <1>3, <2>2, <2>3 DEF TakeEffect
<1>5. Over(a) => \/ LetThrough(a, s)' <= LetThrough(a, s) /\ owed'[a][s] = owed[a][s]
                 \/ /\ LetThrough(a, s)' = LetThrough(a, s) - 1
                    /\ owed'[a][s] = owed[a][s] - 1
  <2>1. CASE UNCHANGED owed /\ (Current(a) \/ LetThrough(a, s)' <= LetThrough(a, s))
    BY <1>3, <2>1
  <2>2. CASE TakeEffect(a, s) /\ LetThrough(a, s)' = LetThrough(a, s) - 1
    BY <1>1, <1>3, <2>2 DEF TakeEffect, StaleTypes
  <2> QED
    BY <2>1, <2>2
<1>6. StaleTypes'
  BY <1>1, <1>4 DEF StaleTypes
<1>7. ASSUME NEW b \in AttemptNumbers, NEW t \in Servers
      PROVE  /\ LetThrough(b, t) \in Nat /\ LetThrough(b, t)' \in Nat
             /\ owed[b][t] \in Int
             /\ ~Over(b) => owed[b][t] = 0
             /\ Over(b) => LetThrough(b, t) <= owed[b][t]
             /\ t = "workspace" => owed[b][t] <= 1
  <2>1. LetThrough(b, t) \in Nat
    BY <1>1, LetThroughCounts
  <2>2. LetThrough(b, t)' \in Nat
    BY <1>6 DEF LetThrough, StaleTypes
  <2> QED
    BY <1>1, <2>1, <2>2 DEF StaleInv, StaleTypes
<1>8. ASSUME NEW b \in AttemptNumbers, NEW t \in Servers
      PROVE  /\ ~Over(b)' => owed'[b][t] = 0
             /\ Over(b)' => LetThrough(b, t)' <= owed'[b][t]
             /\ t = "workspace" => owed'[b][t] <= 1
  <2>1. CASE b # a
    <3>1. LetThrough(b, t)' = LetThrough(b, t)
      BY <2>1 DEF LetThrough
    <3> QED
      BY <1>2, <1>4, <1>7, <2>1, <3>1
  <2>2. CASE b = a /\ t # s
    BY <1>2, <1>4, <1>7, <2>2
  <2>3. CASE b = a /\ t = s
    <3>1. CASE Over(a)
      BY <1>2, <1>5, <1>7, <2>3, <3>1
    <3>2. CASE ~Over(a)
      BY <1>2, <1>4, <1>7, <2>3, <3>2
    <3> QED
      BY <3>1, <3>2
  <2> QED
    BY <2>1, <2>2, <2>3
<1>9. \A b \in AttemptNumbers : b > active'.attempt => tool'[b] = "idle" /\ pipe'[b] = 0
  BY <1>1 DEF StaleInv
<1> QED
  BY <1>6, <1>8, <1>9 DEF StaleInv

(* A step of the workspace tools.                                          *)
LEMMA WorkspaceSteps ==
  ASSUME StaleInv, UNCHANGED <<active, pipe>>, NEW a \in AttemptNumbers,
         NEW doing \in InHand \cup {"idle", "command"}, Tool(a, doing),
         Current(a) \/ tool[a] # "idle",
         \/ UNCHANGED owed /\ (doing \in InHand => Current(a) \/ tool[a] \in InHand)
         \/ TakeEffect(a, "workspace") /\ tool[a] \in InHand /\ doing \notin InHand
  PROVE  StaleInv'
<1>1. /\ tool \in [AttemptNumbers -> InHand \cup {"idle", "command"}]
      /\ pipe \in [AttemptNumbers -> Nat]
      /\ active \in [attempt : Nat, running : BOOLEAN] /\ a \in Nat
      /\ "workspace" \in Servers
  BY DEF StaleInv, StaleTypes, AttemptNumbers, Servers
<1>2. /\ tool' \in [AttemptNumbers -> InHand \cup {"idle", "command"}]
      /\ tool'[a] = doing
      /\ \A b \in AttemptNumbers : b # a => tool'[b] = tool[b]
  BY <1>1 DEF Tool
<1>3. a <= active.attempt
  BY <1>1 DEF StaleInv, Current
<1>4. \A t \in Servers : t # "workspace" => LetThrough(a, t)' = LetThrough(a, t)
  BY DEF LetThrough, Servers
<1>5. /\ LetThrough(a, "workspace") = IF tool[a] \in InHand THEN 1 ELSE 0
      /\ LetThrough(a, "workspace")' = IF doing \in InHand THEN 1 ELSE 0
  BY <1>2 DEF LetThrough, InHand
<1>6. CASE UNCHANGED owed /\ (doing \in InHand => Current(a) \/ tool[a] \in InHand)
  <2>1. Current(a) \/ LetThrough(a, "workspace")' <= LetThrough(a, "workspace")
    BY <1>5, <1>6
  <2> QED
    BY <1>1, <1>2, <1>3, <1>4, <1>6, <2>1, ToolSteps
<1>7. CASE TakeEffect(a, "workspace") /\ tool[a] \in InHand /\ doing \notin InHand
  <2>1. LetThrough(a, "workspace")' = LetThrough(a, "workspace") - 1
    BY <1>5, <1>7
  <2> QED
    BY <1>1, <1>2, <1>3, <1>4, <1>7, <2>1, ToolSteps
<1> QED
  BY <1>6, <1>7

(* A step of the proxy or of its connector.                                *)
LEMMA PipeSteps ==
  ASSUME StaleInv, UNCHANGED <<active, tool>>, NEW a \in AttemptNumbers, NEW calls \in Nat,
         pipe' = [pipe EXCEPT ![a] = calls], Current(a) \/ pipe[a] # 0,
         \/ UNCHANGED owed /\ Current(a)
         \/ TakeEffect(a, "connector") /\ calls = pipe[a] - 1
  PROVE  StaleInv'
<1>1. /\ tool \in [AttemptNumbers -> InHand \cup {"idle", "command"}]
      /\ pipe \in [AttemptNumbers -> Nat]
      /\ active \in [attempt : Nat, running : BOOLEAN] /\ a \in Nat
      /\ "connector" \in Servers
  BY DEF StaleInv, StaleTypes, AttemptNumbers, Servers
<1>2. /\ pipe' \in [AttemptNumbers -> Nat]
      /\ pipe'[a] = calls
      /\ \A b \in AttemptNumbers : b # a => pipe'[b] = pipe[b]
  BY <1>1
<1>3. a <= active.attempt
  BY <1>1 DEF StaleInv, Current
<1>4. \A t \in Servers : t # "connector" => LetThrough(a, t)' = LetThrough(a, t)
  BY DEF LetThrough
<1>5. LetThrough(a, "connector") = pipe[a] /\ LetThrough(a, "connector")' = calls
  BY <1>2 DEF LetThrough
<1>6. \A b \in AttemptNumbers : b # a => tool'[b] = tool[b] /\ pipe'[b] = pipe[b]
  BY <1>2
<1>7. CASE UNCHANGED owed /\ Current(a)
  BY <1>1, <1>2, <1>3, <1>4, <1>6, <1>7, ToolSteps
<1>8. CASE TakeEffect(a, "connector") /\ calls = pipe[a] - 1
  BY <1>1, <1>2, <1>3, <1>4, <1>5, <1>6, <1>8, ToolSteps
<1> QED
  BY <1>7, <1>8

LEMMA StaleStep ==
  ASSUME StaleInv, AttemptsNext
  PROVE  StaleInv'
<1>1. active \in [attempt : Nat, running : BOOLEAN]
  BY DEF StaleInv, StaleTypes
<1>2. CASE Claim
  <2>1. active' = [attempt |-> active.attempt + 1, running |-> TRUE] /\ ~active.running
    BY <1>2 DEF Claim
  <2>2. UNCHANGED <<tool, pipe, owed>>
    BY <1>2 DEF Claim, RuntimeKeeps, ToolsKeep
  <2> QED
    BY <1>1, <2>1, <2>2, StoreSteps
<1>3. CASE EndAssignment
  BY <1>3, EndSteps
<1>4. ASSUME UNCHANGED <<active, tool, pipe, owed>> PROVE StaleInv'
  BY <1>1, <1>4, StoreSteps
<1>5. ASSUME NEW a \in AttemptNumbers,
             \/ Abandon(a) \/ RefuseResolved(a) \/ Resolve(a) \/ BindGovernance(a)
             \/ BindManifest(a) \/ StartRuntime(a) \/ BindConversation(a) \/ EndExecution(a)
             \/ RuntimeExits(a)
      PROVE  StaleInv'
  BY <1>4, <1>5
     DEF Abandon, RefuseResolved, Resolve, BindGovernance, BindManifest, StartRuntime,
         BindConversation, EndExecution, RuntimeExits, StoreKeeps, RuntimeKeeps, ToolsKeep
<1>6. ASSUME NEW a \in AttemptNumbers, AuthorizeAgain(a) \/ Commit(a) \/ StartShell(a) \/ EndShell(a)
      PROVE  StaleInv'
  <2>1. UNCHANGED <<active, pipe>>
    BY <1>6 DEF AuthorizeAgain, Commit, StartShell, EndShell, OthersKeep, StoreKeeps
  <2>2. CASE AuthorizeAgain(a)
    BY <2>1, <2>2, WorkspaceSteps DEF AuthorizeAgain, InHand
  <2>3. CASE Commit(a)
    BY <2>1, <2>3, WorkspaceSteps DEF Commit, InHand
  <2>4. CASE StartShell(a)
    BY <2>1, <2>4, WorkspaceSteps DEF StartShell, InHand
  <2>5. CASE EndShell(a)
    BY <2>1, <2>5, WorkspaceSteps DEF EndShell, InHand
  <2> QED
    BY <1>6, <2>2, <2>3, <2>4, <2>5
<1>7. ASSUME NEW a \in AttemptNumbers, NEW s \in Servers, Authorize(a, s) PROVE StaleInv'
  <2>1. Current(a) /\ UNCHANGED <<active, owed>>
    BY <1>7 DEF Authorize, LetCall, HoldsAuthority, OthersKeep, StoreKeeps
  <2>2. CASE /\ \E call \in {"change", "shell"} : Tool(a, call)
             /\ UNCHANGED pipe
    BY <2>1, <2>2, WorkspaceSteps DEF InHand
  <2>3. CASE pipe' = [pipe EXCEPT ![a] = @ + 1] /\ UNCHANGED tool
    <3>1. pipe[a] + 1 \in Nat
      BY DEF StaleInv, StaleTypes
    <3> QED
      BY <2>1, <2>3, <3>1, PipeSteps
  <2> QED
    BY <1>7, <2>2, <2>3 DEF Authorize, LetCall
<1>8. ASSUME NEW a \in AttemptNumbers, NEW change \in BOOLEAN, Forward(a, change) PROVE StaleInv'
  <2>1. /\ UNCHANGED <<active, tool>> /\ TakeEffect(a, "connector") /\ pipe[a] > 0
        /\ pipe' = [pipe EXCEPT ![a] = pipe[a] - 1] /\ pipe[a] \in Nat
    BY <1>8 DEF Forward, OthersKeep, StoreKeeps, StaleInv, StaleTypes
  <2>2. pipe[a] - 1 \in Nat /\ pipe[a] # 0
    BY <2>1
  <2> QED
    BY <2>1, <2>2, PipeSteps
<1> QED
  BY <1>2, <1>3, <1>5, <1>6, <1>7, <1>8 DEF AttemptsNext

(* A tool server that its assignment left behind begins to carry out no    *)
(* more calls than it had let through in time, and the workspace tools at  *)
(* most one: for any number of attempts of the session, and however many   *)
(* calls are in the pipe to a connector.                                   *)
THEOREM StaleToolsAreStopped == AttemptsSpec => []StaleToolsStop
<1>1. StaleInv /\ [AttemptsNext]_attemptVars => StaleInv'
  <2>1. ASSUME StaleInv, UNCHANGED attemptVars PROVE StaleInv'
    <3>1. UNCHANGED <<active, tool, pipe, owed>>
      BY <2>1 DEF attemptVars
    <3>2. active' \in [attempt : Nat, running : BOOLEAN]
      BY <2>1, <3>1 DEF StaleInv, StaleTypes
    <3> QED
      BY <2>1, <3>1, <3>2, StoreSteps
  <2> QED
    BY <2>1, StaleStep
<1>2. StaleInv => StaleToolsStop
  <2>1. ASSUME StaleInv, NEW a \in AttemptNumbers, NEW s \in Servers
        PROVE  owed[a][s] >= 0 /\ (s = "workspace" => owed[a][s] <= 1)
    <3>1. LetThrough(a, s) \in Nat /\ owed[a][s] \in Int
      BY <2>1, LetThroughCounts DEF StaleInv, StaleTypes
    <3>2. /\ ~Over(a) => owed[a][s] = 0
          /\ Over(a) => LetThrough(a, s) <= owed[a][s]
          /\ s = "workspace" => owed[a][s] <= 1
      BY <2>1 DEF StaleInv
    <3> QED
      BY <3>1, <3>2
  <2> QED
    BY <2>1 DEF StaleToolsStop
<1> QED
  BY <1>1, <1>2, StaleInitially, PTL DEF AttemptsSpec
=============================================================================
