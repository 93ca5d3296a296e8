-------------------------- MODULE ConnectorProofs --------------------------
(***************************************************************************)
(* Proofs about the OpenShift connector: that the process works out from   *)
(* its environment the cluster that the preflight tested (ClusterIdentity), *)
(* that a draft marked as passed was tested (OcpConfiguration), and that   *)
(* the API server is spared calls and changes (OcpConnector).              *)
(***************************************************************************)
EXTENDS OcpConfiguration, OcpConnector, SequenceTheorems, TLAPS

-----------------------------------------------------------------------------
(* The cluster of the environment is the cluster of the form.              *)

(* ocp_mode_from_env guesses the mode from the variables there are.  For   *)
(* the environment of a valid form it guesses the mode of the form.        *)
LEMMA ModeIsGuessed ==
  ASSUME NEW form \in Forms, NEW secrets \in Secrets, Valid(form, secrets)
  PROVE  ModeOf(EnvironmentOf(form, secrets)) = form.mode
BY DEF Forms, AuthModes, Valid, ModeOf, EnvironmentOf

(* ocp_preflight tests resolve_cluster_from_spec, and agent runs use       *)
(* resolve_cluster: where the environment check of the preflight passes    *)
(* they name one cluster, certificate authority, identity and namespace.   *)
(* Where it fails they need not: an anonymous kubeconfig is refused by the *)
(* one and given the stored token by the other.                            *)
THEOREM ConnectorUsesTestedCluster ==
  ASSUME NEW form \in Forms, NEW secrets \in Secrets, NEW world \in Worlds,
         Presentable(FromForm(form, secrets, world))
  PROVE  FromEnvironment(EnvironmentOf(form, secrets), world) = FromForm(form, secrets, world)
<1> DEFINE env == EnvironmentOf(form, secrets)
<1>1. Valid(form, secrets)
  BY DEF Presentable, FromForm, Unresolved
<1>2. ModeOf(env) = form.mode
  BY <1>1, ModeIsGuessed
<1>3. CASE form.mode = "kubeconfig"
  <2> DEFINE cluster == FromKubeconfig(world.kubeconfig[form.kubeconfig][form.context])
  <2>1. FromForm(form, secrets, world) = cluster
    BY <1>1, <1>3 DEF FromForm
  <2>2. cluster.found /\ cluster.credentials # Anonymous
    BY <2>1 DEF Presentable, HasIdentity
  <2>3. env.kubeconfig = form.kubeconfig /\ env.context = form.context
    BY <1>3 DEF EnvironmentOf
  <2>4. FromEnvironment(env, world) = cluster
    BY <1>2, <1>3, <2>2, <2>3 DEF FromEnvironment
  <2> QED BY <2>1, <2>4
<1>4. CASE form.mode = "api_server_token"
  BY <1>1, <1>2, <1>4 DEF FromForm, FromEnvironment, EnvironmentOf
<1>5. CASE form.mode = "in_cluster"
  BY <1>1, <1>2, <1>5 DEF FromForm, FromEnvironment
<1> QED BY <1>3, <1>4, <1>5 DEF Forms, AuthModes

-----------------------------------------------------------------------------
(* A draft of the connector that is marked as passed was tested.           *)
(*                                                                         *)
(* The mark is put on a file by a preflight that has come a long way since *)
(* the identity was tested, and the file may have been written in between. *)
(* The inductive invariant says that a preflight beyond that stage is of a *)
(* tested spec, which stays tested, and that it marks that spec only.      *)

TestedPlaces == {"rights", "passed", "mark"}
EarlyPlaces == {"resolve", "connect", "identify"}

PreflightShape ==
  preflight \in [at : {"none", "promote"}]
                  \cup [at : EarlyPlaces \cup TestedPlaces, spec : Specs]
DraftShape == draft \in {NoFile} \cup [spec : Specs, passed : BOOLEAN]
WriterShape == writer \in [at : {"none", "reset", "environment"}] \cup [at : {"draft"}, spec : Specs]

(* What a preflight works on once a server did not refuse the identity.    *)
LatePreflightsTested == preflight.at \in TestedPlaces => preflight.spec \in tested

CInv ==
  /\ PreflightShape /\ DraftShape /\ WriterShape
  /\ LatePreflightsTested
  /\ MarkedDraftsWereTested

(* Where a stage of a preflight leads.                                     *)
LEMMA StageLeads ==
  ASSUME PreflightShape, preflight.at \in EarlyPlaces \cup TestedPlaces,
         NEW passed, NEW next \in EarlyPlaces \cup TestedPlaces,
         Stage(passed, next)
  PROVE  \/ preflight' = [at |-> next, spec |-> preflight.spec] /\ preflight.spec \in Specs
         \/ preflight' = Resting
BY DEF PreflightShape, EarlyPlaces, TestedPlaces, Stage, Resting

(* An identity that was accepted was not refused.                          *)
LEMMA AcceptedWasTested ==
  ASSUME NEW answer \in Answers, IdentityAccepted(answer)
  PROVE  answer \notin {"401", "403", "timeout", "dns", "tls", "refused"}
BY DEF IdentityAccepted, ResultOf, ErrorOf, Direct, Asking, Answers, Statuses, Failures

(* The steps that leave the preflight and the tested specs alone and write *)
(* no mark.                                                                *)
LEMMA WritersKeep ==
  ASSUME CInv, preflight' = preflight, tested' = tested, WriterShape',
         \/ draft' = draft
         \/ draft' = NoFile
         \/ draft' \in [spec : Specs, passed : {FALSE}]
  PROVE  CInv'
BY DEF CInv, PreflightShape, DraftShape, LatePreflightsTested, MarkedDraftsWereTested

(* Those of a preflight that do not touch the draft.                       *)
LEMMA PreflightKeeps ==
  ASSUME CInv, draft' = draft, writer' = writer, tested \subseteq tested',
         PreflightShape', LatePreflightsTested'
  PROVE  CInv'
BY DEF CInv, DraftShape, WriterShape, MarkedDraftsWereTested

LEMMA CInvInit == ConfigurationInit => CInv
BY DEF ConfigurationInit, Resting, CInv, PreflightShape, DraftShape, WriterShape,
       LatePreflightsTested, TestedPlaces, MarkedDraftsWereTested

LEMMA CInvNext == CInv /\ [ConfigurationNext]_configurationVars => CInv'
<1> SUFFICES ASSUME CInv, [ConfigurationNext]_configurationVars PROVE CInv'
  OBVIOUS
<1> USE DEF Resting
<1>1. CASE UNCHANGED configurationVars
  BY <1>1 DEF configurationVars, CInv, PreflightShape, DraftShape, WriterShape,
              LatePreflightsTested, MarkedDraftsWereTested
<1>2. ASSUME NEW spec \in Specs, NEW token \in Tokens, SaveDraft(spec, token) PROVE CInv'
  <2>1. WriterShape'
    BY <1>2 DEF SaveDraft, WriterShape
  <2> QED BY <1>2, <2>1, WritersKeep DEF SaveDraft
<1>3. ASSUME NEW token \in Tokens, Rotate(token) PROVE CInv'
  <2>1. WriterShape'
    BY <1>3 DEF Rotate, WriterShape
  <2> QED BY <1>3, <2>1, WritersKeep DEF Rotate
<1>4. CASE WriteDraft
  <2>1. writer.spec \in Specs
    BY <1>4 DEF WriteDraft, CInv, WriterShape
  <2>2. WriterShape'
    BY <1>4 DEF WriteDraft, WriterShape
  <2> QED BY <1>4, <2>1, <2>2, WritersKeep DEF WriteDraft
<1>5. CASE WriteEnvironment
  <2>1. WriterShape'
    BY <1>5 DEF WriteEnvironment, WriterShape
  <2> QED BY <1>5, <2>1, WritersKeep DEF WriteEnvironment
<1>6. CASE ResetPreflight
  <2>1. WriterShape'
    BY <1>6 DEF ResetPreflight, WriterShape
  <2>2. CASE draft = NoFile
    BY <1>6, <2>1, <2>2, WritersKeep DEF ResetPreflight
  <2>3. CASE draft # NoFile
    <3>1. draft \in [spec : Specs, passed : BOOLEAN]
      BY <2>3 DEF CInv, DraftShape
    <3>2. draft' = [draft EXCEPT !.passed = FALSE]
      BY <1>6, <2>3 DEF ResetPreflight
    <3>3. draft' \in [spec : Specs, passed : {FALSE}]
      BY <3>1, <3>2
    <3> QED BY <1>6, <2>1, <3>3, WritersKeep DEF ResetPreflight
  <2> QED BY <2>2, <2>3
<1>7. CASE DeleteConnector
  BY <1>7, WritersKeep DEF DeleteConnector, CInv, WriterShape
<1>8. CASE StartConnector
  BY <1>8, WritersKeep DEF StartConnector, CInv, WriterShape
<1>9. ASSUME NEW spec \in Specs, StartPreflight(spec) PROVE CInv'
  <2>1. preflight' = [at |-> "resolve", spec |-> spec]
    BY <1>9 DEF StartPreflight
  <2>2. PreflightShape' /\ LatePreflightsTested'
    BY <2>1 DEF PreflightShape, LatePreflightsTested, EarlyPlaces, TestedPlaces
  <2> QED BY <1>9, <2>2, PreflightKeeps DEF StartPreflight
<1>10. CASE ResolveTested
  <2>1. PICK passed \in FirstStages : Stage(passed, "connect")
    BY <1>10 DEF ResolveTested
  <2>2. \/ preflight' = [at |-> "connect", spec |-> preflight.spec] /\ preflight.spec \in Specs
        \/ preflight' = Resting
    BY <1>10, <2>1, StageLeads DEF ResolveTested, CInv, EarlyPlaces
  <2>3. PreflightShape' /\ LatePreflightsTested'
    BY <2>2 DEF PreflightShape, LatePreflightsTested, EarlyPlaces, TestedPlaces
  <2> QED BY <1>10, <2>3, PreflightKeeps DEF ResolveTested
<1>11. CASE AskServer
  <2>1. PICK answer \in Answers : Stage(ServerAnswers(answer), "identify")
    BY <1>11 DEF AskServer
  <2>2. \/ preflight' = [at |-> "identify", spec |-> preflight.spec] /\ preflight.spec \in Specs
        \/ preflight' = Resting
    BY <1>11, <2>1, StageLeads DEF AskServer, CInv, EarlyPlaces, ServerAnswers
  <2>3. PreflightShape' /\ LatePreflightsTested'
    BY <2>2 DEF PreflightShape, LatePreflightsTested, EarlyPlaces, TestedPlaces
  <2> QED BY <1>11, <2>3, PreflightKeeps DEF AskServer
<1>12. CASE TestIdentity
  <2>1. PICK answer \in Answers :
          /\ Stage(IdentityAccepted(answer), "rights")
          /\ tested' = IF answer \notin {"401", "403", "timeout", "dns", "tls", "refused"}
                       THEN tested \cup {preflight.spec} ELSE tested
    BY <1>12 DEF TestIdentity
  <2>2. CASE IdentityAccepted(answer)
    <3>1. preflight' = [at |-> "rights", spec |-> preflight.spec] /\ preflight.spec \in Specs
      BY <1>12, <2>1, <2>2
      DEF TestIdentity, Stage, CInv, PreflightShape, EarlyPlaces, TestedPlaces
    <3>2. tested' = tested \cup {preflight.spec}
      BY <2>1, <2>2, AcceptedWasTested
    <3>3. PreflightShape' /\ LatePreflightsTested'
      BY <3>1, <3>2 DEF PreflightShape, LatePreflightsTested, EarlyPlaces, TestedPlaces
    <3> QED BY <1>12, <3>2, <3>3, PreflightKeeps DEF TestIdentity
  <2>3. CASE ~IdentityAccepted(answer)
    <3>1. preflight' = Resting
      BY <2>1, <2>3 DEF Stage
    <3>2. PreflightShape' /\ LatePreflightsTested'
      BY <3>1 DEF PreflightShape, LatePreflightsTested, TestedPlaces
    <3> QED BY <1>12, <2>1, <3>2, PreflightKeeps DEF TestIdentity
  <2> QED BY <2>2, <2>3
<1>13. CASE TestRights
  <2>1. PICK granted \in {RightsGranted(pods, "success") : pods \in Answers}
                         \cup {RightsGranted("success", deployments) : deployments \in Answers} :
          Stage(granted, "passed")
    BY <1>13 DEF TestRights
  <2>2. \/ preflight' = [at |-> "passed", spec |-> preflight.spec] /\ preflight.spec \in Specs
        \/ preflight' = Resting
    BY <1>13, <2>1, StageLeads DEF TestRights, CInv, TestedPlaces
  <2>3. preflight.spec \in tested
    BY <1>13 DEF TestRights, CInv, LatePreflightsTested, TestedPlaces
  <2>4. PreflightShape' /\ LatePreflightsTested'
    BY <1>13, <2>2, <2>3
    DEF TestRights, PreflightShape, LatePreflightsTested, EarlyPlaces, TestedPlaces
  <2> QED BY <1>13, <2>4, PreflightKeeps DEF TestRights
<1>14. CASE ReadTested
  <2>1. preflight.spec \in Specs /\ preflight.spec \in tested
    BY <1>14 DEF ReadTested, CInv, PreflightShape, LatePreflightsTested, EarlyPlaces, TestedPlaces
  <2>2. PreflightShape' /\ LatePreflightsTested'
    BY <1>14, <2>1
    DEF ReadTested, PreflightShape, LatePreflightsTested, EarlyPlaces, TestedPlaces
  <2> QED BY <1>14, <2>2, PreflightKeeps DEF ReadTested
<1>15. CASE MarkDraft
  <2>1. preflight.spec \in Specs /\ preflight.spec \in tested
    BY <1>15 DEF MarkDraft, CInv, PreflightShape, LatePreflightsTested, EarlyPlaces, TestedPlaces
  <2>2. PreflightShape' /\ LatePreflightsTested'
    BY <1>15 DEF MarkDraft, PreflightShape, LatePreflightsTested, TestedPlaces
  <2>3. CASE draft' = draft
    BY <1>15, <2>2, <2>3, PreflightKeeps DEF MarkDraft
  <2>4. CASE draft' = [spec |-> preflight.spec, passed |-> TRUE]
    <3>1. DraftShape' /\ MarkedDraftsWereTested'
      BY <1>15, <2>1, <2>4 DEF MarkDraft, DraftShape, MarkedDraftsWereTested
    <3> QED BY <1>15, <2>2, <3>1 DEF MarkDraft, CInv, WriterShape
  <2> QED BY <1>15, <2>3, <2>4 DEF MarkDraft
<1>16. CASE PromoteDraft
  <2>1. PreflightShape' /\ LatePreflightsTested'
    BY <1>16 DEF PromoteDraft, PreflightShape, LatePreflightsTested, TestedPlaces
  <2> QED BY <1>16, <2>1, PreflightKeeps DEF PromoteDraft
<1> QED
  BY <1>1, <1>2, <1>3, <1>4, <1>5, <1>6, <1>7, <1>8, <1>9, <1>10, <1>11, <1>12, <1>13,
     <1>14, <1>15, <1>16
  DEF ConfigurationNext

(* A draft that is marked as passed holds a spec that a server was asked   *)
(* about and did not refuse, whatever saves, rotations and deletions come  *)
(* between the steps of a preflight (ocp_preflight, set_preflight_passed). *)
THEOREM MarksMeanTested == ConfigurationSpec => []MarkedDraftsWereTested
<1>1. CInv => MarkedDraftsWereTested
  BY DEF CInv
<1> QED BY <1>1, CInvInit, CInvNext, PTL DEF ConfigurationSpec

-----------------------------------------------------------------------------
(* What the connector asks of the API server.                              *)
(*                                                                         *)
(* Two counts, of the calls that reach the server while the breaker is not *)
(* closed and of the changes sent.  The first is kept by the trial mark: a *)
(* call under way after Threshold failures has it, and what has reached    *)
(* the server in this window has left the window open or the mark taken.   *)
(* The second by the order of a tool's requests: a change is the last of   *)
(* them, and its approval was used up before the first.                    *)

Verbs == {"discover", "list", "get"} \cup GenericChanges
Requests == [verb : Verbs, version : {"none", "core", "events", "other"}]
Breakers == [failures : Nat, until : {"none", "open", "past"}, trial : BOOLEAN]
Servings ==
  [tool : Tools \cup {"none"}, todo : Seq(Requests), attempt : Nat, sent : BOOLEAN, reached : BOOLEAN]

(* The requests a tool may still have to do.                               *)
Orderly(tool, todo) ==
  /\ todo \in Seq(Requests) /\ todo # <<>>
  /\ \A i \in 1..Len(todo) :
       /\ todo[i].verb = "discover" => i < Len(todo)
       /\ Changing(todo[i]) => tool \in Mutations /\ i = Len(todo)
       /\ todo[i].version = "events" => tool \notin Mutations

(* A breaker, with a number of calls that reached the server.              *)
Sound(b, reached) ==
  /\ b \in Breakers
  /\ b.failures >= Threshold <=> b.until # "none"
  /\ b.trial => b.until = "past"
  /\ reached \in {0, 1}
  /\ reached = 1 => b.until = "open" \/ b.trial

CallIsTrial ==
  serving # Idle =>
    /\ breaker.until # "open"
    /\ breaker.failures >= Threshold =>
         breaker.trial /\ (~serving.reached => probes = 0)

ChangeIsApproved ==
  /\ changes \in {0, 1}
  /\ approval.state = "unused" => changes = 0
  /\ serving # Idle =>
       /\ serving.tool \in Tools /\ Orderly(serving.tool, serving.todo)
       /\ serving.tool \in Mutations =>
            /\ approval.state = "used"
            /\ ~serving.sent \/ ~Changing(Head(serving.todo)) => changes = 0

ConnectorInv ==
  /\ Sound(breaker, probes)
  /\ serving \in Servings
  /\ approval \in [of : Mutations, state : {"unused", "used"}] \cup [of : {"nothing"}, state : {"none"}]
  /\ CallIsTrial
  /\ ChangeIsApproved

(* A change is the last request of its tool.                               *)
LEMMA RequestsAreOrderly ==
  ASSUME NEW tool \in Tools
  PROVE  Orderly(tool, RequestsOf(tool))
<1> USE DEF Tools, Mutations, GenericChanges, Reads, GenericReads
<1>1. ASSUME NEW verb \in {"list", "get"}, NEW version \in {"core", "events", "other"},
             tool \notin Mutations
      PROVE  Orderly(tool, Discovered(version, verb))
  BY <1>1 DEF Orderly, Discovered, Discover, Asking, Requests, Verbs, Changing
<1>2. ASSUME NEW verb \in GenericChanges, tool \in GenericChanges
      PROVE  Orderly(tool, Discovered("other", verb))
  BY <1>2 DEF Orderly, Discovered, Discover, Asking, Requests, Verbs, Changing
<1>3. ASSUME NEW verb \in {"list", "get"}, tool \notin Mutations
      PROVE  Orderly(tool, <<Direct(verb)>>)
  BY <1>3 DEF Orderly, Direct, Asking, Requests, Verbs, Changing
<1>4. tool \in Mutations => Orderly(tool, <<Direct("patch")>>)
  BY DEF Orderly, Direct, Asking, Requests, Verbs, Changing
<1>5. tool \in Mutations => Orderly(tool, <<Direct("get"), Direct("delete")>>)
  BY DEF Orderly, Direct, Asking, Requests, Verbs, Changing
<1>6. CASE tool \in GenericChanges
  BY <1>2, <1>6 DEF RequestsOf, ChangeGenerically
<1>7. CASE tool \in GenericReads
  <2>1. \/ RequestsOf(tool) = Discovered("other", "list")
        \/ RequestsOf(tool) = Discovered("other", "get")
        \/ RequestsOf(tool) = Discovered("core", "list")
        \/ RequestsOf(tool) = Discovered("events", "list")
    BY <1>7 DEF RequestsOf, ListEvents, ListNamespaces, ReadGenerically
  <2> QED
    BY <1>1, <1>7, <2>1
<1>8. CASE tool \in {"restart", "scale", "delete_pod"}
  BY <1>4, <1>5, <1>8 DEF RequestsOf
<1>9. CASE tool \in {"list_kind", "list_core", "get_pod", "logs"}
  BY <1>3, <1>9 DEF RequestsOf
<1> QED
  BY <1>6, <1>7, <1>8, <1>9

(* What a tool has left, after one of its requests or in their place.      *)
LEMMA RestIsOrderly ==
  ASSUME NEW tool, NEW todo, Orderly(tool, todo)
  PROVE  /\ Len(todo) > 1 => Orderly(tool, Tail(todo))
         /\ Head(todo).verb = "discover" => Len(todo) > 1
         /\ Head(todo).version = "events" => Orderly(tool, Legacy)
         /\ Changing(Head(todo)) => tool \in Mutations
         /\ Len(todo) > 1 => ~Changing(Head(todo))
         /\ Head(todo) \in Requests
<1>1. /\ todo \in Seq(Requests) /\ Len(todo) \in Nat /\ Len(todo) > 0
      /\ Head(todo) = todo[1] /\ todo[1] \in Requests
  BY DEF Orderly
<1>2. ASSUME Len(todo) > 1 PROVE Orderly(tool, Tail(todo))
  <2> DEFINE rest == Tail(todo)
  <2>1. /\ rest \in Seq(Requests) /\ Len(rest) = Len(todo) - 1
        /\ \A i \in 1..Len(rest) : rest[i] = todo[i + 1]
    BY <1>1, HeadTailProperties
  <2>2. rest # <<>>
    <3>1. Len(rest) > 0
      BY <1>1, <1>2, <2>1
    <3> HIDE DEF rest
    <3> QED
      BY <3>1
  <2> HIDE DEF rest
  <2>3. ASSUME NEW i \in 1..Len(rest)
        PROVE  /\ rest[i].verb = "discover" => i < Len(rest)
               /\ Changing(rest[i]) => tool \in Mutations /\ i = Len(rest)
               /\ rest[i].version = "events" => tool \notin Mutations
    <3>1. i + 1 \in 1..Len(todo) /\ rest[i] = todo[i + 1] /\ i \in Nat
      BY <1>1, <2>1
    <3>2. /\ rest[i].verb = "discover" => i + 1 < Len(todo)
          /\ Changing(rest[i]) => tool \in Mutations /\ i + 1 = Len(todo)
          /\ rest[i].version = "events" => tool \notin Mutations
      BY <3>1 DEF Orderly
    <3> QED
      BY <1>1, <2>1, <3>1, <3>2
  <2>4. Orderly(tool, rest)
    BY <2>1, <2>2, <2>3 DEF Orderly
  <2> QED
    BY <2>4 DEF rest
<1>3. todo[1].version = "events" => Orderly(tool, Legacy)
  BY <1>1 DEF Orderly, Legacy, Discovered, Discover, Asking, Requests, Verbs, Changing, GenericChanges
<1>4. /\ todo[1].verb = "discover" => 1 < Len(todo)
      /\ Changing(todo[1]) => tool \in Mutations /\ ~(Len(todo) > 1)
  <2>1. 1 \in 1..Len(todo)
    BY <1>1
  <2>2. Changing(todo[1]) => ~(Len(todo) > 1)
    <3> SUFFICES ASSUME Changing(todo[1]) PROVE Len(todo) <= 1
      BY <1>1
    <3>1. Len(todo) = 1
      BY <2>1 DEF Orderly
    <3> QED
      BY <3>1
  <2> QED
    BY <2>1, <2>2 DEF Orderly
<1>5. /\ todo[1].verb = "discover" => Len(todo) > 1
      /\ Len(todo) > 1 => ~Changing(todo[1])
  BY <1>1, <1>4 DEF Changing
<1>6. Changing(Head(todo)) = Changing(todo[1])
  BY <1>1
<1> QED
  BY <1>1, <1>2, <1>3, <1>4, <1>5, <1>6

(* The end of a call leaves a sound breaker.                               *)
LEMMA AnswerIsSound ==
  ASSUME ConnectorInv, NEW b, Sound(b, probes), NEW outcome, Answer(b, outcome)
  PROVE  Sound(breaker', probes')
<1>1. Threshold \in Nat /\ Threshold > 0
  BY ConnectorAssumption
<1>2. /\ b \in Breakers /\ b.failures \in Nat /\ b.until \in {"none", "open", "past"}
      /\ b.trial \in BOOLEAN
  BY DEF Sound, Breakers
<1>3. CASE outcome = "ok"
  BY <1>1, <1>3 DEF Answer, Sound, Closed, Breakers
<1>4. CASE outcome # "ok" /\ Permanent(outcome)
  BY <1>4 DEF Answer
<1>5. CASE outcome # "ok" /\ ~Permanent(outcome)
  <2>1. breaker' = Failed(b) /\ probes' = probes
    BY <1>5 DEF Answer
  <2>2. CASE b.failures >= Threshold
    <3>1. Failed(b) = [failures |-> b.failures, until |-> "open", trial |-> FALSE]
      BY <2>2 DEF Failed
    <3> QED
      BY <1>1, <1>2, <2>1, <2>2, <3>1 DEF Sound, Breakers
  <2>3. CASE b.failures + 1 = Threshold
    <3>1. ~(b.failures >= Threshold) /\ Threshold >= Threshold
      BY <1>1, <1>2, <2>3
    <3>2. Failed(b) = [failures |-> Threshold, until |-> "open", trial |-> FALSE]
      BY <2>3, <3>1 DEF Failed
    <3> QED
      BY <1>1, <1>2, <2>1, <2>3, <3>2 DEF Sound, Breakers
  <2>4. CASE b.failures + 1 < Threshold
    <3>1. Failed(b) = [b EXCEPT !.failures = b.failures + 1]
      BY <1>1, <1>2, <2>4 DEF Failed
    <3> QED
      BY <1>1, <1>2, <2>1, <2>4, <3>1 DEF Sound, Breakers
  <2> QED
    BY <1>1, <1>2, <2>2, <2>3, <2>4
<1> QED
  BY <1>3, <1>4, <1>5

(* The end of a call, with or without a use of the approval.               *)
LEMMA AnswerKeeps ==
  ASSUME ConnectorInv, NEW b, Sound(b, probes), NEW outcome, Answer(b, outcome),
         UNCHANGED <<approval, changes>>
  PROVE  ConnectorInv'
<1>1. Sound(breaker', probes')
  BY AnswerIsSound
<1>2. serving' = Idle /\ Idle \in Servings
  BY DEF Answer, Idle, Servings
<1> QED
  BY <1>1, <1>2 DEF ConnectorInv, CallIsTrial, ChangeIsApproved

(* Whoever is let through is let through to a closed breaker or is the     *)
(* trial, and the window before it has been forgotten.                     *)
LEMMA AdmittedIsSound ==
  ASSUME ConnectorInv, NEW b \in Admitted(breaker)
  PROVE  /\ Sound(b, probes)
         /\ b.until # "open"
         /\ b.failures >= Threshold => b.trial /\ probes = 0
<1>1. breaker \in Breakers /\ Sound(breaker, probes)
  BY DEF ConnectorInv, Sound
<1>2. CASE BreakerState(breaker) = "closed"
  <2>1. b = breaker
    BY <1>2 DEF Admitted
  <2>2. ~(breaker.failures >= Threshold) /\ breaker.until # "open"
    BY <1>2 DEF BreakerState
  <2> QED
    BY <1>1, <2>1, <2>2
<1>3. CASE BreakerState(breaker) = "half_open" /\ ~breaker.trial
  <2>1. b = [breaker EXCEPT !.trial = TRUE]
    BY <1>3 DEF Admitted
  <2>2. breaker.failures >= Threshold /\ breaker.until # "open"
    BY <1>3 DEF BreakerState
  <2>3. breaker.until = "past" /\ probes = 0
    BY <1>1, <1>3, <2>2 DEF Sound, Breakers
  <2> QED
    BY <1>1, <2>1, <2>2, <2>3 DEF Sound, Breakers
<1> QED
  BY <1>2, <1>3 DEF Admitted

LEMMA CallBegins ==
  ASSUME ConnectorInv, NEW tool \in Tools, BeginCall(tool)
  PROVE  ConnectorInv'
<1>1. PICK b \in Admitted(breaker) : breaker' = b
  BY DEF BeginCall
<1>2. /\ Sound(breaker', probes') /\ breaker'.until # "open"
      /\ breaker'.failures >= Threshold => breaker'.trial /\ probes' = 0
  <2>1. UNCHANGED probes
    BY DEF BeginCall
  <2> QED
    BY <1>1, <2>1, AdmittedIsSound
<1>3. Orderly(tool, RequestsOf(tool))
  BY RequestsAreOrderly
<1>4. /\ serving' = Begin(tool) /\ Begin(tool) \in Servings
      /\ serving'.tool = tool /\ serving'.todo = RequestsOf(tool)
  BY <1>3 DEF BeginCall, Begin, Servings, Orderly
<1>5. CASE tool \in Mutations
  <2>1. /\ approval = [of |-> tool, state |-> "unused"] /\ UNCHANGED changes
        /\ approval' = [approval EXCEPT !.state = "used"]
    BY <1>5 DEF BeginCall
  <2>2. approval' = [of |-> tool, state |-> "used"] /\ changes = 0
    BY <2>1 DEF ConnectorInv, ChangeIsApproved
  <2> QED
    BY <1>2, <1>3, <1>4, <1>5, <2>1, <2>2 DEF ConnectorInv, CallIsTrial, ChangeIsApproved
<1>6. CASE tool \notin Mutations
  <2>1. UNCHANGED <<approval, changes>>
    BY <1>6 DEF BeginCall
  <2> QED
    BY <1>2, <1>3, <1>4, <1>6, <2>1 DEF ConnectorInv, CallIsTrial, ChangeIsApproved
<1> QED
  BY <1>5, <1>6

(* The next requests of a call, which has not sent them.                   *)
LEMMA CallGoesOn ==
  ASSUME ConnectorInv, serving # Idle, NEW todo, Orderly(serving.tool, todo),
         ~serving.sent \/ ~Changing(Head(serving.todo)) \/ serving.tool \notin Mutations,
         NEW call \in Servings, call.tool = serving.tool, call.todo = todo,
         call.reached = serving.reached \/ call.reached,
         serving' = call,
         UNCHANGED <<breaker, approval, probes, changes>>
  PROVE  ConnectorInv'
<1>1. serving.reached \in BOOLEAN /\ call.reached \in BOOLEAN
  BY DEF ConnectorInv, Servings
<1>2. CallIsTrial'
  BY <1>1 DEF ConnectorInv, CallIsTrial
<1>3. ChangeIsApproved'
  BY DEF ConnectorInv, ChangeIsApproved
<1> QED
  BY <1>2, <1>3 DEF ConnectorInv

LEMMA RequestIsSent ==
  ASSUME ConnectorInv, SendRequest
  PROVE  ConnectorInv'
<1>1. /\ serving # Idle /\ ~serving.sent /\ serving \in Servings
      /\ Orderly(serving.tool, serving.todo)
      /\ UNCHANGED <<breaker, approval>>
  BY DEF SendRequest, Prepared, ConnectorInv, ChangeIsApproved
<1>2. PICK call \in Servings :
        /\ serving' = call /\ call.sent /\ call.reached
        /\ call.tool = serving.tool /\ call.todo = serving.todo
  <2> DEFINE r == [serving EXCEPT !.sent = TRUE, !.reached = TRUE]
  <2>1. /\ r \in Servings /\ r.sent /\ r.reached
        /\ r.tool = serving.tool /\ r.todo = serving.todo
    BY <1>1 DEF Servings
  <2>2. serving' = r
    BY DEF SendRequest
  <2> HIDE DEF r
  <2> QED
    BY <2>1, <2>2
<1>3. Sound(breaker', probes')
  <2>1. Threshold \in Nat /\ breaker.failures \in Nat /\ Sound(breaker, probes)
    BY ConnectorAssumption DEF ConnectorInv, Sound, Breakers
  <2>2. CASE breaker.failures >= Threshold /\ ~serving.reached
    <3>1. breaker.trial /\ probes' = 1
      BY <1>1, <2>1, <2>2 DEF SendRequest, ConnectorInv, CallIsTrial
    <3> QED
      BY <1>1, <2>1, <3>1 DEF Sound
  <2>3. CASE ~(breaker.failures >= Threshold /\ ~serving.reached)
    <3>1. probes' = probes
      BY <2>3 DEF SendRequest
    <3> QED
      BY <1>1, <2>1, <3>1
  <2> QED
    BY <2>2, <2>3
<1>4. CallIsTrial'
  BY <1>1, <1>2 DEF ConnectorInv, CallIsTrial
<1>5. ChangeIsApproved'
  <2>1. Changing(Head(serving.todo)) => serving.tool \in Mutations
    BY <1>1, RestIsOrderly
  <2>2. CASE Changing(Head(serving.todo))
    <3>1. changes = 0 /\ changes' = 1 /\ approval.state = "used"
      BY <1>1, <2>1, <2>2 DEF SendRequest, NextRequest, ConnectorInv, ChangeIsApproved
    <3> QED
      BY <1>1, <1>2, <2>2, <3>1 DEF ConnectorInv, ChangeIsApproved
  <2>3. CASE ~Changing(Head(serving.todo))
    <3>1. UNCHANGED changes
      BY <2>3 DEF SendRequest, NextRequest
    <3> QED
      BY <1>1, <1>2, <2>3, <3>1 DEF ConnectorInv, ChangeIsApproved
  <2> QED
    BY <2>2, <2>3
<1> QED
  BY <1>1, <1>2, <1>3, <1>4, <1>5 DEF ConnectorInv

LEMMA AnswerIsReceived ==
  ASSUME ConnectorInv, ReceiveAnswer
  PROVE  ConnectorInv'
<1>1. /\ serving # Idle /\ serving.sent /\ serving \in Servings
      /\ Orderly(serving.tool, serving.todo) /\ serving.tool \in Tools
      /\ Sound(breaker, probes)
  BY DEF ReceiveAnswer, Idle, ConnectorInv, ChangeIsApproved
<1>2. UNCHANGED <<approval, changes>>
  BY DEF ReceiveAnswer
<1>3. PICK result :
        IF FallsBack(NextRequest, result)
        THEN /\ serving' = [serving EXCEPT !.todo = Legacy, !.sent = FALSE]
             /\ UNCHANGED <<breaker, probes>>
        ELSE IF result = "ok" /\ Len(serving.todo) > 1
        THEN /\ serving' = [serving EXCEPT !.todo = Tail(@), !.sent = FALSE]
             /\ UNCHANGED <<breaker, probes>>
        ELSE IF Retries(result)
        THEN /\ serving' = [Begin(serving.tool) EXCEPT !.attempt = serving.attempt + 1, !.reached = TRUE]
             /\ UNCHANGED <<breaker, probes>>
        ELSE Answer(breaker, result)
  BY DEF ReceiveAnswer
<1>4. /\ Changing(Head(serving.todo)) => serving.tool \in Mutations
      /\ Len(serving.todo) > 1 => ~Changing(Head(serving.todo))
      /\ Head(serving.todo).version = "events" => Orderly(serving.tool, Legacy)
      /\ Head(serving.todo) \in Requests
      /\ Len(serving.todo) > 1 => Orderly(serving.tool, Tail(serving.todo))
  BY <1>1, RestIsOrderly
<1>5. ASSUME FallsBack(NextRequest, result) PROVE ConnectorInv'
  <2> DEFINE call == [serving EXCEPT !.todo = Legacy, !.sent = FALSE]
  <2>1. /\ Orderly(serving.tool, Legacy) /\ serving.tool \notin Mutations
        /\ Legacy \in Seq(Requests)
    BY <1>1, <1>4, <1>5 DEF FallsBack, NextRequest, Orderly
  <2>2. /\ call \in Servings /\ call.tool = serving.tool /\ call.todo = Legacy
        /\ call.reached = serving.reached
    BY <1>1, <2>1 DEF Servings
  <2>3. serving' = call /\ UNCHANGED <<breaker, probes>>
    BY <1>3, <1>5
  <2> HIDE DEF call
  <2> QED
    BY <1>1, <1>2, <2>1, <2>2, <2>3, CallGoesOn
<1>6. ASSUME ~FallsBack(NextRequest, result), result = "ok" /\ Len(serving.todo) > 1
      PROVE  ConnectorInv'
  <2> DEFINE rest == Tail(serving.todo)
             call == [serving EXCEPT !.todo = rest, !.sent = FALSE]
  <2>1. Orderly(serving.tool, rest) /\ rest \in Seq(Requests)
    BY <1>4, <1>6 DEF Orderly
  <2>2. ~Changing(Head(serving.todo))
    BY <1>4, <1>6
  <2>3. serving' = call /\ UNCHANGED <<breaker, probes>>
    BY <1>3, <1>6
  <2> HIDE DEF rest
  <2>4. /\ call \in Servings /\ call.tool = serving.tool /\ call.todo = rest
        /\ call.reached = serving.reached
    BY <1>1, <2>1 DEF Servings
  <2> HIDE DEF call
  <2> QED
    BY <1>1, <1>2, <2>1, <2>2, <2>3, <2>4, CallGoesOn
<1>7. ASSUME ~FallsBack(NextRequest, result), ~(result = "ok" /\ Len(serving.todo) > 1),
             Retries(result)
      PROVE  ConnectorInv'
  <2> DEFINE begun == Begin(serving.tool)
             call == [begun EXCEPT !.attempt = serving.attempt + 1, !.reached = TRUE]
  <2>1. Orderly(serving.tool, RequestsOf(serving.tool)) /\ serving.tool \notin Mutations
    BY <1>1, <1>7, RequestsAreOrderly DEF Retries
  <2>2. begun \in Servings /\ begun.tool = serving.tool /\ begun.todo = RequestsOf(serving.tool)
    BY <1>1, <2>1 DEF Begin, Servings, Orderly
  <2>3. serving' = call /\ UNCHANGED <<breaker, probes>>
    BY <1>3, <1>7
  <2>4. serving.attempt + 1 \in Nat
    BY <1>1 DEF Servings
  <2> HIDE DEF begun
  <2>5. /\ call \in Servings /\ call.tool = serving.tool /\ call.todo = RequestsOf(serving.tool)
        /\ call.reached
    BY <2>2, <2>4 DEF Servings
  <2> HIDE DEF call
  <2> QED
    BY <1>1, <1>2, <2>1, <2>3, <2>5, CallGoesOn
<1>8. ASSUME ~FallsBack(NextRequest, result), ~(result = "ok" /\ Len(serving.todo) > 1),
             ~Retries(result)
      PROVE  ConnectorInv'
  <2>1. Answer(breaker, result)
    BY <1>3, <1>8
  <2> QED
    BY <1>1, <1>2, <2>1, AnswerKeeps
<1> QED
  BY <1>5, <1>6, <1>7, <1>8

LEMMA ConnectorInitially == ConnectorInit => ConnectorInv
<1> SUFFICES ASSUME ConnectorInit PROVE ConnectorInv
  OBVIOUS
<1>1. Idle \in Servings
  BY DEF Idle, Servings
<1>2. Sound(breaker, probes)
  BY ConnectorAssumption DEF ConnectorInit, Closed, Sound, Breakers
<1> QED
  BY <1>1, <1>2 DEF ConnectorInit, ConnectorInv, CallIsTrial, ChangeIsApproved

LEMMA ConnectorStep ==
  ASSUME ConnectorInv, [ConnectorNext]_connectorVars
  PROVE  ConnectorInv'
<1>1. CASE RefuseCall
  <2>1. Answer(breaker, "connect") /\ UNCHANGED <<approval, changes>> /\ Sound(breaker, probes)
    BY <1>1 DEF RefuseCall, ConnectorInv
  <2> QED
    BY <2>1, AnswerKeeps
<1>2. CASE AnswerAtOnce
  <2>1. PICK b \in Admitted(breaker), outcome \in {"internal", "ok", "config"} : Answer(b, outcome)
    BY <1>2 DEF AnswerAtOnce
  <2>2. Sound(b, probes) /\ UNCHANGED <<approval, changes>>
    BY <1>2, AdmittedIsSound DEF AnswerAtOnce
  <2> QED
    BY <2>1, <2>2, AnswerKeeps
<1>3. CASE UseDiscovery
  <2> DEFINE rest == Tail(serving.todo)
             call == [serving EXCEPT !.todo = rest]
  <2>1. /\ serving # Idle /\ ~serving.sent /\ serving \in Servings
        /\ Orderly(serving.tool, serving.todo) /\ Head(serving.todo).verb = "discover"
        /\ UNCHANGED <<breaker, approval, probes, changes>>
        /\ serving' = call
    BY <1>3 DEF UseDiscovery, Prepared, NextRequest, ConnectorInv, ChangeIsApproved
  <2>2. Orderly(serving.tool, rest) /\ rest \in Seq(Requests)
    BY <2>1, RestIsOrderly DEF Orderly
  <2> HIDE DEF rest
  <2>3. /\ call \in Servings /\ call.tool = serving.tool /\ call.todo = rest
        /\ call.reached = serving.reached
    BY <2>1, <2>2 DEF Servings
  <2> HIDE DEF call
  <2> QED
    BY <2>1, <2>2, <2>3, CallGoesOn
<1>4. CASE RefuseArguments
  <2>1. /\ serving # Idle /\ ~serving.sent /\ serving \in Servings
        /\ Orderly(serving.tool, serving.todo)
        /\ UNCHANGED <<approval, changes>>
    BY <1>4 DEF RefuseArguments, Prepared, ConnectorInv, ChangeIsApproved
  <2>2. PICK error :
          \/ Answer(breaker, error)
          \/ /\ FallsBack(NextRequest, error)
             /\ serving' = [serving EXCEPT !.todo = Legacy]
             /\ UNCHANGED <<breaker, probes>>
    BY <1>4 DEF RefuseArguments
  <2>3. ASSUME Answer(breaker, error) PROVE ConnectorInv'
    <3>1. Sound(breaker, probes)
      BY DEF ConnectorInv
    <3> QED
      BY <2>1, <2>3, <3>1, AnswerKeeps
  <2>4. ASSUME FallsBack(NextRequest, error), serving' = [serving EXCEPT !.todo = Legacy],
               UNCHANGED <<breaker, probes>>
        PROVE  ConnectorInv'
    <3> DEFINE call == [serving EXCEPT !.todo = Legacy]
    <3>1. Orderly(serving.tool, Legacy) /\ Legacy \in Seq(Requests)
      BY <2>1, <2>4, RestIsOrderly DEF FallsBack, NextRequest, Orderly
    <3>2. /\ call \in Servings /\ call.tool = serving.tool /\ call.todo = Legacy
          /\ call.reached = serving.reached
      BY <2>1, <3>1 DEF Servings
    <3>3. serving' = call
      BY <2>4
    <3> HIDE DEF call
    <3> QED
      BY <2>1, <2>4, <3>1, <3>2, <3>3, CallGoesOn
  <2> QED
    BY <2>2, <2>3, <2>4
<1>5. CASE DiscoveryExpires
  BY <1>5 DEF DiscoveryExpires, ConnectorInv, CallIsTrial, ChangeIsApproved
<1>6. CASE WindowEnds
  <2>1. breaker \in Breakers /\ breaker.until = "open" /\ Sound(breaker, probes)
    BY <1>6 DEF WindowEnds, ConnectorInv, Sound
  <2>2. breaker' = [breaker EXCEPT !.until = "past"] /\ probes' = 0
    BY <1>6 DEF WindowEnds
  <2>3. Sound(breaker', probes')
    BY <2>1, <2>2 DEF Sound, Breakers
  <2>4. serving = Idle /\ UNCHANGED <<serving, approval, changes>>
    BY <1>6, <2>1 DEF WindowEnds, ConnectorInv, CallIsTrial
  <2> QED
    BY <2>3, <2>4 DEF ConnectorInv, CallIsTrial, ChangeIsApproved
<1>7. CASE UNCHANGED connectorVars
  BY <1>7 DEF connectorVars, ConnectorInv, CallIsTrial, ChangeIsApproved
<1> QED
  BY <1>1, <1>2, <1>3, <1>4, <1>5, <1>6, <1>7, RequestIsSent, AnswerIsReceived, CallBegins
     DEF ConnectorNext

(* After Threshold failures one call reaches the API server in a window,   *)
(* and one approval sends one change, for every threshold and number of    *)
(* attempts.                                                               *)
THEOREM ServerIsSpared == ConnectorSpec => []BackendSpared
<1>1. ConnectorInv => BackendSpared
  BY DEF ConnectorInv, Sound, ChangeIsApproved, BackendSpared
<1> QED
  BY <1>1, ConnectorInitially, ConnectorStep, PTL DEF ConnectorSpec
=============================================================================
